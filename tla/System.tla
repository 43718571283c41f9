------------------------------- MODULE System --------------------------------
(***************************************************************************)
(* The backend process with its stores, from the first code to the last    *)
(* credential: the handlers of Signin beside those of Backend.             *)
(*                                                                         *)
(* They meet in the users table, in the JWTs (a request carries the claims *)
(* of a token that a login handed out, which is what module Gateway is     *)
(* about), and in a crash, which stops all handlers.                       *)
(***************************************************************************)
EXTENDS Backend, Naturals

CONSTANTS
    LoginReqs,        \* the goroutines of sign-in requests
    Emails, RawEmails, ParseAddress, BadEmail, Codes, UserIDs, MaxCodes
                      \* as in Signin

ASSUME ParseAssumption == ParseAddress \in [RawEmails -> Emails \cup {BadEmail}]
ASSUME CodesAssumption == Empty \notin Codes
ASSUME LoginReqsAssumption == IsFiniteSet(LoginReqs)
ASSUME BadEmailAssumption == BadEmail \notin Emails

\* The uuid of a row that was removed is not drawn again.
ASSUME GhostsAssumption == Accounts \cap Ghosts = {}

VARIABLES
    codeCache, mailed, tokens, stored, logins,  \* as in Signin
    loginReqs                                   \* the sign-in handlers that run

loginVars == <<codeCache, loginReqs, mailed, tokens, stored, logins>>
systemVars == <<backendVars, loginVars>>

S == INSTANCE Signin WITH Reqs <- LoginReqs, reqs <- loginReqs

-----------------------------------------------------------------------------
\* A row that sign-in inserts is that of one of Accounts.  These are fixed in
\* advance, though the uuid is drawn when the row is inserted: an address gets
\* one row, ever, so whatever rows a behaviour inserts are such a set.
SignIn(l) ==
    /\ S!Receive(l) \/ S!Step(l)
    /\ users' = users \/ \E a \in Accounts : SignUp(a)
    /\ UNCHANGED <<emailCreds, issued, reqs, saved, uploaded, ticketVars, lateTickets, named>>

LoseCodes ==
    /\ (\E e \in Emails : S!ExpireCode(e)) \/ S!RedisRestart
    /\ UNCHANGED backendVars

\* A client has the JWTs of logins, and those of accounts removed by hand.
Carried == tokens \cup Ghosts \cup {NoClaims}

Serve ==
    /\ Handle
    /\ \A r \in Reqs : reqs'[r].claims \in Carried
    /\ \A t \in TicketReqs : ticketReqs'[t].claims \in Carried
    /\ UNCHANGED loginVars

SystemCrash ==
    /\ Crash
    /\ \/ S!BackendCrash
       \/ (\A l \in LoginReqs : S!Free(l)) /\ UNCHANGED loginVars

-----------------------------------------------------------------------------
SystemInit == BackendInit /\ S!Init

SystemNext ==
    \/ \E l \in LoginReqs : SignIn(l)
    \/ LoseCodes
    \/ Serve
    \/ SystemCrash

SystemSpec == SystemInit /\ [][SystemNext]_systemVars

-----------------------------------------------------------------------------
(* Properties                                                              *)

\* The users table as sign-in sees it, which reads no identity column.
Accountholders == {NewUser(u.id, u.email) : u \in users}

SigninOfSystem == INSTANCE Signin WITH
    Reqs <- LoginReqs, reqs <- loginReqs, users <- Accountholders

\* Every variable holds values of its type, and a JWT names an account.
SystemTypeOK ==
    /\ BackendTypeOK
    /\ SigninOfSystem!TypeOK
    /\ tokens \subseteq Accounts

\* What a credential is for: no credential names an address that nobody logged
\* in to with a code of its own, stored for that address; and it names an
\* identity that the account logged in to uploaded.
CredentialsNeedLogin ==
    \A c \in issued \cup tickets :
        /\ 0 < logins[c.email] /\ logins[c.email] <= stored[c.email]
        /\ NamesUpload(c, uploaded, tokens)

\* Beside sign-in, identities and tickets are handled as module Backend says,
\* and beside them sign-in as module Signin says.
BackendAsAlone == BackendSpec
SigninAsAlone == SigninOfSystem!Spec
=============================================================================
