------------------------------ MODULE Identity ------------------------------
(***************************************************************************)
(* A signed-in user's identity and email credential: the handlers of       *)
(* APIService that read the caller's users row first (UserMeGet,           *)
(* UserUpdatePut, UserMeEmailCredentialGet and -Put,                       *)
(* UserMeRequestEmailCredentialPost), with the users and email_credentials *)
(* tables and the issuer.                                                  *)
(*                                                                         *)
(* As in Signin a request is a process and one action is one external      *)
(* call.  The row a handler read stays in its local variables (ic) while   *)
(* other requests of the same account go on.                               *)
(***************************************************************************)
EXTENDS Issuance, FiniteSets

CONSTANTS
    Reqs,      \* request goroutines that may run at the same time
    Accounts,  \* [id, email] of the accounts that Signin creates
    Ghosts,    \* [id, email] of JWTs whose users row was removed by hand
    Uploads    \* bound: the bodies clients send to PUT /user/update

ASSUME AccountsAssumption ==
    /\ \A a, b \in Accounts \cup Ghosts :
          /\ a = [id |-> a.id, email |-> a.email] /\ Empty \notin {a.id, a.email}
          /\ a.id = b.id => a = b
    /\ \A a, b \in Accounts : a.email = b.email => a = b

VARIABLES
    users,       \* Postgres: the users table
    emailCreds,  \* Postgres: the email_credentials table
    issued,      \* email credentials the issuer signed and a client received
    reqs,        \* the handlers that run
    saved,       \* history: accounts told 201 for a credential they stored
                 \* after their identity was settled
    uploaded     \* history: the commitments an account set its row to

vars == <<users, emailCreds, issued, reqs, saved, uploaded>>

-----------------------------------------------------------------------------
\* The claims authMiddleware puts in the context; a context without them makes
\* every handler here answer 401.
NoClaims == [id |-> Empty, email |-> Empty]
Claims == Accounts \cup Ghosts \cup {NoClaims}

\* A JWT names an account whose row sign-in had found or inserted before.
Bearers ==
    {a \in Accounts : GetUserByID(users, a.id) # {}} \cup Ghosts \cup {NoClaims}

Blank == [identityCommitment |-> Empty, encryptedInternalNullifier |-> Empty,
          encryptedIdentitySecret |-> Empty]

\* The bodies of PUT /user/update: any three strings, from anybody.  A field
\* that was left out decodes to the empty string, and nothing checks that the
\* fields belong together, or that nobody else uploaded them.
UserUpdate == [DOMAIN Blank -> Idents \cup {Empty}]

ASSUME UploadsAssumption == Uploads \subseteq UserUpdate

Ops == {"me", "update", "getCred", "putCred", "requestCred"}
Busy == {"readUser", "updateUser", "getCred", "putCred", "sign"}

NoRequest ==
    [op |-> Empty, pc |-> "idle", claims |-> NoClaims, upd |-> Blank,
     ic |-> Empty, late |-> FALSE, sees |-> FALSE, status |-> 0, body |-> Empty]

Free(r) == reqs[r].pc \notin Busy
At(r, pc) == reqs[r].pc = pc
UID(r) == reqs[r].claims.id

Answer(r, status, body) ==
    reqs' = [reqs EXCEPT ![r] =
                [NoRequest EXCEPT !.pc = "done", !.status = status, !.body = body]]

-----------------------------------------------------------------------------
(* When an identity is settled                                             *)

\* The test of UserUpdatePut: all three fields are set.
Complete(u) ==
    /\ u.identityCommitment # Empty
    /\ u.encryptedInternalNullifier # Empty
    /\ u.encryptedIdentitySecret # Empty

\* ... and no update that read the row before is still to write it.
Settled(id) ==
    /\ \E u \in GetUserByID(users, id) : Complete(u)
    /\ ~ \E q \in Reqs : At(q, "updateUser") /\ UID(q) = id

-----------------------------------------------------------------------------
\* late and sees record what was so when the request came in.
Receive(r, op, claims, upd) ==
    /\ Free(r)
    /\ op # "update" => upd = Blank
    /\ IF claims.id = Empty \/ claims.email = Empty
       THEN Answer(r, 401, Empty)
       ELSE reqs' = [reqs EXCEPT ![r] = [NoRequest EXCEPT
                        !.op = op, !.pc = "readUser", !.claims = claims,
                        !.upd = upd, !.late = Settled(claims.id),
                        !.sees = claims.id \in saved]]
    /\ UNCHANGED <<users, emailCreds, issued, saved, uploaded>>

\* What the handlers refuse with a 400 once they have the row: an update of a
\* complete identity, a credential for an identity that is not set.
Refused_CompleteRow(op, u) ==  \* mutant: no check before the update
    op \in {"putCred", "requestCred"} /\ u.identityCommitment = Empty
Refused_NoCommitment(op, u) ==  \* mutant: no check before the credential
    op = "update" /\ Complete(u)
Refused(op, u) ==
    \/ op = "update" /\ Complete(u)
    \/ op \in {"putCred", "requestCred"} /\ u.identityCommitment = Empty

\* The call that follows GetUserByID, and the one answer that needs none.
NextCall ==
    [update |-> "updateUser", getCred |-> "getCred", putCred |-> "putCred",
     requestCred |-> "sign"]
NothingToGet(op, u) == op = "getCred" /\ u.identityCommitment = Empty

\* The two shapes a users row is sent in: MarshalUser of it, or the row itself.
MarshalUser == "openapi.User"
RawUser == "users.User"

\* GetUserByID is the first call of every handler.
UserRead(r, u) ==
    LET op == reqs[r].op IN
    \/ op = "me" /\ Answer(r, 200, MarshalUser)
    \/ Refused(op, u) /\ Answer(r, 400, Empty)
    \/ NothingToGet(op, u) /\ Answer(r, 200, Empty)
    \/ /\ op # "me" /\ ~Refused(op, u) /\ ~NothingToGet(op, u)
       /\ reqs' = [reqs EXCEPT ![r].pc = NextCall[op],
                               ![r].ic = u.identityCommitment]

ReadUser(r) ==
    /\ At(r, "readUser")
    /\ \/ \E u \in GetUserByID(users, UID(r)) : UserRead(r, u)
       \/ GetUserByID(users, UID(r)) = {} /\ Answer(r, 404, Empty)
       \/ Answer(r, 500, Empty)
    /\ UNCHANGED <<users, emailCreds, issued, saved, uploaded>>

WriteUser_ByCommitment(r) ==  \* mutant: WHERE identity_commitment is the one read
    /\ At(r, "updateUser")
    /\ \E u \in users : /\ u.identityCommitment = reqs[r].ic
                       /\ users' = UpdateUser(users, u.id, reqs[r].upd)
    /\ uploaded' = uploaded \cup NewUpload(UID(r), reqs[r].upd.identityCommitment)
    /\ Answer(r, 200, RawUser)
    /\ UNCHANGED <<emailCreds, issued, saved>>
\* UPDATE of the row, whatever it holds by now; without a row to return it is
\* an error.  The handler answers with the database row, not MarshalUser of it.
WriteUser(r) ==
    /\ At(r, "updateUser")
    /\ \/ /\ GetUserByID(users, UID(r)) # {}
          /\ users' = UpdateUser(users, UID(r), reqs[r].upd)
          /\ uploaded' = uploaded \cup NewUpload(UID(r), reqs[r].upd.identityCommitment)
          /\ Answer(r, 200, RawUser) \/ Answer(r, 500, Empty)
       \/ UNCHANGED <<users, uploaded>> /\ Answer(r, 500, Empty)
    /\ UNCHANGED <<emailCreds, issued, saved>>

GetEmailCredential(r) ==
    /\ At(r, "getCred")
    /\ \/ \E c \in GetByIdentityCommitment(emailCreds, reqs[r].ic) :
             Answer(r, 200, c.data)
       \/ GetByIdentityCommitment(emailCreds, reqs[r].ic) = {} /\ Answer(r, 200, Empty)
       \/ Answer(r, 500, Empty)
    /\ UNCHANGED <<users, emailCreds, issued, saved, uploaded>>

\* The upsert, under the commitment read before.  The data is the client's
\* ciphertext: all the model keeps of it is who encrypted it.
PutEmailCredential(r) ==
    /\ At(r, "putCred")
    /\ \/ /\ emailCreds' = CreateOrUpdateEmailCredential(
                                emailCreds, reqs[r].ic, reqs[r].claims.email)
          /\ \/ /\ Answer(r, 201, Empty)
                /\ saved' = saved \cup {id \in {UID(r)} : reqs[r].late}
             \/ Answer(r, 500, Empty) /\ UNCHANGED saved
       \/ UNCHANGED <<emailCreds, saved>> /\ Answer(r, 500, Empty)
    /\ UNCHANGED <<users, issued, uploaded>>

RequestEmailCredential(r) ==
    /\ At(r, "sign")
    /\ \/ \E c \in GenerateSignedCredential(Service.emailCredentialContextID,
                reqs[r].claims.email, reqs[r].claims.email, reqs[r].ic) :
             issued' = issued \cup {c} /\ Answer(r, 201, Empty)
       \/ UNCHANGED issued /\ Answer(r, 500, Empty)
    /\ UNCHANGED <<users, emailCreds, saved, uploaded>>

\* UserLoginPost (module Signin) inserts the row of an account that logs in for
\* the first time.
SignUp(a) ==
    /\ UserKeysFree(users, a.id, a.email)
    /\ users' = users \cup {NewUser(a.id, a.email)}
    /\ UNCHANGED <<emailCreds, issued, reqs, saved, uploaded>>

\* The backend process dies: every handler stops where it is.
BackendCrash ==
    /\ \E r \in Reqs : ~Free(r)
    /\ reqs' = [r \in Reqs |-> NoRequest]
    /\ UNCHANGED <<users, emailCreds, issued, saved, uploaded>>

-----------------------------------------------------------------------------
Init ==
    /\ users = {}
    /\ emailCreds = {}
    /\ issued = {}
    /\ reqs = [r \in Reqs |-> NoRequest]
    /\ saved = {}
    /\ uploaded = {}

Step(r) ==
    \/ ReadUser(r)
    \/ WriteUser(r)
    \/ GetEmailCredential(r)
    \/ PutEmailCredential(r)
    \/ RequestEmailCredential(r)

Next ==
    \/ \E r \in Reqs :
          \/ \E op \in Ops, claims \in Bearers :
                \E upd \in Uploads \cup {Blank} : Receive(r, op, claims, upd)
          \/ Step(r)
    \/ \E a \in Accounts : SignUp(a)
    \/ BackendCrash

Spec == Init /\ [][Next]_vars

-----------------------------------------------------------------------------
(* Properties                                                              *)

AllClaims == Accounts \cup Ghosts
IDs == {a.id : a \in AllClaims}
Addresses == {a.email : a \in AllClaims}

Request ==
    [op : Ops \cup {Empty}, pc : Busy \cup {"idle", "done"}, claims : Claims,
     upd : Uploads \cup {Blank},
     ic : Idents \cup {Empty}, late : BOOLEAN, sees : BOOLEAN,
     status : {0, 200, 201, 400, 401, 404, 500},
     body : Addresses \cup {Empty, MarshalUser, RawUser}]

\* Every variable holds values of its type, and a handler past its first read
\* that uses a commitment has one.
TypeOK ==
    /\ users \subseteq UserRow(IDs, Addresses, Idents)
    /\ emailCreds \subseteq [identityCommitment : Idents, data : Addresses]
    /\ \A c \in issued : c.identityCommitment \in Int /\ c.email \in Addresses
    /\ reqs \in [Reqs -> Request]
    /\ \A r \in Reqs : /\ reqs[r].pc \in Busy => reqs[r].claims \in AllClaims
                      /\ reqs[r].pc \in {"getCred", "putCred", "sign"}
                            => reqs[r].ic \in Idents
    /\ saved \subseteq IDs
    /\ uploaded \subseteq [id : IDs, commitment : Idents]

\* Once an account has a complete identity and no update that read the row
\* before is on its way, the row is final: no request, in any interleaving,
\* changes it again (the check of UserUpdatePut, made in another statement
\* than the update).
SettledIdentityIsFinal ==
    [][\A a \in Accounts :
         Settled(a.id) => /\ GetUserByID(users', a.id) = GetUserByID(users, a.id)
                          /\ Settled(a.id)']_vars

\* A row never mixes the fields of two uploads, whatever updates raced for it
\* and whatever fields they left out: it holds what some client sent in one
\* body (UpdateUser writes all three columns), or nothing yet.
NoTornIdentity ==
    \A u \in users : [f \in DOMAIN Blank |-> u[f]] \in Uploads \cup {Blank}

\* A commitment read by a request that came in after the identity was settled
\* is still the account's when the request uses it to look up, to store or to
\* sign a credential.
NoStaleCommitment ==
    \A r \in Reqs :
        reqs[r].late /\ reqs[r].pc \in {"getCred", "putCred", "sign"}
            => \E u \in GetUserByID(users, UID(r)) :
                  u.identityCommitment = reqs[r].ic

\* What the issuer signs for an address names a commitment that an account of
\* this address uploaded, though the two come from two places (the JWT and the
\* row read before): never what only another account uploaded, and never the 0
\* that BigInt makes of a row that was not set.
CredentialsBindUploader ==
    \A c \in issued : NamesUpload(c, uploaded, AllClaims)

\* A stored email credential is found again: once PUT answered 201 to a request
\* that came in after the identity was settled, every GET that comes in later
\* and is answered 200 returns a credential.  It is one that an account stored
\* which uploaded the very commitment it is looked up by: the caller's own,
\* unless another account uploaded the same one.
StoredCredentialIsFound ==
    [][\A r \in Reqs :
         reqs[r].op = "getCred" /\ reqs[r].sees /\ reqs'[r].status = 200
            => \E p \in uploaded, a \in AllClaims :
                  /\ p.commitment = reqs[r].ic
                  /\ a.id = p.id /\ a.email = reqs'[r].body]_vars

\* The commitments as the ticket handlers see them, who read no other column.
Commitments ==
    {[u EXCEPT !.encryptedInternalNullifier = u.identityCommitment,
               !.encryptedIdentitySecret = u.identityCommitment] : u \in users}

TicketsView == INSTANCE Tickets WITH
    users <- Commitments, registrations <- {}, ticketCreds <- {}, issued <- {},
    reqs <- [r \in Reqs |-> NoRequest], invited <- {}, EventIDs <- {}, Events <- {}

\* The users table changes under the ticket handlers only as module Tickets
\* lets it: a row is added by a sign-up, or the row of one account is set to a
\* commitment or to none and this account recorded as its uploader, so that
\* what holds of tickets there holds beside these handlers.
WritesAsTicketsAssumes ==
    [][\/ UNCHANGED <<Commitments, uploaded>>
       \/ \E a \in Accounts : TicketsView!SignUp(a)
       \/ \E a \in Accounts, i \in Idents \cup {Empty} :
             TicketsView!UpdateIdentity(a, i)]_<<users, uploaded>>

-----------------------------------------------------------------------------
(* What the code says of itself, and does not keep                         *)

\* "Identity fields have already been set, cannot update again": a complete
\* row is never changed.
IdentityWrittenOnce ==
    [][\A u \in users : Complete(u) => u \in users']_vars

\* A credential names the chain and the context the operator configured for it.
ConfiguredChain ==
    \A c \in issued :
        c.chainID = IssuerChainID /\ c.context = EmailCredentialContextID
=============================================================================
