------------------------------- MODULE Signin -------------------------------
(***************************************************************************)
(* Sign-in by emailed code: the two handlers of APIService that need no    *)
(* JWT and change state, UserRequestVerificationCodePost and               *)
(* UserLoginPost, with the Redis keys "sign_in_code:<email>" and the users *)
(* table they share.                                                       *)
(*                                                                         *)
(* net/http runs every request in a goroutine of its own, so a request r   *)
(* is a process: reqs[r] holds its handler's local variables and the call  *)
(* it makes next (pc).  One action is one call to Redis or Postgres with   *)
(* all the local work up to the next call.  A call may fail before the     *)
(* store acts or after it (the reply is lost, or the client went away and  *)
(* r.Context() was cancelled): the handler answers 500 to both.            *)
(***************************************************************************)
EXTENDS Database, Naturals, FiniteSets

CONSTANTS
    Reqs,          \* request goroutines that may run at the same time
    Emails,        \* addresses mail.ParseAddress returns
    RawEmails,     \* what a client may put in the "email" field
    ParseAddress,  \* the address of a raw email, or BadEmail
    BadEmail,
    Codes,         \* sign-in codes generateEmailSigninCode may draw
    UserIDs,       \* what uuid.NewString may return
    MaxCodes       \* bound: no new code is asked for once so many were stored

ASSUME ParseAssumption == ParseAddress \in [RawEmails -> Emails \cup {BadEmail}]
ASSUME CodesAssumption == Empty \notin Codes
ASSUME ReqsAssumption == IsFiniteSet(Reqs)
ASSUME BadEmailAssumption == BadEmail \notin Emails

VARIABLES
    codeCache,  \* Redis: the code stored under an address's key
    users,      \* Postgres: the users table
    reqs,       \* the handlers that run
    mailed,     \* codes sendSigninCodeToEmail sent to an address
    tokens,     \* identity claims of the JWTs handed out
    stored,     \* history: codes Redis stored for an address
    logins      \* history: successful logins of an address

vars == <<codeCache, users, reqs, mailed, tokens, stored, logins>>

\* The Redis key does not exist (redis.Nil).
NoCode == Empty

\* A handler that waits for the result of the next external call.
Busy == {"getCode", "setNX", "sendMail", "getDel", "getUser", "createUser"}
Statuses == {200, 400, 401, 429, 500}

\* A handler past its validation has an address, and a code where it is about
\* to store, mail or compare one.
Request ==
    {q \in [pc : Busy \cup {"idle", "done"},
            email : Emails \cup {Empty},
            code : Codes \cup {Empty},
            status : Statuses \cup {0}] :
        /\ q.pc \in Busy => q.email \in Emails
        /\ q.pc \in {"setNX", "sendMail", "getDel"} => q.code \in Codes}

NoRequest == [pc |-> "idle", email |-> Empty, code |-> Empty, status |-> 0]
Answered(status) == [NoRequest EXCEPT !.pc = "done", !.status = status]

-----------------------------------------------------------------------------
Free(r) == reqs[r].pc \notin Busy
At(r, pc) == reqs[r].pc = pc
Email(r) == reqs[r].email

Answer(r, status) == reqs' = [reqs EXCEPT ![r] = Answered(status)]
Goto(r, pc) == reqs' = [reqs EXCEPT ![r].pc = pc]

-----------------------------------------------------------------------------
(* POST /v1/user/request-verification-code                                 *)

RequestCode_NotValidated(r, raw) ==  \* mutant: the parse error is dropped
    /\ Free(r)
    /\ \A e \in Emails : stored[e] < MaxCodes
    /\ reqs' = [reqs EXCEPT ![r] = [NoRequest EXCEPT
                    !.pc = "getCode", !.email = ParseAddress[raw]]]
    /\ UNCHANGED <<codeCache, users, mailed, tokens, stored, logins>>

RequestCode(r, raw) ==
    /\ Free(r)
    /\ \A e \in Emails : stored[e] < MaxCodes
    /\ IF ParseAddress[raw] = BadEmail
       THEN Answer(r, 400)
       ELSE reqs' = [reqs EXCEPT ![r] = [NoRequest EXCEPT
                        !.pc = "getCode", !.email = ParseAddress[raw]]]
    /\ UNCHANGED <<codeCache, users, mailed, tokens, stored, logins>>

\* GET.  A key that exists ends the request; on a miss the handler draws a
\* code.  500 is a Redis error or a failure of crypto/rand.
GetCachedCode(r) ==
    /\ At(r, "getCode")
    /\ \/ codeCache[Email(r)] # NoCode /\ Answer(r, 429)
       \/ /\ codeCache[Email(r)] = NoCode
          /\ \E c \in Codes :
                reqs' = [reqs EXCEPT ![r].pc = "setNX", ![r].code = c]
       \/ Answer(r, 500)
    /\ UNCHANGED <<codeCache, users, mailed, tokens, stored, logins>>

StoreIfAbsent_Set(e, c) ==  \* mutant: SET in place of SETNX
    /\ codeCache' = [codeCache EXCEPT ![e] = c]
    /\ stored' = [stored EXCEPT ![e] = @ + 1]

\* What SETNX does in Redis: an existing key keeps its value.
StoreIfAbsent(e, c) ==
    IF codeCache[e] = NoCode
    THEN /\ codeCache' = [codeCache EXCEPT ![e] = c]
         /\ stored' = [stored EXCEPT ![e] = @ + 1]
    ELSE UNCHANGED <<codeCache, stored>>

\* SETNX.  The handler looks at the error only, not at whether the key was
\* set: it goes on to mail its code either way.
CacheCode(r) ==
    /\ At(r, "setNX")
    /\ \/ StoreIfAbsent(Email(r), reqs[r].code) /\ Goto(r, "sendMail")
       \/ StoreIfAbsent(Email(r), reqs[r].code) /\ Answer(r, 500)
       \/ UNCHANGED <<codeCache, stored>> /\ Answer(r, 500)
    /\ UNCHANGED <<users, mailed, tokens, logins>>

SendSigninCodeToEmail(r) ==
    /\ At(r, "sendMail")
    /\ mailed' = [mailed EXCEPT ![Email(r)] = @ \cup {reqs[r].code}]
    /\ Answer(r, 200)
    /\ UNCHANGED <<codeCache, users, tokens, stored, logins>>

-----------------------------------------------------------------------------
(* POST /v1/user/login                                                     *)

Login(r, raw, code) ==
    /\ Free(r)
    /\ IF ParseAddress[raw] = BadEmail \/ code = Empty
       THEN Answer(r, 400)
       ELSE reqs' = [reqs EXCEPT ![r] = [NoRequest EXCEPT
                !.pc = "getDel", !.email = ParseAddress[raw], !.code = code]]
    /\ UNCHANGED <<codeCache, users, mailed, tokens, stored, logins>>

TakeCode_Get(r) ==  \* mutant: GET in place of GETDEL
    /\ At(r, "getDel")
    /\ \/ codeCache[Email(r)] = reqs[r].code /\ Goto(r, "getUser")
       \/ codeCache[Email(r)] # reqs[r].code /\ Answer(r, 401)
       \/ Answer(r, 500)
    /\ UNCHANGED <<codeCache, users, mailed, tokens, stored, logins>>

TakeCode_NotCompared(r) ==  \* mutant: the codes are not compared
    /\ At(r, "getDel")
    /\ \/ /\ codeCache' = [codeCache EXCEPT ![Email(r)] = NoCode]
          /\ \/ codeCache[Email(r)] # NoCode /\ Goto(r, "getUser")
             \/ codeCache[Email(r)] = NoCode /\ Answer(r, 401)
             \/ Answer(r, 500)
       \/ UNCHANGED codeCache /\ Answer(r, 500)
    /\ UNCHANGED <<users, mailed, tokens, stored, logins>>

TakeCode_Unchecked(r) ==  \* mutant: any code will do, even for no code
    /\ At(r, "getDel")
    /\ codeCache' = [codeCache EXCEPT ![Email(r)] = NoCode]
    /\ Goto(r, "getUser")
    /\ UNCHANGED <<users, mailed, tokens, stored, logins>>

\* GETDEL takes the key out whether or not the client's code is right; only
\* the handler that got the matching code goes on.
TakeCode(r) ==
    /\ At(r, "getDel")
    /\ \/ /\ codeCache' = [codeCache EXCEPT ![Email(r)] = NoCode]
          /\ \/ codeCache[Email(r)] = reqs[r].code /\ Goto(r, "getUser")
             \/ codeCache[Email(r)] # reqs[r].code /\ Answer(r, 401)
             \/ Answer(r, 500)
       \/ UNCHANGED codeCache /\ Answer(r, 500)
    /\ UNCHANGED <<users, mailed, tokens, stored, logins>>

\* GenerateJWT for a row of users, and the 200 that carries the token; a
\* signing error is a 500.
LogIn(r, u) ==
    \/ /\ tokens' = tokens \cup {[id |-> u.id, email |-> u.email]}
       /\ logins' = [logins EXCEPT ![u.email] = @ + 1]
       /\ Answer(r, 200)
    \/ UNCHANGED <<tokens, logins>> /\ Answer(r, 500)

FindUser(r) ==
    /\ At(r, "getUser")
    /\ \/ \E u \in GetUserByEmail(users, Email(r)) : LogIn(r, u)
       \/ /\ GetUserByEmail(users, Email(r)) = {}
          /\ Goto(r, "createUser")
          /\ UNCHANGED <<tokens, logins>>
       \/ Answer(r, 500) /\ UNCHANGED <<tokens, logins>>
    /\ UNCHANGED <<codeCache, users, mailed, stored>>

CreateUser_Retry(r) ==  \* mutant: a failed insert goes back to the select
    /\ At(r, "createUser")
    /\ \/ \E id \in UserIDs :
            /\ UserKeysFree(users, id, Email(r))
            /\ users' = users \cup {NewUser(id, Email(r))}
            /\ LogIn(r, NewUser(id, Email(r)))
       \/ Goto(r, "getUser") /\ UNCHANGED <<users, tokens, logins>>
    /\ UNCHANGED <<codeCache, mailed, stored>>

\* INSERT with a new uuid.  It fails if another login of the address got its
\* row in first; the handler does not look the row up again.
CreateUser(r) ==
    /\ At(r, "createUser")
    /\ \/ \E id \in UserIDs :
            /\ UserKeysFree(users, id, Email(r))
            /\ users' = users \cup {NewUser(id, Email(r))}
            /\ \/ LogIn(r, NewUser(id, Email(r)))
               \/ Answer(r, 500) /\ UNCHANGED <<tokens, logins>>
       \/ Answer(r, 500) /\ UNCHANGED <<users, tokens, logins>>
    /\ UNCHANGED <<codeCache, mailed, stored>>

-----------------------------------------------------------------------------
(* Around the handlers                                                     *)

\* The key's time to live (emailSigninCodeCacheDurationSec) is over.
ExpireCode(e) ==
    /\ codeCache[e] # NoCode
    /\ codeCache' = [codeCache EXCEPT ![e] = NoCode]
    /\ UNCHANGED <<users, reqs, mailed, tokens, stored, logins>>

\* The Redis pod restarts; its manifest turns all persistence off.
RedisRestart ==
    /\ codeCache # [e \in Emails |-> NoCode]
    /\ codeCache' = [e \in Emails |-> NoCode]
    /\ UNCHANGED <<users, reqs, mailed, tokens, stored, logins>>

\* The backend process dies: every handler stops where it is.
BackendCrash ==
    /\ \E r \in Reqs : ~Free(r)
    /\ reqs' = [r \in Reqs |-> NoRequest]
    /\ UNCHANGED <<codeCache, users, mailed, tokens, stored, logins>>

-----------------------------------------------------------------------------
Init ==
    /\ codeCache = [e \in Emails |-> NoCode]
    /\ users = {}
    /\ reqs = [r \in Reqs |-> NoRequest]
    /\ mailed = [e \in Emails |-> {}]
    /\ tokens = {}
    /\ stored = [e \in Emails |-> 0]
    /\ logins = [e \in Emails |-> 0]

Receive(r) ==
    \E raw \in RawEmails :
        \/ RequestCode(r, raw)
        \/ \E code \in Codes \cup {Empty} : Login(r, raw, code)

\* What a goroutine does by itself once it has its request.
Step(r) ==
    \/ GetCachedCode(r)
    \/ CacheCode(r)
    \/ SendSigninCodeToEmail(r)
    \/ TakeCode(r)
    \/ FindUser(r)
    \/ CreateUser(r)

Next ==
    \/ \E r \in Reqs : Receive(r) \/ Step(r)
    \/ \E e \in Emails : ExpireCode(e)
    \/ RedisRestart
    \/ BackendCrash

Spec == Init /\ [][Next]_vars

\* Every external call returns, with a result or an error, and Redis drops a
\* key whose time to live is over.
FairSpec ==
    /\ Spec
    /\ \A r \in Reqs : WF_vars(Step(r))
    /\ \A e \in Emails : WF_vars(ExpireCode(e))

-----------------------------------------------------------------------------
(* Properties                                                              *)

TypeOK ==
    /\ codeCache \in [Emails -> Codes \cup {NoCode}]
    /\ users \subseteq UserRow(UserIDs, Emails, {})
    /\ reqs \in [Reqs -> Request]
    /\ mailed \in [Emails -> SUBSET Codes]
    /\ tokens \subseteq [id : UserIDs, email : Emails]
    /\ stored \in [Emails -> Nat]
    /\ logins \in [Emails -> Nat]

\* Handlers that took e's code out of Redis and have not answered yet.
PastCheck(q, e) == q.pc \in {"getUser", "createUser"} /\ q.email = e
Validated(e) ==
    {r \in Reqs : PastCheck(reqs[r], e)}
Granted(e) == Cardinality(Validated(e))

Live(e) == IF codeCache[e] = NoCode THEN 0 ELSE 1

\* A stored code is good for one login at most: logins that succeeded, logins
\* past the code check and the code still in Redis never add up to more codes
\* than were stored for the address, whatever runs, fails or restarts between
\* GETDEL (UserLoginPost) and SETNX (UserRequestVerificationCodePost).
OneLoginPerCode ==
    \A e \in Emails :
        logins[e] + Granted(e) + Live(e) <= stored[e]

\* The two claims of every JWT ever handed out select the same single users
\* row: the later handlers read the account by id and its registrations and
\* tickets by email, and all logins of an address act for one account.
TokensNameOneAccount ==
    \A t \in tokens : \E u \in users :
        /\ GetUserByID(users, t.id) = {u}
        /\ GetUserByEmail(users, t.email) = {u}

\* A code in Redis is never replaced by another: a request that missed before
\* a racing request stored its code leaves that code alone (SetNX).
LiveCodeNeverReplaced ==
    [][\A e \in Emails :
         codeCache[e] # NoCode => codeCache'[e] \in {codeCache[e], NoCode}]_vars

\* The codes clients hand in for an address, while they wait for GETDEL.
Tries == {[key |-> Email(r), code |-> reqs[r].code] : r \in {q \in Reqs : At(q, "getDel")}}

\* The promise of one-time codes: OneTimeCode with the Redis key as the live
\* code and the logins past the code check as redemptions not used yet.  Each
\* of these was for the very code its request handed in.
OTC == INSTANCE OneTimeCode WITH
    tries <- Tries, Keys <- Emails, None <- NoCode, live <- codeCache, issued <- stored,
    granted <- [e \in Emails |-> Granted(e)], sessions <- logins

CodesAreOneTime == OTC!Spec

\* Every request is answered unless the process dies under it.
EveryRequestAnswered ==
    \A r \in Reqs : (reqs[r].pc \in Busy) ~> (reqs[r].pc \notin Busy)

-----------------------------------------------------------------------------
(* What the code says of itself, and does not keep                         *)

\* "code already sent, cannot request again until it expires": no further
\* code is mailed to an address whose live code has been mailed to it.
ResendOnlyAfterExpiry ==
    [][\A e \in Emails :
         mailed'[e] # mailed[e]
            => ~(codeCache[e] # NoCode /\ codeCache[e] \in mailed[e])]_vars

\* "Code has already been sent": when a request is turned away with 429, the
\* code in Redis has been mailed or its handler is about to mail it.
AlreadySentIsTrue ==
    [][\A r \in Reqs :
         (At(r, "getCode") /\ reqs'[r].status = 429)
            => LET e == Email(r) IN
               \/ codeCache[e] \in mailed[e]
               \/ \E q \in Reqs : /\ At(q, "sendMail")
                                  /\ Email(q) = e
                                  /\ reqs[q].code = codeCache[e]]_vars
=============================================================================
