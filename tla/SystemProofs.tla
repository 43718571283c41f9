----------------------------- MODULE SystemProofs -----------------------------
(***************************************************************************)
(* Proofs about System: beside each other, sign-in behaves as module       *)
(* Signin says and the other handlers as module Backend says, so that what *)
(* was proved of the two holds of the whole; and no credential is handed   *)
(* out for an address that nobody logged in to.                            *)
(***************************************************************************)
EXTENDS System, BackendProofs

SigninFacts == INSTANCE SigninProofs WITH
    Reqs <- LoginReqs, reqs <- loginReqs, users <- Accountholders

-----------------------------------------------------------------------------
(* What each part does to the users table                                  *)

\* A sign-in handler changes nothing of the other parts but the users table, to
\* which it adds the row of a new account.
LEMMA SignInMoves ==
    ASSUME NEW l \in LoginReqs, SignIn(l)
    PROVE  UNCHANGED backendVars \/ \E a \in Accounts : Enroll(a)
BY DEF SignIn, SignUp, Enroll, backendVars, vars

\* A step of the system is one of Backend, or leaves its variables alone.
LEMMA BackendMoves == [SystemNext]_systemVars => [BackendNext]_backendVars
<1>1. ASSUME NEW l \in LoginReqs, SignIn(l)
      PROVE  [BackendNext]_backendVars
  BY <1>1, SignInMoves DEF BackendNext
<1>2. CASE LoseCodes
  BY <1>2 DEF LoseCodes
<1>3. CASE Serve
  BY <1>3 DEF Serve, BackendNext
<1>4. CASE SystemCrash
  BY <1>4 DEF SystemCrash, BackendNext
<1>5. CASE UNCHANGED systemVars
  BY <1>5 DEF systemVars
<1> QED
  BY <1>1, <1>2, <1>3, <1>4, <1>5 DEF SystemNext

\* Beside sign-in, identities, credentials and tickets are handled as module
\* Backend says, where accounts sign up out of the blue.
THEOREM BackendBesideSignin == SystemSpec => BackendAsAlone
<1>1. SystemInit => BackendInit
  BY DEF SystemInit
<1> QED
  BY <1>1, BackendMoves, PTL DEF SystemSpec, BackendAsAlone, BackendSpec

\* The handlers that serve accounts change identities, which sign-in does not see.
LEMMA ServeMoves ==
    ASSUME Local, Handle
    PROVE  Accountholders' = Accountholders
<1>1. \/ UNCHANGED users
      \/ \E r \in Reqs : /\ reqs[r].pc = "updateUser"
                         /\ users' = UpdateUser(users, UID(r), reqs[r].upd)
  <2>1. ASSUME NEW r \in Reqs, Step(r)
        PROVE  \/ UNCHANGED users
               \/ /\ reqs[r].pc = "updateUser"
                  /\ users' = UpdateUser(users, UID(r), reqs[r].upd)
    BY <2>1 DEF Step, ReadUser, WriteUser, GetEmailCredential, PutEmailCredential,
       RequestEmailCredential, At
  <2>2. ASSUME NEW t, T!Step(t)
        PROVE  UNCHANGED users
    BY <2>2 DEF T!Step, T!CheckTicket, T!CheckRegistration, T!ReadUser, T!SignTicket,
       T!PutTicketCredential, T!GetTicketCredentials, T!GetEvent, T!GetEvents, T!Fail,
       T!tables
  <2> QED
    BY <2>1, <2>2 DEF Handle, IdentityReceive, Receive, IdentityStep, TicketReceive,
       T!Receive, T!tables, TicketStep, Organize, T!Register, T!CancelRegistration
<1>2. ASSUME NEW r \in Reqs, reqs[r].pc = "updateUser",
             users' = UpdateUser(users, UID(r), reqs[r].upd)
      PROVE  Accountholders' = Accountholders
  <2> DEFINE new(u) == [id |-> u.id, email |-> u.email,
                        identityCommitment |-> reqs[r].upd.identityCommitment,
                        encryptedInternalNullifier |-> reqs[r].upd.encryptedInternalNullifier,
                        encryptedIdentitySecret |-> reqs[r].upd.encryptedIdentitySecret]
  <2>1. \A v : v \in users' <=> \E u \in users : v = IF u.id # UID(r) THEN u ELSE new(u)
    BY <1>2, WrittenRows
  <2>2. \A u : new(u).id = u.id /\ new(u).email = u.email
    OBVIOUS
  <2> HIDE DEF new
  <2>3. \A v \in users' : \E u \in users : v.id = u.id /\ v.email = u.email
    BY <2>1, <2>2
  <2>4. \A u \in users : \E v \in users' : v.id = u.id /\ v.email = u.email
    BY <2>1, <2>2
  <2>5. \A x : x \in Accountholders' <=> x \in Accountholders
    BY <2>3, <2>4 DEF Accountholders, NewUser
  <2> QED
    BY <2>5 DEF Accountholders
<1> QED
  BY <1>1, <1>2 DEF Accountholders

LEMMA CrashMoves == Crash => UNCHANGED users
BY DEF Crash, BackendCrash, T!BackendCrash, T!tables, vars

-----------------------------------------------------------------------------
(* The steps of Signin                                                     *)

LEMMA HoldersByEmail ==
    ASSUME NEW email
    PROVE  S!GetUserByEmail(Accountholders, email)
             = {NewUser(u.id, u.email) : u \in S!GetUserByEmail(users, email)}
<1>1. \A id, e : NewUser(id, e).email = e
  BY DEF NewUser
<1> QED
  BY <1>1 DEF Accountholders, S!GetUserByEmail

LEMMA LogInSeen ==
    ASSUME NEW l, NEW u, NEW v, v.id = u.id, v.email = u.email, S!LogIn(l, u)
    PROVE  SigninFacts!LogIn(l, v)
BY DEF S!LogIn, SigninFacts!LogIn, S!Answer, SigninFacts!Answer, S!Answered,
       SigninFacts!Answered, S!NoRequest, SigninFacts!NoRequest, S!Empty, SigninFacts!Empty

\* The two calls that work on the users table ...
LEMMA FindUserSeen ==
    ASSUME NEW l \in LoginReqs, S!FindUser(l)
    PROVE  SigninFacts!FindUser(l)
<1> DEFINE rows == S!GetUserByEmail(users, S!Email(l))
           seen == SigninFacts!GetUserByEmail(Accountholders, SigninFacts!Email(l))
<1>1. seen = {NewUser(u.id, u.email) : u \in rows}
  BY HoldersByEmail DEF S!Email, SigninFacts!Email, S!GetUserByEmail, SigninFacts!GetUserByEmail
<1>2. UNCHANGED Accountholders
  BY DEF S!FindUser, Accountholders
<1>3. ASSUME NEW u \in rows, S!LogIn(l, u)
      PROVE  \E v \in seen : SigninFacts!LogIn(l, v)
  <2>1. NewUser(u.id, u.email).id = u.id /\ NewUser(u.id, u.email).email = u.email
    BY DEF NewUser
  <2> QED
    BY <1>1, <1>3, <2>1, LogInSeen
<1>4. rows = {} => seen = {}
  BY <1>1
<1> HIDE DEF rows, seen
<1>5. \/ \E u \in rows : S!LogIn(l, u)
      \/ rows = {} /\ S!Goto(l, "createUser") /\ UNCHANGED <<tokens, logins>>
      \/ S!Answer(l, 500) /\ UNCHANGED <<tokens, logins>>
  BY DEF S!FindUser, rows
<1>6. \/ \E u \in seen : SigninFacts!LogIn(l, u)
      \/ seen = {} /\ SigninFacts!Goto(l, "createUser") /\ UNCHANGED <<tokens, logins>>
      \/ SigninFacts!Answer(l, 500) /\ UNCHANGED <<tokens, logins>>
  BY <1>3, <1>4, <1>5 DEF S!Goto, SigninFacts!Goto, S!Answer, SigninFacts!Answer, S!Answered,
     SigninFacts!Answered, S!NoRequest, SigninFacts!NoRequest, S!Empty, SigninFacts!Empty
<1> QED
  BY <1>2, <1>6 DEF S!FindUser, SigninFacts!FindUser, S!At, SigninFacts!At, seen

LEMMA CreateUserSeen ==
    ASSUME NEW l \in LoginReqs, S!CreateUser(l)
    PROVE  SigninFacts!CreateUser(l)
<1>1. PICK e : e = S!Email(l)
  OBVIOUS
<1>2. SigninFacts!Email(l) = e
  BY <1>1 DEF S!Email, SigninFacts!Email
<1>3. CASE S!Answer(l, 500) /\ UNCHANGED <<users, tokens, logins>>
  BY <1>3 DEF S!CreateUser, SigninFacts!CreateUser, S!At, SigninFacts!At, S!Answer,
     SigninFacts!Answer, S!Answered, SigninFacts!Answered, S!NoRequest,
     SigninFacts!NoRequest, S!Empty, SigninFacts!Empty, Accountholders
<1>4. ASSUME NEW id \in UserIDs, S!UserKeysFree(users, id, e),
             users' = users \cup {S!NewUser(id, e)},
             \/ S!LogIn(l, S!NewUser(id, e))
             \/ S!Answer(l, 500) /\ UNCHANGED <<tokens, logins>>
      PROVE  SigninFacts!CreateUser(l)
  <2>1. /\ S!NewUser(id, e) = NewUser(id, e) /\ SigninFacts!NewUser(id, e) = NewUser(id, e)
        /\ NewUser(id, e).id = id /\ NewUser(id, e).email = e
    BY DEF S!NewUser, SigninFacts!NewUser, NewUser, S!Empty, SigninFacts!Empty, Empty
  <2>2. SigninFacts!UserKeysFree(Accountholders, id, e)
    <3>1. \A u \in users : u.id # id /\ u.email # e
      BY <1>4 DEF S!UserKeysFree, S!GetUserByID, S!GetUserByEmail
    <3>2. \A v \in Accountholders : \E u \in users : v.id = u.id /\ v.email = u.email
      BY DEF Accountholders, NewUser
    <3> QED
      BY <3>1, <3>2 DEF SigninFacts!UserKeysFree, SigninFacts!GetUserByID,
         SigninFacts!GetUserByEmail
  <2>3. Accountholders' = Accountholders \cup {NewUser(id, e)}
    <3>1. users' = users \cup {NewUser(id, e)}
      BY <1>4, <2>1
    <3>2. NewUser(NewUser(id, e).id, NewUser(id, e).email) = NewUser(id, e)
      BY <2>1
    <3> QED
      BY <3>1, <3>2 DEF Accountholders
  <2>4. \/ SigninFacts!LogIn(l, NewUser(id, e))
        \/ SigninFacts!Answer(l, 500) /\ UNCHANGED <<tokens, logins>>
    <3>1. CASE S!LogIn(l, NewUser(id, e))
      BY <3>1, LogInSeen
    <3>2. CASE S!Answer(l, 500) /\ UNCHANGED <<tokens, logins>>
      BY <3>2 DEF S!Answer, SigninFacts!Answer, S!Answered, SigninFacts!Answered,
         S!NoRequest, SigninFacts!NoRequest, S!Empty, SigninFacts!Empty
    <3> QED
      BY <1>4, <2>1, <3>1, <3>2
  <2> QED
    BY <1>2, <2>1, <2>2, <2>3, <2>4
       DEF S!CreateUser, SigninFacts!CreateUser, S!At, SigninFacts!At
<1> QED
  BY <1>1, <1>3, <1>4 DEF S!CreateUser

\* ... and the others, which leave it alone.
LEMMA ReceiveSignInSeen ==
    ASSUME NEW l \in LoginReqs, S!Receive(l)
    PROVE  SigninFacts!Receive(l)
<1>1. ASSUME NEW raw \in RawEmails, S!RequestCode(l, raw)
      PROVE  SigninFacts!RequestCode(l, raw)
  BY <1>1 DEF S!RequestCode, SigninFacts!RequestCode, S!Free, SigninFacts!Free, S!Busy,
     SigninFacts!Busy, S!Answer, SigninFacts!Answer, S!Answered, SigninFacts!Answered,
     S!NoRequest, SigninFacts!NoRequest, S!Empty, SigninFacts!Empty, Accountholders
<1>2. ASSUME NEW raw \in RawEmails, NEW code, S!Login(l, raw, code)
      PROVE  SigninFacts!Login(l, raw, code)
  BY <1>2 DEF S!Login, SigninFacts!Login, S!Free, SigninFacts!Free, S!Busy,
     SigninFacts!Busy, S!Answer, SigninFacts!Answer, S!Answered, SigninFacts!Answered,
     S!NoRequest, SigninFacts!NoRequest, S!Empty, SigninFacts!Empty, Accountholders
<1>3. S!Empty = SigninFacts!Empty
  BY DEF S!Empty, SigninFacts!Empty
<1> QED
  BY <1>1, <1>2, <1>3 DEF S!Receive, SigninFacts!Receive

LEMMA StepSignInSeen ==
    ASSUME NEW l \in LoginReqs, S!Step(l)
    PROVE  SigninFacts!Step(l)
<1>1. S!GetCachedCode(l) => SigninFacts!GetCachedCode(l)
  BY DEF S!GetCachedCode, SigninFacts!GetCachedCode, S!Answer, SigninFacts!Answer,
     S!Answered, SigninFacts!Answered, S!NoRequest, SigninFacts!NoRequest, S!Goto,
     SigninFacts!Goto, S!At, SigninFacts!At, S!Email, SigninFacts!Email, S!Empty,
     SigninFacts!Empty, S!NoCode, SigninFacts!NoCode, Accountholders
<1>2. S!CacheCode(l) => SigninFacts!CacheCode(l)
  BY DEF S!CacheCode, SigninFacts!CacheCode, S!StoreIfAbsent, SigninFacts!StoreIfAbsent,
     S!Answer, SigninFacts!Answer, S!Answered, SigninFacts!Answered, S!NoRequest,
     SigninFacts!NoRequest, S!Goto, SigninFacts!Goto, S!At, SigninFacts!At, S!Email,
     SigninFacts!Email, S!Empty, SigninFacts!Empty, S!NoCode, SigninFacts!NoCode,
     Accountholders
<1>3. S!SendSigninCodeToEmail(l) => SigninFacts!SendSigninCodeToEmail(l)
  BY DEF S!SendSigninCodeToEmail, SigninFacts!SendSigninCodeToEmail, S!Answer,
     SigninFacts!Answer, S!Answered, SigninFacts!Answered, S!NoRequest,
     SigninFacts!NoRequest, S!Goto, SigninFacts!Goto, S!At, SigninFacts!At, S!Email,
     SigninFacts!Email, S!Empty, SigninFacts!Empty, S!NoCode, SigninFacts!NoCode,
     Accountholders
<1>4. S!TakeCode(l) => SigninFacts!TakeCode(l)
  BY DEF S!TakeCode, SigninFacts!TakeCode, S!Answer, SigninFacts!Answer, S!Answered,
     SigninFacts!Answered, S!NoRequest, SigninFacts!NoRequest, S!Goto, SigninFacts!Goto,
     S!At, SigninFacts!At, S!Email, SigninFacts!Email, S!Empty, SigninFacts!Empty,
     S!NoCode, SigninFacts!NoCode, Accountholders
<1> QED
  BY <1>1, <1>2, <1>3, <1>4, FindUserSeen, CreateUserSeen DEF S!Step, SigninFacts!Step

LEMMA LoseSeen ==
    ASSUME LoseCodes
    PROVE  SigninFacts!Next
<1>1. Accountholders' = Accountholders
  BY DEF LoseCodes, backendVars, vars, Accountholders
<1>2. ASSUME NEW e \in Emails, S!ExpireCode(e)
      PROVE  SigninFacts!ExpireCode(e)
  BY <1>1, <1>2 DEF S!ExpireCode, SigninFacts!ExpireCode, S!NoCode, SigninFacts!NoCode,
     S!Empty, SigninFacts!Empty
<1>3. S!RedisRestart => SigninFacts!RedisRestart
  BY <1>1 DEF S!RedisRestart, SigninFacts!RedisRestart, S!NoCode, SigninFacts!NoCode,
     S!Empty, SigninFacts!Empty
<1> QED
  BY <1>2, <1>3 DEF LoseCodes, SigninFacts!Next

LEMMA CrashSignInSeen ==
    ASSUME SystemCrash
    PROVE  [SigninFacts!Next]_SigninFacts!vars
<1>1. Accountholders' = Accountholders
  BY CrashMoves DEF SystemCrash, Accountholders
<1>2. S!BackendCrash => SigninFacts!BackendCrash
  BY <1>1 DEF S!BackendCrash, SigninFacts!BackendCrash, S!Free, SigninFacts!Free,
     S!Busy, SigninFacts!Busy, S!NoRequest, SigninFacts!NoRequest, S!Empty,
     SigninFacts!Empty
<1> QED
  BY <1>1, <1>2 DEF SystemCrash, loginVars, SigninFacts!Next, SigninFacts!vars

-----------------------------------------------------------------------------
(* Sign-in beside the other handlers                                       *)

LEMMA SignInInit == SystemInit => SigninFacts!Init
BY DEF SystemInit, S!Init, SigninFacts!Init, BackendInit, Init, Accountholders, S!NoCode,
       SigninFacts!NoCode, S!NoRequest, SigninFacts!NoRequest, S!Empty, SigninFacts!Empty

\* A step of the system is one of Signin, or leaves alone what sign-in works on.
LEMMA SignInNext ==
    Local /\ [SystemNext]_systemVars => [SigninFacts!Next]_SigninFacts!vars
<1> SUFFICES ASSUME Local, [SystemNext]_systemVars
             PROVE  [SigninFacts!Next]_SigninFacts!vars
  OBVIOUS
<1>1. ASSUME NEW l \in LoginReqs, SignIn(l)
      PROVE  SigninFacts!Next
  BY <1>1, ReceiveSignInSeen, StepSignInSeen DEF SignIn, SigninFacts!Next
<1>2. CASE Serve
  BY <1>2, ServeMoves DEF Serve, loginVars, SigninFacts!vars
<1>3. CASE UNCHANGED systemVars
  BY <1>3 DEF systemVars, loginVars, backendVars, vars, SigninFacts!vars, Accountholders
<1> QED
  BY <1>1, <1>2, <1>3, LoseSeen, CrashSignInSeen DEF SystemNext

LEMMA SameSigninInit == SigninFacts!Init => SigninOfSystem!Init
BY DEF SigninOfSystem!Init, SigninFacts!Init, SigninOfSystem!NoCode, SigninFacts!NoCode,
     SigninOfSystem!NoRequest, SigninFacts!NoRequest, SigninOfSystem!Empty,
     SigninFacts!Empty

LEMMA SameSigninNext == SigninFacts!Next => SigninOfSystem!Next
BY Zenon DEF SigninOfSystem!Next, SigninFacts!Next, SigninOfSystem!Receive,
     SigninFacts!Receive, SigninOfSystem!RequestCode, SigninFacts!RequestCode,
     SigninOfSystem!Login, SigninFacts!Login, SigninOfSystem!Step, SigninFacts!Step,
     SigninOfSystem!GetCachedCode, SigninFacts!GetCachedCode, SigninOfSystem!CacheCode,
     SigninFacts!CacheCode, SigninOfSystem!StoreIfAbsent, SigninFacts!StoreIfAbsent,
     SigninOfSystem!SendSigninCodeToEmail, SigninFacts!SendSigninCodeToEmail,
     SigninOfSystem!TakeCode, SigninFacts!TakeCode, SigninOfSystem!FindUser,
     SigninFacts!FindUser, SigninOfSystem!CreateUser, SigninFacts!CreateUser,
     SigninOfSystem!LogIn, SigninFacts!LogIn, SigninOfSystem!NewUser,
     SigninFacts!NewUser, SigninOfSystem!UserKeysFree, SigninFacts!UserKeysFree,
     SigninOfSystem!GetUserByID, SigninFacts!GetUserByID, SigninOfSystem!GetUserByEmail,
     SigninFacts!GetUserByEmail, SigninOfSystem!ExpireCode, SigninFacts!ExpireCode,
     SigninOfSystem!RedisRestart, SigninFacts!RedisRestart, SigninOfSystem!BackendCrash,
     SigninFacts!BackendCrash, SigninOfSystem!Answer, SigninFacts!Answer,
     SigninOfSystem!Answered, SigninFacts!Answered, SigninOfSystem!NoRequest,
     SigninFacts!NoRequest, SigninOfSystem!Goto, SigninFacts!Goto, SigninOfSystem!At,
     SigninFacts!At, SigninOfSystem!Email, SigninFacts!Email, SigninOfSystem!Free,
     SigninFacts!Free, SigninOfSystem!Busy, SigninFacts!Busy, SigninOfSystem!NoCode,
     SigninFacts!NoCode, SigninOfSystem!Empty, SigninFacts!Empty

LEMMA SystemKeepsInv == SystemSpec => []Inv
BY BackendBesideSignin, IdentityInvariance, PTL DEF BackendAsAlone

\* Beside the other handlers, which change identities and nothing that sign-in
\* looks at, sign-in behaves as module Signin says.
THEOREM SigninBesideBackend == SystemSpec => SigninAsAlone
<1>1. Inv /\ [SystemNext]_systemVars => [SigninOfSystem!Next]_SigninOfSystem!vars
  BY SignInNext, SameSigninNext DEF Inv, SigninOfSystem!vars, SigninFacts!vars
<1>2. SystemInit => SigninOfSystem!Init
  BY SignInInit, SameSigninInit
<1> QED
  BY <1>1, <1>2, SystemKeepsInv, PTL DEF SystemSpec, SigninAsAlone, SigninOfSystem!Spec

\* What was proved of Signin holds here: types, and one login per code.
LEMMA SignInFactsHold ==
    SystemSpec => [](SigninFacts!TypeOK /\ SigninFacts!OneLoginPerCode)
<1>1. SigninFacts!Init => SigninFacts!TypeOK
  BY SigninFacts!InitTypeOK, ParseAssumption, CodesAssumption, LoginReqsAssumption,
     BadEmailAssumption
     DEF SigninFacts!InitTypeOK, SigninFacts!Empty, Empty, SigninFacts!IsFiniteSet,
     IsFiniteSet
<1>2. SigninFacts!TypeOK /\ [SigninFacts!Next]_SigninFacts!vars => SigninFacts!TypeOK'
  BY SigninFacts!StepTypeOK, ParseAssumption, CodesAssumption, LoginReqsAssumption,
     BadEmailAssumption
     DEF SigninFacts!StepTypeOK, SigninFacts!Empty, Empty, SigninFacts!IsFiniteSet,
     IsFiniteSet
<1>3. SigninFacts!Init => SigninFacts!OneLoginPerCode
  BY SigninFacts!InitOneLogin, ParseAssumption, CodesAssumption, LoginReqsAssumption,
     BadEmailAssumption
     DEF SigninFacts!InitOneLogin, SigninFacts!Empty, Empty, SigninFacts!IsFiniteSet,
     IsFiniteSet
<1>4. /\ SigninFacts!OneLoginPerCode /\ SigninFacts!TypeOK /\ SigninFacts!TypeOK'
      /\ [SigninFacts!Next]_SigninFacts!vars
      => SigninFacts!OneLoginPerCode'
  BY SigninFacts!NextOneLogin, ParseAssumption, CodesAssumption, LoginReqsAssumption,
     BadEmailAssumption
     DEF SigninFacts!NextOneLogin, SigninFacts!Empty, Empty, SigninFacts!IsFiniteSet,
     IsFiniteSet
<1>5. Inv /\ [SystemNext]_systemVars => [SigninFacts!Next]_SigninFacts!vars
  BY SignInNext DEF Inv
<1> QED
  BY <1>1, <1>2, <1>3, <1>4, <1>5, SignInInit, SystemKeepsInv, PTL DEF SystemSpec

-----------------------------------------------------------------------------
(* Who a JWT, a request and a credential belong to                         *)

\* Every JWT came of a login of its address ...
TokensOK == tokens \subseteq Accounts /\ \A t \in tokens : 0 < logins[t.email]

\* ... every request that runs carries claims its client was given ...
CarriedOK ==
    /\ \A r \in Reqs : reqs[r].claims \in Carried
    /\ \A t \in TicketReqs : ticketReqs[t].claims \in Carried

\* ... only accounts upload, as an update needs a row ...
UploadersOK == \A p \in uploaded : \E a \in Accounts : p.id = a.id

\* ... and what is signed names what an account that was logged in to uploaded.
NamedByToken(cs) == \A c \in cs : NamesUpload(c, uploaded, tokens)
CredentialsOK == NamedByToken(issued) /\ NamedByToken(tickets)

SystemInv == TokensOK /\ CarriedOK /\ UploadersOK /\ CredentialsOK

\* What the parts establish by themselves.
PartsInv ==
    BackendInv /\ SigninFacts!TypeOK /\ SigninFacts!OneLoginPerCode

\* A login hands out the claims of a row, which is that of an account.
LEMMA LogsIn ==
    ASSUME Inv, Inv', [SystemNext]_systemVars
    PROVE  \/ UNCHANGED <<tokens, logins>>
           \/ \E a \in Accounts : /\ tokens' = tokens \cup {a}
                                  /\ logins' = [logins EXCEPT ![a.email] = @ + 1]
<1>1. ASSUME NEW l, NEW u, S!LogIn(l, u), NEW a \in Accounts, u.id = a.id, u.email = a.email
      PROVE  \/ UNCHANGED <<tokens, logins>>
             \/ /\ tokens' = tokens \cup {a}
                /\ logins' = [logins EXCEPT ![a.email] = @ + 1]
  <2>1. [id |-> u.id, email |-> u.email] = a
    BY <1>1, AccountsAssumption
  <2> QED
    BY <1>1, <2>1 DEF S!LogIn
<1>2. /\ \A u \in users : \E a \in Accounts : u.id = a.id /\ u.email = a.email
      /\ \A u \in users' : \E a \in Accounts : u.id = a.id /\ u.email = a.email
  BY DEF Inv, Local, RowsOK, UsersOwn
<1>3. ASSUME NEW l \in LoginReqs, S!FindUser(l)
      PROVE  \/ UNCHANGED <<tokens, logins>>
             \/ \E a \in Accounts : /\ tokens' = tokens \cup {a}
                                    /\ logins' = [logins EXCEPT ![a.email] = @ + 1]
  <2>1. ASSUME NEW u \in users, S!LogIn(l, u)
        PROVE  \/ UNCHANGED <<tokens, logins>>
               \/ \E a \in Accounts : /\ tokens' = tokens \cup {a}
                                      /\ logins' = [logins EXCEPT ![a.email] = @ + 1]
    BY <1>1, <1>2, <2>1
  <2> QED
    BY <1>3, <2>1 DEF S!FindUser, S!GetUserByEmail
<1>4. ASSUME NEW l \in LoginReqs, S!CreateUser(l)
      PROVE  \/ UNCHANGED <<tokens, logins>>
             \/ \E a \in Accounts : /\ tokens' = tokens \cup {a}
                                    /\ logins' = [logins EXCEPT ![a.email] = @ + 1]
  <2>1. ASSUME NEW u \in users', S!LogIn(l, u)
        PROVE  \/ UNCHANGED <<tokens, logins>>
               \/ \E a \in Accounts : /\ tokens' = tokens \cup {a}
                                      /\ logins' = [logins EXCEPT ![a.email] = @ + 1]
    BY <1>1, <1>2, <2>1
  <2> QED
    BY <1>4, <2>1 DEF S!CreateUser
<1>5. ASSUME NEW l \in LoginReqs, SignIn(l), ~S!FindUser(l), ~S!CreateUser(l)
      PROVE  UNCHANGED <<tokens, logins>>
  BY <1>5 DEF SignIn, S!Receive, S!RequestCode, S!Login, S!Step, S!GetCachedCode,
     S!CacheCode, S!SendSigninCodeToEmail, S!TakeCode
<1>6. CASE LoseCodes
  BY <1>6 DEF LoseCodes, S!ExpireCode, S!RedisRestart
<1>7. CASE Serve \/ SystemCrash \/ UNCHANGED systemVars
  BY <1>7 DEF Serve, SystemCrash, S!BackendCrash, loginVars, systemVars
<1> QED
  BY <1>3, <1>4, <1>5, <1>6, <1>7 DEF SystemNext

LEMMA TokensStay ==
    ASSUME PartsInv, PartsInv', TokensOK, [SystemNext]_systemVars
    PROVE  TokensOK' /\ tokens \subseteq tokens'
<1>1. /\ \A t \in tokens : t.email \in Emails
      /\ \A t \in tokens' : t.email \in Emails
      /\ logins \in [Emails -> Nat]
  BY DEF PartsInv, SigninFacts!TypeOK
<1>2. CASE UNCHANGED <<tokens, logins>>
  BY <1>2 DEF TokensOK
<1>3. ASSUME NEW a \in Accounts, tokens' = tokens \cup {a},
             logins' = [logins EXCEPT ![a.email] = @ + 1]
      PROVE  TokensOK' /\ tokens \subseteq tokens'
  <2>1. a.email \in Emails
    BY <1>1, <1>3
  <2> QED
    BY <1>1, <1>3, <2>1 DEF TokensOK
<1> QED
  BY <1>2, <1>3, LogsIn DEF PartsInv, BackendInv

LEMMA CarriedStay ==
    ASSUME CarriedOK, tokens \subseteq tokens', [SystemNext]_systemVars
    PROVE  CarriedOK'
<1>1. Carried \subseteq Carried' /\ NoClaims \in Carried
  BY DEF Carried
<1>2. CASE UNCHANGED <<reqs, ticketReqs>>
  BY <1>1, <1>2 DEF CarriedOK
<1>3. CASE Serve
  BY <1>1, <1>3 DEF Serve, CarriedOK
<1>4. CASE SystemCrash
  <2>1. \/ reqs' = [r \in Reqs |-> NoRequest]
        \/ UNCHANGED reqs
    BY <1>4 DEF SystemCrash, Crash, BackendCrash, vars
  <2>2. \/ ticketReqs' = [t \in TicketReqs |-> T!NoRequest]
        \/ UNCHANGED ticketReqs
    BY <1>4 DEF SystemCrash, Crash, T!BackendCrash, ticketVars
  <2>3. NoRequest.claims = NoClaims /\ T!NoRequest.claims = NoClaims
    BY DEF NoRequest, T!NoRequest, T!NoClaims, NoClaims, T!Empty, Empty
  <2> QED
    BY <1>1, <2>1, <2>2, <2>3 DEF CarriedOK
<1>5. ASSUME NEW l \in LoginReqs, SignIn(l)
      PROVE  UNCHANGED <<reqs, ticketReqs>>
  BY <1>5 DEF SignIn, ticketVars
<1>6. CASE LoseCodes \/ UNCHANGED systemVars
  BY <1>2, <1>6 DEF LoseCodes, systemVars, backendVars, vars, ticketVars
<1> QED
  BY <1>2, <1>3, <1>4, <1>5, <1>6 DEF SystemNext

\* A request that signs has claims of an account, which some login handed out:
\* nobody was given those of an account but by a login.
LEMMA SignerLoggedIn ==
    ASSUME NEW a \in Accounts, a \in Carried
    PROVE  a \in tokens
<1>1. a # NoClaims
  BY AccountsAssumption DEF NoClaims
<1> QED
  BY <1>1, GhostsAssumption DEF Carried

LEMMA UploaderLoggedIn ==
    ASSUME UploadersOK, NEW a \in AllClaims, a \in Carried, NEW ic,
           Uploaded(a.id, ic, uploaded)
    PROVE  a \in tokens
<1>1. PICK b \in Accounts : a.id = b.id
  BY DEF UploadersOK, Uploaded
<1>2. a = b
  BY <1>1, AccountsAssumption DEF AllClaims
<1> QED
  BY <1>2, SignerLoggedIn

LEMMA UploadersStay ==
    ASSUME Inv, UploadersOK, [Next]_vars
    PROVE  UploadersOK'
<1>1. ASSUME NEW r \in Reqs, Wrote(r)
      PROVE  UploadersOK'
  <2>1. PICK a \in Accounts : UID(r) = a.id
    BY <1>1 DEF Wrote, GetUserByID, Inv, Local, RowsOK, UsersOwn
  <2>2. \A p \in uploaded' : p \in uploaded \/ p.id = UID(r)
    BY <1>1 DEF Wrote, NewUpload
  <2> QED
    BY <2>1, <2>2 DEF UploadersOK
<1> QED
  BY <1>1, WhoWrites DEF UploadersOK, SignUp

\* A credential goes on naming an upload.
LEMMA NamesStay ==
    ASSUME NEW c, NamesUpload(c, uploaded, tokens),
           uploaded \subseteq uploaded', tokens \subseteq tokens'
    PROVE  NamesUpload(c, uploaded', tokens')
BY DEF NamesUpload

LEMMA EmailCredentialLoggedIn ==
    ASSUME BackendInv, CarriedOK, UploadersOK, NEW r \in Reqs, RequestEmailCredential(r),
           NamedByToken(issued)
    PROVE  \A c \in issued' : NamesUpload(c, uploaded, tokens)
<1> DEFINE q == reqs[r]
<1>1. /\ q.ic \in Idents /\ q.claims \in AllClaims
      /\ Uploaded(q.claims.id, q.ic, uploaded)
  BY BusyCalls DEF BackendInv, Inv, Local, ReqsOK, ReqOK, RequestEmailCredential, At
<1>2. q.claims \in tokens
  BY <1>1, UploaderLoggedIn DEF CarriedOK
<1>3. ASSUME NEW c \in issued', c \notin issued
      PROVE  /\ c.email = q.claims.email /\ q.ic \in Numerals
             /\ ValueOf[q.ic] = c.identityCommitment
  <2>1. \A n \in Parsed(q.ic) : q.ic \in Numerals /\ n = ValueOf[q.ic]
    BY <1>1, IdentsAssumption DEF Parsed
  <2> QED
    BY <1>3, <2>1 DEF RequestEmailCredential, GenerateSignedCredential
<1> QED
  BY <1>1, <1>2, <1>3 DEF NamedByToken, NamesUpload, Uploaded

LEMMA TicketLoggedIn ==
    ASSUME BackendInv, CarriedOK, UploadersOK, NEW t \in TicketReqs, T!SignTicket(t),
           NamedByToken(tickets)
    PROVE  \A c \in tickets' : NamesUpload(c, uploaded, tokens)
<1> DEFINE q == ticketReqs[t]
<1>1. q.pc = "sign"
  BY DEF T!SignTicket, T!At
<1>2. /\ q.ic \in Idents /\ q.claims \in AllClaims
      /\ Uploaded(q.claims.id, q.ic, uploaded)
  BY <1>1, TicketRecords DEF BackendInv, TicketFacts!Inv, TicketFacts!ReqsOK,
     TicketFacts!ReqOK, TicketFacts!Uploaded, Uploaded
<1>3. q.claims \in tokens
  BY <1>2, UploaderLoggedIn DEF CarriedOK
<1>4. ASSUME NEW c \in tickets', c \notin tickets
      PROVE  /\ c.email = q.claims.email /\ q.ic \in Numerals
             /\ ValueOf[q.ic] = c.identityCommitment
  <2>1. \A n \in T!Parsed(q.ic) : q.ic \in Numerals /\ n = ValueOf[q.ic]
    BY <1>2, IdentsAssumption DEF T!Parsed, T!Empty, Empty
  <2> QED
    BY <1>4, <2>1 DEF T!SignTicket, T!GenerateSignedCredential, T!Fail, T!UserEmail
<1> QED
  BY <1>2, <1>3, <1>4 DEF NamedByToken, NamesUpload, Uploaded

LEMMA LoggedInStay ==
    ASSUME PartsInv, CarriedOK, UploadersOK, CredentialsOK, tokens \subseteq tokens',
           uploaded \subseteq uploaded', [SystemNext]_systemVars
    PROVE  CredentialsOK'
<1>0. ASSUME \A c \in issued' \cup tickets' : NamesUpload(c, uploaded, tokens)
      PROVE  CredentialsOK'
  BY <1>0, NamesStay DEF CredentialsOK, NamedByToken
<1>1. CASE UNCHANGED <<issued, tickets>>
  BY <1>0, <1>1 DEF CredentialsOK, NamedByToken
<1>2. CASE Handle
  <2>1. ASSUME NEW r \in Reqs, RequestEmailCredential(r), UNCHANGED tickets
        PROVE  CredentialsOK'
    BY <1>0, <2>1, EmailCredentialLoggedIn DEF PartsInv, CredentialsOK, NamedByToken
  <2>2. ASSUME NEW t \in TicketReqs, T!SignTicket(t), UNCHANGED issued
        PROVE  CredentialsOK'
    BY <1>0, <2>2, TicketLoggedIn DEF PartsInv, CredentialsOK, NamedByToken
  <2>3. ASSUME NEW r \in Reqs, Step(r)
        PROVE  RequestEmailCredential(r) \/ UNCHANGED issued
    BY <2>3 DEF Step, ReadUser, WriteUser, GetEmailCredential, PutEmailCredential
  <2>4. ASSUME NEW t \in TicketReqs, T!Step(t)
        PROVE  T!SignTicket(t) \/ UNCHANGED tickets
    BY <2>4 DEF T!Step, T!CheckTicket, T!CheckRegistration, T!ReadUser,
       T!PutTicketCredential, T!GetTicketCredentials, T!GetEvent, T!GetEvents, T!Fail
  <2>5. ASSUME NEW r \in Reqs, IdentityStep(r)
        PROVE  CredentialsOK'
    BY <1>1, <2>1, <2>3, <2>5 DEF IdentityStep, ticketVars
  <2>6. ASSUME NEW t \in TicketReqs, TicketStep(t)
        PROVE  CredentialsOK'
    BY <1>1, <2>2, <2>4, <2>6 DEF TicketStep
  <2>7. ASSUME NEW r, NEW op, NEW claims, NEW upd, IdentityReceive(r, op, claims, upd)
        PROVE  UNCHANGED <<issued, tickets>>
    BY <2>7 DEF IdentityReceive, Receive, ticketVars
  <2>8. ASSUME NEW t, NEW op, NEW claims, NEW id, TicketReceive(t, op, claims, id)
        PROVE  UNCHANGED <<issued, tickets>>
    BY <2>8 DEF TicketReceive, T!Receive
  <2>9. ASSUME NEW reg, Organize(reg)
        PROVE  UNCHANGED <<issued, tickets>>
    BY <2>9 DEF Organize, T!Register, T!CancelRegistration
  <2> QED
    BY <1>1, <1>2, <2>5, <2>6, <2>7, <2>8, <2>9 DEF Handle
<1>3. CASE LoseCodes \/ SystemCrash \/ UNCHANGED systemVars
  BY <1>1, <1>3 DEF LoseCodes, SystemCrash, Crash, BackendCrash, T!BackendCrash,
     systemVars, backendVars, vars, ticketVars
<1>4. ASSUME NEW l \in LoginReqs, SignIn(l)
      PROVE  UNCHANGED <<issued, tickets>>
  BY <1>4 DEF SignIn, ticketVars
<1> QED
  BY <1>1, <1>2, <1>3, <1>4 DEF SystemNext, Serve

LEMMA SystemInvariance == SystemSpec => [](PartsInv /\ SystemInv)
<1>1. SystemSpec => []PartsInv
  <2>1. BackendInv /\ SigninFacts!TypeOK /\ SigninFacts!OneLoginPerCode <=> PartsInv
    BY DEF PartsInv
  <2> QED
    BY <2>1, BackendBesideSignin, BackendInvariance, SignInFactsHold, PTL DEF BackendAsAlone
<1>2. SystemInit => SystemInv
  <2>1. NoRequest.claims = NoClaims /\ T!NoRequest.claims = NoClaims
    BY DEF NoRequest, T!NoRequest, T!NoClaims, NoClaims, T!Empty, Empty
  <2> QED
    BY <2>1 DEF SystemInit, BackendInit, Init, T!Init, S!Init, SystemInv, TokensOK,
       CarriedOK, Carried, UploadersOK, CredentialsOK, NamedByToken
<1>3. PartsInv /\ PartsInv' /\ SystemInv /\ [SystemNext]_systemVars => SystemInv'
  <2>1. SystemInv <=> TokensOK /\ CarriedOK /\ UploadersOK /\ CredentialsOK
    BY DEF SystemInv
  <2>2. ASSUME PartsInv, PartsInv', SystemInv, [SystemNext]_systemVars
        PROVE  TokensOK' /\ CarriedOK' /\ UploadersOK' /\ CredentialsOK'
    <3>1. TokensOK' /\ tokens \subseteq tokens'
      BY <2>1, <2>2, TokensStay
    <3>2. CarriedOK'
      BY <2>1, <2>2, <3>1, CarriedStay
    <3>3. UploadersOK' /\ uploaded \subseteq uploaded'
      BY <2>1, <2>2, BackendMoves, IdentityMoves, UploadersStay, UploadsGrow
         DEF PartsInv, BackendInv
    <3>4. CredentialsOK'
      BY <2>1, <2>2, <3>1, <3>3, LoggedInStay
    <3> QED
      BY <3>1, <3>2, <3>3, <3>4
  <2> QED
    BY <2>2 DEF SystemInv
<1> QED
  BY <1>1, <1>2, <1>3, PTL DEF SystemSpec

-----------------------------------------------------------------------------
(* The results                                                             *)

\* All variables of the system keep their types, and a JWT names an account.
THEOREM SystemTypesCorrect == SystemSpec => []SystemTypeOK
<1>1. SigninFacts!TypeOK => SigninOfSystem!TypeOK
  BY DEF SigninFacts!TypeOK, SigninOfSystem!TypeOK, SigninFacts!UserRow,
     SigninOfSystem!UserRow, SigninFacts!Request, SigninOfSystem!Request,
     SigninFacts!Busy, SigninOfSystem!Busy, SigninFacts!Statuses,
     SigninOfSystem!Statuses, SigninFacts!NoCode, SigninOfSystem!NoCode,
     SigninFacts!Empty, SigninOfSystem!Empty
<1>2. BackendTypeOK /\ PartsInv /\ SystemInv => SystemTypeOK
  BY <1>1 DEF PartsInv, SystemInv, TokensOK, SystemTypeOK
<1> QED
  BY <1>2, BackendBesideSignin, BothTypesCorrect, SystemInvariance, PTL DEF BackendAsAlone

\* No credential names an address that nobody logged in to with a code stored
\* for it, nor an identity that the account logged in to did not upload.
THEOREM NeedLogin == SystemSpec => []CredentialsNeedLogin
<1>1. PartsInv /\ SystemInv => CredentialsNeedLogin
  <2> SUFFICES ASSUME PartsInv, SystemInv, NEW c \in issued \cup tickets
               PROVE  /\ 0 < logins[c.email] /\ logins[c.email] <= stored[c.email]
                      /\ NamesUpload(c, uploaded, tokens)
    BY DEF CredentialsNeedLogin
  <2>1. NamesUpload(c, uploaded, tokens)
    BY DEF SystemInv, CredentialsOK, NamedByToken
  <2>2. PICK a \in tokens : a.email = c.email
    BY <2>1 DEF NamesUpload
  <2>3. c.email \in Emails /\ logins[c.email] \in Nat /\ stored[c.email] \in Nat
    BY <2>2 DEF PartsInv, SigninFacts!TypeOK
  <2>4. 0 < logins[c.email]
    BY <2>2 DEF SystemInv, TokensOK
  <2>5. logins[c.email] <= stored[c.email]
    <3>1. SigninFacts!Granted(c.email) \in Nat
      BY SigninFacts!GrantedType, ParseAssumption, CodesAssumption, LoginReqsAssumption,
         BadEmailAssumption
         DEF SigninFacts!GrantedType, SigninFacts!Empty, Empty, SigninFacts!IsFiniteSet,
         IsFiniteSet
    <3>2. SigninFacts!Live(c.email) \in Nat
      BY DEF SigninFacts!Live
    <3> QED
      BY <2>3, <3>1, <3>2 DEF PartsInv, SigninFacts!OneLoginPerCode
  <2> QED
    BY <2>1, <2>4, <2>5
<1> QED
  BY <1>1, SystemInvariance, PTL

\* What was proved of Backend alone holds of it beside sign-in: every account
\* has the credentials of one identity, and stored ones are of that identity.
THEOREM WholeSystem ==
    SystemSpec => []CredentialsAgree /\ []CredentialsMatchStored /\ CredentialsOfOneIdentity
BY BackendBesideSignin, Agree, MatchStored, OfOneIdentity, PTL DEF BackendAsAlone

\* Sign-in keeps its promises beside the others: a stored code is good for one
\* login at most, and the two claims of every JWT select the same single row of
\* users, the full row that the other handlers update.
THEOREM WholeSignin ==
    SystemSpec => []SigninOfSystem!OneLoginPerCode /\ []S!TokensNameOneAccount
<1>1. SigninFacts!OneLoginPerCode => SigninOfSystem!OneLoginPerCode
  BY DEF SigninFacts!OneLoginPerCode, SigninOfSystem!OneLoginPerCode, SigninFacts!Granted,
     SigninOfSystem!Granted, SigninFacts!Validated, SigninOfSystem!Validated,
     SigninFacts!PastCheck, SigninOfSystem!PastCheck, SigninFacts!Live,
     SigninOfSystem!Live, SigninFacts!NoCode, SigninOfSystem!NoCode, SigninFacts!Empty,
     SigninOfSystem!Empty, SigninFacts!Cardinality, SigninOfSystem!Cardinality
<1>2. SystemSpec => []SigninFacts!AccountInv
  <2>1. SigninFacts!Init => SigninFacts!AccountInv
    BY DEF SigninFacts!Init, SigninFacts!AccountInv, SigninFacts!OneAccountPerEmail,
       SigninFacts!TokensNameRows
  <2>2. /\ SigninFacts!TypeOK /\ SigninFacts!AccountInv
        /\ [SigninFacts!Next]_SigninFacts!vars
        => SigninFacts!AccountInv'
    BY SigninFacts!StepAccount, ParseAssumption, CodesAssumption, LoginReqsAssumption,
       BadEmailAssumption
       DEF SigninFacts!StepAccount, SigninFacts!Empty, Empty, SigninFacts!IsFiniteSet,
       IsFiniteSet
  <2>3. Inv /\ [SystemNext]_systemVars => [SigninFacts!Next]_SigninFacts!vars
    BY SignInNext DEF Inv
  <2> QED
    BY <2>1, <2>2, <2>3, SignInInit, SignInFactsHold, SystemKeepsInv, PTL DEF SystemSpec
<1>3. Inv /\ SigninFacts!AccountInv => S!TokensNameOneAccount
  <2> SUFFICES ASSUME Inv, SigninFacts!AccountInv, NEW t \in tokens
               PROVE  \E u \in users : /\ S!GetUserByID(users, t.id) = {u}
                                       /\ S!GetUserByEmail(users, t.email) = {u}
    BY DEF S!TokensNameOneAccount
  <2>1. PICK v \in Accountholders : v.id = t.id /\ v.email = t.email
    BY DEF SigninFacts!AccountInv, SigninFacts!TokensNameRows
  <2>2. PICK u \in users : u.id = t.id /\ u.email = t.email
    BY <2>1 DEF Accountholders, NewUser
  <2>3. \A w \in users : (w.id = t.id \/ w.email = t.email) => w = u
    <3>1. ASSUME NEW w \in users, w.email = t.email
          PROVE  w.id = t.id
      BY <2>2, <3>1, AccountsAssumption DEF Inv, Local, RowsOK, UsersOwn
    <3> QED
      BY <2>2, <3>1 DEF Inv, Local, RowsOK, UsersOwn
  <2>4. S!GetUserByID(users, t.id) = {u} /\ S!GetUserByEmail(users, t.email) = {u}
    BY <2>2, <2>3 DEF S!GetUserByID, S!GetUserByEmail
  <2> QED
    BY <2>4
<1> QED
  BY <1>1, <1>2, <1>3, SignInFactsHold, SystemKeepsInv, PTL
=============================================================================
