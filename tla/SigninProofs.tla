---------------------------- MODULE SigninProofs ----------------------------
(***************************************************************************)
(* Proofs about Signin, for every number of requests, addresses, codes and *)
(* uuids.                                                                  *)
(***************************************************************************)
EXTENDS Signin, FiniteSetTheorems, TLAPS

-----------------------------------------------------------------------------
(* Type correctness                                                        *)

\* What an answer and a move to the next call leave in reqs.
LEMMA AnswerTyped ==
    ASSUME TypeOK, NEW r \in Reqs, NEW status \in Statuses, Answer(r, status)
    PROVE  reqs' \in [Reqs -> Request]
<1>1. Answered(status) \in Request
  BY DEF Answered, NoRequest, Request, Busy
<1> QED
  BY <1>1 DEF Answer, TypeOK

LEMMA GotoTyped ==
    ASSUME TypeOK, NEW r \in Reqs, NEW pc \in Busy, Goto(r, pc),
           reqs[r].pc \in Busy,
           pc \in {"setNX", "sendMail", "getDel"} => reqs[r].code \in Codes
    PROVE  reqs' \in [Reqs -> Request]
<1>1. [reqs[r] EXCEPT !.pc = pc] \in Request
  BY DEF TypeOK, Request, Busy
<1> QED
  BY <1>1 DEF Goto, TypeOK

LEMMA InitTypeOK == Init => TypeOK
BY DEF Init, TypeOK, Request, NoRequest, Busy, Statuses, NoCode

\* One step of Signin keeps every variable in its type.
LEMMA StepTypeOK == TypeOK /\ [Next]_vars => TypeOK'
<1> SUFFICES ASSUME TypeOK, [Next]_vars PROVE TypeOK'
  OBVIOUS
<1>1. ASSUME NEW r \in Reqs, NEW raw \in RawEmails, RequestCode(r, raw)
      PROVE  TypeOK'
  <2>1. reqs' \in [Reqs -> Request]
    <3>1. CASE ParseAddress[raw] = BadEmail
      BY <1>1, <3>1, AnswerTyped DEF RequestCode, Statuses
    <3>2. CASE ParseAddress[raw] # BadEmail
      <4> DEFINE q == [NoRequest EXCEPT !.pc = "getCode",
                                        !.email = ParseAddress[raw]]
      <4>1. q \in Request
        BY <3>2, ParseAssumption DEF Request, NoRequest, Busy
      <4>2. reqs' = [reqs EXCEPT ![r] = q]
        BY <1>1, <3>2 DEF RequestCode
      <4> QED BY <4>1, <4>2 DEF TypeOK
    <3> QED BY <3>1, <3>2
  <2> QED BY <1>1, <2>1 DEF RequestCode, TypeOK
<1>2. ASSUME NEW r \in Reqs, NEW raw \in RawEmails,
             NEW code \in Codes \cup {Empty}, Login(r, raw, code)
      PROVE  TypeOK'
  <2>1. reqs' \in [Reqs -> Request]
    <3>1. CASE ParseAddress[raw] = BadEmail \/ code = Empty
      BY <1>2, <3>1, AnswerTyped DEF Login, Statuses
    <3>2. CASE ~(ParseAddress[raw] = BadEmail \/ code = Empty)
      <4> DEFINE q == [NoRequest EXCEPT !.pc = "getDel", !.code = code,
                                        !.email = ParseAddress[raw]]
      <4>1. q \in Request
        BY <3>2, ParseAssumption DEF Request, NoRequest, Busy
      <4>2. reqs' = [reqs EXCEPT ![r] = q]
        BY <1>2, <3>2 DEF Login, NoRequest
      <4> QED BY <4>1, <4>2 DEF TypeOK
    <3> QED BY <3>1, <3>2
  <2> QED BY <1>2, <2>1 DEF Login, TypeOK
<1>3. ASSUME NEW r \in Reqs, GetCachedCode(r) PROVE TypeOK'
  <2>1. ASSUME NEW c \in Codes,
               reqs' = [reqs EXCEPT ![r].pc = "setNX", ![r].code = c]
        PROVE  reqs' \in [Reqs -> Request]
    BY <1>3, <2>1 DEF GetCachedCode, At, TypeOK, Request, Busy
  <2>2. reqs' \in [Reqs -> Request]
    BY <1>3, <2>1, AnswerTyped DEF GetCachedCode, Statuses
  <2> QED BY <1>3, <2>2 DEF GetCachedCode, TypeOK
<1>4. ASSUME NEW r \in Reqs, CacheCode(r) PROVE TypeOK'
  <2>1. reqs[r].email \in Emails /\ reqs[r].code \in Codes /\ reqs[r].pc \in Busy
    BY <1>4 DEF CacheCode, At, TypeOK, Request, Busy
  <2>2. reqs' \in [Reqs -> Request]
    BY <1>4, <2>1, AnswerTyped, GotoTyped DEF CacheCode, Statuses, Busy
  <2>3. /\ codeCache' \in [Emails -> Codes \cup {NoCode}]
        /\ stored' \in [Emails -> Nat]
    BY <1>4, <2>1 DEF CacheCode, StoreIfAbsent, Email, TypeOK
  <2> QED BY <1>4, <2>2, <2>3 DEF CacheCode, TypeOK
<1>5. ASSUME NEW r \in Reqs, SendSigninCodeToEmail(r) PROVE TypeOK'
  <2>1. reqs[r].email \in Emails /\ reqs[r].code \in Codes
    BY <1>5 DEF SendSigninCodeToEmail, At, TypeOK, Request, Busy
  <2>2. reqs' \in [Reqs -> Request]
    BY <1>5, AnswerTyped DEF SendSigninCodeToEmail, Statuses
  <2> QED BY <1>5, <2>1, <2>2 DEF SendSigninCodeToEmail, Email, TypeOK
<1>6. ASSUME NEW r \in Reqs, TakeCode(r) PROVE TypeOK'
  <2>1. reqs[r].pc \in Busy
    BY <1>6 DEF TakeCode, At, Busy
  <2>2. reqs' \in [Reqs -> Request]
    BY <1>6, <2>1, AnswerTyped, GotoTyped DEF TakeCode, Statuses, Busy
  <2>3. codeCache' \in [Emails -> Codes \cup {NoCode}]
    BY <1>6 DEF TakeCode, TypeOK
  <2> QED BY <1>6, <2>2, <2>3 DEF TakeCode, TypeOK
<1>7. ASSUME NEW r \in Reqs, FindUser(r) PROVE TypeOK'
  <2>1. reqs[r].pc \in Busy
    BY <1>7 DEF FindUser, At, Busy
  <2>2. ASSUME NEW u \in GetUserByEmail(users, Email(r)), LogIn(r, u)
        PROVE  TypeOK'
    <3>1. u.id \in UserIDs /\ u.email \in Emails
      BY <2>2 DEF TypeOK, GetUserByEmail, UserRow
    <3>2. reqs' \in [Reqs -> Request]
      BY <2>2, AnswerTyped DEF LogIn, Statuses
    <3> QED BY <1>7, <2>2, <3>1, <3>2 DEF FindUser, LogIn, TypeOK
  <2>3. ASSUME Goto(r, "createUser") \/ Answer(r, 500)
        PROVE  reqs' \in [Reqs -> Request]
    BY <2>1, <2>3, AnswerTyped, GotoTyped DEF Statuses, Busy
  <2> QED BY <1>7, <2>2, <2>3 DEF FindUser, TypeOK
<1>8. ASSUME NEW r \in Reqs, CreateUser(r) PROVE TypeOK'
  <2>1. reqs[r].email \in Emails
    BY <1>8 DEF CreateUser, At, TypeOK, Request, Busy
  <2>2. ASSUME NEW id \in UserIDs
        PROVE  /\ NewUser(id, Email(r)) \in UserRow(UserIDs, Emails, {})
               /\ NewUser(id, Email(r)).id = id
               /\ NewUser(id, Email(r)).email = Email(r)
    BY <2>1 DEF NewUser, UserRow, Email
  <2>3. users' \subseteq UserRow(UserIDs, Emails, {})
    BY <1>8, <2>2 DEF CreateUser, TypeOK
  <2>4. reqs' \in [Reqs -> Request]
    BY <1>8, AnswerTyped DEF CreateUser, LogIn, Statuses
  <2>5. /\ tokens' \subseteq [id : UserIDs, email : Emails]
        /\ logins' \in [Emails -> Nat]
    BY <1>8, <2>1, <2>2 DEF CreateUser, LogIn, TypeOK, Email
  <2> QED BY <1>8, <2>3, <2>4, <2>5 DEF CreateUser, TypeOK
<1>9. ASSUME NEW e \in Emails, ExpireCode(e) PROVE TypeOK'
  BY <1>9 DEF ExpireCode, TypeOK
<1>10. CASE RedisRestart
  BY <1>10 DEF RedisRestart, TypeOK
<1>11. CASE BackendCrash
  BY <1>11 DEF BackendCrash, TypeOK, NoRequest, Request, Busy
<1>12. CASE UNCHANGED vars
  BY <1>12 DEF vars, TypeOK
<1> QED
  BY <1>1, <1>2, <1>3, <1>4, <1>5, <1>6, <1>7, <1>8, <1>9, <1>10, <1>11, <1>12
     DEF Next, Step, Receive

\* The variables keep their types in every behaviour of the sign-in handlers.
THEOREM TypeCorrect == Spec => []TypeOK
BY InitTypeOK, StepTypeOK, PTL DEF Spec

-----------------------------------------------------------------------------
(* One login per code                                                      *)

LEMMA GrantedType ==
    ASSUME NEW e
    PROVE  /\ IsFiniteSet(Validated(e)) /\ Granted(e) \in Nat
           /\ IsFiniteSet(Validated(e)') /\ Granted(e)' \in Nat
BY ReqsAssumption, FS_Subset, FS_CardinalityType DEF Validated, Granted

\* Putting q in r's place moves the count by what r gives up and q brings.
LEMMA GrantedMoves ==
    ASSUME TypeOK, NEW r \in Reqs, NEW q, reqs' = [reqs EXCEPT ![r] = q], NEW e
    PROVE  /\ (PastCheck(q, e) <=> PastCheck(reqs[r], e)) => Granted(e)' = Granted(e)
           /\ PastCheck(q, e) /\ ~PastCheck(reqs[r], e) => Granted(e)' = Granted(e) + 1
           /\ ~PastCheck(q, e) /\ PastCheck(reqs[r], e) => Granted(e)' = Granted(e) - 1
<1> DEFINE V == Validated(e)
           W == Validated(e)'
<1>1. IsFiniteSet(V)
  BY GrantedType
<1>2. W = IF PastCheck(q, e) THEN V \cup {r} ELSE V \ {r}
  BY DEF TypeOK, Validated, PastCheck
<1>3. r \in V <=> PastCheck(reqs[r], e)
  BY DEF Validated
<1>4. Granted(e) = Cardinality(V) /\ Granted(e)' = Cardinality(W)
  BY DEF Granted
<1> HIDE DEF V, W
<1>5. CASE PastCheck(q, e)
  BY <1>1, <1>2, <1>3, <1>4, <1>5, FS_AddElement
<1>6. CASE ~PastCheck(q, e)
  BY <1>1, <1>2, <1>3, <1>4, <1>6, FS_RemoveElement
<1> QED
  BY <1>5, <1>6

\* A handler that answers gives up the code it had taken, if it had taken one.
LEMMA AnswerGranted ==
    ASSUME TypeOK, NEW r \in Reqs, NEW status, Answer(r, status), NEW e
    PROVE  Granted(e)' = IF PastCheck(reqs[r], e) THEN Granted(e) - 1 ELSE Granted(e)
<1>1. ~PastCheck(Answered(status), e)
  BY DEF PastCheck, Answered, NoRequest
<1>2. reqs' = [reqs EXCEPT ![r] = Answered(status)]
  BY DEF Answer
<1> QED
  BY <1>1, <1>2, GrantedMoves

LEMMA GotoGranted ==
    ASSUME TypeOK, NEW r \in Reqs, NEW pc, Goto(r, pc), NEW e
    PROVE  LET is  == pc \in {"getUser", "createUser"} /\ reqs[r].email = e
               was == PastCheck(reqs[r], e)
           IN  /\ (is <=> was) => Granted(e)' = Granted(e)
               /\ is /\ ~was => Granted(e)' = Granted(e) + 1
               /\ ~is /\ was => Granted(e)' = Granted(e) - 1
<1> DEFINE q == [reqs[r] EXCEPT !.pc = pc]
<1>1. PastCheck(q, e) <=> pc \in {"getUser", "createUser"} /\ reqs[r].email = e
  BY DEF PastCheck, TypeOK, Request
<1>2. reqs' = [reqs EXCEPT ![r] = q]
  BY DEF Goto, TypeOK
<1> HIDE DEF q
<1> QED
  BY <1>1, <1>2, GrantedMoves



-----------------------------------------------------------------------------
(* Signin implements OneTimeCode                                           *)

LEMMA InitOTC == Init => OTC!Init
<1> SUFFICES ASSUME Init PROVE OTC!Init
  OBVIOUS
<1>1. ASSUME NEW e \in Emails PROVE Granted(e) = 0
  <2>1. Validated(e) = {}
    BY DEF Init, Validated, PastCheck, NoRequest
  <2> QED BY <2>1, FS_EmptySet DEF Granted
<1> QED
  BY <1>1 DEF Init, OTC!Init

\* A handler that has not passed the code check answers or moves to a call
\* that is not past it either: no redemption comes or goes.
LEMMA BeforeCheck ==
    ASSUME TypeOK, NEW r \in Reqs, NEW q, reqs' = [reqs EXCEPT ![r] = q],
           reqs[r].pc \notin {"getUser", "createUser"},
           q.pc \notin {"getUser", "createUser"}
    PROVE  [e \in Emails |-> Granted(e)]' = [e \in Emails |-> Granted(e)]
<1>1. ASSUME NEW e \in Emails PROVE Granted(e)' = Granted(e)
  BY GrantedMoves DEF PastCheck
<1> QED
  BY <1>1

LEMMA AnswerBeforeCheck ==
    ASSUME TypeOK, NEW r \in Reqs, NEW status, Answer(r, status),
           reqs[r].pc \notin {"getUser", "createUser"}
    PROVE  [e \in Emails |-> Granted(e)]' = [e \in Emails |-> Granted(e)]
<1>1. Answered(status).pc = "done"
  BY DEF Answered, NoRequest
<1> QED
  BY <1>1, BeforeCheck DEF Answer

\* A handler past the check that answers uses up its own redemption.
LEMMA AnswerAfterCheck ==
    ASSUME TypeOK, NEW r \in Reqs, NEW status, Answer(r, status),
           reqs[r].pc \in {"getUser", "createUser"}
    PROVE  /\ Email(r) \in Emails
           /\ Granted(Email(r)) > 0
           /\ [e \in Emails |-> Granted(e)]'
                = [[e \in Emails |-> Granted(e)] EXCEPT ![Email(r)] = @ - 1]
<1>1. Email(r) \in Emails
  BY DEF TypeOK, Request, Busy, Email
<1>2. ASSUME NEW e \in Emails
      PROVE  Granted(e)' = IF e = Email(r) THEN Granted(e) - 1 ELSE Granted(e)
  BY AnswerGranted DEF PastCheck, Email
<1>3. ASSUME NEW e \in Emails, e = Email(r) PROVE Granted(e) > 0
  <2>1. Granted(e)' = Granted(e) - 1
    BY <1>2, <1>3
  <2> QED BY <2>1, GrantedType
<1> QED
  BY <1>1, <1>2, <1>3

\* Every step of Signin is a step of OneTimeCode or leaves its state alone.
LEMMA StepOTC == TypeOK /\ [Next]_vars => [OTC!Next]_(OTC!vars)
<1> SUFFICES ASSUME TypeOK, [Next]_vars PROVE [OTC!Next]_(OTC!vars)
  OBVIOUS
<1> DEFINE G == [e \in Emails |-> Granted(e)]
           Stutter == UNCHANGED <<codeCache, stored, logins>> /\ G' = G
<1>s. Stutter => UNCHANGED OTC!vars
  BY DEF OTC!vars
<1>w. ASSUME NEW K \in SUBSET Emails, G' = G, UNCHANGED <<stored, logins>>,
             codeCache' = [e \in Emails |-> IF e \in K THEN NoCode ELSE codeCache[e]]
      PROVE  OTC!Next
  BY <1>w DEF OTC!Next, OTC!Withdraw
<1>f. ASSUME UNCHANGED <<codeCache, stored, logins>>,
             \A e \in Emails : Granted(e)' <= Granted(e)
      PROVE  OTC!Next
  <2>1. G' \in [Emails -> Nat]
    BY GrantedType
  <2> QED BY <1>f, <2>1 DEF OTC!Next, OTC!Forfeit
<1>1. ASSUME NEW r \in Reqs, NEW raw \in RawEmails, RequestCode(r, raw)
      PROVE  Stutter
  <2>1. reqs[r].pc \notin {"getUser", "createUser"}
    BY <1>1 DEF RequestCode, Free, Busy
  <2>2. CASE ParseAddress[raw] = BadEmail
    BY <1>1, <2>1, <2>2, AnswerBeforeCheck DEF RequestCode
  <2>3. CASE ParseAddress[raw] # BadEmail
    <3> DEFINE q == [NoRequest EXCEPT !.pc = "getCode", !.email = ParseAddress[raw]]
    <3>1. reqs' = [reqs EXCEPT ![r] = q] /\ q.pc = "getCode"
      BY <1>1, <2>3 DEF RequestCode, NoRequest
    <3> QED BY <1>1, <2>1, <3>1, BeforeCheck DEF RequestCode
  <2> QED BY <2>2, <2>3
<1>2. ASSUME NEW r \in Reqs, NEW raw \in RawEmails,
             NEW code \in Codes \cup {Empty}, Login(r, raw, code)
      PROVE  Stutter
  <2>1. reqs[r].pc \notin {"getUser", "createUser"}
    BY <1>2 DEF Login, Free, Busy
  <2>2. CASE ParseAddress[raw] = BadEmail \/ code = Empty
    BY <1>2, <2>1, <2>2, AnswerBeforeCheck DEF Login
  <2>3. CASE ~(ParseAddress[raw] = BadEmail \/ code = Empty)
    <3> DEFINE q == [NoRequest EXCEPT !.pc = "getDel", !.code = code,
                                      !.email = ParseAddress[raw]]
    <3>1. reqs' = [reqs EXCEPT ![r] = q] /\ q.pc = "getDel"
      BY <1>2, <2>3 DEF Login, NoRequest
    <3> QED BY <1>2, <2>1, <3>1, BeforeCheck DEF Login
  <2> QED BY <2>2, <2>3
<1>3. ASSUME NEW r \in Reqs, GetCachedCode(r) PROVE Stutter
  <2>1. reqs[r].pc \notin {"getUser", "createUser"}
    BY <1>3 DEF GetCachedCode, At
  <2>2. ASSUME NEW c \in Codes,
               reqs' = [reqs EXCEPT ![r].pc = "setNX", ![r].code = c]
        PROVE  G' = G
    <3> DEFINE q == [reqs[r] EXCEPT !.pc = "setNX", !.code = c]
    <3>1. reqs' = [reqs EXCEPT ![r] = q] /\ q.pc = "setNX"
      BY <2>2 DEF TypeOK, Request
    <3> QED BY <2>1, <3>1, BeforeCheck
  <2>3. ASSUME NEW status, Answer(r, status) PROVE G' = G
    BY <2>1, <2>3, AnswerBeforeCheck
  <2> HIDE DEF G
  <2> QED BY <1>3, <2>2, <2>3 DEF GetCachedCode
<1>4. ASSUME NEW r \in Reqs, CacheCode(r) PROVE OTC!Next \/ Stutter
  <2>1. /\ reqs[r].pc \notin {"getUser", "createUser"}
        /\ Email(r) \in Emails /\ reqs[r].code \in Codes
    BY <1>4 DEF CacheCode, At, TypeOK, Request, Busy, Email
  <2>2. G' = G
    <3>1. ASSUME Goto(r, "sendMail") PROVE G' = G
      <4> DEFINE q == [reqs[r] EXCEPT !.pc = "sendMail"]
      <4>1. reqs' = [reqs EXCEPT ![r] = q] /\ q.pc = "sendMail"
        BY <3>1 DEF Goto, TypeOK, Request
      <4> QED BY <2>1, <4>1, BeforeCheck
    <3>2. ASSUME Answer(r, 500) PROVE G' = G
      BY <2>1, <3>2, AnswerBeforeCheck
    <3> HIDE DEF G
    <3> QED BY <1>4, <3>1, <3>2 DEF CacheCode
  <2>3. CASE codeCache[Email(r)] = NoCode /\ StoreIfAbsent(Email(r), reqs[r].code)
    BY <1>4, <2>1, <2>2, <2>3 DEF CacheCode, StoreIfAbsent, OTC!Next, OTC!Issue
  <2>4. CASE UNCHANGED <<codeCache, stored>>
    BY <1>4, <2>2, <2>4 DEF CacheCode
  <2> QED BY <1>4, <2>3, <2>4 DEF CacheCode, StoreIfAbsent
<1>5. ASSUME NEW r \in Reqs, SendSigninCodeToEmail(r) PROVE Stutter
  <2>1. reqs[r].pc \notin {"getUser", "createUser"}
    BY <1>5 DEF SendSigninCodeToEmail, At
  <2> QED BY <1>5, <2>1, AnswerBeforeCheck DEF SendSigninCodeToEmail
<1>6. ASSUME NEW r \in Reqs, TakeCode(r) PROVE OTC!Next \/ Stutter
  <2>1. /\ reqs[r].pc \notin {"getUser", "createUser"}
        /\ Email(r) \in Emails /\ reqs[r].code \in Codes
    BY <1>6 DEF TakeCode, At, TypeOK, Request, Busy, Email
  <2>2. ASSUME NEW status, Answer(r, status) PROVE G' = G
    BY <2>1, <2>2, AnswerBeforeCheck
  <2>3. CASE UNCHANGED codeCache /\ Answer(r, 500)
    BY <1>6, <2>2, <2>3 DEF TakeCode
  <2>4. CASE /\ codeCache' = [codeCache EXCEPT ![Email(r)] = NoCode]
             /\ Answer(r, 401) \/ Answer(r, 500)
    <3>1. codeCache' = [e \in Emails |-> IF e \in {Email(r)} THEN NoCode
                                                            ELSE codeCache[e]]
      BY <2>4 DEF TypeOK
    <3> QED BY <1>6, <1>w, <2>1, <2>2, <2>4, <3>1 DEF TakeCode
  <2>5. CASE /\ codeCache' = [codeCache EXCEPT ![Email(r)] = NoCode]
             /\ codeCache[Email(r)] = reqs[r].code
             /\ Goto(r, "getUser")
    <3>1. G' = [G EXCEPT ![Email(r)] = @ + 1]
      <4>1. ASSUME NEW e \in Emails
            PROVE  Granted(e)' = IF e = Email(r) THEN Granted(e) + 1 ELSE Granted(e)
        BY <2>1, <2>5, GotoGranted DEF PastCheck, Email
      <4> QED BY <4>1
    <3>2. codeCache[Email(r)] # NoCode
      BY <2>1, <2>5, CodesAssumption DEF NoCode
    <3>3. [key |-> Email(r), code |-> codeCache[Email(r)]] \in Tries
      BY <1>6, <2>5 DEF TakeCode, Tries
    <3> QED BY <1>6, <2>1, <2>5, <3>1, <3>2, <3>3 DEF TakeCode, OTC!Next, OTC!Redeem
  <2> QED BY <1>6, <2>3, <2>4, <2>5 DEF TakeCode
<1>a. ASSUME NEW r \in Reqs, reqs[r].pc \in {"getUser", "createUser"},
             Answer(r, 500), UNCHANGED <<codeCache, stored, logins>>
      PROVE  OTC!Next
  <2>1. \A e \in Emails : Granted(e)' <= Granted(e)
    BY <1>a, AnswerGranted, GrantedType
  <2> QED BY <1>a, <1>f, <2>1
<1>l. ASSUME NEW r \in Reqs, reqs[r].pc \in {"getUser", "createUser"},
             NEW u, u.email = Email(r), LogIn(r, u),
             UNCHANGED <<codeCache, stored>>
      PROVE  OTC!Next
  <2>1. CASE logins' = [logins EXCEPT ![u.email] = @ + 1] /\ Answer(r, 200)
    BY <1>l, <2>1, AnswerAfterCheck DEF OTC!Next, OTC!OpenSession
  <2>2. CASE UNCHANGED logins /\ Answer(r, 500)
    BY <1>l, <1>a, <2>2
  <2> QED BY <1>l, <2>1, <2>2 DEF LogIn
<1>7. ASSUME NEW r \in Reqs, FindUser(r) PROVE OTC!Next \/ Stutter
  <2>1. reqs[r].pc \in {"getUser", "createUser"}
    BY <1>7 DEF FindUser, At
  <2>2. ASSUME NEW u \in GetUserByEmail(users, Email(r)), LogIn(r, u) PROVE OTC!Next
    BY <1>7, <1>l, <2>1, <2>2 DEF FindUser, GetUserByEmail
  <2>3. CASE Goto(r, "createUser") /\ UNCHANGED logins
    <3>1. \A e \in Emails : Granted(e)' = Granted(e)
      BY <2>1, <2>3, GotoGranted DEF PastCheck
    <3> QED BY <1>7, <2>3, <3>1 DEF FindUser
  <2>4. CASE Answer(r, 500) /\ UNCHANGED logins
    BY <1>7, <1>a, <2>1, <2>4 DEF FindUser
  <2> QED BY <1>7, <2>2, <2>3, <2>4 DEF FindUser
<1>8. ASSUME NEW r \in Reqs, CreateUser(r) PROVE OTC!Next
  <2>1. reqs[r].pc \in {"getUser", "createUser"}
    BY <1>8 DEF CreateUser, At
  <2>2. ASSUME NEW id \in UserIDs, LogIn(r, NewUser(id, Email(r))) PROVE OTC!Next
    BY <1>8, <1>l, <2>1, <2>2 DEF CreateUser, NewUser
  <2>3. CASE Answer(r, 500) /\ UNCHANGED logins
    BY <1>8, <1>a, <2>1, <2>3 DEF CreateUser
  <2> QED BY <1>8, <2>2, <2>3 DEF CreateUser
<1>q. ASSUME UNCHANGED reqs PROVE G' = G
  BY <1>q DEF Granted, Validated
<1>9. ASSUME NEW e \in Emails, ExpireCode(e) PROVE OTC!Next
  <2>1. codeCache' = [k \in Emails |-> IF k \in {e} THEN NoCode ELSE codeCache[k]]
    BY <1>9 DEF ExpireCode, TypeOK
  <2> QED BY <1>9, <1>q, <1>w, <2>1 DEF ExpireCode
<1>10. CASE RedisRestart
  BY <1>10, <1>q, <1>w DEF RedisRestart
<1>11. CASE BackendCrash
  <2>1. ASSUME NEW e \in Emails PROVE Granted(e)' <= Granted(e)
    <3>1. Validated(e)' = {}
      BY <1>11 DEF BackendCrash, Validated, PastCheck, NoRequest
    <3>2. Granted(e)' = 0
      BY <3>1, FS_EmptySet DEF Granted
    <3> QED BY <3>2, GrantedType
  <2> QED BY <1>11, <1>f, <2>1 DEF BackendCrash
<1>12. CASE UNCHANGED vars
  BY <1>12, <1>q, <1>s DEF vars
<1> QED
  BY <1>1, <1>2, <1>3, <1>4, <1>5, <1>6, <1>7, <1>8, <1>9, <1>10, <1>11, <1>12,
     <1>s DEF Next, Step, Receive

\* The handlers of sign-in, with their races, failures and restarts, keep the
\* promise of one-time codes.
THEOREM Implementation == Spec => CodesAreOneTime
BY InitOTC, InitTypeOK, StepTypeOK, StepOTC, PTL DEF Spec, CodesAreOneTime, OTC!Spec

-----------------------------------------------------------------------------
(* What follows from the steps of OneTimeCode                              *)

LEMMA InitOneLogin == Init => OneLoginPerCode
<1> SUFFICES ASSUME Init, NEW e \in Emails
             PROVE  logins[e] + Granted(e) + Live(e) <= stored[e]
  BY DEF OneLoginPerCode
<1>1. Granted(e) = 0
  BY InitOTC DEF OTC!Init
<1> QED
  BY <1>1 DEF Init, Live

\* The inductive invariant is the property itself, once the types are known:
\* a step of OneTimeCode moves a code along the chain stored, live, redeemed,
\* session, or drops it, and only a store adds one.
LEMMA StepOneLogin ==
    TypeOK /\ TypeOK' /\ OneLoginPerCode /\ [OTC!Next]_(OTC!vars) => OneLoginPerCode'
<1> SUFFICES ASSUME TypeOK, TypeOK', OneLoginPerCode, [OTC!Next]_(OTC!vars),
                    NEW e \in Emails
             PROVE  logins'[e] + Granted(e)' + Live(e)' <= stored'[e]
  BY DEF OneLoginPerCode
<1> DEFINE G == [k \in Emails |-> Granted(k)]
<1>1. /\ G[e] = Granted(e) /\ G'[e] = Granted(e)'
      /\ G[e] \in Nat /\ G'[e] \in Nat
      /\ G \in [Emails -> Nat]
  BY GrantedType
<1>2. /\ logins[e] + G[e] + Live(e) <= stored[e]
      /\ logins \in [Emails -> Nat] /\ stored \in [Emails -> Nat]
      /\ codeCache \in [Emails -> Codes \cup {NoCode}]
      /\ logins'[e] \in Nat /\ stored'[e] \in Nat
  BY <1>1 DEF OneLoginPerCode, TypeOK
<1>3. SUFFICES logins'[e] + G'[e] + Live(e)' <= stored'[e]
  BY <1>1
<1>4. ASSUME NEW k \in Emails, NEW c \in Codes, OTC!Issue(k, c)
      PROVE  logins'[e] + G'[e] + Live(e)' <= stored'[e]
  <2>1. G' = G /\ logins' = logins /\ codeCache[k] = NoCode
        /\ codeCache' = [codeCache EXCEPT ![k] = c]
        /\ stored' = [stored EXCEPT ![k] = @ + 1]
    BY <1>4 DEF OTC!Issue
  <2> HIDE DEF G
  <2> QED BY <1>2, <1>1, <2>1 DEF Live
<1>5. ASSUME NEW k \in Emails, OTC!Redeem(k)
      PROVE  logins'[e] + G'[e] + Live(e)' <= stored'[e]
  <2>1. stored' = stored /\ logins' = logins /\ codeCache[k] # NoCode
        /\ codeCache' = [codeCache EXCEPT ![k] = NoCode]
        /\ G' = [G EXCEPT ![k] = @ + 1]
    BY <1>5 DEF OTC!Redeem
  <2> HIDE DEF G
  <2> QED BY <1>2, <1>1, <2>1 DEF Live
<1>6. ASSUME NEW k \in Emails, OTC!OpenSession(k)
      PROVE  logins'[e] + G'[e] + Live(e)' <= stored'[e]
  <2>1. stored' = stored /\ codeCache' = codeCache
        /\ G' = [G EXCEPT ![k] = @ - 1]
        /\ logins' = [logins EXCEPT ![k] = @ + 1]
    BY <1>6 DEF OTC!OpenSession
  <2> HIDE DEF G
  <2> QED BY <1>2, <1>1, <2>1 DEF Live
<1>7. ASSUME NEW K \in SUBSET Emails, OTC!Withdraw(K)
      PROVE  logins'[e] + G'[e] + Live(e)' <= stored'[e]
  <2>1. stored' = stored /\ logins' = logins /\ G' = G
        /\ codeCache'[e] \in {codeCache[e], NoCode}
    BY <1>7 DEF OTC!Withdraw
  <2> HIDE DEF G
  <2> QED BY <1>2, <1>1, <2>1 DEF Live
<1>8. CASE OTC!Forfeit
  <2>1. stored' = stored /\ logins' = logins /\ codeCache' = codeCache
        /\ G'[e] <= G[e]
    BY <1>8 DEF OTC!Forfeit
  <2> HIDE DEF G
  <2> QED BY <1>2, <1>1, <2>1 DEF Live
<1>9. CASE UNCHANGED OTC!vars
  <2>1. stored' = stored /\ logins' = logins /\ codeCache' = codeCache /\ G' = G
    BY <1>9 DEF OTC!vars
  <2> HIDE DEF G
  <2> QED BY <1>2, <1>1, <2>1 DEF Live
<1> QED
  BY <1>4, <1>5, <1>6, <1>7, <1>8, <1>9 DEF OTC!Next

LEMMA NextOneLogin ==
    OneLoginPerCode /\ TypeOK /\ TypeOK' /\ [Next]_vars => OneLoginPerCode'
BY StepOTC, StepOneLogin

\* A stored code is good for one login at most.
THEOREM OneLogin == Spec => []OneLoginPerCode
BY NextOneLogin, InitOneLogin, TypeCorrect, PTL DEF Spec

\* A code in Redis is never replaced by another code.
THEOREM NoReplacement == Spec => LiveCodeNeverReplaced
<1>1. ASSUME TypeOK, [Next]_vars, NEW e \in Emails, codeCache[e] # NoCode
      PROVE  codeCache'[e] \in {codeCache[e], NoCode}
  <2>1. [OTC!Next]_(OTC!vars)
    BY <1>1, StepOTC
  <2> QED
    BY <1>1, <2>1 DEF TypeOK, OTC!Next, OTC!vars, OTC!Issue, OTC!Redeem,
                      OTC!Withdraw, OTC!OpenSession, OTC!Forfeit
<1>2. TypeOK /\ [Next]_vars =>
         [\A e \in Emails :
            codeCache[e] # NoCode => codeCache'[e] \in {codeCache[e], NoCode}]_vars
  BY <1>1
<1> QED
  BY <1>2, TypeCorrect, PTL DEF Spec, LiveCodeNeverReplaced

-----------------------------------------------------------------------------
(* Accounts                                                                *)

\* Two logins that race to create the account of an address end with one row,
\* and an id belongs to one address.
OneAccountPerEmail ==
    \A u, v \in users : (u.email = v.email \/ u.id = v.id) => u = v

\* Every token names a row that exists.  Together with the uniqueness of rows
\* this is inductive, and it gives TokensNameOneAccount.
TokensNameRows ==
    \A t \in tokens : \E u \in users : u.id = t.id /\ u.email = t.email

AccountInv == OneAccountPerEmail /\ TokensNameRows

LEMMA StepAccount == TypeOK /\ AccountInv /\ [Next]_vars => AccountInv'
<1> SUFFICES ASSUME TypeOK, AccountInv, [Next]_vars PROVE AccountInv'
  OBVIOUS
<1> USE DEF AccountInv, OneAccountPerEmail, TokensNameRows
<1>1. CASE UNCHANGED <<users, tokens>>
  BY <1>1
<1>2. ASSUME NEW r \in Reqs, FindUser(r) PROVE AccountInv'
  <2>1. ASSUME NEW u \in users, tokens' = tokens \cup {[id |-> u.id, email |-> u.email]},
               users' = users
        PROVE  AccountInv'
    BY <2>1
  <2>2. users' = users
    BY <1>2 DEF FindUser
  <2>3. CASE tokens' = tokens
    BY <1>1, <2>2, <2>3
  <2> QED
    BY <1>2, <2>1, <2>2, <2>3 DEF FindUser, LogIn, GetUserByEmail
<1>3. ASSUME NEW r \in Reqs, CreateUser(r) PROVE AccountInv'
  <2>1. CASE UNCHANGED <<users, tokens>>
    BY <1>1, <2>1
  <2>2. ASSUME NEW id \in UserIDs, NEW u, u = NewUser(id, Email(r)),
               UserKeysFree(users, id, Email(r)), users' = users \cup {u},
               tokens' = tokens \/ tokens' = tokens \cup {[id |-> u.id, email |-> u.email]}
        PROVE  AccountInv'
    <3>1. u.id = id /\ u.email = Email(r)
      BY <2>2 DEF NewUser
    <3>2. \A v \in users : v.id # u.id /\ v.email # u.email
      BY <2>2, <3>1 DEF UserKeysFree, GetUserByID, GetUserByEmail
    <3>3. OneAccountPerEmail'
      BY <2>2, <3>2
    <3>4. TokensNameRows'
      BY <2>2
    <3> QED BY <3>3, <3>4
  <2> QED
    BY <1>3, <2>1, <2>2 DEF CreateUser, LogIn
<1> QED
  BY <1>1, <1>2, <1>3
     DEF Next, Step, Receive, vars, RequestCode, Login, GetCachedCode, CacheCode,
         SendSigninCodeToEmail, TakeCode, ExpireCode, RedisRestart, BackendCrash

\* The two claims of every JWT select the same single users row.
THEOREM OneAccountPerToken == Spec => []TokensNameOneAccount
<1>1. Init => AccountInv
  BY DEF Init, AccountInv, OneAccountPerEmail, TokensNameRows
<1>2. AccountInv => TokensNameOneAccount
  <2> SUFFICES ASSUME AccountInv, NEW t \in tokens
               PROVE  \E u \in users : /\ GetUserByID(users, t.id) = {u}
                                      /\ GetUserByEmail(users, t.email) = {u}
    BY DEF TokensNameOneAccount
  <2>1. PICK u \in users : u.id = t.id /\ u.email = t.email
    BY DEF AccountInv, TokensNameRows
  <2>2. \A v \in users : (v.id = t.id \/ v.email = t.email) => v = u
    BY <2>1 DEF AccountInv, OneAccountPerEmail
  <2> QED BY <2>1, <2>2 DEF GetUserByID, GetUserByEmail
<1> QED
  BY <1>1, <1>2, StepAccount, TypeCorrect, PTL DEF Spec
=====
