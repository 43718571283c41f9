--------------------------- MODULE GatewayProofs ----------------------------
(***************************************************************************)
(* Proofs about Gateway, for all sets of requests, accounts, paths and     *)
(* methods and for every lifetime of tokens.                               *)
(***************************************************************************)
EXTENDS Gateway, SequenceTheorems, TLAPS

\* Every token expires, and exactly JWTExpiresSec after it was handed out.
TokenInv ==
    /\ clock \in Nat \ {0}
    /\ \A t \in tokens : /\ t.iat \in Nat \ {0}
                         /\ t.exp = t.iat + JWTExpiresSec

\* What authMiddleware accepts is what the history calls a fresh token.
LEMMA ValidIsFresh ==
    ASSUME tokens \subseteq Token, TokenInv, NEW auth
    PROVE  /\ ValidateJWT(auth) = {} => Bearer(auth) = NoClaims
           /\ \A c \in ValidateJWT(auth) : c = Bearer(auth) /\ c \in Accounts
<1>1. \A t \in tokens : NotExpired(t) <=> clock <= t.iat + JWTExpiresSec
  BY ExpiryAssumption DEF TokenInv, NotExpired
<1>2. \A t \in tokens : Claims(t) \in Accounts
  BY DEF Token
<1> DEFINE fresh == {t \in tokens : t = auth /\ clock <= t.iat + JWTExpiresSec}
<1>3. CASE fresh = {}
  <2>1. ValidateJWT(auth) = {}
    BY <1>1, <1>3 DEF ValidateJWT
  <2> QED BY <2>1, <1>3 DEF Bearer
<1>4. CASE fresh # {}
  <2>1. fresh = {auth} /\ auth \in tokens
    BY <1>4
  <2>2. ValidateJWT(auth) = {Claims(auth)}
    BY <1>1, <2>1 DEF ValidateJWT
  <2>3. Bearer(auth) = Claims(auth)
    BY <2>1 DEF Bearer
  <2> QED BY <1>2, <2>1, <2>2, <2>3
<1> QED BY <1>3, <1>4

LEMMA AccountIsNamed ==
    ASSUME NEW a \in Accounts
    PROVE  a.id # Empty /\ a.email # Empty /\ a # NoClaims
<1>1. a.id # Empty /\ a.email # Empty
  BY ClientAccountsAssumption
<1> QED BY <1>1 DEF NoClaims

\* The operation a request is for is one of the route table, or none.
LEMMA OpRouted ==
    ASSUME NEW q
    PROVE  /\ Op(q) \in Ops \cup {NoOp}
           /\ RoutedOps(q) # {} /\ ~q.slash => Op(q) \in RoutedOps(q)
BY DEF Op, RoutedOps, PathOps

\* No service that acts for a user is behind a public path.
LEMMA PublicIsAnonymous ==
    ASSUME NEW q, IsPublic(q), NEW op \in RoutedOps(q)
    PROVE  op \in Anonymous
<1>1. op \in Ops
  BY DEF RoutedOps, PathOps
<1>2. op \in Anonymous \/
      op \in {"EventsEventIdRequestTicketCredentialPost", "UserUpdatePut", "UserMeGet",
             "UserMeEmailCredentialGet", "UserMeEmailCredentialPut",
             "UserMeRequestEmailCredentialPost", "UserMeTicketCredentialPut",
             "UserMeTicketCredentialsGet"}
  BY <1>1 DEF Ops, Routes, Anonymous
<1> DEFINE n == Len(q.path)
           last == q.path[2]
<1>3. n = 1 \/ (n = 2 /\ last \in {"login", "request-verification-code"})
  BY DEF IsPublic, PublicPaths
<1>4. PathMatches(op, q.path)
  BY DEF RoutedOps, PathOps
<1>5. ASSUME op \in {"EventsEventIdRequestTicketCredentialPost",
                     "UserMeEmailCredentialGet", "UserMeEmailCredentialPut",
                     "UserMeRequestEmailCredentialPost",
                     "UserMeTicketCredentialPut", "UserMeTicketCredentialsGet"}
      PROVE  FALSE
  <2>1. Len(Routes[op].path) = 3
    BY <1>5 DEF Routes
  <2>2. n = 3
    BY <1>4, <2>1 DEF PathMatches
  <2> HIDE DEF n, last
  <2> QED BY <1>3, <2>2
<1>6. ASSUME op \in {"UserUpdatePut", "UserMeGet"}
      PROVE  FALSE
  <2> PICK s \in {"update", "me"} : Routes[op].path = <<"user", s>>
    BY <1>6 DEF Routes
  <2>1. n = 2 /\ s \in {last, EventIDParam}
    BY <1>4 DEF PathMatches
  <2>2. s # EventIDParam
    BY DEF EventIDParam
  <2> HIDE DEF n, last
  <2>3. s = last
    BY <2>1, <2>2
  <2>4. n # 1
    BY <2>1
  <2> QED BY <1>3, <2>3, <2>4
<1> QED BY <1>2, <1>5, <1>6

-----------------------------------------------------------------------------
(* The invariant                                                           *)

\* Wherever a request gets to, it has the claims the service there needs, and
\* it is refused only if it carries no fresh token.
Guarded(req) ==
    /\ req \in Request
    /\ req.pc = "serve" => req.op \in Ops
    /\ req.pc = "serve" /\ req.op \notin Anonymous
          => req.ctx # NoClaims /\ req.ctx = req.bearer
    /\ req.pc = "refused" => req.bearer = NoClaims

GatewayInv ==
    /\ TokenInv
    /\ tokens \subseteq Token
    /\ reqs \in [Reqs -> Request]
    /\ \A r \in Reqs : Guarded(reqs[r])

LEMMA AnsweredGuarded ==
    ASSUME NEW op \in Ops \cup {NoOp},
           NEW status \in {200, 201, 301, 400, 401, 404, 405, 429, 500}
    PROVE  Guarded(Answered(op, status))
BY DEF Answered, Guarded, Request

LEMMA NoRequestGuarded == Guarded(NoRequest)
BY DEF Guarded, NoRequest, Request

\* The router with the claims of the token, or with none on a public path.
LEMMA RouterGuarded ==
    ASSUME GatewayInv, NEW q, NEW ctx \in Accounts \cup {NoClaims},
           Bearer(q.auth) \in Accounts \cup {NoClaims},
           \/ IsPublic(q)
           \/ ctx # NoClaims /\ ctx = Bearer(q.auth)
    PROVE  Guarded(Router(q, ctx))
<1>1. CASE PathOps(q) = {} \/ RoutedOps(q) = {} \/ q.slash
  <2>1. Router(q, ctx) \in {Answered(NoOp, 404), Answered(NoOp, 405), Answered(NoOp, 301)}
    BY <1>1 DEF Router
  <2> QED BY <2>1, AnsweredGuarded
<1>2. CASE ~(PathOps(q) = {} \/ RoutedOps(q) = {} \/ q.slash)
  <2>1. Router(q, ctx) = Controller(q, ctx)
    BY <1>2 DEF Router
  <2>2. Op(q) \in RoutedOps(q) /\ Op(q) \in Ops
    BY <1>2, OpRouted DEF RoutedOps, PathOps
  <2>3. CASE Op(q) \in HasBody /\ ~q.parses
    BY <2>1, <2>2, <2>3, AnsweredGuarded DEF Controller, DefaultErrorHandler
  <2>4. CASE ~(Op(q) \in HasBody /\ ~q.parses)
    <3>1. IsPublic(q) => Op(q) \in Anonymous
      BY <2>2, PublicIsAnonymous
    <3>2. Guarded(AtService(q, ctx))
      <4> DEFINE req == [pc |-> "serve", op |-> Op(q), ctx |-> ctx,
                         bearer |-> Bearer(q.auth), status |-> 0]
      <4>1. AtService(q, ctx) = req
        BY DEF AtService
      <4>2. req \in Request
        BY <2>2 DEF Request
      <4>3. req.op \notin Anonymous => req.ctx # NoClaims /\ req.ctx = req.bearer
        BY <3>1
      <4> QED BY <2>2, <4>1, <4>2, <4>3 DEF Guarded
    <3> QED BY <2>1, <2>4, <3>2 DEF Controller
  <2> QED BY <2>3, <2>4
<1> QED BY <1>1, <1>2

LEMMA MiddlewareGuarded ==
    ASSUME GatewayInv, NEW q
    PROVE  Guarded(CorsMiddleware(q))
<1>1. CASE q.method = "OPTIONS"
  BY <1>1, AnsweredGuarded DEF CorsMiddleware
<1>2. CASE q.method # "OPTIONS"
  <2> DEFINE auth == q.auth
  <2>1. /\ ValidateJWT(auth) = {} => Bearer(auth) = NoClaims
        /\ \A c \in ValidateJWT(auth) : c = Bearer(auth) /\ c \in Accounts
    BY ValidIsFresh DEF GatewayInv
  <2>2. Bearer(auth) \in Accounts \cup {NoClaims}
    BY <2>1
  <2>3. CASE IsPublic(q)
    BY <1>2, <2>2, <2>3, RouterGuarded DEF CorsMiddleware, AuthMiddleware
  <2>4. CASE ~IsPublic(q) /\ ValidateJWT(auth) = {}
    <3>1. Guarded(Refused(q))
      <4> DEFINE req == [pc |-> "refused", op |-> Op(q), ctx |-> NoClaims,
                         bearer |-> Bearer(auth), status |-> 401]
      <4>1. Refused(q) = req
        BY DEF Refused
      <4>2. req \in Request
        BY <2>2, OpRouted DEF Request
      <4> QED BY <2>1, <2>4, <4>1, <4>2 DEF Guarded
    <3> QED BY <1>2, <2>4, <3>1 DEF CorsMiddleware, AuthMiddleware
  <2>5. CASE ~IsPublic(q) /\ ValidateJWT(auth) # {}
    <3> DEFINE ctx == CHOOSE c \in ValidateJWT(auth) : TRUE
    <3>1. ctx = Bearer(auth) /\ ctx \in Accounts
      BY <2>1, <2>5
    <3>2. ctx # NoClaims
      BY <3>1, AccountIsNamed
    <3>3. Guarded(Router(q, ctx))
      BY <2>2, <3>1, <3>2, RouterGuarded
    <3> QED BY <1>2, <2>5, <3>3 DEF CorsMiddleware, AuthMiddleware
  <2> QED BY <2>3, <2>4, <2>5
<1> QED BY <1>1, <1>2

LEMMA StepInv == GatewayInv /\ [Next]_vars => GatewayInv'
<1> SUFFICES ASSUME GatewayInv, [Next]_vars PROVE GatewayInv'
  OBVIOUS
<1>1. ASSUME NEW r \in Reqs, NEW req, Guarded(req), reqs' = [reqs EXCEPT ![r] = req]
      PROVE  reqs' \in [Reqs -> Request] /\ \A s \in Reqs : Guarded(reqs'[s])
  BY <1>1 DEF GatewayInv, Guarded
<1>2. ASSUME NEW r \in Reqs, reqs[r].pc = "serve",
             NEW status \in {200, 201, 301, 400, 401, 404, 405, 429, 500},
             Answer(r, status)
      PROVE  reqs' \in [Reqs -> Request] /\ \A s \in Reqs : Guarded(reqs'[s])
  <2>1. reqs' = [reqs EXCEPT ![r] = Answered(reqs[r].op, status)]
    BY <1>2 DEF Answer, GatewayInv
  <2>2. reqs[r].op \in Ops
    BY <1>2 DEF GatewayInv, Guarded
  <2>3. Guarded(Answered(reqs[r].op, status))
    BY <2>2, AnsweredGuarded
  <2> HIDE DEF Answered
  <2> QED BY <1>1, <2>1, <2>3
<1>3. ASSUME NEW r \in Reqs, NEW q \in HTTPRequest, Receive(r, q)
      PROVE  GatewayInv'
  <2>1. Guarded(CorsMiddleware(q))
    BY MiddlewareGuarded
  <2>2. reqs' \in [Reqs -> Request] /\ \A s \in Reqs : Guarded(reqs'[s])
    BY <1>1, <1>3, <2>1 DEF Receive
  <2> QED BY <1>3, <2>2 DEF Receive, GatewayInv, TokenInv, Guarded
<1>4. ASSUME NEW r \in Reqs, Serve(r)
      PROVE  GatewayInv'
  <2>1. Results(reqs[r].op) \subseteq {200, 201, 400, 401, 404, 429}
    BY DEF Results
  <2>2. \/ Answer(r, 401) \/ Answer(r, 500)
        \/ \E code \in Results(reqs[r].op) : Answer(r, code)
    BY <1>4 DEF Serve, DefaultErrorHandler
  <2>3. reqs[r].pc = "serve"
    BY <1>4 DEF Serve
  <2>4. reqs' \in [Reqs -> Request] /\ \A s \in Reqs : Guarded(reqs'[s])
    BY <1>2, <2>1, <2>2, <2>3
  <2> QED BY <1>4, <2>4 DEF Serve, GatewayInv, TokenInv, Guarded
<1>5. ASSUME NEW r \in Reqs, NEW a \in Accounts, LogIn(r, a)
      PROVE  GatewayInv'
  <2>1. reqs' \in [Reqs -> Request] /\ \A s \in Reqs : Guarded(reqs'[s])
    BY <1>2, <1>5 DEF LogIn
  <2> DEFINE new == GenerateJWT(a)
  <2>2. /\ new.iat \in Nat \ {0} /\ new.exp = new.iat + JWTExpiresSec
        /\ new \in Token
    <3>1. Claims(new) = a
      BY ClientAccountsAssumption DEF GenerateJWT, Claims
    <3> QED BY <3>1, ExpiryAssumption DEF GenerateJWT, Token, GatewayInv, TokenInv
  <2>3. tokens' = tokens \cup {new} /\ clock' = clock
    BY <1>5 DEF LogIn
  <2>4. TokenInv'
    BY <2>2, <2>3 DEF TokenInv, GatewayInv
  <2>5. tokens' \subseteq Token
    BY <2>2, <2>3 DEF GatewayInv
  <2> QED BY <2>1, <2>4, <2>5 DEF GatewayInv, Guarded
<1>6. CASE Tick
  BY <1>6 DEF Tick, GatewayInv, TokenInv, Guarded
<1>7. CASE BackendRestart
  <2>1. reqs' \in [Reqs -> Request] /\ \A s \in Reqs : Guarded(reqs'[s])
    <3>1. reqs' = [s \in Reqs |-> NoRequest]
      BY <1>7 DEF BackendRestart
    <3>2. NoRequest \in Request
      BY NoRequestGuarded DEF Guarded
    <3>3. ASSUME NEW s \in Reqs PROVE Guarded(reqs'[s])
      <4>1. reqs'[s] = NoRequest
        BY <3>1
      <4> QED BY <4>1, NoRequestGuarded
    <3>4. reqs' \in [Reqs -> Request]
      BY <3>1, <3>2
    <3> QED BY <3>3, <3>4
  <2> QED BY <1>7, <2>1 DEF BackendRestart, GatewayInv, TokenInv, Guarded
<1>8. CASE UNCHANGED vars
  BY <1>8 DEF vars, GatewayInv, TokenInv, Guarded
<1> QED BY <1>3, <1>4, <1>5, <1>6, <1>7, <1>8 DEF Next

LEMMA InitInv == Init => GatewayInv
BY NoRequestGuarded DEF Init, GatewayInv, TokenInv, Guarded

LEMMA Invariant == Spec => []GatewayInv
BY InitInv, StepInv, PTL DEF Spec

-----------------------------------------------------------------------------
\* Types, for every instance; in particular no request reaches a service
\* without a route.
THEOREM TypeCorrect == Spec => []TypeOK
<1>1. GatewayInv => TypeOK
  BY DEF GatewayInv, TokenInv, Guarded, TypeOK
<1> QED BY <1>1, Invariant, PTL

\* A service that acts for a user acts for the owner of a token that was
\* handed out at most JWTExpiresSec before.
THEOREM ClaimsReach == Spec => []ClaimsReachHandlers
<1>1. GatewayInv => ClaimsReachHandlers
  BY DEF GatewayInv, Guarded, ClaimsReachHandlers
<1> QED BY <1>1, Invariant, PTL

\* authMiddleware refuses nobody who carries a token within its lifetime.
THEOREM LiveTokens == Spec => []LiveTokenAccepted
<1>1. GatewayInv => LiveTokenAccepted
  BY DEF GatewayInv, Guarded, LiveTokenAccepted
<1> QED BY <1>1, Invariant, PTL

-----------------------------------------------------------------------------
(* What stays open                                                         *)

OpenOps == {"HealthGet", "EventsGet", "UserLoginPost", "UserRequestVerificationCodePost"}

\* Routes and public paths are two tables: the four operations are routed at
\* paths of the other.
LEMMA OpenIsPublic ==
    ASSUME NEW q, q.path \in Paths, NEW op \in OpenOps, op \in RoutedOps(q)
    PROVE  q.path \in PublicPaths
<1> DEFINE path == q.path
           pattern == Routes[op].path
           Segments == {path[i] : i \in DOMAIN path}
                         \cup {"health", "events", "user", "login", "request-verification-code"}
<1>1. path \in Seq(Segments)
  <2>1. path \in Seq({path[i] : i \in DOMAIN path})
    BY PathsAssumption
  <2> HIDE DEF path
  <2> QED BY <2>1
<1>2. PathMatches(op, path)
  BY DEF RoutedOps, PathOps
<1>3. pattern \in PublicPaths /\ pattern \in Seq(Segments)
      /\ \A i \in 1 .. Len(pattern) : pattern[i] # EventIDParam
  <2>1. \/ pattern = <<"health">> \/ pattern = <<"events">> \/ pattern = <<"user", "login">>
        \/ pattern = <<"user", "request-verification-code">>
    BY DEF OpenOps, Routes
  <2> HIDE DEF pattern
  <2>2. pattern \in PublicPaths
    BY <2>1 DEF PublicPaths
  <2>3. PICK s, u :
           \/ (pattern = <<s>> /\ s \in {"health", "events"})
           \/ (pattern = <<s, u>> /\ s = "user"
               /\ u \in {"login", "request-verification-code"})
    BY <2>1
  <2>4. s \in Segments /\ s # EventIDParam
    BY <2>3 DEF EventIDParam, Segments
  <2>5. CASE pattern = <<s>>
    <3>1. pattern \in Seq(Segments)
      BY <2>4, <2>5
    <3>2. Len(pattern) = 1 /\ pattern[1] = s
      BY <2>5
    <3> QED BY <2>2, <2>4, <3>1, <3>2
  <2>6. CASE pattern = <<s, u>> /\ u \in {"login", "request-verification-code"}
    <3>1. u \in Segments /\ u # EventIDParam
      BY <2>6 DEF EventIDParam, Segments
    <3>2. pattern \in Seq(Segments)
      BY <2>4, <2>6, <3>1
    <3>3. Len(pattern) = 2 /\ pattern[1] = s /\ pattern[2] = u
      BY <2>6
    <3> QED BY <2>2, <2>4, <3>1, <3>2, <3>3
  <2> QED BY <2>3, <2>5, <2>6
<1>4. Len(pattern) = Len(path) /\ \A i \in DOMAIN pattern : pattern[i] \in {path[i], EventIDParam}
  BY <1>2 DEF PathMatches
<1> HIDE DEF path, pattern, Segments
<1>5. \A i \in 1 .. Len(pattern) : pattern[i] = path[i]
  BY <1>3, <1>4
<1>6. pattern = path
  BY <1>1, <1>3, <1>4, <1>5, SeqEqual
<1> QED BY <1>3, <1>6 DEF path

Open(req) ==
    /\ req.op \in OpenOps => req.pc # "refused"
    /\ req.op = "HealthGet" /\ req.pc = "done" => req.status = 200

OpenInv == \A r \in Reqs : Open(reqs[r])

LEMMA AnsweredOpen ==
    ASSUME NEW op, NEW status, op = "HealthGet" => status = 200
    PROVE  Open(Answered(op, status))
BY DEF Open, Answered

LEMMA RouterOpen ==
    ASSUME NEW q, NEW ctx
    PROVE  Open(Router(q, ctx))
<1>1. NoOp # "HealthGet" /\ "HealthGet" \notin HasBody
  BY DEF NoOp, HasBody
<1>2. Open(AtService(q, ctx))
  BY DEF Open, AtService
<1>3. \A status : Open(Answered(NoOp, status))
  BY <1>1, AnsweredOpen
<1>4. Open(Controller(q, ctx))
  BY <1>1, <1>2, AnsweredOpen DEF Controller
<1> QED BY <1>3, <1>4 DEF Router

LEMMA MiddlewareOpen ==
    ASSUME NEW q \in HTTPRequest
    PROVE  Open(CorsMiddleware(q))
<1>1. CASE q.method = "OPTIONS"
  BY <1>1, AnsweredOpen DEF CorsMiddleware, NoOp
<1>2. CASE q.method # "OPTIONS"
  <2>1. Open(Refused(q)) \/ IsPublic(q)
    <3>1. CASE Op(q) \in OpenOps
      <4>1. Op(q) # NoOp
        BY <3>1 DEF OpenOps, NoOp
      <4>2. RoutedOps(q) # {} /\ ~q.slash
        BY <4>1 DEF Op
      <4>3. Op(q) \in RoutedOps(q)
        BY <4>2, OpRouted
      <4>4. q.path \in Paths
        BY DEF HTTPRequest
      <4>5. q.path \in PublicPaths
        BY <3>1, <4>3, <4>4, OpenIsPublic
      <4> QED BY <4>2, <4>5 DEF IsPublic
    <3>2. CASE Op(q) \notin OpenOps
      BY <3>2 DEF Open, Refused
    <3> QED BY <3>1, <3>2
  <2> QED BY <1>2, <2>1, RouterOpen DEF CorsMiddleware, AuthMiddleware
<1> QED BY <1>1, <1>2

LEMMA StepOpen == GatewayInv /\ OpenInv /\ [Next]_vars => OpenInv'
<1> SUFFICES ASSUME GatewayInv, OpenInv, [Next]_vars PROVE OpenInv'
  OBVIOUS
<1>1. ASSUME NEW r \in Reqs, NEW req, Open(req), reqs' = [reqs EXCEPT ![r] = req]
      PROVE  OpenInv'
  BY <1>1 DEF OpenInv, GatewayInv
<1>2. ASSUME NEW r \in Reqs, NEW status, Answer(r, status),
             reqs[r].op = "HealthGet" => status = 200
      PROVE  OpenInv'
  <2>1. reqs' = [reqs EXCEPT ![r] = Answered(reqs[r].op, status)]
    BY <1>2 DEF Answer, GatewayInv
  <2>2. Open(Answered(reqs[r].op, status))
    BY <1>2, AnsweredOpen
  <2> HIDE DEF Answered
  <2> QED BY <1>1, <2>1, <2>2
<1>3. ASSUME NEW r \in Reqs, NEW q \in HTTPRequest, Receive(r, q)
      PROVE  OpenInv'
  BY <1>1, <1>3, MiddlewareOpen DEF Receive
<1>4. ASSUME NEW r \in Reqs, Serve(r)
      PROVE  OpenInv'
  <2>1. Results("HealthGet") = {200} /\ "HealthGet" \in Anonymous
    BY DEF Results, Created, Anonymous
  <2>2. CASE reqs[r].op = "HealthGet"
    BY <1>2, <1>4, <2>1, <2>2 DEF Serve
  <2>3. CASE reqs[r].op # "HealthGet"
    BY <1>2, <1>4, <2>3 DEF Serve
  <2> QED BY <2>2, <2>3
<1>5. ASSUME NEW r \in Reqs, NEW a \in Accounts, LogIn(r, a)
      PROVE  OpenInv'
  BY <1>2, <1>5 DEF LogIn
<1>6. CASE BackendRestart
  <2>1. Open(NoRequest)
    BY DEF Open, NoRequest, OpenOps, NoOp
  <2> QED BY <1>6, <2>1 DEF BackendRestart, OpenInv
<1>7. CASE Tick \/ UNCHANGED vars
  BY <1>7 DEF Tick, vars, OpenInv
<1> QED BY <1>3, <1>4, <1>5, <1>6, <1>7 DEF Next

\* Sign-in, the event list and the health check refuse nobody for want of a
\* token, and the health check always answers 200.
THEOREM StaysOpen == Spec => []SignInStaysOpen
<1>1. Init => OpenInv
  <2>1. Open(NoRequest)
    BY DEF Open, NoRequest, OpenOps, NoOp
  <2> QED BY <2>1 DEF Init, OpenInv
<1>2. Anonymous \ {"EventsEventIdGet"} = OpenOps
  BY DEF Anonymous, OpenOps
<1>3. OpenInv => SignInStaysOpen
  BY <1>2 DEF OpenInv, Open, SignInStaysOpen
<1> QED BY <1>1, <1>3, Invariant, StepOpen, PTL DEF Spec
=============================================================================
