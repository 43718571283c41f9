------------------------------ MODULE Gateway -------------------------------
(***************************************************************************)
(* What every HTTP request passes before and after its handler:            *)
(* corsMiddleware, authMiddleware, the router with the table of            *)
(* DefaultAPIController.Routes, the controllers, and DefaultErrorHandler;  *)
(* and the JWTs that UserLoginPost hands out and authMiddleware validates. *)
(*                                                                         *)
(* Everything up to the call of the service is local to the request's      *)
(* goroutine, so one action (Receive) takes a request that far or to its   *)
(* refusal; the service call and its answer are another (Serve).  Between  *)
(* the two the clock runs, tokens expire and the process may be restarted. *)
(* What the services do is in Signin, Identity and Tickets: here only      *)
(* their status codes matter, and the token of a login.                    *)
(***************************************************************************)
EXTENDS Database, Naturals, Sequences, FiniteSets

CONSTANTS
    Reqs,           \* request goroutines that may run at the same time
    Accounts,       \* [id, email] of the rows of users
    Paths,          \* URL paths of requests, as sequences of segments
    Methods,        \* HTTP methods of requests
    NoHeader,       \* no Authorization header
    Garbage,        \* an Authorization header that is not a token of ours
    JWTExpiresSec,  \* configuration of the backend
    MaxTime,        \* bound: the clock stops here
    MaxTokens       \* bound: no login succeeds once so many tokens exist

ASSUME ExpiryAssumption == JWTExpiresSec \in Nat /\ MaxTime \in Nat
ASSUME PathsAssumption == \A p \in Paths : p \in Seq({p[i] : i \in DOMAIN p})
ASSUME ClientAccountsAssumption ==
    \A a \in Accounts : a = [id |-> a.id, email |-> a.email]
                        /\ Empty \notin {a.id, a.email}

VARIABLES
    clock,   \* Unix time in seconds
    tokens,  \* JWTs handed out
    reqs     \* the requests

vars == <<clock, tokens, reqs>>

NoClaims == [id |-> Empty, email |-> Empty]
Claims(t) == [id |-> t.id, email |-> t.email]

\* exp is the registered claim; iat is history, GenerateJWT does not set it.
Token == {t \in [id : {a.id : a \in Accounts}, email : {a.email : a \in Accounts},
                 exp : Nat, iat : Nat] : Claims(t) \in Accounts}

-----------------------------------------------------------------------------
(* Routes                                                                  *)

EventIDParam == "{eventId}"

Routes ==
    [HealthGet |-> [method |-> "GET", path |-> <<"health">>],
     EventsGet |-> [method |-> "GET", path |-> <<"events">>],
     EventsEventIdGet |-> [method |-> "GET", path |-> <<"events", EventIDParam>>],
     EventsEventIdRequestTicketCredentialPost |->
        [method |-> "POST",
         path |-> <<"events", EventIDParam, "request-ticket-credential">>],
     UserLoginPost |-> [method |-> "POST", path |-> <<"user", "login">>],
     UserRequestVerificationCodePost |->
        [method |-> "POST", path |-> <<"user", "request-verification-code">>],
     UserUpdatePut |-> [method |-> "PUT", path |-> <<"user", "update">>],
     UserMeGet |-> [method |-> "GET", path |-> <<"user", "me">>],
     UserMeEmailCredentialGet |->
        [method |-> "GET", path |-> <<"user", "me", "email-credential">>],
     UserMeEmailCredentialPut |->
        [method |-> "PUT", path |-> <<"user", "me", "email-credential">>],
     UserMeRequestEmailCredentialPost |->
        [method |-> "POST", path |-> <<"user", "me", "request-email-credential">>],
     UserMeTicketCredentialPut |->
        [method |-> "PUT", path |-> <<"user", "me", "ticket-credential">>],
     UserMeTicketCredentialsGet |->
        [method |-> "GET", path |-> <<"user", "me", "ticket-credentials">>]]

Ops == DOMAIN Routes
NoOp == "none"

\* Operations whose controller decodes a JSON body, and those whose service
\* does not look for the claims in the context.
HasBody == {"UserLoginPost", "UserRequestVerificationCodePost", "UserUpdatePut",
            "UserMeEmailCredentialPut", "UserMeTicketCredentialPut"}
Anonymous == {"HealthGet", "EventsGet", "EventsEventIdGet", "UserLoginPost",
              "UserRequestVerificationCodePost"}

\* gorilla/mux: a parameter stands for one segment that is not empty.
PathMatches(op, path) ==
    LET pattern == Routes[op].path IN
    /\ Len(pattern) = Len(path)
    /\ \A i \in DOMAIN pattern : pattern[i] \in {path[i], EventIDParam}

PathOps(q) == {op \in Ops : PathMatches(op, q.path)}
RoutedOps(q) == {op \in PathOps(q) : Routes[op].method = q.method}

-----------------------------------------------------------------------------
(* Tokens                                                                  *)

GenerateJWT_NoExpiry(a) ==  \* mutant: ExpiresAt is not set
    [id |-> a.id, email |-> a.email, exp |-> 0, iat |-> clock]

GenerateJWT_Late(a) ==  \* mutant: the lifetime is not in seconds
    [id |-> a.id, email |-> a.email, exp |-> clock, iat |-> clock]

GenerateJWT(a) ==
    [id |-> a.id, email |-> a.email, exp |-> clock + JWTExpiresSec, iat |-> clock]

\* A token is good up to and including the second exp; jwt.StandardClaims
\* leaves out an exp of 0, and without one a token is good forever.
NotExpired(t) == t.exp = 0 \/ clock <= t.exp

\* The claims of the token in the header; the empty set is an error.
ValidateJWT(auth) == {Claims(t) : t \in {u \in tokens : u = auth /\ NotExpired(u)}}

\* Whose token of at most JWTExpiresSec seconds a header carries (history).
Bearer(auth) ==
    LET fresh == {t \in tokens : t = auth /\ clock <= t.iat + JWTExpiresSec}
    IN  IF fresh = {} THEN NoClaims ELSE Claims(CHOOSE t \in fresh : TRUE)

-----------------------------------------------------------------------------
(* The way to the service.  q is an HTTP request, the result a record of    *)
(* reqs: at the service (pc = "serve"), answered, or refused by             *)
(* authMiddleware.                                                          *)

NoRequest == [pc |-> "idle", op |-> NoOp, ctx |-> NoClaims, bearer |-> NoClaims,
              status |-> 0]

\* The operation the request is for, whether it gets there or not.
Op(q) ==
    IF RoutedOps(q) = {} \/ q.slash THEN NoOp ELSE CHOOSE op \in RoutedOps(q) : TRUE

Answered(op, status) ==
    [pc |-> "done", op |-> op, ctx |-> NoClaims, bearer |-> NoClaims, status |-> status]
Refused(q) ==
    [pc |-> "refused", op |-> Op(q), ctx |-> NoClaims, bearer |-> Bearer(q.auth),
     status |-> 401]
AtService(q, ctx) ==
    [pc |-> "serve", op |-> Op(q), ctx |-> ctx, bearer |-> Bearer(q.auth), status |-> 0]

\* Errors of the controller itself have a status of their own, errors of the
\* service the code of its result.
DefaultErrorHandler(err, code) ==
    CASE err = "parsing"  -> 400
      [] err = "required" -> 422
      [] OTHER            -> code

\* A controller that cannot decode the body (unknown fields included) answers
\* at once.  The generated checks of required fields and constraints accept
\* everything, and the router passes on no event id that is empty.
Controller(q, ctx) ==
    IF Op(q) \in HasBody /\ ~q.parses
    THEN Answered(Op(q), DefaultErrorHandler("parsing", 0))
    ELSE AtService(q, ctx)

Router_AnyMethod(q, ctx) ==  \* mutant: the method is not looked at
    IF PathOps(q) = {} THEN Answered(NoOp, 404)
    ELSE IF q.slash THEN Answered(NoOp, 301)
    ELSE Controller(q, ctx)

\* A trailing slash is redirected (StrictSlash) only where the route exists.
Router(q, ctx) ==
    IF PathOps(q) = {} THEN Answered(NoOp, 404)
    ELSE IF RoutedOps(q) = {} THEN Answered(NoOp, 405)
    ELSE IF q.slash THEN Answered(NoOp, 301)
    ELSE Controller(q, ctx)

PublicPaths == {<<"health">>, <<"events">>, <<"user", "login">>,
                <<"user", "request-verification-code">>}

IsPublic_Prefix(q) ==  \* mutant: whatever starts with a public path is public
    \E p \in PublicPaths : Len(p) <= Len(q.path) /\ SubSeq(q.path, 1, Len(p)) = p

\* The middleware compares the whole path, the trailing slash included.
IsPublic(q) == q.path \in PublicPaths /\ ~q.slash

AuthMiddleware_HeaderFirst(q) ==  \* mutant: a header is validated everywhere
    IF q.auth = NoHeader /\ IsPublic(q) THEN Router(q, NoClaims)
    ELSE IF ValidateJWT(q.auth) = {} THEN Refused(q)
    ELSE Router(q, CHOOSE c \in ValidateJWT(q.auth) : TRUE)

AuthMiddleware(q) ==
    IF IsPublic(q) THEN Router(q, NoClaims)
    ELSE IF ValidateJWT(q.auth) = {} THEN Refused(q)
    ELSE Router(q, CHOOSE c \in ValidateJWT(q.auth) : TRUE)

\* Preflight requests end here, so authMiddleware never sees one.
CorsMiddleware(q) ==
    IF q.method = "OPTIONS" THEN Answered(NoOp, 200)
    ELSE AuthMiddleware(q)

-----------------------------------------------------------------------------
Free(r) == reqs[r].pc # "serve"

Receive(r, q) ==
    /\ Free(r)
    /\ reqs' = [reqs EXCEPT ![r] = CorsMiddleware(q)]
    /\ UNCHANGED <<clock, tokens>>

Answer(r, status) == reqs' = [reqs EXCEPT ![r] = Answered(@.op, status)]

\* The code of a result without an error, per operation.  HealthGet is the
\* only service that calls nothing and cannot fail.
Created == {"EventsEventIdRequestTicketCredentialPost", "UserMeEmailCredentialPut",
            "UserMeRequestEmailCredentialPost", "UserMeTicketCredentialPut"}
Results(op) ==
    {IF op \in Created THEN 201 ELSE 200}
    \cup (IF op \in {"UserRequestVerificationCodePost", "UserLoginPost", "UserUpdatePut",
                     "EventsEventIdRequestTicketCredentialPost",
                     "UserMeEmailCredentialPut", "UserMeRequestEmailCredentialPost"}
          THEN {400} ELSE {})
    \cup (IF op \in {"EventsEventIdRequestTicketCredentialPost", "UserMeGet",
                     "UserUpdatePut", "UserMeEmailCredentialGet",
                     "UserMeEmailCredentialPut", "UserMeRequestEmailCredentialPost"}
          THEN {404} ELSE {})
    \cup (IF op = "UserLoginPost" THEN {401} ELSE {})
    \cup (IF op = "UserRequestVerificationCodePost" THEN {429} ELSE {})

\* Every service but the anonymous ones answers 401 without claims.  A login
\* that succeeds is LogIn.
Serve(r) ==
    LET op == reqs[r].op IN
    /\ reqs[r].pc = "serve"
    /\ \/ /\ op \notin Anonymous /\ Empty \in {reqs[r].ctx.id, reqs[r].ctx.email}
          /\ Answer(r, 401)
       \/ /\ op \notin Anonymous => Empty \notin {reqs[r].ctx.id, reqs[r].ctx.email}
          /\ \/ \E code \in Results(op) :
                   ~(op = "UserLoginPost" /\ code = 200) /\ Answer(r, code)
             \/ op # "HealthGet" /\ Answer(r, DefaultErrorHandler("other", 500))
    /\ UNCHANGED <<clock, tokens>>

\* UserLoginPost answers 200: its token is the client's.
LogIn(r, a) ==
    /\ reqs[r].pc = "serve" /\ reqs[r].op = "UserLoginPost"
    /\ Cardinality(tokens) < MaxTokens
    /\ tokens' = tokens \cup {GenerateJWT(a)}
    /\ Answer(r, 200)
    /\ UNCHANGED clock

Tick ==
    /\ clock < MaxTime
    /\ clock' = clock + 1
    /\ UNCHANGED <<tokens, reqs>>

\* The process starts again with the same secret: tokens survive, requests do
\* not.
BackendRestart ==
    /\ \E r \in Reqs : ~Free(r)
    /\ reqs' = [r \in Reqs |-> NoRequest]
    /\ UNCHANGED <<clock, tokens>>

HTTPRequest ==
    [method : Methods, path : Paths, slash : BOOLEAN, parses : BOOLEAN,
     auth : tokens \cup {NoHeader, Garbage}]

Init ==
    /\ clock = 1
    /\ tokens = {}
    /\ reqs = [r \in Reqs |-> NoRequest]

Next ==
    \/ \E r \in Reqs :
          \/ \E q \in HTTPRequest : Receive(r, q)
          \/ Serve(r)
          \/ \E a \in Accounts : LogIn(r, a)
    \/ Tick
    \/ BackendRestart

Spec == Init /\ [][Next]_vars

-----------------------------------------------------------------------------
(* Properties                                                              *)

Request ==
    [pc : {"idle", "serve", "done", "refused"}, op : Ops \cup {NoOp},
     ctx : Accounts \cup {NoClaims}, bearer : Accounts \cup {NoClaims},
     status : {0, 200, 201, 301, 400, 401, 404, 405, 429, 500}]

\* Every variable holds values of its type, and a service is only called for
\* an operation that path and method select.
TypeOK ==
    /\ clock \in Nat
    /\ tokens \subseteq Token
    /\ reqs \in [Reqs -> Request]
    /\ \A r \in Reqs : reqs[r].pc = "serve" => reqs[r].op \in Ops

\* A service that acts for a user acts for the owner of a token that was
\* handed out at most JWTExpiresSec before the request came in: the paths the
\* middleware lets through, the routes and the services' use of the context
\* are three tables that have to fit, and expiry is set in one place
\* (GenerateJWT) and tested in another (ValidateJWT).
ClaimsReachHandlers ==
    \A r \in Reqs :
        reqs[r].pc = "serve" /\ reqs[r].op \notin Anonymous
            => reqs[r].ctx # NoClaims /\ reqs[r].ctx = reqs[r].bearer

\* A client with a token younger than its lifetime is never refused by
\* authMiddleware, whatever restarts or other logins came in between.
LiveTokenAccepted ==
    \A r \in Reqs : reqs[r].pc = "refused" => reqs[r].bearer = NoClaims

\* Sign-in, the event list and the health check Kubernetes restarts the pod
\* by stay open to a client without a token, and to one that still sends an
\* expired or broken one.
SignInStaysOpen ==
    \A r \in Reqs :
        /\ reqs[r].op \in Anonymous \ {"EventsEventIdGet"} => reqs[r].pc # "refused"
        /\ reqs[r].op = "HealthGet" /\ reqs[r].pc = "done" => reqs[r].status = 200

-----------------------------------------------------------------------------
(* What the API description says, and the code does not keep               *)

\* The operations that openapi.yaml gives no "security" are not refused for
\* want of a token; GET /events/{eventId} is one of them.
DocumentedPublicIsOpen ==
    \A r \in Reqs : reqs[r].op \in Anonymous => reqs[r].pc # "refused"
=============================================================================
