# ZK ticketing: TLA+ specification

This directory specifies the server side of the repository: the Go backend
(`src/backend`) and the TypeScript issuer (`src/issuer`). The specifications
are model-checked with TLC on small instances, and every safety and action
property of sign-in, the gateway, identities, tickets, the whole of sign-in and
the handlers behind it, and the issuer is proved with TLAPS for all instances.

## 1. The system

A user signs in with a code that is sent by email, gets a JWT, uploads the
public commitment of an identity that lives (encrypted) in the client, and asks
the backend for two kinds of signed credentials: an *email credential* ("this
commitment belongs to this address") and, for events the address is registered
for, *ticket credentials*. The issuer signs; the client encrypts what it gets
and stores the ciphertext with the backend.

| Component | State it keeps | Operations | Status |
|---|---|---|---|
| Sign-in (`service.go`, `email.go`) | Redis `sign_in_code:<email>` with a time to live of 60 s; table `users` | `UserRequestVerificationCodePost`, `UserLoginPost` | modelled: `Signin`, `OneTimeCode` |
| Identity and email credential (`service.go`) | `users` (three identity columns), `email_credentials` | `UserMeGet`, `UserUpdatePut`, `UserMeEmailCredentialGet`, `-Put`, `UserMeRequestEmailCredentialPost` | modelled: `Identity` |
| Events and tickets (`service.go`) | `events`, `registrations`, `ticket_credentials` | `EventsGet`, `EventsEventIdGet`, `EventsEventIdRequestTicketCredentialPost`, `UserMeTicketCredentialPut`, `UserMeTicketCredentialsGet` | modelled: `Tickets` |
| The handlers behind sign-in (`main.go`, `service.go`) | one pool of connections, no lock | both groups of handlers over one database | modelled: `Backend`, `OneIdentity` |
| The process (`main.go`, `service.go`, `server.go`) | all of the above | all handlers, over one database and one Redis | modelled: `System` |
| Queries (`repos/`) | the Postgres tables | one SQL statement each | modelled: `Database` |
| Configuration and requests for signatures (`main.go`, `service.go`) | three constants of the service | `NewAPIService`, the two requests the handlers build | partly: `Issuance`, `Issuer` (not the keys and the settings of connections) |
| Issuer server (`server.ts`, `handler.ts`, `marshal.ts`) | none; calls under way | `generateSignedCredential`, `GenerateSignedCredential`, the unmarshalling functions, `start` | modelled: `Marshal`, `Issuer`, `Signing` |
| Generated protobuf code (`issuer.pb.go`, `issuer_grpc.pb.go`) | none | messages, the client's `Invoke` | partly: `IssuerMessages`, `Issuer` (not the wire format) |
| Gateway (`middleware.go`, `server.go`, `jwt.go`, `openapi/api_default.go`, `error.go`, `routers.go`) | none; JWTs carry id, email and expiry | CORS, authentication, routing, status of errors | modelled: `Gateway` |
| `util/hash.go` | none | SHA-256 truncated to 248 bits | not modelled: a pure hash; `Issuer` takes any function from addresses to numerals in its place, the other models keep the email itself |
| Generated API models and stubs | none | encoding | not modelled: generated, no logic of their own |
| Frontend | none | the framework's start page | not modelled: it calls nothing |
| `infra/` | - | manifests | not modelled, except that Redis keeps nothing over a restart |

Components interact through shared stores and one RPC. Sign-in writes the rows
of `users` that Identity updates and that Identity and Tickets read. The JWT
that sign-in hands out carries the two keys all other handlers use: the *id*,
by which they read `users`, and the *email*, by which they read registrations
and tickets. Identity and Tickets both call the issuer, which keeps no state:
they take the call in one step, and `Issuer` shows that they may.

What makes this code hard, although every handler is a straight line:

* **Interleaving.** net/http runs each request in its own goroutine, and no
  handler uses a transaction (`repos/client.go` passes the pool to the queries,
  `WithTx` is never called). Every check is separated from the act it guards by
  at least one network round trip: GET/SETNX, SELECT/INSERT, SELECT/UPDATE,
  three SELECTs and a signature.
* **Stale state.** A commitment that was read is used later to sign or to
  store, while `PUT /user/update` may change it.
* **Partial failure.** A store may have acted although the call returned an
  error (lost reply, cancelled request context); code and mail, and signing and
  storing, are two steps each, and the second one may never come.
* **Crash and restart.** The backend may die between two calls, and Redis
  forgets everything when its pod restarts (`infra/k8s/redis.yaml`). The issuer
  may die with calls under way, which have no deadline.
* **Pairing by index.** The issuer's request carries claims and claim values in
  two lists that are matched by position, in messages of which any part may be
  missing; what is missing is `undefined` and may or may not throw.
* **Numbers.** A commitment is whatever text a client uploads, and a number only
  once `BigInt` has read it; int64 values pass through JavaScript doubles; an
  expiry is cut to whole seconds in one place and not in another.

## 2. Modules

```
OneTimeCode                       what sign-in by code promises
    ^ refinement (Signin!OTC)
Database <-- Signin <-- SigninProofs
    ^           ^------ MCSignin + Signin*.cfg
    |
    |<-- DatabaseProofs <-- IdentityProofs, TicketsProofs
    |
Issuance <-- Identity <-- IdentityProofs, MCIdentity + Identity*.cfg
    ^           | what Tickets assumes of users (Identity!TicketsView)
    |           v
    |------- Tickets <--- TicketsProofs, MCTickets + Tickets*.cfg
    |
    |        Backend = Identity + Tickets <-- BackendProofs
    |           |  (refines Tickets: Backend!TicketsAsAlone)
    |           |  (refines OneIdentity: Backend!CredentialsOfOneIdentity)
    |           |
    |        System = Signin + Backend <-- SystemProofs, MCSystem + System.cfg
    |              (refines both: System!SigninAsAlone, System!BackendAsAlone)
    |
    | what one signing step is (Issuer!Issuance)
    |
Issuer --> Marshal --> IssuerMessages     <-- IssuerProofs
    |                                     <-- MCIssuer + Issuer.cfg
    v refinement (Issuer!Abs)
Signing                           what the issuer promises its callers

Database <-- Gateway <-- GatewayProofs
                ^------- MCGateway + Gateway*.cfg
```

**Conventions.** A request is a process: `reqs[r]` is a record with the
handler's local variables and `pc`, the external call it makes next. *One
action is one external call*, together with all local work up to the next call
or to the answer, because that is exactly where goroutines interleave in a
way another goroutine can see. Every call may also fail, before or after the
store acted; the handlers answer 500 to both. A process that has answered
(`pc = "done"`) may take another request. Definitions keep the names of the
source; `PROJECT.json` maps each to its lines. A definition `X_Y` with the
comment "mutant" is not part of the specification: it is `X` with a plausible
bug, and shows that a property notices it.

**Database.** The rows of the five tables as sets of records, and the queries
as operators. A query is one atomic step of the action that cites it. Unique
keys are kept by the operators (`UserKeysFree`, the two upserts).

**Signin.** `RequestCode`, `GetCachedCode`, `CacheCode`, `SendSigninCodeToEmail`
are `UserRequestVerificationCodePost`; `Login`, `TakeCode`, `FindUser`,
`CreateUser` are `UserLoginPost`; `ExpireCode`, `RedisRestart`, `BackendCrash`
are the environment. `stored` and `logins` are history variables.

**OneTimeCode.** The abstract specification: a key has at most one live code,
a code is redeemed at most once, only while it is live and only by someone who
hands in this very code (`tries`, an input), a session needs a redemption of its
own. `Signin` implements it under
`live <- codeCache, issued <- stored, sessions <- logins`,
`granted <- number of handlers past the code check` and `tries <- the codes of
the logins that wait for GETDEL`: a login that takes the code without comparing
it is no step of `OneTimeCode`.

**Issuance.** The three settings as `main` passes them to `NewAPIService` (in
main's order, which is not the constructor's), and the credential the issuer
makes of a handler's request. `BigInt` of the uploaded commitment is modelled by what it
does: the empty string is 0, a numeral the number it stands for (`ValueOf`: it
may be 0, and two texts may stand for one number), any other text throws.
`NewUpload` and `NamesUpload` are about the history `uploaded` that Identity and
Tickets share: which account has set its row to which commitment.

**Identity.** `PUT /user/update` takes any three texts from anybody
(`UserUpdate`); that the fields belong together, or that nobody else uploaded
them, is neither checked by the code nor assumed here. All five handlers start with `GetUserByID` (`ReadUser`) and go on
as `UserRead` says. `Settled(id)` is the state this module is about: the row is
complete, *and* no update that read it before is still on its way. `late`,
`sees` and `saved` are history: was the identity settled when the request came
in, and had the account been told by then that its credential is stored.
`uploaded` is history too, and the only sense in which a commitment is an
account's: `CredentialsBindUploader` says that a credential for an address names
what an account of *this* address uploaded, though the address comes from the
JWT and the commitment from a row read earlier. Nothing stronger is true: two
accounts may hold one commitment, of which both get credentials, and they then
share one row of `email_credentials`, which is keyed by the commitment alone.
`StoredCredentialIsFound` says what is left to each of them: a stored credential
does not disappear, and what is found was stored by an account that uploaded
this commitment.

**Tickets.** A ticket request is `CheckTicket`, `CheckRegistration`, `ReadUser`,
`SignTicket`; storing (`PutTicketCredential`) is a request of its own. The
module lets the identity change in any way `PUT /user/update` may write it
(`UpdateIdentity`, which over-approximates Identity: any text, another
attendee's commitment included, and no check at all) and the
organizer edit registrations at any time, which no endpoint of the backend
does. `GetEvents` and `GetEvent` are the two public reads. A `PUT` may leave the
event out of its body; it then stores a ticket for the event `""`, which no path
can name. `invited`, `uploaded` and `known` are history.

*Identity beside Tickets.* The two components share the table `users`. That
`UpdateIdentity` really covers what Identity's handlers write is not left to the
reader: Identity's property `WritesAsTicketsAssumes` says that every step of
Identity, seen through the one column the ticket handlers read and the history
of uploads, is a `SignUp` or an `UpdateIdentity` of Tickets or changes nothing:
the row of one account is written, and the commitment recorded for that account.

**Backend.** The composition itself: Identity extended, Tickets instantiated
over the same `users`, every step a step of a handler of one of the two, and one
crash for both. The environment action `UpdateIdentity` is not among the steps;
Identity's own updates stand in its place, and `TicketsAsAlone` says that the
result still implements Tickets. `SignUp` (`Enroll` here) is what the handlers
behind sign-in see of it: at any time the row of a new account appears, and from
then on requests may come in with a JWT for it (`Bearers`). Only here can one say what the two kinds of
credentials are for together: `CredentialsAgree` and `CredentialsMatchStored`
relate email credentials, tickets and the stored email credential of an account.
`lateTickets` and `named` are history: which ticket requests came in after the
identity was settled, and which commitments the credentials handed out to such
requests name.

**OneIdentity.** The abstract specification of what an account is promised:
it settles on one of the identities it uploaded, once and for good (`Settle`),
and a credential of a request that came in later is for that identity (`Name`), or
there is none because the issuer cannot parse its commitment. `Backend`
implements it with `settled` as the settled rows of `users`, and `uploaded` and
`named` as they are (`CredentialsOfOneIdentity`).

**System.** The whole process with its stores: a step is one of a sign-in
handler, of a handler behind it (`Serve`), of Redis losing codes, or a crash of
all handlers at once. The parts meet in three places. Sign-in writes rows of
`users` that the others read: `SignIn` is a step of Signin, and what it does to
`users` is a `SignUp` of Backend. Requests carry the claims of tokens that
sign-in handed out (`Carried`, which narrows what Backend and Identity assume of
them, `Bearers`; that a request carries nothing else is `Gateway`). And a crash
stops both. `Accounts` is fixed, while the code draws a uuid when it inserts a row: an
address gets one row, ever, so the rows a behaviour will insert are such a set,
known in advance (a prophecy), and Signin's choice of the id has to agree with
it. Only here can one say what a credential is for: `CredentialsNeedLogin`, that
its address was logged in to with a code stored for it, and that its commitment
was uploaded by the very account of that login. Two
refinements say that the parts are not disturbed by each other:
`BackendAsAlone`, and `SigninAsAlone` over `Accountholders`, the users table
without the columns sign-in does not read.

**IssuerMessages, Marshal.** The messages of `issuer.proto`, with a part that may
be missing as a set of at most one member, and the functions of `marshal.ts`
with their names. An operator's result is the set of what the function returns:
one value, or none because it threw. `BigInt` maps the empty string to 0, a
numeral to its number, and throws on any other text. An int64 reaches the
TypeScript code as its decimal text (`longToString` of the generated
`issuer.ts`), and `marshal.ts` applies unary `+` to the widths, to
`n_equal_checks` and to `revocable` (lines 13, 41, 47, 49): `ToNumber` is the
double next to the integer, the even one of two that are equally near.
`MaxExact` stands for 2^53, up to which doubles are exact; `Spacing` is their
distance above it, `Int64` and `TwoTo64` are built from it as 2^63 and 2^64 are
from 2^53.

**Issuer.** `server` is the process (down, preparing babyzk, binding its port,
up), `calls` the callers in the backend, and `now` the backend's clock.
`AskAsHandler` builds the request of one of the two handlers, `Invoke` sends it
(or one of another client), `Serve` is the event the server runs for it,
`Return` and `Unavailable` are the end of the client's `Invoke`. `Break`,
`ServerCrash`, `BackendCrash`, `Start` and `Tick` are the environment. Serving a
call is one action, because node runs one event at a time and
`GenerateSignedCredential` awaits nothing that another call could see. The SDK
may reject any credential; then the promise is rejected and the callback answers
with the error, as it does for an exception. Three branches of `marshal.ts` (53,
65, 81) throw a string, which is no `Error`. What grpc-js does with one is not in
the repository, so both outcomes are in the model: it is sent as any other error
(`Serve`), or the callback throws out of the `catch`, and Node.js ends the
process on the unhandled rejection (`ServeUncaught`) with all calls that were not
sent their answer. Time is in ticks, `Second` of them a second: the expiry that
is signed goes through `Unix`, which cuts the fraction off (`service.go:148`,
475), the one that is announced keeps it (160, 486). `asked` is history.

**Signing.** The abstract specification of the issuer: a call that is under way
ends with a credential that *says* what its own request says, or with an error.
`Says` is a relation that goes through request and credential field by field and
knows of no parser; where an int64 is given a Number, `Rounds` asks for the very
number below 2^53 and for one off by a 2^53rd part at most above. `WellFormed` says which requests can be said at all. Two
links tie this level to the others: `Issuer` implements `Signing`
(`CallsAreSigned`), and for the requests of the two handlers the answer is the
one that `Issuance` makes in one step (`AsIssuanceAssumes`), which is what
Identity and Tickets build on.

**Gateway.** `Receive` is everything up to the service call, all of it local to
one goroutine: `CorsMiddleware`, `AuthMiddleware` with `ValidateJWT`, `Router`
and `Controller` are operators on the HTTP request, named and nested as in the
code, and their result is the record of the request at the service, answered,
or refused. `Serve` and `LogIn` are the service call with `DefaultErrorHandler`;
what a service does is in the other modules, here only the status codes it has
(`Results`) and the token of a login matter. `Tick` is the clock tokens expire
by. `iat` and `bearer` are history: when a token was handed out, and whose
unexpired token a request carries. The other modules take their `claims` from
here: `ClaimsReachHandlers` is why a handler may trust them.

## 3. Runs

| Run | Question | Result |
|---|---|---|
| `signin` | `OneLoginPerCode`, `TokensNameOneAccount`, `LiveCodeNeverReplaced`, `CodesAreOneTime`, `EveryRequestAnswered` | hold |
| `identity` | `NoTornIdentity`, `NoStaleCommitment`, `CredentialsBindUploader`, `SettledIdentityIsFinal`, `StoredCredentialIsFound`, `WritesAsTicketsAssumes` | hold |
| `tickets` | `TicketsForInvitedOnly`, `TicketsBindUploader`, `StoredTicketNotReissued`, `StoredTicketsAreListed`, `OwnTicketBlocks` | hold |
| `system` | `CredentialsNeedLogin`, `CredentialsAgree`, `CredentialsMatchStored`, `CredentialsOfOneIdentity` | hold |
| `issuer` | `AcceptsWellFormed`, `AsIssuanceAssumes`, `CallsAreSigned`, `AnnouncedExpiry`, `EveryCallReturns` | hold |
| `gateway` | `ClaimsReachHandlers`, `LiveTokenAccepted`, `SignInStaysOpen` | hold |
| `gateway_public` | are the operations without `security` in the API description open? | no: `GET /events/{eventId}` needs a token |
| `signin_resend` | is a second code mailed while one is live? | yes: `SetNX`'s result is dropped |
| `signin_sent` | is a 429 "Code has already been sent" true? | no: stored is not yet sent |
| `identity_once` | is a complete identity never overwritten? | no: check and update are two statements |
| `identity_chain` | does a credential carry the configured chain and context? | no: arguments in another order |
| `tickets_stored` | is no ticket handed out once one is stored? | no: check and signature are three calls apart |

Each passing run also checks its module's type invariant. The other six runs are
expected to end in a counterexample: each states what a comment, a message or
the API description says, and the trace shows what the code does instead (the
`findings` of `PROJECT.json` quote the lines).

For every documented promise that a race breaks, a passing property states what
does hold: not "a code is mailed once" but "a stored code opens one session and
is not replaced"; not "an identity is written once" but "a settled identity is
final"; not "no ticket after one is stored" but "no ticket for a request that
came in after one was stored".

### Bounds, and why they are enough

* `Reqs` has two processes. Every hazard listed is a race of two handlers, or
  of a handler with the environment; a process that has answered may be reused,
  so a third request fits between two steps of a slow one.
* `signin`: two addresses (one with two spellings) and a string that does not
  parse, two codes, two uuids. `MaxCodes = 1` stops new code requests for good
  once some address has stored a code; requests under way still store theirs,
  so an address can have two codes stored, one of them after the other was
  used, and two logins of the address race to create its account. The violation
  runs use one address and `MaxCodes = 2`.
* `identity`: ann and bob, each of whom may upload either of two identities, one
  of which `BigInt` rejects, and the JWT of a third whose row is gone (the 404
  path). `Uploads` has three bodies: either identity whole, and the first without
  its secret. One incomplete body is enough for an incomplete row, and since two
  updates may be under way for the same row, enough to tear it; any other
  mixture of texts is in `UserUpdate`, for which the theorems hold.
* `tickets`: ann and bob, either of whom may upload the one commitment there is,
  a numeral of zero, so that a credential bound to an upload of 0 and one bound
  to a row that was not set differ in the history only; the JWT of an earlier
  account of ann's address, whose row is gone; one event, and `PUT`s that name
  none.
* In `identity` and `tickets` the rows of the accounts appear while requests run
  (`SignUp`): nobody has one at first.
* `system`: one address whose client has two identities, one code, one sign-in
  request, two identity requests and one ticket request, so that the account is
  created by a login, two updates can race before a ticket is asked for, and a
  slow store of the email credential can land after both. `Asked` and `Callers`
  bound what clients ask for to what the properties depend on (`update`,
  `putCred`, `requestCred`, `requestTicket`, with the account's JWT); the other
  operations are in the runs `identity` and `tickets`, races of two logins in
  `signin`. There is one account: that a credential names an upload of its own
  account and of no other is checked with two accounts in `identity` and
  `tickets`, and proved of the whole for any number (`NeedLogin`). Both identities parse, or there would be nothing that
  could disagree; one that does not is in the run `identity`, and the theorem
  allows any. `VIEW` leaves out `mailed` and the record of a handler that has
  answered: no step reads either (a free handler is overwritten as a whole, and
  nobody looks at `mailed`), so two states with one view have the same future.
  `identity` and `tickets` leave out the record of a handler that has answered,
  for the same reason; their action properties look at an answer in the step
  that gives it, which is there whichever of the states TLC keeps.
  What the types of the left-out parts are is covered by the theorem.
* `issuer`: two calls, so that an answer can meet the other call's caller; the
  two handlers' requests for two addresses, one event, a commitment that
  `BigInt` parses and one it does not; and ten requests with claims, one for each
  way in which claims, values, their number and their kinds fit or do not (a
  definition without a value, a scalar and a boolean without a definition, a
  text that is no number, a missing kind, a missing hash algorithm, a missing
  body, an empty hash). `MaxExact = 4`: doubles are exact up to 4 here, and the
  requests carry int64 values that are none (21 becomes 24, -13 becomes
  -12, and the largest, 4095, becomes 4096). `Second = 2`, `Day = 2` and `MaxTime = 1`: a
  call takes no tick or one, and begins in the middle of a second or at its
  start.
* `gateway`: the whole route table with one event id and a path without a route,
  two accounts, two tokens at a time, tokens of 2 seconds on a clock of 5: a
  token is used before, at and after its last second, and an old and a new
  token of one account exist together. One request at a time (`Reqs` has one
  member): requests of this module read nothing of each other, they share the
  clock and the tokens only, which also move while a request is at its service.
  `MaxTokens` and `MaxTime` bound the logins and the clock.
* Requests are interchangeable, so `identity`, `tickets` and `system` use symmetry
  over `Reqs` (`identity` also over ann and bob, `system` over the two identities
  of its account, which is why these stand for one number); `signin` and
  `issuer` check liveness and use none.
* The settings have the default values of `main.go`.

### Fairness

`EveryRequestAnswered` assumes `FairSpec`: weak fairness of each handler's next
step (every client call of the Go code returns, with a result or an error; the
scheduler runs every goroutine) and of `ExpireCode` (Redis drops a key whose
time to live is over). Nothing is assumed of clients, crashes or restarts, and
no call is assumed to succeed.

`EveryCallReturns` assumes, for each call under way, weak fairness of `Proceed`:
a server that is up runs the event of a request it has received, and grpc-go
returns from `Invoke` when the answer is there, when the connection is lost or
when it is refused. There is no fairness of `Start`: an issuer that never comes
up answers every call with an error. The property is about the callback: were a
rejected promise not answered, the caller would wait forever, since its call
has no deadline.

## 4. Proofs

Every property of a passing run is proved, except the two about liveness. The
proof modules follow one pattern: `TypeCorrect` and the invariants are
conjuncts or consequences of one inductive invariant (`Inv`, `GatewayInv`,
`AccountInv`), preserved by one lemma per action; action properties then follow
from the invariant of the first state and the action that can be behind the
step.

`SigninProofs` proves, for all `Reqs` (a finite set), `Emails`, `RawEmails`,
`Codes`, `UserIDs` and `MaxCodes`:

| Theorem | Statement |
|---|---|
| `TypeCorrect` | `Spec => []TypeOK` |
| `Implementation` | `Spec => CodesAreOneTime`, i.e. Signin implements OneTimeCode |
| `OneLogin` | `Spec => []OneLoginPerCode` |
| `NoReplacement` | `Spec => LiveCodeNeverReplaced` |
| `OneAccountPerToken` | `Spec => []TokensNameOneAccount` |

The assumptions are those of `Signin`: the parser returns an address or
`BadEmail`, the empty string is no code, `Reqs` is finite.

*Argument for sign-in.* `StepOTC` shows that from a well-typed state every step of Signin
is a step of OneTimeCode or leaves its state alone, one case per action; the
bookkeeping is in `GrantedMoves`, which says how the number of handlers past
the code check moves when one handler changes its record. `OneLogin` and
`NoReplacement` then argue about the five abstract actions and not about the
eleven concrete ones. `OneLoginPerCode` is inductive together with `TypeOK`: a
code moves along the chain stored, live, redeemed, session, or is dropped, and
only a store adds one. `TokensNameOneAccount` is not inductive (a login that
finds a row relies on the row being the only one of its address); the invariant
is `AccountInv`: rows are unique by id and by email, and every token names a
row. Uniqueness is what `UserKeysFree` keeps when a row is inserted, and rows
are never removed.

`GatewayProofs` proves, for all sets of requests, accounts, paths and methods
and every lifetime of tokens:

| Theorem | Statement |
|---|---|
| `TypeCorrect` | `Spec => []TypeOK` |
| `ClaimsReach` | `Spec => []ClaimsReachHandlers` |
| `LiveTokens` | `Spec => []LiveTokenAccepted` |
| `StaysOpen` | `Spec => []SignInStaysOpen` |

*Argument for the gateway.* The inductive invariant `GatewayInv` says of the tokens that each
expires exactly `JWTExpiresSec` after it was handed out, and of every request
that it is `Guarded`. Two facts carry it: `ValidIsFresh` (what `ValidateJWT`
accepts is what the history calls fresh, which needs that no token has the
expiry 0 that would make it eternal) and `PublicIsAnonymous` (no operation that
reads claims is routed from a path the middleware lets through). The remaining
lemmas follow a request through `Router` and `CorsMiddleware`. `StaysOpen` needs
the converse of `PublicIsAnonymous`: a path that is routed to sign-in, the list
of events or the health check is one of the public paths, with or without the
slash at its end. The accounts are assumed to have a non-empty id and email, a
path to be a sequence of its segments (`PathsAssumption`).

`IdentityProofs` proves, for all requests, accounts, ghosts, identities and
uploads, also of one commitment by several accounts:

| Theorem | Statement |
|---|---|
| `TypeCorrect` | `Spec => []TypeOK` |
| `NotTorn` | `Spec => []NoTornIdentity` |
| `BindUploader` | `Spec => []CredentialsBindUploader` |
| `NotStale` | `Spec => []NoStaleCommitment` |
| `SettledIsFinal` | `Spec => SettledIdentityIsFinal` |
| `StoredIsFound` | `Spec => StoredCredentialIsFound` |
| `WritesAsAssumed` | `Spec => WritesAsTicketsAssumes` |

*Argument for identities.* The invariant has two halves. `Local` is inductive by
itself: each row of `users` holds one upload whole or nothing, and its commitment
is recorded as uploaded by the row's account; so is the commitment a request has
read, for its caller, and the one a stored or a signed credential is for, for an
account with that address. `uploaded` only grows (`MoreUploads`), so none of
this is taken away by others. `Later` is about requests that came in when the account
was settled. Its core is `SettledStays`: the account of a complete row is changed
only by an update that read the row when it was incomplete, and a settled account
has none under way, nor can one start, because an update that
reads a complete row is answered 400. So a late request still finds its account settled, the commitment
it has read is the one in the row (`NoStaleCommitment`), and a stored credential
is found by it. `NoStaleCommitment` alone is not inductive: it needs `LateSettled`,
and `StoredIsFound` needs `SavedFound`, i.e. that an account that was told its
credential is stored is settled and has one under the commitment of its row.

`TicketsProofs` proves, for all requests, accounts, events and identities:

| Theorem | Statement |
|---|---|
| `TypeCorrect` | `Spec => []TypeOK` |
| `InvitedOnly` | `Spec => []TicketsForInvitedOnly` |
| `BindUploader` | `Spec => []TicketsBindUploader` |
| `NotReissued` | `Spec => StoredTicketNotReissued` |
| `TicketsListed` | `Spec => StoredTicketsAreListed` |
| `OnlyOwnBlocks` | `Spec => OwnTicketBlocks` |

*Argument for tickets.* While a request goes through its four calls, every table
it has read may change. What carries the properties is what a call established
and nobody can take away: that the address was registered at some time
(`invited` only grows, though `registrations` does not), that the caller
uploaded the commitment at some time (`uploaded` only grows, though the row
changes), and that a ticket
stored before the request came in is stored still (`Grows`: the upsert replaces
the row of a pair, never removes it). `ReqOK` lists these per call and
`ReqOKGrows` shows that they outlive the steps of all others. `NotReissued` then
needs only that a request which knows of a stored ticket never gets past its
first call.

`BackendProofs` proves, for all requests of both kinds, accounts, events and
identities, and for every choice of `Uploads`, `Asked` and `Callers`:

| Theorem | Statement |
|---|---|
| `AsAlone` | `BackendSpec => TicketsAsAlone`, i.e. Backend implements Tickets (no run checks it: the step it rests on is `WritesAsTicketsAssumes`) |
| `BothTypesCorrect` | `BackendSpec => []BackendTypeOK` |
| `Agree` | `BackendSpec => []CredentialsAgree` |
| `MatchStored` | `BackendSpec => []CredentialsMatchStored` |
| `OfOneIdentity` | `BackendSpec => CredentialsOfOneIdentity`, i.e. Backend implements OneIdentity |
| `OneIdentityAgrees` | `CredentialsOfOneIdentity => []CredentialsAgree` |

*Argument for the composition.* Nothing of the parts is proved again.
`IdentityMoves`: a step of Backend is a step of Identity or leaves its variables
alone, so Identity's invariant holds. `TicketsMove`: it is a step of Tickets over
`Commitments`, the users table with only the column that ticket handlers read;
for a step of the ticket handlers because they read no other column
(`StepSeen`), for an update because of `SeenWrite`, the lemma behind
`WritesAsAssumed`. So the invariant of `TicketsProofs`, instantiated over
`Commitments`, holds as well. What is new is `LateInv` (a late ticket request
finds its account settled, and the commitment it has read in the row) and
`NamedInv` (so does every credential handed out to one); both rest on
`SettledStays`, and then the uniqueness of rows gives `Agree`, and `SavedFound`
of Identity gives `MatchStored`. For `OfOneIdentity`, a step either leaves
`named` alone, and then it is a `Settle` because what is settled only grows
(`SettlementsGrow`), or it hands out a late credential, and then nothing settles
in that step and the credential names a settlement (`NamedMoves`).

`SystemProofs` proves, for all requests of the three kinds, all accounts,
addresses, codes, uuids, events and identities:

| Theorem | Statement |
|---|---|
| `BackendBesideSignin` | `SystemSpec => BackendAsAlone`, i.e. System implements Backend |
| `SigninBesideBackend` | `SystemSpec => SigninAsAlone`, i.e. System implements Signin |
| `SystemTypesCorrect` | `SystemSpec => []SystemTypeOK` |
| `NeedLogin` | `SystemSpec => []CredentialsNeedLogin` |
| `WholeSystem` | `SystemSpec => []CredentialsAgree /\ []CredentialsMatchStored /\ CredentialsOfOneIdentity` |
| `WholeSignin` | `SystemSpec => []SigninOfSystem!OneLoginPerCode /\ []S!TokensNameOneAccount` |

*Argument for the whole.* The two refinements carry over what was proved of the
parts. `BackendMoves`: a sign-in step is an `Enroll` or does not touch what
Backend works on. `SignInNext`: a step of sign-in stays one when the users table
is seen through `Accountholders` (`FindUserSeen`, `CreateUserSeen`: the two calls
that read it look at ids and emails only), and a step of the other handlers is
not seen at all, because `UpdateUser` keeps ids and emails (`ServeMoves`). Then
`NeedLogin` needs an invariant that spans the parts, `SystemInv`: every token is
an account with a login to its name (`TokensOK`), every running request carries
claims that its client was given (`CarriedOK`), every upload is one of an account
that may log in (`UploadersOK`), and every credential names an upload of an
account that holds a token (`CredentialsOK`). The last is kept because Identity
and Tickets know that a request about to sign has read a commitment which its
caller uploaded. `CredentialsNeedLogin` itself is not inductive, it says
nothing of requests under way. `GhostsAssumption` is what makes an account's
claims come from a login and nowhere else: the uuid of a row that was removed by
hand is not drawn again. `OneLoginPerCode` of Signin gives the bound on logins.
`TokensNameOneAccount` is stated here of the full rows, which the other handlers
update: by `AccountInv` of Signin a token's row exists, and by `UsersOwn` of
Identity it is the only one with that id or that email.

`IssuerProofs` proves, for all requests of any shape and length, any number of
callers, any texts, settings and hash function, any int64 values and any length
of a second:

| Theorem | Statement |
|---|---|
| `UnmarshalSays` | what `Unmarshal` returns says what the request says |
| `UnmarshalTotal` | `Unmarshal` returns something exactly for a well-formed request |
| `TypeCorrect` | `Spec => []TypeOK` |
| `Accepts` | `Spec => []AcceptsWellFormed` |
| `HandlersGetWhatTheyAsked` | `Spec => []AsIssuanceAssumes` |
| `ExpiryIsClose` | `Spec => AnnouncedExpiry` |
| `Implementation` | `Spec => CallsAreSigned`, i.e. Issuer implements Signing |

*Argument for the issuer.* The first two theorems need no behaviour at all: one
pair of lemmas for each function of `marshal.ts` (`...Says`, `...Total`), and
`AllOfElements` and `AllOfTotal` for `Array.map` over a function that may throw,
which take the place of an induction over the two lists. For unary `+` the
lemma is `ToNumberRounds`: the spacing of the doubles around an int64 is at most
1024 and the number at most 2^53 times as large (`SpacingFits`), rounding
moves a number by half a spacing at most (`RoundToNear`), and a number that needs
a spacing above 1 is more than 2^53 times half of it (`SpacingFits` again), so that
the error is at most a 2^53rd part of the number. `ExpiryIsClose`
adds what `Unix` loses, less than a second (`UnixCuts`). The behaviour adds
`CallInv`: what a call has got says what *this* call has asked, and a handler's
call has asked what `BackendRequest` builds at the time `asked`. It is inductive
with `TypeOK` because an answer dies with its connection; `DownInv` covers both
ends of the process, a crash and a string that the callback cannot send.

*Assumptions.* Those named in the modules: JWT ids and emails are not empty,
an id names one account and an address one account besides the removed ones, an
account's uuid is not that of a removed row (`GhostsAssumption`), an upload is
three texts (`UploadsAssumption`) and a numeral stands for an integer
(`ValuesAssumption`), doubles are exact up to some positive number
(`MaxExactAssumption`), texts and numerals as in `IssuerMessages`, a decimal text
is read back as its number, the settings are not negative and fit their types
(`ConfigAssumption`). Nothing is assumed of whose commitment a client uploads. TLC evaluates all of them on every instance.

Only model-checked: `EveryRequestAnswered` and `EveryCallReturns` (liveness under
fairness is out of the prover's reach), and the six counterexamples. No module
uses a `RECURSIVE` operator.

## 5. What the models leave out

* `net/http` and `gorilla/mux` beyond matching a path and a method: the
  cleaning of `//` and `..` in paths, HEAD, timeouts of connections.
* Overflow of `expireSec * time.Second` in `GenerateJWT`: the configured value
  is 36000.
* Logging, wording, JSON, timestamps, and the uuids of credential rows.
* The digits of a code: a code is a model value, and a guess may be right.
* The content of credentials and ciphertexts: what is kept is whom they belong
  to, which event and commitment they name, and under which settings they were
  signed. Cryptography is the SDK's.
* Time in Identity and Tickets: no handler reads the expiry of a credential
  again. Signed and announced expiry are in `Issuer`.
* `ping` of the issuer and the health check's body: they change nothing.
* Negative settings: `uint64(s.issuerChainID)` would wrap one around 2^64, and
  the credential would name that number. `ConfigAssumption` leaves them out.
* What grpc-js makes of the error it is handed: status codes and texts.
* `GetEventRegistrations` and `GetRegisteredEventsByEmail`: reads nobody calls.
* The order of listed tickets and events.
* Rows removed by hand other than registrations: the 404 of "User not found" is
  reached through JWTs of accounts whose row is gone (`Ghosts`); such an
  account's address may have signed up again, under a new uuid (it has, in the
  instance of Identity).
* Three things the code allows and nothing in the repository calls wrong, so that
  the properties say what holds in spite of them: an uploaded commitment is not
  validated, and once a complete identity that `BigInt` rejects is stored, no
  credential can ever be signed for the account (`service.go:318`; no other
  commitment is signed for it either: `CredentialsOfOneIdentity`); an account may
  upload the commitment of another, gets it signed with its own address, and
  shares with it the one row of `email_credentials` (`schema.sql:9`), so that the
  one stored last is what both find (whoever stored it had uploaded the
  commitment: `StoredCredentialIsFound`); and a client
  may store a ticket for an event it never registered for, which then blocks its
  own requests for that event (`service.go:501`; but nobody else's:
  `OwnTicketBlocks`).

## 6. What could be added

* `Gateway` in `System`: that a request carries the claims of a token handed out
  (`Carried`) is what `ClaimsReachHandlers` promises of the middleware; the two
  are linked by name only, and expiry is in `Gateway` alone.
* `Issuer` in `System`: the one signing step of Identity and Tickets is what
  `AsIssuanceAssumes` allows; the handlers' wait for the issuer is in `Issuer`.
* Liveness of the identity and ticket handlers. They are straight lines of calls
  like those of sign-in, without a loop or a wait, and `EveryRequestAnswered`
  and `EveryCallReturns` are about the two places where more can happen.
