------------------------------- MODULE Issuer -------------------------------
(***************************************************************************)
(* The issuer as a process (server.ts, handler.ts) and the backend's       *)
(* handlers as its callers: what happens between the Invoke of a handler's *)
(* gRPC client and its return, which Identity and Tickets take in one step.*)
(*                                                                         *)
(* The server runs one event at a time, and GenerateSignedCredential       *)
(* awaits nothing: receiving a call, unmarshalling, signing and the        *)
(* callback are one action.  A call has no deadline, so it is over only    *)
(* when an answer or the end of the connection reaches the caller.         *)
(***************************************************************************)
EXTENDS Marshal

CONSTANTS
    Calls,         \* calls that may be under way at the same time
    IssuerChainID, EmailCredentialContextID, TicketCredentialContextID,
    Emails, EventIDs, Idents,  \* texts a handler puts into a request
    StringToUint248Hash,       \* the decimal text of an address's hash
    Decimal,       \* the decimal text of an integer: %d, fmt.Sprint
    OtherRequests, \* requests of other clients than the backend
    Second, Day,   \* a second and 24 hours, in ticks of the clock
    MaxTime        \* bound: the clock stops there

Issuance == INSTANCE Issuance WITH Numerals <- Numerals \cap Idents

ASSUME CallsAssumption ==
    /\ Empty \notin Idents
    /\ Emails \cup EventIDs \cup Idents \cup {"email", "event_id"} \subseteq Text
    /\ OtherRequests \subseteq GenerateSignedCredentialRequest
ASSUME BoundsAssumption == Day \in Nat /\ MaxTime \in Nat /\ Second \in Nat \ {0}

Unix_Up(t) == (t + Second - 1) \div Second  \* mutant: the next whole second
\* Time.Unix: whole seconds, the fraction is cut off.
Unix(t) == t \div Second

\* A decimal text is read back as the integer it was written for.
ASSUME DecimalAssumption ==
    \A n \in DOMAIN Decimal : n \in Int /\ Decimal[n] \in Numerals /\ ValueOf[Decimal[n]] = n
ASSUME ConfigAssumption ==
    /\ {1} \cup {Unix(t) : t \in 0 .. MaxTime + Day} \subseteq DOMAIN Decimal
    /\ {IssuerChainID, EmailCredentialContextID, TicketCredentialContextID}
          \subseteq Uint64 \cap DOMAIN Decimal
    /\ StringToUint248Hash \in [Emails -> Numerals]

VARIABLES
    server,  \* the issuer process: down, preparing, binding or up
    calls,   \* the callers
    now      \* the backend's clock

vars == <<server, calls, now>>

-----------------------------------------------------------------------------
(* The two requests of the backend                                         *)

unitCredentialTypeID == 1

\* The handlers differ in the context and in the one attachment.
Attachment ==
    [email |-> "email", ticket |-> "event_id"]
Context(kind) ==
    [email |-> Issuance!Service.emailCredentialContextID,
     ticket |-> Issuance!Service.ticketCredentialContextID][kind]
Handlers ==
    {h \in [kind : {"email", "ticket"}, email : Emails,
            attachment : Emails \cup EventIDs, ic : Idents] :
        IF h.kind = "email" THEN h.attachment = h.email ELSE h.attachment \in EventIDs}

unitBody ==
    [tp |-> {[claims |-> <<>>, revocable |-> {0},
              typeId |-> Decimal[unitCredentialTypeID]]},
     values |-> <<>>]

BackendRequest_EmailContext(h, expiredAt) ==  \* mutant: tickets in the email context
    [header |-> {[version |-> 1, type |-> Decimal[unitCredentialTypeID],
                  context |-> Decimal[Context("email")],
                  id |-> StringToUint248Hash[h.email]]},
     body |-> {unitBody},
     attachments |-> {{<<Attachment[h.kind], h.attachment>>}},
     chainId |-> Issuance!Service.issuerChainID % TwoTo64,
     identityCommitment |-> h.ic,
     expiredAt |-> Decimal[expiredAt]]
BackendRequest(h, expiredAt) ==
    [header |-> {[version |-> 1, type |-> Decimal[unitCredentialTypeID],
                  context |-> Decimal[Context(h.kind)],
                  id |-> StringToUint248Hash[h.email]]},
     body |-> {unitBody},
     attachments |-> {{<<Attachment[h.kind], h.attachment>>}},
     chainId |-> Issuance!Service.issuerChainID % TwoTo64,
     identityCommitment |-> h.ic,
     expiredAt |-> Decimal[expiredAt]]

-----------------------------------------------------------------------------
(* The callers                                                             *)

NoCall ==
    [pc |-> "idle", handler |-> {}, request |-> {}, asked |-> 0,
     credential |-> {}, expireAt |-> 0]

UnderWay == {"sent", "served", "broken"}
At(c, pc) == calls[c].pc = pc
Free(c) == calls[c].pc \notin UnderWay

\* The gRPC client sends the request.
Invoke(c, handler, request) ==
    /\ Free(c)
    /\ calls' = [calls EXCEPT ![c] =
            [pc |-> "sent", handler |-> handler, request |-> {request}, asked |-> now,
             credential |-> {}, expireAt |-> 0]]
    /\ UNCHANGED <<server, now>>

\* A handler asks for a credential that expires in 24 hours, to the second.
AskAsHandler(c, h) == Invoke(c, {h}, BackendRequest(h, Unix(now + Day)))

\* Invoke returns what the server sent.  The handler announces an expiry of
\* its own, 24 hours from here, with the fraction of the second.
Return(c) ==
    /\ At(c, "served")
    /\ calls' = [calls EXCEPT ![c].pc = "done",
            ![c].expireAt = IF calls[c].credential = {} THEN 0 ELSE now + Day]
    /\ UNCHANGED <<server, now>>

\* Invoke returns an error: the connection is refused or was lost.
Unavailable(c) ==
    /\ \/ At(c, "broken")
       \/ At(c, "sent") /\ server # "up"
    /\ calls' = [calls EXCEPT ![c].pc = "done", ![c].credential = {}]
    /\ UNCHANGED <<server, now>>

\* The connection breaks, or the context of the handler's request is cancelled.
Break(c) ==
    /\ calls[c].pc \in {"sent", "served"}
    /\ calls' = [calls EXCEPT ![c].pc = "broken", ![c].credential = {}]
    /\ UNCHANGED <<server, now>>

-----------------------------------------------------------------------------
(* The server                                                              *)

\* generateSignedCredential of server.ts: the promise of
\* GenerateSignedCredential is fulfilled or rejected, and either way the
\* callback answers.  The SDK may reject what was unmarshalled.
Serve_NoCatch(c) ==  \* mutant: a rejected promise does not reach the callback
    /\ server = "up" /\ At(c, "sent")
    /\ \E req \in calls[c].request : \E cred \in Unmarshal(req) :
           calls' = [calls EXCEPT ![c].pc = "served", ![c].credential = {cred}]
    /\ UNCHANGED <<server, now>>
Serve(c) ==
    /\ server = "up" /\ At(c, "sent")
    /\ \/ \E req \in calls[c].request : \E cred \in Unmarshal(req) :
              calls' = [calls EXCEPT ![c].pc = "served", ![c].credential = {cred}]
       \/ calls' = [calls EXCEPT ![c].pc = "served", ![c].credential = {}]
    /\ UNCHANGED <<server, now>>

\* start(): babyzk is prepared, the service is added, the port is bound.
Boot == [down |-> "preparing", preparing |-> "binding", binding |-> "up"]

Start ==
    /\ server \in DOMAIN Boot
    /\ server' = Boot[server]
    /\ UNCHANGED <<calls, now>>

\* The process ends, and with it the calls it was to answer.
Down(lost) ==
    /\ server' = "down"
    /\ calls' = [c \in Calls |->
            IF c \in lost THEN [calls[c] EXCEPT !.pc = "broken", !.credential = {}]
            ELSE calls[c]]
    /\ UNCHANGED now

\* The catch hands the callback what was thrown, an Error or a string.  grpc-js
\* is not under src; that it cannot send a string is possible.  Then it throws
\* out of the catch, and Node.js ends the process on a rejection that nobody
\* handles, with the calls that were not sent their answer.
ServeUncaught(c) ==
    /\ server = "up" /\ At(c, "sent")
    /\ \E req \in calls[c].request : MayThrowString(req)
    /\ Down({c} \cup {d \in Calls : At(d, "served")})

ServerCrash_ReplyKept ==  \* mutant: the answer outlives the connection
    /\ server # "down"
    /\ server' = "down"
    /\ calls' = [c \in Calls |->
            IF At(c, "served") THEN [calls[c] EXCEPT !.pc = "broken"] ELSE calls[c]]
    /\ UNCHANGED now
\* The process dies (an assertion, an exception nobody catches, the pod), and
\* what it was to send dies with it.  A request that was on its way may reach
\* the next process.
ServerCrash ==
    /\ server # "down"
    /\ Down({c \in Calls : At(c, "served")})

-----------------------------------------------------------------------------
BackendCrash ==
    /\ \E c \in Calls : ~Free(c)
    /\ calls' = [c \in Calls |-> NoCall]
    /\ UNCHANGED <<server, now>>

Tick ==
    /\ now < MaxTime
    /\ now' = now + 1
    /\ UNCHANGED <<server, calls>>

Init ==
    /\ server = "down"
    /\ calls = [c \in Calls |-> NoCall]
    /\ now = 0

\* What the code and the network do by themselves for a call that is under way.
Proceed(c) == Serve(c) \/ ServeUncaught(c) \/ Return(c) \/ Unavailable(c)

Next ==
    \/ \E c \in Calls : \/ \E h \in Handlers : AskAsHandler(c, h)
                        \/ \E req \in OtherRequests : Invoke(c, {}, req)
                        \/ Proceed(c)
                        \/ Break(c)
    \/ Start
    \/ ServerCrash
    \/ BackendCrash
    \/ Tick

Spec == Init /\ [][Next]_vars

FairSpec == Spec /\ \A c \in Calls : WF_vars(Proceed(c))

-----------------------------------------------------------------------------
(* Properties                                                              *)

Call ==
    [pc : UnderWay \cup {"idle", "done"}, handler : Optional(Handlers),
     request : Optional(GenerateSignedCredentialRequest), asked : 0 .. MaxTime,
     credential : Optional(Credential), expireAt : 0 .. MaxTime + Day]
CallOK(x) ==
    /\ x.credential # {} => x.pc \in {"served", "done"}
    /\ x.pc = "idle" <=> x.request = {}

\* Every variable holds values of its type; a credential is there from the
\* server's answer to the next call, a request from the first call on.
TypeOK ==
    /\ server \in DOMAIN Boot \cup {"up"}
    /\ now \in 0 .. MaxTime
    /\ calls \in [Calls -> Call]
    /\ \A c \in Calls : CallOK(calls[c])

Abs == INSTANCE Signing WITH
    pending <- [c \in Calls |-> IF Free(c) THEN {} ELSE calls[c].request],
    answers <- [c \in Calls |-> IF Free(c) THEN calls[c].credential ELSE {}]

\* With restarts, lost connections and several calls at a time, a caller gets a
\* credential that says what its own request says, or an error: the issuer
\* implements Signing.
CallsAreSigned == Abs!Spec

\* The unmarshalling of claims and values, which are paired by index, lets
\* through exactly the requests that can be said.
AcceptsWellFormed ==
    \A c \in Calls : \A req \in calls[c].request :
        Unmarshal(req) # {} <=> Abs!WellFormed(req)

\* A handler gets what Identity and Tickets take it to get: a credential under
\* the settings of the service, for the hash of the caller's email, with the
\* handler's attachment and the number the commitment is written for.
AsIssuanceAssumes ==
    \A c \in Calls : \A h \in calls[c].handler, cred \in calls[c].credential :
        \E g \in Issuance!GenerateSignedCredential(
                    CASE h.kind = "email"  -> Issuance!Service.emailCredentialContextID
                      [] h.kind = "ticket" -> Issuance!Service.ticketCredentialContextID,
                    h.email, h.attachment, h.ic) :
            /\ cred.header.context = g.context
            /\ cred.header.id = ValueOf[StringToUint248Hash[g.email]]
            /\ cred.attachments = {<<Attachment[h.kind], g.attachment>>}
            /\ cred.chainID = g.chainID
            /\ cred.identityCommitment = g.identityCommitment

\* The expiry a handler announces is not the one that was signed: it is read
\* from the clock after the call, and it keeps the fraction of the second.  It
\* is never the earlier of the two, and later by less than a second more than
\* the call took.
AnnouncedExpiry ==
    [][\A c \in Calls : \A h \in calls[c].handler, cred \in calls'[c].credential :
         calls[c].pc = "served" /\ calls'[c].pc = "done"
            => calls'[c].expireAt - cred.expireAt * Second
                  \in 0 .. now - calls[c].asked + Second - 1]_vars

\* Every call of a handler is answered, with a credential or an error, though
\* it has no deadline: a promise that is rejected is answered too.
EveryCallReturns == \A c \in Calls : ~Free(c) ~> Free(c)
=============================================================================
