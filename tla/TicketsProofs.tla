---------------------------- MODULE TicketsProofs ----------------------------
(***************************************************************************)
(* Proofs about Tickets, for any number of requests, accounts, events and  *)
(* identities: who gets a ticket, for which commitment, and when a second  *)
(* one is refused.                                                         *)
(*                                                                         *)
(* The invariant says of the tables that the commitment in a row of users  *)
(* was uploaded by its account, and of a running request what each of its  *)
(* four calls has established and no other request can take away: that it  *)
(* was registered for, who uploaded the commitment it read, and which      *)
(* tickets were stored before it came in.                                  *)
(***************************************************************************)
EXTENDS Tickets, DatabaseProofs

Status == {0, 200, 201, 400, 401, 404, 500}
Bodies == SUBSET (Ticket \cup EventIDs)

\* The calls of a ticket request after its first.
LaterCalls == {"getRegistration", "readUser", "sign"}

Uploaded(id, ic, up) == [id |-> id, commitment |-> ic] \in up

\* What a request knows, given who was ever registered, what was uploaded and
\* what is stored.
ReqOK(q, inv, up, creds) ==
    /\ q.pc \in Busy =>
          /\ q.status = 0
          /\ q.pc = FirstCall[q.op] \/ (q.op = "requestTicket" /\ q.pc \in LaterCalls)
          /\ \A e \in q.known : \E t \in creds : t.eventId = e /\ t.email = q.claims.email
    /\ q.pc \notin Busy => q.op = Empty
    /\ q.pc \in {"readUser", "sign"}
          => [eventId |-> q.eventId, email |-> q.claims.email] \in inv
    /\ q.pc = "sign" => Uploaded(q.claims.id, q.ic, up)
    /\ q.op = "requestTicket" /\ q.eventId \in q.known => q.pc = "getTicket"

UsersOwn ==
    \A u \in users :
        u.identityCommitment # Empty => Uploaded(u.id, u.identityCommitment, uploaded)

\* What the upsert leaves: one ticket for a pair, encrypted by the attendee.
TicketsOwn ==
    /\ \A t \in ticketCreds : t.data = t.email
    /\ \A t, v \in ticketCreds : t.eventId = v.eventId /\ t.email = v.email => t = v

RowsOK ==
    /\ users \subseteq UserRow(IDs, Addresses, Idents)
    /\ registrations \subseteq Registration /\ registrations \subseteq invited
    /\ ticketCreds \subseteq Ticket
    /\ invited \subseteq Registration
    /\ uploaded \subseteq [id : IDs, commitment : Idents]
    /\ UsersOwn
    /\ TicketsOwn

IssuedOK ==
    /\ \A c \in issued : /\ c.identityCommitment \in Int
                         /\ c.email \in Addresses /\ c.attachment \in EventIDs
    /\ TicketsForInvitedOnly
    /\ TicketsBindUploader

ReqsOK ==
    /\ reqs \in [Reqs -> Request]
    /\ \A r \in Reqs : ReqOK(reqs[r], invited, uploaded, ticketCreds)

Inv == RowsOK /\ IssuedOK /\ ReqsOK

-----------------------------------------------------------------------------
(* Requests                                                                *)

\* A running request, whose op is one of the five and not the empty string.
LEMMA OpsNotEmpty == Empty \notin Ops
BY DEF Empty, Ops, FirstCall

LEMMA BusyCalls ==
    /\ Busy = {"getTicket", "putTicket", "listTickets", "getEvent", "listEvents",
               "getRegistration", "readUser", "sign"}
    /\ "idle" \notin Busy /\ "done" \notin Busy
    /\ Ops = {"requestTicket", "putTicket", "listTickets", "getEvent", "listEvents"}
    /\ FirstCall["requestTicket"] = "getTicket" /\ FirstCall["putTicket"] = "putTicket"
    /\ FirstCall["listTickets"] = "listTickets" /\ FirstCall["getEvent"] = "getEvent"
    /\ FirstCall["listEvents"] = "listEvents"
BY DEF Busy, FirstCall, Ops

\* An answer forgets everything about the request but its status and body.
Done(status, body) ==
    [op |-> Empty, pc |-> "done", claims |-> NoClaims, eventId |-> Empty,
     ic |-> Empty, known |-> {}, status |-> status, body |-> body]

LEMMA AnswerIsDone ==
    ASSUME NEW r \in Reqs, NEW status, NEW body, Answer(r, status, body)
    PROVE  reqs' = [reqs EXCEPT ![r] = Done(status, body)]
<1> DEFINE x == [NoRequest EXCEPT !.pc = "done"]
           y == [x EXCEPT !.status = status]
           z == [y EXCEPT !.body = body]
<1>1. DOMAIN NoRequest = {"op", "pc", "claims", "eventId", "ic", "known", "status", "body"}
  BY DEF NoRequest
<1>2. x = [f \in DOMAIN NoRequest |-> IF f = "pc" THEN "done" ELSE NoRequest[f]]
  OBVIOUS
<1>3. y = [f \in DOMAIN NoRequest |-> IF f = "status" THEN status ELSE x[f]]
  BY <1>2
<1>4. z = [f \in DOMAIN NoRequest |-> IF f = "body" THEN body ELSE y[f]]
  BY <1>3
<1>5. z = [NoRequest EXCEPT !.pc = "done", !.status = status, !.body = body]
  OBVIOUS
<1>6. reqs' = [reqs EXCEPT ![r] = z]
  BY <1>5 DEF Answer
<1> HIDE DEF x, y, z
<1>7. z = [f \in {"op", "pc", "claims", "eventId", "ic", "known", "status", "body"} |->
             IF f = "body" THEN body ELSE IF f = "status" THEN status
             ELSE IF f = "pc" THEN "done" ELSE NoRequest[f]]
  BY <1>1, <1>2, <1>3, <1>4
<1>8. z = Done(status, body)
  BY <1>7 DEF Done, NoRequest
<1> QED
  BY <1>6, <1>8

LEMMA DoneOK ==
    ASSUME NEW status \in Status, NEW body \in Bodies, NEW inv, NEW up, NEW creds
    PROVE  Done(status, body) \in Request /\ ReqOK(Done(status, body), inv, up, creds)
<1>1. Done(status, body) \in Request
  BY BusyCalls DEF Done, Request, Status, Bodies
<1>2. ReqOK(Done(status, body), inv, up, creds)
  BY BusyCalls, OpsNotEmpty DEF Done, ReqOK
<1> QED
  BY <1>1, <1>2

\* The registrations and uploads there ever were, and the tickets stored for a
\* pair.
Grows ==
    /\ invited \subseteq invited'
    /\ uploaded \subseteq uploaded'
    /\ \A t \in ticketCreds : \E v \in ticketCreds' : v.eventId = t.eventId /\ v.email = t.email

\* What a request knows outlives what is added to the tables.
LEMMA ReqOKGrows ==
    ASSUME Grows, NEW q, ReqOK(q, invited, uploaded, ticketCreds)
    PROVE  ReqOK(q, invited', uploaded', ticketCreds')
BY DEF ReqOK, Grows, Uploaded

LEMMA OneRequest ==
    ASSUME ReqsOK, Grows, NEW r \in Reqs, NEW x \in Request,
           ReqOK(x, invited', uploaded', ticketCreds'), reqs' = [reqs EXCEPT ![r] = x]
    PROVE  ReqsOK'
<1>1. \A q \in Reqs : reqs'[q] = IF q = r THEN x ELSE reqs[q]
  BY DEF ReqsOK
<1>2. reqs' \in [Reqs -> Request]
  BY DEF ReqsOK
<1>3. ASSUME NEW q \in Reqs
      PROVE  ReqOK(reqs'[q], invited', uploaded', ticketCreds')
  BY <1>1, ReqOKGrows DEF ReqsOK
<1> QED
  BY <1>2, <1>3 DEF ReqsOK

LEMMA AnswerReqs ==
    ASSUME ReqsOK, Grows, NEW r \in Reqs, NEW status \in Status, NEW body \in Bodies,
           Answer(r, status, body)
    PROVE  ReqsOK'
BY AnswerIsDone, DoneOK, OneRequest

\* A record of a request, and the two ways a request goes on.
LEMMA RequestFields ==
    ASSUME NEW q \in Request
    PROVE  /\ q \in [op : Ops \cup {Empty}, pc : Busy \cup {"idle", "done"},
                     claims : AllClaims \cup {NoClaims}, eventId : EventIDs \cup {Empty},
                     ic : Idents \cup {Empty}, known : SUBSET (EventIDs \cup {Empty}),
                     status : Status, body : Bodies]
           /\ q.pc \in Busy => q.op \in Ops
           /\ q.pc \in Busy /\ q.eventId = Empty => q.op \in Lists \cup {"putTicket"}
           /\ q.pc \in Busy /\ q.op \notin Public => q.claims \in AllClaims
           /\ q.pc = "sign" => q.ic \in Idents
BY DEF Request, Status, Bodies

LEMMA RequestGoesOn ==
    ASSUME NEW q \in Request, NEW pc, NEW ic
    PROVE  /\ [q EXCEPT !.pc = pc]
                = [op |-> q.op, pc |-> pc, claims |-> q.claims, eventId |-> q.eventId,
                   ic |-> q.ic, known |-> q.known, status |-> q.status, body |-> q.body]
           /\ [q EXCEPT !.pc = pc, !.ic = ic]
                = [op |-> q.op, pc |-> pc, claims |-> q.claims, eventId |-> q.eventId,
                   ic |-> ic, known |-> q.known, status |-> q.status, body |-> q.body]
<1>1. DOMAIN q = {"op", "pc", "claims", "eventId", "ic", "known", "status", "body"}
  BY DEF Request
<1> DEFINE x == [q EXCEPT !.pc = pc]
           y == [x EXCEPT !.ic = ic]
<1>2. x = [f \in DOMAIN q |-> IF f = "pc" THEN pc ELSE q[f]]
  OBVIOUS
<1>3. y = [f \in DOMAIN q |-> IF f = "ic" THEN ic ELSE x[f]]
  BY <1>2
<1>4. y = [q EXCEPT !.pc = pc, !.ic = ic]
  OBVIOUS
<1> HIDE DEF y
<1>5. x = [op |-> q.op, pc |-> pc, claims |-> q.claims, eventId |-> q.eventId,
           ic |-> q.ic, known |-> q.known, status |-> q.status, body |-> q.body]
  BY <1>1, <1>2
<1> HIDE DEF x
<1>6. y = [op |-> q.op, pc |-> pc, claims |-> q.claims, eventId |-> q.eventId,
           ic |-> ic, known |-> q.known, status |-> q.status, body |-> q.body]
  BY <1>1, <1>3, <1>5
<1> QED
  BY <1>4, <1>5, <1>6 DEF x

LEMMA RequestStarts ==
    ASSUME NEW op, NEW pc, NEW claims, NEW eventId, NEW known
    PROVE  [NoRequest EXCEPT !.op = op, !.pc = pc, !.claims = claims,
                             !.eventId = eventId, !.known = known]
             = [op |-> op, pc |-> pc, claims |-> claims, eventId |-> eventId,
                ic |-> Empty, known |-> known, status |-> 0, body |-> {}]
<1> DEFINE D == {"op", "pc", "claims", "eventId", "ic", "known", "status", "body"}
           v == [NoRequest EXCEPT !.op = op]
           w == [v EXCEPT !.pc = pc]
           x == [w EXCEPT !.claims = claims]
           y == [x EXCEPT !.eventId = eventId]
           z == [y EXCEPT !.known = known]
<1>1. DOMAIN NoRequest = D
  BY DEF NoRequest
<1>2. v = [f \in DOMAIN NoRequest |-> IF f = "op" THEN op ELSE NoRequest[f]]
  OBVIOUS
<1>3. w = [f \in DOMAIN NoRequest |-> IF f = "pc" THEN pc ELSE v[f]]
  BY <1>2
<1>4. x = [f \in DOMAIN NoRequest |-> IF f = "claims" THEN claims ELSE w[f]]
  BY <1>3
<1>5. y = [f \in DOMAIN NoRequest |-> IF f = "eventId" THEN eventId ELSE x[f]]
  BY <1>4
<1>6. z = [f \in DOMAIN NoRequest |-> IF f = "known" THEN known ELSE y[f]]
  BY <1>5
<1>7. z = [NoRequest EXCEPT !.op = op, !.pc = pc, !.claims = claims,
                            !.eventId = eventId, !.known = known]
  OBVIOUS
<1> HIDE DEF v, w, x, y, z
<1>8. z = [f \in D |-> IF f = "known" THEN known ELSE IF f = "eventId" THEN eventId
                       ELSE IF f = "claims" THEN claims ELSE IF f = "pc" THEN pc
                       ELSE IF f = "op" THEN op ELSE NoRequest[f]]
  BY <1>1, <1>2, <1>3, <1>4, <1>5, <1>6
<1>9. z = [op |-> op, pc |-> pc, claims |-> claims, eventId |-> eventId,
           ic |-> Empty, known |-> known, status |-> 0, body |-> {}]
  BY <1>8 DEF NoRequest
<1> QED
  BY <1>7, <1>9

-----------------------------------------------------------------------------
(* The steps                                                               *)

LEMMA InitInv == Init => Inv
<1> SUFFICES ASSUME Init PROVE Inv
  OBVIOUS
<1>1. users \subseteq UserRow(IDs, Addresses, Idents) /\ UsersOwn
  BY DEF Init, UsersOwn
<1>2. NoRequest \in Request /\ ReqOK(NoRequest, invited, uploaded, ticketCreds)
  BY BusyCalls, OpsNotEmpty DEF NoRequest, Request, ReqOK
<1>3. RowsOK /\ IssuedOK
  BY <1>1 DEF Init, RowsOK, TicketsOwn, IssuedOK, TicketsForInvitedOnly, TicketsBindUploader
<1>4. ReqsOK
  BY <1>2 DEF Init, ReqsOK
<1> QED
  BY <1>3, <1>4 DEF Inv

\* A step that leaves the tables and the tickets alone.
LEMMA SameRows ==
    ASSUME RowsOK, IssuedOK, UNCHANGED <<tables, issued, invited, uploaded>>
    PROVE  RowsOK' /\ IssuedOK' /\ Grows
BY DEF RowsOK, IssuedOK, UsersOwn, TicketsOwn, TicketsForInvitedOnly, TicketsBindUploader,
       Grows, tables

LEMMA FailInv ==
    ASSUME Inv, NEW r \in Reqs, Fail(r), UNCHANGED <<invited, uploaded>>
    PROVE  Inv'
<1>1. RowsOK' /\ IssuedOK' /\ Grows
  BY SameRows DEF Inv, Fail
<1>2. Answer(r, 500, {}) /\ 500 \in Status /\ {} \in Bodies
  BY DEF Fail, Status, Bodies
<1>3. ReqsOK'
  BY <1>1, <1>2, AnswerReqs DEF Inv
<1> QED
  BY <1>1, <1>3 DEF Inv

\* A request goes on, or is answered, and changes nothing else.
LEMMA ReadInv ==
    ASSUME Inv, NEW r \in Reqs, UNCHANGED <<tables, issued, invited, uploaded>>,
           \/ \E status \in Status, body \in Bodies : Answer(r, status, body)
           \/ \E x \in Request : /\ ReqOK(x, invited, uploaded, ticketCreds)
                                 /\ reqs' = [reqs EXCEPT ![r] = x]
    PROVE  Inv'
<1>1. RowsOK' /\ IssuedOK' /\ Grows
  BY SameRows DEF Inv
<1>2. CASE \E status \in Status, body \in Bodies : Answer(r, status, body)
  BY <1>1, <1>2, AnswerReqs DEF Inv
<1>3. CASE \E x \in Request : /\ ReqOK(x, invited, uploaded, ticketCreds)
                             /\ reqs' = [reqs EXCEPT ![r] = x]
  <2>1. PICK x \in Request : /\ ReqOK(x, invited, uploaded, ticketCreds)
                             /\ reqs' = [reqs EXCEPT ![r] = x]
    BY <1>3
  <2>2. ReqOK(x, invited', uploaded', ticketCreds')
    BY <2>1 DEF tables
  <2>3. ReqsOK'
    BY <1>1, <2>1, <2>2, OneRequest DEF Inv
  <2> QED
    BY <1>1, <2>3 DEF Inv
<1> QED
  BY <1>1, <1>2, <1>3 DEF Inv

LEMMA ReceiveInv ==
    ASSUME Inv, NEW r \in Reqs, NEW op \in Ops, NEW claims \in AllClaims \cup {NoClaims},
           NEW eventId \in EventIDs \cup {Empty}, Receive(r, op, claims, eventId)
    PROVE  Inv'
<1> DEFINE known == Stored(claims.email)
           x == [op |-> op, pc |-> FirstCall[op], claims |-> claims, eventId |-> eventId,
                 ic |-> Empty, known |-> known, status |-> 0, body |-> {}]
<1>1. /\ UNCHANGED <<tables, issued, invited, uploaded>>
      /\ eventId = Empty => op \in Lists \cup {"putTicket"}
  BY DEF Receive, histories
<1>2. CASE claims = NoClaims /\ op \notin Public
  BY <1>1, <1>2, ReadInv DEF Receive, Status, Bodies
<1>3. CASE ~(claims = NoClaims /\ op \notin Public)
  <2>1. reqs' = [reqs EXCEPT ![r] = x]
    <3>1. reqs' = [reqs EXCEPT ![r] = [NoRequest EXCEPT
                !.op = op, !.pc = FirstCall[op], !.claims = claims,
                !.eventId = eventId, !.known = known]]
      BY <1>3 DEF Receive
    <3>2. \A pc, k : [NoRequest EXCEPT !.op = op, !.pc = pc, !.claims = claims,
                                      !.eventId = eventId, !.known = k]
                      = [op |-> op, pc |-> pc, claims |-> claims, eventId |-> eventId,
                         ic |-> Empty, known |-> k, status |-> 0, body |-> {}]
      BY RequestStarts
    <3>3. [NoRequest EXCEPT !.op = op, !.pc = FirstCall[op], !.claims = claims,
                            !.eventId = eventId, !.known = known] = x
      BY <3>2, Zenon
    <3> QED
      BY <3>1, <3>3, Zenon
  <2>2. FirstCall[op] \in Busy /\ op # Empty /\ FirstCall[op] \notin LaterCalls
    BY BusyCalls, OpsNotEmpty DEF LaterCalls
  <2>3. known \subseteq EventIDs \cup {Empty}
    BY DEF Stored, GetAllByEmail, Inv, RowsOK, Ticket
  <2>4. \A e \in known : \E t \in ticketCreds : t.eventId = e /\ t.email = claims.email
    BY DEF Stored, GetAllByEmail
  <2>5. op = "requestTicket" => FirstCall[op] = "getTicket"
    BY BusyCalls
  <2> HIDE DEF known
  <2>6. x \in Request
    BY <1>1, <1>3, <2>2, <2>3 DEF Request, LaterCalls
  <2>7. ReqOK(x, invited, uploaded, ticketCreds)
    BY <2>2, <2>4, <2>5 DEF ReqOK, LaterCalls
  <2> HIDE DEF x
  <2> QED
    BY <1>1, <2>1, <2>6, <2>7, ReadInv
<1> QED
  BY <1>2, <1>3

\* What is known of a request for a ticket, whichever call it is about to make.
LEMMA TicketRequest ==
    ASSUME Inv, NEW r \in Reqs, reqs[r].pc \in {"getTicket"} \cup LaterCalls
    PROVE  /\ reqs[r] \in Request /\ ReqOK(reqs[r], invited, uploaded, ticketCreds)
           /\ reqs[r].pc \in Busy /\ reqs[r].op = "requestTicket"
           /\ reqs[r].eventId \in EventIDs /\ reqs[r].claims \in AllClaims
<1> DEFINE q == reqs[r]
<1>1. q \in Request /\ ReqOK(q, invited, uploaded, ticketCreds)
  BY DEF Inv, ReqsOK
<1> HIDE DEF q
<1>2. q.pc \in {"getTicket"} \cup LaterCalls
  BY DEF q
<1>3. q.pc \in Busy
  BY <1>2, BusyCalls DEF LaterCalls
<1>4. q.op \in Ops
  BY <1>1, <1>3 DEF Request
<1>5. q.op = "requestTicket"
  BY <1>1, <1>2, <1>3, <1>4, BusyCalls DEF ReqOK, LaterCalls
<1>6. q.eventId \in EventIDs /\ q.claims \in AllClaims
  BY <1>1, <1>3, <1>5 DEF Request, Lists, Public
<1> QED
  BY <1>1, <1>3, <1>5, <1>6 DEF q

\* Such a request as it goes on to a later call.
LEMMA NextCall ==
    ASSUME NEW q \in Request, NEW inv, NEW up, NEW creds, ReqOK(q, inv, up, creds),
           q.pc \in Busy, q.op = "requestTicket",
           q.eventId \in EventIDs, q.claims \in AllClaims, q.eventId \notin q.known,
           NEW pc \in LaterCalls, NEW ic \in Idents \cup {Empty},
           pc \in {"readUser", "sign"}
             => [eventId |-> q.eventId, email |-> q.claims.email] \in inv,
           pc = "sign" => ic \in Idents /\ Uploaded(q.claims.id, ic, up)
    PROVE  LET x == [op |-> q.op, pc |-> pc, claims |-> q.claims, eventId |-> q.eventId,
                     ic |-> ic, known |-> q.known, status |-> q.status, body |-> q.body]
           IN  x \in Request /\ ReqOK(x, inv, up, creds)
<1> DEFINE x == [op |-> q.op, pc |-> pc, claims |-> q.claims, eventId |-> q.eventId,
                 ic |-> ic, known |-> q.known, status |-> q.status, body |-> q.body]
<1>1. pc \in Busy
  BY BusyCalls DEF LaterCalls
<1>2. x \in Request
  BY <1>1, RequestFields DEF Request, Status, Bodies
<1>3. ReqOK(x, inv, up, creds)
  BY <1>1 DEF ReqOK
<1> QED
  BY <1>2, <1>3

LEMMA CheckTicketInv ==
    ASSUME Inv, NEW r \in Reqs, CheckTicket(r)
    PROVE  Inv'
<1> DEFINE q == reqs[r]
           rows == GetByEventIdAndEmail(ticketCreds, EventID(r), UserEmail(r))
           x == [op |-> q.op, pc |-> "getRegistration", claims |-> q.claims,
                 eventId |-> q.eventId, ic |-> q.ic, known |-> q.known,
                 status |-> q.status, body |-> q.body]
<1>1. UNCHANGED <<invited, uploaded>> /\ q.pc = "getTicket"
  BY DEF CheckTicket, At, histories
<1>2. CASE Fail(r)
  BY <1>1, <1>2, FailInv
<1>3. CASE rows = {} /\ Goto(r, "getRegistration") /\ UNCHANGED <<tables, issued>>
  <2>1. /\ q \in Request /\ ReqOK(q, invited, uploaded, ticketCreds) /\ q.pc \in Busy
        /\ q.op = "requestTicket" /\ q.eventId \in EventIDs /\ q.claims \in AllClaims
    BY <1>1, TicketRequest
  <2>2. q.eventId \notin q.known
    BY <1>3, <2>1 DEF ReqOK, GetByEventIdAndEmail, EventID, UserEmail
  <2>3. "getRegistration" \in LaterCalls /\ "getRegistration" \notin {"readUser", "sign"}
    BY DEF LaterCalls
  <2>4. q.ic \in Idents \cup {Empty}
    BY <2>1 DEF Request
  <2>5. [q EXCEPT !.pc = "getRegistration"] = x
    BY <2>1, RequestGoesOn
  <2>6. reqs' = [reqs EXCEPT ![r] = [q EXCEPT !.pc = "getRegistration"]]
    BY <1>3 DEF Goto
  <2> HIDE DEF q
  <2>7. x \in Request /\ ReqOK(x, invited, uploaded, ticketCreds)
    BY <2>1, <2>2, <2>3, <2>4, NextCall
  <2> HIDE DEF x
  <2> QED
    BY <1>1, <1>3, <2>5, <2>6, <2>7, ReadInv
<1>4. CASE Answer(r, 400, {}) /\ UNCHANGED <<tables, issued>>
  BY <1>1, <1>4, ReadInv DEF Status, Bodies
<1> QED
  BY <1>2, <1>3, <1>4 DEF CheckTicket

LEMMA CheckRegistrationInv ==
    ASSUME Inv, NEW r \in Reqs, CheckRegistration(r)
    PROVE  Inv'
<1> DEFINE q == reqs[r]
           rows == GetOneByEventIdAndEmail(registrations, EventID(r), UserEmail(r))
           x == [op |-> q.op, pc |-> "readUser", claims |-> q.claims,
                 eventId |-> q.eventId, ic |-> q.ic, known |-> q.known,
                 status |-> q.status, body |-> q.body]
<1>1. UNCHANGED <<invited, uploaded>> /\ q.pc = "getRegistration"
  BY DEF CheckRegistration, At, histories
<1>2. CASE Fail(r)
  BY <1>1, <1>2, FailInv
<1>3. CASE rows # {} /\ Goto(r, "readUser") /\ UNCHANGED <<tables, issued>>
  <2>1. /\ q \in Request /\ ReqOK(q, invited, uploaded, ticketCreds) /\ q.pc \in Busy
        /\ q.op = "requestTicket" /\ q.eventId \in EventIDs /\ q.claims \in AllClaims
    BY <1>1, TicketRequest DEF LaterCalls
  <2>2. q.eventId \notin q.known
    BY <1>1, <2>1 DEF ReqOK
  <2>3. "readUser" \in LaterCalls /\ q.ic \in Idents \cup {Empty}
    BY <2>1 DEF LaterCalls, Request
  <2>4. PICK g \in registrations : g.eventId = q.eventId /\ g.email = q.claims.email
    BY <1>3 DEF GetOneByEventIdAndEmail, EventID, UserEmail
  <2>5. [eventId |-> q.eventId, email |-> q.claims.email] \in invited
    BY <2>4 DEF Inv, RowsOK, Registration
  <2>6. [q EXCEPT !.pc = "readUser"] = x
    BY <2>1, RequestGoesOn
  <2>7. reqs' = [reqs EXCEPT ![r] = [q EXCEPT !.pc = "readUser"]]
    BY <1>3 DEF Goto
  <2> HIDE DEF q
  <2>8. x \in Request /\ ReqOK(x, invited, uploaded, ticketCreds)
    BY <2>1, <2>2, <2>3, <2>5, NextCall
  <2> HIDE DEF x
  <2> QED
    BY <1>1, <1>3, <2>6, <2>7, <2>8, ReadInv
<1>4. CASE Answer(r, 400, {}) /\ UNCHANGED <<tables, issued>>
  BY <1>1, <1>4, ReadInv DEF Status, Bodies
<1> QED
  BY <1>2, <1>3, <1>4 DEF CheckRegistration

\* A row of the account named in the claims holds a commitment which that
\* account uploaded.
LEMMA RowOfClaims ==
    ASSUME Inv, NEW claims \in AllClaims, NEW u \in GetUserByID(users, claims.id),
           u.identityCommitment # Empty
    PROVE  /\ u.identityCommitment \in Idents
           /\ Uploaded(claims.id, u.identityCommitment, uploaded)
<1>1. u \in users /\ u.id = claims.id
  BY DEF GetUserByID
<1>2. u \in UserRow(IDs, Addresses, Idents)
      /\ Uploaded(u.id, u.identityCommitment, uploaded)
  BY <1>1 DEF Inv, RowsOK, UsersOwn
<1>3. u.identityCommitment \in Idents
  BY <1>2 DEF UserRow
<1> QED
  BY <1>1, <1>2, <1>3

LEMMA ReadUserInv ==
    ASSUME Inv, NEW r \in Reqs, ReadUser(r)
    PROVE  Inv'
<1> DEFINE q == reqs[r]
           x(ic) == [op |-> q.op, pc |-> "sign", claims |-> q.claims,
                     eventId |-> q.eventId, ic |-> ic, known |-> q.known,
                     status |-> q.status, body |-> q.body]
<1>1. UNCHANGED <<invited, uploaded>> /\ q.pc = "readUser"
  BY DEF ReadUser, At, histories
<1>2. CASE Fail(r)
  BY <1>1, <1>2, FailInv
<1>3. CASE UNCHANGED <<tables, issued>>
           /\ \E u \in GetUserByID(users, q.claims.id) :
                 u.identityCommitment # Empty
                 /\ reqs' = [reqs EXCEPT ![r].pc = "sign", ![r].ic = u.identityCommitment]
  <2>1. /\ q \in Request /\ ReqOK(q, invited, uploaded, ticketCreds) /\ q.pc \in Busy
        /\ q.op = "requestTicket" /\ q.eventId \in EventIDs /\ q.claims \in AllClaims
    BY <1>1, TicketRequest DEF LaterCalls
  <2>2. q.eventId \notin q.known
        /\ [eventId |-> q.eventId, email |-> q.claims.email] \in invited
    BY <1>1, <2>1 DEF ReqOK
  <2>3. PICK u \in GetUserByID(users, q.claims.id) :
           u.identityCommitment # Empty
           /\ reqs' = [reqs EXCEPT ![r].pc = "sign", ![r].ic = u.identityCommitment]
    BY <1>3
  <2> DEFINE ic == u.identityCommitment
  <2>4. ic \in Idents /\ Uploaded(q.claims.id, ic, uploaded)
    BY <2>1, <2>3, RowOfClaims
  <2>5. reqs \in [Reqs -> Request]
    BY DEF Inv, ReqsOK
  <2>6. reqs' = [reqs EXCEPT ![r] = [q EXCEPT !.pc = "sign", !.ic = ic]]
    BY <2>3, <2>5
  <2>7. [q EXCEPT !.pc = "sign", !.ic = ic] = x(ic)
    BY <2>1, RequestGoesOn
  <2>8. "sign" \in LaterCalls
    BY DEF LaterCalls
  <2> HIDE DEF q, ic
  <2>9. x(ic) \in Request /\ ReqOK(x(ic), invited, uploaded, ticketCreds)
    BY <2>1, <2>2, <2>4, <2>8, NextCall
  <2> HIDE DEF x
  <2> QED
    BY <1>1, <1>3, <2>6, <2>7, <2>9, ReadInv
<1>4. CASE (Answer(r, 400, {}) \/ Answer(r, 404, {})) /\ UNCHANGED <<tables, issued>>
  <2>1. 400 \in Status /\ 404 \in Status /\ {} \in Bodies
    BY DEF Status, Bodies
  <2> QED
    BY <1>1, <1>4, <2>1, ReadInv
<1> QED
  BY <1>2, <1>3, <1>4 DEF ReadUser

LEMMA SignTicketInv ==
    ASSUME Inv, NEW r \in Reqs, SignTicket(r)
    PROVE  Inv'
<1> DEFINE q == reqs[r]
<1>1. UNCHANGED <<invited, uploaded>> /\ q.pc = "sign"
  BY DEF SignTicket, At, histories
<1>2. CASE Fail(r)
  BY <1>1, <1>2, FailInv
<1>3. ASSUME NEW c \in GenerateSignedCredential(Service.ticketCredentialContextID,
                          UserEmail(r), EventID(r), reqs[r].ic),
             issued' = issued \cup {c}, Answer(r, 201, {}), UNCHANGED tables
      PROVE  Inv'
  <2>1. /\ q \in Request /\ ReqOK(q, invited, uploaded, ticketCreds) /\ q.pc \in Busy
        /\ q.eventId \in EventIDs /\ q.claims \in AllClaims
    BY <1>1, TicketRequest DEF LaterCalls
  <2>2. Uploaded(q.claims.id, q.ic, uploaded)
        /\ [eventId |-> q.eventId, email |-> q.claims.email] \in invited
    BY <1>1, <2>1 DEF ReqOK
  <2>3. q.ic \in Idents /\ q.ic # Empty
    BY <1>1, <2>1, IdentsAssumption DEF Request
  <2>4. PICK n \in Parsed(q.ic) :
           c = [context |-> Service.ticketCredentialContextID, email |-> q.claims.email,
                attachment |-> q.eventId, chainID |-> Service.issuerChainID,
                identityCommitment |-> n]
    BY <1>3 DEF GenerateSignedCredential, UserEmail, EventID
  <2>5. q.ic \in Numerals /\ n = ValueOf[q.ic] /\ n \in Int
    BY <2>3, <2>4, ValuesAssumption DEF Parsed
  <2>6. c.identityCommitment = n /\ c.email = q.claims.email /\ c.attachment = q.eventId
    BY <2>4
  <2>7. q.claims.email \in Addresses
    BY <2>1 DEF Addresses
  <2> HIDE DEF q
  <2>8. NamesUpload(c, uploaded, AllClaims)
    <3>1. PICK p \in uploaded : p.id = q.claims.id /\ p.commitment = q.ic
      BY <2>2 DEF Uploaded
    <3> QED
      BY <2>1, <2>5, <2>6, <3>1 DEF NamesUpload
  <2>9. IssuedOK'
    BY <1>1, <1>3, <2>1, <2>2, <2>5, <2>6, <2>7, <2>8
       DEF Inv, IssuedOK, TicketsForInvitedOnly, TicketsBindUploader
  <2>10. RowsOK' /\ Grows
    BY <1>1, <1>3 DEF Inv, RowsOK, UsersOwn, TicketsOwn, Grows, tables
  <2>11. 201 \in Status /\ {} \in Bodies
    BY DEF Status, Bodies
  <2>12. ReqsOK'
    BY <1>3, <2>10, <2>11, AnswerReqs DEF Inv
  <2> QED
    BY <2>9, <2>10, <2>12 DEF Inv
<1> QED
  BY <1>2, <1>3 DEF SignTicket

\* The upsert keeps a row for every pair that had one.
LEMMA PutTicketCredentialInv ==
    ASSUME Inv, NEW r \in Reqs, PutTicketCredential(r)
    PROVE  Inv'
<1> DEFINE q == reqs[r]
           row == [eventId |-> q.eventId, email |-> q.claims.email, data |-> q.claims.email]
<1>1. UNCHANGED <<invited, uploaded>> /\ q.pc = "putTicket"
  BY DEF PutTicketCredential, At, histories
<1>2. CASE Fail(r)
  BY <1>1, <1>2, FailInv
<1>3. CASE /\ ticketCreds' = CreateOrUpdateTicketCredential(
                  ticketCreds, EventID(r), UserEmail(r), UserEmail(r))
           /\ Answer(r, 201, {}) \/ Answer(r, 500, {})
           /\ UNCHANGED <<users, registrations, issued>>
  <2>1. q \in Request /\ ReqOK(q, invited, uploaded, ticketCreds)
    BY DEF Inv, ReqsOK
  <2>2. q.pc \in Busy /\ q.op \in Ops
    BY <1>1, <2>1, BusyCalls DEF Request
  <2>3. q.op = "putTicket"
    BY <1>1, <2>1, <2>2, BusyCalls DEF ReqOK, LaterCalls
  <2>4. q.eventId \in EventIDs \cup {Empty} /\ q.claims \in AllClaims
    BY <2>1, <2>2, <2>3 DEF Request, Public
  <2>5. row \in Ticket
    BY <2>4 DEF Ticket, Addresses
  <2>6. ticketCreds' = (ticketCreds \ {t \in ticketCreds :
                            t.eventId = q.eventId /\ t.email = q.claims.email}) \cup {row}
    BY <1>3 DEF CreateOrUpdateTicketCredential, GetByEventIdAndEmail, EventID, UserEmail
  <2>7. row.eventId = q.eventId /\ row.email = q.claims.email
    OBVIOUS
  <2> HIDE DEF q, row
  <2>8. TicketsOwn'
    <3>1. row.data = row.email
      BY DEF row
    <3>2. TicketsOwn
      BY DEF Inv, RowsOK
    <3> QED
      BY <2>6, <2>7, <3>1, <3>2 DEF TicketsOwn
  <2>9. RowsOK' /\ IssuedOK'
    BY <1>1, <1>3, <2>5, <2>6, <2>8 DEF Inv, RowsOK, IssuedOK, UsersOwn,
                                  TicketsForInvitedOnly, TicketsBindUploader
  <2>10. ASSUME NEW t \in ticketCreds
        PROVE  \E v \in ticketCreds' : v.eventId = t.eventId /\ v.email = t.email
    <3>1. CASE t.eventId = q.eventId /\ t.email = q.claims.email
      BY <2>6, <2>7, <3>1
    <3>2. CASE ~(t.eventId = q.eventId /\ t.email = q.claims.email)
      BY <2>6, <3>2
    <3> QED
      BY <3>1, <3>2
  <2>11. Grows
    BY <1>1, <2>10 DEF Grows
  <2>12. 201 \in Status /\ 500 \in Status /\ {} \in Bodies
    BY DEF Status, Bodies
  <2>13. ReqsOK'
    BY <1>3, <2>11, <2>12, AnswerReqs DEF Inv
  <2> QED
    BY <2>9, <2>13 DEF Inv
<1> QED
  BY <1>2, <1>3 DEF PutTicketCredential

LEMMA ReadsInv ==
    ASSUME Inv, NEW r \in Reqs, GetTicketCredentials(r) \/ GetEvent(r) \/ GetEvents(r)
    PROVE  Inv'
<1>1. UNCHANGED <<invited, uploaded>>
  BY DEF GetTicketCredentials, GetEvent, GetEvents, histories
<1>2. CASE Fail(r)
  BY <1>1, <1>2, FailInv
<1>3. GetAllByEmail(ticketCreds, UserEmail(r)) \in Bodies
  BY DEF Inv, RowsOK, GetAllByEmail, Bodies
<1>4. GetEventByID(Events, EventID(r)) \in Bodies /\ ListEvents(Events) \in Bodies
  BY EventsAssumption DEF GetEventByID, ListEvents, Bodies
<1>5. ASSUME NEW body \in Bodies, Answer(r, 200, body), UNCHANGED <<tables, issued>>
      PROVE  Inv'
  BY <1>1, <1>5, ReadInv DEF Status
<1> QED
  BY <1>2, <1>3, <1>4, <1>5 DEF GetTicketCredentials, GetEvent, GetEvents

LEMMA StepInv ==
    ASSUME Inv, NEW r \in Reqs, Step(r)
    PROVE  Inv'
BY CheckTicketInv, CheckRegistrationInv, ReadUserInv, SignTicketInv,
   PutTicketCredentialInv, ReadsInv DEF Step

-----------------------------------------------------------------------------
(* What happens around the handlers                                        *)

\* A step that leaves every request where it is, and takes nothing away that a
\* request relies on.
LEMMA OtherReqs ==
    ASSUME ReqsOK, Grows, UNCHANGED reqs
    PROVE  ReqsOK'
BY ReqOKGrows DEF ReqsOK

\* More uploads take no credential's uploader away.
LEMMA MoreUploads ==
    ASSUME NEW c, NEW up, NEW more, up \subseteq more, NamesUpload(c, up, AllClaims)
    PROVE  NamesUpload(c, more, AllClaims)
BY DEF NamesUpload

LEMMA UpdateIdentityInv ==
    ASSUME Inv, NEW a \in Accounts, NEW i \in Idents \cup {Empty}, UpdateIdentity(a, i)
    PROVE  Inv'
<1> DEFINE upd == [identityCommitment |-> i, encryptedInternalNullifier |-> i,
                   encryptedIdentitySecret |-> i]
           new(u) == [id |-> u.id, email |-> u.email, identityCommitment |-> i,
                      encryptedInternalNullifier |-> i, encryptedIdentitySecret |-> i]
<1>1. /\ uploaded' = uploaded \cup NewUpload(a.id, i) /\ a.id \in IDs
      /\ i # Empty => Uploaded(a.id, i, uploaded')
  BY DEF UpdateIdentity, NewUpload, Uploaded, IDs, AllClaims
<1>2. UNCHANGED <<registrations, ticketCreds, issued, reqs, invited>>
  BY DEF UpdateIdentity
<1>3. users \in SUBSET UserRow(IDs, Addresses, Idents) /\ UsersOwn
  BY DEF Inv, RowsOK
<1>4. \A v : v \in UpdateUser(users, a.id, upd) <=>
        \E u \in users :
           v = IF u.id # a.id THEN u
               ELSE [id |-> u.id, email |-> u.email,
                     identityCommitment |-> upd.identityCommitment,
                     encryptedInternalNullifier |-> upd.encryptedInternalNullifier,
                     encryptedIdentitySecret |-> upd.encryptedIdentitySecret]
  BY <1>3, UpdateUserRows
<1>5. \A v \in users' : \E u \in users : v = IF u.id # a.id THEN u ELSE new(u)
  BY <1>4 DEF UpdateIdentity
<1>6. ASSUME NEW v \in users'
      PROVE  /\ v \in UserRow(IDs, Addresses, Idents)
             /\ v.identityCommitment # Empty
                   => Uploaded(v.id, v.identityCommitment, uploaded')
  <2>1. PICK u \in users : v = IF u.id # a.id THEN u ELSE new(u)
    BY <1>5
  <2>2. u \in UserRow(IDs, Addresses, Idents)
        /\ (u.identityCommitment # Empty => Uploaded(u.id, u.identityCommitment, uploaded))
    BY <1>3 DEF UsersOwn
  <2>3. CASE u.id # a.id
    BY <1>1, <2>1, <2>2, <2>3 DEF Uploaded
  <2>4. CASE u.id = a.id
    <3>1. v = new(u)
      BY <2>1, <2>4
    <3>2. v \in UserRow(IDs, Addresses, Idents)
      BY <2>2, <3>1 DEF UserRow
    <3>3. v.identityCommitment = i /\ v.id = a.id
      BY <2>4, <3>1
    <3> QED
      BY <1>1, <3>2, <3>3
  <2> QED
    BY <2>3, <2>4
<1>7. uploaded' \subseteq [id : IDs, commitment : Idents]
  BY <1>1 DEF NewUpload, Inv, RowsOK
<1>8. RowsOK' /\ Grows
  BY <1>1, <1>2, <1>6, <1>7 DEF Inv, RowsOK, UsersOwn, TicketsOwn, Grows
<1>9. IssuedOK'
  BY <1>1, <1>2, MoreUploads DEF Inv, IssuedOK, TicketsForInvitedOnly, TicketsBindUploader
<1> QED
  BY <1>2, <1>8, <1>9, OtherReqs DEF Inv

\* The row of a new account holds no commitment.
LEMMA SignUpInv ==
    ASSUME Inv, NEW a \in Accounts, SignUp(a)
    PROVE  Inv'
<1> DEFINE row == NewUser(a.id, a.email)
<1>1. row \in UserRow(IDs, Addresses, Idents) /\ row.identityCommitment = Empty
  BY DEF NewUser, UserRow, IDs, Addresses, AllClaims
<1>2. /\ users' = users \cup {row}
      /\ UNCHANGED <<registrations, ticketCreds, issued, reqs, invited, uploaded>>
  BY DEF SignUp, histories
<1> HIDE DEF row
<1>3. RowsOK' /\ IssuedOK' /\ Grows
  BY <1>1, <1>2 DEF Inv, RowsOK, IssuedOK, UsersOwn, TicketsOwn, TicketsForInvitedOnly,
                    TicketsBindUploader, Grows
<1> QED
  BY <1>2, <1>3, OtherReqs DEF Inv

\* The claims a request may come in with are those of a row, or of no row.
LEMMA BearersAreClaims == Bearers \subseteq AllClaims \cup {NoClaims}
BY DEF Bearers, AllClaims

LEMMA OrganizerInv ==
    ASSUME Inv, NEW reg \in Registration, Register(reg) \/ CancelRegistration(reg)
    PROVE  Inv'
<1>1. RowsOK' /\ IssuedOK' /\ Grows
  BY DEF Inv, RowsOK, IssuedOK, UsersOwn, TicketsOwn, TicketsForInvitedOnly, TicketsBindUploader,
         Grows, Register, CancelRegistration, histories
<1>2. UNCHANGED reqs
  BY DEF Register, CancelRegistration
<1> QED
  BY <1>1, <1>2, OtherReqs DEF Inv

LEMMA BackendCrashInv ==
    ASSUME Inv, BackendCrash
    PROVE  Inv'
<1>1. RowsOK' /\ IssuedOK' /\ Grows
  BY SameRows DEF Inv, BackendCrash, histories
<1>2. NoRequest \in Request /\ ReqOK(NoRequest, invited', uploaded', ticketCreds')
  BY BusyCalls, OpsNotEmpty DEF NoRequest, Request, ReqOK
<1>3. ReqsOK'
  BY <1>2 DEF BackendCrash, ReqsOK
<1> QED
  BY <1>1, <1>3 DEF Inv

LEMMA NextInv == Inv /\ [Next]_vars => Inv'
<1> SUFFICES ASSUME Inv, [Next]_vars PROVE Inv'
  OBVIOUS
<1>1. CASE UNCHANGED vars
  <2>1. RowsOK' /\ IssuedOK' /\ Grows /\ UNCHANGED reqs
    BY <1>1, SameRows DEF Inv, vars, tables, histories
  <2> QED
    BY <2>1, OtherReqs DEF Inv
<1>2. CASE \E r \in Reqs, op \in Ops, claims \in AllClaims \cup {NoClaims},
              id \in EventIDs \cup {Empty} : Receive(r, op, claims, id)
  BY <1>2, ReceiveInv
<1>3. CASE \E r \in Reqs : Step(r)
  BY <1>3, StepInv
<1>4. CASE \E a \in Accounts, i \in Idents \cup {Empty} : UpdateIdentity(a, i)
  BY <1>4, UpdateIdentityInv
<1>5. CASE \E reg \in Registration : Register(reg) \/ CancelRegistration(reg)
  BY <1>5, OrganizerInv
<1>6. CASE BackendCrash
  BY <1>6, BackendCrashInv
<1>7. CASE \E a \in Accounts : SignUp(a)
  BY <1>7, SignUpInv
<1> QED
  BY <1>1, <1>2, <1>3, <1>4, <1>5, <1>6, <1>7, BearersAreClaims DEF Next

LEMMA Invariance == Spec => []Inv
<1> QED
  BY InitInv, NextInv, PTL DEF Spec

-----------------------------------------------------------------------------
(* The results                                                             *)

\* The variables keep their types, and a handler that is about to make a call
\* has the claims, the event and the commitment that the call needs.
THEOREM TypeCorrect == Spec => []TypeOK
<1>1. Inv => TypeOK
  BY DEF Inv, RowsOK, IssuedOK, ReqsOK, TypeOK
<1> QED
  BY <1>1, Invariance, PTL

\* Every ticket the issuer signed is for an address that was registered for the
\* event at some time, whatever ran between the four calls of the request.
THEOREM InvitedOnly == Spec => []TicketsForInvitedOnly
<1>1. Inv => TicketsForInvitedOnly
  BY DEF Inv, IssuedOK
<1> QED
  BY <1>1, Invariance, PTL

\* Every ticket names the number of a text that an account of its address
\* uploaded, whoever else uploaded it.
THEOREM BindUploader == Spec => []TicketsBindUploader
<1>1. Inv => TicketsBindUploader
  BY DEF Inv, IssuedOK
<1> QED
  BY <1>1, Invariance, PTL

\* What a step of the requests does to each of them.
LEMMA OthersStay ==
    ASSUME Inv, NEW r \in Reqs,
           \/ Step(r)
           \/ \E op \in Ops, claims \in AllClaims \cup {NoClaims},
                 id \in EventIDs \cup {Empty} : Receive(r, op, claims, id)
    PROVE  \A q \in Reqs : q # r => reqs'[q] = reqs[q]
<1>1. reqs \in [Reqs -> Request]
  BY DEF Inv, ReqsOK
<1>2. CASE Step(r)
  BY <1>1, <1>2 DEF Step, CheckTicket, CheckRegistration, ReadUser, SignTicket,
        PutTicketCredential, GetTicketCredentials, GetEvent, GetEvents,
        Fail, Answer, Goto
<1>3. CASE \E op \in Ops, claims \in AllClaims \cup {NoClaims},
              id \in EventIDs \cup {Empty} : Receive(r, op, claims, id)
  BY <1>1, <1>3 DEF Receive, Answer
<1> QED
  BY <1>2, <1>3

\* A request that is running gets its answer from a call of its own.
LEMMA AnsweredByItsCall ==
    ASSUME Inv, [Next]_vars, NEW r \in Reqs, reqs[r].op # Empty, reqs'[r].status # 0
    PROVE  Step(r) /\ reqs[r].pc \in Busy /\ reqs[r].op \in Ops
           /\ ReqOK(reqs[r], invited, uploaded, ticketCreds)
<1>1. reqs \in [Reqs -> Request] /\ reqs[r] \in Request
      /\ ReqOK(reqs[r], invited, uploaded, ticketCreds)
  BY DEF Inv, ReqsOK
<1>2. reqs[r].pc \in Busy /\ reqs[r].status = 0
  BY <1>1 DEF ReqOK
<1>3. reqs[r].op \in Ops
  BY <1>1, <1>2 DEF Request
<1>4. reqs'[r] # reqs[r]
  BY <1>2
<1>5. reqs' # reqs
  BY <1>4
<1>6. ~BackendCrash
  BY DEF BackendCrash, NoRequest
<1>7. PICK s \in Reqs :
         \/ Step(s)
         \/ \E op \in Ops, claims \in AllClaims \cup {NoClaims},
               id \in EventIDs \cup {Empty} : Receive(s, op, claims, id)
  BY <1>5, <1>6, BearersAreClaims
     DEF Next, vars, SignUp, UpdateIdentity, Register, CancelRegistration
<1>8. s = r
  BY <1>4, <1>7, OthersStay
<1>9. ~\E op \in Ops, claims \in AllClaims \cup {NoClaims},
          id \in EventIDs \cup {Empty} : Receive(r, op, claims, id)
  BY <1>2 DEF Receive, Free
<1> QED
  BY <1>1, <1>2, <1>3, <1>7, <1>8, <1>9

\* A request for a ticket that was stored when it came in is refused.
THEOREM NotReissued == Spec => StoredTicketNotReissued
<1>1. ASSUME Inv, [Next]_vars, NEW r \in Reqs,
             reqs[r].op = "requestTicket", reqs[r].eventId \in reqs[r].known
      PROVE  reqs'[r].status # 201
  <2> SUFFICES ASSUME reqs'[r].status = 201 PROVE FALSE
    OBVIOUS
  <2>1. reqs[r].op # Empty /\ reqs \in [Reqs -> Request] /\ reqs[r] \in Request
    BY <1>1 DEF Empty, Inv, ReqsOK
  <2>2. Step(r) /\ ReqOK(reqs[r], invited, uploaded, ticketCreds)
    BY <1>1, <2>1, AnsweredByItsCall
  <2>3. reqs[r].pc = "getTicket" /\ reqs[r].status = 0
    BY <1>1, <2>2, BusyCalls DEF ReqOK
  <2>4. CheckTicket(r)
    BY <2>2, <2>3 DEF Step, At, CheckRegistration, ReadUser, SignTicket,
       PutTicketCredential, GetTicketCredentials, GetEvent, GetEvents
  <2>5. CASE Goto(r, "getRegistration")
    <3>1. reqs'[r] = [reqs[r] EXCEPT !.pc = "getRegistration"]
      BY <2>1, <2>5 DEF Goto
    <3>2. DOMAIN reqs[r] = {"op", "pc", "claims", "eventId", "ic", "known", "status", "body"}
      BY <2>1 DEF Request
    <3>3. reqs'[r].status = reqs[r].status
      BY <3>1, <3>2
    <3> QED
      BY <2>3, <3>3
  <2>6. CASE Answer(r, 400, {}) \/ Answer(r, 500, {})
    <3>1. reqs'[r] = Done(400, {}) \/ reqs'[r] = Done(500, {})
      BY <2>1, <2>6, AnswerIsDone
    <3> QED
      BY <3>1 DEF Done
  <2> QED
    BY <2>4, <2>5, <2>6 DEF CheckTicket, Fail
<1>2. Inv /\ [Next]_vars
        => [\A r \in Reqs :
              reqs[r].op = "requestTicket" /\ reqs[r].eventId \in reqs[r].known
                 => reqs'[r].status # 201]_vars
  BY <1>1
<1> QED
  BY <1>2, Invariance, PTL DEF Spec, StoredTicketNotReissued

\* An attendee's list has its own tickets only, one for an event, and all those
\* that were stored when the request came in.
THEOREM TicketsListed == Spec => StoredTicketsAreListed
<1>1. ASSUME Inv, [Next]_vars, NEW r \in Reqs,
             reqs[r].op = "listTickets", reqs'[r].status = 200
      PROVE  /\ \A e \in reqs[r].known : \E t \in reqs'[r].body : t.eventId = e
             /\ \A t \in reqs'[r].body : t.data = UserEmail(r) /\ t.email = UserEmail(r)
             /\ \A t, v \in reqs'[r].body : t.eventId = v.eventId => t = v
  <2>1. reqs[r].op # Empty /\ reqs \in [Reqs -> Request]
    BY <1>1 DEF Empty, Inv, ReqsOK
  <2>2. Step(r) /\ ReqOK(reqs[r], invited, uploaded, ticketCreds) /\ reqs[r].pc \in Busy
    BY <1>1, <2>1, AnsweredByItsCall
  <2>3. reqs[r].pc = "listTickets"
    BY <1>1, <2>2, BusyCalls DEF ReqOK
  <2>4. GetTicketCredentials(r)
    BY <2>2, <2>3 DEF Step, At, CheckTicket, CheckRegistration, ReadUser, SignTicket,
       PutTicketCredential, GetEvent, GetEvents
  <2>5. ~Answer(r, 500, {})
    <3> SUFFICES ASSUME Answer(r, 500, {}) PROVE FALSE
      OBVIOUS
    <3>1. reqs'[r] = Done(500, {})
      BY <2>1, AnswerIsDone
    <3> QED
      BY <1>1, <3>1 DEF Done
  <2> DEFINE own == GetAllByEmail(ticketCreds, UserEmail(r))
  <2>6. Answer(r, 200, own)
    BY <2>4, <2>5 DEF GetTicketCredentials, Fail
  <2> HIDE DEF own
  <2>7. reqs'[r] = Done(200, own)
    BY <2>1, <2>6, AnswerIsDone
  <2>8. reqs'[r].body = own
    BY <2>7 DEF Done
  <2>9. \A e \in reqs[r].known : \E t \in own : t.eventId = e
    BY <2>2 DEF ReqOK, own, GetAllByEmail, UserEmail
  <2>10. TicketsOwn
    BY <1>1 DEF Inv, RowsOK
  <2>11. \A t \in own : t \in ticketCreds /\ t.email = UserEmail(r)
    BY DEF own, GetAllByEmail
  <2>12. \A t \in own : t.data = UserEmail(r) /\ t.email = UserEmail(r)
    BY <2>10, <2>11 DEF TicketsOwn
  <2>13. \A t, v \in own : t.eventId = v.eventId => t = v
    BY <2>10, <2>11 DEF TicketsOwn
  <2> QED
    BY <2>8, <2>9, <2>12, <2>13
<1>2. Inv /\ [Next]_vars
        => [\A r \in Reqs :
              reqs[r].op = "listTickets" /\ reqs'[r].status = 200
                 => /\ \A e \in reqs[r].known : \E t \in reqs'[r].body : t.eventId = e
                    /\ \A t \in reqs'[r].body :
                          t.data = UserEmail(r) /\ t.email = UserEmail(r)
                    /\ \A t, v \in reqs'[r].body : t.eventId = v.eventId => t = v]_vars
  BY <1>1
<1> QED
  BY <1>2, Invariance, PTL DEF Spec, StoredTicketsAreListed

\* A request is refused for a stored ticket only where the attendee stored one.
THEOREM OnlyOwnBlocks == Spec => OwnTicketBlocks
<1>1. ASSUME Inv, [Next]_vars, NEW r \in Reqs, At(r, "getTicket"), reqs'[r].status = 400
      PROVE  \E t \in ticketCreds : t.eventId = EventID(r) /\ t.data = UserEmail(r)
  <2>1. reqs[r].pc = "getTicket" /\ reqs \in [Reqs -> Request]
    BY <1>1 DEF At, Inv, ReqsOK
  <2>2. reqs[r].op = "requestTicket" /\ reqs[r].status = 0 /\ reqs[r] \in Request
    BY <1>1, <2>1, TicketRequest DEF ReqOK
  <2>3. Step(r)
    <3>1. reqs[r].op # Empty
      BY <2>2 DEF Empty
    <3> QED
      BY <1>1, <3>1, AnsweredByItsCall
  <2>4. CheckTicket(r)
    BY <2>1, <2>3 DEF Step, At, CheckRegistration, ReadUser, SignTicket,
       PutTicketCredential, GetTicketCredentials, GetEvent, GetEvents
  <2>5. ~Goto(r, "getRegistration")
    <3> SUFFICES ASSUME Goto(r, "getRegistration") PROVE FALSE
      OBVIOUS
    <3>1. reqs'[r] = [reqs[r] EXCEPT !.pc = "getRegistration"]
      BY <2>1 DEF Goto
    <3>2. DOMAIN reqs[r] = {"op", "pc", "claims", "eventId", "ic", "known", "status", "body"}
      BY <2>2 DEF Request
    <3>3. reqs'[r].status = reqs[r].status
      BY <3>1, <3>2
    <3> QED
      BY <1>1, <2>2, <3>3
  <2>6. ~Answer(r, 500, {})
    <3> SUFFICES ASSUME Answer(r, 500, {}) PROVE FALSE
      OBVIOUS
    <3>1. reqs'[r] = Done(500, {})
      BY <2>1, AnswerIsDone
    <3> QED
      BY <1>1, <3>1 DEF Done
  <2>7. GetByEventIdAndEmail(ticketCreds, EventID(r), UserEmail(r)) # {}
    BY <2>4, <2>5, <2>6 DEF CheckTicket, Fail
  <2>8. PICK t \in ticketCreds : t.eventId = EventID(r) /\ t.email = UserEmail(r)
    BY <2>7 DEF GetByEventIdAndEmail
  <2>9. t.data = t.email
    BY <1>1 DEF Inv, RowsOK, TicketsOwn
  <2> QED
    BY <2>8, <2>9
<1>2. Inv /\ [Next]_vars
        => [\A r \in Reqs :
              At(r, "getTicket") /\ reqs'[r].status = 400
                 => \E t \in ticketCreds :
                       t.eventId = EventID(r) /\ t.data = UserEmail(r)]_vars
  BY <1>1
<1> QED
  BY <1>2, Invariance, PTL DEF Spec, OwnTicketBlocks
=============================================================================
