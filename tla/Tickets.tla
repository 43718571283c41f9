------------------------------ MODULE Tickets -------------------------------
(***************************************************************************)
(* Events and tickets: EventsGet, EventsEventIdGet,                        *)
(* EventsEventIdRequestTicketCredentialPost, UserMeTicketCredentialPut and *)
(* UserMeTicketCredentialsGet of APIService, with the tables they use and  *)
(* the issuer.                                                             *)
(*                                                                         *)
(* A ticket request makes four calls (ticket_credentials, registrations,   *)
(* users, issuer), each in an action of its own.  It only signs: the       *)
(* client encrypts the ticket and stores it with a PUT of its own, if it   *)
(* ever does.  The users rows change under these handlers as PUT           *)
(* /user/update of module Identity writes them (UpdateIdentity), and       *)
(* registrations as the organizer edits them, which no endpoint does.      *)
(***************************************************************************)
EXTENDS Issuance, FiniteSets

CONSTANTS
    Reqs,      \* request goroutines that may run at the same time
    Accounts,  \* [id, email] of the accounts that Signin creates
    Ghosts,    \* [id, email] of JWTs whose users row was removed by hand
    EventIDs,  \* what a client may put in place of an event's id (or Empty)
    Events     \* the ids in the events table

ASSUME EventsAssumption == Events \subseteq EventIDs /\ Empty \notin EventIDs
ASSUME AccountsAssumption ==
    /\ \A a, b \in Accounts \cup Ghosts :
          /\ a = [id |-> a.id, email |-> a.email] /\ Empty \notin {a.id, a.email}
          /\ a.id = b.id => a = b
    /\ \A a, b \in Accounts : a.email = b.email => a = b

VARIABLES
    users,          \* Postgres: the users table
    registrations,  \* Postgres: who is registered for what
    ticketCreds,    \* Postgres: the ticket_credentials table
    issued,         \* tickets the issuer signed and a client received
    reqs,           \* the handlers that run
    invited,        \* history: every registration there ever was
    uploaded        \* history: the commitments an account set its row to

tables == <<users, registrations, ticketCreds>>
histories == <<invited, uploaded>>
vars == <<tables, issued, reqs, histories>>

-----------------------------------------------------------------------------
NoClaims == [id |-> Empty, email |-> Empty]
AllClaims == Accounts \cup Ghosts
IDs == {a.id : a \in AllClaims}
Addresses == {a.email : a \in AllClaims}

\* A JWT names an account whose row sign-in had found or inserted before.
Bearers ==
    {a \in Accounts : GetUserByID(users, a.id) # {}} \cup Ghosts \cup {NoClaims}

Registration == [eventId : Events, email : Addresses]
Ticket == [eventId : EventIDs \cup {Empty}, email : Addresses, data : Addresses]

\* The first call of each operation.
FirstCall ==
    [requestTicket |-> "getTicket", putTicket |-> "putTicket",
     listTickets |-> "listTickets", getEvent |-> "getEvent",
     listEvents |-> "listEvents"]
Ops == DOMAIN FirstCall
Public == {"getEvent", "listEvents"}
Lists == {"listTickets", "listEvents"}
Busy == {FirstCall[op] : op \in Ops} \cup {"getRegistration", "readUser", "sign"}

NoRequest ==
    [op |-> Empty, pc |-> "idle", claims |-> NoClaims, eventId |-> Empty,
     ic |-> Empty, known |-> {}, status |-> 0, body |-> {}]

Free(r) == reqs[r].pc \notin Busy
At(r, pc) == reqs[r].pc = pc
UserEmail(r) == reqs[r].claims.email
EventID(r) == reqs[r].eventId

Answer(r, status, body) ==
    reqs' = [reqs EXCEPT ![r] =
                [NoRequest EXCEPT !.pc = "done", !.status = status, !.body = body]]
Goto(r, pc) == reqs' = [reqs EXCEPT ![r].pc = pc]

\* Any call may fail, which every handler answers with a 500.
Fail(r) == Answer(r, 500, {}) /\ UNCHANGED <<tables, issued>>

\* The events an address had a stored ticket for.
Stored(email) == {t.eventId : t \in GetAllByEmail(ticketCreds, email)}

-----------------------------------------------------------------------------
\* The two event handlers look at no claims, the others answer 401 without
\* them.  The lists name no event, a path names one, and the body of a PUT may
\* leave it out.  known records what was stored when the request came in.
Receive(r, op, claims, eventId) ==
    /\ Free(r)
    /\ op \in Public => claims = NoClaims
    /\ eventId = Empty => op \in Lists \cup {"putTicket"}
    /\ op \in Lists => eventId = Empty
    /\ IF claims = NoClaims /\ op \notin Public
       THEN Answer(r, 401, {})
       ELSE reqs' = [reqs EXCEPT ![r] = [NoRequest EXCEPT
                        !.op = op, !.pc = FirstCall[op], !.claims = claims,
                        !.eventId = eventId, !.known = Stored(claims.email)]]
    /\ UNCHANGED <<tables, issued, histories>>

\* A row of any age ends the request: expire_at is not looked at.
CheckTicket(r) ==
    /\ At(r, "getTicket")
    /\ \/ /\ IF GetByEventIdAndEmail(ticketCreds, EventID(r), UserEmail(r)) = {}
             THEN Goto(r, "getRegistration")
             ELSE Answer(r, 400, {})
          /\ UNCHANGED <<tables, issued>>
       \/ Fail(r)
    /\ UNCHANGED histories

CheckRegistration(r) ==
    /\ At(r, "getRegistration")
    /\ \/ /\ IF GetOneByEventIdAndEmail(registrations, EventID(r), UserEmail(r)) = {}
             THEN Answer(r, 400, {})
             ELSE Goto(r, "readUser")
          /\ UNCHANGED <<tables, issued>>
       \/ Fail(r)
    /\ UNCHANGED histories

ReadUser_AnyCommitment(r) ==  \* mutant: the empty commitment is not refused
    /\ At(r, "readUser")
    /\ \/ /\ \E u \in GetUserByID(users, reqs[r].claims.id) :
                reqs' = [reqs EXCEPT ![r].pc = "sign", ![r].ic = u.identityCommitment]
          /\ UNCHANGED <<tables, issued>>
       \/ Fail(r)
    /\ UNCHANGED histories

ReadUser(r) ==
    /\ At(r, "readUser")
    /\ \/ /\ \/ \E u \in GetUserByID(users, reqs[r].claims.id) :
                   IF u.identityCommitment = Empty
                   THEN Answer(r, 400, {})
                   ELSE reqs' = [reqs EXCEPT ![r].pc = "sign",
                                             ![r].ic = u.identityCommitment]
             \/ GetUserByID(users, reqs[r].claims.id) = {} /\ Answer(r, 404, {})
          /\ UNCHANGED <<tables, issued>>
       \/ Fail(r)
    /\ UNCHANGED histories

\* The issuer signs; nothing is stored.
SignTicket(r) ==
    /\ At(r, "sign")
    /\ \/ \E c \in GenerateSignedCredential(Service.ticketCredentialContextID,
                        UserEmail(r), EventID(r), reqs[r].ic) :
             issued' = issued \cup {c} /\ Answer(r, 201, {}) /\ UNCHANGED tables
       \/ Fail(r)
    /\ UNCHANGED histories

\* The upsert, for whatever event the client names.  The data is the client's
\* ciphertext: all the model keeps of it is who encrypted it.
PutTicketCredential(r) ==
    /\ At(r, "putTicket")
    /\ \/ /\ ticketCreds' = CreateOrUpdateTicketCredential(
                    ticketCreds, EventID(r), UserEmail(r), UserEmail(r))
          /\ Answer(r, 201, {}) \/ Answer(r, 500, {})
          /\ UNCHANGED <<users, registrations, issued>>
       \/ Fail(r)
    /\ UNCHANGED histories

GetTicketCredentials(r) ==
    /\ At(r, "listTickets")
    /\ \/ /\ Answer(r, 200, GetAllByEmail(ticketCreds, UserEmail(r)))
          /\ UNCHANGED <<tables, issued>>
       \/ Fail(r)
    /\ UNCHANGED histories

\* An id that is not in the table is an error like any other (no 404).
GetEvent(r) ==
    /\ At(r, "getEvent")
    /\ \/ /\ GetEventByID(Events, EventID(r)) # {}
          /\ Answer(r, 200, GetEventByID(Events, EventID(r)))
          /\ UNCHANGED <<tables, issued>>
       \/ Fail(r)
    /\ UNCHANGED histories

GetEvents(r) ==
    /\ At(r, "listEvents")
    /\ \/ Answer(r, 200, ListEvents(Events)) /\ UNCHANGED <<tables, issued>>
       \/ Fail(r)
    /\ UNCHANGED histories

-----------------------------------------------------------------------------
(* Around the handlers                                                     *)

\* UserLoginPost (module Signin) inserts the row of an account that logs in for
\* the first time.
SignUp(a) ==
    /\ UserKeysFree(users, a.id, a.email)
    /\ users' = users \cup {NewUser(a.id, a.email)}
    /\ UNCHANGED <<registrations, ticketCreds, issued, reqs, histories>>

\* PUT /user/update of the account lands: its commitment becomes any text, or
\* empty.  No ticket handler reads the other two columns, they move along.
UpdateIdentity(a, i) ==
    /\ GetUserByID(users, a.id) # {}
    /\ users' = UpdateUser(users, a.id,
                    [identityCommitment |-> i, encryptedInternalNullifier |-> i,
                     encryptedIdentitySecret |-> i])
    /\ uploaded' = uploaded \cup NewUpload(a.id, i)
    /\ UNCHANGED <<registrations, ticketCreds, issued, reqs, invited>>

\* The organizer edits the registrations table.
Register(reg) ==
    /\ reg \notin registrations
    /\ registrations' = registrations \cup {reg}
    /\ invited' = invited \cup {reg}
    /\ UNCHANGED <<users, ticketCreds, issued, reqs, uploaded>>

CancelRegistration(reg) ==
    /\ reg \in registrations
    /\ registrations' = registrations \ {reg}
    /\ UNCHANGED <<users, ticketCreds, issued, reqs, histories>>

\* The backend process dies: every handler stops where it is.
BackendCrash ==
    /\ \E r \in Reqs : ~Free(r)
    /\ reqs' = [r \in Reqs |-> NoRequest]
    /\ UNCHANGED <<tables, issued, histories>>

-----------------------------------------------------------------------------
Init ==
    /\ users = {}
    /\ registrations = {}
    /\ ticketCreds = {}
    /\ issued = {}
    /\ reqs = [r \in Reqs |-> NoRequest]
    /\ invited = {}
    /\ uploaded = {}

Step(r) ==
    \/ CheckTicket(r)
    \/ CheckRegistration(r)
    \/ ReadUser(r)
    \/ SignTicket(r)
    \/ PutTicketCredential(r)
    \/ GetTicketCredentials(r)
    \/ GetEvent(r)
    \/ GetEvents(r)

Next ==
    \/ \E r \in Reqs :
          \/ \E op \in Ops, claims \in Bearers, id \in EventIDs \cup {Empty} :
                Receive(r, op, claims, id)
          \/ Step(r)
    \/ \E a \in Accounts : SignUp(a) \/ \E i \in Idents \cup {Empty} : UpdateIdentity(a, i)
    \/ \E reg \in Registration : Register(reg) \/ CancelRegistration(reg)
    \/ BackendCrash

Spec == Init /\ [][Next]_vars

-----------------------------------------------------------------------------
(* Properties                                                              *)

Request ==
    {q \in [op : Ops \cup {Empty}, pc : Busy \cup {"idle", "done"},
            claims : AllClaims \cup {NoClaims}, eventId : EventIDs \cup {Empty},
            ic : Idents \cup {Empty}, known : SUBSET (EventIDs \cup {Empty}),
            status : {0, 200, 201, 400, 401, 404, 500},
            body : SUBSET (Ticket \cup EventIDs)] :
        /\ q.pc \in Busy => q.op \in Ops
        /\ q.pc \in Busy /\ q.eventId = Empty => q.op \in Lists \cup {"putTicket"}
        /\ q.pc \in Busy /\ q.op \notin Public => q.claims \in AllClaims
        /\ q.pc = "sign" => q.ic \in Idents}

\* Every variable holds values of its type, and a handler that needs claims, an
\* event or a commitment has one.
TypeOK ==
    /\ users \subseteq UserRow(IDs, Addresses, Idents)
    /\ registrations \subseteq Registration
    /\ ticketCreds \subseteq Ticket
    /\ \A c \in issued : /\ c.identityCommitment \in Int
                         /\ c.email \in Addresses /\ c.attachment \in EventIDs
    /\ reqs \in [Reqs -> Request]
    /\ invited \subseteq Registration
    /\ uploaded \subseteq [id : IDs, commitment : Idents]

\* Nobody holds a ticket for an event that the organizer never registered the
\* address for, whatever was stored, cancelled or renamed while the four calls
\* of the request ran.
TicketsForInvitedOnly ==
    \A c \in issued : [eventId |-> c.attachment, email |-> c.email] \in invited

\* A ticket names a commitment that an account of its address uploaded, though
\* address and commitment come from two places (the JWT and the users row), and
\* the row may change while the request is on its way: never what only another
\* attendee uploaded, and never the 0 that BigInt makes of a row not set.
TicketsBindUploader ==
    \A c \in issued : NamesUpload(c, uploaded, AllClaims)

\* A ticket that was stored when the request came in is refused a second time,
\* whatever other attendees store meanwhile.
StoredTicketNotReissued ==
    [][\A r \in Reqs :
         reqs[r].op = "requestTicket" /\ reqs[r].eventId \in reqs[r].known
            => reqs'[r].status # 201]_vars

\* The list an attendee gets has one ticket for every event it had stored one
\* for when the request came in, and only tickets of its own.
StoredTicketsAreListed ==
    [][\A r \in Reqs :
         reqs[r].op = "listTickets" /\ reqs'[r].status = 200
            => /\ \A e \in reqs[r].known :
                      \E t \in reqs'[r].body : t.eventId = e
               /\ \A t \in reqs'[r].body :
                      t.data = UserEmail(r) /\ t.email = UserEmail(r)
               /\ \A t, v \in reqs'[r].body : t.eventId = v.eventId => t = v]_vars

\* PUT stores a ticket for whatever event the client names, and a stored ticket
\* of any origin ends a ticket request.  All the same a request is refused for
\* a ticket that its own attendee stored, for that event: nobody can use up the
\* ticket of another.
OwnTicketBlocks ==
    [][\A r \in Reqs :
         At(r, "getTicket") /\ reqs'[r].status = 400
            => \E t \in ticketCreds :
                  t.eventId = EventID(r) /\ t.data = UserEmail(r)]_vars

-----------------------------------------------------------------------------
(* What the code says of itself, and does not keep                         *)

\* "User already has a ticket credential for this event, cannot request again":
\* no ticket is handed out for an event the attendee has a stored ticket for.
NoTicketOnceStored ==
    [][\A r \in Reqs :
         reqs[r].op = "requestTicket" /\ reqs'[r].status = 201
            => reqs[r].eventId \notin Stored(UserEmail(r))]_vars
=============================================================================
