------------------------------ MODULE Backend -------------------------------
(***************************************************************************)
(* The APIService as it runs: the identity and credential handlers and the *)
(* event and ticket handlers, of one process, over one users table.        *)
(*                                                                         *)
(* Identity is extended and Tickets instantiated.  Every step is a step of *)
(* a handler of one of the two, with UpdateIdentity of Tickets replaced by *)
(* what stands behind it, the updates of Identity; a crash stops both.     *)
(***************************************************************************)
EXTENDS Identity

CONSTANTS
    TicketReqs,       \* the goroutines of ticket and event requests
    EventIDs, Events, \* as in Tickets
    Asked, Callers    \* bounds: the operations clients ask for, with which claims

ASSUME EventsAssumption == Events \subseteq EventIDs /\ Empty \notin EventIDs

VARIABLES
    registrations, ticketCreds,  \* Postgres, as in Tickets
    tickets,     \* tickets the issuer signed and a client received
    ticketReqs,  \* the ticket and event handlers that run
    invited,     \* history, as in Tickets
    lateTickets, \* history: the ticket requests that came in after the
                 \* identity of their account was settled
    named        \* history: the commitment of every credential, of either
                 \* kind, handed out to a request that came in that late

ticketVars == <<registrations, ticketCreds, tickets, ticketReqs, invited>>
backendVars == <<vars, ticketVars, lateTickets, named>>

T == INSTANCE Tickets WITH Reqs <- TicketReqs, issued <- tickets, reqs <- ticketReqs

-----------------------------------------------------------------------------
\* What a request that is answered 201 at the issuer's call had signed.
Named(q, status, late) ==
    {[id |-> q.claims.id, commitment |-> q.ic]
     : x \in {x \in {q} : late /\ x.pc = "sign" /\ status = 201}}

IdentityReceive(r, op, claims, upd) ==
    /\ Receive(r, op, claims, upd)
    /\ UNCHANGED <<ticketVars, lateTickets, named>>

IdentityStep(r) ==
    /\ Step(r)
    /\ named' = named \cup Named(reqs[r], reqs'[r].status, reqs[r].late)
    /\ UNCHANGED <<ticketVars, lateTickets>>

TicketReceive(t, op, claims, eventId) ==
    /\ T!Receive(t, op, claims, eventId)
    /\ lateTickets' = IF Settled(claims.id) THEN lateTickets \cup {t} ELSE lateTickets \ {t}
    /\ UNCHANGED <<emailCreds, issued, reqs, saved, named>>

TicketStep(t) ==
    /\ T!Step(t)
    /\ named' = named \cup Named(ticketReqs[t], ticketReqs'[t].status, t \in lateTickets)
    /\ UNCHANGED <<emailCreds, issued, reqs, saved, lateTickets>>

Enroll(a) ==
    /\ SignUp(a)
    /\ UNCHANGED <<ticketVars, lateTickets, named>>

Organize(reg) ==
    /\ T!Register(reg) \/ T!CancelRegistration(reg)
    /\ UNCHANGED <<emailCreds, issued, reqs, saved, lateTickets, named>>

\* The handlers of both modules are goroutines of one process.
Crash ==
    /\ \/ BackendCrash
       \/ (\A r \in Reqs : Free(r)) /\ UNCHANGED vars
    /\ \/ T!BackendCrash
       \/ (\A t \in TicketReqs : T!Free(t)) /\ UNCHANGED ticketVars
    /\ UNCHANGED <<lateTickets, named>>

-----------------------------------------------------------------------------
BackendInit ==
    /\ Init
    /\ T!Init
    /\ lateTickets = {}
    /\ named = {}

\* What goroutines do, and the organizer.
Handle ==
    \/ \E r \in Reqs :
          \/ \E op \in Ops \cap Asked, claims \in Bearers \cap Callers :
                \E upd \in Uploads \cup {Blank} :
                   IdentityReceive(r, op, claims, upd)
          \/ IdentityStep(r)
    \/ \E t \in TicketReqs :
          \/ \E op \in T!Ops \cap Asked, claims \in Bearers \cap Callers,
                id \in EventIDs \cup {Empty} :
                   TicketReceive(t, op, claims, id)
          \/ TicketStep(t)
    \/ \E reg \in T!Registration : Organize(reg)

BackendNext ==
    \/ Handle
    \/ \E a \in Accounts : Enroll(a)
    \/ Crash

BackendSpec == BackendInit /\ [][BackendNext]_backendVars

-----------------------------------------------------------------------------
(* Properties                                                              *)

\* Every variable holds values of its type, and what the histories name are
\* requests, accounts and identities.
BackendTypeOK ==
    /\ TypeOK
    /\ T!TypeOK
    /\ lateTickets \subseteq TicketReqs
    /\ named \subseteq [id : IDs, commitment : Idents]

\* All credentials of an account agree: whatever it asked for after its
\* identity was settled, an email credential or a ticket of any event, names
\* one commitment, so that it can be proved to belong to one identity.
CredentialsAgree ==
    \A n, m \in named : n.id = m.id => n.commitment = m.commitment

\* ... and that is the commitment under which the account stored its email
\* credential, if it was told that it did.
CredentialsMatchStored ==
    \A n \in named :
        n.id \in saved => GetByIdentityCommitment(emailCreds, n.commitment) # {}

\* The two together, and more: an account settles for good on one identity that
\* it uploaded, and its later credentials are of that identity, or there are
\* none because the issuer cannot parse the commitment it settled on.
OneIdentityPerAccount == INSTANCE OneIdentity WITH
    Bindings <- [id : IDs, commitment : Idents],
    Signable <- Numerals,
    settled <- {[id |-> u.id, commitment |-> u.identityCommitment]
                : u \in {v \in users : Settled(v.id)}}

CredentialsOfOneIdentity == OneIdentityPerAccount!Spec

TicketsOfBackend == INSTANCE Tickets WITH
    Reqs <- TicketReqs, users <- Commitments, issued <- tickets, reqs <- ticketReqs

\* Beside the identity handlers the ticket handlers behave as module Tickets
\* says: its environment covers these handlers, so all it promises holds here.
TicketsAsAlone == TicketsOfBackend!Spec
=============================================================================
