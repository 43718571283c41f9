---------------------------- MODULE BackendProofs ----------------------------
(***************************************************************************)
(* Proofs about Backend.  What was proved of the identity handlers and of  *)
(* the ticket handlers apart holds when they run over one users table: a   *)
(* step of Backend is a step of Identity or leaves its variables alone, and*)
(* a step of Tickets for what the ticket handlers see of users.  With both *)
(* invariants, all credentials of a settled account name one commitment.   *)
(***************************************************************************)
EXTENDS Backend, IdentityProofs

TicketFacts == INSTANCE TicketsProofs WITH
    Reqs <- TicketReqs, users <- Commitments, issued <- tickets, reqs <- ticketReqs

-----------------------------------------------------------------------------
(* The users table as the ticket handlers see it                           *)

\* The rows with an id, as the ticket handlers see them.
LEMMA SeenByID ==
    ASSUME Local, NEW id
    PROVE  T!GetUserByID(Commitments, id) = {Seen(u) : u \in T!GetUserByID(users, id)}
<1>1. Commitments = {Seen(u) : u \in users}
  BY SeenRows DEF Local, RowsOK, Commitments
<1>2. \A u \in users : Seen(u).id = u.id
  BY DEF Seen
<1> QED
  BY <1>1, <1>2 DEF T!GetUserByID

\* Who may come in is the same for both.
LEMMA BearersSeen == Local => TicketsOfBackend!Bearers = Bearers
<1> SUFFICES ASSUME Local PROVE TicketsOfBackend!Bearers = Bearers
  OBVIOUS
<1>1. ASSUME NEW id
      PROVE  TicketsOfBackend!GetUserByID(Commitments, id) = {} <=> GetUserByID(users, id) = {}
  <2>1. Commitments = {Seen(u) : u \in users}
    BY SeenRows DEF Local, RowsOK, Commitments
  <2>2. \A u \in users : Seen(u).id = u.id
    BY DEF Seen
  <2> QED
    BY <2>1, <2>2 DEF TicketsOfBackend!GetUserByID, GetUserByID
<1> QED
  BY <1>1 DEF Bearers, TicketsOfBackend!Bearers, NoClaims, TicketsOfBackend!NoClaims,
     Empty, TicketsOfBackend!Empty

LEMMA SeenInit == BackendInit => TicketsOfBackend!Init
BY DEF BackendInit, Init, Commitments, T!Init, TicketsOfBackend!Init,
     T!NoRequest, TicketsOfBackend!NoRequest, T!NoClaims, TicketsOfBackend!NoClaims,
     T!Empty, TicketsOfBackend!Empty

-----------------------------------------------------------------------------
(* The steps of Tickets                                                    *)

LEMMA ReceiveSeen ==
    ASSUME NEW t \in TicketReqs, NEW op, NEW claims, NEW eventId,
           T!Receive(t, op, claims, eventId)
    PROVE  TicketsOfBackend!Receive(t, op, claims, eventId)
BY DEF T!Receive, TicketsOfBackend!Receive, T!Free, TicketsOfBackend!Free, T!Answer,
       TicketsOfBackend!Answer, T!tables, TicketsOfBackend!tables, T!histories,
       TicketsOfBackend!histories, T!Stored,
       TicketsOfBackend!Stored, T!Busy, TicketsOfBackend!Busy, T!Public,
       TicketsOfBackend!Public, T!Lists, TicketsOfBackend!Lists, T!NoClaims,
       TicketsOfBackend!NoClaims, T!NoRequest, TicketsOfBackend!NoRequest,
       T!FirstCall, TicketsOfBackend!FirstCall, T!Ops, TicketsOfBackend!Ops,
       T!GetAllByEmail, TicketsOfBackend!GetAllByEmail, T!Empty,
       TicketsOfBackend!Empty, Commitments

\* The one call that reads the users table.
LEMMA ReadUserSeen ==
    ASSUME Local, NEW t \in TicketReqs, T!ReadUser(t)
    PROVE  TicketsOfBackend!ReadUser(t)
<1> DEFINE id == ticketReqs[t].claims.id
           rows == T!GetUserByID(users, id)
           seen == T!GetUserByID(Commitments, id)
<1>1. seen = {Seen(u) : u \in rows}
  BY SeenByID
<1>2. \A u : Seen(u).identityCommitment = u.identityCommitment
  BY DEF Seen
<1>3. TicketsOfBackend!GetUserByID(Commitments, id) = seen
  BY DEF TicketsOfBackend!GetUserByID, T!GetUserByID
<1> HIDE DEF rows, seen
<1>4. rows = {} <=> seen = {}
  BY <1>1
<1>5. \A u \in rows : \E v \in seen : v.identityCommitment = u.identityCommitment
  BY <1>1, <1>2
<1>6. T!ReadUser(t) <=>
        /\ T!At(t, "readUser")
        /\ \/ /\ \/ \E u \in rows :
                       IF u.identityCommitment = T!Empty
                       THEN T!Answer(t, 400, {})
                       ELSE ticketReqs' = [ticketReqs EXCEPT ![t].pc = "sign",
                                                 ![t].ic = u.identityCommitment]
                 \/ rows = {} /\ T!Answer(t, 404, {})
              /\ UNCHANGED <<T!tables, tickets>>
           \/ T!Fail(t)
        /\ UNCHANGED T!histories
  BY DEF T!ReadUser, rows
<1>7. TicketsOfBackend!ReadUser(t) <=>
        /\ T!At(t, "readUser")
        /\ \/ /\ \/ \E u \in seen :
                       IF u.identityCommitment = T!Empty
                       THEN T!Answer(t, 400, {})
                       ELSE ticketReqs' = [ticketReqs EXCEPT ![t].pc = "sign",
                                                 ![t].ic = u.identityCommitment]
                 \/ seen = {} /\ T!Answer(t, 404, {})
              /\ UNCHANGED <<TicketsOfBackend!tables, tickets>>
           \/ TicketsOfBackend!Fail(t)
        /\ UNCHANGED T!histories
  BY <1>3 DEF TicketsOfBackend!ReadUser, T!histories, TicketsOfBackend!histories,
     T!At, TicketsOfBackend!At, T!Answer, TicketsOfBackend!Answer, T!NoRequest,
     TicketsOfBackend!NoRequest, T!NoClaims, TicketsOfBackend!NoClaims, T!Empty,
     TicketsOfBackend!Empty
<1>8. /\ UNCHANGED T!tables => UNCHANGED TicketsOfBackend!tables
      /\ T!Fail(t) => TicketsOfBackend!Fail(t)
  BY DEF T!Fail, TicketsOfBackend!Fail, T!Answer, TicketsOfBackend!Answer, T!tables,
     TicketsOfBackend!tables, T!histories, TicketsOfBackend!histories, T!NoRequest,
     TicketsOfBackend!NoRequest, T!NoClaims,
     TicketsOfBackend!NoClaims, T!Empty, TicketsOfBackend!Empty, Commitments
<1> QED
  BY <1>4, <1>5, <1>6, <1>7, <1>8

\* The other calls do not look at it.
LEMMA StepSeen ==
    ASSUME Local, NEW t \in TicketReqs, T!Step(t)
    PROVE  TicketsOfBackend!Step(t)
<1>1. T!CheckTicket(t) => TicketsOfBackend!CheckTicket(t)
  BY DEF T!CheckTicket, TicketsOfBackend!CheckTicket, T!GetByEventIdAndEmail,
     TicketsOfBackend!GetByEventIdAndEmail, T!At, TicketsOfBackend!At, T!Fail,
     TicketsOfBackend!Fail, T!Answer, TicketsOfBackend!Answer, T!Goto,
     TicketsOfBackend!Goto, T!tables, TicketsOfBackend!tables, T!histories,
     TicketsOfBackend!histories, T!NoRequest,
     TicketsOfBackend!NoRequest, T!NoClaims, TicketsOfBackend!NoClaims, T!Empty,
     TicketsOfBackend!Empty, T!EventID, TicketsOfBackend!EventID, T!UserEmail,
     TicketsOfBackend!UserEmail, Commitments
<1>2. T!CheckRegistration(t) => TicketsOfBackend!CheckRegistration(t)
  BY DEF T!CheckRegistration, TicketsOfBackend!CheckRegistration,
     T!GetOneByEventIdAndEmail, TicketsOfBackend!GetOneByEventIdAndEmail, T!At,
     TicketsOfBackend!At, T!Fail, TicketsOfBackend!Fail, T!Answer,
     TicketsOfBackend!Answer, T!Goto, TicketsOfBackend!Goto, T!tables,
     TicketsOfBackend!tables, T!histories, TicketsOfBackend!histories, T!NoRequest,
     TicketsOfBackend!NoRequest, T!NoClaims,
     TicketsOfBackend!NoClaims, T!Empty, TicketsOfBackend!Empty, T!EventID,
     TicketsOfBackend!EventID, T!UserEmail, TicketsOfBackend!UserEmail, Commitments
<1>3. T!SignTicket(t) => TicketsOfBackend!SignTicket(t)
  BY DEF T!SignTicket, TicketsOfBackend!SignTicket, T!GenerateSignedCredential,
     TicketsOfBackend!GenerateSignedCredential, T!Parsed, TicketsOfBackend!Parsed,
     T!Service, TicketsOfBackend!Service,
     T!NewAPIService, TicketsOfBackend!NewAPIService, T!At, TicketsOfBackend!At,
     T!Fail, TicketsOfBackend!Fail, T!Answer, TicketsOfBackend!Answer, T!Goto,
     TicketsOfBackend!Goto, T!tables, TicketsOfBackend!tables, T!histories,
     TicketsOfBackend!histories, T!NoRequest,
     TicketsOfBackend!NoRequest, T!NoClaims, TicketsOfBackend!NoClaims, T!Empty,
     TicketsOfBackend!Empty, T!EventID, TicketsOfBackend!EventID, T!UserEmail,
     TicketsOfBackend!UserEmail, Commitments
<1>4. T!PutTicketCredential(t) => TicketsOfBackend!PutTicketCredential(t)
  BY DEF T!PutTicketCredential, TicketsOfBackend!PutTicketCredential,
     T!CreateOrUpdateTicketCredential,
     TicketsOfBackend!CreateOrUpdateTicketCredential, T!GetByEventIdAndEmail,
     TicketsOfBackend!GetByEventIdAndEmail, T!At, TicketsOfBackend!At, T!Fail,
     TicketsOfBackend!Fail, T!Answer, TicketsOfBackend!Answer, T!Goto,
     TicketsOfBackend!Goto, T!tables, TicketsOfBackend!tables, T!histories,
     TicketsOfBackend!histories, T!NoRequest,
     TicketsOfBackend!NoRequest, T!NoClaims, TicketsOfBackend!NoClaims, T!Empty,
     TicketsOfBackend!Empty, T!EventID, TicketsOfBackend!EventID, T!UserEmail,
     TicketsOfBackend!UserEmail, Commitments
<1>5. T!GetTicketCredentials(t) => TicketsOfBackend!GetTicketCredentials(t)
  BY DEF T!GetTicketCredentials, TicketsOfBackend!GetTicketCredentials, T!GetAllByEmail,
     TicketsOfBackend!GetAllByEmail, T!At, TicketsOfBackend!At, T!Fail,
     TicketsOfBackend!Fail, T!Answer, TicketsOfBackend!Answer, T!Goto,
     TicketsOfBackend!Goto, T!tables, TicketsOfBackend!tables, T!histories,
     TicketsOfBackend!histories, T!NoRequest,
     TicketsOfBackend!NoRequest, T!NoClaims, TicketsOfBackend!NoClaims, T!Empty,
     TicketsOfBackend!Empty, T!EventID, TicketsOfBackend!EventID, T!UserEmail,
     TicketsOfBackend!UserEmail, Commitments
<1>6. T!GetEvent(t) => TicketsOfBackend!GetEvent(t)
  BY DEF T!GetEvent, TicketsOfBackend!GetEvent, T!GetEventByID,
     TicketsOfBackend!GetEventByID, T!At, TicketsOfBackend!At, T!Fail,
     TicketsOfBackend!Fail, T!Answer, TicketsOfBackend!Answer, T!Goto,
     TicketsOfBackend!Goto, T!tables, TicketsOfBackend!tables, T!histories,
     TicketsOfBackend!histories, T!NoRequest,
     TicketsOfBackend!NoRequest, T!NoClaims, TicketsOfBackend!NoClaims, T!Empty,
     TicketsOfBackend!Empty, T!EventID, TicketsOfBackend!EventID, T!UserEmail,
     TicketsOfBackend!UserEmail, Commitments
<1>7. T!GetEvents(t) => TicketsOfBackend!GetEvents(t)
  BY DEF T!GetEvents, TicketsOfBackend!GetEvents, T!ListEvents,
     TicketsOfBackend!ListEvents, T!At, TicketsOfBackend!At, T!Fail,
     TicketsOfBackend!Fail, T!Answer, TicketsOfBackend!Answer, T!Goto,
     TicketsOfBackend!Goto, T!tables, TicketsOfBackend!tables, T!histories,
     TicketsOfBackend!histories, T!NoRequest,
     TicketsOfBackend!NoRequest, T!NoClaims, TicketsOfBackend!NoClaims, T!Empty,
     TicketsOfBackend!Empty, T!EventID, TicketsOfBackend!EventID, T!UserEmail,
     TicketsOfBackend!UserEmail, Commitments
<1> QED
  BY ReadUserSeen, <1>1, <1>2, <1>3, <1>4, <1>5, <1>6, <1>7 DEF T!Step, TicketsOfBackend!Step

LEMMA OrganizerSeen ==
    ASSUME NEW reg, T!Register(reg) \/ T!CancelRegistration(reg)
    PROVE  TicketsOfBackend!Register(reg) \/ TicketsOfBackend!CancelRegistration(reg)
BY DEF T!Register, TicketsOfBackend!Register, T!CancelRegistration,
       TicketsOfBackend!CancelRegistration, T!histories, TicketsOfBackend!histories,
       Commitments

LEMMA CrashSeen ==
    ASSUME Crash
    PROVE  TicketsOfBackend!BackendCrash \/ UNCHANGED TicketsOfBackend!vars
<1>1. UNCHANGED <<users, uploaded>>
  BY DEF Crash, BackendCrash, vars
<1> QED
  BY <1>1 DEF Crash, ticketVars, TicketsOfBackend!vars,
     T!BackendCrash, TicketsOfBackend!BackendCrash, T!Free, TicketsOfBackend!Free,
     T!Busy, TicketsOfBackend!Busy, T!FirstCall, TicketsOfBackend!FirstCall, T!Ops,
     TicketsOfBackend!Ops, T!tables, TicketsOfBackend!tables, T!histories,
     TicketsOfBackend!histories, T!NoRequest,
     TicketsOfBackend!NoRequest, T!NoClaims, TicketsOfBackend!NoClaims, T!Empty,
     TicketsOfBackend!Empty, Commitments

-----------------------------------------------------------------------------
(* The composition                                                         *)

\* A step of Backend is one of Identity, or leaves its variables alone.
LEMMA IdentityMoves == [BackendNext]_backendVars => [Next]_vars
<1> SUFFICES ASSUME BackendNext PROVE [Next]_vars
  BY DEF backendVars
<1>1. CASE \E r \in Reqs :
              \/ \E op \in Ops \cap Asked, claims \in Bearers \cap Callers :
                    \E upd \in Uploads \cup {Blank} :
                       IdentityReceive(r, op, claims, upd)
              \/ IdentityStep(r)
  BY <1>1 DEF IdentityReceive, IdentityStep, Next
<1>2. ASSUME NEW t \in TicketReqs, NEW op, NEW claims, NEW id,
             TicketReceive(t, op, claims, id)
      PROVE  UNCHANGED vars
  BY <1>2 DEF TicketReceive, T!Receive, T!tables, T!histories, vars
<1>3. ASSUME NEW t \in TicketReqs, TicketStep(t)
      PROVE  UNCHANGED vars
  <2>1. UNCHANGED <<users, uploaded>>
    BY <1>3 DEF TicketStep, T!Step, T!CheckTicket, T!CheckRegistration, T!ReadUser,
       T!SignTicket, T!PutTicketCredential, T!GetTicketCredentials, T!GetEvent,
       T!GetEvents, T!Fail, T!tables, T!histories
  <2> QED
    BY <1>3, <2>1 DEF TicketStep, vars
<1>4. ASSUME NEW reg, Organize(reg)
      PROVE  UNCHANGED vars
  BY <1>4 DEF Organize, T!Register, T!CancelRegistration, T!histories, vars
<1>5. CASE Crash
  BY <1>5 DEF Crash, Next
<1>6. CASE \E a \in Accounts : Enroll(a)
  BY <1>6 DEF Enroll, Next
<1> QED
  BY <1>1, <1>2, <1>3, <1>4, <1>5, <1>6 DEF BackendNext, Handle

\* A step of Backend is one of Tickets, for what the ticket handlers see.
LEMMA TicketsMove ==
    ASSUME Inv, Local', [BackendNext]_backendVars
    PROVE  [TicketsOfBackend!Next]_TicketsOfBackend!vars
<1>1. CASE UNCHANGED <<vars, ticketVars>>
  BY <1>1 DEF vars, ticketVars, TicketsOfBackend!vars, TicketsOfBackend!tables,
     TicketsOfBackend!histories, Commitments
<1>2. ASSUME [Next]_vars, UNCHANGED ticketVars
      PROVE  [TicketsOfBackend!Next]_TicketsOfBackend!vars
  <2>1. CASE UNCHANGED <<Commitments, uploaded>>
    BY <1>2, <2>1 DEF ticketVars, TicketsOfBackend!vars, TicketsOfBackend!tables,
       TicketsOfBackend!histories
  <2>2. ASSUME NEW a \in Accounts, UserKeysFree(Commitments, a.id, a.email),
               UNCHANGED uploaded,
               Commitments' = Commitments \cup {NewUser(a.id, a.email)}
        PROVE  TicketsOfBackend!Next
    <3>1. TicketsOfBackend!UserKeysFree(Commitments, a.id, a.email)
      BY <2>2 DEF TicketsOfBackend!UserKeysFree, TicketsOfBackend!GetUserByID,
         TicketsOfBackend!GetUserByEmail, UserKeysFree, GetUserByID, GetUserByEmail
    <3>2. TicketsOfBackend!NewUser(a.id, a.email) = NewUser(a.id, a.email)
      BY DEF TicketsOfBackend!NewUser, TicketsOfBackend!Empty, NewUser, Empty
    <3>3. TicketsOfBackend!SignUp(a)
      BY <1>2, <2>2, <3>1, <3>2 DEF TicketsOfBackend!SignUp,
         TicketsOfBackend!histories, ticketVars
    <3> QED
      BY <3>3 DEF TicketsOfBackend!Next
  <2>3. CASE \E a \in Accounts, i \in Idents \cup {Empty} :
                   /\ GetUserByID(Commitments, a.id) # {}
                   /\ uploaded' = uploaded \cup NewUpload(a.id, i)
                   /\ Commitments' = UpdateUser(Commitments, a.id,
                         [identityCommitment |-> i, encryptedInternalNullifier |-> i,
                          encryptedIdentitySecret |-> i])
    <3>1. PICK a \in Accounts, i \in Idents \cup {Empty} :
             /\ GetUserByID(Commitments, a.id) # {}
             /\ uploaded' = uploaded \cup NewUpload(a.id, i)
             /\ Commitments' = UpdateUser(Commitments, a.id,
                   [identityCommitment |-> i, encryptedInternalNullifier |-> i,
                    encryptedIdentitySecret |-> i])
      BY <2>3
    <3> DEFINE all == [identityCommitment |-> i, encryptedInternalNullifier |-> i,
                       encryptedIdentitySecret |-> i]
    <3>2. TicketsOfBackend!UpdateUser(Commitments, a.id, all)
            = UpdateUser(Commitments, a.id, all)
      BY DEF TicketsOfBackend!UpdateUser, UpdateUser
    <3>3. /\ TicketsOfBackend!Empty = Empty
          /\ TicketsOfBackend!GetUserByID(Commitments, a.id) = GetUserByID(Commitments, a.id)
          /\ TicketsOfBackend!NewUpload(a.id, i) = NewUpload(a.id, i)
      BY DEF TicketsOfBackend!Empty, Empty, TicketsOfBackend!GetUserByID, GetUserByID,
         TicketsOfBackend!NewUpload, NewUpload
    <3>4. TicketsOfBackend!UpdateIdentity(a, i)
      BY <1>2, <2>3, <3>1, <3>2, <3>3 DEF TicketsOfBackend!UpdateIdentity, ticketVars
    <3> QED
      BY <3>3, <3>4 DEF TicketsOfBackend!Next
  <2> QED
    BY <1>2, <2>1, <2>2, <2>3, SeenWrite
<1>3. CASE \E r \in Reqs :
              \/ \E op \in Ops \cap Asked, claims \in Bearers \cap Callers :
                    \E upd \in Uploads \cup {Blank} :
                       IdentityReceive(r, op, claims, upd)
              \/ IdentityStep(r)
  <2>1. UNCHANGED ticketVars
    BY <1>3 DEF IdentityReceive, IdentityStep
  <2> QED
    BY <1>2, <2>1, IdentityMoves
<1>4. ASSUME NEW t \in TicketReqs, NEW op \in T!Ops, NEW claims \in Bearers,
             NEW id \in EventIDs \cup {Empty}, TicketReceive(t, op, claims, id)
      PROVE  TicketsOfBackend!Next
  <2>1. TicketsOfBackend!Receive(t, op, claims, id)
    BY <1>4, ReceiveSeen DEF TicketReceive
  <2>2. claims \in TicketsOfBackend!Bearers
    BY <1>4, BearersSeen DEF Inv
  <2>3. op \in TicketsOfBackend!Ops /\ id \in EventIDs \cup {TicketsOfBackend!Empty}
    BY <1>4 DEF T!Ops, T!FirstCall, TicketsOfBackend!Ops, TicketsOfBackend!FirstCall,
       Empty, TicketsOfBackend!Empty
  <2> QED
    BY <2>1, <2>2, <2>3 DEF TicketsOfBackend!Next
<1>5. ASSUME NEW t \in TicketReqs, TicketStep(t)
      PROVE  TicketsOfBackend!Next
  BY <1>5, StepSeen DEF TicketStep, Inv, TicketsOfBackend!Next
<1>6. ASSUME NEW reg \in T!Registration, Organize(reg)
      PROVE  TicketsOfBackend!Next
  <2>1. reg \in TicketsOfBackend!Registration
    BY <1>6 DEF T!Registration, TicketsOfBackend!Registration, T!Addresses,
       TicketsOfBackend!Addresses, T!AllClaims, TicketsOfBackend!AllClaims
  <2> QED
    BY <1>6, <2>1, OrganizerSeen DEF Organize, TicketsOfBackend!Next
<1>7. CASE Crash
  BY <1>7, CrashSeen DEF TicketsOfBackend!Next
<1>8. ASSUME NEW a \in Accounts, Enroll(a)
      PROVE  [TicketsOfBackend!Next]_TicketsOfBackend!vars
  BY <1>2, <1>8 DEF Enroll, Next
<1> QED
  BY <1>1, <1>3, <1>4, <1>5, <1>6, <1>7, <1>8 DEF BackendNext, Handle, backendVars

\* The invariant of the identity handlers.
LEMMA IdentityInvariance == BackendSpec => []Inv
<1>1. BackendInit => Inv
  BY InitInv DEF BackendInit
<1> QED
  BY <1>1, NextInv, IdentityMoves, PTL DEF BackendSpec

\* Beside the ticket handlers the identity handlers behave as module Identity
\* says: they share the users table with nobody who writes it.
LEMMA IdentityAsAlone == BackendSpec => Spec
<1>1. BackendInit => Init
  BY DEF BackendInit
<1> QED
  BY <1>1, IdentityMoves, PTL DEF BackendSpec, Spec

\* Beside the identity handlers the ticket handlers behave as module Tickets
\* says, and keep what it promises.
THEOREM AsAlone == BackendSpec => TicketsAsAlone
<1>1. Inv /\ Inv' /\ [BackendNext]_backendVars
        => [TicketsOfBackend!Next]_TicketsOfBackend!vars
  BY TicketsMove DEF Inv
<1> QED
  BY <1>1, SeenInit, IdentityInvariance, PTL DEF BackendSpec, TicketsAsAlone,
     TicketsOfBackend!Spec

-----------------------------------------------------------------------------
(* What was proved of the ticket handlers                                  *)

LEMMA SameInit == TicketsOfBackend!Init => TicketFacts!Init
BY DEF TicketsOfBackend!Init, TicketFacts!Init, TicketsOfBackend!NewUser,
       TicketFacts!NewUser, TicketsOfBackend!NoRequest, TicketFacts!NoRequest,
       TicketsOfBackend!NoClaims, TicketFacts!NoClaims, TicketsOfBackend!Empty,
       TicketFacts!Empty

LEMMA SameNext ==
    [TicketsOfBackend!Next]_TicketsOfBackend!vars => [TicketFacts!Next]_TicketFacts!vars
<1>1. TicketsOfBackend!Next => TicketFacts!Next
  BY Zenon DEF TicketsOfBackend!Next, TicketFacts!Next, TicketsOfBackend!Receive,
     TicketFacts!Receive, TicketsOfBackend!Step, TicketFacts!Step,
     TicketsOfBackend!CheckTicket, TicketFacts!CheckTicket,
     TicketsOfBackend!CheckRegistration, TicketFacts!CheckRegistration,
     TicketsOfBackend!ReadUser, TicketFacts!ReadUser, TicketsOfBackend!SignTicket,
     TicketFacts!SignTicket, TicketsOfBackend!PutTicketCredential,
     TicketFacts!PutTicketCredential, TicketsOfBackend!GetTicketCredentials,
     TicketFacts!GetTicketCredentials, TicketsOfBackend!GetEvent,
     TicketFacts!GetEvent, TicketsOfBackend!GetEvents, TicketFacts!GetEvents,
     TicketsOfBackend!UpdateIdentity, TicketFacts!UpdateIdentity,
     TicketsOfBackend!SignUp, TicketFacts!SignUp, TicketsOfBackend!NewUser,
     TicketFacts!NewUser, TicketsOfBackend!UserKeysFree, TicketFacts!UserKeysFree,
     TicketsOfBackend!GetUserByEmail, TicketFacts!GetUserByEmail,
     TicketsOfBackend!Bearers, TicketFacts!Bearers,
     TicketsOfBackend!Register, TicketFacts!Register,
     TicketsOfBackend!CancelRegistration, TicketFacts!CancelRegistration,
     TicketsOfBackend!BackendCrash, TicketFacts!BackendCrash, TicketsOfBackend!Free,
     TicketFacts!Free, TicketsOfBackend!At, TicketFacts!At, TicketsOfBackend!Fail,
     TicketFacts!Fail, TicketsOfBackend!Answer, TicketFacts!Answer,
     TicketsOfBackend!Goto, TicketFacts!Goto, TicketsOfBackend!tables,
     TicketFacts!tables, TicketsOfBackend!histories, TicketFacts!histories,
     TicketsOfBackend!NewUpload, TicketFacts!NewUpload, TicketsOfBackend!NoRequest,
     TicketFacts!NoRequest,
     TicketsOfBackend!NoClaims, TicketFacts!NoClaims, TicketsOfBackend!AllClaims,
     TicketFacts!AllClaims, TicketsOfBackend!Empty, TicketFacts!Empty,
     TicketsOfBackend!EventID, TicketFacts!EventID, TicketsOfBackend!UserEmail,
     TicketFacts!UserEmail, TicketsOfBackend!Stored, TicketFacts!Stored,
     TicketsOfBackend!Busy, TicketFacts!Busy, TicketsOfBackend!FirstCall,
     TicketFacts!FirstCall, TicketsOfBackend!Ops, TicketFacts!Ops,
     TicketsOfBackend!Public, TicketFacts!Public, TicketsOfBackend!Lists,
     TicketFacts!Lists, TicketsOfBackend!Registration, TicketFacts!Registration,
     TicketsOfBackend!Addresses, TicketFacts!Addresses,
     TicketsOfBackend!GetAllByEmail, TicketFacts!GetAllByEmail,
     TicketsOfBackend!GetByEventIdAndEmail, TicketFacts!GetByEventIdAndEmail,
     TicketsOfBackend!GetOneByEventIdAndEmail, TicketFacts!GetOneByEventIdAndEmail,
     TicketsOfBackend!GetUserByID, TicketFacts!GetUserByID,
     TicketsOfBackend!UpdateUser, TicketFacts!UpdateUser,
     TicketsOfBackend!CreateOrUpdateTicketCredential,
     TicketFacts!CreateOrUpdateTicketCredential, TicketsOfBackend!GetEventByID,
     TicketFacts!GetEventByID, TicketsOfBackend!ListEvents, TicketFacts!ListEvents,
     TicketsOfBackend!GenerateSignedCredential, TicketFacts!GenerateSignedCredential,
     TicketsOfBackend!Parsed, TicketFacts!Parsed, TicketsOfBackend!Service,
     TicketFacts!Service,
     TicketsOfBackend!NewAPIService, TicketFacts!NewAPIService
<1>2. UNCHANGED TicketsOfBackend!vars => UNCHANGED TicketFacts!vars
  BY DEF TicketsOfBackend!vars, TicketFacts!vars, TicketsOfBackend!tables,
     TicketFacts!tables, TicketsOfBackend!histories, TicketFacts!histories
<1> QED
  BY <1>1, <1>2

LEMMA TicketsInvariance == BackendSpec => []TicketFacts!Inv
<1>1. TicketFacts!Init => TicketFacts!Inv
  BY TicketFacts!InitInv, NumeralsAssumption, IdentsAssumption, SettingsAssumption,
     ValuesAssumption, AccountsAssumption, EventsAssumption
     DEF TicketFacts!InitInv, TicketFacts!Empty, Empty
<1>2. TicketFacts!Inv /\ [TicketFacts!Next]_TicketFacts!vars => TicketFacts!Inv'
  BY TicketFacts!NextInv, NumeralsAssumption, IdentsAssumption, SettingsAssumption,
     ValuesAssumption, AccountsAssumption, EventsAssumption
     DEF TicketFacts!NextInv, TicketFacts!Empty, Empty
<1>3. Inv /\ Inv' /\ [BackendNext]_backendVars
        => [TicketFacts!Next]_TicketFacts!vars
  BY TicketsMove, SameNext DEF Inv
<1>4. BackendInit => TicketFacts!Init
  BY SeenInit, SameInit
<1> QED
  BY <1>1, <1>2, <1>3, <1>4, IdentityInvariance, PTL DEF BackendSpec

-----------------------------------------------------------------------------
(* What late requests rely on                                              *)

Binds(id, ic) == \E u \in GetUserByID(users, id) : u.identityCommitment = ic

\* A ticket request that came in late finds the account settled, and has read
\* the commitment that is in the row.
LateOK(q) ==
    q.pc \in T!Busy
        => /\ Settled(q.claims.id)
           /\ q.pc = "sign" => Binds(q.claims.id, q.ic)

LateInv ==
    /\ lateTickets \subseteq TicketReqs
    /\ \A t \in lateTickets : LateOK(ticketReqs[t])

\* ... and so every credential it got names the commitment in the row.
NamedInv ==
    /\ named \subseteq [id : IDs, commitment : Idents]
    /\ \A n \in named : Settled(n.id) /\ Binds(n.id, n.commitment)

BackendInv == Inv /\ TicketFacts!Inv /\ LateInv /\ NamedInv

LEMMA TicketBusy ==
    /\ T!Busy = {"getTicket", "putTicket", "listTickets", "getEvent", "listEvents",
                 "getRegistration", "readUser", "sign"}
    /\ \A op \in T!Ops : T!FirstCall[op] \in T!Busy \ {"sign", "readUser", "getRegistration"}
    /\ T!NoRequest.pc = "idle"
BY DEF T!Busy, T!Ops, T!FirstCall, T!NoRequest

\* A settled account keeps its row and its commitment.
LEMMA BindsStay ==
    ASSUME Inv, [Next]_vars, NEW id, NEW ic, Settled(id)
    PROVE  Settled(id)' /\ (Binds(id, ic) => Binds(id, ic)')
BY SettledStays DEF Binds

LEMMA LateStays ==
    ASSUME Inv, [Next]_vars, NEW q, LateOK(q)
    PROVE  LateOK(q)'
BY BindsStay DEF LateOK

LEMMA LateMoves ==
    ASSUME Inv, [Next]_vars, NEW t, ticketReqs'[t] = ticketReqs[t], LateOK(ticketReqs[t])
    PROVE  LateOK(ticketReqs[t])'
<1>1. PICK q : q = ticketReqs[t]
  OBVIOUS
<1>2. LateOK(q)'
  BY <1>1, LateStays
<1> QED
  BY <1>1, <1>2

LEMMA NamedStays ==
    ASSUME Inv, [Next]_vars, NamedInv, named' = named
    PROVE  NamedInv'
BY BindsStay DEF NamedInv, IDs, AllClaims

\* What the one credential of a step adds to named.
LEMMA NamedGrows ==
    ASSUME Inv, [Next]_vars, NamedInv, NEW q, NEW status, NEW late,
           named' = named \cup Named(q, status, late),
           late /\ q.pc = "sign"
              => /\ Settled(q.claims.id) /\ Binds(q.claims.id, q.ic)
                 /\ q.claims.id \in IDs /\ q.ic \in Idents
    PROVE  NamedInv'
<1>1. \A n \in Named(q, status, late) :
         /\ late /\ q.pc = "sign"
         /\ n = [id |-> q.claims.id, commitment |-> q.ic]
  BY DEF Named
<1>2. \A n \in Named(q, status, late) :
         /\ Settled(n.id) /\ Binds(n.id, n.commitment)
         /\ n \in [id : IDs, commitment : Idents]
  BY <1>1
<1>3. \A n \in named' : /\ Settled(n.id) /\ Binds(n.id, n.commitment)
                        /\ n \in [id : IDs, commitment : Idents]
  BY <1>2 DEF NamedInv
<1>4. \A n \in named' : (Settled(n.id) /\ Binds(n.id, n.commitment))'
  BY <1>3, BindsStay
<1> QED
  BY <1>3, <1>4 DEF NamedInv, IDs, AllClaims

\* The requests that run, as records.
LEMMA TicketRecords ==
    ASSUME TicketFacts!Inv
    PROVE  /\ ticketReqs \in [TicketReqs -> TicketFacts!Request]
           /\ \A t \in TicketReqs :
                 ticketReqs[t].pc = "sign"
                    => /\ ticketReqs[t].ic \in Idents
                       /\ ticketReqs[t].claims \in AllClaims
                       /\ ticketReqs[t].claims.id \in IDs
<1>1. ticketReqs \in [TicketReqs -> TicketFacts!Request]
  BY DEF TicketFacts!Inv, TicketFacts!ReqsOK
<1>2. ASSUME NEW t \in TicketReqs, ticketReqs[t].pc = "sign"
      PROVE  ticketReqs[t].ic \in Idents /\ ticketReqs[t].claims \in AllClaims
  <2>1. TicketFacts!ReqOK(ticketReqs[t], invited, uploaded, ticketCreds)
    BY DEF TicketFacts!Inv, TicketFacts!ReqsOK
  <2>2. /\ "sign" \in TicketFacts!Busy
        /\ \A op \in TicketFacts!Ops : TicketFacts!FirstCall[op] # "sign"
        /\ "requestTicket" \notin TicketFacts!Public
    BY DEF TicketFacts!Busy, TicketFacts!FirstCall, TicketFacts!Ops, TicketFacts!Public
  <2>3. ticketReqs[t].op \in TicketFacts!Ops
    BY <1>1, <1>2, <2>2 DEF TicketFacts!Request
  <2>4. ticketReqs[t].op = "requestTicket"
    BY <1>2, <2>1, <2>2, <2>3 DEF TicketFacts!ReqOK
  <2> QED
    BY <1>1, <1>2, <2>2, <2>4 DEF TicketFacts!Request, TicketFacts!AllClaims, AllClaims
<1> QED
  BY <1>1, <1>2 DEF IDs

-----------------------------------------------------------------------------
(* What a step does to a ticket request                                    *)

LEMMA ReceiveOutcome ==
    ASSUME TicketFacts!Inv, NEW t \in TicketReqs, NEW op \in T!Ops, NEW claims, NEW eventId,
           T!Receive(t, op, claims, eventId)
    PROVE  /\ \A s \in TicketReqs : s # t => ticketReqs'[s] = ticketReqs[s]
           /\ ticketReqs'[t].pc \in T!Busy
                 => ticketReqs'[t].claims = claims /\ ticketReqs'[t].pc # "sign"
<1>1. ticketReqs \in [TicketReqs -> TicketFacts!Request]
  BY TicketRecords
<1>2. CASE T!Answer(t, 401, {})
  BY <1>1, <1>2, TicketBusy DEF T!Answer, T!NoRequest
<1>3. CASE ticketReqs' = [ticketReqs EXCEPT ![t] = [T!NoRequest EXCEPT
             !.op = op, !.pc = T!FirstCall[op], !.claims = claims,
             !.eventId = eventId, !.known = T!Stored(claims.email)]]
  <2>1. PICK pc, known : pc = T!FirstCall[op] /\ known = T!Stored(claims.email)
    OBVIOUS
  <2>2. LET q == [T!NoRequest EXCEPT !.op = op, !.pc = pc, !.claims = claims,
                                     !.eventId = eventId, !.known = known]
        IN  q.pc = pc /\ q.claims = claims
    BY DEF T!NoRequest
  <2> QED
    BY <1>1, <1>3, <2>1, <2>2, TicketBusy
<1> QED
  BY <1>2, <1>3 DEF T!Receive

LEMMA StepOutcome ==
    ASSUME TicketFacts!Inv, NEW t \in TicketReqs, T!Step(t)
    PROVE  /\ \A s \in TicketReqs : s # t => ticketReqs'[s] = ticketReqs[s]
           /\ ticketReqs[t].pc \in T!Busy
           /\ ticketReqs'[t].pc \in T!Busy
                 => /\ ticketReqs'[t].claims = ticketReqs[t].claims
                    /\ ticketReqs'[t].pc = "sign"
                          => Binds(ticketReqs[t].claims.id, ticketReqs'[t].ic)
<1> DEFINE q == ticketReqs[t]
<1>1. ticketReqs \in [TicketReqs -> TicketFacts!Request]
  BY TicketRecords
<1>2. ASSUME NEW status, NEW body, T!Answer(t, status, body)
      PROVE  /\ \A s \in TicketReqs : s # t => ticketReqs'[s] = ticketReqs[s]
             /\ ticketReqs'[t].pc = "done"
  BY <1>1, <1>2 DEF T!Answer, T!NoRequest
<1>3. ASSUME NEW pc, NEW ic, ticketReqs' = [ticketReqs EXCEPT ![t].pc = pc, ![t].ic = ic]
      PROVE  /\ \A s \in TicketReqs : s # t => ticketReqs'[s] = ticketReqs[s]
             /\ ticketReqs'[t].pc = pc /\ ticketReqs'[t].ic = ic
             /\ ticketReqs'[t].claims = q.claims
  BY <1>1, <1>3 DEF TicketFacts!Request
<1>4. ASSUME NEW pc, T!Goto(t, pc)
      PROVE  /\ \A s \in TicketReqs : s # t => ticketReqs'[s] = ticketReqs[s]
             /\ ticketReqs'[t].pc = pc
             /\ ticketReqs'[t].claims = q.claims
  BY <1>1, <1>4 DEF T!Goto, TicketFacts!Request
<1>5. CASE T!CheckTicket(t)
  BY <1>2, <1>4, <1>5, TicketBusy DEF T!CheckTicket, T!Fail, T!At
<1>6. CASE T!CheckRegistration(t)
  BY <1>2, <1>4, <1>6, TicketBusy DEF T!CheckRegistration, T!Fail, T!At
<1>7. CASE T!ReadUser(t)
  <2>1. q.pc = "readUser"
    BY <1>7 DEF T!ReadUser, T!At
  <2>2. \/ \E status, body : T!Answer(t, status, body)
        \/ \E u \in GetUserByID(users, q.claims.id) :
              ticketReqs' = [ticketReqs EXCEPT ![t].pc = "sign",
                                               ![t].ic = u.identityCommitment]
    BY <1>7 DEF T!ReadUser, T!Fail, T!GetUserByID, GetUserByID
  <2>3. CASE \E status, body : T!Answer(t, status, body)
    BY <1>2, <2>1, <2>3, TicketBusy
  <2>4. ASSUME NEW u \in GetUserByID(users, q.claims.id),
               ticketReqs' = [ticketReqs EXCEPT ![t].pc = "sign",
                                                ![t].ic = u.identityCommitment]
        PROVE  /\ \A s \in TicketReqs : s # t => ticketReqs'[s] = ticketReqs[s]
               /\ ticketReqs'[t].claims = q.claims
               /\ Binds(q.claims.id, ticketReqs'[t].ic)
    BY <1>3, <2>4 DEF Binds
  <2> QED
    BY <2>1, <2>2, <2>3, <2>4, TicketBusy
<1>8. CASE \/ T!SignTicket(t) \/ T!PutTicketCredential(t) \/ T!GetTicketCredentials(t)
           \/ T!GetEvent(t) \/ T!GetEvents(t)
  BY <1>2, <1>8, TicketBusy DEF T!SignTicket, T!PutTicketCredential,
     T!GetTicketCredentials, T!GetEvent, T!GetEvents, T!Fail, T!At
<1> QED
  BY <1>5, <1>6, <1>7, <1>8 DEF T!Step

-----------------------------------------------------------------------------
(* One step per action                                                     *)

LEMMA TicketsStayLate ==
    ASSUME BackendInv, [Next]_vars, UNCHANGED <<ticketVars, lateTickets, named>>
    PROVE  LateInv' /\ NamedInv'
BY LateStays, NamedStays DEF BackendInv, LateInv, ticketVars

LEMMA IdentityStepLate ==
    ASSUME BackendInv, NEW r \in Reqs, IdentityStep(r)
    PROVE  LateInv' /\ NamedInv'
<1>1. [Next]_vars /\ UNCHANGED <<ticketVars, lateTickets>>
  BY DEF IdentityStep, Next
<1>2. LateInv'
  BY <1>1, LateStays DEF BackendInv, LateInv, ticketVars
<1>3. ASSUME reqs[r].late, reqs[r].pc = "sign"
      PROVE  /\ Settled(UID(r)) /\ Binds(UID(r), reqs[r].ic)
             /\ UID(r) \in IDs /\ reqs[r].ic \in Idents
  <2>1. Inv /\ reqs[r].pc \in Busy
    BY <1>3, BusyCalls DEF BackendInv
  <2>2. Settled(UID(r)) /\ Binds(UID(r), reqs[r].ic)
    BY <1>3, <2>1 DEF Inv, Later, LateSettled, NoStaleCommitment, Binds
  <2>3. reqs[r].ic \in Idents
    BY <1>3, <2>1, BusyCalls DEF Inv, Local, ReqsOK, ReqOK
  <2>4. UID(r) \in IDs
    BY <2>1, <2>2 DEF Settled, GetUserByID, Inv, Local, RowsOK, UserRow
  <2> QED
    BY <2>2, <2>3, <2>4
<1>4. NamedInv'
  BY <1>1, <1>3, NamedGrows DEF BackendInv, IdentityStep, UID
<1> QED
  BY <1>2, <1>4

LEMMA TicketReceiveLate ==
    ASSUME BackendInv, [Next]_vars, NEW t \in TicketReqs, NEW op \in T!Ops, NEW claims,
           NEW eventId, TicketReceive(t, op, claims, eventId)
    PROVE  LateInv' /\ NamedInv'
<1>1. NamedInv'
  BY NamedStays DEF BackendInv, TicketReceive
<1>2. ASSUME NEW s \in TicketReqs, s # t, s \in lateTickets'
      PROVE  LateOK(ticketReqs[s])' /\ ticketReqs'[s] = ticketReqs[s]
  <2>1. s \in lateTickets /\ ticketReqs'[s] = ticketReqs[s]
    BY <1>2, ReceiveOutcome DEF TicketReceive, BackendInv
  <2>2. LateOK(ticketReqs[s])
    BY <2>1 DEF BackendInv, LateInv
  <2> QED
    BY <2>1, <2>2, LateMoves DEF BackendInv
<1>3. ASSUME t \in lateTickets'
      PROVE  LateOK(ticketReqs[t])'
  <2>1. Settled(claims.id)
    BY <1>3 DEF TicketReceive
  <2>2. Settled(claims.id)'
    BY <2>1, SettledStays DEF BackendInv
  <2>3. ticketReqs'[t].pc \in T!Busy
           => ticketReqs'[t].claims = claims /\ ticketReqs'[t].pc # "sign"
    BY ReceiveOutcome DEF TicketReceive, BackendInv
  <2> QED
    BY <2>2, <2>3 DEF LateOK
<1>4. lateTickets' \subseteq TicketReqs
  BY DEF TicketReceive, BackendInv, LateInv
<1> QED
  BY <1>1, <1>2, <1>3, <1>4 DEF LateInv

LEMMA TicketStepLate ==
    ASSUME BackendInv, [Next]_vars, NEW t \in TicketReqs, TicketStep(t)
    PROVE  LateInv' /\ NamedInv'
<1>1. ASSUME t \in lateTickets, ticketReqs[t].pc = "sign"
      PROVE  LET q == ticketReqs[t]
             IN  /\ Settled(q.claims.id) /\ Binds(q.claims.id, q.ic)
                 /\ q.claims.id \in IDs /\ q.ic \in Idents
  BY <1>1, TicketRecords, TicketBusy DEF BackendInv, LateInv, LateOK
<1>2. NamedInv'
  BY <1>1, NamedGrows DEF BackendInv, TicketStep
<1>3. ASSUME NEW s \in TicketReqs, s # t, s \in lateTickets'
      PROVE  LateOK(ticketReqs[s])'
  <2>1. s \in lateTickets /\ ticketReqs'[s] = ticketReqs[s]
    BY <1>3, StepOutcome DEF TicketStep, BackendInv
  <2>2. LateOK(ticketReqs[s])
    BY <2>1 DEF BackendInv, LateInv
  <2> QED
    BY <2>1, <2>2, LateMoves DEF BackendInv
<1>4. ASSUME t \in lateTickets', ticketReqs'[t].pc \in T!Busy,
             NEW id, NEW ic, id = ticketReqs'[t].claims.id, ic = ticketReqs'[t].ic
      PROVE  Settled(id)' /\ (ticketReqs'[t].pc = "sign" => Binds(id, ic)')
  <2>1. t \in lateTickets /\ ticketReqs[t].pc \in T!Busy
    BY <1>4, StepOutcome DEF TicketStep, BackendInv
  <2>2. Settled(ticketReqs[t].claims.id)
    BY <2>1 DEF BackendInv, LateInv, LateOK
  <2>3. /\ id = ticketReqs[t].claims.id
        /\ ticketReqs'[t].pc = "sign" => Binds(id, ic)
    BY <1>4, StepOutcome DEF TicketStep, BackendInv
  <2> QED
    BY <2>2, <2>3, BindsStay DEF BackendInv
<1>5. t \in lateTickets' => LateOK(ticketReqs[t])'
  <2>1. PICK id, ic : id = ticketReqs'[t].claims.id /\ ic = ticketReqs'[t].ic
    OBVIOUS
  <2> QED
    BY <1>4, <2>1 DEF LateOK
<1>6. lateTickets' \subseteq TicketReqs
  BY DEF TicketStep, BackendInv, LateInv
<1> QED
  BY <1>2, <1>3, <1>5, <1>6 DEF LateInv

LEMMA CrashLate ==
    ASSUME BackendInv, [Next]_vars, Crash
    PROVE  LateInv' /\ NamedInv'
<1>1. NamedInv'
  BY NamedStays DEF BackendInv, Crash
<1>2. \A t \in TicketReqs : ticketReqs'[t].pc \notin T!Busy
  BY TicketBusy DEF Crash, T!BackendCrash, T!Free, ticketVars
<1>3. LateInv'
  BY <1>2 DEF LateInv, LateOK, Crash, BackendInv
<1> QED
  BY <1>1, <1>3

LEMMA BackendNextInv ==
    ASSUME BackendInv, Inv', TicketFacts!Inv', [BackendNext]_backendVars
    PROVE  BackendInv'
<1>1. [Next]_vars
  BY IdentityMoves
<1>2. CASE UNCHANGED backendVars
  BY <1>1, <1>2, TicketsStayLate DEF backendVars, BackendInv
<1>3. ASSUME NEW r \in Reqs, NEW op, NEW claims, NEW upd,
             IdentityReceive(r, op, claims, upd)
      PROVE  BackendInv'
  BY <1>1, <1>3, TicketsStayLate DEF IdentityReceive, BackendInv
<1>4. ASSUME NEW r \in Reqs, IdentityStep(r)
      PROVE  BackendInv'
  BY <1>4, IdentityStepLate DEF BackendInv
<1>5. ASSUME NEW t \in TicketReqs, NEW op \in T!Ops, NEW claims, NEW id,
             TicketReceive(t, op, claims, id)
      PROVE  BackendInv'
  BY <1>1, <1>5, TicketReceiveLate DEF BackendInv
<1>6. ASSUME NEW t \in TicketReqs, TicketStep(t)
      PROVE  BackendInv'
  BY <1>1, <1>6, TicketStepLate DEF BackendInv
<1>7. ASSUME NEW reg, Organize(reg)
      PROVE  BackendInv'
  <2>1. UNCHANGED <<ticketReqs, lateTickets, named>>
    BY <1>7 DEF Organize, T!Register, T!CancelRegistration
  <2> QED
    BY <1>1, <2>1, LateMoves, NamedStays DEF BackendInv, LateInv
<1>8. CASE Crash
  BY <1>1, <1>8, CrashLate DEF BackendInv
<1>9. ASSUME NEW a, Enroll(a)
      PROVE  BackendInv'
  BY <1>1, <1>9, TicketsStayLate DEF Enroll, BackendInv
<1> QED
  BY <1>2, <1>3, <1>4, <1>5, <1>6, <1>7, <1>8, <1>9 DEF BackendNext, Handle

LEMMA BackendInvariance == BackendSpec => []BackendInv
<1>1. BackendInit => LateInv /\ NamedInv
  BY DEF BackendInit, LateInv, NamedInv
<1>2. BackendInv /\ Inv' /\ TicketFacts!Inv' /\ [BackendNext]_backendVars => BackendInv'
  BY BackendNextInv
<1>3. Inv /\ TicketFacts!Inv /\ LateInv /\ NamedInv <=> BackendInv
  BY DEF BackendInv
<1> QED
  BY <1>1, <1>2, <1>3, IdentityInvariance, TicketsInvariance, PTL DEF BackendSpec

-----------------------------------------------------------------------------
(* The results                                                             *)

\* The variables of both parts keep their types side by side, and the histories
\* name requests, accounts and identities.
THEOREM BothTypesCorrect == BackendSpec => []BackendTypeOK
<1>1. Inv => TypeOK
  <2> SUFFICES ASSUME Inv PROVE TypeOK
    OBVIOUS
  <2>1. \A r \in Reqs : /\ reqs[r].pc \in Busy => reqs[r].claims \in AllClaims
                        /\ reqs[r].pc \in WithCommitment => reqs[r].ic \in Idents
    BY DEF Inv, Local, ReqsOK, ReqOK
  <2> QED
    BY <2>1 DEF Inv, Local, RowsOK, CredsOK, IssuedOK, ReqsOK, UploadedOK,
       TypeOK, WithCommitment
<1>2. Inv /\ TicketFacts!Inv => T!TypeOK
  <2> SUFFICES ASSUME Inv, TicketFacts!Inv PROVE T!TypeOK
    OBVIOUS
  <2>1. users \subseteq T!UserRow(T!IDs, T!Addresses, Idents)
    BY DEF Inv, Local, RowsOK, T!UserRow, UserRow, T!IDs, IDs, T!Addresses, Addresses,
       T!AllClaims, AllClaims, T!Empty, Empty
  <2>2. TicketFacts!Request = T!Request
    BY DEF T!Request, TicketFacts!Request, T!Ops, TicketFacts!Ops, T!Busy,
       TicketFacts!Busy, T!FirstCall, TicketFacts!FirstCall, T!AllClaims,
       TicketFacts!AllClaims, T!NoClaims, TicketFacts!NoClaims, T!Empty,
       TicketFacts!Empty, T!Lists, TicketFacts!Lists, T!Public, TicketFacts!Public,
       T!Ticket, TicketFacts!Ticket, T!Addresses, TicketFacts!Addresses
  <2>3. /\ TicketFacts!Registration = T!Registration /\ TicketFacts!Ticket = T!Ticket
        /\ TicketFacts!Addresses = T!Addresses /\ TicketFacts!IDs = T!IDs
    BY DEF TicketFacts!IDs, T!IDs, TicketFacts!Empty, T!Empty, T!Registration,
       TicketFacts!Registration, T!Ticket, TicketFacts!Ticket,
       T!Addresses, TicketFacts!Addresses, T!AllClaims, TicketFacts!AllClaims
  <2> QED
    BY <2>1, <2>2, <2>3 DEF TicketFacts!Inv, TicketFacts!RowsOK, TicketFacts!IssuedOK,
       TicketFacts!ReqsOK, T!TypeOK
<1>3. BackendInv => BackendTypeOK
  BY <1>1, <1>2 DEF BackendInv, LateInv, NamedInv, BackendTypeOK
<1> QED
  BY <1>3, BackendInvariance, PTL

\* All credentials that an account asked for after its identity was settled,
\* email credentials and tickets, name one commitment.
THEOREM Agree == BackendSpec => []CredentialsAgree
<1>1. BackendInv => CredentialsAgree
  <2> SUFFICES ASSUME BackendInv, NEW n \in named, NEW m \in named, n.id = m.id
               PROVE  n.commitment = m.commitment
    BY DEF CredentialsAgree
  <2>1. PICK u \in users : u.id = n.id /\ u.identityCommitment = n.commitment
    BY DEF BackendInv, NamedInv, Binds, GetUserByID
  <2>2. PICK v \in users : v.id = m.id /\ v.identityCommitment = m.commitment
    BY DEF BackendInv, NamedInv, Binds, GetUserByID
  <2>3. u = v
    BY <2>1, <2>2 DEF BackendInv, Inv, Local, RowsOK, UsersOwn
  <2> QED
    BY <2>1, <2>2, <2>3
<1> QED
  BY <1>1, BackendInvariance, PTL

\* They name the commitment under which the account stored its email credential.
THEOREM MatchStored == BackendSpec => []CredentialsMatchStored
<1>1. BackendInv => CredentialsMatchStored
  <2> SUFFICES ASSUME BackendInv, NEW n \in named, n.id \in saved
               PROVE  GetByIdentityCommitment(emailCreds, n.commitment) # {}
    BY DEF CredentialsMatchStored
  <2>1. PICK u \in users : u.id = n.id /\ u.identityCommitment = n.commitment
    BY DEF BackendInv, NamedInv, Binds, GetUserByID
  <2>2. PICK v \in users : /\ v.id = n.id
                          /\ GetByIdentityCommitment(emailCreds, v.identityCommitment) # {}
    BY DEF BackendInv, Inv, Later, SavedFound, GetUserByID
  <2>3. u = v
    BY <2>1, <2>2 DEF BackendInv, Inv, Local, RowsOK, UsersOwn
  <2> QED
    BY <2>1, <2>2, <2>3
<1> QED
  BY <1>1, BackendInvariance, PTL

-----------------------------------------------------------------------------
(* One identity per account, as OneIdentity says                           *)

Settlements ==
    {[id |-> u.id, commitment |-> u.identityCommitment] : u \in {v \in users : Settled(v.id)}}

\* What accounts settle on is an identity they uploaded, and one only.
SettledOK ==
    /\ Settlements \subseteq uploaded
    /\ uploaded \subseteq [id : IDs, commitment : Idents]
    /\ \A p, q \in Settlements : p.id = q.id => p = q

LEMMA SettlementsOwn == Inv => SettledOK
<1> SUFFICES ASSUME Inv PROVE SettledOK
  OBVIOUS
<1>1. /\ UsersOwn
      /\ uploaded \subseteq [id : IDs, commitment : Idents]
  BY DEF Inv, Local, RowsOK, UploadedOK
<1>2. ASSUME NEW u \in users, Settled(u.id)
      PROVE  Uploaded(u.id, u.identityCommitment, uploaded)
  <2>1. PICK v \in users : v.id = u.id /\ Complete(v)
    BY <1>2 DEF Settled, GetUserByID
  <2>2. u = v
    BY <1>1, <2>1 DEF UsersOwn
  <2>3. u.identityCommitment # Empty
    BY <2>1, <2>2 DEF Complete
  <2> QED
    BY <1>1, <2>3 DEF UsersOwn
<1>3. \A p \in Settlements : \E u \in users : /\ Settled(u.id)
         /\ p = [id |-> u.id, commitment |-> u.identityCommitment]
  BY DEF Settlements
<1>4. Settlements \subseteq uploaded
  BY <1>2, <1>3 DEF Uploaded
<1>5. ASSUME NEW p \in Settlements, NEW q \in Settlements, p.id = q.id
      PROVE  p = q
  <2>1. PICK u \in users : p = [id |-> u.id, commitment |-> u.identityCommitment]
    BY <1>3
  <2>2. PICK v \in users : q = [id |-> v.id, commitment |-> v.identityCommitment]
    BY <1>3
  <2>3. u = v
    BY <1>1, <1>5, <2>1, <2>2 DEF UsersOwn
  <2> QED
    BY <2>1, <2>2, <2>3
<1> QED
  BY <1>1, <1>4, <1>5 DEF SettledOK

\* Nobody takes back what it settled on.
LEMMA SettlementsGrow ==
    ASSUME Inv, [Next]_vars
    PROVE  Settlements \subseteq Settlements'
<1>1. ASSUME NEW u \in users, Settled(u.id)
      PROVE  u \in users' /\ Settled(u.id)'
  <2>1. PICK id : id = u.id
    OBVIOUS
  <2>2. GetUserByID(users', id) = GetUserByID(users, id) /\ Settled(id)'
    BY <1>1, <2>1, SettledStays
  <2> QED
    BY <2>1, <2>2 DEF GetUserByID
<1> QED
  BY <1>1 DEF Settlements

\* Nor what it uploaded.
LEMMA UploadsGrow ==
    ASSUME [Next]_vars
    PROVE  uploaded \subseteq uploaded'
BY WhoWrites DEF Wrote, SignUp

\* A step that reads no more of the identity handlers than their variables say
\* leaves it as it is.
LEMMA SettlementsStay ==
    ASSUME UNCHANGED users,
           \A q \in Reqs :
              /\ reqs'[q].pc = "updateUser" <=> reqs[q].pc = "updateUser"
              /\ reqs[q].pc = "updateUser" => reqs'[q].claims.id = reqs[q].claims.id
    PROVE  Settlements' = Settlements
<1>1. ASSUME NEW id
      PROVE  Settled(id)' <=> Settled(id)
  <2>1. (\E u \in GetUserByID(users', id) : Complete(u))
          <=> \E u \in GetUserByID(users, id) : Complete(u)
    OBVIOUS
  <2>2. (\E q \in Reqs : reqs'[q].pc = "updateUser" /\ reqs'[q].claims.id = id)
          <=> \E q \in Reqs : reqs[q].pc = "updateUser" /\ reqs[q].claims.id = id
    OBVIOUS
  <2> QED
    BY <2>1, <2>2 DEF Settled, At, UID
<1> QED
  BY <1>1 DEF Settlements

\* A credential handed out late is for what the account settled on, and the
\* issuer could parse it.
LEMMA NamedMoves ==
    ASSUME BackendInv, [BackendNext]_backendVars
    PROVE  \/ UNCHANGED named
           \/ \E p \in Settlements : /\ p.commitment \in Numerals
                                     /\ named' = named \cup {p}
                                     /\ UNCHANGED <<Settlements, uploaded>>
<1>1. ASSUME NEW id, NEW ic, Settled(id), Binds(id, ic)
      PROVE  [id |-> id, commitment |-> ic] \in Settlements
  BY <1>1 DEF Binds, GetUserByID, Settlements
<1>2. ASSUME NEW r \in Reqs, IdentityStep(r), named' # named
      PROVE  \E p \in Settlements : /\ p.commitment \in Numerals
                                    /\ named' = named \cup {p}
                                    /\ UNCHANGED <<Settlements, uploaded>>
  <2> DEFINE q == reqs[r]
             p == [id |-> q.claims.id, commitment |-> q.ic]
  <2>1. named' = named \cup Named(q, reqs'[r].status, q.late)
    BY <1>2 DEF IdentityStep
  <2>2. q.late /\ q.pc = "sign" /\ reqs'[r].status = 201 /\ named' = named \cup {p}
    BY <1>2, <2>1 DEF Named
  <2>3. Settled(q.claims.id) /\ Binds(q.claims.id, q.ic)
    BY <2>2, BusyCalls DEF BackendInv, Inv, Later, LateSettled, NoStaleCommitment, Binds, UID
  <2>4. RequestEmailCredential(r)
    BY <1>2, <2>2 DEF IdentityStep, Step, ReadUser, WriteUser, GetEmailCredential,
       PutEmailCredential, At
  <2>5. reqs \in [Reqs -> Request]
    BY DEF BackendInv, Inv, Local, ReqsOK
  <2>6. ~Answer(r, 500, Empty)
    <3> SUFFICES ASSUME Answer(r, 500, Empty) PROVE FALSE
      OBVIOUS
    <3>1. reqs'[r] = Done(500, Empty)
      BY <2>5, AnswerIsDone
    <3> QED
      BY <2>2, <3>1 DEF Done
  <2>7. Parsed(q.ic) # {}
    BY <2>4, <2>6 DEF RequestEmailCredential, GenerateSignedCredential
  <2>8. q.ic \in Idents
    BY <2>2, BusyCalls DEF BackendInv, Inv, Local, ReqsOK, ReqOK
  <2>9. q.ic \in Numerals
    BY <2>7, <2>8, IdentsAssumption DEF Parsed
  <2>10. UNCHANGED <<Settlements, uploaded>>
    <3>1. UNCHANGED <<users, uploaded>> /\ Answer(r, 201, Empty)
      BY <2>4, <2>6 DEF RequestEmailCredential
    <3>2. reqs' = [reqs EXCEPT ![r] = Done(201, Empty)]
      BY <3>1, AnswerIsDone
    <3>3. \A s \in Reqs : s # r => reqs'[s] = reqs[s]
      BY <2>5, <3>2
    <3>4. reqs'[r].pc = "done"
      BY <2>5, <3>2 DEF Done
    <3> QED
      BY <2>2, <3>1, <3>3, <3>4, SettlementsStay DEF At, UID
  <2>11. p \in Settlements
    BY <1>1, <2>3
  <2> QED
    BY <2>2, <2>9, <2>10, <2>11
<1>3. ASSUME NEW t \in TicketReqs, TicketStep(t), named' # named
      PROVE  \E p \in Settlements : /\ p.commitment \in Numerals
                                    /\ named' = named \cup {p}
                                    /\ UNCHANGED <<Settlements, uploaded>>
  <2> DEFINE q == ticketReqs[t]
             p == [id |-> q.claims.id, commitment |-> q.ic]
  <2>1. named' = named \cup Named(q, ticketReqs'[t].status, t \in lateTickets)
    BY <1>3 DEF TicketStep
  <2>2. /\ t \in lateTickets /\ q.pc = "sign" /\ ticketReqs'[t].status = 201
        /\ named' = named \cup {p}
    BY <1>3, <2>1 DEF Named
  <2>3. Settled(q.claims.id) /\ Binds(q.claims.id, q.ic) /\ q.ic \in Idents
    BY <2>2, TicketRecords, TicketBusy DEF BackendInv, LateInv, LateOK
  <2>4. T!SignTicket(t)
    BY <1>3, <2>2 DEF TicketStep, T!Step, T!CheckTicket, T!CheckRegistration, T!ReadUser,
       T!PutTicketCredential, T!GetTicketCredentials, T!GetEvent, T!GetEvents, T!At
  <2>5. ticketReqs \in [TicketReqs -> TicketFacts!Request]
    BY TicketRecords DEF BackendInv
  <2>6. ~T!Fail(t)
    <3> SUFFICES ASSUME T!Answer(t, 500, {}) PROVE FALSE
      BY DEF T!Fail
    <3>1. ticketReqs'[t].status = 500
      BY <2>5 DEF T!Answer, T!NoRequest
    <3> QED
      BY <2>2, <3>1
  <2>7. T!Parsed(q.ic) # {} /\ UNCHANGED <<users, uploaded>>
    BY <2>4, <2>6 DEF T!SignTicket, T!GenerateSignedCredential, T!tables, T!histories
  <2>8. q.ic \in Numerals
    BY <2>3, <2>7, IdentsAssumption DEF T!Parsed, T!Empty, Empty
  <2>9. UNCHANGED <<Settlements, uploaded>>
    BY <1>3, <2>7, SettlementsStay DEF TicketStep, At, UID
  <2>10. p \in Settlements
    BY <1>1, <2>3
  <2> QED
    BY <2>2, <2>8, <2>9, <2>10
<1> QED
  BY <1>2, <1>3 DEF BackendNext, Handle, backendVars, IdentityReceive, TicketReceive,
     Organize, Enroll, Crash

\* Backend implements OneIdentity: accounts settle once and for all, and every
\* credential handed out after that names what its account settled on.
THEOREM OfOneIdentity == BackendSpec => CredentialsOfOneIdentity
<1>1. BackendInit => OneIdentityPerAccount!Init
  BY DEF BackendInit, Init, OneIdentityPerAccount!Init
<1>2. BackendInv => SettledOK
  BY SettlementsOwn DEF BackendInv
<1>3. BackendInv /\ SettledOK /\ SettledOK' /\ [BackendNext]_backendVars
        => [OneIdentityPerAccount!Next]_<<uploaded, Settlements, named>>
  <2> SUFFICES ASSUME BackendInv, SettledOK, SettledOK', [BackendNext]_backendVars
               PROVE  [OneIdentityPerAccount!Next]_<<uploaded, Settlements, named>>
    OBVIOUS
  <2>1. [Next]_vars /\ Inv
    BY IdentityMoves DEF BackendInv
  <2>2. Settlements \subseteq Settlements' /\ uploaded \subseteq uploaded'
    BY <2>1, SettlementsGrow, UploadsGrow
  <2>3. /\ Settlements \subseteq [id : IDs, commitment : Idents]
        /\ Settlements' \subseteq uploaded'
        /\ uploaded' \subseteq [id : IDs, commitment : Idents]
        /\ \A p, q \in Settlements' : p.id = q.id => p = q
    BY DEF SettledOK, IDs, AllClaims
  <2>4. CASE UNCHANGED named
    BY <2>2, <2>3, <2>4 DEF OneIdentityPerAccount!Next, OneIdentityPerAccount!Settle,
       OneIdentityPerAccount!Functional, Settlements
  <2>5. ASSUME NEW p \in Settlements, p.commitment \in Numerals,
               named' = named \cup {p}, UNCHANGED <<Settlements, uploaded>>
        PROVE  OneIdentityPerAccount!Next
    BY <2>3, <2>5 DEF OneIdentityPerAccount!Next, OneIdentityPerAccount!Name, Settlements
  <2> QED
    BY <2>4, <2>5, NamedMoves
<1> QED
  BY <1>1, <1>2, <1>3, BackendInvariance, PTL DEF BackendSpec, CredentialsOfOneIdentity,
     OneIdentityPerAccount!Spec, Settlements

\* OneIdentity says no less than CredentialsAgree: whatever behaves as it says,
\* an account's late credentials name one commitment.
THEOREM OneIdentityAgrees == CredentialsOfOneIdentity => []CredentialsAgree
<1> DEFINE Sound == named \subseteq Settlements /\ OneIdentityPerAccount!Functional(Settlements)
<1>1. OneIdentityPerAccount!Init => Sound
  BY DEF OneIdentityPerAccount!Init, OneIdentityPerAccount!Functional, Settlements
<1>2. Sound /\ [OneIdentityPerAccount!Next]_<<uploaded, Settlements, named>> => Sound'
  <2> SUFFICES ASSUME Sound, [OneIdentityPerAccount!Next]_<<uploaded, Settlements, named>>
               PROVE  Sound'
    OBVIOUS
  <2>1. CASE UNCHANGED <<uploaded, Settlements, named>>
    BY <2>1 DEF OneIdentityPerAccount!Functional
  <2>2. CASE OneIdentityPerAccount!Settle
    BY <2>2 DEF OneIdentityPerAccount!Settle, OneIdentityPerAccount!Functional, Settlements
  <2>3. ASSUME NEW p, OneIdentityPerAccount!Name(p)
        PROVE  Sound'
    BY <2>3 DEF OneIdentityPerAccount!Name, OneIdentityPerAccount!Functional, Settlements
  <2> QED
    BY <2>1, <2>2, <2>3 DEF OneIdentityPerAccount!Next
<1>3. Sound => CredentialsAgree
  <2> SUFFICES ASSUME Sound, NEW n \in named, NEW m \in named, n.id = m.id
               PROVE  n.commitment = m.commitment
    BY DEF CredentialsAgree
  <2> QED
    BY DEF OneIdentityPerAccount!Functional
<1> HIDE DEF Sound
<1> QED
  BY <1>1, <1>2, <1>3, PTL DEF CredentialsOfOneIdentity, OneIdentityPerAccount!Spec, Settlements
=============================================================================
