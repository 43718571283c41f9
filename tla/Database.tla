------------------------------ MODULE Database ------------------------------
(***************************************************************************)
(* The Postgres tables of the backend and the queries sqlc generated for   *)
(* them (backend/repos).  A table is a set of rows, a row is a record and  *)
(* a query is an operator on the table: every handler runs one statement   *)
(* at a time in autocommit mode (repos/client.go hands the pool itself to  *)
(* the queries and nobody calls WithTx), so a query is one atomic step of  *)
(* the action that cites it, and two queries of one handler never are.     *)
(***************************************************************************)

\* Go's zero string: a column, claim or request field that is not set.
Empty == ""

-----------------------------------------------------------------------------
(* users: id is the PRIMARY KEY, email is UNIQUE, the three identity        *)
(* columns are NOT NULL and start empty.                                    *)

UserRow(IDs, Emails, Idents) ==
    [id : IDs, email : Emails,
     identityCommitment : Idents \cup {Empty},
     encryptedInternalNullifier : Idents \cup {Empty},
     encryptedIdentitySecret : Idents \cup {Empty}]

\* The row CreateUser inserts.
NewUser(id, email) ==
    [id |-> id, email |-> email, identityCommitment |-> Empty,
     encryptedInternalNullifier |-> Empty, encryptedIdentitySecret |-> Empty]

\* SELECT ... WHERE email = $1 and SELECT ... WHERE id = $1; the empty set is
\* pgx.ErrNoRows.
GetUserByEmail(users, email) == {u \in users : u.email = email}
GetUserByID(users, id) == {u \in users : u.id = id}

UserKeysFree_NoEmailIndex(users, id, email) ==  \* mutant: email not UNIQUE
    GetUserByID(users, id) = {}
\* The INSERT of CreateUser succeeds only if neither index has the key.
UserKeysFree(users, id, email) ==
    /\ GetUserByID(users, id) = {}
    /\ GetUserByEmail(users, email) = {}

UpdateUser_SetOnly(users, id, upd) ==  \* mutant: empty fields keep the column
    LET New(old, new) == IF new = Empty THEN old ELSE new IN
    {IF u.id # id THEN u ELSE
        [u EXCEPT
            !.identityCommitment = New(@, upd.identityCommitment),
            !.encryptedInternalNullifier = New(@, upd.encryptedInternalNullifier),
            !.encryptedIdentitySecret = New(@, upd.encryptedIdentitySecret)]
     : u \in users}
UpdateUser_NoWhere(users, id, upd) ==  \* mutant: every row is written
    {[u EXCEPT
        !.identityCommitment = upd.identityCommitment,
        !.encryptedInternalNullifier = upd.encryptedInternalNullifier,
        !.encryptedIdentitySecret = upd.encryptedIdentitySecret]
     : u \in users}
\* UPDATE ... SET all three identity columns WHERE id = $4: a field the client
\* left out is written as the empty string.
UpdateUser(users, id, upd) ==
    {IF u.id # id THEN u ELSE
        [u EXCEPT
            !.identityCommitment = upd.identityCommitment,
            !.encryptedInternalNullifier = upd.encryptedInternalNullifier,
            !.encryptedIdentitySecret = upd.encryptedIdentitySecret]
     : u \in users}

-----------------------------------------------------------------------------
(* email_credentials: identity_commitment is UNIQUE.  The id, a uuid drawn  *)
(* for every write, and the client's two timestamps are left out.           *)

GetByIdentityCommitment(creds, ic) == {c \in creds : c.identityCommitment = ic}

CreateOrUpdateEmailCredential_Replace(creds, ic, data) ==  \* mutant: one row
    {[identityCommitment |-> ic, data |-> data]}
\* INSERT ... ON CONFLICT (identity_commitment) DO UPDATE
CreateOrUpdateEmailCredential(creds, ic, data) ==
    (creds \ GetByIdentityCommitment(creds, ic))
        \cup {[identityCommitment |-> ic, data |-> data]}

-----------------------------------------------------------------------------
(* ticket_credentials, with a UNIQUE index on (event_id, email), and        *)
(* registrations, which are UNIQUE on the same pair.                        *)

GetByEventIdAndEmail_AnyEmail(tickets, eventId, email) ==  \* mutant: no AND email
    {t \in tickets : t.eventId = eventId}
GetByEventIdAndEmail(tickets, eventId, email) ==
    {t \in tickets : t.eventId = eventId /\ t.email = email}
GetAllByEmail(tickets, email) == {t \in tickets : t.email = email}

GetOneByEventIdAndEmail_AnyEmail(registrations, eventId, email) ==  \* mutant
    {g \in registrations : g.eventId = eventId}
GetOneByEventIdAndEmail(registrations, eventId, email) ==
    {g \in registrations : g.eventId = eventId /\ g.email = email}

CreateOrUpdateTicketCredential_ByEvent(tickets, eventId, email, data) ==
    \* mutant: the conflict is on event_id alone
    {t \in tickets : t.eventId # eventId}
        \cup {[eventId |-> eventId, email |-> email, data |-> data]}
CreateOrUpdateTicketCredential_ByEmail(tickets, eventId, email, data) ==
    \* mutant: the conflict is on email alone
    {t \in tickets : t.email # email}
        \cup {[eventId |-> eventId, email |-> email, data |-> data]}
\* INSERT ... ON CONFLICT (event_id, email) DO UPDATE
CreateOrUpdateTicketCredential(tickets, eventId, email, data) ==
    (tickets \ GetByEventIdAndEmail(tickets, eventId, email))
        \cup {[eventId |-> eventId, email |-> email, data |-> data]}

-----------------------------------------------------------------------------
(* events: id is the PRIMARY KEY, and all that is kept of a row.  ListEvents *)
(* has no ORDER BY: its rows come as a set.                                  *)

GetEventByID(events, id) == {e \in events : e = id}
ListEvents(events) == events
=============================================================================
