--------------------------- MODULE IdentityProofs ----------------------------
(***************************************************************************)
(* Proofs about Identity, for any number of requests, accounts and         *)
(* identities: when a users row is final, and what the handlers that read  *)
(* it earlier may then still rely on.                                      *)
(*                                                                         *)
(* The invariant says that a row holds one upload whole, with a commitment *)
(* recorded as uploaded by its account, that a request works with such a   *)
(* commitment and every stored credential lies under one, that a request   *)
(* which came in late still finds its account settled and the commitment   *)
(* it read in the row, and that a saved account is settled and has a       *)
(* credential under the commitment of its row.  Nothing is assumed of what *)
(* clients upload: two accounts may upload the same commitment.            *)
(***************************************************************************)
EXTENDS Identity, DatabaseProofs

Status == {0, 200, 201, 400, 401, 404, 500}
Bodies == Addresses \cup {Empty, MarshalUser, RawUser}
Fields == {"identityCommitment", "encryptedInternalNullifier", "encryptedIdentitySecret"}

\* The calls made with the commitment that was read.
WithCommitment == {"getCred", "putCred", "sign"}

Uploaded(id, ic, up) == [id |-> id, commitment |-> ic] \in up

\* What a request knows, given which accounts are saved and what was uploaded.
ReqOK(q, sv, up) ==
    /\ q.pc \in Busy =>
          /\ q.status = 0 /\ q.op \in Ops /\ q.claims \in AllClaims
          /\ q.pc = "readUser" \/ (q.op # "me" /\ q.pc = NextCall[q.op])
          /\ q.sees => q.late /\ q.claims.id \in sv
    /\ q.pc \notin Busy => q.op = Empty
    /\ q.pc \in WithCommitment => q.ic \in Idents /\ Uploaded(q.claims.id, q.ic, up)

UsersOwn ==
    /\ \A u \in users :
          u.identityCommitment # Empty => Uploaded(u.id, u.identityCommitment, uploaded)
    /\ \A u, v \in users : u.id = v.id => u = v
    /\ \A u \in users : \E a \in Accounts : u.id = a.id /\ u.email = a.email

RowsOK ==
    /\ users \subseteq UserRow(IDs, Addresses, Idents)
    /\ UsersOwn
    /\ NoTornIdentity

CredsOK ==
    /\ emailCreds \subseteq [identityCommitment : Idents, data : Addresses]
    /\ \A c \in emailCreds : \E a \in AllClaims :
          Uploaded(a.id, c.identityCommitment, uploaded) /\ a.email = c.data

IssuedOK ==
    /\ \A c \in issued : c.identityCommitment \in Int /\ c.email \in Addresses
    /\ CredentialsBindUploader

ReqsOK ==
    /\ reqs \in [Reqs -> Request]
    /\ \A r \in Reqs : ReqOK(reqs[r], saved, uploaded)

UploadedOK == uploaded \subseteq [id : IDs, commitment : Idents]

\* Local says what holds of each table and request by itself, Later what the
\* requests that came in after the identity was settled may rely on.
Local == RowsOK /\ CredsOK /\ IssuedOK /\ ReqsOK /\ UploadedOK /\ saved \subseteq IDs

LateSettled == \A r \in Reqs : reqs[r].pc \in Busy /\ reqs[r].late => Settled(UID(r))

SavedFound ==
    \A id \in saved :
        /\ Settled(id)
        /\ \E u \in GetUserByID(users, id) :
              GetByIdentityCommitment(emailCreds, u.identityCommitment) # {}

Later == LateSettled /\ NoStaleCommitment /\ SavedFound

Inv == Local /\ Later

-----------------------------------------------------------------------------
(* Requests                                                                *)

LEMMA BusyCalls ==
    /\ Busy = {"readUser", "updateUser", "getCred", "putCred", "sign"}
    /\ "idle" \notin Busy /\ "done" \notin Busy /\ Empty \notin Ops
    /\ Ops = {"me", "update", "getCred", "putCred", "requestCred"}
    /\ NextCall["update"] = "updateUser" /\ NextCall["getCred"] = "getCred"
    /\ NextCall["putCred"] = "putCred" /\ NextCall["requestCred"] = "sign"
    /\ WithCommitment = {"getCred", "putCred", "sign"}
BY DEF Busy, Ops, Empty, NextCall, WithCommitment

LEMMA BlankFields ==
    /\ DOMAIN Blank = Fields
    /\ \A f \in Fields : Blank[f] = Empty
BY DEF Blank, Fields

\* What a client sends is three texts, and no more than that.
LEMMA UploadFields ==
    ASSUME NEW upd \in Uploads \cup {Blank}
    PROVE  /\ upd.identityCommitment \in Idents \cup {Empty}
           /\ upd.encryptedInternalNullifier \in Idents \cup {Empty}
           /\ upd.encryptedIdentitySecret \in Idents \cup {Empty}
           /\ upd = [f \in Fields |-> upd[f]]
<1>1. Blank \in [Fields -> Idents \cup {Empty}]
  <2>1. Blank = [f \in Fields |-> Blank[f]]
    BY DEF Blank, Fields
  <2> QED
    BY <2>1, BlankFields
<1>2. Uploads \subseteq [Fields -> Idents \cup {Empty}]
  BY BlankFields, UploadsAssumption DEF UserUpdate
<1>3. upd \in [Fields -> Idents \cup {Empty}]
  BY <1>1, <1>2
<1> QED
  BY <1>3 DEF Fields

\* An answer forgets everything about the request but its status and body.
Done(status, body) ==
    [op |-> Empty, pc |-> "done", claims |-> NoClaims, upd |-> Blank, ic |-> Empty,
     late |-> FALSE, sees |-> FALSE, status |-> status, body |-> body]

LEMMA AnswerIsDone ==
    ASSUME NEW r \in Reqs, NEW status, NEW body, Answer(r, status, body)
    PROVE  reqs' = [reqs EXCEPT ![r] = Done(status, body)]
<1> DEFINE D == {"op", "pc", "claims", "upd", "ic", "late", "sees", "status", "body"}
           x == [NoRequest EXCEPT !.pc = "done"]
           y == [x EXCEPT !.status = status]
           z == [y EXCEPT !.body = body]
<1>1. DOMAIN NoRequest = D
  BY DEF NoRequest
<1>2. x = [f \in DOMAIN NoRequest |-> IF f = "pc" THEN "done" ELSE NoRequest[f]]
  OBVIOUS
<1>3. y = [f \in DOMAIN NoRequest |-> IF f = "status" THEN status ELSE x[f]]
  BY <1>2
<1>4. z = [f \in DOMAIN NoRequest |-> IF f = "body" THEN body ELSE y[f]]
  BY <1>3
<1>5. reqs' = [reqs EXCEPT ![r] = z]
  BY DEF Answer
<1> HIDE DEF x, y, z
<1>6. z = [f \in D |-> IF f = "body" THEN body ELSE IF f = "status" THEN status
                       ELSE IF f = "pc" THEN "done" ELSE NoRequest[f]]
  BY <1>1, <1>2, <1>3, <1>4
<1>7. z = Done(status, body)
  BY <1>6 DEF Done, NoRequest
<1> QED
  BY <1>5, <1>7

LEMMA DoneOK ==
    ASSUME NEW status \in Status, NEW body \in Bodies, NEW sv, NEW up
    PROVE  Done(status, body) \in Request /\ ReqOK(Done(status, body), sv, up)
<1>1. Done(status, body) \in Request
  <2> DEFINE Upds == Uploads \cup {Blank}
  <2>1. Blank \in Upds
    OBVIOUS
  <2> HIDE DEF Upds
  <2>2. Done(status, body)
          \in [op : Ops \cup {Empty}, pc : Busy \cup {"idle", "done"}, claims : Claims,
              upd : Upds, ic : Idents \cup {Empty}, late : BOOLEAN, sees : BOOLEAN,
              status : Status, body : Bodies]
    BY <2>1 DEF Done, Claims
  <2> QED
    BY <2>2 DEF Request, Upds, Status, Bodies
<1>2. ReqOK(Done(status, body), sv, up)
  BY BusyCalls, BlankFields DEF Done, ReqOK
<1> QED
  BY <1>1, <1>2

LEMMA IdleOK ==
    ASSUME NEW sv, NEW up
    PROVE  NoRequest \in Request /\ ReqOK(NoRequest, sv, up)
<1> DEFINE Upds == Uploads \cup {Blank}
<1>1. Blank \in Upds
  OBVIOUS
<1> HIDE DEF Upds
<1>2. NoRequest
        \in [op : Ops \cup {Empty}, pc : Busy \cup {"idle", "done"}, claims : Claims,
            upd : Upds, ic : Idents \cup {Empty}, late : BOOLEAN, sees : BOOLEAN,
            status : Status, body : Bodies]
  BY <1>1 DEF NoRequest, Claims, Status, Bodies
<1>3. NoRequest \in Request
  BY <1>2 DEF Request, Upds, Status, Bodies
<1>4. ReqOK(NoRequest, sv, up)
  BY BusyCalls, BlankFields DEF NoRequest, ReqOK
<1> QED
  BY <1>3, <1>4

LEMMA RequestGoesOn ==
    ASSUME NEW q \in Request, NEW pc, NEW ic
    PROVE  [q EXCEPT !.pc = pc, !.ic = ic]
             = [op |-> q.op, pc |-> pc, claims |-> q.claims, upd |-> q.upd, ic |-> ic,
                late |-> q.late, sees |-> q.sees, status |-> q.status, body |-> q.body]
<1>1. DOMAIN q = {"op", "pc", "claims", "upd", "ic", "late", "sees", "status", "body"}
  BY DEF Request
<1> DEFINE x == [q EXCEPT !.pc = pc]
           y == [x EXCEPT !.ic = ic]
<1>2. x = [f \in DOMAIN q |-> IF f = "pc" THEN pc ELSE q[f]]
  OBVIOUS
<1>3. y = [f \in DOMAIN q |-> IF f = "ic" THEN ic ELSE x[f]]
  BY <1>2
<1>4. y = [q EXCEPT !.pc = pc, !.ic = ic]
  OBVIOUS
<1> HIDE DEF x, y
<1>5. y = [op |-> q.op, pc |-> pc, claims |-> q.claims, upd |-> q.upd, ic |-> ic,
           late |-> q.late, sees |-> q.sees, status |-> q.status, body |-> q.body]
  BY <1>1, <1>2, <1>3
<1> QED
  BY <1>4, <1>5

\* A request as it starts, in the words of Receive and field by field.
Received(op, claims, upd, late, sees) ==
    [NoRequest EXCEPT !.op = op, !.pc = "readUser", !.claims = claims,
                      !.upd = upd, !.late = late, !.sees = sees]

Started(op, claims, upd, late, sees) ==
    [op |-> op, pc |-> "readUser", claims |-> claims, upd |-> upd, ic |-> Empty,
     late |-> late, sees |-> sees, status |-> 0, body |-> Empty]

LEMMA RequestStarts ==
    ASSUME NEW op, NEW claims, NEW upd, NEW late, NEW sees
    PROVE  Received(op, claims, upd, late, sees) = Started(op, claims, upd, late, sees)
<1> DEFINE D == {"op", "pc", "claims", "upd", "ic", "late", "sees", "status", "body"}
           u == [NoRequest EXCEPT !.op = op]
           v == [u EXCEPT !.pc = "readUser"]
           w == [v EXCEPT !.claims = claims]
           x == [w EXCEPT !.upd = upd]
           y == [x EXCEPT !.late = late]
           z == [y EXCEPT !.sees = sees]
<1>1. DOMAIN NoRequest = D
  BY DEF NoRequest
<1>2. u = [f \in DOMAIN NoRequest |-> IF f = "op" THEN op ELSE NoRequest[f]]
  OBVIOUS
<1>3. v = [f \in DOMAIN NoRequest |-> IF f = "pc" THEN "readUser" ELSE u[f]]
  BY <1>2
<1>4. w = [f \in DOMAIN NoRequest |-> IF f = "claims" THEN claims ELSE v[f]]
  BY <1>3
<1>5. x = [f \in DOMAIN NoRequest |-> IF f = "upd" THEN upd ELSE w[f]]
  BY <1>4
<1>6. y = [f \in DOMAIN NoRequest |-> IF f = "late" THEN late ELSE x[f]]
  BY <1>5
<1>7. z = [f \in DOMAIN NoRequest |-> IF f = "sees" THEN sees ELSE y[f]]
  BY <1>6
<1>8. z = [NoRequest EXCEPT !.op = op, !.pc = "readUser", !.claims = claims,
                            !.upd = upd, !.late = late, !.sees = sees]
  OBVIOUS
<1> HIDE DEF u, v, w, x, y, z
<1>9. z = [f \in D |-> IF f = "sees" THEN sees ELSE IF f = "late" THEN late
                       ELSE IF f = "upd" THEN upd ELSE IF f = "claims" THEN claims
                       ELSE IF f = "pc" THEN "readUser" ELSE IF f = "op" THEN op
                       ELSE NoRequest[f]]
  BY <1>1, <1>2, <1>3, <1>4, <1>5, <1>6, <1>7
<1>10. z = [op |-> op, pc |-> "readUser", claims |-> claims, upd |-> upd, ic |-> Empty,
            late |-> late, sees |-> sees, status |-> 0, body |-> Empty]
  BY <1>9 DEF NoRequest
<1> QED
  BY <1>8, <1>10 DEF Received, Started

-----------------------------------------------------------------------------
(* The steps, each table and request by itself                             *)

LEMMA InitInv == Init => Inv
<1> SUFFICES ASSUME Init PROVE Inv
  OBVIOUS
<1>1. NoRequest \in Request /\ ReqOK(NoRequest, saved, uploaded)
  BY IdleOK
<1>2. Local
  BY <1>1 DEF Init, Local, RowsOK, UsersOwn, NoTornIdentity, CredsOK, IssuedOK,
     CredentialsBindUploader, ReqsOK, UploadedOK
<1>3. Later
  BY BusyCalls DEF Init, Later, LateSettled, NoStaleCommitment, SavedFound, NoRequest
<1> QED
  BY <1>2, <1>3 DEF Inv

\* The claims a request may come in with are those of a row, or of no row.
LEMMA BearersAreClaims == Bearers \subseteq Claims
BY DEF Bearers, Claims

LEMMA OneRequest ==
    ASSUME ReqsOK, saved \subseteq saved', uploaded \subseteq uploaded',
           NEW r \in Reqs, NEW x \in Request, ReqOK(x, saved', uploaded'), reqs' = [reqs EXCEPT ![r] = x]
    PROVE  ReqsOK'
<1>1. \A q \in Reqs : reqs'[q] = IF q = r THEN x ELSE reqs[q]
  BY DEF ReqsOK
<1>2. reqs' \in [Reqs -> Request]
  BY DEF ReqsOK
<1>3. \A q \in Reqs : ReqOK(reqs[q], saved, uploaded) => ReqOK(reqs[q], saved', uploaded')
  BY DEF ReqOK, Uploaded
<1> QED
  BY <1>1, <1>2, <1>3 DEF ReqsOK

LEMMA AnswerReqs ==
    ASSUME ReqsOK, saved \subseteq saved', uploaded \subseteq uploaded',
           NEW r \in Reqs, NEW status \in Status, NEW body \in Bodies, Answer(r, status, body)
    PROVE  ReqsOK'
BY AnswerIsDone, DoneOK, OneRequest

LEMMA NothingElse ==
    ASSUME Local, UNCHANGED <<users, emailCreds, issued, saved, uploaded>>, ReqsOK'
    PROVE  Local'
BY DEF Local, RowsOK, UsersOwn, NoTornIdentity, CredsOK, IssuedOK, CredentialsBindUploader,
       UploadedOK

LEMMA ReceiveLocal ==
    ASSUME Local, NEW r \in Reqs, NEW op \in Ops, NEW claims \in Claims,
           NEW upd \in Uploads \cup {Blank}, Receive(r, op, claims, upd),
           claims.id \in saved => Settled(claims.id)
    PROVE  Local'
<1> DEFINE Upds == Uploads \cup {Blank}
           late == Settled(claims.id)
           sees == claims.id \in saved
           x == Started(op, claims, upd, late, sees)
<1>1. UNCHANGED <<users, emailCreds, issued, saved, uploaded>>
  BY DEF Receive
<1>2. ReqsOK
  BY DEF Local
<1>3. CASE Answer(r, 401, Empty)
  <2>1. 401 \in Status /\ Empty \in Bodies
    BY DEF Status, Bodies
  <2> QED
    BY <1>1, <1>2, <1>3, <2>1, AnswerReqs, NothingElse
<1>4. CASE ~Answer(r, 401, Empty)
  <2>1. claims.id # Empty /\ claims.email # Empty
        /\ reqs' = [reqs EXCEPT ![r] = Received(op, claims, upd, late, sees)]
    BY <1>4 DEF Receive, Received
  <2>2. claims \in AllClaims
    BY <2>1 DEF Claims, AllClaims, NoClaims
  <2>3. upd \in Upds
    OBVIOUS
  <2>4. late \in BOOLEAN /\ sees \in BOOLEAN
    BY DEF Settled
  <2>5. sees => late
    OBVIOUS
  <2>6. sees => claims.id \in saved'
    BY <1>1
  <2> HIDE DEF late, sees, Upds
  <2>7. \A l, s : Received(op, claims, upd, l, s) = Started(op, claims, upd, l, s)
    BY RequestStarts
  <2>8. reqs' = [reqs EXCEPT ![r] = x]
    BY <2>1, <2>7
  <2>9. x \in [op : Ops \cup {Empty}, pc : Busy \cup {"idle", "done"}, claims : Claims,
               upd : Upds, ic : Idents \cup {Empty}, late : BOOLEAN, sees : BOOLEAN,
               status : Status, body : Bodies]
    BY <2>3, <2>4, BusyCalls DEF Status, Bodies, Started
  <2>10. x \in Request
    BY <2>9 DEF Request, Upds, Status, Bodies
  <2>11. ReqOK(x, saved', uploaded')
    BY <2>2, <2>3, <2>5, <2>6, BusyCalls DEF ReqOK, Started
  <2> HIDE DEF x
  <2>12. ReqsOK'
    BY <1>1, <1>2, <2>8, <2>10, <2>11, OneRequest
  <2> QED
    BY <1>1, <2>12, NothingElse
<1> QED
  BY <1>3, <1>4

\* A row of the account named in the claims holds a commitment which that
\* account uploaded.
LEMMA RowOfClaims ==
    ASSUME Local, NEW claims \in AllClaims, NEW u \in GetUserByID(users, claims.id),
           u.identityCommitment # Empty
    PROVE  /\ u.identityCommitment \in Idents
           /\ Uploaded(claims.id, u.identityCommitment, uploaded)
<1>1. u \in users /\ u.id = claims.id
  BY DEF GetUserByID
<1>2. u \in UserRow(IDs, Addresses, Idents)
      /\ Uploaded(u.id, u.identityCommitment, uploaded)
  BY <1>1 DEF Local, RowsOK, UsersOwn
<1>3. u.identityCommitment \in Idents
  BY <1>2 DEF UserRow
<1> QED
  BY <1>1, <1>2, <1>3

\* A request at a later call than the first, and the request that goes on to it.
OnTo(q, pc, ic) ==
    [op |-> q.op, pc |-> pc, claims |-> q.claims, upd |-> q.upd, ic |-> ic,
     late |-> q.late, sees |-> q.sees, status |-> q.status, body |-> q.body]

Proceeds(r, u) ==
    LET q == reqs[r] IN
    /\ q.op # "me" /\ ~Refused(q.op, u) /\ ~NothingToGet(q.op, u)
    /\ reqs' = [reqs EXCEPT ![r] = OnTo(q, NextCall[q.op], u.identityCommitment)]

\* The answers of the first call, and what is so when it is not the last.
LEMMA ReadUserOutcome ==
    ASSUME Local, NEW r \in Reqs, ReadUser(r)
    PROVE  /\ UNCHANGED <<users, emailCreds, issued, saved, uploaded>>
           /\ reqs[r].pc = "readUser"
           /\ \/ \E status \in Status, body \in Bodies : Answer(r, status, body)
              \/ \E u \in GetUserByID(users, UID(r)) : Proceeds(r, u)
<1>1. UNCHANGED <<users, emailCreds, issued, saved, uploaded>> /\ reqs[r].pc = "readUser"
  BY DEF ReadUser, At
<1>2. Empty \in Bodies /\ MarshalUser \in Bodies
  BY DEF Bodies
<1>3. 200 \in Status /\ 400 \in Status /\ 404 \in Status /\ 500 \in Status
  BY DEF Status
<1>4. CASE Answer(r, 404, Empty) \/ Answer(r, 500, Empty)
  BY <1>1, <1>2, <1>3, <1>4
<1>5. ASSUME NEW u \in GetUserByID(users, UID(r)), UserRead(r, u)
      PROVE  \/ \E status \in Status, body \in Bodies : Answer(r, status, body)
             \/ Proceeds(r, u)
  <2> DEFINE q == reqs[r]
             op == q.op
             ic == u.identityCommitment
  <2>1. CASE Answer(r, 200, MarshalUser) \/ Answer(r, 400, Empty) \/ Answer(r, 200, Empty)
    BY <1>2, <1>3, <2>1
  <2>2. CASE /\ op # "me" /\ ~Refused(op, u) /\ ~NothingToGet(op, u)
             /\ reqs' = [reqs EXCEPT ![r].pc = NextCall[op], ![r].ic = ic]
    <3>1. q \in Request /\ reqs \in [Reqs -> Request]
      BY DEF Local, ReqsOK
    <3>2. reqs' = [reqs EXCEPT ![r] = [q EXCEPT !.pc = NextCall[op], !.ic = ic]]
      BY <2>2, <3>1
    <3>3. \A pc, i : [q EXCEPT !.pc = pc, !.ic = i] = OnTo(q, pc, i)
      BY <3>1, RequestGoesOn DEF OnTo
    <3>4. reqs' = [reqs EXCEPT ![r] = OnTo(q, NextCall[op], ic)]
      BY <3>2, <3>3, Zenon
    <3> QED
      BY <2>2, <3>4 DEF Proceeds
  <2> QED
    BY <1>5, <2>1, <2>2 DEF UserRead
<1> QED
  BY <1>1, <1>4, <1>5 DEF ReadUser

LEMMA Running ==
    ASSUME Local, NEW r \in Reqs, reqs[r].pc \in Busy
    PROVE  /\ reqs[r] \in Request /\ ReqOK(reqs[r], saved, uploaded)
           /\ reqs[r].claims \in AllClaims /\ reqs[r].op \in Ops
BY DEF Local, ReqsOK, ReqOK

LEMMA ProceedsOK ==
    ASSUME Local, NEW r \in Reqs, reqs[r].pc = "readUser",
           NEW u \in GetUserByID(users, UID(r)), Proceeds(r, u)
    PROVE  LET x == OnTo(reqs[r], NextCall[reqs[r].op], u.identityCommitment)
           IN  x \in Request /\ ReqOK(x, saved, uploaded)
<1> DEFINE q == reqs[r]
           pc == NextCall[q.op]
           ic == u.identityCommitment
           Upds == Uploads \cup {Blank}
<1>1. q \in Request /\ ReqOK(q, saved, uploaded) /\ q.claims \in AllClaims /\ q.op \in Ops
      /\ q.pc \in Busy
  BY Running, BusyCalls
<1>2. q.op # "me" /\ ~Refused(q.op, u) /\ ~NothingToGet(q.op, u)
  BY DEF Proceeds
<1>3. pc \in Busy
  BY <1>1, <1>2, BusyCalls
<1>4. ic \in Idents \cup {Empty}
  BY DEF GetUserByID, Local, RowsOK, UserRow
<1>5. pc \in WithCommitment => ic # Empty
  BY <1>1, <1>2, BusyCalls DEF Refused, NothingToGet
<1>6. u \in GetUserByID(users, q.claims.id)
  BY DEF UID
<1>7. pc \in WithCommitment => ic \in Idents /\ Uploaded(q.claims.id, ic, uploaded)
  BY <1>1, <1>5, <1>6, RowOfClaims
<1> HIDE DEF q, pc, ic, Upds
<1>8. q.upd \in Upds /\ q.late \in BOOLEAN /\ q.sees \in BOOLEAN /\ q.claims \in Claims
      /\ q.status \in Status /\ q.body \in Bodies
  BY <1>1 DEF Request, Upds, Status, Bodies
<1>9. OnTo(q, pc, ic)
        \in [op : Ops \cup {Empty}, pc : Busy \cup {"idle", "done"}, claims : Claims,
            upd : Upds, ic : Idents \cup {Empty}, late : BOOLEAN, sees : BOOLEAN,
            status : Status, body : Bodies]
  BY <1>1, <1>3, <1>4, <1>8 DEF OnTo
<1>10. OnTo(q, pc, ic) \in Request
  BY <1>9 DEF Request, Upds, Status, Bodies
<1>11. pc = NextCall[q.op]
  BY DEF pc, q
<1>12. ReqOK(OnTo(q, pc, ic), saved, uploaded)
  BY <1>1, <1>2, <1>3, <1>7, <1>11 DEF OnTo, ReqOK
<1> QED
  BY <1>10, <1>12 DEF q, pc, ic

LEMMA ReadUserLocal ==
    ASSUME Local, NEW r \in Reqs, ReadUser(r)
    PROVE  Local'
<1>1. /\ UNCHANGED <<users, emailCreds, issued, saved, uploaded>> /\ reqs[r].pc = "readUser"
      /\ \/ \E status \in Status, body \in Bodies : Answer(r, status, body)
         \/ \E u \in GetUserByID(users, UID(r)) : Proceeds(r, u)
  BY ReadUserOutcome
<1>2. ReqsOK /\ UNCHANGED <<saved, uploaded>>
  BY <1>1 DEF Local
<1>3. ASSUME NEW status \in Status, NEW body \in Bodies, Answer(r, status, body)
      PROVE  Local'
  BY <1>1, <1>2, <1>3, AnswerReqs, NothingElse
<1>4. ASSUME NEW u \in GetUserByID(users, UID(r)), Proceeds(r, u)
      PROVE  Local'
  <2> DEFINE x == OnTo(reqs[r], NextCall[reqs[r].op], u.identityCommitment)
  <2>1. x \in Request /\ ReqOK(x, saved, uploaded)
    BY <1>1, <1>4, ProceedsOK
  <2>2. reqs' = [reqs EXCEPT ![r] = x]
    BY <1>4 DEF Proceeds
  <2> HIDE DEF x
  <2>3. ReqsOK'
    BY <1>2, <2>1, <2>2, OneRequest
  <2> QED
    BY <1>1, <2>3, NothingElse
<1> QED
  BY <1>1, <1>3, <1>4

\* What UpdateUser makes of the rows: each keeps its keys, and those with the id
\* take the three fields of the update.
LEMMA WrittenRows ==
    ASSUME Local, NEW r \in Reqs, reqs[r].pc = "updateUser",
           users' = UpdateUser(users, UID(r), reqs[r].upd)
    PROVE  \A v : v \in users' <=>
             \E u \in users :
                v = IF u.id # UID(r) THEN u
                    ELSE [id |-> u.id, email |-> u.email,
                          identityCommitment |-> reqs[r].upd.identityCommitment,
                          encryptedInternalNullifier |-> reqs[r].upd.encryptedInternalNullifier,
                          encryptedIdentitySecret |-> reqs[r].upd.encryptedIdentitySecret]
<1> DEFINE upd == reqs[r].upd
           id == UID(r)
<1>1. users \in SUBSET UserRow(IDs, Addresses, Idents)
  BY DEF Local, RowsOK
<1>2. users' = UpdateUser(users, id, upd)
  OBVIOUS
<1> HIDE DEF upd, id
<1>3. \A v : v \in UpdateUser(users, id, upd) <=>
        \E u \in users :
           v = IF u.id # id THEN u
               ELSE [id |-> u.id, email |-> u.email,
                     identityCommitment |-> upd.identityCommitment,
                     encryptedInternalNullifier |-> upd.encryptedInternalNullifier,
                     encryptedIdentitySecret |-> upd.encryptedIdentitySecret]
  BY <1>1, UpdateUserRows
<1> QED
  BY <1>2, <1>3 DEF upd, id

\* More uploads take no credential's uploader away.
LEMMA MoreUploads ==
    ASSUME NEW c, NEW up, NEW more, up \subseteq more, NamesUpload(c, up, AllClaims)
    PROVE  NamesUpload(c, more, AllClaims)
BY DEF NamesUpload

LEMMA WriteUserLocal ==
    ASSUME Local, NEW r \in Reqs, WriteUser(r)
    PROVE  Local'
<1> DEFINE upd == reqs[r].upd
           claims == reqs[r].claims
           new(u) == [id |-> u.id, email |-> u.email,
                      identityCommitment |-> upd.identityCommitment,
                      encryptedInternalNullifier |-> upd.encryptedInternalNullifier,
                      encryptedIdentitySecret |-> upd.encryptedIdentitySecret]
<1>1. UNCHANGED <<emailCreds, issued, saved>> /\ reqs[r].pc = "updateUser"
      /\ (Answer(r, 200, RawUser) \/ Answer(r, 500, Empty))
  BY DEF WriteUser, At
<1>2. /\ uploaded \subseteq uploaded'
      /\ uploaded' \subseteq uploaded \cup NewUpload(UID(r), upd.identityCommitment)
  BY DEF WriteUser
<1>3. claims \in AllClaims /\ upd \in Uploads \cup {Blank} /\ UID(r) = claims.id
  BY <1>1, Running, BusyCalls DEF Request, UID
<1>4. /\ upd.identityCommitment \in Idents \cup {Empty}
      /\ upd.encryptedInternalNullifier \in Idents \cup {Empty}
      /\ upd.encryptedIdentitySecret \in Idents \cup {Empty}
      /\ upd = [f \in Fields |-> upd[f]]
  BY <1>3, UploadFields
<1>5. UploadedOK'
  <2> HIDE DEF upd, claims
  <2> QED
    BY <1>2, <1>3, <1>4 DEF NewUpload, Local, UploadedOK, IDs
<1>6. ReqsOK'
  <2>1. 200 \in Status /\ 500 \in Status /\ RawUser \in Bodies /\ Empty \in Bodies
    BY DEF Status, Bodies
  <2> QED
    BY <1>1, <1>2, <2>1, AnswerReqs DEF Local
<1>7. CredsOK'
  BY <1>1, <1>2 DEF Local, CredsOK, Uploaded
<1>8. IssuedOK'
  BY <1>1, <1>2, MoreUploads DEF Local, IssuedOK, CredentialsBindUploader
<1>9. CASE UNCHANGED users
  <2>1. RowsOK'
    BY <1>2, <1>9 DEF Local, RowsOK, UsersOwn, NoTornIdentity, Uploaded
  <2> QED
    BY <1>1, <1>5, <1>6, <1>7, <1>8, <2>1 DEF Local
<1>10. CASE /\ users' = UpdateUser(users, UID(r), upd)
            /\ uploaded' = uploaded \cup NewUpload(UID(r), upd.identityCommitment)
  <2>1. \A v \in users' : \E u \in users : v = IF u.id # UID(r) THEN u ELSE new(u)
    BY <1>1, <1>10, WrittenRows
  <2>2. upd.identityCommitment # Empty
          => Uploaded(UID(r), upd.identityCommitment, uploaded')
    BY <1>10 DEF NewUpload, Uploaded
  <2> HIDE DEF upd, claims
  <2>3. ASSUME NEW v \in users'
        PROVE  /\ v \in UserRow(IDs, Addresses, Idents)
               /\ v.identityCommitment # Empty
                     => Uploaded(v.id, v.identityCommitment, uploaded')
               /\ [f \in DOMAIN Blank |-> v[f]] \in Uploads \cup {Blank}
               /\ \E a \in Accounts : v.id = a.id /\ v.email = a.email
    <3>1. PICK u \in users : v = IF u.id # UID(r) THEN u ELSE new(u)
      BY <2>1
    <3>2. u \in UserRow(IDs, Addresses, Idents)
          /\ (u.identityCommitment # Empty => Uploaded(u.id, u.identityCommitment, uploaded))
          /\ \E a \in Accounts : u.id = a.id /\ u.email = a.email
      BY DEF Local, RowsOK, UsersOwn
    <3>3. CASE u.id # UID(r)
      <4>1. [f \in DOMAIN Blank |-> u[f]] \in Uploads \cup {Blank}
        BY DEF Local, RowsOK, NoTornIdentity
      <4> QED
        BY <1>2, <3>1, <3>2, <3>3, <4>1 DEF Uploaded
    <3>4. CASE u.id = UID(r)
      <4>1. v = new(u)
        BY <3>1, <3>4
      <4>2. v \in UserRow(IDs, Addresses, Idents)
        BY <1>4, <3>2, <4>1 DEF UserRow
      <4>3. v.id = UID(r) /\ v.email = u.email
            /\ v.identityCommitment = upd.identityCommitment
        BY <3>4, <4>1
      <4>4. \A f \in Fields : v[f] = upd[f]
        BY <4>1 DEF Fields
      <4>5. [f \in DOMAIN Blank |-> v[f]] = upd
        BY <1>4, <4>4, BlankFields
      <4> HIDE DEF new
      <4> QED
        BY <1>3, <2>2, <3>2, <3>4, <4>2, <4>3, <4>5
    <3> QED
      BY <3>3, <3>4
  <2>4. ASSUME NEW v \in users', NEW w \in users', v.id = w.id
        PROVE  v = w
    <3>1. PICK u \in users : v = IF u.id # UID(r) THEN u ELSE new(u)
      BY <2>1
    <3>2. PICK x \in users : w = IF x.id # UID(r) THEN x ELSE new(x)
      BY <2>1
    <3>3. v.id = u.id /\ w.id = x.id
      BY <3>1, <3>2
    <3>4. u = x
      BY <2>4, <3>3 DEF Local, RowsOK, UsersOwn
    <3> QED
      BY <3>1, <3>2, <3>4
  <2>5. RowsOK'
    BY <2>3, <2>4 DEF RowsOK, UsersOwn, NoTornIdentity
  <2> QED
    BY <1>1, <1>5, <1>6, <1>7, <1>8, <2>5 DEF Local
<1> QED
  BY <1>9, <1>10 DEF WriteUser

LEMMA GetEmailCredentialLocal ==
    ASSUME Local, NEW r \in Reqs, GetEmailCredential(r)
    PROVE  Local'
<1>1. UNCHANGED <<users, emailCreds, issued, saved, uploaded>>
  BY DEF GetEmailCredential
<1>2. \A c \in emailCreds : c.data \in Bodies
  BY DEF Local, CredsOK, Bodies
<1>3. 200 \in Status /\ 500 \in Status /\ Empty \in Bodies
  BY DEF Status, Bodies
<1>4. \E status \in Status, body \in Bodies : Answer(r, status, body)
  BY <1>2, <1>3 DEF GetEmailCredential, GetByIdentityCommitment
<1>5. ReqsOK'
  BY <1>1, <1>4, AnswerReqs DEF Local
<1> QED
  BY <1>1, <1>5, NothingElse

\* The credential is stored under a commitment of the account that sends it.
LEMMA PutEmailCredentialLocal ==
    ASSUME Local, NEW r \in Reqs, PutEmailCredential(r)
    PROVE  Local'
<1> DEFINE q == reqs[r]
           row == [identityCommitment |-> q.ic, data |-> q.claims.email]
<1>1. UNCHANGED <<users, issued, uploaded>> /\ q.pc = "putCred"
  BY DEF PutEmailCredential, At
<1>2. ReqOK(q, saved, uploaded) /\ q.claims \in AllClaims /\ q.ic \in Idents
      /\ Uploaded(q.claims.id, q.ic, uploaded)
  BY <1>1, Running, BusyCalls DEF ReqOK
<1>3. row \in [identityCommitment : Idents, data : Addresses]
      /\ \E a \in AllClaims :
            Uploaded(a.id, row.identityCommitment, uploaded) /\ a.email = row.data
  BY <1>2 DEF Addresses
<1>4. emailCreds' \subseteq emailCreds \cup {row}
  BY DEF PutEmailCredential, CreateOrUpdateEmailCredential
<1> HIDE DEF row
<1>5. CredsOK'
  BY <1>1, <1>3, <1>4 DEF Local, CredsOK
<1>6. saved \subseteq saved' /\ saved' \subseteq saved \cup {q.claims.id}
      /\ (Answer(r, 201, Empty) \/ Answer(r, 500, Empty))
  BY DEF PutEmailCredential, UID
<1>7. saved' \subseteq IDs
  BY <1>2, <1>6 DEF Local, IDs
<1>8. 201 \in Status /\ 500 \in Status /\ Empty \in Bodies
  BY DEF Status, Bodies
<1>9. ReqsOK'
  BY <1>1, <1>6, <1>8, AnswerReqs DEF Local
<1> QED
  BY <1>1, <1>5, <1>7, <1>9 DEF Local, RowsOK, UsersOwn, NoTornIdentity, IssuedOK,
     CredentialsBindUploader, UploadedOK

LEMMA RequestEmailCredentialLocal ==
    ASSUME Local, NEW r \in Reqs, RequestEmailCredential(r)
    PROVE  Local'
<1> DEFINE q == reqs[r]
<1>1. UNCHANGED <<users, emailCreds, saved, uploaded>> /\ q.pc = "sign"
      /\ (Answer(r, 201, Empty) \/ Answer(r, 500, Empty))
  BY DEF RequestEmailCredential, At
<1>2. q.claims \in AllClaims /\ q.ic \in Idents /\ Uploaded(q.claims.id, q.ic, uploaded)
  BY <1>1, Running, BusyCalls DEF ReqOK
<1>3. q.ic # Empty /\ q.claims.email \in Addresses
  BY <1>2, IdentsAssumption DEF Addresses
<1>4. ASSUME NEW c \in GenerateSignedCredential(Service.emailCredentialContextID,
                          q.claims.email, q.claims.email, q.ic)
      PROVE  /\ c.identityCommitment \in Int /\ c.email \in Addresses
             /\ NamesUpload(c, uploaded, AllClaims)
  <2>1. PICK n \in Parsed(q.ic) :
           c = [context |-> Service.emailCredentialContextID, email |-> q.claims.email,
                attachment |-> q.claims.email, chainID |-> Service.issuerChainID,
                identityCommitment |-> n]
    BY <1>4 DEF GenerateSignedCredential
  <2>2. q.ic \in Numerals /\ n = ValueOf[q.ic] /\ n \in Int
    BY <1>3, <2>1, ValuesAssumption DEF Parsed
  <2>3. c.identityCommitment = n /\ c.email = q.claims.email
    BY <2>1
  <2>4. PICK p \in uploaded : p.id = q.claims.id /\ p.commitment = q.ic
    BY <1>2 DEF Uploaded
  <2> HIDE DEF q
  <2> QED
    BY <1>2, <1>3, <2>2, <2>3, <2>4 DEF NamesUpload
<1>5. IssuedOK'
  <2>1. \/ UNCHANGED issued
        \/ \E c \in GenerateSignedCredential(Service.emailCredentialContextID,
                       q.claims.email, q.claims.email, q.ic) : issued' = issued \cup {c}
    BY DEF RequestEmailCredential
  <2> HIDE DEF q
  <2> QED
    BY <1>1, <1>4, <2>1 DEF Local, IssuedOK, CredentialsBindUploader
<1>6. 201 \in Status /\ 500 \in Status /\ Empty \in Bodies
  BY DEF Status, Bodies
<1>7. ReqsOK'
  BY <1>1, <1>6, AnswerReqs DEF Local
<1> QED
  BY <1>1, <1>5, <1>7 DEF Local, RowsOK, UsersOwn, NoTornIdentity, CredsOK, UploadedOK

LEMMA BackendCrashLocal ==
    ASSUME Local, BackendCrash
    PROVE  Local'
<1>1. NoRequest \in Request /\ ReqOK(NoRequest, saved, uploaded)
  BY IdleOK
<1>2. ReqsOK'
  BY <1>1 DEF BackendCrash, ReqsOK
<1>3. UNCHANGED <<users, emailCreds, issued, saved, uploaded>>
  BY DEF BackendCrash
<1> QED
  BY <1>2, <1>3, NothingElse

\* The row of a new account: it holds no identity yet, and its keys are new.
LEMMA SignUpLocal ==
    ASSUME Local, NEW a \in Accounts, SignUp(a)
    PROVE  Local'
<1> DEFINE row == NewUser(a.id, a.email)
<1>1. UNCHANGED <<emailCreds, issued, reqs, saved, uploaded>>
  BY DEF SignUp
<1>2. users' = users \cup {row} /\ \A u \in users : u.id # a.id
  BY DEF SignUp, UserKeysFree, GetUserByID
<1>3. row.id = a.id /\ row.email = a.email /\ row.identityCommitment = Empty
      /\ [f \in DOMAIN Blank |-> row[f]] = Blank
  BY BlankFields DEF NewUser, Blank, Fields
<1>4. row \in UserRow(IDs, Addresses, Idents)
  BY DEF NewUser, UserRow, IDs, Addresses, AllClaims
<1> HIDE DEF row
<1>5. UsersOwn'
  BY <1>1, <1>2, <1>3 DEF Local, RowsOK, UsersOwn
<1>6. NoTornIdentity'
  BY <1>2, <1>3 DEF Local, RowsOK, NoTornIdentity
<1> QED
  BY <1>1, <1>2, <1>4, <1>5, <1>6
     DEF Local, RowsOK, CredsOK, IssuedOK, CredentialsBindUploader, ReqsOK, UploadedOK

LEMMA NextLocal ==
    ASSUME Inv, [Next]_vars
    PROVE  Local'
<1>1. Local /\ \A id \in saved : Settled(id)
  BY DEF Inv, Later, SavedFound
<1>2. CASE UNCHANGED vars
  BY <1>1, <1>2 DEF vars, Local, RowsOK, UsersOwn, NoTornIdentity, CredsOK, IssuedOK,
                    CredentialsBindUploader, ReqsOK, UploadedOK
<1>3. ASSUME NEW r \in Reqs, NEW op \in Ops, NEW claims \in Claims,
             NEW upd \in Uploads \cup {Blank}, Receive(r, op, claims, upd)
      PROVE  Local'
  BY <1>1, <1>3, ReceiveLocal
<1>4. ASSUME NEW r \in Reqs, Step(r)
      PROVE  Local'
  BY <1>1, <1>4, ReadUserLocal, WriteUserLocal, GetEmailCredentialLocal,
     PutEmailCredentialLocal, RequestEmailCredentialLocal DEF Step
<1>5. CASE BackendCrash
  BY <1>1, <1>5, BackendCrashLocal
<1>6. ASSUME NEW a \in Accounts, SignUp(a)
      PROVE  Local'
  BY <1>1, <1>6, SignUpLocal
<1> QED
  BY <1>2, <1>3, <1>4, <1>5, <1>6, BearersAreClaims DEF Next

-----------------------------------------------------------------------------
(* The steps, and what a late request relies on                            *)

\* How a request comes to be where it is, when it still has a call to make.
CameIn(r) ==
    /\ reqs'[r].pc = "readUser"
    /\ reqs'[r].late = Settled(reqs'[r].claims.id)
    /\ UNCHANGED <<users, emailCreds, issued, saved, uploaded>>

WentOn(r) ==
    /\ reqs[r].pc = "readUser"
    /\ \E u \in GetUserByID(users, UID(r)) :
          /\ ~Refused(reqs[r].op, u) /\ reqs[r].op # "me"
          /\ reqs'[r] = OnTo(reqs[r], NextCall[reqs[r].op], u.identityCommitment)
    /\ UNCHANGED <<users, emailCreds, issued, saved, uploaded>>

LEMMA OthersStay ==
    ASSUME Local, NEW r \in Reqs,
           \/ Step(r)
           \/ \E op \in Ops, claims \in Claims :
                 \E upd \in Uploads \cup {Blank} : Receive(r, op, claims, upd)
    PROVE  \A q \in Reqs : q # r => reqs'[q] = reqs[q]
<1>1. reqs \in [Reqs -> Request]
  BY DEF Local, ReqsOK
<1>2. CASE Step(r)
  <2>1. CASE ReadUser(r)
    BY <1>1, <2>1, ReadUserOutcome DEF Proceeds, Answer
  <2>2. CASE ~ReadUser(r)
    BY <1>1, <1>2, <2>2 DEF Step, WriteUser, GetEmailCredential, PutEmailCredential,
       RequestEmailCredential, Answer
  <2> QED
    BY <2>1, <2>2
<1>3. CASE \E op \in Ops, claims \in Claims :
              \E upd \in Uploads \cup {Blank} : Receive(r, op, claims, upd)
  BY <1>1, <1>3 DEF Receive, Answer
<1> QED
  BY <1>2, <1>3

LEMMA Transitions ==
    ASSUME Inv, [Next]_vars, NEW q \in Reqs, reqs'[q].pc \in Busy
    PROVE  reqs'[q] = reqs[q] \/ CameIn(q) \/ WentOn(q)
<1>1. Local /\ reqs \in [Reqs -> Request]
  BY DEF Inv, Local, ReqsOK
<1>2. ASSUME NEW status, NEW body, Answer(q, status, body)
      PROVE  FALSE
  <2>1. reqs'[q] = Done(status, body)
    BY <1>1, <1>2, AnswerIsDone
  <2> QED
    BY <2>1, BusyCalls DEF Done
<1>3. ASSUME NEW op \in Ops, NEW claims \in Claims,
             NEW upd \in Uploads \cup {Blank}, Receive(q, op, claims, upd)
      PROVE  CameIn(q)
  <2> DEFINE late == Settled(claims.id)
             sees == claims.id \in saved
  <2>1. reqs' = [reqs EXCEPT ![q] = Received(op, claims, upd, late, sees)]
    BY <1>2, <1>3 DEF Receive, Received
  <2> HIDE DEF late, sees
  <2>2. \A l, s : Received(op, claims, upd, l, s) = Started(op, claims, upd, l, s)
    BY RequestStarts
  <2>3. reqs'[q] = Started(op, claims, upd, late, sees)
    BY <1>1, <2>1, <2>2
  <2>4. reqs'[q].pc = "readUser" /\ reqs'[q].late = late /\ reqs'[q].claims = claims
    BY <2>3 DEF Started
  <2>5. UNCHANGED <<users, emailCreds, issued, saved, uploaded>>
    BY <1>3 DEF Receive
  <2>6. late = Settled(reqs'[q].claims.id)
    BY <2>4 DEF late
  <2> QED
    BY <2>4, <2>5, <2>6 DEF CameIn
<1>4. CASE ReadUser(q)
  <2>1. /\ UNCHANGED <<users, emailCreds, issued, saved, uploaded>> /\ reqs[q].pc = "readUser"
        /\ \E u \in GetUserByID(users, UID(q)) : Proceeds(q, u)
    BY <1>1, <1>2, <1>4, ReadUserOutcome
  <2>2. PICK u \in GetUserByID(users, UID(q)) : Proceeds(q, u)
    BY <2>1
  <2>3. reqs'[q] = OnTo(reqs[q], NextCall[reqs[q].op], u.identityCommitment)
    BY <1>1, <2>2 DEF Proceeds
  <2> QED
    BY <2>1, <2>2, <2>3 DEF Proceeds, WentOn
<1>5. ~(WriteUser(q) \/ GetEmailCredential(q) \/ PutEmailCredential(q)
        \/ RequestEmailCredential(q))
  BY <1>2 DEF WriteUser, GetEmailCredential, PutEmailCredential, RequestEmailCredential
<1>6. ASSUME NEW r \in Reqs, r # q,
             \/ Step(r)
             \/ \E op \in Ops, claims \in Claims :
                   \E upd \in Uploads \cup {Blank} : Receive(r, op, claims, upd)
      PROVE  reqs'[q] = reqs[q]
  BY <1>1, <1>6, OthersStay
<1>7. ~BackendCrash
  BY BusyCalls DEF BackendCrash, NoRequest
<1>8. CASE UNCHANGED vars \/ \E a \in Accounts : SignUp(a)
  BY <1>8 DEF vars, SignUp
<1>9. CASE \E r \in Reqs :
              \/ \E op \in Ops, claims \in Claims :
                    \E upd \in Uploads \cup {Blank} : Receive(r, op, claims, upd)
              \/ Step(r)
  BY <1>3, <1>4, <1>5, <1>6, <1>9 DEF Step
<1> QED
  BY <1>7, <1>8, <1>9, BearersAreClaims DEF Next

\* Who writes the users table.
Wrote(r) ==
    /\ reqs[r].pc = "updateUser"
    /\ GetUserByID(users, UID(r)) # {}
    /\ users' = UpdateUser(users, UID(r), reqs[r].upd)
    /\ uploaded' = uploaded \cup NewUpload(UID(r), reqs[r].upd.identityCommitment)

LEMMA WhoWrites ==
    ASSUME [Next]_vars
    PROVE  \/ UNCHANGED <<users, uploaded>>
           \/ \E r \in Reqs : Wrote(r)
           \/ \E a \in Accounts : SignUp(a)
BY DEF Wrote, Next, vars, Receive, Step, ReadUser, WriteUser, GetEmailCredential,
       PutEmailCredential, RequestEmailCredential, BackendCrash, At

\* Once an identity is settled its row stays as it is, and no request comes to
\* write it: one that reads the row from now on is refused.
LEMMA SettledStays ==
    ASSUME Inv, [Next]_vars, NEW id, Settled(id)
    PROVE  GetUserByID(users', id) = GetUserByID(users, id) /\ Settled(id)'
<1>1. Local
  BY DEF Inv
<1>2. PICK u \in users : u.id = id /\ Complete(u)
  BY DEF Settled, GetUserByID
<1>3. \A q \in Reqs : reqs[q].pc = "updateUser" => reqs[q].claims.id # id
  BY DEF Settled, At, UID
<1>4. GetUserByID(users', id) = GetUserByID(users, id)
  <2>1. CASE UNCHANGED users
    BY <2>1
  <2>2. ASSUME NEW r \in Reqs, reqs[r].pc = "updateUser",
               users' = UpdateUser(users, UID(r), reqs[r].upd)
        PROVE  GetUserByID(users', id) = GetUserByID(users, id)
    <3> DEFINE new(x) == [id |-> x.id, email |-> x.email,
                          identityCommitment |-> reqs[r].upd.identityCommitment,
                          encryptedInternalNullifier |->
                              reqs[r].upd.encryptedInternalNullifier,
                          encryptedIdentitySecret |-> reqs[r].upd.encryptedIdentitySecret]
    <3>1. \A v : v \in users' <=> \E x \in users : v = IF x.id # UID(r) THEN x ELSE new(x)
      BY <1>1, <2>2, WrittenRows
    <3>2. UID(r) # id
      BY <1>3, <2>2 DEF UID
    <3>3. \A x : new(x).id = x.id
      OBVIOUS
    <3> HIDE DEF new
    <3>4. \A v : v \in users' /\ v.id = id <=> v \in users /\ v.id = id
      BY <3>1, <3>2, <3>3
    <3> QED
      BY <3>4 DEF GetUserByID
  <2>3. ASSUME NEW a \in Accounts, SignUp(a)
        PROVE  GetUserByID(users', id) = GetUserByID(users, id)
    <3>1. users' = users \cup {NewUser(a.id, a.email)} /\ a.id # id
      BY <1>2, <2>3 DEF SignUp, UserKeysFree, GetUserByID
    <3>2. NewUser(a.id, a.email).id = a.id
      BY DEF NewUser
    <3> QED
      BY <3>1, <3>2 DEF GetUserByID
  <2> QED
    BY <2>1, <2>2, <2>3, WhoWrites DEF Wrote
<1>5. ASSUME NEW q \in Reqs, reqs'[q].pc = "updateUser"
      PROVE  reqs'[q].claims.id # id
  <2>1. CASE reqs'[q] = reqs[q]
    BY <1>3, <1>5, <2>1
  <2>2. CASE WentOn(q)
    <3>1. PICK v \in GetUserByID(users, UID(q)) :
             ~Refused(reqs[q].op, v) /\ reqs[q].op # "me"
             /\ reqs'[q] = OnTo(reqs[q], NextCall[reqs[q].op], v.identityCommitment)
      BY <2>2 DEF WentOn
    <3>2. reqs'[q].pc = NextCall[reqs[q].op] /\ reqs'[q].claims = reqs[q].claims
      BY <3>1 DEF OnTo
    <3>3. reqs[q].op \in Ops
      BY <1>1, <2>2, Running, BusyCalls DEF WentOn
    <3>4. reqs[q].op = "update"
      BY <1>5, <3>1, <3>2, <3>3, BusyCalls
    <3>5. ~Complete(v)
      BY <3>1, <3>4 DEF Refused
    <3>6. v.id = reqs[q].claims.id /\ v \in users
      BY DEF GetUserByID, UID
    <3>7. v # u
      BY <1>2, <3>5
    <3>8. v.id # id
      BY <1>1, <1>2, <3>6, <3>7 DEF Local, RowsOK, UsersOwn
    <3> QED
      BY <3>2, <3>6, <3>8
  <2>3. CASE CameIn(q)
    BY <1>5, <2>3 DEF CameIn
  <2> QED
    BY <1>5, <2>1, <2>2, <2>3, Transitions, BusyCalls
<1>6. u \in GetUserByID(users', id)
  BY <1>2, <1>4 DEF GetUserByID
<1>7. Settled(id)'
  BY <1>2, <1>5, <1>6 DEF Settled, At, UID
<1> QED
  BY <1>4, <1>7

LEMMA LateSettledNext ==
    ASSUME Inv, [Next]_vars
    PROVE  LateSettled'
<1>1. Inv /\ LateSettled
  BY DEF Inv, Later
<1>2. ASSUME NEW q \in Reqs, reqs'[q].pc \in Busy, reqs'[q].late
      PROVE  Settled(UID(q))'
  <2>1. PICK id : id = reqs'[q].claims.id
    OBVIOUS
  <2>2. Settled(id)
    <3>1. CASE reqs'[q] = reqs[q]
      BY <1>1, <1>2, <2>1, <3>1 DEF LateSettled, UID
    <3>2. CASE CameIn(q)
      BY <1>2, <2>1, <3>2 DEF CameIn
    <3>3. CASE WentOn(q)
      BY <1>1, <1>2, <2>1, <3>3, BusyCalls DEF WentOn, OnTo, LateSettled, UID
    <3> QED
      BY <1>2, <3>1, <3>2, <3>3, Transitions
  <2>3. Settled(id)'
    BY <2>2, SettledStays
  <2> QED
    BY <2>1, <2>3 DEF UID
<1> QED
  BY <1>2 DEF LateSettled

LEMMA NoStaleNext ==
    ASSUME Inv, [Next]_vars
    PROVE  NoStaleCommitment'
<1>1. LateSettled /\ NoStaleCommitment
  BY DEF Inv, Later
<1>2. ASSUME NEW q \in Reqs, reqs'[q].late, reqs'[q].pc \in WithCommitment
      PROVE  \E u \in GetUserByID(users', reqs'[q].claims.id) :
                u.identityCommitment = reqs'[q].ic
  <2>1. reqs'[q].pc \in Busy /\ reqs'[q].pc # "readUser"
    BY <1>2, BusyCalls
  <2>2. CASE reqs'[q] = reqs[q]
    <3>1. PICK id : id = reqs[q].claims.id
      OBVIOUS
    <3>2. PICK u \in GetUserByID(users, id) : u.identityCommitment = reqs[q].ic
      BY <1>1, <1>2, <2>2, <3>1 DEF NoStaleCommitment, UID, WithCommitment
    <3>3. Settled(id)
      BY <1>1, <1>2, <2>1, <2>2, <3>1 DEF LateSettled, UID
    <3>4. GetUserByID(users', id) = GetUserByID(users, id)
      BY <3>3, SettledStays
    <3> QED
      BY <2>2, <3>1, <3>2, <3>4
  <2>3. CASE WentOn(q)
    <3>1. PICK u \in GetUserByID(users, UID(q)) :
             reqs'[q] = OnTo(reqs[q], NextCall[reqs[q].op], u.identityCommitment)
      BY <2>3 DEF WentOn
    <3>2. reqs'[q].ic = u.identityCommitment /\ reqs'[q].claims = reqs[q].claims
      BY <3>1 DEF OnTo
    <3> QED
      BY <2>3, <3>1, <3>2 DEF WentOn, UID
  <2> QED
    BY <2>1, <2>2, <2>3, Transitions DEF CameIn
<1> QED
  BY <1>2 DEF NoStaleCommitment, UID, WithCommitment

\* A commitment with a stored credential keeps one, and an account is saved only
\* by a request that stored one under the commitment it read.
LEMMA CredentialsStay ==
    ASSUME [Next]_vars,
           NEW ic, GetByIdentityCommitment(emailCreds, ic) # {}
    PROVE  GetByIdentityCommitment(emailCreds', ic) # {}
<1>1. CASE UNCHANGED emailCreds
  BY <1>1
<1>2. ASSUME NEW r \in Reqs,
             emailCreds' = CreateOrUpdateEmailCredential(
                               emailCreds, reqs[r].ic, reqs[r].claims.email)
      PROVE  GetByIdentityCommitment(emailCreds', ic) # {}
  <2> DEFINE row == [identityCommitment |-> reqs[r].ic, data |-> reqs[r].claims.email]
  <2>1. emailCreds' = (emailCreds \ {c \in emailCreds : c.identityCommitment = reqs[r].ic})
                          \cup {row}
    BY <1>2 DEF CreateOrUpdateEmailCredential, GetByIdentityCommitment
  <2>2. row.identityCommitment = reqs[r].ic
    OBVIOUS
  <2> HIDE DEF row
  <2>3. PICK c \in emailCreds : c.identityCommitment = ic
    BY DEF GetByIdentityCommitment
  <2>4. CASE ic = reqs[r].ic
    <3>1. row \in GetByIdentityCommitment(emailCreds', ic)
      BY <2>1, <2>2, <2>4 DEF GetByIdentityCommitment
    <3> QED
      BY <3>1
  <2>5. CASE ic # reqs[r].ic
    <3>1. c \in GetByIdentityCommitment(emailCreds', ic)
      BY <2>1, <2>3, <2>5 DEF GetByIdentityCommitment
    <3> QED
      BY <3>1
  <2> QED
    BY <2>4, <2>5
<1>3. \/ UNCHANGED emailCreds
      \/ \E r \in Reqs : emailCreds' = CreateOrUpdateEmailCredential(
                                           emailCreds, reqs[r].ic, reqs[r].claims.email)
  BY DEF Next, vars, Receive, Step, ReadUser, WriteUser, GetEmailCredential,
         PutEmailCredential, RequestEmailCredential, SignUp, BackendCrash
<1> QED
  BY <1>1, <1>2, <1>3

LEMMA WhoSaves ==
    ASSUME [Next]_vars
    PROVE  \/ saved' = saved
           \/ \E r \in Reqs :
                 /\ reqs[r].pc = "putCred" /\ UNCHANGED users
                 /\ emailCreds' = CreateOrUpdateEmailCredential(
                                      emailCreds, reqs[r].ic, reqs[r].claims.email)
                 /\ saved' = saved \cup {id \in {UID(r)} : reqs[r].late}
BY DEF Next, vars, Receive, Step, ReadUser, WriteUser, GetEmailCredential,
       PutEmailCredential, RequestEmailCredential, SignUp, BackendCrash, At

LEMMA SavedFoundNext ==
    ASSUME Inv, [Next]_vars
    PROVE  SavedFound'
<1>1. LateSettled /\ NoStaleCommitment /\ SavedFound
  BY DEF Inv, Later
<1>2. ASSUME NEW id \in saved
      PROVE  /\ Settled(id)'
             /\ \E u \in GetUserByID(users', id) :
                   GetByIdentityCommitment(emailCreds', u.identityCommitment) # {}
  <2>1. Settled(id)
        /\ \E u \in GetUserByID(users, id) :
              GetByIdentityCommitment(emailCreds, u.identityCommitment) # {}
    BY <1>1 DEF SavedFound
  <2>2. Settled(id)' /\ GetUserByID(users', id) = GetUserByID(users, id)
    BY <2>1, SettledStays
  <2>3. PICK ic : \E u \in GetUserByID(users, id) :
           ic = u.identityCommitment /\ GetByIdentityCommitment(emailCreds, ic) # {}
    BY <2>1
  <2>4. GetByIdentityCommitment(emailCreds', ic) # {}
    BY <2>3, CredentialsStay
  <2> QED
    BY <2>2, <2>3, <2>4
<1>3. ASSUME NEW id \in saved', id \notin saved
      PROVE  /\ Settled(id)'
             /\ \E u \in GetUserByID(users', id) :
                   GetByIdentityCommitment(emailCreds', u.identityCommitment) # {}
  <2>1. PICK r \in Reqs :
           /\ reqs[r].pc = "putCred" /\ UNCHANGED users
           /\ emailCreds' = CreateOrUpdateEmailCredential(
                                emailCreds, reqs[r].ic, reqs[r].claims.email)
           /\ saved' = saved \cup {x \in {UID(r)} : reqs[r].late}
    BY <1>3, WhoSaves
  <2>2. reqs[r].late /\ id = UID(r)
    BY <1>3, <2>1
  <2>3. Settled(id)
    BY <1>1, <2>1, <2>2, BusyCalls DEF LateSettled
  <2>4. Settled(id)'
    BY <2>3, SettledStays
  <2>5. PICK u \in GetUserByID(users, id) : u.identityCommitment = reqs[r].ic
    BY <1>1, <2>1, <2>2 DEF NoStaleCommitment
  <2> DEFINE row == [identityCommitment |-> reqs[r].ic, data |-> reqs[r].claims.email]
  <2>6. row \in emailCreds' /\ row.identityCommitment = reqs[r].ic
    BY <2>1 DEF CreateOrUpdateEmailCredential
  <2> HIDE DEF row
  <2>7. row \in GetByIdentityCommitment(emailCreds', u.identityCommitment)
    BY <2>5, <2>6 DEF GetByIdentityCommitment
  <2>8. GetByIdentityCommitment(emailCreds', u.identityCommitment) # {}
    BY <2>7
  <2> QED
    BY <2>1, <2>4, <2>5, <2>8
<1> QED
  BY <1>2, <1>3 DEF SavedFound

LEMMA NextInv == Inv /\ [Next]_vars => Inv'
BY NextLocal, LateSettledNext, NoStaleNext, SavedFoundNext DEF Inv, Later

LEMMA Invariance == Spec => []Inv
<1> QED
  BY InitInv, NextInv, PTL DEF Spec

-----------------------------------------------------------------------------
(* The results                                                             *)

\* The variables keep their types, and a handler past its first read that uses a
\* commitment has one.
THEOREM TypeCorrect == Spec => []TypeOK
<1>1. Inv => TypeOK
  <2> SUFFICES ASSUME Inv PROVE TypeOK
    OBVIOUS
  <2>1. \A r \in Reqs : /\ reqs[r].pc \in Busy => reqs[r].claims \in AllClaims
                        /\ reqs[r].pc \in WithCommitment => reqs[r].ic \in Idents
    BY DEF Inv, Local, ReqsOK, ReqOK
  <2> QED
    BY <2>1 DEF Inv, Local, RowsOK, CredsOK, IssuedOK, ReqsOK, UploadedOK, TypeOK,
       WithCommitment
<1> QED
  BY <1>1, Invariance, PTL

\* No row mixes the fields of two uploads, whatever updates raced for it.
THEOREM NotTorn == Spec => []NoTornIdentity
<1>1. Inv => NoTornIdentity
  BY DEF Inv, Local, RowsOK
<1> QED
  BY <1>1, Invariance, PTL

\* Every email credential the issuer signed for an address names the number of a
\* text that an account of this address uploaded, whoever else uploaded it.
THEOREM BindUploader == Spec => []CredentialsBindUploader
<1>1. Inv => CredentialsBindUploader
  BY DEF Inv, Local, IssuedOK
<1> QED
  BY <1>1, Invariance, PTL

\* A request that came in after the identity was settled works with the
\* commitment that is in the row.
THEOREM NotStale == Spec => []NoStaleCommitment
<1>1. Inv => NoStaleCommitment
  BY DEF Inv, Later
<1> QED
  BY <1>1, Invariance, PTL

\* A settled row is final.
THEOREM SettledIsFinal == Spec => SettledIdentityIsFinal
<1>1. Inv /\ [Next]_vars
        => [\A a \in Accounts :
              Settled(a.id) => /\ GetUserByID(users', a.id) = GetUserByID(users, a.id)
                               /\ Settled(a.id)']_vars
  BY SettledStays
<1> QED
  BY <1>1, Invariance, PTL DEF Spec, SettledIdentityIsFinal

\* A request that is running gets its answer from a call of its own.
LEMMA AnsweredByItsCall ==
    ASSUME Inv, [Next]_vars, NEW r \in Reqs, reqs[r].op # Empty, reqs'[r].status # 0
    PROVE  Step(r) /\ reqs[r].pc \in Busy /\ ReqOK(reqs[r], saved, uploaded)
<1>1. Local /\ reqs \in [Reqs -> Request] /\ ReqOK(reqs[r], saved, uploaded)
  BY DEF Inv, Local, ReqsOK
<1>2. reqs[r].pc \in Busy /\ reqs[r].status = 0
  BY <1>1 DEF ReqOK
<1>3. reqs'[r] # reqs[r]
  BY <1>2
<1>4. ~BackendCrash /\ ~UNCHANGED vars /\ ~\E a \in Accounts : SignUp(a)
  BY <1>3 DEF BackendCrash, NoRequest, vars, SignUp
<1>5. PICK s \in Reqs :
         \/ Step(s)
         \/ \E op \in Ops, claims \in Claims :
               \E upd \in Uploads \cup {Blank} : Receive(s, op, claims, upd)
  BY <1>4, BearersAreClaims DEF Next
<1>6. s = r
  BY <1>1, <1>3, <1>5, OthersStay
<1>7. ~\E op \in Ops, claims \in Claims :
          \E upd \in Uploads \cup {Blank} : Receive(r, op, claims, upd)
  BY <1>2 DEF Receive, Free
<1> QED
  BY <1>1, <1>2, <1>5, <1>6, <1>7

\* A credential that was stored for a settled identity is found again: what GET
\* returns was stored by an account that uploaded the commitment it is found by.
THEOREM StoredIsFound == Spec => StoredCredentialIsFound
<1>1. ASSUME Inv, [Next]_vars, NEW r \in Reqs, reqs[r].op = "getCred", reqs[r].sees,
             reqs'[r].status = 200
      PROVE  \E p \in uploaded, a \in AllClaims :
                p.commitment = reqs[r].ic /\ a.id = p.id /\ a.email = reqs'[r].body
  <2> DEFINE q == reqs[r]
             id == reqs[r].claims.id
  <2>1. Local /\ LateSettled /\ NoStaleCommitment /\ SavedFound
        /\ reqs \in [Reqs -> Request] /\ q \in Request
    BY <1>1 DEF Inv, Local, Later, ReqsOK
  <2>2. Step(r) /\ q.pc \in Busy /\ ReqOK(q, saved, uploaded)
    <3>1. reqs[r].op # Empty /\ reqs'[r].status # 0
      BY <1>1 DEF Empty
    <3> QED
      BY <1>1, <3>1, AnsweredByItsCall
  <2>3. q.late /\ id \in saved /\ q.status = 0
        /\ (q.pc = "readUser" \/ q.pc = "getCred")
    BY <1>1, <2>2, BusyCalls DEF ReqOK
  <2>4. ASSUME NEW status, NEW body, Answer(r, status, body)
        PROVE  status = 200 /\ body = reqs'[r].body
    <3>1. reqs'[r] = Done(status, body)
      BY <2>1, <2>4, AnswerIsDone
    <3> QED
      BY <1>1, <3>1 DEF Done
  <2>5. CASE q.pc = "readUser"
    <3>1. ReadUser(r)
      BY <2>2, <2>5 DEF Step, At, WriteUser, GetEmailCredential, PutEmailCredential,
         RequestEmailCredential
    <3>2. PICK u \in GetUserByID(users, id) : Complete(u)
      BY <2>1, <2>3 DEF SavedFound, Settled
    <3>3. ASSUME NEW v \in GetUserByID(users, id)
          PROVE  ~NothingToGet(q.op, v)
      <4>1. v = u
        BY <2>1 DEF GetUserByID, Local, RowsOK, UsersOwn
      <4> QED
        BY <3>2, <4>1 DEF Complete, NothingToGet
    <3>4. ASSUME NEW v \in GetUserByID(users, id), Proceeds(r, v)
          PROVE  FALSE
      <4>1. reqs'[r] = OnTo(q, NextCall[q.op], v.identityCommitment)
        BY <2>1, <3>4 DEF Proceeds
      <4>2. reqs'[r].status = q.status
        BY <4>1 DEF OnTo
      <4> QED
        BY <1>1, <2>3, <4>2
    <3>5. ~Answer(r, 400, Empty) /\ ~Answer(r, 404, Empty) /\ ~Answer(r, 500, Empty)
      BY <2>4
    <3>6. ASSUME NEW v \in GetUserByID(users, id), UserRead(r, v)
          PROVE  FALSE
      <4>1. /\ q.op # "me" /\ ~Refused(q.op, v) /\ ~NothingToGet(q.op, v)
            /\ reqs' = [reqs EXCEPT ![r].pc = NextCall[q.op],
                                    ![r].ic = v.identityCommitment]
        BY <1>1, <3>3, <3>5, <3>6 DEF UserRead
      <4>2. reqs' = [reqs EXCEPT ![r] = [q EXCEPT !.pc = NextCall[q.op],
                                                  !.ic = v.identityCommitment]]
        BY <2>1, <4>1
      <4>3. \A pc, i : [q EXCEPT !.pc = pc, !.ic = i] = OnTo(q, pc, i)
        BY <2>1, RequestGoesOn DEF OnTo
      <4>4. Proceeds(r, v)
        BY <4>1, <4>2, <4>3, Zenon DEF Proceeds
      <4> QED
        BY <3>4, <4>4
    <3>7. id = UID(r)
      BY DEF UID
    <3> QED
      BY <3>1, <3>5, <3>6, <3>7 DEF ReadUser
  <2>6. CASE q.pc = "getCred"
    <3>1. GetEmailCredential(r)
      BY <2>2, <2>6 DEF Step, At, ReadUser, WriteUser, PutEmailCredential,
         RequestEmailCredential
    <3>3. PICK u \in GetUserByID(users, id) : u.identityCommitment = q.ic
      BY <2>1, <2>3, <2>6 DEF NoStaleCommitment, UID
    <3>4. PICK v \in GetUserByID(users, id) :
             GetByIdentityCommitment(emailCreds, v.identityCommitment) # {}
      BY <2>1, <2>3 DEF SavedFound
    <3>5. u = v
      BY <2>1 DEF GetUserByID, Local, RowsOK, UsersOwn
    <3>6. GetByIdentityCommitment(emailCreds, q.ic) # {}
      BY <3>3, <3>4, <3>5
    <3>7. \A c \in GetByIdentityCommitment(emailCreds, q.ic) :
             \E a \in AllClaims : Uploaded(a.id, q.ic, uploaded) /\ a.email = c.data
      BY <2>1 DEF GetByIdentityCommitment, Local, CredsOK
    <3>8. ~Answer(r, 500, Empty)
      BY <2>4
    <3>9. PICK c \in GetByIdentityCommitment(emailCreds, q.ic) : Answer(r, 200, c.data)
      BY <3>1, <3>6, <3>8 DEF GetEmailCredential
    <3>10. PICK a \in AllClaims : Uploaded(a.id, q.ic, uploaded) /\ a.email = reqs'[r].body
      BY <2>4, <3>7, <3>9
    <3>11. PICK p \in uploaded : p.id = a.id /\ p.commitment = q.ic
      BY <3>10 DEF Uploaded
    <3> QED
      BY <3>10, <3>11
  <2> QED
    BY <2>3, <2>5, <2>6
<1>2. Inv /\ [Next]_vars
        => [\A r \in Reqs :
              reqs[r].op = "getCred" /\ reqs[r].sees /\ reqs'[r].status = 200
                 => \E p \in uploaded, a \in AllClaims :
                       /\ p.commitment = reqs[r].ic
                       /\ a.id = p.id /\ a.email = reqs'[r].body]_vars
  BY <1>1
<1> QED
  BY <1>2, Invariance, PTL DEF Spec, StoredCredentialIsFound

-----------------------------------------------------------------------------
(* The writes, as the ticket handlers see them                             *)

\* A row of Commitments, and the row that an update to i leaves there.
Seen(u) ==
    [id |-> u.id, email |-> u.email, identityCommitment |-> u.identityCommitment,
     encryptedInternalNullifier |-> u.identityCommitment,
     encryptedIdentitySecret |-> u.identityCommitment]

SetTo(u, i) ==
    [id |-> u.id, email |-> u.email, identityCommitment |-> i,
     encryptedInternalNullifier |-> i, encryptedIdentitySecret |-> i]

LEMMA SeenRow ==
    ASSUME NEW u \in UserRow(IDs, Addresses, Idents)
    PROVE  /\ [u EXCEPT !.encryptedInternalNullifier = u.identityCommitment,
                        !.encryptedIdentitySecret = u.identityCommitment] = Seen(u)
           /\ Seen(u) \in UserRow(IDs, Addresses, Idents)
<1> DEFINE ic == u.identityCommitment
           x == [u EXCEPT !.encryptedInternalNullifier = ic]
           y == [x EXCEPT !.encryptedIdentitySecret = ic]
<1>1. DOMAIN u = {"id", "email", "identityCommitment", "encryptedInternalNullifier",
                  "encryptedIdentitySecret"}
  BY DEF UserRow
<1>2. x = [f \in DOMAIN u |-> IF f = "encryptedInternalNullifier" THEN ic ELSE u[f]]
  OBVIOUS
<1>3. y = [f \in DOMAIN u |-> IF f = "encryptedIdentitySecret" THEN ic ELSE x[f]]
  BY <1>2
<1>4. y = [u EXCEPT !.encryptedInternalNullifier = u.identityCommitment,
                    !.encryptedIdentitySecret = u.identityCommitment]
  OBVIOUS
<1> HIDE DEF x, y
<1>5. y = Seen(u)
  BY <1>1, <1>2, <1>3 DEF Seen
<1>6. Seen(u) \in UserRow(IDs, Addresses, Idents)
  BY DEF Seen, UserRow
<1> QED
  BY <1>4, <1>5, <1>6

LEMMA SeenRows ==
    ASSUME NEW rows \in SUBSET UserRow(IDs, Addresses, Idents)
    PROVE  {[u EXCEPT !.encryptedInternalNullifier = u.identityCommitment,
                      !.encryptedIdentitySecret = u.identityCommitment] : u \in rows}
             = {Seen(u) : u \in rows}
<1> DEFINE except(u) == [u EXCEPT !.encryptedInternalNullifier = u.identityCommitment,
                                  !.encryptedIdentitySecret = u.identityCommitment]
<1>1. \A u \in rows : except(u) = Seen(u)
  BY SeenRow
<1> HIDE DEF except
<1>2. {except(u) : u \in rows} = {Seen(u) : u \in rows}
  BY <1>1
<1> QED
  BY <1>2 DEF except

\* The update of the row, and of what is seen of it.
LEMMA SeenUpdate ==
    ASSUME Local, Local', NEW r \in Reqs, reqs[r].pc = "updateUser",
           users' = UpdateUser(users, UID(r), reqs[r].upd)
    PROVE  Commitments' = UpdateUser(Commitments, UID(r),
              [identityCommitment |-> reqs[r].upd.identityCommitment,
               encryptedInternalNullifier |-> reqs[r].upd.identityCommitment,
               encryptedIdentitySecret |-> reqs[r].upd.identityCommitment])
<1> DEFINE upd == reqs[r].upd
           i == upd.identityCommitment
           id == UID(r)
           all == [identityCommitment |-> i, encryptedInternalNullifier |-> i,
                   encryptedIdentitySecret |-> i]
           new(u) == [id |-> u.id, email |-> u.email,
                      identityCommitment |-> upd.identityCommitment,
                      encryptedInternalNullifier |-> upd.encryptedInternalNullifier,
                      encryptedIdentitySecret |-> upd.encryptedIdentitySecret]
<1>1. users \in SUBSET UserRow(IDs, Addresses, Idents)
      /\ users' \in SUBSET UserRow(IDs, Addresses, Idents)
  BY DEF Local, RowsOK
<1>2. Commitments = {Seen(u) : u \in users} /\ Commitments' = {Seen(u) : u \in users'}
  BY <1>1, SeenRows DEF Commitments
<1>3. Commitments \in SUBSET UserRow(IDs, Addresses, Idents)
  BY <1>1, <1>2, SeenRow
<1>4. \A v : v \in users' <=> \E u \in users : v = IF u.id # id THEN u ELSE new(u)
  BY WrittenRows
<1>5. \A u : Seen(new(u)) = SetTo(u, i) /\ Seen(u).id = u.id /\ Seen(u).email = u.email
  BY DEF Seen, SetTo
<1> HIDE DEF new, i, id, upd
<1>6. \A v : v \in UpdateUser(Commitments, id, all) <=>
        \E w \in Commitments :
           v = IF w.id # id THEN w
               ELSE [id |-> w.id, email |-> w.email,
                     identityCommitment |-> all.identityCommitment,
                     encryptedInternalNullifier |-> all.encryptedInternalNullifier,
                     encryptedIdentitySecret |-> all.encryptedIdentitySecret]
  <2> HIDE DEF all
  <2> QED
    BY <1>3, UpdateUserRows
<1>7. \A v : v \in UpdateUser(Commitments, id, all) <=>
        \E w \in Commitments : v = IF w.id # id THEN w ELSE SetTo(w, i)
  BY <1>6 DEF SetTo
<1>8. \A u : SetTo(Seen(u), i) = SetTo(u, i)
  BY <1>5 DEF SetTo
<1> HIDE DEF all
<1>9. \A v : v \in UpdateUser(Commitments, id, all) <=>
        \E u \in users : v = IF u.id # id THEN Seen(u) ELSE SetTo(u, i)
  BY <1>2, <1>5, <1>7, <1>8
<1>10. \A v : v \in Commitments' <=>
         \E u \in users : v = IF u.id # id THEN Seen(u) ELSE SetTo(u, i)
  BY <1>2, <1>4, <1>5
<1>11. Commitments' = UpdateUser(Commitments, id, all)
  BY <1>9, <1>10
<1> QED
  BY <1>11 DEF all, i, id, upd

LEMMA TicketsStep ==
    ASSUME NEW a \in Accounts, NEW i \in Idents \cup {Empty},
           GetUserByID(Commitments, a.id) # {},
           uploaded' = uploaded \cup NewUpload(a.id, i),
           Commitments' = UpdateUser(Commitments, a.id,
                             [identityCommitment |-> i, encryptedInternalNullifier |-> i,
                              encryptedIdentitySecret |-> i])
    PROVE  TicketsView!UpdateIdentity(a, i)
<1> DEFINE all == [identityCommitment |-> i, encryptedInternalNullifier |-> i,
                   encryptedIdentitySecret |-> i]
<1>1. TicketsView!UpdateUser(Commitments, a.id, all) = UpdateUser(Commitments, a.id, all)
  BY DEF TicketsView!UpdateUser, UpdateUser
<1>2. TicketsView!Empty = Empty
  BY DEF TicketsView!Empty, Empty
<1>3. TicketsView!GetUserByID(Commitments, a.id) = GetUserByID(Commitments, a.id)
  BY DEF TicketsView!GetUserByID, GetUserByID
<1>4. UNCHANGED <<{}, {}, {}, [r \in Reqs |-> NoRequest], {}>>
  BY DEF NoRequest, NoClaims, Blank
<1>5. TicketsView!NewUpload(a.id, i) = NewUpload(a.id, i)
  BY <1>2 DEF TicketsView!NewUpload, NewUpload
<1> QED
  BY <1>1, <1>3, <1>4, <1>5 DEF TicketsView!UpdateIdentity

\* A sign-up adds the row that is seen of the new account too.
LEMMA SeenSignUp ==
    ASSUME Local, Local', NEW a \in Accounts, SignUp(a)
    PROVE  /\ UserKeysFree(Commitments, a.id, a.email)
           /\ Commitments' = Commitments \cup {NewUser(a.id, a.email)}
<1>1. users \in SUBSET UserRow(IDs, Addresses, Idents)
      /\ users' \in SUBSET UserRow(IDs, Addresses, Idents)
  BY DEF Local, RowsOK
<1>2. Commitments = {Seen(u) : u \in users} /\ Commitments' = {Seen(u) : u \in users'}
  BY <1>1, SeenRows DEF Commitments
<1>3. \A u : Seen(u).id = u.id /\ Seen(u).email = u.email
  BY DEF Seen
<1>4. \A u \in users : u.id # a.id /\ u.email # a.email
  BY DEF SignUp, UserKeysFree, GetUserByID, GetUserByEmail
<1>5. UserKeysFree(Commitments, a.id, a.email)
  BY <1>2, <1>3, <1>4 DEF UserKeysFree, GetUserByID, GetUserByEmail
<1>6. Seen(NewUser(a.id, a.email)) = NewUser(a.id, a.email)
  BY DEF Seen, NewUser
<1>7. users' = users \cup {NewUser(a.id, a.email)}
  BY DEF SignUp
<1> QED
  BY <1>2, <1>5, <1>6, <1>7

LEMMA TicketsSignUp ==
    ASSUME NEW a \in Accounts, UserKeysFree(Commitments, a.id, a.email), UNCHANGED uploaded,
           Commitments' = Commitments \cup {NewUser(a.id, a.email)}
    PROVE  TicketsView!SignUp(a)
<1>1. TicketsView!UserKeysFree(Commitments, a.id, a.email)
  BY DEF TicketsView!UserKeysFree, TicketsView!GetUserByID, TicketsView!GetUserByEmail,
         UserKeysFree, GetUserByID, GetUserByEmail
<1>2. TicketsView!NewUser(a.id, a.email) = NewUser(a.id, a.email)
  BY DEF TicketsView!NewUser, TicketsView!Empty, NewUser, Empty
<1>3. UNCHANGED <<{}, {}, {}, [r \in Reqs |-> NoRequest], {}>>
  BY DEF NoRequest, NoClaims, Blank
<1> QED
  BY <1>1, <1>2, <1>3 DEF TicketsView!SignUp, TicketsView!histories

\* A step changes what is seen of the users table by the row of a new account, or
\* in one row, to any commitment or to none, and records who uploaded it.
LEMMA SeenWrite ==
    ASSUME Inv, Local', [Next]_vars
    PROVE  \/ UNCHANGED <<Commitments, uploaded>>
           \/ \E a \in Accounts :
                 /\ UserKeysFree(Commitments, a.id, a.email) /\ UNCHANGED uploaded
                 /\ Commitments' = Commitments \cup {NewUser(a.id, a.email)}
           \/ \E a \in Accounts, i \in Idents \cup {Empty} :
                 /\ GetUserByID(Commitments, a.id) # {}
                 /\ uploaded' = uploaded \cup NewUpload(a.id, i)
                 /\ Commitments' = UpdateUser(Commitments, a.id,
                       [identityCommitment |-> i, encryptedInternalNullifier |-> i,
                        encryptedIdentitySecret |-> i])
<1>1. CASE UNCHANGED <<users, uploaded>>
  BY <1>1 DEF Commitments
<1>2. ASSUME NEW a \in Accounts, SignUp(a)
      PROVE  /\ UserKeysFree(Commitments, a.id, a.email) /\ UNCHANGED uploaded
             /\ Commitments' = Commitments \cup {NewUser(a.id, a.email)}
  BY <1>2, SeenSignUp DEF Inv, SignUp
<1>3. ASSUME NEW r \in Reqs, Wrote(r)
      PROVE  \E a \in Accounts, i \in Idents \cup {Empty} :
                 /\ GetUserByID(Commitments, a.id) # {}
                 /\ uploaded' = uploaded \cup NewUpload(a.id, i)
                 /\ Commitments' = UpdateUser(Commitments, a.id,
                       [identityCommitment |-> i, encryptedInternalNullifier |-> i,
                        encryptedIdentitySecret |-> i])
  <2>1. Local /\ reqs[r].claims \in AllClaims /\ reqs[r].upd \in Uploads \cup {Blank}
        /\ users \in SUBSET UserRow(IDs, Addresses, Idents)
    BY <1>3, Running, BusyCalls DEF Inv, Local, RowsOK, Request, Wrote
  <2>2. PICK claims, i : claims = reqs[r].claims /\ i = reqs[r].upd.identityCommitment
    OBVIOUS
  <2>3. i \in Idents \cup {Empty}
    BY <2>1, <2>2, UploadFields
  <2>4. Commitments' = UpdateUser(Commitments, claims.id,
              [identityCommitment |-> i, encryptedInternalNullifier |-> i,
               encryptedIdentitySecret |-> i])
    BY <1>3, <2>1, <2>2, SeenUpdate DEF UID, Wrote
  <2>5. PICK u \in users : u.id = claims.id
    BY <1>3, <2>2 DEF Wrote, GetUserByID, UID
  <2>6. claims \in Accounts
    BY <2>1, <2>2, <2>5, AccountsAssumption DEF Local, RowsOK, UsersOwn, AllClaims
  <2>7. Seen(u) \in Commitments /\ Seen(u).id = claims.id
    BY <2>1, <2>5, SeenRows DEF Commitments, Seen
  <2>8. GetUserByID(Commitments, claims.id) # {}
    BY <2>7 DEF GetUserByID
  <2>9. uploaded' = uploaded \cup NewUpload(claims.id, i)
    BY <1>3, <2>2 DEF Wrote, UID
  <2> QED
    BY <2>3, <2>4, <2>6, <2>8, <2>9
<1> QED
  BY <1>1, <1>2, <1>3, WhoWrites

\* What module Tickets assumes of the users table is what these handlers do.
THEOREM WritesAsAssumed == Spec => WritesAsTicketsAssumes
<1>1. Inv /\ Inv' /\ [Next]_vars
        => [\/ UNCHANGED <<Commitments, uploaded>>
            \/ \E a \in Accounts : TicketsView!SignUp(a)
            \/ \E a \in Accounts, i \in Idents \cup {Empty} :
                  TicketsView!UpdateIdentity(a, i)]_<<users, uploaded>>
  <2> SUFFICES ASSUME Inv, Local', [Next]_vars, ~UNCHANGED <<Commitments, uploaded>>
               PROVE  \/ \E a \in Accounts : TicketsView!SignUp(a)
                      \/ \E a \in Accounts, i \in Idents \cup {Empty} :
                            TicketsView!UpdateIdentity(a, i)
    BY DEF Inv
  <2> QED
    BY SeenWrite, TicketsStep, TicketsSignUp
<1> QED
  BY <1>1, Invariance, PTL DEF Spec, WritesAsTicketsAssumes
=============================================================================
