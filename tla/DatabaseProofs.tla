--------------------------- MODULE DatabaseProofs ---------------------------
(***************************************************************************)
(* Facts about the queries of Database that the proofs about the handlers  *)
(* cite.                                                                   *)
(***************************************************************************)
EXTENDS Database, TLAPS

\* UpdateUser replaces the three identity columns of the rows with the id, and
\* leaves every other row as it is.
LEMMA UpdateUserRow ==
    ASSUME NEW IDs, NEW Emails, NEW Idents, NEW u \in UserRow(IDs, Emails, Idents), NEW upd
    PROVE  [u EXCEPT !.identityCommitment = upd.identityCommitment,
                     !.encryptedInternalNullifier = upd.encryptedInternalNullifier,
                     !.encryptedIdentitySecret = upd.encryptedIdentitySecret]
             = [id |-> u.id, email |-> u.email,
                identityCommitment |-> upd.identityCommitment,
                encryptedInternalNullifier |-> upd.encryptedInternalNullifier,
                encryptedIdentitySecret |-> upd.encryptedIdentitySecret]
<1>1. DOMAIN u = {"id", "email", "identityCommitment", "encryptedInternalNullifier",
                  "encryptedIdentitySecret"}
  BY DEF UserRow
<1> DEFINE x == [u EXCEPT !.identityCommitment = upd.identityCommitment]
           y == [x EXCEPT !.encryptedInternalNullifier = upd.encryptedInternalNullifier]
           z == [y EXCEPT !.encryptedIdentitySecret = upd.encryptedIdentitySecret]
<1>2. x = [f \in DOMAIN u |-> IF f = "identityCommitment" THEN upd.identityCommitment ELSE u[f]]
  OBVIOUS
<1>3. y = [f \in DOMAIN u |-> IF f = "encryptedInternalNullifier"
                              THEN upd.encryptedInternalNullifier ELSE x[f]]
  BY <1>2
<1>4. z = [f \in DOMAIN u |-> IF f = "encryptedIdentitySecret"
                              THEN upd.encryptedIdentitySecret ELSE y[f]]
  BY <1>3
<1>5. z = [u EXCEPT !.identityCommitment = upd.identityCommitment,
                    !.encryptedInternalNullifier = upd.encryptedInternalNullifier,
                    !.encryptedIdentitySecret = upd.encryptedIdentitySecret]
  OBVIOUS
<1> QED
  BY <1>1, <1>2, <1>3, <1>4, <1>5

LEMMA UpdateUserRows ==
    ASSUME NEW IDs, NEW Emails, NEW Idents, NEW users \in SUBSET UserRow(IDs, Emails, Idents),
           NEW id, NEW upd
    PROVE  \A v : v \in UpdateUser(users, id, upd) <=>
             \E u \in users :
                v = IF u.id # id THEN u
                    ELSE [id |-> u.id, email |-> u.email,
                          identityCommitment |-> upd.identityCommitment,
                          encryptedInternalNullifier |-> upd.encryptedInternalNullifier,
                          encryptedIdentitySecret |-> upd.encryptedIdentitySecret]
<1> DEFINE new(u) == [u EXCEPT !.identityCommitment = upd.identityCommitment,
                     !.encryptedInternalNullifier = upd.encryptedInternalNullifier,
                     !.encryptedIdentitySecret = upd.encryptedIdentitySecret]
           row(u) == [id |-> u.id, email |-> u.email,
                identityCommitment |-> upd.identityCommitment,
                encryptedInternalNullifier |-> upd.encryptedInternalNullifier,
                encryptedIdentitySecret |-> upd.encryptedIdentitySecret]
<1>1. \A u \in users : new(u) = row(u)
  BY UpdateUserRow
<1>2. UpdateUser(users, id, upd) = {IF u.id # id THEN u ELSE new(u) : u \in users}
  BY DEF UpdateUser
<1> HIDE DEF new, row
<1>3. \A v : v \in UpdateUser(users, id, upd) <=>
               \E u \in users : v = IF u.id # id THEN u ELSE row(u)
  BY <1>1, <1>2
<1> QED
  BY <1>3 DEF row
=============================================================================
