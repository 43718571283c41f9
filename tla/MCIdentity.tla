----------------------------- MODULE MCIdentity -----------------------------
(***************************************************************************)
(* Instances of Identity for TLC: ann and bob, either of whom may upload   *)
(* what the other uploads, and the JWT of a third whose row was removed.   *)
(* BigInt cannot parse i2.                                                 *)
(***************************************************************************)
EXTENDS Identity, TLC

CONSTANTS r1, r2, i1, i2, u1, u2, u3, ann, bob, carl

Ann == [id |-> u1, email |-> ann]
Bob == [id |-> u2, email |-> bob]
Gone == [id |-> u3, email |-> carl]

JustAnn == {Ann}
AnnAndBob == {Ann, Bob}
JustGone == {Gone}
Nobody == {}

Value == i1 :> 7

All(i) == [f \in DOMAIN Blank |-> i]
Whole == {All(i1), All(i2)}
WithoutSecret == {[All(i1) EXCEPT !.encryptedIdentitySecret = Empty]}
AnyUpload == Whole \cup WithoutSecret

\* ann and bob are interchangeable, too.
Swap == (u1 :> u2) @@ (u2 :> u1) @@ (ann :> bob) @@ (bob :> ann)
Symmetry == Permutations(Reqs) \cup {Swap}

\* A handler that has answered is as good as idle: no step reads its record.
\* The properties look at answers in the step that gives them.
View ==
    <<users, emailCreds, issued, saved, uploaded,
      [r \in Reqs |-> IF Free(r) THEN NoRequest ELSE reqs[r]]>>
=============================================================================
