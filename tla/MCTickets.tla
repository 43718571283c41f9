----------------------------- MODULE MCTickets ------------------------------
(***************************************************************************)
(* Instances of Tickets for TLC: ann and bob, either of whom may upload    *)
(* what the other uploads (a numeral of zero, at that), and a JWT of an    *)
(* earlier account of ann's, whose row is gone.  One event, and PUTs that  *)
(* name none.                                                              *)
(***************************************************************************)
EXTENDS Tickets, TLC

CONSTANTS r1, r2, i1, e1

Ann == [id |-> "u1", email |-> "ann"]
Bob == [id |-> "u2", email |-> "bob"]
Gone == [id |-> "u3", email |-> "ann"]

JustAnn == {Ann}
AnnAndBob == {Ann, Bob}
JustGone == {Gone}
Nobody == {}

Value == i1 :> 0

Symmetry == Permutations(Reqs)

\* A handler that has answered is as good as idle: no step reads its record.
\* The properties look at answers in the step that gives them.
View ==
    <<users, registrations, ticketCreds, issued, invited, uploaded,
      [r \in Reqs |-> IF Free(r) THEN NoRequest ELSE reqs[r]]>>
=============================================================================
