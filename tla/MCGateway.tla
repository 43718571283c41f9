------------------------------ MODULE MCGateway -----------------------------
(***************************************************************************)
(* Instances of Gateway for TLC: all paths of the route table with one     *)
(* event id, a path without a route, and one request at a time: requests   *)
(* share nothing but the clock and the secret.                             *)
(***************************************************************************)
EXTENDS Gateway

CONSTANTS r1

ann == [id |-> "u1", email |-> "a@x"]
bob == [id |-> "u2", email |-> "b@x"]

MCAccounts == {ann, bob}

AllPaths ==
    {[i \in DOMAIN Routes[op].path |->
        IF Routes[op].path[i] = EventIDParam THEN "e1" ELSE Routes[op].path[i]]
     : op \in Ops} \cup {<<"docs">>}
=============================================================================
