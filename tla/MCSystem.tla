------------------------------ MODULE MCSystem -------------------------------
(***************************************************************************)
(* An instance of System for TLC: one address whose client uploads two     *)
(* identities, one code, and one event.                                    *)
(***************************************************************************)
EXTENDS System, TLC

CONSTANTS r1, r2, t1, l1, i1, i2, e1, c1, bad

Ann == [id |-> "u1", email |-> "ann"]
JustAnn == {Ann}
Nobody == {}

\* Two texts of one number, or else i1 and i2 were not interchangeable.
Value == (i1 :> 7) @@ (i2 :> 7)
Whole == {[f \in DOMAIN Blank |-> i] : i \in Idents}
Parse == "ann" :> "ann"

\* The two identities of the one account are interchangeable too.
Symmetry == Permutations(Reqs) \cup Permutations({i1, i2})

\* A handler that has answered is as good as idle: no step reads its record, and
\* no step reads which codes were mailed.
Pending(q, none) == IF q.pc = "done" THEN none ELSE q
View ==
    <<users, emailCreds, issued, saved, uploaded, [r \in Reqs |-> Pending(reqs[r], NoRequest)],
      registrations, ticketCreds, tickets, invited, named,
      [t \in TicketReqs |-> Pending(ticketReqs[t], T!NoRequest)],
      {t \in lateTickets : ~T!Free(t)}, codeCache, tokens, stored, logins,
      [l \in LoginReqs |-> Pending(loginReqs[l], S!NoRequest)]>>
=============================================================================
