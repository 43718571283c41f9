----------------------------- MODULE OneIdentity -----------------------------
(***************************************************************************)
(* What the credentials of an account are worth, with no requests, tables  *)
(* or crashes in sight: an account settles on one of the identities it     *)
(* uploaded, once and for all, and from then on every credential it is     *)
(* handed names that identity or none is handed out at all.  Backend       *)
(* implements this specification (Backend!CredentialsOfOneIdentity).       *)
(***************************************************************************)
CONSTANTS
    Bindings,  \* [id, commitment] of an account and an identity it may upload
    Signable   \* the commitments a credential can be made for

VARIABLES
    uploaded,  \* the bindings accounts uploaded
    settled,   \* the bindings accounts have settled on
    named      \* the bindings named by credentials handed out after that

Functional(R) == \A p, q \in R : p.id = q.id => p = q

Init == uploaded = {} /\ settled = {} /\ named = {}

\* Accounts upload, and settle on what they uploaded: several at once when a
\* crash ends the updates that were still under way.
Settle ==
    /\ uploaded \subseteq uploaded' /\ uploaded' \subseteq Bindings
    /\ settled \subseteq settled'
    /\ settled' \subseteq uploaded' /\ Functional(settled')
    /\ UNCHANGED named

\* An account that settled on a commitment no credential can be made for gets
\* none, ever.
Name(p) ==
    /\ p \in settled /\ p.commitment \in Signable
    /\ named' = named \cup {p}
    /\ UNCHANGED <<uploaded, settled>>

Next == Settle \/ \E p \in Bindings : Name(p)

Spec == Init /\ [][Next]_<<uploaded, settled, named>>
=============================================================================
