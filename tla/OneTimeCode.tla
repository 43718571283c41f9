----------------------------- MODULE OneTimeCode -----------------------------
(***************************************************************************)
(* What sign-in by emailed code promises, with no requests, no failures    *)
(* and no stores in sight: a key has at most one live code, a code is      *)
(* redeemed at most once, only while it is live and only by someone who    *)
(* handed in this very code, and a session is opened only on a redemption  *)
(* that no other session used.                                             *)
(* Signin implements this specification (Signin!CodesAreOneTime).          *)
(***************************************************************************)
EXTENDS Naturals

CONSTANTS
    Keys,
    Codes,
    None     \* no code (not one of Codes)

VARIABLES
    tries,     \* [key, code] clients hand in: an input, nothing here sets it
    live,      \* the code of a key that may be redeemed, or None
    issued,    \* codes issued for a key so far
    granted,   \* redemptions of a key no session was opened on yet
    sessions   \* sessions opened for a key so far

vars == <<live, issued, granted, sessions>>

Init ==
    /\ live = [k \in Keys |-> None]
    /\ issued = [k \in Keys |-> 0]
    /\ granted = [k \in Keys |-> 0]
    /\ sessions = [k \in Keys |-> 0]

Issue(k, c) ==
    /\ live[k] = None
    /\ live' = [live EXCEPT ![k] = c]
    /\ issued' = [issued EXCEPT ![k] = @ + 1]
    /\ UNCHANGED <<granted, sessions>>

Redeem(k) ==
    /\ live[k] # None /\ [key |-> k, code |-> live[k]] \in tries
    /\ live' = [live EXCEPT ![k] = None]
    /\ granted' = [granted EXCEPT ![k] = @ + 1]
    /\ UNCHANGED <<issued, sessions>>

\* Codes may die unused: a wrong guess, the end of their time, a lost store.
Withdraw(K) ==
    /\ live' = [k \in Keys |-> IF k \in K THEN None ELSE live[k]]
    /\ UNCHANGED <<issued, granted, sessions>>

OpenSession(k) ==
    /\ granted[k] > 0
    /\ granted' = [granted EXCEPT ![k] = @ - 1]
    /\ sessions' = [sessions EXCEPT ![k] = @ + 1]
    /\ UNCHANGED <<live, issued>>

\* A redemption may come to nothing.
Forfeit ==
    /\ granted' \in [Keys -> Nat]
    /\ \A k \in Keys : granted'[k] <= granted[k]
    /\ UNCHANGED <<live, issued, sessions>>

Next ==
    \/ \E k \in Keys :
          \/ \E c \in Codes : Issue(k, c)
          \/ Redeem(k)
          \/ OpenSession(k)
    \/ \E K \in SUBSET Keys : Withdraw(K)
    \/ Forfeit

Spec == Init /\ [][Next]_vars
=============================================================================
