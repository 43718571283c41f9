------------------------------ MODULE MCSignin ------------------------------
(***************************************************************************)
(* Instances of Signin for TLC: two spellings of one address, a second     *)
(* address in the passing run, and a string no address can be parsed from. *)
(***************************************************************************)
EXTENDS Signin, TLC

CONSTANTS r1, r2, a, b, bad, c1, c2, u1, u2

\* "a@x" and "Ann <a@x>" have the same Address, "a@" has none.
OneParse == ("a@x" :> a) @@ ("Ann <a@x>" :> a) @@ ("a@" :> bad)
TwoParse == OneParse @@ ("b@x" :> b)

OneRaw == DOMAIN OneParse
TwoRaw == DOMAIN TwoParse
=============================================================================
