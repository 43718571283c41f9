------------------------------ MODULE MCIssuer ------------------------------
(***************************************************************************)
(* An instance of Issuer for TLC: two addresses, one event, a commitment   *)
(* that BigInt parses and one it does not, and requests with claims as no  *)
(* handler of the backend sends them, with int64 values that are no double *)
(* (doubles are exact to 4 here, and 8 apart around 21).                   *)
(***************************************************************************)
EXTENDS Issuer, TLC

CONSTANTS c1, c2

TwoAddresses == {"ann", "bob"}
OneEvent == {"e1"}
TwoIdents == {"i1", "0x"}

Numbers == ("0" :> 0) @@ ("1" :> 1) @@ ("2" :> 2) @@ ("3" :> 3) @@ ("i1" :> 77)
             @@ ("h(ann)" :> 5) @@ ("h(bob)" :> 6) @@ ("111" :> 111) @@ ("222" :> 222)
AllNumerals == DOMAIN Numbers
AllText ==
    AllNumerals \cup TwoAddresses \cup OneEvent \cup TwoIdents
      \cup {Empty, "email", "event_id"}
Decimals == [n \in {0, 1, 2, 3, 111, 222} |->
                CHOOSE t \in AllNumerals \ TwoIdents : Numbers[t] = n]
Hashes == [ann |-> "h(ann)", bob |-> "h(bob)"]

-----------------------------------------------------------------------------
(* Requests with claims                                                    *)

Def(type) == [name |-> "email", claimType |-> {[type |-> type]}]
Bool == Def({[kind |-> "boolean", value |-> FALSE]})
Scalar == Def({[kind |-> "scalar", width |-> 4]})
Wide == Def({[kind |-> "scalar", width |-> 21]})
Property(alg) ==
    Def({[kind |-> "property", width |-> -13, hashAlgorithm |-> alg, nEqualChecks |-> {0}]})

Val(value) == [value |-> value]
BoolOf(b) == Val({[kind |-> "bool", value |-> b]})
ScalarOf(t) == Val({[kind |-> "scalar", value |-> t]})
PropertyOf(t, hash) == Val({[kind |-> "property", value |-> t, hash |-> hash]})

With(claims, values) ==
    [header |-> {[version |-> 1, type |-> "2", context |-> "1", id |-> Empty]},
     body |-> {[tp |-> {[claims |-> claims, revocable |-> {4095}, typeId |-> "2"]},
                values |-> values]},
     attachments |-> {{}}, chainId |-> 1,
     identityCommitment |-> Empty, expiredAt |-> "3"]

ClaimRequests == {
    With(<<Scalar, Property("POSEIDON"), Bool>>,
         <<ScalarOf("1"), PropertyOf("ann", {"2"}), BoolOf(TRUE)>>),
    With(<<Scalar, Property("CUSTOM")>>, <<ScalarOf("2"), PropertyOf("bob", {Empty})>>),
    With(<<Wide>>, <<>>),                              \* a definition without a value
    With(<<>>, <<BoolOf(TRUE)>>),                      \* a boolean without a definition
    With(<<Scalar>>, <<ScalarOf("1"), ScalarOf("2")>>), \* a scalar without one
    With(<<Scalar>>, <<ScalarOf("ann")>>),             \* no number
    With(<<Scalar>>, <<Val({})>>),                     \* a value of no kind
    With(<<Property("UNSPECIFIED")>>, <<>>),           \* no hash algorithm
    With(<<Bool, Def({})>>, <<BoolOf(FALSE)>>),        \* a type of no kind
    [With(<<>>, <<>>) EXCEPT !.body = {}]}             \* no body
=============================================================================
