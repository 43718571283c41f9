--------------------------- MODULE IssuerMessages ---------------------------
(***************************************************************************)
(* The messages of the issuer's gRPC service, as generated from            *)
(* issuer.proto for Go (issuer.pb.go) and decoded by the TypeScript server.*)
(*                                                                         *)
(* A field that may be missing (a message, an optional scalar, the member  *)
(* of a oneof) is a set with at most one member.  int64 and uint64 fields  *)
(* are integers: the server gets them as decimal strings (longToString of  *)
(* the generated issuer.ts), which it can always parse.  string fields are *)
(* members of Text, and only some of those are numerals.                   *)
(***************************************************************************)
EXTENDS Integers, Sequences

CONSTANTS
    Text,      \* the strings a message may carry
    Numerals,  \* those of them that BigInt() parses, the empty string apart
    ValueOf,   \* the integer a numeral stands for
    MaxExact   \* 2^53, up to which a double is exact (smaller in TLC's instances)

Empty == ""

ASSUME TextAssumption == Numerals \subseteq Text /\ Empty \in Text \ Numerals
ASSUME ValueOfAssumption == ValueOf \in [Numerals -> Int]
ASSUME MaxExactAssumption == MaxExact \in Nat \ {0}

\* 2^64 is 2^11 times 2^53.
TwoTo64 == 2048 * MaxExact
Uint64 == 0 .. TwoTo64 - 1
Int64 == -(1024 * MaxExact) .. 1024 * MaxExact - 1
Magnitude(n) == IF n < 0 THEN -n ELSE n

Optional(S) == {o \in SUBSET S : \A x, y \in o : x = y}

-----------------------------------------------------------------------------
(* Claims                                                                  *)

PropHashEnum == {"UNSPECIFIED", "POSEIDON", "KECCAK256", "CUSTOM"}

ScalarType == [kind : {"scalar"}, width : Int64]
PropertyType ==
    [kind : {"property"}, width : Int64, hashAlgorithm : PropHashEnum,
     nEqualChecks : Optional(Int64)]
BooleanType == [kind : {"boolean"}, value : BOOLEAN]

ClaimType == [type : Optional(ScalarType \cup PropertyType \cup BooleanType)]
ClaimDef == [name : Text, claimType : Optional(ClaimType)]

CredType ==
    [claims : Seq(ClaimDef), revocable : Optional(Int64), typeId : Text]

ScalarValue == [kind : {"scalar"}, value : Text]
PropertyValue == [kind : {"property"}, value : Text, hash : Optional(Text)]
BoolValue == [kind : {"bool"}, value : BOOLEAN]

ClaimValue == [value : Optional(ScalarValue \cup PropertyValue \cup BoolValue)]

-----------------------------------------------------------------------------
(* The one call, and what it answers                                       *)

Header == [version : Uint64, type : Text, context : Text, id : Text]
Body == [tp : Optional(CredType), values : Seq(ClaimValue)]

\* The map from attachment names to strings, as a set of pairs.
AttachmentSet == SUBSET (Text \X Text)

GenerateSignedCredentialRequest ==
    [header : Optional(Header), body : Optional(Body),
     attachments : Optional(AttachmentSet), chainId : Uint64,
     identityCommitment : Text, expiredAt : Text]
=============================================================================
