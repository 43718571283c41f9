------------------------------- MODULE Marshal -------------------------------
(***************************************************************************)
(* What the issuer makes of a request before it signs: marshal.ts and the  *)
(* first half of GenerateSignedCredential (handler.ts).                    *)
(*                                                                         *)
(* The result of an operator is the set of what the function returns: one  *)
(* value, or none because it threw.  A missing message is undefined, and   *)
(* reading a field of it throws.                                           *)
(***************************************************************************)
EXTENDS IssuerMessages

-----------------------------------------------------------------------------
(* The SDK's objects                                                       *)

SdkType ==
    [kind : {"boolean"}] \cup [kind : {"scalar"}, width : Int]
      \cup [kind : {"property"}, width : Int, hashAlgorithm : PropHashEnum,
             nEqualChecks : Optional(Int)]
SdkValue ==
    BoolValue \cup [kind : {"scalar"}, type : SdkType, value : Int]
              \cup [kind : {"property"}, type : SdkType, value : Text, hash : Optional(Int)]
SdkBody ==
    [claims : Seq([name : Text, type : SdkType]), typeID : Int, revocable : Int,
     values : Seq(SdkValue)]

Credential ==
    [header : [version : Int, type : Int, context : Int, id : Int], body : SdkBody,
     attachments : AttachmentSet, chainID : Int, expireAt : Int,
     identityCommitment : Int]

-----------------------------------------------------------------------------
\* BigInt of a string: the empty string is zero, what is no numeral throws.
BigInt(text) ==
    IF text = Empty THEN {0} ELSE {ValueOf[t] : t \in {text} \cap Numerals}

\* Unary + of the decimal string of an int64: the double next to it.  Doubles
\* lie Spacing(n) apart there; halfway between two, the even multiple is taken.
Spacings == {1, 2, 4, 8, 16, 32, 64, 128, 256, 512, 1024}
Spacing(n) ==
    CHOOSE u \in Spacings :
        /\ Magnitude(n) <= MaxExact * u
        /\ \A w \in Spacings : Magnitude(n) <= MaxExact * w => u <= w
RoundTo(n, u) ==
    LET low == n \div u
        rest == n % u
    IN  u * (IF 2 * rest < u \/ (2 * rest = u /\ low % 2 = 0) THEN low ELSE low + 1)
ToNumber(n) == RoundTo(n, Spacing(n))

\* Array.map of a function that may throw: all results, or none.
AllOf(results) ==
    {s \in [DOMAIN results -> UNION {results[i] : i \in DOMAIN results}] :
        \A i \in DOMAIN results : s[i] \in results[i]}

-----------------------------------------------------------------------------
unmarshalHeader(header) ==
    {[version |-> header.version, type |-> t, context |-> c, id |-> i] :
        t \in BigInt(header.type), c \in BigInt(header.context),
        i \in BigInt(header.id)}

unmarshalPropHashEnum(pt) == {pt} \ {"UNSPECIFIED"}

\* The type of a claim.  n_equal_checks "0" is a truthy string, and kept.
ClaimTypeOf(type) ==
    CASE type.kind = "boolean"  -> {[kind |-> "boolean"]}
      [] type.kind = "scalar"   -> {[kind |-> "scalar", width |-> ToNumber(type.width)]}
      [] type.kind = "property" ->
            {[kind |-> "property", width |-> ToNumber(type.width), hashAlgorithm |-> h,
              nEqualChecks |-> {ToNumber(n) : n \in type.nEqualChecks}]
             : h \in unmarshalPropHashEnum(type.hashAlgorithm)}

unmarshalClaimDef(cd) ==
    {[name |-> cd.name, type |-> t] :
        t \in UNION {ClaimTypeOf(x) : x \in UNION {ct.type : ct \in cd.claimType}}}

\* An empty hash is falsy, as if it were not there.
Hash(text) ==
    IF text \subseteq {Empty} THEN {{}} ELSE {{n} : n \in UNION {BigInt(t) : t \in text}}

unmarshalClaimValue_NoDef(cv, claimDef) ==  \* mutant: a value without a definition is refused
    LET Of(v) ==
        CASE v.kind = "bool"     -> {[kind |-> "bool", value |-> v.value] : d \in claimDef}
          [] v.kind = "scalar"   -> {[kind |-> "scalar", type |-> d.type, value |-> n]
                                     : d \in claimDef, n \in BigInt(v.value)}
          [] v.kind = "property" -> {[kind |-> "property", type |-> d.type,
                                      value |-> v.value, hash |-> h]
                                     : d \in claimDef, h \in Hash(v.hash)}
    IN UNION {Of(v) : v \in cv.value}
\* claimDef is the definition with the value's index, if there is one.  A
\* boolean does not look at it; the others take its type, of whatever kind.
unmarshalClaimValue(cv, claimDef) ==
    LET Of(v) ==
        CASE v.kind = "bool"     -> {[kind |-> "bool", value |-> v.value]}
          [] v.kind = "scalar"   -> {[kind |-> "scalar", type |-> d.type, value |-> n]
                                     : d \in claimDef, n \in BigInt(v.value)}
          [] v.kind = "property" -> {[kind |-> "property", type |-> d.type,
                                      value |-> v.value, hash |-> h]
                                     : d \in claimDef, h \in Hash(v.hash)}
    IN UNION {Of(v) : v \in cv.value}

Claims(tp) == AllOf([i \in DOMAIN tp.claims |-> unmarshalClaimDef(tp.claims[i])])

Values_Shifted(values, defs) ==  \* mutant: the index is off by one
    AllOf([i \in DOMAIN values |->
        unmarshalClaimValue(values[i], {defs[j] : j \in {i + 1} \cap DOMAIN defs})])
Values(values, defs) ==
    AllOf([i \in DOMAIN values |->
        unmarshalClaimValue(values[i], {defs[j] : j \in {i} \cap DOMAIN defs})])

unmarshalBody(body) ==
    UNION {UNION {{[claims |-> defs, typeID |-> id, values |-> vals,
                    revocable |-> IF tp.revocable = {} THEN 0
                                  ELSE ToNumber(CHOOSE n \in tp.revocable : TRUE)]
                   : id \in BigInt(tp.typeId), vals \in Values(body.values, defs)}
                  : defs \in Claims(tp)}
           : tp \in body.tp}

\* The credential and the metadata handed to cred.sign, or an exception.
Unmarshal(req) ==
    {[header |-> h, body |-> b, attachments |-> a, chainID |-> req.chainId,
      expireAt |-> e, identityCommitment |-> ic] :
        h \in UNION {unmarshalHeader(x) : x \in req.header},
        b \in UNION {unmarshalBody(x) : x \in req.body},
        a \in req.attachments,
        e \in BigInt(req.expiredAt),
        ic \in BigInt(req.identityCommitment)}

\* What is thrown is a string, no Error, for a definition of no type, an
\* unspecified hash algorithm and a value of no kind (unless something before
\* it threw an Error).
MayThrowString(req) ==
    \E b \in req.body : \E tp \in b.tp :
        \/ \E i \in DOMAIN tp.claims : \E ct \in tp.claims[i].claimType :
              UNION {ClaimTypeOf(type) : type \in ct.type} = {}
        \/ \E i \in DOMAIN b.values : b.values[i].value = {}
=============================================================================
