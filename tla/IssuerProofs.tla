---------------------------- MODULE IssuerProofs ----------------------------
(***************************************************************************)
(* Proofs about Issuer.  First what unmarshalling does to a request of any *)
(* shape and length: it yields a credential that says what the request     *)
(* says, and it yields one exactly if the request is well formed.  Then    *)
(* that the server and its callers implement Signing.                      *)
(***************************************************************************)
EXTENDS Issuer, TLAPS

-----------------------------------------------------------------------------
(* Numbers and lists                                                       *)

USE DEF Empty, Abs!Empty

\* The integers of the protocol's widths.
LEMMA WidthType ==
    /\ TwoTo64 \in Nat \ {0, 1} /\ Int64 \subseteq Int /\ 0 \in Int64
    /\ \A n \in Int64 : Magnitude(n) <= MaxExact * 1024
BY MaxExactAssumption DEF TwoTo64, Int64, Magnitude

\* The spacing of doubles at n: n is within reach of it, and not of half of it.
LEMMA SpacingFits ==
    ASSUME NEW n \in Int64
    PROVE  /\ Spacing(n) \in Spacings
           /\ \A w \in Spacings : Spacing(n) = 2 * w => MaxExact * w < Magnitude(n)
<1> DEFINE m == Magnitude(n)
           Fits(u) == m <= MaxExact * u /\ \A w \in Spacings : m <= MaxExact * w => u <= w
<1>1. m \in Nat /\ m <= MaxExact * 1024
  BY WidthType DEF Magnitude
<1>2. Spacing(n) = CHOOSE u \in Spacings : Fits(u)
  BY DEF Spacing
<1> HIDE DEF m
<1>3. \E u \in Spacings : Fits(u)
  BY <1>1, MaxExactAssumption DEF Spacings
<1> DEFINE s == Spacing(n)
<1>4. s \in Spacings /\ Fits(s)
  BY <1>2, <1>3
<1> HIDE DEF s
<1>5. ASSUME NEW w \in Spacings, s = 2 * w
      PROVE  MaxExact * w < m
  <2>1. w \in Nat \ {0}
    BY DEF Spacings
  <2>2. ~(s <= w) /\ MaxExact * w \in Int
    BY <1>5, <2>1, MaxExactAssumption
  <2> QED
    BY <1>1, <1>4, <2>2
<1> QED
  BY <1>4, <1>5 DEF s, m

\* Rounding moves a number by half the spacing at most.
LEMMA RoundToNear ==
    ASSUME NEW n \in Int, NEW u \in Spacings
    PROVE  RoundTo(n, u) \in Int /\ 2 * Magnitude(RoundTo(n, u) - n) <= u
<1>1. n % u \in 0 .. u - 1 /\ n = u * (n \div u) + (n % u) /\ n \div u \in Int
  BY DEF Spacings
<1> QED
  BY <1>1 DEF RoundTo, Magnitude, Spacings

LEMMA LessTimes ==
    ASSUME NEW a \in Nat, NEW b \in Nat, NEW c \in Nat, a <= b
    PROVE  a * c <= c * b
OBVIOUS

\* What unary + makes of an int64 stands for it.
LEMMA ToNumberRounds ==
    ASSUME NEW n \in Int64
    PROVE  ToNumber(n) \in Int /\ Abs!Rounds(n, ToNumber(n))
<1> DEFINE u == Spacing(n)
           d == Magnitude(ToNumber(n) - n)
           m == Magnitude(n)
<1>1. n \in Int /\ u \in Spacings
  BY WidthType, SpacingFits
<1>2. ToNumber(n) \in Int /\ 2 * d <= u
  BY <1>1, RoundToNear DEF ToNumber
<1>3. d \in Nat /\ m \in Nat
  BY <1>1, <1>2 DEF Magnitude
<1>4. \A w \in Spacings : u = 2 * w => MaxExact * w < m
  BY SpacingFits
<1>5. Abs!Rounds(n, ToNumber(n)) <=> d * MaxExact <= m
  BY DEF Abs!Rounds, Abs!Magnitude, Magnitude
<1> HIDE DEF u, d, m
<1>6. CASE u = 1
  <2>1. d = 0
    BY <1>2, <1>3, <1>6
  <2> QED
    BY <1>2, <1>3, <1>5, <2>1, MaxExactAssumption
<1>7. CASE u # 1
  <2>1. PICK w \in Spacings : u = 2 * w
    BY <1>1, <1>7 DEF Spacings
  <2>2. w \in Nat
    BY DEF Spacings
  <2>3. d <= w
    BY <1>2, <1>3, <2>1, <2>2
  <2>4. d * MaxExact <= MaxExact * w
    BY <1>3, <2>2, <2>3, LessTimes, MaxExactAssumption
  <2>5. MaxExact * w < m
    BY <1>4, <2>1
  <2>6. d * MaxExact \in Int /\ MaxExact * w \in Int
    BY <1>3, <2>2, MaxExactAssumption
  <2> QED
    BY <1>2, <1>3, <1>5, <2>4, <2>5, <2>6
<1> QED
  BY <1>6, <1>7

\* BigInt returns the number a text is written for, and only that.
LEMMA BigIntWrites ==
    ASSUME NEW text, NEW n
    PROVE  n \in BigInt(text) <=> Abs!Writes(text, n)
BY TextAssumption DEF BigInt, Abs!Writes

\* BigInt returns exactly on the texts that are numbers.
LEMMA BigIntTotal ==
    ASSUME NEW text
    PROVE  BigInt(text) # {} <=> Abs!IsNumber(text)
BY TextAssumption DEF BigInt, Abs!IsNumber

\* What BigInt returns is an integer.
LEMMA BigIntType ==
    ASSUME NEW text, NEW n \in BigInt(text)
    PROVE  n \in Int
<1>1. CASE text = Empty
  <2>1. BigInt(text) = {0}
    BY <1>1 DEF BigInt
  <2> QED
    BY <2>1
<1>2. CASE text # Empty
  BY <1>2, ValueOfAssumption DEF BigInt
<1> QED
  BY <1>1, <1>2

\* The hash of a property value is missing, or is the number of the hash that
\* was sent.
LEMMA HashSays ==
    ASSUME NEW text \in Optional(Text), NEW h \in Hash(text)
    PROVE  /\ h = {} <=> text \subseteq {Empty}
           /\ \A n \in h : \E t \in text : Abs!Writes(t, n)
           /\ h \in Optional(Int)
<1>1. CASE text \subseteq {Empty}
  BY <1>1 DEF Hash, Optional
<1>2. CASE ~(text \subseteq {Empty})
  <2>1. PICK t \in text : \E k \in BigInt(t) : h = {k}
    BY <1>2 DEF Hash
  <2> PICK n \in BigInt(t) : h = {n}
    BY <2>1
  <2>2. Abs!Writes(t, n) /\ n \in Int
    BY <2>1, BigIntWrites, BigIntType
  <2> QED
    BY <1>2, <2>1, <2>2 DEF Optional
<1> QED
  BY <1>1, <1>2

\* Only a hash that is no number is refused.
LEMMA HashTotal ==
    ASSUME NEW text \in Optional(Text)
    PROVE  Hash(text) # {} <=> \A t \in text : Abs!IsNumber(t)
<1>1. CASE text \subseteq {Empty}
  BY <1>1 DEF Hash, Abs!IsNumber
<1>2. CASE ~(text \subseteq {Empty})
  <2>1. PICK t \in text : t # Empty
    BY <1>2
  <2>2. text = {t}
    BY <2>1 DEF Optional
  <2>3. Hash(text) = {{n} : n \in BigInt(t)}
    BY <1>2, <2>2 DEF Hash
  <2> QED
    BY <2>2, <2>3, BigIntTotal
<1> QED
  BY <1>1, <1>2

\* A map succeeds exactly if the function succeeds on every element.
LEMMA AllOfTotal ==
    ASSUME NEW results
    PROVE  AllOf(results) # {} <=> \A i \in DOMAIN results : results[i] # {}
<1>1. ASSUME \A i \in DOMAIN results : results[i] # {}
      PROVE  AllOf(results) # {}
  <2> DEFINE s == [i \in DOMAIN results |-> CHOOSE x \in results[i] : TRUE]
  <2>1. \A i \in DOMAIN results : s[i] \in results[i]
    BY <1>1
  <2>2. s \in AllOf(results)
    BY <2>1 DEF AllOf
  <2> QED
    BY <2>2
<1>2. ASSUME AllOf(results) # {}
      PROVE  \A i \in DOMAIN results : results[i] # {}
  BY <1>2 DEF AllOf
<1> QED
  BY <1>1, <1>2

\* What a map returns has the domain of its argument, element by element.
LEMMA AllOfElements ==
    ASSUME NEW results, NEW s \in AllOf(results)
    PROVE  DOMAIN s = DOMAIN results /\ \A i \in DOMAIN s : s[i] \in results[i]
BY DEF AllOf

-----------------------------------------------------------------------------
(* Claims and values                                                       *)

\* A definition that unmarshals is the definition that was sent.
LEMMA ClaimDefSays ==
    ASSUME NEW cd \in ClaimDef, NEW def \in unmarshalClaimDef(cd)
    PROVE  Abs!Defines(cd, def) /\ def \in [name : Text, type : SdkType]
<1>1. PICK ct \in cd.claimType : \E t \in ct.type : \E k \in ClaimTypeOf(t) :
          def = [name |-> cd.name, type |-> k]
  BY DEF unmarshalClaimDef
<1> PICK t \in ct.type : \E k \in ClaimTypeOf(t) : def = [name |-> cd.name, type |-> k]
  BY <1>1
<1>2. ct \in ClaimType /\ t \in ScalarType \cup PropertyType \cup BooleanType
  BY <1>1 DEF ClaimDef, ClaimType, Optional
<1>3. CASE t \in BooleanType
  BY <1>1, <1>3 DEF ClaimTypeOf, Abs!Defines, BooleanType, SdkType, ClaimDef
<1>4. CASE t \in ScalarType
  <2>1. ToNumber(t.width) \in Int /\ Abs!Rounds(t.width, ToNumber(t.width))
    BY <1>4, ToNumberRounds DEF ScalarType
  <2>2. def = [name |-> cd.name, type |-> [kind |-> "scalar", width |-> ToNumber(t.width)]]
    BY <1>1, <1>4 DEF ClaimTypeOf, ScalarType
  <2> QED
    BY <1>1, <1>4, <2>1, <2>2 DEF Abs!Defines, ScalarType, SdkType, ClaimDef
<1>5. CASE t \in PropertyType
  <2> DEFINE checks == {ToNumber(n) : n \in t.nEqualChecks}
             type == [kind |-> "property", width |-> ToNumber(t.width),
                      hashAlgorithm |-> t.hashAlgorithm, nEqualChecks |-> checks]
  <2>1. ToNumber(t.width) \in Int /\ Abs!Rounds(t.width, ToNumber(t.width))
    BY <1>5, ToNumberRounds DEF PropertyType
  <2>2. t.nEqualChecks \in Optional(Int64) /\ t.hashAlgorithm \in PropHashEnum
    BY <1>5 DEF PropertyType
  <2>3. \A n \in t.nEqualChecks : ToNumber(n) \in Int /\ Abs!Rounds(n, ToNumber(n))
    BY <2>2, ToNumberRounds DEF Optional
  <2>4. /\ checks = {} <=> t.nEqualChecks = {}
        /\ \A n \in t.nEqualChecks : \A k \in checks : Abs!Rounds(n, k)
        /\ checks \in Optional(Int)
    BY <2>2, <2>3 DEF Optional
  <2>5. def = [name |-> cd.name, type |-> type]
    BY <1>1, <1>5 DEF ClaimTypeOf, PropertyType, unmarshalPropHashEnum
  <2>6. /\ type.kind = "property" /\ type.width = ToNumber(t.width)
        /\ type.hashAlgorithm = t.hashAlgorithm /\ type.nEqualChecks = checks
    OBVIOUS
  <2>7. type \in [kind : {"property"}, width : Int, hashAlgorithm : PropHashEnum,
                  nEqualChecks : Optional(Int)]
    BY <2>1, <2>2, <2>4
  <2>8. cd.name \in Text /\ type \in SdkType /\ def.name = cd.name /\ def.type = type
    BY <2>5, <2>7 DEF ClaimDef, SdkType
  <2>9. t.kind = "property"
    BY <1>5 DEF PropertyType
  <2> HIDE DEF checks, type
  <2> QED
    BY <1>1, <2>1, <2>4, <2>5, <2>6, <2>8, <2>9 DEF Abs!Defines
<1> QED
  BY <1>2, <1>3, <1>4, <1>5

\* A definition is refused exactly if its type or its hash algorithm is missing.
LEMMA ClaimDefTotal ==
    ASSUME NEW cd \in ClaimDef
    PROVE  unmarshalClaimDef(cd) # {} <=>
             \E ct \in cd.claimType : \E t \in ct.type :
                t.kind = "property" => t.hashAlgorithm # "UNSPECIFIED"
<1> DEFINE types == UNION {ct.type : ct \in cd.claimType}
<1>1. \A t \in types : t \in ScalarType \cup PropertyType \cup BooleanType
  BY DEF ClaimDef, ClaimType, Optional
<1>2. \A t \in types : ClaimTypeOf(t) # {} <=>
                         (t.kind = "property" => t.hashAlgorithm # "UNSPECIFIED")
  <2> TAKE t \in types
  <2>1. CASE t \in BooleanType
    BY <2>1 DEF ClaimTypeOf, BooleanType
  <2>2. CASE t \in ScalarType
    BY <2>2 DEF ClaimTypeOf, ScalarType
  <2>3. CASE t \in PropertyType
    <3> DEFINE type(h) == [kind |-> "property", width |-> ToNumber(t.width),
                           hashAlgorithm |-> h,
                           nEqualChecks |-> {ToNumber(n) : n \in t.nEqualChecks}]
    <3>1. /\ t.kind = "property"
          /\ ClaimTypeOf(t) = {type(h) : h \in {t.hashAlgorithm} \ {"UNSPECIFIED"}}
      BY <2>3 DEF ClaimTypeOf, PropertyType, unmarshalPropHashEnum
    <3> HIDE DEF type
    <3> QED
      BY <3>1
  <2> QED
    BY <1>1, <2>1, <2>2, <2>3
<1>3. unmarshalClaimDef(cd)
        = {[name |-> cd.name, type |-> t] : t \in UNION {ClaimTypeOf(x) : x \in types}}
  BY DEF unmarshalClaimDef
<1> HIDE DEF types
<1>4. ASSUME NEW t \in types, ClaimTypeOf(t) # {}
      PROVE  unmarshalClaimDef(cd) # {}
  <2>1. PICK k : k \in ClaimTypeOf(t)
    BY <1>4
  <2>2. [name |-> cd.name, type |-> k] \in unmarshalClaimDef(cd)
    BY <1>3, <2>1
  <2> QED
    BY <2>2
<1>5. ASSUME unmarshalClaimDef(cd) # {}
      PROVE  \E t \in types : ClaimTypeOf(t) # {}
  BY <1>3, <1>5
<1> QED
  BY <1>2, <1>4, <1>5 DEF types

\* A value that unmarshals is the value that was sent, of the type of the
\* definition with its index.
LEMMA ClaimValueSays ==
    ASSUME NEW cv \in ClaimValue, NEW defs \in Seq([name : Text, type : SdkType]), NEW i,
           NEW v \in unmarshalClaimValue(cv, {defs[j] : j \in {i} \cap DOMAIN defs})
    PROVE  Abs!IsValueOf(cv, v, defs, i) /\ v \in SdkValue
<1> DEFINE def == {defs[j] : j \in {i} \cap DOMAIN defs}
<1>1. \A d \in def : i \in DOMAIN defs /\ d = defs[i] /\ d.type \in SdkType
  <2> DEFINE S == [name : Text, type : SdkType]
  <2>1. defs \in Seq(S)
    OBVIOUS
  <2>2. \A d \in S : d.type \in SdkType
    OBVIOUS
  <2> HIDE DEF S
  <2>3. \A j \in DOMAIN defs : defs[j] \in S
    BY <2>1
  <2> QED
    BY <2>2, <2>3
<1>2. PICK w \in cv.value :
        \/ w.kind = "bool" /\ v = [kind |-> "bool", value |-> w.value]
        \/ w.kind = "scalar" /\ \E d \in def, n \in BigInt(w.value) :
              v = [kind |-> "scalar", type |-> d.type, value |-> n]
        \/ w.kind = "property" /\ \E d \in def, h \in Hash(w.hash) :
              v = [kind |-> "property", type |-> d.type, value |-> w.value, hash |-> h]
  BY DEF unmarshalClaimValue, ClaimValue, Optional, ScalarValue, PropertyValue, BoolValue
<1>3. w \in ScalarValue \cup PropertyValue \cup BoolValue
  BY <1>2 DEF ClaimValue, Optional
<1> HIDE DEF def
<1>4. CASE w.kind = "bool"
  BY <1>2, <1>3, <1>4 DEF Abs!IsValueOf, ScalarValue, PropertyValue, BoolValue, SdkValue
<1>5. CASE w.kind = "scalar"
  <2>1. PICK d \in def, n \in BigInt(w.value) :
            v = [kind |-> "scalar", type |-> d.type, value |-> n]
    BY <1>2, <1>5
  <2>2. Abs!Writes(w.value, n) /\ n \in Int
    BY BigIntWrites, BigIntType
  <2> QED
    BY <1>1, <1>5, <2>1, <2>2 DEF Abs!IsValueOf, SdkValue
<1>6. CASE w.kind = "property"
  <2>1. PICK d \in def, h \in Hash(w.hash) :
            v = [kind |-> "property", type |-> d.type, value |-> w.value, hash |-> h]
    BY <1>2, <1>6
  <2>2. w.hash \in Optional(Text) /\ w.value \in Text
    BY <1>3, <1>6 DEF ScalarValue, PropertyValue, BoolValue
  <2>3. /\ h = {} <=> w.hash \subseteq {Empty}
        /\ \A n \in h : \E t \in w.hash : Abs!Writes(t, n)
        /\ h \in Optional(Int)
    BY <2>2, HashSays
  <2> QED
    BY <1>1, <1>6, <2>1, <2>2, <2>3 DEF Abs!IsValueOf, SdkValue
<1> QED
  BY <1>2, <1>4, <1>5, <1>6

\* A value is refused exactly if its kind is missing, a number is none, or
\* there is no definition that it needs.
LEMMA ClaimValueTotal ==
    ASSUME NEW cv \in ClaimValue, NEW defs, NEW i
    PROVE  unmarshalClaimValue(cv, {defs[j] : j \in {i} \cap DOMAIN defs}) # {} <=>
             \E w \in cv.value :
                /\ w.kind # "bool" => i \in DOMAIN defs
                /\ w.kind = "scalar" => Abs!IsNumber(w.value)
                /\ w.kind = "property" => \A t \in w.hash : Abs!IsNumber(t)
<1> DEFINE def == {defs[j] : j \in {i} \cap DOMAIN defs}
<1>1. def # {} <=> i \in DOMAIN defs
  OBVIOUS
<1> HIDE DEF def
<1>2. cv.value \subseteq ScalarValue \cup PropertyValue \cup BoolValue
  BY DEF ClaimValue, Optional
<1> DEFINE Of(v) ==
        CASE v.kind = "bool"     -> {[kind |-> "bool", value |-> v.value]}
          [] v.kind = "scalar"   -> {[kind |-> "scalar", type |-> d.type, value |-> n]
                                     : d \in def, n \in BigInt(v.value)}
          [] v.kind = "property" -> {[kind |-> "property", type |-> d.type,
                                      value |-> v.value, hash |-> h]
                                     : d \in def, h \in Hash(v.hash)}
<1>3. ASSUME NEW w \in cv.value
      PROVE  Of(w) # {} <=>
               \/ w.kind = "bool"
               \/ w.kind = "scalar" /\ def # {} /\ BigInt(w.value) # {}
               \/ w.kind = "property" /\ def # {} /\ Hash(w.hash) # {}
  <2>1. w.kind = "bool" => Of(w) = {[kind |-> "bool", value |-> w.value]}
    OBVIOUS
  <2>2. w.kind = "scalar" =>
          Of(w) = {[kind |-> "scalar", type |-> d.type, value |-> n]
                   : d \in def, n \in BigInt(w.value)}
    OBVIOUS
  <2>3. w.kind = "property" =>
          Of(w) = {[kind |-> "property", type |-> d.type, value |-> w.value, hash |-> h]
                   : d \in def, h \in Hash(w.hash)}
    OBVIOUS
  <2> HIDE DEF Of
  <2>4. w.kind \in {"bool", "scalar", "property"}
    BY <1>2 DEF ScalarValue, PropertyValue, BoolValue
  <2>5. CASE w.kind = "bool"
    BY <2>1, <2>5
  <2>6. CASE w.kind = "scalar"
    <3>1. ASSUME NEW d \in def, NEW n \in BigInt(w.value)
          PROVE  Of(w) # {}
      <4>1. [kind |-> "scalar", type |-> d.type, value |-> n] \in Of(w)
        BY <2>2, <2>6
      <4> QED
        BY <4>1
    <3>2. ASSUME NEW x \in Of(w)
          PROVE  \E d \in def, n \in BigInt(w.value) : TRUE
      BY <2>2, <2>6
    <3> QED
      BY <2>6, <3>1, <3>2
  <2>7. CASE w.kind = "property"
    <3>1. ASSUME NEW d \in def, NEW h \in Hash(w.hash)
          PROVE  Of(w) # {}
      <4>1. [kind |-> "property", type |-> d.type, value |-> w.value, hash |-> h] \in Of(w)
        BY <2>3, <2>7
      <4> QED
        BY <4>1
    <3>2. ASSUME NEW x \in Of(w)
          PROVE  \E d \in def, h \in Hash(w.hash) : TRUE
      BY <2>3, <2>7
    <3> QED
      BY <2>7, <3>1, <3>2
  <2> QED
    BY <2>4, <2>5, <2>6, <2>7
<1>6. unmarshalClaimValue(cv, def) = UNION {Of(w) : w \in cv.value}
  BY DEF unmarshalClaimValue
<1> HIDE DEF Of
<1>7. unmarshalClaimValue(cv, def) # {} <=> \E w \in cv.value : Of(w) # {}
  BY <1>6
<1>4. \A w \in cv.value : w.kind = "property" => w.hash \in Optional(Text)
  BY <1>2 DEF ScalarValue, PropertyValue, BoolValue
<1>5. \A w \in cv.value : w.kind \in {"bool", "scalar", "property"}
  BY <1>2 DEF ScalarValue, PropertyValue, BoolValue
<1> QED
  BY <1>1, <1>3, <1>4, <1>5, <1>7, BigIntTotal, HashTotal DEF def
-----------------------------------------------------------------------------
(* Headers, lists of claims and values, bodies                             *)

\* A header that unmarshals says what the header of the request says.
LEMMA HeaderSays ==
    ASSUME NEW header \in Header, NEW h \in unmarshalHeader(header)
    PROVE  /\ Abs!SaysHeader(header, h)
           /\ h \in [version : Int, type : Int, context : Int, id : Int]
<1>1. PICK t \in BigInt(header.type), c \in BigInt(header.context), i \in BigInt(header.id) :
          h = [version |-> header.version, type |-> t, context |-> c, id |-> i]
  BY DEF unmarshalHeader
<1>2. header.version \in Int
  BY WidthType DEF Header, Uint64
<1>3. /\ Abs!Writes(header.type, t) /\ Abs!Writes(header.context, c)
      /\ Abs!Writes(header.id, i)
  BY BigIntWrites
<1>4. t \in Int /\ c \in Int /\ i \in Int
  BY BigIntType
<1> QED
  BY <1>1, <1>2, <1>3, <1>4 DEF Abs!SaysHeader

\* A header is refused exactly if one of its texts is no number.
LEMMA HeaderTotal ==
    ASSUME NEW header
    PROVE  unmarshalHeader(header) # {} <=>
             \A t \in {header.type, header.context, header.id} : Abs!IsNumber(t)
<1>1. ASSUME NEW t \in BigInt(header.type), NEW c \in BigInt(header.context),
             NEW i \in BigInt(header.id)
      PROVE  unmarshalHeader(header) # {}
  <2>1. [version |-> header.version, type |-> t, context |-> c, id |-> i]
          \in unmarshalHeader(header)
    BY DEF unmarshalHeader
  <2> QED
    BY <2>1
<1>2. ASSUME NEW h \in unmarshalHeader(header)
      PROVE  BigInt(header.type) # {} /\ BigInt(header.context) # {} /\ BigInt(header.id) # {}
  BY DEF unmarshalHeader
<1> QED
  BY <1>1, <1>2, BigIntTotal

\* A sequence is what is a function on some 1 .. n.
LEMMA SeqOf ==
    ASSUME NEW S, NEW R, NEW q \in Seq(R), NEW s, s = [i \in DOMAIN s |-> s[i]],
           DOMAIN s = DOMAIN q, \A i \in DOMAIN s : s[i] \in S
    PROVE  s \in Seq(S)
<1>1. DOMAIN q = 1 .. Len(q) /\ Len(q) \in Nat
  OBVIOUS
<1>2. s \in [1 .. Len(q) -> S]
  BY <1>1
<1> QED
  BY <1>1, <1>2

\* The definitions of a credential type, one for each that was sent, in order.
LEMMA ClaimsSays ==
    ASSUME NEW tp \in CredType, NEW defs \in Claims(tp)
    PROVE  /\ defs \in Seq([name : Text, type : SdkType])
           /\ DOMAIN defs = DOMAIN tp.claims
           /\ \A i \in DOMAIN defs : Abs!Defines(tp.claims[i], defs[i])
<1> DEFINE results == [i \in DOMAIN tp.claims |-> unmarshalClaimDef(tp.claims[i])]
<1>1. tp.claims \in Seq(ClaimDef)
  BY DEF CredType
<1>2. \A i \in DOMAIN tp.claims : tp.claims[i] \in ClaimDef
  BY <1>1
<1>3. defs \in AllOf(results)
  BY DEF Claims
<1>4. DOMAIN results = DOMAIN tp.claims
      /\ \A i \in DOMAIN results : results[i] = unmarshalClaimDef(tp.claims[i])
  OBVIOUS
<1> HIDE DEF results
<1>5. DOMAIN defs = DOMAIN results /\ \A i \in DOMAIN defs : defs[i] \in results[i]
  BY <1>3, AllOfElements
<1>6. defs = [i \in DOMAIN defs |-> defs[i]]
  BY <1>3 DEF AllOf
<1>7. \A i \in DOMAIN defs : /\ Abs!Defines(tp.claims[i], defs[i])
                             /\ defs[i] \in [name : Text, type : SdkType]
  BY <1>2, <1>4, <1>5, ClaimDefSays
<1> DEFINE S == [name : Text, type : SdkType]
<1>8. \A i \in DOMAIN defs : defs[i] \in S
  BY <1>7
<1> HIDE DEF S
<1>9. defs \in Seq(S)
  BY <1>1, <1>4, <1>5, <1>6, <1>8, SeqOf
<1> QED
  BY <1>4, <1>5, <1>7, <1>9 DEF S

\* They are refused exactly if one of them is.
LEMMA ClaimsTotal ==
    ASSUME NEW tp \in CredType
    PROVE  Claims(tp) # {} <=>
             \A i \in DOMAIN tp.claims : \E ct \in tp.claims[i].claimType : \E t \in ct.type :
                t.kind = "property" => t.hashAlgorithm # "UNSPECIFIED"
<1> DEFINE results == [i \in DOMAIN tp.claims |-> unmarshalClaimDef(tp.claims[i])]
<1>1. tp.claims \in Seq(ClaimDef)
  BY DEF CredType
<1>2. \A i \in DOMAIN tp.claims : tp.claims[i] \in ClaimDef
  BY <1>1
<1>3. Claims(tp) = AllOf(results)
  BY DEF Claims
<1>4. Claims(tp) # {} <=> \A i \in DOMAIN results : results[i] # {}
  BY <1>3, AllOfTotal
<1>5. Claims(tp) # {} <=> \A i \in DOMAIN tp.claims : unmarshalClaimDef(tp.claims[i]) # {}
  BY <1>4
<1> HIDE DEF results
<1> QED
  BY <1>2, <1>5, ClaimDefTotal

\* The values of a body, one for each that was sent, in order.
LEMMA ValuesSays ==
    ASSUME NEW values \in Seq(ClaimValue), NEW defs \in Seq([name : Text, type : SdkType]),
           NEW vals \in Values(values, defs)
    PROVE  /\ vals \in Seq(SdkValue)
           /\ DOMAIN vals = DOMAIN values
           /\ \A i \in DOMAIN vals : Abs!IsValueOf(values[i], vals[i], defs, i)
<1> DEFINE results == [i \in DOMAIN values |->
        unmarshalClaimValue(values[i], {defs[j] : j \in {i} \cap DOMAIN defs})]
<1>2. \A i \in DOMAIN values : values[i] \in ClaimValue
  OBVIOUS
<1>3. vals \in AllOf(results)
  BY DEF Values
<1>4. DOMAIN results = DOMAIN values
      /\ \A i \in DOMAIN results : results[i] =
            unmarshalClaimValue(values[i], {defs[j] : j \in {i} \cap DOMAIN defs})
  OBVIOUS
<1> HIDE DEF results
<1>5. DOMAIN vals = DOMAIN results /\ \A i \in DOMAIN vals : vals[i] \in results[i]
  BY <1>3, AllOfElements
<1>6. vals = [i \in DOMAIN vals |-> vals[i]]
  BY <1>3 DEF AllOf
<1>7. ASSUME NEW i \in DOMAIN vals
      PROVE  Abs!IsValueOf(values[i], vals[i], defs, i) /\ vals[i] \in SdkValue
  <2>1. values[i] \in ClaimValue
    BY <1>2, <1>4, <1>5
  <2>2. vals[i] \in unmarshalClaimValue(values[i], {defs[j] : j \in {i} \cap DOMAIN defs})
    BY <1>4, <1>5
  <2> QED
    BY <2>1, <2>2, ClaimValueSays
<1>8. vals \in Seq(SdkValue)
  BY <1>4, <1>5, <1>6, <1>7, SeqOf
<1> QED
  BY <1>4, <1>5, <1>7, <1>8

\* They are refused exactly if one of them is.
LEMMA ValuesTotal ==
    ASSUME NEW values \in Seq(ClaimValue), NEW defs
    PROVE  Values(values, defs) # {} <=>
             \A i \in DOMAIN values : \E w \in values[i].value :
                /\ w.kind # "bool" => i \in DOMAIN defs
                /\ w.kind = "scalar" => Abs!IsNumber(w.value)
                /\ w.kind = "property" => \A t \in w.hash : Abs!IsNumber(t)
<1> DEFINE one(i) == unmarshalClaimValue(values[i], {defs[j] : j \in {i} \cap DOMAIN defs})
<1> DEFINE results == [i \in DOMAIN values |-> one(i)]
<1>1. \A i \in DOMAIN values : values[i] \in ClaimValue
  OBVIOUS
<1>2. Values(values, defs) = AllOf(results)
  BY DEF Values
<1>3. ASSUME NEW i \in DOMAIN values
      PROVE  one(i) # {} <=> \E w \in values[i].value :
                /\ w.kind # "bool" => i \in DOMAIN defs
                /\ w.kind = "scalar" => Abs!IsNumber(w.value)
                /\ w.kind = "property" => \A t \in w.hash : Abs!IsNumber(t)
  BY <1>1, ClaimValueTotal
<1> HIDE DEF one
<1>4. Values(values, defs) # {} <=> \A i \in DOMAIN results : results[i] # {}
  BY <1>2, AllOfTotal
<1>5. Values(values, defs) # {} <=> \A i \in DOMAIN values : one(i) # {}
  BY <1>4
<1> QED
  BY <1>3, <1>5

\* A body that unmarshals says what the body of the request says.
LEMMA BodySays ==
    ASSUME NEW body \in Body, NEW b \in unmarshalBody(body)
    PROVE  Abs!SaysBody(body, b) /\ b \in SdkBody
<1> DEFINE revocable(tp) == IF tp.revocable = {} THEN 0
                            ELSE ToNumber(CHOOSE n \in tp.revocable : TRUE)
<1>1. PICK tp \in body.tp : \E defs \in Claims(tp) :
        \E id \in BigInt(tp.typeId), vals \in Values(body.values, defs) :
          b = [claims |-> defs, typeID |-> id, values |-> vals, revocable |-> revocable(tp)]
  BY DEF unmarshalBody
<1>2. PICK defs \in Claims(tp) : \E id \in BigInt(tp.typeId), vals \in Values(body.values, defs) :
          b = [claims |-> defs, typeID |-> id, values |-> vals, revocable |-> revocable(tp)]
  BY <1>1
<1>3. PICK id \in BigInt(tp.typeId), vals \in Values(body.values, defs) :
          b = [claims |-> defs, typeID |-> id, values |-> vals, revocable |-> revocable(tp)]
  BY <1>2
<1>4. tp \in CredType /\ tp.revocable \in Optional(Int64) /\ body.values \in Seq(ClaimValue)
  BY DEF Body, CredType, Optional
<1>5. /\ \A n \in tp.revocable : Abs!Rounds(n, revocable(tp))
      /\ tp.revocable = {} => revocable(tp) = 0
      /\ revocable(tp) \in Int
  <2>1. CASE tp.revocable = {}
    BY <2>1
  <2>2. ASSUME NEW n \in tp.revocable
        PROVE  /\ Abs!Rounds(n, revocable(tp)) /\ revocable(tp) \in Int
               /\ tp.revocable # {}
    <3>1. tp.revocable = {n} /\ n \in Int64
      BY <1>4 DEF Optional
    <3>2. revocable(tp) = ToNumber(n)
      BY <3>1
    <3> QED
      BY <3>1, <3>2, ToNumberRounds
  <2> QED
    BY <2>1, <2>2
<1> HIDE DEF revocable
<1>6. /\ defs \in Seq([name : Text, type : SdkType])
      /\ DOMAIN defs = DOMAIN tp.claims
      /\ \A i \in DOMAIN defs : Abs!Defines(tp.claims[i], defs[i])
  BY <1>4, ClaimsSays
<1>7. /\ vals \in Seq(SdkValue)
      /\ DOMAIN vals = DOMAIN body.values
      /\ \A i \in DOMAIN vals : Abs!IsValueOf(body.values[i], vals[i], defs, i)
  BY <1>4, <1>6, ValuesSays
<1>8. Abs!Writes(tp.typeId, id) /\ id \in Int
  BY BigIntWrites, BigIntType
<1>9. /\ b.claims = defs /\ b.typeID = id /\ b.values = vals /\ b.revocable = revocable(tp)
  BY <1>3
<1>10. Abs!SaysBody(body, b)
  BY <1>5, <1>6, <1>7, <1>8, <1>9 DEF Abs!SaysBody
<1>11. b \in SdkBody
  <2> DEFINE C == Seq([name : Text, type : SdkType])
             V == Seq(SdkValue)
  <2>1. defs \in C /\ vals \in V
    BY <1>6, <1>7
  <2>2. SdkBody = [claims : C, typeID : Int, revocable : Int, values : V]
    BY DEF SdkBody
  <2> HIDE DEF C, V
  <2> QED
    BY <1>3, <1>5, <1>8, <2>1, <2>2
<1> QED
  BY <1>10, <1>11

\* A body is refused exactly if its type is missing, or a part of it is refused.
LEMMA BodyTotal ==
    ASSUME NEW body \in Body
    PROVE  unmarshalBody(body) # {} <=>
             \E tp \in body.tp :
               /\ Abs!IsNumber(tp.typeId)
               /\ \A i \in DOMAIN tp.claims : \E ct \in tp.claims[i].claimType :
                     \E t \in ct.type :
                         t.kind = "property" => t.hashAlgorithm # "UNSPECIFIED"
               /\ \A i \in DOMAIN body.values : \E w \in body.values[i].value :
                     /\ w.kind # "bool" => i \in DOMAIN tp.claims
                     /\ w.kind = "scalar" => Abs!IsNumber(w.value)
                     /\ w.kind = "property" => \A t \in w.hash : Abs!IsNumber(t)
<1> DEFINE revocable(tp) == IF tp.revocable = {} THEN 0
                            ELSE ToNumber(CHOOSE n \in tp.revocable : TRUE)
<1> DEFINE valuesOk(defs) == \A i \in DOMAIN body.values : \E w \in body.values[i].value :
                     /\ w.kind # "bool" => i \in DOMAIN defs
                     /\ w.kind = "scalar" => Abs!IsNumber(w.value)
                     /\ w.kind = "property" => \A t \in w.hash : Abs!IsNumber(t)
<1>1. body.values \in Seq(ClaimValue) /\ \A tp \in body.tp : tp \in CredType
  BY DEF Body, Optional
<1>2. \A defs : Values(body.values, defs) # {} <=> valuesOk(defs)
  BY <1>1, ValuesTotal
<1>3. \A tp \in body.tp : \A defs : DOMAIN defs = DOMAIN tp.claims
                                      => (valuesOk(defs) <=> valuesOk(tp.claims))
  OBVIOUS
<1> HIDE DEF valuesOk
<1> DEFINE some(tp, defs) == {[claims |-> defs, typeID |-> id, values |-> vals,
                               revocable |-> revocable(tp)]
                              : id \in BigInt(tp.typeId), vals \in Values(body.values, defs)}
<1>4. unmarshalBody(body) = UNION {UNION {some(tp, defs) : defs \in Claims(tp)} : tp \in body.tp}
  BY DEF unmarshalBody
<1> HIDE DEF revocable
<1>5. \A tp \in body.tp : \A defs \in Claims(tp) : DOMAIN defs = DOMAIN tp.claims
  BY <1>1, ClaimsSays
<1>6. ASSUME NEW tp \in body.tp, BigInt(tp.typeId) # {}, Claims(tp) # {}, valuesOk(tp.claims)
      PROVE  unmarshalBody(body) # {}
  <2>1. PICK defs : defs \in Claims(tp)
    BY <1>6
  <2>2. Values(body.values, defs) # {}
    BY <1>2, <1>3, <1>5, <1>6, <2>1
  <2>3. PICK id \in BigInt(tp.typeId) : TRUE
    BY <1>6
  <2>4. PICK vals \in Values(body.values, defs) : TRUE
    BY <2>2
  <2>5. [claims |-> defs, typeID |-> id, values |-> vals, revocable |-> revocable(tp)]
          \in some(tp, defs)
    BY <2>3, <2>4
  <2> HIDE DEF some
  <2> QED
    BY <1>4, <2>1, <2>5
<1>7. ASSUME NEW b \in unmarshalBody(body)
      PROVE  \E tp \in body.tp : /\ BigInt(tp.typeId) # {} /\ Claims(tp) # {}
                                 /\ valuesOk(tp.claims)
  <2>1. PICK tp \in body.tp : \E defs \in Claims(tp) :
          BigInt(tp.typeId) # {} /\ Values(body.values, defs) # {}
    BY <1>4
  <2> QED
    BY <1>2, <1>3, <1>5, <2>1
<1> HIDE DEF some
<1>8. unmarshalBody(body) # {} <=>
        \E tp \in body.tp : BigInt(tp.typeId) # {} /\ Claims(tp) # {} /\ valuesOk(tp.claims)
  BY <1>6, <1>7
<1> QED
  BY <1>1, <1>8, BigIntTotal, ClaimsTotal DEF valuesOk

-----------------------------------------------------------------------------
(* Requests                                                                *)

\* What the issuer signs says what the request says: whatever claims and values
\* a request carries, and however many of each.
THEOREM UnmarshalSays ==
    ASSUME NEW req \in GenerateSignedCredentialRequest, NEW cred \in Unmarshal(req)
    PROVE  Abs!Says(req, cred) /\ cred \in Credential
<1>1. PICK x \in req.header : \E y \in req.body : \E h \in unmarshalHeader(x), b \in unmarshalBody(y) :
        \E a \in req.attachments, e \in BigInt(req.expiredAt), ic \in BigInt(req.identityCommitment) :
          cred = [header |-> h, body |-> b, attachments |-> a, chainID |-> req.chainId,
                  expireAt |-> e, identityCommitment |-> ic]
  BY DEF Unmarshal
<1>2. PICK y \in req.body : \E h \in unmarshalHeader(x), b \in unmarshalBody(y) :
        \E a \in req.attachments, e \in BigInt(req.expiredAt), ic \in BigInt(req.identityCommitment) :
          cred = [header |-> h, body |-> b, attachments |-> a, chainID |-> req.chainId,
                  expireAt |-> e, identityCommitment |-> ic]
  BY <1>1
<1>3. PICK h \in unmarshalHeader(x), b \in unmarshalBody(y) :
        \E a \in req.attachments, e \in BigInt(req.expiredAt), ic \in BigInt(req.identityCommitment) :
          cred = [header |-> h, body |-> b, attachments |-> a, chainID |-> req.chainId,
                  expireAt |-> e, identityCommitment |-> ic]
  BY <1>2
<1>4. PICK a \in req.attachments, e \in BigInt(req.expiredAt), ic \in BigInt(req.identityCommitment) :
          cred = [header |-> h, body |-> b, attachments |-> a, chainID |-> req.chainId,
                  expireAt |-> e, identityCommitment |-> ic]
  BY <1>3
<1>5. /\ x \in Header /\ y \in Body /\ a \in AttachmentSet /\ req.attachments = {a}
      /\ req.chainId \in Int
  BY WidthType DEF GenerateSignedCredentialRequest, Optional, Uint64
<1>6. /\ Abs!SaysHeader(x, h)
      /\ h \in [version : Int, type : Int, context : Int, id : Int]
  BY <1>5, HeaderSays
<1>7. Abs!SaysBody(y, b) /\ b \in SdkBody
  BY <1>5, BodySays
<1>8. /\ Abs!Writes(req.expiredAt, e) /\ e \in Int
      /\ Abs!Writes(req.identityCommitment, ic) /\ ic \in Int
  BY BigIntWrites, BigIntType
<1>9. cred \in Credential
  BY <1>4, <1>5, <1>6, <1>7, <1>8 DEF Credential
<1> QED
  BY <1>4, <1>5, <1>6, <1>7, <1>8, <1>9 DEF Abs!Says

\* The issuer refuses exactly the requests that cannot be said.
THEOREM UnmarshalTotal ==
    ASSUME NEW req \in GenerateSignedCredentialRequest
    PROVE  Unmarshal(req) # {} <=> Abs!WellFormed(req)
<1>1. /\ req.header \in Optional(Header) /\ req.body \in Optional(Body)
      /\ req.attachments \in Optional(AttachmentSet)
  BY DEF GenerateSignedCredentialRequest
<1> DEFINE headers == UNION {unmarshalHeader(x) : x \in req.header}
           bodies == UNION {unmarshalBody(x) : x \in req.body}
<1>2. headers # {} <=> /\ req.header # {}
                       /\ \A h \in req.header :
                            \A t \in {h.type, h.context, h.id} : Abs!IsNumber(t)
  <2>1. headers # {} <=> \E h \in req.header : unmarshalHeader(h) # {}
    OBVIOUS
  <2> HIDE DEF headers
  <2> QED
    BY <1>1, <2>1, HeaderTotal DEF Optional
<1> DEFINE bodyOk(b) == \E tp \in b.tp :
          /\ Abs!IsNumber(tp.typeId)
          /\ \A i \in DOMAIN tp.claims : \E ct \in tp.claims[i].claimType :
                \E t \in ct.type :
                    t.kind = "property" => t.hashAlgorithm # "UNSPECIFIED"
          /\ \A i \in DOMAIN b.values : \E w \in b.values[i].value :
                /\ w.kind # "bool" => i \in DOMAIN tp.claims
                /\ w.kind = "scalar" => Abs!IsNumber(w.value)
                /\ w.kind = "property" => \A t \in w.hash : Abs!IsNumber(t)
<1>3. \A b \in Body : unmarshalBody(b) # {} <=> bodyOk(b)
  BY BodyTotal
<1>4. Abs!WellFormed(req) <=>
        /\ {req.header, req.body, req.attachments} \cap {{}} = {}
        /\ Abs!IsNumber(req.expiredAt) /\ Abs!IsNumber(req.identityCommitment)
        /\ \A h \in req.header : \A t \in {h.type, h.context, h.id} : Abs!IsNumber(t)
        /\ \A b \in req.body : bodyOk(b)
  BY DEF Abs!WellFormed
<1> HIDE DEF bodyOk
<1>5. bodies # {} <=> req.body # {} /\ \A b \in req.body : bodyOk(b)
  <2>1. bodies # {} <=> \E b \in req.body : unmarshalBody(b) # {}
    OBVIOUS
  <2> HIDE DEF bodies
  <2> QED
    BY <1>1, <1>3, <2>1 DEF Optional
<1>6. Unmarshal(req) # {} <=>
        /\ headers # {} /\ bodies # {} /\ req.attachments # {}
        /\ BigInt(req.expiredAt) # {} /\ BigInt(req.identityCommitment) # {}
  <2>1. Unmarshal(req) =
          {[header |-> h, body |-> b, attachments |-> a, chainID |-> req.chainId,
            expireAt |-> e, identityCommitment |-> ic] :
              h \in headers, b \in bodies, a \in req.attachments,
              e \in BigInt(req.expiredAt), ic \in BigInt(req.identityCommitment)}
    BY DEF Unmarshal
  <2> HIDE DEF headers, bodies
  <2>2. ASSUME NEW h \in headers, NEW b \in bodies, NEW a \in req.attachments,
               NEW e \in BigInt(req.expiredAt), NEW ic \in BigInt(req.identityCommitment)
        PROVE  Unmarshal(req) # {}
    <3>1. [header |-> h, body |-> b, attachments |-> a, chainID |-> req.chainId,
           expireAt |-> e, identityCommitment |-> ic] \in Unmarshal(req)
      BY <2>1
    <3> QED
      BY <3>1
  <2>3. ASSUME NEW cred \in Unmarshal(req)
        PROVE  /\ headers # {} /\ bodies # {} /\ req.attachments # {}
               /\ BigInt(req.expiredAt) # {} /\ BigInt(req.identityCommitment) # {}
    BY <2>1
  <2> QED
    BY <2>2, <2>3
<1> HIDE DEF headers, bodies
<1> QED
  BY <1>2, <1>4, <1>5, <1>6, BigIntTotal

-----------------------------------------------------------------------------
(* The requests of the backend                                             *)

\* The settings are numbers that fit the protocol and can be written out.
LEMMA ServiceType ==
    {Issuance!Service.issuerChainID, Issuance!Service.emailCredentialContextID,
     Issuance!Service.ticketCredentialContextID} \subseteq Uint64 \cap DOMAIN Decimal
BY ConfigAssumption DEF Issuance!Service, Issuance!NewAPIService

LEMMA ContextType ==
    ASSUME NEW h \in Handlers
    PROVE  Context(h.kind) \in DOMAIN Decimal
<1>1. h.kind \in {"email", "ticket"}
  BY DEF Handlers
<1>2. CASE h.kind = "email"
  BY <1>2, ServiceType DEF Context
<1>3. CASE h.kind = "ticket"
  BY <1>3, ServiceType DEF Context
<1> QED
  BY <1>1, <1>2, <1>3

\* A decimal text is a numeral, and the number it is written for.
LEMMA DecimalWrites ==
    ASSUME NEW n \in DOMAIN Decimal, NEW k
    PROVE  /\ Decimal[n] \in Numerals /\ Decimal[n] \in Text
           /\ Abs!Writes(Decimal[n], k) => k = n
BY TextAssumption, DecimalAssumption DEF Abs!Writes

\* So is the expiry of a call.
LEMMA ExpiryWritten ==
    ASSUME NEW e \in 0 .. MaxTime + Day
    PROVE  Unix(e) \in DOMAIN Decimal
BY ConfigAssumption

\* What a handler sends is a request of the protocol.
LEMMA BackendRequestType ==
    ASSUME NEW h \in Handlers, NEW e \in DOMAIN Decimal
    PROVE  BackendRequest(h, e) \in GenerateSignedCredentialRequest
<1> DEFINE header == [version |-> 1, type |-> Decimal[unitCredentialTypeID],
                      context |-> Decimal[Context(h.kind)],
                      id |-> StringToUint248Hash[h.email]]
           attachment == <<Attachment[h.kind], h.attachment>>
           chain == Issuance!Service.issuerChainID % TwoTo64
<1>1. /\ h.kind \in {"email", "ticket"} /\ h.email \in Emails /\ h.ic \in Idents
      /\ h.attachment \in Emails \cup EventIDs
  BY DEF Handlers
<1>2. header \in Header
  <2>1. 1 \in Uint64
    BY WidthType DEF Uint64
  <2>2. Decimal[unitCredentialTypeID] \in Text
    BY ConfigAssumption, DecimalWrites DEF unitCredentialTypeID
  <2>3. Decimal[Context(h.kind)] \in Text
    BY ContextType, DecimalWrites
  <2>4. StringToUint248Hash[h.email] \in Text
    BY <1>1, ConfigAssumption, TextAssumption
  <2> QED
    BY <2>1, <2>2, <2>3, <2>4 DEF Header
<1>3. unitBody \in Body
  <2>1. Decimal[unitCredentialTypeID] \in Text
    BY ConfigAssumption, DecimalWrites DEF unitCredentialTypeID
  <2>2. {0} \in Optional(Int64)
    BY WidthType DEF Optional
  <2> DEFINE tp == [claims |-> <<>>, revocable |-> {0}, typeId |-> Decimal[unitCredentialTypeID]]
  <2>3. tp \in CredType
    BY <2>1, <2>2 DEF CredType
  <2>4. unitBody = [tp |-> {tp}, values |-> <<>>]
    BY DEF unitBody
  <2> HIDE DEF tp
  <2>5. {tp} \in Optional(CredType)
    BY <2>3 DEF Optional
  <2> QED
    BY <2>4, <2>5 DEF Body
<1>4. {attachment} \in AttachmentSet
  <2>1. Attachment[h.kind] \in Text
    <3>1. "email" \in Text /\ "event_id" \in Text
      BY CallsAssumption
    <3>2. Attachment["email"] = "email" /\ Attachment["ticket"] = "event_id"
      BY DEF Attachment
    <3> QED
      BY <1>1, <3>1, <3>2
  <2>2. h.attachment \in Text
    BY <1>1, CallsAssumption
  <2> QED
    BY <2>1, <2>2 DEF AttachmentSet
<1>5. chain \in Uint64
  <2>1. Issuance!Service.issuerChainID \in Uint64
    BY ServiceType
  <2> DEFINE x == Issuance!Service.issuerChainID
  <2> HIDE DEF x
  <2>2. x \in Uint64 => x % TwoTo64 \in Uint64
    BY WidthType DEF Uint64
  <2> QED
    BY <2>1, <2>2 DEF x
<1>6. Decimal[e] \in Text /\ h.ic \in Text
  BY <1>1, CallsAssumption, DecimalWrites
<1>7. BackendRequest(h, e) =
        [header |-> {header}, body |-> {unitBody}, attachments |-> {{attachment}},
         chainId |-> chain, identityCommitment |-> h.ic, expiredAt |-> Decimal[e]]
  BY DEF BackendRequest
<1> HIDE DEF header, attachment, chain
<1>8. /\ {header} \in Optional(Header) /\ {unitBody} \in Optional(Body)
      /\ {{attachment}} \in Optional(AttachmentSet)
  BY <1>2, <1>3, <1>4 DEF Optional
<1> QED
  BY <1>5, <1>6, <1>7, <1>8 DEF GenerateSignedCredentialRequest

-----------------------------------------------------------------------------
(* The calls                                                               *)

\* What a call has asked for, and what it got.
CallInv ==
    \A c \in Calls :
        /\ calls[c].asked <= now
        /\ \A req \in calls[c].request : \A cred \in calls[c].credential : Abs!Says(req, cred)
        /\ \A h \in calls[c].handler :
              calls[c].request = {BackendRequest(h, Unix(calls[c].asked + Day))}

LEMMA OptionalType ==
    ASSUME NEW S
    PROVE  {} \in Optional(S) /\ \A x \in S : {x} \in Optional(S)
BY DEF Optional

LEMMA NoCallType == NoCall \in Call /\ CallOK(NoCall)
<1>1. 0 \in 0 .. MaxTime /\ 0 \in 0 .. MaxTime + Day
  BY BoundsAssumption
<1>2. NoCall \in Call
  BY <1>1, OptionalType DEF NoCall, Call
<1> QED
  BY <1>2 DEF NoCall, CallOK

\* A call that a step changes leaves the others as they are.
LEMMA CallsType ==
    ASSUME TypeOK, NEW c \in Calls, NEW x \in Call, CallOK(x),
           calls' = [calls EXCEPT ![c] = x], UNCHANGED <<server, now>>
    PROVE  TypeOK'
<1>1. calls \in [Calls -> Call] /\ \A d \in Calls : CallOK(calls[d])
  BY DEF TypeOK
<1>2. calls' \in [Calls -> Call] /\ \A d \in Calls : CallOK(calls'[d])
  BY <1>1
<1> QED
  BY <1>2 DEF TypeOK

LEMMA CallsInv ==
    ASSUME TypeOK, CallInv, NEW c \in Calls, NEW x,
           calls' = [calls EXCEPT ![c] = x], now' = now,
           x.asked <= now,
           \A req \in x.request : \A cred \in x.credential : Abs!Says(req, cred),
           \A h \in x.handler : x.request = {BackendRequest(h, Unix(x.asked + Day))}
    PROVE  CallInv'
<1>1. \A d \in Calls : calls'[d] = IF d = c THEN x ELSE calls[d]
  BY DEF TypeOK
<1> QED
  BY <1>1 DEF CallInv

Inv == TypeOK /\ CallInv

LEMMA InitInv == Init => Inv
<1>1. Init => TypeOK
  BY NoCallType, BoundsAssumption DEF Init, TypeOK, Boot
<1>2. Init => CallInv
  BY DEF Init, CallInv, NoCall
<1> QED
  BY <1>1, <1>2 DEF Inv

\* A call starts, for a handler or for another client.
LEMMA InvokeInv ==
    ASSUME Inv, NEW c \in Calls, NEW req \in GenerateSignedCredentialRequest,
           NEW handler \in Optional(Handlers), Invoke(c, handler, req),
           \A h \in handler : req = BackendRequest(h, Unix(now + Day))
    PROVE  Inv'
<1> DEFINE x == [pc |-> "sent", handler |-> handler, request |-> {req}, asked |-> now,
                 credential |-> {}, expireAt |-> 0]
<1>1. calls' = [calls EXCEPT ![c] = x] /\ UNCHANGED <<server, now>>
  BY DEF Invoke
<1>2. now \in 0 .. MaxTime /\ now \in Nat /\ 0 \in 0 .. MaxTime + Day
  BY BoundsAssumption DEF Inv, TypeOK
<1>3. x \in Call
  BY <1>2, OptionalType DEF Call, UnderWay
<1>4. CallOK(x)
  BY DEF CallOK
<1>5. /\ x.request = {req} /\ x.credential = {} /\ x.handler = handler /\ x.asked = now
  OBVIOUS
<1> HIDE DEF x
<1>6. TypeOK'
  BY <1>1, <1>3, <1>4, CallsType DEF Inv
<1>7. CallInv'
  <2>1. \A h \in x.handler : x.request = {BackendRequest(h, Unix(x.asked + Day))}
    BY <1>5
  <2>2. \A r \in x.request : \A cred \in x.credential : Abs!Says(r, cred)
    BY <1>5
  <2>3. x.asked <= now
    BY <1>2, <1>5
  <2> QED
    BY <1>1, <2>1, <2>2, <2>3, CallsInv DEF Inv
<1> QED
  BY <1>6, <1>7 DEF Inv

\* The calls a step may answer, give up or return from: the request and the
\* handler stay, and the credential is none or one that says the request.
LEMMA StepInv ==
    ASSUME Inv, NEW c \in Calls, calls[c].pc # "idle",
           NEW pc \in {"served", "done", "broken"},
           NEW credential \in Optional(Credential),
           credential # {} => pc \in {"served", "done"},
           \A req \in calls[c].request : \A cred \in credential : Abs!Says(req, cred),
           NEW expireAt \in 0 .. MaxTime + Day,
           calls' = [calls EXCEPT ![c] = [pc |-> pc, handler |-> calls[c].handler,
                request |-> calls[c].request, asked |-> calls[c].asked,
                credential |-> credential, expireAt |-> expireAt]],
           UNCHANGED <<server, now>>
    PROVE  Inv'
<1> DEFINE x == [pc |-> pc, handler |-> calls[c].handler,
                request |-> calls[c].request, asked |-> calls[c].asked,
                credential |-> credential, expireAt |-> expireAt]
<1>1. calls[c] \in Call /\ CallOK(calls[c])
  BY DEF Inv, TypeOK
<1>2. x \in Call
  BY <1>1 DEF Call, UnderWay
<1>3. CallOK(x)
  BY <1>1 DEF CallOK
<1>4. /\ x.request = calls[c].request /\ x.credential = credential
      /\ x.handler = calls[c].handler /\ x.asked = calls[c].asked
  OBVIOUS
<1>5. calls' = [calls EXCEPT ![c] = x]
  OBVIOUS
<1> HIDE DEF x
<1>6. TypeOK'
  BY <1>2, <1>3, <1>5, CallsType DEF Inv
<1>7. CallInv'
  <2>1. \A h \in x.handler : x.request = {BackendRequest(h, Unix(x.asked + Day))}
    BY <1>4 DEF Inv, CallInv
  <2>2. \A r \in x.request : \A cred \in x.credential : Abs!Says(r, cred)
    BY <1>4
  <2>3. x.asked <= now
    BY <1>4 DEF Inv, CallInv
  <2> QED
    BY <1>5, <2>1, <2>2, <2>3, CallsInv DEF Inv
<1> QED
  BY <1>6, <1>7 DEF Inv

\* A record of a call, field by field.
LEMMA CallFields ==
    ASSUME TypeOK, NEW c \in Calls
    PROVE  /\ calls[c] \in Call
           /\ calls[c] = [pc |-> calls[c].pc, handler |-> calls[c].handler,
                request |-> calls[c].request, asked |-> calls[c].asked,
                credential |-> calls[c].credential, expireAt |-> calls[c].expireAt]
BY DEF TypeOK, Call

\* What the steps assign to a call, written out.
LEMMA RecordAnswer ==
    ASSUME NEW x \in Call, NEW pc, NEW credential
    PROVE  [x EXCEPT !.pc = pc, !.credential = credential]
             = [pc |-> pc, handler |-> x.handler, request |-> x.request, asked |-> x.asked,
                credential |-> credential, expireAt |-> x.expireAt]
<1>1. DOMAIN x = {"pc", "handler", "request", "asked", "credential", "expireAt"}
  BY DEF Call
<1> DEFINE y == [x EXCEPT !.pc = pc]
           z == [y EXCEPT !.credential = credential]
<1>2. y = [i \in DOMAIN x |-> IF i = "pc" THEN pc ELSE x[i]]
  OBVIOUS
<1>3. z = [i \in DOMAIN x |-> IF i = "credential" THEN credential
                              ELSE IF i = "pc" THEN pc ELSE x[i]]
  BY <1>2
<1>4. z = [x EXCEPT !.pc = pc, !.credential = credential]
  OBVIOUS
<1> QED
  BY <1>1, <1>3, <1>4

LEMMA RecordReturn ==
    ASSUME NEW x \in Call, NEW pc, NEW expireAt
    PROVE  [x EXCEPT !.pc = pc, !.expireAt = expireAt]
             = [pc |-> pc, handler |-> x.handler, request |-> x.request, asked |-> x.asked,
                credential |-> x.credential, expireAt |-> expireAt]
<1>1. DOMAIN x = {"pc", "handler", "request", "asked", "credential", "expireAt"}
  BY DEF Call
<1> DEFINE y == [x EXCEPT !.pc = pc]
           z == [y EXCEPT !.expireAt = expireAt]
<1>2. y = [i \in DOMAIN x |-> IF i = "pc" THEN pc ELSE x[i]]
  OBVIOUS
<1>3. z = [i \in DOMAIN x |-> IF i = "expireAt" THEN expireAt
                              ELSE IF i = "pc" THEN pc ELSE x[i]]
  BY <1>2
<1>4. z = [x EXCEPT !.pc = pc, !.expireAt = expireAt]
  OBVIOUS
<1> QED
  BY <1>1, <1>3, <1>4

LEMMA CallsAnswer ==
    ASSUME TypeOK, NEW c \in Calls, NEW pc, NEW credential
    PROVE  [calls EXCEPT ![c].pc = pc, ![c].credential = credential]
             = [calls EXCEPT ![c] = [pc |-> pc, handler |-> calls[c].handler,
                  request |-> calls[c].request, asked |-> calls[c].asked,
                  credential |-> credential, expireAt |-> calls[c].expireAt]]
<1>1. calls \in [Calls -> Call]
  BY DEF TypeOK
<1>2. [calls EXCEPT ![c].pc = pc, ![c].credential = credential]
        = [calls EXCEPT ![c] = [calls[c] EXCEPT !.pc = pc, !.credential = credential]]
  BY <1>1
<1> QED
  BY <1>1, <1>2, RecordAnswer

LEMMA CallsReturn ==
    ASSUME TypeOK, NEW c \in Calls, NEW pc, NEW expireAt
    PROVE  [calls EXCEPT ![c].pc = pc, ![c].expireAt = expireAt]
             = [calls EXCEPT ![c] = [pc |-> pc, handler |-> calls[c].handler,
                  request |-> calls[c].request, asked |-> calls[c].asked,
                  credential |-> calls[c].credential, expireAt |-> expireAt]]
<1>1. calls \in [Calls -> Call]
  BY DEF TypeOK
<1>2. [calls EXCEPT ![c].pc = pc, ![c].expireAt = expireAt]
        = [calls EXCEPT ![c] = [calls[c] EXCEPT !.pc = pc, !.expireAt = expireAt]]
  BY <1>1
<1> QED
  BY <1>1, <1>2, RecordReturn

LEMMA ServeInv == ASSUME Inv, NEW c \in Calls, Serve(c) PROVE Inv'
<1>1. calls[c].pc = "sent"
  BY DEF Serve, At
<1>2. calls[c] \in Call
  BY CallFields DEF Inv
<1> DEFINE next(credential) == [calls EXCEPT ![c].pc = "served", ![c].credential = credential]
<1>3. PICK credential \in Optional(Credential) :
        /\ calls' = next(credential)
        /\ \A req \in calls[c].request : \A cred \in credential : Abs!Says(req, cred)
  <2>1. \/ \E req \in calls[c].request : \E cred \in Unmarshal(req) : calls' = next({cred})
        \/ calls' = next({})
    BY DEF Serve
  <2> HIDE DEF next
  <2>2. CASE \E req \in calls[c].request : \E cred \in Unmarshal(req) : calls' = next({cred})
    <3>1. PICK req \in calls[c].request : \E cred \in Unmarshal(req) : calls' = next({cred})
      BY <2>2
    <3>2. PICK cred \in Unmarshal(req) : calls' = next({cred})
      BY <3>1
    <3>3. req \in GenerateSignedCredentialRequest /\ calls[c].request = {req}
      BY <1>2 DEF Call, Optional
    <3>4. Abs!Says(req, cred) /\ cred \in Credential
      BY <3>3, UnmarshalSays
    <3>5. {cred} \in Optional(Credential)
      BY <3>4, OptionalType
    <3>6. \A r \in calls[c].request : \A k \in {cred} : Abs!Says(r, k)
      BY <3>3, <3>4
    <3> QED
      BY <3>2, <3>5, <3>6
  <2>3. CASE calls' = next({})
    BY <2>3, OptionalType
  <2> QED
    BY <2>1, <2>2, <2>3
<1>4. calls' = [calls EXCEPT ![c] = [pc |-> "served", handler |-> calls[c].handler,
                request |-> calls[c].request, asked |-> calls[c].asked,
                credential |-> credential, expireAt |-> calls[c].expireAt]]
  BY <1>3, CallsAnswer DEF Inv
<1>5. calls[c].expireAt \in 0 .. MaxTime + Day /\ UNCHANGED <<server, now>>
  BY <1>2 DEF Call, Serve
<1> QED
  BY <1>1, <1>3, <1>4, <1>5, StepInv

LEMMA ReturnInv == ASSUME Inv, NEW c \in Calls, Return(c) PROVE Inv'
<1> DEFINE e == IF calls[c].credential = {} THEN 0 ELSE now + Day
<1>1. calls[c].pc = "served" /\ UNCHANGED <<server, now>>
  BY DEF Return, At
<1>2. calls[c] \in Call
  BY CallFields DEF Inv
<1>3. e \in 0 .. MaxTime + Day
  BY BoundsAssumption DEF Inv, TypeOK
<1>4. calls' = [calls EXCEPT ![c].pc = "done", ![c].expireAt = e]
  BY DEF Return
<1> HIDE DEF e
<1>5. calls' = [calls EXCEPT ![c] = [pc |-> "done", handler |-> calls[c].handler,
                request |-> calls[c].request, asked |-> calls[c].asked,
                credential |-> calls[c].credential, expireAt |-> e]]
  BY <1>4, CallsReturn DEF Inv
<1>6. calls[c].credential \in Optional(Credential)
  BY <1>2 DEF Call
<1>7. \A req \in calls[c].request : \A cred \in calls[c].credential : Abs!Says(req, cred)
  BY DEF Inv, CallInv
<1> QED
  BY <1>1, <1>3, <1>5, <1>6, <1>7, StepInv

LEMMA UnavailableInv == ASSUME Inv, NEW c \in Calls, Unavailable(c) PROVE Inv'
<1>1. calls[c].pc \in {"broken", "sent"} /\ UNCHANGED <<server, now>>
  BY DEF Unavailable, At
<1>2. calls[c].expireAt \in 0 .. MaxTime + Day
  BY CallFields DEF Inv, Call
<1>3. calls' = [calls EXCEPT ![c] = [pc |-> "done", handler |-> calls[c].handler,
                request |-> calls[c].request, asked |-> calls[c].asked,
                credential |-> {}, expireAt |-> calls[c].expireAt]]
  BY CallsAnswer DEF Inv, Unavailable
<1> QED
  BY <1>1, <1>2, <1>3, OptionalType, StepInv

LEMMA BreakInv == ASSUME Inv, NEW c \in Calls, Break(c) PROVE Inv'
<1>1. calls[c].pc \in {"sent", "served"} /\ UNCHANGED <<server, now>>
  BY DEF Break
<1>2. calls[c].expireAt \in 0 .. MaxTime + Day
  BY CallFields DEF Inv, Call
<1>3. calls' = [calls EXCEPT ![c] = [pc |-> "broken", handler |-> calls[c].handler,
                request |-> calls[c].request, asked |-> calls[c].asked,
                credential |-> {}, expireAt |-> calls[c].expireAt]]
  BY CallsAnswer DEF Inv, Break
<1> QED
  BY <1>1, <1>2, <1>3, OptionalType, StepInv

\* The process ends, and with it calls that it had received.
LEMMA DownCalls ==
    ASSUME TypeOK, NEW lost, \A c \in lost : calls[c].pc \in {"sent", "served"}, Down(lost),
           NEW d \in Calls
    PROVE  calls'[d] = IF d \in lost
                       THEN [pc |-> "broken", handler |-> calls[d].handler,
                             request |-> calls[d].request, asked |-> calls[d].asked,
                             credential |-> {}, expireAt |-> calls[d].expireAt]
                       ELSE calls[d]
<1>1. calls[d] \in Call
  BY DEF TypeOK
<1>2. CASE d \in lost
  <2>1. calls'[d] = [calls[d] EXCEPT !.pc = "broken", !.credential = {}]
    BY <1>2 DEF Down
  <2> QED
    BY <1>1, <1>2, <2>1, RecordAnswer
<1> QED
  BY <1>2 DEF Down

LEMMA DownInv ==
    ASSUME Inv, NEW lost, \A c \in lost : calls[c].pc \in {"sent", "served"}, Down(lost)
    PROVE  Inv'
<1>1. /\ calls' = [d \in Calls |-> calls'[d]]
      /\ server' = "down" /\ UNCHANGED now
  BY DEF Down
<1>2. ASSUME NEW d \in Calls
      PROVE  /\ calls'[d] \in Call /\ CallOK(calls'[d])
             /\ calls'[d].request = calls[d].request /\ calls'[d].handler = calls[d].handler
             /\ calls'[d].asked = calls[d].asked
             /\ calls'[d].credential \in {{}, calls[d].credential}
  <2>1. calls[d] \in Call /\ CallOK(calls[d])
    BY DEF Inv, TypeOK
  <2>2. CASE d \in lost
    <3>1. calls'[d] = [pc |-> "broken", handler |-> calls[d].handler,
                request |-> calls[d].request, asked |-> calls[d].asked,
                credential |-> {}, expireAt |-> calls[d].expireAt]
      BY <2>2, DownCalls DEF Inv
    <3> QED
      BY <2>1, <2>2, <3>1, OptionalType DEF Call, CallOK, UnderWay
  <2>3. CASE d \notin lost
    BY <2>1, <2>3, DownCalls DEF Inv
  <2> QED
    BY <2>2, <2>3
<1>3. TypeOK'
  BY <1>1, <1>2 DEF Inv, TypeOK, Boot
<1>4. CallInv'
  BY <1>1, <1>2 DEF Inv, CallInv
<1> QED
  BY <1>3, <1>4 DEF Inv

LEMMA ServerCrashInv == ASSUME Inv, ServerCrash PROVE Inv'
BY DownInv DEF ServerCrash, At

LEMMA ServeUncaughtInv == ASSUME Inv, NEW c \in Calls, ServeUncaught(c) PROVE Inv'
BY DownInv DEF ServeUncaught, At

LEMMA BackendCrashInv == ASSUME Inv, BackendCrash PROVE Inv'
<1>1. calls' = [c \in Calls |-> NoCall] /\ UNCHANGED <<server, now>>
  BY DEF BackendCrash
<1>2. TypeOK'
  BY <1>1, NoCallType DEF Inv, TypeOK
<1>3. now \in Nat
  BY DEF Inv, TypeOK
<1>4. CallInv'
  BY <1>1, <1>3 DEF CallInv, NoCall
<1> QED
  BY <1>2, <1>4 DEF Inv

\* Every step keeps the invariant.
LEMMA NextInv == ASSUME Inv, [Next]_vars PROVE Inv'
<1>1. ASSUME NEW c \in Calls, NEW h \in Handlers, AskAsHandler(c, h)
      PROVE  Inv'
  <2>1. now + Day \in 0 .. MaxTime + Day
    BY BoundsAssumption DEF Inv, TypeOK
  <2>2. BackendRequest(h, Unix(now + Day)) \in GenerateSignedCredentialRequest
    BY <2>1, ExpiryWritten, BackendRequestType
  <2> QED
    BY <1>1, <2>2, InvokeInv, OptionalType DEF AskAsHandler
<1>2. ASSUME NEW c \in Calls, NEW req \in OtherRequests, Invoke(c, {}, req)
      PROVE  Inv'
  BY <1>2, InvokeInv, OptionalType, CallsAssumption
<1>3. CASE Start
  <2>1. TypeOK'
    BY <1>3 DEF Inv, TypeOK, Start, Boot
  <2>2. CallInv'
    BY <1>3 DEF Inv, CallInv, Start
  <2> QED
    BY <2>1, <2>2 DEF Inv
<1>4. CASE Tick
  <2>1. TypeOK'
    BY <1>4, BoundsAssumption DEF Inv, TypeOK, Tick
  <2>2. \A c \in Calls : calls[c].asked \in Int
    <3>1. \A c \in Calls : calls[c] \in Call
      BY DEF Inv, TypeOK
    <3>2. \A x \in Call : x.asked \in Int
      BY DEF Call
    <3> QED
      BY <3>1, <3>2
  <2>3. CallInv'
    BY <1>4, <2>2 DEF Inv, TypeOK, CallInv, Tick
  <2> QED
    BY <2>1, <2>3 DEF Inv
<1>5. CASE UNCHANGED vars
  BY <1>5 DEF Inv, TypeOK, CallInv, vars
<1> QED
  BY <1>1, <1>2, <1>3, <1>4, <1>5, ServeInv, ReturnInv, UnavailableInv, BreakInv,
     ServeUncaughtInv, ServerCrashInv, BackendCrashInv DEF Next, Proceed

-----------------------------------------------------------------------------
(* The theorems                                                            *)

LEMMA Invariance == Spec => []Inv
<1>1. Init => Inv
  BY InitInv
<1>2. Inv /\ [Next]_vars => Inv'
  BY NextInv
<1> QED
  BY <1>1, <1>2, PTL DEF Spec

\* Every variable holds values of its type, for any number of calls, any
\* requests of other clients and any settings.
THEOREM TypeCorrect == Spec => []TypeOK
<1>1. Inv => TypeOK
  BY DEF Inv
<1> QED
  BY <1>1, Invariance, PTL

\* The issuer refuses exactly the requests that cannot be said.
THEOREM Accepts == Spec => []AcceptsWellFormed
<1>1. ASSUME TypeOK
      PROVE  AcceptsWellFormed
  <2>1. \A c \in Calls : \A req \in calls[c].request : req \in GenerateSignedCredentialRequest
    BY <1>1, CallFields DEF Call, Optional
  <2> QED
    BY <2>1, UnmarshalTotal DEF AcceptsWellFormed
<1> QED
  BY <1>1, TypeCorrect, PTL

\* What a credential says of a request that a handler sent.
LEMMA HandlerSays ==
    ASSUME NEW h \in Handlers, NEW e \in DOMAIN Decimal, NEW cred,
           Abs!Says(BackendRequest(h, e), cred)
    PROVE  /\ cred.header.context = Context(h.kind)
           /\ cred.header.id = ValueOf[StringToUint248Hash[h.email]]
           /\ cred.attachments = {<<Attachment[h.kind], h.attachment>>}
           /\ cred.chainID = Issuance!Service.issuerChainID % TwoTo64
           /\ cred.expireAt = e
           /\ Abs!Writes(h.ic, cred.identityCommitment)
<1> DEFINE header == [version |-> 1, type |-> Decimal[unitCredentialTypeID],
                      context |-> Decimal[Context(h.kind)],
                      id |-> StringToUint248Hash[h.email]]
           attachment == <<Attachment[h.kind], h.attachment>>
           chain == Issuance!Service.issuerChainID % TwoTo64
           req == BackendRequest(h, e)
<1>1. /\ req.header = {header} /\ req.attachments = {{attachment}} /\ req.chainId = chain
      /\ req.expiredAt = Decimal[e] /\ req.identityCommitment = h.ic
  BY DEF BackendRequest
<1>2. /\ header.context = Decimal[Context(h.kind)]
      /\ header.id = StringToUint248Hash[h.email]
  OBVIOUS
<1>3. h.email \in Emails
  BY DEF Handlers
<1> HIDE DEF header, attachment, chain, req
<1>4. /\ \E x \in req.header : Abs!SaysHeader(x, cred.header)
      /\ req.attachments = {cred.attachments}
      /\ cred.chainID = req.chainId
      /\ Abs!Writes(req.expiredAt, cred.expireAt)
      /\ Abs!Writes(req.identityCommitment, cred.identityCommitment)
  BY DEF Abs!Says, req
<1>5. /\ Abs!Writes(header.context, cred.header.context)
      /\ Abs!Writes(header.id, cred.header.id)
  BY <1>1, <1>4 DEF Abs!SaysHeader
<1>6. cred.header.context = Context(h.kind)
  BY <1>2, <1>5, ContextType, DecimalWrites
<1>7. cred.header.id = ValueOf[StringToUint248Hash[h.email]]
  <2>1. StringToUint248Hash[h.email] \in Numerals
    BY <1>3, ConfigAssumption
  <2> QED
    BY <1>2, <1>5, <2>1, TextAssumption DEF Abs!Writes
<1>8. cred.expireAt = e
  BY <1>1, <1>3, <1>4, DecimalWrites
<1>9. {{attachment}} = {cred.attachments} => cred.attachments = {attachment}
  OBVIOUS
<1> QED
  BY <1>1, <1>4, <1>6, <1>7, <1>8, <1>9 DEF attachment, chain

\* A handler of the backend gets what Identity and Tickets take it to get, in
\* the one step in which they sign.
THEOREM HandlersGetWhatTheyAsked == Spec => []AsIssuanceAssumes
<1>1. ASSUME Inv, NEW c \in Calls, NEW h \in calls[c].handler, NEW cred \in calls[c].credential
      PROVE  \E g \in Issuance!GenerateSignedCredential(
                    CASE h.kind = "email"  -> Issuance!Service.emailCredentialContextID
                      [] h.kind = "ticket" -> Issuance!Service.ticketCredentialContextID,
                    h.email, h.attachment, h.ic) :
               /\ cred.header.context = g.context
               /\ cred.header.id = ValueOf[StringToUint248Hash[g.email]]
               /\ cred.attachments = {<<Attachment[h.kind], g.attachment>>}
               /\ cred.chainID = g.chainID
               /\ cred.identityCommitment = g.identityCommitment
  <2>1. /\ calls[c].request = {BackendRequest(h, Unix(calls[c].asked + Day))}
        /\ Abs!Says(BackendRequest(h, Unix(calls[c].asked + Day)), cred)
    BY <1>1 DEF Inv, CallInv
  <2>2. h \in Handlers /\ calls[c].asked \in 0 .. MaxTime
    BY <1>1, CallFields DEF Inv, Call, Optional
  <2>3. Unix(calls[c].asked + Day) \in DOMAIN Decimal
    BY <2>2, ExpiryWritten, BoundsAssumption
  <2>4. /\ cred.header.context = Context(h.kind)
        /\ cred.header.id = ValueOf[StringToUint248Hash[h.email]]
        /\ cred.attachments = {<<Attachment[h.kind], h.attachment>>}
        /\ cred.chainID = Issuance!Service.issuerChainID % TwoTo64
        /\ Abs!Writes(h.ic, cred.identityCommitment)
    BY <2>1, <2>2, <2>3, HandlerSays
  <2>5. h.kind \in {"email", "ticket"} /\ h.ic \in Idents /\ h.ic # Empty
    BY <2>2, CallsAssumption DEF Handlers
  <2>6. h.ic \in Numerals \cap Idents /\ cred.identityCommitment = ValueOf[h.ic]
    BY <2>4, <2>5 DEF Abs!Writes
  <2>7. cred.chainID = Issuance!Service.issuerChainID
    <3> DEFINE x == Issuance!Service.issuerChainID
    <3>1. x \in Uint64
      BY ServiceType
    <3> HIDE DEF x
    <3>2. x % TwoTo64 = x
      BY <3>1, WidthType DEF Uint64
    <3> QED
      BY <2>4, <3>2 DEF x
  <2> DEFINE context == CASE h.kind = "email"  -> Issuance!Service.emailCredentialContextID
                          [] h.kind = "ticket" -> Issuance!Service.ticketCredentialContextID
             g == [context |-> context, email |-> h.email, attachment |-> h.attachment,
                   chainID |-> Issuance!Service.issuerChainID,
                   identityCommitment |-> ValueOf[h.ic]]
  <2>8. context = Context(h.kind)
    <3>1. CASE h.kind = "email"
      BY <3>1 DEF Context
    <3>2. CASE h.kind = "ticket"
      BY <3>2 DEF Context
    <3> QED
      BY <2>5, <3>1, <3>2
  <2> HIDE DEF context
  <2>9. ValueOf[h.ic] \in Issuance!Parsed(h.ic)
    BY <2>5, <2>6 DEF Issuance!Parsed, Issuance!Empty
  <2>10. g \in Issuance!GenerateSignedCredential(context, h.email, h.attachment, h.ic)
    BY <2>9 DEF Issuance!GenerateSignedCredential
  <2>11. /\ g.context = context /\ g.email = h.email /\ g.attachment = h.attachment
         /\ g.chainID = Issuance!Service.issuerChainID /\ g.identityCommitment = ValueOf[h.ic]
    OBVIOUS
  <2> HIDE DEF g
  <2>12. \E k \in Issuance!GenerateSignedCredential(context, h.email, h.attachment, h.ic) :
               /\ cred.header.context = k.context
               /\ cred.header.id = ValueOf[StringToUint248Hash[k.email]]
               /\ cred.attachments = {<<Attachment[h.kind], k.attachment>>}
               /\ cred.chainID = k.chainID
               /\ cred.identityCommitment = k.identityCommitment
    BY <2>4, <2>6, <2>7, <2>8, <2>10, <2>11
  <2> QED
    BY <2>12 DEF context
<1>2. Inv => AsIssuanceAssumes
  BY <1>1 DEF AsIssuanceAssumes
<1> QED
  BY <1>2, Invariance, PTL

\* Only its return takes a call from an answer to its end.
LEMMA OnlyReturn ==
    ASSUME TypeOK, [Next]_vars, NEW c \in Calls, calls[c].pc = "served", calls'[c].pc = "done"
    PROVE  Return(c)
<1>1. calls \in [Calls -> Call]
  BY DEF TypeOK
<1>2. ASSUME NEW d \in Calls, NEW handler, NEW req, Invoke(d, handler, req)
      PROVE  FALSE
  <2> DEFINE x == [pc |-> "sent", handler |-> handler, request |-> {req}, asked |-> now,
                   credential |-> {}, expireAt |-> 0]
  <2>1. calls' = [calls EXCEPT ![d] = x] /\ x.pc = "sent"
    BY <1>2 DEF Invoke
  <2> HIDE DEF x
  <2> QED
    BY <1>1, <2>1
<1>3. ASSUME NEW d \in Calls, Serve(d)
      PROVE  FALSE
  <2>1. calls[d].pc = "sent"
    BY <1>3 DEF Serve, At
  <2>2. \A e \in Calls : e # d => calls'[e] = calls[e]
    BY <1>1, <1>3 DEF Serve
  <2> QED
    BY <2>1, <2>2
<1>4. ASSUME NEW d \in Calls, Return(d)
      PROVE  Return(c)
  <2>1. \A e \in Calls : e # d => calls'[e] = calls[e]
    BY <1>1, <1>4 DEF Return
  <2> QED
    BY <1>4, <2>1
<1>5. ASSUME NEW d \in Calls, Unavailable(d)
      PROVE  FALSE
  <2>1. calls[d].pc # "served"
    BY <1>5 DEF Unavailable, At
  <2>2. \A e \in Calls : e # d => calls'[e] = calls[e]
    BY <1>1, <1>5 DEF Unavailable
  <2> QED
    BY <2>1, <2>2
<1>6. ASSUME NEW d \in Calls, Break(d)
      PROVE  FALSE
  <2> DEFINE x == [pc |-> "broken", handler |-> calls[d].handler,
                   request |-> calls[d].request, asked |-> calls[d].asked,
                   credential |-> {}, expireAt |-> calls[d].expireAt]
  <2>1. calls' = [calls EXCEPT ![d] = x] /\ x.pc = "broken"
    BY <1>6, CallsAnswer DEF Break
  <2> HIDE DEF x
  <2>2. \A e \in Calls : e # d => calls'[e] = calls[e]
    BY <1>1, <2>1
  <2> QED
    BY <1>1, <2>1, <2>2
<1>7. ASSUME NEW lost, Down(lost), \A d \in lost : calls[d].pc \in {"sent", "served"}
      PROVE  FALSE
  <2>1. CASE c \in lost
    <3>1. calls'[c] = [pc |-> "broken", handler |-> calls[c].handler,
                request |-> calls[c].request, asked |-> calls[c].asked,
                credential |-> {}, expireAt |-> calls[c].expireAt]
      BY <1>7, <2>1, DownCalls
    <3> QED
      BY <3>1
  <2>2. CASE c \notin lost
    <3>1. calls'[c] = calls[c]
      BY <1>7, <2>2, DownCalls
    <3> QED
      BY <3>1
  <2> QED
    BY <2>1, <2>2
<1>8. CASE BackendCrash
  BY <1>8 DEF BackendCrash, NoCall
<1>9. CASE Start \/ Tick \/ UNCHANGED vars
  BY <1>9 DEF Start, Tick, vars
<1>10. \/ \E d \in Calls : \/ \E h \in Handlers : AskAsHandler(d, h)
                           \/ \E req \in OtherRequests : Invoke(d, {}, req)
                           \/ Serve(d) \/ ServeUncaught(d) \/ Return(d)
                           \/ Unavailable(d) \/ Break(d)
       \/ ServerCrash \/ BackendCrash \/ Start \/ Tick \/ UNCHANGED vars
  BY DEF Next, Proceed
<1>11. \A d \in Calls, h \in Handlers : ~AskAsHandler(d, h)
  BY <1>2 DEF AskAsHandler
<1>12. \A d \in Calls, req \in OtherRequests : ~Invoke(d, {}, req)
  BY <1>2
<1>13. \A d \in Calls : ~Serve(d) /\ ~Unavailable(d) /\ ~Break(d)
  BY <1>3, <1>5, <1>6
<1>14. \A d \in Calls : Return(d) => Return(c)
  BY <1>4
<1>15. ~ServerCrash /\ \A d \in Calls : ~ServeUncaught(d)
  BY <1>7 DEF ServerCrash, ServeUncaught, At
<1> QED
  BY <1>8, <1>9, <1>10, <1>11, <1>12, <1>13, <1>14, <1>15

\* Cutting off the fraction takes less than a second.
LEMMA UnixCuts ==
    ASSUME NEW t \in Nat
    PROVE  Unix(t) \in Int /\ t - Unix(t) * Second \in 0 .. Second - 1
BY BoundsAssumption DEF Unix

\* The expiry a handler announces is never earlier than the one that was
\* signed, and later by less than a second more than the call took.
THEOREM ExpiryIsClose == Spec => AnnouncedExpiry
<1>1. ASSUME Inv, [Next]_vars, NEW c \in Calls, NEW h \in calls[c].handler,
             NEW cred \in calls'[c].credential,
             calls[c].pc = "served", calls'[c].pc = "done"
      PROVE  calls'[c].expireAt - cred.expireAt * Second
                \in 0 .. now - calls[c].asked + Second - 1
  <2>1. calls[c] \in Call /\ calls[c].asked <= now
    BY <1>1 DEF Inv, TypeOK, CallInv
  <2>2. calls[c].asked \in 0 .. MaxTime /\ now \in 0 .. MaxTime /\ h \in Handlers
    BY <1>1, <2>1 DEF Inv, TypeOK, Call, Optional
  <2>3. Return(c)
    BY <1>1, OnlyReturn DEF Inv
  <2>4. calls' = [calls EXCEPT ![c] = [pc |-> "done", handler |-> calls[c].handler,
                  request |-> calls[c].request, asked |-> calls[c].asked,
                  credential |-> calls[c].credential,
                  expireAt |-> IF calls[c].credential = {} THEN 0 ELSE now + Day]]
    <3> DEFINE announced == IF calls[c].credential = {} THEN 0 ELSE now + Day
    <3>1. calls' = [calls EXCEPT ![c].pc = "done", ![c].expireAt = announced]
      BY <2>3 DEF Return
    <3>2. TypeOK
      BY <1>1 DEF Inv
    <3> HIDE DEF announced
    <3>3. calls' = [calls EXCEPT ![c] = [pc |-> "done", handler |-> calls[c].handler,
                  request |-> calls[c].request, asked |-> calls[c].asked,
                  credential |-> calls[c].credential, expireAt |-> announced]]
      BY <3>1, <3>2, CallsReturn
    <3> QED
      BY <3>3 DEF announced
  <2>5. calls \in [Calls -> Call]
    BY <1>1 DEF Inv, TypeOK
  <2>6. /\ calls'[c].credential = calls[c].credential
        /\ calls'[c].expireAt = IF calls[c].credential = {} THEN 0 ELSE now + Day
    BY <2>4, <2>5
  <2>7. cred \in calls[c].credential /\ calls'[c].expireAt = now + Day
    BY <1>1, <2>6
  <2> DEFINE a == calls[c].asked
             e == calls'[c].expireAt
             signed == cred.expireAt
  <2>8. Abs!Says(BackendRequest(h, Unix(a + Day)), cred)
    BY <1>1, <2>7 DEF Inv, CallInv
  <2>9. a + Day \in 0 .. MaxTime + Day
    BY <2>2, BoundsAssumption
  <2>10. signed = Unix(a + Day)
    BY <2>2, <2>8, <2>9, ExpiryWritten, HandlerSays
  <2>11. a \in 0 .. MaxTime /\ a <= now /\ e = now + Day
    BY <2>1, <2>2, <2>7
  <2> HIDE DEF a, e, signed
  <2>12. signed \in Int /\ a + Day - signed * Second \in 0 .. Second - 1
    BY <2>9, <2>10, <2>11, UnixCuts, BoundsAssumption
  <2> DEFINE x == signed * Second
  <2>13. x \in Int
    BY <2>12, BoundsAssumption
  <2> HIDE DEF x
  <2>14. e - x \in 0 .. now - a + Second - 1
    BY <2>2, <2>11, <2>12, <2>13, BoundsAssumption DEF x
  <2> QED
    BY <2>14 DEF a, e, signed, x
<1>2. Inv /\ [Next]_vars =>
        [\A c \in Calls : \A h \in calls[c].handler, cred \in calls'[c].credential :
           calls[c].pc = "served" /\ calls'[c].pc = "done"
              => calls'[c].expireAt - cred.expireAt * Second
                    \in 0 .. now - calls[c].asked + Second - 1]_vars
  BY <1>1
<1> QED
  BY <1>2, Invariance, PTL DEF Spec, AnnouncedExpiry

\* A caller gets a credential that says what its own request says, or an error:
\* for any number of calls, restarts and lost connections.
THEOREM Implementation == Spec => CallsAreSigned
<1> DEFINE pending == [c \in Calls |-> IF Free(c) THEN {} ELSE calls[c].request]
           answers == [c \in Calls |-> IF Free(c) THEN calls[c].credential ELSE {}]
<1>1. Init => Abs!Init
  BY DEF Init, Abs!Init, NoCall, Free, UnderWay
<1>2. ASSUME TypeOK, NEW c \in Calls, NEW handler, NEW req, Invoke(c, handler, req)
      PROVE  Abs!Ask(c, req) /\ pending'[c] = {req}
  <2> DEFINE x == [pc |-> "sent", handler |-> handler, request |-> {req}, asked |-> now,
                   credential |-> {}, expireAt |-> 0]
  <2>1. calls' = [calls EXCEPT ![c] = x] /\ Free(c)
    BY <1>2 DEF Invoke
  <2>2. x.pc \in UnderWay /\ x.request = {req}
    BY DEF UnderWay
  <2>3. calls \in [Calls -> Call]
    BY <1>2 DEF TypeOK
  <2> HIDE DEF x
  <2>4. \A d \in Calls : calls'[d] = IF d = c THEN x ELSE calls[d]
    BY <2>1, <2>3
  <2>5. \A d \in Calls : /\ pending'[d] = IF d = c THEN {req} ELSE pending[d]
                         /\ answers'[d] = IF d = c THEN {} ELSE answers[d]
    BY <2>1, <2>2, <2>4 DEF Free
  <2>6. pending[c] = {} /\ DOMAIN pending = Calls /\ DOMAIN answers = Calls
    BY <2>1
  <2>7. /\ pending = [d \in Calls |-> pending[d]] /\ pending' = [d \in Calls |-> pending'[d]]
        /\ answers = [d \in Calls |-> answers[d]] /\ answers' = [d \in Calls |-> answers'[d]]
    OBVIOUS
  <2>8. /\ Abs!Ask(c, req) <=> /\ pending[c] = {}
                               /\ pending' = [pending EXCEPT ![c] = {req}]
                               /\ answers' = [answers EXCEPT ![c] = {}]
    BY DEF Abs!Ask
  <2> HIDE DEF pending, answers
  <2> QED
    BY <2>5, <2>6, <2>7, <2>8
<1>3. ASSUME Inv, NEW c \in Calls, Return(c) \/ Unavailable(c)
      PROVE  Abs!Sign(c)
  <2>1. PICK credential \in {{}, calls[c].credential} : \E e :
          calls' = [calls EXCEPT ![c] = [pc |-> "done", handler |-> calls[c].handler,
                    request |-> calls[c].request, asked |-> calls[c].asked,
                    credential |-> credential, expireAt |-> e]]
    <3>1. CASE Return(c)
      <4> DEFINE e == IF calls[c].credential = {} THEN 0 ELSE now + Day
      <4>1. calls' = [calls EXCEPT ![c].pc = "done", ![c].expireAt = e]
        BY <3>1 DEF Return
      <4> HIDE DEF e
      <4>2. calls' = [calls EXCEPT ![c] = [pc |-> "done", handler |-> calls[c].handler,
                    request |-> calls[c].request, asked |-> calls[c].asked,
                    credential |-> calls[c].credential, expireAt |-> e]]
        BY <1>3, <4>1, CallsReturn DEF Inv
      <4> QED
        BY <4>2
    <3>2. CASE Unavailable(c)
      <4>1. calls' = [calls EXCEPT ![c] = [pc |-> "done", handler |-> calls[c].handler,
                    request |-> calls[c].request, asked |-> calls[c].asked,
                    credential |-> {}, expireAt |-> calls[c].expireAt]]
        BY <1>3, <3>2, CallsAnswer DEF Inv, Unavailable
      <4> QED
        BY <4>1
    <3> QED
      BY <1>3, <3>1, <3>2
  <2>2. PICK x : calls' = [calls EXCEPT ![c] = x] /\ x.pc = "done" /\ x.credential = credential
    BY <2>1
  <2>3. calls \in [Calls -> Call] /\ calls[c].pc \in UnderWay /\ calls[c].request # {}
    BY <1>3 DEF Inv, TypeOK, CallOK, Return, Unavailable, At, UnderWay
  <2>4. calls[c].request \in Optional(GenerateSignedCredentialRequest)
    BY <2>3 DEF Call
  <2>5. \A d \in Calls : calls'[d] = IF d = c THEN x ELSE calls[d]
    BY <2>2, <2>3
  <2>6. \A req \in calls[c].request : \A cred \in credential : Abs!Says(req, cred)
    BY <1>3 DEF Inv, CallInv
  <2>7. /\ pending[c] = calls[c].request
        /\ pending' = [pending EXCEPT ![c] = {}]
        /\ answers' = [answers EXCEPT ![c] = credential] /\ answers'[c] = credential
    BY <2>2, <2>3, <2>5 DEF Free, UnderWay
  <2> QED
    BY <2>3, <2>6, <2>7 DEF Abs!Sign
<1>4. ASSUME Inv, \A c \in Calls : \/ calls'[c] = calls[c]
                                   \/ /\ calls[c].pc \in UnderWay /\ calls'[c].pc \in UnderWay
                                      /\ calls'[c].request = calls[c].request
      PROVE  UNCHANGED <<pending, answers>>
  BY <1>4 DEF Free
<1>5. ASSUME Inv, NEW c \in Calls, Serve(c) \/ Break(c)
      PROVE  UNCHANGED <<pending, answers>>
  <2>1. PICK x : /\ calls' = [calls EXCEPT ![c] = x]
                 /\ x.pc \in UnderWay /\ x.request = calls[c].request
    <3>1. PICK pc \in {"served", "broken"} : \E credential :
            calls' = [calls EXCEPT ![c].pc = pc, ![c].credential = credential]
      BY <1>5 DEF Serve, Break
    <3>2. PICK credential :
            calls' = [calls EXCEPT ![c].pc = pc, ![c].credential = credential]
      BY <3>1
    <3> DEFINE y == [pc |-> pc, handler |-> calls[c].handler,
                     request |-> calls[c].request, asked |-> calls[c].asked,
                     credential |-> credential, expireAt |-> calls[c].expireAt]
    <3>3. calls' = [calls EXCEPT ![c] = y]
      BY <1>5, <3>2, CallsAnswer DEF Inv
    <3>4. y.pc = pc /\ y.request = calls[c].request
      OBVIOUS
    <3> HIDE DEF y
    <3> QED
      BY <3>3, <3>4 DEF UnderWay
  <2>2. calls \in [Calls -> Call] /\ calls[c].pc \in UnderWay
    BY <1>5 DEF Inv, TypeOK, Serve, Break, At, UnderWay
  <2>3. \A d \in Calls : calls'[d] = IF d = c THEN x ELSE calls[d]
    BY <2>1, <2>2
  <2> QED
    BY <1>4, <1>5, <2>1, <2>2, <2>3
<1>6. ASSUME Inv, NEW lost, Down(lost), \A c \in lost : calls[c].pc \in {"sent", "served"}
      PROVE  UNCHANGED <<pending, answers>>
  <2>1. ASSUME NEW c \in Calls, c \in lost
        PROVE  /\ calls[c].pc \in UnderWay /\ calls'[c].pc \in UnderWay
               /\ calls'[c].request = calls[c].request
    <3>1. calls'[c] = [pc |-> "broken", handler |-> calls[c].handler,
                request |-> calls[c].request, asked |-> calls[c].asked,
                credential |-> {}, expireAt |-> calls[c].expireAt]
      BY <1>6, <2>1, DownCalls DEF Inv
    <3> QED
      BY <1>6, <2>1, <3>1 DEF UnderWay
  <2>2. \A c \in Calls : c \notin lost => calls'[c] = calls[c]
    BY <1>6, DownCalls DEF Inv
  <2> QED
    BY <1>4, <1>6, <2>1, <2>2
<1>7. ASSUME BackendCrash
      PROVE  Abs!Abandon
  BY <1>7 DEF BackendCrash, Abs!Abandon, NoCall, Free, UnderWay
<1>8. ASSUME Inv, Start \/ Tick \/ UNCHANGED vars
      PROVE  UNCHANGED <<pending, answers>>
  BY <1>4, <1>8 DEF Start, Tick, vars
<1> HIDE DEF pending, answers
<1>9. Inv /\ [Next]_vars => Abs!Next \/ UNCHANGED <<pending, answers>>
  <2>1. Inv /\ (ServerCrash \/ \E c \in Calls : ServeUncaught(c))
          => UNCHANGED <<pending, answers>>
    BY <1>6 DEF ServerCrash, ServeUncaught, At
  <2> QED
    BY <1>2, <1>3, <1>5, <1>7, <1>8, <2>1
       DEF Inv, Next, Proceed, AskAsHandler, Abs!Next, pending
<1> QED
  BY <1>1, <1>9, Invariance, PTL DEF Spec, CallsAreSigned, Abs!Spec, pending, answers
=============================================================================
