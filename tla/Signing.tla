------------------------------- MODULE Signing -------------------------------
(***************************************************************************)
(* What the issuer promises the backend, with no server, channel or        *)
(* parser: a call that is under way ends with a credential that says what  *)
(* its own request says, or with an error.  It is the one step that        *)
(* Identity and Tickets take when a handler signs.                         *)
(***************************************************************************)
EXTENDS IssuerMessages

CONSTANT Calls

VARIABLES
    pending,  \* the requests of the calls that are under way
    answers   \* the credential of every call that ended with one

-----------------------------------------------------------------------------
(* What a credential says                                                  *)

\* A text and the number it is written for.
Writes(text, n) ==
    \/ text = Empty /\ n = 0
    \/ text \in Numerals /\ ValueOf[text] = n
IsNumber(text) == text \in Numerals \cup {Empty}

\* An int64 and the number that stands for it: this very number below 2^53, and
\* off by a 2^53rd part of it at most from there on.
Rounds(n, number) == Magnitude(number - n) * MaxExact <= Magnitude(n)

\* The definition that a claim definition stands for.
Defines(cd, def) ==
    /\ def.name = cd.name
    /\ \E ct \in cd.claimType : \E t \in ct.type :
          /\ def.type.kind = t.kind
          /\ t.kind \in {"scalar", "property"} => Rounds(t.width, def.type.width)
          /\ t.kind = "property" =>
                /\ def.type.hashAlgorithm = t.hashAlgorithm
                /\ def.type.nEqualChecks = {} <=> t.nEqualChecks = {}
                /\ \A n \in t.nEqualChecks : \A k \in def.type.nEqualChecks : Rounds(n, k)

\* The claim value that the i-th value stands for, of the i-th definition.
IsValueOf(cv, v, defs, i) ==
    \E w \in cv.value :
        /\ v.kind = w.kind
        /\ w.kind # "bool" => i \in DOMAIN defs /\ v.type = defs[i].type
        /\ w.kind \in {"bool", "property"} => v.value = w.value
        /\ w.kind = "scalar" => Writes(w.value, v.value)
        /\ w.kind = "property" =>
              /\ v.hash = {} <=> w.hash \subseteq {Empty}
              /\ \A n \in v.hash : \E t \in w.hash : Writes(t, n)

SaysBody(body, b) ==
    \E tp \in body.tp :
        /\ Writes(tp.typeId, b.typeID)
        /\ \A n \in tp.revocable : Rounds(n, b.revocable)
        /\ tp.revocable = {} => b.revocable = 0
        /\ DOMAIN b.claims = DOMAIN tp.claims /\ DOMAIN b.values = DOMAIN body.values
        /\ \A i \in DOMAIN b.claims : Defines(tp.claims[i], b.claims[i])
        /\ \A i \in DOMAIN b.values : IsValueOf(body.values[i], b.values[i], b.claims, i)

SaysHeader(header, h) ==
    /\ h.version = header.version
    /\ Writes(header.type, h.type)
    /\ Writes(header.context, h.context)
    /\ Writes(header.id, h.id)

\* A credential says what its request says: claims and values in the order and
\* number they were sent in, every text as the number it writes, every int64 as
\* the number next to it.
Says(req, cred) ==
    /\ \E h \in req.header : SaysHeader(h, cred.header)
    /\ \E b \in req.body : SaysBody(b, cred.body)
    /\ req.attachments = {cred.attachments}
    /\ cred.chainID = req.chainId
    /\ Writes(req.expiredAt, cred.expireAt)
    /\ Writes(req.identityCommitment, cred.identityCommitment)

\* The requests that can be said: nothing that is needed is missing, and
\* every text that stands for a number is one.
WellFormed(req) ==
    /\ {req.header, req.body, req.attachments} \cap {{}} = {}
    /\ IsNumber(req.expiredAt) /\ IsNumber(req.identityCommitment)
    /\ \A h \in req.header : \A t \in {h.type, h.context, h.id} : IsNumber(t)
    /\ \A b \in req.body : \E tp \in b.tp :
          /\ IsNumber(tp.typeId)
          /\ \A i \in DOMAIN tp.claims : \E ct \in tp.claims[i].claimType :
                \E t \in ct.type :
                    t.kind = "property" => t.hashAlgorithm # "UNSPECIFIED"
          /\ \A i \in DOMAIN b.values : \E w \in b.values[i].value :
                /\ w.kind # "bool" => i \in DOMAIN tp.claims
                /\ w.kind = "scalar" => IsNumber(w.value)
                /\ w.kind = "property" => \A t \in w.hash : IsNumber(t)

-----------------------------------------------------------------------------
(* The calls                                                               *)

Init ==
    /\ pending = [c \in Calls |-> {}]
    /\ answers = [c \in Calls |-> {}]

Ask(c, req) ==
    /\ pending[c] = {}
    /\ pending' = [pending EXCEPT ![c] = {req}]
    /\ answers' = [answers EXCEPT ![c] = {}]

Sign(c) ==
    /\ pending[c] # {}
    /\ \A req \in pending[c] : \A cred \in answers'[c] : Says(req, cred)
    /\ pending' = [pending EXCEPT ![c] = {}]
    /\ answers' = [answers EXCEPT ![c] = answers'[c]]

\* The caller is gone, and with it every call it made.
Abandon ==
    /\ pending' = [c \in Calls |-> {}]
    /\ answers' = [c \in Calls |-> {}]

Next ==
    \/ \E c \in Calls : \/ \E req \in pending'[c] : Ask(c, req)
                        \/ Sign(c)
    \/ Abandon

Spec == Init /\ [][Next]_<<pending, answers>>
=============================================================================
