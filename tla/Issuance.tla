------------------------------ MODULE Issuance ------------------------------
(***************************************************************************)
(* How a credential comes to be signed: the service's three issuer         *)
(* settings as main hands them to NewAPIService, the request a handler     *)
(* builds from them, and what the issuer makes of it.                      *)
(***************************************************************************)
EXTENDS Database, Integers

CONSTANTS
    IssuerChainID,              \* the settings, as main reads them
    EmailCredentialContextID,
    TicketCredentialContextID,
    Idents,                     \* identity commitments clients upload
    Numerals,                   \* those of them that BigInt() parses ...
    ValueOf                     \* ... and the number each of these stands for

ASSUME NumeralsAssumption == Numerals \subseteq Idents
ASSUME ValuesAssumption == \A text \in Numerals : ValueOf[text] \in Int
ASSUME IdentsAssumption == Empty \notin Idents
ASSUME SettingsAssumption ==
    /\ IssuerChainID # EmailCredentialContextID
    /\ IssuerChainID # TicketCredentialContextID
    /\ EmailCredentialContextID # TicketCredentialContextID

NewAPIService(emailContext, ticketContext, chain) ==
    [emailCredentialContextID |-> emailContext,
     ticketCredentialContextID |-> ticketContext,
     issuerChainID |-> chain]

\* The call in main, with the arguments in main's order.
Service ==
    NewAPIService(IssuerChainID, EmailCredentialContextID, TicketCredentialContextID)

\* BigInt of an upload: the empty string is zero, what is no numeral throws.
\* A client may also upload a numeral of zero, or two of one number.
Parsed(ic) == IF ic = Empty THEN {0} ELSE {ValueOf[text] : text \in {ic} \cap Numerals}

\* GenerateSignedCredential of the issuer: the credential it signs, or no
\* credential because it threw.  The attachment is the email (email
\* credentials) or the event (ticket credentials).
GenerateSignedCredential(context, email, attachment, ic) ==
    {[context |-> context, email |-> email, attachment |-> attachment,
      chainID |-> Service.issuerChainID, identityCommitment |-> n]
     : n \in Parsed(ic)}

-----------------------------------------------------------------------------
(* What the histories of Identity and Tickets record                       *)

\* What an account uploaded when an update of its row lands.
NewUpload(id, ic) == IF ic = Empty THEN {} ELSE {[id |-> id, commitment |-> ic]}

\* A credential names the address of an account, and the number that a text
\* stands for which this very account uploaded.
NamesUpload(c, uploaded, accounts) ==
    \E p \in uploaded, a \in accounts :
        /\ a.id = p.id /\ a.email = c.email
        /\ p.commitment \in Numerals /\ ValueOf[p.commitment] = c.identityCommitment
=============================================================================
