SPECIFICATION Spec
CONSTANTS
    r1 = r1
    r2 = r2
    i1 = i1
    i2 = i2
    u1 = u1
    u2 = u2
    u3 = u3
    ann = ann
    bob = bob
    carl = carl
    IssuerChainID = 1
    EmailCredentialContextID = 111
    TicketCredentialContextID = 222
    Idents = {i1, i2}
    Numerals = {i1}
    ValueOf <- Value
    Reqs = {r1, r2}
    Accounts <- AnnAndBob
    Ghosts <- JustGone
    Uploads <- AnyUpload
SYMMETRY Symmetry
VIEW View
INVARIANTS
    TypeOK
    NoTornIdentity
    NoStaleCommitment
    CredentialsBindUploader
PROPERTIES
    SettledIdentityIsFinal
    StoredCredentialIsFound
    WritesAsTicketsAssumes
