SPECIFICATION SystemSpec
CONSTANTS
    r1 = r1
    r2 = r2
    t1 = t1
    l1 = l1
    c1 = c1
    bad = bad
    i1 = i1
    i2 = i2
    e1 = e1
    IssuerChainID = 1
    EmailCredentialContextID = 111
    TicketCredentialContextID = 222
    Idents = {i1, i2}
    Numerals = {i1, i2}
    Reqs = {r1, r2}
    TicketReqs = {t1}
    Accounts <- JustAnn
    Callers <- JustAnn
    Asked = {"update", "putCred", "requestCred", "requestTicket"}
    Ghosts <- Nobody
    Uploads <- Whole
    ValueOf <- Value
    EventIDs = {e1}
    Events = {e1}
    LoginReqs = {l1}
    Emails = {"ann"}
    RawEmails = {"ann"}
    ParseAddress <- Parse
    BadEmail = bad
    Codes = {c1}
    UserIDs = {"u1"}
    MaxCodes = 1
SYMMETRY Symmetry
VIEW View
INVARIANTS
    SystemTypeOK
    CredentialsAgree
    CredentialsMatchStored
    CredentialsNeedLogin
PROPERTIES
    CredentialsOfOneIdentity
