SPECIFICATION Spec
CONSTANTS
    r1 = r1
    r2 = r2
    i1 = i1
    e1 = e1
    IssuerChainID = 1
    EmailCredentialContextID = 111
    TicketCredentialContextID = 222
    Reqs = {r1, r2}
    Idents = {i1}
    Numerals = {i1}
    ValueOf <- Value
    Accounts <- JustAnn
    Ghosts <- Nobody
    EventIDs = {e1}
    Events = {e1}
PROPERTIES
    NoTicketOnceStored
