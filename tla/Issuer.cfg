SPECIFICATION FairSpec
CONSTANTS
    c1 = c1
    c2 = c2
    Calls = {c1, c2}
    IssuerChainID = 1
    EmailCredentialContextID = 111
    TicketCredentialContextID = 222
    MaxExact = 4
    Second = 2
    Day = 2
    MaxTime = 1
    Text <- AllText
    Numerals <- AllNumerals
    ValueOf <- Numbers
    Emails <- TwoAddresses
    EventIDs <- OneEvent
    Idents <- TwoIdents
    StringToUint248Hash <- Hashes
    Decimal <- Decimals
    OtherRequests <- ClaimRequests
INVARIANTS
    TypeOK
    AcceptsWellFormed
    AsIssuanceAssumes
PROPERTIES
    CallsAreSigned
    AnnouncedExpiry
    EveryCallReturns
