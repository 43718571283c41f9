SPECIFICATION Spec
CONSTANTS
    r1 = r1
    Reqs = {r1}
    Accounts <- MCAccounts
    Paths <- AllPaths
    Methods = {"GET", "POST", "PUT", "DELETE", "OPTIONS"}
    NoHeader = NoHeader
    Garbage = Garbage
    JWTExpiresSec = 2
    MaxTime = 5
    MaxTokens = 2
INVARIANTS
    DocumentedPublicIsOpen
