SPECIFICATION FairSpec
CONSTANTS
    r1 = r1
    r2 = r2
    a = a
    b = b
    bad = bad
    c1 = c1
    c2 = c2
    u1 = u1
    u2 = u2
    Reqs = {r1, r2}
    Emails = {a, b}
    RawEmails <- TwoRaw
    ParseAddress <- TwoParse
    BadEmail = bad
    Codes = {c1, c2}
    UserIDs = {u1, u2}
    MaxCodes = 1
INVARIANTS
    TypeOK
    OneLoginPerCode
    TokensNameOneAccount
PROPERTIES
    LiveCodeNeverReplaced
    CodesAreOneTime
    EveryRequestAnswered
