SPECIFICATION Spec
CONSTANTS
    r1 = r1
    r2 = r2
    a = a
    b = b
    bad = bad
    c1 = c1
    c2 = c2
    u1 = u1
    u2 = u2
    Reqs = {r1, r2}
    Emails = {a}
    RawEmails <- OneRaw
    ParseAddress <- OneParse
    BadEmail = bad
    Codes = {c1, c2}
    UserIDs = {u1, u2}
    MaxCodes = 2
PROPERTIES
    AlreadySentIsTrue
