\* Two receipts of one key, two operators whose drafts and imports overlap.
SPECIFICATION PaidSpec
CONSTANTS
    r1 = r1  r2 = r2  s1 = s1  o1 = o1  o2 = o2  k1 = k1  k2 = k2
    None = None
    Receipts = {r1, r2}
    Issuers = {s1}
    SignerOf <- MCSignerOf
    ReceiptExpiry <- MCExpiry
    Operators = {o1, o2}
    Roots = {k1, k2}
    IssuerLists <- MCIssuerLists
    Changes <- MCChanges
    Windows <- MCWindows
    MaxLifetime = 1
    ClockSkew = 0
    MaxSequence = 3
    MaxTime = 1
SYMMETRY SymTwo
INVARIANTS
    PaidTypeOK
    StatusAgrees
    CondemnedNeverCurrent
PROPERTIES
    ImplementsHistory
CHECK_DEADLOCK FALSE
