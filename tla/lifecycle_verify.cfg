\* Two processes on one state file, four feeds: two under one number, one that revives.
SPECIFICATION VerifierSpec
CONSTANTS
    r1 = r1  r2 = r2  s1 = s1  s2 = s2  v1 = v1  v2 = v2
    None = None
    Receipts = {r1, r2}
    Issuers = {s1, s2}
    SignerOf <- MCSignerOf
    ReceiptExpiry <- MCExpiry
    Verifiers = {v1, v2}
    Feeds <- MCFeeds
    CatalogIssuer = s1
    OldNumbers = {2}
    MaxTime = 1
SYMMETRY SymVerifiers
INVARIANTS
    VerifierTypeOK
    OneFeedPerNumber
    StoredCoversAccepted
PROPERTIES
    NoOlderAnswer
    OnlyNewFeedsRevive
CHECK_DEADLOCK FALSE
