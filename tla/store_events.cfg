\* One order, every payment event in every order, interleaved with fulfilment.
SPECIFICATION Spec
CONSTANTS
    q1 = q1  q2 = q2  k1 = k1  k2 = k2  b1 = b1  b2 = b2  r1 = r1  r2 = r2
    f1 = f1  s1 = s1  s2 = s2  p1 = p1  p2 = p2  rc1 = rc1  rc2 = rc2  d1 = d1
    None = None
    QuoteIds = {q1}
    Keys = {k1}
    Buyers = {b1}
    Requests = {r1, r2}
    MaxPrice <- MCMaxPrice
    FakeIds = {}
    StripeCheckouts = {s1}
    StripePayments = {p1}
    Feed <- MCFeedOnePayment
    EventIds = {1, 2, 3, 4, 5, 6}
    ReceiveTimes = {1, 2}
    CostCategories = {"compute"}
    CostSheets <- MCOneCost
    CostKeys = {k1}
    ReceiptIds = {rc1}
    Digests = {d1}
    Environment = "sandbox"
    LiveCheckout = FALSE
    QuotedAmount = 2
    TTL <- MCTTL
    MaxTime = 0
INVARIANTS
    TypeOK
    StatusCoherent
    LedgerAgrees
    EffectsAppliedOnce
    NothingLeftToReconcile
    ReorderingConverges
    HistoryReplays
PROPERTIES
    RecordsAreFinal
    KeepsContract
CHECK_DEADLOCK FALSE
