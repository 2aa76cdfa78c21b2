\* Two orders that may be given the same receipt, two coordinators, one crash, republication.
SPECIFICATION FairFulfillSpec
CONSTANTS
    q1 = q1  q2 = q2  k1 = k1  k2 = k2  b1 = b1  r1 = r1  f1 = f1  f2 = f2
    rc1 = rc1  rc2 = rc2  d1 = d1  c1 = c1  c2 = c2
    None = None
    QuoteIds = {q1, q2}
    Keys = {k1, k2}
    Buyers = {b1}
    Requests = {r1}
    MaxPrice <- MCMaxPrice
    FakeIds = {f1, f2}
    StripeCheckouts = {}
    StripePayments = {}
    Feed <- MCFeed
    EventIds = {1, 2}
    ReceiveTimes = {0}
    CostCategories = {"compute"}
    CostSheets <- MCCosts
    CostKeys = {k1}
    ReceiptIds = {rc1, rc2}
    Digests = {d1}
    Environment = "sandbox"
    LiveCheckout = FALSE
    QuotedAmount = 2
    TTL <- MCTTL
    MaxTime = 0
    FakePaymentId <- MCFakePaymentId
    Coordinators = {c1, c2}
    MaxCrashes = 1
CONSTRAINT KeyOfQuote
INVARIANTS
    FulfillTypeOK
    DeliveryOnFile
    OneWorkerPerOrder
    OrphansWereAbandoned
PROPERTY
    DeliveredIsPublished
CHECK_DEADLOCK FALSE
