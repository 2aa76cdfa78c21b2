\* Two buyers, two quotes, two keys: quotes expire, identities collide, both providers.
SPECIFICATION Spec
CONSTANTS
    q1 = q1  q2 = q2  k1 = k1  k2 = k2  b1 = b1  b2 = b2  r1 = r1  r2 = r2
    f1 = f1  s1 = s1  s2 = s2  p1 = p1  p2 = p2  rc1 = rc1  rc2 = rc2  d1 = d1
    None = None
    QuoteIds = {q1, q2}
    Keys = {k1, k2}
    Buyers = {b1, b2}
    Requests = {r1, r2}
    MaxPrice <- MCMaxPrice
    FakeIds = {f1}
    StripeCheckouts = {s1, s2}
    StripePayments = {p1, p2}
    Feed <- MCFeedTwoPayments
    EventIds = {1, 2, 3, 4}
    ReceiveTimes = {1}
    CostCategories = {"compute"}
    CostSheets <- MCCosts
    CostKeys = {k1}
    ReceiptIds = {rc1, rc2}
    Digests = {d1}
    Environment = "sandbox"
    LiveCheckout = FALSE
    QuotedAmount = 2
    TTL <- MCTTL
    MaxTime = 1
INVARIANTS
    IdentitiesUnique
    DeliveryBacked
CHECK_DEADLOCK FALSE
