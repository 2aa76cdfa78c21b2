\* A buyer whose first card is declined.
SPECIFICATION StripeSpec
CONSTANTS
    q1 = q1  k1 = k1  b1 = b1  r1 = r1  s1 = s1  p1 = p1  h1 = h1  h2 = h2
    None = None
    QuoteIds = {q1}
    Keys = {k1}
    Buyers = {b1}
    Requests = {r1}
    MaxPrice <- MCMaxPrice
    FakeIds = {}
    StripeCheckouts = {s1}
    StripePayments = {p1}
    Feed <- MCFeed
    EventIds = {1, 2, 3, 4, 5, 6}
    ReceiveTimes = {0, 1, 2}
    CostCategories = {}
    CostSheets = {}
    CostKeys = {}
    ReceiptIds = {}
    Digests = {}
    Environment = "sandbox"
    LiveCheckout = FALSE
    QuotedAmount = 2
    TTL <- MCTTL
    MaxTime = 1
    Handlers = {h1, h2}
    Webhooks <- MCDeclineHooks
    CheckoutOf <- MCCheckoutOf
    PaymentOf <- MCPaymentOf
    EventIdOf <- MCEventIdOf
    IntentAtOnce = FALSE
    Fee = 1
    WEBHOOK_PROCESSING_LEASE = 1
    AvailableOn = 3
    Happenings = {"decline"}
    MaxFaults = 0
INVARIANT
    CompletedIsCaptured
CHECK_DEADLOCK FALSE
