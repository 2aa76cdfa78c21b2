\* Two tenants, two request threads, one crash, one intervention of the operator.
SPECIFICATION ApiSpec
CONSTANTS
    t1 = t1  t2 = t2  a = a  b = b  r1 = r1  h1 = h1  h2 = h2
    None = None
    QuoteIds <- MCQuoteIds
    Keys <- MCKeys
    Buyers = {t1, t2}
    Tenants = {t1, t2}
    Provisioned = {t2}
    ClientKeys = {a, b}
    Requests = {r1}
    MaxPrice <- MCMaxPrice
    FakeIds <- MCFakeIds
    FakePaymentId <- MCPaymentId
    StripeCheckouts = {}
    StripePayments = {}
    Feed = {}
    EventIds = {}
    ReceiveTimes = {}
    CostCategories = {}
    CostSheets = {}
    CostKeys = {}
    ReceiptIds = {}
    Digests = {}
    Environment = "sandbox"
    LiveCheckout = FALSE
    QuotedAmount = 1
    TTL <- MCTTL
    MaxTime = 1
    TokenTTL = 1
    Threads = {h1, h2}
    Calls <- MCCalls
    MaxQuotes = 2
    MaxOrders = 1
    MaxInterventions = 1
    MaxCrashes = 1
SYMMETRY Symmetry
INVARIANTS
    ApiTypeOK
    BindingsAgree
    QuotasHold
    RetiredStaysOut
    RetryCompletes
PROPERTY
    CapabilitiesAreSpentOnce
CHECK_DEADLOCK FALSE
