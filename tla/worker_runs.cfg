\* Leases that run out, late posts, two freezes of one request, one damaged file.
SPECIFICATION WorkerSpec
CONSTANTS
    w1 = w1  w2 = w2  c1 = c1  c2 = c2
    ra = ra  rb = rb  shared = shared  o1 = o1  r1 = r1
    None = None
    Damaged = Damaged
    Processes = {w1, w2, c1, c2}
    Runs = {w1, w2}
    Caches = {ra, rb, shared}
    CacheOf <- MCCacheOf
    RootOf <- MCRootOf
    Requests = {r1}
    Orders = {o1}
    Wanted <- MCWanted
    MaxAttempts = 2
    MaxFaults = 1
    MaxDeaths = 1
SYMMETRY Sym
INVARIANTS
    WorkerTypeOK
    SignedIsRequested
    PostedWorkIsNotReported
    DeliveredAnswerIsTrue
CHECK_DEADLOCK FALSE
