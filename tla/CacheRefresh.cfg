CONSTANTS
    t1 = t1
    t2 = t2
    o1 = o1
    NoThread = NoThread
    Threads = {t1, t2}
    Offerings = {o1}
    Queries = {{}, {o1}}
    Listed <- MCListed
    Priced <- MCPriced
    CacheTTL = 1
    UnavailableTTL = 2
    MaxVersion = 2
    MaxTime = 2
SPECIFICATION FairSpec
INVARIANTS TypeOK NoRedundantFetch NoRegression HitsAreFresh AvailabilityIsLive
PROPERTIES ListReturns
