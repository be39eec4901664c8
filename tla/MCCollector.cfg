\* Pages of two, batches of two, limits below, at and above page boundaries and
\* above the chain.  Three calls, a semaphore of two, two endpoints.  A collection
\* stops when it has ended.
CONSTANTS
    c1 = c1
    c2 = c2
    c3 = c3
    e1 = e1
    e2 = e2
    None = None
    PageSize = 2
    BatchSize = 2
    Limits = {1, 2, 3, 5, 9}
    MinRate = 70
    MaxChain = 7
    Calls = {c1, c2, c3}
    Endpoints = {e1, e2}
    Slots = 2
    Retries = 1
    MaxFailures = 2
SPECIFICATION FairCollector
INVARIANTS LatestIsContiguous LatestReachesBack TypeOK BlameIsBounded
PROPERTIES CollectionsEnd ExclusionLasts CallsEnd
CHECK_DEADLOCK FALSE
