\* The token list: two mints, lists of one and of two, a day of three ticks of
\* which a list is fresh for two.  The other caches: two requests, a longer clock
\* and day.  The clock stops at MaxTime or LongTime.
CONSTANTS
    m1 = m1
    m2 = m2
    r0 = r0
    r1 = r1
    r2 = r2
    None = None
    Mints = {m1, m2}
    Requests = {r0}
    Limits = {1, 2}
    TTL = 2
    Day = 3
    MaxTime = 4
    TwoRequests = {r1, r2}
    LongDay = 4
    LongTime = 5
    KeysTimeout = 1
    PipelineTimeout = 1
SPECIFICATION SpecCaches
SYMMETRY Symmetry
INVARIANTS CollectedShows DeletedFades AnalysisListFades StatisticsFade
CHECK_DEADLOCK FALSE
