\* Does mode "earliest" collect the token's first signatures?
CONSTANTS
    c1 = c1
    c2 = c2
    c3 = c3
    e1 = e1
    e2 = e2
    None = None
    PageSize = 2
    BatchSize = 2
    Limits = {3}
    MinRate = 70
    MaxChain = 7
    Calls = {c1}
    Endpoints = {e1}
    Slots = 1
    Retries = 0
    MaxFailures = 1
SPECIFICATION SpecCollector
INVARIANTS EarliestIsEarliest
CHECK_DEADLOCK FALSE
