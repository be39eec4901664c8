\* Is a task deleted only after its outcome was received?
CONSTANTS
    t1 = t1
    t2 = t2
    t3 = t3
    b1 = b1
    b2 = b2
    j1 = j1
    j2 = j2
    p1 = p1
    p2 = p2
    None = None
    Tasks = {t1}
    Tabs = {b1, b2}
    MaxAttempts = 3
    PoolSize = 1
    Jobs = {j1}
    Polls = {p1}
SPECIFICATION SpecBoth
INVARIANTS DeletedAfterReceived
CHECK_DEADLOCK FALSE
