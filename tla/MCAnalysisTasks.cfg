\* Three tasks, two tabs, one thread; a tab gives up at the third poll.  Two
\* batches, with two polls under way at a time.  The system stops once all tasks
\* are used up.
CONSTANTS
    t1 = t1
    t2 = t2
    t3 = t3
    b1 = b1
    b2 = b2
    j1 = j1
    j2 = j2
    p1 = p1
    p2 = p2
    None = None
    Tasks = {t1, t2, t3}
    Tabs = {b1, b2}
    MaxAttempts = 3
    PoolSize = 1
    Jobs = {j1, j2}
    Polls = {p1, p2}
SPECIFICATION FairBoth
INVARIANTS ProcessingIsAlive
PROPERTIES OutcomeIsDelivered TabEnds TaskEnds LoneBatchIsReported
CHECK_DEADLOCK FALSE
