\* Three tokens, one of which may be impossible to analyse, batches of two, and the
\* loop alone, or the loop and one background task at a time with two of the tokens;
\* one fault.
CONSTANTS
    m1 = m1
    m2 = m2
    m3 = m3
    c1 = c1
    Loop = Loop
    None = None
    Mints = {m1, m2, m3}
    Fragile = {m3}
    Callers = {c1}
    BatchSize = 2
    MaxFaults = 1
SPECIFICATION FairScheduler
INVARIANTS ScanNeedsLoop MarkedIsDone MarkedIsSaved
PROPERTIES ScansReachAll TasksEnd
