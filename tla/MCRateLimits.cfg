\* Four requests to data-analysis against a limit of one, a minute of two ticks;
\* requests to one path of data-management, over two windows of two ticks.  The
\* clocks stop and the requests run out.
CONSTANTS
    r1 = r1
    r2 = r2
    r3 = r3
    r4 = r4
    None = None
    Paths = {"/stats"}
    Window = 2
    LastTick = 3
    Requests = {r1, r2, r3, r4}
    Limit = 1
    Minute = 2
    MaxTime = 6
SPECIFICATION SpecBoth
SYMMETRY RequestSymmetry
INVARIANTS CountersTypeOK BurstLimit ManagementBurstLimit
CHECK_DEADLOCK FALSE
