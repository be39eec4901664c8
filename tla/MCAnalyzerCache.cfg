\* Two collections and two requests at a time.
CONSTANTS
    r1 = r1
    r2 = r2
    None = None
    Requests = {r1, r2}
    MaxVersion = 2
SPECIFICATION FairSpec
INVARIANTS BareNeedsSave
PROPERTY CachesForget
