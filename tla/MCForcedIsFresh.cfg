\* Does a forced analysis analyse what is stored?
CONSTANTS
    r1 = r1
    r2 = r2
    None = None
    Requests = {r1, r2}
    MaxVersion = 2
SPECIFICATION Spec
INVARIANT ForcedIsFresh
