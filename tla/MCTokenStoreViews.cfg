\* One batch of up to two tokens, seen by its poller and by readers of the keys, fair to its loop.
CONSTANTS
    m1 = m1
    m2 = m2
    j1 = j1
    d1 = d1
    None = None
    Mints = {m1, m2}
    Jobs = {j1}
    Deleters = {d1}
    MaxBatch = 2
    PublicBatch = 1
SPECIFICATION FairViewSpec
INVARIANTS ListedIsReadable SuccessIsStored
PROPERTIES ContractHolds BatchEnds
