\* Two batches of one token race each other, a DELETE, the migration, expiry
\* and restarts on two mints.
CONSTANTS
    m1 = m1
    m2 = m2
    j1 = j1
    j2 = j2
    d1 = d1
    None = None
    Mints = {m1, m2}
    Jobs = {j1, j2}
    Deleters = {d1}
    MaxBatch = 1
    PublicBatch = 1
SPECIFICATION Spec
SYMMETRY Symmetry
INVARIANTS BatchAccounting CompletedMeansAll StoreIntegrity
