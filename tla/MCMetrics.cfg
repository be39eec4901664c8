\* Five holders of eight profiles, with two histories; three transfers, one of
\* which may be lost, between two owners, one with two accounts, and a pool;
\* percentages at the thresholds.  Each behaviour ends.
CONSTANTS
    a1 = a1
    a2 = a2
    a3 = a3
    a4 = a4
    a5 = a5
    Addresses = {a1, a2, a3, a4, a5}
    Prefix <- SamePrefix
    Profiles <- SomeProfiles
    Histories <- SomeHistories
    Creation = 1700000000
    Percents = {0, 5, 15, 29, 30, 50, 71, 100}
    MoreThanAll = 400
    o1 = o1
    o2 = o2
    pool = pool
    Program = program
    Owners = {o1, o2, pool}
    w1 = w1
    w2 = w2
    w3 = w3
    vault = vault
    TokenAccounts = {w1, w2, w3, vault}
    OwnerOf <- SomeOwners
    MinRate = 60
    Gaps = {15, 22000}
    MaxTrades = 3
    TotalSupply = 4
    BusyPool = 2
    MinTransactions = 3
    MinSells = 3
    BigVolume = 2
    MinActions = 2
    MinHerd = 2
    Busy = 3
    PairLimit = 1
    WashLimit = 0
    MaxHops = 1
SPECIFICATION SpecMetrics
INVARIANTS JudgementsAgree MaliciousIsSuspicious HoldersKeepPeaks DominoesFallTogether
    FundedIsReachable BonusCostsOneLevel
CHECK_DEADLOCK FALSE
