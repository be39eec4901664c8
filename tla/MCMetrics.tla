------------------------------- MODULE MCMetrics -------------------------------
(* Instances of WalletRisk, TradePatterns and RiskScores for TLC: the three *)
(* groups of metrics.  They share no state, so a behaviour is one of one of *)
(* them, and the interleavings, which add nothing, are left out.           *)
EXTENDS WalletRisk, TLC

CONSTANTS
    a1, a2, a3, a4, a5,
    Percents, MoreThanAll,
    Owners, o1, o2, pool, TokenAccounts, OwnerOf, w1, w2, w3, vault, Program, Gaps,
    MinRate, MaxTrades,
    TotalSupply, BusyPool, MinTransactions, MinSells, BigVolume, MinActions, MinHerd, Busy,
    PairLimit, WashLimit, MaxHops

VARIABLES
    group,
    stage, risk_score, explained, malicious, level, scam_type,
    ledger, clock, trades, lost, shown, parsed, holders, historical_holders, activity, seen,
    tx_timestamps, buy_volume, sell_volume, migration_time, queue, processed, funded_wallets, patterns

Start == 1700000000

-------------------------------------------------------------------------------
SamePrefix == [a \in Addresses |-> a = a5]

P(balance, count, minutes, seconds) ==
    [balance |-> balance, count |-> count, first |-> Start + 60 * minutes + seconds]

(* A whale, a pool, holders at each side of the thresholds, and one whose  *)
(* balance is gone; the last one is an owner no transaction names.         *)
SomeProfiles ==
    {P(10000, 5, 29, 0), P(9000, 60, 0, 10), P(9, 19, 4, 59), P(3, 31, 5, 50), P(0, 1, 5, 20),
     [balance |-> 7, count |-> 0, first |-> 0]}

T(seconds, program, keys, pre, post) ==
    [time |-> IF seconds = 0 THEN 0 ELSE Start + seconds, program |-> program, keys |-> keys,
     pre |-> pre, post |-> post]

SomeHistories ==
    {<<T(300, FALSE, {a1}, {a1}, {a2}), T(301, FALSE, {a2}, {a2}, {}), T(0, FALSE, {a3}, {a3}, {})>>,
     <<T(1000, TRUE, {a4}, {}, {a1, a2, a3}), T(1004, FALSE, {a1}, {}, {}),
       T(1009, FALSE, {a1, a2}, {}, {}), T(1013, FALSE, {a1, a2}, {}, {}), T(1019, FALSE, {a2}, {}, {})>>}

-------------------------------------------------------------------------------
(* The sender signs, or the receiver, of the pool in any case; a trade may *)
(* name a program.                                                         *)
SomeKeys(from, to) ==
    {<<to, Program>>, IF from = pool THEN <<to>> ELSE <<from, to>>}

(* The pool has all tokens but one.                                        *)
SomeBalances ==
    {[w \in TokenAccounts |-> CASE w = vault -> 3 [] w = w1 -> 1 [] OTHER -> 0]}

(* One owner has two token accounts.                                       *)
SomeOwners ==
    [w \in TokenAccounts |-> CASE w = vault -> pool [] w = w3 -> o2 [] OTHER -> o1]

Patterns == INSTANCE TradePatterns WITH
    FirstBalances <- SomeBalances, KeyLists <- SomeKeys,
    transactions <- trades, current_holders <- holders, address_activity <- activity,
    first_seen <- seen, report <- patterns

ASSUME PatternsAssumption == Patterns!ParsingAssumption

(* Of a token: its owners, its supply and the hops that are followed.      *)
ASSUME TokenAssumption == IsFiniteSet(Owners) /\ TotalSupply \in Nat /\ MaxHops \in Nat

Scores == INSTANCE RiskScores

ASSUME PercentsAssumption == Scores!ScoresAssumption

wallets == vars
patternVars == <<ledger, clock, trades, lost, shown, parsed, holders, historical_holders, activity,
                 seen, tx_timestamps, buy_volume, sell_volume, migration_time, queue, processed,
                 funded_wallets, patterns>>
scores == <<stage, risk_score, explained, malicious, level, scam_type>>

InitMetrics ==
    /\ group \in {"wallets", "patterns", "scores"}
    /\ Init /\ Patterns!Init /\ Scores!Init
    /\ group = "wallets" \/ transactions = CHOOSE h \in Histories : TRUE
    /\ group = "scores" \/ stage = 0

NextMetrics ==
    \/ group = "wallets" /\ Next /\ UNCHANGED <<group, patternVars, scores>>
    \/ group = "patterns" /\ Patterns!Next /\ UNCHANGED <<group, wallets, scores>>
    \/ group = "scores" /\ Scores!Next /\ UNCHANGED <<group, wallets, patternVars>>

SpecMetrics == InitMetrics /\ [][NextMetrics]_<<group, wallets, patternVars, scores>>

-------------------------------------------------------------------------------
(* What the data say of a holder, a sniper, a whale: see Parsing.          *)
HoldersKeepPeaks == Patterns!HoldersKeepPeaks

(* The clusters of sales of the domino effect: see TradePatterns.          *)
DominoesFallTogether == Patterns!DominoesFallTogether

(* The wallets that the deployer has funded.                               *)
FundedIsReachable == Patterns!FundedIsReachable

(* The bonus for market makers and the list of anomalies: see RiskScores.  *)
BonusCostsOneLevel == Scores!BonusCostsOneLevel
================================================================================
