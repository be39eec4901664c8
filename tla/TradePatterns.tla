----------------------------- MODULE TradePatterns -----------------------------
(***************************************************************************)
(* The metrics of TokenAnalyzer that look for patterns in the transactions *)
(* of a token, once its fields are parsed.                                 *)
(*                                                                         *)
(* Numbers of transactions that only make the difference between few and   *)
(* many are constants, with the value of the code beside them.  Ratios are *)
(* compared without division, and a level is the number of thresholds that *)
(* are exceeded.  Where a metric returns an error, the model has Error.    *)
(***************************************************************************)
EXTENDS Parsing

CONSTANTS
    TotalSupply,        \* metadata.supply of the data
    BusyPool,           \* 50: transactions of a large holder that is a pool
    MinTransactions,    \* 100: for the domino effect
    MinSells,           \* 10
    BigVolume,          \* 1000000, of a coordinated cluster
    MinActions,         \* 5: transactions of a window for the herding index
    MinHerd,            \* 50 transactions at all
    Busy,               \* 50: buys in ten minutes
    PairLimit,          \* 5: transactions between two accounts
    WashLimit,          \* 3: such pairs
    MaxHops             \* 7: how far the deployer's funds are followed

VARIABLES
    queue, processed, funded_wallets,   \* detect_deployer_funded_snipers
    report

search == <<queue, processed, funded_wallets>>
vars == <<parsing, search, report>>

Error == -1

Exceeded(part, whole, percents) == Cardinality({p \in percents : part * 100 > p * whole})

Indices == DOMAIN transactions
Time(i) == transactions[i].time
Timed == {i \in Indices : Time(i) # 0}

(* Indices by time, those of one time in the order of the list.            *)
Earlier(i, j) == Time(i) < Time(j) \/ (Time(i) = Time(j) /\ i < j)

ByTime(S) == SetToSortSeq(S, Earlier)

Holding(a) == IF a \in Owners THEN current_holders[a] ELSE 0
total_balance == SumOver(current_holders, Owners)

ShareFrom(o, percent) == Holding(o) > 0 /\ Holding(o) * 100 >= percent * total_balance

is_liquidity_pool(o) ==
    \/ ShareFrom(o, 3) /\ address_activity[o] > 10
    \/ address_activity[o] > 1000

(* _identify_pools, with holders.                                          *)
Pools == ProgramPools \union {o \in Owners : ShareFrom(o, 3) /\ address_activity[o] > BusyPool}

Pooled(i) == ToSet(transactions[i].keys) \intersect Pools # {}

Before(i, o) == Amount(transactions[i].pre, o)
After(i, o) == Amount(transactions[i].post, o)

-------------------------------------------------------------------------------
(* get_domino_effect.  Every balance before a transaction is a sale.       *)
SellEvents == {s \in Timed \X Owners : Before(s[1], s[2]) > 0}

(* The sales are gone through by time, those of one time in any order.     *)
LastSell(sells) == CHOOSE x \in sells : \A y \in sells : Time(y[1]) <= Time(x[1])

NextSell(acc, sell) ==
    IF acc.cluster = <<>> \/ Time(sell[1]) - Time(Last(acc.cluster)[1]) <= 15
    THEN [acc EXCEPT !.cluster = Append(@, sell)]
    ELSE [clusters |-> IF Len(acc.cluster) >= 3 THEN acc.clusters \union {ToSet(acc.cluster)}
                                                ELSE acc.clusters,
          cluster |-> <<sell>>]

SellPass ==
    MapThenFoldSet(LAMBDA sell, acc : NextSell(acc, sell), [clusters |-> {}, cluster |-> <<>>],
                   LAMBDA sell : sell, LastSell, SellEvents)

(* Mutant: the cluster that the sales end with is forgotten.               *)
ClosedClusters == SellPass.clusters

SellClusters ==
    SellPass.clusters \union
        IF Len(SellPass.cluster) >= 3 THEN {ToSet(SellPass.cluster)} ELSE {}

Volume(sells) == SumOver([s \in sells |-> Before(s[1], s[2])], sells)

CoordinatedVolume ==
    Volume(UNION {c \in SellClusters : Volume(c) > BigVolume})

DominoEffect ==
    IF Len(transactions) < MinTransactions \/ Cardinality(SellEvents) < MinSells THEN Error
    ELSE Exceeded(CoordinatedVolume, Volume(SellEvents), {50, 30, 15, 5})

-------------------------------------------------------------------------------
(* get_migration_footprint                                                 *)
EarlyHolders == {a \in Accounts : first_seen[a] \in 1..(migration_time - 1)}

MigrationFootprint ==
    LET sold == Cardinality({a \in EarlyHolders : Holding(a) = 0})
        early == Cardinality(EarlyHolders)
        dumps == {d \in Timed \X (EarlyHolders \intersect Owners) :
                      Time(d[1]) > migration_time /\ d[2] \in DOMAIN transactions[d[1]].pre}
        within(seconds) == Cardinality({d \in dumps : Time(d[1]) - migration_time < seconds})
        half(n) == 2 * n > Cardinality(dumps)
    IN  IF migration_time = 0 THEN Error
        ELSE IF sold * 10 > early * 7 \/ half(within(300)) THEN 4
        ELSE IF sold * 10 > early * 5 \/ half(within(1800)) THEN 3
        ELSE Exceeded(sold, early, {30, 10})

(* get_herding_index: by windows of ten seconds, the part of the larger of *)
(* buys and sales; in thousandths.                                         *)
TradeType(i) ==
    IF DOMAIN transactions[i].pre # {} THEN "sell"
    ELSE IF DOMAIN transactions[i].post # {} THEN "buy" ELSE "unknown"

HerdingIndex ==
    LET windows == {{i \in Timed : Time(i) \div 10 = w} : w \in {Time(i) \div 10 : i \in Timed}}
        busy == {w \in windows : Cardinality(w) >= MinActions}
        of(w, type) == Cardinality({i \in w : TradeType(i) = type})
        ratio(w) == (1000 * Larger(of(w, "buy"), of(w, "sell"))) \div Cardinality(w)
    IN  IF Len(transactions) < MinHerd THEN Error
        ELSE IF busy = {} THEN 0
        ELSE SumOver([w \in busy |-> ratio(w)], busy) \div Cardinality(busy)

-------------------------------------------------------------------------------
(* get_whale_accumulation_rate                                             *)
Top(f, n) == LET sums == {SumOver(f, S) : S \in {T \in SUBSET DOMAIN f : Cardinality(T) <= n}}
             IN  CHOOSE x \in sums : \A y \in sums : x >= y

(* The last balance, in the order of the list, within a time.              *)
LastBalances(from, to) ==
    LET trades(o) == {i \in Indices : Time(i) >= migration_time /\ Time(i) \in from..(to - 1) /\ After(i, o) > 0}
    IN  [o \in {p \in Owners : trades(p) # {}} |->
            After(CHOOSE i \in trades(o) : \A j \in trades(o) : j <= i, o)]

WhaleNow == CHOOSE t \in {Time(i) : i \in Indices} : \A j \in Indices : Time(j) <= t

WhaleHours == 6 * 3600

(* The change within interval k, counted back from the last transaction:   *)
(* of what was held in it over what was held after it.                     *)
WhaleChange(k) ==
    Top(LastBalances(WhaleNow - (k + 1) * WhaleHours, WhaleNow - k * WhaleHours), 10)
        - Top(LastBalances(WhaleNow - k * WhaleHours, WhaleNow), 10)

(* The trend is that of the latest interval, in per cent of the supply to  *)
(* a tenth.  Nobody holds anything at its start: it never is DUMPING.      *)
WhaleTrend ==
    LET change == IF TotalSupply = 0 THEN 0 ELSE WhaleChange(0)
    IN  IF migration_time = 0 THEN "error"
        ELSE IF \A i \in Indices : Time(i) < migration_time THEN "NO_DATA"
        ELSE IF change * 2000 > 101 * TotalSupply THEN "ACCUMULATING"
        ELSE IF change * 2000 < -101 * TotalSupply THEN "DUMPING" ELSE "STABLE"

(* get_sell_pressure_index: without buys there is no pressure.             *)
total_buy == SumOver(buy_volume, Owners)
total_sell == SumOver(sell_volume, Owners)

SellPressure == IF total_buy = 0 THEN 0 ELSE Exceeded(total_sell, total_buy, {150, 120, 100})

(* get_price_volume_correlation                                            *)
Correlation ==
    IF 10 * total_buy > 15 * total_sell THEN "POSITIVE"
    ELSE IF 10 * total_sell > 15 * total_buy THEN "NEGATIVE" ELSE "NEUTRAL"

-------------------------------------------------------------------------------
(* get_early_buyers: before the migration, however long after creation.    *)
Bought(o) ==
    SumOver([i \in Indices |-> After(i, o)],
            {i \in Timed : Time(i) < migration_time /\ Pooled(i)})

(* The risk that hard_risk_score makes of the part they still hold.        *)
EarlyRisk ==
    LET early == {o \in Owners \ Pools : Bought(o) > 0}
        initial == SumOver([o \in early |-> Bought(o)], early)
        current == SumOver([o \in early |-> Holding(o)], early)
    IN  IF migration_time = 0 THEN Error
        ELSE IF initial = 0 THEN 20
        ELSE IF 2 * current >= initial THEN 0
        ELSE (20 * (initial - 2 * current)) \div initial

(* get_pre_migration_analysis: owners named in the last minutes.           *)
HoldersWithin(minutes) ==
    Cardinality(UNION {DOMAIN transactions[i].post :
        i \in {j \in Indices : Time(j) \in (migration_time - 60 * minutes)..(migration_time - 1)}})

PreMigrationRisk ==
    IF migration_time = 0 THEN Error
    ELSE IF 10 * HoldersWithin(1) > 8 * HoldersWithin(5) THEN 30
    ELSE IF HoldersWithin(5) > 50 THEN 25
    ELSE IF HoldersWithin(5) > 20 THEN 15
    ELSE IF HoldersWithin(5) > 5 THEN 5 ELSE 0

(* get_migration_speed_analysis                                            *)
SpeedRisk ==
    LET seconds == migration_time - creation_time
    IN  IF migration_time = 0 THEN Error
        ELSE IF seconds < 60 THEN 40
        ELSE IF seconds < 300 THEN 25
        ELSE IF seconds < 3600 THEN 10 ELSE 0

-------------------------------------------------------------------------------
(* detect_robotic_patterns: the transactions with a pool after which an    *)
(* owner has tokens are its buys.                                          *)
Buys(o) == ByTime({i \in Timed : o \notin Pools /\ Pooled(i) /\ After(i, o) > 0})

IsRobotic(o) ==
    LET buys == Buys(o)
        n == Len(buys)
        gap(k) == Time(buys[k + 1]) - Time(buys[k])
        significant(k) == After(buys[k], o) * 10000 >= 5 * TotalSupply
    IN  /\ n >= 3
        /\ \/ Cardinality({After(buys[k], o) : k \in 1..n}) <= 3
           \/ Cardinality({gap(k) : k \in 1..(n - 1)}) <= 2
           \/ \E k \in 1..(n - Busy) :
                  /\ Time(buys[k + Busy - 1]) - Time(buys[k]) < 600
                  /\ Cardinality({j \in k..(k + Busy - 1) : significant(j)}) >= 5

(* The signer of more than half of the transactions of the first quarter   *)
(* of an hour, or without a time.                                          *)
Dominant ==
    LET early == {i \in Indices : Time(i) < creation_time + 900 /\ transactions[i].keys # <<>>}
        signed(a) == Cardinality({i \in early : transactions[i].keys[1] = a})
    IN  {a \in Accounts : 2 * signed(a) > Cardinality(early)}

RoboticRisk ==
    LET robots == {o \in Owners : IsRobotic(o)} \union Dominant
        control == SumOver([a \in robots |-> Holding(a)], robots)
        from(percent) == control * 100 >= percent * total_balance
    IN  IF robots = {} THEN 0
        ELSE IF total_balance = 0 THEN 2
        ELSE IF from(50) THEN 25 ELSE IF from(30) THEN 15
        ELSE IF from(15) THEN 10 ELSE IF from(5) THEN 5 ELSE 2

-------------------------------------------------------------------------------
(* get_advanced_bot_analysis: in a transaction with a pool, tokens after   *)
(* it are a buy and tokens before it a sale of the same owner.             *)
Actions(o) ==
    LET mine == ByTime({i \in Timed : Pooled(i) /\ o \notin Pools /\ ~is_liquidity_pool(o)})
        of(i) == (IF After(i, o) > 0 THEN <<[type |-> "BUY", at |-> Time(i), amount |-> After(i, o)]>>
                                     ELSE <<>>)
                 \o (IF Before(i, o) > 0 THEN <<[type |-> "SELL", at |-> Time(i), amount |-> Before(i, o)]>>
                                         ELSE <<>>)
    IN  FlattenSeq([k \in DOMAIN mine |-> of(mine[k])])

OverSupply(amount, hundredths) == amount * 10000 > hundredths * TotalSupply

RapidPatterns(o) ==
    LET acts == Actions(o)
    IN  {k \in 1..(Len(acts) - 1) :
            /\ acts[k].type = "BUY" /\ acts[k + 1].type = "SELL"
            /\ acts[k + 1].at - acts[k].at < 300
            /\ OverSupply(acts[k].amount, 5) /\ OverSupply(acts[k + 1].amount, 5)}

SellsMuch(o) ==
    LET acts == Actions(o)
        sells == {k \in DOMAIN acts : acts[k].type = "SELL" /\ OverSupply(acts[k].amount, 1)}
    IN  /\ Cardinality(sells) >= 5
        /\ OverSupply(SumOver([k \in sells |-> acts[k].amount], sells), 50)

SuspiciousTraders == {o \in Owners : RapidPatterns(o) # {} \/ SellsMuch(o)}

(* Windows of ten seconds with three large actions of any owners, two of   *)
(* which are of one type.                                                  *)
Manipulations ==
    LET actions == [o \in Owners |-> Actions(o)]
        large == UNION {{<<o, k, actions[o][k]>> :
                            k \in {j \in DOMAIN actions[o] : OverSupply(actions[o][j].amount, 5)}} : o \in Owners}
        windows == {{y \in large : y[3].at \div 10 = x[3].at \div 10} : x \in large}
    IN  {w \in windows :
            /\ Cardinality(w) >= 3
            /\ \E type \in {"BUY", "SELL"} : Cardinality({x \in w : x[3].type = type}) >= 2}

(* get_pre_migration_top_holders: the shares, and with them the pools, are *)
(* of what the holders first seen before the migration have together.      *)
PreMigrationTop ==
    LET pre == {o \in Owners : Holding(o) > 0 /\ first_seen[o] < migration_time}
        total == SumOver(current_holders, pre)
        from(o, hundredths) == Holding(o) * 10000 >= hundredths * total
        over(o, percent) == Holding(o) * 100 > percent * total
        isPool(o) == (from(o, 300) /\ address_activity[o] > 10) \/ address_activity[o] > 1000
    IN  [o \in {p \in pre : from(p, 3)} |->
            IF isPool(o) THEN "POOL" ELSE IF over(o, 5) THEN "WHALE"
            ELSE IF over(o, 1) THEN "LARGE" ELSE "holder"]

(* get_historical_holders                                                  *)
HistoricalHolders == {o \in Owners : TransferStatus(o) # "none"}

(* get_wash_trading                                                        *)
WashRisk ==
    LET paired == {i \in Indices : Len(transactions[i].keys) >= 2}
        pair(i) == {transactions[i].keys[1], transactions[i].keys[2]}
        count(p) == Cardinality({i \in paired : pair(i) = p})
    IN  IF Cardinality({p \in {pair(i) : i \in paired} : count(p) > PairLimit}) > WashLimit THEN 25 ELSE 0

-------------------------------------------------------------------------------
(* detect_deployer_funded_snipers.  The deployer signed the first          *)
(* transaction, in the order of the list, of the time of creation.         *)
Deployers ==
    LET signed == {i \in Indices : Time(i) = creation_time /\ transactions[i].keys # <<>>}
    IN  {transactions[i].keys[1] : i \in {j \in signed : \A k \in signed : j <= k}}

(* Whoever comes second in a transaction of the first hour has received    *)
(* funds of its signer.                                                    *)
Receivers(a) ==
    {transactions[i].keys[2] : i \in {j \in Indices :
        /\ Time(j) <= creation_time + 3600
        /\ Len(transactions[j].keys) >= 2
        /\ transactions[j].keys[1] = a}}

FindDeployer ==
    /\ Parsed /\ queue = <<>> /\ processed = {} /\ ~report.made
    /\ \E d \in Deployers : queue' = <<[account |-> d, hops |-> 0]>>
    /\ UNCHANGED <<parsing, processed, funded_wallets, report>>

(* Mutant: one hop less is followed.                                       *)
TooFar(hops) == hops >= MaxHops

Beyond(hops) == hops > MaxHops

Follow ==
    /\ queue # <<>>
    /\ LET a == Head(queue).account
           hops == Head(queue).hops
           new == IF a \in processed \/ Beyond(hops) THEN {} ELSE Receivers(a) \ funded_wallets
       IN  /\ processed' = IF Beyond(hops) THEN processed ELSE processed \union {a}
           /\ funded_wallets' = funded_wallets \union new
           /\ queue' = Tail(queue) \o SetToSeq({[account |-> b, hops |-> hops + 1] : b \in new})
    /\ UNCHANGED <<parsing, report>>

(* A funded owner that is named after a transaction with a pool in the     *)
(* first five minutes, whether it has bought or sold.                      *)
Snipers ==
    {s \in Timed \X (funded_wallets \intersect Owners) :
        Time(s[1]) <= creation_time + 300 /\ Pooled(s[1]) /\ s[2] \in DOMAIN transactions[s[1]].post}

SniperRisk ==
    LET share == SumOver([s \in Snipers |-> After(s[1], s[2])], Snipers)
    IN  CASE Deployers = {} -> Error
          [] Exceeded(share, TotalSupply, {1, 5, 10}) = 3 -> 40
          [] Exceeded(share, TotalSupply, {1, 5, 10}) = 2 -> 25
          [] Exceeded(share, TotalSupply, {1, 5, 10}) = 1 -> 10
          [] OTHER -> 0

(* get_deployer_behavior: its balances before the migration, or within the *)
(* first hour, count as sales.                                             *)
DeployerSells ==
    LET until == IF migration_time # 0 THEN migration_time ELSE creation_time + 3600
    IN  {i \in Indices : \E d \in Deployers \intersect Owners :
            Names(transactions[i], d) /\ Time(i) < until /\ Before(i, d) > 0}

Searched == processed # {} \/ Deployers = {}

NoReport == [made |-> FALSE]

Report ==
    /\ Parsed /\ queue = <<>> /\ Searched /\ ~report.made
    /\ report' = [made |-> TRUE,
                  domino |-> DominoEffect, footprint |-> MigrationFootprint, herding |-> HerdingIndex,
                  whales |-> WhaleTrend, pressure |-> SellPressure, correlation |-> Correlation,
                  early |-> EarlyRisk, pre_migration |-> PreMigrationRisk, speed |-> SpeedRisk,
                  robotic |-> RoboticRisk, traders |-> SuspiciousTraders,
                  manipulations |-> Cardinality(Manipulations), top |-> PreMigrationTop,
                  historical |-> HistoricalHolders, wash |-> WashRisk,
                  snipers |-> SniperRisk, deployer |-> Cardinality(DeployerSells)]
    /\ UNCHANGED <<parsing, search>>

Init ==
    /\ InitParsing
    /\ queue = <<>> /\ processed = {} /\ funded_wallets = {}
    /\ report = NoReport

Next ==
    \/ NextParsing /\ UNCHANGED <<search, report>>
    \/ FindDeployer \/ Follow \/ Report

Spec == Init /\ [][Next]_vars

-------------------------------------------------------------------------------
(* The clusters of the one pass over the sorted sales are the longest runs *)
(* of three and more in which no pause is over 15 seconds.                 *)
DominoesFallTogether ==
    LET times == {Time(s[1]) : s \in SellEvents}
        together(x, y) == \A u \in times :
            (u >= Time(x[1]) /\ u < Time(y[1])) \/ (u >= Time(y[1]) /\ u < Time(x[1]))
                => \E v \in times : v \in (u + 1)..(u + 15)
        run(x) == {y \in SellEvents : together(x, y)}
    IN  report.made =>
            SellClusters = {r \in {run(x) : x \in SellEvents} : Cardinality(r) >= 3}

(* The search, whose queue may name an account twice and the deployer too, *)
(* finds who is reached in at most one hop more than it follows.           *)
FundedIsReachable ==
    LET reached[n \in 0..MaxHops] ==
            IF n = 0 THEN Deployers
            ELSE reached[n - 1] \union UNION {Receivers(a) : a \in reached[n - 1]}
    IN  report.made => funded_wallets = UNION {Receivers(a) : a \in reached[MaxHops]}
===============================================================================
