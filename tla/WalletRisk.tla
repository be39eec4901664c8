------------------------------ MODULE WalletRisk ------------------------------
(***************************************************************************)
(* The metrics of TokenAnalyzer that judge one holder after the other:     *)
(* which holders are pools, market makers, malicious, suspicious or bots,  *)
(* how much of the supply they hold, and the levels of risk that follow.   *)
(*                                                                         *)
(* The fields that the metrics read are those of an initialised analyzer;  *)
(* they may come from a cache and the transactions from the store, so that *)
(* nothing relates the two.  A share is compared without division, in      *)
(* hundredths of a percent; floats and rounding are left out.              *)
(***************************************************************************)
EXTENDS Integers, FiniteSets, FiniteSetsExt

CONSTANTS
    Addresses,
    Prefix,         \* the first characters of an address
    Profiles,       \* what may be known of an address: [balance, count, first]
    Histories,      \* lists of transactions: [time, program, keys, pre, post]
    Creation        \* the earliest timestamp

ASSUME WalletAssumption ==
    /\ Profiles \subseteq [balance : Nat, count : Nat, first : Nat]
    /\ Creation \in Nat

VARIABLES
    transactions,
    current_holders,    \* balances, 0 without an entry
    address_activity,
    first_seen,
    total_balance,
    unjudged,           \* holders that the loops have not come to
    malicious_supply,
    categories,         \* of suspicious wallets, with the supply they hold
    report              \* what the metrics return, or NoReport

fields == <<transactions, current_holders, address_activity, first_seen, total_balance>>
vars == <<fields, unjudged, malicious_supply, categories, report>>

Categories == {"insider_snipers", "cluster_bots", "rapid_sellers", "suspicious_whales",
               "coordinated_actors"}

BotTypes == {"MICRO_BOT", "SYNCHRONIZED_BOT", "MINNOW_BOT", "WHALE_BOT", "MEGA_WHALE_BOT",
             "WASH_TRADING_BOT"}

Holders == {a \in Addresses : current_holders[a] > 0}

-------------------------------------------------------------------------------
(* share > x and share >= x, with x > 0 in hundredths of a percent         *)
ShareOver(a, x) == current_holders[a] * 10000 > x * total_balance
ShareFrom(a, x) == current_holders[a] > 0 /\ current_holders[a] * 10000 >= x * total_balance

(* minutes_after_start < m; it is 999 for an address without a time.       *)
Within(a, m) == first_seen[a] # 0 /\ Creation # 0 /\ first_seen[a] - Creation < 60 * m

Near(a, b, seconds) ==
    first_seen[a] - first_seen[b] < seconds /\ first_seen[b] - first_seen[a] < seconds

is_liquidity_pool(a) ==
    \/ ShareFrom(a, 300) /\ address_activity[a] > 10
    \/ address_activity[a] > 1000

(* A balance before a transaction of the first five minutes.               *)
IsRapidSeller(a) ==
    \E i \in DOMAIN transactions :
        transactions[i].time \in 1..(Creation + 300) /\ a \in transactions[i].pre

(* Three others, holders or not, were first seen less than a minute away.  *)
IsInCluster(a) ==
    /\ first_seen[a] # 0
    /\ ~is_liquidity_pool(a)
    /\ Cardinality({b \in Addresses \ {a} : Near(a, b, 60) /\ ~is_liquidity_pool(b)}) >= 3

(* Three of its transactions lie within less than ten seconds.             *)
IsCoordinated(a) ==
    LET mine == {i \in DOMAIN transactions : transactions[i].time # 0 /\ a \in transactions[i].keys}
    IN  /\ ~is_liquidity_pool(a)
        /\ \E i \in mine :
               Cardinality({j \in mine : transactions[j].time - transactions[i].time \in 0..9}) >= 3

(* Mutant: a market maker is not looked for in clusters.                   *)
ClusteredMarketMaker(a) ==
    /\ ~Within(a, 5)
    /\ ~IsRapidSeller(a)
    /\ ~ShareFrom(a, 50)
    /\ address_activity[a] > 30

IsMarketMaker(a) ==
    /\ ~Within(a, 5)
    /\ ~IsRapidSeller(a)
    /\ ~IsInCluster(a)
    /\ ~ShareFrom(a, 50)
    /\ address_activity[a] > 30

(* get_malicious_supply_index                                              *)
IsMalicious(a) ==
    /\ ~is_liquidity_pool(a)
    /\ ~IsMarketMaker(a)
    /\ \/ Within(a, 5) /\ ShareOver(a, 8)
       \/ IsRapidSeller(a)
       \/ IsInCluster(a)
       \/ ShareOver(a, 30) /\ address_activity[a] < 20 /\ Within(a, 30)
       \/ IsCoordinated(a)

(* Mutant: a whale is only suspicious in the first quarter of an hour.     *)
NarrowCategory(a) ==
    IF is_liquidity_pool(a) THEN "none"
    ELSE IF Within(a, 5) /\ ShareOver(a, 5) THEN "insider_snipers"
    ELSE IF IsRapidSeller(a) THEN "rapid_sellers"
    ELSE IF IsInCluster(a) THEN "cluster_bots"
    ELSE IF ShareOver(a, 30) /\ address_activity[a] < 20 /\ Within(a, 15) THEN "suspicious_whales"
    ELSE IF IsCoordinated(a) THEN "coordinated_actors"
    ELSE "none"

(* calculate_suspicious_supply_index: the first category that applies.     *)
Category(a) ==
    IF is_liquidity_pool(a) THEN "none"
    ELSE IF Within(a, 5) /\ ShareOver(a, 5) THEN "insider_snipers"
    ELSE IF IsRapidSeller(a) THEN "rapid_sellers"
    ELSE IF IsInCluster(a) THEN "cluster_bots"
    ELSE IF ShareOver(a, 30) /\ address_activity[a] < 20 /\ Within(a, 60) THEN "suspicious_whales"
    ELSE IF IsCoordinated(a) THEN "coordinated_actors"
    ELSE "none"

(* classify_bots; the `other_share` of the code is a balance, and addresses *)
(* without a time are near to each other.  The code compares with the      *)
(* first hundred holders only: this is a token with no more of them.       *)
IsSynchronized(a) == \E b \in Holders \ {a} : Near(a, b, 300)

BotType(a) ==
    IF is_liquidity_pool(a) THEN "none"
    ELSE IF ~ShareFrom(a, 5) /\ address_activity[a] > 30 THEN "MICRO_BOT"
    ELSE IF ~ShareFrom(a, 10) /\ address_activity[a] > 10
         THEN IF IsSynchronized(a) THEN "SYNCHRONIZED_BOT" ELSE "none"
    ELSE IF ShareOver(a, 20) /\ address_activity[a] < 30
         THEN IF ~Within(a, 30) THEN "none"
              ELSE IF ShareOver(a, 300) THEN "MEGA_WHALE_BOT"
              ELSE IF ShareOver(a, 100) THEN "WHALE_BOT" ELSE "MINNOW_BOT"
    ELSE IF ~ShareFrom(a, 100) /\ address_activity[a] > 100 THEN "WASH_TRADING_BOT"
    ELSE "none"

-------------------------------------------------------------------------------
(* The metrics of all holders, in shares of total_balance, which is not 0. *)
Supply(S) == SumFunctionOnSet(current_holders, S)

(* The level of a supply of at least c, h or m percent, from 3, CRITICAL,  *)
(* to 0, LOW.                                                              *)
Level(supply, c, h, m) ==
    IF supply * 100 >= c * total_balance THEN 3
    ELSE IF supply * 100 >= h * total_balance THEN 2
    ELSE IF supply * 100 >= m * total_balance THEN 1 ELSE 0

MaliciousLevel == Level(malicious_supply, 30, 15, 5)

suspicious_supply ==
    categories["insider_snipers"] + categories["cluster_bots"] + categories["rapid_sellers"]
        + categories["suspicious_whales"] + categories["coordinated_actors"]

SuspiciousLevel == Level(suspicious_supply, 20, 10, 5)

(* get_top_holders_full                                                    *)
HolderType(a) ==
    IF is_liquidity_pool(a) THEN "POOL"
    ELSE IF ShareOver(a, 500) THEN "WHALE"
    ELSE IF ShareOver(a, 100) THEN "LARGE" ELSE "holder"

(* get_anti_fragmentation: holders with the same prefix but one, and half  *)
(* of the addresses, holders or not, first seen in the same five minutes.  *)
ArtificialCount ==
    LET groups == {{a \in Holders : Prefix[a] = p} : p \in {Prefix[a] : a \in Holders}}
        seen == {a \in Addresses : first_seen[a] # 0}
        windows == {{a \in seen : first_seen[a] \div 300 = w} : w \in {first_seen[a] \div 300 : a \in seen}}
    IN  MapThenSumSet(LAMBDA g : Cardinality(g) - 1, {g \in groups : Cardinality(g) >= 3})
            + MapThenSumSet(LAMBDA w : Cardinality(w) \div 2, {w \in windows : Cardinality(w) >= 5})

RealHolders == Max({1, Cardinality(Holders) - ArtificialCount})

(* get_quick_summary: tiny holders, first addresses and pools.             *)
QuickCounts ==
    [bots |-> Cardinality({a \in Holders : ~ShareFrom(a, 5)}),
     insiders |-> Cardinality({a \in Addresses : Within(a, 5)}),
     pools |-> Cardinality({a \in Holders : is_liquidity_pool(a)})]

BotsOf(type) == {a \in Holders : BotType(a) = type}

(* The score of classify_bots: weights of the shares, in half percents, and *)
(* a tenth of the number of micro bots.                                    *)
BotRisk ==
    LET weighted == 6 * Supply(BotsOf("MEGA_WHALE_BOT")) + 4 * Supply(BotsOf("WHALE_BOT"))
                        + 2 * Supply(BotsOf("MINNOW_BOT")) + 2 * Supply(BotsOf("SYNCHRONIZED_BOT"))
                        + Supply(BotsOf("WASH_TRADING_BOT"))
        micro == Min({150, Cardinality(BotsOf("MICRO_BOT"))})
    IN  Min({100, (weighted * 500 + micro * total_balance) \div (10 * total_balance)})

(* get_bot_risk_summary                                                    *)
BotThreat ==
    LET bot == UNION {BotsOf(type) : type \in BotTypes}
        control(p) == Supply(bot) * 100 >= p * total_balance
        steps == {<<30, 70>>, <<20, 50>>, <<15, 40>>, <<10, 30>>, <<5, 20>>}
        scores == {s[2] : s \in {t \in steps : control(t[1])}}
    IN  IF scores # {} THEN Max(scores)
        ELSE IF Cardinality(bot) > 50 THEN 15
        ELSE IF Cardinality(bot) > 20 THEN 10 ELSE 0

-------------------------------------------------------------------------------
(* get_bot_clusters: candidates that were first seen in the same minute,   *)
(* if they are large, or in the same five minutes.                         *)
IsCandidate(a) ==
    /\ ~is_liquidity_pool(a)
    /\ \/ ~ShareFrom(a, 5) /\ address_activity[a] > 20
       \/ ~ShareFrom(a, 15) /\ address_activity[a] > 10
       \/ ShareOver(a, 20) /\ address_activity[a] < 30 /\ Within(a, 30)

Interval(a) == first_seen[a] \div (IF ShareOver(a, 20) THEN 60 ELSE 300)

BotClusters ==
    LET candidates == {a \in Holders : IsCandidate(a) /\ first_seen[a] # 0}
        groups == {{a \in candidates : Interval(a) = i} : i \in {Interval(a) : a \in candidates}}
    IN  {g \in groups : Cardinality(g) >= IF \E a \in g : ShareOver(a, 20) THEN 3 ELSE 5}

(* _identify_pools: large and busy holders, and every account of a         *)
(* transaction of a pool program.                                          *)
Pools ==
    {a \in Holders : ShareFrom(a, 300) /\ address_activity[a] > 50}
        \union UNION {transactions[i].keys : i \in {j \in DOMAIN transactions : transactions[j].program}}

(* At least three small addresses that end with tokens in the same ten     *)
(* seconds, each in a transaction with a pool.                             *)
SynchronousBuyers ==
    LET pooled == {i \in DOMAIN transactions :
                       /\ transactions[i].time # 0
                       /\ transactions[i].program \/ transactions[i].keys \intersect Pools # {}}
        buyers(w) == {a \in Addresses \ Pools :
                          /\ ~ShareFrom(a, 15)
                          /\ \E i \in pooled : transactions[i].time \div 10 = w /\ a \in transactions[i].post}
        windows == {transactions[i].time \div 10 : i \in pooled}
    IN  UNION {buyers(w) : w \in {v \in windows : Cardinality(buyers(v)) >= 3}}

ClusterRisk ==
    Min({35, 5 * Cardinality(BotClusters) + Cardinality(SynchronousBuyers) \div 20
                 + (Supply(UNION BotClusters) * 50) \div total_balance})

-------------------------------------------------------------------------------
NoReport == [made |-> FALSE]

Init ==
    /\ transactions \in Histories
    /\ current_holders = [a \in Addresses |-> 0]
    /\ address_activity = [a \in Addresses |-> 0]
    /\ first_seen = [a \in Addresses |-> 0]
    /\ total_balance = 0
    /\ unjudged = {}
    /\ malicious_supply = 0
    /\ categories = [c \in Categories |-> 0]
    /\ report = NoReport

(* The fields hold an address.                                             *)
Enter(a) ==
    /\ unjudged = Holders /\ report = NoReport
    /\ current_holders[a] = 0 /\ address_activity[a] = 0 /\ first_seen[a] = 0
    /\ \E p \in Profiles :
           /\ current_holders' = [current_holders EXCEPT ![a] = p.balance]
           /\ address_activity' = [address_activity EXCEPT ![a] = p.count]
           /\ first_seen' = [first_seen EXCEPT ![a] = p.first]
           /\ total_balance' = total_balance + p.balance
           /\ unjudged' = IF p.balance > 0 THEN unjudged \union {a} ELSE unjudged
    /\ UNCHANGED <<transactions, malicious_supply, categories, report>>

(* The loops over current_holders come to a holder.                        *)
Judge(a) ==
    /\ a \in unjudged
    /\ unjudged' = unjudged \ {a}
    /\ malicious_supply' = IF IsMalicious(a) THEN malicious_supply + current_holders[a]
                                             ELSE malicious_supply
    /\ categories' = [c \in Categories |->
           IF c = Category(a) THEN categories[c] + current_holders[a] ELSE categories[c]]
    /\ UNCHANGED <<fields, report>>

(* They are through, and the metrics return.                               *)
Report ==
    /\ unjudged = {} /\ Holders # {} /\ report = NoReport
    /\ report' = [made |-> TRUE,
                  malicious |-> MaliciousLevel, suspicious |-> SuspiciousLevel,
                  makers |-> Supply({a \in Holders : IsMarketMaker(a)}),
                  holders |-> [a \in Holders |-> HolderType(a)],
                  artificial |-> ArtificialCount, real |-> RealHolders, quick |-> QuickCounts,
                  bots |-> BotRisk, threat |-> BotThreat, clusters |-> ClusterRisk]
    /\ UNCHANGED <<fields, unjudged, malicious_supply, categories>>

Next == Report \/ \E a \in Addresses : Enter(a) \/ Judge(a)

Spec == Init /\ [][Next]_vars

-------------------------------------------------------------------------------
(* A market maker, whose balance lowers the risk score, is none of the     *)
(* suspicious wallets, unless its transactions are coordinated; and a whale *)
(* that classify_bots takes for a bot is suspicious, unless it trades more. *)
JudgementsAgree ==
    \A a \in Holders :
        /\ IsMarketMaker(a) => Category(a) \in {"none", "coordinated_actors"}
        /\ BotType(a) \in {"WHALE_BOT", "MEGA_WHALE_BOT"} /\ address_activity[a] < 20
               => Category(a) # "none"

(* The two indexes of the same wallets, with thresholds of their own:      *)
(* malicious supply is suspicious, and its level is never the higher one.  *)
MaliciousIsSuspicious ==
    /\ malicious_supply <= suspicious_supply
    /\ report.made => report.malicious <= report.suspicious
===============================================================================
