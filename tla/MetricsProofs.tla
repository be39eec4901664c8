----------------------------- MODULE MetricsProofs -----------------------------
(***************************************************************************)
(* Proofs about the metrics of MCMetrics: the two scores, for any ratios;  *)
(* the judgements of the holders, for any profiles and histories.          *)
(***************************************************************************)
EXTENDS MCMetrics, SequenceTheorems, FiniteSetTheorems, TLAPS

(***************************************************************************)
(* The scores.                                                             *)
(***************************************************************************)

(* The smaller and the larger of two numbers.                              *)
LEMMA OfTwo ==
    ASSUME NEW a \in Int, NEW b \in Int
    PROVE  /\ Scores!Min({a, b}) = IF a <= b THEN a ELSE b
           /\ Scores!Max({a, b}) = IF a >= b THEN a ELSE b
  BY DEF Scores!Min, Scores!Max

(* Until the bonus, the anomalies add up to the score, which is at least   *)
(* what the malicious supply adds once it did.                             *)
ScoreInv ==
    /\ stage \in 0..Scores!Scored
    /\ stage \in 1..10 =>
           /\ risk_score \in Nat /\ explained = risk_score /\ malicious \in 0..100
           /\ stage > 7 => risk_score >= 10 * Scores!MaliciousPoints(malicious)
    /\ Scores!BonusCostsOneLevel

LEMMA InitScoreInv == Scores!Init => ScoreInv
  BY DEF Scores!Init, ScoreInv, Scores!Scored, Scores!Parts, Scores!BonusCostsOneLevel,
         Scores!Finished, Scores!MaliciousPoints

LEMMA AddPartInv == ASSUME ScoreInv, Scores!AddPart PROVE ScoreInv'
<1>1. Scores!Parts[stage] # "malicious" /\ Scores!Parts[stage] # "makers" /\ stage \in 1..10
  BY DEF Scores!AddPart, Scores!Parts, Scores!Points
<1>2. stage \in 1..10 /\ stage # 7 /\ stage # 10 /\ stage' = stage + 1 /\ malicious' = malicious
  BY <1>1 DEF Scores!AddPart, Scores!Parts
<1>3. PICK points \in Nat : Scores!Add(points)
  <2>1. PICK points \in Scores!Points[Scores!Parts[stage]] : Scores!Add(points)
    BY DEF Scores!AddPart
  <2>2. points \in Nat
    BY <2>1 DEF Scores!AddPart, Scores!Points
  <2> QED BY <2>1, <2>2
<1>4. /\ risk_score \in Nat /\ explained = risk_score /\ malicious \in 0..100
      /\ stage > 7 => risk_score >= 10 * Scores!MaliciousPoints(malicious)
  BY <1>2 DEF ScoreInv
<1>5. risk_score' = risk_score + 10 * points /\ explained' = risk_score'
  BY <1>3, <1>4 DEF Scores!Add
<1>6. Scores!MaliciousPoints(malicious) \in Nat
  BY DEF Scores!MaliciousPoints
<1>7. stage' \in 1..10 /\ (stage' > 7 => stage > 7)
      /\ risk_score' \in Nat /\ risk_score' >= risk_score
  BY <1>2, <1>3, <1>4, <1>5
<1>8. stage' > 7 => risk_score' >= 10 * Scores!MaliciousPoints(malicious')
  BY <1>2, <1>4, <1>6, <1>7
<1> QED BY <1>2, <1>4, <1>5, <1>7, <1>8
        DEF ScoreInv, Scores!Scored, Scores!Parts, Scores!BonusCostsOneLevel, Scores!Finished

LEMMA AddMaliciousInv == ASSUME ScoreInv, Scores!AddMalicious PROVE ScoreInv'
<1>1. stage = 7 /\ stage' = 8
  BY DEF Scores!AddMalicious, Scores!Parts
<1>2. PICK percent \in Percents :
          /\ Scores!Add(Scores!MaliciousPoints(percent))
          /\ malicious' = percent
  BY DEF Scores!AddMalicious
<1>3. risk_score \in Nat /\ explained = risk_score /\ percent \in 0..100
  BY <1>1, PercentsAssumption DEF ScoreInv, Scores!ScoresAssumption
<1>4. Scores!MaliciousPoints(percent) \in Nat
  BY DEF Scores!MaliciousPoints
<1>5. /\ risk_score' \in Nat /\ explained' = risk_score'
      /\ risk_score' >= 10 * Scores!MaliciousPoints(percent)
  BY <1>2, <1>3, <1>4 DEF Scores!Add
<1> QED BY <1>1, <1>2, <1>3, <1>5
        DEF ScoreInv, Scores!Scored, Scores!Parts, Scores!BonusCostsOneLevel, Scores!Finished

(* The bonus is 15 points at most; a level is worth as much, or more.      *)
LEMMA FinishInv == ASSUME ScoreInv, Scores!Finish PROVE ScoreInv'
<1>1. stage = 10 /\ stage' = 11 /\ malicious' = malicious
  BY DEF Scores!Finish, Scores!Parts
<1> DEFINE bonus(p) == Scores!Bonus(p)
           left(p) == Scores!Max({0, risk_score - bonus(p)})
<1>2. PICK percent \in Percents :
          /\ risk_score' = Scores!Min({left(percent), 1000})
          /\ explained' = explained - 10 * (bonus(percent) \div 10)
          /\ level' = Scores!RiskLevel(risk_score')
  BY DEF Scores!Finish
<1>3. /\ risk_score \in Nat /\ explained = risk_score /\ malicious \in 0..100
      /\ risk_score >= 10 * Scores!MaliciousPoints(malicious) /\ percent \in 0..100
  BY <1>1, PercentsAssumption DEF ScoreInv, Scores!ScoresAssumption
<1>4. bonus(percent) \in 0..150
  BY <1>3, OfTwo DEF Scores!Bonus
<1> HIDE DEF bonus
<1>5. left(percent) = IF 0 >= risk_score - bonus(percent) THEN 0 ELSE risk_score - bonus(percent)
  <2>1. risk_score - bonus(percent) \in Int /\ 0 \in Int
    BY <1>3, <1>4
  <2> QED BY <2>1, OfTwo
<1>6. /\ left(percent) \in Nat /\ left(percent) >= risk_score - bonus(percent)
      /\ left(percent) > 0 => left(percent) = risk_score - bonus(percent)
  BY <1>3, <1>4, <1>5
<1> HIDE DEF left
<1>7. risk_score' = IF left(percent) <= 1000 THEN left(percent) ELSE 1000
  BY <1>2, <1>6, OfTwo
<1>8. CASE left(percent) <= 1000
  <2>1. risk_score' = left(percent)
    BY <1>7, <1>8
  <2>2. level' >= Scores!MaliciousLevel - 1
    BY <1>2, <1>3, <1>4, <1>6, <2>1
       DEF Scores!MaliciousLevel, Scores!MaliciousPoints, Scores!RiskLevel
  <2>3. risk_score' \in 1..999 => explained' - risk_score' \in 0..9
    BY <1>2, <1>3, <1>4, <1>6, <2>1
  <2> QED BY <1>1, <2>2, <2>3 DEF ScoreInv, Scores!Scored, Scores!Parts,
          Scores!BonusCostsOneLevel, Scores!Finished, Scores!MaliciousLevel
<1>9. CASE left(percent) > 1000
  <2>1. risk_score' = 1000 /\ level' = 3
    BY <1>2, <1>6, <1>7, <1>9 DEF Scores!RiskLevel
  <2>2. level' >= Scores!MaliciousLevel - 1
    BY <2>1 DEF Scores!MaliciousLevel
  <2> QED BY <1>1, <2>1, <2>2 DEF ScoreInv, Scores!Scored, Scores!Parts,
          Scores!BonusCostsOneLevel, Scores!Finished, Scores!MaliciousLevel
<1> QED BY <1>6, <1>8, <1>9

LEMMA NextScoreInv == ScoreInv /\ [Scores!Next]_(Scores!vars) => ScoreInv'
<1> SUFFICES ASSUME ScoreInv, [Scores!Next]_(Scores!vars) PROVE ScoreInv'
  OBVIOUS
<1>1. CASE Scores!Revolutionary
  <2>1. stage' = 12
    BY <1>1 DEF Scores!Revolutionary, Scores!Scored, Scores!Parts
  <2> QED BY <2>1 DEF ScoreInv, Scores!Scored, Scores!Parts, Scores!BonusCostsOneLevel,
                      Scores!Finished
<1>2. CASE UNCHANGED Scores!vars
  BY <1>2 DEF Scores!vars, ScoreInv, Scores!BonusCostsOneLevel, Scores!Finished,
              Scores!MaliciousLevel
<1> QED BY <1>1, <1>2, AddPartInv, AddMaliciousInv, FinishInv DEF Scores!Next

(***************************************************************************)
(* The judgements of the holders.                                          *)
(***************************************************************************)

FieldTypes ==
    /\ current_holders \in [Addresses -> Nat]
    /\ address_activity \in [Addresses -> Nat]
    /\ first_seen \in [Addresses -> Nat]
    /\ total_balance \in Nat

(* Whatever the holders of the two indexes, more is suspicious.            *)
WalletInv ==
    /\ FieldTypes
    /\ unjudged \subseteq Addresses
    /\ malicious_supply \in Nat
    /\ categories \in [Categories -> Nat]
    /\ MaliciousIsSuspicious

(* The same share at a lower bar, and the same time at a later one.        *)
LEMMA LowerBar ==
    ASSUME FieldTypes, NEW a \in Addresses
    PROVE  /\ ShareOver(a, 8) => ShareOver(a, 5)
           /\ ShareOver(a, 100) => ShareOver(a, 30)
           /\ ShareOver(a, 300) => ShareOver(a, 30)
           /\ Within(a, 30) => Within(a, 60)
<1>1. current_holders[a] \in Nat /\ first_seen[a] \in Nat
      /\ total_balance \in Nat /\ Creation \in Nat
  BY WalletAssumption DEF FieldTypes
<1>2. (ShareOver(a, 8) => ShareOver(a, 5)) /\ (ShareOver(a, 100) => ShareOver(a, 30))
      /\ (ShareOver(a, 300) => ShareOver(a, 30))
  BY <1>1 DEF ShareOver
<1>3. Within(a, 30) => Within(a, 60)
  BY <1>1 DEF Within
<1> QED BY <1>2, <1>3

(* The two indexes judge by the same signs, at bars of their own.          *)
LEMMA MaliciousHasCategory ==
    ASSUME FieldTypes, NEW a \in Addresses, IsMalicious(a)
    PROVE  Category(a) \in Categories
  BY LowerBar DEF IsMalicious, Category, Categories

LEMMA HolderJudgementsAgree == FieldTypes => JudgementsAgree
<1> SUFFICES ASSUME FieldTypes, NEW a \in Holders
             PROVE  /\ IsMarketMaker(a) => Category(a) \in {"none", "coordinated_actors"}
                    /\ BotType(a) \in {"WHALE_BOT", "MEGA_WHALE_BOT"} /\ address_activity[a] < 20
                           => Category(a) # "none"
  BY DEF JudgementsAgree
<1>1. a \in Addresses /\ address_activity[a] \in Nat
  BY DEF Holders, FieldTypes
<1>2. IsMarketMaker(a) => Category(a) \in {"none", "coordinated_actors"}
  BY <1>1 DEF IsMarketMaker, Category
<1>3. ASSUME BotType(a) \in {"WHALE_BOT", "MEGA_WHALE_BOT"}, address_activity[a] < 20
      PROVE  Category(a) # "none"
  <2>1. ~is_liquidity_pool(a) /\ Within(a, 30) /\ (ShareOver(a, 100) \/ ShareOver(a, 300))
    BY <1>3 DEF BotType
  <2> QED BY <1>1, <1>3, <2>1, LowerBar DEF Category
<1> QED BY <1>2, <1>3

LEMMA InitWalletInv == Init => WalletInv
<1> SUFFICES ASSUME Init PROVE WalletInv
  OBVIOUS
<1>1. FieldTypes /\ unjudged \subseteq Addresses /\ malicious_supply \in Nat
      /\ categories \in [Categories -> Nat]
  BY DEF Init, FieldTypes
<1>2. suspicious_supply = 0
  BY DEF Init, suspicious_supply, Categories
<1> QED BY <1>1, <1>2 DEF Init, NoReport, WalletInv, MaliciousIsSuspicious

LEMMA EnterInv == ASSUME WalletInv, NEW a \in Addresses, Enter(a) PROVE WalletInv'
<1>1. PICK p \in Profiles :
          /\ current_holders' = [current_holders EXCEPT ![a] = p.balance]
          /\ address_activity' = [address_activity EXCEPT ![a] = p.count]
          /\ first_seen' = [first_seen EXCEPT ![a] = p.first]
          /\ total_balance' = total_balance + p.balance
          /\ unjudged' = IF p.balance > 0 THEN unjudged \union {a} ELSE unjudged
  BY DEF Enter
<1>2. p.balance \in Nat /\ p.count \in Nat /\ p.first \in Nat
  BY WalletAssumption
<1>3. FieldTypes' /\ unjudged' \subseteq Addresses
  BY <1>1, <1>2 DEF WalletInv, FieldTypes
<1>4. /\ malicious_supply' = malicious_supply /\ categories' = categories
      /\ report' = report
  BY DEF Enter
<1>5. suspicious_supply' = suspicious_supply
  BY <1>4 DEF suspicious_supply
<1> QED BY <1>3, <1>4, <1>5 DEF WalletInv, MaliciousIsSuspicious

LEMMA JudgeInv == ASSUME WalletInv, NEW a \in Addresses, Judge(a) PROVE WalletInv'
<1> DEFINE balance == current_holders[a]
<1>1. /\ balance \in Nat /\ malicious_supply \in Nat /\ categories \in [Categories -> Nat]
      /\ malicious_supply <= suspicious_supply
  BY DEF WalletInv, FieldTypes, MaliciousIsSuspicious
<1>2. FieldTypes' /\ unjudged' \subseteq Addresses /\ report' = report
  BY DEF Judge, fields, WalletInv, FieldTypes
<1> HIDE DEF balance
<1>3. categories' \in [Categories -> Nat] /\ malicious_supply' \in Nat
  BY <1>1 DEF Judge, balance
<1>4. Category(a) \in Categories => suspicious_supply' = suspicious_supply + balance
  BY <1>1, <1>3 DEF Judge, suspicious_supply, Categories, balance
<1>5. Category(a) \notin Categories => suspicious_supply' = suspicious_supply
  BY <1>1, <1>3 DEF Judge, suspicious_supply, Categories
<1>6. IsMalicious(a) => Category(a) \in Categories
  BY MaliciousHasCategory DEF WalletInv
<1>7. malicious_supply' = IF IsMalicious(a) THEN malicious_supply + balance ELSE malicious_supply
  BY DEF Judge, balance
<1>8. suspicious_supply \in Nat
  BY <1>1 DEF suspicious_supply, Categories
<1>9. malicious_supply' <= suspicious_supply'
  BY <1>1, <1>4, <1>5, <1>6, <1>7, <1>8
<1> QED BY <1>2, <1>3, <1>9 DEF WalletInv, MaliciousIsSuspicious

LEMMA ReportInv == ASSUME WalletInv, Report PROVE WalletInv'
<1>1. /\ malicious_supply \in Nat /\ total_balance \in Nat /\ malicious_supply <= suspicious_supply
      /\ suspicious_supply \in Nat
  BY DEF WalletInv, FieldTypes, MaliciousIsSuspicious, suspicious_supply, Categories
<1>2. MaliciousLevel <= SuspiciousLevel
  BY <1>1 DEF MaliciousLevel, SuspiciousLevel, Level
<1>3. report'.malicious = MaliciousLevel /\ report'.suspicious = SuspiciousLevel
  BY DEF Report
<1>4. /\ UNCHANGED <<current_holders, address_activity, first_seen, total_balance>>
      /\ UNCHANGED <<unjudged, malicious_supply, categories>>
  BY DEF Report, fields
<1>5. suspicious_supply' = suspicious_supply
  BY <1>4 DEF suspicious_supply
<1> QED BY <1>1, <1>2, <1>3, <1>4, <1>5 DEF WalletInv, FieldTypes, MaliciousIsSuspicious

LEMMA NextWalletInv == WalletInv /\ [Next]_vars => WalletInv'
<1> SUFFICES ASSUME WalletInv, [Next]_vars PROVE WalletInv'
  OBVIOUS
<1>1. CASE UNCHANGED vars
  BY <1>1 DEF vars, fields, WalletInv, FieldTypes, MaliciousIsSuspicious, suspicious_supply
<1> QED BY <1>1, EnterInv, JudgeInv, ReportInv DEF Next

(***************************************************************************)
(* The fields that are parsed from the transactions.                       *)
(***************************************************************************)

Balances == UNION {[D -> Nat] : D \in SUBSET Owners}
TradeType == [time : Nat, keys : Seq(Patterns!Accounts), pre : Balances, post : Balances]

(* The transactions that have been parsed.                                 *)
Done == {i \in DOMAIN trades : i <= parsed}

ParseTypes ==
    /\ ledger \in [TokenAccounts -> Nat] /\ shown \subseteq TokenAccounts /\ clock \in Nat
    /\ trades \in Seq(TradeType)
    /\ parsed \in -1..(Len(trades) + 1)
    /\ holders \in [Owners -> Nat]
    /\ activity \in [Patterns!Accounts -> Nat]
    /\ seen \in [Patterns!Accounts -> Nat]

(* What an account has whose last transaction is received, a transaction   *)
(* says of its owner, in whatever order they are listed.                   *)
LedgerInv ==
    \A w \in shown : \E j \in DOMAIN trades :
        OwnerOf[w] \in DOMAIN trades[j].post /\ trades[j].post[OwnerOf[w]] = ledger[w]

(* The largest balance and the earliest time of those that are parsed.     *)
PeakInv ==
    \A o \in Owners, i \in Done : o \in DOMAIN trades[i].post => holders[o] >= trades[i].post[o]

SeenInv ==
    \A o \in Owners :
        /\ activity[o] = 0 => \A i \in Done : ~Patterns!Names(trades[i], o)
        /\ seen[o] # 0 =>
               /\ \E i \in Done : Patterns!Names(trades[i], o) /\ trades[i].time = seen[o]
               /\ \A i \in Done : Patterns!Names(trades[i], o) =>
                      trades[i].time = 0 \/ trades[i].time >= seen[o]

ParseInv == ParseTypes /\ LedgerInv /\ PeakInv /\ SeenInv

LEMMA InitParseInv == Patterns!InitParsing => ParseInv
<1> SUFFICES ASSUME Patterns!InitParsing PROVE ParseInv
  OBVIOUS
<1> USE PatternsAssumption DEF Patterns!InitParsing, Patterns!ParsingAssumption
<1>1. trades = <<>> /\ Len(trades) = 0 /\ DOMAIN trades = {} /\ trades \in Seq(TradeType)
  OBVIOUS
<1>2. ParseTypes
  <2>1. /\ ledger \in [TokenAccounts -> Nat] /\ shown = {} /\ clock \in Nat
        /\ parsed \in -1..(Len(trades) + 1)
    BY <1>1
  <2> QED BY <1>1, <2>1 DEF ParseTypes, Patterns!Zero
<1>3. Done = {}
  BY <1>1 DEF Done
<1>4. \A o \in Owners : seen[o] = 0
  BY DEF Patterns!Zero, Patterns!Accounts
<1> QED BY <1>1, <1>2, <1>3, <1>4 DEF ParseInv, LedgerInv, PeakInv, SeenInv

(* Token accounts of different owners, listed by these.                    *)
LEMMA ListedByOwner ==
    ASSUME NEW W \in SUBSET TokenAccounts, NEW amounts \in [TokenAccounts -> Nat],
           \A v, w \in W : OwnerOf[v] = OwnerOf[w] => v = w
    PROVE  LET list == Patterns!ByOwner(W, amounts)
           IN  /\ list \in Balances
               /\ \A w \in W : OwnerOf[w] \in DOMAIN list /\ list[OwnerOf[w]] = amounts[w]
<1> DEFINE D == {OwnerOf[w] : w \in W}
           of(o) == CHOOSE w \in W : OwnerOf[w] = o
<1>1. Patterns!ByOwner(W, amounts) = [o \in D |-> amounts[of(o)]]
  BY DEF Patterns!ByOwner
<1>2. \A w \in W : of(OwnerOf[w]) = w
  OBVIOUS
<1>3. \A o \in D : of(o) \in W /\ amounts[of(o)] \in Nat
  BY <1>2
<1>4. D \in SUBSET Owners
  BY PatternsAssumption DEF Patterns!ParsingAssumption
<1> HIDE DEF D, of
<1>5. Patterns!ByOwner(W, amounts) \in [D -> Nat]
  BY <1>1, <1>3
<1>6. \A w \in W : OwnerOf[w] \in D
  BY DEF D
<1> QED BY <1>1, <1>2, <1>4, <1>5, <1>6 DEF Balances

(* What a transfer leaves alone, and what it makes of the ledger.          *)
LEMMA MoveKeeps ==
    ASSUME ParseInv, NEW from \in TokenAccounts, NEW to \in TokenAccounts, Patterns!Move(from, to)
    PROVE  /\ ledger' \in [TokenAccounts -> Nat]
           /\ \A w \in TokenAccounts \ {from, to} : ledger'[w] = ledger[w]
           /\ parsed = -1 /\ parsed' = -1
           /\ UNCHANGED <<holders, activity, seen>>
<1>1. /\ ledger' = [ledger EXCEPT ![from] = ledger[from] - 1, ![to] = ledger[to] + 1]
      /\ ledger \in [TokenAccounts -> Nat] /\ ledger[from] > 0 /\ from # to
  BY DEF Patterns!Move, ParseInv, ParseTypes
<1> QED BY <1>1 DEF Patterns!Move, Patterns!balances, Patterns!seen

(* The transaction that a trade appends.                                   *)
LEMMA TradeInv ==
    ASSUME ParseInv, NEW from \in TokenAccounts, NEW to \in TokenAccounts, Patterns!Trade(from, to)
    PROVE  ParseInv'
<1> DEFINE pre == Patterns!ByOwner({w \in {from, to} : ledger[w] > 0}, ledger)
           post == Patterns!ByOwner({from, to}, ledger')
           of(gap, keys) == [time |-> IF gap = 0 THEN 0 ELSE clock + gap, keys |-> keys,
                             pre |-> pre, post |-> post]
<1>1. PICK gap \in Gaps \union {0}, keys \in SomeKeys(OwnerOf[from], OwnerOf[to]) :
          trades' = Append(trades, of(gap, keys)) /\ clock' = clock + gap
  BY DEF Patterns!Trade
<1> DEFINE t == of(gap, keys)
<1>2. /\ Patterns!Move(from, to) /\ shown' = shown \union {from, to}
      /\ OwnerOf[from] # OwnerOf[to]
  BY DEF Patterns!Trade, Patterns!Move
<1>3. /\ ledger' \in [TokenAccounts -> Nat] /\ ledger \in [TokenAccounts -> Nat]
      /\ \A w \in TokenAccounts \ {from, to} : ledger'[w] = ledger[w]
      /\ parsed = -1 /\ parsed' = -1
      /\ UNCHANGED <<holders, activity, seen>>
  BY <1>2, MoveKeeps DEF ParseInv, ParseTypes
<1>4. pre \in Balances
  <2> DEFINE W == {w \in {from, to} : ledger[w] > 0}
  <2>1. W \in SUBSET TokenAccounts /\ \A v, w \in W : OwnerOf[v] = OwnerOf[w] => v = w
    BY <1>2
  <2> HIDE DEF W
  <2>2. Patterns!ByOwner(W, ledger) \in Balances
    BY <1>3, <2>1, ListedByOwner
  <2> QED BY <2>2 DEF W
<1>5. /\ post \in Balances
      /\ \A w \in {from, to} : OwnerOf[w] \in DOMAIN post /\ post[OwnerOf[w]] = ledger'[w]
  <2> DEFINE W == {from, to}
             amounts == ledger'
  <2>1. W \in SUBSET TokenAccounts /\ \A v, w \in W : OwnerOf[v] = OwnerOf[w] => v = w
    BY <1>2
  <2>2. amounts \in [TokenAccounts -> Nat]
    BY <1>3
  <2> HIDE DEF W, amounts
  <2>3. LET list == Patterns!ByOwner(W, amounts)
        IN  /\ list \in Balances
            /\ \A w \in W : OwnerOf[w] \in DOMAIN list /\ list[OwnerOf[w]] = amounts[w]
    BY <2>1, <2>2, ListedByOwner
  <2> QED BY <2>3 DEF W, amounts
<1> HIDE DEF pre, post
<1>6. t \in TradeType
  <2>1. (IF gap = 0 THEN 0 ELSE clock + gap) \in Nat
    BY PatternsAssumption DEF Patterns!ParsingAssumption, ParseInv, ParseTypes
  <2>2. keys \in Seq(Patterns!Accounts)
    <3> DEFINE a == OwnerOf[from]
               b == OwnerOf[to]
    <3>1. a \in Patterns!Accounts /\ b \in Patterns!Accounts /\ Program \in Patterns!Accounts
      BY PatternsAssumption DEF Patterns!ParsingAssumption, Patterns!Accounts
    <3>2. keys = <<a, b>> \/ keys = <<b>> \/ keys = <<b, Program>>
      BY DEF SomeKeys
    <3> HIDE DEF a, b
    <3>3. <<a, b>> \in Seq(Patterns!Accounts)
      BY <3>1
    <3>4. <<b>> \in Seq(Patterns!Accounts)
      BY <3>1
    <3>5. <<b, Program>> \in Seq(Patterns!Accounts)
      BY <3>1
    <3> QED BY <3>2, <3>3, <3>4, <3>5
  <2> QED BY <1>4, <1>5, <2>1, <2>2 DEF TradeType
<1>7. t.post = post
  OBVIOUS
<1>8. trades' = Append(trades, t) /\ trades \in Seq(TradeType)
  BY <1>1 DEF ParseInv, ParseTypes
<1> HIDE DEF t
<1>9. /\ trades' \in Seq(TradeType) /\ Len(trades') = Len(trades) + 1
      /\ DOMAIN trades' = DOMAIN trades \union {Len(trades) + 1}
      /\ trades'[Len(trades) + 1] = t
      /\ \A i \in DOMAIN trades : trades'[i] = trades[i]
  BY <1>6, <1>8, AppendProperties, LenProperties
<1>10. ParseTypes'
  <2>1. clock' \in Nat
    BY <1>1, PatternsAssumption DEF Patterns!ParsingAssumption, ParseInv, ParseTypes
  <2>2. Len(trades) \in Nat
    BY <1>8, LenProperties
  <2>3. shown' \subseteq TokenAccounts
    BY <1>2 DEF ParseInv, ParseTypes
  <2> QED BY <1>3, <1>9, <2>1, <2>2, <2>3 DEF ParseInv, ParseTypes
<1>11. LedgerInv'
  <2> SUFFICES ASSUME NEW w \in shown'
               PROVE  \E j \in DOMAIN trades' :
                          /\ OwnerOf[w] \in DOMAIN trades'[j].post
                          /\ trades'[j].post[OwnerOf[w]] = ledger'[w]
    BY DEF LedgerInv
  <2>1. CASE w \in {from, to}
    <3>1. OwnerOf[w] \in DOMAIN t.post /\ t.post[OwnerOf[w]] = ledger'[w]
      BY <1>5, <1>7, <2>1
    <3> QED BY <1>9, <3>1
  <2>2. CASE w \notin {from, to}
    <3>1. w \in shown /\ ledger'[w] = ledger[w]
      BY <1>2, <1>3, <2>2 DEF ParseInv, ParseTypes
    <3>2. PICK j \in DOMAIN trades :
              OwnerOf[w] \in DOMAIN trades[j].post /\ trades[j].post[OwnerOf[w]] = ledger[w]
      BY <3>1 DEF ParseInv, LedgerInv
    <3> QED BY <1>9, <3>1, <3>2
  <2> QED BY <2>1, <2>2
<1>12. Done = {} /\ Done' = {}
  BY <1>3, <1>8, <1>9, LenProperties DEF Done
<1>13. PeakInv' /\ SeenInv'
  BY <1>3, <1>12 DEF ParseInv, PeakInv, SeenInv
<1> QED BY <1>10, <1>11, <1>13 DEF ParseInv

(* Of an account whose transaction is lost, nothing is said any more.      *)
LEMMA LoseInv ==
    ASSUME ParseInv, NEW from \in TokenAccounts, NEW to \in TokenAccounts, Patterns!Lose(from, to)
    PROVE  ParseInv'
<1>1. /\ Patterns!Move(from, to) /\ shown' = shown \ {from, to}
      /\ trades' = trades /\ clock' = clock
  BY DEF Patterns!Lose
<1>2. /\ ledger' \in [TokenAccounts -> Nat]
      /\ \A w \in shown' : w \in shown /\ ledger'[w] = ledger[w]
      /\ UNCHANGED <<holders, activity, seen, parsed>>
  BY <1>1, MoveKeeps DEF ParseInv, ParseTypes
<1>3. ParseTypes'
  BY <1>1, <1>2 DEF ParseInv, ParseTypes
<1>4. LedgerInv'
  BY <1>1, <1>2 DEF ParseInv, LedgerInv
<1>5. PeakInv' /\ SeenInv'
  BY <1>1, <1>2 DEF ParseInv, PeakInv, SeenInv, Done
<1> QED BY <1>3, <1>4, <1>5 DEF ParseInv

(* The transactions are turned round, or not.                              *)
LEMMA SameReverse == \A s : Patterns!Reverse(s) = [i \in 1..Len(s) |-> s[(Len(s) - i) + 1]]
  BY DEF Patterns!Reverse

LEMMA CollectedInv == ASSUME ParseInv, Patterns!Collected PROVE ParseInv'
<1>1. /\ trades \in Seq(TradeType) /\ parsed' = 0
      /\ UNCHANGED <<ledger, shown, clock>>
      /\ trades' = trades \/ trades' = [i \in 1..Len(trades) |-> trades[(Len(trades) - i) + 1]]
      /\ UNCHANGED <<holders, activity, seen>>
      /\ parsed = -1
  BY SameReverse DEF Patterns!Collected, Patterns!balances, Patterns!seen, ParseInv, ParseTypes
<1>2. Len(trades) \in Nat /\ DOMAIN trades = 1..Len(trades)
  BY <1>1, LenProperties
<1>3. trades' \in Seq(TradeType) /\ Len(trades') = Len(trades)
  <2>1. CASE trades' = trades
    BY <1>1, <2>1
  <2>2. CASE trades' = [i \in 1..Len(trades) |-> trades[(Len(trades) - i) + 1]]
    <3>1. \A i \in 1..Len(trades) : (Len(trades) - i) + 1 \in 1..Len(trades)
      BY <1>2
    <3>2. \A i \in 1..Len(trades) : trades[i] \in TradeType
      BY <1>1, <1>2, ElementOfSeq
    <3>3. trades' \in [1..Len(trades) -> TradeType]
      BY <2>2, <3>1, <3>2
    <3>4. trades' \in Seq(TradeType)
      BY <1>2, <3>3, SeqDef
    <3>5. Len(trades') \in Nat /\ 1..Len(trades') = 1..Len(trades)
      BY <3>3, <3>4, LenProperties
    <3>6. Len(trades') = Len(trades)
      BY <1>2, <3>5
    <3> QED BY <3>4, <3>6
  <2> QED BY <1>1, <2>1, <2>2
<1>4. DOMAIN trades' = 1..Len(trades)
  BY <1>3, LenProperties
<1>5. /\ \A i \in DOMAIN trades : \E j \in DOMAIN trades' : trades'[j] = trades[i]
      /\ \A i \in DOMAIN trades' : \E j \in DOMAIN trades : trades'[i] = trades[j]
  <2>1. CASE trades' = trades
    BY <2>1
  <2>2. CASE trades' = [i \in 1..Len(trades) |-> trades[(Len(trades) - i) + 1]]
    <3>1. \A i \in 1..Len(trades) : /\ (Len(trades) - i) + 1 \in 1..Len(trades)
                                    /\ (Len(trades) - ((Len(trades) - i) + 1)) + 1 = i
      BY <1>2
    <3> QED BY <1>2, <1>4, <2>2, <3>1
  <2> QED BY <1>1, <2>1, <2>2
<1>6. ParseTypes'
  BY <1>1, <1>2, <1>3 DEF ParseInv, ParseTypes
<1>7. LedgerInv'
  <2> SUFFICES ASSUME NEW w \in shown
               PROVE  \E j \in DOMAIN trades' :
                          /\ OwnerOf[w] \in DOMAIN trades'[j].post
                          /\ trades'[j].post[OwnerOf[w]] = ledger[w]
    BY <1>1 DEF LedgerInv
  <2>1. PICK j \in DOMAIN trades :
            OwnerOf[w] \in DOMAIN trades[j].post /\ trades[j].post[OwnerOf[w]] = ledger[w]
    BY DEF ParseInv, LedgerInv
  <2> QED BY <1>5, <2>1
<1>8. Done = {} /\ Done' = {}
  BY <1>1, <1>2, <1>4 DEF Done
<1>9. PeakInv' /\ SeenInv'
  BY <1>1, <1>8 DEF ParseInv, PeakInv, SeenInv
<1> QED BY <1>6, <1>7, <1>9 DEF ParseInv

(* One more transaction is parsed.                                         *)
LEMMA Larger ==
    ASSUME NEW a \in Nat, NEW b \in Nat
    PROVE  LET c == Patterns!Larger(a, b) IN c \in Nat /\ c >= a /\ c >= b
  BY DEF Patterns!Larger

LEMMA CountNamed ==
    ASSUME NEW t \in TradeType, NEW a \in Patterns!Accounts
    PROVE  LET n == Patterns!Cardinality({i \in DOMAIN t.keys : t.keys[i] = a})
           IN  n \in Nat /\ (n = 0 => ~Patterns!Names(t, a))
<1> DEFINE S == {i \in DOMAIN t.keys : t.keys[i] = a}
<1>1. t.keys \in Seq(Patterns!Accounts)
  BY DEF TradeType
<1>2. Len(t.keys) \in Nat /\ DOMAIN t.keys = 1..Len(t.keys)
  BY <1>1, LenProperties
<1>3. IsFiniteSet(1..Len(t.keys)) /\ S \in SUBSET (1..Len(t.keys))
  BY <1>2, FS_Interval
<1>4. IsFiniteSet(S)
  BY <1>3, FS_Subset
<1>5. Cardinality(S) \in Nat /\ (Cardinality(S) = 0 => S = {})
  BY <1>4, FS_CardinalityType, FS_EmptySet
<1>6. S = {} => ~Patterns!Names(t, a)
  BY DEF Patterns!Names, Patterns!ToSet
<1>7. Patterns!Cardinality(S) = Cardinality(S)
  BY DEF Patterns!Cardinality, Cardinality
<1> QED BY <1>5, <1>6, <1>7

LEMMA ParseStepInv == ASSUME ParseInv, Patterns!Parse PROVE ParseInv'
<1> DEFINE next == parsed + 1
           t == trades[next]
<1>1. /\ ParseTypes /\ trades \in Seq(TradeType) /\ parsed \in 0..(Len(trades) - 1)
      /\ Len(trades) \in Nat /\ DOMAIN trades = 1..Len(trades)
  BY LenProperties DEF ParseInv, ParseTypes, Patterns!Parse
<1>2. next \in DOMAIN trades /\ t \in TradeType
  BY <1>1, ElementOfSeq
<1>3. /\ t.time \in Nat /\ t.post \in Balances
  BY <1>2 DEF TradeType
<1>4. /\ parsed' = next /\ UNCHANGED <<ledger, shown, clock, trades>>
      /\ Patterns!ParseBalances(t) /\ Patterns!ParseKeys(t)
  BY DEF Patterns!Parse, Patterns!chain
<1> HIDE DEF t
<1>5. Done' = Done \union {next}
  BY <1>1, <1>2, <1>4 DEF Done
<1> HIDE DEF next
<1>6. \A o \in Owners : Patterns!Amount(t.post, o) \in Nat
  <2>1. PICK D \in SUBSET Owners : t.post \in [D -> Nat]
    BY <1>3 DEF Balances
  <2> QED BY <2>1 DEF Patterns!Amount
<1>7. /\ holders' \in [Owners -> Nat]
      /\ \A o \in Owners : holders'[o] >= holders[o] /\ holders'[o] >= Patterns!Amount(t.post, o)
  <2>1. holders' = [o \in Owners |-> Patterns!Larger(holders[o], Patterns!Amount(t.post, o))]
    BY <1>4 DEF Patterns!ParseBalances
  <2>2. \A o \in Owners : holders[o] \in Nat
    BY <1>1 DEF ParseTypes
  <2> QED BY <1>6, <2>1, <2>2, Larger
<1>8. PeakInv'
  <2> SUFFICES ASSUME NEW o \in Owners, NEW i \in Done', o \in DOMAIN trades[i].post
               PROVE  holders'[o] >= trades[i].post[o]
    BY <1>4 DEF PeakInv
  <2>1. CASE i = next
    <3>1. Patterns!Amount(t.post, o) = trades[i].post[o]
      BY <2>1 DEF t, Patterns!Amount
    <3> QED BY <1>7, <3>1
  <2>2. CASE i # next
    <3>1. i \in Done /\ i \in DOMAIN trades
      BY <1>5, <2>2 DEF Done
    <3>2. holders[o] >= trades[i].post[o]
      BY <3>1 DEF ParseInv, PeakInv
    <3>3. trades[i].post \in Balances
      <4>1. trades[i] \in TradeType
        BY <1>1, <3>1, ElementOfSeq
      <4> QED BY <4>1 DEF TradeType
    <3>4. trades[i].post[o] \in Nat
      BY <3>3 DEF Balances
    <3>5. holders[o] \in Nat /\ holders'[o] \in Nat
      BY <1>1, <1>7 DEF ParseTypes
    <3> QED BY <1>7, <3>2, <3>4, <3>5
  <2> QED BY <2>1, <2>2
<1>9. /\ activity' = [a \in Patterns!Accounts |-> activity[a] +
             Patterns!Cardinality({i \in DOMAIN t.keys : t.keys[i] = a})]
      /\ seen' = [a \in Patterns!Accounts |->
             IF Patterns!Names(t, a) /\ (activity[a] = 0 \/ t.time \in 1..(seen[a] - 1))
             THEN t.time ELSE seen[a]]
  BY <1>4 DEF Patterns!ParseKeys
<1>10. /\ activity' \in [Patterns!Accounts -> Nat]
       /\ \A a \in Patterns!Accounts :
              activity'[a] = 0 => activity[a] = 0 /\ ~Patterns!Names(t, a)
  <2>1. \A a \in Patterns!Accounts : activity[a] \in Nat
    BY <1>1 DEF ParseTypes
  <2> DEFINE named(a) == Patterns!Cardinality({i \in DOMAIN t.keys : t.keys[i] = a})
  <2>2. \A a \in Patterns!Accounts : named(a) \in Nat /\ (named(a) = 0 => ~Patterns!Names(t, a))
    BY <1>2, CountNamed
  <2>3. activity' = [a \in Patterns!Accounts |-> activity[a] + named(a)]
    BY <1>9
  <2> HIDE DEF named
  <2> QED BY <2>1, <2>2, <2>3
<1>11. seen' \in [Patterns!Accounts -> Nat]
  BY <1>1, <1>3, <1>9 DEF ParseTypes
<1>12. ParseTypes'
  BY <1>1, <1>4, <1>7, <1>10, <1>11 DEF ParseTypes, next
<1>13. LedgerInv'
  BY <1>4 DEF ParseInv, LedgerInv
<1>14. ASSUME NEW o \in Owners
       PROVE  /\ activity'[o] = 0 => \A i \in Done' : ~Patterns!Names(trades[i], o)
              /\ seen'[o] # 0 =>
                     /\ \E i \in Done' : Patterns!Names(trades[i], o) /\ trades[i].time = seen'[o]
                     /\ \A i \in Done' : Patterns!Names(trades[i], o) =>
                            trades[i].time = 0 \/ trades[i].time >= seen'[o]
  <2>1. o \in Patterns!Accounts /\ seen[o] \in Nat
    BY <1>1 DEF Patterns!Accounts, ParseTypes
  <2>2. \A i \in Done' : (i = next /\ trades[i] = t) \/ i \in Done
    BY <1>5 DEF t
  <2>3. next \in Done' /\ trades[next] = t /\ Done \subseteq Done'
    BY <1>5 DEF t
  <2>4. \A i \in Done : trades[i].time \in Nat
    <3> TAKE i \in Done
    <3>1. i \in 1..Len(trades)
      BY <1>1 DEF Done
    <3>2. trades[i] \in TradeType
      BY <1>1, <3>1, ElementOfSeq
    <3> QED BY <3>2 DEF TradeType
  <2>5. /\ activity[o] = 0 => \A i \in Done : ~Patterns!Names(trades[i], o)
        /\ seen[o] # 0 =>
               /\ \E i \in Done : Patterns!Names(trades[i], o) /\ trades[i].time = seen[o]
               /\ \A i \in Done : Patterns!Names(trades[i], o) =>
                      trades[i].time = 0 \/ trades[i].time >= seen[o]
    BY DEF ParseInv, SeenInv
  <2>6. activity'[o] = 0 => \A i \in Done' : ~Patterns!Names(trades[i], o)
    BY <1>10, <2>1, <2>2, <2>5
  <2>7. CASE Patterns!Names(t, o) /\ activity[o] = 0
    <3>1. seen'[o] = t.time
      BY <1>9, <2>1, <2>7
    <3> QED BY <1>3, <2>2, <2>3, <2>5, <2>6, <2>7, <3>1
  <2>8. CASE Patterns!Names(t, o) /\ activity[o] # 0 /\ t.time \in 1..(seen[o] - 1)
    <3>1. seen'[o] = t.time /\ t.time # 0 /\ t.time < seen[o] /\ seen[o] # 0
      BY <1>3, <1>9, <2>1, <2>8
    <3>2. \A i \in Done : Patterns!Names(trades[i], o) =>
                        trades[i].time = 0 \/ trades[i].time >= t.time
      BY <1>3, <2>1, <2>4, <2>5, <3>1
    <3> QED BY <1>3, <2>2, <2>3, <2>6, <2>8, <3>1, <3>2
  <2>9. CASE Patterns!Names(t, o) /\ activity[o] # 0 /\ t.time \notin 1..(seen[o] - 1)
    <3>1. seen'[o] = seen[o]
      BY <1>9, <2>1, <2>9
    <3>2. t.time = 0 \/ t.time >= seen[o]
      BY <1>3, <2>1, <2>9
    <3> QED BY <2>2, <2>3, <2>5, <2>6, <3>1, <3>2
  <2>10. CASE ~Patterns!Names(t, o)
    <3>1. seen'[o] = seen[o]
      BY <1>9, <2>1, <2>10
    <3> QED BY <2>2, <2>3, <2>5, <2>6, <2>10, <3>1
  <2> QED BY <2>7, <2>8, <2>9, <2>10
<1>15. SeenInv'
  BY <1>4, <1>14 DEF SeenInv
<1> QED BY <1>8, <1>12, <1>13, <1>15 DEF ParseInv

(* The fields stay when all is parsed.                                     *)
LEMMA FindMigrationInv == ASSUME ParseInv, Patterns!FindMigrationTime PROVE ParseInv'
<1>1. /\ trades \in Seq(TradeType) /\ parsed = Len(trades) /\ parsed' = parsed + 1
      /\ UNCHANGED <<ledger, shown, clock, trades, holders, activity, seen>>
  BY DEF Patterns!FindMigrationTime, Patterns!chain, Patterns!balances, Patterns!seen,
         ParseInv, ParseTypes
<1>2. Len(trades) \in Nat /\ DOMAIN trades = 1..Len(trades)
  BY <1>1, LenProperties
<1>3. Done' = Done
  BY <1>1, <1>2 DEF Done
<1>4. ParseTypes'
  BY <1>1, <1>2 DEF ParseInv, ParseTypes
<1> QED BY <1>1, <1>3, <1>4 DEF ParseInv, LedgerInv, PeakInv, SeenInv

LEMMA NextParseInv == ParseInv /\ [Patterns!Next]_patternVars => ParseInv'
<1> SUFFICES ASSUME ParseInv, [Patterns!Next]_patternVars PROVE ParseInv'
  OBVIOUS
<1>1. CASE UNCHANGED <<ledger, shown, clock, trades, parsed, holders, activity, seen>>
  BY <1>1 DEF ParseInv, ParseTypes, LedgerInv, PeakInv, SeenInv, Done
<1>2. CASE Patterns!NextParsing
  BY <1>2, TradeInv, LoseInv, CollectedInv, ParseStepInv, FindMigrationInv DEF Patterns!NextParsing
<1>3. CASE Patterns!FindDeployer \/ Patterns!Follow \/ Patterns!Report
  BY <1>1, <1>3 DEF Patterns!FindDeployer, Patterns!Follow, Patterns!Report,
                    Patterns!parsing, Patterns!chain, Patterns!balances, Patterns!seen
<1>4. CASE UNCHANGED patternVars
  BY <1>1, <1>4 DEF patternVars
<1> QED BY <1>2, <1>3, <1>4 DEF Patterns!Next

(* Once all are parsed, the fields say what the ledger does.               *)
LEMMA ParsedFields == ParseInv => HoldersKeepPeaks
<1> SUFFICES ASSUME ParseInv, parsed >= Len(trades) PROVE HoldersKeepPeaks
  BY DEF HoldersKeepPeaks, Patterns!HoldersKeepPeaks
<1>1. /\ trades \in Seq(TradeType) /\ parsed \in Int
      /\ Len(trades) \in Nat /\ DOMAIN trades = 1..Len(trades)
  BY LenProperties DEF ParseInv, ParseTypes
<1>2. Done = DOMAIN trades
  BY <1>1 DEF Done
<1>3. \A i \in DOMAIN trades : trades[i] \in TradeType
  BY <1>1, ElementOfSeq
<1>4. \A o \in Owners, i \in DOMAIN trades : o \in DOMAIN trades[i].post =>
          trades[i].post[o] \in Nat /\ holders[o] >= trades[i].post[o]
  <2> TAKE o \in Owners, i \in DOMAIN trades
  <2>1. trades[i].post \in Balances
    BY <1>3 DEF TradeType
  <2> QED BY <1>2, <2>1 DEF Balances, ParseInv, PeakInv
<1>5. \A w \in shown : holders[OwnerOf[w]] >= ledger[w]
  <2> TAKE w \in shown
  <2>1. OwnerOf[w] \in Owners
    BY PatternsAssumption DEF Patterns!ParsingAssumption, ParseInv, ParseTypes
  <2>2. PICK j \in DOMAIN trades :
            OwnerOf[w] \in DOMAIN trades[j].post /\ trades[j].post[OwnerOf[w]] = ledger[w]
    BY DEF ParseInv, LedgerInv
  <2> QED BY <1>4, <2>1, <2>2
<1>6. ASSUME NEW o \in Owners
      PROVE  LET listed == {trades[i].post[o] :
                               i \in {j \in DOMAIN trades : o \in DOMAIN trades[j].post}}
                 times == {trades[i].time :
                              i \in {j \in DOMAIN trades : Patterns!Names(trades[j], o)}}
             IN  /\ \A amount \in listed : holders[o] >= amount
                 /\ (\E amount \in listed : amount > 0) => Patterns!TransferStatus(o) # "SOLD"
                 /\ seen[o] # 0 => seen[o] = Patterns!Least(times \ {0})
  <2> DEFINE listed == {trades[i].post[o] :
                           i \in {j \in DOMAIN trades : o \in DOMAIN trades[j].post}}
             times == {trades[i].time : i \in {j \in DOMAIN trades : Patterns!Names(trades[j], o)}}
  <2>1. holders[o] \in Nat /\ seen[o] \in Nat
    BY DEF ParseInv, ParseTypes, Patterns!Accounts
  <2>2. \A amount \in listed : amount \in Nat /\ holders[o] >= amount
    BY <1>4
  <2>3. (\E amount \in listed : amount > 0) => Patterns!TransferStatus(o) # "SOLD"
    <3> SUFFICES ASSUME NEW amount \in listed, amount > 0
                 PROVE  Patterns!TransferStatus(o) # "SOLD"
      OBVIOUS
    <3>1. amount \in Nat /\ holders[o] >= amount
      BY <2>2
    <3> HIDE DEF listed
    <3>2. holders[o] > 0
      BY <2>1, <3>1
    <3> QED BY <3>2 DEF Patterns!TransferStatus
  <2>4. ASSUME seen[o] # 0
        PROVE  seen[o] = Patterns!Least(times \ {0})
    <3>1. seen[o] \in times \ {0}
      BY <1>2, <2>4 DEF ParseInv, SeenInv
    <3>2. \A x \in times \ {0} : x \in Nat /\ x >= seen[o]
      <4> TAKE x \in times \ {0}
      <4>1. PICK i \in DOMAIN trades : Patterns!Names(trades[i], o) /\ x = trades[i].time
        OBVIOUS
      <4>2. trades[i].time \in Nat
        BY <1>3 DEF TradeType
      <4> QED BY <1>2, <2>4, <4>1, <4>2 DEF ParseInv, SeenInv
    <3> HIDE DEF times
    <3>3. \A x \in times \ {0} : (\A y \in times \ {0} : x <= y) => x = seen[o]
      BY <2>1, <3>1, <3>2
    <3>4. \A y \in times \ {0} : seen[o] <= y
      BY <2>1, <3>2
    <3> QED BY <3>1, <3>3, <3>4 DEF Patterns!Least
  <2> QED BY <2>2, <2>3, <2>4
<1> QED BY <1>5, <1>6 DEF HoldersKeepPeaks, Patterns!HoldersKeepPeaks

(***************************************************************************)
(* Minimal sets and largest numbers, in the place of an induction.         *)
(***************************************************************************)

(* Of some subsets of a finite set, one has no other below it.             *)
LEMMA MinimalSet ==
    ASSUME NEW S, IsFiniteSet(S), NEW C, C # {}, \A u \in C : u \subseteq S
    PROVE  \E m \in C : \A u \in C : u \subseteq m => u = m
<1>1. IsWellFoundedOn(StrictSubsetOrdering(S), SUBSET S)
  BY FS_StrictSubsetOrderingWellFounded, FS_FiniteSubsetsOfFinite
<1>2. PICK m \in C : \A u \in C : <<u, m>> \notin StrictSubsetOrdering(S)
  BY <1>1, WFMin
<1> QED BY <1>2 DEF StrictSubsetOrdering

(* The numbers up to one are finitely many.                                *)
LEMMA UpToFinite == \A n \in Nat : IsFiniteSet(1..n)
<1> TAKE n \in Nat
<1>1. 1 \in Int /\ n \in Int
  OBVIOUS
<1> QED BY <1>1, FS_Interval

(* Of some natural numbers, one is the least.                              *)
LEMMA LeastNumber ==
    ASSUME NEW C \in SUBSET Nat, C # {}
    PROVE  \E n \in C : \A k \in C : n <= k
<1>1. PICK N \in C : N \in Nat
  OBVIOUS
<1>f. IsFiniteSet(1..N)
  BY <1>1, UpToFinite
<1> DEFINE U == {1..n : n \in C \intersect 0..N}
<1>2. IsFiniteSet(1..N) /\ (\A u \in U : u \subseteq 1..N) /\ U # {}
  <2>2. \A n \in C \intersect 0..N : 1..n \subseteq 1..N
    BY <1>1
  <2> QED BY <1>1, <1>f, <2>2
<1>3. PICK m \in U : \A u \in U : u \subseteq m => u = m
  <2> HIDE DEF U
  <2> QED BY <1>2, MinimalSet
<1>4. PICK n \in C \intersect 0..N : m = 1..n
  BY <1>3
<1>5. ASSUME NEW k \in C, k < n PROVE FALSE
  <2>1. k \in C \intersect 0..N /\ n \in 1..n /\ n \notin 1..k /\ 1..k \subseteq 1..n
    BY <1>1, <1>4, <1>5
  <2> QED BY <1>3, <1>4, <2>1
<1> QED BY <1>4, <1>5

(* A function on a finite set is largest somewhere.                        *)
LEMMA LargestValue ==
    ASSUME NEW D, IsFiniteSet(D), D # {}, NEW f, \A d \in D : f[d] \in Nat
    PROVE  \E d \in D : \A e \in D : f[e] <= f[d]
<1> DEFINE over(d) == {e \in D : f[e] > f[d]}
           U == {over(d) : d \in D}
<1>1. U # {} /\ \A u \in U : u \subseteq D
  OBVIOUS
<1>2. PICK m \in U : \A u \in U : u \subseteq m => u = m
  <2> HIDE DEF U
  <2> QED BY <1>1, MinimalSet
<1>3. PICK d \in D : m = over(d)
  BY <1>2
<1>4. ASSUME NEW e \in D, f[e] > f[d] PROVE FALSE
  <2>1. over(e) \subseteq over(d) /\ e \in over(d) /\ e \notin over(e)
    BY <1>4
  <2> QED BY <1>2, <1>3, <2>1
<1> QED BY <1>3, <1>4

(* The subsets with n elements and fewer.                                  *)
Upto(S, n) == {s \in SUBSET S : Cardinality(s) <= n}

(* The balances of a list are natural, and indices are numbers.            *)
LEMMA TradeValues ==
    ASSUME ParseTypes
    PROVE  /\ Len(trades) \in Nat /\ DOMAIN trades = 1..Len(trades)
           /\ Patterns!Indices = 1..Len(trades) /\ IsFiniteSet(Patterns!Indices)
           /\ \A i \in Patterns!Indices : Patterns!Time(i) \in Nat
           /\ \A i \in Patterns!Indices, o \in Owners : Patterns!After(i, o) \in Nat
<1>1. trades \in Seq(TradeType) /\ Len(trades) \in Nat /\ DOMAIN trades = 1..Len(trades)
  BY LenProperties DEF ParseTypes
<1>2. IsFiniteSet(1..Len(trades))
  BY <1>1, UpToFinite
<1>3. \A i \in DOMAIN trades : trades[i].time \in Nat /\ trades[i].post \in Balances
  <2>1. \A i \in DOMAIN trades : trades[i] \in TradeType
    BY <1>1, ElementOfSeq
  <2> QED BY <2>1 DEF TradeType
<1>4. ASSUME NEW i \in DOMAIN trades, NEW o \in Owners
      PROVE  Patterns!Amount(trades[i].post, o) \in Nat
  <2>1. PICK D \in SUBSET Owners : trades[i].post \in [D -> Nat]
    BY <1>3 DEF Balances
  <2> QED BY <2>1 DEF Patterns!Amount
<1> QED BY <1>1, <1>2, <1>3, <1>4 DEF Patterns!Indices, Patterns!Time, Patterns!After

(***************************************************************************)
(* The wallets that the deployer has funded.                               *)
(***************************************************************************)

(* Who is reached in at most n hops.                                       *)
Hops == CHOOSE reached : reached = [n \in 0..MaxHops |->
            IF n = 0 THEN Patterns!Deployers
            ELSE reached[n - 1] \union UNION {Patterns!Receivers(a) : a \in reached[n - 1]}]

(* The property, in terms of Hops.                                         *)
LEMMA FundedOfHops ==
    FundedIsReachable <=>
        (patterns.made => funded_wallets = UNION {Patterns!Receivers(a) : a \in Hops[MaxHops]})
  BY DEF FundedIsReachable, Patterns!FundedIsReachable, Hops

(* The recursion inside of Hops, for the first n hops.                     *)
HopsUpTo(n, g) ==
    \A k \in 0..n :
        g[k] = IF k = 0 THEN Patterns!Deployers
               ELSE g[k - 1] \union UNION {Patterns!Receivers(a) : a \in g[k - 1]}

(* There is such a function for any number of hops: of a least number      *)
(* without one, it is made from that of the number before.                 *)
LEMMA HopsExist == \A n \in Nat : \E g : HopsUpTo(n, g)
<1> DEFINE C == {n \in Nat : ~ \E g : HopsUpTo(n, g)}
<1>1. SUFFICES ASSUME C # {} PROVE FALSE
  OBVIOUS
<1>2. PICK n \in C : \A k \in C : n <= k
  <2>1. C # {} /\ C \in SUBSET Nat
    BY <1>1
  <2> HIDE DEF C
  <2> QED BY <2>1, LeastNumber
<1>3. n \in Nat /\ ~ \E g : HopsUpTo(n, g)
  BY <1>2
<1>4. CASE n = 0
  <2> DEFINE g == [k \in 0..0 |-> Patterns!Deployers]
  <2>1. HopsUpTo(0, g)
    BY DEF HopsUpTo
  <2> QED BY <1>3, <1>4, <2>1
<1>5. CASE n # 0
  <2>1. n - 1 \in Nat /\ n - 1 \notin C
    BY <1>2, <1>3, <1>5
  <2>2. PICK h : HopsUpTo(n - 1, h)
    BY <2>1
  <2> DEFINE last == h[n - 1] \union UNION {Patterns!Receivers(a) : a \in h[n - 1]}
             g == [k \in 0..n |-> IF k = n THEN last ELSE h[k]]
  <2>3. g[n] = last /\ \A k \in 0..(n - 1) : g[k] = h[k]
    BY <1>3
  <2> HIDE DEF g
  <2>4. ASSUME NEW k \in 0..n
        PROVE  g[k] = IF k = 0 THEN Patterns!Deployers
                      ELSE g[k - 1] \union UNION {Patterns!Receivers(a) : a \in g[k - 1]}
    <3>1. CASE k = n
      <4>1. n - 1 \in 0..(n - 1)
        BY <2>1
      <4>2. g[n - 1] = h[n - 1]
        BY <2>3, <4>1
      <4> QED BY <1>5, <2>3, <3>1, <4>2
    <3>2. CASE k # n
      <4>1. k \in 0..(n - 1)
        BY <1>3, <3>2
      <4>2. h[k] = IF k = 0 THEN Patterns!Deployers
                   ELSE h[k - 1] \union UNION {Patterns!Receivers(a) : a \in h[k - 1]}
        BY <2>2, <4>1 DEF HopsUpTo
      <4>3. k # 0 => k - 1 \in 0..(n - 1)
        BY <4>1
      <4> QED BY <2>3, <4>1, <4>2, <4>3
    <3> QED BY <3>1, <3>2
  <2>5. HopsUpTo(n, g)
    BY <2>4 DEF HopsUpTo
  <2> QED BY <1>3, <2>5
<1> QED BY <1>4, <1>5

(* So Hops satisfies its recursion.                                        *)
LEMMA HopsHold ==
    /\ Hops[0] = Patterns!Deployers
    /\ \A n \in 1..MaxHops :
           Hops[n] = Hops[n - 1] \union UNION {Patterns!Receivers(a) : a \in Hops[n - 1]}
<1>1. PICK g : HopsUpTo(MaxHops, g)
  BY HopsExist, TokenAssumption
<1> DEFINE h == [n \in 0..MaxHops |-> g[n]]
<1>2. \A n \in 0..MaxHops : h[n] = g[n] /\ (n # 0 => n - 1 \in 0..MaxHops)
  BY TokenAssumption
<1>3. h = [n \in 0..MaxHops |-> IF n = 0 THEN Patterns!Deployers
             ELSE h[n - 1] \union UNION {Patterns!Receivers(a) : a \in h[n - 1]}]
  <2>1. ASSUME NEW n \in 0..MaxHops
        PROVE  h[n] = IF n = 0 THEN Patterns!Deployers
                      ELSE h[n - 1] \union UNION {Patterns!Receivers(a) : a \in h[n - 1]}
    <3>1. g[n] = IF n = 0 THEN Patterns!Deployers
                 ELSE g[n - 1] \union UNION {Patterns!Receivers(a) : a \in g[n - 1]}
      BY <1>1 DEF HopsUpTo
    <3>2. n # 0 => h[n - 1] = g[n - 1]
      BY <1>2
    <3> HIDE DEF h
    <3> QED BY <1>2, <3>1, <3>2
  <2> QED BY <2>1
<1> HIDE DEF h
<1>4. Hops = [n \in 0..MaxHops |-> IF n = 0 THEN Patterns!Deployers
                 ELSE Hops[n - 1] \union UNION {Patterns!Receivers(a) : a \in Hops[n - 1]}]
  BY <1>3 DEF Hops
<1> HIDE DEF Hops
<1>5. 0 \in 0..MaxHops /\ \A n \in 1..MaxHops : n \in 0..MaxHops /\ n # 0
  BY TokenAssumption
<1>6. Hops[0] = Patterns!Deployers
  BY <1>4, <1>5
<1>7. ASSUME NEW n \in 1..MaxHops
      PROVE  Hops[n] = Hops[n - 1] \union UNION {Patterns!Receivers(a) : a \in Hops[n - 1]}
  BY <1>4, <1>5
<1> QED BY <1>6, <1>7

(* A set that has the deployers and is closed has all that is reached.     *)
LEMMA HopsWithin ==
    ASSUME NEW S, Patterns!Deployers \subseteq S, \A a \in S : Patterns!Receivers(a) \subseteq S
    PROVE  \A n \in 0..MaxHops : Hops[n] \subseteq S
<1> DEFINE C == {n \in 0..MaxHops : ~(Hops[n] \subseteq S)}
<1>1. SUFFICES ASSUME C # {} PROVE FALSE
  OBVIOUS
<1>2. PICK n \in C : \A k \in C : n <= k
  <2>1. C # {} /\ C \in SUBSET Nat
    BY <1>1
  <2> HIDE DEF C
  <2> QED BY <2>1, LeastNumber
<1>3. n \in 0..MaxHops /\ ~(Hops[n] \subseteq S)
  BY <1>2
<1>4. CASE n = 0
  BY <1>3, <1>4, HopsHold
<1>5. CASE n # 0
  <2>1. n \in 1..MaxHops /\ n - 1 \in 0..MaxHops /\ n - 1 \notin C
    BY <1>2, <1>3, <1>5, TokenAssumption
  <2>2. Hops[n - 1] \subseteq S
    BY <2>1
  <2>3. Hops[n] = Hops[n - 1] \union UNION {Patterns!Receivers(a) : a \in Hops[n - 1]}
    BY <2>1, HopsHold
  <2> QED BY <1>3, <2>2, <2>3
<1> QED BY <1>4, <1>5

(* Who is reached in fewer hops is reached in all of them.                 *)
LEMMA HopsGrow == \A n \in 0..MaxHops : Hops[n] \subseteq Hops[MaxHops]
<1> DEFINE C == {k \in 0..MaxHops : ~(Hops[MaxHops - k] \subseteq Hops[MaxHops])}
<1>1. ASSUME C # {} PROVE FALSE
  <2>1. PICK k \in C : \A l \in C : k <= l
    <3>1. C # {} /\ C \in SUBSET Nat
      BY <1>1
    <3> HIDE DEF C
    <3> QED BY <3>1, LeastNumber
  <2>2. k \in 0..MaxHops /\ ~(Hops[MaxHops - k] \subseteq Hops[MaxHops])
    BY <2>1
  <2>3. k # 0
    <3>1. MaxHops - 0 = MaxHops
      BY TokenAssumption
    <3> QED BY <2>2, <3>1
  <2>4. k - 1 \in 0..MaxHops /\ k - 1 \notin C /\ MaxHops - (k - 1) \in 1..MaxHops
        /\ (MaxHops - (k - 1)) - 1 = MaxHops - k
    BY <2>1, <2>2, <2>3, TokenAssumption
  <2>5. Hops[MaxHops - (k - 1)] \subseteq Hops[MaxHops]
    BY <2>4
  <2>6. Hops[MaxHops - k] \subseteq Hops[MaxHops - (k - 1)]
    BY <2>4, HopsHold
  <2> QED BY <2>2, <2>5, <2>6
<1>2. ASSUME NEW n \in 0..MaxHops PROVE Hops[n] \subseteq Hops[MaxHops]
  <2>1. MaxHops - n \in 0..MaxHops /\ MaxHops - (MaxHops - n) = n
    BY TokenAssumption
  <2> QED BY <1>1, <2>1
<1> QED BY <1>2

(* A sequence of the elements of a finite set.                             *)
LEMMA SequenceOfSet ==
    ASSUME NEW S, IsFiniteSet(S)
    PROVE  LET s == Patterns!SetToSeq(S)
           IN  /\ s \in Seq(S)
               /\ \A x \in S : \E i \in 1..Len(s) : s[i] = x
<1> DEFINE n == Cardinality(S)
<1>1. n \in Nat /\ ExistsBijection(1..n, S)
  BY FS_CardinalityType, FS_NatBijection, FS_CountingElements
<1>2. Patterns!Cardinality(S) = n
  BY DEF Patterns!Cardinality, Cardinality
<1> HIDE DEF n
<1>3. PICK b \in [1..n -> S] : Patterns!IsInjective(b)
  BY <1>1 DEF ExistsBijection, Bijection, Injection, Patterns!IsInjective, IsInjective
<1> DEFINE s == CHOOSE f \in [1..n -> S] : Patterns!IsInjective(f)
<1>4. s \in [1..n -> S] /\ Patterns!IsInjective(s)
  BY <1>3
<1>5. Patterns!SetToSeq(S) = s
  BY <1>2 DEF Patterns!SetToSeq
<1> HIDE DEF s
<1>6. s \in Seq(S) /\ Len(s) = n
  <2>1. s \in Seq(S)
    BY <1>1, <1>4, SeqDef
  <2>2. Len(s) \in Nat /\ 1..Len(s) = 1..n
    BY <1>4, <2>1, LenProperties
  <2> QED BY <1>1, <2>1, <2>2
<1>7. s \in Surjection(1..n, S)
  <2>1. s \in Injection(1..n, S)
    BY <1>4 DEF Injection, IsInjective, Patterns!IsInjective
  <2>2. Cardinality(1..n) = n
    BY <1>1, FS_CountingElements, FS_Interval
  <2> QED BY <2>1, <2>2, FS_Injection DEF n
<1> QED BY <1>5, <1>6, <1>7 DEF Surjection

(* An entry of the queue.                                                  *)
Waiting == [account : Patterns!Accounts, hops : 0..(MaxHops + 1)]

(* The hops of the head; beyond them when nobody waits.                    *)
AtHead == IF queue = <<>> THEN MaxHops + 1 ELSE queue[1].hops

(* Who has received funds of someone who is reached.                       *)
Funded == UNION {Patterns!Receivers(a) : a \in Hops[MaxHops]}

SearchTypes ==
    /\ queue \in Seq(Waiting)
    /\ processed \subseteq Patterns!Accounts
    /\ processed = {} => funded_wallets = {}
    /\ Patterns!Parsed \/ (queue = <<>> /\ processed = {} /\ ~patterns.made)

(* The search is breadth first.                                            *)
SearchOrder ==
    /\ \A i, j \in 1..Len(queue) : i < j => queue[i].hops <= queue[j].hops
    /\ \A j \in 1..Len(queue) : queue[j].hops <= queue[1].hops + 1

(* Nobody is found who is not reached.                                     *)
SearchSound ==
    /\ \A i \in 1..Len(queue) : queue[i].hops <= MaxHops => queue[i].account \in Hops[queue[i].hops]
    /\ processed \subseteq Hops[MaxHops]
    /\ funded_wallets \subseteq Funded

(* Who is reached in fewer hops than the head is processed, who is reached *)
(* in as many is processed or waits, and so is who has received funds.     *)
SearchComplete ==
    /\ \A a \in processed : Patterns!Receivers(a) \subseteq funded_wallets
    /\ \A n \in 0..MaxHops : n < AtHead => Hops[n] \subseteq processed
    /\ AtHead <= MaxHops =>
           /\ \A b \in Hops[AtHead] \ processed :
                  \E i \in 1..Len(queue) : queue[i].account = b /\ queue[i].hops = AtHead
           /\ \A b \in funded_wallets \ processed : \E i \in 1..Len(queue) : queue[i].account = b

SearchInv ==
    /\ SearchTypes /\ SearchOrder /\ SearchSound
    /\ processed # {} \/ queue # <<>> => SearchComplete
    /\ patterns.made => queue = <<>> /\ funded_wallets = Funded

(* The search changes nothing of who has received funds of whom.           *)
LEMMA HopsStay ==
    ASSUME UNCHANGED <<trades, tx_timestamps>>
    PROVE  /\ Hops' = Hops /\ Patterns!Deployers' = Patterns!Deployers /\ Funded' = Funded
           /\ \A a : Patterns!Receivers(a)' = Patterns!Receivers(a)
<1>1. /\ Patterns!Deployers' = Patterns!Deployers
      /\ \A a : Patterns!Receivers(a)' = Patterns!Receivers(a)
  BY DEF Patterns!Deployers, Patterns!Receivers, Patterns!Indices, Patterns!Time,
         Patterns!creation_time, Patterns!Least
<1>2. Hops' = Hops
  BY DEF Hops, Patterns!Deployers, Patterns!Receivers, Patterns!Indices, Patterns!Time,
         Patterns!creation_time, Patterns!Least
<1> QED BY <1>1, <1>2 DEF Funded

(* The accounts are finitely many, and one at most is the deployer.        *)
LEMMA AccountTypes ==
    ASSUME ParseTypes
    PROVE  /\ IsFiniteSet(Patterns!Accounts)
           /\ Patterns!Deployers \subseteq Patterns!Accounts
           /\ \A d, e \in Patterns!Deployers : d = e
           /\ \A a : Patterns!Receivers(a) \subseteq Patterns!Accounts
<1>1. IsFiniteSet(Patterns!Accounts)
  BY TokenAssumption, FS_Singleton, FS_Union DEF Patterns!Accounts
<1>2. ASSUME NEW i \in Patterns!Indices, NEW k \in 1..Len(trades[i].keys)
      PROVE  trades[i].keys[k] \in Patterns!Accounts
  <2>1. trades[i] \in TradeType
    BY TradeValues, ElementOfSeq DEF ParseTypes
  <2>2. trades[i].keys \in Seq(Patterns!Accounts)
    BY <2>1 DEF TradeType
  <2> QED BY <2>2, ElementOfSeq
<1>3. \A i \in Patterns!Indices :
          /\ Len(trades[i].keys) \in Nat
          /\ trades[i].keys # <<>> => 1 \in 1..Len(trades[i].keys)
  <2> TAKE i \in Patterns!Indices
  <2>1. trades[i] \in TradeType
    BY TradeValues, ElementOfSeq DEF ParseTypes
  <2>2. trades[i].keys \in Seq(Patterns!Accounts)
    BY <2>1 DEF TradeType
  <2> QED BY <2>2, LenProperties, EmptySeq
<1>4. Patterns!Deployers \subseteq Patterns!Accounts
  BY <1>2, <1>3 DEF Patterns!Deployers
<1>5. \A d, e \in Patterns!Deployers : d = e
  <2> DEFINE signed == {i \in Patterns!Indices :
                 Patterns!Time(i) = Patterns!creation_time /\ trades[i].keys # <<>>}
  <2>1. \A i, j \in signed : (\A k \in signed : i <= k) /\ (\A k \in signed : j <= k) => i = j
    <3>1. signed \subseteq Nat
      BY TradeValues
    <3> HIDE DEF signed
    <3> QED BY <3>1
  <2>2. Patterns!Deployers =
            {trades[i].keys[1] : i \in {j \in signed : \A k \in signed : j <= k}}
    BY DEF Patterns!Deployers
  <2> HIDE DEF signed
  <2> QED BY <2>1, <2>2
<1>6. ASSUME NEW a PROVE Patterns!Receivers(a) \subseteq Patterns!Accounts
  BY <1>2, <1>3 DEF Patterns!Receivers
<1> QED BY <1>1, <1>4, <1>5, <1>6

(* A queue without its head, with more at its end.                         *)
LEMMA HeadOff ==
    ASSUME NEW E, NEW q \in Seq(E), q # <<>>, NEW s \in Seq(E)
    PROVE  /\ Tail(q) \o s \in Seq(E)
           /\ Len(q) \in Nat /\ Len(q) > 0 /\ Len(s) \in Nat
           /\ Head(q) = q[1] /\ q[1] \in E
           /\ Len(Tail(q) \o s) = (Len(q) - 1) + Len(s)
           /\ \A i \in 1..(Len(q) - 1) : (Tail(q) \o s)[i] = q[i + 1]
           /\ \A i \in 1..Len(s) : (Tail(q) \o s)[(Len(q) - 1) + i] = s[i]
<1>1. Len(q) \in Nat /\ Len(q) # 0 /\ Len(s) \in Nat
  BY EmptySeq, LenProperties
<1>2. /\ Tail(q) \in Seq(E) /\ Len(Tail(q)) = Len(q) - 1
      /\ \A i \in 1..Len(Tail(q)) : Tail(q)[i] = q[i + 1]
      /\ Head(q) = q[1] /\ q[1] \in E
  BY <1>1, HeadTailProperties, ElementOfSeq
<1>3. Tail(q) \o s \in Seq(E)
  BY <1>2, ConcatProperties
<1>4. Len(Tail(q) \o s) = Len(Tail(q)) + Len(s)
  BY <1>2, ConcatProperties
<1>5. \A i \in 1..(Len(Tail(q)) + Len(s)) :
          (Tail(q) \o s)[i] = IF i <= Len(Tail(q)) THEN Tail(q)[i] ELSE s[i - Len(Tail(q))]
  BY <1>2, ConcatProperties
<1>6. \A i \in 1..(Len(q) - 1) : (Tail(q) \o s)[i] = q[i + 1]
  BY <1>1, <1>2, <1>5
<1>7. ASSUME NEW i \in 1..Len(s) PROVE (Tail(q) \o s)[(Len(q) - 1) + i] = s[i]
  <2>1. /\ (Len(q) - 1) + i \in 1..(Len(Tail(q)) + Len(s))
        /\ ~((Len(q) - 1) + i <= Len(Tail(q)))
        /\ ((Len(q) - 1) + i) - Len(Tail(q)) = i
    BY <1>1, <1>2
  <2> QED BY <1>5, <2>1
<1> QED BY <1>1, <1>2, <1>3, <1>4, <1>6, <1>7

(* What the entries of a queue are.                                        *)
LEMMA WaitingTypes ==
    ASSUME NEW q \in Seq(Waiting)
    PROVE  \A i \in 1..Len(q) :
               /\ q[i] \in Waiting /\ q[i].account \in Patterns!Accounts
               /\ q[i].hops \in 0..(MaxHops + 1) /\ q[i].hops \in Nat
<1> TAKE i \in 1..Len(q)
<1>1. q[i] \in Waiting
  BY ElementOfSeq
<1> QED BY <1>1, TokenAssumption DEF Waiting

LEMMA InitSearchInv == Patterns!Init => SearchInv
<1> SUFFICES ASSUME Patterns!Init PROVE SearchInv
  OBVIOUS
<1>1. /\ queue = <<>> /\ processed = {} /\ funded_wallets = {} /\ ~patterns.made
  BY DEF Patterns!Init, Patterns!NoReport
<1>2. Len(queue) = 0 /\ queue \in Seq(Waiting)
  BY <1>1
<1> QED BY <1>1, <1>2 DEF SearchInv, SearchTypes, SearchOrder, SearchSound

(* The search begins with the deployer alone.                              *)
LEMMA FindDeployerInv ==
    ASSUME ParseTypes, SearchInv, Patterns!FindDeployer
    PROVE  SearchInv'
<1>1. PICK d \in Patterns!Deployers : queue' = <<[account |-> d, hops |-> 0]>>
  BY DEF Patterns!FindDeployer
<1>2. /\ UNCHANGED <<processed, funded_wallets, patterns, trades, tx_timestamps, parsed>>
      /\ Patterns!Parsed /\ processed = {} /\ ~patterns.made
  BY DEF Patterns!FindDeployer, Patterns!parsing, Patterns!chain, Patterns!seen
<1>3. funded_wallets = {} /\ Patterns!Parsed'
  BY <1>2 DEF SearchInv, SearchTypes, Patterns!Parsed
<1>4. d \in Patterns!Accounts /\ Patterns!Deployers = {d}
  BY AccountTypes
<1> DEFINE first == [account |-> d, hops |-> 0]
<1>5. first \in Waiting /\ first.hops = 0 /\ first.account = d
  BY <1>4, TokenAssumption DEF Waiting
<1> HIDE DEF first
<1>6. /\ queue' \in Seq(Waiting) /\ queue' # <<>> /\ Len(queue') = 1
      /\ queue'[1] = first /\ \A i \in 1..Len(queue') : i = 1
  BY <1>1, <1>5 DEF first
<1>7. SearchTypes'
  BY <1>2, <1>3, <1>6 DEF SearchTypes
<1>8. SearchOrder'
  BY <1>5, <1>6 DEF SearchOrder
<1>9. Hops' = Hops /\ Hops[0] = {d} /\ Funded' = Funded
  BY <1>2, <1>4, HopsStay, HopsHold
<1>10. SearchSound'
  BY <1>2, <1>3, <1>5, <1>6, <1>9 DEF SearchSound
<1>11. AtHead' = 0
  BY <1>5, <1>6 DEF AtHead
<1>12. SearchComplete'
  <2>1. ~ \E n \in 0..MaxHops : n < 0
    BY TokenAssumption
  <2> QED BY <1>2, <1>3, <1>5, <1>6, <1>9, <1>11, <2>1 DEF SearchComplete
<1> QED BY <1>2, <1>7, <1>8, <1>10, <1>12 DEF SearchInv

(* The head is further than the search goes.                               *)
LEMMA BeyondInv ==
    ASSUME ParseTypes, SearchInv, Patterns!Follow, Head(queue).hops > MaxHops
    PROVE  SearchInv'
<1> DEFINE r == Tail(queue) \o <<>>
<1>1. queue # <<>> /\ queue \in Seq(Waiting) /\ Patterns!Parsed
  BY DEF Patterns!Follow, SearchInv, SearchTypes
<1>2. /\ r \in Seq(Waiting) /\ Len(queue) \in Nat /\ Len(queue) > 0
      /\ Head(queue) = queue[1] /\ queue[1] \in Waiting
      /\ Len(r) = Len(queue) - 1 /\ \A i \in 1..Len(r) : r[i] = queue[i + 1]
  <2>1. <<>> \in Seq(Waiting) /\ Len(<<>>) = 0
    OBVIOUS
  <2>2. /\ r \in Seq(Waiting) /\ Len(queue) \in Nat /\ Len(queue) > 0
        /\ Head(queue) = queue[1] /\ queue[1] \in Waiting
        /\ Len(r) = (Len(queue) - 1) + 0
        /\ \A i \in 1..(Len(queue) - 1) : r[i] = queue[i + 1]
    BY <1>1, <2>1, HeadOff
  <2> HIDE DEF r
  <2>3. Len(r) = Len(queue) - 1
    BY <2>2
  <2> QED BY <2>2, <2>3
<1>3. /\ UNCHANGED <<processed, patterns, trades, tx_timestamps, parsed>>
      /\ funded_wallets' = funded_wallets
      /\ queue' = r
  <2>1. Patterns!SetToSeq({}) = <<>>
    <3>1. Patterns!SetToSeq({}) \in Seq({})
      BY SequenceOfSet, FS_EmptySet
    <3> QED BY <3>1, EmptySeq
  <2>2. {[account |-> b, hops |-> Head(queue).hops + 1] : b \in {}} = {}
    OBVIOUS
  <2> QED BY <2>1, <2>2 DEF Patterns!Follow, Patterns!Beyond, Patterns!parsing, Patterns!chain,
       Patterns!seen
<1> HIDE DEF r
<1>4. \A i \in 1..Len(r) : i + 1 \in 1..Len(queue) /\ queue'[i] = queue[i + 1]
  BY <1>2, <1>3
<1>5. \A i \in 1..Len(queue) : queue[i] \in Waiting /\ queue[i].hops \in Nat
  BY <1>1, WaitingTypes
<1>6. \A i \in 1..Len(queue) : queue[i].hops = MaxHops + 1
  <2> TAKE i \in 1..Len(queue)
  <2>1. 1 \in 1..Len(queue) /\ i >= 1 /\ (1 < i => queue[1].hops <= queue[i].hops)
    BY <1>2 DEF SearchInv, SearchOrder
  <2>2. queue[i].hops > MaxHops
    BY <1>2, <1>5, <2>1, TokenAssumption
  <2>3. queue[i].hops \in 0..(MaxHops + 1)
    BY <1>1, WaitingTypes
  <2> QED BY <2>2, <2>3, TokenAssumption
<1>7. \A i \in 1..Len(queue') : queue'[i].hops = MaxHops + 1
  BY <1>3, <1>4, <1>6
<1>8. AtHead = MaxHops + 1 /\ AtHead' = MaxHops + 1
  <2>1. AtHead = MaxHops + 1
    BY <1>1, <1>2, <1>6 DEF AtHead
  <2>2. ASSUME queue' # <<>> PROVE queue'[1].hops = MaxHops + 1
    <3>1. Len(queue') \in Nat /\ Len(queue') # 0
      BY <1>2, <1>3, <2>2, EmptySeq, LenProperties
    <3> QED BY <1>7, <3>1
  <2> QED BY <2>1, <2>2 DEF AtHead
<1>9. Hops' = Hops /\ Funded' = Funded /\ \A a : Patterns!Receivers(a)' = Patterns!Receivers(a)
  BY <1>3, HopsStay
<1>10. SearchTypes'
  BY <1>1, <1>2, <1>3 DEF SearchInv, SearchTypes, Patterns!Parsed
<1>11. SearchOrder'
  <2>1. \A i, j \in 1..Len(queue') : queue'[i].hops <= queue'[j].hops
    BY <1>7, TokenAssumption
  <2>2. ASSUME NEW j \in 1..Len(queue') PROVE queue'[j].hops <= queue'[1].hops + 1
    <3>1. 1 \in 1..Len(queue')
      BY <1>2, <1>3
    <3> QED BY <1>7, <3>1, TokenAssumption
  <2> QED BY <2>1, <2>2 DEF SearchOrder
<1>12. ~(MaxHops + 1 <= MaxHops)
  BY TokenAssumption
<1>13. SearchSound'
  BY <1>3, <1>7, <1>9, <1>12 DEF SearchInv, SearchSound
<1>14. SearchComplete'
  BY <1>1, <1>3, <1>8, <1>9, <1>12 DEF SearchInv, SearchComplete
<1>15. ~patterns'.made
  BY <1>1, <1>3 DEF SearchInv
<1> QED BY <1>10, <1>11, <1>13, <1>14, <1>15 DEF SearchInv

(* The head is processed: who has received funds of it, and has not been   *)
(* found, waits with one hop more.                                         *)
LEMMA FollowInv ==
    ASSUME ParseTypes, SearchInv, Patterns!Follow, Head(queue).hops <= MaxHops
    PROVE  SearchInv'
<1> DEFINE a == queue[1].account
           h == queue[1].hops
           new == Patterns!Receivers(a) \ funded_wallets
           added == {[account |-> b, hops |-> h + 1] : b \in new}
           s == Patterns!SetToSeq(added)
<1>1. queue # <<>> /\ queue \in Seq(Waiting) /\ Patterns!Parsed /\ Head(queue) = queue[1]
      /\ Len(queue) \in Nat /\ Len(queue) > 0 /\ ~patterns.made
  <2>1. queue # <<>> /\ queue \in Seq(Waiting) /\ Patterns!Parsed /\ ~patterns.made
    BY DEF Patterns!Follow, SearchInv, SearchTypes
  <2>2. <<>> \in Seq(Waiting)
    OBVIOUS
  <2> QED BY <2>1, <2>2, HeadOff
<1>2. /\ a \in Patterns!Accounts /\ h \in 0..MaxHops /\ h \in Nat /\ h + 1 \in 0..(MaxHops + 1)
      /\ ~(h > MaxHops)
  <2>1. 1 \in 1..Len(queue)
    BY <1>1
  <2>2. a \in Patterns!Accounts /\ h \in 0..(MaxHops + 1) /\ h <= MaxHops
    BY <1>1, <2>1, WaitingTypes
  <2> QED BY <2>2, TokenAssumption
<1>3. SearchTypes /\ SearchOrder /\ SearchSound /\ SearchComplete
  BY <1>1 DEF SearchInv
<1> HIDE DEF a, h
<1>4. new \subseteq Patterns!Accounts /\ IsFiniteSet(new) /\ added \subseteq Waiting
      /\ IsFiniteSet(added)
  <2>1. new \subseteq Patterns!Accounts
    BY AccountTypes
  <2>2. IsFiniteSet(new)
    BY <2>1, AccountTypes, FS_Subset
  <2>3. added \subseteq Waiting
    BY <1>2, <2>1 DEF Waiting
  <2>4. IsFiniteSet(added)
    <3> DEFINE entry == [b \in new |-> [account |-> b, hops |-> h + 1]]
    <3> HIDE DEF new
    <3>1. added = {entry[b] : b \in new}
      OBVIOUS
    <3>2. entry \in Surjection(new, added)
      <4>1. entry \in [new -> added]
        OBVIOUS
      <4>2. \A x \in added : \E b \in new : entry[b] = x
        OBVIOUS
      <4> HIDE DEF entry, added
      <4> QED BY <4>1, <4>2 DEF Surjection
    <3> QED BY <2>2, <3>2, FS_Surjection
  <2> QED BY <2>1, <2>2, <2>3, <2>4
<1>5. /\ s \in Seq(Waiting) /\ \A x \in added : \E i \in 1..Len(s) : s[i] = x
      /\ \A i \in 1..Len(s) : s[i] \in added
  <2> HIDE DEF added
  <2>1. s \in Seq(added) /\ \A x \in added : \E i \in 1..Len(s) : s[i] = x
    BY <1>4, SequenceOfSet
  <2> HIDE DEF s
  <2>2. \A i \in 1..Len(s) : s[i] \in added
    BY <2>1, ElementOfSeq
  <2>3. s \in Seq(Waiting)
    BY <1>4, <2>1
  <2> QED BY <2>1, <2>2, <2>3
<1>6. /\ UNCHANGED <<patterns, trades, tx_timestamps, parsed>>
      /\ processed' = processed \union {a}
      /\ funded_wallets' = funded_wallets \union new
      /\ funded_wallets' = funded_wallets \union Patterns!Receivers(a)
      /\ queue' = Tail(queue) \o s
  <2> DEFINE found == IF Head(queue).account \in processed \/ Patterns!Beyond(Head(queue).hops)
                      THEN {} ELSE Patterns!Receivers(Head(queue).account) \ funded_wallets
  <2>1. ~Patterns!Beyond(Head(queue).hops) /\ Head(queue).account = a /\ Head(queue).hops = h
    BY <1>1, <1>2 DEF Patterns!Beyond, a, h
  <2>2. a \in processed => Patterns!Receivers(a) \subseteq funded_wallets
    BY <1>3 DEF SearchComplete
  <2>3. found = new
    BY <2>1, <2>2
  <2>4. /\ UNCHANGED <<patterns, Patterns!parsing>>
        /\ processed' = IF Patterns!Beyond(Head(queue).hops) THEN processed
                        ELSE processed \union {Head(queue).account}
        /\ funded_wallets' = funded_wallets \union found
        /\ queue' = Tail(queue) \o Patterns!SetToSeq(
               {[account |-> b, hops |-> Head(queue).hops + 1] : b \in found})
    BY DEF Patterns!Follow
  <2> HIDE DEF found
  <2>5. {[account |-> b, hops |-> Head(queue).hops + 1] : b \in found} = added
    BY <2>1, <2>3
  <2> QED BY <2>1, <2>3, <2>4, <2>5 DEF Patterns!parsing, Patterns!chain, Patterns!seen
<1> DEFINE k == Len(queue) - 1
<1>7. /\ queue' \in Seq(Waiting) /\ k \in Nat /\ Len(s) \in Nat /\ Len(queue') = k + Len(s)
      /\ \A i \in 1..k : queue'[i] = queue[i + 1]
      /\ \A i \in 1..Len(s) : queue'[k + i] = s[i]
  <2> HIDE DEF s
  <2>1. /\ queue' \in Seq(Waiting) /\ Len(s) \in Nat
        /\ Len(queue') = (Len(queue) - 1) + Len(s)
        /\ \A i \in 1..(Len(queue) - 1) : queue'[i] = queue[i + 1]
        /\ \A i \in 1..Len(s) : queue'[(Len(queue) - 1) + i] = s[i]
    BY <1>1, <1>5, <1>6, HeadOff
  <2> QED BY <1>1, <2>1
<1>8. \A i \in 1..k : i + 1 \in 1..Len(queue) /\ 1 < i + 1
  BY <1>1
<1>9. ASSUME NEW i \in 1..Len(queue')
      PROVE  \/ i \in 1..k /\ queue'[i] = queue[i + 1]
             \/ i > k /\ queue'[i] \in added
  <2> HIDE DEF s, added, k
  <2>1. CASE i <= k
    BY <1>7, <2>1
  <2>2. CASE i > k
    <3>1. i - k \in 1..Len(s) /\ k + (i - k) = i
      BY <1>7, <2>2
    <3>2. queue'[i] = s[i - k]
      BY <1>7, <3>1
    <3> QED BY <1>5, <2>2, <3>1, <3>2
  <2> QED BY <1>7, <2>1, <2>2
<1>10. \A i \in 1..k : i \in 1..Len(queue')
  BY <1>7
<1>11. \A b \in new : \E i \in 1..Len(queue') : queue'[i].account = b
  <2> TAKE b \in new
  <2>1. [account |-> b, hops |-> h + 1] \in added
    OBVIOUS
  <2>2. PICK i \in 1..Len(s) : s[i] = [account |-> b, hops |-> h + 1]
    BY <1>5, <2>1
  <2> HIDE DEF s, k
  <2>3. k + i \in 1..Len(queue')
    BY <1>7
  <2> QED BY <1>7, <2>2, <2>3
<1>12. \A i \in 1..Len(queue) : queue[i].hops \in 0..(MaxHops + 1) /\ queue[i].hops \in Nat
  BY <1>1, WaitingTypes
<1>13. \A i \in 1..k : queue'[i].hops \in h..(h + 1)
  <2> TAKE i \in 1..k
  <2>1. queue'[i].hops = queue[i + 1].hops /\ i + 1 \in 1..Len(queue) /\ 1 \in 1..Len(queue)
    BY <1>1, <1>7, <1>8
  <2>2. queue[1].hops <= queue[i + 1].hops /\ queue[i + 1].hops <= queue[1].hops + 1
    BY <1>3, <1>8, <2>1 DEF SearchOrder
  <2> QED BY <1>2, <1>12, <2>1, <2>2 DEF h
<1>14. \A x \in added : x.hops = h + 1 /\ x.account \in new
  OBVIOUS
<1> HIDE DEF new, s, added, k
<1>15. \A i \in 1..Len(queue') :
           queue'[i].hops \in h..(h + 1) /\ (i > k => queue'[i].hops = h + 1)
  BY <1>2, <1>7, <1>9, <1>13, <1>14
<1>16. SearchTypes'
  BY <1>1, <1>2, <1>3, <1>6, <1>7 DEF SearchTypes, Patterns!Parsed
<1>17. SearchOrder'
  <2>1. ASSUME NEW i \in 1..Len(queue'), NEW j \in 1..Len(queue'), i < j
        PROVE  queue'[i].hops <= queue'[j].hops
    <3>1. CASE j \in 1..k
      <4>1. i \in 1..k /\ i + 1 \in 1..Len(queue) /\ j + 1 \in 1..Len(queue) /\ i + 1 < j + 1
        BY <1>7, <1>8, <2>1, <3>1
      <4>2. queue[i + 1].hops <= queue[j + 1].hops
        BY <1>3, <4>1 DEF SearchOrder
      <4> QED BY <1>7, <3>1, <4>1, <4>2
    <3>2. CASE j > k
      BY <1>2, <1>15, <3>2
    <3> QED BY <1>7, <3>1, <3>2
  <2>2. ASSUME NEW j \in 1..Len(queue') PROVE queue'[j].hops <= queue'[1].hops + 1
    <3>1. 1 \in 1..Len(queue')
      BY <1>7
    <3>2. queue'[1].hops \in h..(h + 1) /\ queue'[j].hops \in h..(h + 1)
      BY <1>15, <3>1
    <3> QED BY <1>2, <3>2
  <2> QED BY <2>1, <2>2 DEF SearchOrder
<1>18. Hops' = Hops /\ Funded' = Funded /\ \A b : Patterns!Receivers(b)' = Patterns!Receivers(b)
  BY <1>6, HopsStay
<1>19. a \in Hops[h] /\ Hops[h] \subseteq Hops[MaxHops]
  <2>1. 1 \in 1..Len(queue) /\ queue[1].hops <= MaxHops
    BY <1>1, <1>2 DEF h
  <2>2. a \in Hops[h]
    BY <1>3, <2>1 DEF SearchSound, a, h
  <2> QED BY <1>2, <2>2, HopsGrow
<1>20. h < MaxHops => /\ h + 1 \in 1..MaxHops /\ (h + 1) - 1 = h
                      /\ Hops[h + 1] = Hops[h] \union UNION {Patterns!Receivers(b) : b \in Hops[h]}
  <2> SUFFICES ASSUME h < MaxHops
               PROVE  /\ h + 1 \in 1..MaxHops /\ (h + 1) - 1 = h
                      /\ Hops[h + 1] = Hops[h] \union UNION {Patterns!Receivers(b) : b \in Hops[h]}
    OBVIOUS
  <2>1. h + 1 \in 1..MaxHops /\ (h + 1) - 1 = h
    BY <1>2, TokenAssumption
  <2> QED BY <2>1, HopsHold
<1>21. SearchSound'
  <2>1. ASSUME NEW i \in 1..Len(queue'), queue'[i].hops <= MaxHops
        PROVE  queue'[i].account \in Hops[queue'[i].hops]
    <3>1. CASE i \in 1..k /\ queue'[i] = queue[i + 1]
      <4>1. i + 1 \in 1..Len(queue)
        BY <1>8, <3>1
      <4> QED BY <1>3, <2>1, <3>1, <4>1 DEF SearchSound
    <3>2. CASE queue'[i] \in added
      <4>1. queue'[i].hops = h + 1 /\ queue'[i].account \in Patterns!Receivers(a)
        BY <1>14, <3>2 DEF new
      <4>2. h < MaxHops
        BY <1>2, <2>1, <4>1, TokenAssumption
      <4> QED BY <1>19, <1>20, <4>1, <4>2
    <3> QED BY <1>9, <3>1, <3>2
  <2>2. processed' \subseteq Hops[MaxHops]
    BY <1>3, <1>6, <1>19 DEF SearchSound
  <2>3. funded_wallets' \subseteq Funded
    BY <1>3, <1>6, <1>19 DEF SearchSound, Funded
  <2> QED BY <1>6, <1>18, <2>1, <2>2, <2>3 DEF SearchSound
<1>22. AtHead = h
  BY <1>1 DEF AtHead, h
<1>23. \A b \in processed' : Patterns!Receivers(b) \subseteq funded_wallets'
  BY <1>3, <1>6 DEF SearchComplete
<1>24. \A b \in funded_wallets' \ processed' : \E i \in 1..Len(queue') : queue'[i].account = b
  <2> TAKE b \in funded_wallets' \ processed'
  <2>1. CASE b \in new
    BY <1>11, <2>1
  <2>2. CASE b \notin new
    <3>1. b \in funded_wallets \ processed /\ b # a
      BY <1>6, <2>2
    <3>2. PICK i \in 1..Len(queue) : queue[i].account = b
      BY <1>2, <1>3, <1>22, <3>1 DEF SearchComplete
    <3>3. i - 1 \in 1..k /\ (i - 1) + 1 = i
      BY <1>1, <3>1, <3>2 DEF a, k
    <3> QED BY <1>7, <1>10, <3>2, <3>3
  <2> QED BY <2>1, <2>2
<1>25. \A n \in 0..MaxHops : n < h => Hops[n] \subseteq processed'
  BY <1>3, <1>6, <1>22 DEF SearchComplete
(* As long as others wait with h hops, these have all that is missing.     *)
<1>26. \A b \in Hops[h] \ processed' :
           \E i \in 1..k : i \in 1..Len(queue') /\ queue'[i].account = b /\ queue'[i].hops = h
  <2> TAKE b \in Hops[h] \ processed'
  <2>1. PICK i \in 1..Len(queue) : queue[i].account = b /\ queue[i].hops = h
    BY <1>2, <1>3, <1>6, <1>22 DEF SearchComplete
  <2>2. i - 1 \in 1..k /\ (i - 1) + 1 = i
    BY <1>1, <1>6, <2>1 DEF a, k
  <2> QED BY <1>7, <1>10, <2>1, <2>2
<1> SUFFICES SearchComplete'
  BY <1>1, <1>6, <1>16, <1>17, <1>21 DEF SearchInv
<1>27. ASSUME NEW n, AtHead' = n, \A m \in 0..MaxHops : m < n => Hops[m] \subseteq processed',
              n <= MaxHops => \A b \in Hops[n] \ processed' :
                  \E i \in 1..Len(queue') : queue'[i].account = b /\ queue'[i].hops = n
       PROVE  SearchComplete'
  <2>1. \A m \in 0..MaxHops : m < AtHead' => Hops'[m] \subseteq processed'
    BY <1>18, <1>27
  <2>2. AtHead' <= MaxHops => \A b \in Hops'[AtHead'] \ processed' :
            \E i \in 1..Len(queue') : queue'[i].account = b /\ queue'[i].hops = AtHead'
    BY <1>18, <1>27
  <2>3. \A b \in processed' : Patterns!Receivers(b)' \subseteq funded_wallets'
    BY <1>18, <1>23
  <2> QED BY <1>24, <2>1, <2>2, <2>3 DEF SearchComplete
<1>28. CASE queue' = <<>>
  <2>1. AtHead' = MaxHops + 1 /\ ~(AtHead' <= MaxHops)
    BY <1>28, TokenAssumption DEF AtHead
  <2>2. Len(queue') = 0
    BY <1>28
  <2>3. funded_wallets' \subseteq processed'
    BY <1>24, <2>2
  <2>4. Hops[h] \subseteq processed'
    BY <1>26, <2>2
  <2>5. Patterns!Deployers \subseteq processed'
    <3>1. 0 \in 0..MaxHops /\ (h = 0 \/ 0 < h)
      BY <1>2, TokenAssumption
    <3> QED BY <1>25, <2>4, <3>1, HopsHold
  <2>6. \A n \in 0..MaxHops : Hops[n] \subseteq processed'
    BY <1>23, <2>3, <2>5, HopsWithin
  <2> QED BY <1>6, <1>18, <1>23, <2>1, <2>6 DEF SearchComplete
<1>29. CASE queue' # <<>>
  <2>0. 1 \in 1..Len(queue')
    <3>1. Len(queue') # 0
      BY <1>7, <1>29, EmptySeq
    <3> QED BY <1>7, <3>1
  <2>1. AtHead' = queue'[1].hops
    BY <1>29 DEF AtHead
  <2>2. CASE queue'[1].hops = h
    BY <1>25, <1>26, <1>27, <2>1, <2>2
  <2>3. CASE queue'[1].hops # h
    <3>1. queue'[1].hops = h + 1
      BY <1>2, <1>15, <2>0, <2>3
    <3>2. \A i \in 1..Len(queue') : queue'[i].hops = h + 1
      <4> TAKE i \in 1..Len(queue')
      <4>1. i = 1 \/ 1 < i
        OBVIOUS
      <4>2. queue'[1].hops <= queue'[i].hops
        BY <1>2, <1>17, <2>0, <3>1, <4>1 DEF SearchOrder
      <4> QED BY <1>2, <1>15, <3>1, <4>2
    <3>3. Hops[h] \subseteq processed'
      BY <1>2, <1>26, <3>2
    <3>4. \A n \in 0..MaxHops : n < h + 1 => Hops[n] \subseteq processed'
      <4>1. \A n \in 0..MaxHops : n < h + 1 => n < h \/ n = h
        BY <1>2
      <4> QED BY <1>25, <3>3, <4>1
    <3>5. ASSUME h + 1 <= MaxHops, NEW b \in Hops[h + 1] \ processed'
          PROVE  \E i \in 1..Len(queue') : queue'[i].account = b /\ queue'[i].hops = h + 1
      <4>1. h < MaxHops
        BY <1>2, <3>5, TokenAssumption
      <4>2. b \in funded_wallets'
        BY <1>20, <1>23, <3>3, <3>5, <4>1
      <4> QED BY <1>24, <3>2, <3>5, <4>2
    <3> QED BY <1>27, <2>1, <3>1, <3>4, <3>5
  <2> QED BY <2>2, <2>3
<1> QED BY <1>28, <1>29

(* A search that is over has found who is reached.                         *)
LEMMA SearchOverInv ==
    ASSUME ParseTypes, SearchInv, Patterns!Report
    PROVE  SearchInv'
<1>1. /\ UNCHANGED <<queue, processed, funded_wallets, parsed, trades, tx_timestamps>>
      /\ queue = <<>> /\ Patterns!Parsed
      /\ processed # {} \/ Patterns!Deployers = {}
  BY DEF Patterns!Report, Patterns!search, Patterns!Searched, Patterns!parsing, Patterns!chain,
         Patterns!seen
<1>2. Hops' = Hops /\ Funded' = Funded /\ \A a : Patterns!Receivers(a)' = Patterns!Receivers(a)
  BY <1>1, HopsStay
<1>3. AtHead = MaxHops + 1 /\ AtHead' = AtHead /\ MaxHops \in 0..MaxHops /\ MaxHops < AtHead
  BY <1>1, TokenAssumption DEF AtHead
<1>4. funded_wallets = Funded
  <2>1. CASE processed # {}
    <3>1. /\ Hops[MaxHops] \subseteq processed
          /\ \A a \in processed : Patterns!Receivers(a) \subseteq funded_wallets
      BY <1>3, <2>1 DEF SearchInv, SearchComplete
    <3> QED BY <3>1 DEF SearchInv, SearchSound, Funded
  <2>2. CASE processed = {} /\ Patterns!Deployers = {}
    <3>1. Hops[MaxHops] \subseteq {}
      BY <1>3, <2>2, HopsWithin
    <3> QED BY <2>2, <3>1 DEF SearchInv, SearchTypes, Funded
  <2> QED BY <1>1, <2>1, <2>2
<1>5. SearchTypes'
  BY <1>1 DEF SearchInv, SearchTypes, Patterns!Parsed
<1>6. SearchOrder' /\ SearchSound'
  BY <1>1, <1>2 DEF SearchInv, SearchOrder, SearchSound
<1>7. processed # {} => SearchComplete'
  BY <1>1, <1>2, <1>3 DEF SearchInv, SearchComplete
<1> QED BY <1>1, <1>2, <1>4, <1>5, <1>6, <1>7 DEF SearchInv

LEMMA NextSearchInv == ParseInv /\ SearchInv /\ [Patterns!Next]_patternVars => SearchInv'
<1> SUFFICES ASSUME ParseInv, SearchInv, [Patterns!Next]_patternVars PROVE SearchInv'
  OBVIOUS
<1>0. ParseTypes
  BY DEF ParseInv
<1>1. CASE UNCHANGED patternVars
  <2>1. UNCHANGED <<queue, processed, funded_wallets, patterns, parsed, trades, tx_timestamps>>
    BY <1>1 DEF patternVars
  <2>2. Hops' = Hops /\ Funded' = Funded /\ \A a : Patterns!Receivers(a)' = Patterns!Receivers(a)
    BY <2>1, HopsStay
  <2>3. AtHead' = AtHead
    BY <2>1 DEF AtHead
  <2>4. SearchTypes' /\ SearchOrder' /\ SearchSound'
    BY <2>1, <2>2 DEF SearchInv, SearchTypes, SearchOrder, SearchSound, Patterns!Parsed
  <2>5. SearchComplete => SearchComplete'
    BY <2>1, <2>2, <2>3 DEF SearchComplete
  <2> QED BY <2>1, <2>2, <2>4, <2>5 DEF SearchInv
(* Before all is parsed there is no search, and afterwards no parsing.     *)
<1>2. CASE Patterns!NextParsing /\ UNCHANGED <<queue, processed, funded_wallets, patterns>>
  <2>0. Len(trades) \in Nat /\ parsed \in Int
    BY <1>0, TradeValues DEF ParseTypes
  <2>1. ~Patterns!Parsed
    <3>1. parsed = -1 \/ parsed \in 0..(Len(trades) - 1) \/ parsed = Len(trades)
      BY <1>2 DEF Patterns!NextParsing, Patterns!Trade, Patterns!Lose, Patterns!Move,
           Patterns!Collected, Patterns!Parse, Patterns!FindMigrationTime
    <3> QED BY <2>0, <3>1 DEF Patterns!Parsed
  <2>2. queue = <<>> /\ processed = {} /\ funded_wallets = {} /\ ~patterns.made
    BY <2>1 DEF SearchInv, SearchTypes
  <2>3. queue' = <<>> /\ processed' = {} /\ funded_wallets' = {} /\ ~patterns'.made
    BY <1>2, <2>2
  <2>4. Len(queue') = 0 /\ queue' \in Seq(Waiting)
    BY <2>3
  <2> QED BY <2>3, <2>4 DEF SearchInv, SearchTypes, SearchOrder, SearchSound
<1>3. CASE Patterns!FindDeployer
  BY <1>0, <1>3, FindDeployerInv
<1>4. CASE Patterns!Follow
  <2>1. Head(queue).hops \in Nat
    <3>1. queue # <<>> /\ queue \in Seq(Waiting) /\ <<>> \in Seq(Waiting)
      BY <1>4 DEF Patterns!Follow, SearchInv, SearchTypes
    <3>2. Head(queue) \in Waiting
      BY <3>1, HeadOff
    <3> QED BY <3>2, TokenAssumption DEF Waiting
  <2>2. Head(queue).hops <= MaxHops \/ Head(queue).hops > MaxHops
    BY <2>1, TokenAssumption
  <2> HIDE DEF SearchInv
  <2> QED BY <1>0, <1>4, <2>2, BeyondInv, FollowInv
<1>5. CASE Patterns!Report
  BY <1>0, <1>5, SearchOverInv
<1> QED BY <1>1, <1>2, <1>3, <1>4, <1>5 DEF Patterns!Next, Patterns!search

(* The invariant says what the report has found.                           *)
LEMMA SearchFinds == SearchInv => FundedIsReachable
  BY FundedOfHops DEF SearchInv, Funded

(***************************************************************************)
(* The clusters of sales.                                                  *)
(***************************************************************************)

(* When a sale was; the property, in terms of any set of sales.            *)
At(s) == Patterns!Time(s[1])

Times(D) == {At(s) : s \in D}

Together(D, x, y) == \A u \in Times(D) :
    (u >= At(x) /\ u < At(y)) \/ (u >= At(y) /\ u < At(x))
        => \E v \in Times(D) : v \in (u + 1)..(u + 15)

RunOf(D, x) == {y \in D : Together(D, x, y)}

Runs(D) == {RunOf(D, x) : x \in D}

(* What a pass begins with, and its recursion, which takes the latest sale *)
(* off.                                                                    *)
NoSales == [clusters |-> {}, cluster |-> <<>>]

Pass == CHOOSE iter : iter = [D \in SUBSET Patterns!SellEvents |->
            IF D = {} THEN NoSales
            ELSE LET x == Patterns!LastSell(D) IN Patterns!NextSell(iter[D \ {x}], x)]

(* The pass of the model is that over all sales.                           *)
LEMMA SellPassIsPass == Patterns!SellPass = Pass[Patterns!SellEvents]
  BY DEF Patterns!SellPass, Patterns!MapThenFoldSet, Pass, NoSales

(* The property is that the clusters are the runs of three and more.       *)
LEMMA DominoesOfRuns ==
    DominoesFallTogether <=>
        (patterns.made =>
            Patterns!SellClusters =
                {r \in Runs(Patterns!SellEvents) : Cardinality(r) >= 3})
  BY DEF DominoesFallTogether, Patterns!DominoesFallTogether, Runs, RunOf, Together, Times, At,
         Patterns!Cardinality, Cardinality

(* Sales fall together reflexively, symmetrically and transitively.        *)
LEMMA TogetherIsEquivalence ==
    ASSUME NEW D, \A s \in D : At(s) \in Nat
    PROVE  /\ \A x \in D : Together(D, x, x)
           /\ \A x, y \in D : Together(D, x, y) => Together(D, y, x)
           /\ \A x, y, z \in D : Together(D, x, y) /\ Together(D, y, z) => Together(D, x, z)
<1>1. Times(D) \subseteq Nat
  BY DEF Times
<1>2. \A x \in D : Together(D, x, x)
  BY <1>1 DEF Together
<1>3. \A x, y \in D : Together(D, x, y) => Together(D, y, x)
  BY DEF Together
<1>4. ASSUME NEW x \in D, NEW y \in D, NEW z \in D, Together(D, x, y), Together(D, y, z)
      PROVE  Together(D, x, z)
  <2> SUFFICES ASSUME NEW u \in Times(D),
                      (u >= At(x) /\ u < At(z)) \/ (u >= At(z) /\ u < At(x))
               PROVE  \E v \in Times(D) : v \in (u + 1)..(u + 15)
    BY DEF Together
  <2>1. \/ (u >= At(x) /\ u < At(y)) \/ (u >= At(y) /\ u < At(x))
        \/ (u >= At(y) /\ u < At(z)) \/ (u >= At(z) /\ u < At(y))
    BY <1>1
  <2> QED BY <1>4, <2>1 DEF Together
<1> QED BY <1>2, <1>3, <1>4

(* A latest sale l is added, m is the latest of those before it.           *)
LEMMA TogetherAdded ==
    ASSUME NEW E, NEW l, NEW m \in E, At(l) \in Nat, \A s \in E : At(s) \in Nat,
           At(m) <= At(l), \A s \in E : At(s) <= At(m), NEW x \in E
    PROVE  LET D == E \union {l}
           IN  /\ \A y \in E : Together(D, x, y) <=> Together(E, x, y)
               /\ At(l) - At(m) <= 15 => (Together(D, x, l) <=> Together(E, x, m))
               /\ At(l) - At(m) > 15 => ~Together(D, x, l)
<1> DEFINE D == E \union {l}
<1>1. Times(D) = Times(E) \union {At(l)} /\ Times(E) \subseteq Nat /\ Times(D) \subseteq Nat
  BY DEF Times
<1>2. At(m) \in Times(E) /\ \A u \in Times(E) : u <= At(m)
  BY DEF Times
<1>3. At(x) \in Nat /\ At(x) <= At(m) /\ At(m) \in Nat
  OBVIOUS
<1>4. ASSUME NEW u \in Times(E), u < At(m), NEW v \in Times(D), v \in (u + 1)..(u + 15)
      PROVE  \E w \in Times(E) : w \in (u + 1)..(u + 15)
  <2>1. CASE v \in Times(E)
    BY <1>4, <2>1
  <2>2. CASE v = At(l)
    <3>1. At(m) \in (u + 1)..(u + 15)
      BY <1>1, <1>3, <1>4, <2>2
    <3> QED BY <1>2, <3>1
  <2> QED BY <1>1, <2>1, <2>2
<1>5. ASSUME NEW y \in E PROVE Together(D, x, y) <=> Together(E, x, y)
  <2>1. At(y) \in Nat /\ At(y) <= At(m)
    OBVIOUS
  <2>2. ASSUME Together(E, x, y) PROVE Together(D, x, y)
    <3> SUFFICES ASSUME NEW u \in Times(D),
                        (u >= At(x) /\ u < At(y)) \/ (u >= At(y) /\ u < At(x))
                 PROVE  \E v \in Times(D) : v \in (u + 1)..(u + 15)
      BY DEF Together
    <3>1. u \in Times(E)
      BY <1>1, <1>3, <2>1
    <3> QED BY <1>1, <2>2, <3>1 DEF Together
  <2>3. ASSUME Together(D, x, y) PROVE Together(E, x, y)
    <3> SUFFICES ASSUME NEW u \in Times(E),
                        (u >= At(x) /\ u < At(y)) \/ (u >= At(y) /\ u < At(x))
                 PROVE  \E v \in Times(E) : v \in (u + 1)..(u + 15)
      BY DEF Together
    <3>1. u < At(m) /\ u \in Times(D)
      BY <1>1, <1>3, <2>1
    <3> QED BY <1>4, <2>3, <3>1 DEF Together
  <2> QED BY <2>2, <2>3
<1>6. ASSUME At(l) - At(m) <= 15 PROVE Together(D, x, l) <=> Together(E, x, m)
  <2>1. ASSUME Together(E, x, m) PROVE Together(D, x, l)
    <3> SUFFICES ASSUME NEW u \in Times(D),
                        (u >= At(x) /\ u < At(l)) \/ (u >= At(l) /\ u < At(x))
                 PROVE  \E v \in Times(D) : v \in (u + 1)..(u + 15)
      BY DEF Together
    <3>1. u \in Times(E) /\ u >= At(x) /\ u < At(l)
      BY <1>1, <1>3
    <3>2. CASE u < At(m)
      BY <1>1, <2>1, <3>1, <3>2 DEF Together
    <3>3. CASE u >= At(m)
      <4>1. At(l) \in (u + 1)..(u + 15)
        BY <1>1, <1>3, <1>6, <3>1, <3>3
      <4> QED BY <1>1, <4>1
    <3> QED BY <1>1, <1>3, <3>2, <3>3
  <2>2. ASSUME Together(D, x, l) PROVE Together(E, x, m)
    <3> SUFFICES ASSUME NEW u \in Times(E),
                        (u >= At(x) /\ u < At(m)) \/ (u >= At(m) /\ u < At(x))
                 PROVE  \E v \in Times(E) : v \in (u + 1)..(u + 15)
      BY DEF Together
    <3>1. u < At(m) /\ u \in Times(D) /\ u >= At(x) /\ u < At(l)
      BY <1>1, <1>3
    <3> QED BY <1>4, <2>2, <3>1 DEF Together
  <2> QED BY <2>1, <2>2
<1>7. ASSUME At(l) - At(m) > 15, Together(D, x, l) PROVE FALSE
  <2>1. At(m) \in Times(D) /\ At(m) >= At(x) /\ At(m) < At(l)
    BY <1>1, <1>2, <1>3, <1>7
  <2>2. PICK v \in Times(D) : v \in (At(m) + 1)..(At(m) + 15)
    BY <1>7, <2>1 DEF Together
  <2>3. v # At(l) /\ v \notin Times(E)
    BY <1>1, <1>2, <1>3, <1>7, <2>2
  <2> QED BY <1>1, <2>3
<1> QED BY <1>5, <1>6, <1>7

(* A latest sale joins the latest run, or begins one of its own.           *)
LEMMA RunsAdded ==
    ASSUME NEW E, NEW l, l \notin E, NEW m \in E, At(l) \in Nat, \A s \in E : At(s) \in Nat,
           At(m) <= At(l), \A s \in E : At(s) <= At(m)
    PROVE  LET D == E \union {l}
           IN  /\ At(l) - At(m) <= 15 =>
                      /\ RunOf(D, l) = RunOf(E, m) \union {l}
                      /\ Runs(D) \ {RunOf(D, l)} = Runs(E) \ {RunOf(E, m)}
               /\ At(l) - At(m) > 15 =>
                      /\ RunOf(D, l) = {l}
                      /\ Runs(D) \ {RunOf(D, l)} = Runs(E)
<1> DEFINE D == E \union {l}
<1>1. \A s \in D : At(s) \in Nat
  OBVIOUS
<1>2. \A x \in E : \A y \in E : Together(D, x, y) <=> Together(E, x, y)
  BY TogetherAdded
<1>3. /\ Together(D, l, l) /\ \A y \in D : Together(D, l, y) <=> Together(D, y, l)
      /\ \A x, y \in E : Together(E, x, y) <=> Together(E, y, x)
      /\ \A x \in E : Together(E, x, x)
      /\ \A x, y, z \in E : Together(E, x, y) /\ Together(E, y, z) => Together(E, x, z)
  <2> HIDE DEF D
  <2>1. l \in D
    BY DEF D
  <2> QED BY <1>1, <2>1, TogetherIsEquivalence
<1>4. ASSUME At(l) - At(m) <= 15
      PROVE  /\ RunOf(D, l) = RunOf(E, m) \union {l}
             /\ Runs(D) \ {RunOf(D, l)} = Runs(E) \ {RunOf(E, m)}
  <2>1. \A x \in E : Together(D, x, l) <=> Together(E, x, m)
    BY <1>4, TogetherAdded
  <2> HIDE DEF D
  <2>2. RunOf(D, l) = RunOf(E, m) \union {l}
    BY <1>3, <2>1 DEF RunOf, D
  <2>3. ASSUME NEW x \in E, Together(E, x, m)
        PROVE  RunOf(D, x) = RunOf(D, l) /\ RunOf(E, x) = RunOf(E, m)
    <3>1. RunOf(E, x) = RunOf(E, m)
      BY <1>3, <2>3 DEF RunOf
    <3>2. RunOf(D, x) = RunOf(E, x) \union {l}
      BY <1>2, <2>1, <2>3 DEF RunOf, D
    <3> QED BY <2>2, <3>1, <3>2
  <2>4. ASSUME NEW x \in E, ~Together(E, x, m)
        PROVE  RunOf(D, x) = RunOf(E, x) /\ RunOf(E, x) # RunOf(E, m) /\ RunOf(E, x) # RunOf(D, l)
    <3>1. RunOf(D, x) = RunOf(E, x)
      BY <1>2, <2>1, <2>4 DEF RunOf, D
    <3>2. m \in RunOf(E, m) /\ m \notin RunOf(E, x) /\ l \notin RunOf(E, x)
      BY <1>3, <2>4 DEF RunOf
    <3> QED BY <2>2, <3>1, <3>2
  <2>5. Runs(D) = {RunOf(D, x) : x \in E} \union {RunOf(D, l)}
    BY DEF Runs, D
  <2> QED BY <2>2, <2>3, <2>4, <2>5 DEF Runs
<1>5. ASSUME At(l) - At(m) > 15
      PROVE  /\ RunOf(D, l) = {l}
             /\ Runs(D) \ {RunOf(D, l)} = Runs(E)
  <2>1. \A x \in E : ~Together(D, x, l)
    BY <1>5, TogetherAdded
  <2> HIDE DEF D
  <2>2. RunOf(D, l) = {l}
    BY <1>3, <2>1 DEF RunOf, D
  <2>3. \A x \in E : RunOf(D, x) = RunOf(E, x) /\ x \in RunOf(E, x) /\ l \notin RunOf(E, x)
    BY <1>2, <1>3, <2>1 DEF RunOf, D
  <2>4. Runs(D) = {RunOf(D, x) : x \in E} \union {RunOf(D, l)}
    BY DEF Runs, D
  <2> QED BY <2>2, <2>3, <2>4 DEF Runs
<1> QED BY <1>4, <1>5

(* Sales are finitely many, and have times.                                *)
LEMMA SellTypes ==
    ASSUME ParseTypes
    PROVE  /\ IsFiniteSet(Patterns!SellEvents)
           /\ \A s \in Patterns!SellEvents : At(s) \in Nat
<1>1. Patterns!SellEvents \subseteq Patterns!Indices \X Owners
  BY DEF Patterns!SellEvents, Patterns!Timed
<1>2. IsFiniteSet(Patterns!Indices \X Owners)
  BY TradeValues, TokenAssumption, FS_Product
<1>3. \A s \in Patterns!SellEvents : s[1] \in Patterns!Indices
  BY <1>1
<1> QED BY <1>1, <1>2, <1>3, FS_Subset, TradeValues DEF At

(* The one taken off is one of them, and none is later.                    *)
LEMMA LastOfSells ==
    ASSUME ParseTypes, NEW D \in SUBSET Patterns!SellEvents, D # {}
    PROVE  /\ Patterns!LastSell(D) \in D
           /\ \A s \in D : At(s) <= At(Patterns!LastSell(D))
<1>1. IsFiniteSet(D) /\ \A s \in D : At(s) \in Nat
  BY SellTypes, FS_Subset
<1> DEFINE f == [s \in D |-> At(s)]
<1>2. \A s \in D : f[s] = At(s) /\ f[s] \in Nat
  BY <1>1
<1> HIDE DEF f
<1>3. \E x \in D : \A y \in D : f[y] <= f[x]
  BY <1>1, <1>2, LargestValue
<1>4. \E x \in D : \A y \in D : At(y) <= At(x)
  BY <1>2, <1>3
<1> QED BY <1>4 DEF Patterns!LastSell, At

(* The recursion of the pass, for the sets in C.                           *)
PassOver(C, g) ==
    \A D \in C : g[D] = IF D = {} THEN NoSales
                        ELSE Patterns!NextSell(g[D \ {Patterns!LastSell(D)}], Patterns!LastSell(D))

(* There is a function that satisfies the recursion, for sets of each      *)
(* size.                                                                   *)
LEMMA PassesExist ==
    ASSUME ParseTypes
    PROVE  \A n \in Nat : \E g : PassOver(Upto(Patterns!SellEvents, n), g)
<1> DEFINE S == Patterns!SellEvents
           C == {n \in Nat : ~ \E g : PassOver(Upto(S, n), g)}
<1>1. SUFFICES ASSUME C # {} PROVE FALSE
  OBVIOUS
<1>2. PICK n \in C : \A k \in C : n <= k
  <2>1. C # {} /\ C \in SUBSET Nat
    BY <1>1
  <2> HIDE DEF C
  <2> QED BY <2>1, LeastNumber
<1>3. n \in Nat /\ ~ \E g : PassOver(Upto(S, n), g)
  BY <1>2
<1>4. IsFiniteSet(S)
  BY SellTypes
<1>5. ASSUME NEW k \in Nat, NEW D \in Upto(S, k), D # {}
      PROVE  k > 0 /\ D \ {Patterns!LastSell(D)} \in Upto(S, k - 1)
  <2>1. D \in SUBSET S /\ Cardinality(D) <= k
    BY DEF Upto
  <2>2. Patterns!LastSell(D) \in D /\ IsFiniteSet(D)
    BY <1>4, <1>5, <2>1, LastOfSells, FS_Subset
  <2>3. /\ Cardinality(D \ {Patterns!LastSell(D)}) = Cardinality(D) - 1
        /\ Cardinality(D) \in Nat /\ Cardinality(D \ {Patterns!LastSell(D)}) \in Nat
    BY <2>2, FS_RemoveElement, FS_CardinalityType, FS_Subset
  <2> QED BY <2>1, <2>3 DEF Upto
<1> HIDE DEF S
<1>6. CASE n = 0
  <2> DEFINE g == [D \in {{}} |-> NoSales]
  <2>1. \A D \in Upto(S, 0) : D = {}
    <3> SUFFICES ASSUME NEW D \in Upto(S, 0), D # {} PROVE FALSE
      OBVIOUS
    <3>1. 0 > 0
      BY <1>5
    <3> QED BY <3>1
  <2>2. g[{}] = NoSales
    OBVIOUS
  <2> HIDE DEF g
  <2>3. PassOver(Upto(S, 0), g)
    BY <2>1, <2>2 DEF PassOver
  <2> QED BY <1>3, <1>6, <2>3
<1>7. CASE n # 0
  <2>1. n - 1 \in Nat /\ n - 1 \notin C
    BY <1>2, <1>3, <1>7
  <2>2. PICK h : PassOver(Upto(S, n - 1), h)
    BY <2>1
  <2> DEFINE next(D) == IF D = {} THEN NoSales
                        ELSE Patterns!NextSell(h[D \ {Patterns!LastSell(D)}], Patterns!LastSell(D))
             g == [D \in Upto(S, n) |-> next(D)]
  <2>3. ASSUME NEW D \in Upto(S, n - 1) PROVE D \in Upto(S, n) /\ g[D] = h[D]
    <3>1. D \in SUBSET S /\ Cardinality(D) \in Nat /\ Cardinality(D) <= n - 1
      BY <1>4, FS_Subset, FS_CardinalityType DEF Upto
    <3>2. D \in Upto(S, n)
      BY <1>3, <3>1 DEF Upto
    <3>3. h[D] = next(D)
      BY <2>2 DEF PassOver
    <3> HIDE DEF next
    <3> QED BY <3>2, <3>3
  <2>4. \A D \in Upto(S, n) : g[D] = next(D)
    OBVIOUS
  <2> HIDE DEF g
  <2>5. ASSUME NEW D \in Upto(S, n), D # {}
        PROVE  g[D] = Patterns!NextSell(g[D \ {Patterns!LastSell(D)}], Patterns!LastSell(D))
    <3>1. g[D \ {Patterns!LastSell(D)}] = h[D \ {Patterns!LastSell(D)}]
      BY <1>3, <1>5, <2>3, <2>5
    <3> QED BY <2>4, <2>5, <3>1
  <2>6. PassOver(Upto(S, n), g)
    BY <2>4, <2>5 DEF PassOver
  <2> QED BY <1>3, <2>6
<1> QED BY <1>6, <1>7

(* So the pass satisfies it.                                               *)
LEMMA PassHolds ==
    ASSUME ParseTypes
    PROVE  PassOver(SUBSET Patterns!SellEvents, Pass)
<1> DEFINE S == Patterns!SellEvents
<1>1. IsFiniteSet(S) /\ Cardinality(S) \in Nat
  BY SellTypes, FS_CardinalityType
<1>2. Upto(S, Cardinality(S)) = SUBSET S
  BY <1>1, FS_Subset DEF Upto
<1>3. PICK h : PassOver(SUBSET S, h)
  BY <1>1, <1>2, PassesExist
<1> DEFINE g == [D \in SUBSET S |-> h[D]]
<1>4. \A D \in SUBSET S : g[D] = h[D] /\ D \ {Patterns!LastSell(D)} \in SUBSET S
  OBVIOUS
<1>5. g = [D \in SUBSET S |->
             IF D = {} THEN NoSales
             ELSE LET x == Patterns!LastSell(D) IN Patterns!NextSell(g[D \ {x}], x)]
  <2>1. ASSUME NEW D \in SUBSET S
        PROVE  h[D] = IF D = {} THEN NoSales
                      ELSE LET x == Patterns!LastSell(D) IN Patterns!NextSell(g[D \ {x}], x)
    <3>1. h[D] = IF D = {} THEN NoSales
                 ELSE Patterns!NextSell(h[D \ {Patterns!LastSell(D)}], Patterns!LastSell(D))
      BY <1>3 DEF PassOver
    <3> HIDE DEF g
    <3> QED BY <1>4, <3>1
  <2> QED BY <2>1
<1> HIDE DEF g
<1>6. Pass = [D \in SUBSET S |->
             IF D = {} THEN NoSales
             ELSE LET x == Patterns!LastSell(D) IN Patterns!NextSell(Pass[D \ {x}], x)]
  BY <1>5 DEF Pass
<1> HIDE DEF Pass
<1> QED BY <1>6 DEF PassOver

(* What a pass over the sales D leaves: the run of the latest sale, and    *)
(* the other runs of three and more.                                       *)
PassOf(D, acc) ==
    LET run == RunOf(D, Patterns!LastSell(D))
    IN  /\ acc = [clusters |-> {r \in Runs(D) \ {run} : Cardinality(r) >= 3},
                  cluster |-> acc.cluster]
        /\ acc.cluster \in Seq(D) /\ acc.cluster # <<>>
        /\ acc.cluster[Len(acc.cluster)] = Patterns!LastSell(D)
        /\ Patterns!ToSet(acc.cluster) = run /\ Len(acc.cluster) = Cardinality(run)

(* A cluster that is begun.                                                *)
LEMMA OneSale ==
    ASSUME NEW D, NEW x \in D
    PROVE  /\ <<x>> \in Seq(D) /\ <<x>> # <<>> /\ Len(<<x>>) = 1 /\ <<x>>[1] = x
           /\ Patterns!ToSet(<<x>>) = {x} /\ Cardinality({x}) = 1
<1>1. <<x>> \in Seq(D) /\ <<x>> # <<>> /\ Len(<<x>>) = 1 /\ <<x>>[1] = x
  OBVIOUS
<1>2. DOMAIN <<x>> = {1}
  BY <1>1
<1> QED BY <1>1, <1>2, FS_Singleton DEF Patterns!ToSet

(* A cluster that is continued.                                            *)
LEMMA OneMoreSale ==
    ASSUME NEW D, NEW c \in Seq(D), NEW x \in D
    PROVE  /\ Append(c, x) \in Seq(D) /\ Append(c, x) # <<>>
           /\ Len(Append(c, x)) = Len(c) + 1 /\ Append(c, x)[Len(c) + 1] = x
           /\ Patterns!ToSet(Append(c, x)) = Patterns!ToSet(c) \union {x}
<1>1. /\ Append(c, x) \in Seq(D) /\ Append(c, x) # <<>> /\ Len(c) \in Nat
      /\ Len(Append(c, x)) = Len(c) + 1 /\ Append(c, x)[Len(c) + 1] = x
      /\ \A i \in 1..Len(c) : Append(c, x)[i] = c[i]
  BY AppendProperties, LenProperties
<1>2. DOMAIN Append(c, x) = (1..Len(c)) \union {Len(c) + 1} /\ DOMAIN c = 1..Len(c)
  BY <1>1, LenProperties
<1> QED BY <1>1, <1>2 DEF Patterns!ToSet

(* A smallest set for which the pass is wrong has a latest sale, and is    *)
(* wrong without it.                                                       *)
LEMMA PassFinds ==
    ASSUME ParseTypes, NEW D \in SUBSET Patterns!SellEvents, D # {}
    PROVE  PassOf(D, Pass[D])
<1> DEFINE S == Patterns!SellEvents
           C == {U \in SUBSET S : U # {} /\ ~PassOf(U, Pass[U])}
<1>1. SUFFICES ASSUME C # {} PROVE FALSE
  OBVIOUS
<1>2. IsFiniteSet(S) /\ \A s \in S : At(s) \in Nat
  BY SellTypes
<1>3. PICK M \in C : \A U \in C : U \subseteq M => U = M
  <2>1. C # {} /\ \A U \in C : U \subseteq S
    BY <1>1
  <2> HIDE DEF C
  <2> QED BY <1>2, <2>1, MinimalSet
<1> DEFINE l == Patterns!LastSell(M)
           E == M \ {l}
           m == Patterns!LastSell(E)
           old == Pass[E]
           acc == Pass[M]
<1>4. M \in SUBSET S /\ M # {} /\ ~PassOf(M, acc)
  BY <1>3
<1>5. l \in M /\ \A s \in M : At(s) <= At(l)
  BY <1>4, LastOfSells
<1>6. acc = Patterns!NextSell(old, l)
  BY <1>4, PassHolds DEF PassOver
<1>7. E \in SUBSET S /\ l \notin E /\ E \union {l} = M /\ E # M /\ E \subseteq M
  BY <1>4, <1>5
<1>8. IsFiniteSet(M) /\ IsFiniteSet(E)
  BY <1>2, <1>4, <1>7, FS_Subset
<1>9. CASE E = {}
  <2>1. old = NoSales
    BY <1>7, <1>9, PassHolds DEF PassOver
  <2>2. acc = [clusters |-> {}, cluster |-> <<l>>]
    <3> HIDE DEF old, acc, l
    <3>1. old.cluster = <<>> /\ old = [clusters |-> {}, cluster |-> <<>>]
      BY <2>1 DEF NoSales
    <3>2. acc = [old EXCEPT !.cluster = Append(@, l)]
      BY <1>6, <3>1 DEF Patterns!NextSell
    <3>3. Append(<<>>, l) = <<l>>
      OBVIOUS
    <3> QED BY <3>1, <3>2, <3>3
  <2>3. M = {l} /\ RunOf(M, l) = {l} /\ Runs(M) = {{l}}
    <3>1. M = {l}
      BY <1>7, <1>9
    <3>2. Together(M, l, l)
      BY <1>2, <1>4, <1>5, TogetherIsEquivalence
    <3>3. RunOf(M, l) = {l}
      BY <3>1, <3>2 DEF RunOf
    <3> QED BY <3>1, <3>3 DEF Runs
  <2>4. PassOf(M, acc)
    <3> HIDE DEF acc
    <3>1. acc.cluster = <<l>> /\ {r \in Runs(M) \ {RunOf(M, l)} : Cardinality(r) >= 3} = {}
      BY <2>2, <2>3
    <3>2. acc = [clusters |-> {}, cluster |-> acc.cluster]
      BY <2>2
    <3> QED BY <1>5, <2>3, <3>1, <3>2, OneSale DEF PassOf
  <2> QED BY <1>4, <2>4
<1>10. CASE E # {}
  <2>1. E \notin C
    BY <1>3, <1>7
  <2>2. PassOf(E, old)
    BY <1>7, <1>10, <2>1
  <2>3. m \in E /\ At(m) \in Nat /\ At(l) \in Nat /\ At(m) <= At(l) /\ \A s \in E : At(s) <= At(m)
    BY <1>2, <1>4, <1>5, <1>7, <1>10, LastOfSells
  <2>4. \A s \in E : At(s) \in Nat
    BY <1>2, <1>7
  <2>5. RunOf(E, m) \subseteq E /\ IsFiniteSet(RunOf(E, m))
    <3>1. RunOf(E, m) \subseteq E
      BY DEF RunOf
    <3> QED BY <1>8, <3>1, FS_Subset
  <2>6. /\ old = [clusters |-> {r \in Runs(E) \ {RunOf(E, m)} : Cardinality(r) >= 3},
                  cluster |-> old.cluster]
        /\ old.cluster \in Seq(E) /\ old.cluster # <<>>
        /\ old.cluster[Len(old.cluster)] = m
        /\ Patterns!ToSet(old.cluster) = RunOf(E, m)
        /\ Len(old.cluster) = Cardinality(RunOf(E, m))
    BY <2>2 DEF PassOf
  <2>7. /\ At(l) - At(m) <= 15 =>
               /\ RunOf(M, l) = RunOf(E, m) \union {l}
               /\ Runs(M) \ {RunOf(M, l)} = Runs(E) \ {RunOf(E, m)}
        /\ At(l) - At(m) > 15 =>
               /\ RunOf(M, l) = {l}
               /\ Runs(M) \ {RunOf(M, l)} = Runs(E)
    <3> HIDE DEF E, l, m
    <3>1. /\ At(l) - At(m) <= 15 =>
                 /\ RunOf(E \union {l}, l) = RunOf(E, m) \union {l}
                 /\ Runs(E \union {l}) \ {RunOf(E \union {l}, l)} = Runs(E) \ {RunOf(E, m)}
          /\ At(l) - At(m) > 15 =>
                 /\ RunOf(E \union {l}, l) = {l}
                 /\ Runs(E \union {l}) \ {RunOf(E \union {l}, l)} = Runs(E)
      BY <1>7, <2>3, <2>4, RunsAdded
    <3> QED BY <1>7, <3>1
  <2>8. Patterns!Time(l[1]) - Patterns!Time(Patterns!Last(old.cluster)[1]) = At(l) - At(m)
    BY <2>6 DEF At, Patterns!Last
  <2> HIDE DEF E, m, old
  <2>9. CASE At(l) - At(m) <= 15
    <3>1. acc = [old EXCEPT !.cluster = Append(old.cluster, l)]
      BY <1>6, <2>8, <2>9 DEF Patterns!NextSell
    <3> HIDE DEF acc, l
    <3>2. /\ acc.cluster = Append(old.cluster, l) /\ acc.clusters = old.clusters
          /\ acc = [clusters |-> acc.clusters, cluster |-> acc.cluster]
      BY <2>6, <3>1
    <3>3. old.clusters = {r \in Runs(M) \ {RunOf(M, l)} : Cardinality(r) >= 3}
      BY <2>6, <2>7, <2>9
    <3>4. Cardinality(RunOf(M, l)) = Cardinality(RunOf(E, m)) + 1
      BY <1>7, <2>5, <2>7, <2>9, FS_AddElement
    <3>5. old.cluster \in Seq(M)
      BY <1>7, <2>6
    <3>6. /\ acc.cluster \in Seq(M) /\ acc.cluster # <<>>
          /\ Len(acc.cluster) = Cardinality(RunOf(M, l))
          /\ acc.cluster[Len(acc.cluster)] = l
          /\ Patterns!ToSet(acc.cluster) = RunOf(M, l)
      <4> DEFINE c == old.cluster
      <4>1. c \in Seq(M) /\ Len(c) = Cardinality(RunOf(E, m)) /\ Patterns!ToSet(c) = RunOf(E, m)
        BY <2>6, <3>5
      <4>2. acc.cluster = Append(c, l)
        BY <3>2
      <4> HIDE DEF c
      <4>3. /\ Append(c, l) \in Seq(M) /\ Append(c, l) # <<>>
            /\ Len(Append(c, l)) = Len(c) + 1 /\ Append(c, l)[Len(c) + 1] = l
            /\ Patterns!ToSet(Append(c, l)) = Patterns!ToSet(c) \union {l}
        BY <1>5, <4>1, OneMoreSale
      <4> QED BY <2>7, <2>9, <3>4, <4>1, <4>2, <4>3
    <3>7. PassOf(M, acc)
      BY <3>2, <3>3, <3>6 DEF PassOf, l
    <3> QED BY <1>4, <3>7
  <2>10. CASE At(l) - At(m) > 15
    <3>1. acc = [clusters |-> IF Len(old.cluster) >= 3
                              THEN old.clusters \union {Patterns!ToSet(old.cluster)}
                              ELSE old.clusters,
                 cluster |-> <<l>>]
      <4>1. ~(At(l) - At(m) <= 15)
        BY <2>3, <2>10
      <4> QED BY <1>6, <2>6, <2>8, <4>1 DEF Patterns!NextSell
    <3> HIDE DEF acc, l
    <3>2. acc.cluster = <<l>>
      BY <3>1
    <3>3. acc.clusters = {r \in Runs(E) : Cardinality(r) >= 3}
      <4>1. RunOf(E, m) \in Runs(E)
        BY <2>3 DEF Runs
      <4>2. old.clusters = {r \in Runs(E) \ {RunOf(E, m)} : Cardinality(r) >= 3}
        BY <2>6
      <4>3. acc.clusters = IF Cardinality(RunOf(E, m)) >= 3 THEN old.clusters \union {RunOf(E, m)}
                           ELSE old.clusters
        BY <2>6, <3>1
      <4> QED BY <4>1, <4>2, <4>3
    <3>4. acc = [clusters |-> {r \in Runs(M) \ {RunOf(M, l)} : Cardinality(r) >= 3},
                 cluster |-> acc.cluster]
      <4>1. acc = [clusters |-> acc.clusters, cluster |-> acc.cluster]
        BY <3>1
      <4> QED BY <2>7, <2>10, <3>3, <4>1
    <3>5. PassOf(M, acc)
      <4>1. /\ acc.cluster \in Seq(M) /\ acc.cluster # <<>> /\ Len(acc.cluster) = 1
            /\ acc.cluster[1] = l /\ Patterns!ToSet(acc.cluster) = {l} /\ Cardinality({l}) = 1
        BY <1>5, <3>2, OneSale
      <4>2. RunOf(M, l) = {l}
        BY <2>7, <2>10
      <4> QED BY <3>4, <4>1, <4>2 DEF PassOf, l
    <3> QED BY <1>4, <3>5
  <2> QED BY <2>3, <2>9, <2>10
<1> QED BY <1>9, <1>10

(* With the cluster that is left at the end, all runs are found.           *)
LEMMA ClustersAreRuns == ParseTypes => DominoesFallTogether
<1> SUFFICES ASSUME ParseTypes
             PROVE  Patterns!SellClusters = {r \in Runs(Patterns!SellEvents) : Cardinality(r) >= 3}
  BY DominoesOfRuns
<1> DEFINE S == Patterns!SellEvents
           acc == Pass[S]
           run == RunOf(S, Patterns!LastSell(S))
<1>1. Patterns!SellClusters =
          acc.clusters \union IF Len(acc.cluster) >= 3 THEN {Patterns!ToSet(acc.cluster)} ELSE {}
  BY SellPassIsPass DEF Patterns!SellClusters
<1>2. CASE S = {}
  <2>1. acc = NoSales
    BY <1>2, PassHolds DEF PassOver
  <2> HIDE DEF acc
  <2>2. acc.clusters = {} /\ Len(acc.cluster) = 0
    BY <2>1 DEF NoSales
  <2> QED BY <1>1, <1>2, <2>2 DEF Runs
<1>3. CASE S # {}
  <2>1. PassOf(S, acc)
    BY <1>3, PassFinds
  <2>2. Patterns!LastSell(S) \in S
    BY <1>3, LastOfSells
  <2> HIDE DEF acc, S
  <2>3. /\ acc.clusters = {r \in Runs(S) \ {run} : Cardinality(r) >= 3}
        /\ Patterns!ToSet(acc.cluster) = run /\ Len(acc.cluster) = Cardinality(run)
    BY <2>1 DEF PassOf
  <2>4. run \in Runs(S)
    BY <2>2 DEF Runs
  <2> HIDE DEF run
  <2> QED BY <1>1, <2>3, <2>4 DEF S
<1> QED BY <1>2, <1>3

(***************************************************************************)
(* All metrics.                                                            *)
(***************************************************************************)

MetricsInv == WalletInv /\ ParseInv /\ SearchInv /\ ScoreInv

LEMMA InitMetricsInv == InitMetrics => MetricsInv
<1> SUFFICES ASSUME InitMetrics PROVE MetricsInv
  OBVIOUS
<1>1. Init /\ Patterns!Init /\ Patterns!InitParsing /\ Scores!Init
  BY DEF InitMetrics, Patterns!Init
<1> QED BY <1>1, InitWalletInv, InitParseInv, InitSearchInv, InitScoreInv DEF MetricsInv

LEMMA NextMetricsInv ==
    MetricsInv /\ [NextMetrics]_<<group, wallets, patternVars, scores>> => MetricsInv'
<1> SUFFICES ASSUME MetricsInv, [NextMetrics]_<<group, wallets, patternVars, scores>>
             PROVE  MetricsInv'
  OBVIOUS
<1>1. /\ [Next]_vars
      /\ [Patterns!Next]_patternVars
      /\ [Scores!Next]_(Scores!vars)
  BY DEF NextMetrics, wallets, scores, Scores!vars
<1> QED BY <1>1, NextWalletInv, NextParseInv, NextSearchInv, NextScoreInv
       DEF MetricsInv

LEMMA MetricsInvHolds == SpecMetrics => []MetricsInv
  BY InitMetricsInv, NextMetricsInv, PTL DEF SpecMetrics

(* A market maker is not suspicious, unless coordinated, and a whale of    *)
(* the bots is, unless it trades more: for any profiles and histories.     *)
THEOREM JudgementsDoAgree == SpecMetrics => []JudgementsAgree
<1>1. MetricsInv => JudgementsAgree
  BY HolderJudgementsAgree DEF MetricsInv, WalletInv
<1> QED BY <1>1, MetricsInvHolds, PTL

(* However the loops come to the holders, malicious supply is suspicious,  *)
(* and its level is never the higher one.                                  *)
THEOREM MaliciousStaysSuspicious == SpecMetrics => []MaliciousIsSuspicious
<1>1. MetricsInv => MaliciousIsSuspicious
  BY DEF MetricsInv, WalletInv
<1> QED BY <1>1, MetricsInvHolds, PTL

(* Whatever is traded between any accounts of any owners, whichever of the *)
(* transactions are lost and in whichever order the others are listed, the *)
(* fields that are parsed keep the peaks and the earliest times.           *)
THEOREM ParsingKeepsPeaks == SpecMetrics => []HoldersKeepPeaks
<1>1. MetricsInv => HoldersKeepPeaks
  BY ParsedFields DEF MetricsInv
<1> QED BY <1>1, MetricsInvHolds, PTL

(* For any sales, at any times, with any number at one time: the one pass  *)
(* over them, the last cluster included, finds the longest runs in which   *)
(* no pause is over fifteen seconds.                                       *)
THEOREM DominoesDoFallTogether == SpecMetrics => []DominoesFallTogether
<1>1. MetricsInv => DominoesFallTogether
  BY ClustersAreRuns DEF MetricsInv, ParseInv
<1> QED BY <1>1, MetricsInvHolds, PTL

(* Whatever the order of the list, who may be named twice in the queue,    *)
(* the search for the wallets of the deployer, which stops at hops and not *)
(* at wallets, finds all who are reached and nobody else.                  *)
THEOREM FundedAreReachable == SpecMetrics => []FundedIsReachable
<1>1. MetricsInv => FundedIsReachable
  BY SearchFinds DEF MetricsInv
<1> QED BY <1>1, MetricsInvHolds, PTL

(* Whatever the metrics return, market makers take one level off at most.  *)
THEOREM BonusIsLimited == SpecMetrics => []BonusCostsOneLevel
<1>1. MetricsInv => BonusCostsOneLevel
  BY DEF MetricsInv, ScoreInv, BonusCostsOneLevel
<1> QED BY <1>1, MetricsInvHolds, PTL
===============================================================================
