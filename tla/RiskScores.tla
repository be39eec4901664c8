------------------------------ MODULE RiskScores ------------------------------
(***************************************************************************)
(* The two scores that TokenAnalyzer makes of its metrics.                 *)
(*                                                                         *)
(* get_hard_risk_score adds what one metric after the other contributes,   *)
(* takes a bonus off for market makers, and cuts the sum to 100.  A metric *)
(* may have any of its results, and the malicious supply and that of the   *)
(* market makers share the supply.  Scores are in tenths of a point.       *)
(* get_revolutionary_risk_score weighs five ratios, in percent.            *)
(***************************************************************************)
EXTENDS Integers, Sequences, FiniteSetsExt

CONSTANTS
    Percents,       \* ratios, within 0..100
    MoreThanAll     \* one that is over 100 percent

ScoresAssumption == Percents \subseteq 0..100 /\ MoreThanAll \in Nat

VARIABLES
    stage,          \* the part that comes next, or 0 for the other score
    risk_score,
    explained,      \* the sum of the scores of `anomalies`
    malicious,      \* malicious_supply_percent
    level,          \* from 0, LOW or MINIMAL, upwards
    scam_type

vars == <<stage, risk_score, explained, malicious, level, scam_type>>

(* The metrics in the order of the method, and the points that each adds;  *)
(* those of a metric that returns an error, or is below a bar, are 0.      *)
Parts == <<"early", "speed", "pre_migration", "pressure", "correlation", "whale", "malicious",
           "snipers", "robotic", "makers">>

Finished == stage = Len(Parts) + 1
Scored == Len(Parts) + 2        \* a stage, after the other score

Points ==
    [early |-> 0..20, speed |-> {0, 25, 40}, pre_migration |-> {0, 15, 25, 30},
     pressure |-> {0, 5, 15, 25}, correlation |-> {0, 5, 20}, whale |-> {0, 20},
     snipers |-> {0, 10, 25, 40}, robotic |-> {0, 2, 5, 10, 15, 25}]

Init ==
    /\ stage \in {0, 1}
    /\ risk_score = 0 /\ explained = 0 /\ malicious = 0
    /\ level = 0 /\ scam_type = "none"

Add(points) == risk_score' = risk_score + 10 * points /\ explained' = explained + 10 * points

AddPart ==
    /\ stage \in DOMAIN Parts /\ Parts[stage] \in DOMAIN Points
    /\ \E points \in Points[Parts[stage]] : Add(points)
    /\ stage' = stage + 1
    /\ UNCHANGED <<malicious, level, scam_type>>

(* Mutant: the first step of the malicious supply is lower.                *)
LowerFirstStep(percent) ==
    IF percent >= 50 THEN 70 ELSE IF percent >= 30 THEN 50 ELSE IF percent >= 15 THEN 25
    ELSE IF percent >= 5 THEN 15 ELSE 0

MaliciousPoints(percent) ==
    IF percent >= 50 THEN 70 ELSE IF percent >= 30 THEN 50 ELSE IF percent >= 15 THEN 30
    ELSE IF percent >= 5 THEN 15 ELSE 0

AddMalicious ==
    /\ stage \in DOMAIN Parts /\ Parts[stage] = "malicious"
    /\ \E percent \in Percents :
           /\ Add(MaliciousPoints(percent))
           /\ malicious' = percent
    /\ stage' = stage + 1
    /\ UNCHANGED <<level, scam_type>>

(* Half of the share of the market makers, and at most 15 points, come off; *)
(* the anomalies say how many whole points that is.                        *)
Bonus(percent) == Min({5 * percent, 150})

RiskLevel(score) == IF score >= 600 THEN 3 ELSE IF score >= 350 THEN 2 ELSE IF score >= 150 THEN 1 ELSE 0

Finish ==
    /\ stage \in DOMAIN Parts /\ Parts[stage] = "makers"
    /\ \E percent \in {p \in Percents : p + malicious <= 100} :
           LET score == Max({0, risk_score - Bonus(percent)})
           IN  /\ risk_score' = Min({score, 1000})
               /\ explained' = explained - 10 * (Bonus(percent) \div 10)
               /\ level' = RiskLevel(risk_score')
    /\ stage' = stage + 1
    /\ UNCHANGED <<malicious, scam_type>>

-------------------------------------------------------------------------------
(* _identify_scam_type: the first that applies.                            *)
ScamType(entropy, inflation, domino, sold, dump, herding) ==
    IF sold > 70 THEN "INSTANT_RUGPULL"
    ELSE IF herding > 70 THEN "COORDINATED_DUMP"
    ELSE IF inflation > 60 THEN "FAKE_HOLDERS"
    ELSE IF entropy < 15 THEN "FULLY_AUTOMATED_SCAM"
    ELSE IF domino > 40 THEN "SYNCHRONIZED_DUMP"
    ELSE IF dump > 30 THEN "EARLY_INSIDER_DUMP" ELSE "TRADITIONAL_PUMP_DUMP"

(* The weights are 3, 2.5, 2.5, 2 and 2, out of 12.                        *)
Weighted(entropy, inflation, domino, sold, herding) ==
    (10 * (30 * (100 - entropy) + 25 * inflation + 25 * domino + 20 * sold + 20 * herding)) \div 120

RevolutionaryLevel(score) ==
    IF score >= 700 THEN 4 ELSE IF score >= 500 THEN 3 ELSE IF score >= 300 THEN 2
    ELSE IF score >= 150 THEN 1 ELSE 0

Revolutionary ==
    /\ stage = 0
    /\ \E entropy, domino, sold, dump, herding \in Percents, inflation \in Percents \union {MoreThanAll} :
           /\ risk_score' = Min({1000, Weighted(entropy, inflation, domino, sold, herding)})
           /\ level' = RevolutionaryLevel(risk_score')
           /\ scam_type' = ScamType(entropy, inflation, domino, sold, dump, herding)
    /\ stage' = Scored
    /\ UNCHANGED <<explained, malicious>>

Next == AddPart \/ AddMalicious \/ Finish \/ Revolutionary

Spec == Init /\ [][Next]_vars

-------------------------------------------------------------------------------
(* The level of get_malicious_supply_index.                                *)
MaliciousLevel ==
    IF malicious >= 30 THEN 3 ELSE IF malicious >= 15 THEN 2 ELSE IF malicious >= 5 THEN 1 ELSE 0

(* Whatever the market makers hold, their bonus takes one level at most    *)
(* off what the malicious supply has by itself, and the anomalies that the *)
(* method lists add up to the score, but for less than a point, where it   *)
(* is not cut at 0 or at 100.                                              *)
BonusCostsOneLevel ==
    Finished =>
        /\ level >= MaliciousLevel - 1
        /\ risk_score \in 1..999 => explained - risk_score \in 0..9
===============================================================================
