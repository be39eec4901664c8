--------------------------- MODULE MCAnalysisTasks ----------------------------
(* An instance for TLC of what the dashboard waits for: analyses, with the *)
(* service that runs them (AnalysisTasks), and batches (Dashboard).  They  *)
(* share no state, so a behaviour is about one of the two.                 *)
EXTENDS AnalysisTasks

CONSTANTS t1, t2, t3, b1, b2, Jobs, Polls, j1, j2, p1, p2

VARIABLES waits, job, posting, currentJobId, jobInterval, poll, timers, announced, alone

Batches == INSTANCE Dashboard

batches == <<job, posting, currentJobId, jobInterval, poll, timers, announced, alone>>

InitBoth == Init /\ Batches!Init /\ waits \in {"analyses", "batches"}

NextBoth ==
    \/ waits = "analyses" /\ Next /\ UNCHANGED <<waits, batches>>
    \/ waits = "batches" /\ Batches!Next /\ UNCHANGED <<waits, vars>>

SpecBoth == InitBoth /\ [][NextBoth]_<<waits, vars, batches>>
FairBoth == SpecBoth /\ Fairness /\ Batches!Fairness

(* A batch that nothing disturbs is reported: see Dashboard.               *)
LoneBatchIsReported == Batches!LoneBatchIsReported
===============================================================================
