----------------------------- MODULE MCScheduler ------------------------------
(* Instances of Scheduler for TLC: the loop alone with more tokens than are *)
(* in a batch, and the loop with a background task, a token that can be     *)
(* analysed and one that cannot.  The variable `crowd` says which, and      *)
(* never changes.                                                           *)
EXTENDS Scheduler

CONSTANTS m1, m2, m3, c1

VARIABLE crowd

(* What the instance leaves out is never begun: the background tasks, or    *)
(* the collection of m2.  Neither is owed to anyone (see Fairness).         *)
Left == IF crowd THEN \A c \in Callers : task[c].at = "idle" ELSE m2 \notin stored /\ bad = {m3}

InitScheduler == crowd \in BOOLEAN /\ Init /\ Left

(* Without background tasks nothing may be left to do once the loop ended.  *)
Rest == crowd /\ task[Loop].at = "idle" /\ UNCHANGED <<vars, crowd>>

NextScheduler == (Next /\ UNCHANGED crowd /\ Left') \/ Rest

FairScheduler == InitScheduler /\ [][NextScheduler]_<<vars, crowd>> /\ Fairness
===============================================================================
