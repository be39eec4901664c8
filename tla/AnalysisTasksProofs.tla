------------------------- MODULE AnalysisTasksProofs --------------------------
(* Proofs of the safety properties of AnalysisTasks, for any sets of tasks *)
(* and tabs, any pool and any number of attempts.                          *)
EXTENDS AnalysisTasks, TLAPS

(* A task that was not started holds no outcome.                           *)
NothingStored == \A t \in Tasks : thread[t] = "none" => ~entry[t].full

Inv == TypeOK /\ ProcessingIsAlive /\ NothingStored

(* The dashboard's counter stays below the limit when it waits on.         *)
LEMMA WaitTypes ==
    ASSUME TypeOK, NEW b \in Tabs, tab[b].task # None, Wait(b)
    PROVE  tab' \in [Tabs -> [task : Tasks \union {None}, attempts : 0..MaxAttempts - 1,
                              outcome : Outcomes]]
<1> DEFINE Row == [task : Tasks \union {None}, attempts : 0..MaxAttempts - 1, outcome : Outcomes]
           n == tab[b].attempts + 1
<1>1. tab \in [Tabs -> Row] /\ MaxAttempts \in Nat \ {0}
  BY AttemptsAssumption DEF TypeOK
<1>2. tab[b] \in Row /\ tab[b].attempts \in 0..MaxAttempts - 1
  BY <1>1
<1>3. Idle("timeout") \in Row
  BY <1>1 DEF Idle, Outcomes
<1>4. CASE n < MaxAttempts
  <2>1. n \in 0..MaxAttempts - 1
    BY <1>1, <1>2, <1>4
  <2>2. [tab[b] EXCEPT !.attempts = n] \in Row
    BY <1>2, <2>1
  <2> QED BY <1>1, <1>4, <2>2 DEF Wait
<1>5. CASE ~(n < MaxAttempts)
  BY <1>1, <1>3, <1>5 DEF Wait
<1> QED BY <1>4, <1>5

(* Every tab that stops waiting is idle, with a counter of zero.           *)
LEMMA IdleTypes ==
    ASSUME TypeOK, NEW b \in Tabs, NEW o \in Outcomes
    PROVE  [tab EXCEPT ![b] = Idle(o)]
               \in [Tabs -> [task : Tasks \union {None}, attempts : 0..MaxAttempts - 1,
                             outcome : Outcomes]]
<1>1. 0 \in 0..MaxAttempts - 1
  BY AttemptsAssumption
<1> QED BY <1>1 DEF TypeOK, Idle

LEMMA InitInv == Init => Inv
<1> SUFFICES ASSUME Init PROVE Inv
  OBVIOUS
<1>1. 0 \in 0..MaxAttempts - 1
  BY AttemptsAssumption
<1> QED BY <1>1 DEF Init, Inv, TypeOK, ProcessingIsAlive, NothingStored, Absent, Entry, Idle,
               Outcomes

LEMMA StartInv ==
    ASSUME Inv, NEW b \in Tabs, NEW t \in Tasks, Start(b, t)
    PROVE  Inv'
<1>1. 0 \in 0..MaxAttempts - 1
  BY AttemptsAssumption
<1>2. [task |-> t, attempts |-> 0, outcome |-> "none"]
          \in [task : Tasks \union {None}, attempts : 0..MaxAttempts - 1, outcome : Outcomes]
  BY <1>1 DEF Outcomes
<1>3. tab' \in [Tabs -> [task : Tasks \union {None}, attempts : 0..MaxAttempts - 1,
                         outcome : Outcomes]]
  BY <1>2, IdleTypes DEF Start, Inv, TypeOK, Outcomes
<1>4. /\ entry' \in [Tasks -> Entry]
      /\ thread' \in [Tasks -> {"none", "queued", "running", "storing", "reporting",
                                "ended", "gone"}]
  BY DEF Start, Inv, TypeOK, Entry
<1>5. ProcessingIsAlive' /\ NothingStored'
  BY DEF Start, Inv, TypeOK, ProcessingIsAlive, NothingStored
<1> QED BY <1>3, <1>4, <1>5 DEF Inv, TypeOK

(* The thread changes the status of its own task only, and leaves the pool *)
(* with an assignment that has ended "processing".                         *)
LEMMA WorkInv ==
    ASSUME Inv, NEW t \in Tasks, Work(t)
    PROVE  Inv'
<1> USE DEF Inv, TypeOK, ProcessingIsAlive, NothingStored, Entry
<1>1. CASE Run(t)
  BY <1>1 DEF Run
<1>2. CASE Complete(t)
  BY <1>2 DEF Complete
<1>3. CASE StoreResult(t)
  <2>1. (entry[t].full \/ entry[t].status # "absent") \in BOOLEAN
    OBVIOUS
  <2> QED BY <1>3, <2>1 DEF StoreResult
<1>4. CASE Fail(t)
  BY <1>4 DEF Fail
<1>5. CASE StoreError(t)
  <2>1. (entry[t].full \/ entry[t].status # "absent") \in BOOLEAN
    OBVIOUS
  <2> QED BY <1>5, <2>1 DEF StoreError
<1> QED BY <1>1, <1>2, <1>3, <1>4, <1>5 DEF Work

LEMMA PollInv ==
    ASSUME Inv, NEW b \in Tabs, Poll(b) \/ PollLost(b)
    PROVE  Inv'
<1> DEFINE t == tab[b].task
<1>1. Absent \in Entry /\ Absent.status # "processing" /\ ~Absent.full
  BY DEF Absent, Entry
<1>2. /\ thread' = thread
      /\ entry' = entry \/ entry' = [entry EXCEPT ![t] = Absent]
  BY DEF Poll, PollLost
<1>3. entry' \in [Tasks -> Entry] /\ ProcessingIsAlive' /\ NothingStored'
  BY <1>1, <1>2 DEF Inv, TypeOK, ProcessingIsAlive, NothingStored
<1>4. CASE Poll(b)
  <2>1. \/ Wait(b)
        \/ \E o \in Outcomes : tab' = [tab EXCEPT ![b] = Idle(o)]
    BY <1>4 DEF Poll, Outcomes
  <2>2. tab[b].task # None
    BY <1>4 DEF Poll
  <2> QED BY <1>2, <1>3, <2>1, <2>2, WaitTypes, IdleTypes DEF Inv, TypeOK
<1>5. CASE PollLost(b)
  <2>1. "network" \in Outcomes /\ tab' = [tab EXCEPT ![b] = Idle("network")]
    BY <1>5 DEF PollLost, Outcomes
  <2> QED BY <1>2, <1>3, <2>1, IdleTypes DEF Inv, TypeOK
<1> QED BY <1>4, <1>5

LEMMA NextInv == Inv /\ [Next]_vars => Inv'
<1> SUFFICES ASSUME Inv, [Next]_vars PROVE Inv'
  OBVIOUS
<1>1. CASE \E b \in Tabs : (\E t \in Tasks : Start(b, t)) \/ Poll(b) \/ PollLost(b)
  BY <1>1, StartInv, PollInv
<1>2. CASE \E t \in Tasks : Work(t)
  BY <1>2, WorkInv
<1>3. CASE Restart
  BY <1>3 DEF Restart, Inv, TypeOK, ProcessingIsAlive, NothingStored, Absent, Entry
<1>4. CASE UNCHANGED vars
  BY <1>4 DEF vars, Inv, TypeOK, ProcessingIsAlive, NothingStored
<1> QED BY <1>1, <1>2, <1>3, <1>4 DEF Next

(* Type correctness, for every instance.                                   *)
THEOREM TasksTypeCorrect == Spec => []TypeOK
<1>1. Inv => TypeOK
  BY DEF Inv
<1> QED BY <1>1, InitInv, NextInv, PTL DEF Spec

(* A task that answers "processing" has its thread queued or at work: the  *)
(* handlers and the thread, which share analysis_tasks without a lock,     *)
(* never leave one behind that is polled in vain.                          *)
THEOREM ProcessingHasAThread == Spec => []ProcessingIsAlive
<1>1. Inv => ProcessingIsAlive
  BY DEF Inv
<1> QED BY <1>1, InitInv, NextInv, PTL DEF Spec

(* A stored outcome leaves analysis_tasks only by a request of the tab it  *)
(* is for, or with the process.                                            *)
THEOREM OutcomesAreDelivered == Spec => OutcomeIsDelivered
<1> DEFINE Delivered(t) ==
        \/ \E b \in Tabs : tab[b].task = t /\ tab'[b].outcome \in {"shown", "failed", "network"}
        \/ thread'[t] = "gone"
<1>1. ASSUME Inv, [Next]_vars, NEW t \in Tasks, entry[t].full, ~entry'[t].full
      PROVE  Delivered(t)
  <2>1. /\ entry \in [Tasks -> Entry] /\ thread[t] # "none"
        /\ tab \in [Tabs -> [task : Tasks \union {None}, attempts : 0..MaxAttempts - 1,
                               outcome : Outcomes]]
    BY <1>1 DEF Inv, TypeOK, NothingStored
  <2>2. ASSUME NEW b \in Tabs, NEW u \in Tasks, Start(b, u) PROVE FALSE
    BY <1>1, <2>1, <2>2 DEF Start
  <2>3. ASSUME NEW b \in Tabs, Poll(b) PROVE Delivered(t)
    <3>1. entry' = [entry EXCEPT ![tab[b].task] = Absent] /\ tab[b].task = t
      BY <1>1, <2>1, <2>3 DEF Poll
    <3>2. \E o \in {"shown", "failed"} : tab' = [tab EXCEPT ![b] = Idle(o)]
      BY <1>1, <2>1, <2>3, <3>1 DEF Poll
    <3> QED BY <2>1, <3>1, <3>2 DEF Idle
  <2>4. ASSUME NEW b \in Tabs, PollLost(b) PROVE Delivered(t)
    <3>1. tab[b].task = t
      BY <1>1, <2>1, <2>4 DEF PollLost
    <3> QED BY <2>1, <2>4, <3>1 DEF PollLost, Idle
  <2>5. ASSUME NEW u \in Tasks, Work(u) PROVE FALSE
    BY <1>1, <2>1, <2>5 DEF Work, Run, Complete, StoreResult, Fail, StoreError, Entry
  <2>6. CASE Restart
    BY <2>1, <2>6 DEF Restart
  <2>7. CASE UNCHANGED vars
    BY <1>1, <2>7 DEF vars
  <2> QED BY <1>1, <2>2, <2>3, <2>4, <2>5, <2>6, <2>7 DEF Next
<1>2. Inv /\ [Next]_vars =>
          [\A t \in Tasks : entry[t].full /\ ~entry'[t].full => Delivered(t)]_vars
  BY <1>1
<1> QED BY <1>2, InitInv, NextInv, PTL DEF Spec, OutcomeIsDelivered
===============================================================================
