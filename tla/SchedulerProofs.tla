---------------------------- MODULE SchedulerProofs ----------------------------
(* Proofs about Scheduler: for any tokens, any number of background tasks  *)
(* and any size of a batch, with timeouts, restarts and lost data, the set *)
(* of analysed tokens is never ahead of the analyses, nor, with one error  *)
(* at most, of the histories, and without run_forever no scan analyses     *)
(* anything.                                                               *)
EXTENDS Scheduler, FiniteSetTheorems, TLAPS

(* A task is in a state it can be in, and unless run_forever was started   *)
(* only a reanalysis gets to a token.                                      *)
Good(p, t) ==
    /\ t \in TaskStates
    /\ ~autostart => /\ p = Loop => t.at = "idle"
                     /\ t.at \in {"check", "read", "wait"} => t.kind = "reanalyze"

TasksInv ==
    /\ task \in [Tasks -> TaskStates]
    /\ \A p \in Tasks : Good(p, task[p])

(* The analyses: what is marked, saved or kept was done, and can be.       *)
AnalysesInv ==
    /\ stored \subseteq Mints
    /\ history \subseteq saved
    /\ saved \subseteq done
    /\ analyzed \subseteq done
    /\ abandoned \subseteq Mints \ bad
    /\ done \subseteq Mints \ bad

(* An analysis that ended is done.  Its thread has saved a history, unless *)
(* there was an error, and the loop saves another, unless there was one    *)
(* more.                                                                   *)
Ended(t) ==
    t.thread = "ended" => t.mint \in done /\ (faults = 0 => t.mint \in saved)

HistoriesInv ==
    /\ \A p \in Tasks : Ended(task[p])
    /\ MarkedIsSaved

SwitchesInv ==
    /\ bad \subseteq Fragile
    /\ faults \in 0..MaxFaults
    /\ autostart \in BOOLEAN /\ client \in BOOLEAN /\ running \in BOOLEAN
    /\ ~autostart => ~running

IInv == TasksInv /\ AnalysesInv /\ HistoriesInv /\ SwitchesInv

-------------------------------------------------------------------------------
LEMMA IdleIsGood == Idle \in TaskStates /\ \A p \in Tasks : Good(p, Idle)
<1>1. Cardinality({}) = 0
  BY FS_EmptySet
<1> QED BY <1>1, SchedulerAssumption DEF Idle, TaskStates, Good

LEMMA StartIsGood == autostart => LoopStarts \in TaskStates /\ Good(Loop, LoopStarts)
<1>1. Idle \in TaskStates
  BY IdleIsGood
<1>2. Idle.kind = "scan" /\ Idle.thread = "none"
  BY DEF Idle
<1>3. LoopStarts \in TaskStates /\ LoopStarts.thread = "none" /\ LoopStarts.at = "init"
  BY <1>1, <1>2 DEF LoopStarts, TaskStates
<1> QED BY <1>3 DEF Good

(* The tasks of a process that begins.                                     *)
LEMMA Begun ==
    ASSUME task' = [p \in Tasks |-> IF p = Loop /\ autostart THEN LoopStarts ELSE Idle],
           UNCHANGED fixed
    PROVE  TasksInv'
  BY IdleIsGood, StartIsGood DEF TasksInv, Good, fixed

LEMMA InitIInv == Init => IInv
<1> SUFFICES ASSUME Init PROVE IInv
  OBVIOUS
<1>1. TasksInv
  BY IdleIsGood, StartIsGood DEF Init, TasksInv, Good
<1>2. AnalysesInv
  BY SchedulerAssumption DEF Init, AnalysesInv
<1>3. SwitchesInv
  <2>1. bad \subseteq Fragile /\ faults \in 0..MaxFaults
    BY SchedulerAssumption DEF Init
  <2>2. autostart \in BOOLEAN /\ client \in BOOLEAN /\ running \in BOOLEAN /\ ~running
    BY Zenon DEF Init
  <2> QED BY <2>1, <2>2 DEF SwitchesInv
<1>4. HistoriesInv
  <2>1. Idle.thread = "none" /\ LoopStarts.thread = "none"
    BY DEF Idle, LoopStarts
  <2> QED BY <2>1 DEF Init, HistoriesInv, Ended, MarkedIsSaved
<1> QED BY <1>1, <1>2, <1>3, <1>4 DEF IInv

(* A step that changes the state of one task.                              *)
LEMMA OneTask ==
    ASSUME TasksInv, NEW p \in Tasks, NEW t, Good(p, t), task' = [task EXCEPT ![p] = t],
           UNCHANGED fixed
    PROVE  TasksInv'
  BY DEF TasksInv, Good, fixed

(* A task is done with a token: it idles, or its scan goes on.             *)
LEMMA TokenEnds ==
    ASSUME TasksInv, NEW p \in Tasks, EndToken(p), task[p].at # "idle", UNCHANGED fixed
    PROVE  TasksInv'
<1>1. CASE task[p].kind = "reanalyze"
  <2>1. task' = [task EXCEPT ![p] = Idle]
    BY <1>1 DEF EndToken
  <2> QED BY <2>1, IdleIsGood, OneTask
<1>2. CASE task[p].kind # "reanalyze"
  <2> DEFINE t == [task[p] EXCEPT !.at = "next", !.mint = None, !.thread = "none"]
  <2>1. task' = [task EXCEPT ![p] = t]
    BY <1>2 DEF EndToken
  <2>2. Good(p, t)
    BY <1>2 DEF TasksInv, Good, TaskStates
  <2> QED BY <2>1, <2>2, OneTask
<1> QED BY <1>1, <1>2

-------------------------------------------------------------------------------
(* The endpoints, and what moves a task without a token.                   *)
LEMMA ScanNowTasks ==
    ASSUME TasksInv, NEW c \in Callers, ScanNow(c)
    PROVE  TasksInv'
<1>1. PICK f \in BOOLEAN : task' = [task EXCEPT ![c] = [Idle EXCEPT !.at = "init", !.force = f]]
  BY DEF ScanNow
<1> DEFINE t == [Idle EXCEPT !.at = "init", !.force = f]
<1>2. Idle \in TaskStates /\ Idle.kind = "scan" /\ Idle.thread = "none"
  BY IdleIsGood DEF Idle
<1>3. t \in TaskStates /\ t.thread = "none" /\ t.at = "init"
  BY <1>2 DEF TaskStates
<1>4. c \in Tasks /\ c # Loop
  BY SchedulerAssumption DEF Tasks
<1>5. Good(c, t)
  BY <1>3, <1>4 DEF Good
<1> QED BY <1>1, <1>4, <1>5, OneTask DEF ScanNow

LEMMA ReanalyzeTasks ==
    ASSUME TasksInv, NEW c \in Callers, NEW m \in Mints, Reanalyze(c, m)
    PROVE  TasksInv'
<1> DEFINE t == [Idle EXCEPT !.at = "init", !.kind = "reanalyze", !.force = TRUE, !.mint = m]
<1>1. task' = [task EXCEPT ![c] = t]
  BY DEF Reanalyze
<1>2. Idle \in TaskStates /\ Idle.thread = "none"
  BY IdleIsGood DEF Idle
<1>3. t \in TaskStates /\ t.thread = "none" /\ t.at = "init"
  BY <1>2, SchedulerAssumption DEF TaskStates
<1>4. c \in Tasks /\ c # Loop
  BY SchedulerAssumption DEF Tasks
<1>5. Good(c, t)
  BY <1>3, <1>4 DEF Good
<1> QED BY <1>1, <1>4, <1>5, OneTask DEF Reanalyze

(* A task moves to a place without a token, or to one with the token it    *)
(* has.                                                                    *)
LEMMA MoveTasks ==
    ASSUME TasksInv, NEW p \in Tasks, NEW at, Move(p, at), UNCHANGED fixed,
           task[p].at # "idle", task[p].thread = "none",
           \/ at \in {"load", "list", "next", "sleep"}
           \/ at = "read" /\ task[p].mint # None
                          /\ (task[p].kind = "reanalyze" \/ task[p].at = "check")
    PROVE  TasksInv'
<1> DEFINE t == [task[p] EXCEPT !.at = at]
<1>1. task' = [task EXCEPT ![p] = t]
  BY DEF Move
<1>2. task[p] \in TaskStates /\ Good(p, task[p])
  BY DEF TasksInv
<1>3. t \in TaskStates
  BY <1>2 DEF TaskStates
<1>4. t.at = at /\ t.thread = "none" /\ t.kind = task[p].kind
  BY <1>2 DEF TaskStates
<1>5. Good(p, t)
  BY <1>2, <1>3, <1>4 DEF Good
<1> QED BY <1>1, <1>5, OneTask

LEMMA InitializeTasks ==
    ASSUME TasksInv, NEW p \in Tasks, Initialize(p) \/ Load(p)
    PROVE  TasksInv'
<1>1. UNCHANGED fixed /\ task[p].at \in {"init", "load"}
  BY DEF Initialize, Load
<1>2. task[p].thread = "none"
        /\ task[p].at # "idle" /\ (task[p].kind = "scan" \/ task[p].mint # None)
        /\ task[p].kind \in {"scan", "reanalyze"}
  BY <1>1 DEF TasksInv, TaskStates
<1>3. CASE AfterInit(p)
  BY <1>1, <1>2, <1>3, MoveTasks DEF AfterInit
<1>4. CASE Move(p, "load")
  BY <1>1, <1>2, <1>4, MoveTasks
<1> QED BY <1>3, <1>4 DEF Initialize, Load

LEMMA TakeBatchTasks ==
    ASSUME IInv, NEW p \in Tasks, TakeBatch(p)
    PROVE  TasksInv'
<1>0. CASE Move(p, "next")
  <2>1. task[p].thread = "none" /\ task[p].at = "list"
    BY DEF IInv, TasksInv, TaskStates, TakeBatch
  <2> QED BY <1>0, <2>1, MoveTasks DEF IInv, TakeBatch
<1> SUFFICES ASSUME ~Move(p, "next") PROVE TasksInv'
  BY <1>0
<1> DEFINE candidates == IF task[p].force THEN stored ELSE stored \ analyzed
<1>1. PICK batch \in SUBSET candidates :
          /\ Cardinality(batch) = IF Cardinality(candidates) < BatchSize
                                  THEN Cardinality(candidates) ELSE BatchSize
          /\ task' = [task EXCEPT ![p].todo = batch, ![p].at = "next"]
  BY DEF TakeBatch
<1>2. batch \subseteq Mints /\ IsFiniteSet(candidates)
  BY FS_Subset, SchedulerAssumption DEF IInv, AnalysesInv
<1>3. Cardinality(batch) <= BatchSize
  BY <1>1, <1>2, FS_CardinalityType, SchedulerAssumption
<1> DEFINE t == [task[p] EXCEPT !.todo = batch, !.at = "next"]
<1>4. task' = [task EXCEPT ![p] = t]
  BY <1>1 DEF IInv, TasksInv
<1>5. task[p] \in TaskStates /\ Good(p, task[p]) /\ task[p].at = "list"
  BY DEF IInv, TasksInv, TakeBatch
<1>6. t \in TaskStates /\ t.thread = "none" /\ t.at = "next"
  BY <1>2, <1>3, <1>5 DEF TaskStates
<1>7. Good(p, t)
  BY <1>5, <1>6 DEF Good
<1> QED BY <1>4, <1>7, OneTask DEF IInv, TakeBatch

(* Unless the scheduler runs, the scan ends here.                          *)
LEMMA NextTokenTasks ==
    ASSUME IInv, NEW p \in Tasks, NextToken(p)
    PROVE  TasksInv'
<1>1. task[p] \in TaskStates /\ Good(p, task[p]) /\ task[p].at = "next" /\ UNCHANGED fixed
  BY DEF IInv, TasksInv, NextToken
<1>2. CASE Continues(p)
  <2>1. PICK m \in task[p].todo :
            task' = [task EXCEPT ![p].todo = @ \ {m}, ![p].mint = m,
                                 ![p].at = IF task[p].force THEN "read" ELSE "check"]
    BY <1>2 DEF NextToken
  <2> DEFINE rest == task[p].todo \ {m}
             at == IF task[p].force THEN "read" ELSE "check"
             t == [task[p] EXCEPT !.todo = rest, !.mint = m, !.at = at]
  <2>2. task' = [task EXCEPT ![p] = t]
    BY <2>1 DEF IInv, TasksInv
  <2>3. task[p].todo \subseteq Mints /\ Cardinality(task[p].todo) <= BatchSize
        /\ task[p].thread = "none"
    BY <1>1 DEF TaskStates
  <2>4. Cardinality(rest) <= BatchSize
    <3>1. IsFiniteSet(task[p].todo)
      BY <2>3, FS_Subset, SchedulerAssumption
    <3>2. Cardinality(rest) <= Cardinality(task[p].todo)
      BY <3>1, FS_Subset
    <3>3. Cardinality(rest) \in Nat /\ Cardinality(task[p].todo) \in Nat
      BY <3>1, FS_Subset, FS_CardinalityType
    <3> QED BY <2>3, <3>2, <3>3, SchedulerAssumption
  <2>5. rest \subseteq Mints /\ m \in Mints /\ m # None /\ at \in {"read", "check"}
    BY <2>3, SchedulerAssumption
  <2>6. t \in TaskStates /\ t.thread = "none"
    BY <1>1, <2>3, <2>4, <2>5 DEF TaskStates
  <2>7. autostart
    BY <1>2 DEF Continues, IInv, SwitchesInv
  <2>8. Good(p, t)
    BY <2>6, <2>7 DEF Good
  <2> QED BY <1>1, <2>2, <2>8, OneTask DEF IInv
<1>3. CASE ~Continues(p)
  <2> DEFINE t == IF p = Loop THEN [Idle EXCEPT !.at = "sleep"] ELSE Idle
  <2>1. task' = [task EXCEPT ![p] = t]
    BY <1>3 DEF NextToken
  <2>2. Idle \in TaskStates /\ Idle.thread = "none" /\ Idle.kind = "scan" /\ Good(p, Idle)
    BY IdleIsGood DEF Idle
  <2>3. CASE p = Loop
    <3>1. autostart
      BY <1>1, <2>3 DEF Good
    <3>2. t \in TaskStates /\ t.thread = "none"
      BY <2>2, <2>3 DEF TaskStates
    <3>3. Good(p, t)
      BY <3>1, <3>2 DEF Good
    <3> QED BY <1>1, <2>1, <3>3, OneTask DEF IInv
  <2>4. CASE p # Loop
    BY <1>1, <2>1, <2>2, <2>4, OneTask DEF IInv
  <2> QED BY <2>3, <2>4
<1> QED BY <1>2, <1>3

LEMMA NextScanTasks == TasksInv /\ NextScan => TasksInv'
<1> SUFFICES ASSUME TasksInv, NextScan PROVE TasksInv'
  OBVIOUS
<1>1. Loop \in Tasks /\ task[Loop].at = "sleep" /\ UNCHANGED fixed
  BY DEF NextScan, Tasks
<1>2. task[Loop].thread = "none"
  BY <1>1 DEF TasksInv, TaskStates
<1>3. CASE running
  BY <1>1, <1>2, <1>3, MoveTasks DEF NextScan
<1>4. CASE ~running
  <2> DEFINE t == [task[Loop] EXCEPT !.at = "idle"]
  <2>1. task' = [task EXCEPT ![Loop] = t]
    BY <1>4 DEF NextScan, Move
  <2>2. t \in TaskStates /\ t.thread = "none" /\ t.at = "idle"
    BY <1>1, <1>2 DEF TasksInv, TaskStates
  <2>3. Good(Loop, t)
    BY <2>2 DEF Good
  <2> QED BY <1>1, <2>1, <2>3, OneTask
<1> QED BY <1>3, <1>4

-------------------------------------------------------------------------------
(* The steps of one analysis.                                              *)
LEMMA CheckTasks ==
    ASSUME IInv, NEW p \in Tasks, Check(p)
    PROVE  TasksInv'
<1>1. task[p].at = "check" /\ UNCHANGED fixed /\ TasksInv
  BY DEF Check, IInv
<1>2. task[p].thread = "none" /\ task[p].mint # None
  BY <1>1 DEF TasksInv, TaskStates
<1>3. CASE EndToken(p)
  BY <1>1, <1>3, TokenEnds
<1>4. CASE Move(p, "read")
  BY <1>1, <1>2, <1>4, MoveTasks
<1> QED BY <1>3, <1>4 DEF Check

(* Unless run_forever was started, only a reanalysis reads a token.        *)
LEMMA ReadTasks ==
    ASSUME IInv, NEW p \in Tasks, Read(p)
    PROVE  TasksInv'
<1>1. task[p].at = "read" /\ UNCHANGED fixed /\ TasksInv
  BY DEF Read, IInv
<1>2. CASE EndToken(p)
  BY <1>1, <1>2, TokenEnds
<1>3. CASE task' = [task EXCEPT ![p].at = "wait", ![p].thread = "queued"]
  <2> DEFINE t == [task[p] EXCEPT !.at = "wait", !.thread = "queued"]
  <2>1. task' = [task EXCEPT ![p] = t]
    BY <1>3 DEF IInv, TasksInv
  <2>2. task[p] \in TaskStates /\ Good(p, task[p])
    BY <1>1 DEF TasksInv
  <2>3. t \in TaskStates /\ t.thread = "queued" /\ t.at = "wait" /\ t.kind = task[p].kind
    BY <1>1, <2>2 DEF TaskStates
  <2>4. Good(p, t)
    BY <1>1, <2>2, <2>3 DEF Good
  <2> QED BY <1>1, <2>1, <2>4, OneTask
<1> QED BY <1>2, <1>3 DEF Read

LEMMA ThreadTasks ==
    ASSUME IInv, NEW p \in Tasks, Run(p) \/ Analyse(p)
    PROVE  TasksInv'
<1>1. PICK th \in {"running", "ended"} : task' = [task EXCEPT ![p].thread = th]
  BY DEF Run, Analyse
<1>2. UNCHANGED fixed /\ task[p].thread \in {"queued", "running"}
  BY DEF Run, Analyse
<1> DEFINE t == [task[p] EXCEPT !.thread = th]
<1>3. task' = [task EXCEPT ![p] = t]
  BY <1>1 DEF IInv, TasksInv
<1>4. task[p] \in TaskStates /\ Good(p, task[p])
  BY DEF IInv, TasksInv
<1>5. task[p].at = "wait" /\ task[p].mint \in Mints
  BY <1>2, <1>4 DEF TaskStates
<1>6. t \in TaskStates /\ t.thread = th /\ t.at = task[p].at /\ t.kind = task[p].kind
      /\ t.mint = task[p].mint
  BY <1>4, <1>5 DEF TaskStates
<1>7. Good(p, t)
  BY <1>1, <1>4, <1>5, <1>6 DEF Good
<1> QED BY <1>2, <1>3, <1>7, OneTask DEF IInv

LEMMA EndTasks ==
    ASSUME IInv, NEW p \in Tasks, Fail(p) \/ Timeout(p) \/ Finish(p)
    PROVE  TasksInv'
<1>1. EndToken(p) /\ UNCHANGED fixed /\ task[p].thread # "none"
  BY DEF Fail, Timeout, Finish, fixed
<1>2. task[p].at # "idle" /\ TasksInv
  BY <1>1 DEF IInv, TasksInv, TaskStates
<1> QED BY <1>1, <1>2, TokenEnds

LEMMA NextTasks == IInv /\ [Next]_vars => TasksInv'
<1> SUFFICES ASSUME IInv, [Next]_vars PROVE TasksInv'
  OBVIOUS
<1>1. CASE UNCHANGED <<fixed, task>>
  BY <1>1 DEF IInv, TasksInv, Good, fixed
<1>2. ASSUME NEW c \in Callers, ScanNow(c) PROVE TasksInv'
  BY <1>2, ScanNowTasks DEF IInv
<1>3. ASSUME NEW c \in Callers, NEW m \in Mints, Reanalyze(c, m) PROVE TasksInv'
  BY <1>3, ReanalyzeTasks DEF IInv
<1>4. ASSUME NEW p \in Tasks, Work(p) \/ Timeout(p) PROVE TasksInv'
  BY <1>4, InitializeTasks, TakeBatchTasks, NextTokenTasks, CheckTasks, ReadTasks, ThreadTasks,
     EndTasks DEF Work, IInv
<1>5. CASE NextScan
  BY <1>5, NextScanTasks DEF IInv
<1>6. CASE Restart
  BY <1>6, Begun DEF Restart
<1>7. ASSUME NEW m \in Mints,
             AbandonedEnds(m) \/ Collect(m) \/ UserAnalysis(m) \/ LoseHistory(m) \/ LoseToken(m)
      PROVE  UNCHANGED <<fixed, task>>
  BY <1>7 DEF AbandonedEnds, Collect, UserAnalysis, LoseHistory, LoseToken
<1>8. Stop \/ UNCHANGED vars => UNCHANGED <<fixed, task>>
  BY DEF Stop, vars, fixed
<1> QED BY <1>1, <1>2, <1>3, <1>4, <1>5, <1>6, <1>7, <1>8 DEF Next

-------------------------------------------------------------------------------
(* What happens outside of the tasks.                                      *)
Outside(m) == AbandonedEnds(m) \/ Collect(m) \/ UserAnalysis(m) \/ LoseHistory(m) \/ LoseToken(m)

(* Only run_forever sets running, and only the application starts it.      *)
LEMMA RunningIsStarted ==
    ASSUME IInv, NEW p \in Tasks, AfterInit(p), task[p].at \in {"init", "load"}
    PROVE  running' \in BOOLEAN /\ (~autostart => ~running')
<1>1. ~autostart => p # Loop
  BY DEF IInv, TasksInv, Good
<1> QED BY <1>1, Zenon DEF AfterInit, IInv, SwitchesInv

LEMMA NextSwitches == IInv /\ [Next]_vars => SwitchesInv'
<1> SUFFICES ASSUME IInv, [Next]_vars PROVE SwitchesInv'
  OBVIOUS
<1>1. ASSUME UNCHANGED <<fixed, client, running>>, faults' \in 0..MaxFaults
      PROVE  SwitchesInv'
  BY <1>1 DEF IInv, SwitchesInv, fixed
<1>2. faults \in 0..MaxFaults /\ (faults < MaxFaults => faults + 1 \in 0..MaxFaults)
  BY SchedulerAssumption DEF IInv, SwitchesInv
<1>3. ASSUME NEW p \in Tasks, Initialize(p) \/ Load(p) PROVE SwitchesInv'
  <2>1. running' \in BOOLEAN /\ (~autostart => ~running')
    BY <1>3, RunningIsStarted, Zenon DEF Initialize, Load, IInv, SwitchesInv
  <2>2. client' \in BOOLEAN /\ UNCHANGED fixed
    BY <1>3, Zenon DEF Initialize, Load, IInv, SwitchesInv
  <2>3. faults' \in 0..MaxFaults
    BY <1>2, <1>3 DEF Initialize, Load
  <2> QED BY <2>1, <2>2, <2>3 DEF IInv, SwitchesInv, fixed
<1>4. CASE Stop
  <2>1. running' = FALSE /\ UNCHANGED <<fixed, client, faults>>
    BY <1>4 DEF Stop
  <2> QED BY <1>2, <2>1, Zenon DEF IInv, SwitchesInv, fixed
<1>5. CASE Restart
  <2>1. running' = FALSE /\ client' = FALSE /\ UNCHANGED fixed /\ faults' \in 0..MaxFaults
    BY <1>2, <1>5 DEF Restart
  <2> QED BY <2>1, Zenon DEF IInv, SwitchesInv, fixed
<1>6. ASSUME NEW c \in Callers, ScanNow(c) \/ \E m \in Mints : Reanalyze(c, m)
      PROVE  UNCHANGED <<fixed, client, running>> /\ faults' \in 0..MaxFaults
  BY <1>2, <1>6 DEF ScanNow, Reanalyze, scheduler
<1>7. ASSUME NEW p \in Tasks,
             \/ TakeBatch(p) \/ NextToken(p) \/ Check(p) \/ Read(p) \/ Run(p)
             \/ Analyse(p) \/ Fail(p) \/ Timeout(p) \/ Finish(p)
      PROVE  UNCHANGED <<fixed, client, running>> /\ faults' \in 0..MaxFaults
  BY <1>2, <1>7
     DEF TakeBatch, NextToken, Check, Read, Run, Analyse, Fail, Timeout, Finish, Save, Lost, scheduler
<1>8. ASSUME NEW m \in Mints, Outside(m)
      PROVE  UNCHANGED <<fixed, client, running>> /\ faults' \in 0..MaxFaults
  BY <1>2, <1>8
     DEF Outside, AbandonedEnds, Save, Lost, Collect, UserAnalysis, LoseHistory, LoseToken,
                    scheduler
<1>9. NextScan \/ UNCHANGED vars
          => UNCHANGED <<fixed, client, running>> /\ faults' \in 0..MaxFaults
  BY <1>2 DEF NextScan, vars, scheduler, fixed
<1> QED BY <1>1, <1>3, <1>4, <1>5, <1>6, <1>7, <1>8, <1>9 DEF Next, Work, Outside

-------------------------------------------------------------------------------
(* A save leaves a history, or an error.                                   *)
LEMMA SaveKeeps ==
    ASSUME NEW m, Save(m) \/ Lost, AnalysesInv, SwitchesInv
    PROVE  /\ saved \subseteq saved' /\ saved' \subseteq saved \union {m}
           /\ history' \subseteq saved'
           /\ faults' \in 0..MaxFaults /\ faults' >= faults
           /\ m \in saved' \/ faults' = faults + 1
<1>1. faults \in 0..MaxFaults /\ MaxFaults \in Nat
  BY SchedulerAssumption DEF SwitchesInv
<1>2. CASE Lost
  BY <1>1, <1>2 DEF Lost, AnalysesInv
<1>3. CASE history' = history \union {m} /\ saved' = saved \union {m} /\ UNCHANGED faults
  BY <1>1, <1>3 DEF AnalysesInv
<1> QED BY <1>2, <1>3 DEF Save

(* The token of a thread is one.                                           *)
LEMMA ThreadMint ==
    ASSUME TasksInv, NEW p \in Tasks, task[p].thread # "none"
    PROVE  task[p].mint \in Mints
  BY DEF TasksInv, TaskStates

(* A token is marked by the task whose analysis ended, or because it had a *)
(* history.                                                                *)
LEMMA NextAnalyses == IInv /\ [Next]_vars => AnalysesInv'
<1> SUFFICES ASSUME IInv, [Next]_vars PROVE AnalysesInv'
  OBVIOUS
<1> USE DEF histories
<1>1. CASE UNCHANGED <<bad, stored, history, analyzed, abandoned, done, saved>>
  BY <1>1 DEF IInv, AnalysesInv
<1>2. ASSUME NEW p \in Tasks, Load(p) PROVE AnalysesInv'
  BY <1>2 DEF Load, IInv, AnalysesInv, fixed, keys
<1>3. ASSUME NEW p \in Tasks, Analyse(p) PROVE AnalysesInv'
  <2>1. task[p].mint \in Mints \ bad
    BY <1>3, ThreadMint DEF Analyse, IInv
  <2>2. saved' \subseteq saved \union {task[p].mint} /\ history' \subseteq saved'
    BY <1>3, SaveKeeps DEF Analyse, IInv
  <2> QED BY <1>3, <2>1, <2>2 DEF Analyse, IInv, AnalysesInv, fixed, scheduler
<1>4. ASSUME NEW p \in Tasks, Timeout(p) PROVE AnalysesInv'
  <2>1. task[p].mint \in Mints
    BY <1>4, ThreadMint DEF Timeout, IInv
  <2> QED BY <1>4, <2>1 DEF Timeout, IInv, AnalysesInv, fixed, keys, scheduler
<1>5. ASSUME NEW p \in Tasks, Finish(p) PROVE AnalysesInv'
  <2>1. task[p].mint \in done
    BY <1>5 DEF Finish, IInv, HistoriesInv, Ended
  <2>2. saved' \subseteq saved \union {task[p].mint} /\ history' \subseteq saved'
    BY <1>5, SaveKeeps DEF Finish, IInv, AnalysesInv
  <2>3. analyzed' \subseteq analyzed \union {task[p].mint}
    BY <1>5 DEF Finish
  <2> QED BY <1>5, <2>1, <2>2, <2>3 DEF Finish, IInv, AnalysesInv, fixed
<1>6. ASSUME NEW m \in Mints, Outside(m) PROVE AnalysesInv'
  <2>1. ASSUME Save(m) \/ Lost
        PROVE  saved \subseteq saved' /\ saved' \subseteq saved \union {m} /\ history' \subseteq saved'
    BY <2>1, SaveKeeps DEF IInv
  <2>2. CASE AbandonedEnds(m)
    <3>1. CASE Lost /\ UNCHANGED done
      BY <2>2, <3>1 DEF AbandonedEnds, Lost, IInv, AnalysesInv, fixed, scheduler
    <3>2. CASE Save(m) /\ done' = done \union {m}
      BY <2>1, <2>2, <3>2 DEF AbandonedEnds, IInv, AnalysesInv, fixed, scheduler
    <3> QED BY <2>2, <3>1, <3>2 DEF AbandonedEnds
  <2>3. CASE UserAnalysis(m)
    BY <2>1, <2>3 DEF UserAnalysis, IInv, AnalysesInv, fixed, scheduler
  <2>4. CASE Collect(m) \/ LoseHistory(m) \/ LoseToken(m)
    BY <2>4 DEF Collect, LoseHistory, LoseToken, IInv, AnalysesInv, fixed, scheduler
  <2> QED BY <1>6, <2>2, <2>3, <2>4 DEF Outside
<1>7. CASE Restart
  BY <1>7 DEF Restart, IInv, AnalysesInv, fixed, keys
<1>8. Stop \/ NextScan \/ UNCHANGED vars
          => UNCHANGED <<bad, stored, history, analyzed, abandoned, done, saved>>
  BY DEF Stop, NextScan, vars, fixed, keys, scheduler
<1>9. ASSUME NEW c \in Callers, ScanNow(c) \/ \E m \in Mints : Reanalyze(c, m)
      PROVE  UNCHANGED <<bad, stored, history, analyzed, abandoned, done, saved>>
  BY <1>9 DEF ScanNow, Reanalyze, fixed, keys, scheduler
<1>10. ASSUME NEW p \in Tasks,
              \/ Initialize(p) \/ TakeBatch(p) \/ NextToken(p)
              \/ Check(p) \/ Read(p) \/ Run(p) \/ Fail(p)
       PROVE  UNCHANGED <<bad, stored, history, analyzed, abandoned, done, saved>>
  BY <1>10 DEF Initialize, TakeBatch, NextToken, Check, Read, Run, Fail, fixed, keys, scheduler
<1> QED BY <1>1, <1>2, <1>3, <1>4, <1>5, <1>6, <1>7, <1>8, <1>9, <1>10 DEF Next, Work, Outside

-------------------------------------------------------------------------------
(* Only Analyse ends an analysis.                                          *)
EndedBefore ==
    \A p \in Tasks : task'[p].thread = "ended" =>
                         task[p].thread = "ended" /\ task'[p].mint = task[p].mint

LEMMA EndTokenEnded ==
    ASSUME TasksInv, NEW p \in Tasks, EndToken(p)
    PROVE  EndedBefore
<1>1. Idle.thread = "none"
  BY DEF Idle
<1>2. task'[p].thread = "none" /\ \A q \in Tasks \ {p} : task'[q] = task[q]
  <2>1. CASE task[p].kind = "reanalyze"
    BY <1>1, <2>1 DEF EndToken, TasksInv
  <2>2. CASE task[p].kind # "reanalyze"
    BY <2>2 DEF EndToken, TasksInv, TaskStates
  <2> QED BY <2>1, <2>2
<1> QED BY <1>2 DEF EndedBefore

LEMMA MoveEnded ==
    ASSUME TasksInv, NEW p \in Tasks, NEW at, Move(p, at)
    PROVE  EndedBefore
<1>1. task'[p] = [task[p] EXCEPT !.at = at] /\ \A q \in Tasks \ {p} : task'[q] = task[q]
  BY DEF Move, TasksInv
<1>2. task[p] \in TaskStates
  BY DEF TasksInv
<1>3. task'[p].thread = task[p].thread /\ task'[p].mint = task[p].mint
  BY <1>1, <1>2 DEF TaskStates
<1> QED BY <1>1, <1>3 DEF EndedBefore

LEMMA OnlyAnalyseEnds ==
    ASSUME IInv, [Next]_vars
    PROVE  EndedBefore \/ \E p \in Tasks : Analyse(p)
<1> USE DEF IInv
<1>1. Idle.thread = "none" /\ LoopStarts.thread = "none"
  BY DEF Idle, LoopStarts
<1>2. CASE UNCHANGED task
  BY <1>2 DEF EndedBefore
<1>3. ASSUME NEW c \in Callers, ScanNow(c) \/ \E m \in Mints : Reanalyze(c, m)
      PROVE  EndedBefore
  <2>1. PICK t : task' = [task EXCEPT ![c] = t] /\ t.thread = "none"
    <3>1. ASSUME NEW f \in BOOLEAN
          PROVE  [Idle EXCEPT !.at = "init", !.force = f].thread = "none"
      BY DEF Idle
    <3>2. ASSUME NEW m \in Mints
          PROVE  [Idle EXCEPT !.at = "init", !.kind = "reanalyze", !.force = TRUE, !.mint = m].thread
                     = "none"
      BY DEF Idle
    <3> QED BY <1>3, <3>1, <3>2 DEF ScanNow, Reanalyze
  <2> QED BY <2>1 DEF EndedBefore, TasksInv, Tasks
<1>4. ASSUME NEW p \in Tasks, Initialize(p) \/ Load(p) PROVE EndedBefore
  BY <1>4, MoveEnded DEF Initialize, Load, AfterInit
<1>5. ASSUME NEW p \in Tasks, TakeBatch(p) PROVE EndedBefore
  <2>1. task[p] \in TaskStates /\ task[p].thread = "none"
    BY <1>5 DEF TasksInv, TaskStates, TakeBatch
  <2>2. CASE Move(p, "next")
    BY <2>2, MoveEnded
  <2>3. ASSUME NEW batch, task' = [task EXCEPT ![p].todo = batch, ![p].at = "next"]
        PROVE  EndedBefore
    <3>1. task'[p].thread = "none" /\ \A q \in Tasks \ {p} : task'[q] = task[q]
      BY <2>1, <2>3 DEF TasksInv, TaskStates
    <3> QED BY <3>1 DEF EndedBefore
  <2> QED BY <1>5, <2>2, <2>3 DEF TakeBatch
<1>6. ASSUME NEW p \in Tasks, NextToken(p) PROVE EndedBefore
  <2>1. task[p] \in TaskStates /\ task[p].thread = "none"
    BY <1>6 DEF TasksInv, TaskStates, NextToken
  <2>2. CASE Continues(p)
    <3>1. PICK m \in task[p].todo :
              task' = [task EXCEPT ![p].todo = @ \ {m}, ![p].mint = m,
                                   ![p].at = IF task[p].force THEN "read" ELSE "check"]
      BY <1>6, <2>2 DEF NextToken
    <3>2. task'[p].thread = "none" /\ \A q \in Tasks \ {p} : task'[q] = task[q]
      BY <2>1, <3>1 DEF TasksInv, TaskStates
    <3> QED BY <3>2 DEF EndedBefore
  <2>3. CASE ~Continues(p)
    <3>1. task' = [task EXCEPT ![p] = IF p = Loop THEN [Idle EXCEPT !.at = "sleep"] ELSE Idle]
      BY <1>6, <2>3 DEF NextToken
    <3>2. [Idle EXCEPT !.at = "sleep"].thread = "none"
      BY DEF Idle
    <3> QED BY <1>1, <3>1, <3>2 DEF EndedBefore, TasksInv
  <2> QED BY <2>2, <2>3
<1>7. NextScan => EndedBefore
  BY MoveEnded DEF NextScan, Tasks
<1>8. ASSUME NEW p \in Tasks, Check(p) PROVE EndedBefore
  BY <1>8, MoveEnded, EndTokenEnded DEF Check
<1>9. ASSUME NEW p \in Tasks, Read(p) \/ Run(p) PROVE EndedBefore
  <2>1. CASE EndToken(p)
    BY <2>1, EndTokenEnded
  <2>2. CASE task' = [task EXCEPT ![p].at = "wait", ![p].thread = "queued"]
    <3>1. task'[p].thread = "queued" /\ \A q \in Tasks \ {p} : task'[q] = task[q]
      BY <2>2 DEF TasksInv, TaskStates
    <3> QED BY <3>1 DEF EndedBefore
  <2>3. CASE task' = [task EXCEPT ![p].thread = "running"]
    <3>1. task'[p].thread = "running" /\ \A q \in Tasks \ {p} : task'[q] = task[q]
      BY <2>3 DEF TasksInv, TaskStates
    <3> QED BY <3>1 DEF EndedBefore
  <2> QED BY <1>9, <2>1, <2>2, <2>3 DEF Read, Run
<1>10. ASSUME NEW p \in Tasks, Fail(p) \/ Timeout(p) \/ Finish(p) PROVE EndedBefore
  BY <1>10, EndTokenEnded DEF Fail, Timeout, Finish
<1>11. CASE Restart
  <2>1. task' = [p \in Tasks |-> IF p = Loop /\ autostart THEN LoopStarts ELSE Idle]
    BY <1>11 DEF Restart
  <2> QED BY <1>1, <2>1 DEF EndedBefore
<1>12. ASSUME NEW m \in Mints, Outside(m) PROVE UNCHANGED task
  BY <1>12 DEF Outside, AbandonedEnds, Collect, UserAnalysis, LoseHistory, LoseToken
<1>13. Stop \/ UNCHANGED vars => UNCHANGED task
  BY DEF Stop, vars
<1> QED BY <1>2, <1>3, <1>4, <1>5, <1>6, <1>7, <1>8, <1>9, <1>10, <1>11, <1>12, <1>13
        DEF Next, Work, Outside

(* Errors, analyses and histories only add up, and only the end of a task, *)
(* or what is loaded, marks a token.                                       *)
OnlyAdds ==
    /\ faults' >= faults /\ done \subseteq done' /\ saved \subseteq saved'
    /\ \/ analyzed' \subseteq analyzed \union saved
       \/ \E p \in Tasks : Finish(p)

LEMMA AddsUp == IInv /\ [Next]_vars => OnlyAdds
<1> SUFFICES ASSUME IInv, [Next]_vars PROVE OnlyAdds
  OBVIOUS
<1> USE SchedulerAssumption DEF IInv, keys, histories, scheduler, OnlyAdds
<1>1. faults \in Nat /\ history \subseteq saved
  BY DEF SwitchesInv, AnalysesInv
<1>2. ASSUME NEW m, Save(m) \/ Lost PROVE saved \subseteq saved' /\ faults' >= faults
  BY <1>2, SaveKeeps
<1>3. ASSUME NEW p \in Tasks, Analyse(p) PROVE OnlyAdds
  BY <1>2, <1>3 DEF Analyse
<1>4. ASSUME NEW p \in Tasks, Finish(p) PROVE OnlyAdds
  <2>1. CASE Save(task[p].mint) \/ Lost
    BY <1>2, <1>4, <2>1 DEF Finish
  <2>2. CASE saved' = saved \union {task[p].mint} /\ faults' = faults + 1
    BY <1>1, <1>4, <2>2 DEF Finish
  <2> QED BY <1>4, <2>1, <2>2 DEF Finish
<1>5. ASSUME NEW m \in Mints, Outside(m) PROVE OnlyAdds
  <2>1. CASE AbandonedEnds(m) \/ UserAnalysis(m)
    BY <1>2, <2>1 DEF AbandonedEnds, UserAnalysis
  <2>2. CASE Collect(m) \/ LoseHistory(m) \/ LoseToken(m)
    BY <1>1, <2>2 DEF Collect, LoseHistory, LoseToken
  <2> QED BY <1>5, <2>1, <2>2 DEF Outside
<1>6. ASSUME NEW c \in Callers, ScanNow(c) \/ \E m \in Mints : Reanalyze(c, m) PROVE OnlyAdds
  <2>1. UNCHANGED <<done, saved, analyzed, faults>>
    BY <1>6 DEF ScanNow, Reanalyze
  <2> QED BY <1>1, <2>1
<1>7. ASSUME NEW p \in Tasks,
             \/ Initialize(p) \/ Load(p) \/ TakeBatch(p) \/ NextToken(p) \/ Check(p)
             \/ Read(p) \/ Run(p) \/ Fail(p) \/ Timeout(p)
      PROVE  OnlyAdds
  <2>1. UNCHANGED <<done, saved>>
    BY <1>7 DEF Initialize, Load, TakeBatch, NextToken, Check, Read, Run, Fail, Timeout
  <2>2. faults' \in {faults, faults + 1}
    BY <1>7 DEF Initialize, Load, TakeBatch, NextToken, Check, Read, Run, Fail, Timeout
  <2>3. analyzed' \in {analyzed, analyzed \union history}
    BY <1>7 DEF Initialize, Load, TakeBatch, NextToken, Check, Read, Run, Fail, Timeout
  <2> QED BY <1>1, <2>1, <2>2, <2>3
<1>8. Stop \/ NextScan \/ Restart \/ UNCHANGED vars => OnlyAdds
  BY <1>1 DEF Stop, NextScan, Restart, vars
<1> QED BY <1>3, <1>4, <1>5, <1>6, <1>7, <1>8 DEF Next, Work, Outside

LEMMA NextHistories == IInv /\ [Next]_vars => HistoriesInv'
<1> SUFFICES ASSUME IInv, [Next]_vars PROVE HistoriesInv'
  OBVIOUS
<1>1. faults \in Nat /\ faults' \in Int /\ faults' >= faults
      /\ done \subseteq done' /\ saved \subseteq saved'
  BY AddsUp, NextSwitches DEF IInv, SwitchesInv, OnlyAdds
<1>2. ASSUME NEW p \in Tasks PROVE Ended(task[p])'
  <2>1. CASE EndedBefore
    BY <1>1, <2>1 DEF EndedBefore, Ended, IInv, HistoriesInv
  <2>2. ASSUME NEW q \in Tasks, Analyse(q) PROVE Ended(task[p])'
    <3>1. task[q].mint \in saved' \/ faults' = faults + 1
      BY <2>2, SaveKeeps DEF Analyse, IInv
    <3>2. task[q].mint \in done' /\ task[q] \in TaskStates
      BY <2>2 DEF Analyse, IInv, TasksInv
    <3>3. CASE p = q
      <4>1. task'[p].mint = task[q].mint
        BY <2>2, <3>2, <3>3 DEF Analyse, IInv, TasksInv, TaskStates
      <4> QED BY <1>1, <3>1, <3>2, <4>1 DEF Ended
    <3>4. CASE p # q
      <4>1. task'[p] = task[p]
        BY <2>2, <3>4 DEF Analyse, IInv, TasksInv
      <4> QED BY <1>1, <4>1 DEF Ended, IInv, HistoriesInv
    <3> QED BY <3>3, <3>4
  <2> QED BY <2>1, <2>2, OnlyAnalyseEnds
<1>3. MarkedIsSaved'
  <2> SUFFICES ASSUME faults' < 2 PROVE analyzed' \subseteq saved'
    BY DEF MarkedIsSaved
  <2>1. analyzed \subseteq saved
    BY <1>1 DEF IInv, HistoriesInv, MarkedIsSaved
  <2>2. CASE analyzed' \subseteq analyzed \union saved
    BY <1>1, <2>1, <2>2
  <2>3. ASSUME NEW p \in Tasks, Finish(p) PROVE analyzed' \subseteq saved'
    <3>1. faults = 0 => task[p].mint \in saved
      BY <2>3 DEF Finish, IInv, HistoriesInv, Ended
    <3>2. CASE Save(task[p].mint) /\ analyzed' = analyzed \union {task[p].mint}
      <4>1. task[p].mint \in saved' \/ faults' = faults + 1
        BY <3>2, SaveKeeps DEF IInv
      <4> QED BY <1>1, <2>1, <3>1, <3>2, <4>1
    <3>3. CASE UNCHANGED analyzed
      BY <1>1, <2>1, <3>3
    <3> QED BY <2>3, <3>2, <3>3 DEF Finish
  <2> QED BY <2>2, <2>3, AddsUp DEF OnlyAdds
<1> QED BY <1>2, <1>3 DEF HistoriesInv

-------------------------------------------------------------------------------
(* The inductive invariant: tasks are where they can be, an analysis that  *)
(* ended was done, and saved unless there was an error, what is marked was *)
(* done, and saved unless there were two, and without a start nothing runs. *)
THEOREM SchedulerInvariant == Spec => []IInv
<1>1. IInv /\ [Next]_vars => IInv'
  BY NextTasks, NextAnalyses, NextHistories, NextSwitches DEF IInv
<1> QED BY InitIInv, <1>1, PTL DEF Spec

(* The values of the variables of the scheduler.                           *)
THEOREM TypeCorrect == Spec => []TypeOK
<1>1. IInv => TypeOK
  BY DEF IInv, TasksInv, AnalysesInv, SwitchesInv, TypeOK
<1> QED BY SchedulerInvariant, <1>1, PTL

(* No token is marked as analysed, and left out of the scans, of which no  *)
(* analysis ended: by whatever tasks, timeouts, errors and restarts.       *)
THEOREM MarkedTokensAreDone == Spec => []MarkedIsDone
<1>1. IInv => MarkedIsDone
  BY DEF IInv, AnalysesInv, MarkedIsDone
<1> QED BY SchedulerInvariant, <1>1, PTL

(* No single error, at any step, marks a token that never had a history,   *)
(* by whatever tasks, timeouts and restarts, although no result of a save  *)
(* is ever looked at: there are two saves.                                 *)
THEOREM OneErrorLosesNoHistory == Spec => []MarkedIsSaved
<1>1. IInv => MarkedIsSaved
  BY DEF IInv, HistoriesInv
<1> QED BY SchedulerInvariant, <1>1, PTL

(* As long as run_forever is not started, as in the application as it is   *)
(* deployed, no scan gets to a token.                                      *)
THEOREM ScansNeedTheLoop == Spec => []ScanNeedsLoop
<1>1. IInv => ScanNeedsLoop
  BY DEF IInv, TasksInv, Good, ScanNeedsLoop
<1> QED BY SchedulerInvariant, <1>1, PTL
===============================================================================
