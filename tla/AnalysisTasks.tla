---------------------------- MODULE AnalysisTasks -----------------------------
(***************************************************************************)
(* Asynchronous analysis of the data-analysis service, and the dashboard   *)
(* loop that waits for it.                                                 *)
(*                                                                         *)
(* GET /api/analyze/<mint> puts a task in the dictionary analysis_tasks    *)
(* and runs the analysis in a thread of the default executor;              *)
(* GET /api/analyze/result/<id>, in the event loop, answers once with the  *)
(* outcome and deletes the task.  The thread and the event loop share the  *)
(* dictionary without a lock; each of the thread's assignments is a step.  *)
(* The poll handler has no await, and of what it reads the outcome comes   *)
(* last, so it is one step.                                                *)
(***************************************************************************)
EXTENDS Naturals, FiniteSets

CONSTANTS
    Tasks,          \* task ids
    Tabs,           \* browser tabs showing the dashboard
    MaxAttempts,    \* polls before the dashboard gives up (150)
    PoolSize,       \* threads of the executor
    None

ASSUME AttemptsAssumption == MaxAttempts \in Nat \ {0}
ASSUME PoolAssumption == PoolSize \in Nat \ {0}
ASSUME NoTaskAssumption == None \notin Tasks

VARIABLES
    entry,          \* analysis_tasks
    thread,         \* where the thread of each task is
    tab             \* analyzeToken in each tab

vars == <<entry, thread, tab>>

Absent == [status |-> "absent", full |-> FALSE]
Entry == [status : {"absent", "processing", "completed", "failed"}, full : BOOLEAN]

(* Why analyzeToken last ended: the result was shown, an error of the      *)
(* analysis, "Analysis timeout", or a request that did not come back.      *)
Outcomes == {"none", "shown", "failed", "timeout", "network"}

Idle(o) == [task |-> None, attempts |-> 0, outcome |-> o]

Init ==
    /\ entry = [t \in Tasks |-> Absent]
    /\ thread = [t \in Tasks |-> "none"]
    /\ tab = [b \in Tabs |-> Idle("none")]

(* Mutant: tasks are named after their mint, and a second analysis takes   *)
(* the name of an earlier one.                                             *)
StartNamedByMint(b, t) ==
    /\ tab[b].task = None
    /\ thread[t] \in {"none", "ended"}
    /\ entry' = [entry EXCEPT ![t] = [status |-> "processing", full |-> FALSE]]
    /\ thread' = [thread EXCEPT ![t] = "queued"]
    /\ tab' = [tab EXCEPT ![b] = [task |-> t, attempts |-> 0, outcome |-> "none"]]

(***************************************************************************)
(* GET /api/analyze/<mint>, for a token that is in the store.  isAnalyzing *)
(* keeps a tab to one analysis at a time.  The reply may be lost, and the  *)
(* task id with it.                                                        *)
(***************************************************************************)
Start(b, t) ==
    /\ tab[b].task = None
    /\ thread[t] = "none"
    /\ entry' = [entry EXCEPT ![t] = [status |-> "processing", full |-> FALSE]]
    /\ thread' = [thread EXCEPT ![t] = "queued"]
    /\ \/ tab' = [tab EXCEPT ![b] = [task |-> t, attempts |-> 0, outcome |-> "none"]]
       \/ tab' = [tab EXCEPT ![b] = Idle("network")]

Running == {t \in Tasks : thread[t] \in {"running", "storing", "reporting"}}

(***************************************************************************)
(* run_analysis, in its thread.                                            *)
(***************************************************************************)
Run(t) ==
    /\ thread[t] = "queued"
    /\ Cardinality(Running) < PoolSize
    /\ thread' = [thread EXCEPT ![t] = "running"]
    /\ UNCHANGED <<entry, tab>>

(* The analysis returned: the status is set before the result.             *)
Complete(t) ==
    /\ thread[t] = "running"
    /\ entry' = [entry EXCEPT ![t].status = "completed"]
    /\ thread' = [thread EXCEPT ![t] = "storing"]
    /\ UNCHANGED tab

(* Mutant: the thread waits for its task to come back.                     *)
StoreResultOnlyIfPresent(t) ==
    /\ thread[t] = "storing"
    /\ entry[t].status # "absent"
    /\ entry' = [entry EXCEPT ![t].full = TRUE]
    /\ thread' = [thread EXCEPT ![t] = "ended"]
    /\ UNCHANGED tab

(* The result is stored, unless the task was deleted meanwhile: then the   *)
(* assignment, and after it the exception handler, raise KeyError.         *)
StoreResult(t) ==
    /\ thread[t] = "storing"
    /\ entry' = [entry EXCEPT ![t].full = @ \/ entry[t].status # "absent"]
    /\ thread' = [thread EXCEPT ![t] = "ended"]
    /\ UNCHANGED tab

(* Mutant: an exception of the analysis ends the thread unreported.        *)
FailSilently(t) ==
    /\ thread[t] = "running"
    /\ thread' = [thread EXCEPT ![t] = "ended"]
    /\ UNCHANGED <<entry, tab>>

(* The analysis raised: again the status first, then the error.            *)
Fail(t) ==
    /\ thread[t] = "running"
    /\ entry' = [entry EXCEPT ![t].status = "failed"]
    /\ thread' = [thread EXCEPT ![t] = "reporting"]
    /\ UNCHANGED tab

StoreError(t) ==
    /\ thread[t] = "reporting"
    /\ entry' = [entry EXCEPT ![t].full = @ \/ entry[t].status # "absent"]
    /\ thread' = [thread EXCEPT ![t] = "ended"]
    /\ UNCHANGED tab

Work(t) == Run(t) \/ Complete(t) \/ StoreResult(t) \/ Fail(t) \/ StoreError(t)

(***************************************************************************)
(* GET /api/analyze/result/<id> and what the tab does with the answer.     *)
(***************************************************************************)
(* Mutant: the attempt is not counted.                                     *)
WaitsForever(b) == tab' = tab

(* Nothing to show yet ("processing"), or no such task: the dashboard does *)
(* not look at the HTTP status and takes a 404 for an unfinished analysis. *)
Wait(b) ==
    LET n == tab[b].attempts + 1
    IN  tab' = [tab EXCEPT ![b] = IF n < MaxAttempts THEN [@ EXCEPT !.attempts = n]
                                                     ELSE Idle("timeout")]

(* A completed task without a result ends the loop like a timeout.  A poll *)
(* that is refused (429 of the rate limit, 500) leaves the task alone,     *)
(* whatever its status, and counts as an attempt too.                      *)
Poll(b) ==
    /\ tab[b].task # None
    /\ LET t == tab[b].task
       IN  \/ /\ Wait(b)
              /\ UNCHANGED entry
           \/ /\ entry[t].status = "completed"
              /\ tab' = [tab EXCEPT ![b] = Idle(IF entry[t].full THEN "shown" ELSE "timeout")]
              /\ entry' = [entry EXCEPT ![t] = Absent]
           \/ /\ entry[t].status = "failed"
              /\ tab' = [tab EXCEPT ![b] = Idle("failed")]
              /\ entry' = [entry EXCEPT ![t] = Absent]
    /\ UNCHANGED thread

(* The request or its reply is lost: fetch throws and the tab gives up;    *)
(* the handler may have run, and deleted a finished task.                  *)
PollLost(b) ==
    /\ tab[b].task # None
    /\ LET t == tab[b].task
       IN  \/ entry' = entry
           \/ /\ entry[t].status \in {"completed", "failed"}
              /\ entry' = [entry EXCEPT ![t] = Absent]
    /\ tab' = [tab EXCEPT ![b] = Idle("network")]
    /\ UNCHANGED thread

(* The service restarts: dictionary and threads are gone.                  *)
Restart ==
    /\ \E t \in Tasks : thread[t] \notin {"none", "gone"}
    /\ entry' = [t \in Tasks |-> Absent]
    /\ thread' = [t \in Tasks |-> IF thread[t] = "none" THEN "none" ELSE "gone"]
    /\ UNCHANGED tab

Next ==
    \/ \E b \in Tabs : (\E t \in Tasks : Start(b, t)) \/ Poll(b) \/ PollLost(b)
    \/ \E t \in Tasks : Work(t)
    \/ Restart

(* A thread that has work goes on, an executor with a free thread takes a  *)
(* queued task, and a tab that waits polls every two seconds.              *)
Fairness ==
    /\ \A t \in Tasks : WF_vars(Work(t)) /\ SF_vars(Run(t))
    /\ \A b \in Tabs : WF_vars(Poll(b))

Spec == Init /\ [][Next]_vars
FairSpec == Spec /\ Fairness

-------------------------------------------------------------------------------
TypeOK ==
    /\ entry \in [Tasks -> Entry]
    /\ thread \in [Tasks -> {"none", "queued", "running", "storing", "reporting",
                             "ended", "gone"}]
    /\ tab \in [Tabs -> [task : Tasks \union {None}, attempts : 0..MaxAttempts - 1,
                         outcome : Outcomes]]

(* A task answers "processing" only while its thread is queued or at work; *)
(* no exception of the analysis, and no deletion crossing the thread's     *)
(* assignments, leaves a task that is polled in vain.                      *)
ProcessingIsAlive ==
    \A t \in Tasks : entry[t].status = "processing" => thread[t] \in {"queued", "running"}

(* A stored outcome leaves the dictionary only with a request of the tab   *)
(* that was given the task: it is shown or reported there, or lost with    *)
(* the reply.  No other tab, and no later analysis, takes or replaces it.  *)
OutcomeIsDelivered ==
    [][\A t \in Tasks : entry[t].full /\ ~entry'[t].full =>
           \/ \E b \in Tabs : tab[b].task = t /\ tab'[b].outcome \in {"shown", "failed", "network"}
           \/ thread'[t] = "gone"]_vars

(* The task is deleted "after it was received" (the comment at both        *)
(* deletions): while the thread has still to store the result, the entry   *)
(* to store it in would have to be there.                                  *)
DeletedAfterReceived ==
    \A t \in Tasks : thread[t] = "storing" => entry[t].status # "absent"

(* A tab that waits is told something in the end, whatever becomes of the  *)
(* task: isAnalyzing never locks the dashboard for good.                   *)
TabEnds == \A b \in Tabs : tab[b].task # None ~> tab[b].task = None

(* Every accepted analysis ends, even when there are more tasks than       *)
(* threads.                                                                *)
TaskEnds == \A t \in Tasks : thread[t] = "queued" ~> thread[t] \in {"ended", "gone"}
===============================================================================
