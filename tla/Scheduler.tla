------------------------------- MODULE Scheduler -------------------------------
(***************************************************************************)
(* The scheduler of the data-analysis service: run_forever scans the store *)
(* for tokens without an analysis and analyses them in batches; two        *)
(* endpoints scan once or analyse one token anew, as background tasks of   *)
(* the same event loop.                                                    *)
(*                                                                         *)
(* The loop and the background tasks share the object `scheduler` and      *)
(* interleave at every await.  An analysis runs in a thread; after 120     *)
(* seconds its caller gives it up, and the thread goes on.                 *)
(*                                                                         *)
(* The lifespan of the application does not start run_forever: the lines   *)
(* are commented out.  `autostart` says whether it does, so that the class *)
(* is checked both as it is deployed and as it is written.                 *)
(***************************************************************************)
EXTENDS Naturals, FiniteSets

CONSTANTS
    Mints,
    Fragile,        \* tokens whose data may be such that every analysis raises
    Loop,           \* run_forever
    Callers,        \* background tasks of scan-now and reanalyze
    BatchSize,      \* BATCH_SIZE_HISTORY
    MaxFaults,      \* bound on what is lost: analyses, tokens, processes, calls
    None

ASSUME SchedulerAssumption ==
    /\ IsFiniteSet(Mints)
    /\ Fragile \subseteq Mints
    /\ Loop \notin Callers
    /\ BatchSize \in Nat \ {0}
    /\ MaxFaults \in Nat
    /\ None \notin Mints

VARIABLES
    bad,            \* tokens whose analysis always raises
    stored,         \* mints with a key token:<mint>
    history,        \* mints with a key history:<mint>
    autostart,
    client,         \* self.client is set
    running,
    analyzed,       \* analyzed_tokens
    task,           \* the loop, and the background tasks
    abandoned,      \* mints whose analysis was given up and goes on
    faults,
    done,           \* mints of which an analysis ended with its result
    saved           \* and those of which a history was saved, at some time

vars == <<bad, stored, history, autostart, client, running, analyzed, task, abandoned, faults,
          done, saved>>

fixed == <<bad, autostart>>
histories == <<history, done, saved>>
keys == <<stored, histories>>
scheduler == <<client, running, analyzed>>

Tasks == Callers \union {Loop}

(* kind "reanalyze" has its token in `mint` from the start; thread is that *)
(* of the analysis the task waits for.                                     *)
Idle == [at |-> "idle", kind |-> "scan", force |-> FALSE, todo |-> {}, mint |-> None,
         thread |-> "none"]

(* run_forever, as the lifespan would start it.                            *)
LoopStarts == [Idle EXCEPT !.at = "init"]

Init ==
    /\ autostart \in BOOLEAN
    /\ bad \in SUBSET Fragile
    /\ stored \in SUBSET Mints
    /\ history \in SUBSET (stored \ bad)
    /\ client = FALSE
    /\ running = FALSE
    /\ analyzed = {}
    /\ task = [p \in Tasks |-> IF p = Loop /\ autostart THEN LoopStarts ELSE Idle]
    /\ abandoned = {}
    /\ faults = 0
    /\ done = history
    /\ saved = history

Move(p, at) == task' = [task EXCEPT ![p].at = at]

(***************************************************************************)
(* The endpoints.  start_scheduler calls a method that does not exist and  *)
(* changes nothing.  stop_scheduler awaits what is not awaitable, but has  *)
(* stopped the scheduler by then.                                          *)
(***************************************************************************)
ScanNow(c) ==
    /\ task[c].at = "idle"
    /\ \E force \in BOOLEAN : task' = [task EXCEPT ![c] = [Idle EXCEPT !.at = "init", !.force = force]]
    /\ UNCHANGED <<fixed, keys, scheduler, abandoned, faults>>

Reanalyze(c, m) ==
    /\ task[c].at = "idle"
    /\ task' = [task EXCEPT ![c] = [Idle EXCEPT !.at = "init", !.kind = "reanalyze",
                                                !.force = TRUE, !.mint = m]]
    /\ UNCHANGED <<fixed, keys, scheduler, abandoned, faults>>

Stop ==
    /\ running
    /\ running' = FALSE
    /\ UNCHANGED <<fixed, keys, client, analyzed, task, abandoned, faults>>

(***************************************************************************)
(* initialize: a task that finds the client set goes on at once, also      *)
(* while another is still loading analyzed_tokens.                         *)
(***************************************************************************)
AfterInit(p) ==
    /\ Move(p, IF task[p].kind = "scan" THEN "list" ELSE "read")
    /\ running' = (running \/ p = Loop)

Initialize(p) ==
    /\ task[p].at = "init"
    /\ IF client THEN AfterInit(p) ELSE Move(p, "load") /\ UNCHANGED running
    /\ client' = TRUE
    /\ UNCHANGED <<fixed, keys, analyzed, abandoned, faults>>

(* load_analyzed_tokens; an error leaves the set as it was, for good.      *)
Load(p) ==
    /\ task[p].at = "load"
    /\ \/ analyzed' = analyzed \union history /\ UNCHANGED faults
       \/ faults < MaxFaults /\ faults' = faults + 1 /\ UNCHANGED analyzed
    /\ AfterInit(p)
    /\ UNCHANGED <<fixed, keys, client, abandoned>>

(***************************************************************************)
(* scan_and_analyze.                                                       *)
(***************************************************************************)
(* Mutant: a scan takes the first tokens of the store, analysed or not.    *)
TakesAnyBatch(p) ==
    /\ task[p].at = "list"
    /\ \E batch \in SUBSET stored :
        /\ Cardinality(batch) = IF Cardinality(stored) < BatchSize
                                THEN Cardinality(stored) ELSE BatchSize
        /\ task' = [task EXCEPT ![p].todo = batch, ![p].at = "next"]
    /\ UNCHANGED <<fixed, keys, scheduler, abandoned, faults>>

(* The keys come in no particular order, and the batch is the first few.   *)
(* Without an answer of Redis there are none.                              *)
TakeBatch(p) ==
    /\ task[p].at = "list"
    /\ \/ /\ UNCHANGED faults
          /\ LET candidates == IF task[p].force THEN stored ELSE stored \ analyzed
             IN  \E batch \in SUBSET candidates :
                     /\ Cardinality(batch) = IF Cardinality(candidates) < BatchSize
                                             THEN Cardinality(candidates) ELSE BatchSize
                     /\ task' = [task EXCEPT ![p].todo = batch, ![p].at = "next"]
       \/ faults < MaxFaults /\ faults' = faults + 1 /\ Move(p, "next")
    /\ UNCHANGED <<fixed, keys, scheduler, abandoned>>

(* Mutant: a scan does not ask whether the scheduler is running.           *)
ContinuesAnyway(p) == task[p].todo # {}

(* The loop of a scan ends when the scheduler is stopped, or never ran.    *)
Continues(p) == task[p].todo # {} /\ running

(* Mutant: a token that is taken stays in the batch.                       *)
KeepsToken(p) ==
    /\ task[p].at = "next"
    /\ IF Continues(p)
       THEN \E m \in task[p].todo :
                task' = [task EXCEPT ![p].mint = m,
                                     ![p].at = IF task[p].force THEN "read" ELSE "check"]
       ELSE task' = [task EXCEPT ![p] = IF p = Loop THEN [Idle EXCEPT !.at = "sleep"] ELSE Idle]
    /\ UNCHANGED <<fixed, keys, scheduler, abandoned, faults>>

NextToken(p) ==
    /\ task[p].at = "next"
    /\ IF Continues(p)
       THEN \E m \in task[p].todo :
                task' = [task EXCEPT ![p].todo = @ \ {m}, ![p].mint = m,
                                     ![p].at = IF task[p].force THEN "read" ELSE "check"]
       ELSE task' = [task EXCEPT ![p] = IF p = Loop THEN [Idle EXCEPT !.at = "sleep"] ELSE Idle]
    /\ UNCHANGED <<fixed, keys, scheduler, abandoned, faults>>

(* run_forever between two scans; once stopped, it ends.                   *)
NextScan ==
    /\ task[Loop].at = "sleep"
    /\ Move(Loop, IF running THEN "list" ELSE "idle")
    /\ UNCHANGED <<fixed, keys, scheduler, abandoned, faults>>

(***************************************************************************)
(* analyze_token.                                                          *)
(***************************************************************************)
EndToken(p) ==
    task' = [task EXCEPT ![p] = IF @.kind = "reanalyze" THEN Idle
                                ELSE [@ EXCEPT !.at = "next", !.mint = None, !.thread = "none"]]

(* A token with a history is passed over, and not counted as analysed.  A  *)
(* history that cannot be read is none.                                    *)
Check(p) ==
    /\ task[p].at = "check"
    /\ \/ /\ IF task[p].mint \in history THEN EndToken(p) ELSE Move(p, "read")
          /\ UNCHANGED faults
       \/ faults < MaxFaults /\ faults' = faults + 1 /\ Move(p, "read")
    /\ UNCHANGED <<fixed, keys, scheduler, abandoned>>

(* get_token, with its three tries; without data there is no analysis.     *)
Read(p) ==
    /\ task[p].at = "read"
    /\ \/ /\ task[p].mint \in stored
          /\ task' = [task EXCEPT ![p].at = "wait", ![p].thread = "queued"]
          /\ UNCHANGED faults
       \/ /\ task[p].mint \notin stored
          /\ EndToken(p)
          /\ UNCHANGED faults
       \/ /\ task[p].mint \in stored
          /\ faults < MaxFaults
          /\ faults' = faults + 1
          /\ EndToken(p)
    /\ UNCHANGED <<fixed, keys, scheduler, abandoned>>

(* The executor takes the analysis up.                                     *)
Run(p) ==
    /\ task[p].thread = "queued"
    /\ task' = [task EXCEPT ![p].thread = "running"]
    /\ UNCHANGED <<fixed, keys, scheduler, abandoned, faults>>

(* To save a history: it is there, or the error is caught, and nobody is   *)
(* told.                                                                   *)
Lost == faults < MaxFaults /\ faults' = faults + 1 /\ UNCHANGED <<history, saved>>

Save(m) ==
    \/ /\ history' = history \union {m}
       /\ saved' = saved \union {m}
       /\ UNCHANGED faults
    \/ Lost

(* get_full_analysis(save_history=True) saves the history itself.          *)
Analyse(p) ==
    /\ task[p].thread = "running"
    /\ task[p].mint \notin bad
    /\ Save(task[p].mint)
    /\ done' = done \union {task[p].mint}
    /\ task' = [task EXCEPT ![p].thread = "ended"]
    /\ UNCHANGED <<fixed, scheduler, stored, abandoned>>

(* The analysis raised.                                                    *)
Fail(p) ==
    /\ task[p].thread = "running"
    /\ \/ task[p].mint \in bad /\ UNCHANGED faults
       \/ task[p].mint \notin bad /\ faults < MaxFaults /\ faults' = faults + 1
    /\ EndToken(p)
    /\ UNCHANGED <<fixed, keys, scheduler, abandoned>>

(* Mutant: a token is marked whether its analysis ended in time or not.    *)
MarksTimedOut(p) ==
    /\ task[p].thread \in {"queued", "running", "ended"}
    /\ EndToken(p)
    /\ analyzed' = analyzed \union {task[p].mint}
    /\ abandoned' = IF task[p].thread = "running" THEN abandoned \union ({task[p].mint} \ bad)
                                                  ELSE abandoned
    /\ UNCHANGED <<fixed, keys, client, running, faults>>

(* 120 seconds: an analysis that has not begun is cancelled, one that has  *)
(* goes on in its thread.  The token is not marked.                        *)
Timeout(p) ==
    /\ task[p].thread \in {"queued", "running", "ended"}
    /\ EndToken(p)
    /\ abandoned' = IF task[p].thread = "running" THEN abandoned \union ({task[p].mint} \ bad)
                                                  ELSE abandoned
    /\ UNCHANGED <<fixed, keys, scheduler, faults>>

(* The thread goes on to its end, and saves what it has.                   *)
AbandonedEnds(m) ==
    /\ m \in abandoned
    /\ abandoned' = abandoned \ {m}
    /\ \/ Save(m) /\ done' = done \union {m}
       \/ Lost /\ UNCHANGED done
    /\ UNCHANGED <<fixed, scheduler, stored, task>>

(* Mutant: what the thread has saved is not saved again.                   *)
SavesOnce(p) ==
    /\ task[p].thread = "ended"
    /\ analyzed' = analyzed \union {task[p].mint}
    /\ EndToken(p)
    /\ UNCHANGED <<fixed, keys, client, running, abandoned, faults>>

(* Back in the event loop the history is saved a second time, and once the *)
(* daily analytics are written the token is marked, whether it has its     *)
(* history or not.  An error of the analytics leaves it unmarked.          *)
Finish(p) ==
    /\ task[p].thread = "ended"
    /\ EndToken(p)
    /\ \/ Save(task[p].mint) /\ analyzed' = analyzed \union {task[p].mint}
       \/ /\ faults < MaxFaults /\ faults' = faults + 1
          /\ history' = history \union {task[p].mint}
          /\ saved' = saved \union {task[p].mint}
          /\ UNCHANGED analyzed
       \/ Lost /\ UNCHANGED analyzed
    /\ UNCHANGED <<fixed, stored, client, running, abandoned, done>>

(***************************************************************************)
(* The surroundings: a token is collected or analysed on request of a      *)
(* user, an analysis expires after seven days or is deleted, a token       *)
(* expires or is deleted, the process restarts.                            *)
(***************************************************************************)
Collect(m) ==
    /\ m \notin stored
    /\ stored' = stored \union {m}
    /\ UNCHANGED <<fixed, scheduler, histories, task, abandoned, faults>>

UserAnalysis(m) ==
    /\ m \in stored \ (bad \union history)
    /\ Save(m)
    /\ done' = done \union {m}
    /\ UNCHANGED <<fixed, scheduler, stored, task, abandoned>>

LoseHistory(m) ==
    /\ m \in history
    /\ faults < MaxFaults
    /\ history' = history \ {m}
    /\ faults' = faults + 1
    /\ UNCHANGED <<fixed, scheduler, stored, task, abandoned, done, saved>>

LoseToken(m) ==
    /\ m \in stored
    /\ faults < MaxFaults
    /\ stored' = stored \ {m}
    /\ faults' = faults + 1
    /\ UNCHANGED <<fixed, scheduler, histories, task, abandoned>>

Restart ==
    /\ faults < MaxFaults
    /\ faults' = faults + 1
    /\ client' = FALSE
    /\ running' = FALSE
    /\ analyzed' = {}
    /\ abandoned' = {}
    /\ task' = [p \in Tasks |-> IF p = Loop /\ autostart THEN LoopStarts ELSE Idle]
    /\ UNCHANGED <<fixed, keys>>

(* What a task does by itself.                                             *)
Work(p) ==
    \/ Initialize(p) \/ Load(p) \/ TakeBatch(p) \/ NextToken(p)
    \/ Check(p) \/ Read(p) \/ Run(p) \/ Analyse(p) \/ Fail(p) \/ Finish(p)

Next ==
    \/ \E c \in Callers : ScanNow(c) \/ \E m \in Mints : Reanalyze(c, m)
    \/ \E p \in Tasks : Work(p) \/ Timeout(p)
    \/ \E m \in Mints : AbandonedEnds(m) \/ Collect(m) \/ UserAnalysis(m)
                        \/ LoseHistory(m) \/ LoseToken(m)
    \/ Stop \/ NextScan \/ Restart

(* Every await returns and a thread that was given up still ends.  The     *)
(* executor does not leave the analysis of a token in its queue, for 120   *)
(* seconds, every time that run_forever asks for it.                       *)
Fairness ==
    /\ WF_vars(NextScan)
    /\ \A p \in Tasks : WF_vars(Work(p))
    /\ \A m \in Mints : SF_vars(task[Loop].mint = m /\ Run(Loop)) /\ WF_vars(AbandonedEnds(m))

Spec == Init /\ [][Next]_vars
FairSpec == Spec /\ Fairness

-------------------------------------------------------------------------------
(* Where a task can be: at most a batch lies before a scan, there is a     *)
(* thread only while the task waits, and what is analysed is a token.      *)
TaskStates ==
    {t \in [at : {"idle", "init", "load", "list", "next", "sleep", "check", "read", "wait"},
            kind : {"scan", "reanalyze"}, force : BOOLEAN,
            todo : SUBSET Mints, mint : Mints \union {None},
            thread : {"none", "queued", "running", "ended"}] :
        /\ Cardinality(t.todo) <= BatchSize
        /\ t.thread # "none" <=> t.at = "wait"
        /\ t.at \in {"check", "read", "wait"} \/ (t.kind = "reanalyze" /\ t.at # "idle")
               => t.mint # None}

(* What is analysed was analysed once, with its result, and what cannot be *)
(* analysed never was; what has a history got it then.                     *)
TypeOK ==
    /\ bad \subseteq Fragile
    /\ stored \subseteq Mints
    /\ history \subseteq saved
    /\ saved \subseteq done
    /\ analyzed \subseteq Mints
    /\ abandoned \subseteq Mints \ bad
    /\ done \subseteq Mints \ bad
    /\ faults \in 0..MaxFaults
    /\ autostart \in BOOLEAN /\ client \in BOOLEAN /\ running \in BOOLEAN
    /\ task \in [Tasks -> TaskStates]

(* While run_forever was not started no scan analyses anything: the manual *)
(* scan of the application as it is deployed takes a batch and drops it.   *)
ScanNeedsLoop ==
    \A p \in Tasks : ~autostart /\ task[p].at \in {"check", "read", "wait"}
                        => task[p].kind = "reanalyze"

(* A token counts as analysed only when an analysis of it ended with its   *)
(* result: no token is left out of the scans for one that failed, that was *)
(* given up or that never began.                                           *)
MarkedIsDone == analyzed \subseteq done

(* Nobody looks at whether a history was saved before the token is marked, *)
(* and left out of the scans until a restart.  But it is saved twice, in   *)
(* the thread and in the loop, so that one error, whichever step it hits,  *)
(* does not make a token count that never had a history.  Two errors do.   *)
MarkedIsSaved == faults < 2 => analyzed \subseteq saved

(* Tokens that a scan takes in vain every time: those it cannot analyse,   *)
(* and those that have a history it does not know of (of an analysis given *)
(* up, of a user, of a failed load).  They hold places in every batch.     *)
Stuck == {m \in stored \ analyzed : m \in bad \union history}

(* The scheduler, left running, gets every token that it can analyse to a  *)
(* history, or marked (see MarkedIsSaved), as long as those it takes in    *)
(* vain do not fill the batch.                                             *)
ScansReachAll ==
    <>[](running /\ Cardinality(Stuck) < BatchSize)
        => \A m \in Mints : m \in stored \ bad ~> m \in saved \union analyzed \/ m \notin stored

(* A background task ends, and so does the loop after it was stopped, with *)
(* whatever token, thread or fault was in its way.                         *)
TasksEnd ==
    /\ \A c \in Callers : task[c].at # "idle" ~> task[c].at = "idle"
    /\ ~running ~> running \/ task[Loop].at = "idle"
===============================================================================
