------------------------------- MODULE Dashboard -------------------------------
(***************************************************************************)
(* How a page of the dashboard follows a batch collection.                 *)
(*                                                                         *)
(* The page keeps one job id and one interval, which asks for the status   *)
(* of the job every three seconds whether or not the last answer is there. *)
(* Answers and timers do not say which job they are about: what they clear *)
(* is whatever is followed by then.  Of the service only the status that a *)
(* poll sees matters here; BatchContract says how it may change.           *)
(***************************************************************************)
EXTENDS Naturals, FiniteSets

CONSTANTS
    Jobs,           \* batches, each started once
    Polls,          \* status requests under way at a time: a bound
    None

VARIABLES
    job,            \* the service's status of each job
    posting,        \* POST /collect/batch that were accepted, and not answered
    currentJobId, jobInterval,
    poll,           \* calls of checkJobStatus that wait for their answer
    timers,         \* five-second timers, by the job whose end set them
    announced,      \* jobs whose end was logged
    alone           \* history: started, and not disturbed by others

service == <<job>>
page == <<posting, currentJobId, jobInterval, poll, timers, announced>>
vars == <<service, page, alone>>

Idle == [job |-> None, answer |-> None]

Init ==
    /\ job = [j \in Jobs |-> "none"]
    /\ posting = {}
    /\ currentJobId = None /\ jobInterval = FALSE
    /\ poll = [p \in Polls |-> Idle]
    /\ timers = [j \in Jobs |-> 0]
    /\ announced = {} /\ alone = {}

(* No request or timer of another job is left.                             *)
Undisturbed(j) ==
    /\ posting \subseteq {j}
    /\ \A p \in Polls : poll[p].job \in {j, None}
    /\ \A i \in Jobs : timers[i] = 0

-------------------------------------------------------------------------------
(* startBatchCollection: nothing keeps the user from a second start.       *)
Start(j) ==
    /\ job[j] = "none"
    /\ job' = [job EXCEPT ![j] = "running"]
    /\ posting' = posting \union {j}
    /\ alone' = {}
    /\ UNCHANGED <<currentJobId, jobInterval, poll, timers, announced>>

(* The job is followed from now on, and asked about at once.               *)
Follow(j) ==
    /\ j \in posting
    /\ posting' = posting \ {j}
    /\ currentJobId' = j /\ jobInterval' = TRUE
    /\ \E p \in Polls : poll[p] = Idle /\ poll' = [poll EXCEPT ![p].job = j]
    /\ alone' = IF Undisturbed(j) THEN {j} ELSE {}
    /\ UNCHANGED <<service, timers, announced>>

(* The answer of the POST is lost, and the job goes on unseen.             *)
StartLost(j) ==
    /\ j \in posting
    /\ posting' = posting \ {j}
    /\ UNCHANGED <<service, currentJobId, jobInterval, poll, timers, announced, alone>>

(* The interval fires.                                                     *)
Ask(p) ==
    /\ jobInterval /\ currentJobId # None
    /\ poll[p] = Idle
    /\ poll' = [poll EXCEPT ![p].job = currentJobId]
    /\ UNCHANGED <<service, posting, currentJobId, jobInterval, timers, announced, alone>>

(* The service answers: with an error, which is no status, or by the job.  *)
Answer(p) ==
    /\ poll[p].job # None /\ poll[p].answer = None
    /\ poll' = [poll EXCEPT ![p].answer = job[poll[p].job]]
    /\ UNCHANGED <<service, posting, currentJobId, jobInterval, timers, announced, alone>>

(* Mutant: any error of a status request ends it, not only a 404.          *)
ForgetJob(p) ==
    /\ poll[p].answer # None
    /\ poll' = [poll EXCEPT ![p] = Idle]
    /\ currentJobId' = None /\ jobInterval' = FALSE
    /\ UNCHANGED <<service, posting, timers, announced, alone>>

(* An answer that is lost, or an error other than 404, changes nothing.    *)
AnswerLost(p) ==
    /\ poll[p].answer # None
    /\ poll' = [poll EXCEPT ![p] = Idle]
    /\ UNCHANGED <<service, posting, currentJobId, jobInterval, timers, announced, alone>>

Receive(p) ==
    /\ poll[p].answer # None
    /\ poll' = [poll EXCEPT ![p] = Idle]
    /\ LET j == poll[p].job
           end == poll[p].answer = "completed"
           gone == poll[p].answer = "lost"
       IN  /\ jobInterval' = (jobInterval /\ ~end /\ ~gone)
           /\ currentJobId' = IF gone THEN None ELSE currentJobId
           /\ timers' = [timers EXCEPT ![j] = IF end THEN @ + 1 ELSE @]
           /\ announced' = IF end THEN announced \union {j} ELSE announced
    /\ UNCHANGED <<service, posting, alone>>

(* The timer hides the panel and forgets whatever job there is by now.     *)
Timer(j) ==
    /\ timers[j] > 0
    /\ timers' = [timers EXCEPT ![j] = @ - 1]
    /\ currentJobId' = None
    /\ UNCHANGED <<service, posting, jobInterval, poll, announced, alone>>

-------------------------------------------------------------------------------
(* The service.                                                            *)
Complete(j) ==
    /\ job[j] = "running"
    /\ job' = [job EXCEPT ![j] = "completed"]
    /\ UNCHANGED <<page, alone>>

Restart ==
    /\ \E j \in Jobs : job[j] \in {"running", "completed"}
    /\ job' = [j \in Jobs |-> IF job[j] = "none" THEN "none" ELSE "lost"]
    /\ UNCHANGED <<page, alone>>

Next ==
    \/ \E j \in Jobs : Start(j) \/ Follow(j) \/ StartLost(j) \/ Timer(j) \/ Complete(j)
    \/ \E p \in Polls : Ask(p) \/ Answer(p) \/ AnswerLost(p) \/ Receive(p)
    \/ Restart

(* The interval fires, the service answers and ends its batches, and not   *)
(* every answer is lost.                                                   *)
Fairness ==
    /\ WF_vars(\E p \in Polls : Ask(p))
    /\ \A p \in Polls : WF_vars(Answer(p)) /\ SF_vars(Receive(p))
    /\ \A j \in Jobs : WF_vars(Complete(j))

-------------------------------------------------------------------------------
(* A batch that is started when nothing of an earlier one is under way,    *)
(* and followed by no other start, is reported in the end, however many    *)
(* answers are late or lost; unless the service forgets it, which the page *)
(* takes for its end.                                                      *)
LoneBatchIsReported ==
    \A j \in Jobs : j \in alone ~> j \notin alone \/ j \in announced \/ job[j] = "lost"
===============================================================================
