------------------------------ MODULE RpcFailover ------------------------------
(***************************************************************************)
(* SolanaCollector._rpc_call: the calls of one collector, which share a    *)
(* semaphore and the failure counts of the RPC endpoints.                  *)
(*                                                                         *)
(* A batch of transactions is a call for each of them, all at once.  A     *)
(* call chooses an endpoint before it waits for the semaphore, so what it  *)
(* knew of the endpoint may be old when it posts; it sleeps between        *)
(* attempts with the semaphore still held.  After a minute the batch is    *)
(* cancelled as a whole.                                                   *)
(***************************************************************************)
EXTENDS Naturals, FiniteSets

CONSTANTS
    Calls,          \* calls at once (at most a batch of 500)
    Endpoints,      \* RPC_ENDPOINTS
    Slots,          \* MAX_CONCURRENT
    Retries,        \* retries after the first attempt (2)
    MaxFailures,    \* failures after which an endpoint is left alone (3)
    None

ASSUME NumbersAssumption ==
    Slots \in Nat \ {0} /\ Retries \in Nat /\ MaxFailures \in Nat \ {0}
ASSUME CallsAssumption == IsFiniteSet(Calls)
ASSUME EndpointsAssumption ==
    Endpoints # {} /\ None \notin Endpoints

VARIABLES
    healthy,        \* the endpoints that answer every request
    failed,         \* failed_endpoints
    free,           \* the value of the semaphore
    call            \* the calls of the batch: where they are

vars == <<healthy, failed, free, call>>

Over == [at |-> "none", endpoint |-> None, attempt |-> 0]

Init ==
    /\ healthy \in SUBSET Endpoints
    /\ failed = [e \in Endpoints |-> 0]
    /\ free = Slots
    /\ call = [c \in Calls |-> Over]

Waiting == {c \in Calls : call[c].at = "waiting"}

(* Mutant: an endpoint is left alone one failure later.                    *)
AvailableTooLong == {e \in Endpoints : failed[e] <= MaxFailures}

(* _get_next_rpc: the endpoints that have not failed too often, or, when   *)
(* there is none, all of them, with the counts cleared.                    *)
Available == {e \in Endpoints : failed[e] < MaxFailures}

(* A call chooses an endpoint, then takes the semaphore, which has the     *)
(* value v, or waits behind the calls that wait.                           *)
Choose(c, n, v) ==
    LET at == IF v > 0 /\ Waiting = {} THEN "posting" ELSE "waiting"
    IN  /\ \E e \in IF Available = {} THEN Endpoints ELSE Available :
               call' = [call EXCEPT ![c] = [at |-> at, endpoint |-> e, attempt |-> n]]
        /\ failed' = IF Available = {} THEN [e \in Endpoints |-> 0] ELSE failed
        /\ free' = IF at = "posting" THEN v - 1 ELSE v
        /\ UNCHANGED healthy

(* A batch, or a single call, when those before are done.                  *)
Gather ==
    /\ \A c \in Calls : call[c].at \in {"result", "none"}
    /\ \E batch \in (SUBSET Calls) \ {{}} :
           call' = [c \in Calls |-> IF c \in batch THEN [Over EXCEPT !.at = "starting"] ELSE Over]
    /\ UNCHANGED <<healthy, failed, free>>

(* The calls of a batch begin in one turn of the loop, one by one.         *)
Begin(c) ==
    /\ call[c].at = "starting"
    /\ Choose(c, 0, free)

AllBegan == \A c \in Calls : call[c].at # "starting"

Acquire(c) ==
    /\ call[c].at = "waiting"
    /\ free > 0
    /\ free' = free - 1
    /\ call' = [call EXCEPT ![c].at = "posting"]
    /\ UNCHANGED <<healthy, failed>>

(* Mutant: an endpoint is marked whatever it answers.                      *)
AnswerMarks(c) ==
    /\ call[c].at = "posting"
    /\ free' = free + 1
    /\ call' = [call EXCEPT ![c] = [Over EXCEPT !.at = "result"]]
    /\ failed' = [failed EXCEPT ![call[c].endpoint] = @ + 1]
    /\ UNCHANGED healthy

(* The endpoint answers with a result.                                     *)
Answer(c) ==
    /\ call[c].at = "posting"
    /\ free' = free + 1
    /\ call' = [call EXCEPT ![c] = [Over EXCEPT !.at = "result"]]
    /\ UNCHANGED <<healthy, failed>>

(* An error in the answer, an exception or a timeout: the endpoint is      *)
(* marked; the call sleeps, in the semaphore, or gives up.                 *)
Error(c) ==
    /\ call[c].at = "posting"
    /\ call[c].endpoint \notin healthy
    /\ failed' = [failed EXCEPT ![call[c].endpoint] = @ + 1]
    /\ UNCHANGED healthy
    /\ \/ /\ call[c].attempt < Retries
          /\ call' = [call EXCEPT ![c].at = "sleeping"]
          /\ UNCHANGED free
       \/ /\ call[c].attempt = Retries
          /\ call' = [call EXCEPT ![c] = Over]
          /\ free' = free + 1

(* Mutant: attempts are not counted.                                       *)
RetryUncounted(c) ==
    /\ call[c].at = "sleeping"
    /\ Choose(c, call[c].attempt, free + 1)

(* The sleep is over: the semaphore is left, to the next waiting call if   *)
(* there is one, and the call chooses again.                               *)
Retry(c) ==
    /\ call[c].at = "sleeping"
    /\ Choose(c, call[c].attempt + 1, free + 1)

(* Mutant: the calls that are cancelled keep the semaphore.                *)
TimeoutKeepsSlots ==
    /\ \E c \in Calls : call[c].at \in {"waiting", "posting", "sleeping"}
    /\ call' = [c \in Calls |-> Over]
    /\ UNCHANGED <<healthy, failed, free>>

(* wait_for cancels the batch: every call leaves the semaphore.            *)
Timeout ==
    /\ \E c \in Calls : call[c].at \in {"waiting", "posting", "sleeping"}
    /\ call' = [c \in Calls |-> Over]
    /\ free' = Slots
    /\ UNCHANGED <<healthy, failed>>

Step(c) ==
    \/ Begin(c)
    \/ AllBegan /\ (Acquire(c) \/ Answer(c) \/ Error(c) \/ Retry(c))

Next == Gather \/ (AllBegan /\ Timeout) \/ \E c \in Calls : Step(c)

Spec == Init /\ [][Next]_vars

(* A post ends, with its answer or its timeout of 30 seconds; asyncio      *)
(* wakes the calls that wait for the semaphore in their order.             *)
FairSpec ==
    Spec /\ \A c \in Calls : WF_vars(Step(c)) /\ SF_vars(AllBegan /\ Acquire(c))

--------------------------------------------------------------------------------
(* The calls that have the semaphore, and those that have yet to report on *)
(* an endpoint.                                                            *)
Holders == {c \in Calls : call[c].at \in {"posting", "sleeping"}}
Pending(e) == {c \in Calls : call[c].at \in {"waiting", "posting"} /\ call[c].endpoint = e}

(* The semaphore is accounted for, over retries and cancelled batches.     *)
TypeOK ==
    /\ healthy \subseteq Endpoints
    /\ failed \in [Endpoints -> Nat]
    /\ free \in 0..Slots
    /\ free + Cardinality(Holders) = Slots
    /\ call \in [Calls -> [at : {"starting", "waiting", "posting", "sleeping", "result", "none"},
                           endpoint : Endpoints \union {None}, attempt : 0..Retries]]

(* Calls that chose an endpoint before it was found to fail can still mark *)
(* it: its count goes beyond the limit, but never by more than the calls   *)
(* there are.  Clearing the counts while calls are under way does not add  *)
(* to this.                                                                *)
BlameIsBounded ==
    \A e \in Endpoints :
        failed[e] + Cardinality(Pending(e)) <= MaxFailures - 1 + Cardinality(Calls)

(* As long as one endpoint answers, the counts are never cleared: those    *)
(* that fail are left alone for the rest of the collection.                *)
ExclusionLasts ==
    [][healthy # {} => \A e \in Endpoints : failed'[e] >= failed[e]]_failed

(* Every call ends, though it may wait behind others for the semaphore and *)
(* all endpoints may fail.                                                 *)
CallsEnd ==
    \A c \in Calls : call[c].at = "starting" ~> call[c].at \in {"result", "none"}
================================================================================
