--------------------------- MODULE AnalysisRateLimit ---------------------------
(***************************************************************************)
(* RateLimitMiddleware of the data-analysis service, for the requests of   *)
(* one client, and the handlers behind it.                                 *)
(*                                                                         *)
(* The client's count is kept in memory.  Its window begins with the first *)
(* request more than a minute after the last window began.  Count and      *)
(* window are read and written under a lock without an await, so admission *)
(* is one step; the handler then runs outside of the lock, and an          *)
(* exception it raises is taken for one of the limiter's: the handler is   *)
(* called again.                                                           *)
(***************************************************************************)
EXTENDS Naturals, FiniteSets

CONSTANTS
    Requests,
    Limit,          \* requests_per_minute (60)
    Minute,         \* ticks in a minute
    MaxTime,        \* bound on the clock
    None

ASSUME LimitAssumption == Limit \in Nat \ {0}
ASSUME ClockAssumption == Minute \in Nat \ {0} /\ MaxTime \in Nat /\ None \notin Nat
ASSUME RequestsAssumption == IsFiniteSet(Requests)

VARIABLES
    now,
    count, start,   \* self.clients[client_ip]
    request,        \* where each request is
    admitted        \* history: when it was admitted

vars == <<now, count, start, request, admitted>>

Times == 0..MaxTime

(* A client that is not known has the window 0, which began long ago.      *)
Init ==
    /\ now = 0
    /\ count = 0
    /\ start = None
    /\ request = [r \in Requests |-> "new"]
    /\ admitted = [r \in Requests |-> None]

Tick ==
    /\ now < MaxTime
    /\ now' = now + 1
    /\ UNCHANGED <<count, start, request, admitted>>

(* Mutant: a window is over after a minute, and not later.                 *)
WindowOverEarly == start = None \/ now - start >= Minute - 1

WindowOver == start = None \/ now - start > Minute

(* The count of the window that the request falls in.                      *)
Counted == IF WindowOver THEN 0 ELSE count

Admit(r) ==
    /\ request[r] = "new"
    /\ Counted < Limit
    /\ count' = Counted + 1
    /\ start' = IF WindowOver THEN now ELSE start
    /\ request' = [request EXCEPT ![r] = "running"]
    /\ admitted' = [admitted EXCEPT ![r] = now]
    /\ UNCHANGED now

(* The 429 is raised before the window is written back.                    *)
Refuse(r) ==
    /\ request[r] = "new"
    /\ Counted >= Limit
    /\ request' = [request EXCEPT ![r] = "refused"]
    /\ UNCHANGED <<now, count, start, admitted>>

(* A response, an HTTPException of the handler among them.                 *)
Return(r) ==
    /\ request[r] \in {"running", "rerunning"}
    /\ request' = [request EXCEPT ![r] = "answered"]
    /\ UNCHANGED <<now, count, start, admitted>>

(* Any other exception: the handler is called again, once; the second      *)
(* exception goes on to GlobalExceptionMiddleware, which answers.          *)
Raise(r) ==
    /\ \/ /\ request[r] = "running"
          /\ request' = [request EXCEPT ![r] = "rerunning"]
       \/ /\ request[r] = "rerunning"
          /\ request' = [request EXCEPT ![r] = "failed"]
    /\ UNCHANGED <<now, count, start, admitted>>

(* The counts are lost with the process, and the requests in progress too. *)
Restart ==
    /\ start # None
    /\ count' = 0
    /\ start' = None
    /\ request' = [r \in Requests |-> IF request[r] \in {"running", "rerunning"} THEN "failed"
                                                                           ELSE request[r]]
    /\ admitted' = [r \in Requests |-> None]
    /\ UNCHANGED now

Next ==
    \/ Tick
    \/ \E r \in Requests : Admit(r) \/ Refuse(r) \/ Return(r) \/ Raise(r)
    \/ Restart

Spec == Init /\ [][Next]_vars

-------------------------------------------------------------------------------
TypeOK ==
    /\ now \in Times
    /\ count \in 0..Limit
    /\ start \in Times \union {None}
    /\ request \in [Requests -> {"new", "running", "rerunning", "answered", "failed", "refused"}]
    /\ admitted \in [Requests -> Times \union {None}]

AdmittedIn(a, b) == {r \in Requests : admitted[r] # None /\ a <= admitted[r] /\ admitted[r] <= b}

(* Whenever it begins, a minute sees no more than twice the limit pass,    *)
(* unless the service restarts: two windows meet in it at most.            *)
BurstLimit == \A t \in Times : Cardinality(AdmittedIn(t, t + Minute)) <= 2 * Limit
================================================================================
