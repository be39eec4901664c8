-------------------------- MODULE ManagementRateLimit --------------------------
(***************************************************************************)
(* RateLimitMiddleware of the data-management service, for the requests of *)
(* one client without the admin's key.                                     *)
(*                                                                         *)
(* A request is counted under its path and the number of the minute it     *)
(* comes in, in a Redis key that lives for a minute from its first         *)
(* request.  The client of Redis is synchronous and the service is one     *)
(* process, so a check is one step.  A restart of the service keeps the    *)
(* counts.                                                                 *)
(***************************************************************************)
EXTENDS Naturals, Sequences, FiniteSets

CONSTANTS
    Paths,          \* paths the client asks for
    Window,         \* ticks in a window (60 seconds)
    MaxTime         \* bound on the clock

VARIABLES
    now,
    counter,        \* the rate_limit: keys, by path and window number
    admitted        \* history: when requests passed, by path

vars == <<now, counter, admitted>>

Times == 0..MaxTime
Windows == 0..(MaxTime \div Window)
Gone == [n |-> 0, expires |-> 0]

(* ENDPOINT_LIMITS, in its order.                                          *)
EndpointLimits ==
    << [pattern |-> "/tokens",                   limit |-> 50],
       [pattern |-> "/token/",                   limit |-> 30],
       [pattern |-> "/token/.*/compressed",      limit |-> 100],
       [pattern |-> "/collect",                  limit |-> 50],
       [pattern |-> "/collect/batch",            limit |-> 5],
       [pattern |-> "/collect/batch/.*/status",  limit |-> 60],
       [pattern |-> "/stats",                    limit |-> 20],
       [pattern |-> "/health",                   limit |-> 30],
       [pattern |-> "/queue/status",             limit |-> 30] >>

DefaultLimit == 30

(* The patterns a path starts with.  The two with ".*" are no expressions  *)
(* to startswith, and no path starts with them.                            *)
StartsWith(path) ==
    CASE path = "/tokens"                   -> {"/tokens"}
      [] path = "/token/<mint>"             -> {"/token/"}
      [] path = "/token/<mint>/compressed"  -> {"/token/"}
      [] path = "/collect"                  -> {"/collect"}
      [] path = "/collect/batch"            -> {"/collect", "/collect/batch"}
      [] path = "/collect/batch/<id>/status" -> {"/collect", "/collect/batch"}
      [] path = "/stats"                    -> {"/stats"}
      [] path = "/health"                   -> {"/health"}
      [] path = "/queue/status"             -> {"/queue/status"}
      [] OTHER                              -> {}

(* The first entry that fits decides.                                      *)
LimitOf(path) ==
    LET fits == {i \in DOMAIN EndpointLimits : EndpointLimits[i].pattern \in StartsWith(path)}
    IN  IF fits = {} THEN DefaultLimit
        ELSE EndpointLimits[CHOOSE i \in fits : \A j \in fits : i <= j].limit

Init ==
    /\ now = 0
    /\ counter = [p \in Paths |-> [w \in Windows |-> Gone]]
    /\ admitted = [p \in Paths |-> <<>>]

Tick ==
    /\ now < MaxTime
    /\ now' = now + 1
    /\ UNCHANGED <<counter, admitted>>

(* The value Redis has for a key: none once it expired.                    *)
Current(p, w) == IF counter[p][w].expires <= now THEN 0 ELSE counter[p][w].n

(* SETEX for the first request of the window, INCR for the others.         *)
Count(p, w) ==
    counter' = [counter EXCEPT ![p][w] =
        IF Current(p, w) = 0 THEN [n |-> 1, expires |-> now + Window]
                             ELSE [counter[p][w] EXCEPT !.n = @ + 1]]

(* Mutant: one request too many.                                           *)
RequestOneMore(p) ==
    LET w == now \div Window
    IN  /\ Current(p, w) <= LimitOf(p)
        /\ Count(p, w)
        /\ admitted' = [admitted EXCEPT ![p] = Append(@, now)]
        /\ UNCHANGED now

(* A request within the limit is counted and passes; any other is refused, *)
(* and changes nothing.                                                    *)
Request(p) ==
    LET w == now \div Window
    IN  /\ Current(p, w) < LimitOf(p)
        /\ Count(p, w)
        /\ admitted' = [admitted EXCEPT ![p] = Append(@, now)]
        /\ UNCHANGED now

Next == Tick \/ \E p \in Paths : Request(p)

Spec == Init /\ [][Next]_vars

-------------------------------------------------------------------------------
(* How many requests for p passed from a to b.                             *)
Passed(p, a, b) == Cardinality({i \in DOMAIN admitted[p] : admitted[p][i] \in a..b})

TypeOK ==
    /\ now \in Times
    /\ counter \in [Paths -> [Windows -> [n : Nat, expires : 0..(MaxTime + Window)]]]
    /\ \A p \in Paths, w \in Windows : counter[p][w].n <= LimitOf(p)
    /\ admitted \in [Paths -> Seq(Times)]

(* Whatever the client's timing, no more than twice the limit pass in as   *)
(* many seconds as a window has.                                           *)
BurstLimit ==
    \A p \in Paths, t \in Times :
        t <= now /\ now < t + Window => Passed(p, t, now) <= 2 * LimitOf(p)
===============================================================================
