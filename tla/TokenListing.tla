----------------------------- MODULE TokenListing -----------------------------
(***************************************************************************)
(* GET /tokens of the data-management service and the cache in front of    *)
(* it.                                                                     *)
(*                                                                         *)
(* list_tokens keeps, for each value of ?limit=, the last list it built    *)
(* and the time at which it began to build it.  Building a list takes one  *)
(* Redis command for the keys and one for each row, with an await at each; *)
(* rows come and go meanwhile, and DELETE /token/<mint> empties the cache  *)
(* as its last step.                                                       *)
(*                                                                         *)
(* A row is the metadata key of a mint; TokenStore models how the two keys *)
(* of a mint are written, and here a row appears or disappears in a step.  *)
(***************************************************************************)
EXTENDS Naturals, FiniteSets

CONSTANTS
    Mints,
    Requests,       \* concurrent list requests
    Limits,         \* values of the query parameter limit
    TTL,            \* TOKENS_CACHE_TTL, in ticks
    Day,            \* ticks in a day
    MaxTime,        \* bound on the clock
    None

ASSUME TimeAssumption == TTL \in Nat \ {0} /\ Day \in Nat \ {0} /\ MaxTime \in Nat
ASSUME MintsAssumption == IsFiniteSet(Mints)
ASSUME LimitAssumption == Limits \subseteq Nat
ASSUME NoListAssumption == None \notin [rows : SUBSET Mints, at : Nat]

VARIABLES
    now,            \* datetime.now()
    rows,           \* mints with a metadata key in Redis
    cached,         \* tokens_cache and tokens_cache_time, by limit
    request,        \* the list requests that did not find a fresh list
    deleting,       \* mints whose DELETE has removed the row and not returned
    since           \* history: what a client last knew of a mint, and when

vars == <<now, rows, cached, request, deleting, since>>

Times == 0..MaxTime

List == [rows : SUBSET Mints, at : Times]

Idle == [phase |-> "idle", limit |-> 0, at |-> 0, left |-> {}, found |-> {}]

Request == [phase : {"idle", "keys", "rows"}, limit : Limits \union {0}, at : Times,
            left : SUBSET Mints, found : SUBSET Mints]

Init ==
    /\ now = 0
    /\ rows = {}
    /\ cached = [l \in Limits |-> None]
    /\ request = [r \in Requests |-> Idle]
    /\ deleting = {}
    /\ since = [m \in Mints |-> [is |-> "unknown", at |-> 0]]

Tick ==
    /\ now < MaxTime
    /\ now' = now + 1
    /\ UNCHANGED <<rows, cached, request, deleting, since>>

-------------------------------------------------------------------------------
(* Mutant: a list is still fresh when its time is up.                      *)
FreshTooLong(l) ==
    /\ cached[l] # None
    /\ (now - cached[l].at) % Day <= TTL

(* timedelta.seconds is the time of day of the difference: whole days do   *)
(* not count.                                                              *)
Fresh(l) ==
    /\ cached[l] # None
    /\ (now - cached[l].at) % Day < TTL

(* GET /tokens: a fresh list is the answer, and changes nothing; otherwise *)
(* a new list is begun.                                                    *)
Begin(r, l) ==
    /\ request[r].phase = "idle"
    /\ ~Fresh(l)
    /\ request' = [request EXCEPT ![r] =
           [phase |-> "keys", limit |-> l, at |-> now, left |-> {}, found |-> {}]]
    /\ UNCHANGED <<now, rows, cached, deleting, since>>

(* Redis returns the keys in no particular order, and the first ones, as   *)
(* many as asked for, are kept.                                            *)
ReadKeys(r) ==
    /\ request[r].phase = "keys"
    /\ \E K \in SUBSET rows :
           /\ \/ K = rows /\ Cardinality(K) <= request[r].limit
              \/ Cardinality(K) = request[r].limit
           /\ request' = [request EXCEPT ![r] = [@ EXCEPT !.phase = "rows", !.left = K]]
    /\ UNCHANGED <<now, rows, cached, deleting, since>>

(* The row of one key is read; a key that is gone by now is skipped.       *)
ReadRow(r) ==
    /\ request[r].phase = "rows"
    /\ \E m \in request[r].left :
           request' = [request EXCEPT ![r] =
               [@ EXCEPT !.left = request[r].left \ {m},
                         !.found = request[r].found \union ({m} \intersect rows)]]
    /\ UNCHANGED <<now, rows, cached, deleting, since>>

(* Mutant: the list is stamped with the time at which it is stored.        *)
FinishStampedNow(r) ==
    /\ request[r].phase = "rows"
    /\ request[r].left = {}
    /\ cached' = [cached EXCEPT ![request[r].limit] = [rows |-> request[r].found, at |-> now]]
    /\ request' = [request EXCEPT ![r] = Idle]
    /\ UNCHANGED <<now, rows, deleting, since>>

(* The list is stored with the time at which it was begun, and returned.   *)
Finish(r) ==
    /\ request[r].phase = "rows"
    /\ request[r].left = {}
    /\ cached' = [cached EXCEPT ![request[r].limit] = [rows |-> request[r].found,
                                                      at |-> request[r].at]]
    /\ request' = [request EXCEPT ![r] = Idle]
    /\ UNCHANGED <<now, rows, deleting, since>>

(* A Redis error: the request fails and the cache keeps what it has.       *)
ListFails(r) ==
    /\ request[r].phase # "idle"
    /\ request' = [request EXCEPT ![r] = Idle]
    /\ UNCHANGED <<now, rows, cached, deleting, since>>

-------------------------------------------------------------------------------
(* A batch writes the metadata of a mint; it leaves the cache alone.       *)
Collect(m) ==
    /\ rows' = rows \union {m}
    /\ since' = [since EXCEPT ![m] = IF @.is = "stored" THEN @ ELSE [is |-> "stored", at |-> now]]
    /\ UNCHANGED <<now, cached, request, deleting>>

(* The metadata reaches the end of its time to live.                       *)
Expire(m) ==
    /\ m \in rows
    /\ rows' = rows \ {m}
    /\ since' = [since EXCEPT ![m] = [is |-> "unknown", at |-> now]]
    /\ UNCHANGED <<now, cached, request, deleting>>

(* DELETE /token/<mint>: Redis removes the metadata,                       *)
DeleteRow(m) ==
    /\ m \notin deleting
    /\ rows' = rows \ {m}
    /\ deleting' = deleting \union {m}
    /\ since' = [since EXCEPT ![m] = [is |-> "unknown", at |-> now]]
    /\ UNCHANGED <<now, cached, request>>

(* the handler empties the cache and answers.  A batch may have written    *)
(* the mint again by then.                                                 *)
DeleteReturns(m) ==
    /\ m \in deleting
    /\ deleting' = deleting \ {m}
    /\ cached' = [l \in Limits |-> None]
    /\ since' = [since EXCEPT ![m] = IF m \in rows THEN @ ELSE [is |-> "deleted", at |-> now]]
    /\ UNCHANGED <<now, rows, request>>

(* The reply of Redis is lost: the DELETE fails, and with it the clearing. *)
DeleteFails(m) ==
    /\ m \in deleting
    /\ deleting' = deleting \ {m}
    /\ UNCHANGED <<now, rows, cached, request, since>>

(* A restart of the service; Redis goes on.                                *)
Restart ==
    /\ cached' = [l \in Limits |-> None]
    /\ request' = [r \in Requests |-> Idle]
    /\ deleting' = {}
    /\ UNCHANGED <<now, rows, since>>

Next ==
    \/ Tick
    \/ \E r \in Requests : \/ \E l \in Limits : Begin(r, l)
                           \/ ReadKeys(r) \/ ReadRow(r) \/ Finish(r) \/ ListFails(r)
    \/ \E m \in Mints : \/ Collect(m) \/ Expire(m)
                        \/ DeleteRow(m) \/ DeleteReturns(m) \/ DeleteFails(m)
    \/ Restart

Spec == Init /\ [][Next]_vars

-------------------------------------------------------------------------------
TypeOK ==
    /\ now \in Times
    /\ rows \subseteq Mints
    /\ cached \in [Limits -> List \union {None}]
    /\ \A l \in Limits : cached[l] # None => Cardinality(cached[l].rows) <= l
    /\ request \in [Requests -> Request]
    /\ \A r \in Requests : request[r].phase # "idle" => request[r].limit \in Limits
    /\ deleting \subseteq Mints
    /\ since \in [Mints -> [is : {"unknown", "stored", "deleted"}, at : Times]]

(* A list younger than a day that is served from the cache.                *)
Served(l) == Fresh(l) /\ now - cached[l].at < Day

(* After a DELETE has answered, a list that still shows the mint was in    *)
(* the making when it did, and goes out of use TTL later, at the latest:   *)
(* the cache can take back a deleted mint, and cannot keep it.             *)
DeletedFades ==
    \A l \in Limits, m \in Mints :
        Served(l) /\ m \in cached[l].rows /\ since[m].is = "deleted"
            => now - since[m].at < TTL

(* A mint that has been in the store for TTL is in every list that is long *)
(* enough for all mints, although no collection touches the cache.         *)
CollectedShows ==
    \A l \in Limits, m \in Mints :
        Served(l) /\ Cardinality(Mints) <= l /\ since[m].is = "stored" /\ now - since[m].at >= TTL
            => m \in cached[l].rows

(* Why the two properties hold.  What a client knows of a mint is so:      *)
SinceInv ==
    \A m \in Mints :
        /\ since[m].at <= now
        /\ since[m].is = "stored" => m \in rows
        /\ since[m].is = "deleted" => m \notin rows

(* a stored list contradicts it only if the list was begun before;         *)
CachedInv ==
    \A l \in Limits : cached[l] # None =>
        /\ cached[l].at <= now
        /\ \A m \in Mints :
               /\ since[m].is = "deleted" /\ m \in cached[l].rows => cached[l].at <= since[m].at
               /\ since[m].is = "stored" /\ Cardinality(Mints) <= l /\ m \notin cached[l].rows
                      => cached[l].at <= since[m].at

(* and so does a list in the making, which is not longer than asked for.   *)
RequestInv ==
    \A r \in Requests : request[r].phase # "idle" =>
        LET shown == request[r].left \union request[r].found
        IN  /\ request[r].at <= now
            /\ Cardinality(shown) <= request[r].limit
            /\ request[r].phase = "keys" => shown = {}
            /\ \A m \in Mints :
                   /\ since[m].is = "deleted" /\ m \in shown => request[r].at <= since[m].at
                   /\ since[m].is = "stored" /\ request[r].phase = "rows" /\ m \notin shown
                        /\ Cardinality(Mints) <= request[r].limit => request[r].at <= since[m].at

ListInv == SinceInv /\ CachedInv /\ RequestInv
===============================================================================
