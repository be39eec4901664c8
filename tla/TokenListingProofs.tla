-------------------------- MODULE TokenListingProofs --------------------------
(***************************************************************************)
(* Proofs about the three caches of MCTokenListing.  For any mints,        *)
(* requests, limits, timeouts, times to live and length of the run, what   *)
(* they answer with is wrong about a mint for a bounded time only.         *)
(***************************************************************************)
EXTENDS MCTokenListing, FiniteSetTheorems, TLAPS

IInv == TypeOK /\ ListInv

(* Sets of mints are finite, and their sizes are ordered by inclusion.     *)
LEMMA MintSets ==
    ASSUME NEW S \in SUBSET Mints, NEW T \in SUBSET S
    PROVE  /\ IsFiniteSet(S) /\ Cardinality(S) \in Nat /\ Cardinality(T) \in Nat
           /\ Cardinality(T) <= Cardinality(S)
           /\ Cardinality(T) = Cardinality(S) => T = S
<1>1. IsFiniteSet(S)
  BY MintsAssumption, FS_Subset
<1> QED BY <1>1, FS_Subset, FS_CardinalityType

LEMMA IdleIsARequest == Idle \in Request /\ Idle.phase = "idle"
  BY TimeAssumption DEF Idle, Request, Times

LEMMA InitIInv == Init => IInv
<1> SUFFICES ASSUME Init PROVE IInv
  OBVIOUS
<1>1. 0 \in Times
  BY TimeAssumption DEF Times
<1>2. TypeOK
  BY <1>1, IdleIsARequest DEF Init, TypeOK
<1>3. ListInv
  BY IdleIsARequest DEF Init, ListInv, SinceInv, CachedInv, RequestInv
<1> QED BY <1>2, <1>3 DEF IInv

(* Time passes: the lists and what is known only grow older.               *)
LEMMA TickIInv == IInv /\ Tick => IInv'
<1> SUFFICES ASSUME IInv, Tick PROVE IInv'
  OBVIOUS
<1>1. now \in Times /\ now' \in Times /\ now <= now'
  BY TimeAssumption DEF IInv, TypeOK, Tick, Times
<1>2. TypeOK'
  BY <1>1 DEF IInv, TypeOK, Tick
<1>3. SinceInv'
  BY <1>1 DEF IInv, TypeOK, Tick, ListInv, SinceInv, Times
<1>4. CachedInv'
  <2> SUFFICES ASSUME NEW l \in Limits, cached[l] # None PROVE cached[l].at <= now'
    BY DEF IInv, Tick, ListInv, CachedInv
  <2> QED BY <1>1 DEF IInv, TypeOK, ListInv, CachedInv, List, Times
<1>5. RequestInv'
  <2> SUFFICES ASSUME NEW r \in Requests, request[r].phase # "idle" PROVE request[r].at <= now'
    BY DEF IInv, Tick, ListInv, RequestInv
  <2>1. request[r].at <= now
    BY DEF IInv, ListInv, RequestInv
  <2>2. request[r].at \in Nat /\ now \in Nat /\ now' \in Nat
    BY <1>1 DEF IInv, TypeOK, Request, Times
  <2> QED BY <1>1, <2>1, <2>2
<1> QED BY <1>2, <1>3, <1>4, <1>5 DEF IInv, ListInv

(* The steps of a list request change the request only, up to its end.     *)
LEMMA BeginIInv ==
    ASSUME IInv, NEW r \in Requests, NEW l \in Limits, Begin(r, l)
    PROVE  IInv'
<1> DEFINE new == [phase |-> "keys", limit |-> l, at |-> now, left |-> {}, found |-> {}]
<1>1. /\ request' = [request EXCEPT ![r] = new]
      /\ UNCHANGED <<now, rows, cached, deleting, since>>
  BY DEF Begin
<1>2. new \in Request
  BY DEF IInv, TypeOK, Request
<1>3. TypeOK'
  BY <1>1, <1>2 DEF IInv, TypeOK
<1>4. SinceInv' /\ CachedInv'
  BY <1>1 DEF IInv, ListInv, SinceInv, CachedInv
<1>5. RequestInv'
  <2>1. Cardinality({}) = 0 /\ l \in Nat /\ now <= now
    BY FS_EmptySet, LimitAssumption DEF IInv, TypeOK, Times
  <2>2. request'[r] = new
    BY <1>1 DEF IInv, TypeOK
  <2>3. \A q \in Requests \ {r} : request'[q] = request[q]
    BY <1>1 DEF IInv, TypeOK
  <2>4. new.left \union new.found = {}
    OBVIOUS
  <2> QED BY <1>1, <2>1, <2>2, <2>3, <2>4 DEF IInv, ListInv, RequestInv
<1> QED BY <1>3, <1>4, <1>5 DEF IInv, ListInv

(* The keys that are kept are all keys there are, when the limit is at     *)
(* least the number of mints.                                              *)
LEMMA ReadKeysIInv ==
    ASSUME IInv, NEW r \in Requests, ReadKeys(r)
    PROVE  IInv'
<1>1. PICK K \in SUBSET rows :
          /\ \/ K = rows /\ Cardinality(K) <= request[r].limit
             \/ Cardinality(K) = request[r].limit
          /\ request' = [request EXCEPT ![r] = [@ EXCEPT !.phase = "rows", !.left = K]]
  BY DEF ReadKeys
<1>2. /\ request[r].phase = "keys"
      /\ UNCHANGED <<now, rows, cached, deleting, since>>
  BY DEF ReadKeys
<1>3. /\ rows \in SUBSET Mints /\ K \in SUBSET Mints /\ request[r] \in Request
      /\ request[r].limit \in Limits /\ request[r].limit \in Nat
  BY <1>2, LimitAssumption DEF IInv, TypeOK
<1>4. /\ request'[r] = [request[r] EXCEPT !.phase = "rows", !.left = K]
      /\ \A q \in Requests \ {r} : request'[q] = request[q]
  BY <1>1 DEF IInv, TypeOK
<1>5. TypeOK'
  <2>1. [request[r] EXCEPT !.phase = "rows", !.left = K] \in Request
    BY <1>3 DEF Request
  <2> QED BY <1>1, <1>2, <1>3, <1>4, <2>1 DEF IInv, TypeOK
<1>6. SinceInv' /\ CachedInv'
  BY <1>2 DEF IInv, ListInv, SinceInv, CachedInv
<1>7. RequestInv'
  <2> DEFINE shown == request'[r].left \union request'[r].found
  <2>1. shown = K /\ request'[r].at = request[r].at /\ request'[r].limit = request[r].limit
    BY <1>2, <1>3, <1>4 DEF IInv, ListInv, RequestInv, Request
  <2>2. Cardinality(K) <= request[r].limit
    BY <1>1, <1>3, MintSets
  <2>3. ASSUME Cardinality(Mints) <= request[r].limit PROVE K = rows
    <3>1. /\ Cardinality(K) \in Nat /\ Cardinality(Mints) \in Nat
          /\ Cardinality(K) <= Cardinality(Mints)
          /\ Cardinality(K) = Cardinality(Mints) => K = Mints
      BY <1>3, MintSets
    <3>2. CASE Cardinality(K) = request[r].limit
      <4>1. K = Mints
        BY <1>3, <2>3, <3>1, <3>2
      <4> QED BY <1>1, <1>3, <4>1
    <3> QED BY <1>1, <3>2
  <2>4. ASSUME NEW m \in Mints
        PROVE  /\ since[m].is = "deleted" => m \notin K
               /\ since[m].is = "stored" /\ Cardinality(Mints) <= request[r].limit => m \in K
    BY <2>3 DEF IInv, ListInv, SinceInv
  <2>5. request[r].at <= now /\ request'[r].phase = "rows"
    BY <1>2, <1>3, <1>4 DEF IInv, ListInv, RequestInv, Request
  <2>6. ASSUME NEW q \in Requests \ {r}, request'[q].phase # "idle"
        PROVE  /\ request'[q].phase = "keys" => request'[q].left \union request'[q].found = {}
               /\ request[q] = request'[q] /\ request[q].phase # "idle"
    BY <1>4, <2>6 DEF IInv, ListInv, RequestInv
  <2> QED BY <1>2, <1>4, <2>1, <2>2, <2>4, <2>5, <2>6 DEF IInv, ListInv, RequestInv
<1> QED BY <1>5, <1>6, <1>7 DEF IInv, ListInv

(* A row that is found goes from the keys left to the rows found; one that *)
(* is gone is of a mint that is not stored.                                *)
LEMMA ReadRowIInv ==
    ASSUME IInv, NEW r \in Requests, ReadRow(r)
    PROVE  IInv'
<1> DEFINE Row(x) == [request[r] EXCEPT !.left = request[r].left \ {x},
                                        !.found = request[r].found \union ({x} \intersect rows)]
<1>1. PICK x \in request[r].left : request' = [request EXCEPT ![r] = Row(x)]
  BY DEF ReadRow
<1>2. /\ request[r].phase = "rows"
      /\ UNCHANGED <<now, rows, cached, deleting, since>>
  BY DEF ReadRow
<1> DEFINE old == request[r].left \union request[r].found
           new == request'[r].left \union request'[r].found
<1>3. request[r] \in Request /\ request[r].limit \in Limits /\ request[r].limit \in Nat
  BY <1>2, LimitAssumption DEF IInv, TypeOK
<1>4. /\ request'[r] = Row(x)
      /\ \A q \in Requests \ {r} : request'[q] = request[q]
  BY <1>1, <1>3 DEF IInv, TypeOK
<1>5. /\ request'[r].at = request[r].at /\ request'[r].limit = request[r].limit
      /\ request'[r].phase = "rows"
      /\ request'[r].left = request[r].left \ {x}
      /\ request'[r].found = request[r].found \union ({x} \intersect rows)
  BY <1>2, <1>3, <1>4 DEF Request
<1>6. TypeOK'
  <2>1. request'[r] \in Request
    BY <1>3, <1>4 DEF Request
  <2> QED BY <1>1, <1>2, <1>3, <1>4, <1>5, <2>1 DEF IInv, TypeOK
<1>7. SinceInv' /\ CachedInv'
  BY <1>2 DEF IInv, ListInv, SinceInv, CachedInv
<1>8. RequestInv'
  <2>1. old \in SUBSET Mints /\ new \in SUBSET old /\ (old \ new) \intersect rows = {}
    BY <1>3, <1>5 DEF Request
  <2>2. Cardinality(new) <= request[r].limit
    <3>1. Cardinality(old) <= request[r].limit
      BY <1>2 DEF IInv, ListInv, RequestInv
    <3>2. Cardinality(new) <= Cardinality(old) /\ Cardinality(new) \in Nat /\ Cardinality(old) \in Nat
      BY <2>1, MintSets
    <3> QED BY <1>3, <3>1, <3>2
  <2>3. ASSUME NEW m \in Mints
        PROVE  /\ since[m].is = "deleted" /\ m \in new => request[r].at <= since[m].at
               /\ since[m].is = "stored" /\ m \notin new /\ Cardinality(Mints) <= request[r].limit
                      => request[r].at <= since[m].at
    BY <1>2, <2>1 DEF IInv, ListInv, SinceInv, RequestInv
  <2>4. request[r].at <= now
    BY <1>2 DEF IInv, ListInv, RequestInv
  <2> QED BY <1>2, <1>4, <1>5, <2>2, <2>3, <2>4 DEF IInv, ListInv, RequestInv
<1> QED BY <1>6, <1>7, <1>8 DEF IInv, ListInv

(* The stored list inherits what is known of the list in the making.       *)
LEMMA FinishIInv ==
    ASSUME IInv, NEW r \in Requests, Finish(r)
    PROVE  IInv'
<1> DEFINE l == request[r].limit
           list == [rows |-> request[r].found, at |-> request[r].at]
<1>1. /\ request[r].phase = "rows" /\ request[r].left = {}
      /\ cached' = [cached EXCEPT ![l] = list]
      /\ request' = [request EXCEPT ![r] = Idle]
      /\ UNCHANGED <<now, rows, deleting, since>>
  BY DEF Finish
<1>2. request[r] \in Request /\ l \in Limits
  BY <1>1 DEF IInv, TypeOK
<1>3. list \in List /\ list # None
  <2>1. list \in List
    BY <1>2 DEF Request, List
  <2>2. List \subseteq [rows : SUBSET Mints, at : Nat]
    BY DEF List, Times
  <2> QED BY <2>1, <2>2, NoListAssumption
<1>4. /\ list.at <= now
      /\ Cardinality(list.rows) <= l
      /\ \A m \in Mints :
             /\ since[m].is = "deleted" /\ m \in list.rows => list.at <= since[m].at
             /\ since[m].is = "stored" /\ Cardinality(Mints) <= l /\ m \notin list.rows
                    => list.at <= since[m].at
  <2>1. request[r].left \union request[r].found = request[r].found
    BY <1>1
  <2> QED BY <1>1, <2>1 DEF IInv, ListInv, RequestInv
<1>5. cached'[l] = list /\ \A k \in Limits \ {l} : cached'[k] = cached[k]
  BY <1>1, <1>2 DEF IInv, TypeOK
<1>6. request'[r] = Idle /\ \A q \in Requests \ {r} : request'[q] = request[q]
  BY <1>1 DEF IInv, TypeOK
<1>7. TypeOK'
  <2>1. cached' \in [Limits -> List \union {None}]
    BY <1>1, <1>3 DEF IInv, TypeOK
  <2>2. \A k \in Limits : cached'[k] # None => Cardinality(cached'[k].rows) <= k
    BY <1>4, <1>5 DEF IInv, TypeOK
  <2>3. request' \in [Requests -> Request]
    BY <1>1, IdleIsARequest DEF IInv, TypeOK
  <2> QED BY <1>1, <1>6, <2>1, <2>2, <2>3, IdleIsARequest DEF IInv, TypeOK
<1>8. SinceInv'
  BY <1>1 DEF IInv, ListInv, SinceInv
<1>9. CachedInv'
  BY <1>1, <1>4, <1>5 DEF IInv, ListInv, CachedInv
<1>10. RequestInv'
  BY <1>1, <1>6, IdleIsARequest DEF IInv, ListInv, RequestInv
<1> QED BY <1>7, <1>8, <1>9, <1>10 DEF IInv, ListInv

(* A request that ends takes its unfinished list with it.                  *)
LEMMA ListFailsIInv ==
    ASSUME IInv, NEW r \in Requests, ListFails(r)
    PROVE  IInv'
<1>1. /\ request' = [request EXCEPT ![r] = Idle]
      /\ UNCHANGED <<now, rows, cached, deleting, since>>
  BY DEF ListFails
<1>2. request'[r] = Idle /\ \A q \in Requests \ {r} : request'[q] = request[q]
  BY <1>1 DEF IInv, TypeOK
<1>3. TypeOK'
  BY <1>1, <1>2, IdleIsARequest DEF IInv, TypeOK
<1>4. SinceInv' /\ CachedInv'
  BY <1>1 DEF IInv, ListInv, SinceInv, CachedInv
<1>5. RequestInv'
  BY <1>1, <1>2, IdleIsARequest DEF IInv, ListInv, RequestInv
<1> QED BY <1>3, <1>4, <1>5 DEF IInv, ListInv

(* A change of what is known of one mint at this moment is older than no   *)
(* list, and the lists keep what they say of the others.                   *)
LEMMA SinceChanges ==
    ASSUME IInv, NEW m \in Mints, NEW w,
           w \in [is : {"unknown", "stored", "deleted"}, at : Times],
           w.at = now,
           since' = [since EXCEPT ![m] = w],
           UNCHANGED <<now, request>>
    PROVE  /\ since' \in [Mints -> [is : {"unknown", "stored", "deleted"}, at : Times]]
           /\ RequestInv'
           /\ UNCHANGED cached => CachedInv'
<1>1. since'[m] = w /\ \A n \in Mints \ {m} : since'[n] = since[n]
  BY DEF IInv, TypeOK
<1>2. since' \in [Mints -> [is : {"unknown", "stored", "deleted"}, at : Times]]
  BY DEF IInv, TypeOK
<1>3. RequestInv'
  BY <1>1 DEF IInv, ListInv, RequestInv
<1>4. UNCHANGED cached => CachedInv'
  BY <1>1 DEF IInv, ListInv, CachedInv
<1> QED BY <1>2, <1>3, <1>4

(* The steps of the store, and of a DELETE.                                *)
LEMMA StoreIInv ==
    ASSUME IInv, NEW m \in Mints,
           Collect(m) \/ Expire(m) \/ DeleteRow(m) \/ DeleteReturns(m) \/ DeleteFails(m)
    PROVE  IInv'
<1>1. now \in Times /\ now <= now
  BY DEF IInv, TypeOK, Times
<1>2. /\ rows \subseteq Mints
      /\ since \in [Mints -> [is : {"unknown", "stored", "deleted"}, at : Times]]
  BY DEF IInv, TypeOK
<1>3. CASE Collect(m) /\ since[m].is = "stored"
  <2>1. since' = since /\ UNCHANGED <<now, cached, request, deleting>> /\ rows' = rows \union {m}
    BY <1>2, <1>3 DEF Collect
  <2>2. rows' = rows
    BY <1>3, <2>1 DEF IInv, ListInv, SinceInv
  <2> QED BY <2>1, <2>2 DEF IInv, TypeOK, ListInv, SinceInv, CachedInv, RequestInv
<1>4. CASE Collect(m) /\ since[m].is # "stored"
  <2> DEFINE w == [is |-> "stored", at |-> now]
  <2>1. /\ since' = [since EXCEPT ![m] = w] /\ rows' = rows \union {m}
        /\ UNCHANGED <<now, cached, request, deleting>>
    BY <1>4 DEF Collect
  <2>2. /\ since' \in [Mints -> [is : {"unknown", "stored", "deleted"}, at : Times]]
        /\ RequestInv' /\ CachedInv'
    BY <1>1, <2>1, SinceChanges
  <2>3. SinceInv'
    BY <1>1, <1>2, <2>1 DEF IInv, ListInv, SinceInv
  <2> QED BY <2>1, <2>2, <2>3 DEF IInv, TypeOK, ListInv
<1>5. CASE Expire(m) \/ DeleteRow(m)
  <2> DEFINE w == [is |-> "unknown", at |-> now]
  <2>1. /\ since' = [since EXCEPT ![m] = w] /\ rows' = rows \ {m}
        /\ UNCHANGED <<now, cached, request>>
        /\ deleting' \subseteq deleting \union {m}
    BY <1>5 DEF Expire, DeleteRow
  <2>2. /\ since' \in [Mints -> [is : {"unknown", "stored", "deleted"}, at : Times]]
        /\ RequestInv' /\ CachedInv'
    BY <1>1, <2>1, SinceChanges
  <2>3. SinceInv'
    BY <1>1, <1>2, <2>1 DEF IInv, ListInv, SinceInv
  <2> QED BY <2>1, <2>2, <2>3 DEF IInv, TypeOK, ListInv
<1>6. CASE DeleteReturns(m) /\ m \in rows
  <2>1. /\ since' = since /\ UNCHANGED <<now, rows, request>>
        /\ cached' = [l \in Limits |-> None] /\ deleting' = deleting \ {m}
    BY <1>2, <1>6 DEF DeleteReturns
  <2> QED BY <2>1 DEF IInv, TypeOK, ListInv, SinceInv, CachedInv, RequestInv
<1>7. CASE DeleteReturns(m) /\ m \notin rows
  <2> DEFINE w == [is |-> "deleted", at |-> now]
  <2>1. /\ since' = [since EXCEPT ![m] = w] /\ UNCHANGED <<now, rows, request>>
        /\ cached' = [l \in Limits |-> None] /\ deleting' = deleting \ {m}
    BY <1>7 DEF DeleteReturns
  <2>2. /\ since' \in [Mints -> [is : {"unknown", "stored", "deleted"}, at : Times]]
        /\ RequestInv'
    BY <1>1, <2>1, SinceChanges
  <2>3. SinceInv'
    BY <1>1, <1>2, <1>7, <2>1 DEF IInv, ListInv, SinceInv
  <2>4. CachedInv'
    BY <2>1 DEF CachedInv
  <2> QED BY <2>1, <2>2, <2>3, <2>4 DEF IInv, TypeOK, ListInv
<1>8. CASE DeleteFails(m)
  BY <1>8 DEF DeleteFails, IInv, TypeOK, ListInv, SinceInv, CachedInv, RequestInv
<1> QED BY <1>3, <1>4, <1>5, <1>6, <1>7, <1>8

(* A restart forgets the lists, and Redis keeps the rows.                  *)
LEMMA RestartIInv == IInv /\ Restart => IInv'
<1> SUFFICES ASSUME IInv, Restart PROVE IInv'
  OBVIOUS
<1>1. TypeOK'
  BY IdleIsARequest DEF IInv, TypeOK, Restart
<1>2. ListInv'
  BY IdleIsARequest DEF IInv, Restart, ListInv, SinceInv, CachedInv, RequestInv
<1> QED BY <1>1, <1>2 DEF IInv

LEMMA NextIInv == IInv /\ [Next]_vars => IInv'
<1> SUFFICES ASSUME IInv, [Next]_vars PROVE IInv'
  OBVIOUS
<1>1. CASE Tick
  BY <1>1, TickIInv
<1>2. ASSUME NEW r \in Requests, \E l \in Limits : Begin(r, l) PROVE IInv'
  BY <1>2, BeginIInv
<1>3. ASSUME NEW r \in Requests, ReadKeys(r) \/ ReadRow(r) \/ Finish(r) \/ ListFails(r)
      PROVE  IInv'
  BY <1>3, ReadKeysIInv, ReadRowIInv, FinishIInv, ListFailsIInv
<1>4. ASSUME NEW m \in Mints,
             Collect(m) \/ Expire(m) \/ DeleteRow(m) \/ DeleteReturns(m) \/ DeleteFails(m)
      PROVE  IInv'
  BY <1>4, StoreIInv
<1>5. CASE Restart
  BY <1>5, RestartIInv
<1>6. CASE UNCHANGED vars
  BY <1>6 DEF vars, IInv, TypeOK, ListInv, SinceInv, CachedInv, RequestInv
<1> QED BY <1>1, <1>2, <1>3, <1>4, <1>5, <1>6 DEF Next

-------------------------------------------------------------------------------
(* The lists of the service, cached or in the making, are what ListInv     *)
(* says of them in every reachable state.                                  *)
THEOREM ListsInvariant == Spec => []IInv
<1> QED BY InitIInv, NextIInv, PTL DEF Spec

(* Within a day, the remainder by which the code measures a list's age is  *)
(* its age.                                                                *)
LEMMA AgeWithinADay ==
    ASSUME NEW a \in Nat, a < Day
    PROVE  a % Day = a
  BY TimeAssumption

(* A list that is served was begun less than its time to live ago.         *)
LEMMA ServedIsYoung ==
    ASSUME IInv, NEW l \in Limits, Served(l)
    PROVE  /\ cached[l] # None /\ cached[l].at \in Nat /\ now \in Nat
           /\ now - cached[l].at < TTL
<1>1. cached[l] # None /\ (now - cached[l].at) % Day < TTL /\ now - cached[l].at < Day
  BY DEF Served, Fresh
<1>2. cached[l].at \in Nat /\ now \in Nat /\ cached[l].at <= now
  BY <1>1 DEF IInv, TypeOK, ListInv, CachedInv, List, Times
<1>3. now - cached[l].at \in Nat
  BY <1>2
<1> QED BY <1>1, <1>2, <1>3, AgeWithinADay

(* The cache keeps a deleted mint for less than TTL after the DELETE.      *)
THEOREM DeletedMintsFade == Spec => []DeletedFades
<1>1. IInv => DeletedFades
  <2> SUFFICES ASSUME IInv, NEW l \in Limits, NEW m \in Mints,
                      Served(l), m \in cached[l].rows, since[m].is = "deleted"
               PROVE  now - since[m].at < TTL
    BY DEF DeletedFades
  <2>1. cached[l].at <= since[m].at /\ since[m].at \in Nat
    BY ServedIsYoung DEF IInv, TypeOK, ListInv, CachedInv, Times
  <2> QED BY <2>1, ServedIsYoung, TimeAssumption
<1> QED BY <1>1, ListsInvariant, PTL

(* The cache hides a stored mint for less than TTL after its collection.   *)
THEOREM CollectedMintsShow == Spec => []CollectedShows
<1>1. IInv => CollectedShows
  <2> SUFFICES ASSUME IInv, NEW l \in Limits, NEW m \in Mints,
                      Served(l), Cardinality(Mints) <= l, since[m].is = "stored",
                      now - since[m].at >= TTL, m \notin cached[l].rows
               PROVE  FALSE
    BY DEF CollectedShows
  <2>1. cached[l].at <= since[m].at /\ since[m].at \in Nat
    BY ServedIsYoung DEF IInv, TypeOK, ListInv, CachedInv, Times
  <2> QED BY <2>1, ServedIsYoung, TimeAssumption
<1> QED BY <1>1, ListsInvariant, PTL
-------------------------------------------------------------------------------
(***************************************************************************)
(* The statistics, and the token list of data-analysis.                    *)
(***************************************************************************)

(* What the numbers are; the list needs finitely many tokens to count them.*)
Numbers ==
    /\ IsFiniteSet(Mints)
    /\ Limits \subseteq Nat
    /\ LongDay \in Nat \ {0}
    /\ TTL \in Nat /\ KeysTimeout \in Nat /\ PipelineTimeout \in Nat

LEMMA NumbersHold == Numbers
  BY MintsAssumption, LimitAssumption, TimeAssumption, CachesAssumption DEF Numbers

(* The size of a set is the same for the module that is instantiated.      *)
LEMMA SameCount == \A S : Analysis!Cardinality(S) = Cardinality(S)
  BY DEF Analysis!Cardinality, Cardinality

(* The keys change now or have changed before.                             *)
TokensInv ==
    /\ now \in Nat
    /\ stored \subseteq Mints
    /\ changed \in [Mints -> Int]
    /\ \A m \in Mints : changed[m] <= now

(* An age of less than a day is what it is.                                *)
LEMMA RemainderWithinADay ==
    ASSUME NEW n \in Nat, NEW d \in Nat \ {0}, n < d
    PROVE  n % d = n
  OBVIOUS

-------------------------------------------------------------------------------
(* What was read at a time differs from the store in what changed since.   *)
ChangedSince(S, t) == \A m \in Mints : (m \in S) # (m \in stored) => t <= changed[m]

(* A reader reads after it began, and a slot is stamped with that.         *)
StatsReaderInv(r) ==
    LET q == reader[r]
    IN  /\ q.at \in Nat /\ q.role \in Stats!Roles
        /\ q.phase # "idle" => q.at <= asked[q.role]
        /\ q.phase = "info" => ChangedSince(q.keys, q.at)

StatsSlotInv ==
    slot # None => /\ slot.at \in Nat /\ slot.at <= now /\ slot.role \in Stats!Roles
                   /\ slot.at <= asked[slot.role]
                   /\ ChangedSince(slot.keys, slot.at)

StatsInv ==
    /\ TokensInv
    /\ asked \in [Stats!Roles -> Int] /\ \A role \in Stats!Roles : asked[role] <= now
    /\ reader \in [TwoRequests -> [phase : {"idle", "keys", "info"}, role : Stats!Roles,
                                at : Nat, keys : SUBSET Mints]]
    /\ \A r \in TwoRequests : StatsReaderInv(r)
    /\ StatsSlotInv

-------------------------------------------------------------------------------
(* How far back a reader of the list may have read, before the time at     *)
(* which its command is given up: the rows with the keys that are missing, *)
(* and those that are no more.                                             *)
MissingSince(found, t) == \A m \in stored \ found : t <= changed[m]
GoneSince(found, t) == \A m \in found \ stored : t <= changed[m]

AnalysisReaderInv(r) ==
    LET q == reader[r]
        all == Analysis!Cardinality(Mints) <= q.limit
    IN  q.phase # "idle" =>
            /\ now <= q.until
            /\ q.phase \in {"asked", "keys"} => q.until <= now + KeysTimeout
            /\ q.phase \in {"piped", "rows"} => q.until <= now + PipelineTimeout
            /\ q.phase = "keys" => (all => MissingSince(q.found, q.until - KeysTimeout))
            /\ q.phase \in {"piped", "rows"} =>
                   (all => MissingSince(q.found, q.until - KeysTimeout - PipelineTimeout))
            /\ q.phase = "rows" => GoneSince(q.found, q.until - PipelineTimeout)

Reader == [phase : {"idle", "asked", "keys", "piped", "rows"},
           limit : Nat, until : Nat, found : SUBSET Mints]

AnalysisSlotInv ==
    slot # None =>
        /\ slot.at \in Nat /\ slot.at <= now /\ slot.limit \in Nat /\ slot.rows \subseteq Mints
        /\ Analysis!Cardinality(Mints) <= slot.limit
               => MissingSince(slot.rows, slot.at - KeysTimeout - PipelineTimeout)
        /\ GoneSince(slot.rows, slot.at - PipelineTimeout)

AnalysisInv ==
    /\ TokensInv
    /\ reader \in [TwoRequests -> Reader]
    /\ \A r \in TwoRequests : AnalysisReaderInv(r)
    /\ AnalysisSlotInv

-------------------------------------------------------------------------------
LEMMA StatsInit == Stats!Init => StatsInv
  BY DEF Stats!Init, Stats!InitTokens, Stats!Idle, Stats!Roles, StatsInv, TokensInv,
         StatsReaderInv, StatsSlotInv

(* A token comes or goes: it has changed now, and now is not before any    *)
(* time anything was read.                                                 *)
LEMMA StatsTurn ==
    ASSUME StatsInv, NEW m \in Mints, Stats!Turn(m), UNCHANGED <<slot, reader, asked>>
    PROVE  StatsInv'
<1>1. now' = now /\ stored' \subseteq Mints /\ changed' = [changed EXCEPT ![m] = now]
      /\ \A n \in Mints : n # m => (n \in stored' <=> n \in stored)
  BY DEF StatsInv, TokensInv, Stats!Turn
<1>2. TokensInv'
  BY <1>1 DEF StatsInv, TokensInv
<1>3. ASSUME NEW S, NEW t \in Nat, t <= now, ChangedSince(S, t)
      PROVE  ChangedSince(S, t)'
  BY <1>1, <1>3 DEF StatsInv, TokensInv, ChangedSince
<1>4. ASSUME NEW r \in TwoRequests PROVE StatsReaderInv(r)'
  <2>1. StatsReaderInv(r) /\ reader[r].at \in Nat /\ reader[r].role \in Stats!Roles
    BY DEF StatsInv, StatsReaderInv
  <2>2. reader[r].phase # "idle" => reader[r].at <= now
    BY <2>1 DEF StatsInv, StatsReaderInv, TokensInv
  <2>3. reader[r].phase = "info" => ChangedSince(reader[r].keys, reader[r].at)'
    BY <1>3, <2>1, <2>2 DEF StatsReaderInv, ChangedSince
  <2> QED BY <2>1, <2>3 DEF StatsReaderInv
<1>5. StatsSlotInv'
  BY <1>1, <1>3 DEF StatsInv, StatsSlotInv, ChangedSince
<1> QED BY <1>1, <1>2, <1>4, <1>5 DEF StatsInv

(* Each other step leaves the store alone.                                 *)
LEMMA StatsQuietStep ==
    ASSUME StatsInv,
           Stats!Tick \/ Stats!Restart \/ \E r \in TwoRequests :
               \/ \E role \in Stats!Roles : Stats!Begin(r, role)
               \/ Stats!ReadKeys(r) \/ Stats!Finish(r) \/ Stats!Fail(r)
    PROVE  StatsInv'
<1>1. CASE Stats!Tick
  BY <1>1 DEF Stats!Tick, Stats!Pass, StatsInv, TokensInv, StatsReaderInv, StatsSlotInv,
         ChangedSince
<1>2. CASE Stats!Restart
  BY <1>2 DEF Stats!Restart, Stats!tokens, Stats!Idle, Stats!Roles, StatsInv, TokensInv,
              StatsReaderInv, StatsSlotInv
<1>3. ASSUME NEW r \in TwoRequests, NEW role \in Stats!Roles, Stats!Begin(r, role)
      PROVE  StatsInv'
  BY <1>3 DEF Stats!Begin, Stats!tokens, StatsInv, TokensInv, StatsReaderInv, StatsSlotInv,
         ChangedSince
<1>4. ASSUME NEW r \in TwoRequests, Stats!ReadKeys(r)
      PROVE  StatsInv'
  BY <1>4 DEF Stats!ReadKeys, Stats!tokens, StatsInv, TokensInv, StatsReaderInv,
         StatsSlotInv, ChangedSince
<1>5. ASSUME NEW r \in TwoRequests, Stats!Finish(r)
      PROVE  StatsInv'
  BY <1>5 DEF Stats!Finish, Stats!tokens, Stats!Idle, Stats!Roles, StatsInv, TokensInv,
              StatsReaderInv, StatsSlotInv, ChangedSince
<1>6. ASSUME NEW r \in TwoRequests, Stats!Fail(r)
      PROVE  StatsInv'
  BY <1>6 DEF Stats!Fail, Stats!tokens, Stats!Idle, Stats!Roles, StatsInv, TokensInv,
              StatsReaderInv, StatsSlotInv, ChangedSince
<1> QED BY <1>1, <1>2, <1>3, <1>4, <1>5, <1>6

LEMMA StatsStep == StatsInv /\ [Stats!Next]_Stats!vars => StatsInv'
<1>1. CASE UNCHANGED Stats!vars
  BY <1>1 DEF Stats!vars, Stats!tokens, StatsInv, TokensInv, StatsReaderInv, StatsSlotInv,
         ChangedSince
<1> QED BY <1>1, StatsTurn, StatsQuietStep DEF Stats!Next

LEMMA StatsInvFades == Numbers /\ StatsInv => Stats!StatisticsFade
<1> SUFFICES ASSUME Numbers, StatsInv, Stats!Fresh, now - slot.at < LongDay
             PROVE  /\ \A m \in Mints : (m \in slot.keys) # (m \in stored)
                                             => now - changed[m] < TTL
                    /\ now - asked[slot.role] < TTL
  BY DEF Stats!StatisticsFade
<1>1. slot # None /\ slot.at \in Nat /\ now \in Nat /\ slot.at <= now
  BY DEF Stats!Fresh, StatsInv, StatsSlotInv, TokensInv
<1>2. (now - slot.at) % LongDay = now - slot.at
  BY <1>1, RemainderWithinADay DEF Numbers
<1>3. now - slot.at < TTL
  BY <1>2 DEF Stats!Fresh, Stats!Age
<1> QED BY <1>1, <1>3 DEF StatsInv, StatsSlotInv, TokensInv, ChangedSince, Numbers

-------------------------------------------------------------------------------
LEMMA AnalysisInit == Analysis!Init => AnalysisInv
  BY DEF Analysis!Init, Analysis!InitTokens, Analysis!Idle, Reader, AnalysisInv, TokensInv,
         AnalysisReaderInv, AnalysisSlotInv

LEMMA AnalysisTurn ==
    ASSUME Numbers, AnalysisInv, NEW m \in Mints, Analysis!Turn(m), UNCHANGED <<slot, reader>>
    PROVE  AnalysisInv'
<1>1. now' = now /\ stored' \subseteq Mints /\ changed' = [changed EXCEPT ![m] = now]
      /\ \A n \in Mints : n # m => (n \in stored' <=> n \in stored)
  BY DEF AnalysisInv, TokensInv, Analysis!Turn
<1>2. TokensInv'
  BY <1>1 DEF AnalysisInv, TokensInv
<1>3. ASSUME NEW S \in SUBSET Mints, NEW t \in Int, t <= now
      PROVE  /\ MissingSince(S, t) => MissingSince(S, t)'
             /\ GoneSince(S, t) => GoneSince(S, t)'
  BY <1>1, <1>3 DEF AnalysisInv, TokensInv, MissingSince, GoneSince
<1>4. ASSUME NEW r \in TwoRequests PROVE AnalysisReaderInv(r)'
  <2>1. reader[r] \in Reader /\ AnalysisReaderInv(r) /\ now \in Nat
    BY DEF AnalysisInv, TokensInv
  <2>2. reader[r].found \in SUBSET Mints /\ reader[r].until \in Nat
    BY <2>1 DEF Reader
  <2> DEFINE found == reader[r].found
             until == reader[r].until
  <2>3. until - KeysTimeout \in Int /\ until - KeysTimeout - PipelineTimeout \in Int
        /\ until - PipelineTimeout \in Int
    BY <2>2 DEF Numbers
  <2>4. CASE reader[r].phase = "keys"
    <3>1. until - KeysTimeout <= now
      BY <2>1, <2>2, <2>4 DEF AnalysisReaderInv, Numbers
    <3>2. MissingSince(found, until - KeysTimeout) => MissingSince(found, until - KeysTimeout)'
      BY <1>3, <2>2, <2>3, <3>1
    <3> QED BY <1>1, <2>1, <2>4, <3>2 DEF AnalysisReaderInv, MissingSince
  <2>5. CASE reader[r].phase \in {"piped", "rows"}
    <3>1. until - PipelineTimeout <= now /\ until - KeysTimeout - PipelineTimeout <= now
      BY <2>1, <2>2, <2>5 DEF AnalysisReaderInv, Numbers
    <3>2. /\ MissingSince(found, until - KeysTimeout - PipelineTimeout)
                 => MissingSince(found, until - KeysTimeout - PipelineTimeout)'
          /\ GoneSince(found, until - PipelineTimeout) => GoneSince(found, until - PipelineTimeout)'
      BY <1>3, <2>2, <2>3, <3>1
    <3> QED BY <1>1, <2>1, <2>5, <3>2 DEF AnalysisReaderInv, MissingSince, GoneSince
  <2>6. CASE reader[r].phase \in {"idle", "asked"}
    BY <1>1, <2>1, <2>6 DEF AnalysisReaderInv
  <2> QED BY <2>1, <2>4, <2>5, <2>6 DEF Reader
<1>5. AnalysisSlotInv'
  BY <1>1, <1>3 DEF AnalysisInv, TokensInv, AnalysisSlotInv, MissingSince, GoneSince, Numbers
<1> QED BY <1>1, <1>2, <1>4, <1>5 DEF AnalysisInv

(* A request reads the keys: it misses none unless its limit is below the  *)
(* number of tokens.                                                       *)
LEMMA AnalysisReadKeys ==
    ASSUME Numbers, AnalysisInv, NEW r \in TwoRequests, Analysis!ReadKeys(r)
    PROVE  AnalysisInv'
<1>1. PICK K \in SUBSET stored :
          /\ \/ K = stored /\ Analysis!Cardinality(K) <= reader[r].limit
             \/ Analysis!Cardinality(K) = reader[r].limit
          /\ reader' = [reader EXCEPT ![r] = [reader[r] EXCEPT !.phase = "keys", !.found = K]]
  BY DEF Analysis!ReadKeys
<1>2. UNCHANGED <<now, stored, changed, slot>> /\ reader[r].phase = "asked"
  BY DEF Analysis!ReadKeys, Analysis!tokens
<1>3. K \subseteq Mints /\ stored \subseteq Mints
  BY <1>1 DEF AnalysisInv, TokensInv
<1>4. Analysis!Cardinality(Mints) <= reader[r].limit => K = stored
  <2> SUFFICES ASSUME Analysis!Cardinality(Mints) <= reader[r].limit, Analysis!Cardinality(K) = reader[r].limit
               PROVE  K = Mints
    BY <1>1, <1>3
  <2>1. IsFiniteSet(K) /\ Analysis!Cardinality(K) <= Analysis!Cardinality(Mints)
        /\ (Analysis!Cardinality(K) = Analysis!Cardinality(Mints) => K = Mints)
    BY <1>3, SameCount, FS_Subset DEF Numbers
  <2>2. Analysis!Cardinality(K) \in Nat /\ Analysis!Cardinality(Mints) \in Nat
    BY <2>1, SameCount, FS_CardinalityType DEF Numbers
  <2> QED BY <2>1, <2>2
<1>5. ASSUME NEW q \in TwoRequests PROVE AnalysisReaderInv(q)'
  <2>1. CASE q = r
    <3>1. /\ reader'[r].phase = "keys" /\ reader'[r].found = K
          /\ reader'[r].until = reader[r].until /\ reader'[r].limit = reader[r].limit
      BY <1>1 DEF AnalysisInv
    <3>2. now <= reader[r].until /\ reader[r].until <= now + KeysTimeout
      BY <1>2 DEF AnalysisInv, AnalysisReaderInv
    <3> QED BY <1>2, <1>4, <2>1, <3>1, <3>2 DEF AnalysisReaderInv, MissingSince
  <2>2. CASE q # r
    BY <1>1, <1>2, <2>2 DEF AnalysisInv, AnalysisReaderInv, MissingSince, GoneSince
  <2> QED BY <2>1, <2>2
<1>6. reader' \in [TwoRequests -> Reader]
  <2>1. [reader[r] EXCEPT !.phase = "keys", !.found = K] \in Reader
    BY <1>3 DEF AnalysisInv, Reader
  <2> QED BY <1>1, <2>1 DEF AnalysisInv
<1> QED BY <1>2, <1>5, <1>6 DEF AnalysisInv, TokensInv, AnalysisSlotInv, MissingSince, GoneSince

(* The keys arrive, at the latest when their command is given up; what is  *)
(* missing has changed since then, less a timeout.                         *)
LEMMA AnalysisKeysArrive ==
    ASSUME Numbers, AnalysisInv, NEW r \in TwoRequests, Analysis!KeysArrive(r)
    PROVE  AnalysisInv'
<1>1. CASE reader[r].found = {}
  BY <1>1 DEF Analysis!KeysArrive, Analysis!tokens, Analysis!Idle, AnalysisInv, TokensInv,
         AnalysisReaderInv,
              Reader, AnalysisSlotInv, MissingSince, GoneSince
<1>2. CASE reader[r].found # {}
  <2>1. UNCHANGED <<now, stored, changed, slot>> /\ reader[r].phase = "keys"
        /\ reader' = [reader EXCEPT ![r] = [reader[r] EXCEPT !.phase = "piped",
                                                             !.until = now + PipelineTimeout]]
    BY <1>2 DEF Analysis!KeysArrive, Analysis!tokens
  <2>2. reader' \in [TwoRequests -> Reader]
    <3>1. [reader[r] EXCEPT !.phase = "piped", !.until = now + PipelineTimeout] \in Reader
      <4>1. reader[r] \in Reader /\ now + PipelineTimeout \in Nat
        BY DEF AnalysisInv, TokensInv, Numbers
      <4> QED BY <4>1 DEF Reader
    <3> QED BY <2>1, <3>1 DEF AnalysisInv
  <2>3. ASSUME NEW q \in TwoRequests PROVE AnalysisReaderInv(q)'
    <3>1. CASE q = r
      <4>1. /\ reader'[r].phase = "piped" /\ reader'[r].until = now + PipelineTimeout
            /\ reader'[r].found = reader[r].found /\ reader'[r].limit = reader[r].limit
        BY <2>1 DEF AnalysisInv
      <4>2. /\ now <= reader[r].until
            /\ Analysis!Cardinality(Mints) <= reader[r].limit
                   => MissingSince(reader[r].found, reader[r].until - KeysTimeout)
        BY <2>1 DEF AnalysisInv, AnalysisReaderInv
      <4>3. now \in Nat /\ reader[r].until \in Nat /\ stored \subseteq Mints
            /\ changed \in [Mints -> Int]
        BY DEF AnalysisInv, TokensInv, Reader
      <4>4. Analysis!Cardinality(Mints) <= reader[r].limit
                => MissingSince(reader[r].found, now + PipelineTimeout - KeysTimeout - PipelineTimeout)
        BY <4>2, <4>3 DEF MissingSince, Numbers
      <4> QED BY <2>1, <3>1, <4>1, <4>3, <4>4 DEF AnalysisReaderInv, MissingSince, Numbers
    <3>2. CASE q # r
      BY <2>1, <3>2 DEF AnalysisInv, AnalysisReaderInv, MissingSince, GoneSince
    <3> QED BY <3>1, <3>2
  <2> QED BY <2>1, <2>2, <2>3 DEF AnalysisInv, TokensInv, AnalysisSlotInv, MissingSince, GoneSince
<1> QED BY <1>1, <1>2

(* The pipeline leaves out what is gone by now.                            *)
LEMMA AnalysisReadRows ==
    ASSUME Numbers, AnalysisInv, NEW r \in TwoRequests, Analysis!ReadRows(r)
    PROVE  AnalysisInv'
<1>1. UNCHANGED <<now, stored, changed, slot>> /\ reader[r].phase = "piped"
      /\ reader' = [reader EXCEPT ![r] = [reader[r] EXCEPT !.phase = "rows",
                                              !.found = reader[r].found \intersect stored]]
  BY DEF Analysis!ReadRows, Analysis!tokens
<1>2. reader' \in [TwoRequests -> Reader]
  <2>1. [reader[r] EXCEPT !.phase = "rows", !.found = reader[r].found \intersect stored] \in Reader
    <3>1. reader[r] \in Reader
      BY DEF AnalysisInv
    <3> QED BY <3>1 DEF Reader
  <2> QED BY <1>1, <2>1 DEF AnalysisInv
<1>3. ASSUME NEW q \in TwoRequests PROVE AnalysisReaderInv(q)'
  <2>1. CASE q = r
    <3>1. /\ reader'[r].phase = "rows" /\ reader'[r].found = reader[r].found \intersect stored
          /\ reader'[r].until = reader[r].until /\ reader'[r].limit = reader[r].limit
      BY <1>1 DEF AnalysisInv
    <3>2. AnalysisReaderInv(r)
      BY DEF AnalysisInv
    <3> QED BY <1>1, <2>1, <3>1, <3>2 DEF AnalysisReaderInv, MissingSince, GoneSince
  <2>2. CASE q # r
    BY <1>1, <2>2 DEF AnalysisInv, AnalysisReaderInv, MissingSince, GoneSince
  <2> QED BY <2>1, <2>2
<1> QED BY <1>1, <1>2, <1>3 DEF AnalysisInv, TokensInv, AnalysisSlotInv, MissingSince, GoneSince

(* A request fills the slot before its command is given up, and stamps it  *)
(* with a time that is later than what it read.                            *)
LEMMA AnalysisFinish ==
    ASSUME Numbers, AnalysisInv, NEW r \in TwoRequests, Analysis!Finish(r)
    PROVE  AnalysisInv'
<1> DEFINE q == reader[r]
<1>1. /\ UNCHANGED <<now, stored, changed>> /\ q.phase = "rows"
      /\ slot' = [rows |-> q.found, limit |-> q.limit, at |-> now]
      /\ reader' = [reader EXCEPT ![r] = Analysis!Idle]
  BY DEF Analysis!Finish, Analysis!tokens
<1>2. q \in Reader /\ q.until \in Nat /\ q.limit \in Nat /\ q.found \subseteq Mints
  BY DEF AnalysisInv, Reader
<1>3. now \in Nat /\ stored \subseteq Mints /\ changed \in [Mints -> Int]
  BY DEF AnalysisInv, TokensInv
<1>4. AnalysisSlotInv'
  <2>1. /\ now <= q.until
        /\ Analysis!Cardinality(Mints) <= q.limit
               => MissingSince(q.found, q.until - KeysTimeout - PipelineTimeout)
        /\ GoneSince(q.found, q.until - PipelineTimeout)
    BY <1>1 DEF AnalysisInv, AnalysisReaderInv
  <2>2. Analysis!Cardinality(Mints) <= q.limit
            => MissingSince(q.found, now - KeysTimeout - PipelineTimeout)
    BY <1>2, <1>3, <2>1 DEF MissingSince, Numbers
  <2>3. GoneSince(q.found, now - PipelineTimeout)
    BY <1>2, <1>3, <2>1 DEF GoneSince, Numbers
  <2> QED BY <1>1, <1>2, <1>3, <2>2, <2>3 DEF AnalysisSlotInv, MissingSince, GoneSince
<1>5. reader' \in [TwoRequests -> Reader]
  BY <1>1 DEF AnalysisInv, Analysis!Idle, Reader
<1>6. ASSUME NEW p \in TwoRequests PROVE AnalysisReaderInv(p)'
  BY <1>1 DEF AnalysisInv, Analysis!Idle, AnalysisReaderInv, MissingSince, GoneSince
<1> QED BY <1>1, <1>4, <1>5, <1>6 DEF AnalysisInv, TokensInv

(* What neither reads rows nor changes keys: time passes only up to when a *)
(* command is given up.                                                    *)
LEMMA AnalysisQuietStep ==
    ASSUME Numbers, AnalysisInv,
           Analysis!Tick \/ Analysis!Restart \/ \E r \in TwoRequests :
               (\E l \in Limits : Analysis!Begin(r, l)) \/ Analysis!Timeout(r) \/ Analysis!Fail(r)
    PROVE  AnalysisInv'
<1>1. CASE Analysis!Tick
  <2>1. /\ now' = now + 1 /\ UNCHANGED <<stored, changed, slot, reader>>
        /\ \A r \in TwoRequests : reader[r].phase # "idle" => now < reader[r].until
    BY <1>1 DEF Analysis!Tick, Analysis!Pass
  <2>2. ASSUME NEW r \in TwoRequests PROVE AnalysisReaderInv(r)'
    <3>1. AnalysisReaderInv(r) /\ reader[r].until \in Nat /\ now \in Nat
      BY DEF AnalysisInv, TokensInv, Reader
    <3> QED BY <2>1, <3>1 DEF AnalysisReaderInv, MissingSince, GoneSince, Numbers
  <2> QED BY <2>1, <2>2 DEF AnalysisInv, TokensInv, AnalysisSlotInv, MissingSince, GoneSince
<1>2. CASE Analysis!Restart
  BY <1>2 DEF Analysis!Restart, Analysis!tokens, Analysis!Idle, Reader, AnalysisInv,
         TokensInv, AnalysisReaderInv, AnalysisSlotInv
<1>3. ASSUME NEW r \in TwoRequests, NEW l \in Limits, Analysis!Begin(r, l)
      PROVE  AnalysisInv'
  <2>1. UNCHANGED <<now, stored, changed, slot>>
        /\ reader' = [reader EXCEPT ![r] = [phase |-> "asked", limit |-> l,
                                            until |-> now + KeysTimeout, found |-> {}]]
    BY <1>3 DEF Analysis!Begin, Analysis!tokens
  <2>2. reader' \in [TwoRequests -> Reader]
    BY <2>1 DEF AnalysisInv, TokensInv, Reader, Numbers
  <2>3. ASSUME NEW q \in TwoRequests PROVE AnalysisReaderInv(q)'
    BY <2>1 DEF AnalysisInv, TokensInv, AnalysisReaderInv, MissingSince, GoneSince, Numbers
  <2> QED BY <2>1, <2>2, <2>3 DEF AnalysisInv, TokensInv, AnalysisSlotInv, MissingSince, GoneSince
<1>4. ASSUME NEW r \in TwoRequests, Analysis!Timeout(r) \/ Analysis!Fail(r)
      PROVE  AnalysisInv'
  BY <1>4 DEF Analysis!Timeout, Analysis!Fail, Analysis!tokens, Analysis!Idle, Reader,
         AnalysisInv, TokensInv, AnalysisReaderInv,
              AnalysisSlotInv, MissingSince, GoneSince
<1> QED BY <1>1, <1>2, <1>3, <1>4

LEMMA AnalysisStep == Numbers /\ AnalysisInv /\ [Analysis!Next]_Analysis!vars => AnalysisInv'
<1>1. CASE UNCHANGED Analysis!vars
  BY <1>1 DEF Analysis!vars, Analysis!tokens, AnalysisInv, TokensInv, AnalysisReaderInv,
         AnalysisSlotInv, MissingSince, GoneSince
<1> QED BY <1>1, AnalysisTurn, AnalysisReadKeys, AnalysisKeysArrive, AnalysisReadRows,
           AnalysisFinish, AnalysisQuietStep
        DEF Analysis!Next

LEMMA AnalysisInvFades == Numbers /\ AnalysisInv => Analysis!AnalysisListFades
<1> SUFFICES ASSUME Numbers, AnalysisInv, NEW m \in Mints,
                    slot # None, Analysis!Fresh(slot.limit), now - slot.at < LongDay
             PROVE  /\ m \in slot.rows \ stored => now - changed[m] < TTL + PipelineTimeout
                    /\ m \in stored \ slot.rows /\ Analysis!Cardinality(Mints) <= slot.limit
                           => now - changed[m] < TTL + KeysTimeout + PipelineTimeout
  BY DEF Analysis!AnalysisListFades
<1>1. slot.at \in Nat /\ now \in Nat /\ slot.at <= now /\ changed[m] \in Int
  BY DEF AnalysisInv, AnalysisSlotInv, TokensInv
<1>2. (now - slot.at) % LongDay = now - slot.at
  BY <1>1, RemainderWithinADay DEF Numbers
<1>3. now - slot.at < TTL
  BY <1>2 DEF Analysis!Fresh, Analysis!Age
<1> QED BY <1>1, <1>3 DEF AnalysisInv, AnalysisSlotInv, MissingSince, GoneSince, Numbers

-------------------------------------------------------------------------------
(* A behaviour of the instance is one of one of the caches.                *)
CachesInv ==
    /\ cache = "statistics" => StatsInv
    /\ cache = "analysis" => AnalysisInv

LEMMA InitCachesInv == InitCaches => CachesInv
  BY StatsInit, AnalysisInit DEF InitCaches, CachesInv

LEMMA NextCachesInv == CachesInv /\ [NextCaches]_<<cache, vars, others>> => CachesInv'
<1> SUFFICES ASSUME CachesInv, [NextCaches]_<<cache, vars, others>> PROVE CachesInv'
  OBVIOUS
<1>1. cache' = cache
  BY DEF NextCaches
<1>2. CASE cache = "statistics"
  <2>1. [Stats!Next]_Stats!vars
    BY <1>2 DEF NextCaches, vars, others, Stats!vars, Stats!tokens
  <2> QED BY <1>1, <1>2, <2>1, StatsStep DEF CachesInv
<1>3. CASE cache = "analysis"
  <2>1. [Analysis!Next]_Analysis!vars
    BY <1>3 DEF NextCaches, vars, others, Analysis!vars, Analysis!tokens
  <2> QED BY <1>1, <1>3, <2>1, NumbersHold, AnalysisStep DEF CachesInv
<1>4. CASE cache \notin {"statistics", "analysis"}
  BY <1>1, <1>4 DEF CachesInv
<1> QED BY <1>2, <1>3, <1>4

(* GET /stats: no answer counts a token that is gone for its time to live, *)
(* or leaves out one that is there for so long, or shows a role's view     *)
(* that nobody of that role has asked for.                                 *)
THEOREM StatisticsDoFade == SpecCaches => []StatisticsFade
<1>1. CachesInv => StatisticsFade
  BY NumbersHold, StatsInvFades DEF CachesInv, StatisticsFade
<1> QED BY <1>1, InitCachesInv, NextCachesInv, PTL DEF SpecCaches

(* get_all_tokens: short of a timeout and within a day, the list is wrong  *)
(* about a token for no longer than it is fresh and its last commands may  *)
(* take.                                                                   *)
THEOREM AnalysisListDoesFade == SpecCaches => []AnalysisListFades
<1>1. CachesInv => AnalysisListFades
  BY NumbersHold, AnalysisInvFades DEF CachesInv, AnalysisListFades
<1> QED BY <1>1, InitCachesInv, NextCachesInv, PTL DEF SpecCaches
===============================================================================
