-------------------------- MODULE AnalyzerCacheProofs --------------------------
(***************************************************************************)
(* Proofs about AnalyzerCache, for any requests and number of collections. *)
(***************************************************************************)
EXTENDS AnalyzerCache, TLAPS

Steps == {"idle", "new", "shown", "init", "parsed", "full", "summary", "summarised", "computed",
          "history"}
Initialised == {"parsed", "full", "summary", "summarised", "computed", "history"}
RequestType == [at : Steps, kind : Kinds, data : 0..MaxVersion, fields : Fields,
                result : SUBSET Versions]
AnalyzerType == [of : Versions, volumes : BOOLEAN, methods : Results]
PartialType == [of : Versions, volumes : {FALSE}, methods : {{}}]

(* A request has transactions from its beginning, the fields of a          *)
(* collection once its analyzer is initialised, and a result once it       *)
(* computed one; fields that are shown bare come from an analysis that was *)
(* saved.                                                                  *)
RequestOK(q) ==
    /\ q \in RequestType
    /\ q.at # "idle" => q.data \in Versions
    /\ q.at \in Initialised => q.fields.of \in Versions
    /\ q.at \in {"computed", "history"} => q.result # {}
    /\ q.at = "shown" /\ q.fields.of # 0 => saved

CacheInv ==
    /\ stored \in Versions
    /\ v2 \in AnalyzerType \union {None}
    /\ partial \in PartialType \union {None}
    /\ quick \in Results \union {None} /\ full \in Results \union {None}
    /\ request \in [Requests -> RequestType]
    /\ \A r \in Requests : RequestOK(request[r])
    /\ saved \in BOOLEAN
    /\ v2 # None => saved

LEMMA CacheTypes == CacheInv => TypeOK
  BY DEF CacheInv, TypeOK, RequestOK, RequestType, Initialised, Steps, AnalyzerType, PartialType

(* The records a request is made of, updated.                              *)
LEMMA IdleType == NoFields \in Fields /\ Idle \in RequestType /\ Idle.at = "idle"
<1>1. NoFields \in Fields
  BY VersionAssumption DEF NoFields, Fields
<1>2. Idle \in RequestType /\ Idle.at = "idle"
  BY <1>1, VersionAssumption DEF Idle, RequestType, Steps, Kinds
<1> QED BY <1>1, <1>2

LEMMA WithAt ==
    ASSUME NEW q \in RequestType, NEW a \in Steps,
           NEW p, p = [q EXCEPT !.at = a]
    PROVE  /\ p \in RequestType /\ p.at = a /\ p.kind = q.kind
           /\ p.data = q.data /\ p.fields = q.fields /\ p.result = q.result
  BY DEF RequestType

LEMMA WithFields ==
    ASSUME NEW q \in RequestType, NEW f \in Fields,
           NEW p, p = [q EXCEPT !.fields = f]
    PROVE  /\ p \in RequestType /\ p.at = q.at /\ p.kind = q.kind
           /\ p.data = q.data /\ p.fields = f /\ p.result = q.result
  BY DEF RequestType

(* Where an analyzer goes on once it has its fields.                       *)
LEMMA ReadyOK ==
    ASSUME NEW q \in RequestType, q.data \in Versions, q.fields.of \in Versions
    PROVE  RequestOK(Ready(q))
<1>1. ASSUME NEW a \in {"full", "summary"}
      PROVE  RequestOK([q EXCEPT !.at = a])
  <2> DEFINE p == [q EXCEPT !.at = a]
  <2>1. p \in RequestType /\ p.at = a /\ p.data = q.data /\ p.fields = q.fields
    <3>1. a \in Steps
      BY DEF Steps
    <3> QED BY <3>1, WithAt
  <2> HIDE DEF p
  <2>2. RequestOK(p)
    BY <2>1 DEF RequestOK
  <2> QED BY <2>2 DEF p
<1>2. RequestOK(Idle)
  BY IdleType DEF RequestOK, Initialised
<1> QED BY <1>1, <1>2 DEF Ready

LEMMA InitCacheInv == Init => CacheInv
<1> SUFFICES ASSUME Init PROVE CacheInv
  OBVIOUS
<1>1. RequestOK(Idle)
  BY IdleType DEF RequestOK, Initialised
<1>2. request \in [Requests -> RequestType] /\ \A r \in Requests : RequestOK(request[r])
  BY <1>1, IdleType DEF Init
<1>3. stored \in Versions
  BY VersionAssumption DEF Init, Versions
<1>4. saved \in BOOLEAN /\ (v2 # None => saved)
  BY DEF Init
<1> QED BY <1>2, <1>3, <1>4 DEF Init, CacheInv

(* A request goes on: every other one stays, and nothing unsaves.          *)
LEMMA RequestGoes ==
    ASSUME CacheInv, NEW r \in Requests, NEW q, Goes(r, q), RequestOK(q),
           saved' \in BOOLEAN, saved => saved'
    PROVE  request' \in [Requests -> RequestType] /\ \A s \in Requests : RequestOK(request[s])'
<1>1. q \in RequestType
  BY DEF RequestOK
<1>2. request' = [request EXCEPT ![r] = q]
  BY DEF Goes
<1>3. request' \in [Requests -> RequestType]
  BY <1>1, <1>2 DEF CacheInv
<1>4. ASSUME NEW s \in Requests PROVE RequestOK(request[s])'
  <2>1. CASE s = r
    <3>1. request'[s] = q
      BY <1>2, <2>1 DEF CacheInv
    <3> QED BY <3>1 DEF RequestOK
  <2>2. CASE s # r
    <3>1. request'[s] = request[s] /\ RequestOK(request[s])
      BY <1>2, <2>2 DEF CacheInv
    <3> QED BY <3>1 DEF RequestOK
  <2> QED BY <2>1, <2>2
<1> QED BY <1>3, <1>4

(* What a request draws on is of the collections there were.               *)
LEMMA OwnType ==
    ASSUME NEW q \in RequestType, q.data \in Versions, q.fields.of \in Versions
    PROVE  MethodsOf(q) \in Results /\ Own(q) \in Results
<1>1. q.fields.methods \in SUBSET Versions
  BY DEF RequestType, Fields
<1> QED BY <1>1 DEF MethodsOf, Own, Results

(* The steps of a request, before it computes.                             *)
LEMMA BeginInv == ASSUME CacheInv, NEW r \in Requests, Begin(r) PROVE CacheInv'
<1>1. PICK kind \in Kinds :
          Goes(r, [Idle EXCEPT !.at = "new", !.kind = kind, !.data = stored])
  BY DEF Begin
<1> DEFINE q == [Idle EXCEPT !.at = "new", !.kind = kind, !.data = stored]
<1>2. stored \in Versions /\ stored \in 0..MaxVersion
  BY VersionAssumption DEF CacheInv, Versions
<1>3. q \in RequestType /\ q.at = "new" /\ q.data = stored
  BY <1>2, IdleType DEF RequestType, Steps
<1> HIDE DEF q
<1>4. RequestOK(q)
  BY <1>2, <1>3 DEF RequestOK, Initialised
<1>5. saved' \in BOOLEAN /\ (saved => saved')
  BY DEF Begin, CacheInv
<1>6. request' \in [Requests -> RequestType] /\ \A s \in Requests : RequestOK(request[s])'
  BY <1>1, <1>4, <1>5, RequestGoes DEF q
<1> QED BY <1>6 DEF Begin, keys, CacheInv

LEMMA ConstructInv == ASSUME CacheInv, NEW r \in Requests, Construct(r) PROVE CacheInv'
<1> DEFINE fields == IF v2 # None THEN v2 ELSE NoFields
           q == [request[r] EXCEPT !.fields = fields]
           shown == [q EXCEPT !.at = "shown"]
           init == [q EXCEPT !.at = "init"]
<1>1. request[r] \in RequestType /\ request[r].data \in Versions
  BY DEF Construct, CacheInv, RequestOK
<1>2. /\ fields \in Fields
      /\ v2 # None => fields.of \in Versions
      /\ fields.of # 0 => saved
  <2>1. CASE v2 = None
    BY <2>1, IdleType DEF NoFields
  <2>2. CASE v2 # None
    <3>1. v2 \in AnalyzerType /\ saved
      BY <2>2 DEF CacheInv
    <3>2. v2 \in Fields /\ v2.of \in Versions
      BY <3>1, VersionAssumption DEF AnalyzerType, Fields, Results, Versions
    <3> QED BY <2>2, <3>1, <3>2
  <2> QED BY <2>1, <2>2
<1> HIDE DEF fields
<1>3. q \in RequestType /\ q.data \in Versions /\ q.fields = fields
  BY <1>1, <1>2, WithFields
<1> HIDE DEF q
<1>4. /\ shown \in RequestType /\ shown.at = "shown" /\ shown.data = q.data /\ shown.fields = fields
      /\ init \in RequestType /\ init.at = "init" /\ init.data = q.data
  <2>1. "shown" \in Steps /\ "init" \in Steps
    BY DEF Steps
  <2> QED BY <1>3, <2>1, WithAt
<1> HIDE DEF shown, init
<1>5. RequestOK(shown) /\ RequestOK(init)
  BY <1>2, <1>3, <1>4 DEF RequestOK, Initialised
<1>6. PICK goal : Goes(r, goal) /\ RequestOK(goal)
  <2>1. Goes(r, IF q.kind = "bare" THEN shown ELSE IF v2 # None THEN Ready(q) ELSE init)
    BY DEF Construct, q, fields, shown, init
  <2>2. v2 # None => RequestOK(Ready(q))
    BY <1>2, <1>3, ReadyOK
  <2> QED BY <1>5, <2>1, <2>2
<1>7. saved' \in BOOLEAN /\ (saved => saved')
  BY DEF Construct, CacheInv
<1>8. request' \in [Requests -> RequestType] /\ \A s \in Requests : RequestOK(request[s])'
  BY <1>6, <1>7, RequestGoes
<1> QED BY <1>8 DEF Construct, keys, CacheInv

LEMMA InitialiseInv == ASSUME CacheInv, NEW r \in Requests, Initialise(r) PROVE CacheInv'
<1> DEFINE q == [request[r] EXCEPT !.fields = partial]
           p == [request[r] EXCEPT !.fields = Parsed(request[r].data), !.at = "parsed"]
<1>1. request[r] \in RequestType /\ request[r].data \in Versions
  BY DEF Initialise, CacheInv, RequestOK
<1>2. ASSUME partial # None PROVE RequestOK(Ready(q))
  <2>1. partial \in Fields /\ partial.of \in Versions
    <3>1. partial \in PartialType
      BY <1>2 DEF CacheInv
    <3>2. partial \in [of : Versions, volumes : BOOLEAN, methods : SUBSET Versions]
      BY <3>1, Zenon DEF PartialType
    <3> QED BY <3>2, VersionAssumption DEF Fields, Versions
  <2>2. q \in RequestType /\ q.data \in Versions /\ q.fields = partial
    BY <1>1, <2>1, WithFields
  <2> QED BY <2>1, <2>2, ReadyOK
<1>3. RequestOK(p)
  <2>1. Parsed(request[r].data) \in Fields /\ Parsed(request[r].data).of = request[r].data
    BY <1>1, VersionAssumption DEF Parsed, Fields, Versions
  <2>2. /\ p \in RequestType /\ p.at = "parsed" /\ p.data = request[r].data
        /\ p.fields = Parsed(request[r].data)
    BY <1>1, <2>1 DEF RequestType, Steps
  <2> HIDE DEF p
  <2> QED BY <1>1, <2>1, <2>2 DEF RequestOK
<1>4. PICK goal : Goes(r, goal) /\ RequestOK(goal)
  <2> HIDE DEF q, p
  <2>1. Goes(r, IF partial # None THEN Ready(q) ELSE p)
    BY DEF Initialise, q, p
  <2> QED BY <1>2, <1>3, <2>1
<1>5. saved' \in BOOLEAN /\ (saved => saved')
  BY DEF Initialise, CacheInv
<1>6. request' \in [Requests -> RequestType] /\ \A s \in Requests : RequestOK(request[s])'
  BY <1>4, <1>5, RequestGoes
<1> QED BY <1>6 DEF Initialise, keys, CacheInv

LEMMA StorePartialInv == ASSUME CacheInv, NEW r \in Requests, StorePartial(r) PROVE CacheInv'
<1>1. /\ request[r] \in RequestType /\ request[r].data \in Versions
      /\ request[r].fields.of \in Versions
  BY DEF StorePartial, CacheInv, RequestOK, Initialised
<1>2. RequestOK(Ready(request[r])) /\ Goes(r, Ready(request[r]))
  BY <1>1, ReadyOK DEF StorePartial
<1>3. saved' \in BOOLEAN /\ (saved => saved')
  BY DEF StorePartial, CacheInv
<1>4. request' \in [Requests -> RequestType] /\ \A s \in Requests : RequestOK(request[s])'
  BY <1>2, <1>3, RequestGoes
<1>5. partial' \in PartialType
  BY <1>1 DEF StorePartial, PartialType
<1> QED BY <1>4, <1>5 DEF StorePartial, CacheInv

(* The steps that read and write the results.                              *)
LEMMA ReadFullInv == ASSUME CacheInv, NEW r \in Requests, ReadFull(r) PROVE CacheInv'
<1> DEFINE p == [request[r] EXCEPT !.at = "summary"]
<1>1. /\ request[r] \in RequestType /\ request[r].data \in Versions
      /\ request[r].fields.of \in Versions
  BY DEF ReadFull, CacheInv, RequestOK, Initialised
<1>2. RequestOK(p)
  <2>1. "summary" \in Steps
    BY DEF Steps
  <2>2. p \in RequestType /\ p.at = "summary" /\ p.data = request[r].data
        /\ p.fields = request[r].fields
    BY <1>1, <2>1, WithAt
  <2> HIDE DEF p
  <2> QED BY <1>1, <2>2 DEF RequestOK
<1>3. RequestOK(Idle)
  BY IdleType DEF RequestOK, Initialised
<1>4. PICK goal : Goes(r, goal) /\ RequestOK(goal)
  <2> HIDE DEF p
  <2>1. Goes(r, IF full # None THEN Idle ELSE p)
    BY DEF ReadFull, p
  <2> QED BY <1>2, <1>3, <2>1
<1>5. saved' \in BOOLEAN /\ (saved => saved')
  BY DEF ReadFull, CacheInv
<1>6. request' \in [Requests -> RequestType] /\ \A s \in Requests : RequestOK(request[s])'
  BY <1>4, <1>5, RequestGoes
<1> QED BY <1>6 DEF ReadFull, keys, CacheInv

(* Where a request goes with a summary it found or made.                   *)
LEMMA SummaryOK ==
    ASSUME CacheInv, NEW r \in Requests, NEW result \in Results, HasSummary(r, result),
           request[r].data \in Versions, request[r].fields.of \in Versions
    PROVE  \E goal : Goes(r, goal) /\ RequestOK(goal)
<1> DEFINE made == result \union Own(request[r])
<1>2. request[r] \in RequestType
  BY DEF CacheInv
<1>3. made \in SUBSET Versions /\ made # {}
  BY <1>2, OwnType DEF Results
<1>1. PICK p : p = [request[r] EXCEPT !.result = made, !.at = "computed"]
  OBVIOUS
<1> HIDE DEF made
<1>4. /\ p \in RequestType /\ p.at = "computed" /\ p.data = request[r].data
      /\ p.fields = request[r].fields /\ p.result = made
  BY <1>1, <1>2, <1>3 DEF RequestType, Steps
<1>5. RequestOK(p)
  BY <1>3, <1>4 DEF RequestOK
<1>6. RequestOK(Idle)
  BY IdleType DEF RequestOK, Initialised
<1>7. Goes(r, IF request[r].kind = "summary" THEN Idle ELSE p)
  BY <1>1, Zenon DEF HasSummary, made
<1> QED BY <1>5, <1>6, <1>7

LEMMA ReadQuickInv == ASSUME CacheInv, NEW r \in Requests, ReadQuick(r) PROVE CacheInv'
<1> DEFINE p == [request[r] EXCEPT !.at = "summarised"]
<1>1. /\ request[r] \in RequestType /\ request[r].data \in Versions
      /\ request[r].fields.of \in Versions
  BY DEF ReadQuick, CacheInv, RequestOK, Initialised
<1>2. RequestOK(p)
  <2>1. "summarised" \in Steps
    BY DEF Steps
  <2>2. p \in RequestType /\ p.at = "summarised" /\ p.data = request[r].data
        /\ p.fields = request[r].fields
    BY <1>1, <2>1, WithAt
  <2> HIDE DEF p
  <2> QED BY <1>1, <2>2 DEF RequestOK
<1>3. PICK goal : Goes(r, goal) /\ RequestOK(goal)
  <2> HIDE DEF p
  <2>1. CASE quick # None
    <3>1. quick \in Results /\ HasSummary(r, quick)
      BY <2>1 DEF ReadQuick, CacheInv
    <3> QED BY <1>1, <3>1, SummaryOK
  <2>2. CASE quick = None
    <3>1. Goes(r, p)
      BY <2>2 DEF ReadQuick, p
    <3> QED BY <1>2, <3>1
  <2> QED BY <2>1, <2>2
<1>4. saved' \in BOOLEAN /\ (saved => saved')
  BY DEF ReadQuick, CacheInv
<1>5. request' \in [Requests -> RequestType] /\ \A s \in Requests : RequestOK(request[s])'
  BY <1>3, <1>4, RequestGoes
<1> QED BY <1>5 DEF ReadQuick, keys, CacheInv

LEMMA StoreQuickInv == ASSUME CacheInv, NEW r \in Requests, StoreQuick(r) PROVE CacheInv'
<1>1. /\ request[r] \in RequestType /\ request[r].data \in Versions
      /\ request[r].fields.of \in Versions
  BY DEF StoreQuick, CacheInv, RequestOK, Initialised
<1>2. Own(request[r]) \in Results
  BY <1>1, OwnType
<1>3. PICK goal : Goes(r, goal) /\ RequestOK(goal)
  BY <1>1, <1>2, SummaryOK DEF StoreQuick
<1>4. saved' \in BOOLEAN /\ (saved => saved')
  BY DEF StoreQuick, CacheInv
<1>5. request' \in [Requests -> RequestType] /\ \A s \in Requests : RequestOK(request[s])'
  BY <1>3, <1>4, RequestGoes
<1> QED BY <1>2, <1>5 DEF StoreQuick, CacheInv

LEMMA StoreFullInv == ASSUME CacheInv, NEW r \in Requests, StoreFull(r) PROVE CacheInv'
<1> DEFINE p == [request[r] EXCEPT !.at = "history"]
<1>1. /\ request[r] \in RequestType /\ request[r].data \in Versions
      /\ request[r].fields.of \in Versions /\ request[r].result # {}
  BY DEF StoreFull, CacheInv, RequestOK, Initialised
<1>2. RequestOK(p)
  <2>1. "history" \in Steps
    BY DEF Steps
  <2>2. p \in RequestType /\ p.at = "history" /\ p.data = request[r].data
        /\ p.fields = request[r].fields /\ p.result = request[r].result
    BY <1>1, <2>1, WithAt
  <2> HIDE DEF p
  <2> QED BY <1>1, <2>2 DEF RequestOK
<1>3. RequestOK(Idle)
  BY IdleType DEF RequestOK, Initialised
<1>4. PICK goal : Goes(r, goal) /\ RequestOK(goal)
  <2> HIDE DEF p
  <2>1. Goes(r, IF request[r].kind = "saved" THEN p ELSE Idle)
    BY DEF StoreFull, p
  <2> QED BY <1>2, <1>3, <2>1
<1>5. saved' \in BOOLEAN /\ (saved => saved')
  BY DEF StoreFull, CacheInv
<1>6. request' \in [Requests -> RequestType] /\ \A s \in Requests : RequestOK(request[s])'
  BY <1>4, <1>5, RequestGoes
<1>7. full' \in Results
  <2>1. request[r].result \in SUBSET Versions
    BY <1>1 DEF RequestType
  <2> QED BY <1>1, <2>1 DEF StoreFull, Results
<1> QED BY <1>6, <1>7 DEF StoreFull, CacheInv

LEMMA SaveInv == ASSUME CacheInv, NEW r \in Requests, Save(r) PROVE CacheInv'
<1>1. /\ request[r] \in RequestType /\ request[r].data \in Versions
      /\ request[r].fields.of \in Versions
  BY DEF Save, CacheInv, RequestOK, Initialised
<1>2. v2' \in AnalyzerType
  <2>1. MethodsOf(request[r]) \in Results
    BY <1>1, OwnType
  <2>2. request[r].fields \in Fields
    BY <1>1 DEF RequestType
  <2> QED BY <1>1, <2>1, <2>2 DEF Save, AnalyzerType, Fields
<1>3. RequestOK(Idle) /\ Goes(r, Idle)
  BY IdleType DEF RequestOK, Initialised, Save
<1>4. saved' = TRUE
  BY DEF Save
<1>5. request' \in [Requests -> RequestType] /\ \A s \in Requests : RequestOK(request[s])'
  BY <1>3, <1>4, RequestGoes
<1> QED BY <1>2, <1>4, <1>5 DEF Save, CacheInv

(* Every request keeps what it has while the keys change around it.        *)
LEMMA OthersInv ==
    ASSUME CacheInv, UNCHANGED <<request, saved>>, stored' \in Versions,
           v2' \in {v2, None}, partial' \in {partial, None},
           quick' \in {quick, None}, full' \in {full, None}
    PROVE  CacheInv'
<1>1. request' = request /\ saved' = saved
  OBVIOUS
<1>2. \A s \in Requests : RequestOK(request[s])'
  BY <1>1 DEF CacheInv, RequestOK
<1> QED BY <1>1, <1>2 DEF CacheInv

LEMMA NextCacheInv == CacheInv /\ [Next]_vars => CacheInv'
<1> SUFFICES ASSUME CacheInv, [Next]_vars PROVE CacheInv'
  OBVIOUS
<1>1. ASSUME NEW r \in Requests, Begin(r) \/ Work(r) PROVE CacheInv'
  BY <1>1, BeginInv, ConstructInv, InitialiseInv, StorePartialInv, ReadFullInv, ReadQuickInv,
     StoreQuickInv, StoreFullInv, SaveInv DEF Work
<1>2. CASE Collect
  <2>1. stored' \in Versions
    BY <1>2, VersionAssumption DEF Collect, CacheInv, Versions
  <2> QED BY <1>2, <2>1, OthersInv DEF Collect, keys
<1>3. CASE ExpireV2 \/ ExpirePartial \/ ExpireQuick \/ ExpireFull
  <2>1. stored' \in Versions
    BY <1>3 DEF ExpireV2, ExpirePartial, ExpireQuick, ExpireFull, CacheInv
  <2> QED BY <1>3, <2>1, OthersInv DEF ExpireV2, ExpirePartial, ExpireQuick, ExpireFull
<1>4. CASE UNCHANGED vars
  <2>1. stored' \in Versions
    BY <1>4 DEF vars, CacheInv
  <2> QED BY <1>4, <2>1, OthersInv DEF vars, keys
<1> QED BY <1>1, <1>2, <1>3, <1>4 DEF Next

LEMMA CacheInvHolds == Spec => []CacheInv
  BY InitCacheInv, NextCacheInv, PTL DEF Spec

(* What is in the caches draws on collections there were, and an analyzer  *)
(* past its initialisation has the fields of one.                          *)
THEOREM CachesTyped == Spec => []TypeOK
  BY CacheInvHolds, CacheTypes, PTL

(* However the requests interleave and the keys expire, an endpoint that   *)
(* does not initialise its analyzer shows fields only after an analysis    *)
(* was saved.                                                              *)
THEOREM BareDoesNeedSave == Spec => []BareNeedsSave
<1>1. CacheInv => BareNeedsSave
  BY DEF CacheInv, RequestOK, BareNeedsSave
<1> QED BY <1>1, CacheInvHolds, PTL
===============================================================================
