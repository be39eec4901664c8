--------------------------- MODULE RateLimitsProofs ---------------------------
(***************************************************************************)
(* Proofs about the two rate limits of MCRateLimits, for any requests,     *)
(* paths, limit, lengths of a minute and a window, and length of the run.  *)
(***************************************************************************)
EXTENDS MCRateLimits, Integers, SequenceTheorems, FiniteSetTheorems, TLAPS

(***************************************************************************)
(* The limit of data-analysis.                                             *)
(***************************************************************************)

(* The requests of the window there is, and those of the minute before it. *)
Recent == {r \in Requests : admitted[r] # None /\ start <= admitted[r]}
Before == {r \in Requests : admitted[r] # None /\ start - Minute <= admitted[r] /\ admitted[r] < start}

(* The count is that of the window, which no admission is later than; and  *)
(* the minute before it belongs to one earlier window only.                *)
WindowInv ==
    /\ \A r \in Requests :
           /\ request[r] = "new" => admitted[r] = None
           /\ admitted[r] # None =>
                  start # None /\ admitted[r] <= now /\ admitted[r] <= start + Minute
    /\ start # None => /\ start <= now
                       /\ Cardinality(Recent) = count
                       /\ Cardinality(Before) <= Limit

AnalysisInv == TypeOK /\ WindowInv /\ BurstLimit

(* The sets that are counted are finite.                                   *)
LEMMA RequestSets ==
    ASSUME NEW S \in SUBSET Requests
    PROVE  IsFiniteSet(S) /\ Cardinality(S) \in Nat
  BY RequestsAssumption, FS_Subset, FS_CardinalityType

(* Two sets that cover a third one.                                        *)
LEMMA Covered ==
    ASSUME NEW A, IsFiniteSet(A), NEW B, IsFiniteSet(B), NEW S \in SUBSET (A \union B)
    PROVE  IsFiniteSet(S) /\ Cardinality(S) <= Cardinality(A) + Cardinality(B)
<1>1. IsFiniteSet(A \union B) /\ IsFiniteSet(A \intersect B)
  BY FS_Union, FS_Intersection
<1>2. Cardinality(A \union B) = Cardinality(A) + Cardinality(B) - Cardinality(A \intersect B)
  BY FS_Union
<1>3. Cardinality(A) \in Nat /\ Cardinality(B) \in Nat /\ Cardinality(A \intersect B) \in Nat
  BY <1>1, FS_CardinalityType
<1>4. IsFiniteSet(S) /\ Cardinality(S) \in Nat /\ Cardinality(S) <= Cardinality(A \union B)
  BY <1>1, FS_Subset, FS_CardinalityType
<1> QED BY <1>2, <1>3, <1>4

LEMMA InitAnalysisInv == Init => AnalysisInv
<1> SUFFICES ASSUME Init PROVE AnalysisInv
  OBVIOUS
<1>1. TypeOK /\ WindowInv
  BY ClockAssumption, LimitAssumption DEF Init, TypeOK, WindowInv, Times
<1>2. ASSUME NEW t \in Times PROVE AdmittedIn(t, t + Minute) = {}
  BY DEF Init, AdmittedIn
<1> QED BY <1>1, <1>2, FS_EmptySet, LimitAssumption DEF AnalysisInv, BurstLimit

(* A step that leaves the window and the admissions alone.                 *)
LEMMA SameWindow ==
    ASSUME AnalysisInv, TypeOK', UNCHANGED <<count, start, admitted>>, now <= now',
           \A r \in Requests : request'[r] = "new" => request[r] = "new"
    PROVE  AnalysisInv'
<1>1. Recent' = Recent /\ Before' = Before
  BY DEF Recent, Before
<1>2. WindowInv'
  BY <1>1, ClockAssumption DEF AnalysisInv, WindowInv, TypeOK, Times
<1>3. BurstLimit'
  BY DEF AnalysisInv, BurstLimit, AdmittedIn
<1> QED BY <1>2, <1>3 DEF AnalysisInv

(* An admission to the window there is, and one that begins a new window.  *)
LEMMA AdmitAnalysisInv ==
    ASSUME AnalysisInv, NEW r \in Requests, Admit(r)
    PROVE  AnalysisInv'
<1>1. /\ now' = now /\ now \in Nat /\ now \in Times
      /\ Minute \in Nat \ {0} /\ Limit \in Nat \ {0} /\ None \notin Nat
      /\ start \in Times \union {None} /\ count \in 0..Limit
      /\ \A q \in Requests : admitted[q] # None => admitted[q] \in Nat /\ admitted[q] <= now
  BY ClockAssumption, LimitAssumption DEF Admit, AnalysisInv, TypeOK, WindowInv, Times
<1>2. /\ admitted \in [Requests -> Times \union {None}]
      /\ admitted' = [admitted EXCEPT ![r] = now]
      /\ \A q \in Requests : admitted'[q] = IF q = r THEN now ELSE admitted[q]
      /\ now # None
  BY <1>1 DEF Admit, AnalysisInv, TypeOK
<1>3. \A S \in SUBSET Requests :
          /\ IsFiniteSet(S) /\ Cardinality(S) \in Nat
          /\ Cardinality(S \union {r}) \in {Cardinality(S), Cardinality(S) + 1}
          /\ r \notin S => Cardinality(S \union {r}) = Cardinality(S) + 1
  <2> TAKE S \in SUBSET Requests
  <2>1. IsFiniteSet(S) /\ Cardinality(S) \in Nat
    BY RequestSets
  <2> QED BY <2>1, FS_AddElement
<1>4. TypeOK'
  <2>1. count' \in 0..Limit /\ start' \in Times \union {None}
    BY <1>1 DEF Admit, Counted
  <2> QED BY <1>1, <1>2, <2>1 DEF Admit, AnalysisInv, TypeOK
<1>5. admitted[r] = None /\ \A q \in Requests : request'[q] = "new" => q # r /\ request[q] = "new"
  BY DEF Admit, AnalysisInv, TypeOK, WindowInv
<1>6. ASSUME NEW t \in Times, ~(t <= now /\ now <= t + Minute)
      PROVE  (Cardinality(AdmittedIn(t, t + Minute)) <= 2 * Limit)'
  <2>1. AdmittedIn(t, t + Minute)' = AdmittedIn(t, t + Minute)
    BY <1>1, <1>2, <1>5, <1>6 DEF AdmittedIn, Times
  <2> QED BY <2>1 DEF AnalysisInv, BurstLimit
<1>7. CASE WindowOver
  <2>1. start' = now /\ count' = 1
    BY <1>1, <1>7 DEF Admit, Counted
  <2>2. \A q \in Requests : admitted[q] # None => start \in Nat /\ admitted[q] < now
    BY <1>1, <1>7 DEF AnalysisInv, WindowInv, WindowOver, Times
  <2>3. Recent' = {r}
    BY <1>1, <1>2, <2>1, <2>2 DEF Recent
  <2>4. Cardinality(Before') <= Limit /\ Before' \in SUBSET Requests
    <3>1. CASE start = None
      <4>1. Before' = {}
        BY <1>1, <1>2, <2>1, <2>2, <3>1 DEF Before
      <4> QED BY <4>1, <1>1, FS_EmptySet
    <3>2. CASE start # None
      <4>1. now - start > Minute /\ start \in Nat
        BY <1>1, <1>7, <3>2 DEF WindowOver, Times
      <4>2. Before' \subseteq Recent /\ Recent \in SUBSET Requests
        BY <1>1, <1>2, <2>1, <4>1 DEF Before, Recent
      <4>3. Cardinality(Recent) <= Limit
        BY <1>1, <3>2 DEF AnalysisInv, WindowInv
      <4>4. Cardinality(Before') <= Cardinality(Recent)
        BY <4>2, <1>3, FS_Subset
      <4>5. Cardinality(Before') \in Nat /\ Cardinality(Recent) \in Nat
        BY <4>2, <1>3
      <4> QED BY <4>2, <4>3, <4>4, <4>5, <1>1
    <3> QED BY <3>1, <3>2
  <2>5. Cardinality(Recent') = 1
    BY <2>3, FS_Singleton
  <2>6. WindowInv'
    <3>1. \A q \in Requests : /\ request'[q] = "new" => admitted'[q] = None
                              /\ admitted'[q] # None => start' # None /\ admitted'[q] <= now'
                                                        /\ admitted'[q] <= start' + Minute
      BY <1>1, <1>2, <1>5, <2>1, <2>2 DEF AnalysisInv, WindowInv
    <3> QED BY <3>1, <1>1, <2>1, <2>4, <2>5 DEF WindowInv
  <2>7. ASSUME NEW t \in Times, t <= now /\ now <= t + Minute
        PROVE  (Cardinality(AdmittedIn(t, t + Minute)) <= 2 * Limit)'
    <3>1. AdmittedIn(t, t + Minute)' \subseteq Before' \union {r}
      BY <1>1, <1>2, <2>1, <2>2, <2>7 DEF AdmittedIn, Before, Times
    <3>2. Before' \union {r} \in SUBSET Requests
      BY <2>4
    <3>3. Cardinality(AdmittedIn(t, t + Minute)') <= Cardinality(Before' \union {r})
      BY <3>1, <3>2, <1>3, FS_Subset
    <3>4. AdmittedIn(t, t + Minute)' \in SUBSET Requests
      BY <3>1, <3>2
    <3>5. /\ Cardinality(Before') \in Nat /\ Cardinality(AdmittedIn(t, t + Minute)') \in Nat
          /\ Cardinality(Before' \union {r}) \in {Cardinality(Before'), Cardinality(Before') + 1}
      BY <1>3, <2>4, <3>4
    <3> QED BY <3>3, <3>5, <2>4, <1>1
  <2> QED BY <1>4, <1>6, <2>6, <2>7 DEF AnalysisInv, BurstLimit
<1>8. CASE ~WindowOver
  <2>1. /\ start \in Nat /\ start # None /\ start <= now /\ now - start <= Minute
        /\ start' = start /\ count' = count + 1 /\ count + 1 <= Limit
    BY <1>1, <1>8 DEF Admit, Counted, WindowOver, AnalysisInv, WindowInv, Times
  <2>2. Recent' = Recent \union {r} /\ Recent \in SUBSET Requests /\ r \notin Recent
    BY <1>1, <1>2, <1>5, <2>1 DEF Recent
  <2>3. Before' = Before /\ Before \in SUBSET Requests
    BY <1>1, <1>2, <1>5, <2>1 DEF Before
  <2>4. Cardinality(Recent) = count /\ Cardinality(Before) <= Limit
    BY <2>1 DEF AnalysisInv, WindowInv
  <2>5. Cardinality(Recent') = count'
    BY <1>3, <2>1, <2>2, <2>4
  <2>6. WindowInv'
    <3>1. \A q \in Requests : /\ request'[q] = "new" => admitted'[q] = None
                              /\ admitted'[q] # None => start' # None /\ admitted'[q] <= now'
                                                        /\ admitted'[q] <= start' + Minute
      BY <1>1, <1>2, <1>5, <2>1 DEF AnalysisInv, WindowInv
    <3> QED BY <3>1, <1>1, <2>1, <2>3, <2>4, <2>5 DEF WindowInv
  <2>7. ASSUME NEW t \in Times, t <= now /\ now <= t + Minute
        PROVE  (Cardinality(AdmittedIn(t, t + Minute)) <= 2 * Limit)'
    <3>1. AdmittedIn(t, t + Minute)' \subseteq Recent' \union Before
      BY <1>1, <1>2, <2>1, <2>7 DEF AdmittedIn, Recent, Before, Times
    <3>2. IsFiniteSet(Recent') /\ IsFiniteSet(Before) /\ Cardinality(Before) \in Nat
      BY <1>3, <2>2, <2>3
    <3>3. /\ IsFiniteSet(AdmittedIn(t, t + Minute)')
          /\ Cardinality(AdmittedIn(t, t + Minute)') <= Cardinality(Recent') + Cardinality(Before)
      BY <3>1, <3>2, Covered
    <3>4. Cardinality(AdmittedIn(t, t + Minute)') \in Nat
      BY <3>3, FS_CardinalityType
    <3> QED BY <3>2, <3>3, <3>4, <2>1, <2>4, <2>5, <1>1
  <2> QED BY <1>4, <1>6, <2>6, <2>7 DEF AnalysisInv, BurstLimit
<1> QED BY <1>7, <1>8

LEMMA NextAnalysisInv == AnalysisInv /\ [Next]_vars => AnalysisInv'
<1> SUFFICES ASSUME AnalysisInv, [Next]_vars PROVE AnalysisInv'
  OBVIOUS
<1> USE ClockAssumption, LimitAssumption DEF AnalysisInv, TypeOK, Times
<1>1. CASE Tick
  <2>1. TypeOK' /\ now <= now' /\ request' = request
    BY <1>1 DEF Tick
  <2> QED BY <1>1, <2>1, SameWindow DEF Tick
<1>2. ASSUME NEW r \in Requests, Admit(r) PROVE AnalysisInv'
  BY <1>2, AdmitAnalysisInv
<1>3. ASSUME NEW r \in Requests, Refuse(r) \/ Return(r) \/ Raise(r) PROVE AnalysisInv'
  <2>1. TypeOK' /\ now <= now'
    BY <1>3 DEF Refuse, Return, Raise
  <2>2. \A q \in Requests : request'[q] = "new" => request[q] = "new"
    BY <1>3 DEF Refuse, Return, Raise
  <2> QED BY <1>3, <2>1, <2>2, SameWindow DEF Refuse, Return, Raise
<1>4. CASE Restart
  <2>1. TypeOK' /\ start' = None /\ \A q \in Requests : admitted'[q] = None
    BY <1>4 DEF Restart
  <2>2. ASSUME NEW t \in Times PROVE (Cardinality(AdmittedIn(t, t + Minute)) <= 2 * Limit)'
    <3>1. AdmittedIn(t, t + Minute)' = {}
      BY <2>1 DEF AdmittedIn
    <3>2. AdmittedIn(t, t + Minute)' = {} => Cardinality(AdmittedIn(t, t + Minute)') = 0
      BY FS_EmptySet
    <3> QED BY <3>1, <3>2
  <2>3. WindowInv'
    BY <2>1 DEF WindowInv
  <2>4. BurstLimit'
    BY <2>2 DEF BurstLimit
  <2> QED BY <2>1, <2>3, <2>4
<1>5. CASE UNCHANGED vars
  <2>1. TypeOK' /\ now <= now'
    BY <1>5 DEF vars
  <2> QED BY <1>5, <2>1, SameWindow DEF vars
<1> QED BY <1>1, <1>2, <1>3, <1>4, <1>5 DEF Next

(***************************************************************************)
(* The limit of data-management.                                           *)
(***************************************************************************)

(* The window a time is in, as the code divides.                           *)
LEMMA WindowOf ==
    ASSUME NEW n \in Nat, NEW d \in Nat \ {0}
    PROVE  n \div d \in Nat /\ d * (n \div d) <= n /\ n < d * (n \div d) + d
  OBVIOUS

(* The windows follow the times.                                           *)
LEMMA WindowsInOrder ==
    ASSUME NEW a \in Nat, NEW b \in Nat, NEW d \in Nat \ {0}, a <= b
    PROVE  a \div d <= b \div d
<1>1. /\ a \div d \in Nat /\ d * (a \div d) <= a
      /\ b \div d \in Nat /\ b < d * (b \div d) + d
  BY WindowOf
<1>2. CASE a \div d <= b \div d
  BY <1>2
<1>3. CASE b \div d + 1 <= a \div d
  <2>1. d * (b \div d + 1) <= d * (a \div d)
    BY <1>1, <1>3
  <2>2. d * (b \div d + 1) = d * (b \div d) + d
    BY <1>1
  <2> QED BY <1>1, <2>1, <2>2
<1> QED BY <1>1, <1>2, <1>3

(* Two times less than a window apart are in one window or in neighbours.  *)
LEMMA NextWindow ==
    ASSUME NEW a \in Nat, NEW b \in Nat, NEW d \in Nat \ {0}, a <= b, b < a + d
    PROVE  b \div d = a \div d \/ b \div d = a \div d + 1
<1>1. /\ a \div d \in Nat /\ a < d * (a \div d) + d
      /\ b \div d \in Nat /\ d * (b \div d) <= b /\ a \div d <= b \div d
  BY WindowOf, WindowsInOrder
<1>2. CASE a \div d + 2 <= b \div d
  <2>1. d * (a \div d + 2) <= d * (b \div d)
    BY <1>1, <1>2
  <2>2. d * (a \div d + 2) = d * (a \div d) + d + d
    BY <1>1
  <2> QED BY <1>1, <2>1, <2>2
<1> QED BY <1>1, <1>2

(* One more index, for the least of a set of indexes.                      *)
LEMMA LeastStep ==
    ASSUME NEW F \in SUBSET Nat, NEW n \in Nat,
           (\E i \in F : i <= n) => \E i \in F : \A j \in F : i <= j
    PROVE  (\E i \in F : i <= n + 1) => \E i \in F : \A j \in F : i <= j
<1>1. CASE \E i \in F : i <= n
  BY <1>1
<1>2. CASE ~ \E i \in F : i <= n
  <2> SUFFICES ASSUME NEW i \in F, i <= n + 1 PROVE \A j \in F : i <= j
    OBVIOUS
  <2> QED BY <1>2
<1> QED BY <1>1, <1>2

(* Every path has a limit, which lets requests through.                    *)
LEMMA LimitType == ASSUME NEW path PROVE Management!LimitOf(path) \in Nat \ {0}
<1> DEFINE E == Management!EndpointLimits
           F == {i \in DOMAIN E : E[i].pattern \in Management!StartsWith(path)}
<1>1. DOMAIN E = 1..9 /\ \A i \in 1..9 : E[i].limit \in Nat \ {0}
  BY DEF Management!EndpointLimits
<1>2. F \in SUBSET Nat /\ \A i \in F : i \in 1..9
  BY <1>1
<1>3. CASE F = {}
  BY <1>3 DEF Management!LimitOf, Management!DefaultLimit
<1>4. CASE F # {}
  <2> DEFINE Least == \E i \in F : \A j \in F : i <= j
             Upto(n) == (\E i \in F : i <= n) => Least
  <2>1. \A n \in Nat : Upto(n) => Upto(n + 1)
    BY <1>2, LeastStep
  <2>2. Upto(0)
    BY <1>2
  <2> HIDE DEF Upto
  <2>3. Upto(3)
    BY <2>1, <2>2
  <2>4. Upto(6)
    BY <2>1, <2>3
  <2>5. Upto(9)
    BY <2>1, <2>4
  <2>6. Least
    BY <1>2, <1>4, <2>5 DEF Upto
  <2>7. (CHOOSE i \in F : \A j \in F : i <= j) \in F
    BY <2>6
  <2>8. Management!LimitOf(path) = E[CHOOSE i \in F : \A j \in F : i <= j].limit
    BY <1>4 DEF Management!LimitOf
  <2> QED BY <1>1, <1>2, <2>7, <2>8
<1> QED BY <1>3, <1>4

(* The requests for p that passed in the window w, by their position.      *)
InWindow(p, w) == {i \in DOMAIN passed[p] : passed[p][i] \div Window = w}

(* A counter holds what passed in its window, and Redis keeps it until the *)
(* window is over: the key never expires before the number goes on.        *)
CounterInv ==
    \A p \in Paths :
        /\ \A i \in DOMAIN passed[p] : passed[p][i] <= now
        /\ \A w \in Management!Windows :
               /\ Cardinality(InWindow(p, w)) = counter[p][w].n
               /\ counter[p][w].n # 0 => counter[p][w].expires >= Window * w + Window

ManagementInv == Management!TypeOK /\ CounterInv

(* The sets that are counted are finite, and the library's cardinality is  *)
(* that of the instance.                                                   *)
LEMMA PositionSets ==
    ASSUME NEW s \in Seq(Nat), NEW S \in SUBSET (DOMAIN s)
    PROVE  IsFiniteSet(S) /\ Cardinality(S) \in Nat
<1>1. Len(s) \in Nat /\ DOMAIN s = 1..Len(s)
  BY LenProperties
<1>2. IsFiniteSet(1..Len(s))
  BY <1>1, FS_Interval
<1>3. IsFiniteSet(S)
  BY <1>1, <1>2, FS_Subset
<1> QED BY <1>3, FS_CardinalityType

LEMMA SameCardinality == \A S : Management!Cardinality(S) = Cardinality(S)
  BY DEF Management!Cardinality, Cardinality

LEMMA InitManagementInv == Management!Init => ManagementInv
<1> SUFFICES ASSUME Management!Init PROVE ManagementInv
  OBVIOUS
<1> USE WindowsAssumption DEF Management!Init
<1>1. now \in Management!Times
  BY DEF Management!Times
<1>2. counter \in [Paths -> [Management!Windows -> [n : Nat, expires : 0..(LastTick + Window)]]]
  BY DEF Management!Gone
<1>3. ASSUME NEW p \in Paths, NEW w \in Management!Windows
      PROVE  counter[p][w].n = 0 /\ counter[p][w].n <= Management!LimitOf(p)
  <2>1. Management!LimitOf(p) \in Nat
    BY LimitType
  <2> QED BY <2>1 DEF Management!Gone
<1>4. passed \in [Paths -> Seq(Management!Times)] /\ \A p \in Paths : DOMAIN passed[p] = {}
  OBVIOUS
<1>5. \A p \in Paths, w \in Management!Windows : InWindow(p, w) = {}
  BY <1>4 DEF InWindow
<1>6. CounterInv
  BY <1>3, <1>4, <1>5, FS_EmptySet DEF CounterInv
<1> QED BY <1>1, <1>2, <1>3, <1>4, <1>6 DEF ManagementInv, Management!TypeOK

LEMMA RequestManagementInv ==
    ASSUME ManagementInv, NEW p \in Paths, Management!Request(p)
    PROVE  ManagementInv'
<1>0. PICK w : w = now \div Window
  OBVIOUS
<1>1. /\ Window \in Nat \ {0} /\ LastTick \in Nat
      /\ now \in Nat /\ now <= LastTick /\ now' = now
      /\ Management!LimitOf(p) \in Nat
      /\ \A q \in Paths : passed[q] \in Seq(Nat)
  BY WindowsAssumption, LimitType
     DEF ManagementInv, Management!TypeOK, Management!Request, Management!Times
<1>2. w \in Management!Windows /\ w \in Nat /\ Window * w <= now /\ now < Window * w + Window
  BY <1>0, <1>1, WindowOf, WindowsInOrder DEF Management!Windows
<1>3. /\ counter[p][w].n \in Nat /\ counter[p][w].expires \in 0..(LastTick + Window)
      /\ counter[p][w] \in [n : Nat, expires : 0..(LastTick + Window)]
      /\ counter[p][w].n # 0 => counter[p][w].expires >= Window * w + Window
  BY <1>2 DEF ManagementInv, Management!TypeOK, CounterInv
<1>4. Management!Current(p, w) = counter[p][w].n
  <2>1. CASE counter[p][w].n = 0
    BY <2>1 DEF Management!Current
  <2>2. CASE counter[p][w].n # 0
    <3>1. ~(counter[p][w].expires <= now)
      BY <1>1, <1>2, <1>3, <2>2
    <3> QED BY <3>1 DEF Management!Current
  <2> QED BY <2>1, <2>2
<1>5. PICK e : /\ counter' = [counter EXCEPT ![p][w] = e]
               /\ e \in [n : Nat, expires : 0..(LastTick + Window)]
               /\ e.n = counter[p][w].n + 1 /\ e.expires >= Window * w + Window
  <2>1. CASE counter[p][w].n = 0
    <3> DEFINE e == [n |-> 1, expires |-> now + Window]
    <3>1. counter' = [counter EXCEPT ![p][w] = e]
      BY <1>0, <1>4, <2>1 DEF Management!Request, Management!Count
    <3>2. now + Window \in 0..(LastTick + Window) /\ now + Window >= Window * w + Window
      BY <1>1, <1>2
    <3>3. e \in [n : Nat, expires : 0..(LastTick + Window)] /\ e.expires >= Window * w + Window
      BY <3>2
    <3> HIDE DEF e
    <3>4. e.n = counter[p][w].n + 1
      BY <2>1 DEF e
    <3> QED BY <3>1, <3>3, <3>4
  <2>2. CASE counter[p][w].n # 0
    <3> DEFINE e == [counter[p][w] EXCEPT !.n = counter[p][w].n + 1]
    <3>1. counter' = [counter EXCEPT ![p][w] = e]
      BY <1>0, <1>4, <2>2 DEF Management!Request, Management!Count
    <3>2. /\ e \in [n : Nat, expires : 0..(LastTick + Window)]
          /\ e.n = counter[p][w].n + 1 /\ e.expires = counter[p][w].expires
      BY <1>3
    <3> QED BY <2>2, <1>3, <3>1, <3>2
  <2> QED BY <2>1, <2>2
<1>6. /\ counter' \in [Paths -> [Management!Windows -> [n : Nat, expires : 0..(LastTick + Window)]]]
      /\ counter'[p][w] = e
      /\ \A q \in Paths, v \in Management!Windows : q # p \/ v # w => counter'[q][v] = counter[q][v]
  BY <1>2, <1>5 DEF ManagementInv, Management!TypeOK
<1>7. /\ passed' = [passed EXCEPT ![p] = Append(passed[p], now)]
      /\ passed \in [Paths -> Seq(Management!Times)] /\ now \in Management!Times
      /\ counter[p][w].n < Management!LimitOf(p)
  BY <1>0, <1>4 DEF Management!Request, ManagementInv, Management!TypeOK
<1>8. /\ passed' \in [Paths -> Seq(Management!Times)]
      /\ \A q \in Paths : q # p => passed'[q] = passed[q]
      /\ passed'[p] = Append(passed[p], now)
  BY <1>7, AppendProperties
<1>9. Management!TypeOK'
  <2>1. \A q \in Paths, v \in Management!Windows : counter'[q][v].n <= Management!LimitOf(q)
    BY <1>1, <1>3, <1>5, <1>6, <1>7 DEF ManagementInv, Management!TypeOK
  <2> QED BY <1>1, <1>6, <1>7, <1>8, <2>1 DEF Management!TypeOK
<1>10. ASSUME NEW q \in Paths, q # p
       PROVE  /\ \A i \in DOMAIN passed'[q] : passed'[q][i] <= now'
              /\ \A v \in Management!Windows :
                     /\ Cardinality(InWindow(q, v)') = counter'[q][v].n
                     /\ counter'[q][v].n # 0 => counter'[q][v].expires >= Window * v + Window
  <2>1. passed'[q] = passed[q] /\ now' = now
    BY <1>1, <1>8, <1>10
  <2>2. \A v \in Management!Windows : InWindow(q, v)' = InWindow(q, v)
    BY <2>1 DEF InWindow
  <2>3. \A v \in Management!Windows : counter'[q][v] = counter[q][v]
    BY <1>6, <1>10
  <2> QED BY <2>1, <2>2, <2>3 DEF ManagementInv, CounterInv
<1>11. /\ DOMAIN passed[p] = 1..Len(passed[p]) /\ Len(passed[p]) \in Nat
       /\ DOMAIN passed'[p] = 1..(Len(passed[p]) + 1)
       /\ \A i \in 1..Len(passed[p]) : passed'[p][i] = passed[p][i]
       /\ passed'[p][Len(passed[p]) + 1] = now
  BY <1>1, <1>8, AppendProperties, LenProperties
<1>12. \A i \in DOMAIN passed'[p] : passed'[p][i] <= now'
  BY <1>1, <1>11 DEF ManagementInv, CounterInv
<1>13. ASSUME NEW v \in Management!Windows, v # w
       PROVE  /\ Cardinality(InWindow(p, v)') = counter'[p][v].n
              /\ counter'[p][v].n # 0 => counter'[p][v].expires >= Window * v + Window
  <2>1. InWindow(p, v)' = InWindow(p, v)
    BY <1>0, <1>11, <1>13 DEF InWindow
  <2> QED BY <1>6, <1>13, <2>1 DEF ManagementInv, CounterInv
<1>14. /\ Cardinality(InWindow(p, w)') = counter'[p][w].n
       /\ counter'[p][w].n # 0 => counter'[p][w].expires >= Window * w + Window
  <2>1. InWindow(p, w)' = InWindow(p, w) \union {Len(passed[p]) + 1}
    <3>1. DOMAIN passed'[p] = DOMAIN passed[p] \union {Len(passed[p]) + 1}
      BY <1>11
    <3>2. \A i : i \in DOMAIN passed[p] => passed'[p][i] = passed[p][i]
      BY <1>11
    <3>3. passed'[p][Len(passed[p]) + 1] \div Window = w
      BY <1>0, <1>11
    <3>4. ASSUME NEW i PROVE i \in InWindow(p, w)' <=> i \in InWindow(p, w) \union {Len(passed[p]) + 1}
      <4>1. CASE i = Len(passed[p]) + 1
        BY <3>1, <3>3, <4>1 DEF InWindow
      <4>2. CASE i # Len(passed[p]) + 1
        BY <3>1, <3>2, <4>2 DEF InWindow
      <4> QED BY <4>1, <4>2
    <3> QED BY <3>4
  <2>2. Len(passed[p]) + 1 \notin InWindow(p, w) /\ InWindow(p, w) \in SUBSET (DOMAIN passed[p])
    BY <1>11 DEF InWindow
  <2>3. IsFiniteSet(InWindow(p, w))
    BY <1>1, <2>2, PositionSets
  <2>4. Cardinality(InWindow(p, w)') = Cardinality(InWindow(p, w)) + 1
    BY <2>1, <2>2, <2>3, FS_AddElement
  <2>5. Cardinality(InWindow(p, w)) = counter[p][w].n
    BY <1>2 DEF ManagementInv, CounterInv
  <2>6. w \in Management!Windows /\ e.n = counter'[p][w].n /\ e.expires = counter'[p][w].expires
    BY <1>2, <1>6
  <2> QED BY <1>5, <2>4, <2>5, <2>6
<1>15. CounterInv'
  <2>1. ASSUME NEW q \in Paths
        PROVE  /\ \A i \in DOMAIN passed'[q] : passed'[q][i] <= now'
               /\ \A v \in Management!Windows :
                      /\ Cardinality(InWindow(q, v)') = counter'[q][v].n
                      /\ counter'[q][v].n # 0 => counter'[q][v].expires >= Window * v + Window
    <3>1. CASE q # p
      BY <1>10, <3>1
    <3>2. CASE q = p
      <4>1. ASSUME NEW v \in Management!Windows
            PROVE  /\ Cardinality(InWindow(p, v)') = counter'[p][v].n
                   /\ counter'[p][v].n # 0 => counter'[p][v].expires >= Window * v + Window
        <5>1. CASE v = w
          BY <1>14, <5>1 DEF InWindow
        <5>2. CASE v # w
          BY <1>13, <5>2
        <5> QED BY <5>1, <5>2
      <4> QED BY <1>12, <3>2, <4>1
    <3> QED BY <3>1, <3>2
  <2> QED BY <2>1 DEF CounterInv
<1> QED BY <1>9, <1>15 DEF ManagementInv

LEMMA NextManagementInv ==
    ManagementInv /\ [Management!Next]_(Management!vars) => ManagementInv'
<1> SUFFICES ASSUME ManagementInv, [Management!Next]_(Management!vars) PROVE ManagementInv'
  OBVIOUS
<1>1. CASE Management!Tick \/ UNCHANGED Management!vars
  <2>1. /\ counter' = counter /\ passed' = passed /\ now' \in Management!Times /\ now <= now'
        /\ now \in Nat
    BY <1>1, WindowsAssumption
       DEF Management!Tick, Management!vars, Management!Times, ManagementInv, Management!TypeOK
  <2>2. Management!TypeOK'
    BY <2>1 DEF ManagementInv, Management!TypeOK
  <2>3. ASSUME NEW p \in Paths, NEW i \in DOMAIN passed[p] PROVE passed[p][i] <= now'
    <3>1. passed[p][i] <= now
      BY DEF ManagementInv, CounterInv
    <3>2. passed[p] \in Seq(Nat)
      BY WindowsAssumption DEF ManagementInv, Management!TypeOK, Management!Times
    <3>3. passed[p][i] \in Nat
      BY <3>2, LenProperties, ElementOfSeq
    <3> QED BY <2>1, <3>1, <3>3, WindowsAssumption DEF Management!Times
  <2>4. \A p \in Paths, v \in Management!Windows : InWindow(p, v)' = InWindow(p, v)
    BY <2>1 DEF InWindow
  <2>5. CounterInv'
    BY <2>1, <2>3, <2>4 DEF ManagementInv, CounterInv
  <2> QED BY <2>2, <2>5 DEF ManagementInv
<1>2. ASSUME NEW p \in Paths, Management!Request(p) PROVE ManagementInv'
  BY <1>2, RequestManagementInv
<1> QED BY <1>1, <1>2 DEF Management!Next

(* The counters of two windows bound what passes in as many seconds.       *)
LEMMA CountersBound == ManagementInv => Management!BurstLimit
<1> SUFFICES ASSUME ManagementInv, NEW p \in Paths, NEW t \in Management!Times,
                    t <= now, now < t + Window
             PROVE  Management!Passed(p, t, now) <= 2 * Management!LimitOf(p)
  BY DEF Management!BurstLimit
<1> DEFINE S == {i \in DOMAIN passed[p] : passed[p][i] \in t..now}
           w == now \div Window
<1>1. /\ Window \in Nat \ {0} /\ LastTick \in Nat /\ t \in Nat
      /\ now \in Nat /\ now <= LastTick
      /\ Management!LimitOf(p) \in Nat /\ passed[p] \in Seq(Nat)
  BY WindowsAssumption, LimitType DEF ManagementInv, Management!TypeOK, Management!Times
<1>2. w \in Management!Windows /\ w \in Nat /\ w <= LastTick \div Window /\ LastTick \div Window \in Nat
  BY <1>1, WindowOf, WindowsInOrder DEF Management!Windows
<1>3. ASSUME NEW v \in Management!Windows
      PROVE  /\ IsFiniteSet(InWindow(p, v)) /\ Cardinality(InWindow(p, v)) \in Nat
             /\ Cardinality(InWindow(p, v)) <= Management!LimitOf(p)
  <2>1. InWindow(p, v) \in SUBSET (DOMAIN passed[p])
    BY DEF InWindow
  <2> QED BY <1>1, <2>1, PositionSets DEF ManagementInv, CounterInv, Management!TypeOK
<1>4. ASSUME NEW i \in S
      PROVE  passed[p][i] \div Window = w \/ w = passed[p][i] \div Window + 1
  <2>1. passed[p][i] \in Nat /\ passed[p][i] <= now /\ now < passed[p][i] + Window
    BY <1>1, LenProperties, ElementOfSeq
  <2> QED BY <1>1, <2>1, NextWindow
<1>5. PICK v \in Management!Windows : S \subseteq InWindow(p, w) \union InWindow(p, v)
  <2>1. CASE w = 0
    <3>1. \A i \in S : passed[p][i] \div Window = w
      <4> TAKE i \in S
      <4>1. passed[p][i] \in Nat
        BY <1>1, LenProperties, ElementOfSeq
      <4>2. passed[p][i] \div Window \in Nat
        BY <1>1, <4>1, WindowOf
      <4> HIDE DEF w
      <4> QED BY <1>4, <2>1, <4>2
    <3> QED BY <1>2, <3>1 DEF InWindow
  <2>2. CASE w # 0
    <3>1. w - 1 \in Management!Windows
      BY <1>2, <2>2 DEF Management!Windows
    <3>2. \A i \in S : passed[p][i] \div Window = w \/ passed[p][i] \div Window = w - 1
      <4> TAKE i \in S
      <4>1. passed[p][i] \in Nat
        BY <1>1, LenProperties, ElementOfSeq
      <4>2. passed[p][i] \div Window \in Nat
        BY <1>1, <4>1, WindowOf
      <4> HIDE DEF w
      <4> QED BY <1>2, <1>4, <4>2
    <3> QED BY <3>1, <3>2 DEF InWindow
  <2> QED BY <2>1, <2>2
<1>6. IsFiniteSet(S) /\ Cardinality(S) <= Cardinality(InWindow(p, w)) + Cardinality(InWindow(p, v))
  BY <1>2, <1>3, <1>5, Covered
<1>7. Cardinality(S) \in Nat
  BY <1>6, FS_CardinalityType
<1>8. Management!Passed(p, t, now) = Cardinality(S)
  BY SameCardinality DEF Management!Passed
<1> HIDE DEF S
<1> QED BY <1>1, <1>2, <1>3, <1>6, <1>7, <1>8

(***************************************************************************)
(* Both limits: the client asks one of the services.                       *)
(***************************************************************************)

BothInv ==
    /\ service \in {"analysis", "management"}
    /\ service = "analysis" => AnalysisInv
    /\ service = "management" => ManagementInv /\ \A r \in Requests : admitted[r] = None

LEMMA InitBothInv == InitBoth => BothInv
  BY InitAnalysisInv, InitManagementInv DEF InitBoth, BothInv, Init

LEMMA NextBothInv == BothInv /\ [NextBoth]_allVars => BothInv'
<1> SUFFICES ASSUME BothInv, [NextBoth]_allVars PROVE BothInv'
  OBVIOUS
<1>1. CASE service = "analysis" /\ Next /\ UNCHANGED <<service, managementVars>>
  BY <1>1, NextAnalysisInv DEF BothInv
<1>2. CASE service = "management" /\ Management!Next /\ UNCHANGED <<service, analysisVars>>
  BY <1>2, NextManagementInv DEF BothInv, analysisVars
<1>3. CASE UNCHANGED allVars
  BY <1>3, NextAnalysisInv, NextManagementInv
     DEF allVars, analysisVars, managementVars, vars, Management!vars, BothInv
<1> QED BY <1>1, <1>2, <1>3 DEF NextBoth

LEMMA BothInvHolds == SpecBoth => []BothInv
  BY InitBothInv, NextBothInv, PTL DEF SpecBoth

(* No count of either service goes over its limit, whatever the client's   *)
(* timing, and Redis never forgets a count while its minute runs.          *)
THEOREM CountsWithinLimits == SpecBoth => []CountersTypeOK
<1>1. BothInv => CountersTypeOK
  BY DEF BothInv, AnalysisInv, ManagementInv, CountersTypeOK
<1> QED BY <1>1, BothInvHolds, PTL

(* data-analysis: a minute sees twice the limit pass, at most.             *)
THEOREM AnalysisBurstIsLimited == SpecBoth => []BurstLimit
<1>1. BothInv => BurstLimit
  <2>1. ASSUME \A r \in Requests : admitted[r] = None PROVE BurstLimit
    <3>1. \A t \in Times : AdmittedIn(t, t + Minute) = {}
      BY <2>1 DEF AdmittedIn
    <3>2. Cardinality({}) = 0
      BY FS_EmptySet
    <3> QED BY <3>1, <3>2, LimitAssumption DEF BurstLimit
  <2> QED BY <2>1 DEF BothInv, AnalysisInv
<1> QED BY <1>1, BothInvHolds, PTL

(* data-management: the counters of two windows meet in as many seconds.   *)
THEOREM ManagementBurstIsLimited == SpecBoth => []ManagementBurstLimit
<1>1. BothInv => ManagementBurstLimit
  BY CountersBound DEF BothInv, ManagementBurstLimit
<1> QED BY <1>1, BothInvHolds, PTL
===============================================================================
