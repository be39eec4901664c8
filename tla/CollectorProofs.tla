---------------------------- MODULE CollectorProofs ----------------------------
(***************************************************************************)
(* Proofs about the Solana collector: about a collection (Collection), for *)
(* any page and batch size, any limits and any growth of the chain, and    *)
(* about the calls of its batches (RpcFailover), for any number of calls,  *)
(* of endpoints, of slots and of retries.                                  *)
(***************************************************************************)
EXTENDS Collection, RpcFailover, SequenceTheorems, FiniteSetTheorems, TLAPS

(* While paging for the latest signatures the cursor is the last of them.  *)
CursorInv ==
    /\ pc = "supply" => signatures = <<>>
    /\ pc \in {"supply", "paging"} => index = 0
    /\ mode = "latest" /\ pc = "paging" /\ signatures # <<>> =>
           cursor = signatures[Len(signatures)]

CollectionInv == CollectionTypeOK /\ CursorInv /\ LatestIsContiguous

(* A page holds consecutive signatures, newest first.                      *)
LEMMA NewestProperties ==
    ASSUME NEW lo \in Nat \ {0}, NEW hi \in 0..chain, chain \in Nat
    PROVE  /\ Newest(lo, hi) \in Seq(1..chain)
           /\ \A i \in 1..Len(Newest(lo, hi)) : Newest(lo, hi)[i] = hi + 1 - i
           /\ Len(Newest(lo, hi)) = IF hi < lo THEN 0 ELSE Least(PageSize, hi + 1 - lo)
<1> DEFINE n == IF hi < lo THEN 0 ELSE Least(PageSize, hi + 1 - lo)
<1>1. n \in Nat /\ n <= hi
  BY SizesAssumption DEF Least
<1>2. \A i \in 1..n : hi + 1 - i \in 1..chain
  BY <1>1
<1>3. Newest(lo, hi) \in [1..n -> 1..chain]
  BY <1>2 DEF Newest
<1>4. Newest(lo, hi) \in Seq(1..chain)
  BY <1>1, <1>3, SeqDef
<1>5. Len(Newest(lo, hi)) = n
  BY <1>1, <1>3, <1>4, LenProperties
<1> QED BY <1>4, <1>5 DEF Newest

(* The reply to a page request, for either mode.                           *)
LEMMA ReplyProperties ==
    ASSUME CollectionTypeOK
    PROVE  /\ PageReply \in Seq(1..chain)
           /\ mode = "latest" =>
                  \A i \in 1..Len(PageReply) :
                      PageReply[i] = (IF cursor = 0 THEN chain ELSE cursor - 1) + 1 - i
<1>1. chain \in Nat /\ cursor \in 0..chain
  BY SizesAssumption DEF CollectionTypeOK
<1> DEFINE top == IF cursor = 0 THEN chain ELSE cursor - 1
<1>2. top \in 0..chain /\ chain \in 0..chain /\ 1 \in Nat \ {0} /\ cursor + 1 \in Nat \ {0}
  BY <1>1
<1>3. CASE mode = "latest"
  <2>1. PageReply = Newest(1, top)
    BY <1>3 DEF PageReply
  <2> QED BY <1>1, <1>2, <2>1, NewestProperties
<1>4. CASE mode # "latest"
  <2>1. PageReply = Newest(cursor + 1, chain)
    BY <1>4 DEF PageReply
  <2> QED BY <1>1, <1>2, <1>4, <2>1, NewestProperties
<1> QED BY <1>3, <1>4

LEMMA InitCollectionInv == InitCollection => CollectionInv
<1> SUFFICES ASSUME InitCollection PROVE CollectionInv
  OBVIOUS
<1>1. <<>> \in Seq(1..chain) /\ Len(<<>>) = 0
  BY EmptySeq
<1>2. CollectionTypeOK
  <2>1. chain \in 0..MaxChain /\ 0 \in 0..chain /\ limit \in Nat \ {0} /\ limit \in Limits
    BY LimitsAssumption, SizesAssumption DEF InitCollection
  <2>2. 0 \in 0..Len(<<>>) /\ Len(<<>>) <= limit /\ 0 \in 0..0
    BY <1>1, <2>1
  <2> QED BY <1>1, <2>1, <2>2 DEF InitCollection, CollectionTypeOK
<1>3. CursorInv /\ LatestIsContiguous
  BY <1>1 DEF InitCollection, CursorInv, LatestIsContiguous
<1> QED BY <1>2, <1>3 DEF CollectionInv

(* A page extends the signatures; the cut at the limit leaves a prefix.    *)
LEMMA PageCollectionInv == CollectionInv /\ Page => CollectionInv'
<1> SUFFICES ASSUME CollectionInv, Page PROVE CollectionInv'
  OBVIOUS
<1> DEFINE all == signatures \o PageReply
           n == Least(limit, Len(all))
<1>1. /\ pc = "paging" /\ PageReply # <<>>
      /\ signatures' = SubSeq(all, 1, n)
      /\ pc' = IF Len(all) >= limit \/ Len(PageReply) < PageSize THEN "fetching" ELSE "paging"
      /\ cursor' = PageReply[Len(PageReply)]
      /\ UNCHANGED <<chain, mode, limit, force, lost, index, fetched>>
  BY DEF Page, request
<1>2. /\ signatures \in Seq(1..chain) /\ PageReply \in Seq(1..chain)
      /\ Len(signatures) \in Nat /\ Len(PageReply) \in Nat \ {0}
      /\ limit \in Nat \ {0} /\ Len(signatures) <= limit
      /\ chain \in Nat
  BY <1>1, ReplyProperties, LenProperties, EmptySeq, LimitsAssumption
     DEF CollectionInv, CollectionTypeOK
<1>3. /\ all \in Seq(1..chain) /\ Len(all) = Len(signatures) + Len(PageReply)
      /\ \A i \in 1..Len(all) :
             all[i] = IF i <= Len(signatures) THEN signatures[i] ELSE PageReply[i - Len(signatures)]
  BY <1>2, ConcatProperties
<1>4. n \in 1..Len(all) /\ n <= limit
  BY <1>2, <1>3 DEF Least
<1>5. \A i \in 1..n : all[i] \in 1..chain
  <2> TAKE i \in 1..n
  <2>1. i \in 1..Len(all)
    BY <1>2, <1>3, <1>4
  <2> QED BY <1>3, <2>1, ElementOfSeq
<1>6. /\ signatures' \in Seq(1..chain) /\ Len(signatures') = n
      /\ \A i \in 1..n : signatures'[i] = all[i]
  BY <1>1, <1>4, <1>5, SubSeqProperties
<1>7. cursor' \in 1..chain
  BY <1>1, <1>2, ElementOfSeq
<1>8. index = 0
  BY <1>1 DEF CollectionInv, CursorInv
<1>9. CollectionTypeOK'
  BY <1>1, <1>2, <1>4, <1>6, <1>7, <1>8 DEF CollectionInv, CollectionTypeOK, Ended
<1>10. LatestIsContiguous'
  <2> SUFFICES ASSUME mode = "latest", NEW i \in 1..n, i > 1
               PROVE  all[i] = all[i - 1] - 1
    BY <1>1, <1>4, <1>6 DEF LatestIsContiguous
  <2>1. i \in 1..Len(all) /\ i - 1 \in 1..Len(all)
    BY <1>3, <1>4
  <2>2. CASE i <= Len(signatures)
    BY <1>2, <1>3, <2>1, <2>2 DEF CollectionInv, LatestIsContiguous
  <2>3. CASE i = Len(signatures) + 1
    <3>1. signatures # <<>> /\ cursor = signatures[Len(signatures)] /\ cursor \in 1..chain
      BY <1>1, <1>2, <2>3, EmptySeq, ElementOfSeq DEF CollectionInv, CursorInv
    <3>2. all[i] = PageReply[1] /\ all[i - 1] = cursor
      BY <1>2, <1>3, <2>1, <2>3, <3>1
    <3>3. PageReply[1] = (IF cursor = 0 THEN chain ELSE cursor - 1) + 1 - 1
      <4>1. 1 \in 1..Len(PageReply)
        BY <1>2
      <4> QED BY <4>1, ReplyProperties DEF CollectionInv
    <3>4. PageReply[1] = cursor - 1
      BY <1>2, <3>1, <3>3
    <3> QED BY <3>2, <3>4
  <2>4. CASE i > Len(signatures) + 1
    <3> DEFINE j == i - Len(signatures)
    <3>1. j \in 1..Len(PageReply) /\ j - 1 \in 1..Len(PageReply)
      BY <1>2, <1>3, <2>1, <2>4
    <3>2. all[i] = PageReply[j] /\ all[i - 1] = PageReply[j - 1]
      BY <1>2, <1>3, <2>1, <2>4
    <3> DEFINE top == IF cursor = 0 THEN chain ELSE cursor - 1
    <3>3. PageReply[j] = top + 1 - j /\ PageReply[j - 1] = top + 1 - (j - 1)
      BY <3>1, ReplyProperties DEF CollectionInv
    <3>4. top \in Nat /\ j \in Nat
      BY <1>2, <2>1, <2>4 DEF CollectionInv, CollectionTypeOK
    <3> QED BY <3>2, <3>3, <3>4
  <2> QED BY <1>2, <2>1, <2>2, <2>3, <2>4
<1>11. CursorInv'
  <2>1. pc' = "paging" => n = Len(all)
    BY <1>1, <1>2, <1>3 DEF Least
  <2>2. Len(all) \in 1..Len(all) /\ all[Len(all)] = PageReply[Len(PageReply)]
    BY <1>2, <1>3
  <2> QED BY <1>1, <1>4, <1>6, <1>8, <2>1, <2>2 DEF CursorInv
<1> QED BY <1>9, <1>10, <1>11 DEF CollectionInv

LEMMA NextCollectionInv == CollectionInv /\ [NextCollection]_collectionVars => CollectionInv'
<1> SUFFICES ASSUME CollectionInv, [NextCollection]_collectionVars PROVE CollectionInv'
  OBVIOUS
<1>1. /\ Len(signatures) \in Nat /\ chain \in Nat /\ limit \in Nat \ {0}
      /\ signatures \in Seq(1..chain)
  BY LenProperties, SizesAssumption, LimitsAssumption DEF CollectionInv, CollectionTypeOK
<1>2. CASE Grow
  <2>1. chain' = chain + 1 /\ chain < MaxChain
        /\ UNCHANGED <<mode, limit, force, pc, cursor, signatures, lost, index, fetched>>
    BY <1>2 DEF Grow, request
  <2>2. 1..chain \subseteq 1..chain' /\ chain' \in 0..MaxChain /\ cursor \in 0..chain'
    BY <1>1, <2>1, SizesAssumption DEF CollectionInv, CollectionTypeOK
  <2>3. signatures' \in Seq(1..chain')
    BY <1>1, <2>1, <2>2, SeqMonotonic
  <2> QED BY <2>1, <2>2, <2>3 DEF CollectionInv, CollectionTypeOK, CursorInv,
                 LatestIsContiguous
<1>3. CASE Supply
  <2>1. signatures' = signatures /\ UNCHANGED <<chain, mode, limit, force, cursor, lost, index, fetched>>
        /\ pc = "supply" /\ pc' \in {"paging", "raised"}
    BY <1>3 DEF Supply, request
  <2>2. signatures = <<>> /\ index = 0
    BY <2>1 DEF CollectionInv, CursorInv
  <2> QED BY <2>1, <2>2 DEF CollectionInv, CollectionTypeOK, CursorInv, LatestIsContiguous, Ended
<1>4. CASE Page
  BY <1>4, PageCollectionInv
<1>5. CASE EmptyPage \/ PageLost
  BY <1>5 DEF EmptyPage, PageLost, request, CollectionInv, CollectionTypeOK, CursorInv,
         LatestIsContiguous
<1>6. CASE NoSignatures
  BY <1>6 DEF NoSignatures, request, CollectionInv, CollectionTypeOK, CursorInv,
         LatestIsContiguous, Ended
<1>7. CASE FetchBatch
  <2> DEFINE size == Least(BatchSize, Len(signatures) - index)
  <2>1. PICK m \in 0..size : fetched' = fetched + m /\ index' = index + size
    BY <1>7 DEF FetchBatch
  <2>2. index < Len(signatures) /\ pc = "fetching"
        /\ UNCHANGED <<chain, mode, limit, force, pc, cursor, signatures, lost>>
    BY <1>7 DEF FetchBatch, request
  <2>3. size \in Nat /\ index + size <= Len(signatures)
    BY <1>1, <2>2, SizesAssumption DEF Least, CollectionInv, CollectionTypeOK
  <2>4. index' \in 0..Len(signatures) /\ fetched' \in 0..index'
    BY <1>1, <2>1, <2>3 DEF CollectionInv, CollectionTypeOK
  <2> QED BY <2>2, <2>4 DEF CollectionInv, CollectionTypeOK, CursorInv, LatestIsContiguous
<1>8. CASE Verdict
  BY <1>8 DEF Verdict, Valid, request, CollectionInv, CollectionTypeOK, CursorInv,
         LatestIsContiguous, Ended
<1>9. CASE UNCHANGED collectionVars
  BY <1>9 DEF collectionVars, CollectionInv, CollectionTypeOK, CursorInv, LatestIsContiguous
<1> QED BY <1>2, <1>3, <1>4, <1>5, <1>6, <1>7, <1>8, <1>9 DEF NextCollection, Collect

(* The types, the limit among them.                                        *)
THEOREM CollectionTypeCorrect == CollectionSpec => []CollectionTypeOK
<1>1. CollectionInv => CollectionTypeOK
  BY DEF CollectionInv
<1> QED BY <1>1, InitCollectionInv, NextCollectionInv, PTL DEF CollectionSpec

(* The signatures of mode "latest" have no gap and no repetition, across   *)
(* any number of pages and while the chain grows.                          *)
THEOREM LatestHasNoGaps == CollectionSpec => []LatestIsContiguous
<1>1. CollectionInv => LatestIsContiguous
  BY DEF CollectionInv
<1> QED BY <1>1, InitCollectionInv, NextCollectionInv, PTL DEF CollectionSpec

(* The cursor is 0 only before the first page, and pages go back as far as *)
(* they are full.                                                          *)
BackInv == (signatures = <<>> => cursor = 0) /\ LatestReachesBack

(* A page that is not full has all that is below the cursor.               *)
LEMMA LastPage ==
    ASSUME CollectionTypeOK, mode = "latest", Len(PageReply) < PageSize
    PROVE  Len(PageReply) = IF cursor = 0 THEN chain ELSE cursor - 1
<1> DEFINE top == IF cursor = 0 THEN chain ELSE cursor - 1
<1>1. top \in 0..chain /\ chain \in Nat /\ 1 \in Nat \ {0}
  BY SizesAssumption DEF CollectionTypeOK
<1>2. PageReply = Newest(1, top)
  BY DEF PageReply
<1>3. Len(PageReply) = IF top < 1 THEN 0 ELSE Least(PageSize, top + 1 - 1)
  BY <1>1, <1>2, NewestProperties
<1> QED BY <1>1, <1>3, SizesAssumption DEF Least

LEMMA PageBackInv == CollectionInv /\ BackInv /\ Page => BackInv'
<1> SUFFICES ASSUME CollectionInv, BackInv, Page PROVE BackInv'
  OBVIOUS
<1> DEFINE all == signatures \o PageReply
           n == Least(limit, Len(all))
<1>1. /\ pc = "paging" /\ PageReply # <<>>
      /\ signatures' = SubSeq(all, 1, n)
      /\ pc' = IF Len(all) >= limit \/ Len(PageReply) < PageSize THEN "fetching" ELSE "paging"
      /\ mode' = mode /\ limit' = limit
  BY DEF Page, request
<1>2. /\ signatures \in Seq(1..chain) /\ PageReply \in Seq(1..chain)
      /\ Len(signatures) \in Nat /\ Len(PageReply) \in Nat \ {0}
      /\ limit \in Nat \ {0}
  BY <1>1, ReplyProperties, LenProperties, EmptySeq, LimitsAssumption
     DEF CollectionInv, CollectionTypeOK
<1>3. /\ all \in Seq(1..chain) /\ Len(all) = Len(signatures) + Len(PageReply)
      /\ all[Len(all)] = PageReply[Len(PageReply)]
  BY <1>2, ConcatProperties
<1>4. n \in 1..Len(all) /\ n \in Int /\ 1 \in Int
  BY <1>2, <1>3 DEF Least
<1>5. \A i \in 1..n : all[i] \in 1..chain
  <2> TAKE i \in 1..n
  <2>1. i \in 1..Len(all)
    BY <1>2, <1>3, <1>4
  <2> QED BY <1>3, <2>1, ElementOfSeq
<1>6. /\ Len(signatures') = n
      /\ \A i \in 1..n : signatures'[i] = all[i]
  BY <1>1, <1>4, <1>5, SubSeqProperties
<1>7. signatures' # <<>>
  BY <1>4, <1>6, EmptySeq
<1>8. ASSUME mode = "latest", pc' = "fetching"
      PROVE  Len(signatures') = limit \/ signatures'[Len(signatures')] = 1
  <2>1. CASE Len(all) >= limit
    BY <1>2, <1>3, <1>6, <2>1 DEF Least
  <2>2. CASE Len(all) < limit
    <3>1. n = Len(all) /\ Len(PageReply) < PageSize
      BY <1>1, <1>2, <1>3, <1>8, <2>2 DEF Least
    <3> DEFINE top == IF cursor = 0 THEN chain ELSE cursor - 1
    <3>2. Len(PageReply) = top
      BY <1>8, <3>1, LastPage DEF CollectionInv
    <3>3. Len(PageReply) \in 1..Len(PageReply)
      BY <1>2
    <3>4. PageReply[Len(PageReply)] = top + 1 - Len(PageReply)
      BY <1>8, <3>3, ReplyProperties DEF CollectionInv
    <3>5. PageReply[Len(PageReply)] = 1
      BY <1>2, <3>2, <3>4
    <3> QED BY <1>3, <1>4, <1>6, <3>1, <3>5
  <2> QED BY <1>2, <1>3, <2>1, <2>2
<1> QED BY <1>1, <1>7, <1>8 DEF BackInv, LatestReachesBack

LEMMA NextBackInv == CollectionInv /\ BackInv /\ [NextCollection]_collectionVars => BackInv'
<1> SUFFICES ASSUME CollectionInv, BackInv, [NextCollection]_collectionVars PROVE BackInv'
  OBVIOUS
<1> USE DEF BackInv, LatestReachesBack, request
<1>1. CASE Grow \/ Supply \/ PageLost
  BY <1>1 DEF Grow, Supply, PageLost
<1>2. CASE Page
  BY <1>2, PageBackInv
<1>3. CASE EmptyPage
  <2> SUFFICES ASSUME mode = "latest"
               PROVE  \/ signatures = <<>> /\ cursor = 0
                      \/ signatures # <<>> /\ signatures[Len(signatures)] = 1
    BY <1>3 DEF EmptyPage
  <2>1. PageReply = <<>> /\ Len(<<>>) = 0 /\ pc = "paging" /\ 0 < PageSize
    BY <1>3, EmptySeq, SizesAssumption DEF EmptyPage
  <2>2. 0 = IF cursor = 0 THEN chain ELSE cursor - 1
    BY <2>1, LastPage DEF CollectionInv
  <2>3. chain \in Nat /\ cursor \in 0..chain /\ signatures \in Seq(1..chain)
    BY SizesAssumption DEF CollectionInv, CollectionTypeOK
  <2>4. signatures # <<>> => cursor = signatures[Len(signatures)]
    BY <2>1 DEF CollectionInv, CursorInv
  <2>5. signatures # <<>> => signatures[Len(signatures)] \in 1..chain
    BY <2>3, EmptySeq, ElementOfSeq
  <2> QED BY <2>2, <2>3, <2>4, <2>5
<1>4. CASE NoSignatures \/ Verdict
  BY <1>4 DEF NoSignatures, Verdict
<1>5. CASE FetchBatch \/ UNCHANGED collectionVars
  BY <1>5 DEF FetchBatch, collectionVars
<1> QED BY <1>1, <1>2, <1>3, <1>4, <1>5 DEF NextCollection, Collect

(* If no page was lost, the latest signatures go back to the limit or to   *)
(* the token's first one, however the pages divide them.                   *)
THEOREM LatestGoesBack == CollectionSpec => []LatestReachesBack
<1>1. InitCollection => BackInv
  BY DEF InitCollection, BackInv, LatestReachesBack
<1>2. BackInv => LatestReachesBack
  BY DEF BackInv
<1> QED BY <1>1, <1>2, InitCollectionInv, NextCollectionInv, NextBackInv, PTL DEF CollectionSpec

--------------------------------------------------------------------------------
(***************************************************************************)
(* The calls of one batch.                                                 *)
(***************************************************************************)

(* What a call knows while it is under way: the endpoint it chose, and     *)
(* that a call which sleeps has an attempt left.                           *)
CallInv ==
    \A c \in Calls :
        /\ call[c].at \in {"waiting", "posting"} => call[c].endpoint \in Endpoints
        /\ call[c].at = "sleeping" => call[c].attempt < Retries

IInv == TypeOK /\ CallInv /\ BlameIsBounded

CallStates ==
    [at : {"starting", "waiting", "posting", "sleeping", "result", "none"},
     endpoint : Endpoints \union {None}, attempt : 0..Retries]

(* The sets that are counted are finite, and no larger than Calls.         *)
LEMMA Counts ==
    /\ Cardinality(Calls) \in Nat
    /\ IsFiniteSet(Holders) /\ Cardinality(Holders) \in Nat
    /\ \A e : /\ IsFiniteSet(Pending(e))
              /\ Cardinality(Pending(e)) \in Nat
              /\ Cardinality(Pending(e)) <= Cardinality(Calls)
<1>1. Holders \in SUBSET Calls /\ \A e : Pending(e) \in SUBSET Calls
  BY DEF Holders, Pending
<1> QED BY <1>1, CallsAssumption, FS_Subset, FS_CardinalityType

LEMMA CountsNext ==
    /\ IsFiniteSet(Holders') /\ Cardinality(Holders)' \in Nat
    /\ \A e : /\ IsFiniteSet(Pending(e)')
              /\ Cardinality(Pending(e))' \in Nat
              /\ Cardinality(Pending(e))' <= Cardinality(Calls)
<1>1. Holders' \in SUBSET Calls /\ \A e : Pending(e)' \in SUBSET Calls
  BY DEF Holders, Pending
<1> QED BY <1>1, CallsAssumption, FS_Subset, FS_CardinalityType

(* How a change of one call changes the number that hold the semaphore.    *)
LEMMA HoldersChange ==
    ASSUME IInv, NEW c \in Calls, NEW v \in CallStates, call' = [call EXCEPT ![c] = v]
    PROVE  Cardinality(Holders)' =
               Cardinality(Holders)
               - (IF call[c].at \in {"posting", "sleeping"} THEN 1 ELSE 0)
               + (IF v.at \in {"posting", "sleeping"} THEN 1 ELSE 0)
<1> DEFINE hold(s) == s \in {"posting", "sleeping"}
<1>1. call \in [Calls -> CallStates]
  BY DEF IInv, TypeOK, CallStates
<1>2. CASE hold(call[c].at) /\ hold(v.at)
  <2>1. Holders' = Holders
    BY <1>1, <1>2 DEF Holders
  <2> QED BY <1>2, <2>1, Counts
<1>3. CASE ~hold(call[c].at) /\ ~hold(v.at)
  <2>1. Holders' = Holders
    BY <1>1, <1>3 DEF Holders
  <2> QED BY <1>3, <2>1, Counts
<1>4. CASE ~hold(call[c].at) /\ hold(v.at)
  <2>1. Holders' = Holders \union {c} /\ c \notin Holders
    BY <1>1, <1>4 DEF Holders
  <2>2. Cardinality(Holders \union {c}) = Cardinality(Holders) + 1
    BY <2>1, Counts, FS_AddElement
  <2> QED BY <1>4, <2>1, <2>2, Counts
<1>5. CASE hold(call[c].at) /\ ~hold(v.at)
  <2>1. Holders' = Holders \ {c} /\ c \in Holders
    BY <1>1, <1>5 DEF Holders
  <2>2. Cardinality(Holders \ {c}) = Cardinality(Holders) - 1
    BY <2>1, Counts, FS_RemoveElement
  <2> QED BY <1>5, <2>1, <2>2, Counts
<1> QED BY <1>2, <1>3, <1>4, <1>5

(* A step that starts no call leaves the pending calls of an endpoint, or  *)
(* takes the call away from them.                                          *)
LEMMA PendingShrinks ==
    ASSUME IInv, NEW c \in Calls, NEW v \in CallStates, call' = [call EXCEPT ![c] = v],
           v.at \notin {"waiting", "posting"}
    PROVE  \A e : Cardinality(Pending(e))' =
                      Cardinality(Pending(e)) - (IF c \in Pending(e) THEN 1 ELSE 0)
<1> TAKE e
<1>1. call \in [Calls -> CallStates]
  BY DEF IInv, TypeOK, CallStates
<1>2. Pending(e)' = Pending(e) \ {c}
  BY <1>1 DEF Pending
<1>3. CASE c \in Pending(e)
  BY <1>2, <1>3, Counts, FS_RemoveElement
<1>4. CASE c \notin Pending(e)
  <2>1. Pending(e)' = Pending(e)
    BY <1>2, <1>4
  <2> QED BY <1>4, <2>1, Counts
<1> QED BY <1>3, <1>4

LEMMA InitIInv == Init => IInv
<1> SUFFICES ASSUME Init PROVE IInv
  OBVIOUS
<1>1. Holders = {} /\ \A e : Pending(e) = {}
  BY DEF Init, Over, Holders, Pending
<1>2. Cardinality(Holders) = 0 /\ \A e : Cardinality(Pending(e)) = 0
  BY <1>1, FS_EmptySet
<1>3. TypeOK
  BY <1>2, NumbersAssumption DEF Init, Over, TypeOK
<1>4. CallInv
  BY DEF Init, Over, CallInv
<1>5. BlameIsBounded
  BY <1>2, NumbersAssumption, Counts DEF Init, BlameIsBounded
<1> QED BY <1>3, <1>4, <1>5 DEF IInv

(* When a call chooses an endpoint.  v is what the semaphore has for it.   *)
LEMMA ChooseIInv ==
    ASSUME IInv, NEW c \in Calls, NEW n \in 0..Retries, NEW v \in 0..Slots,
           call[c].at \in {"starting", "sleeping"},
           v = free + (IF call[c].at = "sleeping" THEN 1 ELSE 0),
           Choose(c, n, v)
    PROVE  IInv'
<1> DEFINE at == IF v > 0 /\ Waiting = {} THEN "posting" ELSE "waiting"
           choices == IF Available = {} THEN Endpoints ELSE Available
<1>1. PICK e \in choices : call' = [call EXCEPT ![c] = [at |-> at, endpoint |-> e, attempt |-> n]]
  BY DEF Choose
<1>2. e \in Endpoints /\ at \in {"posting", "waiting"}
  BY EndpointsAssumption DEF Available
<1> DEFINE w == [at |-> at, endpoint |-> e, attempt |-> n]
<1>3. w \in CallStates /\ w.at = at /\ w.endpoint = e
  BY <1>2 DEF CallStates
<1>4. call' = [call EXCEPT ![c] = w]
  BY <1>1
<1>5. call \in [Calls -> CallStates] /\ failed \in [Endpoints -> Nat]
  BY DEF IInv, TypeOK, CallStates
<1>6. free' = IF at = "posting" THEN v - 1 ELSE v
  BY DEF Choose
<1>7. failed' = IF Available = {} THEN [x \in Endpoints |-> 0] ELSE failed
  BY DEF Choose
<1> HIDE DEF w
<1>8. Cardinality(Holders)' =
          Cardinality(Holders) - (IF call[c].at \in {"posting", "sleeping"} THEN 1 ELSE 0)
                               + (IF at \in {"posting", "sleeping"} THEN 1 ELSE 0)
  BY <1>3, <1>4, HoldersChange
<1>9. free + Cardinality(Holders) = Slots /\ free \in 0..Slots
  BY DEF IInv, TypeOK
<1>10. at = "posting" => v > 0
  OBVIOUS
<1>11. free' + Cardinality(Holders)' = Slots /\ free' \in 0..Slots
  <2> HIDE DEF at
  <2>1. CASE call[c].at = "sleeping"
    BY <1>2, <1>6, <1>8, <1>9, <1>10, <2>1, NumbersAssumption, Counts
  <2>2. CASE call[c].at = "starting"
    BY <1>2, <1>6, <1>8, <1>9, <1>10, <2>2, NumbersAssumption, Counts
  <2> QED BY <2>1, <2>2
<1> HIDE DEF at
<1>12. TypeOK'
  <2>1. failed' \in [Endpoints -> Nat]
    BY <1>5, <1>7
  <2>2. call' \in [Calls -> CallStates]
    BY <1>3, <1>4, <1>5
  <2>3. healthy' = healthy
    BY DEF Choose
  <2> QED BY <1>11, <2>1, <2>2, <2>3 DEF IInv, TypeOK, CallStates
<1>13. CallInv'
  BY <1>2, <1>3, <1>4, <1>5 DEF IInv, CallInv
<1>14. BlameIsBounded'
  <2> SUFFICES ASSUME NEW x \in Endpoints
               PROVE  failed'[x] + Cardinality(Pending(x))' <= MaxFailures - 1 + Cardinality(Calls)
    BY DEF BlameIsBounded
  <2>1. Cardinality(Pending(x))' \in Nat /\ Cardinality(Pending(x))' <= Cardinality(Calls)
    BY CountsNext
  <2>2. failed[x] \in Nat /\ Cardinality(Calls) \in Nat
    BY <1>5, Counts
  <2>3. CASE Available = {}
    <3>1. failed'[x] = 0
      BY <1>7, <2>3
    <3> QED BY <2>1, <2>2, <3>1, NumbersAssumption
  <2>4. CASE Available # {} /\ x = e
    <3>1. failed'[x] = failed[x] /\ failed[x] < MaxFailures
      BY <1>7, <2>4 DEF Available
    <3> QED BY <2>1, <2>2, <3>1, NumbersAssumption
  <2>5. CASE Available # {} /\ x # e
    <3>1. failed'[x] = failed[x]
      BY <1>7, <2>5
    <3>2. Pending(x)' = Pending(x)
      BY <1>3, <1>4, <1>5, <2>5 DEF Pending
    <3>3. failed[x] + Cardinality(Pending(x)) <= MaxFailures - 1 + Cardinality(Calls)
      BY DEF IInv, BlameIsBounded
    <3> QED BY <3>1, <3>2, <3>3
  <2> QED BY <2>3, <2>4, <2>5
<1> QED BY <1>12, <1>13, <1>14 DEF IInv

(* No call is under way: nothing is pending and the semaphore is full.     *)
LEMMA RestIInv ==
    ASSUME IInv, call' \in [Calls -> CallStates],
           \A c \in Calls : call'[c].at \in {"starting", "result", "none"},
           free' = Slots, failed' = failed, healthy' = healthy
    PROVE  IInv'
<1>1. Holders' = {} /\ \A e : Pending(e)' = {}
  BY DEF Holders, Pending
<1>2. Cardinality(Holders)' = 0 /\ \A e : Cardinality(Pending(e))' = 0
  BY <1>1, FS_EmptySet
<1>3. TypeOK'
  BY <1>2, NumbersAssumption DEF IInv, TypeOK, CallStates
<1>4. CallInv'
  BY DEF CallInv
<1>5. BlameIsBounded'
  <2> SUFFICES ASSUME NEW e \in Endpoints
               PROVE  failed'[e] + Cardinality(Pending(e))' <= MaxFailures - 1 + Cardinality(Calls)
    BY DEF BlameIsBounded
  <2>1. failed[e] + Cardinality(Pending(e)) <= MaxFailures - 1 + Cardinality(Calls)
    BY DEF IInv, BlameIsBounded
  <2>2. failed[e] \in Nat
    BY DEF IInv, TypeOK
  <2> QED BY <1>2, <2>1, <2>2, Counts, NumbersAssumption
<1> QED BY <1>3, <1>4, <1>5 DEF IInv

LEMMA AcquireIInv ==
    ASSUME IInv, NEW c \in Calls, Acquire(c)
    PROVE  IInv'
<1>1. call \in [Calls -> CallStates]
  BY DEF IInv, TypeOK, CallStates
<1> DEFINE v == [call[c] EXCEPT !.at = "posting"]
<1>2. v \in CallStates /\ v.at = "posting" /\ v.endpoint = call[c].endpoint
  BY <1>1 DEF CallStates
<1>3. call' = [call EXCEPT ![c] = v] /\ call[c].at = "waiting"
  BY <1>1 DEF Acquire
<1> HIDE DEF v
<1>4. Cardinality(Holders)' = Cardinality(Holders) + 1
  <2>1. Cardinality(Holders)' =
            Cardinality(Holders)
            - (IF call[c].at \in {"posting", "sleeping"} THEN 1 ELSE 0)
            + (IF v.at \in {"posting", "sleeping"} THEN 1 ELSE 0)
    BY <1>2, <1>3, HoldersChange
  <2> QED BY <1>2, <1>3, <2>1, Counts
<1>5. TypeOK'
  <2>1. call' \in [Calls -> CallStates]
    BY <1>1, <1>2, <1>3
  <2> QED BY <1>4, <2>1, Counts, NumbersAssumption DEF IInv, TypeOK, Acquire, CallStates
<1>6. CallInv'
  BY <1>1, <1>2, <1>3 DEF IInv, CallInv
<1>7. \A e : Pending(e)' = Pending(e)
  BY <1>1, <1>2, <1>3 DEF Pending
<1>8. BlameIsBounded'
  BY <1>7 DEF IInv, BlameIsBounded, Acquire
<1> QED BY <1>5, <1>6, <1>8 DEF IInv

(* A call that reports: with a result, or an error of its endpoint.        *)
LEMMA ReportIInv ==
    ASSUME IInv, NEW c \in Calls, Answer(c) \/ Error(c)
    PROVE  IInv'
<1>1. call \in [Calls -> CallStates] /\ failed \in [Endpoints -> Nat] /\ call[c].at = "posting"
  BY DEF IInv, TypeOK, CallStates, Answer, Error
<1>2. call[c].endpoint \in Endpoints /\ c \in Pending(call[c].endpoint)
  BY <1>1 DEF IInv, CallInv, Pending
<1>3. PICK v \in CallStates :
          /\ call' = [call EXCEPT ![c] = v]
          /\ v.at \in {"sleeping", "result", "none"}
          /\ v.at = "sleeping" => v.attempt < Retries
          /\ free' = free + (IF v.at = "sleeping" THEN 0 ELSE 1)
  <2>1. free \in Nat /\ Retries \in Nat
    BY NumbersAssumption DEF IInv, TypeOK
  <2>2. CASE Answer(c)
    <3>1. [Over EXCEPT !.at = "result"] \in CallStates
      BY NumbersAssumption DEF Over, CallStates
    <3> QED BY <2>1, <2>2, <3>1 DEF Answer, Over
  <2>3. CASE Error(c) /\ call[c].attempt < Retries /\ call' = [call EXCEPT ![c].at = "sleeping"] /\ free' = free
    <3> DEFINE v == [call[c] EXCEPT !.at = "sleeping"]
    <3>1. v \in CallStates /\ v.at = "sleeping" /\ v.attempt < Retries
      BY <1>1, <2>3 DEF CallStates
    <3>2. call' = [call EXCEPT ![c] = v]
      BY <1>1, <2>3
    <3> HIDE DEF v
    <3>3. free' = free + (IF v.at = "sleeping" THEN 0 ELSE 1)
      BY <2>1, <2>3, <3>1
    <3> USE <3>1
    <3> WITNESS v \in CallStates
    <3> QED BY <3>2, <3>3
  <2>4. CASE Error(c) /\ call' = [call EXCEPT ![c] = Over] /\ free' = free + 1
    <3>1. Over \in CallStates
      BY NumbersAssumption DEF Over, CallStates
    <3> QED BY <2>1, <2>4, <3>1 DEF Over
  <2> QED BY <2>2, <2>3, <2>4 DEF Error
<1>4. Cardinality(Holders)' = Cardinality(Holders) - 1 + (IF v.at = "sleeping" THEN 1 ELSE 0)
  BY <1>1, <1>3, HoldersChange, Counts
<1>5. \A e : Cardinality(Pending(e))' = Cardinality(Pending(e)) - (IF c \in Pending(e) THEN 1 ELSE 0)
  BY <1>3, PendingShrinks
<1>6. \/ failed' = failed
      \/ failed' = [failed EXCEPT ![call[c].endpoint] = @ + 1]
  BY DEF Answer, Error
<1>7. TypeOK'
  <2>1. call' \in [Calls -> CallStates]
    BY <1>1, <1>3
  <2>2. failed' \in [Endpoints -> Nat]
    BY <1>1, <1>2, <1>6
  <2>3. c \in Holders /\ Cardinality(Holders \ {c}) = Cardinality(Holders) - 1
        /\ Cardinality(Holders \ {c}) \in Nat
    <3>1. c \in Holders
      BY <1>1 DEF Holders
    <3>2. IsFiniteSet(Holders \ {c})
      BY Counts, FS_RemoveElement
    <3> QED BY <3>1, <3>2, Counts, FS_RemoveElement, FS_CardinalityType
  <2>4. free' + Cardinality(Holders)' = Slots /\ free' \in 0..Slots
    BY <1>3, <1>4, <2>3, Counts, NumbersAssumption DEF IInv, TypeOK
  <2>5. healthy' = healthy
    BY DEF Answer, Error
  <2> QED BY <2>1, <2>2, <2>4, <2>5 DEF IInv, TypeOK, CallStates
<1>8. CallInv'
  BY <1>1, <1>3 DEF IInv, CallInv
<1>9. BlameIsBounded'
  <2> SUFFICES ASSUME NEW e \in Endpoints
               PROVE  failed'[e] + Cardinality(Pending(e))' <= MaxFailures - 1 + Cardinality(Calls)
    BY DEF BlameIsBounded
  <2>1. failed[e] + Cardinality(Pending(e)) <= MaxFailures - 1 + Cardinality(Calls)
    BY DEF IInv, BlameIsBounded
  <2>2. failed[e] \in Nat /\ Cardinality(Pending(e)) \in Nat /\ Cardinality(Calls) \in Nat
    BY <1>1, Counts
  <2>3. CASE e = call[c].endpoint
    <3>1. failed'[e] = failed[e] \/ failed'[e] = failed[e] + 1
      BY <1>1, <1>6, <2>3
    <3>2. Cardinality(Pending(e))' = Cardinality(Pending(e)) - 1
      BY <1>2, <1>5, <2>3
    <3> QED BY <2>1, <2>2, <3>1, <3>2, NumbersAssumption
  <2>4. CASE e # call[c].endpoint
    <3>1. failed'[e] = failed[e] /\ c \notin Pending(e)
      BY <1>1, <1>6, <2>4 DEF Pending
    <3>2. Cardinality(Pending(e))' = Cardinality(Pending(e))
      BY <1>5, <2>2, <3>1
    <3> QED BY <2>1, <3>1, <3>2
  <2> QED BY <2>3, <2>4
<1> QED BY <1>7, <1>8, <1>9 DEF IInv

LEMMA NextIInv == IInv /\ [Next]_vars => IInv'
<1> SUFFICES ASSUME IInv, [Next]_vars PROVE IInv'
  OBVIOUS
<1>1. CASE Gather
  <2>1. call' \in [Calls -> CallStates] /\ \A c \in Calls : call'[c].at \in {"starting", "none"}
    BY <1>1, NumbersAssumption DEF Gather, Over, CallStates
  <2>2. Holders = {}
    BY <1>1 DEF Gather, Holders
  <2>3. free = Slots
    BY <2>2, FS_EmptySet, NumbersAssumption DEF IInv, TypeOK
  <2> QED BY <1>1, <2>1, <2>3, RestIInv DEF Gather
<1>2. CASE AllBegan /\ Timeout
  <2>1. call' \in [Calls -> CallStates] /\ \A c \in Calls : call'[c].at = "none"
    BY <1>2, NumbersAssumption DEF Timeout, Over, CallStates
  <2> QED BY <1>2, <2>1, RestIInv DEF Timeout
<1>3. ASSUME NEW c \in Calls, Begin(c)
      PROVE  IInv'
  <2>1. 0 \in 0..Retries /\ free \in 0..Slots /\ free = free + 0
    BY NumbersAssumption DEF IInv, TypeOK
  <2>2. call[c].at = "starting" /\ Choose(c, 0, free)
    BY <1>3 DEF Begin
  <2> QED BY <2>1, <2>2, ChooseIInv
<1>4. ASSUME NEW c \in Calls, Retry(c)
      PROVE  IInv'
  <2>1. call[c].at = "sleeping" /\ Choose(c, call[c].attempt + 1, free + 1)
    BY <1>4 DEF Retry
  <2>2. call[c].attempt + 1 \in 0..Retries
    BY <2>1, NumbersAssumption DEF IInv, TypeOK, CallInv
  <2>3. c \in Holders
    BY <2>1 DEF Holders
  <2>4. Cardinality(Holders) # 0
    BY <2>3, Counts, FS_EmptySet
  <2>5. free + 1 \in 0..Slots
    BY <2>4, Counts, NumbersAssumption DEF IInv, TypeOK
  <2> QED BY <2>1, <2>2, <2>5, ChooseIInv
<1>5. ASSUME NEW c \in Calls, Acquire(c) \/ Answer(c) \/ Error(c)
      PROVE  IInv'
  BY <1>5, AcquireIInv, ReportIInv
<1>6. CASE UNCHANGED vars
  BY <1>6 DEF vars, IInv, TypeOK, CallInv, BlameIsBounded, Holders, Pending
<1> QED BY <1>1, <1>2, <1>3, <1>4, <1>5, <1>6 DEF Next, Step

(* The semaphore is accounted for whatever the calls and the timeouts do.  *)
THEOREM SemaphoreIsAccountedFor == Spec => []TypeOK
<1>1. IInv => TypeOK
  BY DEF IInv
<1> QED BY <1>1, InitIInv, NextIInv, PTL DEF Spec

(* However many calls a batch has, an endpoint is blamed for no more       *)
(* failures than the limit and one for each call.                          *)
THEOREM BlameStaysBounded == Spec => []BlameIsBounded
<1>1. IInv => BlameIsBounded
  BY DEF IInv
<1> QED BY <1>1, InitIInv, NextIInv, PTL DEF Spec

(* An endpoint that answers is never blamed.                               *)
HealthyInv == healthy \subseteq Endpoints /\ \A e \in healthy : failed[e] = 0

(* While there is such an endpoint the counts are not cleared, and grow.   *)
LEMMA CountsGrow ==
    ASSUME IInv, HealthyInv, [Next]_vars
    PROVE  /\ HealthyInv'
           /\ healthy # {} => \A e \in Endpoints : failed'[e] >= failed[e]
<1>1. failed \in [Endpoints -> Nat] /\ MaxFailures > 0
  BY NumbersAssumption DEF IInv, TypeOK
<1>2. healthy' = healthy
  BY DEF Next, Step, Gather, Timeout, Begin, Retry, Choose, Acquire, Answer, Error, vars
<1>3. CASE failed' = failed
  BY <1>1, <1>2, <1>3 DEF HealthyInv
<1>4. CASE failed' # failed
  <2>1. PICK c \in Calls : Begin(c) \/ Retry(c) \/ Error(c)
    BY <1>4 DEF Next, Step, Gather, Timeout, Acquire, Answer, vars
  <2>2. CASE Begin(c) \/ Retry(c)
    <3>1. Available = {} /\ failed' = [e \in Endpoints |-> 0]
      BY <1>4, <2>2 DEF Begin, Retry, Choose
    <3>2. healthy = {}
      BY <1>1, <3>1 DEF HealthyInv, Available
    <3> QED BY <1>2, <3>2 DEF HealthyInv
  <2>3. CASE Error(c)
    <3>1. /\ call[c].endpoint \in Endpoints \ healthy
          /\ failed' = [failed EXCEPT ![call[c].endpoint] = failed[call[c].endpoint] + 1]
      BY <2>3 DEF Error, IInv, CallInv
    <3> QED BY <1>1, <1>2, <3>1 DEF HealthyInv
  <2> QED BY <2>1, <2>2, <2>3
<1> QED BY <1>3, <1>4

(* As long as one endpoint answers, no count is ever cleared or lowered:   *)
(* an endpoint that was found to fail stays excluded.                      *)
THEOREM ExclusionDoesLast == Spec => ExclusionLasts
<1>1. Init => HealthyInv
  BY DEF Init, HealthyInv
<1>2. IInv /\ HealthyInv /\ [Next]_vars => HealthyInv'
  BY CountsGrow
<1>3. IInv /\ HealthyInv /\ [Next]_vars =>
          [healthy # {} => \A e \in Endpoints : failed'[e] >= failed[e]]_failed
  BY CountsGrow
<1> QED BY <1>1, <1>2, <1>3, InitIInv, NextIInv, PTL DEF Spec, ExclusionLasts
================================================================================
