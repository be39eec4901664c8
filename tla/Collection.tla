------------------------------ MODULE Collection ------------------------------
(***************************************************************************)
(* SolanaCollector.collect: the token's supply, the list of its signatures *)
(* page by page, the transactions batch by batch, and the verdict.         *)
(*                                                                         *)
(* The chain is outside of the code: the signatures of a token are 1, 2,   *)
(* ..., oldest first, and new ones arrive while the collector pages.       *)
(* getSignaturesForAddress answers newest first, starting below "before"   *)
(* and ending above "until", at most a page at a time.  What _rpc_call     *)
(* does between a request and its outcome is in RpcFailover; here a        *)
(* request has its result, or None.                                        *)
(***************************************************************************)
EXTENDS Naturals, Sequences

CONSTANTS
    PageSize,       \* signatures in a full page (1000)
    BatchSize,      \* transactions in a batch (500)
    Limits,         \* max_signatures, or early_limit
    MinRate,        \* MIN_SUCCESS_RATE, in per cent
    MaxChain        \* bound on the token's signatures

ASSUME SizesAssumption ==
    PageSize \in Nat \ {0} /\ BatchSize \in Nat \ {0} /\ MaxChain \in Nat
ASSUME LimitsAssumption == Limits \subseteq Nat \ {0}
ASSUME RateAssumption == MinRate \in 0..100

VARIABLES
    chain,          \* signatures on the chain
    mode, limit, force,
    pc,             \* "supply", "paging", "fetching", or how collect ended
    cursor,         \* the last signature seen, 0 before the first page
    signatures,
    lost,           \* history: a page was lost
    index,          \* signatures whose transactions were asked for
    fetched         \* transactions received

collectionVars == <<chain, mode, limit, force, pc, cursor, signatures, lost, index, fetched>>
request == <<mode, limit, force>>

Ended == {"stored", "refused", "raised"}

Least(a, b) == IF a < b THEN a ELSE b

InitCollection ==
    /\ chain \in 0..MaxChain
    /\ mode \in {"latest", "earliest"}
    /\ limit \in Limits
    /\ force \in BOOLEAN
    /\ pc = "supply"
    /\ cursor = 0
    /\ signatures = <<>>
    /\ lost = FALSE
    /\ index = 0
    /\ fetched = 0

(* Another transaction of the token is confirmed.                          *)
Grow ==
    /\ pc \notin Ended
    /\ chain < MaxChain
    /\ chain' = chain + 1
    /\ UNCHANGED <<request, pc, cursor, signatures, lost, index, fetched>>

(* get_token_supply; an answer without "value" raises.                     *)
Supply ==
    /\ pc = "supply"
    /\ pc' \in {"paging", "raised"}
    /\ UNCHANGED <<chain, request, cursor, signatures, lost, index, fetched>>

-------------------------------------------------------------------------------
(* The newest signatures of lo..hi, newest first, at most a page.          *)
Newest(lo, hi) ==
    [i \in 1..(IF hi < lo THEN 0 ELSE Least(PageSize, hi + 1 - lo)) |-> hi + 1 - i]

(* _get_latest_signatures asks for what is before the cursor, and          *)
(* _get_earliest_signatures for what is after it.                          *)
PageReply ==
    IF mode = "latest" THEN Newest(1, IF cursor = 0 THEN chain ELSE cursor - 1)
                       ELSE Newest(cursor + 1, chain)

(* Mutant: each page begins at the newest signature.                       *)
PageKeepsCursor ==
    /\ pc = "paging"
    /\ PageReply # <<>>
    /\ LET all == signatures \o PageReply
       IN  /\ signatures' = SubSeq(all, 1, Least(limit, Len(all)))
           /\ pc' = IF Len(all) >= limit \/ Len(PageReply) < PageSize THEN "fetching"
                                                                      ELSE "paging"
    /\ UNCHANGED <<chain, request, cursor, lost, index, fetched>>

(* Mutant: a full page is taken for the last one.                          *)
PageStopsEarly ==
    /\ pc = "paging"
    /\ PageReply # <<>>
    /\ LET all == signatures \o PageReply
       IN  signatures' = SubSeq(all, 1, Least(limit, Len(all)))
    /\ cursor' = PageReply[Len(PageReply)]
    /\ pc' = "fetching"
    /\ UNCHANGED <<chain, request, lost, index, fetched>>

(* A page: the list is cut at the limit, and ends there or with a page     *)
(* that is not full.                                                       *)
Page ==
    /\ pc = "paging"
    /\ PageReply # <<>>
    /\ LET all == signatures \o PageReply
       IN  /\ signatures' = SubSeq(all, 1, Least(limit, Len(all)))
           /\ pc' = IF Len(all) >= limit \/ Len(PageReply) < PageSize THEN "fetching"
                                                                      ELSE "paging"
    /\ cursor' = PageReply[Len(PageReply)]
    /\ UNCHANGED <<chain, request, lost, index, fetched>>

EmptyPage ==
    /\ pc = "paging"
    /\ PageReply = <<>>
    /\ pc' = "fetching"
    /\ UNCHANGED <<chain, request, cursor, signatures, lost, index, fetched>>

(* _rpc_call gave up: the list ends with what it has.                      *)
PageLost ==
    /\ pc = "paging"
    /\ pc' = "fetching"
    /\ lost' = TRUE
    /\ UNCHANGED <<chain, request, cursor, signatures, index, fetched>>

-------------------------------------------------------------------------------
(* Mutant: without signatures the listing is tried again.                  *)
RetriesEmpty ==
    /\ pc = "fetching"
    /\ signatures = <<>>
    /\ pc' = "paging"
    /\ UNCHANGED <<chain, request, cursor, signatures, lost, index, fetched>>

NoSignatures ==
    /\ pc = "fetching"
    /\ signatures = <<>>
    /\ pc' = "refused"
    /\ UNCHANGED <<chain, request, cursor, signatures, lost, index, fetched>>

(* A batch of transactions: those that came, or none at all if the batch   *)
(* took a minute, even if some had come.                                   *)
FetchBatch ==
    /\ pc = "fetching"
    /\ index < Len(signatures)
    /\ LET size == Least(BatchSize, Len(signatures) - index)
       IN  \E n \in 0..size :
               /\ fetched' = fetched + n
               /\ index' = index + size
    /\ UNCHANGED <<chain, request, pc, cursor, signatures, lost>>

(* The success rate decides whether the data is valid; force stores it     *)
(* even so, emptied.                                                       *)
Valid == fetched * 100 >= MinRate * Len(signatures)

Verdict ==
    /\ pc = "fetching"
    /\ signatures # <<>>
    /\ index = Len(signatures)
    /\ pc' = IF Valid \/ force THEN "stored" ELSE "refused"
    /\ UNCHANGED <<chain, request, cursor, signatures, lost, index, fetched>>

Collect == Supply \/ Page \/ EmptyPage \/ PageLost \/ NoSignatures \/ FetchBatch \/ Verdict

NextCollection == Grow \/ Collect

CollectionSpec == InitCollection /\ [][NextCollection]_collectionVars

(* Every request ends: by its answer, or by its timeout after each retry.  *)
FairCollection == CollectionSpec /\ WF_collectionVars(Collect)

-------------------------------------------------------------------------------
CollectionTypeOK ==
    /\ chain \in 0..MaxChain
    /\ mode \in {"latest", "earliest"}
    /\ limit \in Limits
    /\ force \in BOOLEAN
    /\ pc \in {"supply", "paging", "fetching"} \union Ended
    /\ cursor \in 0..chain
    /\ signatures \in Seq(1..chain)
    /\ Len(signatures) <= limit
    /\ lost \in BOOLEAN
    /\ index \in 0..Len(signatures)
    /\ fetched \in 0..index

(* The latest signatures come without a gap or a repetition across pages,  *)
(* whatever is confirmed between two pages and wherever a page is lost.    *)
LatestIsContiguous ==
    mode = "latest" =>
        \A i \in 1..Len(signatures) : i > 1 => signatures[i] = signatures[i - 1] - 1

(* If no page was lost, the latest signatures go back to the limit or to   *)
(* the token's first one.                                                  *)
LatestReachesBack ==
    mode = "latest" /\ pc = "fetching" /\ ~lost =>
        \/ Len(signatures) = limit
        \/ signatures = <<>> /\ cursor = 0
        \/ signatures # <<>> /\ signatures[Len(signatures)] = 1

(* "Fetching earliest N signatures": if no page was lost, the signatures   *)
(* are among the token's first ones, as many as there are, up to N.        *)
EarliestIsEarliest ==
    mode = "earliest" /\ pc = "fetching" /\ ~lost =>
        \A i \in 1..Len(signatures) : signatures[i] <= limit

(* A collection ends, however the chain grows and whatever is lost.        *)
CollectionEnds == <>(pc \in Ended)
===============================================================================
