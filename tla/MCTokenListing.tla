---------------------------- MODULE MCTokenListing ----------------------------
(* An instance for TLC of the three caches that keep what was read from    *)
(* the shared Redis: the token list (TokenListing) and the statistics of   *)
(* data-management, and the token list of data-analysis.  A behaviour is   *)
(* one of one of them.                                                     *)
EXTENDS TokenListing, TLC

CONSTANTS m1, m2, r0, r1, r2, TwoRequests, LongDay, LongTime, KeysTimeout, PipelineTimeout

ASSUME CachesAssumption ==
    LongDay \in Nat \ {0} /\ KeysTimeout \in Nat /\ PipelineTimeout \in Nat

VARIABLES cache, stored, changed, slot, reader, asked

Analysis == INSTANCE AnalysisList WITH
    Tokens <- Mints, Requests <- TwoRequests, Day <- LongDay, MaxTime <- LongTime

Stats == INSTANCE Statistics WITH
    Tokens <- Mints, Requests <- TwoRequests, Day <- LongDay

listing == <<rows, cached, request, deleting, since>>
others == <<stored, changed, slot, reader, asked>>

InitCaches ==
    /\ cache \in {"tokens", "analysis", "statistics"}
    /\ Init
    /\ stored = {} /\ changed = [m \in Mints |-> 0] /\ slot = None
    /\ IF cache = "statistics" THEN Stats!Init
       ELSE Analysis!Init /\ asked = [role \in Stats!Roles |-> 0]

NextCaches ==
    \/ cache = "tokens" /\ Next /\ UNCHANGED <<cache, others>>
    \/ cache = "analysis" /\ Analysis!Next /\ UNCHANGED <<cache, listing, asked>>
    \/ cache = "statistics" /\ Stats!Next /\ UNCHANGED <<cache, listing>>

SpecCaches == InitCaches /\ [][NextCaches]_<<cache, vars, others>>

(* The list of data-analysis: see AnalysisList.                            *)
AnalysisListFades == cache = "analysis" => Analysis!AnalysisListFades

(* The statistics: see Statistics.                                         *)
StatisticsFade == cache = "statistics" => Stats!StatisticsFade

Symmetry == Permutations(Mints) \union Permutations(TwoRequests)
===============================================================================
