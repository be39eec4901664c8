----------------------------- MODULE AnalyzerCache -----------------------------
(***************************************************************************)
(* What the analyses of one token leave in Redis, and find there.          *)
(*                                                                         *)
(* A request builds a TokenAnalyzer for the stored transactions.  Its      *)
(* fields (holders, activity, volumes) are parsed from them, or come from  *)
(* what an earlier analyzer left: analyzer:<mint>:v2, or the key :partial. *)
(* Results are cached under :quick_summary and :full_analysis.  None of    *)
(* the keys says which collection it is from, and none is deleted by a     *)
(* new collection or with the token: they only expire.                     *)
(*                                                                         *)
(* A collection is a version; a result is known by the collections it      *)
(* draws on.  Requests run in threads, and interleave at each access to    *)
(* Redis.                                                                  *)
(***************************************************************************)
EXTENDS Naturals, FiniteSets

CONSTANTS
    Requests,       \* requests served at a time
    MaxVersion,     \* bound on the collections of the token
    None            \* a key that is not there

ASSUME VersionAssumption == MaxVersion \in Nat \ {0}

VARIABLES
    stored,         \* the collection under token:<mint>
    v2, partial, quick, full,   \* the keys analyzer:<mint>:v2...
    request,
    saved           \* an analysis was saved at some time, for the properties

keys == <<v2, partial, quick, full>>
vars == <<stored, keys, request, saved>>

Versions == 1..MaxVersion
Results == (SUBSET Versions) \ {{}}

(* The fields of an analyzer: the collection they were parsed from (0 when *)
(* they are empty), whether buy_volume and sell_volume are among them, and *)
(* what the results in _method_cache draw on.                              *)
Fields == [of : 0..MaxVersion, volumes : BOOLEAN, methods : SUBSET Versions]
NoFields == [of |-> 0, volumes |-> FALSE, methods |-> {}]
Parsed(data) == [of |-> data, volumes |-> TRUE, methods |-> {}]

(***************************************************************************)
(* kind: "bare", an endpoint that reads the fields of an analyzer it did   *)
(* not initialise (holders, clusters, early buyers, ...); "metric", one    *)
(* that calls a decorated method, a chart or the bubble map; "summary";    *)
(* "analysis", and "saved" when the analysis is kept as history, as the    *)
(* scheduler's is and, on request, a user's.                               *)
(***************************************************************************)
Kinds == {"bare", "metric", "summary", "analysis", "saved"}

Idle == [at |-> "idle", kind |-> "bare", data |-> 0, fields |-> NoFields, result |-> {}]

Init ==
    /\ stored = 1
    /\ v2 = None /\ partial = None /\ quick = None /\ full = None
    /\ request = [r \in Requests |-> Idle]
    /\ saved = FALSE

(* What the methods of an analyzer draw on: the transactions it was given  *)
(* and its fields, unless their results came with the fields.              *)
MethodsOf(q) == IF q.fields.methods # {} THEN q.fields.methods ELSE {q.data, q.fields.of}
Own(q) == {q.data, q.fields.of} \union MethodsOf(q)

Goes(r, q) == request' = [request EXCEPT ![r] = q]

(***************************************************************************)
(* get_analyzer: the transactions are read, and the analyzer is built.  An *)
(* endpoint that does not initialise it shows its fields as they are.      *)
(***************************************************************************)
Begin(r) ==
    /\ request[r].at \in {"idle", "shown"}
    /\ \E kind \in Kinds : Goes(r, [Idle EXCEPT !.at = "new", !.kind = kind, !.data = stored])
    /\ UNCHANGED <<stored, keys, saved>>

(* Where an initialised analyzer goes on.  A metric computed from it is    *)
(* answered; a decorated method's own key is written and never read.       *)
Ready(q) ==
    IF q.kind = "metric" THEN Idle
    ELSE [q EXCEPT !.at = IF q.kind = "analysis" THEN "full" ELSE "summary"]

(* Mutant: the constructor takes the partial cache when there is no v2.    *)
ConstructFromPartial(r) ==
    /\ request[r].at = "new"
    /\ LET fields == IF v2 # None THEN v2 ELSE IF partial # None THEN partial ELSE NoFields
           q == [request[r] EXCEPT !.fields = fields]
       IN  Goes(r, IF q.kind = "bare" THEN [q EXCEPT !.at = "shown"]
                   ELSE IF v2 # None THEN Ready(q) ELSE [q EXCEPT !.at = "init"])
    /\ UNCHANGED <<stored, keys, saved>>

Construct(r) ==
    /\ request[r].at = "new"
    /\ LET q == [request[r] EXCEPT !.fields = IF v2 # None THEN v2 ELSE NoFields]
       IN  Goes(r, IF q.kind = "bare" THEN [q EXCEPT !.at = "shown"]
                   ELSE IF v2 # None THEN Ready(q) ELSE [q EXCEPT !.at = "init"])
    /\ UNCHANGED <<stored, keys, saved>>

(* Mutant: no early return: the partial cache is written whatever the      *)
(* fields come from.                                                       *)
InitialiseAndStore(r) ==
    /\ request[r].at = "init"
    /\ Goes(r, [request[r] EXCEPT !.fields = IF partial # None THEN partial
                                             ELSE Parsed(request[r].data),
                                  !.at = "parsed"])
    /\ UNCHANGED <<stored, keys, saved>>

(* _ensure_initialized: without a partial cache the transactions are       *)
(* parsed.                                                                 *)
Initialise(r) ==
    /\ request[r].at = "init"
    /\ Goes(r, IF partial # None
               THEN Ready([request[r] EXCEPT !.fields = partial])
               ELSE [request[r] EXCEPT !.fields = Parsed(request[r].data), !.at = "parsed"])
    /\ UNCHANGED <<stored, keys, saved>>

(* The partial cache has no volumes, and no results of methods.            *)
StorePartial(r) ==
    /\ request[r].at = "parsed"
    /\ partial' = [of |-> request[r].fields.of, volumes |-> FALSE, methods |-> {}]
    /\ Goes(r, Ready(request[r]))
    /\ UNCHANGED <<stored, v2, quick, full, saved>>

(***************************************************************************)
(* get_full_analysis finds an earlier result; one that is to be saved is   *)
(* made anew, whatever it finds.                                           *)
(***************************************************************************)
ReadFull(r) ==
    /\ request[r].at = "full"
    /\ Goes(r, IF full # None THEN Idle ELSE [request[r] EXCEPT !.at = "summary"])
    /\ UNCHANGED <<stored, keys, saved>>

(* get_quick_summary, alone or for the full analysis, which adds the       *)
(* analyzer's own metrics.                                                 *)
HasSummary(r, result) ==
    Goes(r, IF request[r].kind = "summary" THEN Idle
            ELSE [request[r] EXCEPT !.result = result \union Own(request[r]), !.at = "computed"])

ReadQuick(r) ==
    /\ request[r].at = "summary"
    /\ IF quick # None THEN HasSummary(r, quick)
       ELSE Goes(r, [request[r] EXCEPT !.at = "summarised"])
    /\ UNCHANGED <<stored, keys, saved>>

StoreQuick(r) ==
    /\ request[r].at = "summarised"
    /\ quick' = Own(request[r])
    /\ HasSummary(r, Own(request[r]))
    /\ UNCHANGED <<stored, v2, partial, full, saved>>

StoreFull(r) ==
    /\ request[r].at = "computed"
    /\ full' = request[r].result
    /\ Goes(r, IF request[r].kind = "saved" THEN [request[r] EXCEPT !.at = "history"] ELSE Idle)
    /\ UNCHANGED <<stored, v2, partial, quick, saved>>

(* _save_to_history_sync: the result becomes history:<mint>, and then the  *)
(* analyzer itself is kept.                                                *)
Save(r) ==
    /\ request[r].at = "history"
    /\ v2' = [request[r].fields EXCEPT !.methods = MethodsOf(request[r])]
    /\ saved' = TRUE
    /\ Goes(r, Idle)
    /\ UNCHANGED <<stored, partial, quick, full>>

(***************************************************************************)
(* A new collection replaces the transactions, and nothing else.           *)
(***************************************************************************)
Collect ==
    /\ stored < MaxVersion
    /\ stored' = stored + 1
    /\ UNCHANGED <<keys, request, saved>>

(* The keys expire: after 5 minutes (partial, quick), 10 (v2) or an hour.  *)
ExpireV2 == v2 # None /\ v2' = None /\ UNCHANGED <<stored, partial, quick, full, request, saved>>
ExpirePartial ==
    partial # None /\ partial' = None /\ UNCHANGED <<stored, v2, quick, full, request, saved>>
ExpireQuick ==
    quick # None /\ quick' = None /\ UNCHANGED <<stored, v2, partial, full, request, saved>>
ExpireFull ==
    full # None /\ full' = None /\ UNCHANGED <<stored, v2, partial, quick, request, saved>>

Work(r) ==
    \/ Construct(r) \/ Initialise(r) \/ StorePartial(r) \/ ReadFull(r)
    \/ ReadQuick(r) \/ StoreQuick(r) \/ StoreFull(r) \/ Save(r)

Next ==
    \/ \E r \in Requests : Begin(r) \/ Work(r)
    \/ Collect
    \/ ExpireV2 \/ ExpirePartial \/ ExpireQuick \/ ExpireFull

(* A request that has begun ends, and a key that is not written again      *)
(* expires.                                                                *)
Fairness ==
    /\ \A r \in Requests : WF_vars(Work(r))
    /\ WF_vars(ExpireV2) /\ WF_vars(ExpirePartial) /\ WF_vars(ExpireQuick) /\ WF_vars(ExpireFull)

Spec == Init /\ [][Next]_vars
FairSpec == Spec /\ Fairness

-------------------------------------------------------------------------------
(* A key that is there draws on collections there were; the fields of an   *)
(* analyzer past its initialisation are not empty.                         *)
TypeOK ==
    /\ stored \in Versions
    /\ v2 \in [of : Versions, volumes : BOOLEAN, methods : Results] \union {None}
    /\ partial \in [of : Versions, volumes : {FALSE}, methods : {{}}] \union {None}
    /\ {quick, full} \subseteq Results \union {None}
    /\ request \in [Requests -> [at : {"idle", "new", "shown", "init", "parsed", "full", "summary",
                                       "summarised", "computed", "history"},
                                 kind : Kinds, data : 0..MaxVersion, fields : Fields,
                                 result : SUBSET Versions]]
    /\ \A r \in Requests :
        request[r].at \in {"parsed", "full", "summary", "summarised", "computed", "history"}
            => request[r].fields.of \in Versions /\ request[r].data \in Versions
    /\ saved \in BOOLEAN

(* Only v2 gives an uninitialised analyzer its fields: holders, clusters,  *)
(* bots and early buyers are shown empty, whatever the token has, until an *)
(* analysis was saved.                                                     *)
BareNeedsSave ==
    \A r \in Requests : request[r].at = "shown" /\ request[r].fields.of # 0 => saved

Saving == \E r \in Requests : request[r].kind = "saved"

(* What is cached is of the stored collection.                             *)
Current ==
    /\ \A c \in {v2, partial} \ {None} : {c.of} \union c.methods \subseteq {stored}
    /\ \A c \in {quick, full} \ {None} : c \subseteq {stored}

(* When no more analysis is saved and the token is not collected anew, the *)
(* caches forget the earlier collections, however many requests read them: *)
(* each only ever passes its content on to a later one (partial to quick   *)
(* to full).  While analyses are saved, v2 passes it on to itself.         *)
CachesForget == <>[]~Saving => <>[]Current

(* "Forcibly re-analyses a token" (reanalyze_single_token), a "full        *)
(* analysis of all metrics" (get_full_analysis): an analysis that is saved *)
(* is one of the transactions it was given, with their volumes.            *)
ForcedIsFresh ==
    \A r \in Requests : request[r].at = "history" =>
        request[r].result = {request[r].data} /\ request[r].fields.volumes
===============================================================================
