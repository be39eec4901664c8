----------------------------- MODULE AnalysisList ------------------------------
(***************************************************************************)
(* RedisCache.get_all_tokens of the data-analysis service: the list of the *)
(* stored tokens, kept in one slot of the process together with the limit  *)
(* it was read for.                                                        *)
(*                                                                         *)
(* The keys and their values are read by two commands, each of which may   *)
(* time out; the slot is stamped when it is filled, not when it was read,  *)
(* and requests fill it in the order in which they end.                    *)
(***************************************************************************)
EXTENDS StoredTokens

CONSTANTS
    Requests,
    Limits,         \* values of limit
    TTL,            \* TOKENS_CACHE_TTL: 10 s
    KeysTimeout,    \* 5 s
    PipelineTimeout,\* 30 s
    None

VARIABLES
    slot,           \* _tokens_cache
    reader          \* requests that did not find a fresh list

vars == <<tokens, slot, reader>>

Idle == [phase |-> "idle", limit |-> 0, until |-> 0, found |-> {}]

Init ==
    /\ InitTokens
    /\ slot = None
    /\ reader = [r \in Requests |-> Idle]

(* An unfinished command is given up in time, so the clock does not pass it. *)
Tick ==
    /\ \A r \in Requests : reader[r].phase # "idle" => now < reader[r].until
    /\ Pass
    /\ UNCHANGED <<slot, reader>>

Fresh(l) == slot # None /\ slot.limit = l /\ Age(slot.at) < TTL

Begin(r, l) ==
    /\ reader[r].phase = "idle"
    /\ ~Fresh(l)
    /\ reader' = [reader EXCEPT ![r] =
           [phase |-> "asked", limit |-> l, until |-> now + KeysTimeout, found |-> {}]]
    /\ UNCHANGED <<tokens, slot>>

(* KEYS token:* is executed; the first keys, in no particular order, are   *)
(* kept.                                                                   *)
ReadKeys(r) ==
    /\ reader[r].phase = "asked"
    /\ \E K \in SUBSET stored :
           /\ \/ K = stored /\ Cardinality(K) <= reader[r].limit
              \/ Cardinality(K) = reader[r].limit
           /\ reader' = [reader EXCEPT ![r] = [@ EXCEPT !.phase = "keys", !.found = K]]
    /\ UNCHANGED <<tokens, slot>>

(* Without keys the answer is empty and the slot stays as it is.           *)
KeysArrive(r) ==
    /\ reader[r].phase = "keys"
    /\ reader' = [reader EXCEPT ![r] =
           IF reader[r].found = {} THEN Idle
           ELSE [@ EXCEPT !.phase = "piped", !.until = now + PipelineTimeout]]
    /\ UNCHANGED <<tokens, slot>>

(* The pipeline is one transaction; keys that are gone by then are left    *)
(* out.                                                                    *)
ReadRows(r) ==
    /\ reader[r].phase = "piped"
    /\ reader' = [reader EXCEPT ![r] =
           [@ EXCEPT !.phase = "rows", !.found = reader[r].found \intersect stored]]
    /\ UNCHANGED <<tokens, slot>>

(* The rows are decompressed without an await, which takes no time here.   *)
Finish(r) ==
    /\ reader[r].phase = "rows"
    /\ slot' = [rows |-> reader[r].found, limit |-> reader[r].limit, at |-> now]
    /\ reader' = [reader EXCEPT ![r] = Idle]
    /\ UNCHANGED tokens

(* Mutant: the old list that answers is taken for a new one.               *)
TimeoutRenews(r) ==
    /\ reader[r].phase # "idle" /\ now = reader[r].until
    /\ reader' = [reader EXCEPT ![r] = Idle]
    /\ slot' = IF slot = None THEN None ELSE [slot EXCEPT !.at = now]
    /\ UNCHANGED tokens

(* A command that takes too long: whatever list there is answers, of any   *)
(* age and limit, and stays as old as it is.                               *)
Timeout(r) ==
    /\ reader[r].phase # "idle" /\ now = reader[r].until
    /\ reader' = [reader EXCEPT ![r] = Idle]
    /\ UNCHANGED <<tokens, slot>>

(* Another error of Redis is the caller's.                                 *)
Fail(r) ==
    /\ reader[r].phase # "idle"
    /\ reader' = [reader EXCEPT ![r] = Idle]
    /\ UNCHANGED <<tokens, slot>>

Restart ==
    /\ slot' = None
    /\ reader' = [r \in Requests |-> Idle]
    /\ UNCHANGED tokens

Next ==
    \/ Tick
    \/ \E m \in Tokens : Turn(m) /\ UNCHANGED <<slot, reader>>
    \/ \E r \in Requests : (\E l \in Limits : Begin(r, l))
                           \/ ReadKeys(r) \/ KeysArrive(r) \/ ReadRows(r)
                           \/ Finish(r) \/ Timeout(r) \/ Fail(r)
    \/ Restart

Spec == Init /\ [][Next]_vars

-------------------------------------------------------------------------------
(* Short of a timeout, which answers with anything, and within a day, the  *)
(* list is wrong about a token for no longer than it is fresh and its last *)
(* commands may take: a slow request cannot bring back an older list, and  *)
(* timeouts do not keep one alive.                                         *)
AnalysisListFades ==
    \A m \in Tokens :
        slot # None /\ Fresh(slot.limit) /\ now - slot.at < Day =>
            /\ m \in slot.rows \ stored => now - changed[m] < TTL + PipelineTimeout
            /\ m \in stored \ slot.rows /\ Cardinality(Tokens) <= slot.limit
                   => now - changed[m] < TTL + KeysTimeout + PipelineTimeout
===============================================================================
