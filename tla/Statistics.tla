------------------------------ MODULE Statistics -------------------------------
(***************************************************************************)
(* GET /stats of the data-management service.  What one request has read   *)
(* answers everyone for half a minute: there is one slot for callers with  *)
(* and without the administrator's key, stamped when the request began,    *)
(* and no collection or deletion empties it.                               *)
(***************************************************************************)
EXTENDS StoredTokens

CONSTANTS
    Requests,
    TTL,            \* 30 s
    None

VARIABLES
    slot,           \* stats_cache and stats_cache_time
    reader,         \* requests that did not find fresh statistics
    asked           \* history: when a request of each role last began

vars == <<tokens, slot, reader, asked>>

Roles == {"public", "admin"}

Idle == [phase |-> "idle", role |-> "public", at |-> 0, keys |-> {}]

Init ==
    /\ InitTokens
    /\ slot = None
    /\ reader = [r \in Requests |-> Idle]
    /\ asked = [role \in Roles |-> 0]

Tick == Pass /\ UNCHANGED <<slot, reader, asked>>

Fresh == slot # None /\ Age(slot.at) < TTL

Begin(r, role) ==
    /\ reader[r].phase = "idle" /\ ~Fresh
    /\ reader' = [reader EXCEPT ![r] = [phase |-> "keys", role |-> role, at |-> now, keys |-> {}]]
    /\ asked' = [asked EXCEPT ![role] = now]
    /\ UNCHANGED <<tokens, slot>>

(* The keys are counted; the sizes that are read after them are left out.  *)
ReadKeys(r) ==
    /\ reader[r].phase = "keys"
    /\ reader' = [reader EXCEPT ![r] = [@ EXCEPT !.phase = "info", !.keys = stored]]
    /\ UNCHANGED <<tokens, slot, asked>>

(* Mutant: the slot is stamped when it is filled.                          *)
FinishStampedNow(r) ==
    /\ reader[r].phase = "info"
    /\ slot' = [keys |-> reader[r].keys, role |-> reader[r].role, at |-> now]
    /\ reader' = [reader EXCEPT ![r] = Idle]
    /\ UNCHANGED <<tokens, asked>>

(* An administrator's statistics have all keys and no limit in them.       *)
Finish(r) ==
    /\ reader[r].phase = "info"
    /\ slot' = [keys |-> reader[r].keys, role |-> reader[r].role, at |-> reader[r].at]
    /\ reader' = [reader EXCEPT ![r] = Idle]
    /\ UNCHANGED <<tokens, asked>>

Fail(r) ==
    /\ reader[r].phase # "idle"
    /\ reader' = [reader EXCEPT ![r] = Idle]
    /\ UNCHANGED <<tokens, slot, asked>>

Restart ==
    /\ slot' = None
    /\ reader' = [r \in Requests |-> Idle]
    /\ UNCHANGED <<tokens, asked>>

Next ==
    \/ Tick
    \/ \E m \in Tokens : Turn(m) /\ UNCHANGED <<slot, reader, asked>>
    \/ \E r \in Requests : \/ \E role \in Roles : Begin(r, role)
                           \/ ReadKeys(r) \/ Finish(r) \/ Fail(r)
    \/ Restart

Spec == Init /\ [][Next]_vars

-------------------------------------------------------------------------------
(* Within a day, and however long requests take and whichever ends last,   *)
(* no answer counts a token that is gone for TTL, or leaves out one that   *)
(* is there for TTL; and the view of a role that nobody of that role has   *)
(* asked for in TTL is not shown to anyone.                                *)
StatisticsFade ==
    Fresh /\ now - slot.at < Day =>
        /\ \A m \in Tokens : (m \in slot.keys) # (m \in stored) => now - changed[m] < TTL
        /\ now - asked[slot.role] < TTL
===============================================================================
