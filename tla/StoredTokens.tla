----------------------------- MODULE StoredTokens ------------------------------
(***************************************************************************)
(* The token keys in the Redis that both services share, for the readers   *)
(* that keep what they have read.  TokenStore models how they are written; *)
(* here a key comes and goes in a step.                                    *)
(***************************************************************************)
EXTENDS Integers, FiniteSets

CONSTANTS Tokens, Day, MaxTime

VARIABLES
    now,
    stored,         \* tokens with a key
    changed         \* history: when each key last came or went

tokens == <<now, stored, changed>>

InitTokens == now = 0 /\ stored = {} /\ changed = [m \in Tokens |-> 0]

(* A batch stores a token; or a DELETE or the time to live removes it.     *)
Turn(m) ==
    /\ stored' = IF m \in stored THEN stored \ {m} ELSE stored \union {m}
    /\ changed' = [changed EXCEPT ![m] = now]
    /\ UNCHANGED now

Pass ==
    /\ now < MaxTime
    /\ now' = now + 1
    /\ UNCHANGED <<stored, changed>>

(* timedelta.seconds: whole days do not count.                             *)
Age(at) == (now - at) % Day
===============================================================================
