------------------------------ MODULE MCCollector ------------------------------
(* An instance of the Solana collector for TLC: a collection (Collection)  *)
(* and the calls of one batch (RpcFailover).  Collection abstracts a batch *)
(* to what it returns, so a behaviour is one of one of the two.            *)
EXTENDS Collection, RpcFailover

CONSTANTS c1, c2, c3, e1, e2

VARIABLE level

(* What is not looked at begins in one of its initial states.              *)
InitCollector ==
    /\ level \in {"collection", "calls"}
    /\ InitCollection /\ Init
    /\ level = "collection" \/ (chain = 0 /\ mode = "latest" /\ limit = 1 /\ ~force)
    /\ level = "calls" \/ healthy = {}

NextCollector ==
    \/ level = "collection" /\ NextCollection /\ UNCHANGED <<level, vars>>
    \/ level = "calls" /\ Next /\ UNCHANGED <<level, collectionVars>>

SpecCollector == InitCollector /\ [][NextCollector]_<<level, vars, collectionVars>>

(* The fairness of the two, each for the behaviours it is about.           *)
FairCollector ==
    /\ SpecCollector
    /\ WF_collectionVars(level = "collection" /\ Collect)
    /\ \A c \in Calls : /\ WF_vars(level = "calls" /\ Step(c))
                        /\ SF_vars(level = "calls" /\ AllBegan /\ Acquire(c))

(* Every collection ends: see Collection.                                  *)
CollectionsEnd == level = "collection" => CollectionEnds
================================================================================
