--------------------------- MODULE TokenStoreViews ----------------------------
(***************************************************************************)
(* What clients see of TokenStore: the progress record of a batch, shown   *)
(* to implement BatchContract, and the two keys of a mint, with the        *)
(* history needed to say what a reader may rely on.                        *)
(***************************************************************************)
EXTENDS TokenStore

(* History variables: the mints one of whose keys was removed since the    *)
(* start, by a DELETE request and by its TTL.                              *)
VARIABLES deleted, expired

Vanished(m) ==
    \/ token[m] # None /\ token'[m] = None
    \/ meta[m] # None /\ meta'[m] = None

viewVars == <<vars, deleted, expired>>
ViewInit == Init /\ deleted = {} /\ expired = {}
ViewNext ==
    /\ Next
    /\ LET gone == {m \in Mints : Vanished(m)}
           byRequest == deleter' # deleter
       IN  /\ deleted' = IF byRequest THEN deleted \union gone ELSE deleted
           /\ expired' = IF byRequest THEN expired ELSE expired \union gone
ViewSpec == ViewInit /\ [][ViewNext]_viewVars
FairViewSpec == ViewSpec /\ Fairness

(* batch_jobs[id] starts with lists of its own; from the first counted     *)
(* token on it holds the very lists the loop appends to.                   *)
Shown(j, list) == IF completed[j] = 0 THEN <<>> ELSE list[j]

View(j) ==
    IF status[j] \in {"none", "lost"} THEN None
    ELSE [status |-> status[j], total |-> Len(tokens[j]), completed |-> completed[j],
          success |-> Shown(j, success), failed |-> Shown(j, failed)]

(* A poll that finds no job is not a progress record (it is a 404).        *)
Progress == [status : {"running", "completed"}, total : Nat, completed : Nat,
             success : Seq(Mints), failed : Seq(Mints)]

ASSUME AbsentAssumption == None \notin Progress

Contract == INSTANCE BatchContract WITH
    view <- [j \in Jobs |-> View(j)], Absent <- None

(* The polled progress of a batch only ever advances, although the lists   *)
(* in it are shared with the running loop and grow between two updates of  *)
(* the counter.                                                            *)
ContractHolds == Contract!Spec

(* A mint is listed (its metadata exists) only after its data was stored:  *)
(* short of a deletion or an expiry, GET /token answers for every mint     *)
(* GET /tokens lists, whatever fails and whenever the service restarts.    *)
ListedIsReadable ==
    \A m \in Mints \ (deleted \union expired) : meta[m] # None => token[m] # None

(* A mint a batch reports as collected is stored and listed, short of a    *)
(* deletion or an expiry.                                                  *)
SuccessIsStored ==
    \A j \in Jobs : \A m \in Elements(success[j]) \ (deleted \union expired) :
      token[m] # None /\ meta[m] # None

(* The inductive form of the two: a mint about to get its metadata has its *)
(* data stored already.                                                    *)
WritesInOrder ==
    \A m \in Mints \ (deleted \union expired) :
      /\ \A j \in Jobs : pc[j] = "setMeta" /\ Current(j) = m => token[m] # None
      /\ migrator.pc = "set" /\ migrator.mint = m => token[m] # None

ViewInv == ListedIsReadable /\ SuccessIsStored /\ WritesInOrder

===============================================================================
