------------------------------ MODULE TokenStore ------------------------------
(***************************************************************************)
(* The token store of the data-management service: two Redis keys per      *)
(* mint, "token:<mint>" (the full collection) and "meta:<mint>" (the row   *)
(* GET /tokens shows), written by the batch collections of POST            *)
(* /collect/batch, removed by DELETE /token/<mint> and by their TTL, and   *)
(* repaired by the script migrate.py.                                      *)
(*                                                                         *)
(* One event loop runs every handler, so a step below is the code between  *)
(* two awaits, together with the Redis command it awaits.  A Redis command *)
(* may raise (socket timeout) before or after the server executed it.      *)
(*                                                                         *)
(* A collection is identified by the job that made it and its position in  *)
(* that job; of its contents only "valid" is kept (success rate reached    *)
(* MIN_SUCCESS_RATE, so signatures and transactions are not emptied).      *)
(***************************************************************************)
EXTENDS Naturals, Sequences

CONSTANTS
    Mints,        \* token addresses
    Jobs,         \* ids of batch jobs; each is submitted at most once
    Deleters,     \* DELETE requests in flight at the same time
    MaxBatch,     \* bound on len(batch_req.tokens)
    PublicBatch,  \* batch size limit for callers without the admin key (10)
    None          \* an absent key, no data at hand, no mint at hand

Data == [job : Jobs, idx : Nat \ {0}, valid : BOOLEAN]

ASSUME BatchAssumption == MaxBatch \in Nat /\ PublicBatch \in Nat
ASSUME NoneAssumption == None \notin Data /\ None \notin Mints

VARIABLES
    token, meta,                                \* Redis
    status, admin, force, tokens,               \* batch_jobs[id], arguments
    completed, success, failed,                 \* counters and result lists
    pc, held,                                   \* run_batch_collection
    deleter,                                    \* delete_token
    migrator                                    \* migrate.py

redisVars == <<token, meta>>
jobVars == <<status, admin, force, tokens, completed, success, failed>>
workerVars == <<pc, held>>
vars == <<redisVars, jobVars, workerVars, deleter, migrator>>

Lists == UNION {[1..n -> Mints] : n \in 0..MaxBatch}
Stored == Data \union {None}

Init ==
    /\ token = [m \in Mints |-> None]
    /\ meta = [m \in Mints |-> None]
    /\ status = [j \in Jobs |-> "none"]
    /\ admin = [j \in Jobs |-> FALSE]
    /\ force = [j \in Jobs |-> FALSE]
    /\ tokens = [j \in Jobs |-> <<>>]
    /\ completed = [j \in Jobs |-> 0]
    /\ success = [j \in Jobs |-> <<>>]
    /\ failed = [j \in Jobs |-> <<>>]
    /\ pc = [j \in Jobs |-> "none"]
    /\ held = [j \in Jobs |-> None]
    /\ deleter = [d \in Deleters |-> [pc |-> "idle", mint |-> None]]
    /\ migrator = [pc |-> "idle", todo |-> {}, mint |-> None, data |-> None]

(***************************************************************************)
(* POST /collect/batch: the limits on callers without the admin key, then  *)
(* the job record; the collection itself starts after the response.        *)
(***************************************************************************)
Submit(j) ==
    /\ status[j] = "none"
    /\ \E ts \in Lists, f, a \in BOOLEAN :
         /\ ~a => Len(ts) <= PublicBatch /\ ~f
         /\ tokens' = [tokens EXCEPT ![j] = ts]
         /\ force' = [force EXCEPT ![j] = f]
         /\ admin' = [admin EXCEPT ![j] = a]
    /\ status' = [status EXCEPT ![j] = "running"]
    /\ pc' = [pc EXCEPT ![j] = "begin"]
    /\ UNCHANGED <<redisVars, completed, success, failed, held, deleter, migrator>>

Current(j) == tokens[j][completed[j] + 1]

(* Mutant: an off-by-one ends the loop before the last token.              *)
LoopHeadStopsEarly(j, n) ==
    LET over == n + 1 >= Len(tokens[j])
    IN  /\ pc' = [pc EXCEPT ![j] = IF over THEN "done" ELSE "collect"]
        /\ status' = [status EXCEPT ![j] = IF over THEN "completed" ELSE @]
        /\ held' = [held EXCEPT ![j] = None]

(* Back at the head of the loop with n tokens done.                        *)
LoopHead(j, n) ==
    LET over == n = Len(tokens[j])
    IN  /\ pc' = [pc EXCEPT ![j] = IF over THEN "done" ELSE "collect"]
        /\ status' = [status EXCEPT ![j] = IF over THEN "completed" ELSE @]
        /\ held' = [held EXCEPT ![j] = None]

Begin(j) ==
    /\ pc[j] = "begin"
    /\ LoopHead(j, 0)
    /\ UNCHANGED <<redisVars, admin, force, tokens, completed, success, failed,
                   deleter, migrator>>

(* Mutant: the success threshold is not enforced.                          *)
CollectReturnsAnything(j) ==
    /\ pc[j] = "collect"
    /\ \E v \in BOOLEAN :
         held' = [held EXCEPT ![j] = [job |-> j, idx |-> completed[j] + 1, valid |-> v]]
    /\ pc' = [pc EXCEPT ![j] = "setToken"]
    /\ UNCHANGED <<redisVars, jobVars, deleter, migrator>>

(* collector.collect returned (True, data): valid, or forced.              *)
CollectReturns(j) ==
    /\ pc[j] = "collect"
    /\ \E v \in BOOLEAN :
         /\ v \/ force[j]
         /\ held' = [held EXCEPT ![j] = [job |-> j, idx |-> completed[j] + 1, valid |-> v]]
    /\ pc' = [pc EXCEPT ![j] = "setToken"]
    /\ UNCHANGED <<redisVars, jobVars, deleter, migrator>>

(* collector.collect returned (False, _): no signatures, or too few of the *)
(* transactions and no force.  The session is still to be closed.          *)
CollectRefuses(j) ==
    /\ pc[j] = "collect"
    /\ failed' = [failed EXCEPT ![j] = Append(@, Current(j))]
    /\ pc' = [pc EXCEPT ![j] = "closing"]
    /\ UNCHANGED <<redisVars, status, admin, force, tokens, completed, success,
                   held, deleter, migrator>>

(* Mutant: the exception is not caught and ends the coroutine.             *)
CollectRaisesUncaught(j) ==
    /\ pc[j] = "collect"
    /\ pc' = [pc EXCEPT ![j] = "none"]
    /\ UNCHANGED <<redisVars, jobVars, held, deleter, migrator>>

CollectRaises(j) ==
    /\ pc[j] = "collect"
    /\ pc' = [pc EXCEPT ![j] = "raised"]
    /\ UNCHANGED <<redisVars, jobVars, held, deleter, migrator>>

(* Mutant: the two keys are written in the other order.                    *)
SetTokenWritesMeta(j) ==
    /\ pc[j] = "setToken"
    /\ meta' = [meta EXCEPT ![Current(j)] = held[j]]
    /\ pc' = [pc EXCEPT ![j] = "setMeta"]
    /\ UNCHANGED <<token, jobVars, held, deleter, migrator>>

SetToken(j) ==
    /\ pc[j] = "setToken"
    /\ token' = [token EXCEPT ![Current(j)] = held[j]]
    /\ pc' = [pc EXCEPT ![j] = "setMeta"]
    /\ UNCHANGED <<meta, jobVars, held, deleter, migrator>>

SetTokenRaises(j) ==
    /\ pc[j] = "setToken"
    /\ \/ token' = [token EXCEPT ![Current(j)] = held[j]]
       \/ token' = token
    /\ pc' = [pc EXCEPT ![j] = "raised"]
    /\ UNCHANGED <<meta, jobVars, held, deleter, migrator>>

(* Mutant: the write of the metadata is not awaited and never executed.    *)
SetMetaNotAwaited(j) ==
    /\ pc[j] = "setMeta"
    /\ success' = [success EXCEPT ![j] = Append(@, Current(j))]
    /\ pc' = [pc EXCEPT ![j] = "closing"]
    /\ UNCHANGED <<redisVars, status, admin, force, tokens, completed, failed, held,
                   deleter, migrator>>

SetMeta(j) ==
    /\ pc[j] = "setMeta"
    /\ meta' = [meta EXCEPT ![Current(j)] = held[j]]
    /\ success' = [success EXCEPT ![j] = Append(@, Current(j))]
    /\ pc' = [pc EXCEPT ![j] = "closing"]
    /\ UNCHANGED <<token, status, admin, force, tokens, completed, failed, held,
                   deleter, migrator>>

(* Mutant: the success is reported before the metadata is written.         *)
SetMetaRaisesAfterSuccess(j) ==
    /\ pc[j] = "setMeta"
    /\ success' = [success EXCEPT ![j] = Append(@, Current(j))]
    /\ pc' = [pc EXCEPT ![j] = "raised"]
    /\ UNCHANGED <<redisVars, status, admin, force, tokens, completed, failed, held,
                   deleter, migrator>>

SetMetaRaises(j) ==
    /\ pc[j] = "setMeta"
    /\ \/ meta' = [meta EXCEPT ![Current(j)] = held[j]]
       \/ meta' = meta
    /\ pc' = [pc EXCEPT ![j] = "raised"]
    /\ UNCHANGED <<token, jobVars, held, deleter, migrator>>

(* The session is closed, which aiohttp does without an exception, so the  *)
(* token that is listed as collected is not listed again as failed; the    *)
(* iteration is counted.                                                   *)
Count(j) ==
    /\ pc[j] = "closing"
    /\ completed' = [completed EXCEPT ![j] = @ + 1]
    /\ LoopHead(j, completed[j] + 1)
    /\ UNCHANGED <<redisVars, admin, force, tokens, success, failed, deleter, migrator>>

(* Mutant: the exception handler does not report the token.                *)
CountFailureUnreported(j) ==
    /\ pc[j] = "raised"
    /\ completed' = [completed EXCEPT ![j] = @ + 1]
    /\ LoopHead(j, completed[j] + 1)
    /\ UNCHANGED <<redisVars, admin, force, tokens, success, failed, deleter, migrator>>

(* The session is closed on the way out of an exception, which the loop    *)
(* catches: the token is reported as failed and the iteration counted.     *)
CountFailure(j) ==
    /\ pc[j] = "raised"
    /\ failed' = [failed EXCEPT ![j] = Append(@, Current(j))]
    /\ completed' = [completed EXCEPT ![j] = @ + 1]
    /\ LoopHead(j, completed[j] + 1)
    /\ UNCHANGED <<redisVars, admin, force, tokens, success, deleter, migrator>>

Work(j) ==
    \/ Begin(j)
    \/ CollectReturns(j) \/ CollectRefuses(j) \/ CollectRaises(j)
    \/ SetToken(j) \/ SetTokenRaises(j)
    \/ SetMeta(j) \/ SetMetaRaises(j)
    \/ Count(j) \/ CountFailure(j)

(***************************************************************************)
(* DELETE /token/<mint>: the token key, then the metadata key, then the    *)
(* list cache (modelled in TokenListing).  A Redis error ends the request. *)
(***************************************************************************)
DeleteBegin(d) ==
    /\ deleter[d].pc = "idle"
    /\ \E m \in Mints : deleter' = [deleter EXCEPT ![d] = [pc |-> "token", mint |-> m]]
    /\ UNCHANGED <<redisVars, jobVars, workerVars, migrator>>

DeleteToken(d) ==
    /\ deleter[d].pc = "token"
    /\ token' = [token EXCEPT ![deleter[d].mint] = None]
    /\ deleter' = [deleter EXCEPT ![d].pc = "meta"]
    /\ UNCHANGED <<meta, jobVars, workerVars, migrator>>

DeleteMeta(d) ==
    /\ deleter[d].pc = "meta"
    /\ meta' = [meta EXCEPT ![deleter[d].mint] = None]
    /\ deleter' = [deleter EXCEPT ![d].pc = "clear"]
    /\ UNCHANGED <<token, jobVars, workerVars, migrator>>

DeleteRaises(d) ==
    /\ \/ /\ deleter[d].pc = "token"
          /\ token' \in {token, [token EXCEPT ![deleter[d].mint] = None]}
          /\ meta' = meta
       \/ /\ deleter[d].pc = "meta"
          /\ meta' \in {meta, [meta EXCEPT ![deleter[d].mint] = None]}
          /\ token' = token
    /\ deleter' = [deleter EXCEPT ![d] = [pc |-> "idle", mint |-> None]]
    /\ UNCHANGED <<jobVars, workerVars, migrator>>

DeleteReturns(d) ==
    /\ deleter[d].pc = "clear"
    /\ deleter' = [deleter EXCEPT ![d] = [pc |-> "idle", mint |-> None]]
    /\ UNCHANGED <<redisVars, jobVars, workerVars, migrator>>

(***************************************************************************)
(* migrate.py: for every mint of KEYS token:*, one at a time, write the    *)
(* metadata if it was absent and the token could be read.                  *)
(***************************************************************************)
MigrateKeys ==
    /\ migrator.pc = "idle"
    /\ migrator' = [migrator EXCEPT !.pc = "next",
                                    !.todo = {m \in Mints : token[m] # None}]
    /\ UNCHANGED <<redisVars, jobVars, workerVars, deleter>>

MigrateNext ==
    /\ migrator.pc = "next"
    /\ \/ /\ migrator.todo = {}
          /\ migrator' = [migrator EXCEPT !.pc = "idle", !.mint = None]
       \/ \E m \in migrator.todo :
            migrator' = [migrator EXCEPT !.todo = @ \ {m}, !.mint = m,
                           !.pc = IF meta[m] = None THEN "get" ELSE "next"]
    /\ UNCHANGED <<redisVars, jobVars, workerVars, deleter>>

MigrateGet ==
    /\ migrator.pc = "get"
    /\ migrator' = [migrator EXCEPT !.data = token[migrator.mint],
                      !.pc = IF token[migrator.mint] = None THEN "next" ELSE "set"]
    /\ UNCHANGED <<redisVars, jobVars, workerVars, deleter>>

MigrateSet ==
    /\ migrator.pc = "set"
    /\ meta' = [meta EXCEPT ![migrator.mint] = migrator.data]
    /\ migrator' = [migrator EXCEPT !.pc = "next", !.data = None]
    /\ UNCHANGED <<token, jobVars, workerVars, deleter>>

(* A Redis error is not caught: the script dies, with the write in flight  *)
(* executed or not.                                                        *)
MigrateDies ==
    /\ migrator.pc # "idle"
    /\ \/ meta' = meta
       \/ migrator.pc = "set" /\ meta' = [meta EXCEPT ![migrator.mint] = migrator.data]
    /\ migrator' = [pc |-> "idle", todo |-> {}, mint |-> None, data |-> None]
    /\ UNCHANGED <<token, jobVars, workerVars, deleter>>

Migrate == MigrateKeys \/ MigrateNext \/ MigrateGet \/ MigrateSet \/ MigrateDies

(***************************************************************************)
(* Redis expires each key 86400 s after it was written.  The metadata of a *)
(* collection is written after its token key, and so expires after it.     *)
(***************************************************************************)
ExpireToken(m) ==
    /\ token[m] # None
    /\ token' = [token EXCEPT ![m] = None]
    /\ UNCHANGED <<meta, jobVars, workerVars, deleter, migrator>>

ExpireMeta(m) ==
    /\ meta[m] # None
    /\ meta[m] # token[m]
    /\ meta' = [meta EXCEPT ![m] = None]
    /\ UNCHANGED <<token, jobVars, workerVars, deleter, migrator>>

(* The service restarts: batch_jobs and every coroutine are gone, Redis    *)
(* and the migration script are not.                                       *)
Restart ==
    /\ \E j \in Jobs : status[j] \in {"running", "completed"}
    /\ status' = [j \in Jobs |-> IF status[j] = "none" THEN "none" ELSE "lost"]
    /\ pc' = [j \in Jobs |-> "none"]
    /\ held' = [j \in Jobs |-> None]
    /\ deleter' = [d \in Deleters |-> [pc |-> "idle", mint |-> None]]
    /\ completed' = [j \in Jobs |-> 0]
    /\ success' = [j \in Jobs |-> <<>>]
    /\ failed' = [j \in Jobs |-> <<>>]
    /\ UNCHANGED <<redisVars, admin, force, tokens, migrator>>

Next ==
    \/ \E j \in Jobs : Submit(j) \/ Work(j)
    \/ \E d \in Deleters : DeleteBegin(d) \/ DeleteToken(d) \/ DeleteMeta(d)
                             \/ DeleteRaises(d) \/ DeleteReturns(d)
    \/ Migrate
    \/ \E m \in Mints : ExpireToken(m) \/ ExpireMeta(m)
    \/ Restart

(* Every await of a batch has a timeout (30 s per RPC call, 60 s per batch *)
(* of transactions, 20 s per Redis command), so a batch always goes on.    *)
Fairness == \A j \in Jobs : WF_vars(Work(j))

Spec == Init /\ [][Next]_vars
FairSpec == Spec /\ Fairness

-------------------------------------------------------------------------------
(***************************************************************************)
(* Properties                                                              *)
(***************************************************************************)
Working == {"begin", "collect", "setToken", "setMeta", "closing", "raised"}

(* The type invariant; beyond the types, a batch in progress has a current *)
(* token, and holds a collection exactly while it writes one.              *)
TypeOK ==
    /\ token \in [Mints -> Stored]
    /\ meta \in [Mints -> Stored]
    /\ status \in [Jobs -> {"none", "running", "completed", "lost"}]
    /\ admin \in [Jobs -> BOOLEAN]
    /\ force \in [Jobs -> BOOLEAN]
    /\ tokens \in [Jobs -> Seq(Mints)]
    /\ completed \in [Jobs -> Nat]
    /\ success \in [Jobs -> Seq(Mints)]
    /\ failed \in [Jobs -> Seq(Mints)]
    /\ pc \in [Jobs -> Working \union {"none", "done"}]
    /\ held \in [Jobs -> Stored]
    /\ deleter \in [Deleters -> [pc : {"idle", "token", "meta", "clear"},
                                 mint : Mints \union {None}]]
    /\ \A d \in Deleters : deleter[d].pc # "idle" => deleter[d].mint \in Mints
    /\ migrator \in [pc : {"idle", "next", "get", "set"}, todo : SUBSET Mints,
                     mint : Mints \union {None}, data : Stored]
    /\ migrator.pc \in {"get", "set"} => migrator.mint \in Mints

Elements(s) == {s[i] : i \in 1..Len(s)}

(* Tokens of the batch whose outcome is known.                             *)
Reported(j) == completed[j] + (IF pc[j] = "closing" THEN 1 ELSE 0)

(* The progress GET /collect/batch/<id>/status shows always adds up: the   *)
(* two lists hold, between them, one entry for each token of the batch     *)
(* whose outcome is known and for no other, through every way an iteration *)
(* can end (collected, refused, an exception before or after a write).     *)
BatchAccounting ==
    \A j \in Jobs :
      /\ completed[j] <= Len(tokens[j])
      /\ Len(success[j]) + Len(failed[j]) = Reported(j)
      /\ Elements(success[j]) \union Elements(failed[j])
           = {tokens[j][i] : i \in 1..Reported(j)}

(* A batch reported "completed" has dealt with every token of the request. *)
CompletedMeansAll ==
    \A j \in Jobs : status[j] = "completed" =>
      /\ completed[j] = Len(tokens[j])
      /\ Elements(success[j]) \union Elements(failed[j]) = Elements(tokens[j])

(* d may lie under a key of mint m: it is a collection of m that a batch   *)
(* really asked for, and its contents were emptied only on behalf of an    *)
(* administrator (force is refused to anyone else).                        *)
Genuine(m, d) ==
    d # None => /\ status[d.job] # "none"
                /\ d.idx <= Len(tokens[d.job])
                /\ tokens[d.job][d.idx] = m
                /\ d.valid \/ admin[d.job]

(* Whatever the interleaving of batches, deletions, the migration and      *)
(* restarts, no key ever holds another mint's collection, and a collection *)
(* below the success threshold is stored only for an administrator.        *)
StoreIntegrity == \A m \in Mints : Genuine(m, token[m]) /\ Genuine(m, meta[m])

(* What a batch in progress knows, at each point of its loop: it has a     *)
(* current token, and while it writes it holds a collection of that token, *)
(* valid unless forced.                                                    *)
WorkerInv ==
    \A j \in Jobs :
      /\ status[j] = "running" <=> pc[j] \in Working
      /\ status[j] = "completed" <=> pc[j] = "done"
      /\ status[j] = "none" => completed[j] = 0 /\ ~force[j] /\ tokens[j] = <<>>
      /\ force[j] => admin[j]
      /\ pc[j] = "begin" => completed[j] = 0
      /\ pc[j] = "done" => completed[j] = Len(tokens[j])
      /\ pc[j] \in Working \ {"begin"} => completed[j] < Len(tokens[j])
      /\ pc[j] \in {"setToken", "setMeta"} =>
           /\ held[j] \in Data
           /\ held[j].job = j
           /\ held[j].idx = completed[j] + 1
           /\ held[j].valid \/ force[j]

(* The metadata the migration is about to write comes from a token key.    *)
MigratorInv ==
    migrator.pc = "set" => migrator.data # None /\ Genuine(migrator.mint, migrator.data)

(* The inductive invariant.                                                *)
IInv == TypeOK /\ WorkerInv /\ BatchAccounting /\ StoreIntegrity /\ MigratorInv

(* A batch that was accepted is seen to end, unless the service restarts.  *)
BatchEnds == \A j \in Jobs : status[j] = "running" ~> status[j] # "running"

===============================================================================
