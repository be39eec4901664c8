--------------------------- MODULE TokenStoreProofs ---------------------------
(***************************************************************************)
(* Proofs about TokenStore, for any number of mints, batches, deletions    *)
(* and any batch size, and about what the readers of the store may rely    *)
(* on (TokenStoreViews).                                                   *)
(***************************************************************************)
EXTENDS TokenStoreViews, SequenceTheorems, TLAPS

(* A request's list of tokens is a sequence of mints.                      *)
LEMMA ListsAreSeqs == \A ts \in Lists : ts \in Seq(Mints)
  BY BatchAssumption, SeqDef DEF Lists

(* Appending an outcome adds exactly its mint to a list's elements.        *)
LEMMA ElementsAppend ==
  ASSUME NEW S, NEW s \in Seq(S), NEW e \in S
  PROVE  Elements(Append(s, e)) = Elements(s) \union {e}
<1>1. /\ Append(s, e) \in Seq(S)
      /\ Len(Append(s, e)) = Len(s) + 1
      /\ \A i \in 1 .. Len(s) : Append(s, e)[i] = s[i]
      /\ Append(s, e)[Len(s) + 1] = e
  BY AppendProperties
<1>2. Len(s) \in Nat
  BY LenProperties
<1>3. ASSUME NEW x PROVE x \in Elements(Append(s, e)) <=> x \in Elements(s) \union {e}
  BY <1>1, <1>2 DEF Elements
<1> QED BY <1>3

(* The current token of a batch inside its loop is a mint of its list.     *)
LEMMA CurrentIsMint ==
  ASSUME TypeOK, WorkerInv, NEW j \in Jobs, pc[j] \in Working \ {"begin"}
  PROVE  /\ Current(j) \in Mints
         /\ completed[j] + 1 \in 1 .. Len(tokens[j])
         /\ completed[j] \in Nat /\ Len(tokens[j]) \in Nat
<1>1. completed[j] \in Nat /\ tokens[j] \in Seq(Mints)
  BY DEF TypeOK
<1>2. Len(tokens[j]) \in Nat
  BY <1>1, LenProperties
<1>3. completed[j] < Len(tokens[j])
  BY DEF WorkerInv
<1>4. completed[j] + 1 \in 1 .. Len(tokens[j])
  BY <1>1, <1>2, <1>3
<1> QED BY <1>1, <1>2, <1>4, ElementOfSeq DEF Current

LEMMA InitIInv == Init => IInv
<1> SUFFICES ASSUME Init PROVE IInv
  OBVIOUS
<1> USE NoneAssumption DEF Init
<1>0. <<>> \in Seq(Mints) /\ Len(<<>>) = 0
  BY EmptySeq
<1>1. TypeOK
  BY <1>0 DEF TypeOK, Stored, Working
<1>2. WorkerInv
  BY <1>0 DEF WorkerInv, Working
<1>3. BatchAccounting
  BY <1>0 DEF BatchAccounting, Reported, Elements
<1>4. StoreIntegrity /\ MigratorInv
  BY DEF StoreIntegrity, MigratorInv, Genuine
<1> QED BY <1>1, <1>2, <1>3, <1>4 DEF IInv

(* The types survive every step.                                           *)
LEMMA NextTypeOK == IInv /\ [Next]_vars => TypeOK'
<1> SUFFICES ASSUME IInv, [Next]_vars PROVE TypeOK'
  OBVIOUS
<1> USE NoneAssumption DEF TypeOK, Working, redisVars, jobVars, workerVars
<1>0. TypeOK /\ WorkerInv /\ MigratorInv
  BY DEF IInv
<1>1. ASSUME NEW j \in Jobs, Submit(j) PROVE TypeOK'
  BY <1>0, <1>1, ListsAreSeqs DEF Submit
<1>2. ASSUME NEW j \in Jobs, Begin(j) PROVE TypeOK'
  BY <1>0, <1>2 DEF Begin, LoopHead, Stored
<1>3. ASSUME NEW j \in Jobs, CollectReturns(j) PROVE TypeOK'
  <2>1. completed[j] + 1 \in Nat \ {0}
    BY <1>0
  <2>2. \A v \in BOOLEAN : [job |-> j, idx |-> completed[j] + 1, valid |-> v] \in Stored
    BY <2>1 DEF Stored, Data
  <2> QED BY <1>0, <1>3, <2>2 DEF CollectReturns
<1>4. ASSUME NEW j \in Jobs, CollectRefuses(j) PROVE TypeOK'
  <2>1. Current(j) \in Mints
    BY <1>0, <1>4, CurrentIsMint DEF CollectRefuses
  <2>2. Append(failed[j], Current(j)) \in Seq(Mints)
    BY <1>0, <2>1, AppendProperties
  <2> QED BY <1>0, <1>4, <2>2 DEF CollectRefuses
<1>5. ASSUME NEW j \in Jobs, CollectRaises(j) PROVE TypeOK'
  BY <1>0, <1>5 DEF CollectRaises
<1>6. ASSUME NEW j \in Jobs, SetToken(j) PROVE TypeOK'
  BY <1>0, <1>6 DEF SetToken, Stored
<1>7. ASSUME NEW j \in Jobs, SetTokenRaises(j) PROVE TypeOK'
  BY <1>0, <1>7 DEF SetTokenRaises, Stored
<1>8. ASSUME NEW j \in Jobs, SetMeta(j) PROVE TypeOK'
  <2>1. Current(j) \in Mints
    BY <1>0, <1>8, CurrentIsMint DEF SetMeta
  <2>2. Append(success[j], Current(j)) \in Seq(Mints)
    BY <1>0, <2>1, AppendProperties
  <2> QED BY <1>0, <1>8, <2>2 DEF SetMeta, Stored
<1>9. ASSUME NEW j \in Jobs, SetMetaRaises(j) PROVE TypeOK'
  BY <1>0, <1>9 DEF SetMetaRaises, Stored
<1>10. ASSUME NEW j \in Jobs, Count(j) PROVE TypeOK'
  BY <1>0, <1>10 DEF Count, LoopHead, Stored
<1>11. ASSUME NEW j \in Jobs, CountFailure(j) PROVE TypeOK'
  <2>1. Current(j) \in Mints
    BY <1>0, <1>11, CurrentIsMint DEF CountFailure
  <2>2. Append(failed[j], Current(j)) \in Seq(Mints)
    BY <1>0, <2>1, AppendProperties
  <2> QED BY <1>0, <1>11, <2>2 DEF CountFailure, LoopHead, Stored
<1>12. ASSUME NEW d \in Deleters, DeleteBegin(d) PROVE TypeOK'
  BY <1>0, <1>12 DEF DeleteBegin
<1>13. ASSUME NEW d \in Deleters, DeleteToken(d) PROVE TypeOK'
  BY <1>0, <1>13 DEF DeleteToken, Stored
<1>14. ASSUME NEW d \in Deleters, DeleteMeta(d) PROVE TypeOK'
  BY <1>0, <1>14 DEF DeleteMeta, Stored
<1>15. ASSUME NEW d \in Deleters, DeleteRaises(d) PROVE TypeOK'
  BY <1>0, <1>15 DEF DeleteRaises, Stored
<1>16. ASSUME NEW d \in Deleters, DeleteReturns(d) PROVE TypeOK'
  BY <1>0, <1>16 DEF DeleteReturns
<1>17. CASE Migrate
  <2>1. CASE MigrateKeys
    BY <1>0, <2>1 DEF MigrateKeys
  <2>2. CASE MigrateNext
    <3>1. CASE migrator' = [migrator EXCEPT !.pc = "idle", !.mint = None]
      BY <1>0, <2>2, <3>1 DEF MigrateNext
    <3>2. ASSUME NEW m \in migrator.todo,
                 migrator' = [migrator EXCEPT !.todo = @ \ {m}, !.mint = m,
                                !.pc = IF meta[m] = None THEN "get" ELSE "next"]
          PROVE  TypeOK'
      <4>1. m \in Mints
        BY <1>0
      <4>2. migrator' \in [pc : {"next", "get"}, todo : SUBSET Mints,
                           mint : Mints, data : Stored]
        BY <1>0, <3>2, <4>1
      <4> QED BY <1>0, <2>2, <4>2 DEF MigrateNext
    <3> QED BY <2>2, <3>1, <3>2 DEF MigrateNext
  <2>3. CASE MigrateGet
    BY <1>0, <2>3 DEF MigrateGet, Stored
  <2>4. CASE MigrateSet
    BY <1>0, <2>4 DEF MigrateSet, Stored
  <2>5. CASE MigrateDies
    BY <1>0, <2>5 DEF MigrateDies, Stored
  <2> QED BY <1>17, <2>1, <2>2, <2>3, <2>4, <2>5 DEF Migrate
<1>18. ASSUME NEW m \in Mints, ExpireToken(m) \/ ExpireMeta(m) PROVE TypeOK'
  BY <1>0, <1>18 DEF ExpireToken, ExpireMeta, Stored
<1>19. CASE Restart
  BY <1>0, <1>19, EmptySeq DEF Restart, Stored
<1>20. CASE UNCHANGED vars
  BY <1>0, <1>20 DEF vars
<1> QED
  BY <1>1, <1>2, <1>3, <1>4, <1>5, <1>6, <1>7, <1>8, <1>9, <1>10, <1>11, <1>12,
     <1>13, <1>14, <1>15, <1>16, <1>17, <1>18, <1>19, <1>20 DEF Next, Work

(* Each batch keeps knowing where it is in its list and what it holds.     *)
LEMMA NextWorkerInv == IInv /\ [Next]_vars => WorkerInv'
<1> SUFFICES ASSUME IInv, [Next]_vars PROVE WorkerInv'
  OBVIOUS
<1> USE DEF WorkerInv, Working, redisVars, jobVars, workerVars
<1>0. TypeOK /\ WorkerInv
  BY DEF IInv
<1>a. \A j \in Jobs : completed[j] \in Nat /\ Len(tokens[j]) \in Nat
  BY <1>0, LenProperties DEF TypeOK
<1>1. ASSUME NEW j \in Jobs, Submit(j) PROVE WorkerInv'
  BY <1>0, <1>1 DEF Submit, TypeOK
<1>2. ASSUME NEW j \in Jobs, Begin(j) PROVE WorkerInv'
  BY <1>0, <1>a, <1>2 DEF Begin, LoopHead, TypeOK
<1>3. ASSUME NEW j \in Jobs, CollectReturns(j) PROVE WorkerInv'
  <2>1. PICK v \in BOOLEAN :
          /\ v \/ force[j]
          /\ held' = [held EXCEPT ![j] = [job |-> j, idx |-> completed[j] + 1, valid |-> v]]
    BY <1>3 DEF CollectReturns
  <2>2. [job |-> j, idx |-> completed[j] + 1, valid |-> v] \in Data
    BY <1>a DEF Data
  <2>3. /\ held'[j] \in Data /\ held'[j].job = j /\ held'[j].idx = completed[j] + 1
        /\ held'[j].valid \/ force[j]
        /\ \A k \in Jobs \ {j} : held'[k] = held[k]
    BY <1>0, <2>1, <2>2 DEF TypeOK
  <2> QED BY <1>0, <1>3, <2>3 DEF CollectReturns, TypeOK
<1>4. ASSUME NEW j \in Jobs,
             CollectRefuses(j) \/ CollectRaises(j) \/ SetToken(j) \/ SetTokenRaises(j)
               \/ SetMeta(j) \/ SetMetaRaises(j)
      PROVE  WorkerInv'
  BY <1>0, <1>4 DEF CollectRefuses, CollectRaises, SetToken, SetTokenRaises, SetMeta,
                    SetMetaRaises, TypeOK
<1>5. ASSUME NEW j \in Jobs, Count(j) \/ CountFailure(j) PROVE WorkerInv'
  <2>1. /\ completed' = [completed EXCEPT ![j] = @ + 1]
        /\ LoopHead(j, completed[j] + 1)
        /\ pc[j] \in {"closing", "raised"}
        /\ UNCHANGED <<admin, force, tokens>>
    BY <1>5 DEF Count, CountFailure
  <2>2. completed[j] < Len(tokens[j])
    BY <1>0, <2>1
  <2> QED BY <1>0, <1>a, <2>1, <2>2 DEF LoopHead, TypeOK
<1>6. ASSUME UNCHANGED <<jobVars, workerVars>> PROVE WorkerInv'
  BY <1>0, <1>6
<1>7. CASE Restart
  BY <1>0, <1>7 DEF Restart, TypeOK
<1>8. ASSUME NEW d \in Deleters,
             DeleteBegin(d) \/ DeleteToken(d) \/ DeleteMeta(d)
               \/ DeleteRaises(d) \/ DeleteReturns(d)
      PROVE  WorkerInv'
  BY <1>6, <1>8 DEF DeleteBegin, DeleteToken, DeleteMeta, DeleteRaises, DeleteReturns
<1>9. CASE Migrate
  BY <1>6, <1>9 DEF Migrate, MigrateKeys, MigrateNext, MigrateGet, MigrateSet, MigrateDies
<1>10. ASSUME NEW m \in Mints, ExpireToken(m) \/ ExpireMeta(m) PROVE WorkerInv'
  BY <1>6, <1>10 DEF ExpireToken, ExpireMeta
<1>11. CASE UNCHANGED vars
  BY <1>6, <1>11 DEF vars
<1> QED
  BY <1>1, <1>2, <1>3, <1>4, <1>5, <1>7, <1>8, <1>9, <1>10, <1>11 DEF Next, Work

(* The accounting of one batch, and what one more outcome does to it.      *)
Accounts(j) ==
    /\ completed[j] <= Len(tokens[j])
    /\ Len(success[j]) + Len(failed[j]) = Reported(j)
    /\ Elements(success[j]) \union Elements(failed[j])
         = {tokens[j][i] : i \in 1..Reported(j)}

LEMMA OneMoreReported ==
  ASSUME TypeOK, WorkerInv, NEW j \in Jobs, pc[j] \in Working \ {"begin"}
  PROVE  {tokens[j][i] : i \in 1..(completed[j] + 1)}
           = {tokens[j][i] : i \in 1..completed[j]} \union {Current(j)}
<1>1. completed[j] \in Nat
  BY CurrentIsMint
<1>2. 1..(completed[j] + 1) = (1..completed[j]) \union {completed[j] + 1}
  BY <1>1
<1> QED BY <1>2 DEF Current

(* The three ways an outcome is reported keep the accounts of the batch.   *)
LEMMA ReportKeepsAccounts ==
  ASSUME TypeOK, WorkerInv, NEW j \in Jobs, Accounts(j),
         CollectRefuses(j) \/ SetMeta(j) \/ CountFailure(j)
  PROVE  Accounts(j)'
<1>1. pc[j] \in {"collect", "setMeta", "raised"}
  BY DEF CollectRefuses, SetMeta, CountFailure
<1>2. /\ Current(j) \in Mints
      /\ completed[j] \in Nat /\ Len(tokens[j]) \in Nat
      /\ completed[j] + 1 <= Len(tokens[j])
  BY <1>1, CurrentIsMint DEF Working
<1>3. success[j] \in Seq(Mints) /\ failed[j] \in Seq(Mints)
  BY DEF TypeOK
<1>4. /\ Len(Append(success[j], Current(j))) = Len(success[j]) + 1
      /\ Len(Append(failed[j], Current(j))) = Len(failed[j]) + 1
      /\ Len(success[j]) \in Nat /\ Len(failed[j]) \in Nat
  BY <1>2, <1>3, AppendProperties, LenProperties
<1>5. /\ Elements(Append(success[j], Current(j))) = Elements(success[j]) \union {Current(j)}
      /\ Elements(Append(failed[j], Current(j))) = Elements(failed[j]) \union {Current(j)}
  BY <1>2, <1>3, ElementsAppend
<1>6. {tokens[j][i] : i \in 1..(completed[j] + 1)}
        = {tokens[j][i] : i \in 1..completed[j]} \union {Current(j)}
  BY <1>1, OneMoreReported DEF Working
<1>7. Reported(j) = completed[j]
  BY <1>1, <1>2 DEF Reported
<1>8. /\ tokens' = tokens
      /\ Reported(j)' = completed[j] + 1
      /\ completed'[j] \in {completed[j], completed[j] + 1}
  BY <1>1, <1>2 DEF CollectRefuses, SetMeta, CountFailure, LoopHead, Reported, TypeOK
<1>9. \/ success'[j] = Append(success[j], Current(j)) /\ failed'[j] = failed[j]
      \/ failed'[j] = Append(failed[j], Current(j)) /\ success'[j] = success[j]
  BY DEF CollectRefuses, SetMeta, CountFailure, TypeOK
<1>10. completed'[j] <= Len(tokens'[j])
  BY <1>2, <1>8
<1>11. Len(success'[j]) + Len(failed'[j]) = Reported(j)'
  <2>1. Len(success[j]) + Len(failed[j]) = completed[j]
    BY <1>7 DEF Accounts
  <2>2. Reported(j)' = completed[j] + 1
    BY <1>8
  <2>3. \/ /\ Len(success'[j]) = Len(success[j]) + 1
           /\ Len(failed'[j]) = Len(failed[j])
        \/ /\ Len(success'[j]) = Len(success[j])
           /\ Len(failed'[j]) = Len(failed[j]) + 1
    BY <1>4, <1>9
  <2>4. Len(success[j]) \in Nat /\ Len(failed[j]) \in Nat
    BY <1>4
  <2>5. Len(success'[j]) + Len(failed'[j]) = (Len(success[j]) + Len(failed[j])) + 1
    <3>1. PICK a \in Nat, b \in Nat : a = Len(success[j]) /\ b = Len(failed[j])
      BY <2>4
    <3>2. PICK c, d : c = Len(success'[j]) /\ d = Len(failed'[j])
      OBVIOUS
    <3>3. (c = a + 1 /\ d = b) \/ (c = a /\ d = b + 1)
      BY <2>3, <3>1, <3>2
    <3>4. c + d = (a + b) + 1
      BY <3>3
    <3> QED BY <3>1, <3>2, <3>4
  <2> QED BY <2>1, <2>2, <2>5
<1>12. Elements(success'[j]) \union Elements(failed'[j])
         = {tokens[j][i] : i \in 1..(completed[j] + 1)}
  <2>1. Elements(success[j]) \union Elements(failed[j])
          = {tokens[j][i] : i \in 1..completed[j]}
    BY <1>7 DEF Accounts
  <2>2. Elements(success'[j]) \union Elements(failed'[j])
          = (Elements(success[j]) \union Elements(failed[j])) \union {Current(j)}
    BY <1>5, <1>9
  <2> QED BY <1>6, <2>1, <2>2
<1>13. Elements(success[j])' = Elements(success'[j]) /\ Elements(failed[j])' = Elements(failed'[j])
  BY DEF Elements
<1> QED BY <1>8, <1>10, <1>11, <1>12, <1>13 DEF Accounts

(* A step that touches neither the lists nor what is reported keeps the    *)
(* accounts.                                                               *)
LEMMA SameAccounts ==
  ASSUME NEW j \in Jobs, Accounts(j), Reported(j)' = Reported(j),
         completed'[j] <= Len(tokens'[j]), tokens'[j] = tokens[j],
         success'[j] = success[j], failed'[j] = failed[j]
  PROVE  Accounts(j)'
  BY DEF Accounts, Elements

LEMMA NextAccounting == IInv /\ [Next]_vars => BatchAccounting'
<1> SUFFICES ASSUME IInv, [Next]_vars, NEW k \in Jobs PROVE Accounts(k)'
  BY DEF BatchAccounting, Accounts
<1> USE DEF redisVars, jobVars, workerVars
<1>0. TypeOK /\ WorkerInv /\ Accounts(k)
  BY DEF IInv, BatchAccounting, Accounts
<1>a. \A j \in Jobs : completed[j] \in Nat /\ Len(tokens[j]) \in Nat
  BY <1>0, LenProperties DEF TypeOK
<1>b. completed[k] <= Len(tokens[k])
  BY <1>0 DEF Accounts
<1>1. ASSUME NEW j \in Jobs, Submit(j) PROVE Accounts(k)'
  <2>1. CASE k = j
    <3>1. status[j] = "none" /\ pc[j] # "closing"
      BY <1>0, <1>1 DEF Submit, WorkerInv, Working, TypeOK
    <3>2. completed[j] = 0 /\ Reported(j) = 0
      BY <1>0, <3>1 DEF WorkerInv, Reported
    <3>3. /\ UNCHANGED <<completed, success, failed>>
          /\ pc'[j] = "begin"
          /\ tokens'[j] \in Seq(Mints)
      BY <1>0, <1>1, ListsAreSeqs DEF Submit, TypeOK
    <3>4. Reported(j)' = 0 /\ completed'[j] = 0
      BY <3>2, <3>3 DEF Reported
    <3>5. Elements(success[j])' = Elements(success[j]) /\ Elements(failed[j])' = Elements(failed[j])
      BY <3>3 DEF Elements
    <3>6. Elements(success[j]) \union Elements(failed[j]) = {}
      BY <1>0, <2>1, <3>2 DEF Accounts
    <3>7. Len(success'[j]) + Len(failed'[j]) = 0
      BY <1>0, <2>1, <3>2, <3>3 DEF Accounts
    <3>8. 0 <= Len(tokens'[j])
      BY <3>3, LenProperties
    <3>9. {tokens'[j][i] : i \in 1..0} = {}
      OBVIOUS
    <3> QED BY <2>1, <3>4, <3>5, <3>6, <3>7, <3>8, <3>9 DEF Accounts
  <2>2. CASE k # j
    BY <1>0, <1>1, <1>b, <2>2, SameAccounts DEF Submit, Reported, TypeOK
  <2> QED BY <2>1, <2>2
<1>2. ASSUME NEW j \in Jobs, Begin(j) PROVE Accounts(k)'
  BY <1>0, <1>a, <1>b, <1>2, SameAccounts DEF Begin, LoopHead, Reported, TypeOK, WorkerInv
<1>3. ASSUME NEW j \in Jobs,
             CollectReturns(j) \/ CollectRaises(j) \/ SetToken(j) \/ SetTokenRaises(j)
               \/ SetMetaRaises(j)
      PROVE  Accounts(k)'
  BY <1>0, <1>b, <1>3, SameAccounts DEF CollectReturns, CollectRaises, SetToken,
     SetTokenRaises, SetMetaRaises, Reported, TypeOK
<1>4. ASSUME NEW j \in Jobs, CollectRefuses(j) \/ SetMeta(j) \/ CountFailure(j)
      PROVE  Accounts(k)'
  <2>1. CASE k = j
    BY <1>0, <1>4, <2>1, ReportKeepsAccounts
  <2>2. CASE k # j
    BY <1>0, <1>b, <1>4, <2>2, SameAccounts
       DEF CollectRefuses, SetMeta, CountFailure, LoopHead, Reported, TypeOK
  <2> QED BY <2>1, <2>2
<1>5. ASSUME NEW j \in Jobs, Count(j) PROVE Accounts(k)'
  <2>1. Reported(k)' = Reported(k)
    BY <1>0, <1>a, <1>5 DEF Count, LoopHead, Reported, TypeOK
  <2>2. completed'[k] <= Len(tokens'[k])
    BY <1>0, <1>a, <1>b, <1>5, CurrentIsMint DEF Count, TypeOK, Working
  <2> QED BY <1>0, <1>5, <2>1, <2>2, SameAccounts DEF Count
<1>6. ASSUME UNCHANGED <<jobVars, workerVars>> PROVE Accounts(k)'
  BY <1>0, <1>b, <1>6, SameAccounts DEF Reported
<1>7. CASE Restart
  <2>1. /\ completed'[k] = 0 /\ success'[k] = <<>> /\ failed'[k] = <<>>
        /\ pc'[k] = "none" /\ tokens'[k] = tokens[k]
    BY <1>7 DEF Restart
  <2>2. Reported(k)' = 0
    BY <2>1 DEF Reported
  <2>3. Elements(success[k])' = {} /\ Elements(failed[k])' = {}
    BY <2>1, EmptySeq DEF Elements
  <2> QED BY <1>a, <2>1, <2>2, <2>3, EmptySeq DEF Accounts
<1>8. ASSUME NEW d \in Deleters,
             DeleteBegin(d) \/ DeleteToken(d) \/ DeleteMeta(d)
               \/ DeleteRaises(d) \/ DeleteReturns(d)
      PROVE  Accounts(k)'
  BY <1>6, <1>8 DEF DeleteBegin, DeleteToken, DeleteMeta, DeleteRaises, DeleteReturns
<1>9. CASE Migrate
  BY <1>6, <1>9 DEF Migrate, MigrateKeys, MigrateNext, MigrateGet, MigrateSet, MigrateDies
<1>10. ASSUME NEW m \in Mints, ExpireToken(m) \/ ExpireMeta(m) PROVE Accounts(k)'
  BY <1>6, <1>10 DEF ExpireToken, ExpireMeta
<1>11. CASE UNCHANGED vars
  BY <1>6, <1>11 DEF vars
<1> QED
  BY <1>1, <1>2, <1>3, <1>4, <1>5, <1>7, <1>8, <1>9, <1>10, <1>11 DEF Next, Work

(* What a batch holds while it writes is a genuine collection of its       *)
(* current token.                                                          *)
LEMMA HeldIsGenuine ==
  ASSUME TypeOK, WorkerInv, NEW j \in Jobs, pc[j] \in {"setToken", "setMeta"}
  PROVE  held[j] # None /\ Genuine(Current(j), held[j])
<1>1. /\ held[j] \in Data /\ held[j].job = j /\ held[j].idx = completed[j] + 1
      /\ held[j].valid \/ force[j]
      /\ force[j] => admin[j]
      /\ status[j] = "running"
  BY DEF WorkerInv, Working
<1>2. completed[j] + 1 \in 1 .. Len(tokens[j])
  BY CurrentIsMint DEF Working
<1> QED BY <1>1, <1>2, NoneAssumption DEF Genuine, Current

(* A request, once made, does not change, so a collection stays genuine.   *)
LEMMA GenuineStays ==
  ASSUME IInv, Next, NEW m, NEW d \in Stored, Genuine(m, d)
  PROVE  Genuine(m, d)'
<1>1. \A j \in Jobs : status[j] # "none" =>
        status'[j] # "none" /\ tokens'[j] = tokens[j] /\ admin'[j] = admin[j]
  <2> USE DEF redisVars, jobVars, workerVars
  <2>0. TypeOK /\ WorkerInv
    BY DEF IInv
  <2>1. ASSUME NEW j \in Jobs, Submit(j) PROVE <1>1!:
    BY <2>0, <2>1 DEF Submit, TypeOK
  <2>2. ASSUME NEW j \in Jobs, Work(j) PROVE <1>1!:
    BY <2>0, <2>2 DEF Work, Begin, CollectReturns, CollectRefuses, CollectRaises,
       SetToken, SetTokenRaises, SetMeta, SetMetaRaises, Count, CountFailure, LoopHead, TypeOK
  <2>3. ASSUME UNCHANGED jobVars PROVE <1>1!:
    BY <2>3
  <2>4. CASE Restart
    BY <2>0, <2>4 DEF Restart, TypeOK
  <2>5. ASSUME NEW e \in Deleters,
               DeleteBegin(e) \/ DeleteToken(e) \/ DeleteMeta(e)
                 \/ DeleteRaises(e) \/ DeleteReturns(e)
        PROVE  <1>1!:
    BY <2>3, <2>5 DEF DeleteBegin, DeleteToken, DeleteMeta, DeleteRaises, DeleteReturns
  <2>6. CASE Migrate
    BY <2>3, <2>6 DEF Migrate, MigrateKeys, MigrateNext, MigrateGet, MigrateSet, MigrateDies
  <2>7. ASSUME NEW n \in Mints, ExpireToken(n) \/ ExpireMeta(n) PROVE <1>1!:
    BY <2>3, <2>7 DEF ExpireToken, ExpireMeta
  <2> QED BY <2>1, <2>2, <2>4, <2>5, <2>6, <2>7 DEF Next
<1>2. CASE d = None
  BY <1>2 DEF Genuine
<1>3. CASE d \in Data
  BY <1>1, <1>3 DEF Genuine, Data
<1> QED BY <1>2, <1>3 DEF Stored

(* Every step writes under a key what was there, nothing, what a batch     *)
(* holds for that mint, or, for metadata, what the migration read.         *)
LEMMA WhatIsWritten ==
  ASSUME IInv, Next, NEW m \in Mints
  PROVE  /\ token'[m] \in {token[m], None} \/ Genuine(m, token'[m])
         /\ meta'[m] \in {meta[m], None} \/ Genuine(m, meta'[m])
         /\ token'[m] \in Stored /\ meta'[m] \in Stored
<1> USE DEF redisVars, jobVars, workerVars
<1>0. TypeOK /\ WorkerInv /\ MigratorInv
  BY DEF IInv
<1>a. TypeOK'
  BY NextTypeOK
<1>b. token'[m] \in Stored /\ meta'[m] \in Stored
  BY <1>a DEF TypeOK
<1> DEFINE Written == /\ token'[m] \in {token[m], None} \/ Genuine(m, token'[m])
                      /\ meta'[m] \in {meta[m], None} \/ Genuine(m, meta'[m])
<1> SUFFICES Written
  BY <1>b
<1>1. ASSUME UNCHANGED redisVars PROVE Written
  BY <1>1
<1>2. ASSUME NEW j \in Jobs, SetToken(j) \/ SetTokenRaises(j) PROVE Written
  <2>1. Genuine(Current(j), held[j])
    BY <1>0, <1>2, HeldIsGenuine DEF SetToken, SetTokenRaises
  <2>2. meta'[m] = meta[m] /\ (token'[m] = token[m] \/ (m = Current(j) /\ token'[m] = held[j]))
    BY <1>0, <1>2 DEF SetToken, SetTokenRaises, TypeOK
  <2> QED BY <2>1, <2>2
<1>3. ASSUME NEW j \in Jobs, SetMeta(j) \/ SetMetaRaises(j) PROVE Written
  <2>1. Genuine(Current(j), held[j])
    BY <1>0, <1>3, HeldIsGenuine DEF SetMeta, SetMetaRaises
  <2>2. token'[m] = token[m] /\ (meta'[m] = meta[m] \/ (m = Current(j) /\ meta'[m] = held[j]))
    BY <1>0, <1>3 DEF SetMeta, SetMetaRaises, TypeOK
  <2> QED BY <2>1, <2>2
<1>4. ASSUME NEW d \in Deleters,
             DeleteBegin(d) \/ DeleteToken(d) \/ DeleteMeta(d)
               \/ DeleteRaises(d) \/ DeleteReturns(d)
      PROVE  Written
  BY <1>0, <1>4 DEF DeleteBegin, DeleteToken, DeleteMeta, DeleteRaises, DeleteReturns, TypeOK
<1>5. CASE Migrate
  <2>1. CASE MigrateKeys \/ MigrateNext \/ MigrateGet
    <3>1. token' = token /\ meta' = meta
      BY <2>1 DEF MigrateKeys, MigrateNext, MigrateGet
    <3> QED BY <3>1
  <2>2. CASE MigrateSet \/ MigrateDies
    <3>1. \/ token' = token /\ meta' = meta
          \/ /\ migrator.pc = "set" /\ token' = token
             /\ meta' = [meta EXCEPT ![migrator.mint] = migrator.data]
      BY <2>2 DEF MigrateSet, MigrateDies
    <3>2. migrator.pc = "set" => Genuine(migrator.mint, migrator.data)
      BY <1>0 DEF MigratorInv
    <3>3. CASE token' = token /\ meta' = meta
      BY <3>3
    <3>4. CASE /\ migrator.pc = "set" /\ token' = token
               /\ meta' = [meta EXCEPT ![migrator.mint] = migrator.data]
      <4>1. meta'[m] = IF m = migrator.mint THEN migrator.data ELSE meta[m]
        BY <1>0, <3>4 DEF TypeOK
      <4> QED BY <3>2, <3>4, <4>1
    <3> QED BY <3>1, <3>3, <3>4
  <2> QED BY <1>5, <2>1, <2>2 DEF Migrate
<1>6. ASSUME NEW n \in Mints, ExpireToken(n) \/ ExpireMeta(n) PROVE Written
  BY <1>0, <1>6 DEF ExpireToken, ExpireMeta, TypeOK
<1>7. CASE Restart
  <2>1. token' = token /\ meta' = meta
    BY <1>7 DEF Restart
  <2> QED BY <2>1
<1>8. ASSUME NEW j \in Jobs,
             Submit(j) \/ Begin(j) \/ CollectReturns(j) \/ CollectRefuses(j)
               \/ CollectRaises(j) \/ Count(j) \/ CountFailure(j)
      PROVE  Written
  BY <1>1, <1>8 DEF Submit, Begin, CollectReturns, CollectRefuses, CollectRaises,
                    Count, CountFailure
<1> QED BY <1>2, <1>3, <1>4, <1>5, <1>6, <1>7, <1>8 DEF Next, Work

LEMMA NextIntegrity == IInv /\ [Next]_vars => StoreIntegrity' /\ MigratorInv'
<1> SUFFICES ASSUME IInv, [Next]_vars PROVE StoreIntegrity' /\ MigratorInv'
  OBVIOUS
<1>0. TypeOK /\ WorkerInv /\ MigratorInv /\ StoreIntegrity
  BY DEF IInv
<1>1. CASE UNCHANGED vars
  BY <1>0, <1>1 DEF vars, redisVars, jobVars, workerVars, StoreIntegrity, MigratorInv, Genuine
<1>2. CASE Next
  <2>1. ASSUME NEW m \in Mints PROVE Genuine(m, token[m])' /\ Genuine(m, meta[m])'
    <3>1. Genuine(m, token[m]) /\ Genuine(m, meta[m]) /\ Genuine(m, None)
      BY <1>0 DEF StoreIntegrity, Genuine
    <3>2. Genuine(m, token'[m]) /\ Genuine(m, meta'[m])
      BY <1>2, <3>1, WhatIsWritten
    <3>3. token'[m] \in Stored /\ meta'[m] \in Stored
      BY <1>2, WhatIsWritten
    <3> QED BY <1>2, <3>2, <3>3, GenuineStays DEF Genuine
  <2>2. MigratorInv'
    <3>1. CASE migrator' = migrator
      <4>1. SUFFICES ASSUME migrator.pc = "set"
                     PROVE  Genuine(migrator.mint, migrator.data)'
        BY <1>0, <3>1 DEF MigratorInv
      <4>2. Genuine(migrator.mint, migrator.data) /\ migrator.data \in Stored
        BY <1>0, <4>1 DEF MigratorInv, TypeOK
      <4> QED BY <1>2, <3>1, <4>2, GenuineStays DEF Genuine
    <3>2. CASE MigrateGet
      <4>1. migrator.mint \in Mints
        BY <1>0, <3>2 DEF MigrateGet, TypeOK
      <4>2. /\ migrator'.mint = migrator.mint
            /\ migrator'.data = token[migrator.mint]
            /\ migrator'.pc = "set" => token[migrator.mint] # None
        BY <1>0, <3>2 DEF MigrateGet, TypeOK
      <4>3. Genuine(migrator.mint, token[migrator.mint]) /\ token[migrator.mint] \in Stored
        BY <1>0, <4>1 DEF StoreIntegrity, TypeOK
      <4>4. UNCHANGED jobVars
        BY <3>2 DEF MigrateGet
      <4> QED BY <4>2, <4>3, <4>4 DEF MigratorInv, Genuine, jobVars
    <3>3. CASE MigrateKeys \/ MigrateNext \/ MigrateSet \/ MigrateDies
      <4>1. migrator'.pc \in {"next", "idle", "get"}
        <5>1. CASE MigrateKeys
          BY <1>0, <5>1 DEF MigrateKeys, TypeOK
        <5>2. CASE MigrateNext
          BY <1>0, <5>2 DEF MigrateNext, TypeOK
        <5>3. CASE MigrateSet
          BY <1>0, <5>3 DEF MigrateSet, TypeOK
        <5>4. CASE MigrateDies
          BY <1>0, <5>4 DEF MigrateDies
        <5> QED BY <3>3, <5>1, <5>2, <5>3, <5>4
      <4> QED BY <4>1 DEF MigratorInv
    <3>4. migrator' = migrator \/ Migrate
      BY <1>2 DEF Next, Work, Submit, Begin, CollectReturns, CollectRefuses, CollectRaises,
         SetToken, SetTokenRaises, SetMeta, SetMetaRaises, Count, CountFailure,
         DeleteBegin, DeleteToken, DeleteMeta, DeleteRaises, DeleteReturns,
         ExpireToken, ExpireMeta, Restart
    <3> QED BY <3>1, <3>2, <3>3, <3>4 DEF Migrate
  <2> QED BY <2>1, <2>2 DEF StoreIntegrity
<1> QED BY <1>1, <1>2

-------------------------------------------------------------------------------

(* The strengthened invariant holds in every reachable state.              *)
THEOREM InductiveInvariant == Spec => []IInv
<1>1. IInv /\ [Next]_vars => IInv'
  BY NextTypeOK, NextWorkerInv, NextAccounting, NextIntegrity DEF IInv
<1> QED BY InitIInv, <1>1, PTL DEF Spec

(* Types: every variable keeps its type, a deletion or a migration in      *)
(* progress has a mint.                                                    *)
THEOREM TypeCorrect == Spec => []TypeOK
<1>1. IInv => TypeOK
  BY DEF IInv
<1> QED BY <1>1, InductiveInvariant, PTL

(* The polled progress of every batch always adds up.                      *)
THEOREM AccountsAddUp == Spec => []BatchAccounting
<1>1. IInv => BatchAccounting
  BY DEF IInv
<1> QED BY <1>1, InductiveInvariant, PTL

(* "completed" means every token of the request was dealt with.            *)
THEOREM CompletedIsComplete == Spec => []CompletedMeansAll
<1>1. ASSUME IInv, NEW j \in Jobs, status[j] = "completed"
      PROVE  /\ completed[j] = Len(tokens[j])
             /\ Elements(success[j]) \union Elements(failed[j]) = Elements(tokens[j])
  <2>1. pc[j] = "done" /\ completed[j] = Len(tokens[j])
    BY <1>1 DEF IInv, WorkerInv
  <2>2. completed[j] \in Nat
    BY <1>1 DEF IInv, TypeOK
  <2>3. Reported(j) = Len(tokens[j])
    BY <2>1, <2>2 DEF Reported
  <2> QED BY <1>1, <2>1, <2>3 DEF IInv, BatchAccounting, Elements
<1>2. IInv => CompletedMeansAll
  BY <1>1 DEF CompletedMeansAll
<1> QED BY <1>2, InductiveInvariant, PTL

(* No key holds another mint's collection, and an emptied collection is    *)
(* stored only for an administrator.                                       *)
THEOREM StoreIsGenuine == Spec => []StoreIntegrity
<1>1. IInv => StoreIntegrity
  BY DEF IInv
<1> QED BY <1>1, InductiveInvariant, PTL
-------------------------------------------------------------------------------
(***************************************************************************)
(* The readers of the store.                                               *)
(***************************************************************************)

(* The history variables only watch: the invariant of the store carries    *)
(* over to the specification with views.                                   *)
LEMMA StoreInvariant == ViewSpec => []IInv
<1>1. ViewInit => IInv
  BY InitIInv DEF ViewInit
<1>2. IInv /\ [ViewNext]_viewVars => IInv'
  <2>1. [ViewNext]_viewVars => [Next]_vars
    BY DEF ViewNext, viewVars
  <2> QED BY <2>1, NextTypeOK, NextWorkerInv, NextAccounting, NextIntegrity DEF IInv
<1> QED BY <1>1, <1>2, PTL DEF ViewSpec

(* A mint the histories do not mention has lost neither of its keys.       *)
LEMMA Kept ==
  ASSUME ViewNext, NEW m \in Mints, m \notin (deleted \union expired)'
  PROVE  /\ m \notin deleted \union expired
         /\ token[m] # None => token'[m] # None
         /\ meta[m] # None => meta'[m] # None
<1> DEFINE gone == {n \in Mints : Vanished(n)}
<1>1. \/ deleted' = deleted \union gone /\ expired' = expired
      \/ deleted' = deleted /\ expired' = expired \union gone
  BY DEF ViewNext
<1>2. m \notin gone
  BY <1>1
<1> QED BY <1>1, <1>2 DEF Vanished

(* Where new metadata comes from.                                          *)
LEMMA NewMetadata ==
  ASSUME IInv, Next, NEW m \in Mints, meta[m] = None, meta'[m] # None
  PROVE  \/ \E j \in Jobs : pc[j] = "setMeta" /\ Current(j) = m
         \/ migrator.pc = "set" /\ migrator.mint = m
<1> USE DEF redisVars, jobVars, workerVars
<1>0. meta \in [Mints -> Stored] /\ migrator.pc = "set" => migrator.mint \in Mints
  BY DEF IInv, TypeOK
<1>1. meta' # meta
  OBVIOUS
<1>2. ASSUME NEW j \in Jobs, SetMeta(j) \/ SetMetaRaises(j)
      PROVE  pc[j] = "setMeta" /\ Current(j) = m
  <2>1. pc[j] = "setMeta" /\ meta' = [meta EXCEPT ![Current(j)] = held[j]]
    BY <1>1, <1>2 DEF SetMeta, SetMetaRaises
  <2> QED BY <1>0, <2>1
<1>3. ASSUME NEW d \in Deleters,
             DeleteBegin(d) \/ DeleteToken(d) \/ DeleteMeta(d)
               \/ DeleteRaises(d) \/ DeleteReturns(d)
      PROVE  FALSE
  <2>1. meta' = [meta EXCEPT ![deleter[d].mint] = None]
    BY <1>1, <1>3 DEF DeleteBegin, DeleteToken, DeleteMeta, DeleteRaises, DeleteReturns
  <2> QED BY <1>0, <2>1
<1>4. ASSUME Migrate PROVE migrator.pc = "set" /\ migrator.mint = m
  <2>1. /\ migrator.pc = "set"
        /\ meta' = [meta EXCEPT ![migrator.mint] = migrator.data]
    BY <1>1, <1>4 DEF Migrate, MigrateKeys, MigrateNext, MigrateGet, MigrateSet, MigrateDies
  <2> QED BY <1>0, <2>1
<1>5. ASSUME NEW n \in Mints, ExpireToken(n) \/ ExpireMeta(n) PROVE FALSE
  <2>1. meta' = [meta EXCEPT ![n] = None]
    BY <1>1, <1>5 DEF ExpireToken, ExpireMeta
  <2> QED BY <1>0, <2>1
<1>6. ASSUME NEW j \in Jobs,
             \/ Submit(j) \/ Begin(j) \/ CollectReturns(j) \/ CollectRefuses(j)
             \/ CollectRaises(j) \/ SetToken(j) \/ SetTokenRaises(j)
             \/ Count(j) \/ CountFailure(j)
      PROVE  FALSE
  BY <1>1, <1>6 DEF Submit, Begin, CollectReturns, CollectRefuses, CollectRaises,
     SetToken, SetTokenRaises, Count, CountFailure
<1>7. ~Restart
  BY <1>1 DEF Restart
<1> QED BY <1>2, <1>3, <1>4, <1>5, <1>6, <1>7 DEF Next, Work

(* How a batch comes to write metadata, and how its successes change.      *)
LEMMA BatchSteps ==
  ASSUME IInv, Next, NEW k \in Jobs
  PROVE  /\ pc'[k] = "setMeta" =>
              \/ pc[k] = "setMeta" /\ completed'[k] = completed[k] /\ tokens'[k] = tokens[k]
              \/ SetToken(k)
         /\ \/ success'[k] \in {success[k], <<>>}
            \/ SetMeta(k) /\ success'[k] = Append(success[k], Current(k))
<1> USE DEF redisVars, jobVars, workerVars
<1>0. TypeOK
  BY DEF IInv
<1> DEFINE Goal ==
      /\ pc'[k] = "setMeta" =>
           \/ pc[k] = "setMeta" /\ completed'[k] = completed[k] /\ tokens'[k] = tokens[k]
           \/ SetToken(k)
      /\ \/ success'[k] \in {success[k], <<>>}
         \/ SetMeta(k) /\ success'[k] = Append(success[k], Current(k))
<1> SUFFICES Goal
  OBVIOUS
<1>1. ASSUME UNCHANGED <<jobVars, workerVars>> PROVE Goal
  BY <1>1
<1>2. ASSUME NEW j \in Jobs, Submit(j) \/ Begin(j) \/ Count(j) \/ CountFailure(j) PROVE Goal
  <2>1. pc'[k] = pc[k] \/ (k = j /\ pc'[k] # "setMeta")
    BY <1>0, <1>2 DEF Submit, Begin, Count, CountFailure, LoopHead, TypeOK
  <2>2. k # j => completed'[k] = completed[k] /\ tokens'[k] = tokens[k]
    BY <1>0, <1>2 DEF Submit, Begin, Count, CountFailure, TypeOK
  <2>3. pc'[j] # "setMeta"
    BY <1>0, <1>2 DEF Submit, Begin, Count, CountFailure, LoopHead, TypeOK
  <2>4. success' = success
    BY <1>2 DEF Submit, Begin, Count, CountFailure
  <2> QED BY <2>1, <2>2, <2>3, <2>4
<1>3. ASSUME NEW j \in Jobs,
             CollectReturns(j) \/ CollectRefuses(j) \/ CollectRaises(j)
               \/ SetTokenRaises(j) \/ SetMetaRaises(j)
      PROVE  Goal
  <2>1. completed' = completed /\ tokens' = tokens /\ success' = success
    BY <1>3 DEF CollectReturns, CollectRefuses, CollectRaises, SetTokenRaises, SetMetaRaises
  <2>2. pc'[k] = pc[k] \/ pc'[k] # "setMeta"
    BY <1>0, <1>3 DEF CollectReturns, CollectRefuses, CollectRaises, SetTokenRaises,
                      SetMetaRaises, TypeOK
  <2> QED BY <2>1, <2>2
<1>4. ASSUME NEW j \in Jobs, SetToken(j) PROVE Goal
  <2>1. completed' = completed /\ tokens' = tokens /\ success' = success
    BY <1>4 DEF SetToken
  <2>2. k # j => pc'[k] = pc[k]
    BY <1>0, <1>4 DEF SetToken, TypeOK
  <2> QED BY <1>4, <2>1, <2>2
<1>5. ASSUME NEW j \in Jobs, SetMeta(j) PROVE Goal
  <2>1. completed' = completed /\ tokens' = tokens
    BY <1>5 DEF SetMeta
  <2>2. k # j => pc'[k] = pc[k] /\ success'[k] = success[k]
    BY <1>0, <1>5 DEF SetMeta, TypeOK
  <2>3. pc'[j] # "setMeta" /\ success'[j] = Append(success[j], Current(j))
    BY <1>0, <1>5 DEF SetMeta, TypeOK
  <2> QED BY <1>5, <2>1, <2>2, <2>3
<1>6. ASSUME NEW d \in Deleters,
             DeleteBegin(d) \/ DeleteToken(d) \/ DeleteMeta(d)
               \/ DeleteRaises(d) \/ DeleteReturns(d)
      PROVE  UNCHANGED <<jobVars, workerVars>> \/ FALSE
  BY <1>6 DEF DeleteBegin, DeleteToken, DeleteMeta, DeleteRaises, DeleteReturns
<1>7. CASE Migrate
  BY <1>1, <1>7 DEF Migrate, MigrateKeys, MigrateNext, MigrateGet, MigrateSet, MigrateDies
<1>8. ASSUME NEW n \in Mints, ExpireToken(n) \/ ExpireMeta(n) PROVE Goal
  BY <1>1, <1>8 DEF ExpireToken, ExpireMeta
<1>9. CASE Restart
  <2>1. pc'[k] = "none" /\ success'[k] = <<>>
    BY <1>9 DEF Restart
  <2> QED BY <2>1
<1>10. CASE \E d \in Deleters : DeleteBegin(d) \/ DeleteToken(d) \/ DeleteMeta(d)
                                  \/ DeleteRaises(d) \/ DeleteReturns(d)
  BY <1>1, <1>6, <1>10
<1> QED BY <1>2, <1>3, <1>4, <1>5, <1>7, <1>8, <1>9, <1>10 DEF Next, Work

(* The migration comes to write metadata after reading the token key.      *)
LEMMA MigratorSteps ==
  ASSUME IInv, Next, migrator'.pc = "set"
  PROVE  \/ migrator' = migrator
         \/ token[migrator'.mint] # None /\ token' = token
<1>0. TypeOK
  BY DEF IInv
<1>1. CASE MigrateGet
  BY <1>0, <1>1 DEF MigrateGet, TypeOK, redisVars
<1>2. ~MigrateKeys
  BY <1>0 DEF MigrateKeys, TypeOK
<1>3. ~MigrateNext
  BY <1>0 DEF MigrateNext, TypeOK
<1>4. ~MigrateSet
  BY <1>0 DEF MigrateSet, TypeOK
<1>5. ~MigrateDies
  BY DEF MigrateDies
<1>6. migrator' = migrator \/ Migrate
  BY DEF Next, Work, Submit, Begin, CollectReturns, CollectRefuses, CollectRaises,
     SetToken, SetTokenRaises, SetMeta, SetMetaRaises, Count, CountFailure,
     DeleteBegin, DeleteToken, DeleteMeta, DeleteRaises, DeleteReturns,
     ExpireToken, ExpireMeta, Restart
<1> QED BY <1>1, <1>2, <1>3, <1>4, <1>5, <1>6 DEF Migrate

LEMMA InitViewInv == ViewInit => ViewInv
<1> SUFFICES ASSUME ViewInit PROVE ViewInv
  OBVIOUS
<1>1. Elements(<<>>) = {}
  BY EmptySeq DEF Elements
<1> QED BY <1>1 DEF ViewInit, Init, ViewInv, ListedIsReadable, SuccessIsStored, WritesInOrder

LEMMA NextViewInv == IInv /\ ViewInv /\ [ViewNext]_viewVars => ViewInv'
<1> SUFFICES ASSUME IInv, ViewInv, [ViewNext]_viewVars PROVE ViewInv'
  OBVIOUS
<1> USE DEF ViewInv
<1>1. CASE UNCHANGED viewVars
  BY <1>1 DEF viewVars, vars, redisVars, jobVars, workerVars, ListedIsReadable,
              SuccessIsStored, WritesInOrder, Elements, Current
<1>2. CASE ViewNext
  <2>0. Next /\ TypeOK
    BY <1>2 DEF ViewNext, IInv
  <2>a. \A j \in Jobs : Elements(success[j])' \subseteq Mints
    BY <2>0, NextTypeOK, ElementOfSeq DEF TypeOK, Elements
  <2> SUFFICES ASSUME NEW m \in Mints, m \notin (deleted \union expired)'
               PROVE  /\ meta'[m] # None => token'[m] # None
                      /\ \A j \in Jobs : m \in Elements(success[j])' =>
                           token'[m] # None /\ meta'[m] # None
                      /\ \A j \in Jobs : pc'[j] = "setMeta" /\ Current(j)' = m =>
                           token'[m] # None
                      /\ migrator'.pc = "set" /\ migrator'.mint = m => token'[m] # None
    BY <2>a DEF ListedIsReadable, SuccessIsStored, WritesInOrder
  <2>1. /\ m \notin deleted \union expired
        /\ token[m] # None => token'[m] # None
        /\ meta[m] # None => meta'[m] # None
    BY <1>2, Kept
  <2>2. /\ meta[m] # None => token[m] # None
        /\ \A j \in Jobs : pc[j] = "setMeta" /\ Current(j) = m => token[m] # None
        /\ migrator.pc = "set" /\ migrator.mint = m => token[m] # None
        /\ \A j \in Jobs : m \in Elements(success[j]) => token[m] # None /\ meta[m] # None
    BY <2>1 DEF ListedIsReadable, SuccessIsStored, WritesInOrder
  <2>3. meta'[m] # None => token'[m] # None
    BY <2>0, <2>1, <2>2, NewMetadata
  <2>4. ASSUME NEW j \in Jobs, m \in Elements(success[j])'
        PROVE  token'[m] # None /\ meta'[m] # None
    <3>1. m \in Elements(success'[j])
      BY <2>4 DEF Elements
    <3>2. CASE success'[j] = success[j]
      BY <2>1, <2>2, <3>1, <3>2
    <3>3. success'[j] # <<>>
      BY <3>1, EmptySeq DEF Elements
    <3>4. CASE SetMeta(j) /\ success'[j] = Append(success[j], Current(j))
      <4>1. pc[j] = "setMeta"
        BY <3>4 DEF SetMeta
      <4>2. Current(j) \in Mints /\ success[j] \in Seq(Mints)
        BY <2>0, <4>1, CurrentIsMint DEF IInv, TypeOK, Working
      <4>3. Elements(success'[j]) = Elements(success[j]) \union {Current(j)}
        BY <3>4, <4>2, ElementsAppend
      <4>4. CASE m \in Elements(success[j])
        BY <2>1, <2>2, <4>4
      <4>5. CASE m = Current(j)
        <5>1. held[j] # None
          BY <2>0, <4>1, HeldIsGenuine DEF IInv
        <5>2. meta'[m] = held[j]
          BY <2>0, <3>4, <4>5 DEF SetMeta, TypeOK
        <5> QED BY <2>3, <5>1, <5>2
      <4> QED BY <3>1, <4>3, <4>4, <4>5
    <3> QED BY <2>0, <3>2, <3>3, <3>4, BatchSteps
  <2>5. ASSUME NEW j \in Jobs, pc'[j] = "setMeta", Current(j)' = m
        PROVE  token'[m] # None
    <3>1. CASE pc[j] = "setMeta" /\ completed'[j] = completed[j] /\ tokens'[j] = tokens[j]
      <4>1. Current(j) = m
        BY <2>5, <3>1 DEF Current
      <4> QED BY <2>1, <2>2, <3>1, <4>1
    <3>2. CASE SetToken(j)
      <4>1. Current(j) = m
        BY <2>5, <3>2 DEF SetToken, Current, jobVars
      <4>2. held[j] # None
        BY <2>0, <3>2, HeldIsGenuine DEF IInv, SetToken
      <4>3. token'[m] = held[j]
        BY <2>0, <3>2, <4>1 DEF SetToken, TypeOK
      <4> QED BY <4>2, <4>3
    <3> QED BY <2>0, <2>5, <3>1, <3>2, BatchSteps
  <2>6. migrator'.pc = "set" /\ migrator'.mint = m => token'[m] # None
    BY <2>0, <2>1, <2>2, MigratorSteps
  <2> QED BY <2>3, <2>4, <2>5, <2>6
<1> QED BY <1>1, <1>2

-------------------------------------------------------------------------------

(* What readers may rely on, as one inductive invariant.                   *)
THEOREM ViewInvariant == ViewSpec => []ViewInv
BY InitViewInv, NextViewInv, StoreInvariant, PTL DEF ViewSpec

(* A listed mint can be read until it is deleted or expires.               *)
THEOREM ListedMintsAreReadable == ViewSpec => []ListedIsReadable
<1>1. ViewInv => ListedIsReadable
  BY DEF ViewInv
<1> QED BY <1>1, ViewInvariant, PTL

(* A mint reported as collected is stored and listed until it is deleted   *)
(* or expires.                                                             *)
THEOREM SuccessesAreStored == ViewSpec => []SuccessIsStored
<1>1. ViewInv => SuccessIsStored
  BY DEF ViewInv
<1> QED BY <1>1, ViewInvariant, PTL
-------------------------------------------------------------------------------
(***************************************************************************)
(* The progress record implements BatchContract, step by step.             *)
(***************************************************************************)
Seen(j) == status[j] \in {"running", "completed"}

(* A poll of a job that is there is answered with its record.              *)
LEMMA ViewIsProgress ==
  ASSUME IInv, NEW j \in Jobs, Seen(j)
  PROVE  View(j) \in Progress /\ View(j) # None
<1>1. /\ status[j] \in {"running", "completed"} /\ status[j] \notin {"none", "lost"}
      /\ Len(tokens[j]) \in Nat /\ completed[j] \in Nat
      /\ Shown(j, success) \in Seq(Mints) /\ Shown(j, failed) \in Seq(Mints)
  BY EmptySeq, LenProperties DEF Seen, IInv, TypeOK, Shown
<1>2. View(j) \in Progress
  BY <1>1 DEF View, Progress
<1> QED BY <1>2, AbsentAssumption

(* The record adds up, the lists at most one entry ahead of the counter.   *)
LEMMA ViewIsConsistent ==
  ASSUME IInv, NEW j \in Jobs, Seen(j)
  PROVE  Contract!Consistent(View(j))
<1>1. /\ completed[j] \in Nat /\ Len(tokens[j]) \in Nat
      /\ Len(success[j]) \in Nat /\ Len(failed[j]) \in Nat
      /\ completed[j] <= Len(tokens[j])
      /\ pc[j] \in Working \union {"none", "done"}
  BY LenProperties DEF IInv, TypeOK, BatchAccounting
<1>2. \/ pc[j] = "closing" /\ Len(success[j]) + Len(failed[j]) = completed[j] + 1
      \/ pc[j] # "closing" /\ Len(success[j]) + Len(failed[j]) = completed[j]
  <2>1. Len(success[j]) + Len(failed[j]) = Reported(j)
    BY DEF IInv, BatchAccounting
  <2>2. Reported(j) = IF pc[j] = "closing" THEN completed[j] + 1 ELSE completed[j]
    BY <1>1 DEF Reported
  <2> QED BY <2>1, <2>2
<1>3. pc[j] = "closing" => completed[j] < Len(tokens[j])
  BY DEF IInv, WorkerInv, Working
<1>4. status[j] = "completed" => completed[j] = Len(tokens[j])
  BY DEF IInv, WorkerInv
<1> DEFINE listed == Len(Shown(j, success)) + Len(Shown(j, failed))
<1>5. listed \in completed[j] .. Len(tokens[j]) /\ listed <= completed[j] + 1
  <2>1. CASE completed[j] = 0
    <3>1. Shown(j, success) = <<>> /\ Shown(j, failed) = <<>> /\ Len(<<>>) = 0
      BY <2>1, EmptySeq DEF Shown
    <3> QED BY <1>1, <2>1, <3>1
  <2>2. CASE completed[j] # 0
    <3>1. Shown(j, success) = success[j] /\ Shown(j, failed) = failed[j]
      BY <2>2 DEF Shown
    <3>2. listed = Len(success[j]) + Len(failed[j])
      BY <3>1
    <3> HIDE DEF listed
    <3>3. CASE pc[j] = "closing"
      <4>1. listed = completed[j] + 1 /\ completed[j] < Len(tokens[j])
        BY <1>2, <1>3, <3>2, <3>3
      <4> QED BY <1>1, <4>1
    <3>4. CASE pc[j] # "closing"
      <4>1. listed = completed[j]
        BY <1>2, <3>2, <3>4
      <4> QED BY <1>1, <4>1
    <3> QED BY <3>3, <3>4
  <2> QED BY <2>1, <2>2
<1>6. View(j) = [status |-> status[j], total |-> Len(tokens[j]), completed |-> completed[j],
                 success |-> Shown(j, success), failed |-> Shown(j, failed)]
  BY DEF View, Seen
<1>7. status[j] \in {"running", "completed"}
  BY DEF Seen
<1> QED BY <1>1, <1>4, <1>5, <1>6, <1>7 DEF Contract!Consistent

ViewsAreConsistent == \A j \in Jobs : Seen(j) => View(j) # None /\ Contract!Consistent(View(j))

LEMMA InvariantConsistent == IInv => ViewsAreConsistent
  BY ViewIsProgress, ViewIsConsistent DEF ViewsAreConsistent

(* The same of the next state.                                             *)
LEMMA NextViewIsConsistent ==
  ASSUME IInv', NEW j \in Jobs, Seen(j)'
  PROVE  View(j)' # None /\ Contract!Consistent(View(j)')
<1>1. ViewsAreConsistent'
  BY InvariantConsistent, PTL
<1> QED BY <1>1 DEF ViewsAreConsistent, Contract!Consistent

LEMMA PrefixOfItself ==
  ASSUME NEW S, NEW s \in Seq(S)
  PROVE  Contract!IsPrefix(s, s) /\ Contract!IsPrefix(<<>>, s)
<1>1. Len(s) \in Nat /\ Len(<<>>) = 0 /\ s \in [1 .. Len(s) -> S]
  BY LenProperties, EmptySeq
<1>2. SubSeq(s, 1, Len(s)) \in Seq(S) /\ SubSeq(s, 1, Len(s)) = s
  BY <1>1, SubSeqProperties, SeqEqual
<1>3. SubSeq(<<>>, 1, 0) = <<>> /\ SubSeq(s, 1, 0) = <<>>
  BY <1>1, SubSeqEmpty
<1> QED BY <1>1, <1>2, <1>3 DEF Contract!IsPrefix

LEMMA PrefixOfAppend ==
  ASSUME NEW S, NEW s \in Seq(S), NEW e \in S
  PROVE  Contract!IsPrefix(s, Append(s, e))
<1>1. /\ Append(s, e) \in Seq(S) /\ Len(Append(s, e)) = Len(s) + 1
      /\ \A i \in 1 .. Len(s) : Append(s, e)[i] = s[i]
      /\ Len(s) \in Nat /\ \A i \in 1 .. Len(s) : s[i] \in S
  BY AppendProperties, LenProperties
<1>2. /\ SubSeq(Append(s, e), 1, Len(s)) \in Seq(S)
      /\ Len(SubSeq(Append(s, e), 1, Len(s))) = Len(s)
      /\ \A i \in 1 .. Len(s) : SubSeq(Append(s, e), 1, Len(s))[i] = s[i]
  BY <1>1, SubSeqProperties
<1>3. SubSeq(Append(s, e), 1, Len(s)) = s
  BY <1>2, SeqEqual
<1>4. SubSeq(s, 1, Len(s)) = s
  <2>1. /\ SubSeq(s, 1, Len(s)) \in Seq(S)
        /\ Len(SubSeq(s, 1, Len(s))) = Len(s)
        /\ \A i \in 1 .. Len(s) : SubSeq(s, 1, Len(s))[i] = s[i]
    BY <1>1, SubSeqProperties
  <2> QED BY <2>1, SeqEqual
<1> QED BY <1>1, <1>3, <1>4 DEF Contract!IsPrefix

(* What the record shows of a job follows from a few of its variables.     *)
LEMMA ViewStays ==
  ASSUME NEW j, status'[j] = status[j], tokens'[j] = tokens[j], completed'[j] = completed[j],
         completed[j] = 0 \/ (success'[j] = success[j] /\ failed'[j] = failed[j])
  PROVE  View(j)' = View(j)
<1>1. Shown(j, success)' = Shown(j, success) /\ Shown(j, failed)' = Shown(j, failed)
  BY DEF Shown
<1> QED BY <1>1 DEF View

(* One step of a batch that runs advances its record, or leaves it alone.  *)
LEMMA OneStepAdvances ==
  ASSUME IInv, IInv', NEW j \in Jobs, status[j] = "running", Seen(j)', tokens'[j] = tokens[j],
         completed'[j] \in {completed[j], completed[j] + 1},
         success'[j] = success[j] \/ \E m \in Mints : success'[j] = Append(success[j], m),
         failed'[j] = failed[j] \/ \E m \in Mints : failed'[j] = Append(failed[j], m),
         \A i \in Jobs \ {j} : View(i)' = View(i)
  PROVE  Contract!Advance(j)
<1>1. /\ success[j] \in Seq(Mints) /\ failed[j] \in Seq(Mints)
      /\ success'[j] \in Seq(Mints) /\ failed'[j] \in Seq(Mints)
      /\ completed[j] \in Nat
  BY DEF IInv, TypeOK
<1>2. ASSUME NEW s \in Seq(Mints), NEW t \in Seq(Mints),
             t = s \/ \E m \in Mints : t = Append(s, m)
      PROVE  /\ Contract!IsPrefix(s, t)
             /\ Contract!IsPrefix(<<>>, t)
             /\ Contract!IsPrefix(<<>>, <<>>)
  <2>1. \A u \in Seq(Mints) : Contract!IsPrefix(<<>>, u)
    BY PrefixOfItself
  <2>2. \A u \in Seq(Mints) : Contract!IsPrefix(u, u)
    BY PrefixOfItself
  <2>3. <<>> \in Seq(Mints)
    BY EmptySeq
  <2>4. Contract!IsPrefix(s, t)
    <3>1. CASE t = s
      BY <3>1, <2>2
    <3>2. CASE t # s
      <4>1. PICK m \in Mints : t = Append(s, m)
        BY <1>2, <3>2
      <4> QED BY <4>1, PrefixOfAppend
    <3> QED BY <3>1, <3>2
  <2>5. Contract!IsPrefix(<<>>, t)
    BY <2>1
  <2>6. Contract!IsPrefix(<<>>, <<>>)
    BY <2>1, <2>3
  <2> QED BY <2>4, <2>5, <2>6
<1>3. /\ Contract!IsPrefix(Shown(j, success), Shown(j, success)')
      /\ Contract!IsPrefix(Shown(j, failed), Shown(j, failed)')
  <2>1. CASE completed'[j] = 0
    <3>1. /\ Shown(j, success) = <<>> /\ Shown(j, success)' = <<>>
          /\ Shown(j, failed) = <<>> /\ Shown(j, failed)' = <<>>
      BY <1>1, <2>1 DEF Shown
    <3> QED BY <1>1, <1>2, <3>1
  <2>2. CASE completed'[j] # 0
    <3>1. /\ Shown(j, success) \in {<<>>, success[j]} /\ Shown(j, success)' = success'[j]
          /\ Shown(j, failed) \in {<<>>, failed[j]} /\ Shown(j, failed)' = failed'[j]
      BY <1>1, <2>2 DEF Shown
    <3>2. /\ Contract!IsPrefix(success[j], success'[j]) /\ Contract!IsPrefix(<<>>, success'[j])
          /\ Contract!IsPrefix(failed[j], failed'[j]) /\ Contract!IsPrefix(<<>>, failed'[j])
      BY <1>1, <1>2
    <3> QED BY <3>1, <3>2
  <2> QED BY <2>1, <2>2
<1>4. /\ View(j) # None /\ Contract!Consistent(View(j))
      /\ View(j)' # None /\ Contract!Consistent(View(j)')
  BY NextViewIsConsistent, ViewIsProgress, ViewIsConsistent DEF Seen
<1>5. /\ View(j).status = "running"
      /\ View(j).total = Len(tokens[j]) /\ View(j)'.total = Len(tokens'[j])
      /\ View(j).completed = completed[j] /\ View(j)'.completed = completed'[j]
      /\ View(j).success = Shown(j, success) /\ View(j)'.success = Shown(j, success)'
      /\ View(j).failed = Shown(j, failed) /\ View(j)'.failed = Shown(j, failed)'
  BY DEF View, Seen
<1>6. Contract!Advances(View(j), View(j)')
  BY <1>3, <1>5 DEF Contract!Advances
<1> QED BY <1>4, <1>5, <1>6 DEF Contract!Advance, Contract!Others

(* Every step of the store is a step of the contract, or none.             *)
LEMMA StepKeepsContract ==
  ASSUME IInv, IInv', Next
  PROVE  Contract!Next \/ \A i \in Jobs : View(i)' = View(i)
<1> USE DEF redisVars, jobVars, workerVars
<1>0. /\ IInv => TypeOK /\ WorkerInv
      /\ TypeOK /\ WorkerInv
  BY DEF IInv
<1> DEFINE still == UNCHANGED <<status, tokens, completed, success, failed>>
<1>1. CASE still
  BY <1>1, ViewStays
<1>2. ASSUME NEW j \in Jobs, Submit(j)
      PROVE  Contract!Accept(j)
  <2>1. \A i \in Jobs \ {j} : View(i)' = View(i)
    BY <1>0, <1>2, ViewStays DEF Submit, TypeOK
  <2>2. /\ status[j] = "none" /\ status'[j] = "running" /\ completed[j] = 0 /\ completed'[j] = 0
    BY <1>0, <1>2 DEF Submit, TypeOK, WorkerInv
  <2>3. View(j) = None
    BY <2>2 DEF View
  <2>4. View(j)' # None
    BY <2>2, NextViewIsConsistent DEF Seen
  <2>5. /\ View(j)'.status = "running" /\ View(j)'.completed = 0
        /\ View(j)'.success = <<>> /\ View(j)'.failed = <<>>
    BY <2>2 DEF View, Shown
  <2> QED BY <2>1, <2>3, <2>4, <2>5 DEF Contract!Accept, Contract!Others
<1>3. ASSUME NEW j \in Jobs, Begin(j) \/ Count(j) \/ CountFailure(j)
      PROVE  Contract!Advance(j)
  <2>1. status[j] = "running" /\ status'[j] \in {"running", "completed"} /\ tokens' = tokens
    BY <1>0, <1>3 DEF Begin, Count, CountFailure, LoopHead, TypeOK, WorkerInv, Working
  <2>2. completed'[j] \in {completed[j], completed[j] + 1} /\ success' = success
    BY <1>0, <1>3 DEF Begin, Count, CountFailure, TypeOK
  <2>3. failed'[j] = failed[j] \/ \E m \in Mints : failed'[j] = Append(failed[j], m)
    <3>1. CASE CountFailure(j)
      BY <1>0, <3>1, CurrentIsMint DEF CountFailure, TypeOK, Working
    <3>2. CASE ~CountFailure(j)
      BY <1>3, <3>2 DEF Begin, Count
    <3> QED BY <3>1, <3>2
  <2>4. ASSUME NEW i \in Jobs \ {j}
        PROVE  View(i)' = View(i)
    <3>1. status'[i] = status[i] /\ completed'[i] = completed[i] /\ failed'[i] = failed[i]
      BY <1>0, <1>3 DEF Begin, Count, CountFailure, LoopHead, TypeOK
    <3> QED BY <2>1, <2>2, <3>1, ViewStays
  <2>5. Seen(j)'
    BY <2>1 DEF Seen
  <2> QED BY <2>1, <2>2, <2>3, <2>4, <2>5, OneStepAdvances
<1>4. ASSUME NEW j \in Jobs, CollectRefuses(j) \/ SetMeta(j)
      PROVE  Contract!Advance(j)
  <2>1. pc[j] \in Working \ {"begin"} /\ status' = status /\ tokens' = tokens
            /\ completed' = completed
    BY <1>4 DEF CollectRefuses, SetMeta, Working
  <2>2. Current(j) \in Mints /\ status[j] = "running"
    BY <1>0, <2>1, CurrentIsMint DEF WorkerInv
  <2>3. /\ failed'[j] = failed[j] \/ \E m \in Mints : failed'[j] = Append(failed[j], m)
        /\ success'[j] = success[j] \/ \E m \in Mints : success'[j] = Append(success[j], m)
    BY <1>0, <1>4, <2>2 DEF CollectRefuses, SetMeta, TypeOK
  <2>4. ASSUME NEW i \in Jobs \ {j}
        PROVE  View(i)' = View(i)
    <3>1. success'[i] = success[i] /\ failed'[i] = failed[i]
      BY <1>0, <1>4 DEF CollectRefuses, SetMeta, TypeOK
    <3> QED BY <2>1, <3>1, ViewStays
  <2>5. Seen(j)'
    BY <2>1, <2>2 DEF Seen
  <2>6. completed'[j] \in {completed[j], completed[j] + 1} /\ tokens'[j] = tokens[j]
    BY <2>1
  <2> QED BY <2>2, <2>3, <2>4, <2>5, <2>6, OneStepAdvances
<1>5. CASE Restart
  <2>1. \A i \in Jobs : View(i)' = None
    BY <1>5 DEF Restart, View
  <2> QED BY <2>1 DEF Contract!Next, Contract!Forget
<1>6. ASSUME NEW j \in Jobs, Work(j)
      PROVE  still \/ Contract!Advance(j)
  BY <1>3, <1>4, <1>6 DEF Work, CollectReturns, CollectRaises, SetToken, SetTokenRaises,
       SetMetaRaises
<1>7. ASSUME NEW d \in Deleters, DeleteBegin(d) \/ DeleteToken(d) \/ DeleteMeta(d)
                                   \/ DeleteRaises(d) \/ DeleteReturns(d)
      PROVE  still
  BY <1>7 DEF DeleteBegin, DeleteToken, DeleteMeta, DeleteRaises, DeleteReturns
<1>8. Migrate => still
  BY DEF Migrate, MigrateKeys, MigrateNext, MigrateGet, MigrateSet, MigrateDies
<1>9. ASSUME NEW m \in Mints, ExpireToken(m) \/ ExpireMeta(m)
      PROVE  still
  BY <1>9 DEF ExpireToken, ExpireMeta
<1> HIDE DEF still
<1> QED BY <1>1, <1>2, <1>5, <1>6, <1>7, <1>8, <1>9 DEF Next, Contract!Next

(* The progress record of every batch implements BatchContract: what a     *)
(* poller has seen of it stays true, until a restart forgets the job.      *)
THEOREM ContractIsKept == ViewSpec => ContractHolds
<1>1. ViewInit => Contract!Init
  BY DEF ViewInit, Init, View, Contract!Init
<1>2. IInv /\ IInv' /\ [ViewNext]_viewVars => [Contract!Next]_[j \in Jobs |-> View(j)]
  <2> SUFFICES ASSUME IInv, IInv', [ViewNext]_viewVars
               PROVE  Contract!Next \/ \A i \in Jobs : View(i)' = View(i)
    OBVIOUS
  <2>1. CASE UNCHANGED viewVars
    BY <2>1, ViewStays DEF viewVars, vars, jobVars
  <2>2. CASE ViewNext
    BY <2>2, StepKeepsContract DEF ViewNext
  <2> QED BY <2>1, <2>2
<1> QED BY <1>1, <1>2, StoreInvariant, PTL DEF ViewSpec, ContractHolds, Contract!Spec
===============================================================================
