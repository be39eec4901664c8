---------------------------- MODULE BatchContract -----------------------------
(***************************************************************************)
(* What GET /collect/batch/<id>/status promises whoever polls it, without  *)
(* saying how the batch is run: the answer to a poll is either 404 or a    *)
(* progress record that only ever advances, one token at a time, and that  *)
(* turns to "completed" once, with the last token.                         *)
(***************************************************************************)
EXTENDS Naturals, SequencesExt

CONSTANTS Jobs, Absent

VARIABLE view       \* the answer to a poll of each job

Advances(r, s) ==
    /\ s.total = r.total
    /\ IsPrefix(r.success, s.success)
    /\ IsPrefix(r.failed, s.failed)
    /\ s.completed \in {r.completed, r.completed + 1}

(* The lists may be one entry ahead of the counter, never behind it.       *)
Consistent(r) ==
    /\ r.completed <= r.total
    /\ Len(r.success) + Len(r.failed) \in r.completed .. r.total
    /\ Len(r.success) + Len(r.failed) <= r.completed + 1
    /\ r.status \in {"running", "completed"}
    /\ r.status = "completed" => r.completed = r.total

Others(j) == \A i \in Jobs \ {j} : view'[i] = view[i]

Init == view = [j \in Jobs |-> Absent]

Accept(j) ==
    /\ view[j] = Absent
    /\ view'[j] # Absent
    /\ view'[j].status = "running"
    /\ view'[j].completed = 0
    /\ view'[j].success = <<>>
    /\ view'[j].failed = <<>>
    /\ Others(j)

Advance(j) ==
    /\ view[j] # Absent
    /\ view[j].status = "running"
    /\ view'[j] # Absent
    /\ Advances(view[j], view'[j])
    /\ Consistent(view'[j])
    /\ Others(j)

(* batch_jobs lives in memory: a restart of the service forgets every job. *)
Forget == view' = [j \in Jobs |-> Absent]

Next == (\E j \in Jobs : Accept(j) \/ Advance(j)) \/ Forget

Spec == Init /\ [][Next]_view
===============================================================================
