-------------------------- MODULE JobFence_proofs --------------------------
(***************************************************************************)
(* What holds of JobFence for every number of workers, jobs and tasks.      *)
(* The inductive invariant IInv says which rows a worker, an uncommitted    *)
(* statement and a closing observation still refer to.  RowsStep sums up    *)
(* what any step does to the rows of the jobs table, so that an action is   *)
(* opened once for the rows and once for the workers.  OwnsJob and TreeInv  *)
(* strengthen two more invariants on top of it.                             *)
(***************************************************************************)
EXTENDS JobFence, TLAPS

\* A worker that has a job has one that was inserted.
WorksOnRow ==
  \A w \in Workers :
    proc[w].pc \notin {"idle", "down"} =>
      proc[w].job \in Roots /\ job[proc[w].job].status # "absent"

\* Every generation but the first took a closing and a reopening.
GenBound == wf.gen <= wf.time + 1

\* A closing observation that holds the row lock is not older than the issue
\* and meets no remote side effect.
ClosingHoldsLock ==
  /\ closing.pc \in {"waiting", "scanned"} => Provider(closing.time) = "closed"
  /\ closing.pc = "scanned" =>
       /\ closing.time >= wf.time
       /\ \A w \in Workers : proc[w].pc # "effect"

\* A statement that has not committed queues a failed or a new job.
DraftRows ==
  \A j \in JobIds : ~RowFree(j) =>
    /\ j \in Roots /\ job[j].status \in {"absent", "failed"}
    /\ draft[j].row.status \in {"queued", "cancelled"}
    /\ draft[j].row.parent = NoJob
    /\ (job[j].status = "failed" => draft[j].row.gen = job[j].gen)

\* A task belongs to an inserted coordinator and has its generation.
TaskRows ==
  \A c \in Children : job[c].status # "absent" =>
    /\ job[c].parent \in Roots
    /\ job[job[c].parent].status # "absent"
    /\ job[job[c].parent].gen = job[c].gen

\* Only tasks have a parent.
RootRows == \A j \in Roots : job[j].parent = NoJob

IInv ==
  /\ TypeOK /\ WorksOnRow /\ GenBound /\ ClosingHoldsLock
  /\ DraftRows /\ RootRows /\ TaskRows

-----------------------------------------------------------------------------
(* The fence                                                                 *)

\* The three outcomes of the trigger.
LEMMA FenceCases ==
  ASSUME NEW old, NEW new
  PROVE  \/ /\ old.status \in Cancelled
            /\ fence_workflow_job(old, new) =
                 [new EXCEPT !.status =
                    IF new.status = "cancelled" THEN "cancelled"
                    ELSE old.status]
         \/ /\ old.status \notin Cancelled
            /\ ParentFenced(new) \/ (new.status \in Active /\ ~Current(new))
            /\ fence_workflow_job(old, new) = Drop(new, Stopped(old))
         \/ /\ old.status \notin Cancelled
            /\ ~ParentFenced(new)
            /\ new.status \in Active => Current(new)
            /\ fence_workflow_job(old, new) = new
  BY Zenon DEF fence_workflow_job

LEMMA DropRow ==
  ASSUME NEW row \in Row, NEW status \in JobStatus
  PROVE  /\ Drop(row, status) \in Row
         /\ Drop(row, status).status = status
         /\ Drop(row, status).gen = row.gen
         /\ Drop(row, status).parent = row.parent
         /\ Drop(row, status).owner = NoWorker
         /\ Drop(row, status).lease = "none"
  BY DEF Drop, Row, Owners

LEMMA StoppedStatus ==
  ASSUME NEW row
  PROVE  Stopped(row) \in Cancelled
  BY DEF Stopped, Cancelled

\* What the trigger stores is a row of the same generation and parent, and it
\* never turns a cancelled row into anything else.
LEMMA FenceRow ==
  ASSUME NEW old \in Row, NEW new \in Row
  PROVE  LET row == fence_workflow_job(old, new)
         IN /\ row \in Row
            /\ row.gen = new.gen /\ row.parent = new.parent
            /\ old.status \in Cancelled =>
                 row.status \in {old.status, "cancelled"}
            /\ old.status \notin Cancelled =>
                 \/ row = new
                 \/ row.status \in Cancelled /\ row.owner = NoWorker
                    /\ row.lease = "none"
            /\ row.status \in Active => row = new /\ Current(new)
  <1>1. Cancelled \subseteq JobStatus /\ Cancelled \cap Active = {}
    BY DEF Cancelled, Active, JobStatus
  <1>2. CASE old.status \in Cancelled
    BY <1>1, <1>2, FenceCases DEF Row, Cancelled
  <1>3. CASE fence_workflow_job(old, new) = Drop(new, Stopped(old))
             /\ old.status \notin Cancelled
    BY <1>1, <1>3, DropRow, StoppedStatus
  <1>4. CASE /\ old.status \notin Cancelled
             /\ new.status \in Active => Current(new)
             /\ fence_workflow_job(old, new) = new
    BY <1>1, <1>4
  <1>5. QED BY <1>2, <1>3, <1>4, FenceCases


LEMMA NewRowType ==
  ASSUME NEW status \in JobStatus, NEW gen \in 0 .. (MaxEdges + 1),
         NEW role \in Roles
  PROVE  NewRow(status, gen, role, NoJob) \in Row
  BY DEF NewRow, Absent, Row, Owners, Roles

LEMMA StatusSets ==
  /\ Active \subseteq JobStatus /\ Cancelled \subseteq JobStatus
  /\ Settled \subseteq JobStatus /\ "absent" \in JobStatus
  /\ Active \cap Cancelled = {} /\ "absent" \notin Active \cup Cancelled
  /\ Active = {"waiting", "queued", "leased", "running", "paused"}
  BY DEF Active, Cancelled, Settled, JobStatus

-----------------------------------------------------------------------------
(* What a step does to the rows                                              *)

\* A statement keeps the generation and the parent of a row it finds.
Keeps(old, new) ==
  old.status # "absent" =>
    new.status # "absent" /\ new.gen = old.gen /\ new.parent = old.parent

RowStep(old, new) ==
  /\ new \in Row
  /\ Keeps(old, new)
  /\ old.status \in Cancelled => new.status \in {old.status, "cancelled"}
  /\ /\ old.status \notin {"leased", "running"}
     /\ new.status \in {"leased", "running"}
     => ~Closed /\ new.gen = wf.gen

RowsStep ==
  /\ job' \in [JobIds -> Row]
  /\ \A k \in JobIds : RowStep(job[k], job'[k])

LEMMA SameRow ==
  ASSUME NEW row \in Row
  PROVE  RowStep(row, row)
  BY DEF RowStep, Keeps

LEMMA FenceStep ==
  ASSUME NEW old \in Row, NEW new \in Row, Keeps(old, new)
  PROVE  RowStep(old, fence_workflow_job(old, new))
<1>1. DEFINE row == fence_workflow_job(old, new)
<1>2. /\ row \in Row /\ row.gen = new.gen /\ row.parent = new.parent
      /\ old.status \in Cancelled => row.status \in {old.status, "cancelled"}
      /\ old.status \notin Cancelled => row = new \/ row.status \in Cancelled
      /\ row.status \in Active => row = new /\ Current(new)
  BY FenceRow
<1>3. Keeps(old, row)
  BY <1>2, StatusSets DEF Keeps, Cancelled
<1>4. row.status \in {"leased", "running"} => ~Closed /\ row.gen = wf.gen
  BY <1>2, StatusSets DEF Current
<1>5. QED
  BY <1>2, <1>3, <1>4 DEF RowStep

LEMMA PutStep ==
  ASSUME job \in [JobIds -> Row], NEW j \in JobIds, NEW row,
         RowStep(job[j], row), job' = [job EXCEPT ![j] = row]
  PROVE  RowsStep
<1>1. row \in Row
  BY DEF RowStep
<1>2. \A k \in JobIds : job'[k] = IF k = j THEN row ELSE job[k]
  OBVIOUS
<1>3. QED
  BY <1>1, <1>2, SameRow DEF RowsStep

LEMMA UpdateStep ==
  ASSUME job \in [JobIds -> Row], NEW j \in JobIds, NEW new \in Row,
         Keeps(job[j], new), Update(j, new)
  PROVE  RowsStep
<1>1. RowStep(job[j], fence_workflow_job(job[j], new))
  BY FenceStep
<1>2. QED
  BY <1>1, PutStep DEF Update

LEMMA KeepStep ==
  ASSUME job \in [JobIds -> Row], UNCHANGED job
  PROVE  RowsStep
  BY SameRow DEF RowsStep

\* Writing only the status of a row.
LEMMA StatusStep ==
  ASSUME NEW row \in Row, NEW status \in JobStatus \ {"absent", "leased", "running"},
         row.status \in Cancelled => status \in {row.status, "cancelled"}
  PROVE  /\ RowStep(row, [row EXCEPT !.status = status])
         /\ RowStep(row, Drop(row, status))
<1>1. [row EXCEPT !.status = status] \in Row
  BY DEF Row
<1>2. QED
  BY <1>1, DropRow DEF RowStep, Keeps, Row

LEMMA DropKeeps ==
  ASSUME NEW row \in Row, NEW status \in Settled
  PROVE  Drop(row, status) \in Row /\ Keeps(row, Drop(row, status))
<1>1. status \in JobStatus /\ status # "absent"
  BY StatusSets DEF Settled
<1>2. QED
  BY <1>1, DropRow DEF Keeps

LEMMA EachStep ==
  ASSUME job' = [k \in JobIds |-> job'[k]],
         \A k \in JobIds : RowStep(job[k], job'[k])
  PROVE  RowsStep
  BY DEF RowsStep, RowStep

LEMMA StoppedStep ==
  ASSUME NEW row \in Row, row.status \notin Cancelled
  PROVE  /\ RowStep(row, [row EXCEPT !.status = Stopped(row)])
         /\ RowStep(row, Drop(row, Stopped(row)))
<1>1. Stopped(row) \in JobStatus \ {"absent", "leased", "running"}
  BY StoppedStatus, StatusSets DEF Cancelled
<1>2. QED
  BY <1>1, StatusStep

LEMMA FinishedStep ==
  ASSUME job \in [JobIds -> Row], NEW j, job' = CancellationFinished(j)
  PROVE  RowsStep
<1>1. ASSUME NEW k \in JobIds
      PROVE  RowStep(job[k], job'[k])
  <2>1. job'[k] = job[k] \/ (job[k].status = "cancel_requested"
                             /\ job'[k] = Drop(job[k], "cancelled"))
    BY DEF CancellationFinished
  <2>2. "cancelled" \in JobStatus \ {"absent", "leased", "running"}
    BY DEF JobStatus, Cancelled
  <2>3. QED
    BY <2>1, <2>2, StatusStep, SameRow
<1>2. QED
  BY <1>1, EachStep DEF CancellationFinished

\* Every step changes every row as RowStep says.
LEMMA JobsStep ==
  ASSUME IInv, [Next]_vars
  PROVE  RowsStep
<1>1. /\ TypeOK /\ WorksOnRow
      /\ job \in [JobIds -> Row]
  BY DEF IInv, TypeOK
<1>2. ASSUME NEW t \in 0 .. MaxEdges, ObserveOpen(t)
      PROVE  RowsStep
  BY <1>1, <1>2, KeepStep DEF ObserveOpen
<1>3. ASSUME NEW t \in 0 .. MaxEdges, BeginClosing(t)
      PROVE  RowsStep
  BY <1>1, <1>3, KeepStep DEF BeginClosing
<1>4. ASSUME LockForClosing
      PROVE  RowsStep
  BY <1>1, <1>4, KeepStep DEF LockForClosing
<1>5. ASSUME CommitClosing
      PROVE  RowsStep
  <2>1. ASSUME NEW k \in JobIds
        PROVE  RowStep(job[k], job'[k])
    BY <1>1, <1>5, SameRow, StoppedStep, StatusSets DEF CommitClosing
  <2>2. QED
    BY <1>5, <2>1, EachStep DEF CommitClosing
<1>6. ASSUME NEW j \in Roots, resume_latest_paused_job(j)
      PROVE  RowsStep
  BY <1>1, <1>6, DropRow, StatusSets, UpdateStep DEF resume_latest_paused_job,
     Keeps, Resumable, JobIds
<1>7. ASSUME NEW j \in Roots, Intake(j)
      PROVE  RowsStep
  BY <1>1, <1>7, NewRowType, StatusSets, UpdateStep DEF Intake, NextRoot,
     Unused, Keeps, JobIds, InitialRole, Roles, TypeOK, Workflow, Generations
<1>8. ASSUME NEW j \in Roots, retry_failed(j)
      PROVE  RowsStep
  BY <1>1, <1>8, DropRow, StatusSets, UpdateStep DEF retry_failed, Keeps, JobIds
<1>9. ASSUME NEW k \in Roots, NEW j \in Roots, BeginRetry(k, j)
      PROVE  RowsStep
  BY <1>1, <1>9, KeepStep DEF BeginRetry
<1>10. ASSUME NEW j \in Roots, requeue_failed_job(j)
      PROVE  RowsStep
  BY <1>1, <1>10, KeepStep DEF requeue_failed_job
<1>11. ASSUME NEW j \in Roots, CommitDraft(j)
      PROVE  RowsStep
  <2>1. /\ draft[j].row \in Row /\ job[j].status \in {"absent", "failed"}
        /\ draft[j].row.status \in {"queued", "cancelled"}
        /\ draft[j].row.parent = NoJob /\ job[j].parent = NoJob
        /\ job[j].status = "failed" => draft[j].row.gen = job[j].gen
    BY <1>11 DEF CommitDraft, IInv, DraftRows, RootRows, TypeOK, Draft, JobIds
  <2>2. RowStep(job[j], draft[j].row)
    BY <2>1 DEF RowStep, Keeps, Cancelled
  <2>3. QED
    BY <1>1, <1>11, <2>2, PutStep DEF CommitDraft, JobIds
<1>12. ASSUME NEW j \in Roots, ExpireLease(j)
      PROVE  RowsStep
  BY <1>1, <1>12, PutStep DEF ExpireLease, RowStep, Keeps, Row, JobIds
<1>13. ASSUME NEW j \in Roots, fence_expired_jobs(j)
      PROVE  RowsStep
  <2>1. ASSUME NEW k \in JobIds
        PROVE  RowStep(job[k], job'[k])
    BY <1>1, <1>13, SameRow, StoppedStep, StatusSets DEF fence_expired_jobs,
       Cancelled
  <2>2. QED
    BY <1>13, <2>1, EachStep DEF fence_expired_jobs
<1>14. ASSUME NEW j \in Roots, finish_recovered_jobs(j)
      PROVE  RowsStep
  BY <1>1, <1>14, FinishedStep DEF finish_recovered_jobs
<1>15. ASSUME NEW w \in Workers, list_ready_developer_candidates(w)
      PROVE  RowsStep
  BY <1>1, <1>15, KeepStep DEF list_ready_developer_candidates
<1>16. ASSUME NEW w \in Workers, NEW j \in Roots, QueueReady(w, j)
      PROVE  RowsStep
  BY <1>1, <1>16, KeepStep DEF QueueReady
<1>17. ASSUME NEW w \in Workers, NoRootLeft(w)
      PROVE  RowsStep
  BY <1>1, <1>17, KeepStep DEF NoRootLeft
<1>18. ASSUME NEW w \in Workers, acquire_next_queued_job(w)
      PROVE  RowsStep
  <2>1. PICK j \in Roots :
          LET new == [job[j] EXCEPT !.status = "leased", !.owner = w,
                                    !.lease = "live"]
          IN job' = [job EXCEPT ![j] = fence_workflow_job(job[j], new)]
    BY <1>18 DEF acquire_next_queued_job
  <2>2. DEFINE new == [job[j] EXCEPT !.status = "leased", !.owner = w,
                                     !.lease = "live"]
  <2>3. new \in Row /\ Keeps(job[j], new) /\ j \in JobIds
    BY <1>1, StatusSets DEF Row, Keeps, Owners, JobIds
  <2>4. RowStep(job[j], fence_workflow_job(job[j], new))
    BY <1>1, <2>3, FenceStep
  <2>5. QED
    BY <1>1, <2>1, <2>3, <2>4, PutStep
<1>19. ASSUME NEW w \in Workers, mark_job_running(w)
      PROVE  RowsStep
  <2>1. DEFINE j == proc[w].job
               new == [job[j] EXCEPT !.status = "running"]
  <2>2. j \in JobIds /\ new \in Row /\ Keeps(job[j], new)
    BY <1>1, <1>19, StatusSets DEF mark_job_running, WorksOnRow, Row, Keeps,
       JobIds
  <2>3. RowStep(job[j], fence_workflow_job(job[j], new))
    BY <1>1, <2>2, FenceStep
  <2>4. \/ UNCHANGED job
        \/ job' = [job EXCEPT ![j] = fence_workflow_job(job[j], new)]
    BY <1>19 DEF mark_job_running
  <2>5. QED
    BY <1>1, <2>2, <2>3, <2>4, PutStep, KeepStep
<1>20. ASSUME NEW w \in Workers, BeginSideEffect(w)
      PROVE  RowsStep
  BY <1>1, <1>20, KeepStep DEF BeginSideEffect
<1>21. ASSUME NEW w \in Workers, lock_job_side_effect(w)
      PROVE  RowsStep
  BY <1>1, <1>21, KeepStep DEF lock_job_side_effect
<1>22. ASSUME NEW w \in Workers, NEW c \in Children, supersede_job(w, c)
      PROVE  RowsStep
  BY <1>1, <1>22, DropRow, StatusSets, UpdateStep DEF supersede_job, Keeps,
     JobIds, Settled
<1>23. ASSUME NEW w \in Workers, EndSideEffect(w)
      PROVE  RowsStep
  BY <1>1, <1>23, KeepStep DEF EndSideEffect
<1>24. ASSUME NEW w \in Workers, register_container_execution(w)
      PROVE  RowsStep
  BY <1>1, <1>24, PutStep DEF register_container_execution, OwnsRunningLease,
     WorksOnRow, RowStep, Keeps, Row, JobIds
<1>25. ASSUME NEW w \in Workers, save_checkpoint(w)
      PROVE  RowsStep
  <2>1. DEFINE j == proc[w].job
  <2>2. j \in Roots /\ Current(job[j]) /\ job[j].status = "running"
    BY <1>1, <1>25 DEF save_checkpoint, OwnsRunningLease, WorksOnRow
  <2>3. PICK next \in ChildEffects(j), ckpt \in {"open", "completed"},
             outcome \in {"none", "needs_info", "needs_human"} :
          job' = [k \in JobIds |-> Checkpointed(k, j, next, ckpt, outcome)]
    BY <1>25 DEF save_checkpoint
  <2>4. j \notin Children /\ j \in JobIds
    BY <2>2, JobIdsAssumption DEF JobIds
  <2>5. ASSUME NEW c \in Children, job[c].status # next[c]
        PROVE  RowStep(job[c], job'[c])
    <3>1. DEFINE new == [job[c] EXCEPT !.status = next[c], !.parent = j,
                                       !.gen = job[j].gen, !.role = "task"]
    <3>2. /\ next[c] \in JobStatus /\ job[c].parent \in {j, NoJob}
          /\ <<job[c].status, next[c]>> \in ChildMoves
      BY <2>5 DEF ChildEffects
    <3>3. /\ next[c] \notin {"absent", "cancelled"}
          /\ job[c].status \notin Cancelled
      BY <3>2, <2>5 DEF ChildMoves, Cancelled
    <3>4. new \in Row /\ c \in JobIds
      BY <1>1, <2>2, <2>4, <3>2 DEF Row, Roles, JobIds
    <3>5. Keeps(job[c], new)
      BY <1>1, <2>2, <3>2, <3>3, <3>4, JobIdsAssumption
         DEF Keeps, IInv, TaskRows, Row, NoJob
    <3>6. job'[c] = new
      BY <2>3, <2>4, <2>5, <3>4 DEF Checkpointed
    <3>7. QED
      BY <1>1, <2>2, <3>3, <3>4, <3>5, <3>6 DEF RowStep, Current, Row
  <2>6. RowStep(job[j], job'[j])
    <3>1. /\ [Drop(job[j], "paused") EXCEPT !.ckpt = ckpt] \in Row
          /\ [job[j] EXCEPT !.ckpt = ckpt] \in Row
      BY <1>1, <2>4, DropRow, StatusSets DEF Row
    <3>2. QED
      BY <1>1, <2>2, <2>3, <2>4, <3>1, DropRow, StatusSets
         DEF Checkpointed, RowStep, Keeps, Row, Cancelled
  <2>7. ASSUME NEW k \in JobIds, k # j, ~(k \in Children /\ job[k].status # next[k])
        PROVE  RowStep(job[k], job'[k])
    BY <1>1, <2>3, <2>7, SameRow DEF Checkpointed
  <2>8. job' = [k \in JobIds |-> job'[k]]
    BY <2>3
  <2>9. \A k \in JobIds : RowStep(job[k], job'[k])
    BY <2>5, <2>6, <2>7
  <2>10. QED
    BY <2>8, <2>9, EachStep
<1>26. ASSUME NEW w \in Workers, complete_job(w)
      PROVE  RowsStep
  <2>1. DEFINE j == proc[w].job
               new == Drop(job[j], "completed")
  <2>2. j \in JobIds /\ new \in Row /\ Keeps(job[j], new)
    <3>1. proc[w].job \in JobIds
      BY <1>1, <1>26 DEF complete_job, WorksOnRow, JobIds
    <3>2. job[j] \in Row
      BY <1>1, <3>1
    <3>3. QED
      BY <3>1, <3>2, DropKeeps DEF Settled
  <2>3. Update(j, new) \/ UNCHANGED job
    BY <1>26 DEF complete_job
  <2>4. QED
    BY <1>1, <2>2, <2>3, UpdateStep, KeepStep
<1>27. ASSUME NEW w \in Workers, fail_active_plugin_child_jobs(w)
      PROVE  RowsStep
  <2>1. ASSUME NEW k \in JobIds
        PROVE  RowStep(job[k], job'[k])
    <3>1. Drop(job[k], "failed") \in Row /\ Keeps(job[k], Drop(job[k], "failed"))
      BY <1>1, DropRow, StatusSets DEF Keeps, Settled
    <3>2. QED
      BY <1>1, <1>27, <3>1, SameRow, FenceStep DEF fail_active_plugin_child_jobs
  <2>2. QED
    BY <1>27, <2>1, EachStep DEF fail_active_plugin_child_jobs
<1>28. ASSUME NEW w \in Workers, fail_job(w)
      PROVE  RowsStep
  <2>1. DEFINE j == proc[w].job
               new == Drop(job[j], "failed")
  <2>2. j \in JobIds /\ new \in Row /\ Keeps(job[j], new)
    <3>1. proc[w].job \in JobIds
      BY <1>1, <1>28 DEF fail_job, WorksOnRow, JobIds
    <3>2. job[j] \in Row
      BY <1>1, <3>1
    <3>3. QED
      BY <3>1, <3>2, DropKeeps DEF Settled
  <2>3. Update(j, new)
    BY <1>28 DEF fail_job
  <2>4. QED
    BY <1>1, <2>2, <2>3, UpdateStep
<1>29. ASSUME NEW w \in Workers, BeginStateWrite(w)
      PROVE  RowsStep
  BY <1>1, <1>29, KeepStep DEF BeginStateWrite
<1>30. ASSUME NEW w \in Workers, update_workflow_state_for_job(w)
      PROVE  RowsStep
  BY <1>1, <1>30, KeepStep DEF update_workflow_state_for_job
<1>31. ASSUME NEW w \in Workers, NEW j \in Roots, SpawnDeveloper(w, j)
      PROVE  RowsStep
  BY <1>1, <1>31, KeepStep DEF SpawnDeveloper
<1>32. ASSUME NEW w \in Workers, heartbeat_job(w)
      PROVE  RowsStep
  BY <1>1, <1>32, UpdateStep DEF heartbeat_job, Executing, WorksOnRow, Keeps,
     JobIds
<1>33. ASSUME NEW w \in Workers, MonitorStop(w)
      PROVE  RowsStep
  BY <1>1, <1>33, KeepStep DEF MonitorStop
<1>34. ASSUME NEW w \in Workers, EndExecution(w)
      PROVE  RowsStep
  BY <1>1, <1>34, FinishedStep, KeepStep DEF EndExecution
<1>35. ASSUME NEW w \in Workers, Crash(w)
      PROVE  RowsStep
  BY <1>1, <1>35, KeepStep DEF Crash
<1>36. ASSUME NEW w \in Workers, Restart(w)
      PROVE  RowsStep
  BY <1>1, <1>36, KeepStep DEF Restart
<1>37. CASE UNCHANGED vars
  BY <1>1, <1>37, KeepStep DEF vars
<1>38. QED
  BY <1>2, <1>3, <1>4, <1>5, <1>6, <1>7, <1>8, <1>9, <1>10, <1>11,
     <1>12, <1>13, <1>14, <1>15, <1>16, <1>17, <1>18, <1>19, <1>20,
     <1>21, <1>22, <1>23, <1>24, <1>25, <1>26, <1>27, <1>28, <1>29,
     <1>30, <1>31, <1>32, <1>33, <1>34, <1>35, <1>36, <1>37
     DEF Next, Github, Requests, Recovery, Poll, Execute, Supervise

-----------------------------------------------------------------------------
(* What a step does to the workers                                           *)

Real(p) ==
  p.pc \notin {"idle", "down"} =>
    p.job \in Roots /\ job[p.job].status # "absent"

ProcsStep ==
  /\ proc' \in [Workers -> Proc]
  /\ \A w \in Workers : Real(proc'[w])

LEMMA IdleReal == Idle \in Proc /\ Down \in Proc /\ Real(Idle) /\ Real(Down)
  BY DEF Idle, Down, Proc, PcSet, States, Real

LEMMA SameProcs ==
  ASSUME proc \in [Workers -> Proc], WorksOnRow, UNCHANGED proc
  PROVE  ProcsStep
  BY DEF ProcsStep, WorksOnRow, Real

LEMMA WorkerStep ==
  ASSUME proc \in [Workers -> Proc], WorksOnRow, NEW w \in Workers,
         NEW q \in Proc, Real(q), proc' = [proc EXCEPT ![w] = q]
  PROVE  ProcsStep
  BY DEF ProcsStep, WorksOnRow, Real

LEMMA GotoStep ==
  ASSUME proc \in [Workers -> Proc], WorksOnRow, NEW w \in Workers,
         NEW pc \in PcSet, Goto(w, pc), proc[w].pc \notin {"idle", "down"}
  PROVE  ProcsStep
<1>1. [proc[w] EXCEPT !.pc = pc] \in Proc
  BY DEF Proc
<1>2. Real([proc[w] EXCEPT !.pc = pc])
  BY DEF Real, WorksOnRow, Proc
<1>3. QED
  BY <1>1, <1>2, WorkerStep DEF Goto

LEMMA CompletedTarget ==
  ASSUME NEW role, NEW s \in CompletedStates(role)
  PROVE  s \in States \ {"in_progress"}
  BY DEF CompletedStates, States

LEMMA WorkersStep ==
  ASSUME IInv, [Next]_vars
  PROVE  ProcsStep
<1>1. WorksOnRow /\ proc \in [Workers -> Proc]
  BY DEF IInv, TypeOK
<1>2. ASSUME NEW t \in 0 .. MaxEdges, ObserveOpen(t)
      PROVE  ProcsStep
  BY <1>1, <1>2, SameProcs DEF ObserveOpen
<1>3. ASSUME NEW t \in 0 .. MaxEdges, BeginClosing(t)
      PROVE  ProcsStep
  BY <1>1, <1>3, SameProcs DEF BeginClosing
<1>4. ASSUME LockForClosing
      PROVE  ProcsStep
  BY <1>1, <1>4, SameProcs DEF LockForClosing
<1>5. ASSUME CommitClosing
      PROVE  ProcsStep
  BY <1>1, <1>5, SameProcs DEF CommitClosing
<1>6. ASSUME NEW j \in Roots, resume_latest_paused_job(j)
      PROVE  ProcsStep
  BY <1>1, <1>6, SameProcs DEF resume_latest_paused_job
<1>7. ASSUME NEW j \in Roots, Intake(j)
      PROVE  ProcsStep
  BY <1>1, <1>7, SameProcs DEF Intake
<1>8. ASSUME NEW j \in Roots, retry_failed(j)
      PROVE  ProcsStep
  BY <1>1, <1>8, SameProcs DEF retry_failed
<1>9. ASSUME NEW k \in Roots, NEW j \in Roots, BeginRetry(k, j)
      PROVE  ProcsStep
  BY <1>1, <1>9, SameProcs DEF BeginRetry
<1>10. ASSUME NEW j \in Roots, requeue_failed_job(j)
      PROVE  ProcsStep
  BY <1>1, <1>10, SameProcs DEF requeue_failed_job
<1>11. ASSUME NEW j \in Roots, CommitDraft(j)
      PROVE  ProcsStep
  <2>1. ASSUME NEW w \in Workers
        PROVE  proc'[w] \in Proc /\ Real(proc'[w])
    <3>1. [proc[w] EXCEPT !.pc = "ending"] \in Proc
      BY <1>1 DEF Proc, PcSet
    <3>2. Real(proc[w])
      BY <1>1 DEF Real, WorksOnRow
    <3>3. proc[w].pc = "inserting" => Real([proc[w] EXCEPT !.pc = "ending"])
      BY <1>1, <3>2 DEF Real, Proc
    <3>4. QED
      BY <1>1, <1>11, <3>1, <3>2, <3>3, IdleReal DEF CommitDraft
  <2>2. QED
    BY <1>11, <2>1 DEF CommitDraft, ProcsStep
<1>12. ASSUME NEW j \in Roots, ExpireLease(j)
      PROVE  ProcsStep
  BY <1>1, <1>12, SameProcs DEF ExpireLease
<1>13. ASSUME NEW j \in Roots, fence_expired_jobs(j)
      PROVE  ProcsStep
  BY <1>1, <1>13, SameProcs DEF fence_expired_jobs
<1>14. ASSUME NEW j \in Roots, finish_recovered_jobs(j)
      PROVE  ProcsStep
  BY <1>1, <1>14, SameProcs DEF finish_recovered_jobs
<1>15. ASSUME NEW w \in Workers, list_ready_developer_candidates(w)
      PROVE  ProcsStep
  <2>1. PICK j \in Roots :
          /\ job[j].status = "completed"
          /\ proc' = [proc EXCEPT ![w] = [Idle EXCEPT !.pc = "listed", !.job = j]]
    BY <1>15 DEF list_ready_developer_candidates
  <2>2. LET q == [Idle EXCEPT !.pc = "listed", !.job = j]
        IN q \in Proc /\ Real(q)
    BY <2>1 DEF Idle, Proc, PcSet, States, Real
  <2>3. QED
    BY <1>1, <2>1, <2>2, WorkerStep
<1>16. ASSUME NEW w \in Workers, NEW j \in Roots, QueueReady(w, j)
      PROVE  ProcsStep
  BY <1>1, <1>16, GotoStep DEF QueueReady, Goto, PcSet
<1>17. ASSUME NEW w \in Workers, NoRootLeft(w)
      PROVE  ProcsStep
  <2>1. [proc[w] EXCEPT !.pc = "ending"] \in Proc
    BY <1>1 DEF Proc, PcSet
  <2>2. QED
    BY <1>1, <1>17, <2>1, IdleReal, WorkerStep DEF NoRootLeft, Proc, Real,
       WorksOnRow
<1>18. ASSUME NEW w \in Workers, acquire_next_queued_job(w)
      PROVE  ProcsStep
  <2>1. PICK j \in Roots :
          /\ job[j].status = "queued"
          /\ \/ proc' = [proc EXCEPT ![w] = [Idle EXCEPT !.pc = "leased", !.job = j]]
             \/ proc' = [proc EXCEPT ![w] = Down]
    BY <1>18 DEF acquire_next_queued_job
  <2>2. LET q == [Idle EXCEPT !.pc = "leased", !.job = j]
        IN q \in Proc /\ Real(q)
    BY <2>1 DEF Idle, Proc, PcSet, States, Real
  <2>3. QED
    BY <1>1, <2>1, <2>2, IdleReal, WorkerStep
<1>19. ASSUME NEW w \in Workers, mark_job_running(w)
      PROVE  ProcsStep
  <2>1. \/ proc' = [proc EXCEPT ![w] = [proc[w] EXCEPT !.pc = "ending"]]
        \/ proc' = [proc EXCEPT ![w] = [proc[w] EXCEPT !.pc = "working"]]
        \/ proc' = [proc EXCEPT ![w] = [proc[w] EXCEPT !.pc = "writing",
                                                     !.target = "in_progress"]]
    BY <1>1, <1>19 DEF mark_job_running
  <2>2. proc[w].pc = "leased"
    BY <1>19 DEF mark_job_running
  <2>3. QED
    BY <1>1, <2>1, <2>2, WorkerStep DEF Proc, PcSet, States, Real, WorksOnRow
<1>20. ASSUME NEW w \in Workers, BeginSideEffect(w)
      PROVE  ProcsStep
  <2>1. DEFINE q == [proc[w] EXCEPT !.pc = "lock_wait",
                             !.saw = job[proc[w].job].status \notin Cancelled]
  <2>2. q \in Proc /\ Real(q)
    BY <1>1, <1>20 DEF BeginSideEffect, Proc, PcSet, States, Real, WorksOnRow
  <2>3. proc' = [proc EXCEPT ![w] = q]
    BY <1>1, <1>20 DEF BeginSideEffect
  <2>4. QED
    BY <1>1, <2>2, <2>3, WorkerStep
<1>21. ASSUME NEW w \in Workers, lock_job_side_effect(w)
      PROVE  ProcsStep
  BY <1>1, <1>21, GotoStep DEF lock_job_side_effect, PcSet
<1>22. ASSUME NEW w \in Workers, NEW c \in Children, supersede_job(w, c)
      PROVE  ProcsStep
  BY <1>1, <1>22, SameProcs DEF supersede_job
<1>23. ASSUME NEW w \in Workers, EndSideEffect(w)
      PROVE  ProcsStep
  BY <1>1, <1>23, GotoStep DEF EndSideEffect, PcSet
<1>24. ASSUME NEW w \in Workers, register_container_execution(w)
      PROVE  ProcsStep
  BY <1>1, <1>24, SameProcs DEF register_container_execution
<1>25. ASSUME NEW w \in Workers, save_checkpoint(w)
      PROVE  ProcsStep
  <2>1. UNCHANGED proc \/ Goto(w, "ending")
    BY <1>25 DEF save_checkpoint
  <2>2. QED
    BY <1>1, <1>25, <2>1, GotoStep, SameProcs DEF save_checkpoint, PcSet
<1>26. ASSUME NEW w \in Workers, complete_job(w)
      PROVE  ProcsStep
  <2>1. PICK s \in CompletedStates(job[proc[w].job].role) :
          proc' = [proc EXCEPT ![w].pc = "writing", ![w].target = s]
    BY <1>26 DEF complete_job
  <2>2. DEFINE q == [proc[w] EXCEPT !.pc = "writing", !.target = s]
  <2>3. q \in Proc /\ Real(q)
    BY <1>1, <1>26, CompletedTarget DEF complete_job, Proc, PcSet, Real,
       WorksOnRow
  <2>4. proc' = [proc EXCEPT ![w] = q]
    BY <1>1, <2>1
  <2>5. QED
    BY <1>1, <2>3, <2>4, WorkerStep
<1>27. ASSUME NEW w \in Workers, fail_active_plugin_child_jobs(w)
      PROVE  ProcsStep
  BY <1>1, <1>27, GotoStep DEF fail_active_plugin_child_jobs, PcSet
<1>28. ASSUME NEW w \in Workers, fail_job(w)
      PROVE  ProcsStep
  <2>1. DEFINE q == [proc[w] EXCEPT !.pc = "writing", !.target = "blocked"]
  <2>2. q \in Proc /\ Real(q)
    BY <1>1, <1>28 DEF fail_job, Proc, PcSet, States, Real, WorksOnRow
  <2>3. proc' = [proc EXCEPT ![w] = q]
    BY <1>1, <1>28 DEF fail_job
  <2>4. QED
    BY <1>1, <2>2, <2>3, WorkerStep
<1>29. ASSUME NEW w \in Workers, BeginStateWrite(w)
      PROVE  ProcsStep
  <2>1. DEFINE q == [proc[w] EXCEPT !.pc = "write_wait",
                             !.saw = job[proc[w].job].status \notin Cancelled]
  <2>2. q \in Proc /\ Real(q)
    BY <1>1, <1>29 DEF BeginStateWrite, Proc, PcSet, States, Real, WorksOnRow
  <2>3. proc' = [proc EXCEPT ![w] = q]
    BY <1>1, <1>29 DEF BeginStateWrite
  <2>4. QED
    BY <1>1, <2>2, <2>3, WorkerStep
<1>30. ASSUME NEW w \in Workers, update_workflow_state_for_job(w)
      PROVE  ProcsStep
  BY <1>1, <1>30, GotoStep DEF update_workflow_state_for_job, PcSet
<1>31. ASSUME NEW w \in Workers, NEW j \in Roots, SpawnDeveloper(w, j)
      PROVE  ProcsStep
  BY <1>1, <1>31, GotoStep DEF SpawnDeveloper, Goto, PcSet
<1>32. ASSUME NEW w \in Workers, heartbeat_job(w)
      PROVE  ProcsStep
  BY <1>1, <1>32, SameProcs DEF heartbeat_job
<1>33. ASSUME NEW w \in Workers, MonitorStop(w)
      PROVE  ProcsStep
  BY <1>1, <1>33, GotoStep DEF MonitorStop, Executing, PcSet
<1>34. ASSUME NEW w \in Workers, EndExecution(w)
      PROVE  ProcsStep
  BY <1>1, <1>34, IdleReal, WorkerStep DEF EndExecution
<1>35. ASSUME NEW w \in Workers, Crash(w)
      PROVE  ProcsStep
  BY <1>1, <1>35, IdleReal, WorkerStep DEF Crash
<1>36. ASSUME NEW w \in Workers, Restart(w)
      PROVE  ProcsStep
  BY <1>1, <1>36, IdleReal, WorkerStep DEF Restart
<1>37. CASE UNCHANGED vars
  BY <1>1, <1>37, SameProcs DEF vars
<1>38. QED
  BY <1>2, <1>3, <1>4, <1>5, <1>6, <1>7, <1>8, <1>9, <1>10, <1>11,
     <1>12, <1>13, <1>14, <1>15, <1>16, <1>17, <1>18, <1>19, <1>20,
     <1>21, <1>22, <1>23, <1>24, <1>25, <1>26, <1>27, <1>28, <1>29,
     <1>30, <1>31, <1>32, <1>33, <1>34, <1>35, <1>36, <1>37
     DEF Next, Github, Requests, Recovery, Poll, Execute, Supervise

-----------------------------------------------------------------------------
(* What a step does to the workflow item                                     *)

\* The state is written on an open issue, or GitHub's timestamp moves on: by an
\* open observation that waited for the row lock, or by the closing one that
\* holds it.
WorkflowStep ==
  /\ wf' \in Workflow
  /\ \/ /\ wf'.time = wf.time /\ wf'.gen = wf.gen
        /\ wf'.state = wf.state \/ ~Closed
     \/ /\ Provider(wf'.time) = "open" /\ wf'.time >= wf.time
        /\ wf'.gen = IF Closed THEN wf.gen + 1 ELSE wf.gen
        /\ ~WorkflowLocked /\ UNCHANGED <<closing, proc>>
     \/ /\ closing.pc = "scanned" /\ closing'.pc = "idle"
        /\ wf'.time = closing.time /\ wf'.gen = wf.gen
        /\ wf'.state = "finished" /\ UNCHANGED proc

LEMMA WorkflowsStep ==
  ASSUME IInv, [Next]_vars
  PROVE  WorkflowStep
<1>1. /\ wf \in Workflow /\ closing \in Closing /\ GenBound
      /\ proc \in [Workers -> Proc]
  BY DEF IInv, TypeOK
<1>2. ASSUME NEW t \in 0 .. MaxEdges, ObserveOpen(t)
      PROVE  WorkflowStep
  <2>1. CASE Closed
    <3>1. t # wf.time /\ t >= wf.time /\ Provider(t) = "open"
      BY <1>2, <2>1 DEF ObserveOpen, Closed
    <3>2. wf.gen + 1 \in Generations
      BY <1>1, <1>2, <3>1, BoundsAssumption DEF GenBound, Workflow, Generations
    <3>3. wf' = [time |-> t, gen |-> wf.gen + 1, state |-> "none"]
      BY <1>2, <2>1 DEF ObserveOpen
    <3>4. wf' \in Workflow
      BY <1>2, <3>2, <3>3 DEF Workflow, States
    <3>5. QED
      BY <1>2, <2>1, <3>1, <3>3, <3>4 DEF ObserveOpen, WorkflowStep
  <2>2. CASE ~Closed
    <3>1. PICK s \in ObservedStates \cup {wf.state} :
            wf' = [wf EXCEPT !.time = t, !.state = s]
      BY <1>2, <2>2 DEF ObserveOpen
    <3>2. s \in States
      BY <1>1, ObservedStatesAssumption DEF Workflow, States
    <3>3. wf' \in Workflow /\ wf'.time = t /\ wf'.gen = wf.gen
      BY <1>1, <1>2, <3>1, <3>2 DEF Workflow
    <3>4. QED
      BY <1>2, <2>2, <3>3 DEF ObserveOpen, WorkflowStep
  <2>3. QED
    BY <2>1, <2>2
<1>3. ASSUME NEW t \in 0 .. MaxEdges, BeginClosing(t)
      PROVE  WorkflowStep
  BY <1>1, <1>3 DEF BeginClosing, WorkflowStep
<1>4. ASSUME LockForClosing
      PROVE  WorkflowStep
  BY <1>1, <1>4 DEF LockForClosing, WorkflowStep
<1>5. ASSUME CommitClosing
      PROVE  WorkflowStep
  BY <1>1, <1>5 DEF CommitClosing, Closing, Workflow, States, WorkflowStep
<1>6. ASSUME NEW j \in Roots, resume_latest_paused_job(j)
      PROVE  WorkflowStep
  BY <1>1, <1>6 DEF resume_latest_paused_job, WorkflowStep
<1>7. ASSUME NEW j \in Roots, Intake(j)
      PROVE  WorkflowStep
  BY <1>1, <1>7 DEF Intake, WorkflowStep
<1>8. ASSUME NEW j \in Roots, retry_failed(j)
      PROVE  WorkflowStep
  BY <1>1, <1>8 DEF retry_failed, WorkflowStep
<1>9. ASSUME NEW k \in Roots, NEW j \in Roots, BeginRetry(k, j)
      PROVE  WorkflowStep
  BY <1>1, <1>9 DEF BeginRetry, WorkflowStep
<1>10. ASSUME NEW j \in Roots, requeue_failed_job(j)
      PROVE  WorkflowStep
  BY <1>1, <1>10 DEF requeue_failed_job, WorkflowStep
<1>11. ASSUME NEW j \in Roots, CommitDraft(j)
      PROVE  WorkflowStep
  BY <1>1, <1>11 DEF CommitDraft, WorkflowStep
<1>12. ASSUME NEW j \in Roots, ExpireLease(j)
      PROVE  WorkflowStep
  BY <1>1, <1>12 DEF ExpireLease, WorkflowStep
<1>13. ASSUME NEW j \in Roots, fence_expired_jobs(j)
      PROVE  WorkflowStep
  BY <1>1, <1>13 DEF fence_expired_jobs, Current, Workflow, States, WorkflowStep
<1>14. ASSUME NEW j \in Roots, finish_recovered_jobs(j)
      PROVE  WorkflowStep
  BY <1>1, <1>14 DEF finish_recovered_jobs, WorkflowStep
<1>15. ASSUME NEW w \in Workers, list_ready_developer_candidates(w)
      PROVE  WorkflowStep
  BY <1>1, <1>15 DEF list_ready_developer_candidates, WorkflowStep
<1>16. ASSUME NEW w \in Workers, NEW j \in Roots, QueueReady(w, j)
      PROVE  WorkflowStep
  BY <1>1, <1>16 DEF QueueReady, WorkflowStep
<1>17. ASSUME NEW w \in Workers, NoRootLeft(w)
      PROVE  WorkflowStep
  BY <1>1, <1>17 DEF NoRootLeft, WorkflowStep
<1>18. ASSUME NEW w \in Workers, acquire_next_queued_job(w)
      PROVE  WorkflowStep
  BY <1>1, <1>18 DEF acquire_next_queued_job, WorkflowStep
<1>19. ASSUME NEW w \in Workers, mark_job_running(w)
      PROVE  WorkflowStep
  BY <1>1, <1>19 DEF mark_job_running, WorkflowStep
<1>20. ASSUME NEW w \in Workers, BeginSideEffect(w)
      PROVE  WorkflowStep
  BY <1>1, <1>20 DEF BeginSideEffect, WorkflowStep
<1>21. ASSUME NEW w \in Workers, lock_job_side_effect(w)
      PROVE  WorkflowStep
  BY <1>1, <1>21 DEF lock_job_side_effect, WorkflowStep
<1>22. ASSUME NEW w \in Workers, NEW c \in Children, supersede_job(w, c)
      PROVE  WorkflowStep
  BY <1>1, <1>22 DEF supersede_job, WorkflowStep
<1>23. ASSUME NEW w \in Workers, EndSideEffect(w)
      PROVE  WorkflowStep
  BY <1>1, <1>23 DEF EndSideEffect, WorkflowStep
<1>24. ASSUME NEW w \in Workers, register_container_execution(w)
      PROVE  WorkflowStep
  BY <1>1, <1>24 DEF register_container_execution, WorkflowStep
<1>25. ASSUME NEW w \in Workers, save_checkpoint(w)
      PROVE  WorkflowStep
  <2>1. ~Closed
    BY <1>25 DEF save_checkpoint, Current
  <2>2. UNCHANGED wf \/ \E outcome \in {"none", "needs_info", "needs_human"} :
          wf' = [wf EXCEPT !.state = outcome]
    BY <1>25 DEF save_checkpoint
  <2>3. QED
    BY <1>1, <2>1, <2>2 DEF Workflow, States, WorkflowStep
<1>26. ASSUME NEW w \in Workers, complete_job(w)
      PROVE  WorkflowStep
  BY <1>1, <1>26 DEF complete_job, WorkflowStep
<1>27. ASSUME NEW w \in Workers, fail_active_plugin_child_jobs(w)
      PROVE  WorkflowStep
  BY <1>1, <1>27 DEF fail_active_plugin_child_jobs, WorkflowStep
<1>28. ASSUME NEW w \in Workers, fail_job(w)
      PROVE  WorkflowStep
  BY <1>1, <1>28 DEF fail_job, WorkflowStep
<1>29. ASSUME NEW w \in Workers, BeginStateWrite(w)
      PROVE  WorkflowStep
  BY <1>1, <1>29 DEF BeginStateWrite, WorkflowStep
<1>30. ASSUME NEW w \in Workers, update_workflow_state_for_job(w)
      PROVE  WorkflowStep
  BY <1>1, <1>30 DEF update_workflow_state_for_job, Current, Workflow, Proc,
     WorkflowStep
<1>31. ASSUME NEW w \in Workers, NEW j \in Roots, SpawnDeveloper(w, j)
      PROVE  WorkflowStep
  BY <1>1, <1>31 DEF SpawnDeveloper, WorkflowStep
<1>32. ASSUME NEW w \in Workers, heartbeat_job(w)
      PROVE  WorkflowStep
  BY <1>1, <1>32 DEF heartbeat_job, WorkflowStep
<1>33. ASSUME NEW w \in Workers, MonitorStop(w)
      PROVE  WorkflowStep
  BY <1>1, <1>33 DEF MonitorStop, WorkflowStep
<1>34. ASSUME NEW w \in Workers, EndExecution(w)
      PROVE  WorkflowStep
  BY <1>1, <1>34 DEF EndExecution, WorkflowStep
<1>35. ASSUME NEW w \in Workers, Crash(w)
      PROVE  WorkflowStep
  BY <1>1, <1>35 DEF Crash, WorkflowStep
<1>36. ASSUME NEW w \in Workers, Restart(w)
      PROVE  WorkflowStep
  BY <1>1, <1>36 DEF Restart, WorkflowStep
<1>37. CASE UNCHANGED vars
  BY <1>1, <1>37 DEF vars, WorkflowStep
<1>38. QED
  BY <1>2, <1>3, <1>4, <1>5, <1>6, <1>7, <1>8, <1>9, <1>10, <1>11,
     <1>12, <1>13, <1>14, <1>15, <1>16, <1>17, <1>18, <1>19, <1>20,
     <1>21, <1>22, <1>23, <1>24, <1>25, <1>26, <1>27, <1>28, <1>29,
     <1>30, <1>31, <1>32, <1>33, <1>34, <1>35, <1>36, <1>37
     DEF Next, Github, Requests, Recovery, Poll, Execute, Supervise

-----------------------------------------------------------------------------
(* What a step does to uncommitted statements and the rows they lock         *)

Untouched(k) ==
  /\ job'[k].status = job[k].status /\ job'[k].gen = job[k].gen

Queues(k, row) ==
  /\ k \in Roots /\ job[k].status \in {"absent", "failed"}
  /\ row.status \in {"queued", "cancelled"} /\ row.parent = NoJob
  /\ job[k].status = "failed" => row.gen = job[k].gen

DraftsStep ==
  /\ draft' \in [JobIds -> Draft]
  /\ \A k \in JobIds : draft'[k] # NoDraft =>
       /\ Untouched(k)
       /\ Queues(k, draft'[k].row)

LEMMA NoDraftType == NoDraft \in Draft
  BY BoundsAssumption
     DEF NoDraft, Draft, Owners, Absent, Row, JobStatus, Roles, NoJob

LEMMA SameDrafts ==
  ASSUME draft \in [JobIds -> Draft], DraftRows, UNCHANGED <<job, draft>>
  PROVE  DraftsStep
  BY DEF DraftsStep, DraftRows, RowFree, Untouched, Queues

LEMMA UntouchedDrafts ==
  ASSUME draft \in [JobIds -> Draft], DraftRows, UNCHANGED draft,
         \A k \in Roots : /\ job[k].status \in {"absent", "failed"}
                          /\ ~RowFree(k)
                          => Untouched(k)
  PROVE  DraftsStep
  BY DEF DraftsStep, DraftRows, RowFree, Queues

\* A row may be rewritten that no statement holds, or that none could hold.
LEMMA PutDrafts ==
  ASSUME draft \in [JobIds -> Draft], DraftRows, job \in [JobIds -> Row],
         UNCHANGED draft, NEW j \in JobIds, NEW row,
         RowFree(j) \/ job[j].status \notin {"absent", "failed"},
         job' = [job EXCEPT ![j] = row]
  PROVE  DraftsStep
<1>1. ASSUME NEW k \in Roots, job[k].status \in {"absent", "failed"}, ~RowFree(k)
      PROVE  Untouched(k)
  <2>1. k # j /\ k \in JobIds
    BY <1>1 DEF JobIds
  <2>2. QED
    BY <2>1 DEF Untouched
<1>2. QED
  BY <1>1, UntouchedDrafts

LEMMA UpdateDrafts ==
  ASSUME draft \in [JobIds -> Draft], DraftRows, job \in [JobIds -> Row],
         UNCHANGED draft, NEW j \in JobIds, NEW new,
         RowFree(j) \/ job[j].status \notin {"absent", "failed"},
         Update(j, new)
  PROVE  DraftsStep
  BY PutDrafts DEF Update

LEMMA OrphanedDrafts ==
  ASSUME draft \in [JobIds -> Draft], DraftRows, NEW w,
         UNCHANGED job, draft' = Orphaned(w)
  PROVE  DraftsStep
<1>1. ASSUME NEW k \in JobIds
      PROVE  /\ draft'[k] \in Draft /\ draft'[k].row = draft[k].row
             /\ draft[k] = NoDraft => draft'[k] = NoDraft
  BY DEF Orphaned, Draft, NoDraft, Owners
<1>2. QED
  BY <1>1 DEF Orphaned, DraftsStep, DraftRows, RowFree, Untouched, Queues

LEMMA WriteDraft ==
  ASSUME draft \in [JobIds -> Draft], job \in [JobIds -> Row], DraftRows,
         UNCHANGED job, NEW j \in Roots, NEW by \in Owners, NEW new \in Row,
         Write(j, by, new), job[j].status \in {"absent", "failed"},
         new.status = "queued", new.parent = NoJob,
         job[j].status = "failed" => new.gen = job[j].gen
  PROVE  DraftsStep
<1>1. DEFINE row == fence_workflow_job(job[j], new)
<1>2. j \in JobIds /\ job[j].status \notin Cancelled
  BY DEF JobIds, Cancelled
<1>3. row \in Row /\ row.gen = new.gen /\ row.parent = new.parent
  BY <1>2, FenceRow
<1>4. row = new \/ row.status = "cancelled"
  <2>1. Stopped(job[j]) = "cancelled"
    BY <1>2 DEF Stopped
  <2>2. Drop(new, "cancelled").status = "cancelled"
    BY DropRow, StatusSets DEF Cancelled
  <2>3. QED
    BY <1>2, <2>1, <2>2, FenceCases
<1>5. Queues(j, row)
  BY <1>3, <1>4 DEF Queues
<1>6. draft' = [draft EXCEPT ![j] = [by |-> by, row |-> row]]
  BY DEF Write
<1>7. QED
  BY <1>2, <1>3, <1>5, <1>6
     DEF Draft, DraftsStep, DraftRows, RowFree, Untouched, Queues

LEMMA WriteNew ==
  ASSUME draft \in [JobIds -> Draft], job \in [JobIds -> Row], DraftRows,
         UNCHANGED job, NEW j, NEW by \in Owners, NextRoot(j),
         NEW gen, NEW role, NewRow("queued", gen, role, NoJob) \in Row,
         Write(j, by, NewRow("queued", gen, role, NoJob))
  PROVE  DraftsStep
<1>1. j \in Roots /\ job[j].status = "absent"
  BY DEF NextRoot, Unused
<1>2. LET new == NewRow("queued", gen, role, NoJob)
      IN new.status = "queued" /\ new.parent = NoJob
  BY DEF NewRow, Absent
<1>3. QED
  BY <1>1, <1>2, WriteDraft

LEMMA StatementsStep ==
  ASSUME IInv, [Next]_vars
  PROVE  DraftsStep
<1>1. /\ draft \in [JobIds -> Draft] /\ job \in [JobIds -> Row] /\ DraftRows
      /\ WorksOnRow
  BY DEF IInv, TypeOK
<1>2. ASSUME NEW t \in 0 .. MaxEdges, ObserveOpen(t)
      PROVE  DraftsStep
  BY <1>1, <1>2, SameDrafts DEF ObserveOpen
<1>3. ASSUME NEW t \in 0 .. MaxEdges, BeginClosing(t)
      PROVE  DraftsStep
  BY <1>1, <1>3, SameDrafts DEF BeginClosing
<1>4. ASSUME LockForClosing
      PROVE  DraftsStep
  BY <1>1, <1>4, SameDrafts DEF LockForClosing
<1>5. ASSUME CommitClosing
      PROVE  DraftsStep
  <2>1. ASSUME NEW k \in Roots, job[k].status \in {"absent", "failed"}
        PROVE  job'[k] = job[k]
    BY <1>1, <1>5, <2>1, StatusSets DEF CommitClosing, JobIds
  <2>2. QED
    BY <1>1, <1>5, <2>1, UntouchedDrafts DEF CommitClosing, Untouched
<1>6. ASSUME NEW j \in Roots, resume_latest_paused_job(j)
      PROVE  DraftsStep
  BY <1>1, <1>6, UpdateDrafts DEF resume_latest_paused_job, JobIds
<1>7. ASSUME NEW j \in Roots, Intake(j)
      PROVE  DraftsStep
  BY <1>1, <1>7, UpdateDrafts DEF Intake, NextRoot, Unused, JobIds
<1>8. ASSUME NEW j \in Roots, retry_failed(j)
      PROVE  DraftsStep
  BY <1>1, <1>8, UpdateDrafts DEF retry_failed, JobIds
<1>9. ASSUME NEW k \in Roots, NEW j \in Roots, BeginRetry(k, j)
      PROVE  DraftsStep
  <2>1. /\ job[k].gen \in 0 .. (MaxEdges + 1)
        /\ NextRoot(j) /\ NoWorker \in Owners
    BY <1>1, <1>9 DEF BeginRetry, WorksOnRow, Row, Owners, JobIds
  <2>2. NewRow("queued", job[k].gen, job[k].role, NoJob) \in Row
    BY <1>1, <1>9, <2>1, NewRowType, StatusSets DEF BeginRetry, Row, JobIds
  <2>3. Write(j, NoWorker, NewRow("queued", job[k].gen, job[k].role, NoJob)) /\ UNCHANGED job
    BY <1>9 DEF BeginRetry
  <2>4. QED
    BY <1>1, <2>1, <2>2, <2>3, WriteNew
<1>10. ASSUME NEW j \in Roots, requeue_failed_job(j)
      PROVE  DraftsStep
  <2>1. DEFINE new == [job[j] EXCEPT !.status = "queued"]
  <2>2. new \in Row /\ job[j].status = "failed" /\ j \in JobIds
        /\ new.parent = NoJob /\ new.gen = job[j].gen /\ new.status = "queued"
    BY <1>1, <1>10, StatusSets DEF requeue_failed_job, RootRows, IInv, Row,
       JobIds
  <2>3. Write(j, NoWorker, new) /\ UNCHANGED job
    BY <1>10 DEF requeue_failed_job
  <2>4. QED
    BY <1>1, <2>2, <2>3, WriteDraft DEF Owners
<1>11. ASSUME NEW j \in Roots, CommitDraft(j)
      PROVE  DraftsStep
  <2>1. ASSUME NEW k \in JobIds, draft'[k] # NoDraft
        PROVE  k # j /\ draft'[k] = draft[k] /\ job'[k] = job[k]
    BY <1>1, <1>11, <2>1 DEF CommitDraft
  <2>2. draft' \in [JobIds -> Draft]
    BY <1>1, <1>11, NoDraftType DEF CommitDraft
  <2>3. QED
    BY <1>1, <2>1, <2>2 DEF DraftsStep, DraftRows, RowFree, Untouched, Queues
<1>12. ASSUME NEW j \in Roots, ExpireLease(j)
      PROVE  DraftsStep
  BY <1>1, <1>12, UntouchedDrafts DEF ExpireLease, Untouched, JobIds, Row
<1>13. ASSUME NEW j \in Roots, fence_expired_jobs(j)
      PROVE  DraftsStep
  <2>1. ASSUME NEW k \in Roots, job[k].status \in {"absent", "failed"}
        PROVE  job'[k] = job[k]
    BY <1>1, <1>13, <2>1, StatusSets DEF fence_expired_jobs, JobIds
  <2>2. QED
    BY <1>1, <1>13, <2>1, UntouchedDrafts DEF fence_expired_jobs, Untouched
<1>14. ASSUME NEW j \in Roots, finish_recovered_jobs(j)
      PROVE  DraftsStep
  <2>1. ASSUME NEW k \in Roots, job[k].status \in {"absent", "failed"}
        PROVE  job'[k] = job[k]
    BY <1>1, <1>14, <2>1 DEF finish_recovered_jobs, CancellationFinished, JobIds
  <2>2. QED
    BY <1>1, <1>14, <2>1, UntouchedDrafts DEF finish_recovered_jobs, Untouched
<1>15. ASSUME NEW w \in Workers, list_ready_developer_candidates(w)
      PROVE  DraftsStep
  BY <1>1, <1>15, SameDrafts DEF list_ready_developer_candidates
<1>16. ASSUME NEW w \in Workers, NEW j \in Roots, QueueReady(w, j)
      PROVE  DraftsStep
  <2>1. /\ job[proc[w].job].gen \in 0 .. (MaxEdges + 1)
        /\ NextRoot(j) /\ w \in Owners
    BY <1>1, <1>16 DEF QueueReady, WorksOnRow, Row, Owners, JobIds
  <2>2. NewRow("queued", job[proc[w].job].gen, "developer", NoJob) \in Row
    BY <1>1, <1>16, <2>1, NewRowType, StatusSets DEF QueueReady, Row, Roles,
       NextRoot, JobIds
  <2>3. Write(j, w, NewRow("queued", job[proc[w].job].gen, "developer", NoJob)) /\ UNCHANGED job
    BY <1>16 DEF QueueReady
  <2>4. QED
    BY <1>1, <2>1, <2>2, <2>3, WriteNew
<1>17. ASSUME NEW w \in Workers, NoRootLeft(w)
      PROVE  DraftsStep
  BY <1>1, <1>17, SameDrafts DEF NoRootLeft
<1>18. ASSUME NEW w \in Workers, acquire_next_queued_job(w)
      PROVE  DraftsStep
  <2>1. PICK j \in Roots :
          /\ job[j].status = "queued"
          /\ \E row : job' = [job EXCEPT ![j] = row]
    BY <1>18 DEF acquire_next_queued_job
  <2>2. UNCHANGED draft /\ j \in JobIds
    BY <1>18 DEF acquire_next_queued_job, JobIds
  <2>3. QED
    BY <1>1, <2>1, <2>2, PutDrafts
<1>19. ASSUME NEW w \in Workers, mark_job_running(w)
      PROVE  DraftsStep
  <2>1. DEFINE j == proc[w].job
               row == fence_workflow_job(job[j],
                        [job[j] EXCEPT !.status = "running"])
  <2>2. j \in JobIds
    BY <1>1, <1>19 DEF mark_job_running, WorksOnRow, JobIds
  <2>3. \/ UNCHANGED job
        \/ job[j].status = "leased" /\ job' = [job EXCEPT ![j] = row]
    BY <1>19 DEF mark_job_running
  <2>4. UNCHANGED draft
    BY <1>19 DEF mark_job_running
  <2>5. QED
    BY <1>1, <2>2, <2>3, <2>4, SameDrafts, PutDrafts
<1>20. ASSUME NEW w \in Workers, BeginSideEffect(w)
      PROVE  DraftsStep
  BY <1>1, <1>20, SameDrafts DEF BeginSideEffect
<1>21. ASSUME NEW w \in Workers, lock_job_side_effect(w)
      PROVE  DraftsStep
  BY <1>1, <1>21, SameDrafts DEF lock_job_side_effect
<1>22. ASSUME NEW w \in Workers, NEW c \in Children, supersede_job(w, c)
      PROVE  DraftsStep
  BY <1>1, <1>22, UpdateDrafts DEF supersede_job, JobIds
<1>23. ASSUME NEW w \in Workers, EndSideEffect(w)
      PROVE  DraftsStep
  BY <1>1, <1>23, SameDrafts DEF EndSideEffect
<1>24. ASSUME NEW w \in Workers, register_container_execution(w)
      PROVE  DraftsStep
  <2>1. proc[w].job \in JobIds
    BY <1>1, <1>24 DEF register_container_execution, WorksOnRow, JobIds
  <2>2. \E row : job' = [job EXCEPT ![proc[w].job] = row]
    BY <1>24 DEF register_container_execution
  <2>3. QED
    BY <1>1, <1>24, <2>1, <2>2, PutDrafts DEF register_container_execution
<1>25. ASSUME NEW w \in Workers, save_checkpoint(w)
      PROVE  DraftsStep
  <2>1. DEFINE j == proc[w].job
  <2>2. PICK next, ckpt, outcome :
          job' = [k \in JobIds |-> Checkpointed(k, j, next, ckpt, outcome)]
    BY <1>25 DEF save_checkpoint
  <2>3. job[j].status = "running"
    BY <1>25 DEF save_checkpoint, OwnsRunningLease
  <2>4. ASSUME NEW k \in Roots, job[k].status \in {"absent", "failed"}
        PROVE  job'[k] = job[k]
    <3>1. k # j /\ k \notin Children /\ k \in JobIds
      BY <2>3, <2>4, JobIdsAssumption DEF JobIds
    <3>2. QED
      BY <2>2, <3>1 DEF Checkpointed
  <2>5. QED
    BY <1>1, <1>25, <2>4, UntouchedDrafts DEF save_checkpoint, Untouched
<1>26. ASSUME NEW w \in Workers, complete_job(w)
      PROVE  DraftsStep
  <2>1. proc[w].job \in JobIds
    BY <1>1, <1>26 DEF complete_job, WorksOnRow, JobIds
  <2>2. UNCHANGED job \/ Update(proc[w].job, Drop(job[proc[w].job], "completed"))
    BY <1>26 DEF complete_job
  <2>3. QED
    BY <1>1, <1>26, <2>1, <2>2, SameDrafts, UpdateDrafts DEF complete_job
<1>27. ASSUME NEW w \in Workers, fail_active_plugin_child_jobs(w)
      PROVE  DraftsStep
  <2>1. ASSUME NEW k \in Roots, job[k].status \in {"absent", "failed"}
        PROVE  job'[k] = job[k]
    BY <1>1, <1>27, <2>1, StatusSets DEF fail_active_plugin_child_jobs, JobIds
  <2>2. QED
    BY <1>1, <1>27, <2>1, UntouchedDrafts DEF fail_active_plugin_child_jobs,
       Untouched
<1>28. ASSUME NEW w \in Workers, fail_job(w)
      PROVE  DraftsStep
  <2>1. proc[w].job \in JobIds
    BY <1>1, <1>28 DEF fail_job, WorksOnRow, Executing, JobIds
  <2>2. QED
    BY <1>1, <1>28, <2>1, UpdateDrafts DEF fail_job
<1>29. ASSUME NEW w \in Workers, BeginStateWrite(w)
      PROVE  DraftsStep
  BY <1>1, <1>29, SameDrafts DEF BeginStateWrite
<1>30. ASSUME NEW w \in Workers, update_workflow_state_for_job(w)
      PROVE  DraftsStep
  BY <1>1, <1>30, SameDrafts DEF update_workflow_state_for_job
<1>31. ASSUME NEW w \in Workers, NEW j \in Roots, SpawnDeveloper(w, j)
      PROVE  DraftsStep
  <2>1. /\ job[proc[w].job].gen \in 0 .. (MaxEdges + 1)
        /\ NextRoot(j) /\ w \in Owners
    BY <1>1, <1>31 DEF SpawnDeveloper, WorksOnRow, Row, Owners, JobIds
  <2>2. NewRow("queued", job[proc[w].job].gen, "developer", NoJob) \in Row
    BY <1>1, <1>31, <2>1, NewRowType, StatusSets DEF SpawnDeveloper, Row,
       Roles, NextRoot, JobIds
  <2>3. Write(j, w, NewRow("queued", job[proc[w].job].gen, "developer", NoJob)) /\ UNCHANGED job
    BY <1>31 DEF SpawnDeveloper
  <2>4. QED
    BY <1>1, <2>1, <2>2, <2>3, WriteNew
<1>32. ASSUME NEW w \in Workers, heartbeat_job(w)
      PROVE  DraftsStep
  <2>1. proc[w].job \in JobIds
    BY <1>1, <1>32 DEF heartbeat_job, WorksOnRow, Executing, JobIds
  <2>2. QED
    BY <1>1, <1>32, <2>1, UpdateDrafts DEF heartbeat_job
<1>33. ASSUME NEW w \in Workers, MonitorStop(w)
      PROVE  DraftsStep
  BY <1>1, <1>33, OrphanedDrafts DEF MonitorStop
<1>34. ASSUME NEW w \in Workers, EndExecution(w)
      PROVE  DraftsStep
  <2>1. ASSUME NEW k \in Roots, job[k].status \in {"absent", "failed"}
        PROVE  job'[k] = job[k]
    BY <1>1, <1>34, <2>1 DEF EndExecution, CancellationFinished, JobIds
  <2>2. QED
    BY <1>1, <1>34, <2>1, UntouchedDrafts DEF EndExecution, Untouched
<1>35. ASSUME NEW w \in Workers, Crash(w)
      PROVE  DraftsStep
  BY <1>1, <1>35, OrphanedDrafts DEF Crash
<1>36. ASSUME NEW w \in Workers, Restart(w)
      PROVE  DraftsStep
  BY <1>1, <1>36, SameDrafts DEF Restart
<1>37. CASE UNCHANGED vars
  BY <1>1, <1>37, SameDrafts DEF vars
<1>38. QED
  BY <1>2, <1>3, <1>4, <1>5, <1>6, <1>7, <1>8, <1>9, <1>10, <1>11,
     <1>12, <1>13, <1>14, <1>15, <1>16, <1>17, <1>18, <1>19, <1>20,
     <1>21, <1>22, <1>23, <1>24, <1>25, <1>26, <1>27, <1>28, <1>29,
     <1>30, <1>31, <1>32, <1>33, <1>34, <1>35, <1>36, <1>37
     DEF Next, Github, Requests, Recovery, Poll, Execute, Supervise

-----------------------------------------------------------------------------
(* What a step does to the row lock of the workflow item                     *)

\* A side effect is entered with the row lock and for the current generation.
EffectsStep ==
  \A w \in Workers : proc'[w].pc = "effect" =>
    /\ proc'[w].job = proc[w].job
    /\ \/ proc[w].pc = "effect"
       \/ /\ proc[w].pc = "lock_wait" /\ ~WorkflowLocked
          /\ Current(job[proc[w].job]) /\ UNCHANGED <<wf, job, closing>>

LEMMA SideEffectsStep ==
  ASSUME IInv, [Next]_vars
  PROVE  EffectsStep
<1>1. proc \in [Workers -> Proc]
  BY DEF IInv, TypeOK
<1>2. ASSUME NEW t \in 0 .. MaxEdges, ObserveOpen(t)
      PROVE  EffectsStep
  BY <1>2 DEF ObserveOpen, EffectsStep
<1>3. ASSUME NEW t \in 0 .. MaxEdges, BeginClosing(t)
      PROVE  EffectsStep
  BY <1>3 DEF BeginClosing, EffectsStep
<1>4. ASSUME LockForClosing
      PROVE  EffectsStep
  BY <1>4 DEF LockForClosing, EffectsStep
<1>5. ASSUME CommitClosing
      PROVE  EffectsStep
  BY <1>5 DEF CommitClosing, EffectsStep
<1>6. ASSUME NEW j \in Roots, resume_latest_paused_job(j)
      PROVE  EffectsStep
  BY <1>6 DEF resume_latest_paused_job, EffectsStep
<1>7. ASSUME NEW j \in Roots, Intake(j)
      PROVE  EffectsStep
  BY <1>7 DEF Intake, EffectsStep
<1>8. ASSUME NEW j \in Roots, retry_failed(j)
      PROVE  EffectsStep
  BY <1>8 DEF retry_failed, EffectsStep
<1>9. ASSUME NEW k \in Roots, NEW j \in Roots, BeginRetry(k, j)
      PROVE  EffectsStep
  BY <1>9 DEF BeginRetry, EffectsStep
<1>10. ASSUME NEW j \in Roots, requeue_failed_job(j)
      PROVE  EffectsStep
  BY <1>10 DEF requeue_failed_job, EffectsStep
<1>11. ASSUME NEW j \in Roots, CommitDraft(j)
      PROVE  EffectsStep
  BY <1>1, <1>11 DEF CommitDraft, Idle, EffectsStep
<1>12. ASSUME NEW j \in Roots, ExpireLease(j)
      PROVE  EffectsStep
  BY <1>12 DEF ExpireLease, EffectsStep
<1>13. ASSUME NEW j \in Roots, fence_expired_jobs(j)
      PROVE  EffectsStep
  BY <1>13 DEF fence_expired_jobs, EffectsStep
<1>14. ASSUME NEW j \in Roots, finish_recovered_jobs(j)
      PROVE  EffectsStep
  BY <1>14 DEF finish_recovered_jobs, EffectsStep
<1>15. ASSUME NEW w \in Workers, list_ready_developer_candidates(w)
      PROVE  EffectsStep
  BY <1>1, <1>15 DEF list_ready_developer_candidates, Idle, EffectsStep
<1>16. ASSUME NEW w \in Workers, NEW j \in Roots, QueueReady(w, j)
      PROVE  EffectsStep
  BY <1>1, <1>16 DEF QueueReady, Goto, EffectsStep
<1>17. ASSUME NEW w \in Workers, NoRootLeft(w)
      PROVE  EffectsStep
  BY <1>1, <1>17 DEF NoRootLeft, Idle, EffectsStep
<1>18. ASSUME NEW w \in Workers, acquire_next_queued_job(w)
      PROVE  EffectsStep
  BY <1>1, <1>18 DEF acquire_next_queued_job, Idle, Down, EffectsStep
<1>19. ASSUME NEW w \in Workers, mark_job_running(w)
      PROVE  EffectsStep
  BY <1>1, <1>19 DEF mark_job_running, Goto, EffectsStep
<1>20. ASSUME NEW w \in Workers, BeginSideEffect(w)
      PROVE  EffectsStep
  BY <1>1, <1>20 DEF BeginSideEffect, Goto, EffectsStep
<1>21. ASSUME NEW w \in Workers, lock_job_side_effect(w)
      PROVE  EffectsStep
  BY <1>1, <1>21 DEF lock_job_side_effect, Goto, EffectsStep
<1>22. ASSUME NEW w \in Workers, NEW c \in Children, supersede_job(w, c)
      PROVE  EffectsStep
  BY <1>22 DEF supersede_job, EffectsStep
<1>23. ASSUME NEW w \in Workers, EndSideEffect(w)
      PROVE  EffectsStep
  BY <1>1, <1>23 DEF EndSideEffect, Goto, EffectsStep
<1>24. ASSUME NEW w \in Workers, register_container_execution(w)
      PROVE  EffectsStep
  BY <1>24 DEF register_container_execution, EffectsStep
<1>25. ASSUME NEW w \in Workers, save_checkpoint(w)
      PROVE  EffectsStep
  <2>1. CASE UNCHANGED proc
    BY <2>1 DEF EffectsStep
  <2>2. CASE Goto(w, "ending")
    BY <1>1, <2>2 DEF Goto, Proc, EffectsStep
  <2>3. QED
    BY <2>1, <2>2, <1>25 DEF save_checkpoint
<1>26. ASSUME NEW w \in Workers, complete_job(w)
      PROVE  EffectsStep
  BY <1>1, <1>26 DEF complete_job, EffectsStep
<1>27. ASSUME NEW w \in Workers, fail_active_plugin_child_jobs(w)
      PROVE  EffectsStep
  BY <1>1, <1>27 DEF fail_active_plugin_child_jobs, Goto, EffectsStep
<1>28. ASSUME NEW w \in Workers, fail_job(w)
      PROVE  EffectsStep
  BY <1>1, <1>28 DEF fail_job, Goto, EffectsStep
<1>29. ASSUME NEW w \in Workers, BeginStateWrite(w)
      PROVE  EffectsStep
  BY <1>1, <1>29 DEF BeginStateWrite, Goto, EffectsStep
<1>30. ASSUME NEW w \in Workers, update_workflow_state_for_job(w)
      PROVE  EffectsStep
  BY <1>1, <1>30 DEF update_workflow_state_for_job, Goto, EffectsStep
<1>31. ASSUME NEW w \in Workers, NEW j \in Roots, SpawnDeveloper(w, j)
      PROVE  EffectsStep
  BY <1>1, <1>31 DEF SpawnDeveloper, Goto, EffectsStep
<1>32. ASSUME NEW w \in Workers, heartbeat_job(w)
      PROVE  EffectsStep
  BY <1>32 DEF heartbeat_job, EffectsStep
<1>33. ASSUME NEW w \in Workers, MonitorStop(w)
      PROVE  EffectsStep
  BY <1>1, <1>33 DEF MonitorStop, Goto, EffectsStep
<1>34. ASSUME NEW w \in Workers, EndExecution(w)
      PROVE  EffectsStep
  BY <1>1, <1>34 DEF EndExecution, Down, Idle, EffectsStep
<1>35. ASSUME NEW w \in Workers, Crash(w)
      PROVE  EffectsStep
  BY <1>1, <1>35 DEF Crash, Down, Idle, EffectsStep
<1>36. ASSUME NEW w \in Workers, Restart(w)
      PROVE  EffectsStep
  BY <1>1, <1>36 DEF Restart, Idle, EffectsStep
<1>37. CASE UNCHANGED vars
  BY <1>37 DEF vars, EffectsStep
<1>38. QED
  BY <1>2, <1>3, <1>4, <1>5, <1>6, <1>7, <1>8, <1>9, <1>10, <1>11,
     <1>12, <1>13, <1>14, <1>15, <1>16, <1>17, <1>18, <1>19, <1>20,
     <1>21, <1>22, <1>23, <1>24, <1>25, <1>26, <1>27, <1>28, <1>29,
     <1>30, <1>31, <1>32, <1>33, <1>34, <1>35, <1>36, <1>37
     DEF Next, Github, Requests, Recovery, Poll, Execute, Supervise

ObservationsStep ==
  /\ closing' \in Closing /\ crashes' \in 0 .. MaxCrashes
  /\ \/ UNCHANGED closing
     \/ closing'.pc = "idle"
     \/ closing'.pc = "waiting" /\ Provider(closing'.time) = "closed"
     \/ /\ closing.pc = "waiting" /\ closing'.pc = "scanned"
        /\ closing'.time = closing.time /\ closing.time >= wf.time
        /\ ~WorkflowLocked /\ UNCHANGED <<wf, proc>>

LEMMA ClosingsStep ==
  ASSUME IInv, [Next]_vars
  PROVE  ObservationsStep
<1>1. closing \in Closing /\ crashes \in 0 .. MaxCrashes /\ wf \in Workflow
  BY DEF IInv, TypeOK
<1>2. ASSUME NEW t \in 0 .. MaxEdges, ObserveOpen(t)
      PROVE  ObservationsStep
  BY <1>1, <1>2 DEF ObserveOpen, ObservationsStep
<1>3. ASSUME NEW t \in 0 .. MaxEdges, BeginClosing(t)
      PROVE  ObservationsStep
  BY <1>1, <1>3 DEF BeginClosing, Closing, ObservationsStep
<1>4. ASSUME LockForClosing
      PROVE  ObservationsStep
  <2>1. CASE closing.time < wf.time
    BY <1>1, <1>4, <2>1 DEF LockForClosing, Closing, ObservationsStep
  <2>2. CASE ~(closing.time < wf.time)
    <3>1. closing.time >= wf.time
      BY <1>1, <2>2, BoundsAssumption DEF Closing, Workflow
    <3>2. closing' = [closing EXCEPT !.pc = "scanned",
                        !.sees = {j \in JobIds : job[j].status \in Active}]
      BY <1>4, <2>2 DEF LockForClosing
    <3>3. QED
      BY <1>1, <1>4, <3>1, <3>2 DEF LockForClosing, Closing, ObservationsStep
  <2>3. QED
    BY <2>1, <2>2
<1>5. ASSUME CommitClosing
      PROVE  ObservationsStep
  BY <1>1, <1>5 DEF CommitClosing, Closing, ObservationsStep
<1>6. ASSUME NEW j \in Roots, resume_latest_paused_job(j)
      PROVE  ObservationsStep
  BY <1>1, <1>6 DEF resume_latest_paused_job, ObservationsStep
<1>7. ASSUME NEW j \in Roots, Intake(j)
      PROVE  ObservationsStep
  BY <1>1, <1>7 DEF Intake, ObservationsStep
<1>8. ASSUME NEW j \in Roots, retry_failed(j)
      PROVE  ObservationsStep
  BY <1>1, <1>8 DEF retry_failed, ObservationsStep
<1>9. ASSUME NEW k \in Roots, NEW j \in Roots, BeginRetry(k, j)
      PROVE  ObservationsStep
  BY <1>1, <1>9 DEF BeginRetry, ObservationsStep
<1>10. ASSUME NEW j \in Roots, requeue_failed_job(j)
      PROVE  ObservationsStep
  BY <1>1, <1>10 DEF requeue_failed_job, ObservationsStep
<1>11. ASSUME NEW j \in Roots, CommitDraft(j)
      PROVE  ObservationsStep
  BY <1>1, <1>11 DEF CommitDraft, ObservationsStep
<1>12. ASSUME NEW j \in Roots, ExpireLease(j)
      PROVE  ObservationsStep
  BY <1>1, <1>12 DEF ExpireLease, ObservationsStep
<1>13. ASSUME NEW j \in Roots, fence_expired_jobs(j)
      PROVE  ObservationsStep
  BY <1>1, <1>13 DEF fence_expired_jobs, ObservationsStep
<1>14. ASSUME NEW j \in Roots, finish_recovered_jobs(j)
      PROVE  ObservationsStep
  BY <1>1, <1>14 DEF finish_recovered_jobs, ObservationsStep
<1>15. ASSUME NEW w \in Workers, list_ready_developer_candidates(w)
      PROVE  ObservationsStep
  BY <1>1, <1>15 DEF list_ready_developer_candidates, ObservationsStep
<1>16. ASSUME NEW w \in Workers, NEW j \in Roots, QueueReady(w, j)
      PROVE  ObservationsStep
  BY <1>1, <1>16 DEF QueueReady, ObservationsStep
<1>17. ASSUME NEW w \in Workers, NoRootLeft(w)
      PROVE  ObservationsStep
  BY <1>1, <1>17 DEF NoRootLeft, ObservationsStep
<1>18. ASSUME NEW w \in Workers, acquire_next_queued_job(w)
      PROVE  ObservationsStep
  BY <1>1, <1>18 DEF acquire_next_queued_job, ObservationsStep
<1>19. ASSUME NEW w \in Workers, mark_job_running(w)
      PROVE  ObservationsStep
  BY <1>1, <1>19 DEF mark_job_running, ObservationsStep
<1>20. ASSUME NEW w \in Workers, BeginSideEffect(w)
      PROVE  ObservationsStep
  BY <1>1, <1>20 DEF BeginSideEffect, ObservationsStep
<1>21. ASSUME NEW w \in Workers, lock_job_side_effect(w)
      PROVE  ObservationsStep
  BY <1>1, <1>21 DEF lock_job_side_effect, ObservationsStep
<1>22. ASSUME NEW w \in Workers, NEW c \in Children, supersede_job(w, c)
      PROVE  ObservationsStep
  BY <1>1, <1>22 DEF supersede_job, ObservationsStep
<1>23. ASSUME NEW w \in Workers, EndSideEffect(w)
      PROVE  ObservationsStep
  BY <1>1, <1>23 DEF EndSideEffect, ObservationsStep
<1>24. ASSUME NEW w \in Workers, register_container_execution(w)
      PROVE  ObservationsStep
  BY <1>1, <1>24 DEF register_container_execution, ObservationsStep
<1>25. ASSUME NEW w \in Workers, save_checkpoint(w)
      PROVE  ObservationsStep
  BY <1>1, <1>25 DEF save_checkpoint, ObservationsStep
<1>26. ASSUME NEW w \in Workers, complete_job(w)
      PROVE  ObservationsStep
  BY <1>1, <1>26 DEF complete_job, ObservationsStep
<1>27. ASSUME NEW w \in Workers, fail_active_plugin_child_jobs(w)
      PROVE  ObservationsStep
  BY <1>1, <1>27 DEF fail_active_plugin_child_jobs, ObservationsStep
<1>28. ASSUME NEW w \in Workers, fail_job(w)
      PROVE  ObservationsStep
  BY <1>1, <1>28 DEF fail_job, ObservationsStep
<1>29. ASSUME NEW w \in Workers, BeginStateWrite(w)
      PROVE  ObservationsStep
  BY <1>1, <1>29 DEF BeginStateWrite, ObservationsStep
<1>30. ASSUME NEW w \in Workers, update_workflow_state_for_job(w)
      PROVE  ObservationsStep
  BY <1>1, <1>30 DEF update_workflow_state_for_job, ObservationsStep
<1>31. ASSUME NEW w \in Workers, NEW j \in Roots, SpawnDeveloper(w, j)
      PROVE  ObservationsStep
  BY <1>1, <1>31 DEF SpawnDeveloper, ObservationsStep
<1>32. ASSUME NEW w \in Workers, heartbeat_job(w)
      PROVE  ObservationsStep
  BY <1>1, <1>32 DEF heartbeat_job, ObservationsStep
<1>33. ASSUME NEW w \in Workers, MonitorStop(w)
      PROVE  ObservationsStep
  BY <1>1, <1>33 DEF MonitorStop, ObservationsStep
<1>34. ASSUME NEW w \in Workers, EndExecution(w)
      PROVE  ObservationsStep
  BY <1>1, <1>34 DEF EndExecution, ObservationsStep
<1>35. ASSUME NEW w \in Workers, Crash(w)
      PROVE  ObservationsStep
  BY <1>1, <1>35, BoundsAssumption DEF Crash, ObservationsStep
<1>36. ASSUME NEW w \in Workers, Restart(w)
      PROVE  ObservationsStep
  BY <1>1, <1>36 DEF Restart, ObservationsStep
<1>37. CASE UNCHANGED vars
  BY <1>1, <1>37 DEF vars, ObservationsStep
<1>38. QED
  BY <1>2, <1>3, <1>4, <1>5, <1>6, <1>7, <1>8, <1>9, <1>10, <1>11,
     <1>12, <1>13, <1>14, <1>15, <1>16, <1>17, <1>18, <1>19, <1>20,
     <1>21, <1>22, <1>23, <1>24, <1>25, <1>26, <1>27, <1>28, <1>29,
     <1>30, <1>31, <1>32, <1>33, <1>34, <1>35, <1>36, <1>37
     DEF Next, Github, Requests, Recovery, Poll, Execute, Supervise

-----------------------------------------------------------------------------
(* What a step does to the tree of coordinators and tasks                    *)

\* A coordinator has no parent; a task is inserted under an existing one and
\* with its generation.
FamilyStep ==
  /\ \A j \in Roots : job'[j].parent \in {job[j].parent, NoJob}
  /\ \A c \in Children :
       job[c].status = "absent" /\ job'[c].status # "absent" =>
         /\ job'[c].parent \in Roots
         /\ job[job'[c].parent].status # "absent"
         /\ job'[c].gen = job[job'[c].parent].gen

SameFamily(old, new) ==
  /\ new.parent = old.parent
  /\ old.status = "absent" => new.status = "absent"

LEMMA FamilySame ==
  ASSUME UNCHANGED job
  PROVE  FamilyStep
  BY DEF FamilyStep

LEMMA FamilyEach ==
  ASSUME \A k \in JobIds : SameFamily(job[k], job'[k])
  PROVE  FamilyStep
  BY DEF FamilyStep, SameFamily, JobIds

LEMMA FamilyPut ==
  ASSUME job \in [JobIds -> Row], NEW j \in Roots, NEW row \in Row,
         row.parent \in {job[j].parent, NoJob}, job' = [job EXCEPT ![j] = row]
  PROVE  FamilyStep
<1>1. j \in JobIds /\ j \notin Children
  BY JobIdsAssumption DEF JobIds
<1>2. QED
  BY <1>1 DEF FamilyStep, JobIds

LEMMA FamilyUpdate ==
  ASSUME job \in [JobIds -> Row], NEW j \in Roots, NEW new \in Row,
         new.parent \in {job[j].parent, NoJob},
         \/ Update(j, new)
         \/ job' = [job EXCEPT ![j] = fence_workflow_job(job[j], new)]
  PROVE  FamilyStep
<1>1. /\ fence_workflow_job(job[j], new) \in Row
      /\ fence_workflow_job(job[j], new).parent = new.parent
  BY FenceRow DEF JobIds
<1>2. QED
  BY <1>1, FamilyPut DEF Update

LEMMA FamilyTask ==
  ASSUME job \in [JobIds -> Row], NEW c \in Children, NEW row,
         job[c].status # "absent", job' = [job EXCEPT ![c] = row]
  PROVE  FamilyStep
<1>1. c \in JobIds /\ c \notin Roots
  BY JobIdsAssumption DEF JobIds
<1>2. QED
  BY <1>1 DEF FamilyStep, JobIds

LEMMA FamilyFinished ==
  ASSUME job \in [JobIds -> Row], NEW j, job' = CancellationFinished(j)
  PROVE  FamilyStep
<1>1. ASSUME NEW k \in JobIds
      PROVE  SameFamily(job[k], job'[k])
  <2>1. job'[k] = job[k] \/ (job[k].status = "cancel_requested"
                             /\ job'[k] = Drop(job[k], "cancelled"))
    BY DEF CancellationFinished
  <2>2. "cancelled" \in JobStatus
    BY DEF JobStatus, Cancelled
  <2>3. QED
    BY <2>1, <2>2, DropRow DEF SameFamily
<1>2. QED
  BY <1>1, FamilyEach

LEMMA FamiliesStep ==
  ASSUME IInv, [Next]_vars
  PROVE  FamilyStep
<1>1. TypeOK /\ WorksOnRow /\ job \in [JobIds -> Row]
  BY DEF IInv, TypeOK
<1>2. ASSUME NEW t \in 0 .. MaxEdges, ObserveOpen(t)
      PROVE  FamilyStep
  BY <1>2, FamilySame DEF ObserveOpen
<1>3. ASSUME NEW t \in 0 .. MaxEdges, BeginClosing(t)
      PROVE  FamilyStep
  BY <1>3, FamilySame DEF BeginClosing
<1>4. ASSUME LockForClosing
      PROVE  FamilyStep
  BY <1>4, FamilySame DEF LockForClosing
<1>5. ASSUME CommitClosing
      PROVE  FamilyStep
  <2>1. ASSUME NEW k \in JobIds
        PROVE  SameFamily(job[k], job'[k])
    BY <1>1, <1>5, DropRow, StatusSets, StoppedStatus DEF CommitClosing,
       SameFamily, Row
  <2>2. QED
    BY <2>1, FamilyEach
<1>6. ASSUME NEW j \in Roots, resume_latest_paused_job(j)
      PROVE  FamilyStep
  <2>1. DEFINE new == Drop(job[j], "queued")
  <2>2. new \in Row /\ new.parent \in {job[j].parent, NoJob}
    BY <1>1, <1>6, StatusSets, DropRow, NewRowType DEF
       resume_latest_paused_job, JobIds
  <2>3. QED
    BY <1>1, <1>6, <2>2, FamilyUpdate DEF resume_latest_paused_job
<1>7. ASSUME NEW j \in Roots, Intake(j)
      PROVE  FamilyStep
  <2>1. DEFINE new == NewRow("queued", wf.gen, InitialRole, NoJob)
  <2>2. new \in Row
    BY <1>1, StatusSets, NewRowType
       DEF InitialRole, Roles, TypeOK, Workflow, Generations
  <2>3. new.parent = NoJob
    BY DEF NewRow, Absent
  <2>4. Update(j, new)
    BY <1>7 DEF Intake
  <2>5. QED
    BY <1>1, <2>2, <2>3, <2>4, FamilyUpdate
<1>8. ASSUME NEW j \in Roots, retry_failed(j)
      PROVE  FamilyStep
  <2>1. DEFINE new == Drop(job[j], "queued")
  <2>2. new \in Row /\ new.parent \in {job[j].parent, NoJob}
    BY <1>1, <1>8, StatusSets, DropRow, NewRowType DEF retry_failed, JobIds
  <2>3. QED
    BY <1>1, <1>8, <2>2, FamilyUpdate DEF retry_failed
<1>9. ASSUME NEW k \in Roots, NEW j \in Roots, BeginRetry(k, j)
      PROVE  FamilyStep
  BY <1>9, FamilySame DEF BeginRetry
<1>10. ASSUME NEW j \in Roots, requeue_failed_job(j)
      PROVE  FamilyStep
  BY <1>10, FamilySame DEF requeue_failed_job
<1>11. ASSUME NEW j \in Roots, CommitDraft(j)
      PROVE  FamilyStep
  <2>1. draft[j].row \in Row /\ draft[j].row.parent = NoJob
    BY <1>1, <1>11 DEF CommitDraft, IInv, DraftRows, TypeOK, Draft, JobIds
  <2>2. QED
    <3>1. job' = [job EXCEPT ![j] = draft[j].row]
      BY <1>11 DEF CommitDraft
    <3>2. QED
      BY <1>1, <2>1, <3>1, FamilyPut
<1>12. ASSUME NEW j \in Roots, ExpireLease(j)
      PROVE  FamilyStep
  <2>1. DEFINE row == [job[j] EXCEPT !.lease = "expired"]
  <2>2. row \in Row /\ row.parent = job[j].parent /\ job' = [job EXCEPT ![j] = row]
    BY <1>1, <1>12 DEF ExpireLease, Row, JobIds
  <2>3. QED
    BY <1>1, <2>2, FamilyPut
<1>13. ASSUME NEW j \in Roots, fence_expired_jobs(j)
      PROVE  FamilyStep
  <2>1. ASSUME NEW k \in JobIds
        PROVE  SameFamily(job[k], job'[k])
    BY <1>1, <1>13, DropRow, StatusSets, StoppedStatus DEF
       fence_expired_jobs, SameFamily, Row
  <2>2. QED
    BY <2>1, FamilyEach
<1>14. ASSUME NEW j \in Roots, finish_recovered_jobs(j)
      PROVE  FamilyStep
  BY <1>1, <1>14, FamilyFinished DEF finish_recovered_jobs
<1>15. ASSUME NEW w \in Workers, list_ready_developer_candidates(w)
      PROVE  FamilyStep
  BY <1>15, FamilySame DEF list_ready_developer_candidates
<1>16. ASSUME NEW w \in Workers, NEW j \in Roots, QueueReady(w, j)
      PROVE  FamilyStep
  BY <1>16, FamilySame DEF QueueReady
<1>17. ASSUME NEW w \in Workers, NoRootLeft(w)
      PROVE  FamilyStep
  BY <1>17, FamilySame DEF NoRootLeft
<1>18. ASSUME NEW w \in Workers, acquire_next_queued_job(w)
      PROVE  FamilyStep
  <2>1. PICK j \in Roots :
          LET new == [job[j] EXCEPT !.status = "leased", !.owner = w,
                                    !.lease = "live"]
          IN job' = [job EXCEPT ![j] = fence_workflow_job(job[j], new)]
    BY <1>18 DEF acquire_next_queued_job
  <2>2. DEFINE new == [job[j] EXCEPT !.status = "leased", !.owner = w,
                                     !.lease = "live"]
  <2>3. new \in Row /\ new.parent = job[j].parent
    BY <1>1, StatusSets DEF Row, Owners, JobIds
  <2>4. QED
    BY <1>1, <2>1, <2>3, FamilyUpdate
<1>19. ASSUME NEW w \in Workers, mark_job_running(w)
      PROVE  FamilyStep
  <2>1. DEFINE j == proc[w].job
               new == [job[j] EXCEPT !.status = "running"]
  <2>2. /\ j \in Roots /\ new \in Row
        /\ new.parent = job[j].parent
    <3>1. proc[w].job \in Roots
      BY <1>1, <1>19 DEF mark_job_running, WorksOnRow
    <3>2. job[j] \in Row
      BY <1>1, <3>1 DEF JobIds
    <3>3. QED
      BY <3>1, <3>2, StatusSets DEF Row
  <2>3. \/ UNCHANGED job
        \/ job' = [job EXCEPT ![j] = fence_workflow_job(job[j], new)]
    BY <1>19 DEF mark_job_running, Update
  <2>4. QED
    BY <1>1, <2>2, <2>3, FamilyUpdate, FamilySame DEF Update
<1>20. ASSUME NEW w \in Workers, BeginSideEffect(w)
      PROVE  FamilyStep
  BY <1>20, FamilySame DEF BeginSideEffect
<1>21. ASSUME NEW w \in Workers, lock_job_side_effect(w)
      PROVE  FamilyStep
  BY <1>21, FamilySame DEF lock_job_side_effect
<1>22. ASSUME NEW w \in Workers, NEW c \in Children, supersede_job(w, c)
      PROVE  FamilyStep
  <2>1. job[c].status # "absent" /\ c \in JobIds
    BY <1>22 DEF supersede_job, JobIds
  <2>2. QED
    BY <1>1, <1>22, <2>1, FamilyTask DEF supersede_job, Update
<1>23. ASSUME NEW w \in Workers, EndSideEffect(w)
      PROVE  FamilyStep
  BY <1>23, FamilySame DEF EndSideEffect
<1>24. ASSUME NEW w \in Workers, register_container_execution(w)
      PROVE  FamilyStep
  <2>1. proc[w].job \in Roots
    BY <1>1, <1>24 DEF register_container_execution, WorksOnRow
  <2>2. QED
    <3>1. DEFINE j == proc[w].job
                 row == [job[j] EXCEPT !.launched = TRUE]
    <3>2. job[j] \in Row
      BY <1>1, <2>1 DEF JobIds, Row
    <3>3. row \in Row /\ row.parent = job[j].parent
      BY <3>2 DEF Row
    <3>4. job' = [job EXCEPT ![j] = row]
      BY <1>24 DEF register_container_execution
    <3>5. QED
      BY <1>1, <2>1, <3>3, <3>4, FamilyPut
<1>25. ASSUME NEW w \in Workers, save_checkpoint(w)
      PROVE  FamilyStep
  <2>1. DEFINE j == proc[w].job
  <2>2. j \in Roots /\ job[j].status = "running"
    BY <1>1, <1>25 DEF save_checkpoint, OwnsRunningLease, WorksOnRow
  <2>3. PICK next \in ChildEffects(j), ckpt \in {"open", "completed"},
             outcome \in {"none", "needs_info", "needs_human"} :
          job' = [k \in JobIds |-> Checkpointed(k, j, next, ckpt, outcome)]
    BY <1>25 DEF save_checkpoint
  <2>4. ASSUME NEW k \in Roots
        PROVE  job'[k].parent = job[k].parent
    <3>1. k \notin Children /\ k \in JobIds
      BY JobIdsAssumption DEF JobIds
    <3>2. job[k] \in Row /\ Drop(job[k], "paused").parent = job[k].parent
      BY <1>1, <3>1, DropRow, StatusSets
    <3>3. QED
      BY <2>3, <3>1, <3>2 DEF Checkpointed, Row, Drop
  <2>5. ASSUME NEW c \in Children, job[c].status = "absent",
               job'[c].status # "absent"
        PROVE  job'[c].parent = j /\ job'[c].gen = job[j].gen
    <3>1. c # j /\ c \in JobIds /\ job[c] \in Row
      BY <1>1, <2>2, JobIdsAssumption DEF JobIds
    <3>2. job'[c] = Checkpointed(c, j, next, ckpt, outcome)
      BY <2>3, <3>1
    <3>3. job[c].status # next[c]
      BY <2>5, <3>1, <3>2 DEF Checkpointed
    <3>4. QED
      BY <3>1, <3>2, <3>3 DEF Checkpointed, Row
  <2>6. QED
    BY <2>2, <2>4, <2>5 DEF FamilyStep
<1>26. ASSUME NEW w \in Workers, complete_job(w)
      PROVE  FamilyStep
  <2>1. DEFINE j == proc[w].job
               new == Drop(job[j], "completed")
  <2>2. /\ j \in Roots /\ new \in Row
        /\ new.parent = job[j].parent
    <3>1. proc[w].job \in Roots
      BY <1>1, <1>26 DEF complete_job, WorksOnRow
    <3>2. job[j] \in Row
      BY <1>1, <3>1 DEF JobIds
    <3>3. QED
      BY <3>1, <3>2, DropRow, StatusSets DEF Settled
  <2>3. \/ UNCHANGED job
        \/ job' = [job EXCEPT ![j] = fence_workflow_job(job[j], new)]
    BY <1>26 DEF complete_job, Update
  <2>4. QED
    BY <1>1, <2>2, <2>3, FamilyUpdate, FamilySame DEF Update
<1>27. ASSUME NEW w \in Workers, fail_active_plugin_child_jobs(w)
      PROVE  FamilyStep
  <2>1. ASSUME NEW k \in JobIds
        PROVE  SameFamily(job[k], job'[k])
    <3>1. /\ Drop(job[k], "failed") \in Row
          /\ Drop(job[k], "failed").parent = job[k].parent
      BY <1>1, DropRow, StatusSets DEF Settled
    <3>2. fence_workflow_job(job[k], Drop(job[k], "failed")).parent = job[k].parent
      BY <1>1, <3>1, FenceRow
    <3>3. QED
      BY <1>1, <1>27, <3>2, StatusSets DEF fail_active_plugin_child_jobs,
         SameFamily
  <2>2. QED
    BY <2>1, FamilyEach
<1>28. ASSUME NEW w \in Workers, fail_job(w)
      PROVE  FamilyStep
  <2>1. DEFINE j == proc[w].job
               new == Drop(job[j], "failed")
  <2>2. /\ j \in Roots /\ new \in Row
        /\ new.parent = job[j].parent
    <3>1. proc[w].job \in Roots
      BY <1>1, <1>28 DEF fail_job, WorksOnRow
    <3>2. job[j] \in Row
      BY <1>1, <3>1 DEF JobIds
    <3>3. QED
      BY <3>1, <3>2, DropRow, StatusSets DEF Settled
  <2>3. job' = [job EXCEPT ![j] = fence_workflow_job(job[j], new)]
    BY <1>28 DEF fail_job, Update
  <2>4. QED
    BY <1>1, <2>2, <2>3, FamilyUpdate, FamilySame DEF Update
<1>29. ASSUME NEW w \in Workers, BeginStateWrite(w)
      PROVE  FamilyStep
  BY <1>29, FamilySame DEF BeginStateWrite
<1>30. ASSUME NEW w \in Workers, update_workflow_state_for_job(w)
      PROVE  FamilyStep
  BY <1>30, FamilySame DEF update_workflow_state_for_job
<1>31. ASSUME NEW w \in Workers, NEW j \in Roots, SpawnDeveloper(w, j)
      PROVE  FamilyStep
  BY <1>31, FamilySame DEF SpawnDeveloper
<1>32. ASSUME NEW w \in Workers, heartbeat_job(w)
      PROVE  FamilyStep
  <2>1. DEFINE j == proc[w].job
               new == job[j]
  <2>2. /\ j \in Roots /\ new \in Row
        /\ new.parent = job[j].parent
    BY <1>1, <1>32 DEF heartbeat_job, WorksOnRow, Executing, JobIds
  <2>3. job' = [job EXCEPT ![j] = fence_workflow_job(job[j], new)]
    BY <1>32 DEF heartbeat_job, Update
  <2>4. QED
    BY <1>1, <2>2, <2>3, FamilyUpdate, FamilySame DEF Update
<1>33. ASSUME NEW w \in Workers, MonitorStop(w)
      PROVE  FamilyStep
  BY <1>33, FamilySame DEF MonitorStop
<1>34. ASSUME NEW w \in Workers, EndExecution(w)
      PROVE  FamilyStep
  BY <1>1, <1>34, FamilyFinished, FamilySame DEF EndExecution
<1>35. ASSUME NEW w \in Workers, Crash(w)
      PROVE  FamilyStep
  BY <1>35, FamilySame DEF Crash
<1>36. ASSUME NEW w \in Workers, Restart(w)
      PROVE  FamilyStep
  BY <1>36, FamilySame DEF Restart
<1>37. CASE UNCHANGED vars
  BY <1>37, FamilySame DEF vars
<1>38. QED
  BY <1>2, <1>3, <1>4, <1>5, <1>6, <1>7, <1>8, <1>9, <1>10, <1>11,
     <1>12, <1>13, <1>14, <1>15, <1>16, <1>17, <1>18, <1>19, <1>20,
     <1>21, <1>22, <1>23, <1>24, <1>25, <1>26, <1>27, <1>28, <1>29,
     <1>30, <1>31, <1>32, <1>33, <1>34, <1>35, <1>36, <1>37
     DEF Next, Github, Requests, Recovery, Poll, Execute, Supervise

-----------------------------------------------------------------------------
(* The inductive invariant                                                   *)

LEMMA InitIInv == Init => IInv
<1> SUFFICES ASSUME Init PROVE IInv
  OBVIOUS
<1>1. TypeOK
  BY NoDraftType, IdleReal, BoundsAssumption
     DEF Init, TypeOK, Workflow, Generations, States, NoDraft, Draft, Closing
<1>2. WorksOnRow /\ GenBound /\ ClosingHoldsLock
  BY DEF Init, WorksOnRow, GenBound, ClosingHoldsLock, Idle
<1>3. DraftRows /\ RootRows /\ TaskRows
  BY DEF Init, DraftRows, RowFree, RootRows, TaskRows, JobIds, Absent
<1>4. QED
  BY <1>1, <1>2, <1>3 DEF IInv

LEMMA NextIInv == IInv /\ [Next]_vars => IInv'
<1> SUFFICES ASSUME IInv, [Next]_vars PROVE IInv'
  OBVIOUS
<1>1. /\ RowsStep /\ ProcsStep /\ WorkflowStep /\ DraftsStep
      /\ EffectsStep /\ ObservationsStep /\ FamilyStep
  BY JobsStep, WorkersStep, WorkflowsStep, StatementsStep, SideEffectsStep,
     ClosingsStep, FamiliesStep
<1>2. TypeOK'
  BY <1>1 DEF TypeOK, RowsStep, ProcsStep, WorkflowStep, DraftsStep,
     ObservationsStep
<1>3. WorksOnRow'
  BY <1>1, JobIdsAssumption
     DEF WorksOnRow, ProcsStep, Real, RowsStep, RowStep, Keeps, JobIds
<1>4. GenBound'
  <2>1. /\ wf.gen <= wf.time + 1 /\ wf.gen \in Int /\ wf.time \in Int
        /\ wf'.gen \in Int /\ wf'.time \in Int
        /\ closing.pc = "scanned" => closing.time >= wf.time
    BY <1>1, BoundsAssumption
       DEF IInv, GenBound, TypeOK, Workflow, Generations, WorkflowStep,
           ClosingHoldsLock
  <2>2. CASE wf'.time = wf.time /\ wf'.gen = wf.gen
    BY <2>1, <2>2 DEF GenBound
  <2>3. CASE /\ Provider(wf'.time) = "open" /\ wf'.time >= wf.time
             /\ wf'.gen = IF Closed THEN wf.gen + 1 ELSE wf.gen
    <3>1. Closed => wf'.time # wf.time
      BY <2>3 DEF Closed
    <3>2. QED
      BY <2>1, <2>3, <3>1 DEF GenBound
  <2>4. CASE /\ closing.pc = "scanned"
             /\ wf'.time = closing.time /\ wf'.gen = wf.gen
    BY <2>1, <2>4 DEF GenBound
  <2>5. QED
    BY <1>1, <2>2, <2>3, <2>4 DEF WorkflowStep
<1>5. ClosingHoldsLock'
  <2>1. closing'.pc \in {"waiting", "scanned"} => Provider(closing'.time) = "closed"
    BY <1>1 DEF ObservationsStep, IInv, ClosingHoldsLock
  <2>2. ASSUME closing'.pc = "scanned"
        PROVE  closing'.time >= wf'.time /\ \A w \in Workers : proc'[w].pc # "effect"
    <3>1. CASE UNCHANGED closing
      <4>1. /\ closing.pc = "scanned" /\ WorkflowLocked
            /\ closing.time >= wf.time
            /\ \A w \in Workers : proc[w].pc # "effect"
        BY <2>2, <3>1 DEF IInv, ClosingHoldsLock, WorkflowLocked
      <4>2. wf'.time = wf.time
        BY <1>1, <2>2, <4>1 DEF WorkflowStep
      <4>3. QED
        BY <1>1, <3>1, <4>1, <4>2 DEF EffectsStep
    <3>2. CASE /\ closing'.time = closing.time /\ closing.time >= wf.time
               /\ ~WorkflowLocked /\ UNCHANGED <<wf, proc>>
      BY <3>2 DEF WorkflowLocked
    <3>3. QED
      BY <1>1, <2>2, <3>1, <3>2 DEF ObservationsStep
  <2>3. QED
    BY <2>1, <2>2 DEF ClosingHoldsLock
<1>6. DraftRows'
  BY <1>1 DEF DraftRows, RowFree, DraftsStep, Untouched, Queues
<1>7. RootRows'
  BY <1>1 DEF IInv, RootRows, FamilyStep
<1>8. TaskRows'
  <2>1. ASSUME NEW c \in Children, job'[c].status # "absent"
        PROVE  /\ job'[c].parent \in Roots
               /\ job'[job'[c].parent].status # "absent"
               /\ job'[job'[c].parent].gen = job'[c].gen
    <3>1. DEFINE p == job'[c].parent
    <3>2. p \in Roots /\ job[p].status # "absent" /\ job'[c].gen = job[p].gen
      <4>1. CASE job[c].status = "absent"
        BY <1>1, <2>1, <4>1 DEF FamilyStep
      <4>2. CASE job[c].status # "absent"
        <5>1. job'[c].gen = job[c].gen /\ job'[c].parent = job[c].parent
          BY <1>1, <4>2 DEF RowsStep, RowStep, Keeps, JobIds
        <5>2. QED
          BY <4>2, <5>1 DEF IInv, TaskRows
      <4>3. QED
        BY <4>1, <4>2
    <3>3. job'[p].status # "absent" /\ job'[p].gen = job[p].gen
      BY <1>1, <3>2 DEF RowsStep, RowStep, Keeps, JobIds
    <3>4. QED
      BY <3>2, <3>3
  <2>2. QED
    BY <2>1 DEF TaskRows
<1>9. QED
  BY <1>2, <1>3, <1>4, <1>5, <1>6, <1>7, <1>8 DEF IInv

-----------------------------------------------------------------------------
(* Theorems                                                                  *)

\* The invariant that the other theorems rest on.
LEMMA Inductive == Spec => []IInv
<1>1. QED
  BY InitIInv, NextIInv, PTL DEF Spec

\* The rows of the database and the local state of every worker keep their
\* types: no statement stores a generation, an owner or a parent that is none.
THEOREM TypeCorrect == Spec => []TypeOK
<1>1. IInv => TypeOK
  BY DEF IInv
<1>2. QED
  BY <1>1, Inductive, PTL

LEMMA NextEffectFenced == IInv /\ EffectFenced /\ [Next]_vars => EffectFenced'
<1> SUFFICES ASSUME IInv, EffectFenced, [Next]_vars,
                    NEW w \in Workers, proc'[w].pc = "effect"
             PROVE  Current(job[proc[w].job])'
  BY DEF EffectFenced
<1>1. RowsStep /\ WorkflowStep /\ EffectsStep
  BY JobsStep, WorkflowsStep, SideEffectsStep
<1>2. proc'[w].job = proc[w].job
  BY <1>1 DEF EffectsStep
<1>3. CASE proc[w].pc = "effect"
  <2>1. DEFINE j == proc[w].job
  <2>2. /\ ~Closed /\ job[j].gen = wf.gen
        /\ WorkflowLocked /\ closing.pc # "scanned"
    BY <1>3 DEF EffectFenced, Current, WorkflowLocked, IInv, ClosingHoldsLock
  <2>3. job'[j].gen = job[j].gen
    BY <1>1, <1>3 DEF IInv, WorksOnRow, RowsStep, RowStep, Keeps, JobIds
  <2>4. wf'.gen = wf.gen /\ wf'.time = wf.time
    BY <1>1, <2>2 DEF WorkflowStep
  <2>5. QED
    BY <1>2, <2>2, <2>3, <2>4 DEF Current, Closed
<1>4. CASE Current(job[proc[w].job]) /\ UNCHANGED <<wf, job, closing>>
  BY <1>2, <1>4 DEF Current, Closed
<1>5. QED
  BY <1>1, <1>3, <1>4 DEF EffectsStep

\* No push, pull request or projection is in progress for a closed issue or an
\* old generation, whatever closings, reopenings, retries and crashes happen.
THEOREM SideEffectsFenced == Spec => []EffectFenced
<1>1. Init => EffectFenced
  BY DEF Init, EffectFenced, Idle
<1>2. QED
  BY <1>1, Inductive, NextEffectFenced, PTL DEF Spec

LEMMA NextClosedIsFinished ==
  IInv /\ ClosedIsFinished /\ [Next]_vars => ClosedIsFinished'
<1> SUFFICES ASSUME IInv, ClosedIsFinished, [Next]_vars, Closed'
             PROVE  wf'.state = "finished"
  BY DEF ClosedIsFinished
<1>1. WorkflowStep
  BY WorkflowsStep
<1>2. CASE /\ wf'.time = wf.time
           /\ wf'.state = wf.state \/ ~Closed
  BY <1>2 DEF ClosedIsFinished, Closed
<1>3. Provider(wf'.time) # "open"
  BY DEF Closed
<1>4. QED
  BY <1>1, <1>2, <1>3 DEF WorkflowStep

\* No late state write of an executor, a checkpoint or the recovery task takes
\* a closed workflow out of its final state.
THEOREM ClosedStaysFinished == Spec => []ClosedIsFinished
<1>1. Init => ClosedIsFinished
  BY DEF Init, ClosedIsFinished, Closed, Provider
<1>2. QED
  BY <1>1, Inductive, NextClosedIsFinished, PTL DEF Spec

\* A cancelled job is never queued, leased or reported as failed again, whoever
\* still writes its row.
THEOREM CancellationIsFinal == Spec => CancelIsFinal
<1>1. IInv /\ [Next]_vars =>
        [\A j \in JobIds : job[j].status \in Cancelled =>
           \/ job'[j].status = job[j].status
           \/ job'[j].status = "cancelled"]_vars
  BY JobsStep DEF RowsStep, RowStep
<1>2. QED
  BY <1>1, Inductive, PTL DEF Spec, CancelIsFinal

\* Leasing and starting a job, directly or as a task of a checkpoint, happens
\* for the open issue and its generation only.
THEOREM DispatchIsCurrent == Spec => DispatchesCurrentWork
<1>1. IInv /\ [Next]_vars =>
        [\A j \in JobIds :
           /\ job[j].status \notin {"leased", "running"}
           /\ job'[j].status \in {"leased", "running"}
           => ~Closed /\ job'[j].gen = wf.gen]_vars
  BY JobsStep DEF RowsStep, RowStep
<1>2. QED
  BY <1>1, Inductive, PTL DEF Spec, DispatchesCurrentWork

\* The time and the generation of the workflow never go back, and only the
\* first open observation after a closed one starts a generation.
THEOREM ObservationsInOrder == Spec => ObservedInOrder
<1>1. ASSUME IInv, [Next]_vars
      PROVE  /\ wf'.time >= wf.time
             /\ wf'.gen \in {wf.gen, wf.gen + 1}
             /\ wf'.gen # wf.gen <=> Closed /\ Provider(wf'.time) = "open"
  <2>1. WorkflowStep
    BY <1>1, WorkflowsStep
  <2>2. wf.time \in Int /\ wf.gen \in Int /\ wf'.time \in Int
    BY <1>1, <2>1, BoundsAssumption
       DEF IInv, TypeOK, Workflow, Generations, WorkflowStep
  <2>3. CASE wf'.time = wf.time /\ wf'.gen = wf.gen
    BY <2>2, <2>3 DEF Closed
  <2>4. CASE /\ Provider(wf'.time) = "open" /\ wf'.time >= wf.time
             /\ wf'.gen = IF Closed THEN wf.gen + 1 ELSE wf.gen
    BY <2>2, <2>4
  <2>5. CASE closing.pc = "scanned" /\ wf'.time = closing.time /\ wf'.gen = wf.gen
    <3>1. closing.time >= wf.time /\ Provider(closing.time) = "closed"
      BY <1>1, <2>5 DEF IInv, ClosingHoldsLock
    <3>2. QED
      BY <2>2, <2>5, <3>1
  <2>6. QED
    BY <2>1, <2>3, <2>4, <2>5 DEF WorkflowStep
<1>2. IInv /\ [Next]_vars =>
        [/\ wf'.time >= wf.time
         /\ wf'.gen \in {wf.gen, wf.gen + 1}
         /\ wf'.gen # wf.gen <=> Closed /\ Provider(wf'.time) = "open"]_vars
  BY <1>1
<1>3. QED
  BY <1>2, Inductive, PTL DEF Spec, ObservedInOrder

-----------------------------------------------------------------------------
(* Who executes a job                                                        *)

Engaged(p) ==
  \/ p.pc \in {"working", "lock_wait", "effect", "failing"}
  \/ p.pc \in {"writing", "write_wait"} /\ p.target = "in_progress"

Holds(p, w, row) ==
  /\ Engaged(p) =>
       row.status \in Cancelled \/ (row.status = "running" /\ row.owner = w)
  /\ p.pc = "leased" =>
       row.status \in Cancelled \/ (row.status = "leased" /\ row.owner = w)

\* RunsOwnJob from the lease on: a worker that leased a job owns its row until
\* it reports an outcome, or the row is cancelled.
OwnsJob == \A w \in Workers : Holds(proc[w], w, job[proc[w].job])

\* A dispatched row stays with its owner, unless it is cancelled.
RowHeld(old, new) ==
  old.status \in {"leased", "running"} =>
    \/ new.status \in Cancelled
    \/ new.status = old.status /\ new.owner = old.owner

RowsHeld == \A j \in Roots : RowHeld(job[j], job'[j])

\* A step does not start an execution.
NotBusier(p, q) ==
  /\ Engaged(q) => Engaged(p) /\ q.job = p.job
  /\ q.pc = "leased" => p.pc = "leased" /\ q.job = p.job

NoneBusier == \A w \in Workers : NotBusier(proc[w], proc'[w])

LEMMA HeldSame ==
  ASSUME UNCHANGED job
  PROVE  RowsHeld
  BY DEF RowsHeld, RowHeld

\* The trigger keeps the owner of a row that is not cancelled.
LEMMA HeldUpdate ==
  ASSUME job \in [JobIds -> Row], NEW j \in JobIds, NEW new \in Row,
         RowHeld(job[j], new),
         job' = [job EXCEPT ![j] = fence_workflow_job(job[j], new)]
  PROVE  RowsHeld
<1>1. DEFINE row == fence_workflow_job(job[j], new)
<1>2. RowHeld(job[j], row)
  <2>1. job[j].status \notin Cancelled => row = new \/ row.status \in Cancelled
    BY FenceRow
  <2>2. job[j].status \in {"leased", "running"} => job[j].status \notin Cancelled
    BY DEF Cancelled
  <2>3. QED
    BY <2>1, <2>2 DEF RowHeld
<1>3. \A k \in JobIds : job'[k] = IF k = j THEN row ELSE job[k]
  OBVIOUS
<1>4. QED
  BY <1>2, <1>3 DEF RowsHeld, RowHeld, JobIds

\* The trigger also keeps every row when the new one is not a dispatched one.
LEMMA HeldFree ==
  ASSUME job \in [JobIds -> Row], NEW j \in JobIds, NEW row,
         job[j].status \notin {"leased", "running"},
         job' = [job EXCEPT ![j] = row]
  PROVE  RowsHeld
  BY DEF RowsHeld, RowHeld, JobIds

LEMMA HeldTask ==
  ASSUME job \in [JobIds -> Row], NEW c \in Children, NEW row,
         job' = [job EXCEPT ![c] = row]
  PROVE  RowsHeld
<1>1. c \notin Roots
  BY JobIdsAssumption
<1>2. QED
  BY <1>1 DEF RowsHeld, RowHeld, JobIds

LEMMA HeldFinished ==
  ASSUME job \in [JobIds -> Row], NEW j, job' = CancellationFinished(j)
  PROVE  RowsHeld
<1>1. ASSUME NEW k \in JobIds
      PROVE  job'[k] = job[k] \/ job[k].status = "cancel_requested"
  BY DEF CancellationFinished
<1>2. QED
  BY <1>1 DEF RowsHeld, RowHeld, JobIds

LEMMA SameBusy ==
  ASSUME UNCHANGED proc
  PROVE  NoneBusier
  BY DEF NoneBusier, NotBusier

LEMMA OneBusy ==
  ASSUME proc \in [Workers -> Proc], NEW w \in Workers, NEW q,
         NotBusier(proc[w], q), proc' = [proc EXCEPT ![w] = q]
  PROVE  NoneBusier
  BY DEF NoneBusier, NotBusier

\* Only a worker that is executing already goes to one of these steps.
LEMMA GotoBusy ==
  ASSUME proc \in [Workers -> Proc], NEW w \in Workers, NEW pc, Goto(w, pc),
         \/ pc \notin {"leased", "working", "lock_wait", "effect", "failing",
                       "writing", "write_wait"}
         \/ pc \in {"working", "lock_wait", "effect", "failing"}
            /\ Engaged(proc[w])
  PROVE  NoneBusier
<1>1. proc[w] \in Proc
  OBVIOUS
<1>2. DEFINE q == [proc[w] EXCEPT !.pc = pc]
<1>3. q.pc = pc /\ q.job = proc[w].job
  BY <1>1 DEF Proc
<1>4. NotBusier(proc[w], q)
  BY <1>3 DEF NotBusier, Engaged
<1>5. QED
  BY <1>4, OneBusy DEF Goto

LEMMA IdleBusy ==
  ASSUME NEW p
  PROVE  NotBusier(p, Idle) /\ NotBusier(p, Down)
  BY DEF NotBusier, Engaged, Idle, Down

\* Rows that stay with their owners and workers that start nothing.
LEMMA HoldOn ==
  ASSUME IInv, OwnsJob, RowsStep, RowsHeld, NoneBusier
  PROVE  OwnsJob'
<1> SUFFICES ASSUME NEW w \in Workers
             PROVE  Holds(proc'[w], w, job'[proc'[w].job])
  BY DEF OwnsJob
<1>1. Holds(proc[w], w, job[proc[w].job])
  BY DEF OwnsJob
<1>2. NotBusier(proc[w], proc'[w])
  BY DEF NoneBusier
<1>3. ASSUME Engaged(proc'[w]) \/ proc'[w].pc = "leased"
      PROVE  Holds(proc'[w], w, job'[proc'[w].job])
  <2>1. proc'[w].job = proc[w].job /\ proc[w].job \in Roots
    BY <1>2, <1>3 DEF NotBusier, Engaged, IInv, WorksOnRow
  <2>2. PICK j : j = proc[w].job
    OBVIOUS
  <2>3. /\ RowHeld(job[j], job'[j])
        /\ job[j].status \in Cancelled => job'[j].status \in Cancelled
    BY <2>1, <2>2 DEF RowsHeld, RowsStep, RowStep, JobIds, Cancelled
  <2>4. Holds(proc[w], w, job'[j])
    BY <1>1, <2>2, <2>3 DEF Holds, RowHeld
  <2>5. QED
    BY <1>2, <2>1, <2>2, <2>4 DEF Holds, NotBusier
<1>4. QED
  BY <1>3 DEF Holds

\* The owner of a row may also rewrite it: nobody else holds it.
LEMMA OwnerWrites ==
  ASSUME IInv, OwnsJob, RowsStep, NEW w \in Workers, NEW j \in Roots,
         \A k \in Roots \ {j} : RowHeld(job[k], job'[k]),
         job[j].owner = w \/ RowHeld(job[j], job'[j]),
         \A v \in Workers \ {w} : NotBusier(proc[v], proc'[v]),
         Holds(proc'[w], w, job'[proc'[w].job])
  PROVE  OwnsJob'
<1> SUFFICES ASSUME NEW v \in Workers \ {w}
             PROVE  Holds(proc'[v], v, job'[proc'[v].job])
  BY DEF OwnsJob
<1>1. Holds(proc[v], v, job[proc[v].job])
  BY DEF OwnsJob
<1>2. NotBusier(proc[v], proc'[v])
  OBVIOUS
<1>3. ASSUME Engaged(proc'[v]) \/ proc'[v].pc = "leased"
      PROVE  Holds(proc'[v], v, job'[proc'[v].job])
  <2>1. proc'[v].job = proc[v].job /\ proc[v].job \in Roots
    BY <1>2, <1>3 DEF NotBusier, Engaged, IInv, WorksOnRow
  <2>2. PICK k : k = proc[v].job
    OBVIOUS
  <2>3. job[k].status \in Cancelled => job'[k].status \in Cancelled
    BY <2>1, <2>2 DEF RowsStep, RowStep, JobIds, Cancelled
  <2>4. job[k].status \in Cancelled \/ job[k].owner = v
    BY <1>1, <1>2, <1>3, <2>2 DEF Holds, NotBusier
  <2>5. Holds(proc[v], v, job'[k])
    BY <1>1, <2>1, <2>2, <2>3, <2>4 DEF Holds, RowHeld
  <2>6. QED
    BY <1>2, <2>1, <2>2, <2>5 DEF Holds, NotBusier
<1>4. QED
  BY <1>3 DEF Holds

LEMMA InitOwnsJob == Init => OwnsJob
  BY DEF Init, OwnsJob, Holds, Engaged, Idle

LEMMA NextOwnsJob == IInv /\ OwnsJob /\ [Next]_vars => OwnsJob'
<1> SUFFICES ASSUME IInv, OwnsJob, [Next]_vars
             PROVE  OwnsJob'
  OBVIOUS
<1>1. /\ WorksOnRow /\ RootRows /\ RowsStep /\ ProcsStep
      /\ job \in [JobIds -> Row] /\ proc \in [Workers -> Proc]
  BY JobsStep, WorkersStep DEF IInv, TypeOK
<1>2. ASSUME NEW t \in 0 .. MaxEdges, ObserveOpen(t)
      PROVE  OwnsJob'
  BY <1>1, <1>2, HoldOn, HeldSame, SameBusy DEF ObserveOpen
<1>3. ASSUME NEW t \in 0 .. MaxEdges, BeginClosing(t)
      PROVE  OwnsJob'
  BY <1>1, <1>3, HoldOn, HeldSame, SameBusy DEF BeginClosing
<1>4. ASSUME LockForClosing
      PROVE  OwnsJob'
  BY <1>1, <1>4, HoldOn, HeldSame, SameBusy DEF LockForClosing
<1>5. ASSUME CommitClosing
      PROVE  OwnsJob'
  <2>1. ASSUME NEW k \in JobIds
        PROVE  job'[k] = job[k] \/ job'[k].status \in Cancelled
    BY <1>1, <1>5, StoppedStatus, StatusSets DEF CommitClosing, Row
  <2>2. RowsHeld
    BY <2>1 DEF RowsHeld, RowHeld, JobIds
  <2>3. QED
    BY <1>1, <1>5, <2>2, HoldOn, SameBusy DEF CommitClosing
<1>6. ASSUME NEW j \in Roots, resume_latest_paused_job(j)
      PROVE  OwnsJob'
  <2>1. RowsHeld
    BY <1>1, <1>6, HeldFree DEF resume_latest_paused_job, Resumable, Update,
       JobIds
  <2>2. QED
    BY <1>1, <1>6, <2>1, HoldOn, SameBusy DEF resume_latest_paused_job
<1>7. ASSUME NEW j \in Roots, Intake(j)
      PROVE  OwnsJob'
  <2>1. RowsHeld
    BY <1>1, <1>7, HeldFree DEF Intake, NextRoot, Unused, Update, JobIds
  <2>2. QED
    BY <1>1, <1>7, <2>1, HoldOn, SameBusy DEF Intake
<1>8. ASSUME NEW j \in Roots, retry_failed(j)
      PROVE  OwnsJob'
  <2>1. RowsHeld
    BY <1>1, <1>8, HeldFree DEF retry_failed, Update, JobIds
  <2>2. QED
    BY <1>1, <1>8, <2>1, HoldOn, SameBusy DEF retry_failed
<1>9. ASSUME NEW k \in Roots, NEW j \in Roots, BeginRetry(k, j)
      PROVE  OwnsJob'
  BY <1>1, <1>9, HoldOn, HeldSame, SameBusy DEF BeginRetry
<1>10. ASSUME NEW j \in Roots, requeue_failed_job(j)
      PROVE  OwnsJob'
  BY <1>1, <1>10, HoldOn, HeldSame, SameBusy DEF requeue_failed_job
<1>11. ASSUME NEW j \in Roots, CommitDraft(j)
      PROVE  OwnsJob'
  <2>1. RowsHeld
    BY <1>1, <1>11, HeldFree DEF CommitDraft, IInv, DraftRows, JobIds
  <2>2. ASSUME NEW w \in Workers
        PROVE  NotBusier(proc[w], proc'[w])
    <3>1. [proc[w] EXCEPT !.pc = "ending"].pc = "ending"
      BY <1>1 DEF Proc
    <3>2. QED
      BY <1>11, <3>1, IdleBusy DEF CommitDraft, NotBusier, Engaged
  <2>3. QED
    BY <1>1, <2>1, <2>2, HoldOn DEF NoneBusier
<1>12. ASSUME NEW j \in Roots, ExpireLease(j)
      PROVE  OwnsJob'
  <2>1. RowsHeld
    BY <1>1, <1>12 DEF ExpireLease, RowsHeld, RowHeld, JobIds, Row
  <2>2. QED
    BY <1>1, <1>12, <2>1, HoldOn, SameBusy DEF ExpireLease
<1>13. ASSUME NEW j \in Roots, fence_expired_jobs(j)
      PROVE  OwnsJob'
  <2>1. ASSUME NEW k \in JobIds
        PROVE  job'[k] = job[k] \/ job'[k].status \in Cancelled
    BY <1>1, <1>13, StoppedStatus, StatusSets, DropRow DEF fence_expired_jobs,
       Row
  <2>2. RowsHeld
    BY <2>1 DEF RowsHeld, RowHeld, JobIds
  <2>3. QED
    BY <1>1, <1>13, <2>2, HoldOn, SameBusy DEF fence_expired_jobs
<1>14. ASSUME NEW j \in Roots, finish_recovered_jobs(j)
      PROVE  OwnsJob'
  BY <1>1, <1>14, HoldOn, HeldFinished, SameBusy DEF finish_recovered_jobs
<1>15. ASSUME NEW w \in Workers, list_ready_developer_candidates(w)
      PROVE  OwnsJob'
  <2>1. PICK j \in Roots :
          proc' = [proc EXCEPT ![w] = [Idle EXCEPT !.pc = "listed", !.job = j]]
    BY <1>15 DEF list_ready_developer_candidates
  <2>2. NotBusier(proc[w], [Idle EXCEPT !.pc = "listed", !.job = j])
    BY DEF NotBusier, Engaged, Idle
  <2>3. QED
    BY <1>1, <1>15, <2>1, <2>2, HoldOn, HeldSame, OneBusy
       DEF list_ready_developer_candidates
<1>16. ASSUME NEW w \in Workers, NEW j \in Roots, QueueReady(w, j)
      PROVE  OwnsJob'
  BY <1>1, <1>16, HoldOn, HeldSame, GotoBusy DEF QueueReady, Goto
<1>17. ASSUME NEW w \in Workers, NoRootLeft(w)
      PROVE  OwnsJob'
  <2>1. [proc[w] EXCEPT !.pc = "ending"].pc = "ending"
    BY <1>1 DEF Proc
  <2>2. NotBusier(proc[w], [proc[w] EXCEPT !.pc = "ending"])
    BY <2>1 DEF NotBusier, Engaged
  <2>3. QED
    BY <1>1, <1>17, <2>2, HoldOn, HeldSame, OneBusy, IdleBusy DEF NoRootLeft
<1>18. ASSUME NEW w \in Workers, acquire_next_queued_job(w)
      PROVE  OwnsJob'
  <2>1. PICK j \in Roots :
          /\ job[j].status = "queued"
          /\ LET row == fence_workflow_job(job[j],
                          [job[j] EXCEPT !.status = "leased", !.owner = w,
                                         !.lease = "live"])
             IN /\ job' = [job EXCEPT ![j] = row]
                /\ proc' = [proc EXCEPT ![w] =
                              IF row.owner = w
                              THEN [Idle EXCEPT !.pc = "leased", !.job = j]
                              ELSE Down]
    BY <1>18 DEF acquire_next_queued_job
  <2>2. DEFINE new == [job[j] EXCEPT !.status = "leased", !.owner = w,
                                     !.lease = "live"]
               row == fence_workflow_job(job[j], new)
  <2>3. j \in JobIds /\ new \in Row /\ new.status = "leased" /\ new.owner = w
    BY <1>1, StatusSets DEF Row, Owners, JobIds
  <2>4. row = new \/ row.status \in Cancelled
    BY <1>1, <2>1, <2>3, FenceRow DEF Cancelled
  <2>5. job'[j] = row
    BY <1>1, <2>1, <2>3
  <2>6. Holds(proc'[w], w, job'[proc'[w].job])
    <3>1. CASE row.owner = w
      <4>1. proc'[w].pc = "leased" /\ proc'[w].job = j
        BY <1>1, <2>1, <3>1 DEF Idle
      <4>2. QED
        BY <2>3, <2>4, <2>5, <4>1 DEF Holds, Engaged
    <3>2. CASE row.owner # w
      BY <1>1, <2>1, <3>2 DEF Holds, Engaged, Down, Idle
    <3>3. QED
      BY <3>1, <3>2
  <2>7. RowsHeld
    BY <1>1, <2>1, <2>3, HeldFree
  <2>8. \A v \in Workers \ {w} : NotBusier(proc[v], proc'[v])
    BY <2>1 DEF NotBusier
  <2>9. QED
    BY <1>1, <2>6, <2>7, <2>8, OwnerWrites DEF RowsHeld
<1>19. ASSUME NEW w \in Workers, mark_job_running(w)
      PROVE  OwnsJob'
  <2>1. PICK j : j = proc[w].job
    OBVIOUS
  <2>2. DEFINE new == [job[j] EXCEPT !.status = "running"]
               row == fence_workflow_job(job[j], new)
               leased == job[j].status = "leased" /\ job[j].lease = "live"
  <2>3. /\ proc[w].pc = "leased"
        /\ job' = IF leased THEN [job EXCEPT ![j] = row] ELSE job
        /\ proc' = [proc EXCEPT ![w] =
             IF ~(leased /\ row.status = "running")
             THEN [proc[w] EXCEPT !.pc = "ending"]
             ELSE IF row.role = "triage"
             THEN [proc[w] EXCEPT !.pc = "working"]
             ELSE [proc[w] EXCEPT !.pc = "writing", !.target = "in_progress"]]
    BY <1>19, <2>1 DEF mark_job_running
  <2>4. j \in Roots /\ j \in JobIds
    BY <1>1, <2>1, <2>3 DEF WorksOnRow, JobIds
  <2>5. \A k \in Roots \ {j} : RowHeld(job[k], job'[k])
    BY <2>3 DEF RowHeld
  <2>6. \A v \in Workers \ {w} : NotBusier(proc[v], proc'[v])
    BY <2>3 DEF NotBusier
  <2>7. CASE leased /\ row.status = "running"
    <3>1. job[j].owner = w
      <4>1. Holds(proc[w], w, job[j])
        BY <2>1 DEF OwnsJob
      <4>2. job[j].status \notin Cancelled
        BY <2>7 DEF Cancelled
      <4>3. QED
        BY <2>3, <4>1, <4>2 DEF Holds
    <3>2. new \in Row /\ new.owner = job[j].owner
      BY <1>1, <2>4, StatusSets DEF Row
    <3>3. row = new
      BY <1>1, <2>4, <2>7, <3>2, FenceRow, StatusSets
    <3>4. job'[j].status = "running" /\ job'[j].owner = w
      BY <1>1, <2>3, <2>4, <2>7, <3>1, <3>2, <3>3
    <3>5. proc'[w].job = j /\ proc'[w].pc \in {"working", "writing"}
      BY <1>1, <2>1, <2>3, <2>7 DEF Proc
    <3>6. Holds(proc'[w], w, job'[proc'[w].job])
      BY <3>4, <3>5 DEF Holds
    <3>7. QED
      BY <1>1, <2>4, <2>5, <2>6, <3>1, <3>6, OwnerWrites
  <2>8. CASE ~(leased /\ row.status = "running")
    <3>1. proc'[w].pc = "ending"
      BY <1>1, <2>3, <2>8 DEF Proc
    <3>2. Holds(proc'[w], w, job'[proc'[w].job])
      BY <3>1 DEF Holds, Engaged
    <3>3. job[j].owner = w \/ RowHeld(job[j], job'[j])
      <4>1. Holds(proc[w], w, job[j])
        BY <2>1 DEF OwnsJob
      <4>2. job[j].status \in Cancelled \/ job[j].owner = w
        BY <2>3, <4>1 DEF Holds
      <4>3. QED
        BY <4>2 DEF RowHeld, Cancelled
    <3>4. QED
      BY <1>1, <2>4, <2>5, <2>6, <3>2, <3>3, OwnerWrites
  <2>9. QED
    BY <2>7, <2>8
<1>20. ASSUME NEW w \in Workers, BeginSideEffect(w)
      PROVE  OwnsJob'
  <2>1. DEFINE q == [proc[w] EXCEPT !.pc = "lock_wait",
                             !.saw = job[proc[w].job].status \notin Cancelled]
  <2>2. q.job = proc[w].job /\ q.pc = "lock_wait" /\ proc[w].pc = "working"
    BY <1>1, <1>20 DEF BeginSideEffect, Proc
  <2>3. proc' = [proc EXCEPT ![w] = q]
    BY <1>1, <1>20 DEF BeginSideEffect
  <2>4. NotBusier(proc[w], q)
    BY <2>2 DEF NotBusier, Engaged
  <2>5. NoneBusier
    BY <1>1, <2>3, <2>4, OneBusy
  <2>6. QED
    BY <1>1, <1>20, <2>5, HoldOn, HeldSame DEF BeginSideEffect
<1>21. ASSUME NEW w \in Workers, lock_job_side_effect(w)
      PROVE  OwnsJob'
  BY <1>1, <1>21, HoldOn, HeldSame, GotoBusy DEF lock_job_side_effect, Engaged
<1>22. ASSUME NEW w \in Workers, NEW c \in Children, supersede_job(w, c)
      PROVE  OwnsJob'
  BY <1>1, <1>22, HoldOn, HeldTask, SameBusy DEF supersede_job, Update
<1>23. ASSUME NEW w \in Workers, EndSideEffect(w)
      PROVE  OwnsJob'
  BY <1>1, <1>23, HoldOn, HeldSame, GotoBusy DEF EndSideEffect, Engaged
<1>24. ASSUME NEW w \in Workers, register_container_execution(w)
      PROVE  OwnsJob'
  <2>1. RowsHeld
    BY <1>1, <1>24 DEF register_container_execution, RowsHeld, RowHeld,
       JobIds, Row
  <2>2. QED
    BY <1>1, <1>24, <2>1, HoldOn, SameBusy DEF register_container_execution
<1>25. ASSUME NEW w \in Workers, save_checkpoint(w)
      PROVE  OwnsJob'
  <2>1. PICK j : j = proc[w].job
    OBVIOUS
  <2>2. j \in Roots /\ proc[w].pc = "working" /\ job[j].owner = w
    BY <1>1, <1>25, <2>1 DEF save_checkpoint, OwnsRunningLease, WorksOnRow
  <2>3. PICK next \in ChildEffects(j), ckpt \in {"open", "completed"},
             outcome \in {"none", "needs_info", "needs_human"} :
          /\ job' = [k \in JobIds |-> Checkpointed(k, j, next, ckpt, outcome)]
          /\ IF outcome = "none" THEN UNCHANGED <<wf, proc>>
             ELSE /\ wf' = [wf EXCEPT !.state = outcome]
                  /\ Goto(w, "ending")
    BY <1>25, <2>1 DEF save_checkpoint
  <2>4. \A k \in Roots \ {j} : job'[k] = job[k]
    BY <2>3, JobIdsAssumption DEF Checkpointed, JobIds
  <2>5. \A k \in Roots \ {j} : RowHeld(job[k], job'[k])
    BY <2>4 DEF RowHeld
  <2>6. CASE outcome = "none"
    <3>1. j \notin Children /\ j \in JobIds
      BY <2>2, JobIdsAssumption DEF JobIds
    <3>2. job'[j] = [job[j] EXCEPT !.ckpt = ckpt]
      BY <2>3, <2>6, <3>1 DEF Checkpointed
    <3>3. RowHeld(job[j], job'[j])
      BY <1>1, <3>1, <3>2 DEF RowHeld, Row
    <3>4. RowsHeld
      BY <2>5, <3>3 DEF RowsHeld
    <3>5. QED
      BY <1>1, <2>3, <2>6, <3>4, HoldOn, SameBusy
  <2>7. CASE outcome # "none"
    <3>1. Goto(w, "ending")
      BY <2>3, <2>7
    <3>2. proc'[w].pc = "ending"
      BY <1>1, <3>1 DEF Goto, Proc
    <3>3. Holds(proc'[w], w, job'[proc'[w].job])
      BY <3>2 DEF Holds, Engaged
    <3>4. \A v \in Workers \ {w} : NotBusier(proc[v], proc'[v])
      BY <3>1 DEF Goto, NotBusier
    <3>5. QED
      BY <1>1, <2>2, <2>5, <3>3, <3>4, OwnerWrites
  <2>8. QED
    BY <2>6, <2>7
<1>26. ASSUME NEW w \in Workers, complete_job(w)
      PROVE  OwnsJob'
  <2>1. PICK j : j = proc[w].job
    OBVIOUS
  <2>2. /\ j \in Roots /\ proc[w].pc = "working"
        /\ job' = [job EXCEPT ![j] = job'[j]]
    BY <1>1, <1>26, <2>1 DEF complete_job, WorksOnRow, Update, JobIds
  <2>3. PICK s \in CompletedStates(job[j].role) :
          proc' = [proc EXCEPT ![w].pc = "writing", ![w].target = s]
    BY <1>26, <2>1 DEF complete_job
  <2>4. proc'[w].pc = "writing" /\ proc'[w].target # "in_progress"
    BY <1>1, <2>3, CompletedTarget DEF Proc
  <2>5. Holds(proc'[w], w, job'[proc'[w].job])
    BY <2>4 DEF Holds, Engaged
  <2>6. job[j].owner = w \/ RowHeld(job[j], job'[j])
    <3>1. Holds(proc[w], w, job[j])
      BY <2>1 DEF OwnsJob
    <3>2. job[j].status \in Cancelled \/ job[j].owner = w
      BY <2>2, <3>1 DEF Holds, Engaged
    <3>3. QED
      BY <3>2 DEF RowHeld, Cancelled
  <2>7. /\ \A k \in Roots \ {j} : RowHeld(job[k], job'[k])
        /\ \A v \in Workers \ {w} : NotBusier(proc[v], proc'[v])
    BY <1>1, <2>2, <2>3 DEF RowHeld, NotBusier, JobIds
  <2>8. QED
    BY <1>1, <2>2, <2>5, <2>6, <2>7, OwnerWrites
<1>27. ASSUME NEW w \in Workers, fail_active_plugin_child_jobs(w)
      PROVE  OwnsJob'
  <2>1. proc[w].pc = "working" /\ proc[w].job \in Roots /\ proc[w].job # NoJob
    BY <1>1, <1>27, JobIdsAssumption DEF fail_active_plugin_child_jobs,
       WorksOnRow, NoJob
  <2>2. \A k \in Roots : job'[k] = job[k]
    BY <1>1, <1>27, <2>1 DEF fail_active_plugin_child_jobs, RootRows, JobIds
  <2>3. RowsHeld
    BY <2>2 DEF RowsHeld, RowHeld
  <2>4. NoneBusier
    BY <1>1, <1>27, <2>1, GotoBusy DEF fail_active_plugin_child_jobs, Engaged
  <2>5. QED
    BY <1>1, <2>3, <2>4, HoldOn
<1>28. ASSUME NEW w \in Workers, fail_job(w)
      PROVE  OwnsJob'
  <2>1. PICK j : j = proc[w].job
    OBVIOUS
  <2>2. /\ j \in Roots /\ proc[w].pc \in {"working", "failing"}
        /\ job' = [job EXCEPT ![j] = job'[j]]
    BY <1>1, <1>28, <2>1 DEF fail_job, WorksOnRow, Update, JobIds
  <2>3. proc' = [proc EXCEPT ![w].pc = "writing", ![w].target = "blocked"]
    BY <1>28 DEF fail_job
  <2>4. proc'[w].pc = "writing" /\ proc'[w].target = "blocked"
    BY <1>1, <2>3 DEF Proc
  <2>5. Holds(proc'[w], w, job'[proc'[w].job])
    BY <2>4 DEF Holds, Engaged
  <2>6. job[j].owner = w \/ RowHeld(job[j], job'[j])
    <3>1. Holds(proc[w], w, job[j])
      BY <2>1 DEF OwnsJob
    <3>2. job[j].status \in Cancelled \/ job[j].owner = w
      BY <2>2, <3>1 DEF Holds, Engaged
    <3>3. QED
      BY <3>2 DEF RowHeld, Cancelled
  <2>7. /\ \A k \in Roots \ {j} : RowHeld(job[k], job'[k])
        /\ \A v \in Workers \ {w} : NotBusier(proc[v], proc'[v])
    BY <1>1, <2>2, <2>3 DEF RowHeld, NotBusier, JobIds
  <2>8. QED
    BY <1>1, <2>2, <2>5, <2>6, <2>7, OwnerWrites
<1>29. ASSUME NEW w \in Workers, BeginStateWrite(w)
      PROVE  OwnsJob'
  <2>1. DEFINE q == [proc[w] EXCEPT !.pc = "write_wait",
                             !.saw = job[proc[w].job].status \notin Cancelled]
  <2>2. /\ q.job = proc[w].job /\ q.pc = "write_wait"
        /\ q.target = proc[w].target /\ proc[w].pc = "writing"
    BY <1>1, <1>29 DEF BeginStateWrite, Proc
  <2>3. proc' = [proc EXCEPT ![w] = q]
    BY <1>1, <1>29 DEF BeginStateWrite
  <2>4. NotBusier(proc[w], q)
    BY <2>2 DEF NotBusier, Engaged
  <2>5. NoneBusier
    BY <1>1, <2>3, <2>4, OneBusy
  <2>6. QED
    BY <1>1, <1>29, <2>5, HoldOn, HeldSame DEF BeginStateWrite
<1>30. ASSUME NEW w \in Workers, update_workflow_state_for_job(w)
      PROVE  OwnsJob'
  <2>1. NoneBusier
    <3>1. CASE proc[w].target = "in_progress"
      BY <1>1, <1>30, <3>1, GotoBusy DEF update_workflow_state_for_job, Engaged
    <3>2. CASE proc[w].target # "in_progress"
      <4>1. Goto(w, IF proc[w].target = "ready" THEN "spawning" ELSE "ending")
        BY <1>30, <3>2 DEF update_workflow_state_for_job
      <4>2. QED
        BY <1>1, <4>1, GotoBusy
    <3>3. QED
      BY <3>1, <3>2
  <2>2. QED
    BY <1>1, <1>30, <2>1, HoldOn, HeldSame DEF update_workflow_state_for_job
<1>31. ASSUME NEW w \in Workers, NEW j \in Roots, SpawnDeveloper(w, j)
      PROVE  OwnsJob'
  BY <1>1, <1>31, HoldOn, HeldSame, GotoBusy DEF SpawnDeveloper, Goto
<1>32. ASSUME NEW w \in Workers, heartbeat_job(w)
      PROVE  OwnsJob'
  <2>1. proc[w].job \in JobIds
    BY <1>1, <1>32 DEF heartbeat_job, Executing, WorksOnRow, JobIds
  <2>2. RowsHeld
    BY <1>1, <1>32, <2>1, HeldUpdate DEF heartbeat_job, Update, RowHeld
  <2>3. QED
    BY <1>1, <1>32, <2>2, HoldOn, SameBusy DEF heartbeat_job
<1>33. ASSUME NEW w \in Workers, MonitorStop(w)
      PROVE  OwnsJob'
  BY <1>1, <1>33, HoldOn, HeldSame, GotoBusy DEF MonitorStop
<1>34. ASSUME NEW w \in Workers, EndExecution(w)
      PROVE  OwnsJob'
  <2>1. RowsHeld
    BY <1>1, <1>34, HeldSame, HeldFinished DEF EndExecution
  <2>2. NoneBusier
    BY <1>1, <1>34, OneBusy, IdleBusy DEF EndExecution
  <2>3. QED
    BY <1>1, <2>1, <2>2, HoldOn
<1>35. ASSUME NEW w \in Workers, Crash(w)
      PROVE  OwnsJob'
  BY <1>1, <1>35, HoldOn, HeldSame, OneBusy, IdleBusy DEF Crash
<1>36. ASSUME NEW w \in Workers, Restart(w)
      PROVE  OwnsJob'
  BY <1>1, <1>36, HoldOn, HeldSame, OneBusy, IdleBusy DEF Restart
<1>37. CASE UNCHANGED vars
  BY <1>1, <1>37, HoldOn, HeldSame, SameBusy DEF vars
<1>38. QED
  BY <1>2, <1>3, <1>4, <1>5, <1>6, <1>7, <1>8, <1>9, <1>10, <1>11,
     <1>12, <1>13, <1>14, <1>15, <1>16, <1>17, <1>18, <1>19, <1>20,
     <1>21, <1>22, <1>23, <1>24, <1>25, <1>26, <1>27, <1>28, <1>29,
     <1>30, <1>31, <1>32, <1>33, <1>34, <1>35, <1>36, <1>37
     DEF Next, Github, Requests, Recovery, Poll, Execute, Supervise

\* While a worker executes a job, the row is its own or cancelled: nobody else
\* executes it, and its unguarded fail_job hits no work of another owner.
THEOREM RunsOnlyItsJob == Spec => []RunsOwnJob
<1>1. OwnsJob => RunsOwnJob
  BY DEF OwnsJob, Holds, Engaged, RunsOwnJob
<1>2. QED
  BY <1>1, InitOwnsJob, NextOwnsJob, Inductive, PTL DEF Spec

-----------------------------------------------------------------------------
(* Tasks and their coordinator                                               *)

\* No row and no uncommitted statement is ahead of the workflow's generation.
NoneAhead ==
  \A j \in Roots :
    /\ job[j].status # "absent" => job[j].gen <= wf.gen
    /\ ~RowFree(j) => draft[j].row.gen <= wf.gen

\* A requeueing that the trigger refused concerns an old generation, or a
\* closed issue: it can only become older.
RefusedIsOld ==
  \A j \in Roots :
    job[j].status = "failed" /\ draft[j].row.status = "cancelled" =>
      ~Current(job[j])

\* Closing the issue leaves no active task behind, and starts none.
TasksCurrent ==
  \A c \in Children : job[c].status \in Active => Current(job[c])

\* Under the row lock no task appears that the closing UPDATE did not see.
ScanSeesTasks ==
  closing.pc = "scanned" =>
    \A c \in Children : job[c].status \in Active => c \in closing.sees

TreeInv ==
  /\ NoneAhead /\ RefusedIsOld /\ TasksCurrent /\ ScanSeesTasks /\ NoOrphanTask

\* A root row is inserted, and a statement begun, for a generation that was
\* reached; a failed row is refused when it is not current.
FreshStep ==
  \A k \in Roots :
    /\ job[k].status = "absent" /\ job'[k].status # "absent" =>
         job'[k].gen <= wf.gen
    /\ \/ draft'[k] = NoDraft
       \/ ~RowFree(k) /\ draft'[k].row = draft[k].row
       \/ /\ draft'[k].row.gen <= wf.gen /\ UNCHANGED <<wf, job>>
          /\ job[k].status = "failed" /\ draft'[k].row.status = "cancelled" =>
               ~Current(job[k])

\* Only a checkpoint activates a task; a coordinator is cancelled together
\* with its active tasks, or when it has none.
TreeStep ==
  /\ \A c \in Children :
       job[c].status \notin Active /\ job'[c].status \in Active =>
         /\ ~WorkflowLocked /\ UNCHANGED closing
         /\ ~Closed /\ job'[c].gen = wf.gen
         /\ wf'.time = wf.time /\ wf'.gen = wf.gen
         /\ job'[job'[c].parent].status \notin Cancelled
  /\ \A j \in Roots : \A c \in Children :
       /\ job[j].status \notin Cancelled /\ job'[j].status \in Cancelled
       /\ job[c].status \in Active /\ job[c].parent = j
       => job'[c].status \notin Active
  /\ closing.pc = "scanned" /\ closing'.pc # "scanned" =>
       \A c \in Children : job'[c].status \notin Active
  /\ closing'.pc = "scanned" =>
       \/ UNCHANGED closing
       \/ /\ UNCHANGED job
          /\ closing'.sees = {j \in JobIds : job[j].status \in Active}

LEMMA FreshSame ==
  ASSUME draft \in [JobIds -> Draft], UNCHANGED draft,
         \A k \in Roots : /\ job[k].status = "absent" /\ job'[k].status # "absent"
                          => job'[k].gen <= wf.gen
  PROVE  FreshStep
  BY DEF FreshStep, RowFree

LEMMA FreshRow ==
  ASSUME job \in [JobIds -> Row], draft \in [JobIds -> Draft], UNCHANGED draft,
         NEW j \in JobIds, NEW row, job[j].status # "absent",
         job' = [job EXCEPT ![j] = row]
  PROVE  FreshStep
<1>1. \A k \in Roots : job[k].status = "absent" => job'[k] = job[k]
  BY DEF JobIds
<1>2. QED
  BY <1>1, FreshSame

LEMMA FreshOrphaned ==
  ASSUME draft \in [JobIds -> Draft], NEW w, UNCHANGED job,
         draft' = Orphaned(w)
  PROVE  FreshStep
<1>1. ASSUME NEW k \in JobIds
      PROVE  draft'[k] = draft[k] \/ draft'[k].row = draft[k].row
  BY DEF Orphaned, Draft
<1>2. ASSUME NEW k \in JobIds, RowFree(k)
      PROVE  draft'[k] = NoDraft
  BY <1>2 DEF Orphaned, RowFree, NoDraft
<1>3. QED
  BY <1>1, <1>2 DEF FreshStep, JobIds

\* A new job takes the generation of a row or of the workflow.
LEMMA FreshWrite ==
  ASSUME job \in [JobIds -> Row], draft \in [JobIds -> Draft],
         UNCHANGED <<wf, job>>, NEW j \in JobIds, NEW by, NEW new \in Row,
         Write(j, by, new), new.gen <= wf.gen,
         job[j].status = "failed" =>
           new.parent = NoJob /\ new.status = "queued" /\ new.gen = job[j].gen
  PROVE  FreshStep
<1>1. DEFINE row == fence_workflow_job(job[j], new)
<1>2. row.gen = new.gen
  BY FenceRow
<1>3. job[j].status = "failed" /\ row.status = "cancelled" => ~Current(job[j])
  <2>1. SUFFICES ASSUME job[j].status = "failed", row.status = "cancelled",
                        Current(job[j])
                 PROVE  FALSE
    OBVIOUS
  <2>2. job[j].status \notin Cancelled /\ ~ParentFenced(new) /\ Current(new)
    BY <2>1 DEF Cancelled, ParentFenced, Current
  <2>3. row = new
    BY <2>2, FenceCases
  <2>4. QED
    BY <2>1, <2>3
<1>4. draft' = [draft EXCEPT ![j] = [by |-> by, row |-> row]]
  BY DEF Write
<1>5. QED
  BY <1>2, <1>3, <1>4 DEF FreshStep, RowFree, JobIds

LEMMA FreshNew ==
  ASSUME job \in [JobIds -> Row], draft \in [JobIds -> Draft],
         UNCHANGED <<wf, job>>, NEW j \in Roots, NEW by, job[j].status = "absent",
         NEW gen, NEW role, NewRow("queued", gen, role, NoJob) \in Row,
         gen <= wf.gen,
         Write(j, by, NewRow("queued", gen, role, NoJob))
  PROVE  FreshStep
<1>1. LET new == NewRow("queued", gen, role, NoJob) IN new.gen = gen
  BY DEF NewRow, Absent
<1>2. QED
  BY <1>1, FreshWrite DEF JobIds

LEMMA StatementsFresh ==
  ASSUME IInv, NoneAhead, [Next]_vars
  PROVE  FreshStep
<1>1. /\ draft \in [JobIds -> Draft] /\ job \in [JobIds -> Row] /\ DraftRows
      /\ WorksOnRow /\ wf \in Workflow
  BY DEF IInv, TypeOK
<1>a. \A j \in Roots : job[j].role \in Roles /\ job[j].gen \in 0 .. (MaxEdges + 1)
  BY <1>1 DEF Row, JobIds
<1>2. ASSUME NEW t \in 0 .. MaxEdges, ObserveOpen(t)
      PROVE  FreshStep
  BY <1>1, <1>2, FreshSame DEF ObserveOpen
<1>3. ASSUME NEW t \in 0 .. MaxEdges, BeginClosing(t)
      PROVE  FreshStep
  BY <1>1, <1>3, FreshSame DEF BeginClosing
<1>4. ASSUME LockForClosing
      PROVE  FreshStep
  BY <1>1, <1>4, FreshSame DEF LockForClosing
<1>5. ASSUME CommitClosing
      PROVE  FreshStep
  <2>1. \A k \in Roots : job[k].status = "absent" => job'[k] = job[k]
    BY <1>1, <1>5, StatusSets DEF CommitClosing, JobIds
  <2>2. QED
    BY <1>1, <1>5, <2>1, FreshSame DEF CommitClosing
<1>6. ASSUME NEW j \in Roots, resume_latest_paused_job(j)
      PROVE  FreshStep
  BY <1>1, <1>6, FreshRow DEF resume_latest_paused_job, Resumable, Update,
     JobIds
<1>7. ASSUME NEW j \in Roots, Intake(j)
      PROVE  FreshStep
  <2>1. DEFINE new == NewRow("queued", wf.gen, InitialRole, NoJob)
  <2>2. new \in Row /\ new.gen = wf.gen /\ j \in JobIds
    <3>1. new \in Row
      BY <1>1, StatusSets, NewRowType DEF InitialRole, Roles, Workflow,
         Generations
    <3>2. QED
      BY <3>1 DEF NewRow, Absent, JobIds
  <2>3. fence_workflow_job(job[j], new).gen = wf.gen
    BY <1>1, <2>2, FenceRow
  <2>4. \A k \in Roots : job'[k] = job[k] \/ job'[k].gen = wf.gen
    BY <1>1, <1>7, <2>2, <2>3 DEF Intake, Update, JobIds
  <2>5. wf.gen <= wf.gen
    BY <1>1 DEF Workflow, Generations
  <2>6. UNCHANGED draft
    BY <1>7 DEF Intake
  <2>7. QED
    BY <1>1, <2>4, <2>5, <2>6, FreshSame
<1>8. ASSUME NEW j \in Roots, retry_failed(j)
      PROVE  FreshStep
  BY <1>1, <1>8, FreshRow DEF retry_failed, Update, JobIds
<1>9. ASSUME NEW k \in Roots, NEW j \in Roots, BeginRetry(k, j)
      PROVE  FreshStep
  <2>1. NewRow("queued", job[k].gen, job[k].role, NoJob) \in Row
    BY <1>a, StatusSets, NewRowType
  <2>2. job[k].gen <= wf.gen
    BY <1>9 DEF BeginRetry, NoneAhead
  <2>3. QED
    BY <1>1, <1>9, <2>1, <2>2, FreshNew DEF BeginRetry, NextRoot, Unused
<1>10. ASSUME NEW j \in Roots, requeue_failed_job(j)
      PROVE  FreshStep
  <2>1. DEFINE new == [job[j] EXCEPT !.status = "queued"]
  <2>2. /\ new \in Row /\ new.gen = job[j].gen /\ new.parent = job[j].parent
        /\ new.status = "queued"
    BY <1>1, StatusSets DEF Row, JobIds
  <2>3. new.gen <= wf.gen /\ new.parent = NoJob
    BY <1>10, <2>2 DEF requeue_failed_job, NoneAhead, IInv, RootRows
  <2>4. QED
    BY <1>1, <1>10, <2>2, <2>3, FreshWrite DEF requeue_failed_job, JobIds
<1>11. ASSUME NEW j \in Roots, CommitDraft(j)
      PROVE  FreshStep
  <2>1. draft[j].row.gen <= wf.gen
    BY <1>11 DEF CommitDraft, NoneAhead
  <2>2. \A k \in Roots : job'[k] = IF k = j THEN draft[j].row ELSE job[k]
    BY <1>1, <1>11 DEF CommitDraft, JobIds
  <2>3. \A k \in Roots : draft'[k] = IF k = j THEN NoDraft ELSE draft[k]
    BY <1>1, <1>11 DEF CommitDraft, JobIds
  <2>4. QED
    BY <1>1, <2>1, <2>2, <2>3 DEF FreshStep, RowFree
<1>12. ASSUME NEW j \in Roots, ExpireLease(j)
      PROVE  FreshStep
  <2>1. \A k \in Roots : job'[k].status = job[k].status
    BY <1>1, <1>12 DEF ExpireLease, Row, JobIds
  <2>2. QED
    BY <1>1, <1>12, <2>1, FreshSame DEF ExpireLease
<1>13. ASSUME NEW j \in Roots, fence_expired_jobs(j)
      PROVE  FreshStep
  <2>1. \A k \in Roots : job[k].status = "absent" => job'[k] = job[k]
    BY <1>1, <1>13, StatusSets DEF fence_expired_jobs, JobIds
  <2>2. QED
    BY <1>1, <1>13, <2>1, FreshSame DEF fence_expired_jobs
<1>14. ASSUME NEW j \in Roots, finish_recovered_jobs(j)
      PROVE  FreshStep
  <2>1. \A k \in Roots : job[k].status = "absent" => job'[k] = job[k]
    BY <1>1, <1>14, StatusSets DEF finish_recovered_jobs, CancellationFinished,
       JobIds
  <2>2. QED
    BY <1>1, <1>14, <2>1, FreshSame DEF finish_recovered_jobs
<1>15. ASSUME NEW w \in Workers, list_ready_developer_candidates(w)
      PROVE  FreshStep
  BY <1>1, <1>15, FreshSame DEF list_ready_developer_candidates
<1>16. ASSUME NEW w \in Workers, NEW j \in Roots, QueueReady(w, j)
      PROVE  FreshStep
  <2>1. proc[w].job \in Roots /\ job[proc[w].job].status # "absent"
    BY <1>1, <1>16 DEF QueueReady, WorksOnRow
  <2>2. /\ NewRow("queued", job[proc[w].job].gen, "developer", NoJob) \in Row
        /\ job[proc[w].job].gen <= wf.gen
    BY <1>a, <2>1, StatusSets, NewRowType DEF NoneAhead, Roles
  <2>3. QED
    BY <1>1, <1>16, <2>2, FreshNew DEF QueueReady, NextRoot, Unused
<1>17. ASSUME NEW w \in Workers, NoRootLeft(w)
      PROVE  FreshStep
  BY <1>1, <1>17, FreshSame DEF NoRootLeft
<1>18. ASSUME NEW w \in Workers, acquire_next_queued_job(w)
      PROVE  FreshStep
  <2>1. \A k \in Roots : job[k].status = "absent" => job'[k] = job[k]
    BY <1>1, <1>18 DEF acquire_next_queued_job, JobIds
  <2>2. QED
    BY <1>1, <1>18, <2>1, FreshSame DEF acquire_next_queued_job
<1>19. ASSUME NEW w \in Workers, mark_job_running(w)
      PROVE  FreshStep
  <2>1. \A k \in Roots : job[k].status = "absent" => job'[k] = job[k]
    BY <1>1, <1>19 DEF mark_job_running, JobIds
  <2>2. QED
    BY <1>1, <1>19, <2>1, FreshSame DEF mark_job_running
<1>20. ASSUME NEW w \in Workers, BeginSideEffect(w)
      PROVE  FreshStep
  BY <1>1, <1>20, FreshSame DEF BeginSideEffect
<1>21. ASSUME NEW w \in Workers, lock_job_side_effect(w)
      PROVE  FreshStep
  BY <1>1, <1>21, FreshSame DEF lock_job_side_effect
<1>22. ASSUME NEW w \in Workers, NEW c \in Children, supersede_job(w, c)
      PROVE  FreshStep
  BY <1>1, <1>22, FreshRow DEF supersede_job, Update, JobIds
<1>23. ASSUME NEW w \in Workers, EndSideEffect(w)
      PROVE  FreshStep
  BY <1>1, <1>23, FreshSame DEF EndSideEffect
<1>24. ASSUME NEW w \in Workers, register_container_execution(w)
      PROVE  FreshStep
  <2>1. \A k \in Roots : job'[k].status = job[k].status
    BY <1>1, <1>24 DEF register_container_execution, Row, JobIds
  <2>2. QED
    BY <1>1, <1>24, <2>1, FreshSame DEF register_container_execution
<1>25. ASSUME NEW w \in Workers, save_checkpoint(w)
      PROVE  FreshStep
  <2>1. \A k \in Roots : k # proc[w].job => job'[k] = job[k]
    BY <1>1, <1>25, JobIdsAssumption DEF save_checkpoint, Checkpointed, JobIds
  <2>2. job[proc[w].job].status = "running" /\ UNCHANGED draft
    BY <1>25 DEF save_checkpoint, OwnsRunningLease
  <2>3. QED
    BY <1>1, <2>1, <2>2, FreshSame
<1>26. ASSUME NEW w \in Workers, complete_job(w)
      PROVE  FreshStep
  <2>1. \A k \in Roots : job[k].status = "absent" => job'[k] = job[k]
    BY <1>1, <1>26 DEF complete_job, Update, JobIds
  <2>2. QED
    BY <1>1, <1>26, <2>1, FreshSame DEF complete_job
<1>27. ASSUME NEW w \in Workers, fail_active_plugin_child_jobs(w)
      PROVE  FreshStep
  <2>1. \A k \in Roots : job[k].status = "absent" => job'[k] = job[k]
    BY <1>1, <1>27, StatusSets DEF fail_active_plugin_child_jobs, JobIds
  <2>2. QED
    BY <1>1, <1>27, <2>1, FreshSame DEF fail_active_plugin_child_jobs
<1>28. ASSUME NEW w \in Workers, fail_job(w)
      PROVE  FreshStep
  <2>1. proc[w].job \in JobIds /\ job[proc[w].job].status # "absent"
    BY <1>1, <1>28 DEF fail_job, WorksOnRow, JobIds
  <2>2. QED
    BY <1>1, <1>28, <2>1, FreshRow DEF fail_job, Update
<1>29. ASSUME NEW w \in Workers, BeginStateWrite(w)
      PROVE  FreshStep
  BY <1>1, <1>29, FreshSame DEF BeginStateWrite
<1>30. ASSUME NEW w \in Workers, update_workflow_state_for_job(w)
      PROVE  FreshStep
  BY <1>1, <1>30, FreshSame DEF update_workflow_state_for_job
<1>31. ASSUME NEW w \in Workers, NEW j \in Roots, SpawnDeveloper(w, j)
      PROVE  FreshStep
  <2>1. proc[w].job \in Roots /\ job[proc[w].job].status # "absent"
    BY <1>1, <1>31 DEF SpawnDeveloper, WorksOnRow
  <2>2. /\ NewRow("queued", job[proc[w].job].gen, "developer", NoJob) \in Row
        /\ job[proc[w].job].gen <= wf.gen
    BY <1>a, <2>1, StatusSets, NewRowType DEF NoneAhead, Roles
  <2>3. QED
    BY <1>1, <1>31, <2>2, FreshNew DEF SpawnDeveloper, NextRoot, Unused
<1>32. ASSUME NEW w \in Workers, heartbeat_job(w)
      PROVE  FreshStep
  <2>1. proc[w].job \in JobIds /\ job[proc[w].job].status # "absent"
    BY <1>1, <1>32 DEF heartbeat_job, Executing, WorksOnRow, JobIds
  <2>2. QED
    BY <1>1, <1>32, <2>1, FreshRow DEF heartbeat_job, Update
<1>33. ASSUME NEW w \in Workers, MonitorStop(w)
      PROVE  FreshStep
  BY <1>1, <1>33, FreshOrphaned DEF MonitorStop
<1>34. ASSUME NEW w \in Workers, EndExecution(w)
      PROVE  FreshStep
  <2>1. \A k \in Roots : job[k].status = "absent" => job'[k] = job[k]
    BY <1>1, <1>34, StatusSets DEF EndExecution, CancellationFinished, JobIds
  <2>2. QED
    BY <1>1, <1>34, <2>1, FreshSame DEF EndExecution
<1>35. ASSUME NEW w \in Workers, Crash(w)
      PROVE  FreshStep
  BY <1>1, <1>35, FreshOrphaned DEF Crash
<1>36. ASSUME NEW w \in Workers, Restart(w)
      PROVE  FreshStep
  BY <1>1, <1>36, FreshSame DEF Restart
<1>37. CASE UNCHANGED vars
  BY <1>1, <1>37, FreshSame DEF vars
<1>38. QED
  BY <1>2, <1>3, <1>4, <1>5, <1>6, <1>7, <1>8, <1>9, <1>10, <1>11,
     <1>12, <1>13, <1>14, <1>15, <1>16, <1>17, <1>18, <1>19, <1>20,
     <1>21, <1>22, <1>23, <1>24, <1>25, <1>26, <1>27, <1>28, <1>29,
     <1>30, <1>31, <1>32, <1>33, <1>34, <1>35, <1>36, <1>37
     DEF Next, Github, Requests, Recovery, Poll, Execute, Supervise

LEMMA TreeSame ==
  ASSUME UNCHANGED <<job, closing>>
  PROVE  TreeStep
  BY DEF TreeStep

\* Rows that cancel no coordinator and activate no task.
LEMMA TreeQuiet ==
  ASSUME UNCHANGED closing,
         \A c \in Children : job'[c] = job[c] \/ job'[c].status \notin Active,
         \A j \in Roots : job[j].status \notin Cancelled =>
           job'[j].status \notin Cancelled
  PROVE  TreeStep
  BY DEF TreeStep

\* The trigger cancels a root row only when it is not current, and then no
\* task of it is active.
LEMMA TreeUpdate ==
  ASSUME IInv, TasksCurrent, UNCHANGED closing, NEW j \in Roots, NEW new \in Row,
         new.parent = NoJob, new.status \notin Cancelled,
         job[j].status # "absent" => new.gen = job[j].gen,
         job' = [job EXCEPT ![j] = fence_workflow_job(job[j], new)]
  PROVE  TreeStep
<1>1. /\ job \in [JobIds -> Row] /\ j \in JobIds /\ j \notin Children
      /\ Roots \subseteq JobIds /\ Children \subseteq JobIds
  BY JobIdsAssumption DEF IInv, TypeOK, JobIds
<1>2. /\ \A k \in JobIds \ {j} : job'[k] = job[k]
      /\ job'[j] = fence_workflow_job(job[j], new)
  BY <1>1
<1>3. \A c \in Children : job'[c] = job[c]
  BY <1>1, <1>2
<1>4. ASSUME job[j].status \notin Cancelled, job'[j].status \in Cancelled,
             NEW c \in Children, job[c].status \in Active, job[c].parent = j
      PROVE  FALSE
  <2>1. /\ job[c].status # "absent" /\ job[j].status # "absent"
        /\ job[j].gen = job[c].gen
    BY <1>4, StatusSets DEF IInv, TaskRows
  <2>2. ~Closed /\ new.gen = wf.gen
    BY <1>4, <2>1 DEF TasksCurrent, Current
  <2>3. ~ParentFenced(new) /\ Current(new)
    BY <2>2 DEF ParentFenced, Current
  <2>4. job'[j] = new
    BY <1>2, <1>4, <2>3, FenceCases
  <2>5. QED
    BY <1>4, <2>4
<1>5. \A k \in Roots \ {j} : job'[k] = job[k]
  BY <1>1, <1>2
<1>6. QED
  BY <1>3, <1>4, <1>5 DEF TreeStep

LEMMA DroppedRoot ==
  ASSUME job \in [JobIds -> Row], RootRows, NEW j \in Roots,
         NEW status \in JobStatus \ Cancelled
  PROVE  LET new == Drop(job[j], status)
         IN /\ new \in Row /\ new.parent = NoJob /\ new.gen = job[j].gen
            /\ new.status \notin Cancelled
<1>1. job[j] \in Row /\ job[j].parent = NoJob
  BY DEF RootRows, JobIds
<1>2. QED
  BY <1>1, DropRow

LEMMA TreeFinished ==
  ASSUME NEW j, UNCHANGED closing, job \in [JobIds -> Row],
         job' = CancellationFinished(j)
  PROVE  TreeStep
<1>1. ASSUME NEW k \in JobIds
      PROVE  \/ job'[k] = job[k]
             \/ job[k].status \in Cancelled /\ job'[k].status \in Cancelled
  <2>1. "cancelled" \in JobStatus /\ "cancelled" \in Cancelled
        /\ "cancel_requested" \in Cancelled
    BY DEF JobStatus, Cancelled
  <2>2. QED
    BY <2>1, DropRow DEF CancellationFinished
<1>2. QED
  BY <1>1, TreeQuiet, StatusSets DEF JobIds

LEMMA TreesStep ==
  ASSUME IInv, TasksCurrent, RefusedIsOld, ScanSeesTasks, [Next]_vars
  PROVE  TreeStep
<1>1. /\ WorksOnRow /\ RootRows /\ job \in [JobIds -> Row] /\ DraftRows
      /\ Roots \subseteq JobIds /\ Children \subseteq JobIds
      /\ Roots \cap Children = {} /\ NoJob \notin Roots
  BY JobIdsAssumption DEF IInv, TypeOK, JobIds, NoJob
<1>2. ASSUME NEW t \in 0 .. MaxEdges, ObserveOpen(t)
      PROVE  TreeStep
  BY <1>2, TreeSame DEF ObserveOpen
<1>3. ASSUME NEW t \in 0 .. MaxEdges, BeginClosing(t)
      PROVE  TreeStep
  BY <1>3 DEF BeginClosing, TreeStep
<1>4. ASSUME LockForClosing
      PROVE  TreeStep
  <2>1. closing \in Closing
    BY DEF IInv, TypeOK
  <2>2. CASE closing.time < wf.time
    BY <1>4, <2>1, <2>2 DEF LockForClosing, TreeStep, Closing
  <2>3. CASE ~(closing.time < wf.time)
    BY <1>4, <2>1, <2>3 DEF LockForClosing, TreeStep, Closing
  <2>4. QED
    BY <2>2, <2>3
<1>5. ASSUME CommitClosing
      PROVE  TreeStep
  <2>1. closing.pc = "scanned" /\ closing'.pc = "idle"
    BY <1>5 DEF CommitClosing, IInv, TypeOK, Closing
  <2>2. ASSUME NEW c \in Children
        PROVE  job'[c].status \notin Active
    <3>1. CASE job[c].status \in Active
      <4>1. c \in closing.sees
        BY <2>1, <3>1 DEF ScanSeesTasks
      <4>2. job'[c] = [job[c] EXCEPT !.status = Stopped(job[c])]
        BY <1>1, <1>5, <3>1, <4>1 DEF CommitClosing
      <4>3. job'[c].status = Stopped(job[c])
        BY <1>1, <4>2 DEF Row
      <4>4. QED
        BY <4>3, StoppedStatus, StatusSets
    <3>2. CASE job[c].status \notin Active
      BY <1>1, <1>5, <3>2 DEF CommitClosing
    <3>3. QED
      BY <3>1, <3>2
  <2>3. QED
    BY <2>1, <2>2 DEF TreeStep
<1>6. ASSUME NEW j \in Roots, resume_latest_paused_job(j)
      PROVE  TreeStep
  <2>1. DEFINE new == Drop(job[j], "queued")
  <2>2. /\ new \in Row /\ new.parent = NoJob /\ new.gen = job[j].gen
        /\ new.status \notin Cancelled
    BY <1>1, DroppedRoot DEF JobStatus, Active, Cancelled
  <2>3. /\ job' = [job EXCEPT ![j] = fence_workflow_job(job[j], new)]
        /\ UNCHANGED closing
    BY <1>6 DEF resume_latest_paused_job, Update
  <2>4. QED
    BY <2>2, <2>3, TreeUpdate
<1>7. ASSUME NEW j \in Roots, Intake(j)
      PROVE  TreeStep
  <2>1. DEFINE new == NewRow("queued", wf.gen, InitialRole, NoJob)
  <2>2. new \in Row
    BY StatusSets, NewRowType
       DEF InitialRole, Roles, IInv, TypeOK, Workflow, Generations
  <2>3. new.parent = NoJob /\ new.status \notin Cancelled
    BY DEF NewRow, Absent, Cancelled
  <2>4. /\ job' = [job EXCEPT ![j] = fence_workflow_job(job[j], new)]
        /\ job[j].status = "absent" /\ UNCHANGED closing
    BY <1>7 DEF Intake, NextRoot, Unused, Update
  <2>5. QED
    BY <2>2, <2>3, <2>4, TreeUpdate
<1>8. ASSUME NEW j \in Roots, retry_failed(j)
      PROVE  TreeStep
  <2>1. DEFINE new == Drop(job[j], "queued")
  <2>2. /\ new \in Row /\ new.parent = NoJob /\ new.gen = job[j].gen
        /\ new.status \notin Cancelled
    BY <1>1, DroppedRoot DEF JobStatus, Active, Cancelled
  <2>3. /\ job' = [job EXCEPT ![j] = fence_workflow_job(job[j], new)]
        /\ UNCHANGED closing
    BY <1>8 DEF retry_failed, Update
  <2>4. QED
    BY <2>2, <2>3, TreeUpdate
<1>9. ASSUME NEW k \in Roots, NEW j \in Roots, BeginRetry(k, j)
      PROVE  TreeStep
  BY <1>9, TreeSame DEF BeginRetry
<1>10. ASSUME NEW j \in Roots, requeue_failed_job(j)
      PROVE  TreeStep
  BY <1>10, TreeSame DEF requeue_failed_job
<1>11. ASSUME NEW j \in Roots, CommitDraft(j)
      PROVE  TreeStep
  <2>1. /\ \A k \in JobIds : job'[k] = IF k = j THEN draft[j].row ELSE job[k]
        /\ UNCHANGED closing
    BY <1>1, <1>11 DEF CommitDraft
  <2>2. /\ job[j].status \in {"absent", "failed"}
        /\ draft[j].row.status \in {"queued", "cancelled"}
    BY <1>1, <1>11 DEF CommitDraft, DraftRows
  <2>3. ASSUME draft[j].row.status = "cancelled", NEW c \in Children,
               job[c].status \in Active, job[c].parent = j
        PROVE  FALSE
    <3>1. /\ job[c].status # "absent" /\ job[j].status # "absent"
          /\ job[j].gen = job[c].gen
      BY <2>3, StatusSets DEF IInv, TaskRows
    <3>2. ~Current(job[j])
      BY <2>2, <2>3, <3>1 DEF RefusedIsOld
    <3>3. QED
      BY <2>3, <3>1, <3>2 DEF TasksCurrent, Current
  <2>4. \A c \in Children : job'[c] = job[c]
    BY <1>1, <2>1
  <2>5. \A k \in Roots \ {j} : job'[k] = job[k]
    BY <1>1, <2>1
  <2>6. job'[j].status \in Cancelled => draft[j].row.status = "cancelled"
    BY <1>1, <2>1, <2>2 DEF Cancelled
  <2>7. QED
    BY <2>1, <2>3, <2>4, <2>5, <2>6 DEF TreeStep
<1>12. ASSUME NEW j \in Roots, ExpireLease(j)
      PROVE  TreeStep
  <2>1. \A k \in Roots : job'[k].status = job[k].status
    BY <1>1, <1>12 DEF ExpireLease, Row
  <2>2. \A c \in Children : job'[c] = job[c]
    BY <1>1, <1>12 DEF ExpireLease
  <2>3. QED
    BY <1>12, <2>1, <2>2, TreeQuiet DEF ExpireLease
<1>13. ASSUME NEW j \in Roots, fence_expired_jobs(j)
      PROVE  TreeStep
  <2>1. UNCHANGED closing
    BY <1>13 DEF fence_expired_jobs
  <2>2. \A k \in Roots \ {j} : job'[k] = job[k]
    BY <1>1, <1>13 DEF fence_expired_jobs, RootRows
  <2>3. ASSUME NEW c \in Children
        PROVE  /\ job'[c] = job[c] \/ job'[c].status \notin Active
               /\ job[c].parent = j => job'[c].status \notin Active
    <3>1. CASE job[c].parent = j /\ job[c].status \in Active
      <4>1. job'[c] = Drop(job[c], Stopped(job[c]))
        BY <1>1, <1>13, <3>1 DEF fence_expired_jobs
      <4>2. job'[c].status = Stopped(job[c])
        <5>1. Stopped(job[c]) \in JobStatus /\ job[c] \in Row
          BY <1>1, StoppedStatus, StatusSets
        <5>2. QED
          BY <4>1, <5>1, DropRow
      <4>3. QED
        BY <4>2, StoppedStatus, StatusSets
    <3>2. CASE ~(job[c].parent = j /\ job[c].status \in Active)
      BY <1>1, <1>13, <3>2 DEF fence_expired_jobs
    <3>3. QED
      BY <3>1, <3>2
  <2>4. QED
    BY <2>1, <2>2, <2>3 DEF TreeStep
<1>14. ASSUME NEW j \in Roots, finish_recovered_jobs(j)
      PROVE  TreeStep
  BY <1>1, <1>14, TreeFinished DEF finish_recovered_jobs
<1>15. ASSUME NEW w \in Workers, list_ready_developer_candidates(w)
      PROVE  TreeStep
  BY <1>15, TreeSame DEF list_ready_developer_candidates
<1>16. ASSUME NEW w \in Workers, NEW j \in Roots, QueueReady(w, j)
      PROVE  TreeStep
  BY <1>16, TreeSame DEF QueueReady
<1>17. ASSUME NEW w \in Workers, NoRootLeft(w)
      PROVE  TreeStep
  BY <1>17, TreeSame DEF NoRootLeft
<1>18. ASSUME NEW w \in Workers, acquire_next_queued_job(w)
      PROVE  TreeStep
  <2>1. PICK j \in Roots :
          LET new == [job[j] EXCEPT !.status = "leased", !.owner = w,
                                    !.lease = "live"]
          IN job' = [job EXCEPT ![j] = fence_workflow_job(job[j], new)]
    BY <1>18 DEF acquire_next_queued_job
  <2>2. DEFINE new == [job[j] EXCEPT !.status = "leased", !.owner = w,
                                     !.lease = "live"]
  <2>3. /\ new \in Row /\ new.parent = NoJob /\ new.gen = job[j].gen
        /\ new.status \notin Cancelled
    BY <1>1, StatusSets DEF Row, Owners, RootRows, Cancelled
  <2>4. UNCHANGED closing
    BY <1>18 DEF acquire_next_queued_job
  <2>5. QED
    BY <2>1, <2>3, <2>4, TreeUpdate
<1>19. ASSUME NEW w \in Workers, mark_job_running(w)
      PROVE  TreeStep
  <2>1. PICK j : j = proc[w].job
    OBVIOUS
  <2>2. DEFINE new == [job[j] EXCEPT !.status = "running"]
  <2>3. j \in Roots
    BY <1>1, <1>19, <2>1 DEF mark_job_running, WorksOnRow
  <2>4. /\ new \in Row /\ new.parent = NoJob /\ new.gen = job[j].gen
        /\ new.status \notin Cancelled
    BY <1>1, <2>3, StatusSets DEF Row, RootRows, Cancelled
  <2>5. /\ UNCHANGED closing
        /\ \/ UNCHANGED job
           \/ job' = [job EXCEPT ![j] = fence_workflow_job(job[j], new)]
    BY <1>19, <2>1 DEF mark_job_running
  <2>6. CASE UNCHANGED job
    BY <2>5, <2>6, TreeSame
  <2>7. CASE job' = [job EXCEPT ![j] = fence_workflow_job(job[j], new)]
    BY <2>3, <2>4, <2>5, <2>7, TreeUpdate
  <2>8. QED
    BY <2>5, <2>6, <2>7
<1>20. ASSUME NEW w \in Workers, BeginSideEffect(w)
      PROVE  TreeStep
  BY <1>20, TreeSame DEF BeginSideEffect
<1>21. ASSUME NEW w \in Workers, lock_job_side_effect(w)
      PROVE  TreeStep
  BY <1>21, TreeSame DEF lock_job_side_effect
<1>22. ASSUME NEW w \in Workers, NEW c \in Children, supersede_job(w, c)
      PROVE  TreeStep
  <2>1. DEFINE new == Drop(job[c], "superseded")
               row == fence_workflow_job(job[c], new)
  <2>2. new \in Row /\ new.status = "superseded"
    BY <1>1, DropRow, StatusSets DEF Settled
  <2>3. row.status \notin Active
    BY <1>1, <2>2, FenceRow, StatusSets
  <2>4. /\ \A k \in JobIds : job'[k] = IF k = c THEN row ELSE job[k]
        /\ UNCHANGED closing
    BY <1>1, <1>22 DEF supersede_job, Update
  <2>5. \A k \in Roots : job'[k] = job[k]
    BY <1>1, <2>4
  <2>6. QED
    BY <1>1, <2>3, <2>4, <2>5, TreeQuiet
<1>23. ASSUME NEW w \in Workers, EndSideEffect(w)
      PROVE  TreeStep
  BY <1>23, TreeSame DEF EndSideEffect
<1>24. ASSUME NEW w \in Workers, register_container_execution(w)
      PROVE  TreeStep
  <2>1. proc[w].job \in Roots
    BY <1>1, <1>24 DEF register_container_execution, WorksOnRow
  <2>2. \A k \in Roots : job'[k].status = job[k].status
    BY <1>1, <1>24 DEF register_container_execution, Row
  <2>3. \A c \in Children : job'[c] = job[c]
    BY <1>1, <1>24, <2>1 DEF register_container_execution
  <2>4. QED
    BY <1>24, <2>2, <2>3, TreeQuiet DEF register_container_execution
<1>25. ASSUME NEW w \in Workers, save_checkpoint(w)
      PROVE  TreeStep
  <2>1. PICK j : j = proc[w].job
    OBVIOUS
  <2>2. /\ j \in Roots /\ Current(job[j]) /\ job[j].status = "running"
        /\ ~WorkflowLocked /\ UNCHANGED closing
    BY <1>1, <1>25, <2>1 DEF save_checkpoint, OwnsRunningLease, WorksOnRow
  <2>3. PICK next \in ChildEffects(j), ckpt \in {"open", "completed"},
             outcome \in {"none", "needs_info", "needs_human"} :
          /\ job' = [k \in JobIds |-> Checkpointed(k, j, next, ckpt, outcome)]
          /\ IF outcome = "none" THEN UNCHANGED <<wf, proc>>
             ELSE /\ wf' = [wf EXCEPT !.state = outcome]
                  /\ Goto(w, "ending")
    BY <1>25, <2>1 DEF save_checkpoint
  <2>4. wf'.time = wf.time /\ wf'.gen = wf.gen
    BY <2>3 DEF IInv, TypeOK, Workflow
  <2>5. job'[j].status \in {"running", "paused"}
    <3>1. j \notin Children /\ j \in JobIds
      BY <1>1, <2>2
    <3>2. [Drop(job[j], "paused") EXCEPT !.ckpt = ckpt].status = "paused"
      BY <1>1, <3>1, DropRow, StatusSets DEF Row
    <3>3. [job[j] EXCEPT !.ckpt = ckpt].status = "running"
      BY <1>1, <2>2, <3>1 DEF Row
    <3>4. QED
      BY <2>3, <3>1, <3>2, <3>3 DEF Checkpointed
  <2>6. \A k \in Roots \ {j} : job'[k] = job[k]
    BY <1>1, <2>3 DEF Checkpointed
  <2>7. \A k \in Roots : job[k].status \notin Cancelled =>
          job'[k].status \notin Cancelled
    BY <2>5, <2>6 DEF Cancelled
  <2>8. ASSUME NEW c \in Children, job[c].status \notin Active,
               job'[c].status \in Active
        PROVE  /\ job'[c].gen = wf.gen
               /\ job'[job'[c].parent].status \notin Cancelled
    <3>1. job[c].status # next[c]
      BY <1>1, <2>2, <2>3, <2>8 DEF Checkpointed
    <3>2. job'[c] = [job[c] EXCEPT !.status = next[c], !.parent = j,
                                   !.gen = job[j].gen, !.role = "task"]
      <4>1. c \in JobIds /\ c # j
        BY <1>1, <2>2
      <4>2. job'[c] = Checkpointed(c, j, next, ckpt, outcome)
        BY <2>3, <4>1
      <4>3. QED
        BY <3>1, <4>1, <4>2 DEF Checkpointed
    <3>3. job'[c].parent = j /\ job'[c].gen = job[j].gen
      BY <1>1, <3>2 DEF Row
    <3>4. QED
      BY <2>2, <2>5, <3>3 DEF Current, Cancelled
  <2>9. QED
    BY <2>2, <2>4, <2>7, <2>8 DEF TreeStep, Current
<1>26. ASSUME NEW w \in Workers, complete_job(w)
      PROVE  TreeStep
  <2>1. PICK j : j = proc[w].job
    OBVIOUS
  <2>2. DEFINE new == Drop(job[j], "completed")
  <2>3. j \in Roots
    BY <1>1, <1>26, <2>1 DEF complete_job, WorksOnRow
  <2>4. /\ new \in Row /\ new.parent = NoJob /\ new.gen = job[j].gen
        /\ new.status \notin Cancelled
    BY <1>1, <2>3, DroppedRoot DEF JobStatus, Cancelled, Settled
  <2>5. /\ UNCHANGED closing
        /\ \/ UNCHANGED job
           \/ job' = [job EXCEPT ![j] = fence_workflow_job(job[j], new)]
    BY <1>26, <2>1 DEF complete_job, Update
  <2>6. CASE UNCHANGED job
    BY <2>5, <2>6, TreeSame
  <2>7. CASE job' = [job EXCEPT ![j] = fence_workflow_job(job[j], new)]
    BY <2>3, <2>4, <2>5, <2>7, TreeUpdate
  <2>8. QED
    BY <2>5, <2>6, <2>7
<1>27. ASSUME NEW w \in Workers, fail_active_plugin_child_jobs(w)
      PROVE  TreeStep
  <2>1. proc[w].job \in Roots
    BY <1>1, <1>27 DEF fail_active_plugin_child_jobs, WorksOnRow
  <2>2. \A k \in Roots : job'[k] = job[k]
    BY <1>1, <1>27, <2>1 DEF fail_active_plugin_child_jobs, RootRows
  <2>3. ASSUME NEW c \in Children
        PROVE  job'[c] = job[c] \/ job'[c].status \notin Active
    <3>1. /\ Drop(job[c], "failed") \in Row
          /\ Drop(job[c], "failed").status = "failed"
      BY <1>1, DropRow, StatusSets DEF Settled
    <3>2. fence_workflow_job(job[c], Drop(job[c], "failed")).status \notin Active
      BY <1>1, <3>1, FenceRow, StatusSets
    <3>3. QED
      BY <1>1, <1>27, <3>2 DEF fail_active_plugin_child_jobs
  <2>4. UNCHANGED closing
    BY <1>27 DEF fail_active_plugin_child_jobs
  <2>5. QED
    BY <2>2, <2>3, <2>4, TreeQuiet
<1>28. ASSUME NEW w \in Workers, fail_job(w)
      PROVE  TreeStep
  <2>1. PICK j : j = proc[w].job
    OBVIOUS
  <2>2. DEFINE new == Drop(job[j], "failed")
  <2>3. j \in Roots
    BY <1>1, <1>28, <2>1 DEF fail_job, WorksOnRow
  <2>4. /\ new \in Row /\ new.parent = NoJob /\ new.gen = job[j].gen
        /\ new.status \notin Cancelled
    BY <1>1, <2>3, DroppedRoot DEF JobStatus, Cancelled, Settled
  <2>5. /\ UNCHANGED closing
        /\ job' = [job EXCEPT ![j] = fence_workflow_job(job[j], new)]
    BY <1>28, <2>1 DEF fail_job, Update
  <2>6. QED
    BY <2>3, <2>4, <2>5, TreeUpdate
<1>29. ASSUME NEW w \in Workers, BeginStateWrite(w)
      PROVE  TreeStep
  BY <1>29, TreeSame DEF BeginStateWrite
<1>30. ASSUME NEW w \in Workers, update_workflow_state_for_job(w)
      PROVE  TreeStep
  BY <1>30, TreeSame DEF update_workflow_state_for_job
<1>31. ASSUME NEW w \in Workers, NEW j \in Roots, SpawnDeveloper(w, j)
      PROVE  TreeStep
  BY <1>31, TreeSame DEF SpawnDeveloper
<1>32. ASSUME NEW w \in Workers, heartbeat_job(w)
      PROVE  TreeStep
  <2>1. PICK j : j = proc[w].job
    OBVIOUS
  <2>2. /\ j \in Roots /\ job[j].parent = NoJob
        /\ job[j].status \notin Cancelled
    BY <1>1, <1>32, <2>1 DEF heartbeat_job, Executing, WorksOnRow, RootRows,
       HeartbeatMatches, Cancelled
  <2>3. /\ UNCHANGED closing
        /\ job' = [job EXCEPT ![j] = fence_workflow_job(job[j], job[j])]
    BY <1>32, <2>1 DEF heartbeat_job, Update
  <2>4. job[j] \in Row
    BY <1>1, <2>2
  <2>5. QED
    BY <2>2, <2>3, <2>4, TreeUpdate
<1>33. ASSUME NEW w \in Workers, MonitorStop(w)
      PROVE  TreeStep
  BY <1>33, TreeSame DEF MonitorStop
<1>34. ASSUME NEW w \in Workers, EndExecution(w)
      PROVE  TreeStep
  BY <1>1, <1>34, TreeSame, TreeFinished DEF EndExecution
<1>35. ASSUME NEW w \in Workers, Crash(w)
      PROVE  TreeStep
  BY <1>35, TreeSame DEF Crash
<1>36. ASSUME NEW w \in Workers, Restart(w)
      PROVE  TreeStep
  BY <1>36, TreeSame DEF Restart
<1>37. CASE UNCHANGED vars
  BY <1>37, TreeSame DEF vars
<1>38. QED
  BY <1>2, <1>3, <1>4, <1>5, <1>6, <1>7, <1>8, <1>9, <1>10, <1>11,
     <1>12, <1>13, <1>14, <1>15, <1>16, <1>17, <1>18, <1>19, <1>20,
     <1>21, <1>22, <1>23, <1>24, <1>25, <1>26, <1>27, <1>28, <1>29,
     <1>30, <1>31, <1>32, <1>33, <1>34, <1>35, <1>36, <1>37
     DEF Next, Github, Requests, Recovery, Poll, Execute, Supervise

LEMMA InitTree == Init => TreeInv
<1> SUFFICES ASSUME Init PROVE TreeInv
  OBVIOUS
<1>1. NoneAhead /\ RefusedIsOld
  BY DEF Init, NoneAhead, RefusedIsOld, RowFree, Absent, JobIds
<1>2. TasksCurrent /\ ScanSeesTasks /\ NoOrphanTask
  BY DEF Init, TasksCurrent, ScanSeesTasks, NoOrphanTask, Active, Absent, JobIds
<1>3. QED
  BY <1>1, <1>2 DEF TreeInv

LEMMA NextTree == IInv /\ TreeInv /\ [Next]_vars => TreeInv'
<1> SUFFICES ASSUME IInv, TreeInv, [Next]_vars PROVE TreeInv'
  OBVIOUS
<1>1. /\ NoneAhead /\ RefusedIsOld /\ TasksCurrent /\ ScanSeesTasks
      /\ NoOrphanTask
      /\ RowsStep /\ WorkflowStep /\ DraftsStep /\ FreshStep /\ TreeStep
  BY JobsStep, WorkflowsStep, StatementsStep, StatementsFresh, TreesStep
     DEF TreeInv
<1>2. /\ wf.gen \in Int /\ wf'.gen \in Int /\ wf.gen <= wf'.gen
      /\ \A j \in Roots : job[j].gen \in Int /\ job'[j].gen \in Int
      /\ \A j \in Roots : draft'[j].row.gen \in Int
  <2>1. /\ wf \in Workflow /\ wf' \in Workflow
        /\ job \in [JobIds -> Row] /\ job' \in [JobIds -> Row]
        /\ draft' \in [JobIds -> Draft]
    BY <1>1 DEF IInv, TypeOK, WorkflowStep, RowsStep, DraftsStep
  <2>2. wf.gen \in Int /\ wf'.gen \in Int
    BY <2>1 DEF Workflow, Generations
  <2>3. wf.gen <= wf'.gen
    BY <1>1, <2>2 DEF WorkflowStep
  <2>4. \A j \in Roots : job[j].gen \in Int /\ job'[j].gen \in Int
    BY <2>1 DEF Row, JobIds
  <2>5. \A j \in Roots : draft'[j].row.gen \in Int
    BY <2>1 DEF Draft, Row, JobIds
  <2>6. QED
    BY <2>2, <2>3, <2>4, <2>5
<1>3. NoneAhead'
  <2>1. ASSUME NEW j \in Roots, job'[j].status # "absent"
        PROVE  job'[j].gen <= wf'.gen
    <3>1. job'[j].gen <= wf.gen
      BY <1>1, <2>1 DEF NoneAhead, FreshStep, RowsStep, RowStep, Keeps, JobIds
    <3>2. QED
      BY <1>2, <3>1
  <2>2. ASSUME NEW j \in Roots, draft'[j] # NoDraft
        PROVE  draft'[j].row.gen <= wf'.gen
    <3>1. draft'[j].row.gen <= wf.gen
      BY <1>1, <2>2 DEF NoneAhead, FreshStep
    <3>2. QED
      BY <1>2, <3>1
  <2>3. QED
    BY <2>1, <2>2 DEF NoneAhead, RowFree
<1>4. RefusedIsOld'
  <2>1. ASSUME NEW j \in Roots, job'[j].status = "failed",
               draft'[j].row.status = "cancelled"
        PROVE  ~Current(job[j]) /\ job[j].gen <= wf.gen /\ job'[j].gen = job[j].gen
    <3>1. draft'[j] # NoDraft
      BY <2>1 DEF NoDraft, Absent
    <3>2. job[j].status = "failed" /\ job'[j].gen = job[j].gen
      BY <1>1, <2>1, <3>1 DEF DraftsStep, Untouched, JobIds
    <3>3. QED
      BY <1>1, <2>1, <3>1, <3>2 DEF FreshStep, RefusedIsOld, NoneAhead
  <2>2. ASSUME NEW j \in Roots, ~Current(job[j]), job[j].gen <= wf.gen,
               job'[j].gen = job[j].gen, Provider(wf'.time) # "closed"
        PROVE  job'[j].gen # wf'.gen
    <3>1. CASE job[j].gen < wf.gen
      BY <1>2, <2>2, <3>1
    <3>2. CASE job[j].gen = wf.gen
      <4>1. Closed
        BY <2>2, <3>2 DEF Current
      <4>2. wf'.gen = wf.gen + 1
        BY <1>1, <2>2, <4>1 DEF WorkflowStep, IInv, ClosingHoldsLock, Closed
      <4>3. QED
        BY <1>2, <2>2, <3>2, <4>2
    <3>3. QED
      BY <1>2, <2>2, <3>1, <3>2
  <2>3. QED
    BY <2>1, <2>2 DEF RefusedIsOld, Current, Closed
<1>5. ASSUME NEW c \in Children, job[c].status \in Active
      PROVE  job'[c].gen = job[c].gen /\ job'[c].parent = job[c].parent
  BY <1>1, <1>5, StatusSets DEF RowsStep, RowStep, Keeps, JobIds
<1>6. TasksCurrent'
  <2>1. ASSUME NEW c \in Children, job'[c].status \in Active
        PROVE  Provider(wf'.time) # "closed" /\ job'[c].gen = wf'.gen
    <3>1. CASE job[c].status \notin Active
      BY <1>1, <2>1, <3>1 DEF TreeStep, Closed
    <3>2. CASE job[c].status \in Active
      <4>1. ~Closed /\ job'[c].gen = wf.gen
        BY <1>1, <1>5, <3>2 DEF TasksCurrent, Current
      <4>2. ~(closing.pc = "scanned" /\ closing'.pc = "idle")
        BY <1>1, <2>1 DEF TreeStep
      <4>3. QED
        BY <1>1, <4>1, <4>2 DEF WorkflowStep, Closed, Provider
    <3>3. QED
      BY <3>1, <3>2
  <2>2. QED
    BY <2>1 DEF TasksCurrent, Current, Closed
<1>7. ScanSeesTasks'
  <2>1. ASSUME closing'.pc = "scanned", NEW c \in Children,
               job'[c].status \in Active
        PROVE  c \in closing'.sees
    <3>1. CASE UNCHANGED closing
      <4>1. WorkflowLocked
        BY <2>1, <3>1 DEF WorkflowLocked
      <4>2. job[c].status \in Active
        BY <1>1, <2>1, <4>1 DEF TreeStep
      <4>3. QED
        BY <1>1, <2>1, <3>1, <4>2 DEF ScanSeesTasks
    <3>2. CASE /\ UNCHANGED job
               /\ closing'.sees = {j \in JobIds : job[j].status \in Active}
      BY <2>1, <3>2 DEF JobIds
    <3>3. QED
      BY <1>1, <2>1, <3>1, <3>2 DEF TreeStep
  <2>2. QED
    BY <2>1 DEF ScanSeesTasks
<1>8. NoOrphanTask'
  <2>1. ASSUME NEW c \in Children, job'[c].status \in Active
        PROVE  job'[job'[c].parent].status \notin Cancelled
    <3>1. CASE job[c].status \notin Active
      BY <1>1, <2>1, <3>1 DEF TreeStep
    <3>2. CASE job[c].status \in Active
      <4>1. job'[c].parent = job[c].parent
        BY <1>5, <3>2
      <4>2. PICK p : p = job[c].parent
        OBVIOUS
      <4>3. p \in Roots /\ job[p].status \notin Cancelled
        BY <1>1, <3>2, <4>2, StatusSets DEF NoOrphanTask, IInv, TaskRows
      <4>4. job'[p].status \notin Cancelled
        BY <1>1, <2>1, <3>2, <4>2, <4>3 DEF TreeStep
      <4>5. QED
        BY <4>1, <4>2, <4>4
    <3>3. QED
      BY <3>1, <3>2
  <2>2. QED
    BY <2>1 DEF NoOrphanTask
<1>9. QED
  BY <1>3, <1>4, <1>6, <1>7, <1>8 DEF TreeInv

\* Whatever cancels a coordinator leaves none of its tasks active, although
\* the tasks it may find were inserted by transactions that ran meanwhile.
THEOREM NoTaskOrphaned == Spec => []NoOrphanTask
<1>1. TreeInv => NoOrphanTask
  BY DEF TreeInv
<1>2. QED
  BY <1>1, InitTree, NextTree, Inductive, PTL DEF Spec
=============================================================================
