------------------------------ MODULE JobFence ------------------------------
(***************************************************************************)
(* One tracked GitHub issue, the jobs that work on it, and the executors    *)
(* that lease and run them over one PostgreSQL database (READ COMMITTED).   *)
(*                                                                          *)
(* The database enforces the fence: a trigger on jobs rewrites every row    *)
(* that is inserted or updated for a closed issue, for an old generation,   *)
(* or under a cancelled parent; and the row lock of the workflow item       *)
(* serializes closing an issue with remote side effects.  A statement is    *)
(* one action unless it can wait for a lock or be overtaken between the     *)
(* moment it reads and the moment it commits; then it is two.               *)
(***************************************************************************)
EXTENDS Integers, FiniteSets

CONSTANTS
  Workers,        \* worker processes, each with its own lease owner name
  Roots,          \* identifiers of jobs that are leased, in creation order
  Children,       \* identifiers of a coordinator's tasks, never leased
  Plugin,         \* the policy configures a lifecycle plugin
  ObservedStates, \* states a delivery brings: its label, or an earlier read
  NoWorker,       \* the empty lease owner
  MaxEdges,       \* bound: times GitHub closes or reopens the issue
  MaxCrashes      \* bound: worker processes killed

ASSUME JobIdsAssumption ==
  /\ Roots \subseteq Nat \ {0} /\ Children \subseteq Nat \ {0}
  /\ Roots \cap Children = {}
ASSUME WorkersAssumption == NoWorker \notin Workers
ASSUME BoundsAssumption == MaxEdges \in Nat /\ MaxCrashes \in Nat
ASSUME PluginAssumption == Plugin \in BOOLEAN
ASSUME ObservedStatesAssumption ==
  ObservedStates \subseteq {"needs_info", "ready", "in_progress", "pr_open",
                            "needs_human", "blocked"}

JobIds == Roots \cup Children
NoJob == 0
Owners == Workers \cup {NoWorker}

VARIABLES
  wf,        \* the workflow_items row
  job,       \* the jobs table; a row not inserted yet has status "absent"
  draft,     \* rows written by a statement that has not committed
  closing,   \* the observe_issue transaction of a "closed" observation
  proc,      \* the poll loop and the job execution of each worker
  crashes

vars == <<wf, job, draft, closing, proc, crashes>>

-----------------------------------------------------------------------------
(* Rows                                                                      *)

Active == {"waiting", "queued", "leased", "running", "paused"}
Cancelled == {"cancel_requested", "cancelled"}
Settled == {"completed", "failed", "superseded"}
JobStatus == {"absent"} \cup Active \cup Cancelled \cup Settled

States == {"none", "needs_info", "ready", "in_progress", "pr_open",
           "needs_human", "blocked", "finished"}

Roles == {"none", "triage", "developer", "lifecycle", "task"}

\* GitHub's timestamps: the number of times the issue was closed or reopened.
Provider(time) == IF time % 2 = 0 THEN "open" ELSE "closed"
Generations == 1 .. (MaxEdges + 1)

Workflow == [time : 0 .. MaxEdges, gen : Generations, state : States]

Row == [status : JobStatus, gen : 0 .. (MaxEdges + 1), owner : Owners,
        lease : {"none", "live", "expired"}, role : Roles,
        parent : Roots \cup {NoJob}, ckpt : {"none", "open", "completed"},
        launched : BOOLEAN]

Absent == [status |-> "absent", gen |-> 0, owner |-> NoWorker,
           lease |-> "none", role |-> "none", parent |-> NoJob,
           ckpt |-> "none", launched |-> FALSE]

NewRow(status, gen, role, parent) ==
  [Absent EXCEPT !.status = status, !.gen = gen, !.role = role,
                 !.parent = parent]

\* What a statement that has not committed holds: who runs it and its row.
Draft == [by : Owners, row : Row]
NoDraft == [by |-> NoWorker, row |-> Absent]

Closing == [pc : {"idle", "waiting", "scanned"}, time : 0 .. MaxEdges,
            sees : SUBSET JobIds]

PcSet == {"idle", "listed", "queueing", "leased", "working", "lock_wait",
          "effect", "failing", "writing", "write_wait", "spawning",
          "inserting", "ending", "stopped", "down"}

Proc == [pc : PcSet, job : Roots \cup {NoJob}, saw : BOOLEAN,
         target : States]

Idle == [pc |-> "idle", job |-> NoJob, saw |-> FALSE, target |-> "none"]
Down == [Idle EXCEPT !.pc = "down"]

\* An execution that the cancellation monitor watches.
Executing == PcSet \ {"idle", "listed", "queueing", "stopped", "down"}

TypeOK ==
  /\ wf \in Workflow
  /\ job \in [JobIds -> Row]
  /\ draft \in [JobIds -> Draft]
  /\ closing \in Closing
  /\ proc \in [Workers -> Proc]
  /\ crashes \in 0 .. MaxCrashes

-----------------------------------------------------------------------------
(* Locks, the fence and the cancellation test                               *)

Closed == Provider(wf.time) = "closed"

\* The row lock of the workflow item.  It is held across statements by a
\* closing observation and by a remote side effect; every other transaction
\* that takes it is a single action.
WorkflowLocked ==
  \/ closing.pc = "scanned"
  \/ \E w \in Workers : proc[w].pc = "effect"

\* The row lock of a job, held by a statement that has not committed.
RowFree(j) == draft[j] = NoDraft

\* The row may belong to the workflow as it stands.
Current(row) == ~Closed /\ row.gen = wf.gen

Stopped(row) == IF row.status = "running" THEN "cancel_requested"
                                          ELSE "cancelled"

ParentFenced(row) ==
  row.parent # NoJob /\ job[row.parent].status \in Cancelled

Drop(row, status) ==
  [row EXCEPT !.status = status, !.owner = NoWorker, !.lease = "none"]

\* Mutant of fence_workflow_job: a cancelled row may be rewritten.
FenceForgetsCancelled(old, new) ==
  IF ParentFenced(new) \/ (new.status \in Active /\ ~Current(new))
  THEN Drop(new, Stopped(old)) ELSE new

\* Mutant of fence_workflow_job: the issue and its generation are not read.
FenceIgnoresWorkflow(old, new) ==
  CASE old.status \in Cancelled ->
         [new EXCEPT !.status =
            IF new.status = "cancelled" THEN "cancelled" ELSE old.status]
    [] old.status \notin Cancelled /\ ParentFenced(new) ->
         Drop(new, Stopped(old))
    [] OTHER -> new

\* The trigger: what is stored when `new` is to replace `old`.
fence_workflow_job(old, new) ==
  CASE old.status \in Cancelled ->
         [new EXCEPT !.status =
            IF new.status = "cancelled" THEN "cancelled" ELSE old.status]
    [] old.status \notin Cancelled /\
         (ParentFenced(new) \/ (new.status \in Active /\ ~Current(new))) ->
         Drop(new, Stopped(old))
    [] OTHER -> new

Update(j, new) ==
  job' = [job EXCEPT ![j] = fence_workflow_job(job[j], new)]

job_execution_allowed(j) ==
  job[j].status \notin Cancelled /\ Current(job[j])

active_job_exists ==
  \E j \in JobIds : job[j].status \in {"queued", "leased", "running"}

Unused(j) == job[j].status = "absent" /\ RowFree(j)

\* UUIDs are issued in creation order.
NextRoot(j) == j \in Roots /\ Unused(j) /\ \A k \in Roots : Unused(k) => j <= k

-----------------------------------------------------------------------------
(* Observing the issue on GitHub (webhook or polling)                       *)

\* Mutant of ObserveOpen: every open observation starts a generation.
ObserveOpenAnew(t) ==
  /\ Provider(t) = "open" /\ t >= wf.time
  /\ ~WorkflowLocked
  /\ wf' = [time |-> t, gen |-> wf.gen + 1, state |-> "none"]
  /\ UNCHANGED <<job, draft, closing, proc, crashes>>

\* observe_issue for an open issue.  An older timestamp is ignored; the first
\* open observation after a closed one starts a new generation.
ObserveOpen(t) ==
  /\ Provider(t) = "open" /\ t >= wf.time
  /\ ~WorkflowLocked
  /\ IF Closed
     THEN wf' = [time |-> t, gen |-> wf.gen + 1, state |-> "none"]
     ELSE \E s \in ObservedStates \cup {wf.state} :
            wf' = [wf EXCEPT !.time = t, !.state = s]
  /\ UNCHANGED <<job, draft, closing, proc, crashes>>

\* observe_issue for a closed issue: the transaction begins, ...
BeginClosing(t) ==
  /\ Provider(t) = "closed"
  /\ closing.pc = "idle"
  /\ closing' = [pc |-> "waiting", time |-> t, sees |-> {}]
  /\ UNCHANGED <<wf, job, draft, proc, crashes>>

\* Mutant of LockForClosing: an older observation is not ignored.
LockForAnyClosing ==
  /\ closing.pc = "waiting"
  /\ ~WorkflowLocked
  /\ closing' = [closing EXCEPT !.pc = "scanned",
                    !.sees = {j \in JobIds : job[j].status \in Active}]
  /\ UNCHANGED <<wf, job, draft, proc, crashes>>

\* ... gets the row lock, and its UPDATE of jobs sees the committed rows ...
LockForClosing ==
  /\ closing.pc = "waiting"
  /\ ~WorkflowLocked
  /\ closing' = IF closing.time < wf.time
                THEN [closing EXCEPT !.pc = "idle"]
                ELSE [closing EXCEPT !.pc = "scanned",
                        !.sees = {j \in JobIds : job[j].status \in Active}]
  /\ UNCHANGED <<wf, job, draft, proc, crashes>>

\* ... and commits.  A row it saw is tested again in its latest version; a row
\* another statement inserted or reactivated in between is missed.
CommitClosing ==
  /\ closing.pc = "scanned"
  /\ wf' = [wf EXCEPT !.time = closing.time, !.state = "finished"]
  /\ job' = [j \in JobIds |->
               IF j \in closing.sees /\ job[j].status \in Active
               THEN [job[j] EXCEPT !.status = Stopped(job[j])]
               ELSE job[j]]
  /\ closing' = [closing EXCEPT !.pc = "idle", !.sees = {}]
  /\ UNCHANGED <<draft, proc, crashes>>

-----------------------------------------------------------------------------
(* Creating and requeueing jobs                                             *)

\* A statement whose trigger has run and that has not committed.
Write(j, by, new) ==
  draft' = [draft EXCEPT ![j] =
              [by |-> by, row |-> fence_workflow_job(job[j], new)]]

InitialRole == IF Plugin THEN "lifecycle" ELSE "triage"

Resumable(j) ==
  \/ job[j].status = "paused"
  \/ /\ job[j].status = "failed" /\ job[j].role = "lifecycle"
     /\ job[j].ckpt = "open"

AwaitsHuman == wf.state \in {"needs_info", "needs_human"}

\* The admission transaction of a delivery, under the row lock: it resumes the
\* paused coordinator under its own UUID ...
resume_latest_paused_job(j) ==
  /\ ~WorkflowLocked /\ ~Closed
  /\ AwaitsHuman \/ wf.state = "blocked"
  /\ ~active_job_exists
  /\ j \in Roots /\ RowFree(j) /\ Resumable(j)
  /\ Update(j, Drop(job[j], "queued"))
  /\ UNCHANGED <<wf, draft, closing, proc, crashes>>

\* ... or queues a new job.
Intake(j) ==
  /\ ~WorkflowLocked /\ ~Closed
  /\ ~active_job_exists
  /\ AwaitsHuman => \A k \in Roots : job[k].status # "paused"
  /\ NextRoot(j)
  /\ Update(j, NewRow("queued", wf.gen, InitialRole, NoJob))
  /\ UNCHANGED <<wf, draft, closing, proc, crashes>>

\* POST retry of a failed job: a coordinator with a checkpoint is requeued
\* under the row lock, ...
retry_failed(j) ==
  /\ ~WorkflowLocked
  /\ ~active_job_exists
  /\ j \in Roots /\ RowFree(j)
  /\ job[j].status = "failed" /\ job[j].ckpt = "open"
  /\ job_execution_allowed(j)
  /\ Update(j, Drop(job[j], "queued"))
  /\ UNCHANGED <<wf, draft, closing, proc, crashes>>

\* ... any other job is copied with its input, which names its generation.
BeginRetry(k, j) ==
  /\ k \in Roots /\ job[k].status = "failed" /\ job[k].ckpt = "none"
  /\ NextRoot(j)
  /\ Write(j, NoWorker, NewRow("queued", job[k].gen, job[k].role, NoJob))
  /\ UNCHANGED <<wf, job, closing, proc, crashes>>

\* POST retry of failed synchronization requeues its coordinator.
requeue_failed_job(j) ==
  /\ Plugin
  /\ j \in Roots /\ RowFree(j) /\ job[j].status = "failed"
  /\ Write(j, NoWorker, [job[j] EXCEPT !.status = "queued"])
  /\ UNCHANGED <<wf, job, closing, proc, crashes>>

\* The worker's poll looks for a ready issue without a developer job ...
list_ready_developer_candidates(w) ==
  /\ ~Plugin
  /\ proc[w].pc = "idle"
  /\ wf.state = "ready" /\ ~Closed
  /\ \A k \in Roots : job[k].role = "developer" =>
                        job[k].status \notin {"queued", "leased", "running"}
  /\ \E j \in Roots :
       /\ job[j].role = "triage" /\ job[j].status = "completed"
       /\ job[j].gen = wf.gen
       /\ proc' = [proc EXCEPT ![w] = [Idle EXCEPT !.pc = "listed",
                                                   !.job = j]]
  /\ UNCHANGED <<wf, job, draft, closing, crashes>>

\* ... and queues one from the triage input.
QueueReady(w, j) ==
  /\ proc[w].pc = "listed"
  /\ NextRoot(j)
  /\ Write(j, w, NewRow("queued", job[proc[w].job].gen, "developer", NoJob))
  /\ proc' = [proc EXCEPT ![w].pc = "queueing"]
  /\ UNCHANGED <<wf, job, closing, crashes>>

\* A triage that found the issue ready queues the developer job, also when its
\* own completion was refused.
SpawnDeveloper(w, j) ==
  /\ proc[w].pc = "spawning"
  /\ NextRoot(j)
  /\ Write(j, w, NewRow("queued", job[proc[w].job].gen, "developer", NoJob))
  /\ proc' = [proc EXCEPT ![w].pc = "inserting"]
  /\ UNCHANGED <<wf, job, closing, crashes>>

\* Bound: no identifier is left for the job that would be queued.
NoRootLeft(w) ==
  /\ proc[w].pc \in {"listed", "spawning"}
  /\ \A j \in Roots : ~Unused(j)
  /\ proc' = [proc EXCEPT ![w] = IF @.pc = "listed" THEN Idle
                                 ELSE [@ EXCEPT !.pc = "ending"]]
  /\ UNCHANGED <<wf, job, draft, closing, crashes>>

CommitDraft(j) ==
  /\ ~RowFree(j)
  /\ job' = [job EXCEPT ![j] = draft[j].row]
  /\ draft' = [draft EXCEPT ![j] = NoDraft]
  /\ proc' = [w \in Workers |->
                CASE draft[j].by = w /\ proc[w].pc = "inserting" ->
                       [proc[w] EXCEPT !.pc = "ending"]
                  [] draft[j].by = w /\ proc[w].pc = "queueing" -> Idle
                  [] OTHER -> proc[w]]
  /\ UNCHANGED <<wf, closing, crashes>>

-----------------------------------------------------------------------------
(* Leasing a job and starting it                                            *)

Goto(w, pc) == proc' = [proc EXCEPT ![w].pc = pc]

\* Mutant of acquire_next_queued_job: an expired lease is handed on.
AcquireExpired(w) ==
  /\ proc[w].pc = "idle"
  /\ \E j \in Roots :
       /\ job[j].status = "queued" \/ job[j].lease = "expired"
       /\ LET row == fence_workflow_job(job[j],
                       [job[j] EXCEPT !.status = "leased", !.owner = w,
                                      !.lease = "live"])
          IN /\ job' = [job EXCEPT ![j] = row]
             /\ proc' = [proc EXCEPT ![w] =
                           IF row.owner = w
                           THEN [Idle EXCEPT !.pc = "leased", !.job = j]
                           ELSE Down]
  /\ UNCHANGED <<wf, draft, closing, crashes>>

\* The oldest queued job.  When the fence cancels the row instead of leasing
\* it, the execution has no lease owner, and the error ends the process.
acquire_next_queued_job(w) ==
  /\ proc[w].pc = "idle"
  /\ \E j \in Roots :
       /\ job[j].status = "queued"
       /\ \A k \in Roots : k < j => job[k].status # "queued"
       /\ LET row == fence_workflow_job(job[j],
                       [job[j] EXCEPT !.status = "leased", !.owner = w,
                                      !.lease = "live"])
          IN /\ job' = [job EXCEPT ![j] = row]
             /\ proc' = [proc EXCEPT ![w] =
                           IF row.owner = w
                           THEN [Idle EXCEPT !.pc = "leased", !.job = j]
                           ELSE Down]
  /\ UNCHANGED <<wf, draft, closing, crashes>>

mark_job_running(w) ==
  LET j == proc[w].job
      row == fence_workflow_job(job[j], [job[j] EXCEPT !.status = "running"])
      leased == job[j].status = "leased" /\ job[j].lease = "live"
  IN /\ proc[w].pc = "leased"
     /\ job' = IF leased THEN [job EXCEPT ![j] = row] ELSE job
     /\ proc' = [proc EXCEPT ![w] =
          IF ~(leased /\ row.status = "running")
          THEN [proc[w] EXCEPT !.pc = "ending"]
          ELSE IF row.role = "triage"
          THEN [proc[w] EXCEPT !.pc = "working"]
          ELSE [proc[w] EXCEPT !.pc = "writing", !.target = "in_progress"]]
     /\ UNCHANGED <<wf, draft, closing, crashes>>

-----------------------------------------------------------------------------
(* What an execution does                                                   *)

\* A push, a pull request or a projection: lock_job_side_effect reads the job
\* in the snapshot of its statement ...
BeginSideEffect(w) ==
  /\ proc[w].pc = "working"
  /\ proc' = [proc EXCEPT ![w].pc = "lock_wait",
                          ![w].saw = job[proc[w].job].status \notin Cancelled]
  /\ UNCHANGED <<wf, job, draft, closing, crashes>>

\* Mutant of lock_job_side_effect: the workflow item is not read again.
LockWithoutRecheck(w) ==
  /\ proc[w].pc = "lock_wait"
  /\ ~WorkflowLocked
  /\ Goto(w, IF proc[w].saw THEN "effect" ELSE "working")
  /\ UNCHANGED <<wf, job, draft, closing, crashes>>

\* ... and the workflow item again once it has its row lock.
lock_job_side_effect(w) ==
  /\ proc[w].pc = "lock_wait"
  /\ ~WorkflowLocked
  /\ Goto(w, IF proc[w].saw /\ Current(job[proc[w].job])
             THEN "effect" ELSE "working")
  /\ UNCHANGED <<wf, job, draft, closing, crashes>>

\* A projection removes a work item that the accepted plan dropped.
supersede_job(w, c) ==
  /\ proc[w].pc = "effect"
  /\ c \in Children /\ RowFree(c) /\ job[c].parent = proc[w].job
  /\ job[c].status \in {"waiting", "queued"}
  /\ Update(c, Drop(job[c], "superseded"))
  /\ UNCHANGED <<wf, draft, closing, proc, crashes>>

\* Mutant of EndSideEffect: no deadline, a hung call ends with its execution.
EndWhenCancelled(w) ==
  /\ proc[w].pc = "effect"
  /\ ~job_execution_allowed(proc[w].job)
  /\ Goto(w, "working")
  /\ UNCHANGED <<wf, job, draft, closing, crashes>>

\* The remote call returned, failed, or ran into its 60 seconds.
EndSideEffect(w) ==
  /\ proc[w].pc = "effect"
  /\ Goto(w, "working")
  /\ UNCHANGED <<wf, job, draft, closing, crashes>>

OwnsRunningLease(w, j) ==
  job[j].status = "running" /\ job[j].owner = w /\ job[j].lease = "live"

\* A container launch is recorded before any Docker command is issued.
register_container_execution(w) ==
  LET j == proc[w].job
  IN /\ proc[w].pc = "working"
     /\ ~WorkflowLocked /\ RowFree(j)
     /\ OwnsRunningLease(w, j) /\ Current(job[j])
     /\ job' = [job EXCEPT ![j].launched = TRUE]
     /\ UNCHANGED <<wf, draft, closing, proc, crashes>>

\* What one checkpoint may do to a task: insert it, start it, finish it, or
\* withdraw it.
ChildMoves ==
  {<<"absent", "absent">>, <<"absent", "waiting">>, <<"absent", "running">>,
   <<"waiting", "running">>, <<"waiting", "superseded">>,
   <<"running", "completed">>, <<"running", "failed">>,
   <<"completed", "superseded">>, <<"failed", "superseded">>}

ChildEffects(j) ==
  {next \in [Children -> JobStatus] : \A c \in Children :
     \/ next[c] = job[c].status
     \/ /\ job[c].parent \in {j, NoJob}
        /\ <<job[c].status, next[c]>> \in ChildMoves}

Checkpointed(k, j, next, ckpt, outcome) ==
  CASE k \in Children /\ job[k].status # next[k] ->
         [job[k] EXCEPT !.status = next[k], !.parent = j,
                        !.gen = job[j].gen, !.role = "task"]
    [] k = j /\ outcome # "none" ->
         [Drop(job[j], "paused") EXCEPT !.ckpt = ckpt]
    [] k = j /\ outcome = "none" -> [job[j] EXCEPT !.ckpt = ckpt]
    [] OTHER -> job[k]

\* lifecycle_checkpoints::save: the tasks, the checkpoint and a pause for a
\* human change in one transaction under both row locks.
save_checkpoint(w) ==
  LET j == proc[w].job
  IN /\ proc[w].pc = "working" /\ job[j].role = "lifecycle"
     /\ ~WorkflowLocked /\ RowFree(j)
     /\ OwnsRunningLease(w, j) /\ Current(job[j])
     /\ job[j].ckpt # "completed"
     /\ \E next \in ChildEffects(j), ckpt \in {"open", "completed"},
           outcome \in {"none", "needs_info", "needs_human"} :
          /\ ckpt = "completed" => outcome = "none"
          /\ job' = [k \in JobIds |->
                       Checkpointed(k, j, next, ckpt, outcome)]
          /\ IF outcome = "none" THEN UNCHANGED <<wf, proc>>
             ELSE /\ wf' = [wf EXCEPT !.state = outcome]
                  /\ Goto(w, "ending")
     /\ UNCHANGED <<draft, closing, crashes>>

\* The workflow states that the completion of a job of this role leads to.
CompletedStates(role) ==
  CASE role = "triage" -> {"ready", "needs_info", "needs_human", "blocked"}
    [] role = "developer" -> {"pr_open", "needs_info", "needs_human", "blocked"}
    [] OTHER -> {"pr_open", "blocked"}

\* complete_job touches a running row only, and the caller ignores whether it
\* did.
complete_job(w) ==
  LET j == proc[w].job
  IN /\ proc[w].pc = "working" /\ RowFree(j)
     /\ IF job[j].status = "running"
        THEN Update(j, Drop(job[j], "completed")) ELSE UNCHANGED job
     /\ \E s \in CompletedStates(job[j].role) :
          proc' = [proc EXCEPT ![w].pc = "writing", ![w].target = s]
     /\ UNCHANGED <<wf, draft, closing, crashes>>

\* A failed coordinator first fails its unfinished tasks.
fail_active_plugin_child_jobs(w) ==
  /\ proc[w].pc = "working" /\ job[proc[w].job].role = "lifecycle"
  /\ job' = [k \in JobIds |->
               IF job[k].parent = proc[w].job /\ job[k].status \in Active
               THEN fence_workflow_job(job[k], Drop(job[k], "failed"))
               ELSE job[k]]
  /\ Goto(w, "failing")
  /\ UNCHANGED <<wf, draft, closing, crashes>>

\* fail_job tests neither the status nor the owner of the row.
fail_job(w) ==
  LET j == proc[w].job
  IN /\ proc[w].pc \in {"working", "failing"} /\ RowFree(j)
     /\ Update(j, Drop(job[j], "failed"))
     /\ proc' = [proc EXCEPT ![w].pc = "writing", ![w].target = "blocked"]
     /\ UNCHANGED <<wf, draft, closing, crashes>>

\* update_workflow_state_for_job is one UPDATE of the workflow item: its
\* snapshot shows the job ...
BeginStateWrite(w) ==
  /\ proc[w].pc = "writing"
  /\ proc' = [proc EXCEPT ![w].pc = "write_wait",
                          ![w].saw = job[proc[w].job].status \notin Cancelled]
  /\ UNCHANGED <<wf, job, draft, closing, crashes>>

\* Mutant of update_workflow_state_for_job: only the job's status is tested.
WriteStateUnfenced(w) ==
  /\ proc[w].pc = "write_wait"
  /\ ~WorkflowLocked
  /\ wf' = IF proc[w].saw THEN [wf EXCEPT !.state = proc[w].target] ELSE wf
  /\ Goto(w, IF proc[w].target = "in_progress" THEN "working"
             ELSE IF proc[w].target = "ready" THEN "spawning" ELSE "ending")
  /\ UNCHANGED <<job, draft, closing, crashes>>

\* ... and the row itself is read again after waiting for its lock.
update_workflow_state_for_job(w) ==
  /\ proc[w].pc = "write_wait"
  /\ ~WorkflowLocked
  /\ wf' = IF proc[w].saw /\ Current(job[proc[w].job])
           THEN [wf EXCEPT !.state = proc[w].target] ELSE wf
  /\ Goto(w, IF proc[w].target = "in_progress" THEN "working"
             ELSE IF proc[w].target = "ready" THEN "spawning" ELSE "ending")
  /\ UNCHANGED <<job, draft, closing, crashes>>

-----------------------------------------------------------------------------
(* The cancellation monitor and the end of an execution                     *)

\* A statement outlives the client that sent it.
Orphaned(w) ==
  [j \in JobIds |-> IF draft[j].by = w
                    THEN [draft[j] EXCEPT !.by = NoWorker] ELSE draft[j]]

HeartbeatMatches(w, j) ==
  /\ job[j].owner = w /\ job[j].status \in {"leased", "running"}
  /\ job[j].lease = "live"

heartbeat_job(w) ==
  /\ proc[w].pc \in Executing
  /\ RowFree(proc[w].job) /\ HeartbeatMatches(w, proc[w].job)
  /\ Update(proc[w].job, job[proc[w].job])
  /\ UNCHANGED <<wf, draft, closing, proc, crashes>>

\* The monitor drops the execution: its open transaction rolls back, and its
\* processes are reaped before the next step.
MonitorStop(w) ==
  /\ proc[w].pc \in Executing
  /\ LET j == proc[w].job
     IN \/ ~job_execution_allowed(j)
        \/ /\ ~HeartbeatMatches(w, j)
           /\ job[j].status \notin {"completed", "failed", "paused"}
  /\ Goto(w, "stopped")
  /\ draft' = Orphaned(w)
  /\ UNCHANGED <<wf, job, closing, crashes>>

\* finish_job_cancellation covers the job and its tasks.
CancellationFinished(j) ==
  [k \in JobIds |->
     IF (k = j \/ job[k].parent = j) /\ job[k].status = "cancel_requested"
     THEN Drop(job[k], "cancelled") ELSE job[k]]

\* Mutant of EndExecution: the cancellation is not acknowledged.
EndUnacknowledged(w) ==
  /\ proc[w].pc \in {"ending", "stopped"}
  /\ proc' = [proc EXCEPT ![w] = Idle]
  /\ UNCHANGED <<wf, job, draft, closing, crashes>>

\* After the execution ended or was stopped.  Stopped while still allowed, it
\* lost its lease or the database, and the error ends the process.
EndExecution(w) ==
  /\ proc[w].pc \in {"ending", "stopped"}
  /\ IF job_execution_allowed(proc[w].job)
     THEN /\ proc' = [proc EXCEPT ![w] = IF @.pc = "ending" THEN Idle ELSE Down]
          /\ UNCHANGED job
     ELSE /\ job' = CancellationFinished(proc[w].job)
          /\ proc' = [proc EXCEPT ![w] = Idle]
  /\ UNCHANGED <<wf, draft, closing, crashes>>

Crash(w) ==
  /\ proc[w].pc # "down" /\ crashes < MaxCrashes
  /\ crashes' = crashes + 1
  /\ proc' = [proc EXCEPT ![w] = Down]
  /\ draft' = Orphaned(w)
  /\ UNCHANGED <<wf, job, closing>>

Restart(w) ==
  /\ proc[w].pc = "down"
  /\ proc' = [proc EXCEPT ![w] = Idle]
  /\ UNCHANGED <<wf, job, draft, closing, crashes>>

-----------------------------------------------------------------------------
(* Expired leases                                                           *)

\* The recovery task is part of every worker process.
SomeWorkerUp == \E w \in Workers : proc[w].pc # "down"

ExpireLease(j) ==
  /\ job[j].lease = "live"
  /\ job' = [job EXCEPT ![j].lease = "expired"]
  /\ UNCHANGED <<wf, draft, closing, proc, crashes>>

\* Mutant of fence_expired_jobs: the tasks of the coordinator are left alone.
FenceCoordinatorOnly(j) ==
  /\ SomeWorkerUp
  /\ j \in Roots /\ job[j].status \in {"leased", "running"}
  /\ job[j].lease # "live"
  /\ ~WorkflowLocked /\ RowFree(j)
  /\ job' = [job EXCEPT ![j].status = Stopped(job[j])]
  /\ wf' = IF Current(job[j]) THEN [wf EXCEPT !.state = "needs_human"] ELSE wf
  /\ UNCHANGED <<draft, closing, proc, crashes>>

\* The recovery pass fences a job whose lease expired; it skips locked rows.
fence_expired_jobs(j) ==
  /\ SomeWorkerUp
  /\ j \in Roots /\ job[j].status \in {"leased", "running"}
  /\ job[j].lease # "live"
  /\ ~WorkflowLocked /\ RowFree(j)
  /\ job' = [k \in JobIds |->
       CASE k = j -> [job[j] EXCEPT !.status = Stopped(job[j])]
         [] job[k].parent = j /\ job[k].status \in Active ->
              Drop(job[k], Stopped(job[k]))
         [] OTHER -> job[k]]
  /\ wf' = IF Current(job[j]) THEN [wf EXCEPT !.state = "needs_human"] ELSE wf
  /\ UNCHANGED <<draft, closing, proc, crashes>>

\* A crashed coordinator is acknowledged once its containers were seen removed
\* (the observations themselves are not part of this module).
finish_recovered_jobs(j) ==
  /\ SomeWorkerUp
  /\ j \in Roots /\ job[j].status = "cancel_requested"
  /\ job[j].lease # "live" /\ job[j].launched
  /\ job' = CancellationFinished(j)
  /\ UNCHANGED <<wf, draft, closing, proc, crashes>>

-----------------------------------------------------------------------------
(* Specification                                                            *)

Init ==
  /\ wf = [time |-> 0, gen |-> 1, state |-> "none"]
  /\ job = [j \in JobIds |-> Absent]
  /\ draft = [j \in JobIds |-> NoDraft]
  /\ closing = [pc |-> "idle", time |-> 0, sees |-> {}]
  /\ proc = [w \in Workers |-> Idle]
  /\ crashes = 0

Github ==
  \/ \E t \in 0 .. MaxEdges : ObserveOpen(t) \/ BeginClosing(t)
  \/ LockForClosing
  \/ CommitClosing

Requests(j) ==
  \/ resume_latest_paused_job(j)
  \/ Intake(j)
  \/ retry_failed(j)
  \/ \E k \in Roots : BeginRetry(k, j)
  \/ requeue_failed_job(j)
  \/ CommitDraft(j)

Recovery(j) ==
  \/ ExpireLease(j)
  \/ fence_expired_jobs(j)
  \/ finish_recovered_jobs(j)

Poll(w) ==
  \/ list_ready_developer_candidates(w)
  \/ \E j \in Roots : QueueReady(w, j)
  \/ NoRootLeft(w)
  \/ acquire_next_queued_job(w)

Execute(w) ==
  \/ mark_job_running(w)
  \/ BeginSideEffect(w)
  \/ lock_job_side_effect(w)
  \/ \E c \in Children : supersede_job(w, c)
  \/ EndSideEffect(w)
  \/ register_container_execution(w)
  \/ save_checkpoint(w)
  \/ complete_job(w)
  \/ fail_active_plugin_child_jobs(w)
  \/ fail_job(w)
  \/ BeginStateWrite(w)
  \/ update_workflow_state_for_job(w)
  \/ \E j \in Roots : SpawnDeveloper(w, j)

Supervise(w) ==
  \/ heartbeat_job(w)
  \/ MonitorStop(w)
  \/ EndExecution(w)
  \/ Crash(w)
  \/ Restart(w)

Next ==
  \/ Github
  \/ \E j \in Roots : Requests(j)
  \/ \E j \in Roots : Recovery(j)
  \/ \E w \in Workers : Poll(w) \/ Execute(w) \/ Supervise(w)

Spec == Init /\ [][Next]_vars

-----------------------------------------------------------------------------
(* Safety                                                                    *)

\* While a remote side effect is in progress the issue is open and its
\* generation is that of the job: closing or reopening waits for the effect
\* ("a side effect admitted before closure finishes before closure commits").
EffectFenced ==
  \A w \in Workers : proc[w].pc = "effect" => Current(job[proc[w].job])

\* Whatever executors, recovery and admissions still write, a closed workflow
\* stays finished: late state writes must lose against the closing transaction.
ClosedIsFinished == Closed => wf.state = "finished"

\* An executor that has not reported an outcome has its job to itself, or the
\* job is fenced.  This is why fail_job may do without a test of the owner:
\* a job that was requeued is never still being worked on by a former owner.
RunsOwnJob ==
  \A w \in Workers :
    proc[w].pc \in {"working", "lock_wait", "effect", "failing"} =>
      \/ job[proc[w].job].status \in Cancelled
      \/ job[proc[w].job].status = "running" /\ job[proc[w].job].owner = w

\* Fencing a coordinator, by closing or by lease expiry, reaches every task a
\* checkpoint of its former owner may have inserted or started meanwhile.
NoOrphanTask ==
  \A c \in Children : job[c].status \in Active =>
                        job[job[c].parent].status \notin Cancelled

-----------------------------------------------------------------------------
(* What a step may never do                                                 *)

\* A cancellation is never undone, not by the unguarded fail_job of a stalled
\* former owner, a retry, a resume or a late heartbeat.
CancelIsFinal ==
  [][\A j \in JobIds : job[j].status \in Cancelled =>
       \/ job'[j].status = job[j].status
       \/ job'[j].status = "cancelled"]_vars

\* A job is leased or started only for the open issue and its generation, even
\* when it was queued by a statement that raced with closing or reopening.
DispatchesCurrentWork ==
  [][\A j \in JobIds :
       /\ job[j].status \notin {"leased", "running"}
       /\ job'[j].status \in {"leased", "running"}
       => ~Closed /\ job'[j].gen = wf.gen]_vars

\* Observations that arrive late or twice never turn the workflow back: time
\* and generation only grow, and a generation ends only by a reopening.
ObservedInOrder ==
  [][/\ wf'.time >= wf.time
     /\ wf'.gen \in {wf.gen, wf.gen + 1}
     /\ wf'.gen # wf.gen <=> Closed /\ Provider(wf'.time) = "open"]_vars

-----------------------------------------------------------------------------
(* Fairness and liveness                                                    *)

\* An execution ends by itself: every agent command and remote call has a
\* time limit.
FinishWork(w) == complete_job(w) \/ fail_job(w)

\* The lease of a job nobody executes runs out.
ExpireAbandoned(j) ==
  /\ \A w \in Workers : proc[w].pc \in Executing => proc[w].job # j
  /\ ExpireLease(j)

\* PostgreSQL queues the waiters for a row lock in order, and the recovery
\* pass that skips a locked row comes back every five seconds: strong fairness
\* for what needs the row lock of the workflow item, weak for the rest.
Fairness ==
  /\ SF_vars(LockForClosing) /\ WF_vars(CommitClosing)
  /\ \A j \in Roots : /\ WF_vars(CommitDraft(j))
                      /\ WF_vars(ExpireAbandoned(j))
                      /\ SF_vars(fence_expired_jobs(j))
  /\ \A w \in Workers :
       /\ WF_vars(NoRootLeft(w))
       /\ WF_vars(\E j \in Roots : QueueReady(w, j) \/ SpawnDeveloper(w, j))
       /\ SF_vars(acquire_next_queued_job(w))
       /\ WF_vars(mark_job_running(w))
       /\ SF_vars(lock_job_side_effect(w)) /\ WF_vars(EndSideEffect(w))
       /\ SF_vars(FinishWork(w)) /\ WF_vars(BeginStateWrite(w))
       /\ SF_vars(update_workflow_state_for_job(w))
       /\ WF_vars(MonitorStop(w)) /\ WF_vars(EndExecution(w))

FairSpec == Spec /\ Fairness

\* A closing observation that waits for admitted side effects gets its turn.
ClosingLands == closing.pc = "waiting" ~> closing.pc = "idle"

\* A worker executing a job that was asked to stop acknowledges it, unless the
\* process ends first.
CancellationAcknowledged ==
  \A j \in Roots, w \in Workers :
    /\ job[j].status = "cancel_requested"
    /\ proc[w].job = j /\ proc[w].pc \in Executing \cup {"stopped"}
    ~> job[j].status = "cancelled" \/ proc[w].pc = "down"

=============================================================================
