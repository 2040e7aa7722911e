-------------------------------- MODULE Outbox --------------------------------
(***************************************************************************)
(* The outbound_actions of one tracked issue: label changes, comments and   *)
(* the status comment that jobs and the API queue, the label cleanup that   *)
(* closing queues, and the loops that deliver them to GitHub.               *)
(*                                                                          *)
(* The workflow and its jobs appear with what the outbox reads of them; how *)
(* they come to be is the subject of JobFence.  As there, a statement whose *)
(* trigger reads the workflow before it commits is two actions.             *)
(***************************************************************************)
EXTENDS Integers, FiniteSets

CONSTANTS
  Loops,       \* delivery loops and executors that deliver what they queued
  Actions,     \* identifiers of outbound actions, in creation order
  Jobs,
  NoJob,       \* the empty job_id
  RetryLimit,  \* failed attempts after which a cleanup is given up (8)
  MaxEdges,    \* bound: times the issue is closed or reopened
  MaxRevision, \* bound: status comments composed
  MaxCrashes,  \* bound: deliveries lost with their process or connection
  MaxTimeouts  \* bound: requests that outlive their 60 seconds

ASSUME ActionsAssumption == Actions \subseteq Nat \ {0}
ASSUME JobsAssumption == NoJob \notin Jobs
ASSUME LimitsAssumption ==
  /\ RetryLimit \in Nat \ {0} /\ MaxEdges \in Nat /\ MaxRevision \in Nat
  /\ MaxCrashes \in Nat /\ MaxTimeouts \in Nat

NoAction == 0

VARIABLES
  wf,       \* the workflow_items row: provider state and generation
  job,      \* status and generation of the jobs that queue actions
  action,   \* the outbound_actions table
  draft,    \* rows written by a statement that has not committed
  loop,     \* what each loop delivers
  github,   \* the issue: a state label, the status comment, requests done
  late,     \* requests whose caller gave up waiting for them
  edges, revision, crashes, timeouts

bounds == <<edges, revision, crashes, timeouts>>
vars == <<wf, job, action, draft, loop, github, late, bounds>>

-----------------------------------------------------------------------------
(* Rows and the fence                                                        *)

Generations == 1 .. (MaxEdges + 1)
ActionStatus == {"absent", "pending", "completed", "failed", "cancelled"}
Kinds == {"label", "comment", "status", "cleanup"}

JobRow == [status : {"absent", "active", "done", "cancelled"},
           gen : Generations \cup {0}]

Row == [status : ActionStatus, gen : Generations \cup {0},
        job : Jobs \cup {NoJob}, kind : Kinds, rev : 0 .. MaxRevision,
        tries : 0 .. RetryLimit, denied : BOOLEAN]

Absent == [status |-> "absent", gen |-> 0, job |-> NoJob, kind |-> "label",
           rev |-> 0, tries |-> 0, denied |-> FALSE]

\* The statement that holds a row: none, an insert or an update.
Draft == [by : {"none", "insert", "update"}, row : Row]
NoDraft == [by |-> "none", row |-> Absent]

Loop == [pc : {"idle", "waiting", "sending"}, at : Actions \cup {NoAction},
         saw : BOOLEAN, landed : BOOLEAN]
Idle == [pc |-> "idle", at |-> NoAction, saw |-> FALSE, landed |-> FALSE]

Request == [at : Actions, kind : Kinds, rev : 0 .. MaxRevision]

TypeOK ==
  /\ wf \in [open : BOOLEAN, gen : Generations]
  /\ job \in [Jobs -> JobRow]
  /\ action \in [Actions -> Row]
  /\ draft \in [Actions -> Draft]
  /\ loop \in [Loops -> Loop]
  /\ github \in [labelled : BOOLEAN, shown : 0 .. MaxRevision,
                 done : [Actions -> Nat]]
  /\ late \subseteq Request
  /\ edges \in 0 .. MaxEdges /\ revision \in 0 .. MaxRevision
  /\ crashes \in 0 .. MaxCrashes /\ timeouts \in 0 .. MaxTimeouts

ClosureCleanup(row) == row.job = NoJob /\ row.kind = "cleanup"

JobCancelled(j) == j # NoJob /\ job[j].status = "cancelled"

Fenced(row) ==
  \/ row.gen # wf.gen
  \/ JobCancelled(row.job)
  \/ ~wf.open /\ ~ClosureCleanup(row)

\* The trigger on a row that is inserted or updated.
fence_workflow_outbound(row) ==
  IF row.status = "pending" /\ Fenced(row)
  THEN [row EXCEPT !.status = "cancelled"] ELSE row

\* An insert stamps the generation of its job, or else of the workflow.
NewRow(kind, j, rev) ==
  fence_workflow_outbound(
    [Absent EXCEPT !.status = "pending", !.kind = kind, !.job = j,
                   !.rev = rev,
                   !.gen = IF j = NoJob THEN wf.gen ELSE job[j].gen])

-----------------------------------------------------------------------------
(* Locks                                                                     *)

RowFree(a) == draft[a] = NoDraft

Sending(a) == \E l \in Loops : loop[l].pc = "sending" /\ loop[l].at = a

\* A delivery holds the row lock of the workflow item across the request.
WorkflowLocked == \E l \in Loops : loop[l].pc = "sending"

\* A statement that updates the pending rows in S waits for those that others
\* have written and not committed.
Writable(S) == \A a \in S : action[a].status = "pending" => RowFree(a)

Unused(a) == action[a].status = "absent" /\ RowFree(a)
NextAction(a) == Unused(a) /\ \A b \in Actions : Unused(b) => a <= b

Cancel(S) ==
  [a \in Actions |-> IF a \in S /\ action[a].status = "pending"
                     THEN [action[a] EXCEPT !.status = "cancelled"]
                     ELSE action[a]]

-----------------------------------------------------------------------------
(* The workflow and its jobs                                                 *)

Spared == {a \in Actions : ClosureCleanup(action[a])}

\* observe_issue of a closed issue: what is pending is cancelled but for an
\* earlier cleanup, and the removal of the state labels is queued.
Close ==
  /\ wf.open /\ edges < MaxEdges
  /\ ~WorkflowLocked /\ Writable(Actions \ Spared)
  /\ wf' = [wf EXCEPT !.open = FALSE]
  /\ edges' = edges + 1
  /\ job' = [j \in Jobs |-> IF job[j].status = "active"
                            THEN [job[j] EXCEPT !.status = "cancelled"]
                            ELSE job[j]]
  /\ \E a \in Actions :
       /\ NextAction(a)
       /\ action' = [Cancel(Actions \ Spared) EXCEPT ![a] =
                       [Absent EXCEPT !.status = "pending", !.gen = wf.gen,
                                      !.kind = "cleanup"]]
  /\ UNCHANGED <<draft, loop, github, late, revision, crashes, timeouts>>

Reopen ==
  /\ ~wf.open /\ edges < MaxEdges
  /\ ~WorkflowLocked
  /\ wf' = [open |-> TRUE, gen |-> wf.gen + 1]
  /\ edges' = edges + 1
  /\ UNCHANGED <<job, action, draft, loop, github, late, revision, crashes,
                 timeouts>>

StartJob(j) ==
  /\ wf.open /\ job[j].status = "absent"
  /\ \A k \in Jobs : job[k].status # "active"
  /\ job' = [job EXCEPT ![j] = [status |-> "active", gen |-> wf.gen]]
  /\ UNCHANGED <<wf, action, draft, loop, github, late, bounds>>

FinishJob(j) ==
  /\ job[j].status = "active"
  /\ job' = [job EXCEPT ![j].status = "done"]
  /\ UNCHANGED <<wf, action, draft, loop, github, late, bounds>>

\* The rows with `base` cancelled, and a label change that no job owns queued
\* when there is an identifier left.
WithLabel(base) ==
  IF \E a \in Actions : Unused(a)
  THEN \E a \in Actions :
         NextAction(a) /\ action' = [base EXCEPT ![a] = NewRow("label", NoJob, 0)]
  ELSE action' = base

OwnedBy(j) == {a \in Actions : action[a].job = j}

\* Lease expiry cancels what the job queued and labels the issue needs_human.
fence_expired_jobs(j) ==
  /\ job[j].status = "active"
  /\ ~WorkflowLocked /\ Writable(OwnedBy(j))
  /\ job' = [job EXCEPT ![j].status = "cancelled"]
  /\ IF wf.open /\ job[j].gen = wf.gen THEN WithLabel(Cancel(OwnedBy(j)))
                                       ELSE action' = Cancel(OwnedBy(j))
  /\ UNCHANGED <<wf, draft, loop, github, late, bounds>>

\* A label change the pull request asks for; its closing or merging also stops
\* a revision job at work.  The pull request is of the current generation.
apply_pull_request_effects ==
  /\ wf.open /\ ~WorkflowLocked
  /\ \E j \in Jobs : job[j].gen = wf.gen
  /\ \E revising \in SUBSET {j \in Jobs : /\ job[j].status = "active"
                                         /\ job[j].gen = wf.gen} :
       job' = [j \in Jobs |-> IF j \in revising
                              THEN [job[j] EXCEPT !.status = "cancelled"]
                              ELSE job[j]]
  /\ WithLabel(action)
  /\ UNCHANGED <<wf, draft, loop, github, late, bounds>>

-----------------------------------------------------------------------------
(* Queueing                                                                  *)

Write(a, by, row) == draft' = [draft EXCEPT ![a] = [by |-> by, row |-> row]]

\* An executor queues a label change or a comment, also after its job ended.
create_outbound_action(j, a) ==
  /\ job[j].status # "absent" /\ NextAction(a)
  /\ \E kind \in {"label", "comment"} : Write(a, "insert", NewRow(kind, j, 0))
  /\ UNCHANGED <<wf, job, action, loop, github, late, bounds>>

\* The partial unique index of the status comment's deduplication key.
PendingStatus(row) == row.kind = "status" /\ row.status = "pending"

\* Mutant of upsert_pending_outbound_action: the row may be out for delivery.
UpsertWithoutWaiting(j, a) ==
  LET pending == {b \in Actions : PendingStatus(action[b])}
  IN /\ job[j].status # "absent" /\ revision < MaxRevision
     /\ revision' = revision + 1
     /\ \A b \in Actions : ~PendingStatus(draft[b].row)
     /\ \/ /\ a \in pending /\ RowFree(a)
           /\ action' = [action EXCEPT ![a].job = j, ![a].rev = revision + 1]
           /\ UNCHANGED draft
        \/ /\ pending = {} /\ NextAction(a)
           /\ Write(a, "insert", NewRow("status", j, revision + 1))
           /\ UNCHANGED action
     /\ UNCHANGED <<wf, job, loop, github, late, edges, crashes, timeouts>>

\* A newer status comment replaces the payload of the pending one, and waits
\* for whoever holds that row; it keeps the generation of the row it finds.
upsert_pending_outbound_action(j, a) ==
  LET pending == {b \in Actions : PendingStatus(action[b])}
  IN /\ job[j].status # "absent" /\ revision < MaxRevision
     /\ revision' = revision + 1
     /\ \A b \in Actions : ~PendingStatus(draft[b].row)
     /\ \/ /\ a \in pending /\ RowFree(a) /\ ~Sending(a)
           /\ Write(a, "update", fence_workflow_outbound(
                [action[a] EXCEPT !.job = j, !.rev = revision + 1]))
        \/ /\ pending = {} /\ NextAction(a)
           /\ Write(a, "insert", NewRow("status", j, revision + 1))
     /\ UNCHANGED <<wf, job, action, loop, github, late, edges, crashes,
                    timeouts>>

CommitDraft(a) ==
  /\ ~RowFree(a)
  /\ action' = [action EXCEPT ![a] = draft[a].row]
  /\ draft' = [draft EXCEPT ![a] = NoDraft]
  /\ UNCHANGED <<wf, job, loop, github, late, bounds>>

Retryable(row) ==
  /\ row.status = "failed" /\ row.kind = "cleanup" /\ row.gen = wf.gen
  /\ ~wf.open /\ row.tries < RetryLimit /\ ~row.denied

\* Mutant of reconcile_closed_workflows: one attempt too many.
RetryOnceMore(a) ==
  /\ action[a].status = "failed" /\ action[a].kind = "cleanup"
  /\ action[a].gen = wf.gen /\ ~wf.open /\ action[a].tries <= RetryLimit
  /\ RowFree(a)
  /\ Write(a, "update", fence_workflow_outbound(
       [action[a] EXCEPT !.status = "pending"]))
  /\ UNCHANGED <<wf, job, action, loop, github, late, bounds>>

\* Mutant of reconcile_closed_workflows: any failed action is taken up again.
RetryAnyAction(a) ==
  /\ action[a].status = "failed" /\ action[a].tries < RetryLimit /\ RowFree(a)
  /\ Write(a, "update", fence_workflow_outbound(
       [action[a] EXCEPT !.status = "pending"]))
  /\ UNCHANGED <<wf, job, action, loop, github, late, bounds>>

\* The poll loop takes up a failed cleanup of the closed issue again.
reconcile_closed_workflows(a) ==
  /\ Retryable(action[a]) /\ RowFree(a)
  /\ Write(a, "update", fence_workflow_outbound(
       [action[a] EXCEPT !.status = "pending"]))
  /\ UNCHANGED <<wf, job, action, loop, github, late, bounds>>

-----------------------------------------------------------------------------
(* Delivering                                                                *)

\* A loop found the action in the list of pending ones; lock_outbound_side_effect
\* sees the job in the snapshot of its statement ...
BeginDelivery(l, a) ==
  /\ loop[l].pc = "idle" /\ action[a].status = "pending"
  /\ loop' = [loop EXCEPT ![l] =
       [Idle EXCEPT !.pc = "waiting", !.at = a,
                    !.saw = ~JobCancelled(action[a].job)]]
  /\ UNCHANGED <<wf, job, action, draft, github, late, bounds>>

\* Mutant of lock_outbound_side_effect: what is pending is delivered.
LockPending(l) ==
  /\ loop[l].pc = "waiting"
  /\ ~WorkflowLocked /\ RowFree(loop[l].at)
  /\ IF action[loop[l].at].status = "pending"
     THEN loop' = [loop EXCEPT ![l].pc = "sending"]
     ELSE loop' = [loop EXCEPT ![l] = Idle]
  /\ UNCHANGED <<wf, job, action, draft, github, late, bounds>>

\* Mutant of lock_outbound_side_effect: a refused action stays pending.
LockOrLeave(l) ==
  LET row == action[loop[l].at]
  IN /\ loop[l].pc = "waiting"
     /\ ~WorkflowLocked /\ RowFree(loop[l].at)
     /\ IF /\ row.status = "pending" /\ row.gen = wf.gen /\ loop[l].saw
           /\ wf.open \/ ClosureCleanup(row)
        THEN loop' = [loop EXCEPT ![l].pc = "sending"]
        ELSE loop' = [loop EXCEPT ![l] = Idle]
     /\ UNCHANGED <<wf, job, action, draft, github, late, bounds>>

\* ... and the action and the workflow once it holds their row locks.  An
\* action that may not be delivered any more is cancelled.
lock_outbound_side_effect(l) ==
  LET a == loop[l].at
      row == action[a]
      allowed == /\ row.status = "pending" /\ row.gen = wf.gen
                 /\ loop[l].saw
                 /\ wf.open \/ ClosureCleanup(row)
  IN /\ loop[l].pc = "waiting"
     /\ ~WorkflowLocked /\ RowFree(a)
     /\ IF allowed
        THEN loop' = [loop EXCEPT ![l].pc = "sending"] /\ UNCHANGED action
        ELSE loop' = [loop EXCEPT ![l] = Idle] /\ action' = Cancel({a})
     /\ UNCHANGED <<wf, job, draft, github, late, bounds>>

\* GitHub carries out a request.
Perform(r) ==
  github' = [labelled |-> CASE r.kind = "label" -> TRUE
                            [] r.kind = "cleanup" -> FALSE
                            [] OTHER -> github.labelled,
             shown |-> IF r.kind = "status" THEN r.rev ELSE github.shown,
             done |-> [github.done EXCEPT ![r.at] = @ + 1]]

RequestOf(a) == [at |-> a, kind |-> action[a].kind, rev |-> action[a].rev]

execute_outbound_action(l) ==
  /\ loop[l].pc = "sending" /\ ~loop[l].landed
  /\ Perform(RequestOf(loop[l].at))
  /\ loop' = [loop EXCEPT ![l].landed = TRUE]
  /\ UNCHANGED <<wf, job, action, draft, late, bounds>>

mark_outbound_action_completed(l) ==
  /\ loop[l].pc = "sending" /\ loop[l].landed
  /\ action' = [action EXCEPT ![loop[l].at].status = "completed"]
  /\ loop' = [loop EXCEPT ![l] = Idle]
  /\ UNCHANGED <<wf, job, draft, github, late, bounds>>

MarkFailed(a, denied) ==
  action' = [action EXCEPT ![a].status = "failed", ![a].denied = denied,
                           ![a].tries = @ + 1]

\* The request was refused, or its answer was lost.
mark_outbound_action_failed(l) ==
  /\ loop[l].pc = "sending"
  /\ \E denied \in BOOLEAN : MarkFailed(loop[l].at, denied)
  /\ loop' = [loop EXCEPT ![l] = Idle]
  /\ UNCHANGED <<wf, job, draft, github, late, bounds>>

\* The deadline passed while GitHub still works on the request.
TimeOut(l) ==
  /\ loop[l].pc = "sending" /\ ~loop[l].landed
  /\ timeouts < MaxTimeouts
  /\ timeouts' = timeouts + 1
  /\ late' = late \cup {RequestOf(loop[l].at)}
  /\ MarkFailed(loop[l].at, FALSE)
  /\ loop' = [loop EXCEPT ![l] = Idle]
  /\ UNCHANGED <<wf, job, draft, github, edges, revision, crashes>>

LandLate(r) ==
  /\ r \in late
  /\ Perform(r)
  /\ late' = late \ {r}
  /\ UNCHANGED <<wf, job, action, draft, loop, bounds>>

\* The process or its connection ends, and its transaction rolls back.
Crash(l) ==
  /\ loop[l].pc # "idle" /\ crashes < MaxCrashes
  /\ crashes' = crashes + 1
  /\ loop' = [loop EXCEPT ![l] = Idle]
  /\ UNCHANGED <<wf, job, action, draft, github, late, edges, revision,
                 timeouts>>

-----------------------------------------------------------------------------
(* Specification                                                             *)

Init ==
  /\ wf = [open |-> TRUE, gen |-> 1]
  /\ job = [j \in Jobs |-> [status |-> "absent", gen |-> 0]]
  /\ action = [a \in Actions |-> Absent]
  /\ draft = [a \in Actions |-> NoDraft]
  /\ loop = [l \in Loops |-> Idle]
  /\ github = [labelled |-> FALSE, shown |-> 0,
               done |-> [a \in Actions |-> 0]]
  /\ late = {}
  /\ edges = 0 /\ revision = 0 /\ crashes = 0 /\ timeouts = 0

Work(j) ==
  \/ StartJob(j)
  \/ FinishJob(j)
  \/ fence_expired_jobs(j)
  \/ \E a \in Actions : \/ create_outbound_action(j, a)
                        \/ upsert_pending_outbound_action(j, a)

Deliver(l) ==
  \/ \E a \in Actions : BeginDelivery(l, a)
  \/ lock_outbound_side_effect(l)
  \/ execute_outbound_action(l)
  \/ mark_outbound_action_completed(l)
  \/ mark_outbound_action_failed(l)
  \/ TimeOut(l)
  \/ Crash(l)

Next ==
  \/ Close
  \/ Reopen
  \/ apply_pull_request_effects
  \/ \E j \in Jobs : Work(j)
  \/ \E a \in Actions : CommitDraft(a) \/ reconcile_closed_workflows(a)
  \/ \E l \in Loops : Deliver(l)
  \/ \E r \in late : LandLate(r)

Spec == Init /\ [][Next]_vars

-----------------------------------------------------------------------------
(* Safety                                                                    *)

\* What is being sent to GitHub is still wanted: the issue is open and of the
\* action's generation, or the action removes the labels of the closed issue.
SendFenced ==
  \A l \in Loops : loop[l].pc = "sending" =>
    LET row == action[loop[l].at]
    IN /\ row.status = "pending" /\ row.gen = wf.gen
       /\ wf.open \/ ClosureCleanup(row)

\* A label change or a comment that may have reached GitHub is not sent again
\* by a retry, only by a loop that takes over from one that died.
SentOnce ==
  \A a \in Actions : action[a].kind # "cleanup" =>
                       github.done[a] <= 1 + crashes

\* A newer status comment that was merged into a row is not lost to a delivery
\* of the older text: once a row is completed, GitHub shows its text or a newer.
CompletedIsShown ==
  timeouts = 0 =>
    \A a \in Actions :
      action[a].status = "completed" /\ action[a].kind = "status" =>
        github.shown >= action[a].rev

\* When the cleanup of the closed issue was carried out, no label change of a
\* straggling job puts a state label back (unless the request itself outlived
\* its deadline).
CleanupClears ==
  /\ ~wf.open /\ timeouts = 0
  /\ \E a \in Actions : /\ action[a].kind = "cleanup" /\ action[a].gen = wf.gen
                        /\ action[a].status = "completed"
  => ~github.labelled

\* Delivered actions are history and cancelled ones stay cancelled, whatever
\* loops, retries, closings and merges hold or held the row.
DecidedIsFinal ==
  [][\A a \in Actions : action[a].status \in {"completed", "cancelled"} =>
                          action'[a] = action[a]]_vars

-----------------------------------------------------------------------------
(* Fairness and liveness                                                    *)

\* A request ends within its 60 seconds.
EndDelivery(l) ==
  mark_outbound_action_completed(l) \/ mark_outbound_action_failed(l)

\* Every loop reads the pending actions oldest first and attempts each one of
\* them in every pass; PostgreSQL queues the waiters for a row lock.
Fairness ==
  /\ \A a \in Actions : /\ WF_vars(CommitDraft(a))
                         /\ SF_vars(\E l \in Loops : BeginDelivery(l, a))
                         /\ WF_vars(reconcile_closed_workflows(a))
  /\ \A l \in Loops : SF_vars(lock_outbound_side_effect(l))
                       /\ WF_vars(EndDelivery(l))

FairSpec == Spec /\ Fairness

\* No action stays pending, fenced ones included: it is delivered, reported as
\* failed, or cancelled.
PendingResolved ==
  \A a \in Actions : action[a].status = "pending" ~>
                       action[a].status # "pending"

=============================================================================
