--------------------------- MODULE Outbox_proofs ---------------------------
(***************************************************************************)
(* What holds of Outbox for every number of loops, jobs and actions.        *)
(* NextKinds reduces the actions of the specification to nine kinds of      *)
(* step, each with what it does to the rows, the statements in flight and   *)
(* the deliveries.  A first inductive invariant, IInv, says what the locks  *)
(* guarantee; a second one on top of it, Promises, relates the rows to the  *)
(* requests under way and to what GitHub shows.                             *)
(***************************************************************************)
EXTENDS Outbox, TLAPS

\* At most one delivery holds the row lock of the workflow item, and with it a
\* row that no statement has written.
SenderHoldsRow ==
  /\ \A l \in Loops : loop[l].pc = "sending" => RowFree(loop[l].at)
  /\ \A l, k \in Loops :
       loop[l].pc = "sending" /\ loop[k].pc = "sending" => l = k

\* Only a loop at work has an action, and only a sender has seen it land.
LoopStages ==
  \A l \in Loops : /\ loop[l].pc # "idle" => loop[l].at \in Actions
                   /\ loop[l].landed => loop[l].pc = "sending"

\* A statement that has not committed inserts a row, merges into the pending
\* status comment, or takes up a failed cleanup.
DraftRows ==
  \A a \in Actions : ~RowFree(a) =>
    LET old == action[a]
        new == draft[a].row
    IN /\ new.status \in {"pending", "cancelled"}
       /\ \/ old.status = "absent" /\ new.kind # "cleanup" /\ new.tries = 0
          \/ /\ new.kind = old.kind /\ new.gen = old.gen
             /\ new.tries = old.tries /\ old.tries < RetryLimit
             /\ \/ old.status = "pending" /\ old.kind = "status"
                \/ old.status = "failed" /\ old.kind = "cleanup"

\* An action that waits to be sent may fail once more.
AttemptsLeft ==
  \A a \in Actions : action[a].status = "pending" => action[a].tries < RetryLimit

\* Every generation but the first took a closing and a reopening.
GenBound == wf.gen <= edges + 1

\* The cleanup of a generation is queued when that generation is closed.
CleanupRows ==
  \A a \in Actions : action[a].kind = "cleanup" =>
    /\ action[a].gen <= wf.gen
    /\ wf.open => action[a].gen < wf.gen
    /\ action[a].status # "absent"

\* A request that outlived its deadline belongs to a failed action that is not
\* sent again, unless it is a cleanup.
LateRows ==
  /\ timeouts = 0 => late = {}
  /\ \A r \in late : /\ r.kind = action[r.at].kind
                     /\ r.kind # "cleanup" => action[r.at].status = "failed"
  /\ \A r, s \in late : r.at = s.at /\ r.kind # "cleanup" => r = s

\* A request for an action is still under way, or the action may yet be sent.
Landing(a) == \E r \in late : r.at = a
ToSend(a) ==
  /\ action[a].status \in {"absent", "pending"}
  /\ \A l \in Loops : loop[l].at = a => ~loop[l].landed

SendBudget ==
  \A a \in Actions : action[a].kind # "cleanup" =>
    github.done[a] + (IF Landing(a) \/ ToSend(a) THEN 1 ELSE 0) <= 1 + crashes

\* A cleanup that was just carried out left no state label.
CleanupLanded ==
  \A l \in Loops : /\ loop[l].landed /\ timeouts = 0
                   /\ action[loop[l].at].kind = "cleanup"
                   => ~github.labelled

\* There is one pending status comment, newer than the completed ones.
LiveText(a) == PendingStatus(action[a]) \/ PendingStatus(draft[a].row)

StatusOrder ==
  /\ \A a, b \in Actions : LiveText(a) /\ LiveText(b) => a = b
  /\ \A a \in Actions : action[a].rev <= revision /\ draft[a].row.rev <= revision
  /\ \A a, b \in Actions :
       action[b].status = "completed" /\ action[b].kind = "status" =>
         /\ PendingStatus(action[a]) => action[b].rev < action[a].rev
         /\ PendingStatus(draft[a].row) => action[b].rev < draft[a].row.rev

\* A status comment that was just delivered is the one GitHub shows.
StatusLanded ==
  \A l \in Loops : /\ loop[l].landed /\ timeouts = 0
                   /\ action[loop[l].at].kind = "status"
                   => github.shown = action[loop[l].at].rev

IInv ==
  /\ TypeOK /\ SendFenced /\ SenderHoldsRow /\ LoopStages
  /\ DraftRows /\ AttemptsLeft /\ GenBound

-----------------------------------------------------------------------------
(* Kinds of step                                                             *)

WorkflowMoves ==
  \/ UNCHANGED <<wf, edges>>
  \/ /\ ~WorkflowLocked /\ wf.open /\ edges < MaxEdges
     /\ wf' = [wf EXCEPT !.open = FALSE] /\ edges' = edges + 1
  \/ /\ ~WorkflowLocked /\ ~wf.open /\ edges < MaxEdges
     /\ wf' = [open |-> TRUE, gen |-> wf.gen + 1] /\ edges' = edges + 1

Dropped(a) ==
  /\ action[a].status = "pending" /\ RowFree(a) /\ ~WorkflowLocked
  /\ action'[a] = [action[a] EXCEPT !.status = "cancelled"]

Inserted(a) ==
  /\ Unused(a) /\ action'[a] \in Row
  /\ action'[a].status \in {"pending", "cancelled"}
  /\ action'[a].tries = 0 /\ action'[a].rev = 0
  /\ \/ action'[a].kind = "label"
     \/ /\ action'[a].kind = "cleanup" /\ action'[a].gen = wf.gen
        /\ wf.open /\ ~wf'.open /\ wf'.gen = wf.gen

\* The workflow and its jobs move, rows are dropped or inserted, and a loop is
\* refused its row.
Queues ==
  /\ WorkflowMoves
  /\ job' \in [Jobs -> JobRow]
  /\ action' = [a \in Actions |-> action'[a]]
  /\ \A a \in Actions : \/ action'[a] = action[a]
                         \/ Dropped(a)
                         \/ Inserted(a)
  /\ loop' = [l \in Loops |-> loop'[l]]
  /\ \A l \in Loops : \/ loop'[l] = loop[l]
                       \/ (loop[l].pc = "waiting" /\ loop'[l] = Idle)
  /\ UNCHANGED <<draft, github, late, revision, crashes, timeouts>>

\* A statement writes the row of an action that is not being sent.
Drafts(a) ==
  LET old == action[a]
      new == draft'[a].row
  IN /\ RowFree(a) /\ ~Sending(a)
     /\ draft' = [draft EXCEPT ![a] = draft'[a]]
     /\ draft'[a] \in Draft
     /\ new.status \in {"pending", "cancelled"}
     /\ \/ old.status = "absent" /\ new.kind # "cleanup" /\ new.tries = 0
        \/ /\ new.kind = old.kind /\ new.gen = old.gen
           /\ new.tries = old.tries /\ old.tries < RetryLimit
           /\ \/ old.status = "pending" /\ old.kind = "status"
              \/ old.status = "failed" /\ old.kind = "cleanup"
     /\ \/ /\ new.kind # "status" /\ revision' = revision
           /\ new.rev \in {0, old.rev}
        \/ /\ new.kind = "status" /\ revision < MaxRevision
           /\ revision' = revision + 1 /\ new.rev = revision + 1
           /\ \A b \in Actions : ~PendingStatus(draft[b].row)
           /\ old.status = "absent" =>
                \A b \in Actions : ~PendingStatus(action[b])
     /\ UNCHANGED <<wf, job, action, loop, github, late, edges, crashes,
                    timeouts>>

\* A loop picks an action or gets its row.
Picks(l) ==
  /\ loop' = [loop EXCEPT ![l] = loop'[l]]
  /\ loop'[l] \in Loop /\ ~loop'[l].landed /\ loop'[l].at \in Actions
  /\ \/ loop[l].pc = "idle" /\ loop'[l].pc = "waiting"
     \/ /\ loop[l].pc = "waiting" /\ loop'[l].pc = "sending"
        /\ ~WorkflowLocked /\ RowFree(loop'[l].at)
        /\ LET row == action[loop'[l].at]
           IN /\ row.status = "pending" /\ row.gen = wf.gen
              /\ wf.open \/ ClosureCleanup(row)
  /\ UNCHANGED <<wf, job, action, draft, github, late, bounds>>

\* A delivery failed; its request may still be under way.
Fails(l) ==
  /\ loop[l].pc = "sending"
  /\ \E denied \in BOOLEAN : MarkFailed(loop[l].at, denied)
  /\ loop' = [loop EXCEPT ![l] = Idle]
  /\ \/ UNCHANGED <<late, timeouts>>
     \/ /\ ~loop[l].landed
        /\ timeouts < MaxTimeouts /\ timeouts' = timeouts + 1
        /\ late' = late \cup {RequestOf(loop[l].at)}
  /\ UNCHANGED <<wf, job, draft, github, edges, revision, crashes>>

\* What the trigger does to a row.
LEMMA FencedRow ==
  ASSUME NEW row \in Row
  PROVE  /\ fence_workflow_outbound(row) \in Row
         /\ fence_workflow_outbound(row).status =
              IF row.status = "pending" /\ Fenced(row) THEN "cancelled"
                                                       ELSE row.status
         /\ \A f \in {"gen", "job", "kind", "rev", "tries", "denied"} :
              fence_workflow_outbound(row)[f] = row[f]
  BY DEF fence_workflow_outbound, Row, ActionStatus

LEMMA AbsentRow == Absent \in Row /\ NoDraft \in Draft
  BY LimitsAssumption DEF Absent, Row, ActionStatus, Kinds, NoDraft, Draft

LEMMA NewRowIs ==
  ASSUME TypeOK, NEW kind \in Kinds, NEW j \in Jobs \cup {NoJob},
         NEW rev \in 0 .. MaxRevision
  PROVE  /\ NewRow(kind, j, rev) \in Row
         /\ NewRow(kind, j, rev).status \in {"pending", "cancelled"}
         /\ NewRow(kind, j, rev).kind = kind
         /\ NewRow(kind, j, rev).rev = rev
         /\ NewRow(kind, j, rev).tries = 0
  <1>1. DEFINE gen == IF j = NoJob THEN wf.gen ELSE job[j].gen
               row == [Absent EXCEPT !.status = "pending", !.kind = kind,
                                     !.job = j, !.rev = rev, !.gen = gen]
  <1>2. gen \in Generations \cup {0}
    BY DEF TypeOK, JobRow
  <1>3. /\ row \in Row /\ row.status = "pending" /\ row.kind = kind
        /\ row.rev = rev /\ row.tries = 0
    BY <1>2, AbsentRow DEF Absent, Row, ActionStatus
  <1>4. NewRow(kind, j, rev) = fence_workflow_outbound(row)
    BY DEF NewRow
  <1>5. QED
    BY <1>3, <1>4, FencedRow

LEMMA IdleLoop == Idle \in Loop /\ Idle.pc = "idle" /\ ~Idle.landed
  BY DEF Idle, Loop, NoAction

\* Rows of which some are cancelled, and one perhaps inserted.
LEMMA CancelRows ==
  ASSUME TypeOK, ~WorkflowLocked, NEW S \in SUBSET Actions, Writable(S)
  PROVE  /\ Cancel(S) = [a \in Actions |-> Cancel(S)[a]]
         /\ \A a \in Actions :
              \/ Cancel(S)[a] = action[a]
              \/ /\ action[a].status = "pending" /\ RowFree(a)
                 /\ Cancel(S)[a] = [action[a] EXCEPT !.status = "cancelled"]
  BY DEF Cancel, Writable

LEMMA LabelRows ==
  ASSUME TypeOK, NEW base, base = [a \in Actions |-> base[a]], WithLabel(base)
  PROVE  /\ action' = [a \in Actions |-> action'[a]]
         /\ \A a \in Actions :
              \/ action'[a] = base[a]
              \/ /\ Unused(a) /\ action'[a] = NewRow("label", NoJob, 0)
  BY DEF WithLabel, NextAction

-----------------------------------------------------------------------------
(* Every step is of one of the kinds                                         *)

LEMMA CloseQueues ==
  ASSUME TypeOK, Close
  PROVE  Queues
  <1>1. DEFINE S == Actions \ Spared
               new == [Absent EXCEPT !.status = "pending", !.gen = wf.gen,
                                     !.kind = "cleanup"]
  <1>2. PICK a \in Actions : NextAction(a) /\ action' = [Cancel(S) EXCEPT ![a] = new]
    BY DEF Close
  <1>3. new \in Row /\ new.status = "pending" /\ new.kind = "cleanup"
        /\ new.gen = wf.gen /\ new.tries = 0 /\ new.rev = 0
    BY AbsentRow DEF Absent, Row, ActionStatus, Kinds, TypeOK
  <1>4. Cancel(S) = [b \in Actions |-> Cancel(S)[b]]
    BY DEF Cancel
  <1>5. action' = [b \in Actions |-> action'[b]] /\ action'[a] = new
    BY <1>2, <1>4
  <1>6. ASSUME NEW b \in Actions
        PROVE  action'[b] = action[b] \/ Dropped(b) \/ Inserted(b)
    <2>1. CASE b = a
      BY <1>2, <1>3, <1>5, <2>1 DEF Inserted, NextAction, Close, TypeOK
    <2>2. CASE b # a
      <3>1. S \in SUBSET Actions /\ Writable(S) /\ ~WorkflowLocked
        BY Zenon DEF Close
      <3>2. action'[b] = Cancel(S)[b]
        BY <1>2, <1>4, <2>2
      <3>3. QED
        BY <3>1, <3>2, CancelRows DEF Dropped
    <2>3. QED
      BY <2>1, <2>2
  <1>7. job' \in [Jobs -> JobRow]
    BY DEF Close, TypeOK, JobRow
  <1>8. WorkflowMoves
    BY DEF Close, WorkflowMoves
  <1>9. loop' = [l \in Loops |-> loop'[l]] /\ \A l \in Loops : loop'[l] = loop[l]
    BY DEF Close, TypeOK
  <1>10. QED
    BY <1>5, <1>6, <1>7, <1>8, <1>9, Zenon DEF Queues, Close

LEMMA RecoveryQueues ==
  ASSUME TypeOK, NEW j \in Jobs, fence_expired_jobs(j)
  PROVE  Queues
  <1>1. Cancel(OwnedBy(j)) = [b \in Actions |-> Cancel(OwnedBy(j))[b]]
    BY DEF Cancel
  <1>2. \/ action' = Cancel(OwnedBy(j))
        \/ WithLabel(Cancel(OwnedBy(j)))
    BY DEF fence_expired_jobs
  <1>3. action' = [b \in Actions |-> action'[b]]
    BY <1>1, <1>2, LabelRows
  <1>4. ASSUME NEW b \in Actions
        PROVE  action'[b] = action[b] \/ Dropped(b) \/ Inserted(b)
    <2>1. \/ action'[b] = Cancel(OwnedBy(j))[b]
          \/ Unused(b) /\ action'[b] = NewRow("label", NoJob, 0)
      BY <1>1, <1>2, LabelRows
    <2>2. CASE action'[b] = Cancel(OwnedBy(j))[b]
      BY <2>2, CancelRows DEF Dropped, fence_expired_jobs, OwnedBy
    <2>3. CASE Unused(b) /\ action'[b] = NewRow("label", NoJob, 0)
      BY <2>3, NewRowIs, LimitsAssumption DEF Inserted, Kinds
    <2>4. QED
      BY <2>1, <2>2, <2>3
  <1>5. job' \in [Jobs -> JobRow]
    BY DEF fence_expired_jobs, TypeOK, JobRow
  <1>6. loop' = [l \in Loops |-> loop'[l]] /\ \A l \in Loops : loop'[l] = loop[l]
    BY DEF fence_expired_jobs, TypeOK
  <1>7. QED
    BY <1>3, <1>4, <1>5, <1>6, Zenon
       DEF Queues, fence_expired_jobs, WorkflowMoves, bounds

LEMMA PullRequestQueues ==
  ASSUME TypeOK, apply_pull_request_effects
  PROVE  Queues
  <1>1. action = [b \in Actions |-> action[b]]
    BY DEF TypeOK
  <1>2. /\ action' = [b \in Actions |-> action'[b]]
        /\ \A b \in Actions :
             \/ action'[b] = action[b]
             \/ Unused(b) /\ action'[b] = NewRow("label", NoJob, 0)
    BY <1>1, LabelRows DEF apply_pull_request_effects
  <1>3. \A b \in Actions : action'[b] = action[b] \/ Inserted(b)
    BY <1>2, NewRowIs, LimitsAssumption DEF Inserted, Kinds
  <1>4. job' \in [Jobs -> JobRow]
    BY DEF apply_pull_request_effects, TypeOK, JobRow
  <1>5. loop' = [l \in Loops |-> loop'[l]] /\ \A l \in Loops : loop'[l] = loop[l]
    BY DEF apply_pull_request_effects, TypeOK
  <1>6. QED
    BY <1>2, <1>3, <1>4, <1>5, Zenon
       DEF Queues, apply_pull_request_effects, WorkflowMoves, bounds

LEMMA RefusalQueues ==
  ASSUME TypeOK, NEW l \in Loops, lock_outbound_side_effect(l),
         LoopStages
  PROVE  Queues \/ Picks(l)
  <1>1. DEFINE a == loop[l].at
  <1>a. a \in Actions /\ loop[l].pc = "waiting" /\ ~loop[l].landed
    BY DEF lock_outbound_side_effect, LoopStages
  <1>2. CASE loop' = [loop EXCEPT ![l] = Idle] /\ action' = Cancel({a})
    <2>1. /\ Writable({a}) /\ ~WorkflowLocked /\ {a} \in SUBSET Actions
          /\ UNCHANGED <<wf, job, draft, github, late, bounds>>
      BY <1>a DEF lock_outbound_side_effect, Writable
    <2>2. /\ action' = [b \in Actions |-> action'[b]]
          /\ \A b \in Actions : action'[b] = action[b] \/ Dropped(b)
      BY <1>2, <2>1, CancelRows DEF Dropped
    <2>3. /\ loop' = [k \in Loops |-> loop'[k]]
          /\ \A k \in Loops : \/ loop'[k] = loop[k]
                             \/ (loop[k].pc = "waiting" /\ loop'[k] = Idle)
      BY <1>2, <1>a DEF TypeOK
    <2>4. job' \in [Jobs -> JobRow]
      BY <2>1 DEF TypeOK
    <2>5. /\ WorkflowMoves
          /\ UNCHANGED <<draft, github, late, revision, crashes, timeouts>>
      BY <2>1 DEF WorkflowMoves, bounds
    <2>6. QED
      BY <2>2, <2>3, <2>4, <2>5, Zenon DEF Queues
  <1>3. CASE loop' = [loop EXCEPT ![l].pc = "sending"] /\ UNCHANGED action
             /\ action[a].status = "pending" /\ action[a].gen = wf.gen
             /\ (wf.open \/ ClosureCleanup(action[a]))
    <2>1. loop[l] \in Loop /\ loop'[l] = [loop[l] EXCEPT !.pc = "sending"]
          /\ loop' = [loop EXCEPT ![l] = loop'[l]]
      BY <1>3 DEF TypeOK
    <2>2. /\ loop'[l] \in Loop /\ ~loop'[l].landed /\ loop'[l].at = a
          /\ loop'[l].pc = "sending"
      BY <1>a, <2>1 DEF Loop
    <2>3. /\ ~WorkflowLocked /\ RowFree(a)
          /\ UNCHANGED <<wf, job, draft, github, late, bounds>>
      BY DEF lock_outbound_side_effect
    <2>4. QED
      BY <1>3, <1>a, <2>1, <2>2, <2>3 DEF Picks
  <1>4. QED
    BY <1>2, <1>3, Zenon DEF lock_outbound_side_effect

LEMMA WriteIs ==
  ASSUME TypeOK, NEW a \in Actions, NEW by, NEW row, Write(a, by, row)
  PROVE  /\ draft' = [draft EXCEPT ![a] = draft'[a]]
         /\ draft'[a] = [by |-> by, row |-> row]
  BY DEF Write, TypeOK

\* A row that a loop is sending is pending.
LEMMA NotSending ==
  ASSUME SendFenced, NEW a \in Actions, action[a].status # "pending"
  PROVE  ~Sending(a)
  BY DEF SendFenced, Sending

LEMMA CreateDrafts ==
  ASSUME TypeOK, SendFenced, NEW j \in Jobs, NEW a \in Actions,
         create_outbound_action(j, a)
  PROVE  Drafts(a)
  <1>1. PICK kind \in {"label", "comment"} :
          Write(a, "insert", NewRow(kind, j, 0))
    BY DEF create_outbound_action
  <1>2. DEFINE new == NewRow(kind, j, 0)
  <1>3. /\ new \in Row /\ new.status \in {"pending", "cancelled"}
        /\ new.kind = kind /\ new.rev = 0 /\ new.tries = 0
    BY NewRowIs, LimitsAssumption DEF Kinds
  <1>4. /\ draft' = [draft EXCEPT ![a] = draft'[a]]
        /\ draft'[a] = [by |-> "insert", row |-> new]
    BY <1>1, WriteIs
  <1>5. draft'[a] \in Draft /\ draft'[a].row = new
    BY <1>3, <1>4 DEF Draft
  <1>6. action[a].status = "absent" /\ RowFree(a)
    BY DEF create_outbound_action, NextAction, Unused
  <1>7. UNCHANGED <<wf, job, action, loop, github, late, bounds>>
    BY DEF create_outbound_action
  <1>8. QED
    BY <1>3, <1>4, <1>5, <1>6, <1>7, NotSending DEF Drafts, bounds

LEMMA MergeDrafts ==
  ASSUME TypeOK, SendFenced, AttemptsLeft, NEW j \in Jobs, NEW a \in Actions,
         upsert_pending_outbound_action(j, a)
  PROVE  Drafts(a)
  <1>1. /\ revision < MaxRevision /\ revision' = revision + 1
        /\ \A b \in Actions : ~PendingStatus(draft[b].row)
        /\ UNCHANGED <<wf, job, action, loop, github, late, edges, crashes,
                       timeouts>>
        /\ revision + 1 \in 0 .. MaxRevision
    BY LimitsAssumption DEF upsert_pending_outbound_action, TypeOK
  <1>2. CASE /\ PendingStatus(action[a]) /\ RowFree(a) /\ ~Sending(a)
             /\ Write(a, "update", fence_workflow_outbound(
                  [action[a] EXCEPT !.job = j, !.rev = revision + 1]))
    <2>1. DEFINE old == action[a]
                 row == [old EXCEPT !.job = j, !.rev = revision + 1]
                 new == fence_workflow_outbound(row)
    <2>2. old \in Row
      BY DEF TypeOK
    <2>3. /\ row \in Row /\ row.status = "pending" /\ row.kind = "status"
          /\ row.gen = old.gen /\ row.tries = old.tries
          /\ row.rev = revision + 1
      BY <1>1, <1>2, <2>2 DEF Row, PendingStatus
    <2>4. /\ new \in Row /\ new.status \in {"pending", "cancelled"}
          /\ new.kind = "status" /\ new.gen = old.gen
          /\ new.tries = old.tries /\ new.rev = revision + 1
      BY <2>3, FencedRow
    <2>5. /\ draft' = [draft EXCEPT ![a] = draft'[a]]
          /\ draft'[a] = [by |-> "update", row |-> new]
      BY <1>2, WriteIs
    <2>6. draft'[a] \in Draft /\ draft'[a].row = new
      BY <2>4, <2>5 DEF Draft
    <2>7. old.status = "pending" /\ old.kind = "status" /\ old.tries < RetryLimit
      BY <1>2 DEF PendingStatus, AttemptsLeft
    <2>8. QED
      BY <1>1, <1>2, <2>4, <2>5, <2>6, <2>7 DEF Drafts
  <1>3. CASE /\ \A b \in Actions : ~PendingStatus(action[b])
             /\ NextAction(a)
             /\ Write(a, "insert", NewRow("status", j, revision + 1))
    <2>1. DEFINE new == NewRow("status", j, revision + 1)
    <2>2. /\ new \in Row /\ new.status \in {"pending", "cancelled"}
          /\ new.kind = "status" /\ new.rev = revision + 1 /\ new.tries = 0
      BY <1>1, NewRowIs DEF Kinds
    <2>3. /\ draft' = [draft EXCEPT ![a] = draft'[a]]
          /\ draft'[a] = [by |-> "insert", row |-> new]
      BY <1>3, WriteIs
    <2>4. draft'[a] \in Draft /\ draft'[a].row = new
      BY <2>2, <2>3 DEF Draft
    <2>5. action[a].status = "absent" /\ RowFree(a)
      BY <1>3 DEF NextAction, Unused
    <2>6. QED
      BY <1>1, <1>3, <2>2, <2>3, <2>4, <2>5, NotSending DEF Drafts
  <1>4. QED
    BY <1>2, <1>3 DEF upsert_pending_outbound_action

LEMMA RetryDrafts ==
  ASSUME TypeOK, SendFenced, NEW a \in Actions, reconcile_closed_workflows(a)
  PROVE  Drafts(a)
  <1>1. DEFINE old == action[a]
               row == [old EXCEPT !.status = "pending"]
               new == fence_workflow_outbound(row)
  <1>2. /\ old \in Row /\ old.status = "failed" /\ old.kind = "cleanup"
        /\ old.tries < RetryLimit /\ RowFree(a)
    BY DEF TypeOK, reconcile_closed_workflows, Retryable
  <1>3. /\ row \in Row /\ row.status = "pending" /\ row.kind = "cleanup"
        /\ row.gen = old.gen /\ row.tries = old.tries /\ row.rev = old.rev
    BY <1>2 DEF Row, ActionStatus
  <1>4. /\ new \in Row /\ new.status \in {"pending", "cancelled"}
        /\ new.kind = "cleanup" /\ new.gen = old.gen
        /\ new.tries = old.tries /\ new.rev = old.rev
    BY <1>3, FencedRow
  <1>5. Write(a, "update", new)
    BY DEF reconcile_closed_workflows
  <1>6. /\ draft' = [draft EXCEPT ![a] = draft'[a]]
        /\ draft'[a] = [by |-> "update", row |-> new]
    BY <1>5, WriteIs
  <1>7. draft'[a] \in Draft /\ draft'[a].row = new
    BY <1>4, <1>6 DEF Draft
  <1>8. UNCHANGED <<wf, job, action, loop, github, late, bounds>>
    BY DEF reconcile_closed_workflows
  <1>9. QED
    BY <1>2, <1>4, <1>6, <1>7, <1>8, NotSending DEF Drafts, bounds

LEMMA BeginPicks ==
  ASSUME TypeOK, NEW l \in Loops, NEW a \in Actions, BeginDelivery(l, a)
  PROVE  Picks(l)
  <1>1. DEFINE new == [Idle EXCEPT !.pc = "waiting", !.at = a,
                                   !.saw = ~JobCancelled(action[a].job)]
  <1>2. /\ new \in Loop /\ new.pc = "waiting" /\ new.at = a /\ ~new.landed
    BY DEF Idle, Loop
  <1>3. loop' = [loop EXCEPT ![l] = loop'[l]] /\ loop'[l] = new
    BY DEF BeginDelivery, TypeOK
  <1>4. QED
    BY <1>2, <1>3 DEF Picks, BeginDelivery

LEMMA FailureFails ==
  ASSUME NEW l \in Loops, mark_outbound_action_failed(l) \/ TimeOut(l)
  PROVE  Fails(l)
  BY Zenon DEF mark_outbound_action_failed, TimeOut, Fails, bounds

Kinded ==
  \/ Queues
  \/ \E a \in Actions : Drafts(a) \/ CommitDraft(a)
  \/ \E l \in Loops : \/ Picks(l)
                      \/ execute_outbound_action(l)
                      \/ mark_outbound_action_completed(l)
                      \/ Fails(l)
                      \/ Crash(l)
  \/ \E r \in late : LandLate(r)

LEMMA NextKinds ==
  ASSUME TypeOK, SendFenced, LoopStages, AttemptsLeft, [Next]_vars
  PROVE  Kinded
  <1>1. CASE Close
    BY <1>1, CloseQueues DEF Kinded
  <1>2. CASE Reopen \/ UNCHANGED vars \/ \E j \in Jobs : StartJob(j) \/ FinishJob(j)
    <2>1. WorkflowMoves
      BY <1>2 DEF WorkflowMoves, Reopen, StartJob, FinishJob, vars, bounds
    <2>2. UNCHANGED <<action, loop, draft, github, late, revision, crashes,
                      timeouts>>
      BY <1>2 DEF Reopen, StartJob, FinishJob, vars, bounds
    <2>3. job' \in [Jobs -> JobRow]
      <3>1. CASE UNCHANGED job
        BY <3>1 DEF TypeOK
      <3>2. CASE \E j \in Jobs : StartJob(j) \/ FinishJob(j)
        BY <3>2 DEF StartJob, FinishJob, TypeOK, JobRow
      <3>3. QED
        BY <1>2, <3>1, <3>2 DEF Reopen, vars
    <2>4. action' = [a \in Actions |-> action'[a]] /\ loop' = [l \in Loops |-> loop'[l]]
      BY <2>2 DEF TypeOK
    <2>5. QED
      BY <2>1, <2>2, <2>3, <2>4, Zenon DEF Queues, Kinded
  <1>3. CASE apply_pull_request_effects
    BY <1>3, PullRequestQueues DEF Kinded
  <1>4. ASSUME NEW j \in Jobs, Work(j)
        PROVE  Kinded
    BY <1>2, <1>4, RecoveryQueues, CreateDrafts, MergeDrafts DEF Work, Kinded
  <1>5. ASSUME NEW a \in Actions, CommitDraft(a) \/ reconcile_closed_workflows(a)
        PROVE  Kinded
    BY <1>5, RetryDrafts DEF Kinded
  <1>6. ASSUME NEW l \in Loops, Deliver(l)
        PROVE  Kinded
    BY <1>6, BeginPicks, RefusalQueues, FailureFails DEF Deliver, Kinded
  <1>7. CASE \E r \in late : LandLate(r)
    BY <1>7 DEF Kinded
  <1>8. QED
    BY <1>1, <1>2, <1>3, <1>4, <1>5, <1>6, <1>7 DEF Next

-----------------------------------------------------------------------------
(* Types                                                                     *)

LEMMA QueuesType ==
  ASSUME TypeOK, GenBound, Queues
  PROVE  TypeOK'
  <1>1. \A a \in Actions : action'[a] \in Row
    <2>1. ASSUME NEW a \in Actions
          PROVE  action'[a] \in Row
      <3>1. action[a] \in Row
        BY DEF TypeOK
      <3>2. CASE Dropped(a)
        BY <3>1, <3>2 DEF Dropped, Row, ActionStatus
      <3>3. QED
        BY <3>1, <3>2, Zenon DEF Queues, Inserted
    <2>2. QED
      BY <2>1
  <1>2. action' \in [Actions -> Row]
    BY <1>1, Zenon DEF Queues
  <1>3. loop' \in [Loops -> Loop]
    BY IdleLoop, Zenon DEF Queues, TypeOK
  <1>4. wf' \in [open : BOOLEAN, gen : Generations] /\ edges' \in 0 .. MaxEdges
    <2>1. /\ wf \in [open : BOOLEAN, gen : Generations] /\ edges \in 0 .. MaxEdges
          /\ WorkflowMoves /\ MaxEdges \in Nat
      BY LimitsAssumption DEF Queues, TypeOK
    <2>2. CASE edges < MaxEdges /\ edges' = edges + 1 /\ wf.open
               /\ wf' = [wf EXCEPT !.open = FALSE]
      <3>1. [wf EXCEPT !.open = FALSE] \in [open : BOOLEAN, gen : Generations]
        BY <2>1
      <3>2. edges' \in 0 .. MaxEdges
        BY <2>1, <2>2
      <3>3. QED
        BY <2>2, <3>1, <3>2
    <2>3. CASE edges < MaxEdges /\ edges' = edges + 1 /\ ~wf.open
               /\ wf' = [open |-> TRUE, gen |-> wf.gen + 1]
      <3>1. wf.gen + 1 \in Generations /\ edges' \in 0 .. MaxEdges
        BY <2>1, <2>3 DEF Generations, GenBound
      <3>2. QED
        BY <2>3, <3>1
    <2>4. QED
      BY <2>1, <2>2, <2>3 DEF WorkflowMoves
  <1>5. job' \in [Jobs -> JobRow]
    BY DEF Queues
  <1>6. UNCHANGED <<draft, github, late, revision, crashes, timeouts>>
    BY DEF Queues
  <1>7. QED
    BY <1>2, <1>3, <1>4, <1>5, <1>6 DEF TypeOK

LEMMA DraftsType ==
  ASSUME TypeOK, NEW a \in Actions, Drafts(a)
  PROVE  TypeOK'
  <1>1. draft' \in [Actions -> Draft]
    <2>1. draft' = [draft EXCEPT ![a] = draft'[a]] /\ draft'[a] \in Draft
      BY DEF Drafts
    <2>2. QED
      BY <2>1 DEF TypeOK
  <1>2. revision' \in 0 .. MaxRevision
    BY LimitsAssumption DEF Drafts, TypeOK
  <1>3. UNCHANGED <<wf, job, action, loop, github, late, edges, crashes,
                    timeouts>>
    BY DEF Drafts
  <1>4. QED
    BY <1>1, <1>2, <1>3 DEF TypeOK

LEMMA CommitType ==
  ASSUME TypeOK, NEW a \in Actions, CommitDraft(a)
  PROVE  TypeOK'
  <1>1. draft[a].row \in Row
    BY DEF TypeOK, Draft
  <1>2. action' \in [Actions -> Row] /\ draft' \in [Actions -> Draft]
    BY <1>1, AbsentRow DEF CommitDraft, TypeOK
  <1>3. QED
    BY <1>2 DEF CommitDraft, TypeOK, bounds

LEMMA PicksType ==
  ASSUME TypeOK, NEW l \in Loops, Picks(l)
  PROVE  TypeOK'
  <1>1. loop' \in [Loops -> Loop]
    <2>1. loop' = [loop EXCEPT ![l] = loop'[l]] /\ loop'[l] \in Loop
      BY DEF Picks
    <2>2. QED
      BY <2>1 DEF TypeOK
  <1>2. QED
    BY <1>1 DEF Picks, TypeOK, bounds

\* A request says what its action says.
LEMMA RequestIs ==
  ASSUME TypeOK, NEW a \in Actions
  PROVE  /\ RequestOf(a) \in Request /\ RequestOf(a).at = a
         /\ RequestOf(a).kind = action[a].kind
         /\ RequestOf(a).rev = action[a].rev
  BY DEF RequestOf, Request, TypeOK, Row

LEMMA PerformIs ==
  ASSUME TypeOK, NEW r \in Request, Perform(r)
  PROVE  /\ github' \in [labelled : BOOLEAN, shown : 0 .. MaxRevision,
                         done : [Actions -> Nat]]
         /\ github'.labelled => r.kind = "label" \/ github.labelled
         /\ r.kind = "cleanup" => ~github'.labelled
         /\ github'.shown = IF r.kind = "status" THEN r.rev ELSE github.shown
         /\ github'.done = [github.done EXCEPT ![r.at] = @ + 1]
  <1>1. DEFINE L == CASE r.kind = "label" -> TRUE
                      [] r.kind = "cleanup" -> FALSE
                      [] OTHER -> github.labelled
               S == IF r.kind = "status" THEN r.rev ELSE github.shown
               D == [github.done EXCEPT ![r.at] = @ + 1]
  <1>2. /\ github.labelled \in BOOLEAN /\ github.shown \in 0 .. MaxRevision
        /\ github.done \in [Actions -> Nat]
        /\ r.at \in Actions /\ r.rev \in 0 .. MaxRevision
    BY DEF TypeOK, Request
  <1>3. github' = [labelled |-> L, shown |-> S, done |-> D]
    BY Zenon DEF Perform
  <1>4. L \in BOOLEAN
    BY <1>2
  <1>5. S \in 0 .. MaxRevision /\ D \in [Actions -> Nat]
    BY <1>2
  <1>6. (L => r.kind = "label" \/ github.labelled) /\ (r.kind = "cleanup" => ~L)
    OBVIOUS
  <1>7. github'.labelled = L /\ github'.shown = S /\ github'.done = D
    BY <1>3
  <1>8. QED
    BY <1>3, <1>4, <1>5, <1>6, <1>7

LEMMA ExecuteType ==
  ASSUME TypeOK, LoopStages, NEW l \in Loops, execute_outbound_action(l)
  PROVE  TypeOK'
  <1>1. loop[l].at \in Actions
    BY DEF LoopStages, execute_outbound_action
  <1>2. github' \in [labelled : BOOLEAN, shown : 0 .. MaxRevision,
                     done : [Actions -> Nat]]
    BY <1>1, RequestIs, PerformIs DEF execute_outbound_action
  <1>3. loop' \in [Loops -> Loop]
    <2>1. loop \in [Loops -> Loop] /\ loop' = [loop EXCEPT ![l].landed = TRUE]
      BY DEF execute_outbound_action, TypeOK
    <2>2. [loop[l] EXCEPT !.landed = TRUE] \in Loop
      BY <2>1 DEF Loop
    <2>3. QED
      BY <2>1, <2>2
  <1>4. QED
    BY <1>2, <1>3 DEF execute_outbound_action, TypeOK, bounds

LEMMA CompletedType ==
  ASSUME TypeOK, LoopStages, NEW l \in Loops, mark_outbound_action_completed(l)
  PROVE  TypeOK'
  <1>1. loop[l].at \in Actions
    BY DEF LoopStages, mark_outbound_action_completed
  <1>2. action' \in [Actions -> Row]
    <2>1. /\ action \in [Actions -> Row]
          /\ action' = [action EXCEPT ![loop[l].at].status = "completed"]
      BY DEF mark_outbound_action_completed, TypeOK
    <2>2. [action[loop[l].at] EXCEPT !.status = "completed"] \in Row
      BY <1>1, <2>1 DEF Row, ActionStatus
    <2>3. QED
      BY <1>1, <2>1, <2>2
  <1>3. loop' \in [Loops -> Loop]
    BY IdleLoop DEF mark_outbound_action_completed, TypeOK
  <1>4. QED
    BY <1>2, <1>3 DEF mark_outbound_action_completed, TypeOK, bounds

\* What a failure leaves of the row.
LEMMA FailedRow ==
  ASSUME TypeOK, NEW a \in Actions, NEW denied \in BOOLEAN,
         MarkFailed(a, denied), action[a].tries < RetryLimit
  PROVE  /\ action' \in [Actions -> Row]
         /\ action'[a].status = "failed" /\ action'[a].kind = action[a].kind
         /\ action'[a].gen = action[a].gen /\ action'[a].rev = action[a].rev
         /\ \A b \in Actions : b # a => action'[b] = action[b]
  <1>1. action[a].tries + 1 \in 0 .. RetryLimit
    BY LimitsAssumption DEF TypeOK, Row
  <1>2. QED
    BY <1>1 DEF MarkFailed, TypeOK, Row, ActionStatus

LEMMA FailsType ==
  ASSUME TypeOK, SendFenced, LoopStages, AttemptsLeft, NEW l \in Loops, Fails(l)
  PROVE  TypeOK'
  <1>1. loop[l].at \in Actions /\ action[loop[l].at].status = "pending"
    BY DEF LoopStages, SendFenced, Fails
  <1>2. action' \in [Actions -> Row]
    BY <1>1, FailedRow DEF Fails, AttemptsLeft
  <1>3. loop' \in [Loops -> Loop]
    BY IdleLoop DEF Fails, TypeOK
  <1>4. late' \subseteq Request /\ timeouts' \in 0 .. MaxTimeouts
    BY <1>1, RequestIs, LimitsAssumption DEF Fails, TypeOK
  <1>5. UNCHANGED <<wf, job, draft, github, edges, revision, crashes>>
    BY DEF Fails
  <1>6. QED
    BY <1>2, <1>3, <1>4, <1>5 DEF TypeOK

LEMMA CrashType ==
  ASSUME TypeOK, NEW l \in Loops, Crash(l)
  PROVE  TypeOK'
  BY IdleLoop, LimitsAssumption DEF Crash, TypeOK

LEMMA LandType ==
  ASSUME TypeOK, NEW r \in late, LandLate(r)
  PROVE  TypeOK'
  <1>1. r \in Request /\ late' \subseteq Request
    BY DEF TypeOK, LandLate
  <1>2. QED
    BY <1>1, PerformIs DEF LandLate, TypeOK, bounds

LEMMA TypeStep ==
  ASSUME IInv, Kinded
  PROVE  TypeOK'
  BY QueuesType, DraftsType, CommitType, PicksType, ExecuteType, CompletedType,
     FailsType, CrashType, LandType DEF IInv, Kinded

-----------------------------------------------------------------------------
(* Deliveries                                                                *)

\* The end of a delivery leaves the other loops alone.
LEMMA LoopsKept ==
  ASSUME TypeOK,
         \E l \in Loops : \/ mark_outbound_action_completed(l)
                         \/ Fails(l)
                         \/ Crash(l),
         NEW k \in Loops
  PROVE  loop'[k] = loop[k] \/ loop'[k] = Idle
  BY DEF mark_outbound_action_completed, Fails, Crash, TypeOK

LEMMA StagesStep ==
  ASSUME IInv, Kinded
  PROVE  LoopStages'
  <1>0. TypeOK /\ LoopStages /\ Idle.pc = "idle" /\ ~Idle.landed
    BY IdleLoop DEF IInv
  <1>1. CASE Queues
    BY <1>0, <1>1 DEF Queues, LoopStages
  <1>2. CASE \/ \E a \in Actions : Drafts(a) \/ CommitDraft(a)
             \/ \E r \in late : LandLate(r)
    BY <1>0, <1>2 DEF Drafts, CommitDraft, LandLate, LoopStages
  <1>3. ASSUME NEW l \in Loops, Picks(l)
        PROVE  LoopStages'
    <2>1. \A k \in Loops : k # l => loop'[k] = loop[k]
      BY <1>0, <1>3 DEF Picks, TypeOK
    <2>2. QED
      BY <1>0, <1>3, <2>1 DEF Picks, LoopStages
  <1>4. ASSUME NEW l \in Loops, execute_outbound_action(l)
        PROVE  LoopStages'
    <2>1. /\ loop[l].pc = "sending"
          /\ loop'[l].pc = loop[l].pc /\ loop'[l].at = loop[l].at
          /\ \A k \in Loops : k # l => loop'[k] = loop[k]
      BY <1>0, <1>4 DEF execute_outbound_action, TypeOK, Loop
    <2>2. QED
      BY <1>0, <2>1 DEF LoopStages
  <1>5. CASE \E l \in Loops : \/ mark_outbound_action_completed(l)
                             \/ Fails(l)
                             \/ Crash(l)
    BY <1>0, <1>5, LoopsKept DEF LoopStages
  <1>6. QED
    BY <1>1, <1>2, <1>3, <1>4, <1>5 DEF Kinded

LEMMA SenderStep ==
  ASSUME IInv, Kinded
  PROVE  SenderHoldsRow'
  <1>0. /\ TypeOK /\ SenderHoldsRow /\ LoopStages /\ SendFenced
        /\ Idle.pc = "idle"
    BY IdleLoop DEF IInv
  <1>1. CASE Queues
    <2>1. \A l \in Loops : loop'[l].pc = "sending" => loop'[l] = loop[l]
      BY <1>0, <1>1 DEF Queues
    <2>2. draft' = draft
      BY <1>1 DEF Queues
    <2>3. QED
      BY <1>0, <2>1, <2>2 DEF SenderHoldsRow, RowFree
  <1>2. ASSUME NEW a \in Actions, Drafts(a)
        PROVE  SenderHoldsRow'
    <2>1. /\ loop' = loop /\ ~Sending(a)
          /\ \A b \in Actions : b # a => draft'[b] = draft[b]
      BY <1>0, <1>2 DEF Drafts, TypeOK
    <2>2. QED
      BY <1>0, <2>1 DEF SenderHoldsRow, RowFree, Sending, LoopStages
  <1>3. ASSUME NEW a \in Actions, CommitDraft(a)
        PROVE  SenderHoldsRow'
    <2>1. /\ loop' = loop
          /\ \A b \in Actions : RowFree(b) => draft'[b] = draft[b]
      BY <1>0, <1>3 DEF CommitDraft, TypeOK, RowFree
    <2>2. QED
      BY <1>0, <2>1 DEF SenderHoldsRow, RowFree, LoopStages
  <1>4. ASSUME NEW l \in Loops, Picks(l)
        PROVE  SenderHoldsRow'
    <2>1. /\ \A k \in Loops : k # l => loop'[k] = loop[k]
          /\ draft' = draft
      BY <1>0, <1>4 DEF Picks, TypeOK
    <2>2. CASE loop'[l].pc # "sending"
      BY <1>0, <2>1, <2>2 DEF SenderHoldsRow, RowFree
    <2>3. CASE loop'[l].pc = "sending"
      <3>1. ~WorkflowLocked /\ RowFree(loop'[l].at)
        BY <1>4, <2>3 DEF Picks
      <3>2. QED
        BY <2>1, <3>1 DEF SenderHoldsRow, WorkflowLocked, RowFree
    <2>4. QED
      BY <2>2, <2>3
  <1>5. ASSUME NEW l \in Loops, execute_outbound_action(l)
        PROVE  SenderHoldsRow'
    <2>1. /\ draft' = draft
          /\ \A k \in Loops : loop'[k].pc = loop[k].pc /\ loop'[k].at = loop[k].at
      BY <1>0, <1>5 DEF execute_outbound_action, TypeOK, Loop
    <2>2. QED
      BY <1>0, <2>1 DEF SenderHoldsRow, RowFree
  <1>6. CASE \E l \in Loops : \/ mark_outbound_action_completed(l)
                             \/ Fails(l)
                             \/ Crash(l)
    <2>1. draft' = draft
      BY <1>6 DEF mark_outbound_action_completed, Fails, Crash
    <2>2. QED
      BY <1>0, <1>6, <2>1, LoopsKept DEF SenderHoldsRow, RowFree
  <1>7. CASE \E r \in late : LandLate(r)
    BY <1>0, <1>7 DEF LandLate, SenderHoldsRow, RowFree
  <1>8. QED
    BY <1>1, <1>2, <1>3, <1>4, <1>5, <1>6, <1>7 DEF Kinded

\* What a sender may rely on.
Sendable(row) ==
  row.status = "pending" /\ row.gen = wf.gen /\ (wf.open \/ ClosureCleanup(row))

LEMMA SendableIs ==
  SendFenced <=> \A l \in Loops : loop[l].pc = "sending" =>
                                   Sendable(action[loop[l].at])
  BY DEF SendFenced, Sendable

LEMMA FenceStep ==
  ASSUME IInv, Kinded
  PROVE  SendFenced'
  <1>0. /\ TypeOK /\ SenderHoldsRow /\ LoopStages /\ SendFenced
        /\ Idle.pc = "idle"
    BY IdleLoop DEF IInv
  <1>1. CASE Queues
    <2>1. SUFFICES ASSUME NEW l \in Loops, loop'[l].pc = "sending"
                   PROVE  Sendable(action[loop[l].at])' /\ loop'[l] = loop[l]
      BY DEF SendFenced, Sendable
    <2>2. loop'[l] = loop[l]
      BY <1>0, <1>1, <2>1 DEF Queues
    <2>3. DEFINE a == loop[l].at
    <2>4. /\ a \in Actions /\ WorkflowLocked /\ Sendable(action[a])
      BY <1>0, <2>1, <2>2 DEF LoopStages, WorkflowLocked, SendFenced, Sendable
    <2>5. wf' = wf
      BY <1>1, <2>4 DEF Queues, WorkflowMoves
    <2>6. action'[a] = action[a]
      BY <1>1, <2>4 DEF Queues, Dropped, Inserted, Unused, Sendable
    <2>7. QED
      BY <2>2, <2>4, <2>5, <2>6 DEF Sendable, ClosureCleanup
  <1>2. CASE \E a \in Actions : Drafts(a)
    BY <1>0, <1>2 DEF Drafts, SendFenced, ClosureCleanup
  <1>3. ASSUME NEW a \in Actions, CommitDraft(a)
        PROVE  SendFenced'
    <2>1. /\ loop' = loop /\ wf' = wf /\ ~RowFree(a)
          /\ \A b \in Actions : b # a => action'[b] = action[b]
      BY <1>0, <1>3 DEF CommitDraft, TypeOK
    <2>2. QED
      BY <1>0, <2>1 DEF SendFenced, SenderHoldsRow, LoopStages, ClosureCleanup
  <1>4. ASSUME NEW l \in Loops, Picks(l)
        PROVE  SendFenced'
    <2>1. /\ \A k \in Loops : k # l => loop'[k] = loop[k]
          /\ action' = action /\ wf' = wf
      BY <1>0, <1>4 DEF Picks, TypeOK
    <2>2. loop'[l].pc = "sending" => Sendable(action[loop'[l].at])
      BY <1>4 DEF Picks, Sendable
    <2>3. QED
      BY <1>0, <2>1, <2>2 DEF SendFenced, Sendable, ClosureCleanup
  <1>5. ASSUME NEW l \in Loops, execute_outbound_action(l)
        PROVE  SendFenced'
    <2>1. /\ action' = action /\ wf' = wf
          /\ \A k \in Loops : loop'[k].pc = loop[k].pc /\ loop'[k].at = loop[k].at
      BY <1>0, <1>5 DEF execute_outbound_action, TypeOK, Loop
    <2>2. QED
      BY <1>0, <2>1 DEF SendFenced, ClosureCleanup
  <1>6. ASSUME NEW l \in Loops, mark_outbound_action_completed(l) \/ Fails(l)
        PROVE  SendFenced'
    <2>1. \A k \in Loops : loop'[k].pc # "sending"
      BY <1>0, <1>6 DEF mark_outbound_action_completed, Fails, SenderHoldsRow, TypeOK
    <2>2. QED
      BY <2>1 DEF SendFenced
  <1>7. ASSUME NEW l \in Loops, Crash(l)
        PROVE  SendFenced'
    <2>1. /\ action' = action /\ wf' = wf
          /\ \A k \in Loops : loop'[k] = loop[k] \/ loop'[k] = Idle
      BY <1>0, <1>7 DEF Crash, TypeOK
    <2>2. QED
      BY <1>0, <2>1 DEF SendFenced, ClosureCleanup
  <1>8. CASE \E r \in late : LandLate(r)
    BY <1>0, <1>8 DEF LandLate, SendFenced, ClosureCleanup
  <1>9. QED
    BY <1>1, <1>2, <1>3, <1>4, <1>5, <1>6, <1>7, <1>8 DEF Kinded

-----------------------------------------------------------------------------
(* Rows and statements                                                       *)

\* Steps that touch neither the table nor a statement.
LEMMA RowsAlone ==
  ASSUME \/ \E l \in Loops : Picks(l) \/ execute_outbound_action(l) \/ Crash(l)
         \/ \E r \in late : LandLate(r)
  PROVE  UNCHANGED <<action, draft>>
  BY DEF Picks, execute_outbound_action, Crash, LandLate

\* The end of a delivery changes the row that was sent, which was pending, and
\* no statement holds it.
LEMMA DeliveredRow ==
  ASSUME TypeOK, SendFenced, SenderHoldsRow, LoopStages, AttemptsLeft,
         NEW l \in Loops, mark_outbound_action_completed(l) \/ Fails(l)
  PROVE  LET a == loop[l].at
         IN /\ a \in Actions /\ RowFree(a) /\ action[a].status = "pending"
            /\ loop[l].pc = "sending"
            /\ action'[a].status \in {"completed", "failed"}
            /\ action'[a].status = "completed" <=> mark_outbound_action_completed(l)
            /\ action'[a].kind = action[a].kind
            /\ action'[a].gen = action[a].gen
            /\ action'[a].rev = action[a].rev
            /\ \A b \in Actions : b # a => action'[b] = action[b]
            /\ draft' = draft
  <1>1. DEFINE a == loop[l].at
  <1>2. /\ a \in Actions /\ RowFree(a) /\ action[a].status = "pending"
        /\ loop[l].pc = "sending" /\ draft' = draft
    BY DEF mark_outbound_action_completed, Fails, SendFenced, SenderHoldsRow,
           LoopStages
  <1>3. CASE mark_outbound_action_completed(l)
    <2>1. /\ action \in [Actions -> Row]
          /\ action' = [action EXCEPT ![a].status = "completed"]
      BY <1>3 DEF mark_outbound_action_completed, TypeOK
    <2>2. /\ action'[a].status = "completed" /\ action'[a].kind = action[a].kind
          /\ action'[a].gen = action[a].gen /\ action'[a].rev = action[a].rev
          /\ \A b \in Actions : b # a => action'[b] = action[b]
      BY <1>2, <2>1 DEF Row
    <2>3. QED
      BY <1>2, <1>3, <2>2
  <1>4. CASE Fails(l) /\ ~mark_outbound_action_completed(l)
    <2>1. action[a].tries < RetryLimit
      BY <1>2 DEF AttemptsLeft
    <2>2. QED
      BY <1>2, <1>4, <2>1, FailedRow DEF Fails
  <1>5. QED
    BY <1>3, <1>4

LEMMA DraftStep ==
  ASSUME IInv, Kinded
  PROVE  DraftRows'
  <1>0. /\ TypeOK /\ DraftRows /\ SendFenced /\ SenderHoldsRow /\ LoopStages
        /\ AttemptsLeft
    BY DEF IInv
  <1>1. CASE Queues
    <2>1. draft' = draft /\ \A a \in Actions : ~RowFree(a) => action'[a] = action[a]
      BY <1>1 DEF Queues, Dropped, Inserted, Unused
    <2>2. QED
      BY <1>0, <2>1 DEF DraftRows, RowFree
  <1>2. ASSUME NEW a \in Actions, Drafts(a)
        PROVE  DraftRows'
    <2>1. action' = action /\ \A b \in Actions : b # a => draft'[b] = draft[b]
      BY <1>0, <1>2 DEF Drafts, TypeOK
    <2>2. QED
      BY <1>0, <1>2, <2>1 DEF DraftRows, RowFree, Drafts
  <1>3. ASSUME NEW a \in Actions, CommitDraft(a)
        PROVE  DraftRows'
    <2>1. /\ draft'[a] = NoDraft
          /\ \A b \in Actions : b # a => draft'[b] = draft[b] /\ action'[b] = action[b]
      BY <1>0, <1>3 DEF CommitDraft, TypeOK
    <2>2. QED
      BY <1>0, <2>1 DEF DraftRows, RowFree
  <1>4. ASSUME NEW l \in Loops, mark_outbound_action_completed(l) \/ Fails(l)
        PROVE  DraftRows'
    <2>1. draft' = draft /\ \A a \in Actions : ~RowFree(a) => action'[a] = action[a]
      BY <1>0, <1>4, DeliveredRow
    <2>2. QED
      BY <1>0, <2>1 DEF DraftRows, RowFree
  <1>5. CASE UNCHANGED <<action, draft>>
    BY <1>0, <1>5 DEF DraftRows, RowFree
  <1>6. QED
    BY <1>1, <1>2, <1>3, <1>4, <1>5, RowsAlone DEF Kinded

LEMMA AttemptsStep ==
  ASSUME IInv, Kinded
  PROVE  AttemptsLeft'
  <1>0. /\ TypeOK /\ DraftRows /\ SendFenced /\ SenderHoldsRow /\ LoopStages
        /\ AttemptsLeft /\ RetryLimit \in Nat \ {0}
    BY LimitsAssumption DEF IInv
  <1>1. CASE Queues
    <2>1. ASSUME NEW a \in Actions, action'[a].status = "pending"
          PROVE  action'[a].tries < RetryLimit
      <3>1. CASE action'[a] = action[a]
        BY <1>0, <2>1, <3>1 DEF AttemptsLeft
      <3>2. CASE Dropped(a)
        BY <1>0, <2>1, <3>2 DEF Dropped, TypeOK, Row
      <3>3. CASE Inserted(a)
        BY <1>0, <3>3 DEF Inserted
      <3>4. QED
        BY <1>1, <3>1, <3>2, <3>3 DEF Queues
    <2>2. QED
      BY <2>1 DEF AttemptsLeft
  <1>2. CASE \E a \in Actions : Drafts(a)
    BY <1>0, <1>2 DEF Drafts, AttemptsLeft
  <1>3. ASSUME NEW a \in Actions, CommitDraft(a)
        PROVE  AttemptsLeft'
    <2>1. /\ ~RowFree(a) /\ action'[a] = draft[a].row
          /\ \A b \in Actions : b # a => action'[b] = action[b]
      BY <1>0, <1>3 DEF CommitDraft, TypeOK
    <2>2. draft[a].row.tries < RetryLimit
      BY <1>0, <2>1 DEF DraftRows
    <2>3. QED
      BY <1>0, <2>1, <2>2 DEF AttemptsLeft
  <1>4. ASSUME NEW l \in Loops, mark_outbound_action_completed(l) \/ Fails(l)
        PROVE  AttemptsLeft'
    BY <1>0, <1>4, DeliveredRow DEF AttemptsLeft
  <1>5. CASE UNCHANGED <<action, draft>>
    BY <1>0, <1>5 DEF AttemptsLeft
  <1>6. QED
    BY <1>1, <1>2, <1>3, <1>4, <1>5, RowsAlone DEF Kinded

LEMMA GenStep ==
  ASSUME IInv, Kinded
  PROVE  GenBound'
  <1>1. /\ wf \in [open : BOOLEAN, gen : Generations] /\ edges \in Nat /\ GenBound
        /\ Generations \subseteq Nat
    BY LimitsAssumption DEF IInv, TypeOK, Generations
  <1>2. CASE WorkflowMoves
    <2>1. CASE UNCHANGED <<wf, edges>>
      BY <1>1, <2>1 DEF GenBound
    <2>2. CASE wf' = [wf EXCEPT !.open = FALSE] /\ edges' = edges + 1
      BY <1>1, <2>2 DEF GenBound
    <2>3. CASE wf' = [open |-> TRUE, gen |-> wf.gen + 1] /\ edges' = edges + 1
      <3>1. wf'.gen = wf.gen + 1 /\ wf.gen \in Nat
        BY <1>1, <2>3
      <3>2. QED
        BY <1>1, <2>3, <3>1 DEF GenBound
    <2>4. QED
      BY <1>2, <2>1, <2>2, <2>3 DEF WorkflowMoves
  <1>3. CASE UNCHANGED <<wf, edges>>
    BY <1>1, <1>3 DEF GenBound
  <1>4. WorkflowMoves \/ UNCHANGED <<wf, edges>>
    BY DEF Kinded, Queues, Drafts, CommitDraft, Picks, execute_outbound_action,
       mark_outbound_action_completed, Fails, Crash, LandLate, bounds
  <1>5. QED
    BY <1>2, <1>3, <1>4

-----------------------------------------------------------------------------
(* What follows for every behaviour                                          *)

LEMMA InitInv ==
  ASSUME Init
  PROVE  IInv
  <1>1. TypeOK
    <2>1. [status |-> "absent", gen |-> 0] \in JobRow
      BY DEF JobRow
    <2>2. 1 \in Generations /\ 0 \in 0 .. MaxRevision /\ 0 \in 0 .. MaxEdges
          /\ 0 \in 0 .. MaxCrashes /\ 0 \in 0 .. MaxTimeouts
      BY LimitsAssumption DEF Generations
    <2>3. QED
      BY <2>1, <2>2, AbsentRow, IdleLoop DEF Init, TypeOK
  <1>2. SendFenced /\ SenderHoldsRow /\ LoopStages
    BY IdleLoop DEF Init, SendFenced, SenderHoldsRow, LoopStages
  <1>3. DraftRows /\ AttemptsLeft /\ GenBound
    BY DEF Init, DraftRows, RowFree, AttemptsLeft, Absent, GenBound
  <1>4. QED
    BY <1>1, <1>2, <1>3 DEF IInv

LEMMA NextInv ==
  ASSUME IInv, [Next]_vars
  PROVE  IInv'
  <1>1. Kinded
    BY NextKinds DEF IInv
  <1>2. QED
    BY <1>1, TypeStep, FenceStep, SenderStep, StagesStep, DraftStep, AttemptsStep,
       GenStep DEF IInv

LEMMA Inductive == Spec => []IInv
  BY InitInv, NextInv, PTL DEF Spec

\* The type invariant; that attempts stay within the limit is why the cleanup
\* of a closed issue is not retried for ever.
THEOREM TypeCorrect == Spec => []TypeOK
  <1>1. IInv => TypeOK
    BY DEF IInv
  <1>2. QED
    BY <1>1, Inductive, PTL

\* process_outbound_action sends only what is wanted when it is sent: the row is
\* pending, of the workflow's generation, and the issue open or the row its
\* cleanup, however many loops deliver and whatever lists they hold.
THEOREM SendsFenced == Spec => []SendFenced
  <1>1. IInv => SendFenced
    BY DEF IInv
  <1>2. QED
    BY <1>1, Inductive, PTL

LEMMA DecidedStep ==
  ASSUME IInv, [Next]_vars, NEW a \in Actions,
         action[a].status \in {"completed", "cancelled"}
  PROVE  action'[a] = action[a]
  <1>0. /\ TypeOK /\ DraftRows /\ SendFenced /\ SenderHoldsRow /\ LoopStages
        /\ AttemptsLeft
    BY DEF IInv
  <1>1. Kinded
    BY NextKinds DEF IInv
  <1>2. CASE Queues
    BY <1>2 DEF Queues, Dropped, Inserted, Unused
  <1>3. CASE \E b \in Actions : Drafts(b)
    BY <1>3 DEF Drafts
  <1>4. ASSUME NEW b \in Actions, CommitDraft(b)
        PROVE  action'[a] = action[a]
    <2>1. RowFree(a) /\ ~RowFree(b)
      BY <1>0, <1>4 DEF DraftRows, CommitDraft
    <2>2. QED
      BY <1>0, <1>4, <2>1 DEF CommitDraft, TypeOK
  <1>5. ASSUME NEW l \in Loops, mark_outbound_action_completed(l) \/ Fails(l)
        PROVE  action'[a] = action[a]
    BY <1>0, <1>5, DeliveredRow
  <1>6. CASE UNCHANGED <<action, draft>>
    BY <1>6
  <1>7. QED
    BY <1>1, <1>2, <1>3, <1>4, <1>5, <1>6, RowsAlone DEF Kinded

\* Delivered and cancelled actions never change: no merge, retry, second loop or
\* late failure rewrites what mark_outbound_action_completed or the fence
\* decided.
THEOREM DecidedStays == Spec => DecidedIsFinal
  <1>1. IInv /\ [Next]_vars =>
          [\A a \in Actions : action[a].status \in {"completed", "cancelled"} =>
                               action'[a] = action[a]]_vars
    BY DecidedStep
  <1>2. QED
    BY <1>1, Inductive, PTL DEF Spec, DecidedIsFinal

-----------------------------------------------------------------------------
(* The life of a row                                                         *)

\* What a step may do to a row: its kind stays, a failed action but the cleanup
\* stays failed, and only a delivery completes.
RowHistory(a) ==
  /\ action[a].status # "absent" =>
       /\ action'[a].status # "absent"
       /\ action'[a].kind = action[a].kind /\ action'[a].gen = action[a].gen
  /\ action[a].status = "failed" /\ action[a].kind # "cleanup" =>
       action'[a] = action[a]
  /\ action'[a].status \in {"absent", "pending"} =>
       \/ action[a].status \in {"absent", "pending"}
       \/ action'[a].kind = "cleanup"
  /\ action'[a].status = "completed" =>
       \/ action'[a] = action[a]
       \/ /\ action'[a].rev = action[a].rev
          /\ \E l \in Loops : /\ mark_outbound_action_completed(l)
                             /\ loop[l].at = a
  /\ action'[a].kind = "cleanup" =>
       \/ action'[a].gen = action[a].gen /\ action[a].kind = "cleanup"
       \/ action'[a].gen = wf.gen /\ ~wf'.open /\ wf'.gen = wf.gen /\ Inserted(a)

LEMMA Histories ==
  ASSUME IInv, CleanupRows, Kinded, NEW a \in Actions
  PROVE  RowHistory(a)
  <1>0. /\ TypeOK /\ DraftRows /\ SendFenced /\ SenderHoldsRow /\ LoopStages
        /\ AttemptsLeft
        /\ action[a].status = "absent" => action[a].kind # "cleanup"
    BY DEF IInv, CleanupRows
  <1>1. CASE action'[a] = action[a]
    BY <1>1 DEF RowHistory
  <1>2. CASE Dropped(a)
    <2>1. /\ action'[a].status = "cancelled" /\ action'[a].kind = action[a].kind
          /\ action'[a].gen = action[a].gen /\ action[a].status = "pending"
      BY <1>0, <1>2 DEF Dropped, TypeOK, Row
    <2>2. QED
      BY <2>1 DEF RowHistory
  <1>3. CASE Inserted(a)
    BY <1>3 DEF Inserted, Unused, RowHistory
  <1>4. CASE CommitDraft(a)
    <2>1. action'[a] = draft[a].row /\ ~RowFree(a)
      BY <1>0, <1>4 DEF CommitDraft, TypeOK
    <2>2. QED
      BY <1>0, <2>1 DEF RowHistory, DraftRows
  <1>5. ASSUME NEW l \in Loops, mark_outbound_action_completed(l) \/ Fails(l),
               loop[l].at = a
        PROVE  RowHistory(a)
    BY <1>0, <1>5, DeliveredRow DEF RowHistory
  <1>6. CASE Queues
    BY <1>1, <1>2, <1>3, <1>6 DEF Queues
  <1>7. ASSUME NEW b \in Actions, Drafts(b) \/ CommitDraft(b)
        PROVE  RowHistory(a)
    <2>1. CASE b = a /\ CommitDraft(b)
      BY <1>4, <2>1
    <2>2. CASE Drafts(b) \/ b # a
      <3>1. action'[a] = action[a]
        BY <1>0, <1>7, <2>2 DEF Drafts, CommitDraft, TypeOK
      <3>2. QED
        BY <1>1, <3>1
    <2>3. QED
      BY <1>7, <2>1, <2>2
  <1>8. ASSUME NEW l \in Loops, mark_outbound_action_completed(l) \/ Fails(l)
        PROVE  RowHistory(a)
    BY <1>0, <1>1, <1>5, <1>8, DeliveredRow
  <1>9. CASE UNCHANGED <<action, draft>>
    BY <1>1, <1>9
  <1>10. QED
    BY <1>6, <1>7, <1>8, <1>9, RowsAlone DEF Kinded

LEMMA WorkflowSteps ==
  ASSUME IInv, Kinded
  PROVE  \/ wf' = wf
         \/ wf.open /\ ~wf'.open /\ wf'.gen = wf.gen
         \/ ~wf.open /\ wf'.open /\ wf'.gen = wf.gen + 1
  <1>1. wf \in [open : BOOLEAN, gen : Generations]
    BY DEF IInv, TypeOK
  <1>2. WorkflowMoves \/ wf' = wf
    BY DEF Kinded, Queues, Drafts, CommitDraft, Picks, execute_outbound_action,
       mark_outbound_action_completed, Fails, Crash, LandLate
  <1>3. QED
    BY <1>1, <1>2 DEF WorkflowMoves

LEMMA CleanupRowsStep ==
  ASSUME IInv, CleanupRows, Kinded
  PROVE  CleanupRows'
  <1>1. SUFFICES ASSUME NEW a \in Actions, action'[a].kind = "cleanup"
                 PROVE  /\ action'[a].gen <= wf'.gen
                        /\ wf'.open => action'[a].gen < wf'.gen
                        /\ action'[a].status # "absent"
    BY DEF CleanupRows
  <1>2. RowHistory(a)
    BY Histories
  <1>3. wf.gen \in Nat /\ action[a].gen \in Nat
    BY DEF IInv, TypeOK, Row, Generations
  <1>4. CASE action'[a].gen = action[a].gen /\ action[a].kind = "cleanup"
    <2>1. /\ action[a].gen <= wf.gen /\ (wf.open => action[a].gen < wf.gen)
          /\ action'[a].status # "absent"
      BY <1>2, <1>4 DEF CleanupRows, RowHistory
    <2>2. QED
      BY <1>3, <1>4, <2>1, WorkflowSteps
  <1>5. CASE /\ action'[a].gen = wf.gen /\ ~wf'.open /\ wf'.gen = wf.gen
             /\ Inserted(a)
    BY <1>3, <1>5 DEF Inserted
  <1>6. QED
    BY <1>1, <1>2, <1>4, <1>5 DEF RowHistory

-----------------------------------------------------------------------------
(* Requests                                                                  *)

\* How a step changes the requests under way.
LEMMA LateSteps ==
  ASSUME IInv, Kinded
  PROVE  \/ late' = late /\ timeouts' = timeouts
         \/ \E l \in Loops : /\ Fails(l) /\ ~loop[l].landed
                             /\ timeouts' = timeouts + 1
                             /\ late' = late \cup {RequestOf(loop[l].at)}
         \/ \E r \in late : LandLate(r) /\ timeouts' = timeouts
  BY DEF Kinded, Queues, Drafts, CommitDraft, Picks, execute_outbound_action,
     mark_outbound_action_completed, Fails, Crash, LandLate, bounds

LEMMA LateStep ==
  ASSUME IInv, CleanupRows, LateRows, Kinded
  PROVE  LateRows'
  <1>0. /\ TypeOK /\ DraftRows /\ SendFenced /\ SenderHoldsRow /\ LoopStages
        /\ AttemptsLeft /\ late \subseteq Request /\ timeouts \in Nat
    BY LimitsAssumption DEF IInv, TypeOK
  <1>1. \A r \in late : /\ r.at \in Actions
                        /\ r.kind = action'[r.at].kind
                        /\ r.kind # "cleanup" => action'[r.at].status = "failed"
    <2>1. SUFFICES ASSUME NEW r \in late
                   PROVE  /\ r.at \in Actions
                          /\ r.kind = action'[r.at].kind
                          /\ r.kind # "cleanup" => action'[r.at].status = "failed"
      OBVIOUS
    <2>2. r.at \in Actions /\ RowHistory(r.at)
      BY <1>0, Histories DEF Request
    <2>3. /\ r.kind = action[r.at].kind
          /\ r.kind # "cleanup" => action[r.at].status = "failed"
          /\ r.kind = "cleanup" => action[r.at].status # "absent"
      BY <2>2 DEF LateRows, CleanupRows
    <2>4. QED
      BY <2>2, <2>3 DEF RowHistory
  <1>2. CASE late' \subseteq late /\ timeouts' = timeouts
    BY <1>1, <1>2 DEF LateRows
  <1>3. ASSUME NEW l \in Loops, Fails(l), timeouts' = timeouts + 1,
               late' = late \cup {RequestOf(loop[l].at)}
        PROVE  LateRows'
    <2>1. DEFINE a == loop[l].at
                 new == RequestOf(a)
    <2>2. /\ a \in Actions /\ action[a].status = "pending"
          /\ action'[a].kind = action[a].kind
          /\ action'[a].status \in {"completed", "failed"}
      BY <1>0, <1>3, DeliveredRow
    <2>3. action'[a].status = "failed"
      BY <1>3, <2>2, FailedRow, <1>0 DEF Fails, AttemptsLeft
    <2>4. new.at = a /\ new.kind = action[a].kind
      BY <1>0, <2>2, RequestIs
    <2>5. \A r \in late : r.at = a => r.kind = "cleanup" /\ new.kind = "cleanup"
      BY <2>2, <2>4 DEF LateRows
    <2>6. \A r, t \in late' : r.at = t.at /\ r.kind # "cleanup" => r = t
      BY <1>3, <2>4, <2>5 DEF LateRows
    <2>7. \A r \in late' : /\ r.kind = action'[r.at].kind
                           /\ r.kind # "cleanup" => action'[r.at].status = "failed"
      BY <1>1, <1>3, <2>2, <2>3, <2>4
    <2>8. timeouts' # 0
      BY <1>0, <1>3
    <2>9. timeouts' = 0 => late' = {}
      BY <2>8
    <2>10. QED
      BY <2>6, <2>7, <2>9 DEF LateRows
  <1>4. QED
    BY <1>2, <1>3, LateSteps DEF LandLate

\* An action that a loop is sending is not also under way, unless it is a cleanup.
LEMMA SenderOwes ==
  ASSUME IInv, LateRows, NEW l \in Loops, loop[l].pc = "sending",
         action[loop[l].at].kind # "cleanup"
  PROVE  /\ ~Landing(loop[l].at)
         /\ ~loop[l].landed => ToSend(loop[l].at)
  <1>1. action[loop[l].at].status = "pending"
    BY DEF IInv, SendFenced
  <1>2. ~Landing(loop[l].at)
    BY <1>1 DEF LateRows, Landing
  <1>3. \A k \in Loops : loop[k].landed => k = l
    BY DEF IInv, LoopStages, SenderHoldsRow
  <1>4. QED
    BY <1>1, <1>2, <1>3 DEF ToSend

Owed(a) == Landing(a) \/ ToSend(a)

\* What a step may do with the requests owed for an action that is no cleanup.
Spends(a) ==
  \/ /\ github'.done[a] = github.done[a] /\ crashes' = crashes
     /\ Owed(a)' => Owed(a)
  \/ /\ github'.done[a] = github.done[a] + 1 /\ crashes' = crashes
     /\ Owed(a) /\ ~Owed(a)'
  \/ github'.done[a] = github.done[a] /\ crashes' = crashes + 1

\* A step that does not end the delivery of an action keeps what was landed.
LEMMA ToSendKept ==
  ASSUME NEW a \in Actions, RowHistory(a), action'[a].kind # "cleanup",
         \A l \in Loops : loop[l].landed => loop'[l] = loop[l]
  PROVE  ToSend(a)' => ToSend(a)
  BY DEF RowHistory, ToSend

LEMMA SpendingStep ==
  ASSUME IInv, CleanupRows, LateRows, Kinded, NEW a \in Actions,
         action'[a].kind # "cleanup"
  PROVE  Spends(a) /\ action[a].kind # "cleanup"
  <1>0. /\ TypeOK /\ DraftRows /\ SendFenced /\ SenderHoldsRow /\ LoopStages
        /\ AttemptsLeft /\ Idle.pc = "idle" /\ ~Idle.landed
        /\ late \subseteq Request
    BY IdleLoop DEF IInv, TypeOK
  <1>a. RowHistory(a)
    BY Histories
  <1>b. action[a].kind # "cleanup"
    BY <1>a DEF RowHistory, CleanupRows
  <1>1. CASE Queues
    <2>1. \A l \in Loops : loop[l].landed => loop'[l] = loop[l]
      BY <1>0, <1>1 DEF Queues, LoopStages
    <2>2. github' = github /\ crashes' = crashes /\ late' = late
      BY <1>1 DEF Queues
    <2>3. ToSend(a)' => ToSend(a)
      BY <1>a, <2>1, ToSendKept
    <2>4. QED
      BY <1>b, <2>2, <2>3 DEF Spends, Owed, Landing
  <1>2. CASE \E b \in Actions : Drafts(b) \/ CommitDraft(b)
    <2>1. UNCHANGED <<loop, github, crashes, late>>
      BY <1>2 DEF Drafts, CommitDraft, bounds
    <2>2. ToSend(a)' => ToSend(a)
      BY <1>a, <2>1, ToSendKept
    <2>3. QED
      BY <1>b, <2>1, <2>2 DEF Spends, Owed, Landing
  <1>3. ASSUME NEW l \in Loops, Picks(l)
        PROVE  Spends(a)
    <2>1. \A k \in Loops : loop[k].landed => loop'[k] = loop[k]
      BY <1>0, <1>3 DEF Picks, LoopStages, TypeOK
    <2>2. github' = github /\ crashes' = crashes /\ late' = late
      BY <1>3 DEF Picks, bounds
    <2>3. QED
      BY <1>a, <2>1, <2>2, ToSendKept DEF Spends, Owed, Landing
  <1>4. ASSUME NEW l \in Loops, execute_outbound_action(l)
        PROVE  Spends(a)
    <2>1. DEFINE b == loop[l].at
    <2>2. /\ b \in Actions /\ loop[l].pc = "sending" /\ ~loop[l].landed
          /\ crashes' = crashes /\ late' = late /\ action' = action
      BY <1>0, <1>4 DEF execute_outbound_action, LoopStages, bounds
    <2>3. /\ loop'[l].landed /\ loop'[l].at = b
          /\ \A k \in Loops : k # l => loop'[k] = loop[k]
      BY <1>0, <1>4 DEF execute_outbound_action, TypeOK, Loop
    <2>4. github'.done = [github.done EXCEPT ![b] = @ + 1]
      BY <1>0, <1>4, <2>2, RequestIs, PerformIs DEF execute_outbound_action
    <2>5. github.done \in [Actions -> Nat]
      BY <1>0 DEF TypeOK
    <2>6. CASE a = b
      <3>1. Owed(a) /\ ~Landing(a)
        BY <1>b, <2>2, <2>6, SenderOwes DEF Owed
      <3>2. ~Landing(a)' /\ ~ToSend(a)'
        BY <2>2, <2>3, <2>6, <3>1 DEF Landing, ToSend
      <3>3. github'.done[a] = github.done[a] + 1
        BY <2>2, <2>4, <2>5, <2>6
      <3>4. QED
        BY <2>2, <3>1, <3>2, <3>3 DEF Spends, Owed
    <2>7. CASE a # b
      <3>1. github'.done[a] = github.done[a]
        BY <2>4, <2>5, <2>7
      <3>2. ToSend(a)' => ToSend(a)
        BY <2>2, <2>3, <2>7 DEF ToSend
      <3>3. QED
        BY <2>2, <3>1, <3>2 DEF Spends, Owed, Landing
    <2>8. QED
      BY <2>6, <2>7
  <1>5. ASSUME NEW l \in Loops, mark_outbound_action_completed(l) \/ Fails(l)
        PROVE  Spends(a)
    <2>1. DEFINE b == loop[l].at
    <2>2. /\ b \in Actions /\ loop[l].pc = "sending"
          /\ action'[b].status \in {"completed", "failed"}
      BY <1>0, <1>5, DeliveredRow
    <2>3. /\ \A k \in Loops : k # l => loop'[k] = loop[k]
          /\ github' = github /\ crashes' = crashes
      BY <1>0, <1>5 DEF mark_outbound_action_completed, Fails, TypeOK, bounds
    <2>4. ToSend(a)' => ToSend(a)
      <3>1. CASE a = b
        BY <2>2, <3>1 DEF ToSend
      <3>2. CASE a # b
        BY <1>a, <2>3, <3>2 DEF ToSend, RowHistory
      <3>3. QED
        BY <3>1, <3>2
    <2>5. Landing(a)' => Owed(a)
      <3>1. CASE late' = late
        BY <3>1 DEF Landing, Owed
      <3>2. CASE late' = late \cup {RequestOf(b)} /\ ~loop[l].landed
        <4>1. RequestOf(b).at = b
          BY DEF RequestOf
        <4>2. CASE a = b
          BY <1>b, <2>2, <3>2, <4>2, SenderOwes DEF Owed
        <4>3. CASE a # b
          BY <3>2, <4>1, <4>3 DEF Landing, Owed
        <4>4. QED
          BY <4>2, <4>3
      <3>3. QED
        BY <1>5, <3>1, <3>2 DEF mark_outbound_action_completed, Fails
    <2>6. QED
      BY <2>3, <2>4, <2>5 DEF Spends, Owed
  <1>6. ASSUME NEW l \in Loops, Crash(l)
        PROVE  Spends(a)
    BY <1>6 DEF Crash, Spends
  <1>7. ASSUME NEW r \in late, LandLate(r)
        PROVE  Spends(a)
    <2>1. /\ r \in Request /\ late' = late \ {r}
          /\ UNCHANGED <<action, loop, crashes>>
      BY <1>0, <1>7 DEF LandLate, bounds
    <2>2. github'.done = [github.done EXCEPT ![r.at] = @ + 1]
      BY <1>0, <1>7, <2>1, PerformIs DEF LandLate
    <2>3. github.done \in [Actions -> Nat] /\ r.at \in Actions
      BY <1>0, <2>1 DEF TypeOK, Request
    <2>4. CASE a = r.at
      <3>1. r.kind # "cleanup" /\ action[a].status = "failed"
        BY <1>b, <2>4 DEF LateRows
      <3>2. Owed(a) /\ ~Landing(a)'
        BY <2>1, <2>4, <3>1 DEF Owed, Landing, LateRows
      <3>3. ~ToSend(a)'
        BY <2>1, <3>1 DEF ToSend
      <3>4. github'.done[a] = github.done[a] + 1
        BY <2>2, <2>3, <2>4
      <3>5. QED
        BY <2>1, <3>2, <3>3, <3>4 DEF Spends, Owed
    <2>5. CASE a # r.at
      <3>1. github'.done[a] = github.done[a]
        BY <2>2, <2>3, <2>5
      <3>2. Owed(a)' => Owed(a)
        BY <2>1 DEF Owed, Landing, ToSend
      <3>3. QED
        BY <2>1, <3>1, <3>2 DEF Spends
    <2>6. QED
      BY <2>4, <2>5
  <1>8. QED
    BY <1>b, <1>1, <1>2, <1>3, <1>4, <1>5, <1>6, <1>7 DEF Kinded

LEMMA BudgetStep ==
  ASSUME IInv, CleanupRows, LateRows, SendBudget, Kinded
  PROVE  SendBudget'
  <1>1. SUFFICES ASSUME NEW a \in Actions, action'[a].kind # "cleanup"
                 PROVE  github'.done[a] + (IF Owed(a)' THEN 1 ELSE 0) <= 1 + crashes'
    BY DEF SendBudget, Owed
  <1>2. Spends(a) /\ action[a].kind # "cleanup"
    BY <1>1, SpendingStep
  <1>3. github.done[a] \in Nat /\ crashes \in Nat
    BY LimitsAssumption DEF IInv, TypeOK
  <1>4. github.done[a] + (IF Owed(a) THEN 1 ELSE 0) <= 1 + crashes
    BY <1>2 DEF SendBudget, Owed
  <1>5. QED
    BY <1>2, <1>3, <1>4 DEF Spends

-----------------------------------------------------------------------------
(* What GitHub shows                                                         *)

\* A request was carried out in this step, or before it: then neither its loop
\* nor the row changed.
LEMMA LandedStep ==
  ASSUME IInv, Kinded, NEW l \in Loops, loop'[l].landed
  PROVE  LET a == loop[l].at
         IN /\ a \in Actions /\ loop'[l].at = a
            /\ action[a].status = "pending" /\ action'[a] = action[a]
            /\ loop[l].pc = "sending"
            /\ \/ execute_outbound_action(l)
               \/ loop[l].landed /\ (github' = github \/ \E r \in late : LandLate(r))
  <1>0. /\ TypeOK /\ DraftRows /\ SendFenced /\ SenderHoldsRow /\ LoopStages
        /\ AttemptsLeft /\ ~Idle.landed
    BY IdleLoop DEF IInv
  <1>1. DEFINE a == loop[l].at
  <1>2. ASSUME loop[l].pc = "sending"
        PROVE  /\ a \in Actions /\ action[a].status = "pending" /\ WorkflowLocked
               /\ RowFree(a)
    BY <1>0, <1>2 DEF SendFenced, LoopStages, WorkflowLocked, SenderHoldsRow
  <1>3. loop[l].landed => loop[l].pc = "sending"
    BY <1>0 DEF LoopStages
  <1>4. CASE Queues
    <2>1. loop'[l] = loop[l] /\ github' = github
      BY <1>0, <1>4 DEF Queues
    <2>2. action'[a] = action[a]
      BY <1>2, <1>3, <1>4, <2>1 DEF Queues, Dropped, Inserted, Unused
    <2>3. QED
      BY <1>2, <1>3, <2>1, <2>2
  <1>5. CASE \E b \in Actions : Drafts(b) \/ CommitDraft(b)
    <2>1. loop' = loop /\ github' = github
      BY <1>5 DEF Drafts, CommitDraft
    <2>2. action'[a] = action[a]
      BY <1>0, <1>2, <1>3, <1>5, <2>1 DEF Drafts, CommitDraft, TypeOK
    <2>3. QED
      BY <1>2, <1>3, <2>1, <2>2
  <1>6. ASSUME NEW k \in Loops, Picks(k) \/ Crash(k)
        PROVE  /\ loop'[l] = loop[l] /\ action' = action /\ github' = github
    BY <1>0, <1>6 DEF Picks, Crash, TypeOK
  <1>7. ASSUME NEW k \in Loops, execute_outbound_action(k)
        PROVE  /\ k = l /\ action' = action /\ loop'[l].at = a
    <2>1. /\ loop[k].pc = "sending" /\ action' = action
          /\ loop' = [loop EXCEPT ![k].landed = TRUE]
      BY <1>7 DEF execute_outbound_action
    <2>2. CASE k # l
      BY <1>0, <1>3, <2>1, <2>2 DEF SenderHoldsRow, TypeOK
    <2>3. QED
      BY <1>0, <2>1, <2>2 DEF TypeOK, Loop
  <1>8. ASSUME NEW k \in Loops, mark_outbound_action_completed(k) \/ Fails(k)
        PROVE  FALSE
    <2>1. loop[k].pc = "sending" /\ loop' = [loop EXCEPT ![k] = Idle]
      BY <1>8 DEF mark_outbound_action_completed, Fails
    <2>2. QED
      BY <1>0, <1>3, <2>1 DEF SenderHoldsRow, TypeOK
  <1>9. CASE \E r \in late : LandLate(r)
    BY <1>2, <1>3, <1>9 DEF LandLate
  <1>10. ASSUME NEW k \in Loops, execute_outbound_action(k)
         PROVE  loop[k].pc = "sending"
    BY <1>10 DEF execute_outbound_action
  <1>11. QED
    BY <1>2, <1>3, <1>4, <1>5, <1>6, <1>7, <1>8, <1>9, <1>10 DEF Kinded

\* What GitHub shows changes with a request only.
LEMMA GithubSteps ==
  ASSUME IInv, Kinded
  PROVE  \/ github' = github
         \/ \E l \in Loops : execute_outbound_action(l)
         \/ \E r \in late : LandLate(r)
  BY DEF Kinded, Queues, Drafts, CommitDraft, Picks,
     mark_outbound_action_completed, Fails, Crash

LEMMA NoTimeouts ==
  ASSUME IInv, LateRows, Kinded, timeouts' = 0
  PROVE  timeouts = 0 /\ late = {} /\ ~\E r \in late : LandLate(r)
  <1>1. timeouts \in Nat
    BY LimitsAssumption DEF IInv, TypeOK
  <1>2. timeouts = 0
    BY <1>1, LateSteps
  <1>3. QED
    BY <1>2 DEF LateRows

\* The request of a sender, carried out.
LEMMA ExecuteIs ==
  ASSUME IInv, NEW l \in Loops, execute_outbound_action(l)
  PROVE  LET row == action[loop[l].at]
         IN /\ loop[l].pc = "sending" /\ ~loop[l].landed
            /\ loop[l].at \in Actions
            /\ row.status = "pending"
            /\ wf.open \/ row.kind = "cleanup"
            /\ row.kind = "cleanup" => ~github'.labelled
            /\ github'.labelled => row.kind = "label" \/ github.labelled
            /\ github'.shown = IF row.kind = "status" THEN row.rev
                                                      ELSE github.shown
  <1>1. /\ loop[l].pc = "sending" /\ ~loop[l].landed /\ loop[l].at \in Actions
        /\ Perform(RequestOf(loop[l].at)) /\ TypeOK
    BY DEF IInv, LoopStages, execute_outbound_action
  <1>2. /\ action[loop[l].at].status = "pending"
        /\ wf.open \/ action[loop[l].at].kind = "cleanup"
    BY <1>1 DEF IInv, SendFenced, ClosureCleanup
  <1>3. DEFINE r == RequestOf(loop[l].at)
               row == action[loop[l].at]
  <1>4. r \in Request /\ r.kind = row.kind /\ r.rev = row.rev
    BY <1>1, RequestIs
  <1>5. /\ github'.labelled => r.kind = "label" \/ github.labelled
        /\ r.kind = "cleanup" => ~github'.labelled
        /\ github'.shown = IF r.kind = "status" THEN r.rev ELSE github.shown
    BY <1>1, <1>4, PerformIs
  <1>6. QED
    BY <1>1, <1>2, <1>4, <1>5

LEMMA CleanupLandedStep ==
  ASSUME IInv, LateRows, CleanupLanded, Kinded
  PROVE  CleanupLanded'
  <1>1. SUFFICES ASSUME NEW l \in Loops, loop'[l].landed, timeouts' = 0,
                        action'[loop'[l].at].kind = "cleanup"
                 PROVE  ~github'.labelled
    BY DEF CleanupLanded
  <1>2. /\ action[loop[l].at].kind = "cleanup"
        /\ execute_outbound_action(l) \/ (loop[l].landed /\ github' = github)
        /\ timeouts = 0
    BY <1>1, LandedStep, NoTimeouts
  <1>3. QED
    BY <1>2, ExecuteIs DEF CleanupLanded

LEMMA ClearsStep ==
  ASSUME IInv, CleanupRows, LateRows, CleanupLanded, CleanupClears, Kinded
  PROVE  CleanupClears'
  <1>1. SUFFICES ASSUME ~wf'.open, timeouts' = 0, NEW a \in Actions,
                        action'[a].kind = "cleanup", action'[a].gen = wf'.gen,
                        action'[a].status = "completed"
                 PROVE  ~github'.labelled
    BY DEF CleanupClears
  <1>2. RowHistory(a)
    BY Histories
  <1>3. timeouts = 0 /\ ~\E r \in late : LandLate(r)
    BY <1>1, NoTimeouts
  <1>4. CASE action'[a] = action[a]
    <2>1. wf.gen \in Nat /\ action[a].gen \in Nat
      BY DEF IInv, TypeOK, Row, Generations
    <2>2. /\ action[a].gen <= wf.gen
          /\ wf.open => action[a].gen < wf.gen
      BY <1>1, <1>4 DEF CleanupRows
    <2>3. wf' = wf
      BY <1>1, <1>4, <2>1, <2>2, WorkflowSteps
    <2>4. ~wf.open /\ ~github.labelled
      BY <1>1, <1>3, <1>4, <2>3 DEF CleanupClears
    <2>5. QED
      BY <1>3, <2>4, GithubSteps, ExecuteIs
  <1>5. ASSUME NEW l \in Loops, mark_outbound_action_completed(l), loop[l].at = a
        PROVE  ~github'.labelled
    <2>1. github' = github /\ loop[l].landed
      BY <1>5 DEF mark_outbound_action_completed
    <2>2. action[a].kind = "cleanup"
      BY <1>1, <1>5, DeliveredRow DEF IInv
    <2>3. QED
      BY <1>3, <1>5, <2>1, <2>2 DEF CleanupLanded
  <1>6. QED
    BY <1>1, <1>2, <1>4, <1>5 DEF RowHistory

-----------------------------------------------------------------------------
(* Status comments                                                           *)

\* Status rows across steps that leave the statements alone.
LEMMA StatusRowsKept ==
  ASSUME StatusOrder, draft' = draft, revision' = revision, TypeOK,
         \A a \in Actions :
           /\ action'[a].rev = action[a].rev \/ action'[a].rev = 0
           /\ PendingStatus(action[a])' => action'[a] = action[a]
           /\ action'[a].status = "completed" => action'[a] = action[a]
  PROVE  StatusOrder'
  <1>1. \A a \in Actions : LiveText(a)' => LiveText(a)
    BY DEF LiveText, PendingStatus
  <1>2. \A a \in Actions : action'[a].rev <= revision /\ draft[a].row.rev <= revision
    BY DEF StatusOrder, TypeOK
  <1>3. \A a, b \in Actions :
          action'[b].status = "completed" /\ action'[b].kind = "status" =>
            /\ PendingStatus(action[a])' => action'[b].rev < action'[a].rev
            /\ PendingStatus(draft[a].row) => action'[b].rev < draft[a].row.rev
    BY DEF StatusOrder, PendingStatus
  <1>4. \A a, b \in Actions : LiveText(a)' /\ LiveText(b)' => a = b
    BY <1>1 DEF StatusOrder
  <1>5. QED
    BY <1>2, <1>3, <1>4 DEF StatusOrder, PendingStatus

LEMMA StatusOrderStep ==
  ASSUME IInv, StatusOrder, Kinded
  PROVE  StatusOrder'
  <1>0. /\ TypeOK /\ DraftRows /\ SendFenced /\ SenderHoldsRow /\ LoopStages
        /\ AttemptsLeft
    BY DEF IInv
  <1>1. CASE Queues
    <2>1. ASSUME NEW a \in Actions
          PROVE  /\ action'[a].rev = action[a].rev \/ action'[a].rev = 0
                 /\ PendingStatus(action[a])' => action'[a] = action[a]
                 /\ action'[a].status = "completed" => action'[a] = action[a]
      <3>1. action[a] \in Row
        BY <1>0 DEF TypeOK
      <3>2. CASE Dropped(a)
        BY <3>1, <3>2 DEF Dropped, PendingStatus, Row
      <3>3. CASE Inserted(a)
        BY <3>3 DEF Inserted, PendingStatus
      <3>4. CASE action'[a] = action[a]
        BY <3>4
      <3>5. QED
        BY <1>1, <3>2, <3>3, <3>4 DEF Queues
    <2>2. draft' = draft /\ revision' = revision
      BY <1>1 DEF Queues
    <2>3. QED
      BY <1>0, <2>1, <2>2, StatusRowsKept
  <1>2. ASSUME NEW c \in Actions, Drafts(c)
        PROVE  StatusOrder'
    <2>1. DEFINE new == draft'[c].row
    <2>2. /\ action' = action /\ \A b \in Actions : b # c => draft'[b] = draft[b]
          /\ revision \in Nat /\ new \in Row
          /\ \A b \in Actions : action[b].rev \in Nat /\ draft[b].row.rev \in Nat
      BY <1>0, <1>2, LimitsAssumption DEF Drafts, TypeOK, Draft, Row
    <2>3. CASE new.kind # "status" /\ revision' = revision /\ new.rev \in {0, action[c].rev}
      <3>1. \A a \in Actions : LiveText(a)' => LiveText(a)
        BY <2>2, <2>3 DEF LiveText, PendingStatus
      <3>2. \A a \in Actions : action'[a].rev <= revision'
                              /\ draft'[a].row.rev <= revision'
        BY <2>2, <2>3 DEF StatusOrder
      <3>3. ~PendingStatus(new)
        BY <2>3 DEF PendingStatus
      <3>4. QED
        BY <2>2, <3>1, <3>2, <3>3 DEF StatusOrder, PendingStatus
    <2>4. CASE new.kind = "status"
      <3>1. /\ revision' = revision + 1 /\ new.rev = revision + 1
            /\ \A b \in Actions : ~PendingStatus(draft[b].row)
            /\ \/ \A b \in Actions : ~PendingStatus(action[b])
               \/ PendingStatus(action[c])
        BY <1>2, <2>4 DEF Drafts, PendingStatus
      <3>2. \A a \in Actions : LiveText(a)' => a = c
        BY <2>2, <3>1 DEF LiveText, StatusOrder, PendingStatus
      <3>3. \A a \in Actions : action[a].rev <= revision /\ draft[a].row.rev <= revision
        BY DEF StatusOrder
      <3>4. \A a \in Actions : action'[a].rev <= revision'
                              /\ draft'[a].row.rev <= revision'
        BY <2>2, <3>1, <3>3
      <3>5. ASSUME NEW a \in Actions, NEW b \in Actions,
                   action[b].status = "completed", action[b].kind = "status"
            PROVE  /\ PendingStatus(action[a]) => action[b].rev < action[a].rev
                   /\ PendingStatus(draft'[a].row) =>
                        action[b].rev < draft'[a].row.rev
        <4>1. PendingStatus(action[a]) => action[b].rev < action[a].rev
          BY <3>5 DEF StatusOrder
        <4>2. PendingStatus(draft'[a].row) => a = c
          BY <2>2, <3>1
        <4>3. action[b].rev < new.rev
          BY <2>2, <3>1, <3>3
        <4>4. QED
          BY <4>1, <4>2, <4>3
      <3>6. QED
        BY <2>2, <3>2, <3>4, <3>5 DEF StatusOrder, PendingStatus
    <2>5. QED
      BY <1>2, <2>3, <2>4 DEF Drafts
  <1>3. ASSUME NEW c \in Actions, CommitDraft(c)
        PROVE  StatusOrder'
    <2>1. /\ action'[c] = draft[c].row /\ draft'[c] = NoDraft /\ revision' = revision
          /\ \A b \in Actions : b # c => draft'[b] = draft[b] /\ action'[b] = action[b]
      BY <1>0, <1>3 DEF CommitDraft, TypeOK, bounds
    <2>2. /\ ~PendingStatus(NoDraft.row) /\ NoDraft.row.rev = 0
          /\ draft[c].row.status # "completed" /\ revision \in Nat
      BY <1>0, <1>3, LimitsAssumption
         DEF NoDraft, Absent, PendingStatus, DraftRows, CommitDraft, TypeOK
    <2>3. \A a \in Actions : LiveText(a)' => LiveText(a)
      BY <2>1, <2>2 DEF LiveText, PendingStatus
    <2>4. \A a \in Actions : action'[a].rev <= revision' /\ draft'[a].row.rev <= revision'
      BY <2>1, <2>2 DEF StatusOrder
    <2>5. \A a, b \in Actions :
            action'[b].status = "completed" /\ action'[b].kind = "status" =>
              /\ PendingStatus(action'[a]) => action'[b].rev < action'[a].rev
              /\ PendingStatus(draft'[a].row) => action'[b].rev < draft'[a].row.rev
      BY <2>1, <2>2 DEF StatusOrder
    <2>6. QED
      BY <2>3, <2>4, <2>5 DEF StatusOrder, PendingStatus
  <1>4. ASSUME NEW l \in Loops, mark_outbound_action_completed(l) \/ Fails(l)
        PROVE  StatusOrder'
    <2>1. DEFINE c == loop[l].at
    <2>2. /\ c \in Actions /\ RowFree(c) /\ action[c].status = "pending"
          /\ action'[c].status \in {"completed", "failed"}
          /\ action'[c].kind = action[c].kind /\ action'[c].rev = action[c].rev
          /\ \A b \in Actions : b # c => action'[b] = action[b]
          /\ draft' = draft
      BY <1>0, <1>4, DeliveredRow
    <2>3. revision' = revision
      BY <1>4 DEF mark_outbound_action_completed, Fails, bounds
    <2>4. ~PendingStatus(draft[c].row) /\ ~PendingStatus(action'[c])
      BY <2>2 DEF RowFree, NoDraft, Absent, PendingStatus
    <2>5. \A a \in Actions : LiveText(a)' => LiveText(a) /\ a # c
      BY <2>2, <2>4 DEF LiveText, PendingStatus
    <2>6. \A a \in Actions : action'[a].rev <= revision' /\ draft'[a].row.rev <= revision'
      BY <2>2, <2>3 DEF StatusOrder
    <2>7. ASSUME NEW a \in Actions, NEW b \in Actions,
                 action'[b].status = "completed", action'[b].kind = "status"
          PROVE  /\ PendingStatus(action'[a]) => action'[b].rev < action'[a].rev
                 /\ PendingStatus(draft'[a].row) => action'[b].rev < draft'[a].row.rev
      <3>1. CASE b = c
        <4>1. LiveText(c)
          BY <2>2, <2>7, <3>1 DEF LiveText, PendingStatus
        <4>2. ~LiveText(a)'
          BY <2>2, <2>5, <4>1 DEF StatusOrder
        <4>3. QED
          BY <4>2 DEF LiveText, PendingStatus
      <3>2. CASE b # c
        <4>1. action'[b] = action[b]
          BY <2>2, <3>2
        <4>2. PendingStatus(action'[a]) => action'[a] = action[a]
          BY <2>2, <2>4
        <4>3. QED
          BY <2>2, <2>7, <4>1, <4>2 DEF StatusOrder
      <3>3. QED
        BY <3>1, <3>2
    <2>8. QED
      BY <2>5, <2>6, <2>7 DEF StatusOrder, PendingStatus
  <1>5. CASE \/ \E l \in Loops : Picks(l) \/ execute_outbound_action(l) \/ Crash(l)
             \/ \E r \in late : LandLate(r)
    <2>1. UNCHANGED <<action, draft, revision>>
      BY <1>5 DEF Picks, execute_outbound_action, Crash, LandLate, bounds
    <2>2. QED
      BY <2>1 DEF StatusOrder, LiveText, PendingStatus
  <1>6. QED
    BY <1>1, <1>2, <1>3, <1>4, <1>5 DEF Kinded

LEMMA StatusLandedStep ==
  ASSUME IInv, LateRows, StatusLanded, Kinded
  PROVE  StatusLanded'
  <1>1. SUFFICES ASSUME NEW l \in Loops, loop'[l].landed, timeouts' = 0,
                        action'[loop'[l].at].kind = "status"
                 PROVE  github'.shown = action'[loop'[l].at].rev
    BY DEF StatusLanded
  <1>2. /\ loop'[l].at = loop[l].at
        /\ action'[loop[l].at] = action[loop[l].at]
        /\ execute_outbound_action(l) \/ (loop[l].landed /\ github' = github)
        /\ timeouts = 0
    BY <1>1, LandedStep, NoTimeouts
  <1>3. QED
    BY <1>1, <1>2, ExecuteIs DEF StatusLanded

LEMMA ShownStep ==
  ASSUME IInv, CleanupRows, LateRows, StatusOrder, StatusLanded, CompletedIsShown,
         Kinded
  PROVE  CompletedIsShown'
  <1>1. SUFFICES ASSUME timeouts' = 0, NEW a \in Actions,
                        action'[a].status = "completed", action'[a].kind = "status"
                 PROVE  github'.shown >= action'[a].rev
    BY DEF CompletedIsShown
  <1>2. timeouts = 0 /\ ~\E r \in late : LandLate(r)
    BY <1>1, NoTimeouts
  <1>3. /\ github.shown \in Nat
        /\ \A b \in Actions : action[b].rev \in Nat
    BY LimitsAssumption DEF IInv, TypeOK, Row
  <1>4. CASE action'[a] = action[a]
    <2>1. github.shown >= action[a].rev
      BY <1>1, <1>2, <1>4 DEF CompletedIsShown
    <2>2. ASSUME NEW l \in Loops, execute_outbound_action(l)
          PROVE  github'.shown >= action[a].rev
      <3>1. CASE action[loop[l].at].kind = "status"
        <4>1. /\ PendingStatus(action[loop[l].at]) /\ loop[l].at \in Actions
              /\ github'.shown = action[loop[l].at].rev
          BY <2>2, <3>1, ExecuteIs DEF PendingStatus
        <4>2. action[a].rev < action[loop[l].at].rev
          BY <1>1, <1>4, <4>1 DEF StatusOrder
        <4>3. QED
          BY <1>3, <4>1, <4>2
      <3>2. CASE action[loop[l].at].kind # "status"
        BY <2>1, <2>2, <3>2, ExecuteIs
      <3>3. QED
        BY <3>1, <3>2
    <2>3. QED
      BY <1>2, <1>4, <2>1, <2>2, GithubSteps
  <1>5. ASSUME NEW l \in Loops, mark_outbound_action_completed(l), loop[l].at = a
        PROVE  github'.shown >= action'[a].rev
    <2>1. github' = github /\ loop[l].landed
      BY <1>5 DEF mark_outbound_action_completed
    <2>2. action[a].kind = "status" /\ action'[a].rev = action[a].rev
      BY <1>1, <1>5, DeliveredRow DEF IInv
    <2>3. github.shown = action[a].rev
      BY <1>2, <1>5, <2>1, <2>2 DEF StatusLanded
    <2>4. QED
      BY <1>3, <2>1, <2>2, <2>3
  <1>6. RowHistory(a)
    BY Histories
  <1>7. QED
    BY <1>1, <1>4, <1>5, <1>6 DEF RowHistory

-----------------------------------------------------------------------------
(* What is promised of the requests, for every behaviour                     *)

\* The second inductive invariant, on top of the first.
Promises ==
  /\ CleanupRows /\ LateRows /\ SendBudget
  /\ CleanupLanded /\ CleanupClears
  /\ StatusOrder /\ StatusLanded /\ CompletedIsShown

LEMMA InitPromises ==
  ASSUME Init
  PROVE  Promises
  <1>1. /\ \A a \in Actions : action[a] = Absent /\ draft[a] = NoDraft
        /\ \A l \in Loops : loop[l] = Idle
        /\ late = {} /\ timeouts = 0 /\ crashes = 0 /\ revision = 0
        /\ \A a \in Actions : github.done[a] = 0
        /\ wf.open
    BY DEF Init
  <1>2. /\ Absent.status = "absent" /\ Absent.kind = "label" /\ Absent.rev = 0
        /\ NoDraft.row = Absent /\ ~Idle.landed
    BY IdleLoop DEF Absent, NoDraft
  <1>3. CleanupRows /\ LateRows /\ CleanupLanded /\ CleanupClears
    BY <1>1, <1>2 DEF CleanupRows, LateRows, CleanupLanded, CleanupClears
  <1>4. StatusOrder /\ StatusLanded /\ CompletedIsShown
    BY <1>1, <1>2
       DEF StatusOrder, LiveText, PendingStatus, StatusLanded, CompletedIsShown
  <1>5. SendBudget
    BY <1>1 DEF SendBudget
  <1>6. QED
    BY <1>3, <1>4, <1>5 DEF Promises

LEMMA NextPromises ==
  ASSUME IInv, Promises, [Next]_vars
  PROVE  Promises'
  <1>1. Kinded
    BY NextKinds DEF IInv
  <1>2. CleanupRows' /\ LateRows' /\ SendBudget'
    BY <1>1, CleanupRowsStep, LateStep, BudgetStep DEF Promises
  <1>3. CleanupLanded' /\ CleanupClears'
    BY <1>1, CleanupLandedStep, ClearsStep DEF Promises
  <1>4. StatusOrder' /\ StatusLanded' /\ CompletedIsShown'
    BY <1>1, StatusOrderStep, StatusLandedStep, ShownStep DEF Promises
  <1>5. QED
    BY <1>2, <1>3, <1>4 DEF Promises

LEMMA Promised == Spec => []Promises
  BY Inductive, InitPromises, NextPromises, PTL DEF Spec

\* A label change or a comment is carried out at most once, and once more for
\* every delivery that was lost after its request: a failure is never retried,
\* and process_outbound_action sends only what lock_outbound_side_effect finds
\* pending.
THEOREM RequestsAtMostOnce == Spec => []SentOnce
  <1>1. ASSUME IInv, SendBudget
        PROVE  SentOnce
    <2>1. SUFFICES ASSUME NEW a \in Actions, action[a].kind # "cleanup"
                   PROVE  github.done[a] <= 1 + crashes
      BY DEF SentOnce
    <2>2. github.done[a] \in Nat /\ crashes \in Nat
      BY <1>1, LimitsAssumption DEF IInv, TypeOK
    <2>3. QED
      BY <1>1, <2>1, <2>2 DEF SendBudget
  <1>2. IInv /\ Promises => SentOnce
    BY <1>1 DEF Promises
  <1>3. QED
    BY <1>2, Inductive, Promised, PTL

\* Once the cleanup that closing queued is completed, the closed issue carries
\* no state label: while the issue is closed no label change is sent, whatever
\* executors still queue.  (A request that outlived its 60 seconds is excepted.)
THEOREM CleanupIsLast == Spec => []CleanupClears
  <1>1. Promises => CleanupClears
    BY DEF Promises
  <1>2. QED
    BY <1>1, Promised, PTL

\* A completed status comment is on GitHub, or a newer one is:
\* upsert_pending_outbound_action never merges a text into a row whose older
\* text is just being delivered and then counted as delivered, as long as no
\* request outlives its 60 seconds.
THEOREM StatusNotLost == Spec => []CompletedIsShown
  <1>1. Promises => CompletedIsShown
    BY DEF Promises
  <1>2. QED
    BY <1>1, Promised, PTL
=============================================================================
