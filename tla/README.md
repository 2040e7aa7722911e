# donkeyspace in TLA+

donkeyspace turns GitHub issues into agent work. An API process admits webhooks
and polls, worker processes lease jobs from PostgreSQL and run agents in
containers, background loops deliver labels and comments to GitHub, and a command
line with a terminal interface configures and starts an instance. Several
workers share one database; every process may stop at any moment; GitHub
delivers its events late, twice and out of order. The code keeps the pieces
consistent with a few devices: a *generation* stamped on everything an issue
causes, triggers that rewrite rows which no longer belong (*the fence*), the row
lock of the workflow item, leases, idempotent delivery, receipts, checkpoints that
are compared before they are replaced, and the lock file of the configuration. This
directory models those devices, checks them with TLC and proves their safety
properties with TLAPS.

Source paths below are relative to the repository root. A `run` is a row of
`PROJECT.json`, which also names, for every definition, the lines it models, and
for every property a plausible bug of that code which makes it fail.

## Inventory

| Component | State | Operations | Where it is hard | Module |
|---|---|---|---|---|
| Job queue and fence (`donkeyspace-db/src/lib.rs`, `migrations/0003`) | `jobs`: status, generation, owner, lease, parent, retry lineage | insert, lease oldest queued, start, pause, resume, requeue, supersede, complete, fail; trigger `fence_workflow_job` | the trigger reads the workflow without a lock; `fail_job` tests nothing | JobFence |
| Cancellation (`db/src/cancellation.rs`, `worker/src/cancellation.rs`) | `workflow_items`: provider state, timestamp, generation, state | `observe_issue`, `lock_job_side_effect`, `update_workflow_state_for_job`, heartbeat, monitor, acknowledgement | statements that wait for a row lock keep the snapshot of the other tables | JobFence, Outbox |
| Execution recovery (`db/src/execution_recovery.rs`, `worker/src/execution_recovery.rs`) | expired leases, cleanup observations | fence expired coordinators and their tasks; acknowledge after cleanup | stalled executors that are still alive | JobFence |
| Container executions (`db/src/container_executions.rs`, `migrations/0005`, `0006`) | one row per container launch | register under an owned lease; cleanup rotation | a container that appears after its cleanup | JobFence (registration) |
| Worker loop (`worker/src/main.rs`) | what each worker executes | poll, triage, developer, reviewer, repair, ready reconciliation | several workers reconcile the same issue | JobFence, PullRequest |
| Outbound actions (`db/src/lib.rs`, `worker/src/main.rs`) | `outbound_actions` | queue, coalesce, fence, deliver, fail, retry the cleanup | at-least-once delivery under a fence | Outbox |
| Lifecycle and checkpoints (`worker/src/plugin_flow.rs`, `plugin_flow/`, `plugin_task_graph.rs`, `db/src/lifecycle_checkpoints.rs`) | revision, task graph, results, approvals, change requests | waves, bounded feedback, plans, pauses, decisions, retries | memory and checkpoint part ways at every failure | TaskGraph, Lifecycle |
| Publications (`worker/src/publication.rs`, `worker/src/checkout_recovery.rs`, `db/src/lib.rs`) | `agent_publications`, workspace, checkpoint branch | commit, push, retry, give up, restore, remove | pushed by any worker while the run fails, is retried or cancelled | Publication |
| Admission and comment polling (`api/src/ingress.rs`, `api/src/comment_polling.rs`, `db/src/comment_polling.rs`) | receipts, cursor, the observed issue | prepare (asks GitHub), locked admission, page, cursor | state read before a network call and used after it; pages that change while read | Intake |
| Repository retirement (`db/src/*.rs`) | selection of repositories | select, deselect | work and comments under way | Intake |
| Pull requests and revisions (`db/src/pr_revisions.rs`, `api/src/pr_revision.rs`, `worker/src/pr_revision.rs`, `migrations/0004`, `0010`, `0012`) | row of the pull request, revision snapshots, publication receipts | command, run, pause, resume, publish, make ready, cancel | GitHub shows a head late; people push beside the agent | PullRequest |
| Command line, terminal and setup (`donkeyspace-cli/src`) | `instance.json`, `.instance.lock`, environment and policy files, services | open, edit, save, start, apply, stop, log in, manage repositories | edits of several processes, some of them without the lock | Setup, Terminal |
| Retry API (`api/src/main.rs`) | - | retry a run, retry a synchronization | races with closing and with the fence | JobFence, Lifecycle, Publication |
| Policy and state names (`donkeyspace-core`) | - | pure decisions | precedence of rules | the parts used by the others |
| Label synchronization, blockers, feedback snapshots | per-repository rows | claimed attempts, queries | a crash between claim and finish | - |
| Process supervisor (`donkeyspace-runner/src/process.rs`) | process groups, cleanup commands | run, cancel, clean up | nested supervisors and dropped futures | - (JobFence uses its contract) |
| GitHub client, plugins' manifests, providers, dashboard, Git | external or no shared state | - | - | as their callers use them |

What each module's properties are for is the list of `hazards` in `PROJECT.json`:
the lines where this code could go wrong, and the property that watches each.

## How the parts interact

A comment (Intake) observes the issue and requeues or creates the coordinator. Its
row is a `job` of JobFence, which decides who executes it and when the fence takes it
away. The executor runs the task graph (Lifecycle), commits and pushes what its tasks
made (Publication), and opens a pull request, on which commands start revisions
(PullRequest). Labels, comments and the status text that all of them queue are
delivered by Outbox. The instance's configuration decides which repositories are
tracked and who may decide (Setup, Terminal).

The modules meet in the database, and each takes from the others what it reads
of them. JobFence has the fence in full; Outbox, Publication and Intake have the row
of one workflow and one job with the transitions that JobFence allows; Lifecycle has one
coordinator, leased once at a time, which `RunsOwnJob` and `CancelIsFinal` of JobFence
justify. A closing is split into its lock waits only in JobFence, and is one action
in the other modules.

## Modules

### JobFence: one issue, its jobs, the executors

`JobFence.tla` follows one tracked issue through closings and reopenings while
workers lease and execute its jobs.

| Variable | Stands for |
|---|---|
| `wf` | the `workflow_items` row: `time` counts the edges GitHub reports (even: open), `gen` is `generation`, `state` is `current_state` |
| `job` | the `jobs` table; `Roots` are triage, developer and coordinator jobs in UUIDv7 order, `Children` are plugin tasks |
| `draft` | rows of statements that ran their trigger and have not committed |
| `closing` | the transaction of `observe_issue` for a closed issue |
| `proc` | per worker: what its process executes, and what its statement saw |

READ COMMITTED decides what is one action. A statement is one action unless it
can wait for a lock, or be overtaken between the moment it reads and the moment
it commits; then it is two. Four places of the code are split:

- an insert, resume or requeue whose trigger reads `workflow_items` *without* a
  lock (`Write`, then `CommitDraft`), so it may commit after a closing it did not
  see;
- the closing transaction (`BeginClosing`, `LockForClosing`, `CommitClosing`): its
  `UPDATE jobs` sees the rows committed when it runs and re-evaluates those that
  changed;
- `lock_job_side_effect` (`BeginSideEffect`, then the lock): the statement sees
  the job before it waits and the workflow after it waited, and the worker tests
  once more under the lock;
- `update_workflow_state_for_job` (`BeginStateWrite`, then the write).

The admission, checkpoint, retry, registration and recovery transactions take the
row lock of the workflow item first and are one action guarded by
`~WorkflowLocked`. Leasing and starting commit at once after their trigger has
read the workflow, and are one action each: the window between the two is the
same one that `Write` opens, where it matters more because the row becomes
visible late.

Time is abstract: a lease is `live` until `ExpireLease`, timestamps are numbers of
edges, and backoff is "eventually". `Crash` ends a worker at any step; a crashed
worker's statement still commits or rolls back in the database.

### Outbox: what is queued for GitHub

`Outbox.tla` follows the `outbound_actions` of one issue: label changes, comments,
the coalesced status comment and the label cleanup that closing queues. The
workflow and its jobs appear only with the fields the outbox reads; closings and
reopenings are single actions, because what delivery does with the row lock is the
subject here. `action` is the table, `draft` the uncommitted rows, `loop` a delivery
(a background loop, or an executor that delivers what it just queued: both call
`process_outbound_action`), `github` what a reader of the issue sees, `late` the
requests whose caller gave up after 60 seconds. `Perform` and `LandLate` are GitHub
and marked external. Requests carried out are counted, so a replay shows.

Several `issue.add_label` and `issue.remove_labels` rows that one step queues are one
row of kind `label`; the marker comment is found and edited by its marker, so its
delivery is a write of a text and repeating it is harmless; a comment is not.
Whether an error text means a refusal (401, 403, 404, 422) is the choice `denied`.

### TaskGraph, Lifecycle, Results: the plugin lifecycle

`TaskGraph.tla` holds the graph of a flow (`plugin_task_graph.rs`, `execution_plan.rs`):
keys, dependencies, what a key affects, what is ready, and what a plan leaves of a
flow. Keys are pairs of a task and a work item. `AffectedBy` is the least set closed under
"waits for", not a search; it is computed once per graph.

`Lifecycle.tla` is the coordinator (`plugin_flow.rs` and its directory). The durable
state is the job row, the workflow's state, the checkpoint (`saved`), the approval
requests and the child rows; `pc` and `mem` are what the executor holds in memory, which
every end of the executor forgets. The actions are the pieces of code between two
checkpoints: `Acquire`, `Load`, `ResumeWithDecision` (the four kinds of decision in
`approvals.rs` and `plan_controls.rs`), the planner's outcomes, `StartWave`, `FinishWave`,
`ProcessResults` (the whole feedback of a wave: handoffs, their limits, questions, gated
results), `Complete`, and the ends after it. Every action that saves is one `Commit`:
`CheckpointStore::save` changes record, approvals and child rows in one transaction.
`accepted`, `stale` and `outdated` are history: what a person accepted, what was sent back,
what follows a plan that was sent back.

`Results.tla` is abstract: a graph and the results held of it, which only ever advance
from results that are held. `Held` in Lifecycle maps the checkpoint to it.

### Publication: commits, rows and the workspace

`Publication.tla` follows the commits of one coordinator: the aggregate checkout
(`tree`), the clones of attempts, the checkpoint branch on GitHub, the rows of
`agent_publications`, which any worker pushes again, the snapshot in the
checkpoint, the restoration of a checkout and the removal of the workspace. `past` is the
history of a commit, so "is on GitHub" is membership of an ancestor. A push is split
into its request, its landing and the statement that records it. The upsert of a new row
is split as in JobFence, since its trigger reads without a lock. Git itself is external.

### Intake: comments become work

`Intake.tla` has one repository, one issue and the copies of its comments: a poller
reads pages behind a cursor with an overlap, a request delivers what was mailed. Each
copy goes through the code's order: the receipt, the read of the workflow, the request to
GitHub, the decision whether its author may decide, and the locked admission, which
observes the issue and resumes or creates the coordinator, and its receipt. Time is a
clock in seconds; `Skew` is how far the API's clock may be ahead. Retirement deselects
the repository between any two steps.

### PullRequest: revisions of a managed pull request

`PullRequest.tla` has one pull request: what GitHub shows (`github`, whose head may lag
behind the branch), the row in the database, the workflow's jobs, and the commands posted on it.
Handlers admit a command; workers take jobs, make the pull request a draft, work, push,
record, make it ready and resume; webhooks report what GitHub showed; reviewer and repair
jobs run beside it; people push, close, reopen and move the base. A side effect holds the
row of the workflow from its test to its record.

### Setup, Terminal: the configuration of an instance

`Setup.tla` has the sessions that open, edit, save, start and apply
`instance.json`: a session works on its own copy (`mine`), and saves it under the lock if it
is what was read. `files` are what starting and applying derive, `service` what runs.
Stopping, `compose config` and a plugin's files take no lock; what they may leave
different is recorded in `stray`, which the properties exempt by name. `Terminal.tla`
adds the keys, the tasks of the terminal and their results, received in any order,
and the Manage repositories screen, which edits a selection loaded earlier.

### Proof modules

`JobFence_proofs`, `Outbox_proofs`, `Lifecycle_proofs`, `Publication_proofs`,
`Intake_proofs`, `PullRequest_proofs` and `Terminal_proofs` hold the theorems of their module;
`Extremes` states that a non-empty finite set of integers has a least and a greatest
member, which the choices of the oldest row and the latest update rest on. An `MC` module
gives a module's constants their values.

## What the runs show

| Run | Instance | Shows |
|---|---|---|
| `builtin` | 2 workers, 2 jobs, close and reopen, 1 crash; triage and developer | effects are fenced, closed stays finished, one executor per job, cancellation is final, only current work is dispatched, observations take effect in order |
| `liveness` | 1 worker, a coordinator and its task, close and reopen, 1 crash | fencing a coordinator reaches its task; closing is not starved; a live worker acknowledges a cancellation |
| `deliver` | 2 loops, 2 jobs, 2 actions, 2 edges, 2 texts, 1 crash, 1 late request | only wanted work is sent, a comment is sent again only because of a crash, a merged status text is not lost, a cleaned-up closed issue stays clean |
| `delivery_liveness` | 1 loop, 1 job, 2 actions | nothing stays pending |
| `coordinator` | five flows, 2 dependent work items, 3 decisions, 2 failures, 1 retry | no result goes on unaccepted, nothing accepted is lost, the requests people see are those their decision is matched against, unfinished work can run, and the checkpoint implements Results |
| `publish` | violation | a repeated decision publishes an unfinished graph |
| `push` | 2 workers, 2 commits, 1 fault, 1 retry | what is recorded as published is on GitHub, an accepted snapshot is on the checkpoint branch, a workspace with unpublished results stays |
| `retained` | violation | a synchronization retry removes the only copy of a refused commit |
| `admit` | 1 poller, 1 request, 2 comments, pages of 1, 1 upset | a comment queues work once, for a current coordinator, by right of the state it meets, and the cursor skips none |
| `revision` | 1 worker, 1 poller, 2 commands, 3 jobs, 2 commits, 1 action of people, 1 fault | what is recorded as published is on the branch, what was made ready was published, revisions never overlap or outlive the pull request |
| `applied_twice` | violation | the webhook and the polled copy of one command both queue work |
| `setup` | a command line and a terminal, 2 repositories, 3 commands, 1 fault | no accepted edit is lost, the services run what is saved and agree on the repositories, none leaves the selection unasked |

The three violations contradict sentences of the documentation; each property
quotes the sentence, and `findings` names the line.

- `PublishesOnlyComplete` (docs/plugin-interface.md:385): a decision that changes
  nothing returns the last saved result; when that is "implemented" while the
  graph is paused on something else, the coordinator goes on to the pull request.
- `RetainsUnpublished` (docs/plugin-interface.md:457): the dashboard's synchronization
  retry requeues the coordinator without the resume mark, and the new checkout removes the
  workspace. The sibling property `CleanupKeepsUnpublished` (the sweep of finished runs
  spares it) holds and is proved.
- `AppliedOnce` of PullRequest (docs/pr-revisions.md:102): `enqueue` commits without the
  receipt; once the run it started pauses, the other copy counts as the decision that
  resumes it. The same property of Intake, whose receipt is part of the transaction,
  holds and is proved.

Behaviour met while modelling that is not a finding, but that a maintainer may want
to know: an unnamed `/revise` while only the execution plan is pending puts a key that is
no task among the revision targets, and every continuation fails until a retry
(`approvals.rs:445`, `plan_controls.rs:82`); a handoff to a task that is no ancestor leaves
its sender `running` in memory; after a start task that was approved, handed back to and
crashed after its second run, its second plan is not asked for again
(docs/plugin-interface.md:645); a second revision command may be told "Command not accepted" for what
its other copy queued (`pr_revision.rs:237`); a failing `docker ps` makes an edit of the access list skip
the restart of the API (`lib.rs:1581`), which is why `stray` has "access"; a status
refreshed in the background ends the shown operation of the terminal (`tui.rs:473`).

**Bounds.** `MaxEdges = 2` is one closing and one reopening, delivered in every
order: the first instance in which an old generation meets a new one. Two workers
are enough for a former owner and a new one, two jobs for a stale row in front of a
current one, one task for an orphan. `MaxCrashes = 1` leaves a lease behind; a
second crash repeats it. In Outbox two actions hold the cleanup and a straggler,
two texts an older and a newer one; `RetryLimit = 2` stands for the eight attempts
of the code and is reached. In Lifecycle the flows cover a gate on the start task, on a
last task, on none; handoffs to a sibling and to the start; plans that exclude and review;
change intake; two items that wait for each other. Three decisions are a question answered,
a revision and an approval; `MaxHandoffs = 1` reaches the limit with the second handoff.
In Publication two commits are one that a push contains and one it does not. In Intake pages
of one make every edit move a comment across a page, and an overlap of one tick with a skew of
two lets the two clocks disagree by more than the overlap; three comments or a second
poller exceed five minutes, so what happens when another poller
saved the cursor meanwhile, and a coordinator that ends `blocked`, are left to the proof.
In PullRequest three jobs are a developer, a revision and one more; an instance with two
workers and no action of people was explored too. In Setup two sessions are an edit
and what races it. A larger instance of `deliver` (three actions, one job, one edge) passed as well.
All of these are bounds of the models only, and the theorems hold for every value of them.

**Deadlock.** JobFence never stops and is checked for it (a worker can always
poll, crash or restart within its bounds). The other systems may stop: once every
identifier is used and every bound reached there is nothing left to do, so their
configurations say `CHECK_DEADLOCK FALSE`. What must have happened by then is
`PendingResolved` in Outbox and `NeverStuck` in Lifecycle.

**Fairness.** Only what the code's scheduling justifies:

- PostgreSQL queues the waiters for a row lock: strong fairness for what waits for
  the row lock of the workflow item, weak for a commit;
- agent commands have time limits, and outbound calls, pushes, pull requests and
  projections end within 60 seconds: weak fairness for the end of an effect,
  strong for the report of an execution;
- the monitor polls every second, the recovery task every five seconds and comes
  back to rows it skipped (`SKIP LOCKED`): strong fairness for fencing;
- the outbound loop reads the pending actions oldest first, resolves each one it
  reads, and returns every five seconds: each pending action is attempted again.

Nothing starts a worker process again that ended (the compose files set no restart
policy), and a worker does end when it meets a row that the fence cancelled during
dispatch: `CancellationAcknowledged` names the end of the process as a way out.
Nothing is assumed of GitHub's deliveries, of users, or of crashes.

**Refinement.** `HoldsResults` is `Results!Spec` under the mapping of `needs` to the
checkpoint's graph and of `results` to `Held`: the completed keys and those that wait
for an approval, without what is to be redone and what follows it. A mutant under which one
completed dependency makes a task ready breaks it. Beyond the bounds of the run it needs a
manifest that does not hand work back to the start (see `HoldsOn` below).

## What is proved

Every theorem holds for every value of the constants that satisfies the
assumptions of its module (identifiers are numbers where the code orders them,
bounds are natural numbers, sets of actors do not overlap). Each module proves
that an inductive invariant `IInv` holds of the initial states, is kept by every step,
and implies the properties; `IInv` was checked by TLC on the module's instance before.

| Module | Theorem | Says |
|---|---|---|
| `JobFence_proofs` | `TypeCorrect` | the type invariant |
| | `SideEffectsFenced` | during a remote side effect the issue is open and in the job's generation |
| | `ClosedStaysFinished` | nothing takes a closed workflow out of `finished` |
| | `CancellationIsFinal` | no step undoes a cancellation |
| | `DispatchIsCurrent` | only work of the open issue's generation is leased or started |
| | `ObservationsInOrder` | late observations never turn the workflow back |
| | `RunsOnlyItsJob` | who works on a job owns it, or the job is cancelled |
| | `NoTaskOrphaned` | a cancelled coordinator leaves no active task |
| `Outbox_proofs` | `TypeCorrect` | the type invariant |
| | `SendsFenced` | only what is still wanted is sent to GitHub |
| | `DecidedStays` | completed and cancelled actions never change |
| | `RequestsAtMostOnce` | an action is carried out once, and once more per lost delivery |
| | `CleanupIsLast` | a closed issue whose cleanup was completed has no state label |
| | `StatusNotLost` | a completed status text is shown, or a newer one |
| `Lifecycle_proofs` | `Invariance`, `TypeCorrect` | the inductive and the type invariant |
| | `ApprovalsMatched` | the approvals people see are those the checkpoint waits for |
| | `GatesHold` | work goes on from accepted results only, in flows that lead |
| | `AlwaysReady` | unfinished work has a task to start, in flows that run on |
| | `ApprovedKept` | accepted results stay until sent back, withdrawn or excluded, in flows that hold |
| | `ResultsHeld` | the lifecycle implements Results, in flows that hold |
| `Publication_proofs` | `Invariance`, `TypeCorrect` | the inductive and the type invariant |
| | `PublishedIsOnGitHub` | a row shown as published is on GitHub |
| | `SavedIsOnBranch` | the commit of an accepted snapshot is on the checkpoint branch |
| | `CleanupKeeps` | no workspace goes with an unpublished result of a completed run |
| `Intake_proofs` | `Invariance`, `TypeCorrect` | the inductive and the type invariant |
| | `OnceOnly` | a comment queues work once, whatever carried it |
| | `CurrentOnly` | work is only active for an open, tracked issue |
| | `NoneSkipped` | a comment behind the cursor was received |
| | `ByRight` | work is queued by who may, in the state it is queued in |
| `PullRequest_proofs` | `Invariance`, `TypeCorrect` | the inductive and the type invariant |
| | `PublishedIsOnBranch` | what is recorded as published is on the branch |
| | `ReadyWasPublished` | what the worker made ready was published |
| | `OneRevision` | one open revision, none of a closed pull request |
| `Terminal_proofs` | `Invariance`, `TypeCorrect` | the inductive and the type invariant |
| | `NothingIsLost` | every accepted edit is in the saved configuration |
| | `RunsSaved` | the services run what is saved |
| | `OneSelection` | API and worker agree on the repositories |
| | `RemovalsConfirmed` | no repository leaves the selection unasked |

A request that outlives its deadline is beyond the code's reach: GitHub may carry it
out after everything that followed, so `CleanupIsLast` and `StatusNotLost` say
`timeouts = 0`. The properties of Setup exempt what `stray` names.

**JobFence.** `EffectFenced` is not inductive: that the closing transaction meets no
effect when it commits depends on the lock it took earlier, and that a worker's job keeps
its generation depends on no uncommitted insert reusing its row. `IInv` adds to the type
invariant what a row lock or a reference guarantees: a worker works on a row that was
inserted (`WorksOnRow`), a closing observation that holds the lock is no older than the
issue and meets no effect (`ClosingHoldsLock`), an uncommitted statement holds a new or a
failed root job (`DraftRows`), a task's coordinator exists and shares its generation
(`TaskRows`, `RootRows`), and generations are bounded by edges (`GenBound`). The proof
looks at each action once per *kind of state* rather than once per conjunct: `RowsStep` says
what any step does to a row of `jobs` (its generation and parent stay; a cancelled row
stays cancelled; a lease starts only for current work), `ProcsStep` what it does to a worker,
and likewise `WorkflowStep`, `DraftsStep`, `EffectsStep`, `ObservationsStep` and `FamilyStep`.
The conjuncts and the action properties follow from these summaries without opening the
actions again. The trigger is treated once, by `FenceRow`.
Two more invariants stand on `IInv`. `OwnsJob` follows a row from its lease: a dispatched
row stays with its owner or is cancelled, no worker is engaged twice, and only the owner
reports, which is why `fail_job` may do without a test of the owner. `TreeInv` follows a
coordinator's tasks: an insert that is not yet visible is of a coordinator that the fence
will still see or is refused (`TasksCurrent`, `RefusedIsOld`), and the closing scan sees every
active task (`ScanSeesTasks`), so whoever cancels a coordinator leaves none active.

**Outbox.** `NextKinds` reduces every action to one of nine kinds of step (rows
dropped or inserted, a statement written or committed, an action picked, sent,
completed or failed, a crash, a late request). `IInv` says what the locks give: one
sender, whose row no statement holds (`SenderHoldsRow`), and what an uncommitted row
may be (`DraftRows`). The properties about requests and GitHub need a second invariant
`Promises`: an action is not owed and under way twice (`SendBudget`, with `LateRows`: a late
request belongs to a failed action, which is not sent again); a cleanup belongs to an
issue closed in its generation (`CleanupRows`); there is one pending status text and it
is newer than the completed ones (`StatusOrder`); and what a sender has seen land is what
GitHub shows (`CleanupLanded`, `StatusLanded`). `RowHistory` says what any step may do to a row.

**Lifecycle.** The core is `Matched`: the pending rows are the pending keys of the
checkpoint. A commit keeps it when the record and its effects account for each other
(`Accounts`): each request the record drops is decided or superseded, and each key it refers
to has a child row (`RowsKnown`), because a revision of the plan supersedes what it excludes
by those rows. The code does so since nothing is pending while tasks are planned or run
(`NothingPending`), a change that waits for its approval is the last one proposed
(`PendingFits`), and comments are numbered in order (`DecisionsCounted`), so that no request is
made under a key that was decided. The proof is one lemma for what a commit, a stop and a
failure keep, and one per action that its record and effects are such a commit. It needs that
task names are not `execution-plan` in a flow with plans nor `change` in one with change intake,
which plugin.rs:445-458 rejects (`ReservedAssumption`): the keys of requests would collide.

`GatesHold` stands on `GateInv`, because `GateHolds` looks at memory only while memory comes from
the checkpoint. `GateFits` says of a checkpoint that each result it keeps was accepted where
the graph in force gates it, or follows a plan that was sent back (`ResultsApproved`), and the same
of the start unless it is pending or to be planned again (`StartApproved`); in a flow with
plans, that everything that is kept belongs to the plan's graph and is outdated while a
new plan is awaited (`PlanFits`), and that a change which plans again withdraws everything
(`ChangeFits`). `WorkFits` says the same of memory, and that a gated start is never run as a task of a wave, where
it would complete without its gate. What makes a decision safe is that a set of tasks that is sent back
never contains the start unless the start itself was named (`StartAlone`), and then all
of the planned graph (`StartBefore`). The theorem's hypothesis `StartLeads` says so of the manifest: the start has no
dependencies; in a flow with plans every task waits for it; and a start with `approval:
required` but no plans is not a handoff target. Nothing in the code rejects other manifests, and
for them the property is false: a gated start that is handed work back reruns in a wave, whose checkpoint
is saved with the start marked approved before its new result is looked at, and a retry from there
does not ask for it (plugin_flow.rs:626-630, against docs/plugin-interface.md:645).

`AlwaysReady` stands on `RunInv`: what memory holds as running is completed or of the wave in hand, so
that feedback either completes it, asks about it or restarts it (`AnswersSettled`,
`SendersRestart`). Then an unfinished key that waits for no unfinished one can start. That there is one is the first
part of its hypothesis `RunsOn`, which `validate_task_graph` (plugin.rs:691) and `validate_work_items` (plugin_flow.rs:1459)
guarantee; the other two are the author's to keep: no workflow task waits for
tasks of work items, and work is handed back only to what the sender waits for. Otherwise the sender stays
`running` and the run ends with "plugin task graph has no runnable tasks". Both
hypotheses are assumptions of `MCLifecycle`, so TLC evaluates them on the run's flows.

`ApprovedKept` and `ResultsHeld` stand on `HoldInv`. `HoldsFit` says of a checkpoint: each accepted
result that was not sent back is among its results, and none of those is about to be redone
(`ResultsFit`); what an agent asked about and what is sent back lies apart from them, and a change
that waits for its approval names all that it undoes (`RequestsFit`); and with a result that is held
those it was made from are held (`Whole`). `WorkHolds`, `WaveHolds` and `Mirrors` say the same of
memory: the wave waits for completed keys only, and while it runs the checkpoint holds what memory
has completed. Every step is shown to keep this and, in the same lemma, to be one of the two steps
of Results (`Follows`, collected in `StepHolds`); `FollowsResults` then maps it. Two lemmas make graphs
comparable: what a key waits for is the same in every graph of the flow (`NeedsInGraph`), and
`affected_by` in one of them is what lies downstream in the largest (`RestartedIsDownstream`).
Both are what the hypothesis `HoldsOn` is for: every task waits for the start, which
waits for nothing and is no target of handoffs, tasks of the workflow do not wait for those of work
items, and a planner that selects a work item selects what it depends on. The code rejects none of
the other manifests and selections. Of the run's flows `Simple` and `Intake` satisfy it
(`HoldAssumption`). Without it `HoldsResults` is false, and the run `coordinator` is too short to show it: of
two results of one wave, one waits for approval while the other is handed back to the start over its
limit; the pause discards what both were made from and keeps the first one's request. TLC finds
this in `Wide` after 38 steps with `MaxDecisions = 5` and `MaxAttempts = 9`; `KeepsApproved`
holds of `Wide` at these bounds too (no failures and retries), so for it the hypothesis may be more than is needed.

**Publication.** The invariant follows a commit from the checkout to its row, push, mark and
checkpoint. Histories are transitive and contain only commits that were made (`GitOK`);
a worker at a step of a publication has a row or is about to insert it, at `mark` after a push
that went well has its commit on GitHub (`MarkedOnGitHub`); the coordinator's
worker stands on the head of the branch when it saves (`HeadOnBranch`), which holds because
one worker executes it (`OneExecutor`) and others push only ancestors or attempts; and a
workspace is removed by a worker that saw no unpublished row of a completed run
(`RemovesPublished`), which stays so because a completed run upserts nothing.

**Intake.** The cursor is the difficult part. A scan that is under way owes something to every
comment of the pages it has read, is reading and has not read (`ScanFits`, `Reaches`): a page
holds the comments updated since the cursor in the order of their update, so what moves off a page
moves to a later one or was updated after the scan began. Only a scan that still owns the cursor
counts, which is what the comparison in `save_cursor` is for. `AppliedHasReceipt` and the fit
of a process (`ProcFits`: what it read, and what GitHub's issue was then) give the others.

**PullRequest.** The invariant is what each worker knows of its job at each step (`WorkerFits`:
its head, what it pushed, whether the row of the workflow is held), that no other worker has
the same job (`OneWorker`), what a job's row may say at each status (`JobFits`), what a webhook
handler read of a publication it is about to record (`HandlerFits`), and one active revision
(`OneActive`). Commits on the branch never leave it, so knowledge of the branch lasts; knowledge
of a job lasts because of the row lock.

**Terminal.** `SessionsOK` says where each kind of command can be and what it has in
hand; `LockOK` that the session that holds the lock is the one between taking and releasing
it, that nobody saves meanwhile, and that its copy is what is saved; `HolderOK` how far it has
brought the services: the files derive from what is saved, a service not yet started
does not run, one already started runs the selection. `ConsumersAgree` is not inductive without
`HolderOK`, nor `NothingLost` without `LockOK`. Every session step is a move of the session and
one of three changes of the configuration (`Stepped`), and a lemma per group of commands on
the services does the rest.

**Only model-checked.** Every invariant and action property of the runs is proved, those
of Lifecycle for the manifests their hypotheses name. Beyond the prover: all
liveness (`ClosingLands`, `CancellationAcknowledged`, `PendingResolved`), since it treats neither
fairness nor ENABLED, and what would need induction over data: that a least affected set is
what the code's search finds is by definition here.

## Not modelled

- Reviewer and revision jobs in JobFence: the fence treats them like the jobs modelled.
  Which observed state a stale read may write: any member of `ObservedStates`. Container cleanup
  observations of several daemons: one condition.
- Lifecycle: the import of the older checkpoint format, revisions of a published pull request,
  the closed-issue shortcut, lease expiry, the digest comparison of a change request.
- Publication: the projection to issues and comments; file contents and Git's own locking.
  Recovery that is blocked without a Git fault is unreachable, so the run reaches it by a fault.
- Intake: edited comments as deliveries, managed resources, label conflicts, policy lists,
  deletion of comments, the conditional request. That a posted comment is seen in the end was
  checked once under weak fairness per poller, without upsets (508,000 states).
- PullRequest: plugin lifecycle revisions, snapshots of review threads, the closing of the issue,
  merged pull requests, several of one repository. GitHub's answer to a mutation is taken to
  show the current head; webhooks beyond `MaxMail` are lost.
- Setup: the registration of a GitHub App and its key files, `doctor`, the lock of `auth.json`,
  the account display, starters and approvers told apart, migration of schemas before the last.
- Label synchronization, blockers, feedback snapshots, the process supervisor, container plugins
  and their credentials, manifests, prompts, HTTP, the dashboard, scripts and images.

## Plan

1. **Lifecycle_proofs**: `ApprovedKept` for manifests that hand work back to the start, where
   a result may stay without what it was made from; and what Results promises there.
2. **Adoption of pull requests** into a later generation, beside PullRequest.
3. **Supervisor**: nested supervisors, cancellation and dropped futures; it implements the contract
   JobFence assumes of `EndExecution`.
4. **GitHub App registration** and the key files, beside Setup.

## Running

    tlc -workers 2 -config MCJobFence_builtin.cfg MCJobFence
    tlc -workers 2 -config MCTerminal_setup.cfg MCTerminal
    tlapm JobFence_proofs.tla

and likewise for the other configurations and proof modules. The largest run (`revision`,
five million states) and the longest proof (`Lifecycle_proofs`) take a few minutes.
