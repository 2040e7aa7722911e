---------------------------- MODULE Publication ----------------------------
(***************************************************************************)
(* What a lifecycle coordinator pushes to GitHub (worker/publication.rs,   *)
(* worker/checkout_recovery.rs): commits of its aggregate checkout on one  *)
(* checkpoint branch, attempts on branches of their own, rows of           *)
(* agent_publications that any worker pushes again, the snapshot in the    *)
(* lifecycle checkpoint that a retry restores, and the workspace that is   *)
(* removed once everything is published.                                   *)
(*                                                                         *)
(* One coordinator of one generation: once the issue closes, or a crash is *)
(* recovered, it is never allowed again.  Commit 0 is the default branch.  *)
(***************************************************************************)
EXTENDS Integers, FiniteSets

CONSTANTS Workers,        \* worker processes: execute the job, or push what is pending
          NoCommit,       \* no branch, no snapshot
          MaxCommits,     \* bound: commits the coordinator makes
          RetryLimit,     \* 8 attempts in the code
          MaxFaults,      \* bound: failed requests and crashes
          MaxRetries      \* bound: requests of people to run again

Commits == 0..MaxCommits

ASSUME ConstantsAssumption ==
    /\ IsFiniteSet(Workers)
    /\ MaxCommits \in Nat /\ RetryLimit \in Nat \ {0}
    /\ MaxFaults \in Nat /\ MaxRetries \in Nat /\ NoCommit \notin Commits

VARIABLES open,       \* the issue is open in the coordinator's generation
          job,        \* the coordinator's row: status, whether its input says resume
          syncing,    \* a synchronization retry has reset rows and not yet requeued
          made,       \* commits made so far
          past,       \* what each commit contains: itself and its ancestors
          attempts,   \* commits of attempt branches
          tree,       \* the aggregate checkout: present, head, objects
          clones,     \* attempts whose own clone is in the workspace
          branch,     \* head of the checkpoint branch on GitHub
          pushed,     \* attempt branches on GitHub
          rows,       \* agent_publications, by commit
          saved,      \* commit of the snapshot in the checkpoint
          done,       \* the checkpoint is completed
          proc,       \* what each worker does
          budget      \* faults and retries so far

vars == <<open, job, syncing, made, past, attempts, tree, clones, branch, pushed, rows,
          saved, done, proc, budget>>
git == <<made, past, attempts, tree, clones>>
github == <<branch, pushed>>
checkpoint == <<saved, done>>

-----------------------------------------------------------------------------
Unpublished == {"pending", "failed"}
Row(status) == [status |-> status, tries |-> 0]
Pending == {c \in Commits : rows[c].status = "pending"}

(* job_execution_allowed *)
Allowed == open /\ job.status # "cancelled"

(* fence_agent_publication: the trigger's choice for a status it is given. *)
Fence(status) == IF status \in Unpublished /\ ~Allowed THEN "cancelled" ELSE status

OnGitHub(c) ==
    \/ c = 0
    \/ branch # NoCommit /\ c \in past[branch]
    \/ \E a \in pushed : c \in past[a]

(* Objects the workspace holds for a row: in the aggregate checkout, or in *)
(* the clone of an attempt.                                                *)
Local(c) == IF c \in attempts THEN c \in clones ELSE tree.present /\ c \in tree.objects

Idle == [pc |-> "idle", commit |-> 0, then |-> "job", ok |-> FALSE, list |-> {}]

(* process_pending_publications goes through the rows it listed, oldest    *)
(* first.                                                                  *)
Oldest(list) == CHOOSE c \in list : \A other \in list : c <= other
PushOf(list) ==
    IF list = {} THEN Idle
    ELSE [pc |-> "check", commit |-> Oldest(list), then |-> "loop", ok |-> FALSE,
          list |-> list \ {Oldest(list)}]
TakeNext(w) == PushOf(proc[w].list)

Executing(w) == proc[w].pc # "idle" /\ proc[w].then # "loop"
AtWork(w) == proc[w].pc = "work"
Goes(w, pc) == proc' = [proc EXCEPT ![w].pc = pc]

Faulty == budget.faults < MaxFaults /\ budget' = [budget EXCEPT !.faults = @ + 1]
Asked == budget.retries < MaxRetries /\ budget' = [budget EXCEPT !.retries = @ + 1]

(* fail_role_job and stop_role_job *)
EndsJob(w, status) ==
    /\ job' = [job EXCEPT !.status = IF @ = "cancelled" THEN @ ELSE status]
    /\ proc' = [proc EXCEPT ![w] = Idle]

-----------------------------------------------------------------------------
(***************************************************************************)
(* upsert_agent_publication.  A new row is inserted with the status its    *)
(* trigger chose from an unlocked read, and becomes visible later; a row   *)
(* that exists is locked before the trigger reads.                         *)
(***************************************************************************)
\* Mutant of UpsertedRow: the attempts of the row are not counted anew.
KeepsTries(c, status) == [rows[c] EXCEPT !.status = status]
UpsertedRow(c, status) == Row(status)

Publish(w, c, then) ==
    IF rows[c].status = "none"
    THEN proc' = [proc EXCEPT ![w] = [pc |-> "insert", commit |-> c, then |-> then,
                                      ok |-> Fence("pending") = "pending", list |-> {}]]
         /\ rows' = rows
    ELSE /\ rows' = [rows EXCEPT ![c] = UpsertedRow(c, Fence("pending"))]
         /\ proc' = [proc EXCEPT ![w] = [pc |-> "check", commit |-> c, then |-> then,
                                         ok |-> FALSE, list |-> {}]]

Insert(w) ==
    /\ proc[w].pc = "insert"
    /\ rows' = [rows EXCEPT ![proc[w].commit] =
                   Row(IF proc[w].ok THEN "pending" ELSE "cancelled")]
    /\ proc' = [proc EXCEPT ![w].pc = "check", ![w].ok = FALSE]
    /\ UNCHANGED <<open, job, syncing, git, github, checkpoint, budget>>

(***************************************************************************)
(* push_existing_publication: refuse what is not allowed, push without     *)
(* force under the row lock of the workflow, then record the result.       *)
(***************************************************************************)
Refused(w) == IF proc[w].then = "loop" THEN TakeNext(w) ELSE Idle

Check(w) ==
    /\ proc[w].pc = "check"
    /\ proc' = [proc EXCEPT ![w] = IF Allowed THEN [@ EXCEPT !.pc = "git"] ELSE Refused(w)]
    /\ UNCHANGED <<open, job, syncing, git, github, rows, checkpoint, budget>>

FastForward(c) == branch = NoCommit \/ branch \in past[c]
Accepted(c) == Allowed /\ Local(c) /\ (c \in attempts \/ FastForward(c))

\* Mutant of Reported: a branch that is ahead is taken for a published one.
ReportedAhead(c) == Accepted(c) \/ (Allowed /\ Local(c) /\ c \notin attempts)
Reported(c) == Accepted(c)

Lands(c) ==
    /\ branch' = IF c \in attempts THEN branch ELSE c
    /\ pushed' = IF c \in attempts THEN pushed \cup {c} ELSE pushed

Push(w) ==
    LET c == proc[w].commit
    IN  /\ proc[w].pc = "git"
        /\ IF Accepted(c) THEN Lands(c) ELSE UNCHANGED github
        /\ proc' = [proc EXCEPT ![w].pc = "mark", ![w].ok = Reported(c)]
        /\ UNCHANGED <<open, job, syncing, git, rows, checkpoint, budget>>

(* A request fails, or is carried out although its caller gave up. *)
PushFails(w) ==
    LET c == proc[w].commit
    IN  /\ proc[w].pc = "git" /\ Faulty
        /\ \/ UNCHANGED github
           \/ Accepted(c) /\ Lands(c)
        /\ proc' = [proc EXCEPT ![w].pc = "mark", ![w].ok = FALSE]
        /\ UNCHANGED <<open, job, syncing, git, rows, checkpoint>>

(* mark_agent_publication_failed: the error text may hold one of the       *)
(* numbers that mean a refusal, in a commit or a branch name too.          *)
FailedStatus(c) ==
    {"failed"} \cup (IF rows[c].tries >= RetryLimit - 1 THEN {} ELSE {"pending"})

\* Mutant of FailsRun: a wave goes on although its checkpoint was not pushed.
FailsRunLast(p) == p.then = "last"
FailsRun(p) == p.then = "last" \/ (p.then = "wave" /\ ~p.ok)

(* publish_checkpoint and publish_attempt return: a wave's failure ends    *)
(* the run, all others are only logged.  An executor whose job was         *)
(* cancelled is dropped at its next step.                                  *)
Return(w) ==
    LET p == proc[w]
    IN  IF p.then # "loop" /\ FailsRun(p)
        THEN EndsJob(w, "failed")
        ELSE /\ job' = job
             /\ proc' = [proc EXCEPT ![w] =
                    CASE p.then = "final"         -> [Idle EXCEPT !.pc = "complete"]
                      [] p.then = "loop" /\ p.ok  -> [p EXCEPT !.pc = "tidy", !.ok = FALSE]
                      [] p.then = "loop" /\ ~p.ok -> TakeNext(w)
                      [] OTHER                    -> [Idle EXCEPT !.pc = "work"]]

(* Neither update tests the status it replaces. *)
Mark(w) ==
    LET c == proc[w].commit
    IN  /\ proc[w].pc = "mark"
        /\ \/ proc[w].ok /\ rows' = [rows EXCEPT ![c].status = "published"]
           \/ /\ ~proc[w].ok
              /\ \E status \in FailedStatus(c) :
                    rows' = [rows EXCEPT ![c] = [status |-> Fence(status), tries |-> @.tries + 1]]
        /\ Return(w)
        /\ UNCHANGED <<open, syncing, git, github, checkpoint, budget>>

-----------------------------------------------------------------------------
(* process_pending_publications *)

BeginLoop(w) ==
    /\ proc[w].pc = "idle" /\ Pending # {}
    /\ proc' = [proc EXCEPT ![w] = PushOf(Pending)]
    /\ UNCHANGED <<open, job, syncing, git, github, rows, checkpoint, budget>>

\* Mutant of AllPublished: only what will be pushed again keeps the workspace.
NonePending == Pending = {}
AllPublished == \A c \in Commits : rows[c].status \in {"none", "published"}

(* cleanup_published_workspace; a failed coordinator keeps its workspace. *)
Tidy(w) ==
    /\ proc[w].pc = "tidy"
    /\ proc' = [proc EXCEPT ![w] = IF job.status = "completed" /\ AllPublished
                                   THEN [@ EXCEPT !.pc = "remove"] ELSE TakeNext(w)]
    /\ UNCHANGED <<open, job, syncing, git, github, rows, checkpoint, budget>>

NoTree == [present |-> FALSE, head |-> 0, objects |-> {}]

Remove(w) ==
    /\ proc[w].pc = "remove"
    /\ tree' = NoTree /\ clones' = {}
    /\ proc' = [proc EXCEPT ![w] = TakeNext(w)]
    /\ UNCHANGED <<open, job, syncing, made, past, attempts, github, rows, checkpoint, budget>>

-----------------------------------------------------------------------------
(* execute_developer_job: acquisition and build_repository_context *)

Acquire(w) ==
    /\ proc[w].pc = "idle" /\ job.status = "queued" /\ Allowed
    /\ job' = [job EXCEPT !.status = "running"]
    /\ proc' = [proc EXCEPT ![w] = [Idle EXCEPT !.pc = "checkout"]]
    /\ UNCHANGED <<open, syncing, git, github, rows, checkpoint, budget>>

AtCheckout(w) == proc[w].pc = "checkout" /\ Allowed

(* A run that does not resume removes the workspace, clones the default    *)
(* branch and publishes it; the error of that publication is only logged.  *)
FreshTree == [present |-> TRUE, head |-> 0, objects |-> {0}]

CheckoutFresh(w) ==
    /\ AtCheckout(w) /\ ~job.resume
    /\ tree' = FreshTree /\ clones' = {}
    /\ Publish(w, 0, "initial")
    /\ UNCHANGED <<open, job, syncing, made, past, attempts, github, checkpoint, budget>>

CloneFails(w) ==
    /\ AtCheckout(w) /\ ~job.resume /\ Faulty
    /\ tree' = NoTree /\ clones' = {}
    /\ EndsJob(w, "failed")
    /\ UNCHANGED <<open, syncing, made, past, attempts, github, rows, checkpoint>>

(***************************************************************************)
(* checkout_recovery::ensure: the saved commit exactly, from the checkout, *)
(* from a copy of it with all its objects, from the clone of an attempt or *)
(* from GitHub.                                                            *)
(***************************************************************************)
Provenance ==
    saved # NoCommit /\ ~done /\ (saved = 0 \/ rows[saved].status \notin {"none", "cancelled"})
Restored(objects) == tree' = [present |-> TRUE, head |-> saved, objects |-> objects]
InTree == tree.present /\ saved \in tree.objects
InClone == {a \in clones : saved \in past[a]}

CheckoutSaved(w) ==
    /\ AtCheckout(w) /\ job.resume /\ Provenance
    /\ \/ InTree /\ Restored(tree.objects)
       \/ ~InTree /\ \E a \in InClone : Restored(past[a])
       \/ ~InTree /\ InClone = {} /\ OnGitHub(saved) /\ Restored(past[saved])
    /\ Goes(w, "work")
    /\ UNCHANGED <<open, job, syncing, made, past, attempts, clones, github, rows, checkpoint,
                   budget>>

(* "lifecycle recovery blocked; accepted state retained": the commit is    *)
(* not found, the checkpoint does not say which, or Git fails.             *)
Recoverable == Provenance /\ (InTree \/ InClone # {} \/ OnGitHub(saved))
RecoveryBlocked(w) ==
    /\ AtCheckout(w) /\ job.resume
    /\ IF Recoverable THEN Faulty ELSE budget' = budget
    /\ EndsJob(w, "paused")
    /\ UNCHANGED <<open, syncing, git, github, rows, checkpoint>>

-----------------------------------------------------------------------------
(* The lifecycle, as far as it commits, publishes and saves *)

(* "checkpoint cannot be replayed": a run that resumes has a checkpoint,   *)
(* a run that does not has none.                                           *)
Replayable == job.resume = (saved # NoCommit)
Running(w) == AtWork(w) /\ Allowed /\ Replayable /\ ~done

LoadFails(w) ==
    /\ AtWork(w) /\ Allowed /\ ~(Replayable /\ ~done)
    /\ EndsJob(w, "failed")
    /\ UNCHANGED <<open, syncing, git, github, rows, checkpoint, budget>>

CommitOn(parent) ==
    /\ made < MaxCommits
    /\ made' = made + 1
    /\ past' = [past EXCEPT ![made + 1] = past[parent] \cup {made + 1}]

Commit ==
    /\ CommitOn(tree.head)
    /\ attempts' = attempts /\ clones' = clones
    /\ tree' = [tree EXCEPT !.head = made + 1, !.objects = @ \cup {made + 1}]

(* publish_checkpoint after a wave or a planner, with or without changes. *)
PublishWave(w) ==
    /\ Running(w) /\ saved \in {tree.head, NoCommit}
    /\ \/ Commit /\ Publish(w, made + 1, "wave")
       \/ UNCHANGED git /\ Publish(w, tree.head, "wave")
    /\ UNCHANGED <<open, job, syncing, github, checkpoint, budget>>

(* publish_attempt: its own clone of the checkout, its own branch. *)
PublishAttempt(w) ==
    /\ Running(w)
    /\ CommitOn(tree.head)
    /\ attempts' = attempts \cup {made + 1} /\ clones' = clones \cup {made + 1}
    /\ tree' = tree
    /\ Publish(w, made + 1, "attempt")
    /\ UNCHANGED <<open, job, syncing, github, checkpoint, budget>>

(* checkout_recovery::capture and the commit of the checkpoint *)
Captured == tree.head = 0 \/ rows[tree.head].status \notin {"none", "cancelled"}

Save(w) ==
    /\ Running(w) /\ Captured /\ saved' = tree.head
    /\ \/ saved # tree.head /\ UNCHANGED <<job, proc, done>>
       \/ EndsJob(w, "paused") /\ done' = done
       \/ done' = TRUE /\ Goes(w, "finish") /\ job' = job
    /\ UNCHANGED <<open, syncing, git, github, rows, budget>>

Fail(w) ==
    /\ Running(w) /\ Faulty
    /\ EndsJob(w, "failed")
    /\ UNCHANGED <<open, syncing, git, github, rows, checkpoint>>

(* push_developer_branch of the head, with a last commit where checks left *)
(* changes, then the final publication.                                    *)
Finish(w) ==
    /\ proc[w].pc = "finish" /\ Allowed
    /\ \/ Commit
       \/ UNCHANGED git
    /\ LET head == tree'.head
       IN  /\ branch = NoCommit \/ branch \in past'[head]
           /\ branch' = head /\ pushed' = pushed
           /\ Publish(w, head, "final")
    /\ UNCHANGED <<open, job, syncing, checkpoint, budget>>

(* The push is refused or fails: the result is kept as an attempt. *)
FinishFails(w) ==
    /\ proc[w].pc = "finish" /\ Allowed
    /\ IF FastForward(tree.head) THEN Faulty ELSE budget' = budget
    /\ CommitOn(tree.head)
    /\ attempts' = attempts \cup {made + 1} /\ clones' = clones \cup {made + 1}
    /\ tree' = tree
    /\ Publish(w, made + 1, "last")
    /\ UNCHANGED <<open, job, syncing, github, checkpoint>>

(* The pull request was opened or not. *)
Complete(w) ==
    /\ proc[w].pc = "complete" /\ Allowed
    /\ \/ /\ job' = [job EXCEPT !.status = "completed"]
          /\ proc' = [proc EXCEPT ![w] = [Idle EXCEPT !.pc = "tidy", !.then = "loop"]]
          /\ budget' = budget
       \/ Faulty /\ EndsJob(w, "failed")
    /\ UNCHANGED <<open, syncing, git, github, rows, checkpoint>>

-----------------------------------------------------------------------------
(* People, closing, crashes *)

(* resume_latest_paused_job and retry_failed: the same coordinator resumes *)
Resume ==
    /\ job.status \in {"paused", "failed"} /\ Allowed /\ Asked
    /\ saved # NoCommit /\ ~done
    /\ job' = [status |-> "queued", resume |-> TRUE]
    /\ UNCHANGED <<open, syncing, git, github, rows, checkpoint, proc>>

(* api_retry_publication *)
RetryPublication ==
    /\ Allowed /\ Asked
    /\ \E c \in Commits :
          rows[c].status = "failed" /\ rows' = [rows EXCEPT ![c] = Row("pending")]
    /\ UNCHANGED <<open, job, syncing, git, github, checkpoint, proc>>

(* api_retry_workflow_sync: failed rows first, then requeue_failed_job,    *)
(* which leaves the input of the job as it is.                             *)
RetrySync ==
    /\ Allowed /\ Asked /\ \E c \in Commits : rows[c].status = "failed"
    /\ rows' = [c \in Commits |-> IF rows[c].status = "failed" THEN Row("pending") ELSE rows[c]]
    /\ syncing' = TRUE
    /\ UNCHANGED <<open, job, git, github, checkpoint, proc>>

Requeue ==
    /\ syncing /\ syncing' = FALSE
    /\ job' = [job EXCEPT !.status = IF @ = "failed" THEN (IF open THEN "queued" ELSE "cancelled")
                                     ELSE @]
    /\ UNCHANGED <<open, git, github, rows, checkpoint, proc, budget>>

CancelRows ==
    [c \in Commits |-> IF rows[c].status \in Unpublished
                       THEN [rows[c] EXCEPT !.status = "cancelled"] ELSE rows[c]]

(* observe_issue; a push holds the row lock while it is under way, which   *)
(* is one step here.                                                       *)
Close ==
    /\ open /\ open' = FALSE
    /\ job' = [job EXCEPT !.status = IF @ \in {"queued", "running", "paused"} THEN "cancelled" ELSE @]
    /\ rows' = CancelRows
    /\ UNCHANGED <<syncing, git, github, checkpoint, proc, budget>>

(* fence_expired_jobs, once the executor's lease has run out *)
Recover ==
    /\ job.status = "running" /\ \A w \in Workers : ~Executing(w)
    /\ job' = [job EXCEPT !.status = "cancelled"]
    /\ rows' = CancelRows
    /\ UNCHANGED <<open, syncing, git, github, checkpoint, proc, budget>>

(* An execution of a cancelled job is dropped between two statements. *)
Drop(w) ==
    /\ Executing(w) /\ proc[w].pc # "insert" /\ ~Allowed
    /\ proc' = [proc EXCEPT ![w] = Idle]
    /\ UNCHANGED <<open, job, syncing, git, github, rows, checkpoint, budget>>

Crash(w) ==
    /\ proc[w].pc \notin {"idle", "insert"} /\ Faulty
    /\ proc' = [proc EXCEPT ![w] = Idle]
    /\ UNCHANGED <<open, job, syncing, git, github, rows, checkpoint>>

-----------------------------------------------------------------------------
Init ==
    /\ open = TRUE /\ syncing = FALSE
    /\ job = [status |-> "queued", resume |-> FALSE]
    /\ made = 0 /\ past = [c \in Commits |-> IF c = 0 THEN {0} ELSE {}] /\ attempts = {}
    /\ tree = NoTree /\ clones = {}
    /\ branch = NoCommit /\ pushed = {}
    /\ rows = [c \in Commits |-> Row("none")]
    /\ saved = NoCommit /\ done = FALSE
    /\ proc = [w \in Workers |-> Idle]
    /\ budget = [faults |-> 0, retries |-> 0]

Pushing(w) == Insert(w) \/ Check(w) \/ Push(w) \/ PushFails(w) \/ Mark(w)
Looping(w) == BeginLoop(w) \/ Tidy(w) \/ Remove(w)
Working(w) ==
    \/ Acquire(w) \/ CheckoutFresh(w) \/ CloneFails(w) \/ CheckoutSaved(w) \/ RecoveryBlocked(w)
    \/ LoadFails(w) \/ PublishWave(w) \/ PublishAttempt(w) \/ Save(w) \/ Fail(w)
    \/ Finish(w) \/ FinishFails(w) \/ Complete(w)
Ending(w) == Drop(w) \/ Crash(w)
Outside == Resume \/ RetryPublication \/ RetrySync \/ Requeue \/ Close \/ Recover

Next == Outside \/ \E w \in Workers : Pushing(w) \/ Looping(w) \/ Working(w) \/ Ending(w)
Spec == Init /\ [][Next]_vars

-----------------------------------------------------------------------------
Statuses == {"none", "pending", "published", "failed", "cancelled"}

TypeOK ==
    /\ open \in BOOLEAN /\ syncing \in BOOLEAN /\ done \in BOOLEAN
    /\ job \in [status : {"queued", "running", "paused", "failed", "completed", "cancelled"},
               resume : BOOLEAN]
    /\ made \in Commits /\ past \in [Commits -> SUBSET (0..made)]
    /\ attempts \subseteq 1..made /\ clones \subseteq attempts
    /\ tree \in [present : BOOLEAN, head : Commits, objects : SUBSET Commits]
    /\ branch \in Commits \cup {NoCommit} /\ pushed \subseteq attempts
    /\ rows \in [Commits -> [status : Statuses, tries : 0..RetryLimit + Cardinality(Workers)]]
    /\ saved \in Commits \cup {NoCommit}
    /\ proc \in [Workers -> [pc : {"idle", "insert", "check", "git", "mark", "tidy",
                                  "remove", "checkout", "work", "finish", "complete"},
                            commit : Commits, ok : BOOLEAN, list : SUBSET Commits,
                            then : {"job", "loop", "initial", "wave", "attempt", "last", "final"}]]

(* What the dashboard shows as published is on GitHub, whatever loops and  *)
(* executors pushed, failed or retried at the same time.                   *)
PublishedOnGitHub == \A c \in Commits : rows[c].status = "published" => OnGitHub(c)

(* The work people accepted is on the checkpoint branch, so a lost or      *)
(* removed workspace never loses it, and no later push takes it away.      *)
SavedOnBranch == saved \in {NoCommit, 0} \/ (branch # NoCommit /\ saved \in past[branch])

(* What exists nowhere but in the workspace, and is gone with it. *)
Lost == {c \in Commits : rows[c].status \in Unpublished /\ ~Local(c) /\ ~OnGitHub(c)}

(* Removing the workspace of a completed run never discards a result that  *)
(* was not published.                                                      *)
CleanupKeepsUnpublished == [][job.status = "completed" => Lost' \subseteq Lost]_vars

(* A publication error retains the workspace for a retry. *)
RetainsUnpublished == open => Lost = {}

=============================================================================
