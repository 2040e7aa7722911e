----------------------------- MODULE PullRequest -----------------------------
(***************************************************************************)
(* A managed pull request after it was opened (api/pr_revision.rs,         *)
(* db/pr_revisions.rs, worker/pr_revision.rs, api/ingress.rs): commands    *)
(* posted on it start or resume revisions, workers edit its branch behind  *)
(* a draft, publish and make it ready again, while webhooks report what    *)
(* GitHub shows, reviews and base merges run beside it, and people push,   *)
(* close and reopen.  Built-in lifecycle; the issue stays open in one      *)
(* generation (closing it is JobFence's subject).                          *)
(*                                                                         *)
(* Pushes to the branch are never forced, so it only grows and the commits *)
(* on it are in the order of their numbers.  Commit 0 opened it.           *)
(***************************************************************************)
EXTENDS Integers, FiniteSets, Sequences

CONSTANTS Pollers,        \* pollers of the repository's comments
          Requests,       \* requests with a webhook or an event of the feed
          Workers,        \* worker processes
          Comments,       \* commands people post on the pull request
          Approvals,      \* comments that approve; the others are "/revise"
          Authorized,     \* comments whose author may decide
          Reviewer,       \* policy.agents.reviewer.enabled
          Repair,         \* policy.agents.repair.enabled
          MaxJobs,        \* bound: jobs of the workflow
          MaxCommits,     \* bound: commits after the first
          MaxMail,        \* bound: webhooks on their way; the others are lost
          MaxPeople,      \* bound: pushes, closings, draft changes by people
          MaxFaults       \* bound: failed requests, lost answers, crashes

ASSUME ConstantsAssumption ==
    /\ Pollers \cap Requests = {} /\ Approvals \subseteq Comments
    /\ Authorized \subseteq Comments /\ {Reviewer, Repair} \subseteq BOOLEAN
    /\ {MaxJobs, MaxCommits, MaxMail, MaxPeople, MaxFaults} \subseteq Nat

VARIABLES github,      \* the pull request: open, draft, head, the head the API shows, base
          ready,       \* history: who made it ready last, and on which commit
          made,        \* commits made so far
          branch,      \* commits on the pull request's branch
          mail,        \* webhooks on their way
          row,         \* the row of pull_requests: state, head and base
          state,       \* current_state of the workflow
          jobs,        \* the workflow's jobs in the order of their creation
          receipts,    \* comments with a row in webhook_deliveries
          applied,     \* history: how often a comment queued work
          handler,     \* what each poller and request does
          worker,      \* what each worker does
          budget       \* what people did and what failed so far

vars == <<github, ready, made, branch, mail, row, state, jobs, receipts, applied,
          handler, worker, budget>>
repository == <<github, ready, made, branch, mail>>
database == <<row, state, jobs, receipts>>

Handlers == Pollers \cup Requests
Commits == 0..MaxCommits
None == -1

-----------------------------------------------------------------------------
(* Rows *)

Ids == 1..Len(jobs)
Revisions == {j \in Ids : jobs[j].role = "revision"}
Dispatched == {"queued", "running"}                              \* and leased
Unfinished == Dispatched \cup {"paused", "cancel_requested"}
Busy == \E j \in Ids : jobs[j].status \in Dispatched
Active == {j \in Revisions : jobs[j].status \in Unfinished}
Published == {j \in Revisions : jobs[j].publication = "published"}

(* A job with its input's pull request: head and base, and for a revision  *)
(* its row of pr_revisions.                                                *)
Job(role, head, base, comment) ==
    [role |-> role, status |-> "queued", head |-> head, base |-> base, comment |-> comment,
     resume |-> FALSE, publication |-> "none", sha |-> None]
Insert(new) == jobs' = Append(jobs, new)
Room == Len(jobs) < MaxJobs

Latest(set) == CHOOSE j \in set : \A other \in set : other <= j

(* pr_revisions::source: the last job whose result is on the branch. *)
Source == IF row.state = "closed" THEN None ELSE Latest({1} \cup Published)

Upset(kind, limit) == budget[kind] < limit /\ budget' = [budget EXCEPT ![kind] = @ + 1]
Faulty == Upset("faults", MaxFaults)
ByPeople == Upset("people", MaxPeople)

-----------------------------------------------------------------------------
(* Side effects hold the workflow row; whoever needs it waits. *)

HoldsRow == {"push", "mutate", "restore"}
Free == \A w \in Workers : worker[w].pc \notin HoldsRow

IdleWorker == [pc |-> "idle", job |-> 0, head |-> None, base |-> 0, state |-> "none"]
Works(w, pc) == worker[w].pc = pc
Goes(w, pc) == worker' = [worker EXCEPT ![w].pc = pc]
Rests(w) == worker' = [worker EXCEPT ![w] = IdleWorker]
Mine(w) == jobs[worker[w].job]

(* lock_job_side_effect: the row is free and the job not cancelled. *)
Allowed(w) == Mine(w).status \notin {"cancel_requested", "cancelled"}

-----------------------------------------------------------------------------
(* GitHub: a webhook shows the pull request as it became. *)

Notice(g, reviews) ==
    [kind |-> "pr", reviews |-> reviews, open |-> g.open, draft |-> g.draft,
     head |-> g.head, base |-> g.base]
Sends(notice) == mail' = IF Cardinality(mail) < MaxMail THEN mail \cup {notice} ELSE mail
Changes(g, reviews) == github' = g /\ Sends(Notice(g, reviews))

SetsDraft(draft) ==
    IF github.draft = draft THEN UNCHANGED <<github, mail>>
    ELSE Changes([github EXCEPT !.draft = draft], ~draft)

(* A normal push; the API may still show the previous head for a while. *)
\* Mutant of FastForward: the push is forced.
Forced(base) == TRUE
FastForward(base) == github.head = base
Lands(commit) ==
    /\ branch' = branch \cup {commit}
    /\ IF commit = github.head THEN UNCHANGED <<github, mail>>
       ELSE Changes([github EXCEPT !.head = commit], TRUE)

Refresh ==
    /\ github.shown # github.head /\ github' = [github EXCEPT !.shown = github.head]
    /\ UNCHANGED <<ready, made, branch, mail, database, applied, handler, worker, budget>>

NewCommit == made < MaxCommits /\ made' = made + 1

PersonPushes ==
    /\ github.open /\ ByPeople /\ NewCommit /\ Lands(made + 1)
    /\ UNCHANGED <<ready, database, applied, handler, worker>>

PersonCloses ==
    /\ ByPeople /\ Changes([github EXCEPT !.open = ~@], ~github.open)
    /\ UNCHANGED <<ready, made, branch, database, applied, handler, worker>>

PersonDrafts ==
    /\ github.open /\ ByPeople /\ SetsDraft(~github.draft)
    /\ ready' = [by |-> "person", head |-> github.head]
    /\ UNCHANGED <<made, branch, database, applied, handler, worker>>

BaseMoves ==
    /\ ByPeople /\ github' = [github EXCEPT !.base = @ + 1]
    /\ Sends([kind |-> "base", base |-> github.base + 1])
    /\ UNCHANGED <<ready, made, branch, database, applied, handler, worker>>

-----------------------------------------------------------------------------
(* persist_pull_request_webhook: in any order, or never *)

\* Mutant of Cancelled: a revision that waits for a decision is kept.
CancelledNow(j) ==
    CASE j.role = "revision" /\ j.status = "running" -> "cancel_requested"
      [] j.role = "revision" /\ j.status = "queued"  -> "cancelled"
      [] OTHER                                       -> j.status
Cancelled(j) ==
    CASE j.role = "revision" /\ j.status = "running"              -> "cancel_requested"
      [] j.role = "revision" /\ j.status \in {"queued", "paused"} -> "cancelled"
      [] OTHER                                                    -> j.status

(* apply_pull_request_effects: an active revision keeps its state while    *)
(* the pull request is open and is cancelled once it is not.               *)
JobsAfter(notice) ==
    IF notice.open THEN jobs ELSE [j \in Ids |-> [jobs[j] EXCEPT !.status = Cancelled(jobs[j])]]
StateAfter(notice) ==
    IF ~notice.open THEN "pr_closed" ELSE IF Active # {} THEN state ELSE "pr_open"

Checked(role, head, base) ==
    \E j \in Ids : /\ jobs[j].role = role /\ jobs[j].head = head
                   /\ role = "repair" => jobs[j].base = base
                   /\ jobs[j].status \in Dispatched \cup {"completed"}

NeedsReview(notice) ==
    /\ Reviewer /\ notice.reviews /\ notice.open /\ ~notice.draft
    /\ ~Checked("reviewer", notice.head, notice.base)

DeliverNotice(notice) ==
    /\ notice.kind = "pr" /\ Free
    /\ mail' = mail \ {notice}
    /\ row' = [state |-> IF notice.open THEN "open" ELSE "closed",
               head |-> notice.head, base |-> notice.base]
    /\ state' = StateAfter(notice)
    /\ IF NeedsReview(notice)
       THEN Room /\ Insert(Job("reviewer", notice.head, notice.base, 0))
       ELSE jobs' = JobsAfter(notice)
    /\ UNCHANGED <<github, ready, made, branch, receipts, applied, handler, worker, budget>>

(* persist_push_webhook: a repair check for an open pull request *)
DeliverBase(notice) ==
    /\ notice.kind = "base" /\ Free
    /\ mail' = mail \ {notice}
    /\ IF Repair /\ row.state = "open" /\ ~Checked("repair", row.head, notice.base)
       THEN Room /\ Insert(Job("repair", row.head, notice.base, 0))
       ELSE jobs' = jobs
    /\ UNCHANGED <<github, ready, made, branch, row, state, receipts, applied, handler, worker, budget>>

-----------------------------------------------------------------------------
(***************************************************************************)
(* api/pr_revision.rs persist: one copy of a command.  Webhook, feed and   *)
(* poller deliver copies; only the receipt tells them apart.               *)
(***************************************************************************)
IdleHandler == [pc |-> "idle", comment |-> 0, source |-> None, head |-> None, base |-> 0,
                job |-> 0, rejected |-> FALSE]

Handles(h, pc) == handler[h].pc = pc
Continues(h, pc) == handler' = [handler EXCEPT ![h].pc = pc]
Rejects(h) == handler' = [handler EXCEPT ![h].pc = "record", ![h].rejected = TRUE]

(* A poller remembers every comment that queued nothing. *)
Answered(h, c, queued) ==
    handler' = [handler EXCEPT ![h] =
                   IF h \in Pollers /\ ~queued /\ c \notin receipts
                   THEN [IdleHandler EXCEPT !.pc = "remember", !.comment = c]
                   ELSE IdleHandler]

Receive(h) ==
    /\ Handles(h, "idle")
    /\ \E c \in Comments \ receipts :
          IF Source = None
          THEN Answered(h, c, FALSE)
          ELSE handler' = [handler EXCEPT ![h].pc = "look", ![h].comment = c, ![h].source = Source]
    /\ UNCHANGED <<repository, database, applied, worker, budget>>

Look(h) ==
    /\ Handles(h, "look")
    /\ IF handler[h].comment \in Authorized /\ github.open
       THEN handler' = [handler EXCEPT ![h].pc = "register", ![h].head = github.shown,
                                       ![h].base = github.base]
       ELSE Rejects(h)
    /\ UNCHANGED <<repository, database, applied, worker, budget>>

(* The pull request that was seen open is registered as open. *)
Register(h) ==
    /\ Handles(h, "register")
    /\ row' = [state |-> "open", head |-> handler[h].head, base |-> handler[h].base]
    /\ Continues(h, "active")
    /\ UNCHANGED <<repository, state, jobs, receipts, applied, worker, budget>>

(* pr_revisions::active *)
ReadActive(h) ==
    /\ Handles(h, "active")
    /\ IF Active # {}
       THEN IF jobs[Latest(Active)].status = "paused"
            THEN handler' = [handler EXCEPT ![h].pc = "resume", ![h].job = Latest(Active)]
            ELSE Rejects(h)
       ELSE IF handler[h].comment \in Approvals THEN Rejects(h) ELSE Continues(h, "reconcile")
    /\ UNCHANGED <<repository, database, applied, worker, budget>>

Queue(c, newState) == applied' = [applied EXCEPT ![c] = @ + 1] /\ state' = newState

(* pr_revisions::resume: receipt, decision and job in one transaction *)
MayResume(h) ==
    LET j == jobs[handler[h].job]
    IN  j.status = "paused" /\ row.state = "open" /\ j.head = handler[h].head /\ ~Busy

Resume(h) ==
    LET c == handler[h].comment
        j == handler[h].job
    IN  /\ Handles(h, "resume") /\ Free
        /\ IF c \notin receipts /\ MayResume(h)
           THEN /\ receipts' = receipts \cup {c}
                /\ jobs' = [jobs EXCEPT ![j].status = "queued", ![j].resume = TRUE]
                /\ Queue(c, "in_progress") /\ Answered(h, c, TRUE)
           ELSE /\ IF c \in receipts THEN Answered(h, c, FALSE) ELSE Rejects(h)
                /\ UNCHANGED <<receipts, jobs, state, applied>>
        /\ UNCHANGED <<repository, row, worker, budget>>

(***************************************************************************)
(* pending_publication: the push of an attempt that ended may have landed. *)
(* The branch the API shows decides, then the source is read again.        *)
(***************************************************************************)
Pending == {j \in Revisions : /\ jobs[j].publication = "publishing"
                              /\ jobs[j].status \in {"completed", "failed", "cancelled"}}
\* Mutant of Contains: the intent is taken for the push.
ContainsIntent(head, sha) == TRUE
Contains(head, sha) == sha \in branch /\ sha <= head

Reconcile(h) ==
    /\ Handles(h, "reconcile")
    /\ IF Pending # {} /\ Contains(handler[h].head, jobs[Latest(Pending)].sha)
       THEN handler' = [handler EXCEPT ![h].pc = "published", ![h].job = Latest(Pending)]
       ELSE Continues(h, "enqueue")
    /\ UNCHANGED <<repository, database, applied, worker, budget>>

MarkReconciled(h) ==
    /\ Handles(h, "published")
    /\ jobs' = [jobs EXCEPT ![handler[h].job].publication = "published"]
    /\ handler' = [handler EXCEPT ![h].pc = "source"]
    /\ UNCHANGED <<repository, row, state, receipts, applied, worker, budget>>

(* "Recovered PR continuation is unavailable" is an error. *)
ReadSource(h) ==
    /\ Handles(h, "source")
    /\ handler' = [handler EXCEPT ![h] = IF Source = None THEN IdleHandler
                                         ELSE [@ EXCEPT !.pc = "enqueue", !.source = Source]]
    /\ UNCHANGED <<repository, database, applied, worker, budget>>

(* pr_revisions::enqueue: the comment's own row is its only duplicate test, *)
(* and the receipt is left to record_authorization.                         *)
Requested(c) == \E j \in Revisions : jobs[j].comment = c
Eligible(h) ==
    /\ \A j \in Ids : jobs[j].status \notin Unfinished
    /\ row.state = "open"
    /\ \A j \in Published : j <= handler[h].source

Enqueue(h) ==
    LET c == handler[h].comment
    IN  /\ Handles(h, "enqueue") /\ Free
        /\ IF ~Requested(c) /\ Eligible(h)
           THEN /\ Room /\ Insert(Job("revision", handler[h].head, handler[h].base, c))
                /\ Queue(c, "in_progress") /\ Continues(h, "record")
           ELSE /\ IF Requested(c) THEN Answered(h, c, FALSE) ELSE Rejects(h)
                /\ UNCHANGED <<jobs, state, applied>>
        /\ UNCHANGED <<repository, row, receipts, worker, budget>>

(* record_authorization: receipt, and the notice of a rejection *)
Record(h) ==
    LET c == handler[h].comment
    IN  /\ Handles(h, "record")
        /\ receipts' = receipts \cup {c}
        /\ handler' = [handler EXCEPT ![h] = IdleHandler]
        /\ UNCHANGED <<repository, row, state, jobs, applied, worker, budget>>

Remember(h) ==
    /\ Handles(h, "remember")
    /\ receipts' = receipts \cup {handler[h].comment}
    /\ handler' = [handler EXCEPT ![h] = IdleHandler]
    /\ UNCHANGED <<repository, row, state, jobs, applied, worker, budget>>

FailRequest(h) ==
    /\ ~Handles(h, "idle") /\ Faulty
    /\ handler' = [handler EXCEPT ![h] = IdleHandler]
    /\ UNCHANGED <<repository, database, applied, worker>>

-----------------------------------------------------------------------------
(* reconcile_pr_repair_jobs: list, then create, with no lock between *)

ListRepair(w) ==
    /\ Works(w, "idle") /\ Repair
    /\ row.state = "open" /\ ~Checked("repair", row.head, row.base)
    /\ worker' = [worker EXCEPT ![w].pc = "create", ![w].head = row.head, ![w].base = row.base]
    /\ UNCHANGED <<repository, database, applied, handler, budget>>

CreateRepair(w) ==
    /\ Works(w, "create") /\ Room
    /\ Insert(Job("repair", worker[w].head, worker[w].base, 0)) /\ Rests(w)
    /\ UNCHANGED <<repository, row, state, receipts, applied, handler, budget>>

-----------------------------------------------------------------------------
(* Workers: the oldest queued job, one workflow's jobs side by side *)

Starts == [revision |-> "begin", reviewer |-> "review", repair |-> "merge"]

Take(w) ==
    /\ Works(w, "idle")
    /\ \E j \in Ids :
          /\ jobs[j].status = "queued" /\ \A i \in 1..(j - 1) : jobs[i].status # "queued"
          /\ jobs' = [jobs EXCEPT ![j].status = "running"]
          /\ worker' = [worker EXCEPT ![w].pc = Starts[jobs[j].role], ![w].job = j]
    /\ UNCHANGED <<repository, row, state, receipts, applied, handler, budget>>

(* update_workflow_state_for_job: not for a cancelled job *)
Projects(w, newState) == Free /\ state' = IF Allowed(w) THEN newState ELSE state

(* complete_job, fail_job and pause_job end a running job; its state        *)
(* follows in a statement of its own.                                       *)
Ends(w, status, newState) ==
    /\ jobs' = [jobs EXCEPT ![worker[w].job].status = IF @ = "running" THEN status ELSE @]
    /\ worker' = [worker EXCEPT ![w].pc = "report", ![w].state = newState]
Fails(w) == Ends(w, "failed", "blocked")
GivesUp(w) == Ends(w, "completed", "needs_human")

Report(w) ==
    /\ Works(w, "report") /\ Projects(w, worker[w].state) /\ Rests(w)
    /\ UNCHANGED <<repository, row, jobs, receipts, applied, handler, budget>>

Began == [begin |-> "prepare", conflict |-> "repair"]

Begin(w) ==
    /\ worker[w].pc \in DOMAIN Began
    /\ Projects(w, "in_progress") /\ Goes(w, Began[worker[w].pc])
    /\ UNCHANGED <<repository, row, jobs, receipts, applied, handler, budget>>

(* A review ends with a verdict or fails. *)
Review(w) ==
    /\ Works(w, "review")
    /\ Fails(w) \/ \E s \in {"pr_open", "needs_human", "blocked"} : Ends(w, "completed", s)
    /\ UNCHANGED <<repository, row, state, receipts, applied, handler, budget>>

(* prepare_repair_input: the branch is fetched and its base merged here *)
MergeBase(w) ==
    /\ Works(w, "merge")
    /\ \/ Fails(w) \/ Ends(w, "completed", "pr_open")
       \/ /\ worker' = [worker EXCEPT ![w].pc = "conflict", ![w].head = github.head]
          /\ jobs' = jobs
    /\ UNCHANGED <<repository, row, state, receipts, applied, handler, budget>>

(* execute_repair_job: push_repair_branch is one push of a new commit *)
RunRepair(w) ==
    /\ Works(w, "repair")
    /\ \/ /\ Fails(w) \/ \E s \in {"needs_human", "blocked"} : Ends(w, "completed", s)
          /\ UNCHANGED <<github, made, branch, mail, budget>>
       \/ /\ Free /\ Allowed(w) /\ FastForward(worker[w].head) /\ NewCommit /\ Lands(made + 1)
          /\ \/ Ends(w, "completed", "pr_open") /\ UNCHANGED budget
             \/ Faulty /\ Fails(w)
    /\ UNCHANGED <<ready, row, state, receipts, applied, handler>>

-----------------------------------------------------------------------------
(* worker/pr_revision.rs: prepare *)

(* The checks of validate_live_pr.  A fresh revision has no base yet. *)
Live(w) == github.open /\ github.shown = Mine(w).head

(* The draft is the first thing a revision does to the pull request. *)
Draft(w) ==
    /\ Works(w, "prepare") /\ Free
    /\ IF Allowed(w) /\ github.open /\ (Mine(w).resume => Live(w))
       THEN \/ /\ SetsDraft(TRUE) /\ Goes(w, IF Mine(w).resume THEN "agent" ELSE "checkout")
               /\ UNCHANGED <<jobs, budget>>
            \/ SetsDraft(TRUE) /\ Faulty /\ Fails(w)
       ELSE Fails(w) /\ UNCHANGED <<github, mail, budget>>
    /\ UNCHANGED <<ready, made, branch, row, state, receipts, applied, handler>>

(* "The checked-out commit is the input actually used." *)
Checkout(w) ==
    /\ Works(w, "checkout")
    /\ jobs' = [jobs EXCEPT ![worker[w].job].head = github.head,
                            ![worker[w].job].resume = @ \/ Mine(w).status = "running"]
    /\ Goes(w, "agent")
    /\ UNCHANGED <<repository, row, state, receipts, applied, handler, budget>>

(* The agent and the required checks; a human pause keeps the attempt. *)
RunAgent(w) ==
    /\ Works(w, "agent")
    /\ \/ Ends(w, "paused", "needs_human") \/ Ends(w, "completed", "blocked") \/ Fails(w)
       \/ Goes(w, "publish") /\ jobs' = jobs
    /\ UNCHANGED <<repository, row, state, receipts, applied, handler, budget>>

-----------------------------------------------------------------------------
(* publish: the intent is recorded before the push, the result after it *)

Commit(w) ==
    /\ Works(w, "publish")
    /\ IF Live(w)
       THEN /\ \/ NewCommit \/ UNCHANGED made
            /\ jobs' = [jobs EXCEPT ![worker[w].job].publication = "publishing",
                                    ![worker[w].job].sha =
                                        IF made' = made THEN Mine(w).head ELSE made']
            /\ Goes(w, "recheck")
       ELSE GivesUp(w) /\ UNCHANGED made
    /\ UNCHANGED <<github, ready, branch, mail, row, state, receipts, applied, handler, budget>>

Recheck(w) ==
    /\ Works(w, "recheck") /\ Free
    /\ IF Allowed(w) /\ Live(w)
       THEN SetsDraft(TRUE) /\ Goes(w, "push") /\ UNCHANGED jobs
       ELSE GivesUp(w) /\ UNCHANGED <<github, mail>>
    /\ UNCHANGED <<ready, made, branch, row, state, receipts, applied, handler, budget>>

(* A rejected push and one whose answer is lost look the same. *)
Push(w) ==
    /\ Works(w, "push")
    /\ \/ FastForward(Mine(w).head) /\ Lands(Mine(w).sha)
          /\ \/ Goes(w, "mark") /\ UNCHANGED <<jobs, budget>>
             \/ Faulty /\ GivesUp(w)
       \/ ~FastForward(Mine(w).head) /\ GivesUp(w) /\ UNCHANGED <<github, branch, mail, budget>>
    /\ UNCHANGED <<ready, made, row, state, receipts, applied, handler>>

MarkPublished(w) ==
    /\ Works(w, "mark")
    /\ jobs' = [jobs EXCEPT ![worker[w].job].publication = "published"]
    /\ Goes(w, "ready")
    /\ UNCHANGED <<repository, row, state, receipts, applied, handler, budget>>

-----------------------------------------------------------------------------
(* mark_ready: at most a few attempts, each with the row *)

Ready(w) ==
    /\ Works(w, "ready") /\ Free
    /\ IF Allowed(w) /\ github.open /\ github.shown = Mine(w).sha
       THEN IF github.draft THEN Goes(w, "mutate") /\ UNCHANGED jobs
                            ELSE Ends(w, "completed", "pr_open")
       ELSE GivesUp(w)
    /\ UNCHANGED <<repository, row, state, receipts, applied, handler, budget>>

MadeReady ==
    /\ SetsDraft(FALSE)
    /\ ready' = IF github.draft THEN [by |-> "donkeyspace", head |-> github.head] ELSE ready

\* Mutant of Endorsed: the head in the answer is not compared.
EndorsedUnseen(w, head) == TRUE
Endorsed(w, head) == head = Mine(w).sha

(* GraphQL takes no expected head: the answer tells which one was endorsed. *)
Mutate(w) ==
    /\ Works(w, "mutate")
    /\ \/ /\ github.open /\ MadeReady /\ UNCHANGED budget
          /\ IF Endorsed(w, github.head)
             THEN Ends(w, "completed", "pr_open")
             ELSE Goes(w, "restore") /\ jobs' = jobs
       \/ /\ github.open /\ MadeReady /\ Faulty                  \* the answer is lost
          /\ Goes(w, "restore") /\ jobs' = jobs
       \/ ~github.open /\ GivesUp(w) /\ UNCHANGED <<github, ready, mail, budget>>
    /\ UNCHANGED <<made, branch, row, state, receipts, applied, handler>>

(* "restoring draft also failed" *)
Unconfirmed == ready' = [ready EXCEPT !.by = "unconfirmed"]

Restore(w) ==
    /\ Works(w, "restore") /\ GivesUp(w)
    /\ \/ github.open /\ SetsDraft(TRUE) /\ UNCHANGED <<ready, budget>>
       \/ ~github.open /\ Unconfirmed /\ UNCHANGED <<github, mail, budget>>
       \/ Faulty /\ Unconfirmed /\ UNCHANGED <<github, mail>>
    /\ UNCHANGED <<made, branch, row, state, receipts, applied, handler>>

-----------------------------------------------------------------------------
(* A worker ends; another one recovers what it ran (JobFence). *)

Crash(w) ==
    /\ ~Works(w, "idle") /\ Faulty /\ Rests(w)
    /\ \/ UNCHANGED <<github, branch, mail>>
          /\ IF Works(w, "restore") THEN Unconfirmed ELSE UNCHANGED ready
       \/ /\ Works(w, "push") /\ FastForward(Mine(w).head) /\ Lands(Mine(w).sha)
          /\ UNCHANGED ready
       \/ /\ Works(w, "mutate") /\ github.open /\ github.draft
          /\ SetsDraft(FALSE) /\ ready' = [by |-> "unconfirmed", head |-> github.head]
          /\ UNCHANGED branch
    /\ UNCHANGED <<made, database, applied, handler>>

Unattended(j) == \A w \in Workers : worker[w].job # j

Recover(j) ==
    /\ j \in Ids /\ jobs[j].status = "running" /\ Unattended(j) /\ Free
    /\ jobs' = [jobs EXCEPT ![j].status = "cancel_requested"]
    /\ state' = "needs_human"
    /\ UNCHANGED <<repository, row, receipts, applied, handler, worker, budget>>

Acknowledge(j) ==
    /\ j \in Ids /\ jobs[j].status = "cancel_requested" /\ Unattended(j)
    /\ jobs' = [jobs EXCEPT ![j].status = "cancelled"]
    /\ UNCHANGED <<repository, row, state, receipts, applied, handler, worker, budget>>

(* The monitor drops the work of a job that was cancelled, or that was      *)
(* paused and handed out again, but never a side effect.                   *)
Lost(w) == ~Allowed(w) \/ (Works(w, "report") /\ Mine(w).status \in Dispatched)
Drop(w) ==
    /\ worker[w].job # 0 /\ Lost(w) /\ worker[w].pc \notin HoldsRow /\ Rests(w)
    /\ UNCHANGED <<repository, database, applied, handler, budget>>

-----------------------------------------------------------------------------
(* The pull request was just opened for the implemented issue. *)
Init ==
    /\ github = [open |-> TRUE, draft |-> FALSE, head |-> 0, shown |-> 0, base |-> 0]
    /\ ready = [by |-> "opened", head |-> 0]
    /\ made = 0 /\ branch = {0} /\ mail = {Notice(github, TRUE)}
    /\ row = [state |-> "none", head |-> None, base |-> 0]
    /\ state = "pr_open"
    /\ jobs = <<[Job("developer", 0, 0, 0) EXCEPT !.status = "completed"]>>
    /\ receipts = {} /\ applied = [c \in Comments |-> 0]
    /\ handler = [h \in Handlers |-> IdleHandler]
    /\ worker = [w \in Workers |-> IdleWorker]
    /\ budget = [people |-> 0, faults |-> 0]

GitHub ==
    \/ Refresh \/ PersonPushes \/ PersonCloses \/ PersonDrafts \/ BaseMoves
    \/ \E notice \in mail : DeliverNotice(notice) \/ DeliverBase(notice)

Admission(h) ==
    \/ Receive(h) \/ Look(h) \/ Register(h) \/ ReadActive(h) \/ Resume(h) \/ Reconcile(h)
    \/ MarkReconciled(h) \/ ReadSource(h) \/ Enqueue(h) \/ Record(h) \/ Remember(h)
    \/ FailRequest(h)

Work(w) ==
    \/ ListRepair(w) \/ CreateRepair(w) \/ Take(w) \/ Begin(w) \/ Report(w)
    \/ Review(w) \/ MergeBase(w) \/ RunRepair(w)
    \/ Draft(w) \/ Checkout(w) \/ RunAgent(w)
    \/ Commit(w) \/ Recheck(w) \/ Push(w) \/ MarkPublished(w)
    \/ Ready(w) \/ Mutate(w) \/ Restore(w)
    \/ Crash(w) \/ Drop(w)

Next ==
    \/ GitHub
    \/ \E h \in Handlers : Admission(h)
    \/ \E w \in Workers : Work(w)
    \/ \E j \in Ids : Recover(j) \/ Acknowledge(j)

Spec == Init /\ [][Next]_vars

-----------------------------------------------------------------------------
(* Properties *)

(* Every variable keeps its type, a worker's job is one that was started,  *)
(* and the branch ends in its head.                                        *)
TypeOK ==
    /\ github \in [open : BOOLEAN, draft : BOOLEAN, head : Commits, shown : Commits, base : Nat]
    /\ ready \in [by : {"opened", "person", "donkeyspace", "unconfirmed"}, head : Commits]
    /\ made \in Commits /\ branch \subseteq 0..made /\ github.head \in branch
    /\ \A commit \in branch : commit <= github.head
    /\ row \in [state : {"none", "open", "closed"}, head : Commits \cup {None}, base : Nat]
    /\ state \in {"pr_open", "pr_closed", "in_progress", "needs_human", "blocked"}
    /\ \A j \in Ids :
          /\ jobs[j] \in [role : {"developer", "revision", "reviewer", "repair"},
                          status : Unfinished \cup {"completed", "failed", "cancelled"},
                          head : Commits, base : Nat, comment : Comments \cup {0},
                          resume : BOOLEAN, publication : {"none", "publishing", "published"},
                          sha : Commits \cup {None}]
          /\ jobs[j].publication # "none" => jobs[j].sha # None
    /\ receipts \subseteq Comments /\ applied \in [Comments -> Nat]
    /\ \A h \in Handlers : handler[h].source \in Ids \cup {None}
    /\ \A w \in Workers :
          worker[w].job # 0 => worker[w].job \in Ids /\ Mine(w).role # "developer"

(* What Donkeyspace records as published is on the branch: the next        *)
(* revision continues from that attempt (db/pr_revisions.rs source), after *)
(* lost answers, crashes and pushes by others too.                         *)
PublishedOnBranch == \A j \in Published : jobs[j].sha \in branch

(* A pull request Donkeyspace made ready for review was ready on a commit  *)
(* it published, however a push raced the change, unless it could not put  *)
(* the draft back (donkeyspace-github/src/pr_revision.rs).                 *)
ReadyIsPublished ==
    /\ ~github.draft /\ ready.by = "donkeyspace"
    /\ \A w \in Workers : ~Works(w, "restore")
    => \E j \in Published : jobs[j].sha = ready.head

(* One revision of the pull request is unfinished at a time, and none can  *)
(* run or resume once its closing was applied                              *)
(* (db/pr_revisions.rs enqueue, db/cancellation.rs).                       *)
OneOpenRevision ==
    /\ Cardinality(Active) <= 1
    /\ row.state = "closed" =>
          \A j \in Revisions : jobs[j].status \notin Dispatched \cup {"paused"}

(* docs/pr-revisions.md:102-103: "webhook and polling copies of the same   *)
(* comment cannot apply twice"                                             *)
AppliedOnce == \A c \in Comments : applied[c] <= 1
=============================================================================
