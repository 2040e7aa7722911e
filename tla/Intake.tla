-------------------------------- MODULE Intake --------------------------------
(***************************************************************************)
(* How a person's comment on an issue becomes work (api/ingress.rs,        *)
(* api/comment_polling.rs, db/comment_polling.rs): webhooks and the events *)
(* feed deliver it late, twice or never, pollers read the comment pages of *)
(* the repository behind a cursor, and every copy goes through the same    *)
(* admission: receipts, one observation of the issue, an authorization     *)
(* decided outside the transaction, and the locked transaction that        *)
(* resumes or creates the coordinator.                                     *)
(*                                                                         *)
(* One repository, one issue whose coordinator exists.  A tick is a second.*)
(***************************************************************************)
EXTENDS Integers, FiniteSetsExt

CONSTANTS Pollers,        \* pollers of the repository's comments
          Handlers,       \* requests that deliver a webhook or an event of the feed
          Comments,       \* 1..n in the order of their creation
          Kind,           \* of a comment: "answer", "approve" or "revise"
          Maintainers,    \* comments whose author may decide for people; any other is
                          \* of the issue's author, who may only answer
          Mailed,         \* comments with a webhook or an event; others are only polled
          PageSize,       \* 100 in the code
          Overlap,        \* 60 seconds in the code
          Skew,           \* how far the API's clock is ahead of GitHub's
          Outcomes,       \* bound: waiting states in which a coordinator ends
          MaxTime,        \* bound of the clock
          MaxUpsets       \* bound: edits, closings, reopenings, retirements, failed
                          \* requests, crashes and repeated deliveries

ASSUME ConstantsAssumption ==
    /\ Pollers \cap Handlers = {}
    /\ Comments \subseteq Nat \ {0} /\ IsFiniteSet(Comments)
    /\ Kind \in [Comments -> {"answer", "approve", "revise"}]
    /\ Maintainers \subseteq Comments /\ Mailed \subseteq Comments /\ PageSize \in Nat \ {0}
    /\ Outcomes \subseteq {"needs_info", "needs_human", "blocked"}
    /\ Overlap \in Nat /\ Skew \in Nat /\ MaxTime \in Nat \ {0} /\ MaxUpsets \in Nat

VARIABLES now,         \* GitHub's clock
          updated,     \* GitHub's comments: when they were updated, 0 before they exist
          issue,       \* GitHub's issue: closed, state label, when it was updated
          mail,        \* what webhook and feed deliver: a comment and the issue of then
          item,        \* the workflow row
          tracked,     \* the repository is selected
          job,         \* the issue's latest coordinator
          receipts,    \* webhook_deliveries of created comments, by transport
          cursor,      \* the repository's row of github_comment_poll_cursors
          proc,        \* what each poller and handler does
          applied,     \* how often a comment queued work
          upsets       \* of the bounded kinds so far

vars == <<now, updated, issue, mail, item, tracked, job, receipts, cursor, proc, applied,
          upsets>>
github == <<now, updated, issue>>

Processes == Pollers \cup Handlers
None == -1

-----------------------------------------------------------------------------
Waiting == {"needs_info", "needs_human", "blocked"}
Active == {"queued", "running"}

Posted(c) == updated[c] > 0
Transport(h) == IF h \in Pollers THEN "poll" ELSE "webhook"

(* webhook_deliveries has one row for a created comment, whatever carried  *)
(* it.                                                                     *)
\* Mutant of Received: only a copy of the same transport counts.
ReceivedByTransport(c, t) == <<c, t>> \in receipts
Received(c, t) == \E any \in {"poll", "webhook"} : <<c, any>> \in receipts
Receipt(c, t) == receipts' = IF Received(c, t) THEN receipts ELSE receipts \cup {<<c, t>>}

Upset == upsets < MaxUpsets /\ upsets' = upsets + 1

-----------------------------------------------------------------------------
(* People and GitHub *)

Touched == [issue EXCEPT !.at = now]

(* Comments are created in order; what is mailed may never be delivered. *)
Post(c) ==
    /\ ~Posted(c) /\ \A d \in Comments : d < c => Posted(d)
    /\ updated' = [updated EXCEPT ![c] = now]
    /\ issue' = Touched
    /\ mail' = mail \cup {[comment |-> d, issue |-> issue'] : d \in {c} \cap Mailed}
    /\ UNCHANGED <<now, item, tracked, job, receipts, cursor, proc, applied, upsets>>

Edit(c) ==
    /\ Posted(c) /\ updated[c] < now /\ Upset
    /\ updated' = [updated EXCEPT ![c] = now] /\ issue' = Touched
    /\ UNCHANGED <<now, mail, item, tracked, job, receipts, cursor, proc, applied>>

Toggle ==
    /\ Upset
    /\ issue' = [Touched EXCEPT !.closed = ~@]
    /\ UNCHANGED <<now, updated, mail, item, tracked, job, receipts, cursor, proc, applied>>

Tick ==
    /\ now < MaxTime /\ now' = now + 1
    /\ UNCHANGED <<updated, issue, mail, item, tracked, job, receipts, cursor, proc, applied,
                   upsets>>

-----------------------------------------------------------------------------
(***************************************************************************)
(* observe_issue: a snapshot of the issue, with the state its label names  *)
(* or else the state that was read before.                                 *)
(***************************************************************************)
Stale(seen) == seen.at < item.observed
Reopens(seen) == item.closed /\ ~seen.closed
StateSeen(seen, previous) ==
    IF seen.closed THEN "finished"
    ELSE IF Reopens(seen) THEN "none"
    ELSE IF seen.label # "none" THEN seen.label
    ELSE IF previous # "none" THEN previous
    ELSE item.state

(* fence_workflow_job and fence_retired_repository *)
Stopped == [job EXCEPT !.status = IF @ \in Active \cup {"paused"} THEN "cancelled" ELSE @]

Observe(seen, previous) ==
    /\ item' = [closed |-> seen.closed, observed |-> seen.at, state |-> StateSeen(seen, previous),
                generation |-> item.generation + (IF Reopens(seen) THEN 1 ELSE 0),
                label |-> seen.label]
    /\ job' = IF seen.closed THEN Stopped ELSE job

(* A webhook about an edge or a label shows the issue as it is. *)
ObserveElsewhere ==
    /\ ~Stale(issue) /\ (issue.closed # item.closed \/ issue.label # item.state)
    /\ Observe(issue, item.state) /\ item' # item
    /\ UNCHANGED <<github, mail, tracked, receipts, cursor, proc, applied, upsets>>

-----------------------------------------------------------------------------
(* Admission of one created comment: persist_issue_webhook *)

NoScan == [current |-> FALSE]
Idle == [pc |-> "idle", comment |-> 0, seen |-> [closed |-> FALSE, label |-> "none", at |-> 0],
         previous |-> "none", snap |-> <<>>, allowed |-> FALSE,
         todo |-> {}, scan |-> NoScan]

Goes(h, pc) == proc' = [proc EXCEPT ![h].pc = pc]

(* A handler has answered its request; a poller goes on with its page,     *)
(* after a receipt for what was not queued.                                *)
Answered(h, queued) ==
    proc' = [proc EXCEPT ![h] =
                IF h \in Handlers THEN Idle
                ELSE [Idle EXCEPT !.pc = IF queued THEN "page" ELSE "receipt",
                                  !.comment = IF queued THEN 0 ELSE proc[h].comment,
                                  !.todo = proc[h].todo, !.scan = proc[h].scan]]

Read(h) ==
    /\ proc[h].pc = "read"
    /\ IF Received(proc[h].comment, Transport(h))
       THEN Answered(h, FALSE)
       ELSE proc' = [proc EXCEPT ![h].previous = item.state,
                                 ![h].pc = IF proc[h].seen.closed \/ item.state = "finished"
                                           THEN "verify" ELSE "observe"]
    /\ UNCHANGED <<github, mail, item, tracked, job, receipts, cursor, applied, upsets>>

(* For a closed issue, or a workflow that was finished, GitHub is asked. *)
Verify(h) ==
    /\ proc[h].pc = "verify"
    /\ IF issue.closed # proc[h].seen.closed THEN Answered(h, FALSE) ELSE Goes(h, "observe")
    /\ UNCHANGED <<github, mail, item, tracked, job, receipts, cursor, applied, upsets>>

ObserveIssue(h) ==
    /\ proc[h].pc = "observe"
    /\ IF Stale(proc[h].seen)
       THEN Answered(h, FALSE) /\ UNCHANGED <<item, job>>
       ELSE /\ Observe(proc[h].seen, proc[h].previous)
            /\ proc' = [proc EXCEPT ![h].pc = "authorize", ![h].seen = Idle.seen,
                                    ![h].previous = "none"]
    /\ UNCHANGED <<github, mail, tracked, receipts, cursor, applied, upsets>>

(* parse_human_approval_command and should_queue_triage *)
Commands == {c \in Comments : Kind[c] # "answer"}
ShouldQueue(c, state) ==
    \/ state \in {"needs_info", "blocked"}
    \/ state = "needs_human" /\ c \in Commands

(* command_engagement_gate: who may pass it. *)
Gate(c, state) ==
    IF state = "needs_human" \/ (state = "blocked" /\ c \in Commands) THEN "human" ELSE "info"
MayPass(c, state) == Gate(c, state) = "info" \/ c \in Maintainers

(* ingress::snapshot, and the authorization of the gate it leads to. *)
Snapshot == <<item.generation, item.closed, item.state, item.label>>

Authorize(h) ==
    /\ proc[h].pc = "authorize"
    /\ LET c == proc[h].comment
       IN  proc' = [proc EXCEPT ![h].pc = "admit", ![h].snap = Snapshot,
                                ![h].allowed = ShouldQueue(c, item.state) /\ MayPass(c, item.state)]
    /\ UNCHANGED <<github, mail, item, tracked, job, receipts, cursor, applied, upsets>>

(* ingress::lock_snapshot *)
\* Mutant of SnapshotHolds: the row is locked and not compared.
AnySnapshot(h) == TRUE
SnapshotHolds(h) == proc[h].snap = Snapshot

(* resume_latest_paused_job *)
Resumable(c) == job.status = "paused" \/ (job.status = "failed" /\ Kind[c] = "revise")
GateResumes(c) == Gate(c, item.state) = "human" \/ item.state = "needs_info"

(* A queued row of a retired repository is fenced by its trigger. *)
\* Mutant of Queued: the trigger is not asked.
QueuedUnfenced == [status |-> "queued", generation |-> item.generation]
Queued == [status |-> IF tracked THEN "queued" ELSE "cancelled", generation |-> item.generation]

Queues(c) ==
    /\ ~item.closed /\ ShouldQueue(c, item.state) /\ job.status \notin Active
    /\ \/ GateResumes(c) /\ Resumable(c)
       \/ ~(item.state = "blocked" /\ c \in Commands)

(* The locked transaction: receipt and effects together, or an error. *)
AdmitRefused(h) ==
    /\ proc[h].pc = "admit" /\ ~SnapshotHolds(h)
    /\ proc' = [proc EXCEPT ![h] = Idle]
    /\ UNCHANGED <<github, mail, item, tracked, job, receipts, cursor, applied, upsets>>

Admit(h) ==
    LET c == proc[h].comment
    IN  /\ proc[h].pc = "admit" /\ SnapshotHolds(h)
        /\ Receipt(c, Transport(h))
        /\ IF ~Received(c, Transport(h)) /\ proc[h].allowed /\ Queues(c)
           THEN job' = Queued /\ applied' = [applied EXCEPT ![c] = @ + 1] /\ Answered(h, TRUE)
           ELSE UNCHANGED <<job, applied>> /\ Answered(h, FALSE)
        /\ UNCHANGED <<github, mail, item, tracked, cursor, upsets>>

(* A request fails or the process ends: nothing more is recorded, GitHub   *)
(* does not deliver again by itself, the poller's page stays where it was. *)
Fail(h) ==
    /\ proc[h].pc # "idle" /\ Upset
    /\ proc' = [proc EXCEPT ![h] = Idle]
    /\ UNCHANGED <<github, mail, item, tracked, job, receipts, cursor, applied>>

-----------------------------------------------------------------------------
(* github_webhook, and the events feed: late, in any order, and again *)

Deliver(h) ==
    /\ proc[h].pc = "idle" /\ tracked
    /\ \E m \in mail :
          /\ proc' = [proc EXCEPT ![h] = [Idle EXCEPT !.pc = "read", !.comment = m.comment,
                                                      !.seen = m.issue]]
          /\ \/ mail' = mail \ {m} /\ upsets' = upsets
             \/ mail' = mail /\ Upset
    /\ UNCHANGED <<github, item, tracked, job, receipts, cursor, applied>>

-----------------------------------------------------------------------------
(* comment_polling::poll *)

(* GitHub: comments updated since, in the order of their creation; a page  *)
(* with the times of its comments and a link to the next, which is what an *)
(* ETag stands for.                                                        *)
Listed(since) == {c \in Comments : Posted(c) /\ updated[c] >= since}
Rank(c, since) == Cardinality({d \in Listed(since) : d < c})
OnPage(c, since, page) ==
    Rank(c, since) >= (page - 1) * PageSize /\ Rank(c, since) < page * PageSize
PageOf(since, page) ==
    [times |-> [c \in {d \in Listed(since) : OnPage(d, since, page)} |-> updated[c]],
     next  |-> \E c \in Listed(since) : Rank(c, since) >= page * PageSize]

FetchPage(h) ==
    /\ proc[h].pc = "idle" /\ tracked
    /\ LET page == PageOf(cursor.since, cursor.page)
           same == cursor.etag = {page}
       IN  proc' = [proc EXCEPT ![h] =
               [Idle EXCEPT !.pc = "page",
                            !.todo = IF same THEN {} ELSE DOMAIN page.times,
                            !.scan = [current |-> TRUE, cursor |-> cursor,
                                      started |-> now + Skew, same |-> same, page |-> page]]]
    /\ UNCHANGED <<github, mail, item, tracked, job, receipts, cursor, applied, upsets>>

(* The next comment of the page, with the issue as it is now. *)
NextComment(h) ==
    /\ proc[h].pc = "page" /\ proc[h].todo # {}
    /\ LET c    == Min(proc[h].todo)
           rest == [proc[h] EXCEPT !.todo = @ \ {c}]
       IN  proc' = [proc EXCEPT ![h] =
               IF Received(c, Transport(h)) THEN rest
               ELSE [rest EXCEPT !.pc = "read", !.comment = c, !.seen = issue]]
    /\ UNCHANGED <<github, mail, item, tracked, job, receipts, cursor, applied, upsets>>

(* "Remember them too": whatever was not queued has its receipt. *)
Remember(h) ==
    /\ proc[h].pc = "receipt"
    /\ Receipt(proc[h].comment, Transport(h))
    /\ proc' = [proc EXCEPT ![h].pc = "page", ![h].comment = 0]
    /\ UNCHANGED <<github, mail, item, tracked, job, cursor, applied, upsets>>

(* advance: what the cursor becomes after a page. *)
Times(page) == {page.times[c] : c \in DOMAIN page.times}
Latest(scan) == Max({scan.cursor.latest} \cup Times(scan.page))
ScanStarted(scan) == IF scan.cursor.started = None THEN scan.started ELSE scan.cursor.started

\* Mutant of Since: the window starts where this clock says the scan began.
SinceStarted(scan) == Max({scan.cursor.since, ScanStarted(scan) - Overlap})
Since(scan) ==
    IF Latest(scan) = None THEN scan.cursor.since
    ELSE Max({scan.cursor.since, Min({Latest(scan) - 1, ScanStarted(scan) - Overlap})})

\* Mutant of Advanced: the last page does not start over.
AdvancedOn(scan) ==
    IF scan.same THEN scan.cursor
    ELSE [scan.cursor EXCEPT !.page = @ + 1, !.started = ScanStarted(scan),
                             !.latest = Latest(scan), !.etag = {}]
Advanced(scan) ==
    IF scan.same THEN scan.cursor
    ELSE IF scan.page.next
         THEN [scan.cursor EXCEPT !.page = @ + 1, !.started = ScanStarted(scan),
                                  !.latest = Latest(scan), !.etag = {}]
         ELSE [scan.cursor EXCEPT !.since = Since(scan), !.page = 1, !.started = None,
                  !.latest = None,
                  !.etag = IF scan.cursor.page = 1 /\ Since(scan) = scan.cursor.since
                           THEN {scan.page} ELSE {}]

(* comment_polling::save: a cursor that was saved meanwhile, so that its   *)
(* revision is another, is not overwritten and the cycle fails.            *)
SavePage(h) ==
    LET scan == proc[h].scan
    IN  /\ proc[h].pc = "page" /\ proc[h].todo = {}
        /\ IF scan.current
           THEN /\ cursor' = Advanced(scan)
                /\ proc' = [p \in Processes |->
                       CASE p = h                 -> Idle
                         [] proc[p].scan = NoScan -> proc[p]
                         [] OTHER                 -> [proc[p] EXCEPT !.scan.current = FALSE]]
           ELSE cursor' = cursor /\ proc' = [proc EXCEPT ![h] = Idle]
        /\ UNCHANGED <<github, mail, item, tracked, job, receipts, applied, upsets>>

-----------------------------------------------------------------------------
(* The coordinator and its label, as far as admission sees them *)

Starts ==
    /\ job.status = "queued"
    /\ job' = [job EXCEPT !.status = "running"] /\ item' = [item EXCEPT !.state = "in_progress"]
    /\ UNCHANGED <<github, mail, tracked, receipts, cursor, proc, applied, upsets>>

Pauses(state) ==
    /\ job.status = "running"
    /\ job' = [job EXCEPT !.status = IF state = "blocked" THEN "failed" ELSE "paused"]
    /\ item' = [item EXCEPT !.state = state]
    /\ UNCHANGED <<github, mail, tracked, receipts, cursor, proc, applied, upsets>>

(* The outbound action that shows the state as a label is delivered, or    *)
(* the one that clears the labels of a closed issue.                       *)
Label == IF item.closed THEN "none" ELSE item.state
ShowLabel ==
    /\ Label # "finished" /\ Label # issue.label /\ tracked
    /\ issue' = [Touched EXCEPT !.label = Label]
    /\ UNCHANGED <<now, updated, mail, item, tracked, job, receipts, cursor, proc, applied, upsets>>

(* repository_retirement::reconcile *)
Retire ==
    /\ tracked /\ Upset /\ tracked' = FALSE
    /\ item' = [item EXCEPT !.generation = @ + 1,
                            !.state = IF item.closed \/ @ = "finished" THEN "finished"
                                      ELSE "needs_human"]
    /\ job' = Stopped
    /\ UNCHANGED <<github, mail, receipts, cursor, proc, applied>>

Select ==
    /\ ~tracked /\ tracked' = TRUE
    /\ UNCHANGED <<github, mail, item, job, receipts, cursor, proc, applied, upsets>>

-----------------------------------------------------------------------------
Init ==
    /\ now = 1
    /\ updated = [c \in Comments |-> 0]
    /\ issue = [closed |-> FALSE, label |-> "in_progress", at |-> 0]
    /\ mail = {}
    /\ item = [closed |-> FALSE, state |-> "in_progress", generation |-> 0, observed |-> 0,
               label |-> "in_progress"]
    /\ tracked = TRUE
    /\ job = [status |-> "running", generation |-> 0]
    /\ receipts = {}
    /\ cursor = [since |-> 0, page |-> 1, started |-> None, latest |-> None, etag |-> {}]
    /\ proc = [h \in Processes |-> Idle]
    /\ applied = [c \in Comments |-> 0]
    /\ upsets = 0

People == \E c \in Comments : Post(c) \/ Edit(c)
Work == Starts \/ ShowLabel \/ \E state \in Outcomes : Pauses(state)
Admission(h) == Read(h) \/ Verify(h) \/ ObserveIssue(h) \/ Authorize(h) \/ AdmitRefused(h) \/ Admit(h)
Polling(h) == FetchPage(h) \/ NextComment(h) \/ Remember(h) \/ SavePage(h)

Next ==
    \/ People \/ Toggle \/ Tick \/ ObserveElsewhere \/ Work \/ Retire \/ Select
    \/ \E h \in Processes : Admission(h) \/ Fail(h)
    \/ \E h \in Handlers : Deliver(h)
    \/ \E h \in Pollers : Polling(h)

Spec == Init /\ [][Next]_vars

-----------------------------------------------------------------------------
TypeOK ==
    /\ now \in 1..MaxTime
    /\ updated \in [Comments -> 0..now]
    /\ item.observed <= now /\ item.generation \in Nat /\ item.closed \in BOOLEAN
    /\ item.state \in Waiting \cup {"none", "in_progress", "finished"}
    /\ job.status \in Active \cup {"paused", "failed", "cancelled"}
    /\ receipts \subseteq Comments \X {"poll", "webhook"}
    /\ cursor.since \in 0..MaxTime /\ cursor.page \in 1..(Cardinality(Comments) + 1)
    /\ applied \in [Comments -> Nat]

(* A comment queues work at most once, although webhook, feed and pollers  *)
(* carry copies of it at the same time.                                    *)
AppliedOnce == \A c \in Comments : applied[c] <= 1

(* Work is queued only by a comment whose author may pass the gate of the  *)
(* state it is queued in, which is not the state it was written, read or   *)
(* authorized in.                                                          *)
QueuedByRight ==
    [][\A c \in Comments : applied'[c] > applied[c] =>
          /\ ~item.closed /\ ShouldQueue(c, item.state) /\ MayPass(c, item.state)]_vars

(* Whatever closes, retires or selects the repository while a comment is   *)
(* admitted: a coordinator that may run is of the present generation of an *)
(* open issue of a selected repository.                                    *)
ActiveIsCurrent ==
    job.status \in Active \cup {"paused"} =>
        tracked /\ ~item.closed /\ job.generation = item.generation

(* A comment without a receipt is still ahead of the cursor: on its page   *)
(* or on a later one.                                                      *)
Ahead(c) ==
    /\ updated[c] >= cursor.since
    /\ Rank(c, cursor.since) >= (cursor.page - 1) * PageSize
NothingSkipped == \A c \in Comments : Posted(c) /\ ~Received(c, "poll") => Ahead(c)
=============================================================================
