----------------------------- MODULE Intake_proofs -----------------------------
(***************************************************************************)
(* What holds of Intake for every number of pollers, requests, comments,   *)
(* page size, overlap and clock.  Forward sums up what no step undoes; the *)
(* inductive invariant IInv adds to the properties what a poller still owes *)
(* to the comments of its page (ScanOK), and what the admission of a        *)
(* comment was authorized for (ProcFits).                                *)
(***************************************************************************)
EXTENDS Intake, FiniteSetTheorems, Extremes

States == Waiting \cup {"none", "in_progress", "finished"}
JobStatuses == Active \cup {"paused", "failed", "cancelled"}
Issues == [closed : BOOLEAN, label : States, at : 0..now]

\* Comments were created in their order, and nothing is newer than now.
GitHubOK ==
    /\ now \in 1..MaxTime /\ updated \in [Comments -> 0..now]
    /\ \A c, d \in Comments : Posted(c) /\ d < c => Posted(d)
    /\ issue \in Issues /\ mail \subseteq [comment : Comments, issue : Issues]

WorkflowOK ==
    /\ item \in [closed : BOOLEAN, observed : 0..now, state : States, generation : Nat,
               label : States]
    /\ tracked \in BOOLEAN /\ job \in [status : JobStatuses, generation : Nat]

\* What queued work has a receipt.
AppliedHasReceipt ==
    /\ receipts \subseteq Comments \X {"poll", "webhook"} /\ applied \in [Comments -> Nat]
    /\ \A c \in Comments : applied[c] <= 1 /\ (applied[c] > 0 => Received(c, "poll"))

Pages == [times : UNION {[S -> 0..now] : S \in SUBSET Comments}, next : BOOLEAN]
Cursors == [since : 0..now, page : Nat \ {0}, started : Int, latest : -1..now, etag : SUBSET Pages]
Scans == [current : BOOLEAN, cursor : Cursors, started : Nat, same : BOOLEAN, page : Pages]
Snapshots == {<<>>} \cup (Nat \X BOOLEAN \X States \X States)
Pcs == {"idle", "read", "verify", "observe", "authorize", "admit", "page", "receipt"}
Procs == [pc : Pcs, comment : Comments \cup {0}, seen : Issues, previous : States,
          snap : Snapshots, allowed : BOOLEAN, todo : SUBSET Comments, scan : {NoScan} \cup Scans]

\* A process that admits a comment has one, and was authorized for a state.
ProcFits(p) ==
    /\ p \in Procs
    /\ p.pc \notin {"idle", "page"} => p.comment \in Comments
    /\ p.pc \in {"idle", "page"} => p.comment = 0
    /\ p.pc = "admit" /\ p.allowed
          => ShouldQueue(p.comment, p.snap[3]) /\ MayPass(p.comment, p.snap[3])
ProcOK == proc \in [Processes -> Procs] /\ \A h \in Processes : ProcFits(proc[h])

\* A later page begins behind a comment that is still listed.
Reaches(page) == \E c \in Listed(cursor.since) : Rank(c, cursor.since) >= (page - 1) * PageSize
CursorOK == cursor \in Cursors /\ (cursor.page > 1 => Reaches(cursor.page))

\* A poller whose scan is current has read its page for the cursor as it is: a
\* comment without a receipt is still to be admitted by it, or it is behind the
\* page, or newer than everything the last page showed.
Behind(c, scan) ==
    IF scan.page.next THEN Rank(c, cursor.since) >= cursor.page * PageSize
    ELSE updated[c] >= Latest(scan)
ScanFits(p) ==
    p.scan.current =>
        /\ p.scan.cursor = cursor
        /\ \/ p.scan.same
           \/ /\ p.scan.page.next => Reaches(cursor.page + 1)
              /\ \A c \in Comments : Posted(c) /\ ~Received(c, "poll")
                    => c \in p.todo \/ c = p.comment \/ Behind(c, p.scan)
ScanOK == \A h \in Processes : ScanFits(proc[h])

IInv ==
    /\ GitHubOK /\ WorkflowOK /\ AppliedHasReceipt /\ ProcOK /\ CursorOK
    /\ ActiveIsCurrent /\ ScanOK /\ NothingSkipped

-----------------------------------------------------------------------------
(* What no step undoes *)

LEMMA Forward ==
  ASSUME IInv, [Next]_vars
  PROVE  /\ now \in Nat /\ now' \in Nat /\ now <= now' /\ receipts \subseteq receipts'
         /\ \A c \in Comments : updated[c] <= updated'[c]
<1> USE DEF github
<1>1. GitHubOK
  BY DEF IInv
<1>2. now' = now \/ now' = now + 1
  BY DEF Next, vars, People, Work, Admission, Polling, Post, Edit, Toggle, Tick,
     ObserveElsewhere, Starts, ShowLabel, Pauses, Retire, Select, Read, Verify, ObserveIssue,
     Authorize, AdmitRefused, Admit, Fail, Deliver, FetchPage, NextComment, Remember, SavePage
<1>3. receipts \subseteq receipts'
  BY DEF Receipt, Next, vars, People, Work, Admission, Polling, Post, Edit, Toggle, Tick,
     ObserveElsewhere, Starts, ShowLabel, Pauses, Retire, Select, Read, Verify, ObserveIssue,
     Authorize, AdmitRefused, Admit, Fail, Deliver, FetchPage, NextComment, Remember, SavePage
<1>4. updated' = updated \/ \E c \in Comments : updated' = [updated EXCEPT ![c] = now]
  BY DEF Next, vars, People, Work, Admission, Polling, Post, Edit, Toggle, Tick,
     ObserveElsewhere, Starts, ShowLabel, Pauses, Retire, Select, Read, Verify, ObserveIssue,
     Authorize, AdmitRefused, Admit, Fail, Deliver, FetchPage, NextComment, Remember, SavePage
<1>5. \A c \in Comments : updated[c] <= updated'[c]
  BY <1>1, <1>4 DEF GitHubOK
<1>6. QED
  BY <1>1, <1>2, <1>3, <1>5 DEF GitHubOK

(* Types that grow with the clock. *)
LEMMA TypesGrow ==
  ASSUME IInv, [Next]_vars
  PROVE  /\ Issues \subseteq Issues' /\ Pages \subseteq Pages'
         /\ Cursors \subseteq Cursors' /\ Scans \subseteq Scans' /\ Procs \subseteq Procs'
<1>1. 0..now \subseteq 0..now' /\ -1..now \subseteq -1..now'
  BY Forward
<1>2. Issues \subseteq Issues'
  BY <1>1 DEF Issues
<1>3. Pages \subseteq Pages'
  <2>1. \A S \in SUBSET Comments : [S -> 0..now] \subseteq [S -> 0..now']
    BY <1>1
  <2>2. UNION {[S -> 0..now] : S \in SUBSET Comments}
           \subseteq UNION {[S -> 0..now'] : S \in SUBSET Comments}
    BY <2>1
  <2> QED
    BY <2>2 DEF Pages
<1>4. Cursors \subseteq Cursors'
  BY <1>1, <1>3 DEF Cursors
<1>5. Scans \subseteq Scans'
  BY <1>3, <1>4 DEF Scans
<1>6. Procs \subseteq Procs'
  BY <1>2, <1>5 DEF Procs
<1>7. QED
  BY <1>2, <1>3, <1>4, <1>5, <1>6

LEMMA GitHubInv == IInv /\ [Next]_vars => GitHubOK'
<1> SUFFICES ASSUME IInv, [Next]_vars PROVE GitHubOK'
  OBVIOUS
<1> USE ConstantsAssumption DEF github
<1>1. GitHubOK /\ WorkflowOK /\ Issues \subseteq Issues' /\ Comments \subseteq Nat \ {0}
  BY TypesGrow DEF IInv
<1>2. CASE UNCHANGED <<now, updated, issue>> /\ mail' \subseteq mail
  BY <1>1, <1>2 DEF GitHubOK, Posted, Issues
<1>3. Touched \in Issues
  BY <1>1 DEF GitHubOK, Touched, Issues
<1>4. ASSUME NEW c \in Comments, Post(c)
      PROVE  GitHubOK'
  <2>1. now' = now /\ updated' = [updated EXCEPT ![c] = now] /\ issue' = Touched
    BY <1>4 DEF Post
  <2>2. mail' \subseteq [comment : Comments, issue : Issues]
    BY <1>1, <1>3, <1>4 DEF Post, GitHubOK
  <2>3. \A a, b \in Comments : Posted(a)' /\ b < a => Posted(b)'
    BY <1>1, <1>4, <2>1 DEF Post, GitHubOK, Posted
  <2> QED
    BY <1>1, <1>3, <2>1, <2>2, <2>3 DEF GitHubOK, Issues
<1>5. ASSUME NEW c \in Comments, Edit(c)
      PROVE  GitHubOK'
  BY <1>1, <1>3, <1>5 DEF Edit, GitHubOK, Posted, Issues
<1>6. CASE Toggle
  BY <1>1, <1>3, <1>6 DEF Toggle, GitHubOK, Posted, Issues
<1>7. CASE Tick
  BY <1>1, <1>7 DEF Tick, GitHubOK, Posted, Issues
<1>8. CASE ShowLabel
  <2>1. Label \in States
    BY <1>1 DEF Label, WorkflowOK, States
  <2> QED
    BY <1>1, <1>3, <1>8, <2>1 DEF ShowLabel, GitHubOK, Posted, Issues
<1>9. QED
  BY <1>2, <1>4, <1>5, <1>6, <1>7, <1>8
     DEF Next, vars, People, Work, Admission, Polling, ObserveElsewhere, Starts, Pauses, Retire,
     Select, Read, Verify, ObserveIssue, Authorize, AdmitRefused, Admit, Fail, Deliver,
     FetchPage, NextComment, Remember, SavePage

-----------------------------------------------------------------------------
(* The workflow *)

LEMMA WorkflowInv == IInv /\ [Next]_vars => WorkflowOK' /\ ActiveIsCurrent'
<1> SUFFICES ASSUME IInv, [Next]_vars PROVE WorkflowOK' /\ ActiveIsCurrent'
  OBVIOUS
<1> USE DEF github
<1>1. /\ GitHubOK /\ WorkflowOK /\ ActiveIsCurrent /\ now \in Nat /\ now' \in Nat /\ now <= now'
      /\ \A h \in Processes : proc[h].seen \in Issues /\ proc[h].previous \in States
  BY Forward, GitHubInv, ConstantsAssumption DEF IInv, GitHubOK, ProcOK, ProcFits, Procs
<1>2. CASE UNCHANGED <<item, tracked, job>>
  BY <1>1, <1>2 DEF WorkflowOK, ActiveIsCurrent
<1>3. ASSUME NEW seen \in Issues, NEW previous \in States, ~Stale(seen),
             Observe(seen, previous), UNCHANGED <<now, tracked>>
      PROVE  WorkflowOK' /\ ActiveIsCurrent'
  <2>1. StateSeen(seen, previous) \in States
    BY <1>1 DEF StateSeen, WorkflowOK, Issues, States
  <2>2. Stopped \in [status : JobStatuses, generation : Nat]
        /\ Stopped.status \notin Active \cup {"paused"}
    BY <1>1 DEF Stopped, WorkflowOK, JobStatuses, Active
  <2>3. /\ seen.closed \in BOOLEAN /\ item.closed \in BOOLEAN /\ seen.at \in 0..now'
        /\ seen.label \in States
    BY <1>1, <1>3 DEF Issues, WorkflowOK
  <2>4. item' \in [closed : BOOLEAN, observed : 0..now', state : States, generation : Nat,
               label : States]
    BY <1>1, <1>3, <2>1, <2>3 DEF Observe, WorkflowOK
  <2>5. job' \in [status : JobStatuses, generation : Nat] /\ tracked' = tracked
    BY <1>1, <1>3, <2>2 DEF Observe, WorkflowOK
  <2>6. ActiveIsCurrent'
    BY <1>1, <1>3, <2>2, <2>3 DEF Observe, Reopens, WorkflowOK, ActiveIsCurrent
  <2> QED
    BY <1>1, <2>4, <2>5, <2>6 DEF WorkflowOK
<1>4. CASE ObserveElsewhere
  BY <1>1, <1>3, <1>4 DEF ObserveElsewhere, GitHubOK, WorkflowOK
<1>5. ASSUME NEW h \in Processes, ObserveIssue(h)
      PROVE  WorkflowOK' /\ ActiveIsCurrent'
  BY <1>1, <1>2, <1>3, <1>5 DEF ObserveIssue
<1>6. ASSUME NEW h \in Processes, Admit(h)
      PROVE  WorkflowOK' /\ ActiveIsCurrent'
  <2>1. UNCHANGED <<item, tracked>> /\ (job' = job \/ (job' = Queued /\ ~item.closed))
    BY <1>6 DEF Admit, Queues
  <2>2. /\ Queued \in [status : JobStatuses, generation : Nat]
        /\ Queued.generation = item.generation
        /\ Queued.status # "cancelled" => tracked
    BY <1>1 DEF Queued, WorkflowOK, JobStatuses, Active
  <2>3. CASE job' = Queued /\ ~item.closed
    BY <1>1, <2>1, <2>2, <2>3 DEF WorkflowOK, ActiveIsCurrent, Active
  <2> QED
    BY <1>2, <2>1, <2>3
<1>7. CASE Starts \/ \E state \in Outcomes : Pauses(state)
  BY <1>1, <1>7, ConstantsAssumption 
     DEF Starts, Pauses, WorkflowOK, ActiveIsCurrent, JobStatuses, Active, States, Waiting
<1>8. CASE Retire
  <2>1. Stopped \in [status : JobStatuses, generation : Nat]
        /\ Stopped.status \notin Active \cup {"paused"}
    BY <1>1 DEF Stopped, WorkflowOK, JobStatuses, Active
  <2>2. item' \in [closed : BOOLEAN, observed : 0..now, state : States, generation : Nat,
                   label : States]
    <3>1. PICK state \in States :
             item' = [item EXCEPT !.generation = @ + 1, !.state = state] /\ now' = now
      BY <1>8 DEF Retire, States, Waiting
    <3>2. item \in [closed : BOOLEAN, observed : 0..now, state : States, generation : Nat,
                      label : States]
          /\ 0..now' = 0..now /\ item.generation \in Nat
      BY <1>1, <3>1 DEF WorkflowOK
    <3>3. PICK generation \in Nat : generation = item.generation + 1
      BY <3>2
    <3>4. item' = [item EXCEPT !.generation = generation, !.state = state]
      BY <3>1, <3>3
    <3> HIDE DEF States
    <3> QED
      BY <3>2, <3>4
  <2> QED
    BY <1>1, <1>8, <2>1, <2>2 DEF Retire, WorkflowOK, ActiveIsCurrent
<1>9. CASE Select
  BY <1>1, <1>9 DEF Select, WorkflowOK, ActiveIsCurrent
<1>10. QED
  BY <1>2, <1>4, <1>5, <1>6, <1>7, <1>8, <1>9
     DEF Next, vars, People, Work, Admission, Polling, Post, Edit, Toggle, Tick, ShowLabel, Read,
     Verify, Authorize, AdmitRefused, Fail, Deliver, FetchPage, NextComment, Remember, SavePage

LEMMA ReceiptGiven ==
  ASSUME IInv, NEW c \in Comments, NEW t \in {"poll", "webhook"}, Receipt(c, t)
  PROVE  receipts' \subseteq Comments \X {"poll", "webhook"} /\ Received(c, "poll")'
BY DEF Receipt, Received, IInv, AppliedHasReceipt

LEMMA AppliedInv == IInv /\ [Next]_vars => AppliedHasReceipt'
<1> SUFFICES ASSUME IInv, [Next]_vars PROVE AppliedHasReceipt'
  OBVIOUS
<1>1. /\ AppliedHasReceipt /\ receipts \subseteq receipts'
      /\ \A h \in Processes : proc[h].pc \notin {"idle", "page"} => proc[h].comment \in Comments
      /\ \A h \in Processes : Transport(h) \in {"poll", "webhook"}
  BY Forward DEF IInv, ProcOK, ProcFits, Transport
<1>2. CASE UNCHANGED <<receipts, applied>>
  BY <1>1, <1>2 DEF AppliedHasReceipt, Received
<1>3. ASSUME NEW h \in Processes, Remember(h)
      PROVE  AppliedHasReceipt'
  BY <1>1, <1>3 DEF Remember, Receipt, AppliedHasReceipt, Received
<1>4. ASSUME NEW h \in Processes, Admit(h)
      PROVE  AppliedHasReceipt'
  <2>1. PICK c \in Comments, t \in {"poll", "webhook"} :
           c = proc[h].comment /\ t = Transport(h)
    BY <1>1, <1>4 DEF Admit
  <2>2. receipts' \subseteq Comments \X {"poll", "webhook"} /\ Received(c, "poll")'
    BY <1>4, <2>1, ReceiptGiven DEF Admit, IInv
  <2>3. \/ applied' = applied
        \/ ~Received(c, "poll") /\ applied' = [applied EXCEPT ![c] = @ + 1]
    BY <1>4, <2>1 DEF Admit, Received
  <2>4. \A d \in Comments : Received(d, "poll") => Received(d, "poll")'
    BY <1>1 DEF Received
  <2> QED
    BY <1>1, <2>2, <2>3, <2>4 DEF AppliedHasReceipt
<1>5. QED
  BY <1>2, <1>3, <1>4
     DEF Next, vars, People, Work, Admission, Polling, Post, Edit, Toggle, Tick, ObserveElsewhere,
     Starts, ShowLabel, Pauses, Retire, Select, Read, Verify, ObserveIssue, Authorize,
     AdmitRefused, Fail, Deliver, FetchPage, NextComment, SavePage, Processes

-----------------------------------------------------------------------------
(* Processes *)

(* A process that fits goes on fitting as the clock does. *)
LEMMA StillFits ==
  ASSUME IInv, [Next]_vars, NEW p, ProcFits(p)
  PROVE  ProcFits(p)'
BY TypesGrow DEF ProcFits

LEMMA IdleFits ==
  ASSUME IInv
  PROVE  /\ ProcFits(Idle) /\ ~Idle.scan.current
         /\ Idle = [pc |-> "idle", comment |-> 0,
                    seen |-> [closed |-> FALSE, label |-> "none", at |-> 0],
                    previous |-> "none", snap |-> <<>>, allowed |-> FALSE,
                    todo |-> {}, scan |-> NoScan]
         /\ [closed |-> FALSE, label |-> "none", at |-> 0] \in Issues
         /\ Idle.seen \in Issues /\ Idle \in Procs /\ Idle.scan = NoScan
<1>1. [closed |-> FALSE, label |-> "none", at |-> 0] \in Issues
  BY ConstantsAssumption DEF IInv, GitHubOK, Issues, States
<1>2. Idle \in Procs
  BY <1>1 DEF Idle, Procs, Pcs, States, Snapshots
<1> QED
  BY <1>1, <1>2 DEF Idle, ProcFits, NoScan

(* A process goes on with what it owes to the comments of its page. *)
Carries(p, q) ==
    q.scan.current =>
        /\ q.scan = p.scan
        /\ \A c \in Comments : c \in p.todo \/ c = p.comment
              => c \in q.todo \/ c = q.comment \/ Received(c, "poll")'
GoesOn(h, q) ==
    proc' = [proc EXCEPT ![h] = q] /\ ProcFits(q) /\ Carries(proc[h], q)

LEMMA AnsweredGoesOn ==
  ASSUME IInv, NEW h \in Processes, proc[h].pc \notin {"idle", "page"}
  PROVE  /\ Answered(h, FALSE) => \E q : GoesOn(h, q)
         /\ Answered(h, TRUE) /\ (\A c \in Comments : c = proc[h].comment => Received(c, "poll")')
               => \E q : GoesOn(h, q)
<1> DEFINE q(pc, c) ==
             [Idle EXCEPT !.pc = pc, !.comment = c, !.todo = proc[h].todo, !.scan = proc[h].scan]
<1>1. /\ proc[h] \in Procs /\ proc[h].comment \in Comments /\ 0 \notin Comments
      /\ proc[h].todo \in SUBSET Comments /\ proc[h].scan \in {NoScan} \cup Scans
  BY ConstantsAssumption DEF IInv, ProcOK, ProcFits, Procs
<1>2. CASE h \in Handlers
  <2>1. \A b : Answered(h, b) => proc' = [proc EXCEPT ![h] = Idle]
    BY <1>2 DEF Answered
  <2> QED
    BY <2>1, IdleFits DEF GoesOn, Carries
<1>3. ASSUME NEW pc \in Pcs, NEW c \in Comments \cup {0}
      PROVE  /\ q(pc, c) \in Procs /\ q(pc, c).pc = pc /\ q(pc, c).comment = c
             /\ q(pc, c).todo = proc[h].todo /\ q(pc, c).scan = proc[h].scan
  BY <1>1, <1>3, IdleFits DEF Procs
<1>4. ASSUME h \notin Handlers, Answered(h, TRUE),
             \A c \in Comments : c = proc[h].comment => Received(c, "poll")'
      PROVE  GoesOn(h, q("page", 0))
  <2>1. proc' = [proc EXCEPT ![h] = q("page", 0)]
    BY <1>4 DEF Answered
  <2> HIDE DEF q
  <2>2. ProcFits(q("page", 0)) /\ Carries(proc[h], q("page", 0))
    BY <1>1, <1>3, <1>4 DEF ProcFits, Pcs, Carries
  <2> QED
    BY <2>1, <2>2 DEF GoesOn
<1>5. ASSUME h \notin Handlers, Answered(h, FALSE)
      PROVE  GoesOn(h, q("receipt", proc[h].comment))
  <2>1. proc' = [proc EXCEPT ![h] = q("receipt", proc[h].comment)]
    BY <1>5 DEF Answered
  <2> HIDE DEF q
  <2>2. ProcFits(q("receipt", proc[h].comment)) /\ Carries(proc[h], q("receipt", proc[h].comment))
    BY <1>1, <1>3, <1>5 DEF ProcFits, Pcs, Carries
  <2> QED
    BY <2>1, <2>2 DEF GoesOn
<1>6. QED
  BY <1>2, <1>4, <1>5

LEMMA AdmissionGoesOn ==
  ASSUME IInv, [Next]_vars, NEW h \in Processes, Admission(h)
  PROVE  \E q : GoesOn(h, q)
<1>1. /\ proc \in [Processes -> Procs] /\ proc[h] \in Procs /\ ProcFits(proc[h])
      /\ item.state \in States /\ item.closed \in BOOLEAN /\ item.generation \in Nat
      /\ item.label \in States
  BY DEF IInv, ProcOK, WorkflowOK
<1>2. ASSUME proc[h].pc \notin {"idle", "page"}, Answered(h, FALSE)
      PROVE  \E q : GoesOn(h, q)
  BY <1>2, AnsweredGoesOn
<1>3. ASSUME NEW pc \in {"verify", "observe", "authorize"}, NEW previous \in States, NEW seen \in Issues,
             proc[h].pc \notin {"idle", "page"},
             proc' = [proc EXCEPT ![h] = [proc[h] EXCEPT !.pc = pc, !.seen = seen,
                                                         !.previous = previous]]
      PROVE  \E q : GoesOn(h, q)
  <2> DEFINE q == [proc[h] EXCEPT !.pc = pc, !.seen = seen, !.previous = previous]
  <2>1. ProcFits(q) /\ Carries(proc[h], q)
    BY <1>1, <1>3 DEF ProcFits, Procs, Pcs, Carries
  <2> QED
    BY <1>3, <2>1 DEF GoesOn
<1>4. CASE Read(h)
  <2>1. \/ Answered(h, FALSE)
        \/ \E pc \in {"verify", "observe"} :
              proc' = [proc EXCEPT ![h] = [proc[h] EXCEPT !.pc = pc, !.seen = proc[h].seen,
                                                          !.previous = item.state]]
    BY <1>1, <1>4 DEF Read, Procs
  <2>2. proc[h].seen \in Issues
    BY <1>1 DEF Procs
  <2> QED
    BY <1>1, <1>2, <1>3, <1>4, <2>1, <2>2 DEF Read
<1>5. CASE Verify(h) \/ ObserveIssue(h)
  <2>1. proc[h].previous \in States /\ proc[h].seen \in Issues /\ Idle.seen \in Issues
        /\ "none" \in States
    BY <1>1, IdleFits DEF Procs, States
  <2>2. \/ Answered(h, FALSE)
        \/ proc' = [proc EXCEPT ![h] = [proc[h] EXCEPT !.pc = "observe", !.seen = proc[h].seen,
                                                       !.previous = proc[h].previous]]
        \/ proc' = [proc EXCEPT ![h] = [proc[h] EXCEPT !.pc = "authorize", !.seen = Idle.seen,
                                                       !.previous = "none"]]
    BY <1>1, <1>5 DEF Verify, ObserveIssue, Goes, Procs
  <2> QED
    BY <1>2, <1>3, <1>5, <2>1, <2>2 DEF Verify, ObserveIssue
<1>6. CASE Authorize(h)
  <2>1. proc[h].comment \in Comments
    BY <1>1, <1>6 DEF Authorize, ProcFits
  <2>2. Snapshot \in Snapshots /\ Snapshot[3] = item.state
    BY <1>1 DEF Snapshot, Snapshots
  <2>3. PICK allowed \in BOOLEAN :
           /\ allowed => /\ ShouldQueue(proc[h].comment, item.state)
                         /\ MayPass(proc[h].comment, item.state)
           /\ proc' = [proc EXCEPT ![h] = [proc[h] EXCEPT !.pc = "admit", !.snap = Snapshot,
                                                         !.allowed = allowed]]
    <3> DEFINE A == ShouldQueue(proc[h].comment, item.state) /\ MayPass(proc[h].comment, item.state)
    <3>1. proc' = [proc EXCEPT ![h] = [proc[h] EXCEPT !.pc = "admit", !.snap = Snapshot, !.allowed = A]]
      BY <1>6 DEF Authorize
    <3>2. A = TRUE \/ A = FALSE
      BY Zenon
    <3> QED
      BY <3>1, <3>2
  <2> DEFINE q == [proc[h] EXCEPT !.pc = "admit", !.snap = Snapshot, !.allowed = allowed]
  <2>4. ProcFits(q) /\ Carries(proc[h], q)
    BY <1>1, <2>1, <2>2, <2>3 DEF ProcFits, Procs, Pcs, Carries
  <2> QED
    BY <2>3, <2>4 DEF GoesOn
<1>7. CASE AdmitRefused(h)
  BY <1>7, IdleFits DEF AdmitRefused, GoesOn, Carries
<1>8. CASE Admit(h)
  <2>1. \A c \in Comments : c = proc[h].comment => Received(c, "poll")'
    BY <1>8, ReceiptGiven DEF Admit, Transport
  <2> QED
    BY <1>2, <1>8, <2>1, AnsweredGoesOn DEF Admit
<1>9. QED
  BY <1>4, <1>5, <1>6, <1>7, <1>8 DEF Admission

LEMMA OthersGoOn ==
  ASSUME IInv, [Next]_vars, NEW h \in Processes,
         Fail(h) \/ (h \in Handlers /\ Deliver(h)) \/ NextComment(h) \/ Remember(h)
  PROVE  \E q : GoesOn(h, q)
<1>1. /\ proc \in [Processes -> Procs] /\ proc[h] \in Procs /\ ProcFits(proc[h])
      /\ 0 \notin Comments /\ Comments \subseteq Nat
  BY ConstantsAssumption DEF IInv, ProcOK
<1>2. CASE Fail(h)
  BY <1>2, IdleFits DEF Fail, GoesOn, Carries
<1>3. CASE Deliver(h)
  <2>1. PICK m \in mail :
           proc' = [proc EXCEPT ![h] = [Idle EXCEPT !.pc = "read", !.comment = m.comment,
                                                    !.seen = m.issue]]
    BY <1>3 DEF Deliver
  <2>2. m.comment \in Comments /\ m.issue \in Issues
    BY DEF IInv, GitHubOK
  <2> DEFINE q == [Idle EXCEPT !.pc = "read", !.comment = m.comment, !.seen = m.issue]
  <2>3. /\ q \in Procs /\ q.pc = "read" /\ q.comment = m.comment /\ q.scan = NoScan
    <3>1. Idle \in Procs /\ Idle.scan = NoScan
      BY IdleFits
    <3> QED
      BY <2>2, <3>1 DEF Procs, Pcs
  <2> HIDE DEF q
  <2>4. ProcFits(q) /\ Carries(proc[h], q)
    BY <2>2, <2>3 DEF ProcFits, Carries, NoScan
  <2> QED
    BY <2>1, <2>4 DEF GoesOn, q
<1>4. CASE NextComment(h)
  <2>c. PICK c : c = Min(proc[h].todo)
    OBVIOUS
  <2> DEFINE rest == [proc[h] EXCEPT !.todo = @ \ {c}]
             next == [rest EXCEPT !.pc = "read", !.comment = c, !.seen = issue]
  <2>1. c \in proc[h].todo /\ c \in Comments
    <3>1. proc[h].todo \in SUBSET Nat /\ proc[h].todo # {} /\ proc[h].todo \subseteq Comments
      BY <1>1, <1>4 DEF NextComment, Procs
    <3> QED
      BY <2>c, <3>1, Minimum DEF Min
  <2>2. issue \in Issues /\ proc[h].pc = "page" /\ proc[h].comment = 0
    BY <1>1, <1>4 DEF NextComment, IInv, GitHubOK, ProcFits
  <2>3. CASE Received(c, Transport(h))
    <3>1. proc' = [proc EXCEPT ![h] = rest]
      BY <1>4, <2>c, <2>3 DEF NextComment
    <3>2. /\ rest \in Procs /\ rest.pc = "page" /\ rest.comment = 0
          /\ rest.scan = proc[h].scan /\ rest.todo = proc[h].todo \ {c}
      BY <1>1, <2>2 DEF Procs
    <3>3. Received(c, "poll")'
      BY <1>4, <2>3 DEF NextComment, Received
    <3> HIDE DEF rest
    <3>4. ProcFits(rest) /\ Carries(proc[h], rest)
      BY <2>2, <3>2, <3>3 DEF ProcFits, Carries
    <3> QED
      BY <3>1, <3>4 DEF GoesOn
  <2>4. CASE ~Received(c, Transport(h))
    <3>1. proc' = [proc EXCEPT ![h] = next]
      BY <1>4, <2>c, <2>4 DEF NextComment
    <3>2. /\ next \in Procs /\ next.pc = "read" /\ next.comment = c
          /\ next.scan = proc[h].scan /\ next.todo = proc[h].todo \ {c}
      BY <1>1, <2>1, <2>2 DEF Procs, Pcs
    <3> HIDE DEF next
    <3>3. ProcFits(next) /\ Carries(proc[h], next)
      BY <1>1, <2>1, <2>2, <3>2 DEF ProcFits, Carries
    <3> QED
      BY <3>1, <3>3 DEF GoesOn
  <2> QED
    BY <2>3, <2>4
<1>5. CASE Remember(h)
  <2> DEFINE q == [proc[h] EXCEPT !.pc = "page", !.comment = 0]
  <2>1. proc' = [proc EXCEPT ![h] = q]
    BY <1>5 DEF Remember
  <2>2. /\ q \in Procs /\ q.pc = "page" /\ q.comment = 0
        /\ q.scan = proc[h].scan /\ q.todo = proc[h].todo
    BY <1>1 DEF Procs, Pcs
  <2>3. \A c \in Comments : c = proc[h].comment => Received(c, "poll")'
    BY <1>1, <1>5, ReceiptGiven DEF Remember, Transport, ProcFits
  <2> HIDE DEF q
  <2>4. ProcFits(q) /\ Carries(proc[h], q)
    BY <2>2, <2>3 DEF ProcFits, Carries
  <2> QED
    BY <2>1, <2>4 DEF GoesOn
<1>6. QED
  BY <1>2, <1>3, <1>4, <1>5

-----------------------------------------------------------------------------
(* Pages *)

(* The ranks of a list only grow while its start stays where it is. *)
LEMMA RanksGrow ==
  ASSUME IInv, [Next]_vars, NEW since \in Int, NEW c \in Comments
  PROVE  /\ Listed(since) \subseteq Listed(since)'
         /\ Rank(c, since) \in Nat /\ Rank(c, since)' \in Nat /\ Rank(c, since) <= Rank(c, since)'
         /\ \A d \in Comments : c <= d => Rank(c, since) <= Rank(d, since)'
<1>1. Listed(since) \subseteq Listed(since)'
  BY Forward, GitHubInv DEF Listed, Posted, IInv, GitHubOK
<1>2. ASSUME NEW d \in Comments, c <= d
      PROVE  /\ Rank(c, since) \in Nat /\ Rank(d, since)' \in Nat
             /\ Rank(c, since) <= Rank(d, since)'
  <2> DEFINE S == {e \in Listed(since) : e < c}
             T == {e \in Listed(since)' : e < d}
  <2>1. /\ T \in SUBSET Comments /\ Listed(since) \subseteq Comments
        /\ IsFiniteSet(Comments) /\ Comments \subseteq Nat
    BY ConstantsAssumption DEF Listed
  <2>2. ASSUME NEW e \in Listed(since), e < c PROVE e \in Listed(since)' /\ e < d
    <3>1. e \in Comments /\ e \in Listed(since)'
      BY <1>1, <2>1
    <3>2. PICK a \in Nat, b \in Nat, n \in Nat : a = e /\ b = c /\ n = d
      BY <2>1, <3>1
    <3>3. a < b /\ b <= n
      BY <1>2, <2>2, <3>2
    <3>4. a < n
      BY <3>3
    <3> QED
      BY <3>1, <3>2, <3>4
  <2>3. S \in SUBSET T
    BY <2>2
  <2>4. IsFiniteSet(T)
    BY <2>1, FS_Subset
  <2>5. IsFiniteSet(S) /\ Cardinality(S) <= Cardinality(T)
    BY <2>3, <2>4, FS_Subset
  <2>6. Cardinality(S) \in Nat /\ Cardinality(T) \in Nat
    BY <2>4, <2>5, FS_CardinalityType
  <2>7. Rank(c, since) = Cardinality(S) /\ Rank(d, since)' = Cardinality(T)
    BY DEF Rank
  <2> QED
    BY <2>5, <2>6, <2>7
<1>3. QED
  BY <1>1, <1>2, ConstantsAssumption

(* Rank counts other comments. *)
LEMMA RankBelow ==
  ASSUME NEW since, NEW c \in Comments
  PROVE  /\ Rank(c, since) \in Nat /\ Rank(c, since) < Cardinality(Comments)
         /\ Cardinality(Comments) \in Nat
<1> DEFINE S == {d \in Listed(since) : d < c}
<1>1. S \in SUBSET (Comments \ {c}) /\ IsFiniteSet(Comments)
  BY ConstantsAssumption DEF Listed
<1>2. /\ IsFiniteSet(Comments \ {c})
      /\ Cardinality(Comments \ {c}) = Cardinality(Comments) - 1
      /\ Cardinality(Comments) \in Nat
  BY <1>1, FS_RemoveElement, FS_CardinalityType
<1>3. IsFiniteSet(S) /\ Cardinality(S) <= Cardinality(Comments \ {c}) /\ Cardinality(S) \in Nat
  BY <1>1, <1>2, FS_Subset, FS_CardinalityType
<1> QED
  BY <1>2, <1>3 DEF Rank

(* The latest time of a scan is one, and none of its page is later. *)
LEMMA LatestIs ==
  ASSUME NEW n \in Nat, now = n, NEW scan \in Scans
  PROVE  /\ Latest(scan) \in -1..n
         /\ \A c \in DOMAIN scan.page.times : scan.page.times[c] <= Latest(scan)
<1> DEFINE S == {scan.cursor.latest} \cup Times(scan.page)
<1>1. S \in SUBSET (-1..n) /\ S # {}
  <2>1. scan.cursor.latest \in -1..n
    BY DEF Scans, Cursors
  <2>2. PICK D \in SUBSET Comments : scan.page.times \in [D -> 0..n]
    BY DEF Scans, Pages
  <2>3. Times(scan.page) \subseteq 0..n
    BY <2>2 DEF Times
  <2> QED
    BY <2>1, <2>3
<1>2. \E m \in S : \A x \in S : x <= m
  <2>1. S \in SUBSET Int /\ n \in Int /\ \A x \in S : x <= n
    BY <1>1
  <2> HIDE DEF S
  <2> QED
    BY <1>1, <2>1, Maximum, Zenon
<1>3. Latest(scan) = CHOOSE x \in S : \A y \in S : x >= y
  BY DEF Latest, Max
<1>4. Latest(scan) \in S /\ \A x \in S : x <= Latest(scan)
  <2>1. \E m \in S : \A x \in S : m >= x
    BY <1>1, <1>2
  <2>2. Latest(scan) \in S /\ \A y \in S : Latest(scan) >= y
    BY <1>3, <2>1
  <2> QED
    BY <1>1, <2>2
<1>5. QED
  BY <1>1, <1>4 DEF Times

(* A page read now leaves nothing behind that had no receipt before. *)
LEMMA PageFits ==
  ASSUME IInv, NEW scan \in Scans, scan.cursor = cursor,
         scan.page = PageOf(cursor.since, cursor.page)
  PROVE  /\ scan.page.next => Reaches(cursor.page + 1)
         /\ \A c \in Comments : Posted(c) /\ ~Received(c, "poll")
               => c \in DOMAIN scan.page.times \/ Behind(c, scan)
<1>1. scan.page.next => Reaches(cursor.page + 1)
  <2>1. cursor.page \in Nat
    BY DEF IInv, CursorOK, Cursors
  <2> QED
    BY <2>1 DEF PageOf, Reaches
<1>2. ASSUME NEW c \in Comments, Posted(c), ~Received(c, "poll"), c \notin DOMAIN scan.page.times
      PROVE  Behind(c, scan)
  <2>1. c \in Listed(cursor.since) /\ Rank(c, cursor.since) >= (cursor.page - 1) * PageSize
    BY <1>2 DEF IInv, NothingSkipped, Ahead, Listed
  <2>2. ~(Rank(c, cursor.since) < cursor.page * PageSize)
    BY <1>2, <2>1 DEF PageOf, OnPage
  <2>3. Rank(c, cursor.since) \in Nat /\ cursor.page * PageSize \in Nat
    BY RankBelow, ConstantsAssumption DEF IInv, CursorOK, Cursors
  <2>4. scan.page.next
    BY <2>1, <2>2, <2>3 DEF PageOf
  <2> QED
    BY <2>2, <2>3, <2>4 DEF Behind
<1>3. QED
  BY <1>1, <1>2

LEMMA ReachesStays ==
  ASSUME IInv, [Next]_vars, cursor'.since = cursor.since, NEW page \in Nat \ {0}, Reaches(page)
  PROVE  /\ Reaches(page)'
         /\ \A c \in Comments : ~Posted(c) /\ Posted(c)'
               => Rank(c, cursor.since)' >= (page - 1) * PageSize
<1>1. PICK since \in Int : since = cursor.since /\ since = cursor'.since
  BY DEF IInv, CursorOK, Cursors
<1>2. /\ Comments \subseteq Nat /\ (page - 1) * PageSize \in Nat /\ GitHubOK /\ GitHubOK'
  BY ConstantsAssumption, GitHubInv DEF IInv
<1>3. PICK e \in Listed(since) : Rank(e, since) >= (page - 1) * PageSize
  BY <1>1 DEF Reaches
<1>4. e \in Comments /\ Posted(e)
  BY <1>3 DEF Listed
<1>5. ASSUME NEW c \in Comments, ~Posted(c), Posted(c)'
      PROVE  e <= c
  BY <1>2, <1>4, <1>5 DEF GitHubOK
<1>6. /\ Listed(since) \subseteq Listed(since)' /\ Rank(e, since) \in Nat
      /\ \A d \in Comments : /\ Rank(d, since)' \in Nat
                            /\ e <= d => Rank(e, since) <= Rank(d, since)'
  BY <1>4, RanksGrow
<1> PICK n \in Int : n = (page - 1) * PageSize
  BY <1>2
<1>n. Rank(e, since) >= n /\ Rank(e, since) \in Nat
  BY <1>3, <1>6
<1>7. e \in Listed(since)' /\ Rank(e, since)' >= n
  <2>1. Rank(e, since)' \in Nat /\ Rank(e, since) <= Rank(e, since)'
    BY <1>4, RanksGrow
  <2>2. Rank(e, since)' >= n
    BY <2>1, <1>n
  <2> QED
    BY <1>3, <1>6, <2>2
<1>8. Reaches(page)'
  BY <1>1, <1>7 DEF Reaches
<1>9. ASSUME NEW c \in Comments, ~Posted(c), Posted(c)'
      PROVE  Rank(c, since)' >= n
  <2>1. e <= c
    BY <1>5, <1>9
  <2>2. Rank(c, since)' \in Nat /\ Rank(e, since) <= Rank(c, since)'
    BY <1>4, <2>1, RanksGrow
  <2> QED
    BY <2>2, <1>n
<1>10. QED
  BY <1>1, <1>8, <1>9 DEF Rank, Listed

(* A scan that fits goes on fitting while the cursor stays where it is. *)
LEMMA ScanStillFits ==
  ASSUME IInv, [Next]_vars, cursor' = cursor, NEW p, p.scan \in {NoScan} \cup Scans, ScanFits(p)
  PROVE  ScanFits(p)'
<1> SUFFICES ASSUME p.scan.current, ~p.scan.same PROVE ScanFits(p)'
  BY DEF ScanFits
<1> DEFINE scan == p.scan
<1>1. /\ scan \in Scans /\ scan.cursor = cursor /\ cursor.page \in Nat \ {0}
      /\ cursor.page + 1 \in Nat \ {0} /\ scan.page.next \in BOOLEAN
  BY DEF NoScan, ScanFits, IInv, CursorOK, Cursors, Scans, Pages
<1>2. PICK since \in Int : since = cursor.since /\ since = cursor'.since
  BY DEF IInv, CursorOK, Cursors
<1>3. /\ scan.page.next => Reaches(cursor.page + 1)
      /\ \A c \in Comments : Posted(c) /\ ~Received(c, "poll")
            => c \in p.todo \/ c = p.comment \/ Behind(c, scan)
  BY DEF ScanFits
<1>4. scan.page.next => Reaches(cursor.page + 1)'
  BY <1>1, <1>3, ReachesStays DEF Reaches
<1>5. ASSUME NEW c \in Comments, Posted(c)', ~Received(c, "poll")'
      PROVE  c \in p.todo \/ c = p.comment \/ Behind(c, scan)'
  <2>1. ~Received(c, "poll")
    BY <1>5, Forward DEF Received
  <2>2. CASE Posted(c) /\ Behind(c, scan) /\ scan.page.next
    <3>1. /\ Rank(c, since) \in Nat /\ Rank(c, since)' \in Nat
          /\ Rank(c, since) <= Rank(c, since)'
      BY RanksGrow
    <3>2. Rank(c, since) >= cursor.page * PageSize /\ cursor.page * PageSize \in Nat
      BY <1>1, <1>2, <2>2, ConstantsAssumption DEF Behind
    <3>3. Rank(c, since)' >= cursor.page * PageSize
      BY <3>1, <3>2
    <3> QED
      BY <1>2, <2>2, <3>3 DEF Behind, Rank, Listed
  <2>3. CASE ~Posted(c) /\ scan.page.next
    <3>1. Rank(c, cursor.since)' >= cursor.page * PageSize
      BY <1>1, <1>3, <1>5, <2>3, ReachesStays
    <3> QED
      BY <2>3, <3>1 DEF Behind
  <2>4. CASE ~scan.page.next /\ (~Posted(c) \/ Behind(c, scan))
    <3>1. Latest(scan) \in -1..now
      BY <1>1, Forward, LatestIs
    <3>2. updated[c] \in 0..now /\ updated'[c] \in Int /\ updated[c] <= updated'[c]
      BY Forward, GitHubInv DEF IInv, GitHubOK
    <3>3. CASE Posted(c)
      BY <2>4, <3>1, <3>2, <3>3 DEF Behind
    <3>4. CASE ~Posted(c)
      <4>1. updated'[c] = now
        BY <1>5, <3>4 DEF Posted, IInv, GitHubOK, github, Next, vars, People, Work, Admission, Polling, Post, Edit,
           Toggle, Tick, ObserveElsewhere, Starts, ShowLabel, Pauses, Retire, Select, Read,
           Verify, ObserveIssue, Authorize, AdmitRefused, Admit, Fail, Deliver, FetchPage,
           NextComment, Remember, SavePage
      <4> QED
        BY <2>4, <3>1, <4>1 DEF Behind
    <3> QED
      BY <3>3, <3>4
  <2> QED
    BY <1>1, <1>3, <2>1, <2>2, <2>3, <2>4
<1>6. QED
  BY <1>1, <1>4, <1>5 DEF ScanFits

-----------------------------------------------------------------------------
(* Fetching and saving a page *)

LEMMA FetchFits ==
  ASSUME IInv, NEW h \in Processes, FetchPage(h)
  PROVE  \E q : proc' = [proc EXCEPT ![h] = q] /\ ProcFits(q) /\ ScanFits(q)
<1> DEFINE page == PageOf(cursor.since, cursor.page)
<1>1. /\ proc \in [Processes -> Procs] /\ cursor \in Cursors /\ 0 \notin Comments
      /\ now \in Nat /\ Skew \in Nat /\ updated \in [Comments -> 0..now]
  BY ConstantsAssumption DEF IInv, ProcOK, CursorOK, GitHubOK
<1>2. page \in Pages /\ DOMAIN page.times \in SUBSET Comments
  <2> DEFINE D == {d \in Listed(cursor.since) : OnPage(d, cursor.since, cursor.page)}
  <2>1. D \in SUBSET Comments
    BY DEF Listed
  <2>2. [c \in D |-> updated[c]] \in [D -> 0..now]
    BY <1>1, <2>1
  <2>3. (\E c \in Listed(cursor.since) : Rank(c, cursor.since) >= cursor.page * PageSize) \in BOOLEAN
    BY Zenon
  <2> HIDE DEF D
  <2>4. [c \in D |-> updated[c]] \in UNION {[S -> 0..now] : S \in SUBSET Comments}
    BY <2>1, <2>2
  <2> QED
    BY <2>1, <2>3, <2>4 DEF PageOf, Pages, D
<1>3. PICK same \in BOOLEAN : same = (cursor.etag = {page})
  BY Zenon
<1> DEFINE todo == IF same THEN {} ELSE DOMAIN page.times
           scan == [current |-> TRUE, cursor |-> cursor, started |-> now + Skew,
                    same |-> same, page |-> page]
           q == [Idle EXCEPT !.pc = "page", !.todo = todo, !.scan = scan]
<1>4. proc' = [proc EXCEPT ![h] = q]
  BY <1>3 DEF FetchPage
<1>5. scan \in Scans /\ scan.current /\ scan.cursor = cursor /\ scan.same = same /\ scan.page = page
  <2> HIDE DEF page
  <2> QED
    BY <1>1, <1>2 DEF Scans
<1>6. todo \in SUBSET Comments
  BY <1>2
<1> HIDE DEF scan, todo
<1>7. q \in Procs /\ q.pc = "page" /\ q.comment = 0 /\ q.todo = todo /\ q.scan = scan
  <2>1. Idle \in Procs /\ Idle.comment = 0
    BY IdleFits
  <2> QED
    BY <1>5, <1>6, <2>1 DEF Procs, Pcs
<1> HIDE DEF q
<1>8. ProcFits(q)
  BY <1>7 DEF ProcFits
<1>9. ScanFits(q)
  BY <1>5, <1>7, PageFits DEF ScanFits, todo
<1> QED
  BY <1>4, <1>8, <1>9

\* A poller saves its page behind a cursor that is still the one it began with.
Saves(h) ==
    /\ proc[h].pc = "page" /\ proc[h].todo = {} /\ proc[h].scan.current
    /\ cursor' = Advanced(proc[h].scan) /\ UNCHANGED <<now, updated, receipts>>
    /\ proc' = [p \in Processes |->
           CASE p = h                 -> Idle
             [] proc[p].scan = NoScan -> proc[p]
             [] OTHER                 -> [proc[p] EXCEPT !.scan.current = FALSE]]

(* What a step does to the cursor and the processes. *)
LEMMA Moves ==
  ASSUME IInv, [Next]_vars
  PROVE  \/ cursor' = cursor /\ proc' = proc
         \/ cursor' = cursor /\ \E h \in Processes : \E q : GoesOn(h, q)
         \/ cursor' = cursor /\ \E h \in Processes : FetchPage(h)
         \/ \E h \in Processes : Saves(h)
<1>1. \/ UNCHANGED <<cursor, proc>>
      \/ \E h \in Processes : Admission(h) \/ Fail(h) \/ (h \in Handlers /\ Deliver(h))
                              \/ NextComment(h) \/ Remember(h) \/ FetchPage(h) \/ SavePage(h)
  BY DEF Next, vars, People, Work, Polling, Post, Edit, Toggle, Tick, ObserveElsewhere, Starts,
     ShowLabel, Pauses, Retire, Select, Processes
<1>2. ASSUME NEW h \in Processes, Admission(h)
      PROVE  cursor' = cursor /\ \E q : GoesOn(h, q)
  BY <1>2, AdmissionGoesOn DEF Admission, Read, Verify, ObserveIssue, Authorize, AdmitRefused, Admit
<1>3. ASSUME NEW h \in Processes,
             Fail(h) \/ (h \in Handlers /\ Deliver(h)) \/ NextComment(h) \/ Remember(h)
      PROVE  cursor' = cursor /\ \E q : GoesOn(h, q)
  BY <1>3, OthersGoOn DEF Fail, Deliver, NextComment, Remember
<1>4. ASSUME NEW h \in Processes, SavePage(h)
      PROVE  Saves(h) \/ (cursor' = cursor /\ \E q : GoesOn(h, q))
  <2>1. CASE proc[h].scan.current
    BY <1>4, <2>1 DEF SavePage, Saves, github
  <2>2. CASE ~proc[h].scan.current
    BY <1>4, <2>2, IdleFits DEF SavePage, GoesOn, Carries
  <2> QED
    BY <2>1, <2>2
<1>5. QED
  BY <1>1, <1>2, <1>3, <1>4 DEF FetchPage

LEMMA ProcInv == IInv /\ [Next]_vars => ProcOK'
<1> SUFFICES ASSUME IInv, [Next]_vars PROVE ProcOK'
  OBVIOUS
<1>1. proc \in [Processes -> Procs] /\ \A h \in Processes : ProcFits(proc[h])
  BY DEF IInv, ProcOK
<1>2. ASSUME proc' \in [Processes -> Procs],
             \A h \in Processes : \E p : proc'[h] = p /\ ProcFits(p)
      PROVE  ProcOK'
  <2>1. ASSUME NEW h \in Processes
        PROVE  ProcFits(proc[h])'
    <3>1. PICK p : proc'[h] = p /\ ProcFits(p)
      BY <1>2
    <3>2. ProcFits(p)'
      BY <3>1, StillFits
    <3> QED
      BY <3>1, <3>2 DEF ProcFits, ShouldQueue, MayPass, Gate
  <2>2. proc' \in [Processes -> Procs']
    BY <1>2, TypesGrow
  <2> QED
    BY <2>1, <2>2 DEF ProcOK
<1>3. CASE proc' = proc
  BY <1>1, <1>2, <1>3
<1>4. ASSUME NEW h \in Processes, NEW q, proc' = [proc EXCEPT ![h] = q], ProcFits(q)
      PROVE  ProcOK'
  <2>1. q \in Procs
    BY <1>4 DEF ProcFits
  <2> QED
    BY <1>1, <1>2, <1>4, <2>1
<1>5. ASSUME NEW h \in Processes, Saves(h)
      PROVE  ProcOK'
  <2>1. ASSUME NEW p \in Processes
        PROVE  proc'[p] \in Procs /\ ProcFits(proc'[p])
    <3>1. CASE p = h
      BY <1>5, <3>1, IdleFits DEF Saves
    <3>2. CASE p # h /\ proc[p].scan = NoScan
      BY <1>1, <1>5, <3>2 DEF Saves
    <3>3. CASE p # h /\ proc[p].scan # NoScan
      <4> DEFINE q == [proc[p] EXCEPT !.scan.current = FALSE]
      <4>1. proc'[p] = q
        BY <1>5, <3>3 DEF Saves
      <4>2. proc[p] \in Procs /\ proc[p].scan \in Scans
        BY <1>1, <3>3 DEF Procs
      <4>3. [proc[p].scan EXCEPT !.current = FALSE] \in Scans
        BY <4>2 DEF Scans
      <4>4. /\ q \in Procs /\ q.pc = proc[p].pc /\ q.comment = proc[p].comment
            /\ q.allowed = proc[p].allowed /\ q.snap = proc[p].snap
        BY <4>2, <4>3 DEF Procs
      <4> HIDE DEF q
      <4> QED
        BY <1>1, <4>1, <4>4 DEF ProcFits
    <3> QED
      BY <3>1, <3>2, <3>3
  <2>2. DOMAIN proc' = Processes /\ proc' = [p \in Processes |-> proc'[p]]
    BY <1>5 DEF Saves
  <2> QED
    BY <1>2, <2>1, <2>2
<1>6. QED
  BY <1>3, <1>4, <1>5, Moves, FetchFits DEF GoesOn

LEMMA ScanInv == IInv /\ [Next]_vars => ScanOK'
<1> SUFFICES ASSUME IInv, [Next]_vars PROVE ScanOK'
  OBVIOUS
<1>1. /\ proc \in [Processes -> Procs] /\ \A h \in Processes : ProcFits(proc[h])
      /\ \A h \in Processes : ScanFits(proc[h]) /\ proc[h].scan \in {NoScan} \cup Scans
  BY DEF IInv, ProcOK, ScanOK, Procs
<1>2. ASSUME \A h \in Processes : \E p : proc'[h] = p /\ ScanFits(p)'
      PROVE  ScanOK'
  <2>1. ASSUME NEW h \in Processes
        PROVE  ScanFits(proc[h])'
    <3>1. PICK p : proc'[h] = p /\ ScanFits(p)'
      BY <1>2
    <3> QED
      BY <3>1 DEF ScanFits, Behind, Latest, Times
  <2> QED
    BY <2>1 DEF ScanOK
<1>3. ASSUME cursor' = cursor, NEW h \in Processes, NEW p, p = proc[h]
      PROVE  ScanFits(p)'
  BY <1>1, <1>3, ScanStillFits
<1>4. CASE cursor' = cursor /\ proc' = proc
  BY <1>2, <1>3, <1>4
<1>5. ASSUME cursor' = cursor, NEW h \in Processes, NEW q, proc' = [proc EXCEPT ![h] = q],
             ScanFits(q)'
      PROVE  ScanOK'
  <2>1. ASSUME NEW k \in Processes
        PROVE  \E p : proc'[k] = p /\ ScanFits(p)'
    BY <1>1, <1>3, <1>5
  <2> QED
    BY <1>2, <2>1
<1>6. ASSUME cursor' = cursor, NEW h \in Processes, NEW q, GoesOn(h, q)
      PROVE  ScanOK'
  <2>1. PICK p : p = proc[h] /\ Carries(p, q) /\ p.comment \in Comments \cup {0}
    BY <1>1, <1>6 DEF GoesOn, ProcFits, Procs
  <2>2. ScanFits(p)'
    BY <1>3, <1>6, <2>1
  <2>3. ScanFits(q)'
    BY <2>1, <2>2 DEF ScanFits, Carries
  <2> QED
    BY <1>5, <1>6, <2>3 DEF GoesOn
<1>7. ASSUME cursor' = cursor, NEW h \in Processes, FetchPage(h)
      PROVE  ScanOK'
  <2>1. PICK q : proc' = [proc EXCEPT ![h] = q] /\ ProcFits(q) /\ ScanFits(q)
    BY <1>7, FetchFits
  <2>2. ScanFits(q)'
    BY <1>7, <2>1, ScanStillFits DEF ProcFits, Procs
  <2> QED
    BY <1>5, <1>7, <2>1, <2>2
<1>8. ASSUME NEW h \in Processes, Saves(h)
      PROVE  ScanOK'
  <2>1. ASSUME NEW k \in Processes
        PROVE  \E p : proc'[k] = p /\ ~p.scan.current
    <3>1. CASE k = h
      BY <1>8, <3>1, IdleFits DEF Saves
    <3>2. CASE k # h /\ proc[k].scan = NoScan
      BY <1>8, <3>2 DEF Saves, NoScan
    <3>3. CASE k # h /\ proc[k].scan # NoScan
      <4>1. proc'[k] = [proc[k] EXCEPT !.scan.current = FALSE]
        BY <1>8, <3>3 DEF Saves
      <4>2. proc[k] \in Procs /\ proc[k].scan \in Scans
        BY <1>1, <3>3 DEF Procs
      <4> QED
        BY <4>1, <4>2 DEF Procs, Scans
    <3> QED
      BY <3>1, <3>2, <3>3
  <2>2. ASSUME NEW p, ~p.scan.current PROVE ScanFits(p)'
    BY <2>2 DEF ScanFits
  <2> QED
    BY <1>2, <2>1, <2>2
<1>9. QED
  BY <1>4, <1>6, <1>7, <1>8, Moves

(* The greater and the lesser of two numbers. *)
LEMMA OfTwo ==
  ASSUME NEW a \in Int, NEW b \in Int
  PROVE  /\ Max({a, b}) \in {a, b} /\ Max({a, b}) >= a /\ Max({a, b}) >= b
         /\ Min({a, b}) \in {a, b} /\ Min({a, b}) <= a /\ Min({a, b}) <= b
<1>1. \E x \in {a, b} : \A y \in {a, b} : x >= y
  OBVIOUS
<1>2. \E x \in {a, b} : \A y \in {a, b} : x <= y
  OBVIOUS
<1>3. Max({a, b}) = CHOOSE x \in {a, b} : \A y \in {a, b} : x >= y
  BY DEF Max
<1>4. Min({a, b}) = CHOOSE x \in {a, b} : \A y \in {a, b} : x <= y
  BY DEF Min
<1>5. Max({a, b}) \in {a, b} /\ \A y \in {a, b} : Max({a, b}) >= y
  BY <1>1, <1>3
<1>6. Min({a, b}) \in {a, b} /\ \A y \in {a, b} : Min({a, b}) <= y
  BY <1>2, <1>4
<1>7. QED
  BY <1>5, <1>6

(* Where the next scan begins: not before this one, not behind a comment as *)
(* new as the latest of this one.                                           *)
LEMMA SinceIs ==
  ASSUME IInv, NEW scan \in Scans, scan.cursor = cursor
  PROVE  /\ Since(scan) \in 0..now
         /\ \A t \in Int : t >= cursor.since /\ t >= Latest(scan) => t >= Since(scan)
<1>1. PICK n \in Nat : n = now
  BY ConstantsAssumption DEF IInv, GitHubOK
<1>2. PICK old \in 0..n : old = cursor.since
  BY <1>1 DEF IInv, CursorOK, Cursors
<1>3. PICK last \in -1..n : last = Latest(scan)
  BY <1>1, LatestIs
<1>4. PICK bound \in Int : bound = ScanStarted(scan) - Overlap
  <2>1. ScanStarted(scan) \in Int
    BY DEF ScanStarted, Scans, Cursors
  <2> QED
    BY <2>1, ConstantsAssumption
<1>5. CASE last = None
  BY <1>1, <1>2, <1>3, <1>5 DEF Since
<1>6. CASE last # None
  <2>1. PICK m \in Int : m = Min({last - 1, bound}) /\ m <= last - 1
    <3>1. PICK k \in Int : k = last - 1
      BY <1>3
    <3>2. Min({k, bound}) \in {k, bound} /\ Min({k, bound}) <= k
      BY <1>4, <3>1, OfTwo
    <3> QED
      BY <1>4, <3>1, <3>2
  <2>2. Max({old, m}) \in {old, m} /\ Max({old, m}) >= old
    <3>1. old \in Int /\ m \in Int
      BY <1>2, <2>1
    <3> QED
      BY <3>1, OfTwo
  <2>3. Since(scan) = Max({old, m})
    BY <1>2, <1>3, <1>4, <1>6, <2>1 DEF Since
  <2>4. Since(scan) \in {old, m} /\ Since(scan) >= old
    BY <2>2, <2>3
  <2>5. Since(scan) \in Int /\ Since(scan) >= old /\ (Since(scan) = old \/ Since(scan) <= last - 1)
    BY <2>1, <2>4
  <2> HIDE <2>1, <2>2, <2>3
  <2> QED
    BY <1>1, <1>2, <1>3, <2>5
<1>7. QED
  BY <1>5, <1>6

(* Saving moves the cursor to the next page, or to a new scan. *)
LEMMA Saved ==
  ASSUME IInv, NEW h \in Processes, Saves(h)
  PROVE  LET scan == proc[h].scan
         IN  /\ scan \in Scans /\ scan.cursor = cursor /\ proc[h].comment = 0
             /\ \/ cursor' = cursor
                \/ /\ ~scan.same /\ scan.page.next /\ cursor' \in Cursors
                   /\ cursor'.since = cursor.since /\ cursor'.page = cursor.page + 1
                \/ /\ ~scan.same /\ ~scan.page.next /\ cursor' \in Cursors
                   /\ cursor'.since = Since(scan) /\ cursor'.page = 1
<1> DEFINE scan == proc[h].scan
<1>1. proc[h] \in Procs /\ proc[h].comment = 0 /\ cursor \in Cursors /\ ScanFits(proc[h])
  BY DEF Saves, IInv, ProcOK, ProcFits, CursorOK, ScanOK
<1>2. scan \in Scans /\ scan.cursor = cursor
  BY <1>1 DEF Saves, Procs, NoScan, ScanFits
<1>3. /\ ScanStarted(scan) \in Int /\ Latest(scan) \in -1..now /\ Since(scan) \in 0..now
      /\ scan.page \in Pages
  <2>1. now \in Nat
    BY ConstantsAssumption DEF IInv, GitHubOK
  <2> QED
    BY <1>2, <2>1, LatestIs, SinceIs DEF ScanStarted, Scans, Cursors
<1>4. cursor' = Advanced(scan)
  BY DEF Saves
<1> HIDE DEF scan
<1>5. CASE scan.same
  <2>1. cursor' = cursor
    BY <1>2, <1>4, <1>5 DEF Advanced
  <2> QED
    BY <1>1, <1>2, <2>1 DEF scan
<1>6. CASE ~scan.same /\ scan.page.next
  <2>1. cursor' = [cursor EXCEPT !.page = @ + 1, !.started = ScanStarted(scan),
                                 !.latest = Latest(scan), !.etag = {}]
    BY <1>2, <1>4, <1>6 DEF Advanced
  <2>2. PICK started \in Int, latest \in -1..now :
           started = ScanStarted(scan) /\ latest = Latest(scan)
    BY <1>3
  <2>3. cursor' = [cursor EXCEPT !.page = @ + 1, !.started = started, !.latest = latest, !.etag = {}]
    BY <2>1, <2>2
  <2>4. cursor' \in Cursors /\ cursor'.since = cursor.since /\ cursor'.page = cursor.page + 1
    <3>1. PICK page \in Nat \ {0} : page = cursor.page + 1
      BY <1>1 DEF Cursors
    <3>2. cursor' = [since |-> cursor.since, page |-> page, started |-> started,
                     latest |-> latest, etag |-> {}]
      BY <1>1, <2>3, <3>1 DEF Cursors
    <3>3. cursor.since \in 0..now /\ {} \in SUBSET Pages
      BY <1>1 DEF Cursors
    <3>4. cursor' \in Cursors
      BY <2>2, <3>1, <3>2, <3>3 DEF Cursors
    <3> QED
      BY <3>1, <3>2, <3>4
  <2> QED
    BY <1>1, <1>2, <1>6, <2>4 DEF scan
<1>7. CASE ~scan.same /\ ~scan.page.next
  <2>1. PICK etag \in SUBSET Pages :
           cursor' = [cursor EXCEPT !.since = Since(scan), !.page = 1, !.started = None,
                                    !.latest = None, !.etag = etag]
    BY <1>2, <1>3, <1>4, <1>7 DEF Advanced
  <2>2. None \in Int /\ None \in -1..now
    BY ConstantsAssumption DEF None, IInv, GitHubOK
  <2>3. PICK since \in 0..now, none \in -1..now : since = Since(scan) /\ none = None /\ none \in Int
    BY <1>3, <2>2
  <2>4. cursor' = [cursor EXCEPT !.since = since, !.page = 1, !.started = none, !.latest = none,
                                 !.etag = etag]
    BY <2>1, <2>3
  <2>5. cursor' \in Cursors /\ cursor'.since = since /\ cursor'.page = 1
    <3>1. cursor' = [since |-> since, page |-> 1, started |-> none, latest |-> none, etag |-> etag]
      BY <1>1, <2>4 DEF Cursors
    <3>2. cursor' \in Cursors
      BY <2>3, <3>1 DEF Cursors
    <3> QED
      BY <3>1, <3>2
  <2> QED
    BY <1>1, <1>2, <1>7, <2>3, <2>5 DEF scan
<1>8. QED
  BY <1>1, <1>2, <1>5, <1>6, <1>7 DEF scan

LEMMA CursorInv == IInv /\ [Next]_vars => CursorOK'
<1> SUFFICES ASSUME IInv, [Next]_vars PROVE CursorOK'
  OBVIOUS
<1>1. /\ cursor \in Cursors /\ cursor.page \in Nat \ {0} /\ cursor.page + 1 \in Nat \ {0}
      /\ cursor.page > 1 => Reaches(cursor.page)
  BY DEF IInv, CursorOK, Cursors
<1>2. CASE cursor' = cursor
  <2>1. cursor' \in Cursors'
    BY <1>1, <1>2, TypesGrow
  <2>2. CASE cursor.page > 1
    BY <1>1, <1>2, <2>1, <2>2, ReachesStays DEF CursorOK, Reaches
  <2>3. CASE ~(cursor.page > 1)
    BY <1>2, <2>1, <2>3 DEF CursorOK
  <2> QED
    BY <2>2, <2>3
<1>3. ASSUME NEW h \in Processes, Saves(h), cursor' # cursor
      PROVE  CursorOK'
  <2>1. PICK scan \in Scans : scan = proc[h].scan /\ scan.cursor = cursor
    BY <1>3, Saved
  <2>2. /\ cursor' \in Cursors /\ ~scan.same
        /\ \/ scan.page.next /\ cursor'.since = cursor.since /\ cursor'.page = cursor.page + 1
           \/ ~scan.page.next /\ cursor'.page = 1
    BY <1>3, <2>1, Saved
  <2>3. cursor' \in Cursors'
    BY <2>2, TypesGrow
  <2>4. CASE scan.page.next
    <3>1. PICK page \in Nat \ {0} : page = cursor.page + 1 /\ page = cursor'.page
      BY <1>1, <2>2, <2>4
    <3>2. Reaches(page)
      BY <1>3, <2>1, <2>2, <2>4, <3>1 DEF IInv, ScanOK, ScanFits, Saves
    <3>3. Reaches(page)'
      BY <2>2, <2>4, <3>2, ReachesStays
    <3> QED
      BY <2>3, <3>1, <3>3 DEF CursorOK, Reaches
  <2>5. CASE ~scan.page.next
    BY <2>2, <2>3, <2>5 DEF CursorOK
  <2> QED
    BY <2>4, <2>5
<1>4. QED
  BY <1>2, <1>3, Moves

LEMMA SkippedInv == IInv /\ [Next]_vars => NothingSkipped'
<1> SUFFICES ASSUME IInv, [Next]_vars, NEW c \in Comments, Posted(c)', ~Received(c, "poll")'
             PROVE  Ahead(c)'
  BY DEF NothingSkipped
<1>1. /\ cursor \in Cursors /\ cursor.page \in Nat \ {0} /\ cursor.since \in 0..now
      /\ cursor.page > 1 => Reaches(cursor.page)
  BY DEF IInv, CursorOK, Cursors
<1>2. /\ ~Received(c, "poll")
      /\ Posted(c) => Ahead(c)
      /\ updated[c] \in 0..now /\ updated'[c] \in Int /\ updated[c] <= updated'[c]
  BY Forward, GitHubInv DEF IInv, NothingSkipped, GitHubOK, Received
<1>3. ASSUME cursor' = cursor PROVE Ahead(c)'
  <2>1. PICK since \in 0..now : since = cursor.since /\ since = cursor'.since
    BY <1>1, <1>3
  <2>2. /\ Rank(c, since) \in Nat /\ Rank(c, since)' \in Nat /\ Rank(c, since) <= Rank(c, since)'
    BY RanksGrow
  <2>3. PICK n \in Nat : n = (cursor.page - 1) * PageSize /\ n = (cursor'.page - 1) * PageSize
    BY <1>1, <1>3, ConstantsAssumption
  <2>4. CASE Posted(c)
    <3>1. updated[c] >= since /\ Rank(c, since) >= n
      BY <1>2, <2>1, <2>3, <2>4 DEF Ahead
    <3>2. updated'[c] >= since /\ Rank(c, since)' >= n
      BY <1>2, <2>1, <2>2, <3>1
    <3> QED
      BY <2>1, <2>3, <3>2 DEF Ahead, Rank, Listed
  <2>5. CASE ~Posted(c)
    <3>1. updated'[c] = now
      BY <2>5 DEF Posted, IInv, GitHubOK, github, Next, vars, People, Work, Admission, Polling, Post,
         Edit, Toggle, Tick, ObserveElsewhere, Starts, ShowLabel, Pauses, Retire, Select, Read,
         Verify, ObserveIssue, Authorize, AdmitRefused, Admit, Fail, Deliver, FetchPage,
         NextComment, Remember, SavePage
    <3>2. Rank(c, since)' >= n
      <4>1. CASE cursor.page > 1
        <5>1. Rank(c, cursor.since)' >= (cursor.page - 1) * PageSize
          BY <1>1, <1>3, <2>5, <4>1, ReachesStays
        <5> QED
          BY <2>1, <2>3, <5>1 DEF Rank, Listed
      <4>2. CASE ~(cursor.page > 1)
        <5>1. cursor.page = 1 /\ n = 0
          BY <1>1, <2>3, <4>2, ConstantsAssumption
        <5> QED
          BY <2>2, <5>1
      <4> QED
        BY <4>1, <4>2
    <3> QED
      BY <2>1, <2>3, <3>1, <3>2 DEF Ahead, Rank, Listed
  <2> QED
    BY <2>4, <2>5
<1>4. ASSUME NEW h \in Processes, Saves(h), cursor' # cursor
      PROVE  Ahead(c)'
  <2>1. PICK scan \in Scans : scan = proc[h].scan /\ scan.cursor = cursor /\ proc[h].comment = 0
    BY <1>4, Saved
  <2>2. /\ cursor' \in Cursors /\ ~scan.same
        /\ \/ scan.page.next /\ cursor'.since = cursor.since /\ cursor'.page = cursor.page + 1
           \/ ~scan.page.next /\ cursor'.since = Since(scan) /\ cursor'.page = 1
    BY <1>4, <2>1, Saved
  <2>3. Posted(c) /\ updated'[c] = updated[c]
    BY <1>4 DEF Saves, Posted
  <2>4. Behind(c, scan)
    <3>1. 0 \notin Comments
      BY ConstantsAssumption
    <3> QED
      BY <1>2, <1>4, <2>1, <2>2, <2>3, <3>1 DEF IInv, ScanOK, ScanFits, Saves
  <2>5. updated[c] >= cursor.since
    BY <1>2, <2>3 DEF Ahead
  <2>6. PICK since \in Int : since = cursor'.since
    BY <2>2 DEF Cursors
  <2>7. Rank(c, since)' \in Nat
    BY RanksGrow
  <2>8. CASE scan.page.next
    <3>1. Rank(c, since) >= cursor.page * PageSize
      BY <2>2, <2>4, <2>6, <2>8 DEF Behind
    <3>2. cursor.page * PageSize \in Nat /\ (cursor'.page - 1) * PageSize = cursor.page * PageSize
      <4>1. cursor'.page - 1 = cursor.page
        BY <1>1, <2>2, <2>8
      <4> QED
        BY <1>1, <4>1, ConstantsAssumption
    <3>3. Rank(c, since) \in Nat /\ Rank(c, since) <= Rank(c, since)'
      BY RanksGrow
    <3>4. Rank(c, since)' >= (cursor'.page - 1) * PageSize
      BY <2>7, <3>1, <3>2, <3>3
    <3> QED
      BY <2>2, <2>3, <2>5, <2>6, <2>8, <3>4 DEF Ahead, Rank, Listed
  <2>9. CASE ~scan.page.next
    <3>1. updated[c] >= Latest(scan) /\ updated[c] \in Int
      BY <1>2, <2>4, <2>9 DEF Behind
    <3>2. updated[c] >= since
      BY <2>1, <2>2, <2>5, <2>6, <2>9, <3>1, SinceIs
    <3>3. (cursor'.page - 1) * PageSize = 0
      BY <2>2, <2>9, ConstantsAssumption
    <3>4. Rank(c, since)' >= (cursor'.page - 1) * PageSize
      BY <2>7, <3>3
    <3> QED
      BY <2>3, <2>6, <3>2, <3>4 DEF Ahead, Rank, Listed
  <2> QED
    BY <2>8, <2>9
<1>5. QED
  BY <1>3, <1>4, Moves

-----------------------------------------------------------------------------
LEMMA InitInv == Init => IInv
<1> SUFFICES ASSUME Init PROVE IInv
  OBVIOUS
<1> USE ConstantsAssumption DEF Init
<1>1. GitHubOK
  BY DEF GitHubOK, Posted, Issues, States
<1>2. WorkflowOK /\ ActiveIsCurrent
  BY DEF WorkflowOK, ActiveIsCurrent, JobStatuses, Active, States
<1>3. AppliedHasReceipt
  BY DEF AppliedHasReceipt
<1>4. ProcOK /\ ScanOK
  <2>1. [closed |-> FALSE, label |-> "none", at |-> 0] \in Issues
    BY DEF Issues, States
  <2>2. Idle \in Procs
    BY <2>1 DEF Idle, Procs, Pcs, States, Snapshots
  <2>3. ProcFits(Idle) /\ ScanFits(Idle)
    BY <2>2 DEF ProcFits, ScanFits, Idle, NoScan
  <2> QED
    BY <2>2, <2>3 DEF ProcOK, ScanOK
<1>5. CursorOK
  BY DEF CursorOK, Cursors, None
<1>6. NothingSkipped
  BY DEF NothingSkipped, Posted
<1>7. QED
  BY <1>1, <1>2, <1>3, <1>4, <1>5, <1>6 DEF IInv

(* The inductive invariant: GitHub, the workflow, receipts, processes, the  *)
(* cursor and what current scans owe, at every step.                        *)
THEOREM Invariance == Spec => []IInv
<1>1. IInv /\ [Next]_vars => IInv'
  BY GitHubInv, WorkflowInv, AppliedInv, ProcInv, CursorInv, ScanInv, SkippedInv DEF IInv
<1>2. QED
  BY InitInv, <1>1, PTL DEF Spec

(* Whatever the clock, the order of deliveries and the failures, the state  *)
(* keeps its types; the cursor never asks for a page behind the last        *)
(* comment.                                                                 *)
THEOREM TypeCorrect == Spec => []TypeOK
<1>1. IInv => TypeOK
  <2> SUFFICES ASSUME IInv PROVE TypeOK
    OBVIOUS
  <2>1. cursor.page \in Nat \ {0} /\ cursor.since \in 0..now /\ now \in 1..MaxTime
    BY DEF IInv, CursorOK, Cursors, GitHubOK
  <2>2. Cardinality(Comments) \in Nat
    BY ConstantsAssumption, FS_CardinalityType
  <2>3. cursor.page \in 1..(Cardinality(Comments) + 1)
    <3>1. CASE cursor.page = 1
      BY <2>2, <3>1
    <3>2. CASE cursor.page # 1
      <4>1. PICK c \in Comments : Rank(c, cursor.since) >= (cursor.page - 1) * PageSize
        BY <2>1, <3>2 DEF IInv, CursorOK, Reaches, Listed
      <4>2. Rank(c, cursor.since) \in Nat /\ Rank(c, cursor.since) < Cardinality(Comments)
        BY RankBelow
      <4>3. \A a \in Nat, k \in Nat \ {0} : a <= a * k
        OBVIOUS
      <4>4. cursor.page - 1 \in Nat /\ (cursor.page - 1) * PageSize \in Nat
        BY <2>1, ConstantsAssumption
      <4>5. cursor.page - 1 <= (cursor.page - 1) * PageSize
        BY <4>3, <4>4, ConstantsAssumption
      <4> HIDE <4>3
      <4> QED
        BY <2>1, <2>2, <4>1, <4>2, <4>4, <4>5
    <3> QED
      BY <3>1, <3>2
  <2>4. MaxTime \in Nat
    BY ConstantsAssumption
  <2>5. cursor.since \in 0..MaxTime
    BY <2>1, <2>4
  <2> QED
    BY <2>1, <2>3, <2>5
       DEF TypeOK, IInv, GitHubOK, WorkflowOK, AppliedHasReceipt, States, JobStatuses
<1>2. QED
  BY Invariance, <1>1, PTL

(* However many copies of a comment webhooks, feed and pollers carry, and   *)
(* whatever fails between them, it queues work once.                        *)
THEOREM OnceOnly == Spec => []AppliedOnce
<1>1. IInv => AppliedOnce
  BY DEF IInv, AppliedHasReceipt, AppliedOnce
<1>2. QED
  BY Invariance, <1>1, PTL

(* A coordinator that may run is of the present generation of an open issue *)
(* of a selected repository.                                                *)
THEOREM CurrentOnly == Spec => []ActiveIsCurrent
<1>1. IInv => ActiveIsCurrent
  BY DEF IInv
<1>2. QED
  BY Invariance, <1>1, PTL

(* Polling alone loses no comment, for any number of pollers, comments,     *)
(* edits, page size, overlap and clock skew: what has no receipt is on the  *)
(* cursor's page or on a later one.                                         *)
THEOREM NoneSkipped == Spec => []NothingSkipped
<1>1. IInv => NothingSkipped
  BY DEF IInv
<1>2. QED
  BY Invariance, <1>1, PTL

(* Work is queued by a comment whose author may pass the gate of the state  *)
(* the locked row shows.                                                    *)
THEOREM ByRight == Spec => QueuedByRight
<1>1. IInv /\ [Next]_vars =>
         [\A c \in Comments : applied'[c] > applied[c] =>
             /\ ~item.closed /\ ShouldQueue(c, item.state) /\ MayPass(c, item.state)]_vars
  <2> SUFFICES ASSUME IInv, [Next]_vars, NEW c \in Comments, applied'[c] > applied[c]
               PROVE  ~item.closed /\ ShouldQueue(c, item.state) /\ MayPass(c, item.state)
    OBVIOUS
  <2>1. applied \in [Comments -> Nat] /\ applied' # applied
    BY DEF IInv, AppliedHasReceipt
  <2>2. PICK h \in Processes : Admit(h)
    BY <2>1 DEF Next, vars, People, Work, Admission, Polling, Post, Edit, Toggle, Tick,
       ObserveElsewhere, Starts, ShowLabel, Pauses, Retire, Select, Read, Verify, ObserveIssue,
       Authorize, AdmitRefused, Fail, Deliver, FetchPage, NextComment, Remember, SavePage,
       Processes
  <2>3. /\ proc[h].pc = "admit" /\ proc[h].snap = Snapshot /\ proc[h].allowed /\ ~item.closed
        /\ applied' = [applied EXCEPT ![proc[h].comment] = @ + 1]
    BY <2>1, <2>2 DEF Admit, SnapshotHolds, Queues
  <2>4. c = proc[h].comment
    BY <2>1, <2>3
  <2>5. proc[h].snap[3] = item.state
    BY <2>3 DEF Snapshot
  <2>6. ShouldQueue(c, proc[h].snap[3]) /\ MayPass(c, proc[h].snap[3])
    BY <2>3, <2>4 DEF IInv, ProcOK, ProcFits
  <2> QED
    BY <2>3, <2>5, <2>6
<1>2. QED
  BY Invariance, <1>1, PTL DEF Spec, QueuedByRight
=============================================================================
