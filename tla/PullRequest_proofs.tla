-------------------------- MODULE PullRequest_proofs --------------------------
(***************************************************************************)
(* What holds of PullRequest for every number of pollers, requests,        *)
(* workers, comments, jobs, commits and failures.  The inductive invariant *)
(* IInv says what each worker knows of the job it works on (WorkerFits),    *)
(* that no other worker works on it (OneWorker), and what a request has     *)
(* read of a publication it is about to record (HandlerFits).               *)
(***************************************************************************)
EXTENDS PullRequest, FiniteSetTheorems, SequenceTheorems, Extremes

Known == 0..made
Seen == Known \cup {None}
States == {"pr_open", "pr_closed", "in_progress", "needs_human", "blocked"}
Reported == {"pr_open", "in_progress", "needs_human", "blocked"}
Statuses == Unfinished \cup {"completed", "failed", "cancelled"}
Ended == {"completed", "failed", "cancelled"}

(* GitHub: the branch ends in its head, and whoever shows a commit shows one *)
(* that was made.                                                           *)
Notices == [kind : {"pr"}, reviews : BOOLEAN, open : BOOLEAN, draft : BOOLEAN, head : Known,
            base : Nat]
           \cup [kind : {"base"}, base : Nat]
GitHubOK ==
    /\ made \in Commits
    /\ github \in [open : BOOLEAN, draft : BOOLEAN, head : Known, shown : Known, base : Nat]
    /\ branch \subseteq Known /\ github.head \in branch
    /\ \A commit \in branch : commit <= github.head
    /\ ready \in [by : {"opened", "person", "donkeyspace", "unconfirmed"}, head : Known]
    /\ mail \subseteq Notices

RowOK ==
    /\ row \in [state : {"none", "open", "closed"}, head : Seen, base : Nat]
    /\ row.state # "none" => row.head \in Known
    /\ state \in States
    /\ receipts \subseteq Comments /\ applied \in [Comments -> Nat]
    /\ budget \in [people : Nat, faults : Nat]

(* Jobs: nothing runs the developer job again, a published result is never   *)
(* attempted again, and it is on the branch.                                 *)
Jobs == [role : {"developer", "revision", "reviewer", "repair"}, status : Statuses,
         head : Known, base : Nat, comment : Comments \cup {0}, resume : BOOLEAN,
         publication : {"none", "publishing", "published"}, sha : Seen]
JobFits(j) ==
    /\ j \in Jobs
    /\ j.role = "developer" => j.status = "completed" /\ j.publication = "none"
    /\ j.publication # "none" => j.sha \in Known
    /\ j.publication = "published" =>
          j.role = "revision" /\ j.status \notin {"queued", "paused"} /\ j.sha \in branch
JobsOK == jobs \in Seq(Jobs) /\ Len(jobs) > 0 /\ \A j \in Ids : JobFits(jobs[j])

(* What a worker knows while a job is in its hands. *)
Done == {"ready", "mutate", "restore"}
Revising == {"begin", "prepare", "checkout", "agent", "publish", "recheck", "push", "mark"} \cup Done
Working == Revising \cup {"review", "merge", "conflict", "repair"}
Procs == [pc : Working \cup {"idle", "create", "report"}, job : Nat, head : Seen, base : Nat,
          state : States \cup {"none"}]
Alone(p) ==
    /\ p \in Procs /\ p.pc \in {"idle", "create"} /\ p.job = 0
    /\ p.pc = "create" => p.head \in Known
With(p, j) ==
    /\ p \in Procs /\ p.pc \notin {"idle", "create"} /\ j.role # "developer"
    /\ p.pc \in {"repair", "conflict"} => p.head \in Known
    /\ p.pc = "report" => p.state \in States
    /\ p.pc \in Revising => j.role = "revision"
    /\ p.pc \in Working => j.status \in {"running", "cancel_requested"}
    /\ p.pc \in Working => (p.pc \in Done <=> j.publication = "published")
    /\ p.pc \in {"recheck", "push", "mark"} => j.publication = "publishing" /\ j.head <= j.sha
    /\ p.pc = "mark" => j.sha \in branch
WorkerFits(p) == Alone(p) \/ (p.job \in Ids /\ With(p, jobs[p.job]))
WorkersOK == worker \in [Workers -> Procs] /\ \A w \in Workers : WorkerFits(worker[w])

OneWorker ==
    \A v, w \in Workers :
        worker[v].pc \in Working /\ worker[w].pc \in Working /\ worker[v].job = worker[w].job
            => v = w

(* A request that found a push on the branch is about to record it. *)
Reading == {"register", "active", "resume", "reconcile", "published", "source", "enqueue"}
Requesting == [pc : Reading \cup {"idle", "look", "record", "remember"}, comment : Comments \cup {0},
               source : Int, head : Seen, base : Nat, job : Nat, rejected : BOOLEAN]
HandlerFits(p) ==
    /\ p \in Requesting /\ p.source \in Ids \cup {None}
    /\ p.pc # "idle" => p.comment \in Comments
    /\ p.pc \in Reading => p.head \in Known
    /\ p.pc \in {"resume", "published"} => p.job \in Ids /\ jobs[p.job].role = "revision"
    /\ p.pc = "published" => /\ jobs[p.job].status \in Ended /\ jobs[p.job].publication # "none"
                             /\ jobs[p.job].sha \in branch
HandlersOK == handler \in [Handlers -> Requesting] /\ \A h \in Handlers : HandlerFits(handler[h])

OneActive ==
    /\ \A i, j \in Active : i = j
    /\ row.state = "closed" => \A j \in Revisions : jobs[j].status \notin Dispatched \cup {"paused"}

IInv ==
    /\ GitHubOK /\ RowOK /\ JobsOK /\ WorkersOK /\ OneWorker /\ HandlersOK
    /\ OneActive /\ ReadyIsPublished

-----------------------------------------------------------------------------
(* What no step undoes *)

LEMMA Forward ==
  ASSUME IInv, [Next]_vars
  PROVE  /\ made \in Nat /\ made' \in Nat /\ made <= made' /\ made' \in Commits
         /\ branch \subseteq branch' /\ receipts \subseteq receipts'
<1> USE DEF repository, database
<1>1. made \in Nat /\ made \in Commits /\ MaxCommits \in Nat
  BY ConstantsAssumption DEF IInv, GitHubOK, Commits
<1>2. made' = made \/ NewCommit
  BY DEF Next, vars, GitHub, Admission, Work, Refresh, PersonPushes, PersonCloses, PersonDrafts,
     BaseMoves, DeliverNotice, DeliverBase, Receive, Look, Register, ReadActive, Resume,
     Reconcile, MarkReconciled, ReadSource, Enqueue, Record, Remember, FailRequest, ListRepair,
     CreateRepair, Take, Begin, Report, Review, MergeBase, RunRepair, Draft, Checkout, RunAgent,
     Commit, Recheck, Push, MarkPublished, Ready, Mutate, Restore, Crash, Drop, Recover,
     Acknowledge
<1>3. branch \subseteq branch'
  BY DEF Lands, Next, vars, GitHub, Admission, Work, Refresh, PersonPushes, PersonCloses,
     PersonDrafts, BaseMoves, DeliverNotice, DeliverBase, Receive, Look, Register, ReadActive,
     Resume, Reconcile, MarkReconciled, ReadSource, Enqueue, Record, Remember, FailRequest,
     ListRepair, CreateRepair, Take, Begin, Report, Review, MergeBase, RunRepair, Draft,
     Checkout, RunAgent, Commit, Recheck, Push, MarkPublished, Ready, Mutate, Restore, Crash,
     Drop, Recover, Acknowledge
<1>4. receipts \subseteq receipts'
  BY DEF Next, vars, GitHub, Admission, Work, Refresh, PersonPushes, PersonCloses, PersonDrafts,
     BaseMoves, DeliverNotice, DeliverBase, Receive, Look, Register, ReadActive, Resume,
     Reconcile, MarkReconciled, ReadSource, Enqueue, Record, Remember, FailRequest, ListRepair,
     CreateRepair, Take, Begin, Report, Review, MergeBase, RunRepair, Draft, Checkout, RunAgent,
     Commit, Recheck, Push, MarkPublished, Ready, Mutate, Restore, Crash, Drop, Recover,
     Acknowledge
<1>5. QED
  BY <1>1, <1>2, <1>3, <1>4 DEF NewCommit, Commits

LEMMA TypesGrow ==
  ASSUME IInv, [Next]_vars
  PROVE  /\ Known \subseteq Known' /\ Seen \subseteq Seen' /\ Notices \subseteq Notices'
         /\ Jobs \subseteq Jobs' /\ Procs \subseteq Procs' /\ Requesting \subseteq Requesting'
<1>1. Known \subseteq Known' /\ Seen \subseteq Seen'
  BY Forward DEF Known, Seen
<1>2. Notices \subseteq Notices'
  BY <1>1 DEF Notices
<1>3. Jobs \subseteq Jobs'
  BY <1>1 DEF Jobs
<1>4. Procs \subseteq Procs' /\ Requesting \subseteq Requesting'
  BY <1>1 DEF Procs, Requesting
<1>5. QED
  BY <1>1, <1>2, <1>3, <1>4

(* What fits goes on fitting while commits are made and pushed. *)
LEMMA StillFits ==
  ASSUME IInv, [Next]_vars
  PROVE  /\ \A j : JobFits(j) => JobFits(j)'
         /\ \A p : Alone(p) => Alone(p)'
         /\ \A p, j : With(p, j) => With(p, j)'
<1>1. ASSUME NEW j, JobFits(j) PROVE JobFits(j)'
  BY <1>1, Forward, TypesGrow DEF JobFits
<1>2. ASSUME NEW p, Alone(p) PROVE Alone(p)'
  BY <1>2, TypesGrow DEF Alone
<1>3. ASSUME NEW p, NEW j, With(p, j) PROVE With(p, j)'
  BY <1>3, Forward, TypesGrow DEF With
<1>4. QED
  BY <1>1, <1>2, <1>3

-----------------------------------------------------------------------------
(* GitHub *)

GitHubs == [open : BOOLEAN, draft : BOOLEAN, head : Known, shown : Known, base : Nat]

LEMMA Sent ==
  ASSUME NEW N, mail \subseteq N, NEW notice \in N, Sends(notice)
  PROVE  mail' \subseteq N
BY DEF Sends

(* Setting the draft, which is what a revision does to the pull request, and *)
(* pushing to its branch.                                                   *)
LEMMA DraftSet ==
  ASSUME GitHubOK, NEW draft \in BOOLEAN, SetsDraft(draft)
  PROVE  /\ github' \in GitHubs /\ github'.head = github.head /\ github'.draft = draft
         /\ mail' \subseteq Notices
<1>1. github \in GitHubs /\ mail \subseteq Notices
  BY DEF GitHubOK, GitHubs
<1>2. CASE github.draft = draft
  BY <1>1, <1>2 DEF SetsDraft
<1>3. CASE github.draft # draft
  <2> DEFINE g == [github EXCEPT !.draft = draft]
  <2>1. g \in GitHubs /\ g.head = github.head /\ g.draft = draft
    BY <1>1 DEF GitHubs
  <2>2. github' = g /\ Sends(Notice(g, ~draft))
    BY <1>3 DEF SetsDraft, Changes
  <2> HIDE DEF g
  <2>3. Notice(g, ~draft) \in Notices
    BY <2>1 DEF Notice, Notices, GitHubs
  <2> QED
    BY <1>1, <2>1, <2>2, <2>3, Sent
<1>4. QED
  BY <1>2, <1>3

LEMMA Landed ==
  ASSUME IInv, [Next]_vars, NEW commit \in Known', Lands(commit), github.head <= commit
  PROVE  /\ github' \in GitHubs' /\ branch' \subseteq Known' /\ github'.head \in branch'
         /\ \A c \in branch' : c <= github'.head
         /\ mail' \subseteq Notices' /\ commit \in branch'
<1>1. /\ github \in GitHubs' /\ mail \subseteq Notices' /\ branch \subseteq Known'
      /\ github.head \in branch /\ \A c \in branch : c <= github.head
      /\ branch' = branch \cup {commit} /\ branch \subseteq Nat /\ commit \in Nat
  BY TypesGrow, Forward DEF IInv, GitHubOK, GitHubs, Lands, Known
<1>2. CASE commit = github.head
  BY <1>1, <1>2 DEF Lands
<1>3. CASE commit # github.head
  <2> DEFINE g == [github EXCEPT !.head = commit]
  <2>1. g \in GitHubs' /\ g.head = commit
    BY <1>1 DEF GitHubs
  <2>2. github' = g /\ Sends(Notice(g, TRUE))
    BY <1>3 DEF Lands, Changes
  <2> HIDE DEF g
  <2>3. Notice(g, TRUE) \in Notices'
    BY <2>1 DEF Notice, Notices, GitHubs
  <2>4. mail' \subseteq Notices'
    BY <1>1, <2>2, <2>3, Sent
  <2>5. \A c \in branch : c <= commit
    <3>1. PICK head \in Nat : head = github.head /\ head <= commit
      BY <1>1
    <3>2. ASSUME NEW c \in branch PROVE c <= commit
      <4>1. c \in Nat /\ c <= head
        BY <1>1, <3>1
      <4> QED
        BY <1>1, <3>1, <4>1
    <3> QED
      BY <3>2
  <2> QED
    BY <1>1, <2>1, <2>2, <2>4, <2>5
<1>4. QED
  BY <1>2, <1>3

(* The push of a new commit, and of the commit a revision recorded. *)
LEMMA NewLanded ==
  ASSUME IInv, [Next]_vars, NewCommit, Lands(made + 1)
  PROVE  /\ github' \in GitHubs' /\ branch' \subseteq Known' /\ github'.head \in branch'
         /\ \A c \in branch' : c <= github'.head /\ mail' \subseteq Notices'
<1>1. PICK commit : commit = made + 1
  OBVIOUS
<1>2. github.head \in Known
  BY DEF IInv, GitHubOK
<1>3. commit \in Known' /\ github.head <= commit
  BY <1>1, <1>2, Forward DEF NewCommit, Known
<1> QED
  BY <1>1, <1>3, Landed

LEMMA PushLanded ==
  ASSUME IInv, [Next]_vars, NEW w \in Workers, Works(w, "push"), FastForward(Mine(w).head),
         Lands(Mine(w).sha)
  PROVE  /\ github' \in GitHubs' /\ branch' \subseteq Known' /\ github'.head \in branch'
         /\ \A c \in branch' : c <= github'.head
         /\ mail' \subseteq Notices' /\ Mine(w).sha \in branch'
<1>1. With(worker[w], Mine(w)) /\ JobFits(Mine(w))
  BY DEF IInv, WorkersOK, WorkerFits, Alone, Works, JobsOK, Mine
<1>2. PICK commit : commit = Mine(w).sha
  OBVIOUS
<1>3. commit \in Known' /\ github.head <= commit
  BY <1>1, <1>2, TypesGrow DEF With, JobFits, Works, FastForward
<1> QED
  BY <1>2, <1>3, Landed

LEMMA GitHubInv == IInv /\ [Next]_vars => GitHubOK'
<1> SUFFICES ASSUME IInv, [Next]_vars PROVE GitHubOK'
  OBVIOUS
<1> USE DEF repository
<1>1. /\ GitHubOK /\ github \in GitHubs /\ GitHubs \subseteq GitHubs' /\ Known \subseteq Known'
      /\ Notices \subseteq Notices' /\ made' \in Commits
  BY TypesGrow, Forward DEF IInv, GitHubOK, GitHubs
<1>2. ASSUME UNCHANGED <<ready, branch>>, github' \in GitHubs', github'.head = github.head,
             mail' \subseteq Notices'
      PROVE  GitHubOK'
  BY <1>1, <1>2 DEF GitHubOK, GitHubs
<1>3. ASSUME UNCHANGED ready, github' \in GitHubs', branch' \subseteq Known', github'.head \in branch',
             \A c \in branch' : c <= github'.head, mail' \subseteq Notices'
      PROVE  GitHubOK'
  BY <1>1, <1>3 DEF GitHubOK, GitHubs
<1>4. ASSUME UNCHANGED branch, ready' \in [by : {"opened", "person", "donkeyspace", "unconfirmed"},
                                            head : Known],
             github' \in GitHubs', github'.head = github.head, mail' \subseteq Notices'
      PROVE  GitHubOK'
  BY <1>1, <1>4 DEF GitHubOK, GitHubs
<1>5. CASE UNCHANGED <<github, ready, branch>> /\ mail' \subseteq mail
  BY <1>1, <1>2, <1>5 DEF GitHubOK
<1>6. CASE Refresh
  <2>1. github' \in GitHubs /\ github'.head = github.head
    BY <1>1, <1>6 DEF Refresh, GitHubs
  <2> QED
    BY <1>1, <1>2, <1>6, <2>1 DEF Refresh, GitHubOK
<1>7. CASE PersonPushes
  BY <1>3, <1>7, NewLanded DEF PersonPushes
<1>8. CASE PersonCloses
  <2> DEFINE g == [github EXCEPT !.open = ~@]
  <2>1. g \in GitHubs /\ g.head = github.head
    BY <1>1 DEF GitHubs
  <2>2. Notice(g, ~github.open) \in Notices
    BY <1>1, <2>1 DEF Notice, Notices, GitHubs
  <2>3. github' = g /\ Sends(Notice(g, ~github.open)) /\ UNCHANGED <<ready, branch>>
    BY <1>8 DEF PersonCloses, Changes
  <2> HIDE DEF g
  <2>4. mail' \subseteq Notices
    BY <1>1, <2>2, <2>3, Sent DEF GitHubOK
  <2> QED
    BY <1>1, <1>2, <2>1, <2>3, <2>4
<1>9. CASE PersonDrafts
  <2>1. github' \in GitHubs /\ github'.head = github.head /\ mail' \subseteq Notices
    <3>1. PICK draft \in BOOLEAN : draft = ~github.draft
      BY <1>1 DEF GitHubs
    <3> QED
      BY <1>1, <1>9, <3>1, DraftSet DEF PersonDrafts
  <2> QED
    BY <1>1, <1>4, <1>9, <2>1 DEF PersonDrafts, GitHubs
<1>10. CASE BaseMoves
  <2>1. github' \in GitHubs /\ github'.head = github.head
    BY <1>1, <1>10 DEF BaseMoves, GitHubs
  <2>2. [kind |-> "base", base |-> github.base + 1] \in Notices
    BY <1>1 DEF Notices, GitHubs
  <2>3. mail' \subseteq Notices
    BY <1>1, <1>10, <2>2, Sent DEF BaseMoves, GitHubOK
  <2> QED
    BY <1>1, <1>2, <1>10, <2>1, <2>3 DEF BaseMoves
<1>11. ASSUME NEW notice \in mail, DeliverNotice(notice) \/ DeliverBase(notice)
       PROVE  GitHubOK'
  BY <1>5, <1>11 DEF DeliverNotice, DeliverBase
<1>12. ASSUME NEW w \in Workers, RunRepair(w)
       PROVE  GitHubOK'
  <2>1. CASE NewCommit /\ Lands(made + 1)
    BY <1>3, <1>12, <2>1, NewLanded DEF RunRepair
  <2>2. CASE UNCHANGED <<github, branch, mail>>
    BY <1>5, <1>12, <2>2 DEF RunRepair
  <2> QED
    BY <1>12, <2>1, <2>2 DEF RunRepair
<1>13. ASSUME NEW w \in Workers, Draft(w) \/ Recheck(w)
       PROVE  GitHubOK'
  <2>1. UNCHANGED <<ready, branch>> /\ (SetsDraft(TRUE) \/ UNCHANGED <<github, mail>>)
    BY <1>13 DEF Draft, Recheck
  <2> QED
    BY <1>1, <1>2, <1>5, <2>1, DraftSet
<1>14. ASSUME NEW w \in Workers, Push(w)
       PROVE  GitHubOK'
  <2>1. CASE FastForward(Mine(w).head) /\ Lands(Mine(w).sha)
    BY <1>3, <1>14, <2>1, PushLanded DEF Push
  <2>2. CASE UNCHANGED <<github, branch, mail>>
    BY <1>5, <1>14, <2>2 DEF Push
  <2> QED
    BY <1>14, <2>1, <2>2 DEF Push
<1>15. ASSUME SetsDraft(FALSE), UNCHANGED branch,
              ready' = ready \/ \E by \in {"donkeyspace", "unconfirmed"} :
                                   ready' = [by |-> by, head |-> github.head]
       PROVE  GitHubOK'
  <2>1. github' \in GitHubs /\ github'.head = github.head /\ mail' \subseteq Notices
    BY <1>1, <1>15, DraftSet
  <2> QED
    BY <1>1, <1>4, <1>15, <2>1 DEF GitHubOK, GitHubs
<1>16. ASSUME NEW w \in Workers, Mutate(w)
       PROVE  GitHubOK'
  BY <1>5, <1>15, <1>16 DEF Mutate, MadeReady
<1>17. ASSUME UNCHANGED <<github, branch, mail>>, Unconfirmed
       PROVE  GitHubOK'
  <2>1. ready' \in [by : {"opened", "person", "donkeyspace", "unconfirmed"}, head : Known]
    BY <1>1, <1>17 DEF Unconfirmed, GitHubOK
  <2> QED
    BY <1>1, <1>4, <1>17, <2>1 DEF GitHubOK
<1>18. ASSUME NEW w \in Workers, Restore(w)
       PROVE  GitHubOK'
  <2>1. CASE SetsDraft(TRUE) /\ UNCHANGED ready
    BY <1>1, <1>2, <1>18, <2>1, DraftSet DEF Restore
  <2> QED
    BY <1>17, <1>18, <2>1 DEF Restore
<1>19. ASSUME NEW w \in Workers, Crash(w)
       PROVE  GitHubOK'
  <2>1. CASE UNCHANGED <<github, branch, mail>> /\ (Unconfirmed \/ UNCHANGED ready)
    BY <1>5, <1>17, <2>1
  <2>2. CASE FastForward(Mine(w).head) /\ Lands(Mine(w).sha) /\ Works(w, "push") /\ UNCHANGED ready
    BY <1>3, <1>19, <2>2, PushLanded
  <2>3. CASE SetsDraft(FALSE) /\ ready' = [by |-> "unconfirmed", head |-> github.head] /\ UNCHANGED branch
    BY <1>15, <2>3
  <2> QED
    BY <1>5, <1>19, <2>1, <2>2, <2>3 DEF Crash
<1>20. QED
  BY <1>5, <1>6, <1>7, <1>8, <1>9, <1>10, <1>11, <1>12, <1>13, <1>14, <1>16, <1>18, <1>19
     DEF Next, vars, GitHub, Admission, Work, Receive, Look, Register, ReadActive, Resume, Reconcile,
     MarkReconciled, ReadSource, Enqueue, Record, Remember, FailRequest, ListRepair,
     CreateRepair, Take, Begin, Report, Review, MergeBase, Checkout, RunAgent, Commit,
     MarkPublished, Ready, Drop, Recover, Acknowledge

-----------------------------------------------------------------------------
(* Rows *)

LEMMA RowInv == IInv /\ [Next]_vars => RowOK'
<1> SUFFICES ASSUME IInv, [Next]_vars PROVE RowOK'
  OBVIOUS
<1> USE DEF database
<1>1. /\ RowOK /\ row \in [state : {"none", "open", "closed"}, head : Seen', base : Nat]
      /\ row.state # "none" => row.head \in Known'
      /\ \A h \in Handlers : handler[h].pc # "idle" => handler[h].comment \in Comments
      /\ mail \subseteq Notices'
  BY TypesGrow DEF IInv, RowOK, HandlersOK, HandlerFits, GitHubOK
<1>2. budget' \in [people : Nat, faults : Nat]
  <2>1. budget' = budget \/ Upset("people", MaxPeople) \/ Upset("faults", MaxFaults)
    BY DEF ByPeople, Faulty, Next, vars, GitHub, Admission, Work, Refresh, PersonPushes,
       PersonCloses, PersonDrafts, BaseMoves, DeliverNotice, DeliverBase, Receive, Look,
       Register, ReadActive, Resume, Reconcile, MarkReconciled, ReadSource, Enqueue, Record,
       Remember, FailRequest, ListRepair, CreateRepair, Take, Begin, Report, Review, MergeBase,
       RunRepair, Draft, Checkout, RunAgent, Commit, Recheck, Push, MarkPublished, Ready,
       Mutate, Restore, Crash, Drop, Recover, Acknowledge
  <2> QED
    BY <1>1, <2>1 DEF Upset, RowOK
<1>3. CASE UNCHANGED <<row, state, receipts, applied>>
  BY <1>1, <1>2, <1>3 DEF RowOK
<1>4. ASSUME UNCHANGED <<row, receipts, applied>>, state' \in States
      PROVE  RowOK'
  BY <1>1, <1>2, <1>4 DEF RowOK, States
<1>5. ASSUME NEW notice \in mail, DeliverNotice(notice)
      PROVE  RowOK'
  <2>1. notice.open \in BOOLEAN /\ notice.head \in Known' /\ notice.base \in Nat
    BY <1>1, <1>5 DEF DeliverNotice, Notices
  <2>2. state' \in States /\ UNCHANGED <<receipts, applied>>
    BY <1>1, <1>5 DEF DeliverNotice, StateAfter, RowOK, States
  <2>3. row' = [state |-> IF notice.open THEN "open" ELSE "closed", head |-> notice.head,
                base |-> notice.base]
    BY <1>5 DEF DeliverNotice
  <2> QED
    BY <1>1, <1>2, <2>1, <2>2, <2>3 DEF RowOK, Seen, States
<1>6. ASSUME NEW h \in Handlers, Register(h)
      PROVE  RowOK'
  <2>1. handler[h].head \in Known' /\ handler[h].base \in Nat
    BY <1>6, TypesGrow DEF Register, Handles, IInv, HandlersOK, HandlerFits, Reading, Requesting
  <2> QED
    BY <1>1, <1>2, <1>6, <2>1 DEF Register, RowOK, Seen
<1>7. ASSUME NEW h \in Handlers, Resume(h) \/ Enqueue(h)
      PROVE  RowOK'
  <2>1. handler[h].comment \in Comments /\ row' = row
    BY <1>1, <1>7 DEF Resume, Enqueue, Handles
  <2>2. receipts' \subseteq Comments
    BY <1>1, <1>7, <2>1 DEF Resume, Enqueue, RowOK
  <2>3. applied' \in [Comments -> Nat] /\ state' \in States
    <3>1. /\ state' \in {state, "in_progress"}
          /\ applied' = applied \/ applied' = [applied EXCEPT ![handler[h].comment] = @ + 1]
      BY <1>7 DEF Resume, Enqueue, Queue
    <3> QED
      BY <1>1, <2>1, <3>1 DEF RowOK, States
  <2> QED
    BY <1>1, <1>2, <2>1, <2>2, <2>3 DEF RowOK, States
<1>8. ASSUME NEW h \in Handlers, Record(h) \/ Remember(h)
      PROVE  RowOK'
  BY <1>1, <1>2, <1>8 DEF Record, Remember, Handles, RowOK
<1>9. ASSUME NEW w \in Workers, Begin(w) \/ Report(w)
      PROVE  RowOK'
  <2>1. UNCHANGED <<row, receipts, applied>> /\ (state' \in {state, "in_progress"} \/ Report(w))
    BY <1>9 DEF Begin, Report, Projects
  <2>2. CASE Report(w)
    <3>1. worker[w].state \in States
      BY <2>2 DEF Report, Works, IInv, WorkersOK, WorkerFits, Alone, With
    <3>2. state' \in {state, worker[w].state}
      BY <2>2 DEF Report, Projects
    <3> QED
      BY <1>1, <1>4, <2>1, <3>1, <3>2 DEF RowOK
  <2>3. CASE state' \in {state, "in_progress"}
    BY <1>1, <1>4, <2>1, <2>3 DEF RowOK, States
  <2> QED
    BY <2>1, <2>2, <2>3
<1>10. ASSUME NEW j \in Ids, Recover(j)
       PROVE  RowOK'
  BY <1>1, <1>4, <1>10 DEF Recover, RowOK, States
<1>11. QED
  BY <1>3, <1>5, <1>6, <1>7, <1>8, <1>9, <1>10
     DEF Next, vars, GitHub, Admission, Work, Refresh, PersonPushes, PersonCloses, PersonDrafts,
     BaseMoves, DeliverBase, Receive, Look, ReadActive, Reconcile, MarkReconciled, ReadSource,
     FailRequest, ListRepair, CreateRepair, Take, Review, MergeBase, RunRepair, Draft, Checkout,
     RunAgent, Commit, Recheck, Push, MarkPublished, Ready, Mutate, Restore, Crash, Drop,
     Acknowledge

-----------------------------------------------------------------------------
(* What a worker does to its job *)

\* The job stays the worker's or ends; what was published stays so.
Own(old, x) ==
    /\ x.role = old.role
    /\ \/ x.status = old.status
       \/ old.status = "running" /\ x.status \in {"paused", "completed", "failed"}
    /\ old.publication = "published" => x.publication = "published" /\ x.sha = old.sha
OwnStep(w) ==
    /\ worker[w].pc \in Working /\ row' = row /\ handler' = handler
    /\ \E x, q : /\ jobs' = [jobs EXCEPT ![worker[w].job] = x] /\ worker' = [worker EXCEPT ![w] = q]
                 /\ JobFits(x)' /\ Own(Mine(w), x) /\ q.job = worker[w].job /\ With(q, x)'

LEMMA InHand ==
  ASSUME IInv, NEW w \in Workers, worker[w].pc \in Working
  PROVE  /\ With(worker[w], Mine(w)) /\ JobFits(Mine(w)) /\ worker[w].job \in Ids
         /\ worker \in [Workers -> Procs] /\ worker[w] \in Procs /\ Mine(w) \in Jobs
         /\ jobs = [jobs EXCEPT ![worker[w].job] = Mine(w)]
<1>1. worker[w].job \in Ids /\ With(worker[w], Mine(w)) /\ JobFits(Mine(w))
  BY DEF IInv, WorkersOK, WorkerFits, Alone, Working, Revising, Done, JobsOK, Mine
<1>2. jobs \in Seq(Jobs)
  BY DEF IInv, JobsOK
<1>3. jobs = [jobs EXCEPT ![worker[w].job] = Mine(w)]
  BY <1>1, <1>2, LenProperties DEF Mine, Ids
<1> QED
  BY <1>1, <1>3 DEF IInv, WorkersOK, JobFits

LEMMA Going ==
  ASSUME IInv, [Next]_vars, NEW w \in Workers, worker[w].pc \in Working,
         NEW q, NEW x, x = Mine(w), With(q, x)', q.job = worker[w].job,
         worker' = [worker EXCEPT ![w] = q], UNCHANGED <<jobs, row, handler>>
  PROVE  OwnStep(w)
<1>1. JobFits(x)' /\ jobs' = [jobs EXCEPT ![worker[w].job] = x] /\ Own(Mine(w), x)
  BY InHand, StillFits DEF Own
<1> QED
  BY <1>1 DEF OwnStep

LEMMA Ending ==
  ASSUME IInv, [Next]_vars, NEW w \in Workers, worker[w].pc \in Working,
         NEW status \in {"paused", "completed", "failed"}, NEW newState \in States,
         status = "paused" => worker[w].pc \notin Done,
         Ends(w, status, newState), UNCHANGED <<row, handler>>
  PROVE  OwnStep(w)
<1> PICK old, p : old = Mine(w) /\ p = worker[w]
  OBVIOUS
<1>1. /\ With(p, old) /\ JobFits(old) /\ p.job \in Ids /\ p \in Procs /\ old \in Jobs
      /\ worker \in [Workers -> Procs] /\ jobs \in Seq(Jobs)
  BY InHand DEF IInv, JobsOK
<1> DEFINE x == [old EXCEPT !.status = IF old.status = "running" THEN status ELSE old.status]
           q == [p EXCEPT !.pc = "report", !.state = newState]
<1>2. jobs' = [jobs EXCEPT ![worker[w].job] = x] /\ worker' = [worker EXCEPT ![w] = q]
  <2>1. worker' = [worker EXCEPT ![w] = q]
    BY <1>1 DEF Ends
  <2>2. jobs[p.job] = old /\ p.job \in DOMAIN jobs
    BY <1>1, LenProperties DEF Mine, Ids
  <2>3. jobs' = [jobs EXCEPT ![p.job] = x]
    BY <1>1, <2>2 DEF Ends
  <2> QED
    BY <2>1, <2>3
<1>3. x \in Jobs /\ x.status = (IF old.status = "running" THEN status ELSE old.status)
      /\ \A f \in {"role", "head", "base", "comment", "resume", "publication", "sha"} : x[f] = old[f]
  BY <1>1 DEF Jobs, Statuses, Unfinished, Dispatched
<1>4. q \in Procs /\ q.pc = "report" /\ q.state = newState /\ q.job = p.job
  BY <1>1 DEF Procs
<1> HIDE DEF x, q
<1>5. JobFits(x) /\ Own(old, x)
  BY <1>1, <1>3 DEF JobFits, Own, With
<1>6. With(q, x)
  BY <1>1, <1>3, <1>4 DEF With, Working, Revising, Done
<1>7. JobFits(x)' /\ With(q, x)'
  BY <1>5, <1>6, StillFits
<1> QED
  BY <1>2, <1>4, <1>5, <1>7 DEF OwnStep

(* A worker goes to its next step with the job as it is. *)
LEMMA Stepping ==
  ASSUME IInv, [Next]_vars, NEW w \in Workers, worker[w].pc \in Working, NEW pc \in Working,
         \/ worker[w].pc \in Revising /\ pc \in Revising /\ (worker[w].pc \in Done <=> pc \in Done)
         \/ worker[w].pc = "conflict" /\ pc = "repair"
         \/ worker[w].pc = "recheck" /\ pc = "push"
         \/ worker[w].pc = "push" /\ pc = "mark" /\ Mine(w).sha \in branch',
         pc \in {"recheck", "push", "mark"} => worker[w].pc \in {"recheck", "push"},
         pc = "mark" => worker[w].pc = "push" /\ Mine(w).sha \in branch',
         Goes(w, pc), UNCHANGED <<jobs, row, handler>>
  PROVE  OwnStep(w)
<1> PICK old, p : old = Mine(w) /\ p = worker[w]
  OBVIOUS
<1>1. /\ With(p, old)' /\ p \in Procs /\ worker \in [Workers -> Procs]
  BY InHand, StillFits
<1> DEFINE q == [p EXCEPT !.pc = pc]
<1>2. worker' = [worker EXCEPT ![w] = q]
  BY <1>1 DEF Goes
<1>3. q \in Procs' /\ q.pc = pc /\ q.job = p.job /\ q.head = p.head /\ q.state = p.state
  <2>1. p \in Procs'
    BY <1>1, TypesGrow
  <2> QED
    BY <2>1 DEF Procs
<1> HIDE DEF q
<1>4. With(q, old)'
  BY <1>1, <1>3 DEF With, Working, Revising, Done
<1> QED
  BY <1>2, <1>3, <1>4, Going

(* The steps that change the job as they go. *)
LEMMA MergeConflicts ==
  ASSUME IInv, [Next]_vars, NEW w \in Workers, Works(w, "merge"),
         worker' = [worker EXCEPT ![w].pc = "conflict", ![w].head = github.head],
         UNCHANGED <<jobs, row, handler>>
  PROVE  OwnStep(w)
<1> PICK old, p, head : old = Mine(w) /\ p = worker[w] /\ head = github.head
  OBVIOUS
<1>1. /\ With(p, old)' /\ p \in Procs' /\ worker \in [Workers -> Procs] /\ worker[w].pc \in Working
      /\ head \in Known' /\ p.pc = "merge" /\ With(p, old)
  BY InHand, StillFits, TypesGrow DEF Works, Working, IInv, GitHubOK
<1> DEFINE q == [p EXCEPT !.pc = "conflict", !.head = head]
<1>2. worker' = [worker EXCEPT ![w] = q]
  BY <1>1
<1>3. q \in Procs' /\ q.pc = "conflict" /\ q.job = p.job /\ q.head = head
  BY <1>1 DEF Procs, Seen, Working
<1> HIDE DEF q
<1>4. With(q, old)'
  BY <1>1, <1>3 DEF With, Working, Revising, Done
<1> QED
  BY <1>1, <1>2, <1>3, <1>4, Going

LEMMA CheckoutOwn ==
  ASSUME IInv, [Next]_vars, NEW w \in Workers, Checkout(w)
  PROVE  OwnStep(w)
<1> PICK old, p, head : old = Mine(w) /\ p = worker[w] /\ head = github.head
  OBVIOUS
<1>1. /\ With(p, old) /\ JobFits(old) /\ p.job \in Ids /\ p \in Procs /\ old \in Jobs
      /\ worker \in [Workers -> Procs] /\ jobs \in Seq(Jobs) /\ p.pc = "checkout"
      /\ head \in Known
  BY InHand DEF IInv, JobsOK, Checkout, Works, Working, Revising, GitHubOK
<1> DEFINE x == [old EXCEPT !.head = head, !.resume = old.resume \/ old.status = "running"]
           q == [p EXCEPT !.pc = "agent"]
<1>2. jobs' = [jobs EXCEPT ![p.job] = x] /\ worker' = [worker EXCEPT ![w] = q]
  <2>1. jobs[p.job] = old /\ p.job \in DOMAIN jobs
    BY <1>1, LenProperties DEF Mine, Ids
  <2> QED
    BY <1>1, <2>1 DEF Checkout, Goes
<1>3. x \in Jobs /\ \A f \in {"role", "status", "base", "comment", "publication", "sha"} : x[f] = old[f]
  BY <1>1 DEF Jobs
<1>4. q \in Procs /\ q.pc = "agent" /\ q.job = p.job
  BY <1>1 DEF Procs, Working, Revising
<1> HIDE DEF x, q
<1>5. JobFits(x) /\ Own(old, x)
  BY <1>1, <1>3 DEF JobFits, Own
<1>6. With(q, x)
  BY <1>1, <1>3, <1>4 DEF With, Working, Revising, Done
<1>7. JobFits(x)' /\ With(q, x)'
  BY <1>5, <1>6, StillFits
<1>8. UNCHANGED <<row, handler>> /\ p.pc \in Working
  BY <1>1 DEF Checkout, database, Working, Revising
<1> QED
  BY <1>2, <1>4, <1>5, <1>7, <1>8 DEF OwnStep

LEMMA CommitOwn ==
  ASSUME IInv, [Next]_vars, NEW w \in Workers, Commit(w)
  PROVE  OwnStep(w)
<1> PICK old, p : old = Mine(w) /\ p = worker[w]
  OBVIOUS
<1>1. /\ With(p, old) /\ JobFits(old) /\ p.job \in Ids /\ p \in Procs /\ old \in Jobs
      /\ worker \in [Workers -> Procs] /\ jobs \in Seq(Jobs) /\ p.pc = "publish" /\ p.pc \in Working
  BY InHand DEF IInv, JobsOK, Commit, Works, Working, Revising
<1>2. UNCHANGED <<row, handler>>
  BY DEF Commit, database
<1>3. CASE GivesUp(w)
  BY <1>1, <1>2, <1>3, Ending DEF GivesUp, States, Done
<1>4. CASE ~GivesUp(w)
  <2> PICK sha : sha = IF made' = made THEN old.head ELSE made'
    OBVIOUS
  <2>1. sha \in Known' /\ old.head <= sha
    BY <1>1, Forward DEF Known, Jobs
  <2> DEFINE x == [old EXCEPT !.publication = "publishing", !.sha = sha]
             q == [p EXCEPT !.pc = "recheck"]
  <2>2. jobs' = [jobs EXCEPT ![p.job] = x] /\ worker' = [worker EXCEPT ![w] = q]
    <3>1. jobs[p.job] = old /\ p.job \in DOMAIN jobs
      BY <1>1, LenProperties DEF Mine, Ids
    <3> QED
      BY <1>1, <1>4, <3>1 DEF Commit, Goes
  <2>3. /\ x \in Jobs' /\ \A f \in {"role", "status", "base", "comment", "head"} : x[f] = old[f]
        /\ x.publication = "publishing" /\ x.sha = sha
    <3>1. old \in Jobs'
      BY <1>1, TypesGrow
    <3> QED
      BY <2>1, <3>1 DEF Jobs, Seen
  <2>4. q \in Procs' /\ q.pc = "recheck" /\ q.job = p.job
    <3>1. p \in Procs'
      BY <1>1, TypesGrow
    <3> QED
      BY <3>1 DEF Procs, Working, Revising
  <2> HIDE DEF x, q
  <2>5. JobFits(x)' /\ Own(old, x)
    BY <1>1, <2>1, <2>3 DEF JobFits, Own, With, Working, Revising, Done
  <2>6. With(q, x)'
    BY <1>1, <2>1, <2>3, <2>4 DEF With, Working, Revising, Done
  <2> QED
    BY <1>1, <1>2, <2>2, <2>4, <2>5, <2>6 DEF OwnStep
<1> QED
  BY <1>3, <1>4

LEMMA MarkOwn ==
  ASSUME IInv, [Next]_vars, NEW w \in Workers, MarkPublished(w)
  PROVE  OwnStep(w)
<1> PICK old, p : old = Mine(w) /\ p = worker[w]
  OBVIOUS
<1>1. /\ With(p, old) /\ JobFits(old) /\ p.job \in Ids /\ p \in Procs /\ old \in Jobs
      /\ worker \in [Workers -> Procs] /\ jobs \in Seq(Jobs) /\ p.pc = "mark" /\ p.pc \in Working
  BY InHand DEF IInv, JobsOK, MarkPublished, Works, Working, Revising
<1> DEFINE x == [old EXCEPT !.publication = "published"]
           q == [p EXCEPT !.pc = "ready"]
<1>2. jobs' = [jobs EXCEPT ![p.job] = x] /\ worker' = [worker EXCEPT ![w] = q]
  <2>1. jobs[p.job] = old /\ p.job \in DOMAIN jobs
    BY <1>1, LenProperties DEF Mine, Ids
  <2> QED
    BY <1>1, <2>1 DEF MarkPublished, Goes
<1>3. /\ x \in Jobs /\ \A f \in {"role", "status", "base", "comment", "head", "sha"} : x[f] = old[f]
      /\ x.publication = "published"
  BY <1>1 DEF Jobs
<1>4. q \in Procs /\ q.pc = "ready" /\ q.job = p.job
  BY <1>1 DEF Procs, Working, Revising, Done
<1> HIDE DEF x, q
<1>5. JobFits(x) /\ Own(old, x)
  BY <1>1, <1>3 DEF JobFits, Own, With, Working, Revising, Done
<1>6. With(q, x)
  BY <1>1, <1>3, <1>4 DEF With, Working, Revising, Done
<1>7. JobFits(x)' /\ With(q, x)'
  BY <1>5, <1>6, StillFits
<1>8. UNCHANGED <<row, handler>>
  BY DEF MarkPublished, database
<1> QED
  BY <1>1, <1>2, <1>4, <1>5, <1>7, <1>8 DEF OwnStep

-----------------------------------------------------------------------------
(* Every step of a worker that has a job in its hands *)

OnJob(w) ==
    \/ Begin(w) \/ Review(w) \/ MergeBase(w) \/ RunRepair(w)
    \/ Draft(w) \/ Checkout(w) \/ RunAgent(w)
    \/ Commit(w) \/ Recheck(w) \/ Push(w) \/ MarkPublished(w)
    \/ Ready(w) \/ Mutate(w) \/ Restore(w)

LEMMA OwnSteps ==
  ASSUME IInv, [Next]_vars, NEW w \in Workers, OnJob(w)
  PROVE  OwnStep(w)
<1> USE DEF database
<1>1. UNCHANGED <<row, handler>>
  BY DEF OnJob, Begin, Review, MergeBase, RunRepair, Draft, Checkout, RunAgent, Commit, Recheck,
     Push, MarkPublished, Ready, Mutate, Restore
<1>2. worker[w].pc \in Working
  BY DEF OnJob, Begin, Review, MergeBase, RunRepair, Draft, Checkout, RunAgent, Commit, Recheck,
     Push, MarkPublished, Ready, Mutate, Restore, Works, Working, Revising, Done, Began
<1>3. ASSUME Fails(w) \/ GivesUp(w) \/ \E s \in States : Ends(w, "completed", s)
      PROVE  OwnStep(w)
  BY <1>1, <1>2, <1>3, Ending DEF Fails, GivesUp, States
<1>4. ASSUME UNCHANGED jobs, worker[w].pc \in Revising, NEW pc \in Revising, Goes(w, pc),
             worker[w].pc \in Done <=> pc \in Done, pc \notin {"recheck", "push", "mark"}
      PROVE  OwnStep(w)
  BY <1>1, <1>2, <1>4, Stepping DEF Working
<1>5. CASE Begin(w)
  <2>1. CASE worker[w].pc = "begin"
    BY <1>4, <1>5, <2>1 DEF Begin, Began, Revising, Done
  <2>2. CASE worker[w].pc = "conflict"
    BY <1>1, <1>2, <1>5, <2>2, Stepping DEF Begin, Began, Working, Revising, Done
  <2> QED
    BY <1>5, <2>1, <2>2 DEF Begin, Began
<1>6. CASE Review(w)
  BY <1>3, <1>6 DEF Review, States
<1>7. CASE MergeBase(w)
  <2>1. CASE worker' = [worker EXCEPT ![w].pc = "conflict", ![w].head = github.head] /\ jobs' = jobs
    BY <1>1, <1>7, <2>1, MergeConflicts DEF MergeBase
  <2> QED
    BY <1>3, <1>7, <2>1 DEF MergeBase, States
<1>8. CASE RunRepair(w)
  BY <1>3, <1>8 DEF RunRepair, States
<1>9. CASE Draft(w)
  <2>1. CASE Fails(w)
    BY <1>3, <2>1
  <2>2. CASE ~Fails(w)
    <3>1. UNCHANGED jobs /\ \E pc \in {"agent", "checkout"} : Goes(w, pc)
      BY <1>9, <2>2 DEF Draft
    <3> QED
      BY <1>4, <1>9, <3>1 DEF Draft, Works, Revising, Done
  <2> QED
    BY <2>1, <2>2
<1>10. CASE Checkout(w)
  BY <1>10, CheckoutOwn
<1>11. CASE RunAgent(w)
  <2>1. CASE Ends(w, "paused", "needs_human")
    BY <1>1, <1>2, <1>11, <2>1, Ending DEF RunAgent, Works, Done, States
  <2>2. CASE Goes(w, "publish") /\ jobs' = jobs
    BY <1>4, <1>11, <2>2 DEF RunAgent, Works, Revising, Done
  <2> QED
    BY <1>3, <1>11, <2>1, <2>2 DEF RunAgent, States
<1>12. CASE Commit(w)
  BY <1>12, CommitOwn
<1>13. CASE Recheck(w)
  <2>1. CASE Goes(w, "push") /\ UNCHANGED jobs
    BY <1>1, <1>2, <1>13, <2>1, Stepping DEF Recheck, Works, Working, Revising, Done
  <2> QED
    BY <1>3, <1>13, <2>1 DEF Recheck
<1>14. CASE Push(w)
  <2>1. CASE GivesUp(w)
    BY <1>3, <2>1
  <2>2. CASE ~GivesUp(w)
    <3>1. /\ FastForward(Mine(w).head) /\ Lands(Mine(w).sha) /\ Goes(w, "mark") /\ UNCHANGED jobs
          /\ Works(w, "push")
      BY <1>14, <2>2 DEF Push
    <3>2. Mine(w).sha \in branch'
      BY <3>1 DEF Lands
    <3> QED
      BY <1>1, <1>2, <3>1, <3>2, Stepping DEF Works, Working, Revising, Done
  <2> QED
    BY <2>1, <2>2
<1>15. CASE MarkPublished(w)
  BY <1>15, MarkOwn
<1>16. CASE Ready(w)
  <2>1. CASE Goes(w, "mutate") /\ UNCHANGED jobs
    BY <1>4, <1>16, <2>1 DEF Ready, Works, Revising, Done
  <2> QED
    BY <1>3, <1>16, <2>1 DEF Ready, States
<1>17. CASE Mutate(w)
  <2>1. CASE Goes(w, "restore") /\ jobs' = jobs
    BY <1>4, <1>17, <2>1 DEF Mutate, Works, Revising, Done
  <2> QED
    BY <1>3, <1>17, <2>1 DEF Mutate, States
<1>18. CASE Restore(w)
  BY <1>3, <1>18 DEF Restore
<1>19. QED
  BY <1>5, <1>6, <1>7, <1>8, <1>9, <1>10, <1>11, <1>12, <1>13, <1>14, <1>15, <1>16, <1>17, <1>18
     DEF OnJob

-----------------------------------------------------------------------------
(* The jobs across a step *)

\* What ended stays ended, what was published stays so, nothing is started again.
Moves(old, x) ==
    /\ x.role = old.role
    /\ old.publication = "published" => x.publication = "published" /\ x.sha = old.sha
    /\ old.status \in Ended => /\ x.status = old.status /\ x.sha = old.sha
                               /\ old.publication # "none" => x.publication # "none"
    /\ x.status \in Dispatched \cup {"paused"} => old.status \in Dispatched \cup {"paused"}

\* A revision is created only when none is unfinished and the row is open.
Fresh(x) ==
    /\ x.status = "queued" /\ x.publication = "none" /\ x.role # "developer"
    /\ x.role = "revision" => Active = {} /\ row.state = "open" /\ row' = row

JobsMoved ==
    /\ JobsOK'
    /\ Len(jobs) \in Nat /\ Len(jobs') \in {Len(jobs), Len(jobs) + 1}
    /\ \A j \in Ids : Moves(jobs[j], jobs'[j])
    /\ \A j \in Ids' : j \in Ids \/ Fresh(jobs'[j])

\* What another worker knows of a job that changes.
Steady(p, old, x) ==
    /\ x.role = old.role
    /\ p.pc \in Working =>
          /\ x.status \in {"running", "cancel_requested"} /\ x.publication = old.publication
          /\ x.head = old.head /\ x.sha = old.sha

RestStep ==
    \/ worker' = worker
    \/ \E w \in Workers : \E q : worker' = [worker EXCEPT ![w] = q] /\ Alone(q)'

Plain == UNCHANGED jobs /\ RestStep
Added == \E x : jobs' = Append(jobs, x) /\ JobFits(x)' /\ Fresh(x) /\ RestStep
Shut ==
    /\ jobs' = [j \in Ids |-> [jobs[j] EXCEPT !.status = Cancelled(jobs[j])]]
    /\ row'.state = "closed" /\ worker' = worker
Freed ==
    \E k \in Ids : \E x :
        /\ jobs' = [jobs EXCEPT ![k] = x] /\ worker' = worker
        /\ JobFits(x)' /\ Moves(jobs[k], x)
        /\ \A v \in Workers : worker[v].job = k => Steady(worker[v], jobs[k], x)

LEMMA Edited ==
  ASSUME IInv, [Next]_vars, NEW k \in Ids, NEW x, jobs' = [jobs EXCEPT ![k] = x], JobFits(x)',
         Moves(jobs[k], x)
  PROVE  JobsMoved /\ Len(jobs') = Len(jobs) /\ \A j \in Ids : jobs'[j] = IF j = k THEN x ELSE jobs[j]
<1>1. jobs \in Seq(Jobs) /\ Len(jobs) > 0 /\ \A j \in Ids : JobFits(jobs[j])
  BY DEF IInv, JobsOK
<1>2. PICK S : S = Jobs'
  OBVIOUS
<1>3. jobs \in Seq(S) /\ x \in S
  BY <1>1, <1>2, TypesGrow, SeqMonotonic DEF JobFits
<1>4. /\ jobs' \in Seq(S) /\ Len(jobs') = Len(jobs) /\ Len(jobs) \in Nat
      /\ \A j \in Ids : jobs'[j] = IF j = k THEN x ELSE jobs[j]
  BY <1>3, ExceptSeq, LenProperties DEF Ids
<1>5. \A j \in Ids : Moves(jobs[j], jobs'[j])
  BY <1>4 DEF Moves
<1>6. JobsOK'
  <2>1. ASSUME NEW j \in Ids' PROVE JobFits(jobs[j])'
    <3>1. j \in Ids /\ jobs'[j] = IF j = k THEN x ELSE jobs[j]
      BY <1>4, <2>1 DEF Ids
    <3>2. CASE j = k
      BY <3>1, <3>2 DEF JobFits
    <3>3. CASE j # k
      <4> PICK y : y = jobs[j]
        OBVIOUS
      <4>1. JobFits(y)' /\ jobs'[j] = y
        BY <1>1, <3>1, <3>3, StillFits
      <4> QED
        BY <4>1 DEF JobFits
    <3> QED
      BY <3>2, <3>3
  <2> QED
    BY <1>1, <1>2, <1>4, <2>1 DEF JobsOK
<1>7. Ids' = Ids
  BY <1>4 DEF Ids
<1> QED
  BY <1>4, <1>5, <1>6, <1>7 DEF JobsMoved

LEMMA AddedMoves ==
  ASSUME IInv, [Next]_vars, Added
  PROVE  JobsMoved /\ \A j \in Ids : jobs'[j] = jobs[j]
<1>1. jobs \in Seq(Jobs) /\ Len(jobs) > 0 /\ \A j \in Ids : JobFits(jobs[j])
  BY DEF IInv, JobsOK
<1>2. PICK x : jobs' = Append(jobs, x) /\ JobFits(x)' /\ Fresh(x)
  BY DEF Added
<1>3. PICK S : S = Jobs'
  OBVIOUS
<1>4. jobs \in Seq(S) /\ x \in S
  BY <1>1, <1>2, <1>3, TypesGrow, SeqMonotonic DEF JobFits
<1>5. /\ jobs' \in Seq(S) /\ Len(jobs) \in Nat /\ Len(jobs') = Len(jobs) + 1
      /\ \A j \in Ids : jobs'[j] = jobs[j] /\ jobs'[Len(jobs) + 1] = x
  BY <1>2, <1>4, AppendProperties, LenProperties DEF Ids
<1>6. \A j \in Ids : Moves(jobs[j], jobs'[j])
  BY <1>5 DEF Moves
<1>7. ASSUME NEW j \in Ids' PROVE JobFits(jobs[j])' /\ (j \in Ids \/ Fresh(jobs'[j]))
  <2>1. j \in Ids \/ j = Len(jobs) + 1
    BY <1>5, <1>7 DEF Ids
  <2>2. CASE j \in Ids
    <3> PICK y : y = jobs[j]
      OBVIOUS
    <3>1. JobFits(y)' /\ jobs'[j] = y
      BY <1>1, <1>5, <2>2, StillFits
    <3> QED
      BY <2>2, <3>1 DEF JobFits
  <2>3. CASE j = Len(jobs) + 1
    <3>1. jobs'[j] = x
      BY <1>1, <1>2, <1>4, <2>3, AppendProperties
    <3> QED
      BY <1>2, <3>1 DEF JobFits
  <2> QED
    BY <2>1, <2>2, <2>3
<1>8. JobsOK'
  BY <1>1, <1>3, <1>5, <1>7 DEF JobsOK
<1> QED
  BY <1>5, <1>6, <1>7, <1>8 DEF JobsMoved

LEMMA ShutMoves ==
  ASSUME IInv, [Next]_vars, Shut
  PROVE  /\ JobsMoved /\ Ids' = Ids
         /\ \A j \in Ids : /\ \A p : With(p, jobs[j]) => Steady(p, jobs[j], jobs'[j])
                           /\ jobs'[j].role = "revision" =>
                                 jobs'[j].status \notin Dispatched \cup {"paused"}
<1>1. jobs \in Seq(Jobs) /\ Len(jobs) > 0 /\ \A j \in Ids : JobFits(jobs[j])
  BY DEF IInv, JobsOK
<1>2. PICK S : S = Jobs'
  OBVIOUS
<1>3. ASSUME NEW old, JobFits(old), NEW x, x = [old EXCEPT !.status = Cancelled(old)]
      PROVE  /\ JobFits(x)' /\ Moves(old, x)
             /\ \A p : With(p, old) => Steady(p, old, x)
             /\ x.role = "revision" => x.status \notin Dispatched \cup {"paused"}
  <2>1. old \in Jobs
    BY <1>3 DEF JobFits
  <2>2. PICK status : status = Cancelled(old)
    OBVIOUS
  <2>3. \/ /\ old.role = "revision" /\ old.status = "running" /\ status = "cancel_requested"
        \/ /\ old.role = "revision" /\ old.status \in {"queued", "paused"} /\ status = "cancelled"
        \/ /\ old.role = "revision" => old.status \notin {"running", "queued", "paused"}
           /\ status = old.status
    BY <2>2 DEF Cancelled
  <2>4. /\ x \in Jobs /\ x.status = status
        /\ \A f \in {"role", "head", "base", "comment", "resume", "publication", "sha"} : x[f] = old[f]
    BY <1>3, <2>1, <2>2, <2>3 DEF Jobs, Statuses, Unfinished, Dispatched
  <2>5. JobFits(x)
    BY <1>3, <2>3, <2>4 DEF JobFits
  <2>6. Moves(old, x)
    BY <1>3, <2>3, <2>4 DEF Moves, Ended, Dispatched
  <2>7. ASSUME NEW p, With(p, old) PROVE Steady(p, old, x)
    BY <2>3, <2>4, <2>7 DEF With, Steady
  <2> QED
    BY <2>3, <2>4, <2>5, <2>6, <2>7, StillFits DEF Dispatched
<1>4. Len(jobs) \in Nat
  BY <1>1, LenProperties
<1>5. \A j \in Ids : jobs'[j] \in S
  BY <1>1, <1>2, <1>3 DEF Shut, JobFits
<1>6. jobs' \in [1..Len(jobs) -> S]
  BY <1>5 DEF Shut, Ids
<1>7. jobs' \in Seq(S) /\ Len(jobs') = Len(jobs)
  <2>1. jobs' \in Seq(S)
    BY <1>4, <1>6, SeqDef
  <2> QED
    BY <1>4, <1>6, <2>1, LenProperties
<1>8. Ids' = Ids
  BY <1>7 DEF Ids
<1>9. ASSUME NEW j \in Ids
      PROVE  /\ JobFits(jobs[j])' /\ Moves(jobs[j], jobs'[j])
             /\ \A p : With(p, jobs[j]) => Steady(p, jobs[j], jobs'[j])
             /\ jobs'[j].role = "revision" => jobs'[j].status \notin Dispatched \cup {"paused"}
  <2> PICK old, x : old = jobs[j] /\ x = [old EXCEPT !.status = Cancelled(old)]
    OBVIOUS
  <2>1. jobs'[j] = x /\ JobFits(old)
    BY <1>1 DEF Shut
  <2>2. /\ JobFits(x)' /\ Moves(old, x)
        /\ \A p : With(p, old) => Steady(p, old, x)
        /\ x.role = "revision" => x.status \notin Dispatched \cup {"paused"}
    BY <1>3, <2>1
  <2>3. JobFits(jobs[j])'
    BY <2>1, <2>2 DEF JobFits
  <2> QED
    BY <2>1, <2>2, <2>3
<1>10. JobsOK'
  BY <1>1, <1>2, <1>7, <1>8, <1>9 DEF JobsOK
<1> QED
  BY <1>4, <1>7, <1>8, <1>9, <1>10 DEF JobsMoved

LEMMA OwnMoves ==
  ASSUME IInv, [Next]_vars, NEW w \in Workers, OwnStep(w)
  PROVE  JobsMoved
<1>1. PICK x, q : /\ jobs' = [jobs EXCEPT ![worker[w].job] = x] /\ JobFits(x)' /\ Own(Mine(w), x)
  BY DEF OwnStep
<1>2. With(worker[w], Mine(w)) /\ worker[w].job \in Ids /\ worker[w].pc \in Working
  BY InHand DEF OwnStep
<1>3. Moves(Mine(w), x)
  BY <1>1, <1>2 DEF Own, Moves, With, Ended, Dispatched
<1> QED
  BY <1>1, <1>2, <1>3, Edited DEF Mine

-----------------------------------------------------------------------------
(* What each step does to the jobs and the workers *)

LEMMA NewJob ==
  ASSUME IInv, [Next]_vars, NEW role \in {"revision", "reviewer", "repair"}, NEW head \in Known,
         NEW base \in Nat, NEW comment \in Comments \cup {0},
         role = "revision" => Active = {} /\ row.state = "open" /\ row' = row,
         Insert(Job(role, head, base, comment)), RestStep
  PROVE  Added
<1> PICK x : x = Job(role, head, base, comment)
  OBVIOUS
<1>1. /\ x \in Jobs /\ x.status = "queued" /\ x.publication = "none" /\ x.role = role
  BY DEF Job, Jobs, Statuses, Unfinished, Dispatched, Seen
<1>2. JobFits(x)'
  <2>1. JobFits(x)
    BY <1>1 DEF JobFits
  <2> QED
    BY <2>1, StillFits
<1>3. Fresh(x)
  BY <1>1 DEF Fresh
<1> QED
  BY <1>2, <1>3 DEF Added, Insert

LEMMA Resting ==
  ASSUME IInv, [Next]_vars, NEW w \in Workers, Rests(w)
  PROVE  RestStep
<1>1. IdleWorker \in Procs
  BY DEF IdleWorker, Procs, Seen
<1>2. Alone(IdleWorker)
  BY <1>1 DEF Alone, IdleWorker
<1> PICK q : q = IdleWorker
  OBVIOUS
<1>3. Alone(q)'
  BY <1>2, StillFits
<1> QED
  BY <1>3 DEF Rests, RestStep

LEMMA Notified ==
  ASSUME IInv, [Next]_vars, NEW notice \in mail, DeliverNotice(notice) \/ DeliverBase(notice)
  PROVE  Plain \/ Added \/ Shut
<1>1. /\ notice \in Notices /\ RowOK
  BY DEF IInv, GitHubOK
<1>2. worker' = worker /\ 0 \in Comments \cup {0}
  BY DEF DeliverNotice, DeliverBase
<1>3. CASE DeliverNotice(notice)
  <2>1. notice.open \in BOOLEAN /\ notice.head \in Known /\ notice.base \in Nat
    BY <1>1, <1>3 DEF DeliverNotice, Notices
  <2>2. CASE NeedsReview(notice)
    BY <1>2, <1>3, <2>1, <2>2, NewJob DEF DeliverNotice, RestStep
  <2>3. CASE ~NeedsReview(notice) /\ notice.open
    BY <1>2, <1>3, <2>3 DEF DeliverNotice, JobsAfter, Plain, RestStep
  <2>4. CASE ~notice.open
    BY <1>2, <1>3, <2>4 DEF DeliverNotice, NeedsReview, JobsAfter, Shut
  <2> QED
    BY <2>2, <2>3, <2>4
<1>4. CASE DeliverBase(notice)
  <2>1. notice.base \in Nat
    BY <1>1, <1>4 DEF DeliverBase, Notices
  <2>2. CASE Repair /\ row.state = "open" /\ ~Checked("repair", row.head, notice.base)
    <3>1. row.head \in Known
      BY <1>1, <2>2 DEF RowOK
    <3> QED
      BY <1>2, <1>4, <2>1, <2>2, <3>1, NewJob DEF DeliverBase, RestStep
  <2>3. CASE jobs' = jobs
    BY <1>2, <2>3 DEF Plain, RestStep
  <2> QED
    BY <1>4, <2>2, <2>3 DEF DeliverBase
<1> QED
  BY <1>3, <1>4

LEMMA Admitting ==
  ASSUME IInv, [Next]_vars, NEW h \in Handlers, Admission(h)
  PROVE  Plain \/ Added \/ Freed
<1> USE DEF database
<1>1. worker' = worker /\ HandlerFits(handler[h]) /\ JobsOK
  BY DEF Admission, Receive, Look, Register, ReadActive, Resume, Reconcile, MarkReconciled,
     ReadSource, Enqueue, Record, Remember, FailRequest, IInv, HandlersOK
<1>2. CASE UNCHANGED jobs
  BY <1>1, <1>2 DEF Plain, RestStep
<1>3. CASE Enqueue(h)
  <2>1. CASE Insert(Job("revision", handler[h].head, handler[h].base, handler[h].comment))
             /\ Eligible(h)
    <3>1. /\ handler[h].head \in Known /\ handler[h].base \in Nat /\ handler[h].comment \in Comments
      BY <1>1, <1>3 DEF Enqueue, Handles, HandlerFits, Reading, Requesting
    <3>2. Active = {} /\ row.state = "open" /\ row' = row
      BY <1>3, <2>1 DEF Enqueue, Eligible, Active, Revisions
    <3> QED
      BY <1>1, <2>1, <3>1, <3>2, NewJob DEF RestStep
  <2> QED
    BY <1>2, <1>3, <2>1 DEF Enqueue
<1>4. CASE Resume(h) /\ ~UNCHANGED jobs
  <2> PICK k, old : k = handler[h].job /\ old = jobs[k]
    OBVIOUS
  <2> DEFINE x == [old EXCEPT !.status = "queued", !.resume = TRUE]
  <2>1. /\ k \in Ids /\ JobFits(old) /\ old.status = "paused" /\ old \in Jobs
        /\ jobs \in Seq(Jobs)
    BY <1>1, <1>4 DEF Resume, Handles, HandlerFits, MayResume, JobsOK, JobFits
  <2>2. jobs' = [jobs EXCEPT ![k] = x]
    <3>1. k \in DOMAIN jobs
      BY <2>1, LenProperties DEF Ids
    <3> QED
      BY <1>4, <3>1 DEF Resume
  <2>3. /\ x \in Jobs /\ x.status = "queued"
        /\ \A f \in {"role", "head", "base", "comment", "publication", "sha"} : x[f] = old[f]
    BY <2>1 DEF Jobs, Statuses, Unfinished, Dispatched
  <2> HIDE DEF x
  <2>4. JobFits(x) /\ Moves(old, x)
    BY <2>1, <2>3 DEF JobFits, Moves, Ended, Dispatched
  <2>5. JobFits(x)'
    BY <2>4, StillFits
  <2>6. \A v \in Workers : worker[v].job = k => Steady(worker[v], old, x)
    <3> SUFFICES ASSUME NEW v \in Workers, worker[v].job = k PROVE Steady(worker[v], old, x)
      OBVIOUS
    <3>1. worker[v].pc \notin Working
      BY <2>1, InHand DEF With, Mine
    <3> QED
      BY <2>3, <3>1 DEF Steady
  <2> QED
    BY <1>1, <2>1, <2>2, <2>4, <2>5, <2>6 DEF Freed
<1>5. CASE MarkReconciled(h)
  <2> PICK k, old : k = handler[h].job /\ old = jobs[k]
    OBVIOUS
  <2> DEFINE x == [old EXCEPT !.publication = "published"]
  <2>1. /\ k \in Ids /\ JobFits(old) /\ old.status \in Ended /\ old \in Jobs
        /\ old.role = "revision" /\ old.sha \in branch /\ old.publication # "none"
        /\ jobs \in Seq(Jobs)
    BY <1>1, <1>5 DEF MarkReconciled, Handles, HandlerFits, JobsOK, JobFits
  <2>2. jobs' = [jobs EXCEPT ![k] = x]
    <3>1. k \in DOMAIN jobs
      BY <2>1, LenProperties DEF Ids
    <3> QED
      BY <1>5, <3>1 DEF MarkReconciled
  <2>3. /\ x \in Jobs /\ x.publication = "published"
        /\ \A f \in {"role", "status", "head", "base", "comment", "sha"} : x[f] = old[f]
    BY <2>1 DEF Jobs
  <2> HIDE DEF x
  <2>4. JobFits(x) /\ Moves(old, x)
    BY <2>1, <2>3 DEF JobFits, Moves, Ended, Dispatched
  <2>5. JobFits(x)'
    BY <2>4, StillFits
  <2>6. \A v \in Workers : worker[v].job = k => Steady(worker[v], old, x)
    <3> SUFFICES ASSUME NEW v \in Workers, worker[v].job = k PROVE Steady(worker[v], old, x)
      OBVIOUS
    <3>1. worker[v].pc \notin Working
      BY <2>1, InHand DEF With, Mine, Ended
    <3> QED
      BY <2>3, <3>1 DEF Steady
  <2> QED
    BY <1>1, <2>1, <2>2, <2>4, <2>5, <2>6 DEF Freed
<1> QED
  BY <1>2, <1>3, <1>4, <1>5 DEF Admission, Receive, Look, Register, ReadActive, Reconcile,
     ReadSource, Record, Remember, FailRequest

LEMMA Recovering ==
  ASSUME IInv, [Next]_vars, NEW k \in Ids, Recover(k) \/ Acknowledge(k)
  PROVE  Freed
<1> PICK old, status : /\ old = jobs[k]
                       /\ status = IF old.status = "running" THEN "cancel_requested" ELSE "cancelled"
  OBVIOUS
<1> DEFINE x == [old EXCEPT !.status = status]
<1>1. /\ JobFits(old) /\ old \in Jobs /\ jobs \in Seq(Jobs) /\ worker' = worker
      /\ old.status \in {"running", "cancel_requested"} /\ \A v \in Workers : worker[v].job # k
  BY DEF IInv, JobsOK, JobFits, Recover, Acknowledge, Unattended
<1>2. jobs' = [jobs EXCEPT ![k] = x]
  <2>1. k \in DOMAIN jobs
    BY <1>1, LenProperties DEF Ids
  <2> QED
    BY <2>1 DEF Recover, Acknowledge
<1>3. /\ x \in Jobs /\ x.status = status
      /\ \A f \in {"role", "publication", "head", "base", "comment", "sha"} : x[f] = old[f]
  BY <1>1 DEF Jobs, Statuses, Unfinished
<1> HIDE DEF x
<1>4. JobFits(x) /\ Moves(old, x)
  BY <1>1, <1>3 DEF JobFits, Moves, Ended, Dispatched
<1>5. JobFits(x)'
  BY <1>4, StillFits
<1> QED
  BY <1>1, <1>2, <1>4, <1>5 DEF Freed

LEMMA Kinds ==
  ASSUME IInv, [Next]_vars
  PROVE  Plain \/ Added \/ Shut \/ Freed \/ \E w \in Workers : OwnStep(w) \/ Take(w)
<1> USE DEF database
<1>1. CASE UNCHANGED <<jobs, worker>>
  BY <1>1 DEF Plain, RestStep
<1>2. ASSUME NEW notice \in mail, DeliverNotice(notice) \/ DeliverBase(notice)
      PROVE  Plain \/ Added \/ Shut
  BY <1>2, Notified
<1>3. ASSUME NEW h \in Handlers, Admission(h)
      PROVE  Plain \/ Added \/ Freed
  BY <1>3, Admitting
<1>4. ASSUME NEW w \in Workers, ListRepair(w)
      PROVE  Plain
  <2> PICK p, q : p = worker[w] /\ q = [p EXCEPT !.pc = "create", !.head = row.head, !.base = row.base]
    OBVIOUS
  <2>1. p \in Procs /\ p.pc = "idle" /\ p.job = 0 /\ row.head \in Known /\ row.base \in Nat
        /\ worker \in [Workers -> Procs]
    BY <1>4 DEF ListRepair, Works, IInv, WorkersOK, WorkerFits, Alone, With, RowOK
  <2>2. Alone(q)
    BY <2>1 DEF Alone, Procs, Seen
  <2>3. worker' = [worker EXCEPT ![w] = q] /\ UNCHANGED jobs
    BY <1>4, <2>1 DEF ListRepair
  <2> QED
    BY <2>2, <2>3, StillFits DEF Plain, RestStep
<1>5. ASSUME NEW w \in Workers, CreateRepair(w)
      PROVE  Added
  <2>1. worker[w].head \in Known /\ worker[w].base \in Nat
    BY <1>5 DEF CreateRepair, Works, IInv, WorkersOK, WorkerFits, Alone, With, Procs
  <2> QED
    BY <1>5, <2>1, NewJob, Resting DEF CreateRepair
<1>6. ASSUME NEW w \in Workers, Report(w) \/ Crash(w) \/ Drop(w)
      PROVE  Plain
  BY <1>6, Resting DEF Report, Crash, Drop, Plain
<1>7. ASSUME NEW w \in Workers, OnJob(w)
      PROVE  OwnStep(w)
  BY <1>7, OwnSteps
<1>8. ASSUME NEW k \in Ids, Recover(k) \/ Acknowledge(k)
      PROVE  Freed
  BY <1>8, Recovering
<1>9. ASSUME GitHub
      PROVE  Plain \/ Added \/ Shut
  <2>1. CASE Refresh \/ PersonPushes \/ PersonCloses \/ PersonDrafts \/ BaseMoves
    <3>1. UNCHANGED <<jobs, worker>>
      BY <2>1 DEF Refresh, PersonPushes, PersonCloses, PersonDrafts, BaseMoves
    <3> QED
      BY <3>1 DEF Plain, RestStep
  <2> QED
    BY <1>2, <1>9, <2>1 DEF GitHub
<1>10. ASSUME NEW w \in Workers, Work(w)
       PROVE  Plain \/ Added \/ OwnStep(w) \/ Take(w)
  BY <1>4, <1>5, <1>6, <1>7, <1>10 DEF Work, OnJob
<1> QED
  BY <1>1, <1>3, <1>8, <1>9, <1>10 DEF Next, vars

LEMMA TakeMoves ==
  ASSUME IInv, [Next]_vars, NEW w \in Workers, Take(w)
  PROVE  /\ JobsMoved /\ Len(jobs') = Len(jobs) /\ row' = row /\ handler' = handler
         /\ \E k \in Ids : \E q : \E x :
               /\ jobs' = [jobs EXCEPT ![k] = x] /\ jobs[k].status = "queued" /\ x.role = jobs[k].role
               /\ jobs'[k] = x /\ \A j \in Ids : j # k => jobs'[j] = jobs[j]
               /\ worker' = [worker EXCEPT ![w] = q] /\ q.job = k /\ With(q, x)'
<1>1. PICK k \in Ids : /\ jobs[k].status = "queued" /\ jobs' = [jobs EXCEPT ![k].status = "running"]
                      /\ worker' = [worker EXCEPT ![w].pc = Starts[jobs[k].role], ![w].job = k]
  BY DEF Take
<1> PICK old, p, pc : old = jobs[k] /\ p = worker[w] /\ pc = Starts[old.role]
  OBVIOUS
<1> DEFINE x == [old EXCEPT !.status = "running"]
           q == [p EXCEPT !.pc = pc, !.job = k]
<1>2. /\ JobFits(old) /\ old \in Jobs /\ jobs \in Seq(Jobs) /\ p \in Procs
      /\ worker \in [Workers -> Procs] /\ old.status = "queued"
  BY <1>1 DEF IInv, JobsOK, JobFits, WorkersOK
<1>3. jobs' = [jobs EXCEPT ![k] = x] /\ worker' = [worker EXCEPT ![w] = q]
  <2>1. k \in DOMAIN jobs
    BY <1>2, LenProperties DEF Ids
  <2> QED
    BY <1>1, <1>2, <2>1
<1>4. /\ x \in Jobs /\ x.status = "running"
      /\ \A f \in {"role", "publication", "head", "base", "comment", "sha"} : x[f] = old[f]
  BY <1>2 DEF Jobs, Statuses, Unfinished, Dispatched
<1>5. \/ old.role = "revision" /\ pc = "begin" 
      \/ old.role = "reviewer" /\ pc = "review"
      \/ old.role = "repair" /\ pc = "merge"
  BY <1>2 DEF JobFits, Jobs, Starts
<1>6. q \in Procs /\ q.pc = pc /\ q.job = k
  <2>1. k \in Nat /\ pc \in Working
    BY <1>2, <1>5, LenProperties DEF Ids, Working, Revising
  <2> QED
    BY <1>2, <2>1 DEF Procs
<1> HIDE DEF x, q
<1>7. JobFits(x) /\ Moves(old, x)
  BY <1>2, <1>4 DEF JobFits, Moves, Ended, Dispatched
<1>8. With(q, x)
  BY <1>2, <1>4, <1>5, <1>6, <1>7 DEF With, JobFits, Working, Revising, Done
<1>9. JobFits(x)' /\ With(q, x)'
  BY <1>7, <1>8, StillFits
<1>10. JobsMoved /\ Len(jobs') = Len(jobs) /\ \A j \in Ids : jobs'[j] = IF j = k THEN x ELSE jobs[j]
  BY <1>3, <1>7, <1>9, Edited
<1>11. row' = row /\ handler' = handler
  BY DEF Take
<1> QED
  BY <1>2, <1>3, <1>4, <1>6, <1>9, <1>10, <1>11

LEMMA JobsMove ==
  ASSUME IInv, [Next]_vars
  PROVE  JobsMoved
<1>1. CASE UNCHANGED jobs
  <2>1. jobs \in Seq(Jobs) /\ Len(jobs) > 0 /\ \A j \in Ids : JobFits(jobs[j])
    BY DEF IInv, JobsOK
  <2>2. PICK S : S = Jobs'
    OBVIOUS
  <2>3. jobs \in Seq(S) /\ Len(jobs) \in Nat /\ Ids' = Ids
    BY <1>1, <2>1, <2>2, TypesGrow, SeqMonotonic, LenProperties DEF Ids
  <2>4. ASSUME NEW j \in Ids PROVE JobFits(jobs[j])'
    <3> PICK y : y = jobs[j]
      OBVIOUS
    <3>1. JobFits(y)' /\ jobs'[j] = y
      BY <1>1, <2>1, StillFits
    <3> QED
      BY <3>1 DEF JobFits
  <2>5. \A j \in Ids : Moves(jobs[j], jobs'[j])
    BY <1>1 DEF Moves
  <2>6. JobsOK'
    BY <1>1, <2>1, <2>2, <2>3, <2>4 DEF JobsOK
  <2> QED
    BY <1>1, <2>3, <2>5, <2>6 DEF JobsMoved
<1>2. CASE Freed
  BY <1>2, Edited DEF Freed
<1> QED
  BY <1>1, <1>2, Kinds, AddedMoves, ShutMoves, OwnMoves, TakeMoves DEF Plain

-----------------------------------------------------------------------------
(* Workers *)

\* A worker that did not move still fits.
LEMMA OtherFits ==
  ASSUME IInv, [Next]_vars, NEW v \in Workers, worker'[v] = worker[v], JobsMoved,
         \/ Alone(worker[v])
         \/ /\ worker[v].job \in Ids
            /\ \/ jobs'[worker[v].job] = jobs[worker[v].job]
               \/ Steady(worker[v], jobs[worker[v].job], jobs'[worker[v].job])
  PROVE  WorkerFits(worker[v])'
<1> PICK p, old, x : p = worker[v] /\ old = jobs[p.job] /\ x = jobs'[p.job]
  OBVIOUS
<1>1. CASE Alone(p)
  <2>1. Alone(p)'
    BY <1>1, StillFits
  <2> QED
    BY <2>1 DEF WorkerFits, Alone
<1>2. CASE ~Alone(p)
  <2>1. p.job \in Ids /\ With(p, old) /\ p.job \in Ids'
    BY <1>2 DEF IInv, WorkersOK, WorkerFits, JobsMoved, Ids
  <2>2. With(p, x)
    <3>1. CASE x = old
      BY <2>1, <3>1
    <3>2. CASE Steady(p, old, x)
      BY <2>1, <3>2 DEF With, Steady, Working, Revising
    <3> QED
      BY <1>2, <3>1, <3>2
  <2>3. With(p, x)'
    BY <2>2, StillFits
  <2> QED
    BY <2>1, <2>3 DEF WorkerFits, With
<1> QED
  BY <1>1, <1>2

LEMMA Rested ==
  ASSUME IInv, [Next]_vars, JobsMoved, RestStep,
         \A v \in Workers : \/ Alone(worker[v])
                            \/ /\ worker[v].job \in Ids
                               /\ \/ jobs'[worker[v].job] = jobs[worker[v].job]
                                  \/ Steady(worker[v], jobs[worker[v].job], jobs'[worker[v].job])
  PROVE  WorkersOK' /\ OneWorker'
<1>1. worker \in [Workers -> Procs] /\ OneWorker
  BY DEF IInv, WorkersOK
<1>2. CASE worker' = worker
  <2>1. \A v \in Workers : WorkerFits(worker[v])'
    BY <1>2, OtherFits
  <2>2. worker' \in [Workers -> Procs']
    BY <1>1, <1>2, TypesGrow
  <2> QED
    BY <1>1, <1>2, <2>1, <2>2 DEF WorkersOK, OneWorker
<1>3. CASE \E w \in Workers : \E q : worker' = [worker EXCEPT ![w] = q] /\ Alone(q)'
  <2>1. PICK w \in Workers : \E q : worker' = [worker EXCEPT ![w] = q] /\ Alone(q)'
    BY <1>3
  <2>2. PICK q : worker' = [worker EXCEPT ![w] = q] /\ Alone(q)'
    BY <2>1
  <2>3. worker'[w] = q /\ \A v \in Workers : v # w => worker'[v] = worker[v]
    BY <1>1, <2>2
  <2>4. worker' \in [Workers -> Procs']
    BY <1>1, <2>2, TypesGrow DEF Alone
  <2>5. ASSUME NEW v \in Workers PROVE WorkerFits(worker[v])'
    <3>1. CASE v = w
      BY <2>2, <2>3, <3>1 DEF WorkerFits, Alone
    <3> QED
      BY <2>3, <3>1, OtherFits
  <2>6. worker'[w].pc \notin Working
    BY <2>2, <2>3 DEF Alone, Working, Revising, Done
  <2> QED
    BY <1>1, <2>3, <2>4, <2>5, <2>6 DEF WorkersOK, OneWorker
<1> QED
  BY <1>2, <1>3 DEF RestStep

LEMMA WorkersInv ==
  ASSUME IInv, [Next]_vars
  PROVE  WorkersOK' /\ OneWorker'
<1>1. JobsMoved /\ OneWorker /\ worker \in [Workers -> Procs]
  BY JobsMove DEF IInv, WorkersOK
<1>2. \A v \in Workers : Alone(worker[v]) \/ (worker[v].job \in Ids /\ With(worker[v], Mine(v)))
  BY DEF IInv, WorkersOK, WorkerFits, Mine
<1>3. CASE Plain
  BY <1>1, <1>2, <1>3, Rested DEF Plain
<1>4. CASE Added
  BY <1>1, <1>2, <1>4, Rested, AddedMoves DEF Added
<1>5. CASE Shut
  BY <1>1, <1>2, <1>5, Rested, ShutMoves DEF Shut, RestStep, Mine
<1>6. CASE Freed
  <2>1. PICK k \in Ids : \E x : /\ jobs' = [jobs EXCEPT ![k] = x] /\ worker' = worker
        /\ JobFits(x)' /\ Moves(jobs[k], x)
        /\ \A v \in Workers : worker[v].job = k => Steady(worker[v], jobs[k], x)
    BY <1>6 DEF Freed
  <2>2. PICK x : /\ jobs' = [jobs EXCEPT ![k] = x] /\ worker' = worker
        /\ JobFits(x)' /\ Moves(jobs[k], x)
        /\ \A v \in Workers : worker[v].job = k => Steady(worker[v], jobs[k], x)
    BY <2>1
  <2>3. \A j \in Ids : jobs'[j] = IF j = k THEN x ELSE jobs[j]
    BY <2>2, Edited
  <2> QED
    BY <1>1, <1>2, <2>2, <2>3, Rested DEF RestStep
<1>7. ASSUME NEW w \in Workers, OwnStep(w)
      PROVE  WorkersOK' /\ OneWorker'
  <2>1. PICK x, q : /\ jobs' = [jobs EXCEPT ![worker[w].job] = x] /\ worker' = [worker EXCEPT ![w] = q]
                    /\ JobFits(x)' /\ Own(Mine(w), x) /\ q.job = worker[w].job /\ With(q, x)'
    BY <1>7 DEF OwnStep
  <2> PICK k : k = worker[w].job
    OBVIOUS
  <2>2. k \in Ids /\ With(worker[w], Mine(w)) /\ worker[w].pc \in Working
    BY <1>7, InHand DEF OwnStep
  <2>3. Moves(Mine(w), x)
    BY <2>1, <2>2 DEF Own, Moves, With, Ended, Dispatched
  <2>4. \A j \in Ids : jobs'[j] = IF j = k THEN x ELSE jobs[j]
    BY <2>1, <2>2, <2>3, Edited DEF Mine
  <2>5. worker'[w] = q /\ \A v \in Workers : v # w => worker'[v] = worker[v]
    BY <1>1, <2>1
  <2>6. worker' \in [Workers -> Procs']
    BY <1>1, <2>1, TypesGrow DEF With
  <2>7. ASSUME NEW v \in Workers PROVE WorkerFits(worker[v])'
    <3>1. CASE v = w
      <4>1. q.job \in Ids' /\ jobs'[q.job] = x
        BY <1>1, <2>1, <2>2, <2>4 DEF JobsMoved, Ids
      <4> QED
        BY <2>1, <2>5, <3>1, <4>1 DEF WorkerFits, With
    <3>2. CASE v # w /\ ~Alone(worker[v]) /\ worker[v].job = k
      <4>1. worker[v].pc \notin Working
        BY <1>1, <2>2, <3>2 DEF OneWorker
      <4>2. Steady(worker[v], jobs[k], x)
        BY <2>3, <4>1 DEF Steady, Moves, Mine
      <4> QED
        BY <1>1, <2>2, <2>4, <2>5, <3>2, <4>2, OtherFits
    <3>3. CASE v # w /\ (Alone(worker[v]) \/ worker[v].job # k)
      BY <1>1, <1>2, <2>4, <2>5, <3>3, OtherFits
    <3> QED
      BY <3>1, <3>2, <3>3
  <2> QED
    BY <1>1, <2>1, <2>2, <2>5, <2>6, <2>7 DEF WorkersOK, OneWorker
<1>8. ASSUME NEW w \in Workers, Take(w)
      PROVE  WorkersOK' /\ OneWorker'
  <2>1. PICK k \in Ids : \E q : \E x :
               /\ jobs' = [jobs EXCEPT ![k] = x] /\ jobs[k].status = "queued" /\ x.role = jobs[k].role
               /\ jobs'[k] = x /\ \A j \in Ids : j # k => jobs'[j] = jobs[j]
               /\ worker' = [worker EXCEPT ![w] = q] /\ q.job = k /\ With(q, x)'
    BY <1>8, TakeMoves
  <2>2. PICK q, x :
               /\ jobs' = [jobs EXCEPT ![k] = x] /\ jobs[k].status = "queued" /\ x.role = jobs[k].role
               /\ jobs'[k] = x /\ \A j \in Ids : j # k => jobs'[j] = jobs[j]
               /\ worker' = [worker EXCEPT ![w] = q] /\ q.job = k /\ With(q, x)'
    BY <2>1
  <2>3. worker'[w] = q /\ \A v \in Workers : v # w => worker'[v] = worker[v]
    BY <1>1, <2>2
  <2>4. worker' \in [Workers -> Procs']
    BY <1>1, <2>2, TypesGrow DEF With
  <2>5. \A v \in Workers : worker[v].job = k => worker[v].pc \notin Working
    BY <2>2, InHand DEF With, Mine
  <2>6. ASSUME NEW v \in Workers PROVE WorkerFits(worker[v])'
    <3>1. CASE v = w
      <4>1. k \in Ids'
        BY <1>1 DEF JobsMoved, Ids
      <4> QED
        BY <2>2, <2>3, <3>1, <4>1 DEF WorkerFits, With
    <3>2. CASE v # w /\ ~Alone(worker[v]) /\ worker[v].job = k
      <4>1. Steady(worker[v], jobs[k], x)
        BY <2>2, <2>5, <3>2 DEF Steady
      <4> QED
        BY <1>1, <2>2, <2>3, <3>2, <4>1, OtherFits
    <3>3. CASE v # w /\ (Alone(worker[v]) \/ worker[v].job # k)
      BY <1>1, <1>2, <2>2, <2>3, <3>3, OtherFits
    <3> QED
      BY <3>1, <3>2, <3>3
  <2> QED
    BY <1>1, <2>2, <2>3, <2>4, <2>5, <2>6 DEF WorkersOK, OneWorker
<1> QED
  BY <1>3, <1>4, <1>5, <1>6, <1>7, <1>8, Kinds

-----------------------------------------------------------------------------
(* Requests *)

\* The last of a set of jobs is one of them.
LEMMA LatestIs ==
  ASSUME Len(jobs) \in Nat, NEW set \in SUBSET Ids, set # {}
  PROVE  Latest(set) \in set
<1>1. set \in SUBSET Int /\ Len(jobs) \in Int /\ \A n \in set : n <= Len(jobs)
  BY DEF Ids
<1>2. \E m \in set : \A n \in set : n <= m
  BY <1>1, Maximum
<1> QED
  BY <1>2 DEF Latest

LEMMA SourceIs ==
  ASSUME JobsOK
  PROVE  Source \in Ids \cup {None}
<1>1. Len(jobs) \in Nat /\ 1 \in Ids
  BY LenProperties DEF JobsOK, Ids
<1>2. {1} \cup Published \in SUBSET Ids
  BY <1>1 DEF Published, Revisions
<1>3. Latest({1} \cup Published) \in Ids
  BY <1>1, <1>2, LatestIs
<1> QED
  BY <1>3 DEF Source

LEMMA HandlerStays ==
  ASSUME IInv, [Next]_vars, JobsMoved, NEW p, HandlerFits(p)
  PROVE  HandlerFits(p)'
<1>1. p \in Requesting' /\ (p.pc \in Reading => p.head \in Known') /\ branch \subseteq branch'
  BY TypesGrow, Forward DEF HandlerFits
<1>2. Ids \subseteq Ids' /\ p.source \in Ids' \cup {None}
  BY DEF JobsMoved, Ids, HandlerFits
<1>3. ASSUME p.pc \in {"resume", "published"}
      PROVE  p.job \in Ids' /\ jobs'[p.job].role = "revision"
  BY <1>2, <1>3 DEF JobsMoved, Moves, HandlerFits
<1>4. ASSUME p.pc = "published"
      PROVE  /\ jobs'[p.job].status \in Ended /\ jobs'[p.job].publication # "none"
             /\ jobs'[p.job].sha \in branch'
  BY <1>1, <1>4 DEF JobsMoved, Moves, HandlerFits
<1> QED
  BY <1>1, <1>2, <1>3, <1>4 DEF HandlerFits

\* One request moves on; what it then holds is checked where it read it.
LEMMA HandlerMoves ==
  ASSUME IInv, [Next]_vars, JobsMoved, NEW h \in Handlers, NEW q, HandlerFits(q),
         handler' = [handler EXCEPT ![h] = q]
  PROVE  HandlersOK'
<1>1. handler \in [Handlers -> Requesting] /\ \A g \in Handlers : HandlerFits(handler[g])
  BY DEF IInv, HandlersOK
<1>2. HandlerFits(q)'
  BY HandlerStays
<1>3. handler' \in [Handlers -> Requesting']
  BY <1>1, <1>2, TypesGrow DEF HandlerFits
<1>4. ASSUME NEW g \in Handlers PROVE HandlerFits(handler[g])'
  <2>1. CASE g = h
    <3>1. handler'[g] = q
      BY <1>1, <2>1
    <3> QED
      BY <1>2, <3>1 DEF HandlerFits
  <2>2. CASE g # h
    <3> PICK p : p = handler[g]
      OBVIOUS
    <3>1. HandlerFits(p)' /\ handler'[g] = p
      BY <1>1, <2>2, HandlerStays
    <3> QED
      BY <3>1 DEF HandlerFits
  <2> QED
    BY <2>1, <2>2
<1> QED
  BY <1>3, <1>4 DEF HandlersOK

LEMMA HandlersRest ==
  ASSUME IInv, [Next]_vars, JobsMoved, handler' = handler
  PROVE  HandlersOK'
<1>1. handler \in [Handlers -> Requesting] /\ \A g \in Handlers : HandlerFits(handler[g])
  BY DEF IInv, HandlersOK
<1>2. ASSUME NEW g \in Handlers PROVE HandlerFits(handler[g])'
  <2> PICK p : p = handler[g]
    OBVIOUS
  <2>1. HandlerFits(p)' /\ handler'[g] = p
    BY <1>1, HandlerStays
  <2> QED
    BY <2>1 DEF HandlerFits
<1> QED
  BY <1>1, <1>2, TypesGrow DEF HandlersOK

LEMMA AdmissionFits ==
  ASSUME IInv, [Next]_vars, NEW h \in Handlers, Admission(h)
  PROVE  \E q : HandlerFits(q) /\ handler' = [handler EXCEPT ![h] = q]
<1> PICK p : p = handler[h]
  OBVIOUS
<1>1. /\ HandlerFits(p) /\ p \in Requesting /\ handler \in [Handlers -> Requesting]
      /\ JobsOK /\ Len(jobs) \in Nat
  BY LenProperties DEF IInv, HandlersOK, HandlerFits, JobsOK
<1>2. HandlerFits(IdleHandler)
  BY DEF HandlerFits, IdleHandler, Requesting, Reading, Seen, None
<1>3. ASSUME NEW c \in Comments, NEW queued, Answered(h, c, queued)
      PROVE  \E q : HandlerFits(q) /\ handler' = [handler EXCEPT ![h] = q]
  <2> DEFINE q == [IdleHandler EXCEPT !.pc = "remember", !.comment = c]
  <2>1. HandlerFits(q)
    <3>1. IdleHandler \in Requesting /\ IdleHandler.source = None
      BY DEF IdleHandler, Requesting, Seen, None
    <3>2. q \in Requesting /\ q.pc = "remember" /\ q.source = None /\ q.comment = c
      BY <3>1 DEF Requesting
    <3> HIDE DEF q
    <3> QED
      BY <3>2 DEF HandlerFits, Reading
  <2> QED
    BY <1>2, <1>3, <2>1 DEF Answered
<1>4. ASSUME Rejects(h), p.pc # "idle"
      PROVE  \E q : HandlerFits(q) /\ handler' = [handler EXCEPT ![h] = q]
  <2> DEFINE q == [p EXCEPT !.pc = "record", !.rejected = TRUE]
  <2>1. HandlerFits(q)
    <3>1. q \in Requesting /\ q.pc = "record" /\ q.source = p.source /\ q.comment = p.comment
      BY <1>1 DEF Requesting
    <3> HIDE DEF q
    <3> QED
      BY <1>1, <1>4, <3>1 DEF HandlerFits, Reading
  <2> QED
    BY <1>1, <1>4, <2>1 DEF Rejects
<1>5. ASSUME NEW pc \in {"record", "active", "reconcile", "enqueue", "source"}, Continues(h, pc),
             p.pc # "idle", pc \in Reading => p.pc \in Reading
      PROVE  \E q : HandlerFits(q) /\ handler' = [handler EXCEPT ![h] = q]
  <2> DEFINE q == [p EXCEPT !.pc = pc]
  <2>1. HandlerFits(q)
    <3>1. q \in Requesting /\ q.pc = pc /\ q.source = p.source /\ q.comment = p.comment
          /\ q.head = p.head
      BY <1>1 DEF Requesting, Reading
    <3> HIDE DEF q
    <3> QED
      BY <1>1, <1>5, <3>1 DEF HandlerFits
  <2> QED
    BY <1>1, <1>5, <2>1 DEF Continues
<1>6. ASSUME NEW pc \in {"resume", "published"}, NEW k \in Revisions, p.pc \in Reading,
             handler' = [handler EXCEPT ![h].pc = pc, ![h].job = k],
             pc = "published" => /\ jobs[k].status \in Ended /\ jobs[k].publication # "none"
                                 /\ jobs[k].sha \in branch
      PROVE  \E q : HandlerFits(q) /\ handler' = [handler EXCEPT ![h] = q]
  <2> DEFINE q == [p EXCEPT !.pc = pc, !.job = k]
  <2>1. k \in Ids /\ jobs[k].role = "revision" /\ k \in Nat
    BY <1>1, <1>6 DEF Revisions, Ids
  <2>2. HandlerFits(q)
    <3>1. q \in Requesting /\ q.pc = pc /\ q.source = p.source /\ q.comment = p.comment
          /\ q.head = p.head /\ q.job = k
      BY <1>1, <2>1 DEF Requesting, Reading
    <3> HIDE DEF q
    <3> QED
      BY <1>1, <1>6, <2>1, <3>1 DEF HandlerFits, Reading
  <2> QED
    BY <1>1, <1>6, <2>2
<1>7. CASE Receive(h)
  <2>1. PICK c \in Comments :
          IF Source = None
          THEN Answered(h, c, FALSE)
          ELSE handler' = [handler EXCEPT ![h].pc = "look", ![h].comment = c, ![h].source = Source]
    BY <1>7 DEF Receive
  <2> PICK source : source = Source
    OBVIOUS
  <2> DEFINE q == [p EXCEPT !.pc = "look", !.comment = c, !.source = source]
  <2>2. CASE source # None
    <3>1. source \in Ids /\ source \in Int
      BY <1>1, <2>2, SourceIs DEF Ids
    <3>2. HandlerFits(q)
      <4>1. q \in Requesting /\ q.pc = "look" /\ q.source = source /\ q.comment = c
        BY <1>1, <3>1 DEF Requesting
      <4> HIDE DEF q
      <4> QED
        BY <3>1, <4>1 DEF HandlerFits, Reading
    <3>3. handler' = [handler EXCEPT ![h] = q]
      BY <1>1, <2>1, <2>2
    <3> QED
      BY <3>2, <3>3
  <2> QED
    BY <1>3, <2>1, <2>2
<1>8. CASE Look(h)
  <2> PICK head, base : head = github.shown /\ base = github.base
    OBVIOUS
  <2> DEFINE q == [p EXCEPT !.pc = "register", !.head = head, !.base = base]
  <2>1. head \in Known /\ base \in Nat
    BY DEF IInv, GitHubOK
  <2>2. CASE ~Rejects(h)
    <3>1. HandlerFits(q)
      <4>1. q \in Requesting /\ q.pc = "register" /\ q.source = p.source /\ q.comment = p.comment
            /\ q.head = head
        BY <1>1, <2>1 DEF Requesting, Reading, Seen
      <4> HIDE DEF q
      <4> QED
        BY <1>1, <1>8, <2>1, <4>1 DEF HandlerFits, Look, Handles
    <3>2. handler' = [handler EXCEPT ![h] = q]
      BY <1>1, <1>8, <2>2 DEF Look
    <3> QED
      BY <3>1, <3>2
  <2> QED
    BY <1>4, <1>8, <2>2 DEF Look, Handles
<1>9. CASE Register(h)
  BY <1>5, <1>9 DEF Register, Handles, Reading
<1>10. CASE ReadActive(h)
  <2>1. CASE Rejects(h)
    BY <1>4, <1>10, <2>1 DEF ReadActive, Handles
  <2>2. CASE Active # {} /\ handler' = [handler EXCEPT ![h].pc = "resume", ![h].job = Latest(Active)]
    <3>1. Active \in SUBSET Ids /\ Active \subseteq Revisions
      BY DEF Active, Revisions
    <3>2. Latest(Active) \in Revisions
      BY <1>1, <2>2, <3>1, LatestIs
    <3> QED
      BY <1>6, <1>10, <2>2, <3>2 DEF ReadActive, Handles, Reading
  <2>3. CASE Continues(h, "reconcile")
    BY <1>5, <1>10, <2>3 DEF ReadActive, Handles, Reading
  <2> QED
    BY <1>10, <2>1, <2>2, <2>3 DEF ReadActive
<1>11. CASE Resume(h) \/ Enqueue(h)
  <2>1. p.comment \in Comments /\ p.pc \in {"resume", "enqueue"}
    BY <1>1, <1>11 DEF Resume, Enqueue, Handles, HandlerFits
  <2>2. \/ \E queued : Answered(h, p.comment, queued)
        \/ Rejects(h) \/ Continues(h, "record")
    BY <1>11 DEF Resume, Enqueue
  <2> QED
    BY <1>3, <1>4, <1>5, <2>1, <2>2 DEF Reading
<1>12. CASE Reconcile(h)
  <2>1. CASE Continues(h, "enqueue")
    BY <1>5, <1>12, <2>1 DEF Reconcile, Handles, Reading
  <2>2. CASE /\ Pending # {} /\ Contains(p.head, jobs[Latest(Pending)].sha)
             /\ handler' = [handler EXCEPT ![h].pc = "published", ![h].job = Latest(Pending)]
    <3>1. Pending \in SUBSET Ids
      BY DEF Pending, Revisions
    <3>2. Latest(Pending) \in Pending
      BY <1>1, <2>2, <3>1, LatestIs
    <3> PICK k : k = Latest(Pending)
      OBVIOUS
    <3>3. k \in Revisions /\ jobs[k].status \in Ended /\ jobs[k].publication # "none"
          /\ jobs[k].sha \in branch
      BY <2>2, <3>2 DEF Pending, Ended, Contains
    <3> QED
      BY <1>6, <1>12, <2>2, <3>3 DEF Reconcile, Handles, Reading
  <2> QED
    BY <1>12, <2>1, <2>2 DEF Reconcile
<1>13. CASE MarkReconciled(h)
  <2>1. Continues(h, "source") /\ p.pc = "published"
    BY <1>13 DEF MarkReconciled, Continues, Handles
  <2> QED
    BY <1>5, <2>1 DEF Reading
<1>14. CASE ReadSource(h)
  <2> PICK source : source = Source
    OBVIOUS
  <2> DEFINE q == [p EXCEPT !.pc = "enqueue", !.source = source]
  <2>1. CASE source # None
    <3>1. source \in Ids /\ source \in Int /\ p.pc = "source"
      BY <1>1, <1>14, <2>1, SourceIs DEF Ids, ReadSource, Handles
    <3>2. HandlerFits(q)
      <4>1. q \in Requesting /\ q.pc = "enqueue" /\ q.source = source /\ q.comment = p.comment
            /\ q.head = p.head
        BY <1>1, <3>1 DEF Requesting, Reading
      <4> HIDE DEF q
      <4> QED
        BY <1>1, <3>1, <4>1 DEF HandlerFits, Reading
    <3>3. handler' = [handler EXCEPT ![h] = q]
      BY <1>1, <1>14, <2>1 DEF ReadSource
    <3> QED
      BY <3>2, <3>3
  <2>2. CASE source = None
    BY <1>2, <1>14, <2>2 DEF ReadSource
  <2> QED
    BY <2>1, <2>2
<1>15. CASE Record(h) \/ Remember(h) \/ FailRequest(h)
  BY <1>2, <1>15 DEF Record, Remember, FailRequest
<1> QED
  BY <1>7, <1>8, <1>9, <1>10, <1>11, <1>12, <1>13, <1>14, <1>15 DEF Admission

LEMMA HandlersInv ==
  ASSUME IInv, [Next]_vars
  PROVE  HandlersOK'
<1>1. CASE \E h \in Handlers : Admission(h)
  BY <1>1, AdmissionFits, HandlerMoves, JobsMove
<1>2. CASE handler' = handler
  BY <1>2, HandlersRest, JobsMove
<1>3. CASE GitHub \/ UNCHANGED vars \/ \E j \in Ids : Recover(j) \/ Acknowledge(j)
  BY <1>2, <1>3 DEF GitHub, Refresh, PersonPushes, PersonCloses, PersonDrafts, BaseMoves,
     DeliverNotice, DeliverBase, Recover, Acknowledge, vars
<1>4. CASE \E w \in Workers : Work(w)
  BY <1>2, <1>4 DEF Work, ListRepair, CreateRepair, Take, Begin, Report, Review, MergeBase,
     RunRepair, Draft, Checkout, RunAgent, Commit, Recheck, Push, MarkPublished, Ready, Mutate,
     Restore, Crash, Drop
<1> QED
  BY <1>1, <1>3, <1>4 DEF Next

-----------------------------------------------------------------------------
(* One revision at a time *)

LEMMA RowClosed ==
  ASSUME IInv, [Next]_vars, row'.state = "closed"
  PROVE  row.state = "closed" \/ Shut
<1> USE DEF database
<1>1. CASE row' = row
  BY <1>1
<1>2. ASSUME NEW notice \in mail, DeliverNotice(notice)
      PROVE  Shut
  <2>1. ~notice.open /\ worker' = worker
    BY <1>2 DEF DeliverNotice
  <2> QED
    BY <1>2, <2>1 DEF DeliverNotice, NeedsReview, JobsAfter, Shut
<1>3. ASSUME NEW h \in Handlers, Register(h)
      PROVE  FALSE
  BY <1>3 DEF Register
<1>4. CASE \E h \in Handlers : Admission(h)
  BY <1>1, <1>3, <1>4 DEF Admission, Receive, Look, ReadActive, Resume, Reconcile,
     MarkReconciled, ReadSource, Enqueue, Record, Remember, FailRequest
<1>5. CASE GitHub
  BY <1>1, <1>2, <1>5 DEF GitHub, Refresh, PersonPushes, PersonCloses, PersonDrafts, BaseMoves,
     DeliverBase
<1>6. CASE \E w \in Workers : Work(w)
  BY <1>1, <1>6 DEF Work, ListRepair, CreateRepair, Take, Begin, Report, Review, MergeBase,
     RunRepair, Draft, Checkout, RunAgent, Commit, Recheck, Push, MarkPublished, Ready, Mutate,
     Restore, Crash, Drop
<1>7. CASE UNCHANGED vars \/ \E j \in Ids : Recover(j) \/ Acknowledge(j)
  BY <1>1, <1>7 DEF Recover, Acknowledge, vars
<1> QED
  BY <1>4, <1>5, <1>6, <1>7 DEF Next

LEMMA OneActiveInv ==
  ASSUME IInv, [Next]_vars
  PROVE  OneActive'
<1>1. JobsMoved /\ OneActive /\ JobsOK
  BY JobsMove DEF IInv
<1>2. ASSUME NEW j \in Active' PROVE j \in Active \/ (j \notin Ids /\ Active = {} /\ row.state = "open" /\ row' = row)
  <2>1. j \in Ids' /\ jobs'[j].role = "revision" /\ jobs'[j].status \in Unfinished
    BY <1>2 DEF Active, Revisions
  <2>2. CASE j \in Ids
    <3>1. Moves(jobs[j], jobs'[j]) /\ jobs[j].status \in Statuses /\ jobs[j].role = "revision"
      BY <1>1, <2>1, <2>2 DEF JobsMoved, JobsOK, JobFits, Jobs, Moves
    <3>2. jobs[j].status \in Unfinished
      BY <2>1, <3>1 DEF Moves, Statuses, Ended, Unfinished, Dispatched
    <3> QED
      BY <2>2, <3>1, <3>2 DEF Active, Revisions
  <2>3. CASE j \notin Ids
    BY <1>1, <2>1, <2>3 DEF JobsMoved, Fresh
  <2> QED
    BY <2>2, <2>3
<1>3. \A i, j \in Active' : i = j
  <2> SUFFICES ASSUME NEW i \in Active', NEW j \in Active' PROVE i = j
    OBVIOUS
  <2>1. CASE i \in Ids
    BY <1>1, <1>2, <2>1 DEF OneActive, Active
  <2>2. CASE i \notin Ids
    <3>1. j \notin Ids
      BY <1>2, <2>2 DEF Active, Revisions
    <3>2. i \in Ids' /\ j \in Ids'
      BY DEF Active, Revisions
    <3> QED
      BY <1>1, <2>2, <3>1, <3>2 DEF JobsMoved, Ids
  <2> QED
    BY <2>1, <2>2
<1>4. ASSUME row'.state = "closed", NEW j \in Revisions'
      PROVE  jobs'[j].status \notin Dispatched \cup {"paused"}
  <2>1. CASE Shut
    BY <1>4, <2>1, ShutMoves DEF Revisions
  <2>2. CASE row.state = "closed" /\ ~Shut
    <3>1. j \in Ids' /\ jobs'[j].role = "revision"
      BY <1>4 DEF Revisions
    <3>2. j \in Ids
      BY <1>1, <2>2, <3>1 DEF JobsMoved, Fresh
    <3>3. Moves(jobs[j], jobs'[j]) /\ j \in Revisions
      BY <1>1, <3>1, <3>2 DEF JobsMoved, Moves, Revisions
    <3> QED
      BY <1>1, <2>2, <3>3 DEF OneActive, Moves
  <2> QED
    BY <1>4, <2>1, <2>2, RowClosed
<1> QED
  BY <1>3, <1>4 DEF OneActive

-----------------------------------------------------------------------------
(* Ready for review *)

\* What is published stays published, at the same commit.
LEMMA PublishedStays ==
  ASSUME IInv, [Next]_vars, NEW j \in Published
  PROVE  j \in Published' /\ jobs'[j].sha = jobs[j].sha
<1>1. JobsMoved /\ j \in Ids /\ j \in Ids'
  BY JobsMove DEF Published, Revisions, JobsMoved, Ids
<1>2. Moves(jobs[j], jobs'[j])
  BY <1>1 DEF JobsMoved
<1> QED
  BY <1>1, <1>2 DEF Moves, Published, Revisions

LEMMA ReadyInv ==
  ASSUME IInv, [Next]_vars
  PROVE  ReadyIsPublished'
<1> USE DEF repository
<1>1. /\ worker \in [Workers -> Procs] /\ github \in GitHubs
      /\ ready \in [by : {"opened", "person", "donkeyspace", "unconfirmed"}, head : Known]
  BY DEF IInv, WorkersOK, GitHubOK, GitHubs
<1>2. ASSUME ready' = ready, github'.draft = FALSE => github.draft = FALSE,
             \A w \in Workers : worker[w].pc = "restore" => github'.draft \/ worker'[w].pc = "restore"
      PROVE  ReadyIsPublished'
  <2> SUFFICES ASSUME ~github'.draft, ready'.by = "donkeyspace",
                      \A w \in Workers : worker'[w].pc # "restore"
               PROVE  \E j \in Published' : jobs'[j].sha = ready'.head
    BY DEF ReadyIsPublished, Works
  <2>1. ~github.draft
    BY <1>1, <1>2, GitHubInv DEF GitHubs, GitHubOK
  <2>2. \A w \in Workers : worker[w].pc # "restore"
    BY <1>2
  <2>3. PICK j \in Published : jobs[j].sha = ready.head
    BY <1>2, <2>1, <2>2 DEF IInv, ReadyIsPublished, Works
  <2> QED
    BY <1>2, <2>3, PublishedStays
<1>3. ASSUME ready'.by # "donkeyspace"
      PROVE  ReadyIsPublished'
  BY <1>3 DEF ReadyIsPublished
<1>4. ASSUME NEW w \in Workers, worker'[w].pc = "restore"
      PROVE  ReadyIsPublished'
  BY <1>4 DEF ReadyIsPublished, Works
<1>5. ASSUME NEW w \in Workers, worker[w].pc # "restore", \E q : worker' = [worker EXCEPT ![w] = q]
      PROVE  \A v \in Workers : worker[v].pc = "restore" => worker'[v].pc = "restore"
  BY <1>1, <1>5
<1>6. CASE UNCHANGED <<github, ready, worker>>
  BY <1>2, <1>6
<1>7. CASE GitHub
  <2>1. CASE PersonDrafts
    BY <1>3, <2>1 DEF PersonDrafts
  <2>2. CASE ~PersonDrafts
    <3>1. ready' = ready /\ worker' = worker
      BY <1>7, <2>2 DEF GitHub, Refresh, PersonPushes, PersonCloses, BaseMoves, DeliverNotice,
         DeliverBase
    <3>2. github'.draft = github.draft
      BY <1>1, <1>7, <2>2 DEF GitHub, Refresh, PersonPushes, PersonCloses, BaseMoves, DeliverNotice,
         DeliverBase, Lands, Changes, GitHubs
    <3> QED
      BY <1>2, <3>1, <3>2
  <2> QED
    BY <2>1, <2>2
<1>8. CASE \/ \E h \in Handlers : Admission(h)
           \/ UNCHANGED vars \/ \E j \in Ids : Recover(j) \/ Acknowledge(j)
  BY <1>6, <1>8 DEF Admission, Receive, Look, Register, ReadActive, Resume, Reconcile,
     MarkReconciled, ReadSource, Enqueue, Record, Remember, FailRequest, Recover, Acknowledge, vars
<1>9. ASSUME NEW w \in Workers, ListRepair(w) \/ CreateRepair(w) \/ Take(w) \/ Report(w) \/ Drop(w)
      PROVE  ReadyIsPublished'
  <2>1. UNCHANGED <<github, ready>> /\ worker[w].pc # "restore"
    BY <1>9 DEF ListRepair, CreateRepair, Take, Report, Drop, Works, HoldsRow
  <2>2. \E q : worker' = [worker EXCEPT ![w] = q]
    BY <1>1, <1>9 DEF ListRepair, CreateRepair, Take, Report, Drop, Rests
  <2> QED
    BY <1>2, <1>5, <2>1, <2>2
<1>10. ASSUME NEW w \in Workers, OnJob(w)
       PROVE  \E q : worker' = [worker EXCEPT ![w] = q]
  BY <1>10, OwnSteps DEF OwnStep
<1>11. ASSUME NEW w \in Workers, \/ Begin(w) \/ Review(w) \/ MergeBase(w) \/ Checkout(w) \/ RunAgent(w)
                                 \/ Commit(w) \/ MarkPublished(w) \/ Ready(w)
       PROVE  ReadyIsPublished'
  <2>1. UNCHANGED <<github, ready>> /\ worker[w].pc # "restore"
    BY <1>11 DEF Begin, Began, Review, MergeBase, Checkout, RunAgent, Commit, MarkPublished, Ready,
       Works
  <2>2. OnJob(w)
    BY <1>11 DEF OnJob
  <2> QED
    BY <1>2, <1>5, <1>10, <2>1, <2>2
<1>12. ASSUME NEW w \in Workers, RunRepair(w) \/ Push(w)
       PROVE  ReadyIsPublished'
  <2>1. ready' = ready /\ worker[w].pc # "restore" /\ OnJob(w)
    BY <1>12 DEF RunRepair, Push, Works, OnJob
  <2>2. github'.draft = github.draft
    BY <1>1, <1>12 DEF RunRepair, Push, Lands, Changes, GitHubs
  <2> QED
    BY <1>2, <1>5, <1>10, <2>1, <2>2
<1>13. ASSUME NEW w \in Workers, Draft(w) \/ Recheck(w)
       PROVE  ReadyIsPublished'
  <2>1. ready' = ready /\ worker[w].pc # "restore" /\ OnJob(w)
    BY <1>13 DEF Draft, Recheck, Works, OnJob
  <2>2. github' = github \/ github'.draft = TRUE
    BY <1>13, DraftSet DEF Draft, Recheck, IInv
  <2> QED
    BY <1>2, <1>5, <1>10, <2>1, <2>2
<1>14. ASSUME NEW w \in Workers, Mutate(w)
       PROVE  ReadyIsPublished'
  <2>1. /\ worker[w].pc = "mutate" /\ OnJob(w)
        /\ With(worker[w], Mine(w)) /\ worker[w].job \in Ids
    BY <1>14, InHand DEF Mutate, Works, OnJob, Working, Revising, Done
  <2>2. CASE Goes(w, "restore")
    <3>1. worker'[w].pc = "restore"
      BY <1>1, <2>2 DEF Goes, Procs
    <3> QED
      BY <1>4, <3>1
  <2>3. CASE MadeReady /\ github.head = Mine(w).sha
    <3>1. worker[w].job \in Published
      BY <2>1 DEF With, Published, Revisions, Mine, Revising, Done, Working
    <3>2. CASE ready' = ready /\ github.draft = FALSE
      <4>1. \A v \in Workers : worker[v].pc = "restore" => worker'[v].pc = "restore"
        BY <1>5, <1>10, <2>1
      <4> QED
        BY <1>2, <3>2, <4>1
    <3>3. CASE ready' = [by |-> "donkeyspace", head |-> github.head]
      <4>1. jobs'[worker[w].job].sha = github.head /\ worker[w].job \in Published'
        BY <2>3, <3>1, PublishedStays DEF Mine
      <4> QED
        BY <3>3, <4>1 DEF ReadyIsPublished
    <3> QED
      BY <1>1, <2>3, <3>2, <3>3 DEF MadeReady, GitHubs
  <2>4. CASE UNCHANGED <<github, ready>>
    BY <1>2, <1>5, <1>10, <2>1, <2>4
  <2> QED
    BY <1>14, <2>2, <2>3, <2>4 DEF Mutate, Endorsed
<1>15. ASSUME Unconfirmed
       PROVE  ReadyIsPublished'
  <2>1. ready'.by = "unconfirmed"
    BY <1>1, <1>15 DEF Unconfirmed
  <2> QED
    BY <1>3, <2>1
<1>16. ASSUME NEW w \in Workers, Restore(w)
       PROVE  ReadyIsPublished'
  <2>1. CASE SetsDraft(TRUE)
    <3>1. github'.draft = TRUE
      BY <2>1, DraftSet DEF IInv
    <3> QED
      BY <3>1 DEF ReadyIsPublished
  <2> QED
    BY <1>15, <1>16, <2>1 DEF Restore
<1>17. ASSUME NEW w \in Workers, Crash(w)
       PROVE  ReadyIsPublished'
  <2>1. CASE Unconfirmed \/ ready' = [by |-> "unconfirmed", head |-> github.head]
    BY <1>3, <1>15, <2>1
  <2>2. CASE ready' = ready /\ worker[w].pc # "restore" /\ ~(Unconfirmed \/ ready' = [by |-> "unconfirmed", head |-> github.head])
    <3>1. \E q : worker' = [worker EXCEPT ![w] = q]
      BY <1>17 DEF Crash, Rests
    <3>2. github'.draft = github.draft
      BY <1>1, <1>17, <2>2 DEF Crash, Lands, Changes, GitHubs
    <3> QED
      BY <1>2, <1>5, <2>2, <3>1, <3>2
  <2> QED
    BY <1>17, <2>1, <2>2 DEF Crash, Works
<1> QED
  BY <1>7, <1>8, <1>9, <1>11, <1>12, <1>13, <1>14, <1>16, <1>17 DEF Next, Work

-----------------------------------------------------------------------------
(* The invariant *)

LEMMA InitInv == Init => IInv
<1> SUFFICES ASSUME Init PROVE IInv
  OBVIOUS
<1> PICK first : first = [Job("developer", 0, 0, 0) EXCEPT !.status = "completed"]
  OBVIOUS
<1>1. 0 \in Commits /\ Known = {0} /\ made = 0 /\ None \in Int
  BY ConstantsAssumption DEF Init, Known, Commits, None
<1>2. GitHubOK
  <2>1. Notice(github, TRUE) \in Notices
    BY <1>1 DEF Init, Notice, Notices
  <2>2. github = [open |-> TRUE, draft |-> FALSE, head |-> 0, shown |-> 0, base |-> 0]
    BY DEF Init
  <2>3. /\ github \in [open : BOOLEAN, draft : BOOLEAN, head : Known, shown : Known, base : Nat]
        /\ github.head = 0
    BY <1>1, <2>2
  <2>4. /\ ready \in [by : {"opened", "person", "donkeyspace", "unconfirmed"}, head : Known]
        /\ branch = {0} /\ mail \subseteq Notices
    BY <1>1, <2>1 DEF Init
  <2> QED
    BY <1>1, <2>3, <2>4 DEF GitHubOK
<1>3. RowOK
  BY <1>1 DEF Init, RowOK, Seen, States
<1>4. first \in Jobs /\ first.role = "developer" /\ first.status = "completed" /\ first.publication = "none"
  BY <1>1 DEF Job, Jobs, Statuses, Seen
<1>5. /\ jobs = <<first>> /\ jobs \in Seq(Jobs) /\ Len(jobs) = 1 /\ Ids = {1} /\ jobs[1] = first
  <2>1. jobs = <<first>>
    BY DEF Init
  <2> QED
    BY <1>4, <2>1 DEF Ids
<1>6. JobsOK
  <2>1. JobFits(first)
    BY <1>4 DEF JobFits
  <2>2. \A j \in Ids : JobFits(jobs[j])
    BY <1>5, <2>1
  <2> QED
    BY <1>5, <2>2 DEF JobsOK
<1>7. WorkersOK /\ OneWorker
  <2>1. Alone(IdleWorker)
    BY DEF Alone, IdleWorker, Procs, Seen
  <2>2. worker = [w \in Workers |-> IdleWorker] /\ IdleWorker \in Procs
    BY <2>1 DEF Init, Alone
  <2> QED
    BY <2>1, <2>2 DEF WorkersOK, WorkerFits, OneWorker, IdleWorker, Working, Revising, Done
<1>8. HandlersOK
  <2>1. HandlerFits(IdleHandler)
    BY <1>1 DEF HandlerFits, IdleHandler, Requesting, Reading, Seen
  <2>2. handler = [h \in Handlers |-> IdleHandler] /\ IdleHandler \in Requesting
    BY <2>1 DEF Init, HandlerFits
  <2> QED
    BY <2>1, <2>2 DEF HandlersOK
<1>9. OneActive
  <2>1. Revisions = {}
    BY <1>4, <1>5 DEF Revisions
  <2> QED
    BY <2>1 DEF OneActive, Active
<1>10. ReadyIsPublished
  BY DEF Init, ReadyIsPublished
<1> QED
  BY <1>2, <1>3, <1>6, <1>7, <1>8, <1>9, <1>10 DEF IInv

LEMMA StepInv == IInv /\ [Next]_vars => IInv'
<1> SUFFICES ASSUME IInv, [Next]_vars PROVE IInv'
  OBVIOUS
<1>1. JobsOK'
  BY JobsMove DEF JobsMoved
<1> QED
  BY <1>1, GitHubInv, RowInv, WorkersInv, HandlersInv, OneActiveInv, ReadyInv DEF IInv

(* The inductive invariant holds of every state the program reaches.        *)
THEOREM Invariance == Spec => []IInv
<1>1. QED
  BY InitInv, StepInv, PTL DEF Spec

(* Every variable keeps its type, a worker's job is one that was started,   *)
(* and the branch ends in its head, after any interleaving.                 *)
THEOREM TypeCorrect == Spec => []TypeOK
<1>1. ASSUME IInv PROVE TypeOK
  <2> USE <1>1 DEF IInv
  <2>1. Known \subseteq Commits /\ made \in Commits /\ Seen \subseteq Commits \cup {None}
    BY ConstantsAssumption DEF GitHubOK, Known, Commits, Seen
  <2>2. /\ github \in [open : BOOLEAN, draft : BOOLEAN, head : Commits, shown : Commits, base : Nat]
        /\ ready \in [by : {"opened", "person", "donkeyspace", "unconfirmed"}, head : Commits]
        /\ branch \subseteq 0..made /\ github.head \in branch
        /\ \A commit \in branch : commit <= github.head
    BY <2>1 DEF GitHubOK, Known
  <2>3. /\ row \in [state : {"none", "open", "closed"}, head : Commits \cup {None}, base : Nat]
        /\ state \in {"pr_open", "pr_closed", "in_progress", "needs_human", "blocked"}
        /\ receipts \subseteq Comments /\ applied \in [Comments -> Nat]
    BY <2>1 DEF RowOK, States
  <2>4. ASSUME NEW j \in Ids
        PROVE  /\ jobs[j] \in [role : {"developer", "revision", "reviewer", "repair"},
                          status : Unfinished \cup {"completed", "failed", "cancelled"},
                          head : Commits, base : Nat, comment : Comments \cup {0},
                          resume : BOOLEAN, publication : {"none", "publishing", "published"},
                          sha : Commits \cup {None}]
               /\ jobs[j].publication # "none" => jobs[j].sha # None
    <3>1. JobFits(jobs[j])
      BY DEF JobsOK
    <3>2. jobs[j] \in Jobs
      BY <3>1 DEF JobFits
    <3> QED
      BY <2>1, <3>1, <3>2 DEF JobFits, Jobs, Statuses, Known, None
  <2>5. \A h \in Handlers : handler[h].source \in Ids \cup {None}
    BY DEF HandlersOK, HandlerFits
  <2>6. \A w \in Workers : worker[w].job # 0 => worker[w].job \in Ids /\ Mine(w).role # "developer"
    BY DEF WorkersOK, WorkerFits, Alone, With, Mine
  <2> QED
    BY <2>1, <2>2, <2>3, <2>4, <2>5, <2>6 DEF TypeOK
<1>2. QED
  BY <1>1, Invariance, PTL

(* What Donkeyspace records as published is on the branch, after lost       *)
(* answers, crashes and pushes by others too: the next revision continues   *)
(* from work that exists.                                                   *)
THEOREM PublishedIsOnBranch == Spec => []PublishedOnBranch
<1>1. IInv => PublishedOnBranch
  BY DEF IInv, JobsOK, JobFits, PublishedOnBranch, Published, Revisions
<1>2. QED
  BY <1>1, Invariance, PTL

(* A pull request Donkeyspace made ready for review was ready on a commit   *)
(* it published, unless it could not put the draft back.                    *)
THEOREM ReadyWasPublished == Spec => []ReadyIsPublished
<1>1. IInv => ReadyIsPublished
  BY DEF IInv
<1>2. QED
  BY <1>1, Invariance, PTL

(* One revision is unfinished at a time, and none can run or resume once    *)
(* the closing of the pull request was applied.                             *)
THEOREM OneRevision == Spec => []OneOpenRevision
<1>1. ASSUME IInv PROVE OneOpenRevision
  <2>1. OneActive
    BY <1>1 DEF IInv
  <2>2. Active = {} \/ \E j : Active = {j}
    BY <2>1 DEF OneActive
  <2>3. Cardinality(Active) <= 1
    <3>1. CASE Active = {}
      BY <3>1, FS_EmptySet
    <3>2. CASE \E j : Active = {j}
      <4>1. PICK j : Active = {j}
        BY <3>2
      <4>2. Cardinality({j}) = 1
        BY FS_Singleton
      <4> QED
        BY <4>1, <4>2
    <3> QED
      BY <2>2, <3>1, <3>2
  <2> QED
    BY <2>1, <2>3 DEF OneActive, OneOpenRevision
<1>2. QED
  BY <1>1, Invariance, PTL
=============================================================================
