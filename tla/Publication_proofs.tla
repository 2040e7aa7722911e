-------------------------- MODULE Publication_proofs --------------------------
(***************************************************************************)
(* What holds of Publication for every number of workers, commits,         *)
(* attempts of a push, failures and retries.  The inductive invariant IInv *)
(* follows a commit from the checkout to the row, the push, the mark and   *)
(* the saved checkpoint.  Grows, StaysOnBranch and RowSteps sum up what a  *)
(* step does to Git, to GitHub and to the rows; StepFits what it does to   *)
(* the worker that takes it.                                               *)
(***************************************************************************)
EXTENDS Publication, FiniteSetTheorems, Extremes

\* The commits made so far.
Known == 0..made
OnBranch(c) == branch # NoCommit /\ c \in past[branch]
\* A commit that no lost workspace takes away.
Safe(c) == c = 0 \/ OnBranch(c)

\* A commit contains itself and the ancestors of its ancestors; attempts are
\* never the head of the checkout, of the branch or of a checkpoint.
GitOK ==
    /\ made \in Commits /\ past \in [Commits -> SUBSET Known]
    /\ \A c \in Known : c \in past[c]
    /\ \A a, b \in Known : a \in past[b] => past[a] \subseteq past[b]
    /\ attempts \subseteq 1..made /\ clones \subseteq attempts /\ pushed \subseteq attempts
    /\ tree \in [present : BOOLEAN, head : Known \ attempts, objects : SUBSET Known]
    /\ branch \in (Known \ attempts) \cup {NoCommit}
    /\ saved \in (Known \ attempts) \cup {NoCommit}

\* The stages of a publication; those in which the row exists.
Publishing == {"insert", "check", "git", "mark"}
Writing == {"check", "git", "mark"}
HeldBy(w) == proc[w].list \cup (IF proc[w].pc \in Writing THEN {proc[w].commit} ELSE {})
\* The workers that may still count a failed attempt on a row.
Holders(c) == {w \in Workers : c \in HeldBy(w)}

\* Beyond the limit a row is tried only by the workers that already hold it:
\* every one of them adds at most one attempt and lets it go.
RowFits(c) ==
    /\ rows[c] \in [status : Statuses, tries : Nat]
    /\ rows[c].status # "none" => c \in Known
    /\ rows[c].status = "none" => rows[c].tries = 0
    /\ rows[c].status = "cancelled" => ~Allowed
    /\ rows[c].status = "pending" => rows[c].tries < RetryLimit
    /\ rows[c].tries >= RetryLimit =>
          rows[c].tries + Cardinality(Holders(c)) < RetryLimit + Cardinality(Workers)
RowsOK ==
    /\ rows \in [Commits -> [status : Statuses, tries : Nat]]
    /\ \A c \in Commits : RowFits(c)

Pcs == {"idle", "insert", "check", "git", "mark", "tidy", "remove", "checkout", "work", "finish",
        "complete"}
Thens == {"job", "loop", "initial", "wave", "attempt", "last", "final"}

\* A worker at a stage has the continuation of that stage, and holds rows
\* that exist and that it pushes once.
ProcOK ==
    /\ proc \in [Workers -> [pc : Pcs, commit : Known, ok : BOOLEAN, list : SUBSET Known,
                            then : Thens]]
    /\ \A w \in Workers :
          /\ proc[w].pc \in Publishing => proc[w].then # "job"
          /\ proc[w].pc \in {"insert", "checkout", "work", "finish", "complete"}
                => proc[w].then # "loop"
          /\ proc[w].pc \in {"tidy", "remove"} => proc[w].then = "loop"
          /\ \A c \in HeldBy(w) : rows[c].status # "none"
          /\ proc[w].pc \in Publishing => proc[w].commit \notin proc[w].list
          /\ proc[w].pc = "insert" /\ ~proc[w].ok => ~Allowed

\* At most one worker executes the coordinator, and only while it runs.
OneExecutor ==
    /\ \A w \in Workers : Executing(w) => job.status \in {"running", "cancelled"}
    /\ \A v, w \in Workers : Executing(v) /\ Executing(w) => v = w

\* An executor at work has its head on the branch; in between it publishes
\* the head, or something that leaves the head where it is.
HeadFits(w) ==
    /\ Executing(w) /\ proc[w].then = "wave"
          => proc[w].pc \in Publishing /\ proc[w].commit = tree.head
    /\ AtWork(w) \/ (Executing(w) /\ proc[w].then \in {"initial", "attempt"}) => Safe(tree.head)
HeadOnBranch == \A w \in Workers : HeadFits(w)

\* A push that is about to be marked as published has landed.
MarkedOnGitHub ==
    \A w \in Workers : proc[w].pc = "mark" /\ proc[w].ok =>
        IF proc[w].commit \in attempts THEN proc[w].commit \in pushed ELSE OnBranch(proc[w].commit)

\* A worker that is about to remove the workspace has nothing to lose, and
\* nobody is left to add something.
RemovesPublished ==
    \A w \in Workers : proc[w].pc = "remove" =>
        /\ job.status = "completed"
        /\ \A c \in Commits : rows[c].status # "none" => OnGitHub(c)

JobOK ==
    /\ open \in BOOLEAN /\ syncing \in BOOLEAN /\ done \in BOOLEAN
    /\ job \in [status : {"queued", "running", "paused", "failed", "completed", "cancelled"},
               resume : BOOLEAN]

IInv ==
    /\ JobOK /\ GitOK /\ RowsOK /\ ProcOK /\ OneExecutor
    /\ HeadOnBranch /\ MarkedOnGitHub /\ RemovesPublished
    /\ PublishedOnGitHub /\ SavedOnBranch

(* The invariant holds initially. *)
LEMMA InitOK == Init => IInv
<1> SUFFICES ASSUME Init PROVE IInv
  OBVIOUS
<1> USE ConstantsAssumption DEF Init, Commits, Known, Row, NoTree, Idle
<1>1. JobOK
  BY DEF JobOK
<1>2. GitOK
  BY DEF GitOK
<1>3. RowsOK
  BY DEF RowsOK, RowFits, Statuses
<1>4. ProcOK
  BY DEF ProcOK, Pcs, Thens, HeldBy, Publishing, Writing
<1>5. QED
  BY <1>1, <1>2, <1>3, <1>4 DEF IInv, OneExecutor, HeadOnBranch, HeadFits, MarkedOnGitHub,
     RemovesPublished, PublishedOnGitHub, SavedOnBranch, Executing, AtWork

(* A commit on a known parent keeps the history of the others. *)
LEMMA CommitGrows ==
  ASSUME GitOK, NEW parent \in Known, CommitOn(parent)
  PROVE  /\ made + 1 \in Commits /\ made' = made + 1 /\ Known' = Known \cup {made + 1}
         /\ made + 1 \notin Known
         /\ past' \in [Commits -> SUBSET Known']
         /\ past'[made + 1] = past[parent] \cup {made + 1}
         /\ \A c \in Known : past'[c] = past[c]
         /\ \A c \in Known' : c \in past'[c]
         /\ \A a, b \in Known' : a \in past'[b] => past'[a] \subseteq past'[b]
<1> USE ConstantsAssumption DEF Commits, Known
<1>1. /\ made + 1 \in Commits /\ made' = made + 1 /\ Known' = Known \cup {made + 1}
      /\ made + 1 \notin Known
  BY DEF CommitOn, GitOK
<1>2. past' = [past EXCEPT ![made + 1] = past[parent] \cup {made + 1}]
  BY DEF CommitOn
<1>3. /\ past' \in [Commits -> SUBSET Known']
      /\ past'[made + 1] = past[parent] \cup {made + 1}
      /\ \A c \in Known : past'[c] = past[c]
  BY <1>1, <1>2 DEF GitOK
<1>4. \A c \in Known' : c \in past'[c]
  BY <1>1, <1>3 DEF GitOK
<1>5. \A a, b \in Known' : a \in past'[b] => past'[a] \subseteq past'[b]
  <2> TAKE a, b \in Known'
  <2> HAVE a \in past'[b]
  <2>1. CASE b = made + 1
    BY <1>1, <1>3, <2>1 DEF GitOK
  <2>2. CASE b # made + 1
    BY <1>1, <1>3, <2>2 DEF GitOK
  <2>3. QED
    BY <2>1, <2>2
<1>6. QED
  BY <1>1, <1>3, <1>4, <1>5

-----------------------------------------------------------------------------
(* Git and GitHub *)

LEMMA GitInv == IInv /\ [Next]_vars => GitOK'
<1> SUFFICES ASSUME IInv, [Next]_vars PROVE GitOK'
  OBVIOUS
<1> USE DEF git, github, checkpoint
<1>1. CASE UNCHANGED <<git, github, saved>>
  BY <1>1 DEF IInv, GitOK, Known
<1>2. ASSUME NEW w \in Workers, Push(w) \/ PushFails(w)
      PROVE  GitOK'
  <2>1. proc[w].commit \in Known
    BY DEF IInv, ProcOK
  <2> QED
    BY <1>2, <2>1 DEF Push, PushFails, Lands, IInv, GitOK, Known
<1>3. ASSUME NEW w \in Workers, Remove(w) \/ CheckoutFresh(w) \/ CloneFails(w)
      PROVE  GitOK'
  <2>1. 0 \in Known \ attempts
    BY ConstantsAssumption DEF IInv, GitOK, Commits, Known
  <2>2. /\ UNCHANGED <<made, past, attempts, branch, pushed, saved>> /\ clones' = {}
        /\ tree' \in {NoTree, FreshTree}
    BY <1>3 DEF Remove, CheckoutFresh, CloneFails
  <2>3. tree' \in [present : BOOLEAN, head : Known \ attempts, objects : SUBSET Known]
    <3>1. CASE tree' = [present |-> FALSE, head |-> 0, objects |-> {}]
      BY <2>1, <3>1
    <3>2. CASE tree' = [present |-> TRUE, head |-> 0, objects |-> {0}]
      BY <2>1, <3>2
    <3> QED
      BY <2>2, <3>1, <3>2 DEF NoTree, FreshTree
  <2> QED
    BY <2>2, <2>3 DEF IInv, GitOK, Known
<1>4. ASSUME NEW w \in Workers, CheckoutSaved(w)
      PROVE  GitOK'
  <2>1. saved \in Known \ attempts /\ Known \subseteq Commits
    BY <1>4, ConstantsAssumption DEF CheckoutSaved, Provenance, IInv, GitOK, Known, Commits
  <2>2. PICK objects \in SUBSET Known : Restored(objects)
    BY <1>4, <2>1 DEF CheckoutSaved, InClone, IInv, GitOK, Known
  <2>3. UNCHANGED <<made, past, attempts, clones, branch, pushed, saved>>
    BY <1>4 DEF CheckoutSaved
  <2> QED
    BY <2>1, <2>2, <2>3 DEF Restored, IInv, GitOK, Known
<1>5. ASSUME NEW w \in Workers, Save(w)
      PROVE  GitOK'
  BY <1>5 DEF Save, IInv, GitOK, Known
<1>6. tree.head \in Known
  BY DEF IInv, GitOK
<1>7. ASSUME Commit, UNCHANGED saved,
             UNCHANGED github \/ (branch' = tree'.head /\ pushed' = pushed)
      PROVE  GitOK'
  <2>1. CommitOn(tree.head)
    BY <1>7 DEF Commit
  <2>2. GitOK /\ attempts \subseteq Known
    BY DEF IInv, GitOK, Known
  <2>3. /\ tree'.head = made + 1
        /\ tree' \in [present : BOOLEAN, head : {made + 1}, objects : SUBSET Known']
    BY <1>6, <1>7, <2>1, <2>2, CommitGrows DEF Commit, GitOK
  <2>4. branch' \in (Known' \ attempts') \cup {NoCommit}
    BY <1>6, <1>7, <2>1, <2>2, <2>3, CommitGrows DEF Commit, GitOK
  <2>5. attempts' \subseteq 1..made' /\ clones' = clones /\ attempts' = attempts /\ pushed' = pushed
    BY <1>6, <1>7, <2>1, <2>2, CommitGrows DEF Commit, GitOK, Known, Commits
  <2>6. tree' \in [present : BOOLEAN, head : Known' \ attempts', objects : SUBSET Known']
    BY <1>6, <2>1, <2>2, <2>3, <2>5, CommitGrows
  <2>7. saved' \in (Known' \ attempts') \cup {NoCommit}
    BY <1>6, <1>7, <2>1, <2>2, <2>5, CommitGrows DEF GitOK
  <2> QED
    BY <1>6, <2>1, <2>2, <2>4, <2>5, <2>6, <2>7, CommitGrows DEF GitOK
<1>8. ASSUME CommitOn(tree.head), UNCHANGED <<tree, github, saved>>,
             attempts' = attempts \cup {made + 1}, clones' = clones \cup {made + 1}
      PROVE  GitOK'
  <2>1. GitOK
    BY DEF IInv
  <2>2. attempts' \subseteq 1..made' /\ clones' \subseteq attempts' /\ pushed' \subseteq attempts'
    BY <1>6, <1>8, <2>1, CommitGrows DEF GitOK, Commits, Known
  <2> QED
    BY <1>6, <1>8, <2>1, <2>2, CommitGrows DEF GitOK
<1>9. ASSUME NEW w \in Workers, PublishWave(w)
      PROVE  GitOK'
  BY <1>1, <1>7, <1>9 DEF PublishWave
<1>10. ASSUME NEW w \in Workers, PublishAttempt(w) \/ FinishFails(w)
       PROVE  GitOK'
  BY <1>8, <1>10 DEF PublishAttempt, FinishFails
<1>11. ASSUME NEW w \in Workers, Finish(w)
       PROVE  GitOK'
  <2>1. CASE Commit
    BY <1>7, <1>11, <2>1 DEF Finish
  <2>2. CASE UNCHANGED git
    BY <1>11, <2>2 DEF Finish, IInv, GitOK, Known
  <2> QED
    BY <1>11, <2>1, <2>2 DEF Finish
<1>12. QED
  BY <1>1, <1>2, <1>3, <1>4, <1>5, <1>9, <1>10, <1>11
     DEF Next, vars, Outside, Pushing, Looping, Working, Ending, Resume, RetryPublication,
         RetrySync, Requeue, Close, Recover, Drop, Crash, Insert, Check, Mark, BeginLoop, Tidy,
         Acquire, RecoveryBlocked, LoadFails, Fail, Complete

(* What no step undoes. *)
LEMMA Grows ==
  IInv /\ [Next]_vars =>
    /\ Known \subseteq Known'
    /\ \A c \in Known : past'[c] = past[c] /\ (c \in attempts' <=> c \in attempts)
    /\ pushed \subseteq pushed'
    /\ branch' = branch \/ (branch' \in Known' /\ (branch = NoCommit \/ branch \in past'[branch']))
    /\ Allowed' => Allowed
<1> SUFFICES ASSUME IInv, [Next]_vars
             PROVE  /\ Known \subseteq Known'
                    /\ \A c \in Known :
                          past'[c] = past[c] /\ (c \in attempts' <=> c \in attempts)
                    /\ pushed \subseteq pushed'
                    /\ \/ branch' = branch
                       \/ branch' \in Known' /\ (branch = NoCommit \/ branch \in past'[branch'])
                    /\ Allowed' => Allowed
  OBVIOUS
<1> USE DEF git, github, checkpoint
<1>1. GitOK /\ tree.head \in Known
  BY DEF IInv, GitOK
<1>2. \/ UNCHANGED <<made, past, attempts>>
      \/ CommitOn(tree.head) /\ attempts' \in {attempts, attempts \cup {made + 1}}
  <2>1. CASE Outside \/ UNCHANGED vars
    BY <2>1 DEF vars, Outside, Resume, RetryPublication, RetrySync, Requeue, Close, Recover
  <2>2. ASSUME NEW w \in Workers, Pushing(w) \/ Looping(w) \/ Ending(w)
        PROVE  UNCHANGED <<made, past, attempts>>
    BY <2>2 DEF Pushing, Looping, Ending, Drop, Crash, Insert, Check, Push, PushFails, Mark,
       BeginLoop, Tidy, Remove
  <2>3. ASSUME NEW w \in Workers, CheckoutFresh(w) \/ CheckoutSaved(w) \/ Acquire(w)
                                  \/ CloneFails(w) \/ RecoveryBlocked(w) \/ LoadFails(w)
                                  \/ Save(w) \/ Fail(w) \/ Complete(w)
        PROVE  UNCHANGED <<made, past, attempts>>
    BY <2>3 DEF Acquire, CheckoutFresh, CloneFails, CheckoutSaved, RecoveryBlocked, LoadFails,
       Save, Fail, Complete
  <2>4. ASSUME NEW w \in Workers, PublishWave(w) \/ PublishAttempt(w) \/ Finish(w)
                                  \/ FinishFails(w)
        PROVE  \/ UNCHANGED <<made, past, attempts>>
               \/ CommitOn(tree.head) /\ attempts' \in {attempts, attempts \cup {made + 1}}
    BY <2>4 DEF Commit, PublishWave, PublishAttempt, Finish, FinishFails
  <2> QED
    BY <2>1, <2>2, <2>3, <2>4 DEF Next, Working
<1>3. /\ Known \subseteq Known'
      /\ \A c \in Known : past'[c] = past[c] /\ (c \in attempts' <=> c \in attempts)
  BY <1>1, <1>2, CommitGrows DEF Known
<1>4. \/ UNCHANGED github
      \/ pushed' = pushed /\ branch' = tree'.head /\ (branch = NoCommit \/ branch \in past'[branch'])
      \/ \E w \in Workers : /\ UNCHANGED past
                            /\ Accepted(proc[w].commit) /\ Lands(proc[w].commit)
  BY DEF Next, vars, Outside, Pushing, Looping, Working, Ending, Resume,
     RetryPublication, RetrySync, Requeue, Close, Recover, Drop, Crash, Insert, Check, Push,
     PushFails, Reported, Mark, BeginLoop, Tidy, Remove, Acquire, CheckoutFresh, CloneFails,
     CheckoutSaved, RecoveryBlocked, LoadFails, PublishWave, PublishAttempt, Save, Fail, Finish,
     FinishFails, Complete
<1>5. /\ pushed \subseteq pushed'
      /\ \/ branch' = branch
         \/ branch' \in Known' /\ (branch = NoCommit \/ branch \in past'[branch'])
  <2>1. tree'.head \in Known'
    BY GitInv DEF GitOK
  <2>2. \A w \in Workers : proc[w].commit \in Known'
    BY <1>3 DEF IInv, ProcOK
  <2> QED
    BY <1>4, <2>1, <2>2 DEF Accepted, FastForward, Lands
<1>6. open' => open
  BY DEF Next, vars, Outside, Pushing, Looping, Working, Ending, Resume,
     RetryPublication, RetrySync, Requeue, Close, Recover, Drop, Crash, Insert, Check, Push,
     PushFails, Mark, BeginLoop, Tidy, Remove, Acquire, CheckoutFresh, CloneFails,
     CheckoutSaved, RecoveryBlocked, LoadFails, PublishWave, PublishAttempt, Save, Fail, Finish,
     FinishFails, Complete
<1>7. job.status = "cancelled" => job'.status = "cancelled"
  <2> SUFFICES ASSUME job.status = "cancelled" PROVE job'.status = "cancelled"
    OBVIOUS
  <2> USE DEF JobOK, IInv
  <2>1. ~Allowed
    BY DEF Allowed
  <2>2. ASSUME NEW w \in Workers, NEW status, EndsJob(w, status)
        PROVE  job'.status = "cancelled"
    BY <2>2 DEF EndsJob
  <2>3. ASSUME Outside PROVE job'.status = "cancelled"
    BY <2>1, <2>3 DEF Outside, Resume, RetryPublication, RetrySync, Requeue, Close, Recover
  <2>4. ASSUME NEW w \in Workers, Pushing(w) \/ Looping(w) \/ Ending(w)
        PROVE  job'.status = "cancelled"
    BY <2>2, <2>4 DEF Pushing, Looping, Ending, Drop, Crash, Insert, Check, Push, PushFails,
       Mark, Return, BeginLoop, Tidy, Remove
  <2>5. ASSUME NEW w \in Workers, Working(w)
        PROVE  job'.status = "cancelled"
    BY <2>1, <2>2, <2>5 DEF Working, Acquire, AtCheckout, CheckoutFresh, CloneFails,
       CheckoutSaved, RecoveryBlocked, Running, LoadFails, PublishWave, PublishAttempt, Save,
       Fail, Finish, FinishFails, Complete
  <2> QED
    BY <2>3, <2>4, <2>5 DEF Next, vars
<1>8. QED
  BY <1>3, <1>5, <1>6, <1>7 DEF Allowed

(* A push is a fast-forward: nothing leaves the branch or GitHub again. *)
LEMMA StaysOnBranch ==
  ASSUME IInv, [Next]_vars, NEW c \in Known
  PROVE  /\ OnBranch(c) => OnBranch(c)'
         /\ Safe(c) => Safe(c)'
         /\ OnGitHub(c) => OnGitHub(c)'
<1> USE GitInv
<1>1. GitOK /\ GitOK' /\ \A a, b \in Known' : a \in past'[b] => past'[a] \subseteq past'[b]
  BY DEF IInv, GitOK
<1>2. NoCommit \notin Known /\ NoCommit \notin Known' /\ pushed \subseteq Known
  BY <1>1, ConstantsAssumption DEF GitOK, Known, Commits
<1>3. OnBranch(c) => OnBranch(c)'
  <2>1. CASE branch' = branch
    BY <1>1, <1>2, <2>1, Grows DEF OnBranch, GitOK
  <2>2. CASE branch' # branch
    BY <1>1, <1>2, <2>2, Grows DEF OnBranch, GitOK
  <2> QED
    BY <2>1, <2>2
<1>4. OnGitHub(c) => OnGitHub(c)'
  BY <1>1, <1>2, <1>3, Grows DEF OnGitHub, OnBranch
<1>5. QED
  BY <1>3, <1>4 DEF Safe

-----------------------------------------------------------------------------
(* Rows *)

(* What a step may do to a row. *)
RowMoves(c) ==
    \/ rows'[c] = rows[c]
    \/ /\ rows'[c] = Row("pending")
       /\ rows[c].status = "failed" \/ (c \in Known /\ \E w \in Workers : Executing(w))
    \/ /\ rows'[c] = Row("cancelled") /\ ~Allowed' /\ c \in Known
       /\ \E w \in Workers : Executing(w)
    \/ /\ rows[c].status \in Unpublished /\ ~Allowed'
       /\ rows'[c] = [rows[c] EXCEPT !.status = "cancelled"]
    \/ \E w \in Workers :
          /\ Mark(w) /\ proc[w].commit = c
          /\ \/ proc[w].ok /\ rows'[c] = [rows[c] EXCEPT !.status = "published"]
             \/ /\ ~proc[w].ok /\ Allowed' = Allowed
                /\ \E status \in FailedStatus(c) :
                      rows'[c] = [status |-> Fence(status), tries |-> rows[c].tries + 1]

LEMMA PublishedRow ==
  ASSUME IInv, [Next]_vars, UNCHANGED <<open, job>>,
         NEW w \in Workers, Executing(w), NEW d \in Commits, NEW then, Publish(w, d, then)
  PROVE  \A c \in Commits : RowMoves(c)
<1>1. CASE rows[d].status = "none"
  BY <1>1 DEF Publish, RowMoves
<1>2. CASE rows[d].status # "none"
  <2>1. rows' = [rows EXCEPT ![d] = Row(Fence("pending"))] /\ d \in Known
    BY <1>2 DEF Publish, UpsertedRow, IInv, RowsOK, RowFits
  <2>2. Row(Fence("pending")) = IF Allowed THEN Row("pending") ELSE Row("cancelled")
    BY DEF Fence, Unpublished
  <2>3. Allowed' = Allowed
    BY DEF Allowed
  <2>4. ASSUME NEW c \in Commits PROVE RowMoves(c)
    <3>1. CASE c = d
      BY <2>1, <2>2, <2>3, <3>1 DEF RowMoves, IInv, RowsOK, RowFits
    <3>2. CASE c # d
      BY <2>1, <3>2 DEF RowMoves, IInv, RowsOK, RowFits
    <3> QED
      BY <3>1, <3>2
  <2> QED
    BY <2>4
<1>3. QED
  BY <1>1, <1>2

LEMMA RowSteps == IInv /\ [Next]_vars => \A c \in Commits : RowMoves(c)
<1> SUFFICES ASSUME IInv, [Next]_vars PROVE \A c \in Commits : RowMoves(c)
  OBVIOUS
<1> USE DEF git, github, checkpoint
<1>1. CASE UNCHANGED rows
  BY <1>1 DEF RowMoves
<1>2. /\ rows \in [Commits -> [status : Statuses, tries : Nat]]
      /\ proc \in [Workers -> [pc : Pcs, commit : Known, ok : BOOLEAN, list : SUBSET Known,
                              then : Thens]]
      /\ job = [status |-> job.status, resume |-> job.resume] /\ Known \subseteq Commits
      /\ tree.head \in Known
  <2>1. Known \subseteq Commits
    BY ConstantsAssumption DEF IInv, GitOK, Known, Commits
  <2> QED
    BY <2>1 DEF IInv, RowsOK, RowFits, ProcOK, JobOK, GitOK
<1>3. ASSUME NEW w \in Workers, Insert(w)
      PROVE  \A c \in Commits : RowMoves(c)
  <2>1. Executing(w) /\ (~proc[w].ok => ~Allowed)
    BY <1>3 DEF Insert, Executing, IInv, ProcOK
  <2>2. Allowed' = Allowed
    BY <1>3 DEF Insert, Allowed
  <2> QED
    BY <1>2, <1>3, <2>1, <2>2 DEF Insert, RowMoves
<1>4. ASSUME NEW w \in Workers, Mark(w)
      PROVE  \A c \in Commits : RowMoves(c)
  <2>1. CASE proc[w].ok
    BY <1>2, <1>4, <2>1 DEF Mark, RowMoves
  <2>2. CASE ~proc[w].ok
    <3>1. Allowed' = Allowed
      BY <1>2, <1>4, <2>2 DEF Mark, Return, EndsJob, Allowed
    <3>2. PICK status \in FailedStatus(proc[w].commit) :
             rows' = [rows EXCEPT ![proc[w].commit] =
                        [status |-> Fence(status), tries |-> @.tries + 1]]
      BY <1>4, <2>2 DEF Mark
    <3> QED
      BY <1>2, <1>4, <2>2, <3>1, <3>2 DEF Mark, RowMoves
  <2> QED
    BY <2>1, <2>2
<1>5. ASSUME RetryPublication \/ RetrySync
      PROVE  \A c \in Commits : RowMoves(c)
  BY <1>2, <1>5 DEF RetryPublication, RetrySync, RowMoves
<1>6. ASSUME Close \/ Recover
      PROVE  \A c \in Commits : RowMoves(c)
  <2>1. ~Allowed'
    BY <1>2, <1>6 DEF Close, Recover, Allowed
  <2> QED
    BY <1>2, <1>6, <2>1 DEF Close, Recover, CancelRows, RowMoves
<1>7. ASSUME NEW w \in Workers,
             CheckoutFresh(w) \/ PublishWave(w) \/ PublishAttempt(w) \/ Finish(w) \/ FinishFails(w)
      PROVE  \A c \in Commits : RowMoves(c)
  <2>1. Executing(w)
    BY <1>7 DEF CheckoutFresh, PublishWave, PublishAttempt, Finish, FinishFails, AtCheckout,
       Running, AtWork, Executing, IInv, ProcOK
  <2>2. PICK d, then : Publish(w, d, then) /\ d \in {0, tree.head, tree'.head, made'}
    BY <1>2, <1>7, CommitGrows DEF CheckoutFresh, PublishWave, PublishAttempt, Finish,
       FinishFails, CommitOn, Commit
  <2>3. d \in Commits
    <3>1. {0, tree.head, tree'.head, made'} \subseteq Commits
      BY <1>2, GitInv, ConstantsAssumption DEF GitOK, Known, Commits
    <3> QED
      BY <2>2, <3>1
  <2>4. UNCHANGED <<open, job>>
    BY <1>7 DEF CheckoutFresh, PublishWave, PublishAttempt, Finish, FinishFails
  <2> QED
    BY <2>1, <2>2, <2>3, <2>4, PublishedRow
<1>8. QED
  BY <1>1, <1>3, <1>4, <1>5, <1>6, <1>7
     DEF Next, vars, Outside, Pushing, Looping, Working, Ending, Resume, Requeue, Drop, Crash,
         Check, Push, PushFails, BeginLoop, Tidy, Remove, Acquire, CloneFails, CheckoutSaved,
         RecoveryBlocked, LoadFails, Save, Fail, Complete

(* A row is never deleted. *)
LEMMA RowsStay ==
  ASSUME IInv, [Next]_vars, NEW c \in Commits, rows[c].status # "none"
  PROVE  rows'[c].status # "none"
<1>1. RowMoves(c) /\ rows[c] \in [status : Statuses, tries : Nat]
  BY RowSteps DEF IInv, RowsOK, RowFits
<1>2. \A status \in FailedStatus(c) : Fence(status) # "none"
  BY DEF FailedStatus, Fence
<1>3. CASE rows'[c] \in {rows[c], Row("pending"), Row("cancelled")}
  BY <1>3 DEF Row
<1>4. CASE rows'[c] \in {[rows[c] EXCEPT !.status = "cancelled"],
                       [rows[c] EXCEPT !.status = "published"]}
  BY <1>1, <1>4
<1>5. CASE \E status \in FailedStatus(c) :
              rows'[c] = [status |-> Fence(status), tries |-> rows[c].tries + 1]
  BY <1>2, <1>5
<1>6. QED
  BY <1>1, <1>3, <1>4, <1>5 DEF RowMoves

LEMMA JobInv == IInv /\ [Next]_vars => JobOK'
<1> SUFFICES ASSUME IInv, [Next]_vars PROVE JobOK'
  OBVIOUS
<1> USE DEF JobOK, IInv, checkpoint
<1>1. ASSUME NEW w \in Workers,
             NEW status \in {"queued", "running", "paused", "failed", "completed", "cancelled"},
             EndsJob(w, status)
      PROVE  job' \in [status : {"queued", "running", "paused", "failed", "completed",
                                 "cancelled"}, resume : BOOLEAN]
  BY <1>1 DEF EndsJob
<1>2. ASSUME Outside
      PROVE  JobOK'
  <2>1. CASE Resume
    BY <2>1 DEF Resume
  <2>4. CASE RetryPublication
    BY <2>4 DEF RetryPublication
  <2>5. CASE RetrySync
    BY <2>5 DEF RetrySync
  <2>2. CASE Requeue
    BY <2>2 DEF Requeue
  <2>3. CASE Close \/ Recover
    BY <2>3 DEF Close, Recover
  <2> QED
    BY <1>2, <2>1, <2>2, <2>3, <2>4, <2>5 DEF Outside
<1>3. ASSUME NEW w \in Workers, Pushing(w) \/ Looping(w) \/ Ending(w)
      PROVE  JobOK'
  BY <1>1, <1>3 DEF Pushing, Looping, Ending, Drop, Crash, Insert, Check, Push, PushFails,
     Mark, Return, BeginLoop, Tidy, Remove
<1>4. ASSUME NEW w \in Workers, Working(w)
      PROVE  JobOK'
  BY <1>1, <1>4 DEF Working, Acquire, CheckoutFresh, CloneFails, CheckoutSaved,
     RecoveryBlocked, LoadFails, PublishWave, PublishAttempt, Save, Fail, Finish, FinishFails,
     Complete
<1>5. CASE UNCHANGED vars
  BY <1>5 DEF vars
<1>6. QED
  BY <1>2, <1>3, <1>4, <1>5 DEF Next
-----------------------------------------------------------------------------
(* Workers *)

Proc == [pc : Pcs, commit : Known, ok : BOOLEAN, list : SUBSET Known, then : Thens]

(* What a worker may hold, whatever else happens. *)
ProcFits(p) ==
    /\ p \in Proc
    /\ p.pc \in Publishing => p.then # "job"
    /\ p.pc \in {"insert", "checkout", "work", "finish", "complete"} => p.then # "loop"
    /\ p.pc \in {"tidy", "remove"} => p.then = "loop"
    /\ p.pc \in Publishing => p.commit \notin p.list
    /\ p.pc = "insert" /\ ~p.ok => ~Allowed

Holds(p) == p.list \cup (IF p.pc \in Writing THEN {p.commit} ELSE {})

LEMMA PushOfFits ==
  ASSUME GitOK, NEW list \in SUBSET Known
  PROVE  /\ ProcFits(PushOf(list)) /\ Holds(PushOf(list)) \subseteq list
         /\ PushOf(list).pc \in {"idle", "check"}
         /\ PushOf(list).pc # "idle" => PushOf(list).then = "loop"
<1>1. 0 \in Known /\ Known \subseteq Nat
  BY ConstantsAssumption DEF GitOK, Known, Commits
<1>2. CASE list = {}
  BY <1>1, <1>2 DEF PushOf, Idle, ProcFits, Proc, Holds, Pcs, Thens, Publishing, Writing
<1>3. CASE list # {}
  <2>1. Oldest(list) \in list
    BY <1>1, <1>3, Minimum DEF Oldest
  <2> QED
    BY <1>1, <1>3, <2>1
       DEF PushOf, Idle, ProcFits, Proc, Holds, Pcs, Thens, Publishing, Writing
<1>4. QED
  BY <1>2, <1>3

(* A step changes the process of w, which fits after it and holds only rows *)
(* that it held, that were pending, or that are counted anew.               *)
StepFits(w) ==
    /\ proc' = [proc EXCEPT ![w] = proc'[w]]
    /\ ProcFits(proc[w])' /\ \A c \in Holds(proc[w])' : rows'[c].status # "none"
    /\ \A c \in Holds(proc[w])' :
          c \in Holds(proc[w]) \/ rows[c].status = "pending" \/ rows'[c].tries = 0

LEMMA ProcFacts ==
  ASSUME IInv, NEW w \in Workers
  PROVE  /\ ProcFits(proc[w]) /\ Holds(proc[w]) = HeldBy(w)
         /\ \A c \in Holds(proc[w]) : rows[c].status # "none"
BY DEF IInv, ProcOK, ProcFits, Proc, Holds, HeldBy

LEMMA IdleFits ==
  ASSUME GitOK
  PROVE  /\ ProcFits(Idle) /\ Holds(Idle) = {} /\ Idle.pc = "idle" /\ Idle.then = "job"
         /\ \A pc \in {"checkout", "work", "finish", "complete"} :
               ProcFits([Idle EXCEPT !.pc = pc]) /\ Holds([Idle EXCEPT !.pc = pc]) = {}
<1>1. 0 \in Known
  BY ConstantsAssumption DEF GitOK, Known, Commits
<1> QED
  BY <1>1 DEF Idle, ProcFits, Proc, Holds, Pcs, Thens, Publishing, Writing

LEMMA StillFits ==
  ASSUME IInv, [Next]_vars, NEW v \in Workers,
         ProcFits(proc'[v]), \A c \in Holds(proc'[v]) : rows[c].status # "none"
  PROVE  ProcFits(proc[v])' /\ \A c \in Holds(proc[v])' : rows'[c].status # "none"
<1>1. ProcFits(proc[v])'
  BY Grows DEF ProcFits, Proc
<1>2. Holds(proc'[v]) \subseteq Commits
  BY ConstantsAssumption DEF ProcFits, Proc, Holds, Known, IInv, GitOK, Commits
<1>3. \A c \in Holds(proc'[v]) : rows'[c].status # "none"
  BY <1>2, RowsStay
<1>4. QED
  BY <1>1, <1>3 DEF Holds, HeldBy


(* A process that fitted before the step fits after it. *)
LEMMA GoesToFits ==
  ASSUME IInv, [Next]_vars, NEW w \in Workers, NEW p,
         proc' = [proc EXCEPT ![w] = p],
         ProcFits(p),
         \A c \in Holds(p) :
            /\ rows[c].status # "none"
            /\ c \in Holds(proc[w]) \/ rows[c].status = "pending"
  PROVE  StepFits(w)
<1>1. proc'[w] = p
  BY DEF IInv, ProcOK
<1>2. ProcFits(proc[w])' /\ \A c \in Holds(proc[w])' : rows'[c].status # "none"
  BY <1>1, StillFits
<1>3. Holds(proc[w])' = Holds(p)
  BY <1>1 DEF Holds
<1> QED
  BY <1>1, <1>2, <1>3 DEF StepFits

LEMMA PublishFits ==
  ASSUME IInv, [Next]_vars, UNCHANGED <<open, job>>,
         NEW w \in Workers, NEW d \in Known', NEW then \in Thens \ {"job", "loop"},
         Publish(w, d, then)
  PROVE  StepFits(w) /\ proc'[w].pc \in Publishing /\ proc'[w].then = then /\ proc'[w].commit = d
<1>1. Allowed' = Allowed /\ d \in Commits /\ proc' = [proc EXCEPT ![w] = proc'[w]]
  BY GitInv, ConstantsAssumption DEF Allowed, Publish, GitOK, Known, Commits, IInv, ProcOK
<1>2. CASE rows[d].status = "none"
  <2>1. proc'[w] = [pc |-> "insert", commit |-> d, then |-> then,
                    ok |-> Fence("pending") = "pending", list |-> {}]
    BY <1>2 DEF Publish, IInv, ProcOK
  <2>2. PICK ok \in BOOLEAN :
           /\ proc'[w] = [pc |-> "insert", commit |-> d, then |-> then, ok |-> ok, list |-> {}]
           /\ ~ok => ~Allowed'
    <3>1. CASE Fence("pending") = "pending"
      <4>1. (Fence("pending") = "pending") = TRUE
        BY <3>1, Zenon
      <4> QED
        BY <2>1, <4>1
    <3>2. CASE Fence("pending") # "pending"
      <4>1. (Fence("pending") = "pending") = FALSE /\ ~Allowed'
        BY <1>1, <3>2, Zenon DEF Fence
      <4> QED
        BY <2>1, <4>1
    <3> QED
      BY <3>1, <3>2
  <2>3. ProcFits(proc[w])' /\ Holds(proc[w])' = {}
    BY <2>2 DEF ProcFits, Proc, Holds, Pcs, Publishing, Writing
  <2> QED
    BY <1>1, <2>1, <2>3 DEF StepFits, Publishing
<1>3. CASE rows[d].status # "none"
  <2>1. proc'[w] = [pc |-> "check", commit |-> d, then |-> then, ok |-> FALSE, list |-> {}]
    BY <1>3 DEF Publish, IInv, ProcOK
  <2>2. ProcFits(proc[w])' /\ Holds(proc[w])' = {d}
    BY <2>1 DEF ProcFits, Proc, Holds, Pcs, Publishing, Writing
  <2> QED
    <3>1. rows'[d].status # "none" /\ rows'[d].tries = 0
      BY <1>1, <1>3, RowsStay DEF Publish, UpsertedRow, Row, IInv, RowsOK, RowFits
    <3>2. \A c \in Holds(proc[w])' : rows'[c].status # "none" /\ rows'[c].tries = 0
      BY <2>2, <3>1
    <3>3. proc'[w].pc \in Publishing /\ proc'[w].then = then /\ proc'[w].commit = d
      BY <2>1 DEF Publishing
    <3> QED
      BY <1>1, <2>2, <3>2, <3>3 DEF StepFits
<1>4. QED
  BY <1>2, <1>3

LEMMA PushingFits ==
  ASSUME IInv, [Next]_vars, NEW w \in Workers, Pushing(w)
  PROVE  StepFits(w)
<1> DEFINE p == proc[w]
<1>1. /\ p \in Proc /\ ProcFits(p)
      /\ \A c \in Holds(p) : rows[c].status # "none"
  BY ProcFacts DEF ProcFits
<1>2. ProcFits(TakeNext(w)) /\ Holds(TakeNext(w)) \subseteq Holds(p)
  BY <1>1, PushOfFits DEF TakeNext, IInv, Proc, Holds
<1>3. ASSUME Insert(w) PROVE StepFits(w)
  <2>1. proc'[w] = [p EXCEPT !.pc = "check", !.ok = FALSE] /\ proc' = [proc EXCEPT ![w] = proc'[w]]
    BY <1>3 DEF Insert, IInv, ProcOK
  <2>a. p.pc = "insert" /\ Known' = Known
    BY <1>3 DEF Insert, git, Known
  <2>b. proc'[w] = [pc |-> "check", commit |-> p.commit, ok |-> FALSE, list |-> p.list,
                    then |-> p.then]
    BY <1>1, <2>1 DEF Proc
  <2>2. ProcFits(proc[w])' /\ Holds(proc[w])' = Holds(p) \cup {p.commit}
    BY <1>1, <2>a, <2>b DEF ProcFits, Proc, Holds, Pcs, Publishing, Writing
  <2>3. Known \subseteq Commits /\ rows'[p.commit].status # "none" /\ rows'[p.commit].tries = 0
    BY <1>1, <1>3, ConstantsAssumption
       DEF Insert, Row, Proc, IInv, RowsOK, RowFits, GitOK, Known, Commits
  <2>4. \A c \in Holds(p) : rows'[c].status # "none"
    BY <1>1, <2>3, RowsStay DEF Proc, Holds
  <2> QED
    BY <2>1, <2>2, <2>3, <2>4 DEF StepFits
<1>4. ASSUME Check(w) PROVE StepFits(w)
  <2>1. CASE Allowed
    <3>1. proc' = [proc EXCEPT ![w] = [p EXCEPT !.pc = "git"]]
      BY <1>4, <2>1 DEF Check
    <3>2. ProcFits([p EXCEPT !.pc = "git"]) /\ Holds([p EXCEPT !.pc = "git"]) = Holds(p)
      BY <1>1, <1>4 DEF Check, ProcFits, Proc, Holds, Pcs, Publishing, Writing
    <3> QED
      BY <1>1, <3>1, <3>2, GoesToFits
  <2>2. CASE ~Allowed
    <3>1. proc' = [proc EXCEPT ![w] = Refused(w)]
      BY <1>4, <2>2 DEF Check
    <3>2. ProcFits(Refused(w)) /\ Holds(Refused(w)) \subseteq Holds(p)
      BY <1>2, IdleFits DEF Refused, IInv
    <3> QED
      BY <1>1, <3>1, <3>2, GoesToFits
  <2> QED
    BY <2>1, <2>2
<1>5. ASSUME Push(w) \/ PushFails(w) PROVE StepFits(w)
  <2>1. PICK ok \in BOOLEAN : proc' = [proc EXCEPT ![w] = [p EXCEPT !.pc = "mark", !.ok = ok]]
    BY <1>5 DEF Push, PushFails, Reported, Accepted, Allowed, Local, FastForward, IInv, ProcOK
  <2> DEFINE q == [p EXCEPT !.pc = "mark", !.ok = ok]
  <2>2. ProcFits(q) /\ Holds(q) = Holds(p)
    BY <1>1, <1>5 DEF Push, PushFails, ProcFits, Proc, Holds, Pcs, Publishing, Writing
  <2> QED
    BY <1>1, <2>1, <2>2, GoesToFits
<1>6. ASSUME Mark(w) PROVE StepFits(w)
  <2>1. \/ proc' = [proc EXCEPT ![w] = Idle]
        \/ proc' = [proc EXCEPT ![w] = [Idle EXCEPT !.pc = "complete"]]
        \/ p.then = "loop" /\ proc' = [proc EXCEPT ![w] = [p EXCEPT !.pc = "tidy", !.ok = FALSE]]
        \/ proc' = [proc EXCEPT ![w] = TakeNext(w)]
        \/ proc' = [proc EXCEPT ![w] = [Idle EXCEPT !.pc = "work"]]
    BY <1>6 DEF Mark, Return, EndsJob
  <2>2. p.then = "loop" =>
           /\ ProcFits([p EXCEPT !.pc = "tidy", !.ok = FALSE])
           /\ Holds([p EXCEPT !.pc = "tidy", !.ok = FALSE]) \subseteq Holds(p)
    BY <1>1 DEF ProcFits, Proc, Holds, Pcs, Publishing, Writing
  <2>3. GitOK
    BY DEF IInv
  <2> QED
    BY <1>1, <1>2, <2>1, <2>2, <2>3, IdleFits, GoesToFits
<1>7. QED
  BY <1>3, <1>4, <1>5, <1>6 DEF Pushing

LEMMA LoopingFits ==
  ASSUME IInv, [Next]_vars, NEW w \in Workers, Looping(w)
  PROVE  StepFits(w)
<1> DEFINE p == proc[w]
<1>1. /\ p \in Proc /\ ProcFits(p) /\ GitOK
      /\ \A c \in Holds(p) : rows[c].status # "none"
  BY ProcFacts DEF ProcFits, IInv
<1>2. ProcFits(TakeNext(w)) /\ Holds(TakeNext(w)) \subseteq Holds(p)
  BY <1>1, PushOfFits DEF TakeNext, Proc, Holds
<1>3. ASSUME BeginLoop(w) PROVE StepFits(w)
  <2>1. /\ Pending \in SUBSET Known
        /\ \A c \in Pending : rows[c].status = "pending" /\ rows[c].status # "none"
    BY DEF Pending, IInv, RowsOK, RowFits
  <2>2. ProcFits(PushOf(Pending)) /\ Holds(PushOf(Pending)) \subseteq Pending
    BY <1>1, <2>1, PushOfFits
  <2> QED
    BY <1>3, <2>1, <2>2, GoesToFits DEF BeginLoop
<1>4. ASSUME Tidy(w) PROVE StepFits(w)
  <2>1. \/ proc' = [proc EXCEPT ![w] = [p EXCEPT !.pc = "remove"]]
        \/ proc' = [proc EXCEPT ![w] = TakeNext(w)]
    BY <1>4 DEF Tidy
  <2>2. /\ ProcFits([p EXCEPT !.pc = "remove"])
        /\ Holds([p EXCEPT !.pc = "remove"]) \subseteq Holds(p)
    BY <1>1, <1>4 DEF Tidy, ProcFits, Proc, Holds, Pcs, Publishing, Writing
  <2> QED
    BY <1>1, <1>2, <2>1, <2>2, GoesToFits
<1>5. ASSUME Remove(w) PROVE StepFits(w)
  BY <1>1, <1>2, <1>5, GoesToFits DEF Remove
<1>6. QED
  BY <1>3, <1>4, <1>5 DEF Looping

LEMMA WorkingFits ==
  ASSUME IInv, [Next]_vars, NEW w \in Workers, Working(w)
  PROVE  StepFits(w)
<1>1. /\ GitOK /\ GitOK' /\ Known' \subseteq Commits
      /\ tree.head \in Known' /\ tree'.head \in Known' /\ 0 \in Known' /\ made' \in Known'
      /\ proc \in [Workers -> Proc]
  <2>1. GitOK /\ GitOK' /\ tree.head \in Known' /\ proc \in [Workers -> Proc]
    BY GitInv, Grows DEF IInv, GitOK, ProcOK, Proc
  <2>2. Known' \subseteq Commits /\ 0 \in Known' /\ made' \in Known' /\ tree'.head \in Known'
    BY <2>1, ConstantsAssumption DEF GitOK, Known, Commits
  <2> QED
    BY <2>1, <2>2
<1>2. ASSUME NEW p, p = Idle \/ \E pc \in {"checkout", "work", "finish", "complete"} :
                                    p = [Idle EXCEPT !.pc = pc],
             proc' = [proc EXCEPT ![w] = p]
      PROVE  StepFits(w)
  BY <1>1, <1>2, IdleFits, GoesToFits
<1>3. ASSUME NEW status, EndsJob(w, status) PROVE StepFits(w)
  BY <1>2, <1>3 DEF EndsJob
<1>4. CASE Acquire(w)
  BY <1>2, <1>4 DEF Acquire
<1>5. CASE CheckoutFresh(w)
  BY <1>1, <1>5, PublishFits DEF CheckoutFresh, Thens
<1>6. CASE CloneFails(w) \/ RecoveryBlocked(w) \/ LoadFails(w) \/ Fail(w)
  BY <1>3, <1>6 DEF CloneFails, RecoveryBlocked, LoadFails, Fail
<1>7. CASE CheckoutSaved(w)
  <2>1. proc' = [proc EXCEPT ![w] = [@ EXCEPT !.pc = "work"]] /\ proc[w].pc = "checkout"
    BY <1>7 DEF CheckoutSaved, AtCheckout, Goes
  <2> QED
    BY <1>1, <2>1, ProcFacts, GoesToFits DEF ProcFits, Holds, Proc, Pcs, Publishing, Writing
<1>8. CASE PublishWave(w)
  <2>1. \/ Publish(w, made', "wave")
        \/ Publish(w, tree.head, "wave")
    BY <1>8 DEF PublishWave, Commit, CommitOn
  <2> QED
    BY <1>1, <1>8, <2>1, PublishFits DEF PublishWave, Thens
<1>9. CASE PublishAttempt(w) \/ FinishFails(w)
  <2>1. \E then \in {"attempt", "last"} : Publish(w, made', then)
    BY <1>9 DEF PublishAttempt, FinishFails, CommitOn
  <2> QED
    BY <1>1, <1>9, <2>1, PublishFits DEF PublishAttempt, FinishFails, Thens
<1>10. CASE Save(w)
  <2>1. CASE proc' = proc
    BY <1>1, <2>1, ProcFacts, GoesToFits DEF Proc
  <2>2. CASE EndsJob(w, "paused")
    BY <1>3, <2>2
  <2>3. CASE Goes(w, "finish")
    <3>1. proc' = [proc EXCEPT ![w] = [@ EXCEPT !.pc = "finish"]] /\ proc[w].pc = "work"
      BY <1>10, <2>3 DEF Save, Running, AtWork, Goes
    <3> QED
      BY <1>1, <3>1, ProcFacts, GoesToFits DEF ProcFits, Holds, Proc, Pcs, Publishing, Writing
  <2> QED
    BY <1>10, <2>1, <2>2, <2>3 DEF Save
<1>11. CASE Finish(w)
  BY <1>1, <1>11, PublishFits DEF Finish, Thens
<1>12. CASE Complete(w)
  <2>1. CASE proc' = [proc EXCEPT ![w] = [Idle EXCEPT !.pc = "tidy", !.then = "loop"]]
    <3>1. 0 \in Known
      BY ConstantsAssumption DEF IInv, GitOK, Known, Commits
    <3>2. /\ ProcFits([Idle EXCEPT !.pc = "tidy", !.then = "loop"])
          /\ Holds([Idle EXCEPT !.pc = "tidy", !.then = "loop"]) = {}
      BY <3>1 DEF Idle, ProcFits, Proc, Holds, Pcs, Thens, Publishing, Writing
    <3> QED
      BY <2>1, <3>2, GoesToFits
  <2> QED
    BY <1>3, <1>12, <2>1 DEF Complete
<1>13. QED
  BY <1>4, <1>5, <1>6, <1>7, <1>8, <1>9, <1>10, <1>11, <1>12 DEF Working

LEMMA ProcStep == IInv /\ [Next]_vars => proc' = proc \/ \E w \in Workers : StepFits(w)
<1> SUFFICES ASSUME IInv, [Next]_vars PROVE proc' = proc \/ \E w \in Workers : StepFits(w)
  OBVIOUS
<1>1. ASSUME NEW w \in Workers, Ending(w) PROVE StepFits(w)
  <2>1. proc' = [proc EXCEPT ![w] = Idle]
    BY <1>1 DEF Ending, Drop, Crash
  <2> QED
    BY <2>1, IdleFits, GoesToFits DEF IInv
<1>2. CASE Outside
  BY <1>2 DEF Outside, Resume, RetryPublication, RetrySync, Requeue, Close, Recover
<1> QED
  BY <1>1, <1>2, PushingFits, LoopingFits, WorkingFits DEF Next, vars

LEMMA ProcInv == IInv /\ [Next]_vars => ProcOK'
<1> SUFFICES ASSUME IInv, [Next]_vars PROVE ProcOK'
  OBVIOUS
<1>1. proc' = proc \/ \E w \in Workers : StepFits(w)
  BY ProcStep
<1>2. ASSUME NEW v \in Workers
      PROVE  ProcFits(proc[v])' /\ \A c \in Holds(proc[v])' : rows'[c].status # "none"
  <2>1. proc'[v] = proc[v] \/ StepFits(v)
    BY <1>1 DEF StepFits, IInv, ProcOK
  <2>2. CASE proc'[v] = proc[v]
    BY <2>2, ProcFacts, StillFits
  <2>3. CASE StepFits(v)
    BY <2>3 DEF StepFits
  <2> QED
    BY <2>1, <2>2, <2>3
<1>3. DOMAIN proc' = Workers /\ proc' = [w \in Workers |-> proc'[w]]
  BY <1>1 DEF StepFits, IInv, ProcOK
<1>4. QED
  BY <1>2, <1>3 DEF ProcOK, ProcFits, Proc, Holds, HeldBy
-----------------------------------------------------------------------------
(* One execution at a time *)

LEMMA WorkingExecutes ==
  ASSUME IInv, NEW w \in Workers, Working(w) \/ (Mark(w) /\ proc[w].then # "loop")
  PROVE  Acquire(w) \/ Executing(w)
BY DEF Working, CheckoutFresh, CloneFails, CheckoutSaved, RecoveryBlocked, LoadFails,
   PublishWave, PublishAttempt, Save, Fail, Finish, FinishFails, Complete, AtCheckout, Running,
   AtWork, Mark, Executing, IInv, ProcOK

LEMMA NoneBeforeRunning ==
  ASSUME IInv, NEW w \in Workers, Executing(w)
  PROVE  job.status \in {"running", "cancelled"} /\ \A v \in Workers : Executing(v) => v = w
BY DEF IInv, OneExecutor

LEMMA LoopGoesOn ==
  ASSUME IInv, NEW w \in Workers
  PROVE  /\ TakeNext(w).pc = "idle" \/ TakeNext(w).then = "loop"
         /\ PushOf(Pending).pc = "idle" \/ PushOf(Pending).then = "loop"
<1>1. GitOK /\ proc[w].list \in SUBSET Known /\ Pending \in SUBSET Known
  BY DEF Pending, IInv, RowsOK, RowFits, ProcOK
<1> QED
  BY <1>1, PushOfFits DEF TakeNext

LEMMA ExecutorInv == IInv /\ [Next]_vars => OneExecutor'
<1> SUFFICES ASSUME IInv, [Next]_vars PROVE OneExecutor'
  OBVIOUS
<1>1. /\ proc \in [Workers -> Proc]
      /\ job = [status |-> job.status, resume |-> job.resume] /\ GitOK
  BY DEF IInv, ProcOK, Proc, JobOK
<1>2. ASSUME job' = job, \A v \in Workers : Executing(v)' => Executing(v)
      PROVE  OneExecutor'
  BY <1>2 DEF IInv, OneExecutor
<1>3. ASSUME NEW w \in Workers, Executing(w), ~Executing(w)',
             \A v \in Workers \ {w} : proc'[v] = proc[v]
      PROVE  OneExecutor'
  BY <1>3 DEF IInv, OneExecutor, Executing
<1>4. ASSUME NEW w \in Workers, Executing(w), NEW status, EndsJob(w, status)
      PROVE  OneExecutor'
  BY <1>1, <1>3, <1>4 DEF EndsJob, Idle, Executing
<1>5. ASSUME proc' = proc, \A v \in Workers : ~Executing(v) \/ job'.status \in {job.status, "cancelled"}
      PROVE  OneExecutor'
  BY <1>5 DEF IInv, OneExecutor, Executing
<1>6. CASE Outside
  <2>1. proc' = proc
    BY <1>6 DEF Outside, Resume, RetryPublication, RetrySync, Requeue, Close, Recover
  <2>2. \A v \in Workers : ~Executing(v) \/ job'.status \in {job.status, "cancelled"}
    BY <1>1, <1>6, NoneBeforeRunning
       DEF Outside, Resume, RetryPublication, RetrySync, Requeue, Close, Recover
  <2> QED
    BY <1>5, <2>1, <2>2
<1>7. ASSUME NEW w \in Workers, Pushing(w) \/ Looping(w) \/ Ending(w)
      PROVE  OneExecutor'
  <2>1. CASE Mark(w) /\ proc[w].then # "loop" /\ FailsRun(proc[w])
    BY <1>4, <2>1, WorkingExecutes DEF Mark, Return, Acquire
  <2>2. CASE ~(Mark(w) /\ proc[w].then # "loop" /\ FailsRun(proc[w]))
    <3>1. job' = job /\ proc' = [proc EXCEPT ![w] = proc'[w]]
      BY <1>1, <1>7, <2>2 DEF Pushing, Looping, Ending, Insert, Check, Push, PushFails, Mark,
         Return, BeginLoop, Tidy, Remove, Drop, Crash
    <3>2. CASE Insert(w) \/ Check(w) \/ Push(w) \/ PushFails(w)
      <4>1. \/ proc'[w].then = proc[w].then /\ proc[w].pc # "idle"
            \/ proc'[w].pc = "idle" \/ proc'[w].then = "loop"
        BY <1>1, <3>2, PushOfFits
           DEF Insert, Check, Push, PushFails, Refused, TakeNext, Idle, Proc
      <4> QED
        BY <1>1, <1>2, <3>1, <4>1 DEF Executing
    <3>3. CASE Mark(w)
      <4>1. proc[w].then = "loop" => proc'[w].pc = "idle" \/ proc'[w].then = "loop"
        <5> SUFFICES ASSUME proc[w].then = "loop"
                     PROVE  proc'[w].pc = "idle" \/ proc'[w].then = "loop"
          OBVIOUS
        <5>1. proc'[w] = TakeNext(w) \/ proc'[w] = [proc[w] EXCEPT !.pc = "tidy", !.ok = FALSE]
          BY <1>1, <3>3 DEF Mark, Return
        <5> QED
          BY <1>1, <5>1, LoopGoesOn DEF Proc
      <4> QED
        BY <1>1, <1>2, <3>1, <3>3, <4>1 DEF Mark, Executing
    <3>4. CASE Looping(w) \/ Ending(w)
      <4>1. proc'[w].pc = "idle" \/ proc'[w].then = "loop"
        <5>1. \/ proc'[w] \in {TakeNext(w), PushOf(Pending), Idle}
              \/ proc[w].pc = "tidy" /\ proc'[w] = [proc[w] EXCEPT !.pc = "remove"]
          BY <1>1, <3>4 DEF Looping, Ending, BeginLoop, Tidy, Remove, Drop, Crash
        <5>2. proc[w].pc = "tidy" => proc[w].then = "loop"
          BY DEF IInv, ProcOK
        <5> QED
          BY <1>1, <5>1, <5>2, LoopGoesOn DEF Idle, Proc
      <4> QED
        BY <1>1, <1>2, <3>1, <4>1 DEF Executing
    <3> QED
      BY <1>7, <3>2, <3>3, <3>4 DEF Pushing
  <2> QED
    BY <2>1, <2>2
<1>8. ASSUME NEW w \in Workers, Acquire(w)
      PROVE  OneExecutor'
  <2>1. job'.status = "running" /\ \A v \in Workers : ~Executing(v)
    BY <1>1, <1>8, NoneBeforeRunning DEF Acquire
  <2>2. \A v \in Workers \ {w} : ~Executing(v)'
    BY <1>1, <1>8, <2>1 DEF Acquire, Executing
  <2> QED
    BY <2>1, <2>2 DEF OneExecutor
<1>9. ASSUME NEW w \in Workers, Working(w), Executing(w)
      PROVE  OneExecutor'
  <2>1. CASE \E status : EndsJob(w, status)
    BY <1>4, <1>9, <2>1
  <2>2. CASE Complete(w)
    BY <1>1, <1>3, <1>4, <1>9, <2>2 DEF Complete, Idle, Executing
  <2>3. CASE job' = job /\ proc' = [proc EXCEPT ![w] = proc'[w]]
    BY <1>1, <1>2, <1>9, <2>3 DEF Executing
  <2> QED
    BY <1>1, <1>9, <2>1, <2>2, <2>3
       DEF Working, Acquire, CheckoutFresh, CloneFails, CheckoutSaved, RecoveryBlocked,
           LoadFails, PublishWave, PublishAttempt, Save, Fail, Finish, FinishFails, Publish,
           Goes, Executing
<1>10. CASE UNCHANGED vars
  BY <1>2, <1>10 DEF vars, Executing
<1>11. QED
  BY <1>6, <1>7, <1>8, <1>9, <1>10, WorkingExecutes DEF Next
-----------------------------------------------------------------------------
(* What was accepted is on the checkpoint branch *)

LEMMA HeadKept ==
  ASSUME IInv, [Next]_vars, tree'.head = tree.head, NEW v \in Workers,
         proc'[v].then = proc[v].then, proc'[v].commit = proc[v].commit,
         \/ proc'[v].pc = proc[v].pc
         \/ proc'[v].pc \in Publishing /\ proc[v].pc \in Publishing
  PROVE  HeadFits(v)'
<1>1. HeadFits(v) /\ tree.head \in Known
  BY DEF IInv, HeadOnBranch, GitOK
<1>2. Safe(tree.head) => Safe(tree.head)'
  BY <1>1, StaysOnBranch DEF Safe, OnBranch
<1> QED
  BY <1>1, <1>2 DEF HeadFits, Executing, AtWork, Publishing

LEMMA NotExecuting ==
  ASSUME ProcOK', NEW w \in Workers, ~Executing(w)'
  PROVE  HeadFits(w)'
BY DEF ProcOK, HeadFits, AtWork, Executing

LEMMA OthersKeepHead ==
  ASSUME IInv, [Next]_vars, ProcOK', NEW w \in Workers, proc' = [proc EXCEPT ![w] = proc'[w]],
         tree'.head = tree.head \/ Executing(w) \/ job.status = "completed",
         NEW v \in Workers \ {w}
  PROVE  HeadFits(v)'
<1>1. proc'[v] = proc[v]
  BY DEF IInv, ProcOK
<1>2. CASE tree'.head = tree.head
  BY <1>1, <1>2, HeadKept
<1>3. CASE Executing(w) \/ job.status = "completed"
  <2>1. ~Executing(v)'
    BY <1>1, <1>3, NoneBeforeRunning DEF Executing
  <2> QED
    BY <2>1, NotExecuting
<1>4. QED
  BY <1>2, <1>3

LEMMA HeadInv == IInv /\ [Next]_vars => HeadOnBranch'
<1> SUFFICES ASSUME IInv, [Next]_vars PROVE HeadOnBranch'
  OBVIOUS
<1>1. ProcOK' /\ GitOK /\ proc \in [Workers -> Proc]
  BY ProcInv DEF IInv, ProcOK, Proc
<1>2. ASSUME tree' = tree, proc' = proc
      PROVE  HeadOnBranch'
  BY <1>2, HeadKept DEF HeadOnBranch
<1>3. ASSUME NEW w \in Workers, HeadFits(w)', proc' = [proc EXCEPT ![w] = proc'[w]],
             tree'.head = tree.head \/ Executing(w) \/ job.status = "completed"
      PROVE  HeadOnBranch'
  <2>1. ASSUME NEW v \in Workers PROVE HeadFits(v)'
    BY <1>1, <1>3, OthersKeepHead
  <2> QED
    BY <2>1 DEF HeadOnBranch
<1>4. ASSUME NEW w \in Workers, ~Executing(w)', proc' = [proc EXCEPT ![w] = proc'[w]],
             tree'.head = tree.head \/ Executing(w) \/ job.status = "completed"
      PROVE  HeadOnBranch'
  BY <1>1, <1>3, <1>4, NotExecuting
<1>5. ASSUME NEW w \in Workers, NEW status, EndsJob(w, status),
             tree'.head = tree.head \/ Executing(w)
      PROVE  HeadOnBranch'
  BY <1>1, <1>4, <1>5 DEF EndsJob, Idle, Executing
<1>6. CASE Outside
  BY <1>2, <1>6
     DEF Outside, git, Resume, RetryPublication, RetrySync, Requeue, Close, Recover
<1>7. ASSUME NEW w \in Workers, Insert(w) \/ Push(w) \/ PushFails(w)
      PROVE  HeadOnBranch'
  <2>1. /\ proc' = [proc EXCEPT ![w] = proc'[w]] /\ tree' = tree
        /\ proc'[w].then = proc[w].then /\ proc'[w].commit = proc[w].commit
        /\ proc'[w].pc \in Publishing /\ proc[w].pc \in Publishing
    BY <1>1, <1>7 DEF git, Insert, Push, PushFails, Publishing, Proc
  <2> QED
    BY <1>3, <2>1, HeadKept
<1>8. ASSUME NEW w \in Workers, Check(w)
      PROVE  HeadOnBranch'
  <2>1. proc' = [proc EXCEPT ![w] = proc'[w]] /\ tree' = tree /\ proc[w].pc = "check"
    BY <1>1, <1>8 DEF git, Check
  <2>2. CASE Allowed
    <3>1. proc'[w].then = proc[w].then /\ proc'[w].commit = proc[w].commit /\ proc'[w].pc = "git"
      BY <1>1, <1>8, <2>2 DEF Check, Proc
    <3> QED
      BY <1>3, <2>1, <3>1, HeadKept DEF Publishing
  <2>3. CASE ~Allowed
    <3>1. ~Executing(w)'
      BY <1>1, <1>8, <2>3, LoopGoesOn DEF Check, Refused, Idle, Executing
    <3> QED
      BY <1>4, <2>1, <3>1
  <2> QED
    BY <2>2, <2>3
<1>9. ASSUME NEW w \in Workers, Mark(w)
      PROVE  HeadOnBranch'
  <2> DEFINE p == proc[w]
  <2>1. proc' = [proc EXCEPT ![w] = proc'[w]] /\ tree' = tree /\ p.then \in Thens \ {"job"}
    BY <1>1, <1>9 DEF git, Mark, Return, EndsJob, Proc, IInv, ProcOK, Publishing
  <2>2. CASE p.then = "loop"
    <3>1. proc'[w] = TakeNext(w) \/ proc'[w] = [p EXCEPT !.pc = "tidy", !.ok = FALSE]
      BY <1>1, <1>9, <2>2 DEF Mark, Return
    <3>2. ~Executing(w)'
      BY <1>1, <2>2, <3>1, LoopGoesOn DEF Executing, Proc
    <3> QED
      BY <1>4, <2>1, <3>2
  <2>3. CASE p.then # "loop" /\ FailsRun(p)
    BY <1>5, <1>9, <2>1, <2>3 DEF Mark, Return
  <2>4. CASE p.then # "loop" /\ ~FailsRun(p)
    <3>1. Executing(w) /\ (p.then = "wave" => p.ok) /\ p.then # "last"
      BY <1>9, <2>4 DEF Mark, Executing, FailsRun
    <3>2. CASE p.then = "final"
      <4>1. proc'[w] = [Idle EXCEPT !.pc = "complete"]
        BY <1>1, <1>9, <2>4, <3>2 DEF Mark, Return
      <4>2. HeadFits(w)'
        BY <4>1 DEF Idle, HeadFits, AtWork
      <4> QED
        BY <1>3, <2>1, <4>2
    <3>3. CASE p.then \in {"initial", "attempt", "wave"}
      <4>1. Safe(tree.head)
        <5>1. HeadFits(w) /\ tree.head \notin attempts
          BY DEF IInv, HeadOnBranch, GitOK
        <5>2. CASE p.then = "wave"
          BY <1>9, <3>1, <5>1, <5>2 DEF Mark, HeadFits, IInv, MarkedOnGitHub, Safe
        <5>3. CASE p.then # "wave"
          BY <3>1, <3>3, <5>1, <5>3 DEF HeadFits
        <5> QED
          BY <5>2, <5>3
      <4>2. Safe(tree.head)'
        BY <2>1, <4>1, StaysOnBranch DEF IInv, GitOK, Safe, OnBranch
      <4>3. proc'[w] = [Idle EXCEPT !.pc = "work"]
        BY <1>1, <1>9, <2>4, <3>3 DEF Mark, Return
      <4>4. HeadFits(w)'
        BY <4>2, <4>3 DEF Idle, HeadFits
      <4> QED
        BY <1>3, <2>1, <4>4
    <3> QED
      BY <2>1, <2>4, <3>1, <3>2, <3>3 DEF Thens
  <2> QED
    BY <2>2, <2>3, <2>4
<1>10. ASSUME NEW w \in Workers, Looping(w) \/ Ending(w)
       PROVE  HeadOnBranch'
  <2>1. proc' = [proc EXCEPT ![w] = proc'[w]]
    BY <1>1, <1>10 DEF Looping, Ending, BeginLoop, Tidy, Remove, Drop, Crash
  <2>2. tree'.head = tree.head \/ job.status = "completed"
    BY <1>10 DEF git, Looping, Ending, BeginLoop, Tidy, Remove, Drop, Crash, IInv,
       RemovesPublished
  <2>3. ~Executing(w)'
    <3>1. \/ proc'[w] \in {TakeNext(w), PushOf(Pending), Idle}
          \/ proc[w].pc = "tidy" /\ proc'[w] = [proc[w] EXCEPT !.pc = "remove"]
      BY <1>1, <1>10 DEF Looping, Ending, BeginLoop, Tidy, Remove, Drop, Crash
    <3>2. proc[w].pc = "tidy" => proc[w].then = "loop"
      BY DEF IInv, ProcOK
    <3> QED
      BY <1>1, <3>1, <3>2, LoopGoesOn DEF Idle, Proc, Executing
  <2> QED
    BY <1>4, <2>1, <2>2, <2>3
<1>11. ASSUME NEW w \in Workers, Acquire(w)
       PROVE  HeadOnBranch'
  <2>1. proc' = [proc EXCEPT ![w] = proc'[w]] /\ tree' = tree
        /\ proc'[w] = [Idle EXCEPT !.pc = "checkout"]
    BY <1>1, <1>11 DEF git, Acquire
  <2>2. HeadFits(w)'
    BY <2>1 DEF Idle, HeadFits, AtWork
  <2> QED
    BY <1>3, <2>1, <2>2
<1>12. ASSUME NEW w \in Workers, Executing(w), Working(w)
       PROVE  HeadOnBranch'
  <2>1. CASE \E status : EndsJob(w, status)
    BY <1>5, <1>12, <2>1
  <2>2. CASE CheckoutFresh(w)
    <3>1. /\ Publish(w, 0, "initial") /\ tree'.head = 0 /\ UNCHANGED <<open, job>> /\ 0 \in Known'
      BY <2>2, GitInv DEF CheckoutFresh, FreshTree, GitOK
    <3>2. StepFits(w) /\ proc'[w].then = "initial" /\ proc'[w].pc \in Publishing
      BY <3>1, PublishFits DEF Thens
    <3>3. HeadFits(w)'
      BY <3>1, <3>2 DEF HeadFits, Safe, AtWork, Publishing
    <3> QED
      BY <1>3, <1>12, <3>2, <3>3 DEF StepFits
  <2>3. CASE CheckoutSaved(w)
    <3>1. proc' = [proc EXCEPT ![w] = [@ EXCEPT !.pc = "work"]] /\ proc[w].pc = "checkout"
          /\ tree'.head = saved
      BY <2>3 DEF CheckoutSaved, AtCheckout, Goes, Restored
    <3>2. saved \in Known /\ Safe(saved)
      BY <2>3 DEF CheckoutSaved, Provenance, IInv, GitOK, SavedOnBranch, Safe, OnBranch
    <3>3. Safe(tree.head)'
      BY <3>1, <3>2, StaysOnBranch DEF Safe, OnBranch
    <3>4. proc[w].then # "wave" /\ proc'[w] = [proc[w] EXCEPT !.pc = "work"]
          /\ proc' = [proc EXCEPT ![w] = proc'[w]]
      BY <1>1, <1>12, <3>1 DEF IInv, HeadOnBranch, HeadFits, Publishing
    <3>5. HeadFits(w)'
      BY <1>1, <3>3, <3>4 DEF HeadFits, Proc
    <3> QED
      BY <1>3, <1>12, <3>4, <3>5
  <2>4. CASE PublishWave(w)
    <3>1. /\ Publish(w, tree'.head, "wave") /\ UNCHANGED <<open, job>> /\ tree'.head \in Known'
      BY <1>1, <2>4, GitInv DEF PublishWave, Commit, git, GitOK
    <3>2. StepFits(w) /\ proc'[w].then = "wave" /\ proc'[w].pc \in Publishing
          /\ proc'[w].commit = tree'.head
      BY <3>1, PublishFits DEF Thens
    <3>3. HeadFits(w)'
      BY <3>2 DEF HeadFits, AtWork, Publishing
    <3> QED
      BY <1>3, <1>12, <3>2, <3>3 DEF StepFits
  <2>5. CASE PublishAttempt(w) \/ FinishFails(w)
    <3>1. PICK then \in {"attempt", "last"} : Publish(w, made', then) /\ (then = "attempt" => AtWork(w))
      BY <2>5 DEF PublishAttempt, FinishFails, CommitOn, Running
    <3>2. UNCHANGED <<open, job>> /\ made' \in Known' /\ tree' = tree
      BY <2>5, GitInv, ConstantsAssumption DEF PublishAttempt, FinishFails, GitOK, Known, Commits
    <3>3. StepFits(w) /\ proc'[w].then = then /\ proc'[w].pc \in Publishing
      BY <3>1, <3>2, PublishFits DEF Thens
    <3>4. AtWork(w) => Safe(tree.head)'
      BY <3>2, StaysOnBranch DEF IInv, HeadOnBranch, HeadFits, GitOK, Safe, OnBranch
    <3>5. HeadFits(w)'
      BY <3>1, <3>3, <3>4 DEF HeadFits, AtWork, Publishing
    <3> QED
      BY <1>3, <1>12, <3>3, <3>5 DEF StepFits
  <2>6. CASE Save(w)
    <3>1. tree' = tree
      BY <2>6 DEF Save, git
    <3>2. CASE proc' = proc
      BY <1>2, <3>1, <3>2
    <3>3. CASE Goes(w, "finish")
      <4>1. proc' = [proc EXCEPT ![w] = proc'[w]] /\ proc'[w] = [proc[w] EXCEPT !.pc = "finish"]
            /\ proc[w].pc = "work"
        BY <1>1, <2>6, <3>3 DEF Goes, Save, Running, AtWork
      <4>2. proc[w].then \notin {"wave", "loop"}
        BY <1>12, <4>1 DEF IInv, HeadOnBranch, HeadFits, Publishing, Executing
      <4>3. HeadFits(w)'
        <5>1. Safe(tree.head)'
          BY <3>1, <4>1, StaysOnBranch DEF IInv, HeadOnBranch, HeadFits, AtWork, GitOK, Safe, OnBranch
        <5> QED
          BY <1>1, <4>1, <4>2, <5>1 DEF HeadFits, Proc
      <4> QED
        BY <1>3, <3>1, <4>1, <4>3
    <3> QED
      BY <2>1, <2>6, <3>2, <3>3 DEF Save
  <2>7. CASE Finish(w)
    <3>1. Publish(w, tree'.head, "final") /\ UNCHANGED <<open, job>> /\ tree'.head \in Known'
      BY <2>7, GitInv DEF Finish, GitOK
    <3>2. StepFits(w) /\ proc'[w].then = "final" /\ proc'[w].pc \in Publishing
      BY <3>1, PublishFits DEF Thens
    <3>3. HeadFits(w)'
      BY <3>2 DEF HeadFits, AtWork, Publishing
    <3> QED
      BY <1>3, <1>12, <3>2, <3>3 DEF StepFits
  <2>8. CASE Complete(w)
    <3>1. CASE proc' = [proc EXCEPT ![w] = [Idle EXCEPT !.pc = "tidy", !.then = "loop"]]
      BY <1>1, <1>4, <1>12, <3>1 DEF Idle, Executing
    <3> QED
      BY <2>1, <2>8, <3>1 DEF Complete
  <2> QED
    BY <1>12, <2>1, <2>2, <2>3, <2>4, <2>5, <2>6, <2>7, <2>8
       DEF Working, Acquire, CloneFails, RecoveryBlocked, LoadFails, Fail, Executing
<1>13. CASE UNCHANGED vars
  BY <1>2, <1>13 DEF vars
<1>14. QED
  BY <1>6, <1>7, <1>8, <1>9, <1>10, <1>11, <1>12, <1>13, WorkingExecutes DEF Next, Pushing, Working

-----------------------------------------------------------------------------
(* What was marked as published is on GitHub *)

(* How a worker gets to mark a row, or to remove the workspace. *)
LEMMA OnlyPushMarks ==
  ASSUME IInv, [Next]_vars, NEW v \in Workers, proc'[v].pc \in {"mark", "remove"}
  PROVE  \/ proc'[v] = proc[v]
         \/ proc'[v].pc = "mark" /\ (Push(v) \/ PushFails(v))
         \/ proc'[v].pc = "remove" /\ Tidy(v)
<1>1. proc \in [Workers -> Proc] /\ GitOK
  BY DEF IInv, ProcOK, Proc
<1>2. ASSUME NEW w \in Workers, proc' = [proc EXCEPT ![w] = proc'[w]], w # v
      PROVE  proc'[v] = proc[v]
  BY <1>1, <1>2
<1>3. TakeNext(v).pc \in {"idle", "check"} /\ PushOf(Pending).pc \in {"idle", "check"}
  <2>1. proc[v].list \in SUBSET Known /\ Pending \in SUBSET Known
    BY DEF IInv, RowsOK, RowFits, ProcOK, Pending
  <2> QED
    BY <1>1, <2>1, PushOfFits DEF TakeNext
<1>4. ASSUME NEW w \in Workers,
             Pushing(w) \/ Looping(w) \/ Working(w) \/ Ending(w)
      PROVE  proc' = [proc EXCEPT ![w] = proc'[w]]
  <2>1. CASE Ending(w)
    BY <1>1, <2>1 DEF Ending, Drop, Crash
  <2> QED
    BY <1>4, <2>1, PushingFits, LoopingFits, WorkingFits DEF StepFits
<1>11. CASE Push(v) \/ PushFails(v)
  BY <1>1, <1>11 DEF Push, PushFails, Proc
<1>5. CASE Insert(v) \/ Check(v)
  BY <1>1, <1>3, <1>5 DEF Insert, Check, Refused, Idle, Proc
<1>6. CASE Mark(v)
  <2>1. \/ proc'[v] \in {Idle, [Idle EXCEPT !.pc = "complete"], [Idle EXCEPT !.pc = "work"],
                       TakeNext(v)}
        \/ proc'[v] = [proc[v] EXCEPT !.pc = "tidy", !.ok = FALSE]
    BY <1>1, <1>6 DEF Mark, Return, EndsJob
  <2>2. CASE proc'[v] = [proc[v] EXCEPT !.pc = "tidy", !.ok = FALSE]
    BY <1>1, <2>2 DEF Proc
  <2>3. CASE proc'[v] \in {Idle, [Idle EXCEPT !.pc = "complete"], [Idle EXCEPT !.pc = "work"]}
    BY <2>3 DEF Idle
  <2> QED
    BY <1>3, <2>1, <2>2, <2>3
<1>7. CASE Looping(v)
  BY <1>1, <1>3, <1>7 DEF Looping, BeginLoop, Tidy, Remove, Proc
<1>8. CASE Working(v)
  <2>1. ASSUME NEW c, NEW then, Publish(v, c, then) PROVE proc'[v].pc \in {"insert", "check"}
    BY <1>1, <2>1 DEF Publish
  <2>2. CASE \E c, then : Publish(v, c, then)
    BY <2>1, <2>2
  <2>3. CASE \E status : EndsJob(v, status)
    BY <1>1, <2>3 DEF EndsJob, Idle
  <2>4. CASE Acquire(v) \/ CheckoutSaved(v) \/ Save(v) \/ Complete(v)
    BY <1>1, <2>3, <2>4 DEF Acquire, CheckoutSaved, Save, Complete, Goes, Idle, Proc
  <2> QED
    BY <1>8, <2>2, <2>3, <2>4
       DEF Working, CheckoutFresh, CloneFails, RecoveryBlocked, LoadFails, PublishWave,
           PublishAttempt, Fail, Finish, FinishFails
<1>9. CASE Ending(v)
  BY <1>1, <1>9 DEF Ending, Drop, Crash, Idle
<1>10. CASE Outside \/ UNCHANGED vars
  BY <1>10 DEF Outside, vars, Resume, RetryPublication, RetrySync, Requeue, Close, Recover
<1>12. CASE \E w \in Workers : Pushing(w) \/ Looping(w) \/ Working(w) \/ Ending(w)
  <2>1. PICK w \in Workers : Pushing(w) \/ Looping(w) \/ Working(w) \/ Ending(w)
    BY <1>12
  <2>2. CASE w # v
    BY <1>2, <1>4, <2>1, <2>2
  <2>3. CASE w = v
    BY <1>11, <1>5, <1>6, <1>7, <1>8, <1>9, <2>1, <2>3 DEF Pushing
  <2> QED
    BY <2>2, <2>3
<1>13. QED
  BY <1>10, <1>12 DEF Next

LEMMA MarkedInv == IInv /\ [Next]_vars => MarkedOnGitHub'
<1> SUFFICES ASSUME IInv, [Next]_vars, NEW v \in Workers, proc'[v].pc = "mark", proc'[v].ok
             PROVE  IF proc'[v].commit \in attempts' THEN proc'[v].commit \in pushed'
                    ELSE OnBranch(proc[v].commit)'
  BY DEF MarkedOnGitHub
<1>1. /\ proc \in [Workers -> Proc] /\ proc[v].commit \in Known
      /\ Known \subseteq Commits /\ NoCommit \notin Commits
      /\ \A c \in Known : c \in past[c]
  BY ConstantsAssumption DEF IInv, ProcOK, Proc, GitOK, Known, Commits
<1>2. CASE proc'[v] = proc[v]
  BY <1>1, <1>2, Grows, StaysOnBranch DEF IInv, MarkedOnGitHub, OnBranch
<1>3. CASE Push(v)
  <2>1. Accepted(proc[v].commit) /\ proc'[v].commit = proc[v].commit
    BY <1>1, <1>3 DEF Push, Reported, Proc
  <2> QED
    BY <1>1, <1>3, <2>1 DEF Push, Lands, git, OnBranch
<1>4. CASE PushFails(v)
  BY <1>1, <1>4 DEF PushFails, Proc
<1>5. QED
  BY <1>2, <1>3, <1>4, OnlyPushMarks

LEMMA PublishedInv == IInv /\ [Next]_vars => PublishedOnGitHub'
<1> SUFFICES ASSUME IInv, [Next]_vars, NEW c \in Commits, rows'[c].status = "published"
             PROVE  OnGitHub(c)'
  BY DEF PublishedOnGitHub, Commits
<1>1. RowMoves(c) /\ rows[c] \in [status : Statuses, tries : Nat]
  BY RowSteps DEF IInv, RowsOK, RowFits
<1>2. CASE rows[c].status = "published"
  BY <1>2, StaysOnBranch DEF IInv, PublishedOnGitHub, RowsOK, RowFits
<1>3. CASE \E w \in Workers : Mark(w) /\ proc[w].commit = c /\ proc[w].ok
  <2>1. PICK w \in Workers : proc[w].pc = "mark" /\ proc[w].commit = c /\ proc[w].ok
    BY <1>3 DEF Mark
  <2>2. c \in Known /\ c \in past[c]
    BY <2>1 DEF IInv, ProcOK, GitOK
  <2>3. OnGitHub(c)
    BY <2>1, <2>2 DEF IInv, MarkedOnGitHub, OnGitHub, OnBranch
  <2> QED
    BY <2>2, <2>3, StaysOnBranch
<1>4. \A status \in FailedStatus(c) : Fence(status) # "published"
  BY DEF FailedStatus, Fence
<1>5. CASE rows'[c] \in {rows[c], Row("pending"), Row("cancelled"),
                        [rows[c] EXCEPT !.status = "cancelled"]}
  BY <1>1, <1>2, <1>5 DEF Row
<1>6. CASE \E status \in FailedStatus(c) :
              rows'[c] = [status |-> Fence(status), tries |-> rows[c].tries + 1]
  BY <1>4, <1>6
<1>7. QED
  BY <1>1, <1>3, <1>5, <1>6 DEF RowMoves

LEMMA SavedInv == IInv /\ [Next]_vars => SavedOnBranch'
<1> SUFFICES ASSUME IInv, [Next]_vars PROVE SavedOnBranch'
  OBVIOUS
<1>1. CASE saved' = saved
  <2>1. CASE saved \in {NoCommit, 0}
    BY <1>1, <2>1 DEF SavedOnBranch
  <2>2. CASE saved \notin {NoCommit, 0}
    <3>1. saved \in Known /\ OnBranch(saved)
      BY <2>2 DEF IInv, GitOK, SavedOnBranch, OnBranch
    <3> QED
      BY <1>1, <3>1, StaysOnBranch DEF SavedOnBranch, OnBranch
  <2> QED
    BY <2>1, <2>2
<1>2. ASSUME NEW w \in Workers, Save(w)
      PROVE  SavedOnBranch'
  <2>1. tree.head \in Known /\ Safe(tree.head)
    BY <1>2 DEF Save, Running, IInv, GitOK, HeadOnBranch, HeadFits
  <2>2. Safe(tree.head)' /\ saved' = tree.head /\ tree' = tree
    BY <1>2, <2>1, StaysOnBranch DEF Save, git, Safe, OnBranch
  <2> QED
    BY <2>2 DEF Safe, OnBranch, SavedOnBranch
<1>3. QED
  BY <1>1, <1>2
     DEF Next, vars, checkpoint, Outside, Pushing, Looping, Working, Ending, Resume,
         RetryPublication, RetrySync, Requeue, Close, Recover, Drop, Crash, Insert, Check, Push,
         PushFails, Mark, BeginLoop, Tidy, Remove, Acquire, CheckoutFresh, CloneFails,
         CheckoutSaved, RecoveryBlocked, LoadFails, PublishWave, PublishAttempt, Fail, Finish,
         FinishFails, Complete

-----------------------------------------------------------------------------
(* Cleaning up after a completed run *)

LEMMA StaysCompleted ==
  ASSUME IInv, [Next]_vars, job.status = "completed"
  PROVE  /\ job'.status = "completed"
         /\ \A w \in Workers : ~Executing(w)
         /\ UNCHANGED <<tree, clones, attempts>> \/ \E w \in Workers : Remove(w)
<1>1. \A w \in Workers : ~Executing(w)
  BY DEF IInv, OneExecutor
<1>2. job = [status |-> job.status, resume |-> job.resume]
  BY DEF IInv, JobOK
<1>3. CASE Outside
  <2>1. job'.status = "completed"
    BY <1>2, <1>3 DEF Outside, Resume, RetryPublication, RetrySync, Requeue, Close, Recover
  <2>2. UNCHANGED <<tree, clones, attempts>>
    BY <1>3 DEF Outside, git, Resume, RetryPublication, RetrySync, Requeue, Close, Recover
  <2> QED
    BY <1>1, <2>1, <2>2
<1>4. ASSUME NEW w \in Workers, Pushing(w) \/ Looping(w) \/ Ending(w)
      PROVE  /\ job'.status = "completed"
             /\ UNCHANGED <<tree, clones, attempts>> \/ Remove(w)
  <2>1. Mark(w) => proc[w].then = "loop"
    BY <1>1, WorkingExecutes DEF Acquire
  <2> QED
    BY <1>4, <2>1 DEF git, Pushing, Looping, Ending, Insert, Check, Push, PushFails, Mark, Return,
       BeginLoop, Tidy, Remove, Drop, Crash
<1>5. ASSUME NEW w \in Workers PROVE ~Working(w)
  BY <1>1, <1>5, WorkingExecutes DEF Acquire
<1>6. QED
  BY <1>1, <1>3, <1>4, <1>5 DEF Next, vars

LEMMA RemovesInv == IInv /\ [Next]_vars => RemovesPublished'
<1> SUFFICES ASSUME IInv, [Next]_vars, NEW v \in Workers, proc'[v].pc = "remove"
             PROVE  /\ job'.status = "completed"
                    /\ \A c \in Commits : rows'[c].status # "none" => OnGitHub(c)'
  BY DEF RemovesPublished, Commits
<1>1. /\ job.status = "completed"
      /\ \A c \in Commits : rows[c].status # "none" => OnGitHub(c)
  <2>1. CASE proc'[v] = proc[v]
    BY <2>1 DEF IInv, RemovesPublished
  <2>2. CASE Tidy(v)
    <3>1. /\ proc \in [Workers -> Proc] /\ proc[v].list \in SUBSET Known /\ GitOK
      BY DEF IInv, ProcOK, Proc
    <3>2. TakeNext(v).pc # "remove"
      BY <3>1, PushOfFits DEF TakeNext
    <3>3. job.status = "completed" /\ AllPublished
      BY <2>2, <3>1, <3>2 DEF Tidy
    <3> QED
      BY <3>3 DEF AllPublished, IInv, PublishedOnGitHub
  <2> QED
    BY <2>1, <2>2, OnlyPushMarks
<1>2. ASSUME NEW c \in Commits, rows'[c].status # "none"
      PROVE  OnGitHub(c)'
  <2>1. rows[c].status # "none"
    <3>1. RowMoves(c) /\ \A w \in Workers : ~Executing(w)
      BY <1>1, RowSteps, StaysCompleted
    <3>2. ASSUME NEW w \in Workers, Mark(w), proc[w].commit = c PROVE rows[c].status # "none"
      BY <3>2, ProcFacts DEF Mark, Holds, Writing
    <3> QED
      BY <1>2, <3>1, <3>2 DEF RowMoves, Unpublished
  <2>2. c \in Known /\ OnGitHub(c)
    BY <1>1, <2>1 DEF IInv, RowsOK, RowFits
  <2> QED
    BY <2>2, StaysOnBranch
<1>3. QED
  BY <1>1, <1>2, StaysCompleted

-----------------------------------------------------------------------------
(* The rows of a step *)

LEMMA RowsAre == IInv /\ [Next]_vars => rows' = [c \in Commits |-> rows'[c]]
<1> SUFFICES ASSUME IInv, [Next]_vars PROVE rows' = [c \in Commits |-> rows'[c]]
  OBVIOUS
<1>1. rows = [c \in Commits |-> rows[c]]
  BY DEF IInv, RowsOK, RowFits
<1>2. \/ rows' = rows
      \/ \E c, row : rows' = [rows EXCEPT ![c] = row]
      \/ rows' = CancelRows
      \/ rows' = [c \in Commits |-> IF rows[c].status = "failed" THEN Row("pending") ELSE rows[c]]
  BY DEF Next, vars, Outside, Pushing, Looping, Working, Ending, Resume,
     RetryPublication, RetrySync, Requeue, Close, Recover, Drop, Crash, Insert, Check, Push,
     PushFails, Mark, BeginLoop, Tidy, Remove, Acquire, CheckoutFresh, CloneFails,
     CheckoutSaved, RecoveryBlocked, LoadFails, PublishWave, PublishAttempt, Save, Fail, Finish,
     FinishFails, Complete, Publish
<1> QED
  BY <1>1, <1>2 DEF CancelRows

(* Only a pending row, or one that is counted anew, finds a new holder. *)
LEMMA HoldersShrink ==
  ASSUME IInv, [Next]_vars, NEW c \in Commits, rows[c].status # "pending", rows'[c].tries # 0
  PROVE  Holders(c)' \subseteq Holders(c)
<1> SUFFICES ASSUME NEW v \in Workers, c \in HeldBy(v)' PROVE c \in HeldBy(v)
  BY DEF Holders
<1>1. \/ proc'[v] = proc[v]
      \/ StepFits(v)
  BY ProcStep DEF StepFits, IInv, ProcOK
<1>2. c \in Holds(proc[v])' /\ Holds(proc[v]) = HeldBy(v)
  BY ProcFacts DEF Holds, HeldBy
<1>3. CASE proc'[v] = proc[v]
  BY <1>3 DEF HeldBy
<1>4. CASE StepFits(v)
  BY <1>2, <1>4 DEF StepFits
<1>5. QED
  BY <1>1, <1>3, <1>4

(* A worker that counts an attempt lets the row go. *)
LEMMA MarkLetsGo ==
  ASSUME IInv, [Next]_vars, NEW w \in Workers, Mark(w), NEW c, proc[w].commit = c
  PROVE  w \in Holders(c) /\ Holders(c)' \subseteq Holders(c) \ {w}
<1>1. /\ proc \in [Workers -> Proc] /\ GitOK /\ proc[w].list \in SUBSET Known
      /\ proc[w].pc = "mark" /\ c \notin proc[w].list
  BY DEF Mark, IInv, ProcOK, Proc, Publishing
<1>2. w \in Holders(c)
  BY <1>1 DEF Holders, HeldBy, Writing
<1>3. /\ \A v \in Workers \ {w} : proc'[v] = proc[v]
      /\ \/ proc'[w] \in {Idle, [Idle EXCEPT !.pc = "complete"], [Idle EXCEPT !.pc = "work"],
                       TakeNext(w)}
         \/ proc'[w] = [proc[w] EXCEPT !.pc = "tidy", !.ok = FALSE]
  BY <1>1 DEF Mark, Return, EndsJob
<1>4. c \notin Holds(proc'[w])
  <2>1. CASE proc'[w] = [proc[w] EXCEPT !.pc = "tidy", !.ok = FALSE]
    BY <1>1, <2>1 DEF Holds, Writing, Proc
  <2>2. CASE proc'[w] \in {Idle, [Idle EXCEPT !.pc = "complete"], [Idle EXCEPT !.pc = "work"]}
    BY <1>1, <2>2, IdleFits
  <2>3. CASE proc'[w] = TakeNext(w)
    BY <1>1, <2>3, PushOfFits DEF TakeNext
  <2> QED
    BY <1>3, <2>1, <2>2, <2>3
<1>5. ASSUME NEW v \in Workers, c \in Holds(proc'[v]) PROVE v # w /\ c \in Holds(proc[v])
  BY <1>3, <1>4, <1>5
<1>6. \A v \in Workers : Holds(proc[v]) = HeldBy(v)
  BY ProcFacts
<1>7. ASSUME NEW v \in Holders(c)' PROVE v \in Holders(c) \ {w}
  <2>1. v \in Workers /\ c \in Holds(proc'[v])
    BY <1>7 DEF Holders, HeldBy, Holds
  <2> QED
    BY <1>5, <1>6, <2>1 DEF Holders
<1>8. QED
  BY <1>2, <1>7

LEMMA RowStillFits ==
  ASSUME IInv, [Next]_vars, NEW c \in Commits, rows'[c].tries = rows[c].tries,
         rows'[c] \in [status : Statuses, tries : Nat],
         rows[c].status # "none", rows'[c].status \notin {"none", "pending"},
         rows'[c].status = "cancelled" => ~Allowed'
  PROVE  RowFits(c)'
<1>1. RowFits(c) /\ RetryLimit \in Nat \ {0} /\ Cardinality(Workers) \in Nat /\ Known \subseteq Known'
  BY ConstantsAssumption, FS_CardinalityType, Grows DEF IInv, RowsOK, RowFits
<1>2. CASE rows'[c].tries >= RetryLimit
  <2>1. Holders(c)' \subseteq Holders(c)
    BY <1>1, <1>2, HoldersShrink DEF RowFits
  <2>2. /\ Cardinality(Holders(c)) \in Nat /\ Cardinality(Holders(c)') \in Nat
        /\ Cardinality(Holders(c)') <= Cardinality(Holders(c))
    <3>1. IsFiniteSet(Workers) /\ Holders(c) \in SUBSET Workers /\ Holders(c)' \in SUBSET Workers
      BY ConstantsAssumption DEF Holders
    <3>2. IsFiniteSet(Holders(c)) /\ IsFiniteSet(Holders(c)')
      BY <3>1, FS_Subset
    <3>3. Cardinality(Holders(c)') <= Cardinality(Holders(c))
      BY <2>1, <3>2, FS_Subset
    <3> QED
      BY <3>2, <3>3, FS_CardinalityType
  <2> QED
    BY <1>1, <1>2, <2>2 DEF RowFits
<1>3. CASE ~(rows'[c].tries >= RetryLimit)
  BY <1>1, <1>3 DEF RowFits
<1>4. QED
  BY <1>2, <1>3

LEMMA FailedRowFits ==
  ASSUME IInv, [Next]_vars, NEW w \in Workers, Mark(w), NEW c, proc[w].commit = c,
         Allowed' = Allowed, NEW status \in FailedStatus(c),
         rows'[c] = [status |-> Fence(status), tries |-> rows[c].tries + 1]
  PROVE  RowFits(c)'
<1>1. /\ RowFits(c) /\ rows[c].status # "none" /\ RetryLimit \in Nat \ {0}
      /\ Known \subseteq Known'
  <2>1. c \in Known /\ Known \subseteq Commits
    BY ConstantsAssumption DEF IInv, ProcOK, GitOK, Known, Commits
  <2>2. rows[c].status # "none"
    BY ProcFacts DEF Mark, Holds, Writing
  <2> QED
    BY <2>1, <2>2, ConstantsAssumption, Grows DEF IInv, RowsOK, RowFits
<1>2. /\ Fence(status) \in {"failed", "pending", "cancelled"}
      /\ Fence(status) = "cancelled" => ~Allowed
      /\ Fence(status) = "pending" => rows[c].tries < RetryLimit - 1
  BY <1>1 DEF FailedStatus, Fence, RowFits
<1>3. /\ Cardinality(Holders(c)) \in Nat /\ Cardinality(Holders(c)') \in Nat
      /\ Cardinality(Workers) \in Nat
      /\ Cardinality(Holders(c)') < Cardinality(Holders(c))
      /\ Cardinality(Holders(c)) <= Cardinality(Workers)
  <2>1. /\ IsFiniteSet(Workers) /\ Holders(c) \in SUBSET Workers
        /\ w \in Holders(c) /\ Holders(c)' \in SUBSET (Holders(c) \ {w})
    BY ConstantsAssumption, MarkLetsGo DEF Holders
  <2>2. IsFiniteSet(Holders(c)) /\ Cardinality(Holders(c)) <= Cardinality(Workers)
    BY <2>1, FS_Subset
  <2>3. /\ IsFiniteSet(Holders(c) \ {w})
        /\ Cardinality(Holders(c) \ {w}) = Cardinality(Holders(c)) - 1
    BY <2>1, <2>2, FS_RemoveElement
  <2>4. IsFiniteSet(Holders(c)') /\ Cardinality(Holders(c)') <= Cardinality(Holders(c) \ {w})
    BY <2>1, <2>3, FS_Subset
  <2>5. /\ Cardinality(Holders(c)) \in Nat /\ Cardinality(Holders(c)') \in Nat
        /\ Cardinality(Workers) \in Nat
    BY <2>1, <2>2, <2>4, FS_CardinalityType
  <2> QED
    BY <2>2, <2>3, <2>4, <2>5
<1>4. /\ rows'[c].status = Fence(status) /\ rows'[c].tries = rows[c].tries + 1
      /\ rows'[c] \in [status : Statuses, tries : Nat]
  BY <1>1, <1>2 DEF RowFits, Statuses
<1>5. rows'[c].tries >= RetryLimit =>
         rows'[c].tries + Cardinality(Holders(c)') < RetryLimit + Cardinality(Workers)
  BY <1>1, <1>3, <1>4 DEF RowFits
<1>6. QED
  BY <1>1, <1>2, <1>4, <1>5 DEF RowFits

LEMMA RowsInv == IInv /\ [Next]_vars => RowsOK'
<1> SUFFICES ASSUME IInv, [Next]_vars PROVE RowsOK'
  OBVIOUS
<1>1. ASSUME NEW c \in Commits PROVE RowFits(c)'
  <2>1. /\ RowMoves(c) /\ RowFits(c) /\ RetryLimit \in Nat \ {0}
        /\ Known \subseteq Known' /\ (Allowed' => Allowed)
    BY RowSteps, ConstantsAssumption, Grows DEF IInv, RowsOK, RowFits
  <2>2. ASSUME NEW status \in {"pending", "cancelled"}, rows'[c] = Row(status), c \in Known,
               status = "cancelled" => ~Allowed'
        PROVE  RowFits(c)'
    BY <2>1, <2>2 DEF Row, RowFits, Statuses
  <2>3. CASE rows'[c] = rows[c]
    <3>1. CASE rows[c].status = "none" \/ rows[c].status = "pending"
      BY <2>1, <2>3, <3>1 DEF RowFits
    <3>2. CASE rows[c].status # "none" /\ rows[c].status # "pending"
      BY <2>1, <2>3, <3>2, RowStillFits DEF RowFits
    <3> QED
      BY <3>1, <3>2
  <2>4. CASE rows[c].status \in Unpublished /\ ~Allowed'
             /\ rows'[c] = [rows[c] EXCEPT !.status = "cancelled"]
    BY <2>1, <2>4, RowStillFits DEF RowFits, Unpublished, Statuses
  <2>5. ASSUME NEW w \in Workers, Mark(w), proc[w].commit = c,
               rows'[c] = [rows[c] EXCEPT !.status = "published"]
        PROVE  RowFits(c)'
    <3>1. rows[c].status # "none"
      BY <2>5, ProcFacts DEF Mark, Holds, Writing
    <3> QED
      BY <2>1, <2>5, <3>1, RowStillFits DEF RowFits, Statuses
  <2>6. ASSUME NEW w \in Workers, Mark(w), proc[w].commit = c, Allowed' = Allowed,
               NEW status \in FailedStatus(c),
               rows'[c] = [status |-> Fence(status), tries |-> rows[c].tries + 1]
        PROVE  RowFits(c)'
    BY <2>6, FailedRowFits
  <2>7. rows[c].status = "failed" => c \in Known
    BY <2>1 DEF RowFits
  <2> QED
    BY <2>1, <2>2, <2>3, <2>4, <2>5, <2>6, <2>7 DEF RowMoves
<1>2. QED
  BY <1>1, RowsAre DEF RowsOK, RowFits

-----------------------------------------------------------------------------
(* The theorems *)

(* The inductive invariant holds in every state. *)
THEOREM Invariance == Spec => []IInv
<1>1. IInv /\ [Next]_vars => IInv'
  BY JobInv, GitInv, RowsInv, ProcInv, ExecutorInv, HeadInv, MarkedInv, RemovesInv,
     PublishedInv, SavedInv DEF IInv
<1> QED
  BY <1>1, InitOK, PTL DEF Spec

LEMMA Typed == IInv => TypeOK
<1> SUFFICES ASSUME IInv PROVE TypeOK
  OBVIOUS
<1>1. JobOK /\ GitOK /\ Known \subseteq Commits /\ made \in Commits
  BY ConstantsAssumption DEF IInv, GitOK, Known, Commits
<1>2. rows \in [Commits -> [status : Statuses, tries : 0..RetryLimit + Cardinality(Workers)]]
  <2>1. ASSUME NEW c \in Commits
        PROVE  rows[c].tries \in 0..RetryLimit + Cardinality(Workers)
    <3>1. RowFits(c) /\ RetryLimit \in Nat /\ Cardinality(Workers) \in Nat
      BY ConstantsAssumption, FS_CardinalityType DEF IInv, RowsOK, RowFits
    <3>2. Cardinality(Holders(c)) \in Nat
      BY ConstantsAssumption, FS_Subset, FS_CardinalityType DEF Holders
    <3> QED
      BY <3>1, <3>2 DEF RowFits
  <2> QED
    BY <2>1 DEF IInv, RowsOK, RowFits
<1>3. proc \in [Workers -> [pc : Pcs, commit : Commits, ok : BOOLEAN, list : SUBSET Commits,
                            then : Thens]]
  BY <1>1 DEF IInv, ProcOK
<1>4. QED
  BY <1>1, <1>2, <1>3 DEF TypeOK, JobOK, GitOK, Pcs, Thens, Known

(* Every variable has its type, whatever the number of workers and commits: *)
(* in particular a row is tried at most once more by each worker beyond the *)
(* limit of its attempts.                                                   *)
THEOREM TypeCorrect == Spec => []TypeOK
BY Invariance, Typed, PTL

(* A row that is shown as published has its commit on GitHub. *)
THEOREM PublishedIsOnGitHub == Spec => []PublishedOnGitHub
<1>1. IInv => PublishedOnGitHub
  BY DEF IInv
<1> QED
  BY <1>1, Invariance, PTL

(* The commit of the saved checkpoint is on the checkpoint branch. *)
THEOREM SavedIsOnBranch == Spec => []SavedOnBranch
<1>1. IInv => SavedOnBranch
  BY DEF IInv
<1> QED
  BY <1>1, Invariance, PTL

LEMMA NothingMoreLost == IInv /\ [Next]_vars /\ job.status = "completed" => Lost' \subseteq Lost
<1> SUFFICES ASSUME IInv, [Next]_vars, job.status = "completed", NEW c \in Lost'
             PROVE  c \in Lost
  OBVIOUS
<1>1. /\ c \in Commits /\ rows'[c].status \in Unpublished /\ ~Local(c)' /\ ~OnGitHub(c)'
  BY DEF Lost, Commits
<1>2. RowFits(c) /\ RowMoves(c) /\ \A w \in Workers : ~Executing(w)
  BY <1>1, RowSteps, StaysCompleted DEF IInv, RowsOK, RowFits
<1>3. rows[c].status # "none"
  <2>1. ASSUME NEW w \in Workers, Mark(w), proc[w].commit = c PROVE rows[c].status # "none"
    BY <2>1, ProcFacts DEF Mark, Holds, Writing
  <2> QED
    BY <1>1, <1>2, <2>1 DEF RowMoves, Unpublished
<1>4. ~OnGitHub(c)
  BY <1>1, <1>2, <1>3, StaysOnBranch DEF RowFits
<1>5. rows[c].status \in Unpublished
  <2>1. rows[c].status # "published"
    BY <1>1, <1>4 DEF IInv, PublishedOnGitHub
  <2>2. CASE rows[c].status = "cancelled"
    <3>1. ~Allowed /\ ~Allowed'
      BY <1>2, <2>2, Grows DEF RowFits
    <3>2. \A status : Fence(status) \notin Unpublished
      BY <3>1 DEF Fence, Unpublished
    <3> QED
      <4>1. CASE rows'[c] \in {rows[c], Row("cancelled"),
                              [rows[c] EXCEPT !.status = "cancelled"],
                              [rows[c] EXCEPT !.status = "published"]}
        BY <1>1, <1>2, <2>2, <4>1 DEF RowFits, Row, Unpublished
      <4>2. CASE \E status \in FailedStatus(c) :
                    rows'[c] = [status |-> Fence(status), tries |-> rows[c].tries + 1]
        BY <1>1, <3>2, <4>2
      <4> QED
        BY <1>2, <2>2, <4>1, <4>2 DEF RowMoves
  <2> QED
    BY <1>2, <1>3, <2>1, <2>2 DEF RowFits, Statuses, Unpublished
<1>6. ~Local(c)
  <2>1. ~\E w \in Workers : Remove(w)
    BY <1>1, <1>3, <1>4 DEF Remove, IInv, RemovesPublished
  <2>2. UNCHANGED <<tree, clones, attempts>>
    BY <2>1, StaysCompleted
  <2> QED
    BY <1>1, <2>2 DEF Local
<1>7. QED
  BY <1>1, <1>4, <1>5, <1>6 DEF Lost

(* After the run completed, no step loses a result that was not published, *)
(* the removal of the workspace included.                                  *)
THEOREM CleanupKeeps == Spec => CleanupKeepsUnpublished
<1>1. IInv /\ [Next]_vars => [job.status = "completed" => Lost' \subseteq Lost]_vars
  BY NothingMoreLost
<1> QED
  BY <1>1, Invariance, PTL DEF Spec, CleanupKeepsUnpublished
=============================================================================
