-------------------------- MODULE Lifecycle_proofs --------------------------
(***************************************************************************)
(* What holds of Lifecycle for every flow, set of work items and bound:    *)
(* its type invariant, that the approval requests people see are those the *)
(* checkpoint waits for, that no gate is slipped past in a manifest whose  *)
(* flows lead (StartLeads), that a run never has unfinished tasks and none *)
(* to start in one whose flows run on (RunsOn), and, in one whose flows    *)
(* hold their results (HoldsOn), that accepted results are kept and that   *)
(* every step of the checkpoint is one that Results allows.                *)
(*                                                                         *)
(* The first two follow from the inductive invariant IInv.  Its core is    *)
(* Matched: the pending rows are the pending keys of the checkpoint.  A    *)
(* commit keeps it when the record and its effects account for each other  *)
(* (Writes): every request the record no longer waits for is decided or    *)
(* superseded, and every key it refers to has a child row, since a         *)
(* revision of the plan excludes work by its child rows.  The rest of IInv *)
(* makes each commit of the code do so: results and approvals are of       *)
(* tracked tasks (RowsKnown), nothing is pending while tasks are planned   *)
(* or run (NothingPending), a change that waits for its approval is the    *)
(* last one proposed (PendingFits), and comments are numbered in order     *)
(* (DecisionsCounted), so that no request is made under a decided key.     *)
(*                                                                         *)
(* GateInv, on top of it, follows what was accepted through the phases of  *)
(* the checkpoint: a result it holds is accepted where the graph it is     *)
(* held for gates it, or follows a plan that was sent back; what stands on *)
(* the start is given up together with it.  RunInv says that what runs in  *)
(* memory is completed or in the wave.                                     *)
(*                                                                         *)
(* HoldInv says that what a checkpoint holds is complete: with a result it *)
(* holds those the result was made from, and what is asked about or sent   *)
(* back lies apart from it.  In a flow that holds its results, what a key  *)
(* waits for is the same in every graph of it (NeedsInGraph), and          *)
(* affected_by is what lies downstream in the largest of them              *)
(* (RestartedIsDownstream), so that plans, work items and decisions can be *)
(* compared in one graph.                                                  *)
(*                                                                         *)
(* Layout: types and IInv; keys of the graph; what a commit, a stop and a  *)
(* failure keep; then one lemma for each action or group of actions; the   *)
(* first theorems; then the same for GateInv (from "Gates" on), RunInv     *)
(* ("Going on") and HoldInv ("Results").                                   *)
(***************************************************************************)
EXTENDS Lifecycle, TLAPS

(* Types *)

FlowKeys(f) == KeysOf(f, Items)
ChangeKeys == {ChangeKey(n) : n \in 1..MaxDecisions}

\* A plan that was installed is one of the flow's proposals.
Installed(f, q) ==
    /\ q \in [excluded : SUBSET f.tasks, reviewed : SUBSET f.tasks,
              approved : BOOLEAN, present : {TRUE}]
    /\ \E p \in f.proposals : Resolvable(f, p) /\ q.excluded = p.excluded
PlanOf(f) ==
    {q \in [excluded : SUBSET f.tasks, reviewed : SUBSET f.tasks,
            approved : BOOLEAN, present : BOOLEAN] : q = NoPlan \/ Installed(f, q)}

ApprovalOf(f) ==
    [key : FlowKeys(f) \cup {PlanKey} \cup ChangeKeys, trigger : {"required", "agent_requested"}]
CountsOf(f) == UNION {[D -> 0..MaxHandoffs] : D \in SUBSET (FlowKeys(f) \X f.tasks)}
AnswerOf(f) == Plain \cup Broken \cup {Handoff(t) : t \in f.tasks}
AnswersIn(f) == UNION {[D -> AnswerOf(f)] : D \in SUBSET FlowKeys(f)}
Selections(f) == {{}} \cup f.selections

ChangeOf(f) ==
    [open : BOOLEAN, ready : BOOLEAN, plan : PlanOf(f),
     affected : SUBSET FlowKeys(f), revisions : SUBSET FlowKeys(f)]

Record(f) ==
    [done : BOOLEAN, outcome : Outcomes, completed : SUBSET FlowKeys(f),
     pending : SUBSET ApprovalOf(f), options : SUBSET FlowKeys(f),
     startApproved : BOOLEAN, startAction : {"none", "accept", "revise"},
     targets : SUBSET (FlowKeys(f) \cup {PlanKey} \cup ChangeKeys),
     handoffs : CountsOf(f), items : Selections(f), plan : PlanOf(f), attempt : Nat,
     lastDecision : 0..MaxDecisions, change : ChangeOf(f), sequence : 0..MaxDecisions]

Memory(f) ==
    [items : Selections(f), plan : PlanOf(f), completed : SUBSET FlowKeys(f),
     running : SUBSET FlowKeys(f), wave : SUBSET FlowKeys(f), finished : SUBSET FlowKeys(f),
     staged : SUBSET FlowKeys(f), handoffs : CountsOf(f), answers : AnswersIn(f),
     attempt : Nat, outcome : Outcomes, lastDecision : 0..MaxDecisions,
     sequence : 0..MaxDecisions]

Decision == [id : 0..MaxDecisions, verb : {"none", "approve", "revise"}, target : Targets]
JobRow == [status : {"queued", "running", "paused", "failed", "completed"},
           resume : BOOLEAN, decision : Decision]
ApprovalStates == {"none", "pending", "approved", "revised", "superseded"}
ChildStates == {"none", "waiting", "running", "ended"}
Issues == {"ready", "in_progress", "needs_info", "needs_human", "blocked", "pr_open"}
Pcs == {"idle", "load", "resume", "plan", "prepare"} \cup Working
Budget == [decisions : 0..MaxDecisions, failures : 0..MaxFailures, retries : 0..MaxRetries]

RowsTyped ==
    /\ flow \in Flows
    /\ saved = NoCheckpoint \/ saved \in Record(flow)
    /\ approvals \in [AllKeys -> ApprovalStates] /\ children \in [TaskKeys -> ChildStates]
    /\ pr \in BOOLEAN
ExecutorTyped ==
    /\ job \in JobRow /\ issue \in Issues
    /\ pc \in Pcs /\ mem \in Memory(flow) /\ budget \in Budget
HistoryTyped ==
    accepted \subseteq TaskKeys /\ stale \subseteq TaskKeys /\ outdated \subseteq TaskKeys

\* The decision in the job's input is the last comment, and every change was
\* proposed in answer to a comment of its own.
Counted(r) == r.sequence <= r.lastDecision /\ r.lastDecision <= budget.decisions
DecisionsCounted ==
    /\ HasCheckpoint => Counted(saved)
    /\ Counted(mem)
    /\ (job.status = "paused" /\ pc = "idle") \/ job.decision.id = budget.decisions

\* What may wait for a person: results, the plan of a flow without change
\* intake, and the change under discussion.
PendingFits(s) ==
    \A k \in PendingKeys(s.pending) :
        \/ k \in FlowKeys(flow)
        \/ k = PlanKey /\ flow.planned /\ ~flow.intake
        \/ k = ChangeKey(s.sequence) /\ s.sequence > 0 /\ flow.intake
               /\ s.change.open /\ s.change.ready

\* While the executor plans or works nothing is pending.
NothingPending ==
    HasCheckpoint /\ pc \in {"plan", "prepare", "wave", "run", "results"} => saved.pending = {}

\* Only a run with a checkpoint pauses or is resumed.
ResumesFromCheckpoint ==
    job.resume \/ job.status = "paused" \/ pc \in {"resume", "prepare"} => HasCheckpoint

\* Results and approvals are of tasks that have a child row, or of the start.
Known == Tracked \cup {Start}
ResultsKnown(s) ==
    s.completed \subseteq Known /\ PendingKeys(s.pending) \cap FlowKeys(flow) \subseteq Known
RowsKnown ==
    /\ Tracked \subseteq FlowKeys(flow)
    /\ HasCheckpoint => ResultsKnown(saved)
    /\ mem.completed \subseteq Known /\ mem.wave \subseteq Tracked
    /\ DOMAIN mem.answers \subseteq Tracked

PendingApprovals == {k \in AllKeys : approvals[k] = "pending"}
Matched == PendingApprovals = IF HasCheckpoint THEN PendingKeys(saved.pending) ELSE {}

IInv ==
    /\ RowsTyped /\ ExecutorTyped /\ HistoryTyped
    /\ DecisionsCounted /\ (HasCheckpoint => PendingFits(saved)) /\ NothingPending
    /\ RowsKnown /\ Matched /\ ResumesFromCheckpoint

-----------------------------------------------------------------------------
(* Keys and plans *)

LEMMA PlanTasks ==
  ASSUME NEW f \in Flows, NEW q \in PlanOf(f)
  PROVE  /\ Effective(f, q).tasks = f.tasks \ q.excluded
         /\ Effective(f, q).perItem = f.perItem
         /\ f.start \in Effective(f, q).tasks /\ f.start \notin f.perItem
<1>1. f.start \in f.tasks /\ f.start \notin f.perItem /\ {"tasks", "required"} \subseteq DOMAIN f
  BY FlowsAssumption, ReservedAssumption
<1>2. CASE q = NoPlan
  BY <1>1, <1>2 DEF Effective, NoPlan
<1>3. CASE Installed(f, q)
  <2>1. q.present = TRUE
    BY <1>3 DEF Installed
  <2>2. f.start \notin q.excluded
    BY <1>3 DEF Installed, Resolvable
  <2>3. Effective(f, q) = [f EXCEPT !.tasks = @ \ q.excluded,
                   !.required = (@ \cup {f.start} \cup q.reviewed) \ q.excluded]
    BY <2>1 DEF Effective
  <2> QED
    BY <1>1, <2>2, <2>3
<1>4. QED
  BY <1>2, <1>3 DEF PlanOf

LEMMA KeysInFlow ==
  ASSUME NEW f \in Flows, NEW q \in PlanOf(f), NEW items \in Selections(f)
  PROVE  /\ KeysOf(Effective(f, q), items) \subseteq FlowKeys(f)
         /\ StartKey(f) \in KeysOf(Effective(f, q), items)
         /\ StartKey(f) \in FlowKeys(f)
         /\ \A k \in FlowKeys(f) : k[1] \in f.tasks
         /\ FlowKeys(f) \subseteq TaskKeys /\ FlowKeys(f) \subseteq AllKeys
<1>1. items \subseteq Items
  BY FlowsAssumption DEF Selections
<1>2. Effective(f, q).tasks \subseteq f.tasks /\ Effective(f, q).perItem = f.perItem
  BY PlanTasks
<1>3. KeysOf(Effective(f, q), items) \subseteq FlowKeys(f)
  BY <1>1, <1>2 DEF KeysOf, FlowKeys
<1>4. StartKey(f) \in KeysOf(Effective(f, q), items)
  BY PlanTasks DEF KeysOf, StartKey
<1>5. FlowKeys(f) \subseteq TaskKeys
  BY DEF FlowKeys, TaskKeys
<1>6. \A k \in FlowKeys(f) : k[1] \in f.tasks
  BY DEF FlowKeys, KeysOf
<1>7. QED
  BY <1>3, <1>4, <1>5, <1>6 DEF AllKeys

(* Reserved task names keep the keys of plans and changes apart. *)
LEMMA ReservedKeys ==
  ASSUME NEW f \in Flows
  PROVE  /\ f.planned => PlanKey \notin FlowKeys(f)
         /\ f.intake => \A n : ChangeKey(n) \notin FlowKeys(f)
         /\ f.intake => \A k \in FlowKeys(f) : k[1] # "change"
         /\ \A n \in 1..MaxDecisions : ChangeKey(n) \in ChangeKeys
         /\ PlanKey \in AllKeys /\ ChangeKeys \subseteq AllKeys
<1>1. \A k \in FlowKeys(f) : k[1] \in f.tasks
  BY DEF FlowKeys, KeysOf
<1>2. f.planned => PlanKey \notin FlowKeys(f)
  BY <1>1, ReservedAssumption DEF PlanKey
<1>3. f.intake => \A k \in FlowKeys(f) : k[1] # "change"
  BY <1>1, ReservedAssumption
<1>4. f.intake => \A n : ChangeKey(n) \notin FlowKeys(f)
  BY <1>3 DEF ChangeKey
<1>5. QED
  BY <1>2, <1>3, <1>4 DEF AllKeys, ChangeKeys

LEMMA AffectedKeys ==
  ASSUME NEW f \in Flows, NEW q \in PlanOf(f), NEW items \in Selections(f)
  PROVE  /\ \A k : AffectedBy(f, q, items, k) \subseteq KeysOf(Effective(f, q), items)
         /\ \A k : AffectedBy(f, q, items, k) \subseteq FlowKeys(f)
         /\ \A k \in KeysOf(Effective(f, q), items) : k \in AffectedBy(f, q, items, k)
<1> DEFINE g == Remaining(f, q.excluded)
           graph == <<f, q.excluded, items>>
<1>1. g.tasks = f.tasks \ q.excluded /\ g.perItem = f.perItem
  BY ReservedAssumption DEF Remaining
<1>2. KeysOf(g, items) = KeysOf(Effective(f, q), items)
  BY <1>1, PlanTasks DEF KeysOf
<1>3. graph \in Graphs
  <2>1. q.excluded \in {{}} \cup {p.excluded : p \in f.proposals}
    <3>1. q = NoPlan => q.excluded = {}
      BY DEF NoPlan
    <3>2. Installed(f, q) => \E p \in f.proposals : q.excluded = p.excluded
      BY DEF Installed
    <3> QED
      BY <3>1, <3>2 DEF PlanOf
  <2>2. graph \in {f} \X ({{}} \cup {p.excluded : p \in f.proposals}) \X ({{}} \cup f.selections)
    BY <2>1 DEF Selections
  <2> QED
    BY <2>2 DEF Graphs
<1>4. ASSUME NEW k \in KeysOf(g, items)
      PROVE  k \in AffectedBy(f, q, items, k)
  <2>1. <<graph, k, k>> \in AffectedPairs
    <3>1. graph[1] = f /\ graph[2] = q.excluded /\ graph[3] = items
      OBVIOUS
    <3>2. <<graph, k, k>> \in LET h == Remaining(graph[1], graph[2])
             IN {<<graph, key, l>> : key \in KeysOf(h, graph[3]), l \in KeysOf(h, graph[3])}
      BY <1>4, <3>1
    <3> QED
      BY <1>3, <3>2 DEF AffectedPairs
  <2>2. k \in LeastAffected(g, items, k)
    BY <1>4 DEF LeastAffected
  <2>3. <<graph, k, k>> \in Affects
    BY <2>1, <2>2 DEF Affects
  <2> QED
    BY <2>3, <1>4 DEF AffectedBy
<1>5. \A k : AffectedBy(f, q, items, k) \subseteq KeysOf(g, items)
  BY DEF AffectedBy
<1>6. QED
  BY <1>2, <1>4, <1>5, KeysInFlow

-----------------------------------------------------------------------------
(* A commit of the checkpoint *)

EffectsTyped(e) ==
    /\ \A d \in e.decided : d[2] \in {"approved", "revised"}
    /\ e.staged \subseteq FlowKeys(flow) /\ e.started \subseteq FlowKeys(flow)

\* The approvals the record no longer waits for are decided or superseded, and
\* none it waits for is.
Accounts(record, e) ==
    /\ PendingKeys(record.pending) \cap e.superseded = {}
    /\ \A k \in PendingApprovals :
          k \in PendingKeys(record.pending) \/ Decided(e, k) \/ k \in e.superseded

KnownAfter(e) == Known \cup e.staged \cup e.started
Writes(record, e) ==
    /\ record \in Record(flow) /\ Counted(record) /\ PendingFits(record)
    /\ EffectsTyped(e) /\ Accounts(record, e)
    /\ record.completed \subseteq KnownAfter(e)
    /\ PendingKeys(record.pending) \cap FlowKeys(flow) \subseteq KnownAfter(e)

LEMMA RecordIsCheckpoint ==
  ASSUME NEW f, NEW r \in Record(f)
  PROVE  r # NoCheckpoint
<1>1. r.outcome \in Outcomes /\ "outcome" \in DOMAIN r
  BY DEF Record
<1>2. "outcome" \notin DOMAIN NoCheckpoint
  BY DEF NoCheckpoint
<1>3. QED
  BY <1>1, <1>2

LEMMA PendingInKeys ==
  ASSUME NEW f \in Flows, NEW pending \in SUBSET ApprovalOf(f)
  PROVE  /\ PendingKeys(pending) \subseteq FlowKeys(f) \cup {PlanKey} \cup ChangeKeys
         /\ PendingKeys(pending) \subseteq AllKeys
<1>1. \A p \in pending : p.key \in FlowKeys(f) \cup {PlanKey} \cup ChangeKeys
  BY DEF ApprovalOf
<1>2. FlowKeys(f) \cup {PlanKey} \cup ChangeKeys \subseteq AllKeys
  BY DEF FlowKeys, AllKeys, ChangeKeys, TaskKeys
<1>3. QED
  BY <1>1, <1>2 DEF PendingKeys

LEMMA CommitApprovals ==
  ASSUME IInv, NEW record \in Record(flow), NEW e, EffectsTyped(e), Accounts(record, e),
         approvals' = ApprovalsAfter(record, e)
  PROVE  /\ approvals' \in [AllKeys -> ApprovalStates]
         /\ PendingApprovals' = PendingKeys(record.pending)
<1>1. approvals \in [AllKeys -> ApprovalStates] /\ flow \in Flows
  BY DEF IInv, RowsTyped
<1>2. record.pending \in SUBSET ApprovalOf(flow)
  BY DEF Record
<1>3. PendingKeys(record.pending) \subseteq AllKeys
  BY <1>1, <1>2, PendingInKeys
<1> DEFINE Choice(k) == (CHOOSE d \in e.decided : d[1] = k)[2]
           Value(k) == IF approvals[k] = "pending" /\ Decided(e, k) THEN Choice(k) ELSE approvals[k]
           Wanted(k) == IF k \in NewRequests(record, e) THEN "pending" ELSE Value(k)
           After(k) == IF k \in e.superseded /\ Wanted(k) \in {"pending", "approved"}
                       THEN "superseded" ELSE Wanted(k)
<1>4. approvals' = [k \in AllKeys |-> After(k)]
  BY DEF ApprovalsAfter
<1>5. ASSUME NEW k \in AllKeys, Decided(e, k)
      PROVE  Choice(k) \in {"approved", "revised"}
  <2>1. \E d \in e.decided : d[1] = k
    BY <1>5 DEF Decided
  <2> QED
    BY <2>1 DEF EffectsTyped
<1>6. ASSUME NEW k \in AllKeys
      PROVE  Value(k) \in ApprovalStates
             /\ (Value(k) = "pending" <=> approvals[k] = "pending" /\ ~Decided(e, k))
  BY <1>1, <1>5 DEF ApprovalStates
<1> HIDE DEF Value
<1>7. ASSUME NEW k \in AllKeys
      PROVE  After(k) \in ApprovalStates
  BY <1>6 DEF ApprovalStates
<1>8. ASSUME NEW k \in AllKeys
      PROVE  After(k) = "pending" <=> k \in PendingKeys(record.pending)
  <2>1. CASE k \in PendingKeys(record.pending)
    <3>1. k \notin e.superseded
      BY <2>1 DEF Accounts
    <3>2. Wanted(k) = "pending"
      BY <2>1, <1>6 DEF NewRequests
    <3> QED
      BY <3>1, <3>2, <2>1
  <2>2. CASE k \notin PendingKeys(record.pending)
    <3>1. Wanted(k) = Value(k)
      BY <2>2 DEF NewRequests
    <3>2. Value(k) = "pending" => k \in e.superseded
      BY <2>2, <1>6 DEF Accounts, PendingApprovals
    <3> QED
      BY <3>1, <3>2, <2>2
  <2> QED
    BY <2>1, <2>2
<1>9. approvals' \in [AllKeys -> ApprovalStates]
  BY <1>4, <1>7
<1>10. PendingApprovals' = PendingKeys(record.pending)
  <2> HIDE DEF After
  <2>1. \A k \in AllKeys : approvals'[k] = "pending" <=> k \in PendingKeys(record.pending)
    BY <1>4, <1>8
  <2> QED
    BY <2>1, <1>3 DEF PendingApprovals
<1>11. QED
  BY <1>9, <1>10

LEMMA CommitChildren ==
  ASSUME IInv, NEW e, EffectsTyped(e), children' = ChildrenAfter(e)
  PROVE  /\ children' \in [TaskKeys -> ChildStates]
         /\ Tracked' = Tracked \cup e.staged \cup e.started
<1>1. children \in [TaskKeys -> ChildStates] /\ flow \in Flows
  BY DEF IInv, RowsTyped
<1>2. e.staged \cup e.started \subseteq TaskKeys
  BY <1>1 DEF EffectsTyped, FlowKeys, TaskKeys
<1>3. children' \in [TaskKeys -> ChildStates]
  BY <1>1 DEF ChildrenAfter, ChildStates
<1>4. \A k \in TaskKeys : children'[k] # "none" <=>
                            children[k] # "none" \/ k \in e.staged \cup e.started
  BY <1>1 DEF ChildrenAfter
<1>5. QED
  BY <1>2, <1>3, <1>4 DEF Tracked

\* Whatever the executor commits, the rows fit together again.
LEMMA CommitKeeps ==
  ASSUME IInv, NEW record, NEW e, Writes(record, e), Commit(record, e),
         flow' = flow, budget'.decisions = budget.decisions
  PROVE  /\ RowsTyped' /\ HasCheckpoint' /\ saved' = record /\ Counted(saved)'
         /\ PendingFits(saved)' /\ Matched' /\ ResultsKnown(saved)'
         /\ Tracked' \subseteq FlowKeys(flow)' /\ Known' = KnownAfter(e)
<1>1. /\ record \in Record(flow) /\ EffectsTyped(e) /\ Accounts(record, e)
      /\ saved' = record /\ approvals' = ApprovalsAfter(record, e)
      /\ children' = ChildrenAfter(e) /\ pr' = pr
  BY DEF Writes, Commit
<1>2. approvals' \in [AllKeys -> ApprovalStates] /\ PendingApprovals' = PendingKeys(record.pending)
  BY <1>1, CommitApprovals
<1>3. children' \in [TaskKeys -> ChildStates] /\ Tracked' = Tracked \cup e.staged \cup e.started
  BY <1>1, CommitChildren
<1>4. RowsTyped'
  BY <1>1, <1>2, <1>3 DEF IInv, RowsTyped
<1>5. HasCheckpoint'
  BY <1>1, RecordIsCheckpoint DEF HasCheckpoint
<1>6. Known' = KnownAfter(e)
  BY <1>3 DEF Known, KnownAfter, Start, StartKey
<1>7. Tracked' \subseteq FlowKeys(flow)'
  BY <1>1, <1>3 DEF EffectsTyped, IInv, RowsKnown
<1>8. Counted(saved)' /\ PendingFits(saved)'
  BY <1>1 DEF Writes, Counted, PendingFits
<1>9. Matched'
  BY <1>1, <1>2, <1>5 DEF Matched
<1>10. ResultsKnown(saved)'
  BY <1>1, <1>6 DEF Writes, ResultsKnown
<1>11. QED
  BY <1>1, <1>4, <1>5, <1>6, <1>7, <1>8, <1>9, <1>10

-----------------------------------------------------------------------------
(* The executor stops *)

LEMMA NoWorkTyped ==
  ASSUME NEW f \in Flows
  PROVE  NoWork \in Memory(f)
<1>1. NoPlan \in PlanOf(f)
  BY FlowsAssumption DEF NoPlan, PlanOf
<1>2. NoHandoffs \in CountsOf(f)
  <2>1. NoHandoffs \in [{} -> 0..MaxHandoffs]
    BY DEF NoHandoffs
  <2> QED
    BY <2>1 DEF CountsOf
<1>3. NoAnswers \in AnswersIn(f)
  <2>1. NoAnswers \in [{} -> AnswerOf(f)]
    BY DEF NoAnswers
  <2> QED
    BY <2>1 DEF AnswersIn
<1>4. 0 \in 0..MaxDecisions
  BY BoundsAssumption
<1>5. QED
  BY <1>1, <1>2, <1>3, <1>4 DEF NoWork, Memory, Selections, Outcomes

Statuses == {"queued", "running", "paused", "failed", "completed"}

LEMMA NoDecisionTyped == NoDecision \in Decision
  BY BoundsAssumption DEF NoDecision, Decision, Targets

\* The executor's part when it stops: nothing is left in memory.
LEMMA StopsKeeps ==
  ASSUME IInv, NEW status \in Statuses, NEW state \in Issues, Stops(status, state), pc # "idle",
         flow' = flow, budget' \in Budget, budget'.decisions = budget.decisions
  PROVE  /\ ExecutorTyped' /\ Counted(mem)' /\ NothingPending'
         /\ ((job.status = "paused" /\ pc = "idle") \/ job.decision.id = budget.decisions)'
         /\ mem' = NoWork
         /\ (status = "paused" \/ HasCheckpoint => HasCheckpoint') => ResumesFromCheckpoint'
<1>1. job \in JobRow /\ flow \in Flows /\ (pc # "idle" => job.decision.id = budget.decisions)
  BY DEF IInv, ExecutorTyped, RowsTyped, DecisionsCounted
<1>2. job' = [job EXCEPT !.status = status,
                         !.decision = IF status = "paused" THEN NoDecision ELSE @]
      /\ issue' = state /\ pc' = "idle" /\ mem' = NoWork
  BY DEF Stops
<1>3. job' \in JobRow /\ job'.status = status
      /\ (status # "paused" => job'.decision = job.decision)
  BY <1>1, <1>2, NoDecisionTyped DEF JobRow, Statuses
<1>4. ExecutorTyped'
  BY <1>1, <1>2, <1>3, NoWorkTyped DEF ExecutorTyped, Pcs
<1>5. Counted(mem)'
  BY <1>2 DEF Counted, NoWork, Budget
<1>6. NothingPending'
  BY <1>2 DEF NothingPending
<1>7. job.decision.id = budget.decisions
  BY DEF IInv, DecisionsCounted
<1>8. (job.status = "paused" /\ pc = "idle")' \/ (job.decision.id = budget.decisions)'
  <2>1. CASE status = "paused"
    BY <1>2, <1>3, <2>1
  <2>2. CASE status # "paused"
    BY <1>3, <1>7, <2>2
  <2> QED
    BY <2>1, <2>2
<1>9. (status = "paused" \/ HasCheckpoint => HasCheckpoint') => ResumesFromCheckpoint'
  <2>1. job'.resume = job.resume
    BY <1>1, <1>2 DEF JobRow
  <2> QED
    BY <1>2, <1>3, <2>1 DEF IInv, ResumesFromCheckpoint
<1>10. QED
  BY <1>2, <1>4, <1>5, <1>6, <1>8, <1>9

LEMMA OutcomeStates ==
  ASSUME NEW outcome \in Outcomes
  PROVE  StateFor(outcome) \in Issues
  BY DEF StateFor, Outcomes, Issues

LEMMA ResultsOfNoWork ==
  ASSUME mem' = NoWork
  PROVE  (mem.completed \subseteq Known /\ mem.wave \subseteq Tracked
            /\ DOMAIN mem.answers \subseteq Tracked)'
  BY DEF NoWork, NoAnswers

\* Pauses commit the record and stop.
LEMMA PauseKeeps ==
  ASSUME IInv, NEW record, NEW e, Writes(record, e), Pause(record, e), pc # "idle",
         flow' = flow, budget' = budget, HistoryTyped'
  PROVE  IInv'
<1>1. Commit(record, e) /\ Stops("paused", StateFor(record.outcome)) /\ budget \in Budget
  BY DEF Pause, IInv, ExecutorTyped
<1>2. StateFor(record.outcome) \in Issues
  BY OutcomeStates DEF Writes, Record
<1>3. /\ ExecutorTyped' /\ Counted(mem)' /\ NothingPending'
      /\ ((job.status = "paused" /\ pc = "idle") \/ job.decision.id = budget.decisions)'
      /\ mem' = NoWork
  BY <1>1, <1>2, StopsKeeps DEF Statuses
<1>4. /\ RowsTyped' /\ HasCheckpoint' /\ saved' = record /\ Counted(saved)'
      /\ PendingFits(saved)' /\ Matched' /\ ResultsKnown(saved)'
      /\ Tracked' \subseteq FlowKeys(flow)'
  BY <1>1, CommitKeeps
<1>5. RowsKnown'
  BY <1>3, <1>4, ResultsOfNoWork DEF RowsKnown
<1>6. DecisionsCounted'
  BY <1>3, <1>4 DEF DecisionsCounted
<1>7. ResumesFromCheckpoint'
  BY <1>4 DEF ResumesFromCheckpoint
<1>8. QED
  BY <1>3, <1>4, <1>5, <1>6, <1>7 DEF IInv

\* A commit of work goes on with what the executor holds in memory.
LEMMA WorkKeeps ==
  ASSUME IInv, NEW record, NEW e, Writes(record, e), Commit(record, e), pc # "idle",
         record.pending = {},
         flow' = flow, budget' \in Budget, budget'.decisions = budget.decisions, HistoryTyped',
         job' = job, issue' = issue, pc' \in Pcs \ {"idle"},
         mem' \in Memory(flow), Counted(mem'), mem'.completed \subseteq KnownAfter(e),
         mem'.wave \subseteq Tracked \cup e.staged \cup e.started,
         DOMAIN mem'.answers \subseteq Tracked \cup e.staged \cup e.started
  PROVE  IInv'
<1>1. /\ RowsTyped' /\ HasCheckpoint' /\ saved' = record /\ Counted(saved)'
      /\ PendingFits(saved)' /\ Matched' /\ ResultsKnown(saved)'
      /\ Tracked' \subseteq FlowKeys(flow)' /\ Known' = KnownAfter(e)
  BY CommitKeeps
<1>2. Tracked' = Tracked \cup e.staged \cup e.started
  BY CommitChildren DEF Commit, Writes
<1>3. RowsKnown'
  BY <1>1, <1>2 DEF RowsKnown
<1>4. ExecutorTyped'
  BY DEF IInv, ExecutorTyped
<1>5. DecisionsCounted'
  BY <1>1 DEF IInv, DecisionsCounted, Counted
<1>6. NothingPending'
  BY <1>1 DEF NothingPending
<1>7. ResumesFromCheckpoint'
  BY <1>1 DEF ResumesFromCheckpoint
<1>8. QED
  BY <1>1, <1>3, <1>4, <1>5, <1>6, <1>7 DEF IInv

\* The rows stay, or running and waiting children end.
EndsLive == children' = [k \in TaskKeys |-> IF children[k] \in Live THEN "ended" ELSE children[k]]
RowsStay ==
  flow' = flow /\ saved' = saved /\ approvals' = approvals /\ pr' \in BOOLEAN
     /\ (children' = children \/ EndsLive)

LEMMA RowsStayKeeps ==
  ASSUME IInv, RowsStay
  PROVE  /\ RowsTyped' /\ (HasCheckpoint => PendingFits(saved))' /\ Matched'
         /\ Tracked' = Tracked /\ Known' = Known /\ Tracked' \subseteq FlowKeys(flow)'
         /\ (HasCheckpoint => ResultsKnown(saved))'
<1>1. children \in [TaskKeys -> ChildStates]
  BY DEF IInv, RowsTyped
<1>2. children' \in [TaskKeys -> ChildStates]
      /\ \A k \in TaskKeys : children'[k] # "none" <=> children[k] # "none"
  BY <1>1 DEF RowsStay, EndsLive, ChildStates, Live
<1>3. Tracked' = Tracked
  BY <1>2 DEF Tracked
<1>4. Known' = Known
  BY <1>3 DEF Known, Start, RowsStay
<1>5. RowsTyped'
  BY <1>2 DEF IInv, RowsTyped, RowsStay
<1>6. HasCheckpoint' = HasCheckpoint
  BY DEF HasCheckpoint, RowsStay
<1>7. (HasCheckpoint => PendingFits(saved))'
  BY <1>6 DEF IInv, PendingFits, RowsStay
<1>8. Matched'
  BY <1>6 DEF IInv, Matched, PendingApprovals, RowsStay
<1>9. Tracked' \subseteq FlowKeys(flow)' /\ (HasCheckpoint => ResultsKnown(saved))'
  BY <1>3, <1>4, <1>6 DEF IInv, RowsKnown, ResultsKnown, RowsStay
<1>10. QED
  BY <1>3, <1>4, <1>5, <1>7, <1>8, <1>9

LEMMA EndKeeps ==
  ASSUME IInv, NEW status \in Statuses, NEW state \in Issues, Stops(status, state), pc # "idle",
         RowsStay, budget' \in Budget, budget'.decisions = budget.decisions, HistoryTyped',
         status = "paused" => HasCheckpoint
  PROVE  IInv'
<1>1. flow' = flow
  BY DEF RowsStay
<1>2. /\ ExecutorTyped' /\ Counted(mem)' /\ NothingPending'
      /\ ((job.status = "paused" /\ pc = "idle") \/ job.decision.id = budget.decisions)'
      /\ mem' = NoWork
  BY <1>1, StopsKeeps
<1>3. /\ RowsTyped' /\ (HasCheckpoint => PendingFits(saved))' /\ Matched'
      /\ Tracked' \subseteq FlowKeys(flow)' /\ (HasCheckpoint => ResultsKnown(saved))'
  BY RowsStayKeeps
<1>4. RowsKnown'
  BY <1>2, <1>3, ResultsOfNoWork DEF RowsKnown
<1>5. DecisionsCounted'
  <2>1. HasCheckpoint' => Counted(saved)'
    BY DEF IInv, DecisionsCounted, Counted, HasCheckpoint, RowsStay
  <2> QED
    BY <1>2, <2>1 DEF DecisionsCounted
<1>6. HasCheckpoint' = HasCheckpoint
  BY DEF HasCheckpoint, RowsStay
<1>7. ResumesFromCheckpoint'
  BY <1>1, <1>6, StopsKeeps
<1>8. QED
  BY <1>2, <1>3, <1>4, <1>5, <1>7 DEF IInv

\* The executor moves on and changes nothing that is durable.
LEMMA MoveKeeps ==
  ASSUME IInv, flow' = flow, rows' = rows, job' \in JobRow, job'.decision = job.decision,
         issue' \in Issues, budget' \in Budget, budget'.decisions = budget.decisions,
         HistoryTyped', pc' \in Pcs,
         pc # "idle" \/ job.status # "paused", mem' \in Memory(flow), Counted(mem'),
         mem'.completed \subseteq Known, mem'.wave \subseteq Tracked,
         DOMAIN mem'.answers \subseteq Tracked,
         job'.resume \/ job'.status = "paused" \/ pc' \in {"resume", "prepare"} => HasCheckpoint,
         HasCheckpoint /\ pc' \in {"plan", "prepare", "wave", "run", "results"} => saved.pending = {}
  PROVE  IInv'
<1>1. RowsStay
  BY DEF RowsStay, rows, IInv, RowsTyped
<1>2. /\ RowsTyped' /\ (HasCheckpoint => PendingFits(saved))' /\ Matched'
      /\ Tracked' = Tracked /\ Known' = Known /\ Tracked' \subseteq FlowKeys(flow)'
      /\ (HasCheckpoint => ResultsKnown(saved))'
  BY <1>1, RowsStayKeeps
<1>3. HasCheckpoint' = HasCheckpoint /\ saved' = saved
  BY DEF HasCheckpoint, rows
<1>4. RowsKnown'
  BY <1>2 DEF RowsKnown
<1>5. NothingPending'
  BY <1>3 DEF NothingPending
<1>6. DecisionsCounted'
  BY <1>3 DEF IInv, DecisionsCounted, Counted
<1>7. ExecutorTyped'
  BY DEF IInv, ExecutorTyped
<1>8. ResumesFromCheckpoint'
  BY <1>3 DEF ResumesFromCheckpoint
<1>9. QED
  BY <1>2, <1>4, <1>5, <1>6, <1>7, <1>8 DEF IInv

-----------------------------------------------------------------------------
(* Steps that leave the checkpoint as it is *)

LEMMA MemoryOf ==
  ASSUME IInv
  PROVE  /\ flow \in Flows /\ mem \in Memory(flow) /\ Counted(mem) /\ mem.completed \subseteq Known
         /\ mem.wave \subseteq Tracked /\ DOMAIN mem.answers \subseteq Tracked
         /\ job \in JobRow /\ issue \in Issues /\ budget \in Budget /\ pc \in Pcs
         /\ (pc # "idle" => job.decision.id = budget.decisions)
         /\ (job.resume \/ job.status = "paused" \/ pc \in {"resume", "prepare"} => HasCheckpoint)
  BY DEF IInv, RowsTyped, ExecutorTyped, DecisionsCounted, RowsKnown, ResumesFromCheckpoint

LEMMA FailsTyped ==
  ASSUME IInv, Fails
  PROVE  budget' \in Budget /\ budget'.decisions = budget.decisions
  BY BoundsAssumption, MemoryOf DEF Fails, Budget

LEMMA FailKeeps ==
  ASSUME IInv, FailCoordinator, pc # "idle", flow' = flow,
         budget' = budget \/ Fails, HistoryTyped'
  PROVE  IInv'
<1>1. RowsStay
  BY DEF RowsStay, FailCoordinator, EndsLive, IInv, RowsTyped
<1>2. Stops("failed", "blocked") /\ "failed" \in Statuses /\ "blocked" \in Issues
  BY DEF FailCoordinator, Statuses, Issues
<1>3. budget' \in Budget /\ budget'.decisions = budget.decisions
  BY MemoryOf, FailsTyped
<1>4. QED
  BY <1>1, <1>2, <1>3, EndKeeps

LEMMA StopPausedKeeps ==
  ASSUME IInv, NEW state \in Issues, StopPaused(state), pc # "idle", flow' = flow, HasCheckpoint,
         budget' = budget \/ Fails, HistoryTyped'
  PROVE  IInv'
<1>1. RowsStay
  BY DEF RowsStay, StopPaused, rows, IInv, RowsTyped
<1>2. Stops("paused", state) /\ "paused" \in Statuses
  BY DEF StopPaused, Statuses
<1>3. budget' \in Budget /\ budget'.decisions = budget.decisions
  BY MemoryOf, FailsTyped
<1>4. QED
  BY <1>1, <1>2, <1>3, EndKeeps

LEMMA HistoryStays ==
  ASSUME IInv, UNCHANGED history
  PROVE  HistoryTyped'
  BY DEF IInv, HistoryTyped, history

LEMMA AcquireKeeps == IInv /\ Acquire => IInv'
<1> SUFFICES ASSUME IInv, Acquire PROVE IInv'
  OBVIOUS
<1>1. job' \in JobRow /\ job'.decision = job.decision /\ job'.resume = job.resume
      /\ job'.status # "paused"
  BY MemoryOf DEF Acquire, JobRow
<1>2. job.status = "queued" /\ issue' = "in_progress" /\ pc' = "load"
      /\ flow' = flow /\ rows' = rows /\ mem' = mem /\ budget' = budget
  BY DEF Acquire
<1>3. HistoryTyped'
  BY HistoryStays DEF Acquire
<1>4. QED
  BY <1>1, <1>2, <1>3, MemoryOf, MoveKeeps DEF Pcs, Issues

LEMMA LoadKeeps == IInv /\ Load => IInv'
<1> SUFFICES ASSUME IInv, Load PROVE IInv'
  OBVIOUS
<1>1. HistoryTyped' /\ flow' = flow /\ budget' = budget /\ pc = "load"
  BY HistoryStays DEF Load
<1>2. CASE Replayable
  <2>1. durable' = durable /\ mem' = mem /\ pc' = IF HasCheckpoint THEN "resume" ELSE "plan"
    BY <1>2 DEF Load
  <2>2. rows' = rows /\ job' = job /\ issue' = issue
    BY <2>1 DEF durable, rows
  <2>3. pc' \in Pcs /\ (HasCheckpoint => pc' = "resume")
    BY <2>1 DEF Pcs
  <2> QED
    BY <1>1, <2>1, <2>2, <2>3, MemoryOf, MoveKeeps
<1>3. CASE ~Replayable
  BY <1>1, <1>3, FailKeeps DEF Load
<1>4. QED
  BY <1>2, <1>3

LEMMA FaultKeeps ==
  IInv /\ (CheckoutFails \/ StepFails \/ FinishFails \/ RequestedTwice) => IInv'
<1>1. ASSUME IInv, CheckoutFails PROVE IInv'
  <2>1. HistoryTyped' /\ flow' = flow /\ Fails /\ pc # "idle"
    BY <1>1, HistoryStays DEF CheckoutFails
  <2>2. CASE job.resume
    BY <1>1, <2>1, <2>2, MemoryOf, StopPausedKeeps DEF CheckoutFails, Issues
  <2>3. CASE ~job.resume
    BY <1>1, <2>1, <2>3, FailKeeps DEF CheckoutFails
  <2> QED
    BY <2>2, <2>3
<1>2. ASSUME IInv, StepFails PROVE IInv'
  BY <1>2, HistoryStays, FailKeeps DEF StepFails
<1>3. ASSUME IInv, FinishFails PROVE IInv'
  <2>1. Stops("failed", "blocked") /\ "failed" \in Statuses /\ "blocked" \in Issues
        /\ flow' = flow /\ pc # "idle" /\ Fails
    BY <1>3 DEF FinishFails, Statuses, Issues
  <2>2. RowsStay
    BY <1>3 DEF RowsStay, FinishFails, rows, IInv, RowsTyped
  <2>3. HistoryTyped'
    BY <1>3, HistoryStays DEF FinishFails
  <2> QED
    BY <1>3, <2>1, <2>2, <2>3, FailsTyped, EndKeeps
<1>4. ASSUME IInv, RequestedTwice PROVE IInv'
  BY <1>4, HistoryStays, FailKeeps DEF RequestedTwice
<1>5. QED
  BY <1>1, <1>2, <1>3, <1>4

LEMMA EndingKeeps ==
  IInv /\ (ErrorStops \/ TaskStops \/ PlannerStops \/ OpenPullRequest) => IInv'
<1>1. ASSUME IInv, ErrorStops \/ TaskStops PROVE IInv'
  <2>1. RowsStay /\ flow' = flow /\ budget' = budget /\ pc # "idle"
    BY <1>1 DEF ErrorStops, TaskStops, FeedbackEnds, RowsStay, EndsLive, IInv, RowsTyped
  <2>2. Stops("failed", "blocked") \/ Stops("completed", "blocked")
    BY <1>1 DEF ErrorStops, TaskStops, FeedbackEnds
  <2>3. HistoryTyped'
    BY <1>1, HistoryStays DEF ErrorStops, TaskStops
  <2>4. {"failed", "completed"} \subseteq Statuses /\ "blocked" \in Issues
    BY DEF Statuses, Issues
  <2>5. CASE Stops("failed", "blocked")
    BY <1>1, <2>1, <2>3, <2>4, <2>5, MemoryOf, EndKeeps
  <2>6. CASE Stops("completed", "blocked")
    BY <1>1, <2>1, <2>3, <2>4, <2>6, MemoryOf, EndKeeps
  <2> QED
    BY <2>2, <2>5, <2>6
<1>2. ASSUME IInv, PlannerStops PROVE IInv'
  <2>1. RowsStay /\ flow' = flow /\ budget' = budget /\ pc # "idle"
    BY <1>2 DEF PlannerStops, RowsStay, rows, IInv, RowsTyped
  <2>2. Stops("completed", "blocked") /\ "completed" \in Statuses /\ "blocked" \in Issues
    BY <1>2 DEF PlannerStops, Statuses, Issues
  <2>3. HistoryTyped'
    BY <1>2, HistoryStays DEF PlannerStops
  <2> QED
    BY <1>2, <2>1, <2>2, <2>3, MemoryOf, EndKeeps
<1>3. ASSUME IInv, OpenPullRequest PROVE IInv'
  <2> DEFINE status == IF job.status = "running" THEN "completed" ELSE job.status
  <2>1. RowsStay /\ flow' = flow /\ budget' = budget /\ pc # "idle"
    BY <1>3 DEF OpenPullRequest, RowsStay
  <2>2. Stops(status, "pr_open") /\ "pr_open" \in Issues
    BY <1>3 DEF OpenPullRequest, Issues
  <2>3. HistoryTyped'
    BY <1>3, HistoryStays DEF OpenPullRequest
  <2>4. status \in Statuses /\ (status = "paused" => HasCheckpoint)
    BY <1>3, MemoryOf DEF JobRow, Statuses
  <2> HIDE DEF status
  <2> QED
    BY <1>3, <2>1, <2>2, <2>3, <2>4, MemoryOf, EndKeeps
<1>4. QED
  BY <1>1, <1>2, <1>3

-----------------------------------------------------------------------------
(* People *)

LEMMA RequeueKeeps ==
  ASSUME IInv, pc = "idle", HasCheckpoint, NEW d, d.verb \in {"none", "approve", "revise"}, d.target \in Targets,
         [d EXCEPT !.id = budget.decisions + 1]
             \in [id : {budget.decisions + 1}, verb : {d.verb}, target : {d.target}],
         Requeue(d)
  PROVE  IInv'
<1>1. /\ budget' = [budget EXCEPT !.decisions = @ + 1] /\ budget.decisions < MaxDecisions
      /\ job' = [status |-> "queued", resume |-> TRUE,
                 decision |-> [d EXCEPT !.id = budget.decisions + 1]]
      /\ flow' = flow /\ issue' = issue /\ rows' = rows /\ pc' = pc /\ mem' = mem
  BY DEF Requeue
<1>2. budget' \in Budget /\ budget'.decisions = budget.decisions + 1
      /\ budget'.decisions \in 0..MaxDecisions /\ budget.decisions \in Nat
  BY <1>1, MemoryOf, BoundsAssumption DEF Budget
<1>3. job' \in JobRow /\ job'.decision.id = budget'.decisions
  BY <1>1, <1>2 DEF JobRow, Decision
<1>4. HistoryTyped'
  BY HistoryStays DEF Requeue
<1>5. RowsStay
  BY <1>1 DEF RowsStay, rows, IInv, RowsTyped
<1>6. /\ RowsTyped' /\ (HasCheckpoint => PendingFits(saved))' /\ Matched'
      /\ Tracked' = Tracked /\ Known' = Known /\ Tracked' \subseteq FlowKeys(flow)'
      /\ (HasCheckpoint => ResultsKnown(saved))'
  BY <1>5, RowsStayKeeps
<1>7. RowsKnown'
  BY <1>1, <1>6, MemoryOf DEF RowsKnown
<1>8. ExecutorTyped'
  BY <1>1, <1>2, <1>3 DEF IInv, ExecutorTyped
<1>9. NothingPending'
  BY <1>1 DEF NothingPending
<1>10. DecisionsCounted'
  <2>1. HasCheckpoint' = HasCheckpoint /\ saved' = saved
    BY <1>1 DEF HasCheckpoint, rows
  <2>2. HasCheckpoint => saved.lastDecision \in 0..MaxDecisions
    BY DEF IInv, RowsTyped, HasCheckpoint, Record
  <2>3. mem.lastDecision \in 0..MaxDecisions
    BY MemoryOf DEF Memory
  <2> QED
    BY <1>1, <1>2, <1>3, <2>1, <2>2, <2>3, MemoryOf DEF IInv, DecisionsCounted, Counted
<1>11. ResumesFromCheckpoint'
  BY <1>1 DEF ResumesFromCheckpoint, HasCheckpoint, rows
<1>12. QED
  BY <1>4, <1>6, <1>7, <1>8, <1>9, <1>10, <1>11 DEF IInv

LEMMA NamedTargets ==
  ASSUME IInv, HasCheckpoint, NEW target \in Nameable
  PROVE  target \in Targets
<1>1. saved \in Record(flow) /\ flow \in Flows
  BY DEF IInv, RowsTyped, HasCheckpoint
<1>2. saved.plan \in PlanOf(flow) /\ saved.items \in Selections(flow)
      /\ saved.sequence \in 0..MaxDecisions
  BY <1>1 DEF Record
<1>3. NoPlan \in PlanOf(flow)
  BY <1>1, FlowsAssumption DEF NoPlan, PlanOf
<1>4. GraphKeys(saved, NoPlan) \subseteq AllKeys
  BY <1>1, <1>2, <1>3, KeysInFlow DEF GraphKeys
<1>5. \A n \in 1..saved.sequence : ChangeKey(n) \in AllKeys
  BY <1>2, BoundsAssumption DEF AllKeys
<1>6. PlanKey \in AllKeys
  BY DEF AllKeys
<1>7. QED
  BY <1>4, <1>5, <1>6 DEF Nameable, Targets

LEMMA PeopleKeep ==
  IInv /\ (Command \/ Answer \/ ReviseFailed \/ Retry) => IInv'
<1>1. ASSUME IInv, NEW verb \in {"approve", "revise"}, NEW target \in Nameable,
             HasCheckpoint, pc = "idle", Requeue([id |-> 0, verb |-> verb, target |-> target])
      PROVE IInv'
  <2> DEFINE d == [id |-> 0, verb |-> verb, target |-> target]
  <2>1. d.verb \in {"none", "approve", "revise"} /\ d.target \in Targets
        /\ [d EXCEPT !.id = budget.decisions + 1]
             \in [id : {budget.decisions + 1}, verb : {d.verb}, target : {d.target}]
    BY <1>1, NamedTargets
  <2> HIDE DEF d
  <2>2. Requeue(d)
    BY <1>1 DEF d
  <2> QED
    BY <1>1, <2>1, <2>2, RequeueKeeps
<1>2. ASSUME IInv, Command PROVE IInv'
  BY <1>1, <1>2, MemoryOf DEF Command
<1>3. ASSUME IInv, Answer PROVE IInv'
  <2>1. /\ NoDecision.verb \in {"none", "approve", "revise"} /\ NoDecision.target \in Targets
        /\ [NoDecision EXCEPT !.id = budget.decisions + 1]
             \in [id : {budget.decisions + 1}, verb : {NoDecision.verb}, target : {NoDecision.target}]
    BY DEF NoDecision, Targets
  <2> QED
    BY <1>3, <2>1, MemoryOf, RequeueKeeps DEF Answer
<1>4. ASSUME IInv, ReviseFailed PROVE IInv'
  BY <1>1, <1>4 DEF ReviseFailed
<1>5. ASSUME IInv, Retry PROVE IInv'
  <2>1. job' \in JobRow /\ job'.decision = job.decision
        /\ job'.status # "paused" /\ (job'.resume => HasCheckpoint)
    BY <1>5, MemoryOf DEF Retry, JobRow
  <2>2. budget' \in Budget /\ budget'.decisions = budget.decisions
    BY <1>5, MemoryOf, BoundsAssumption DEF Retry, Budget
  <2>3. flow' = flow /\ rows' = rows /\ issue' = issue /\ pc' = pc /\ mem' = mem
        /\ pc = "idle" /\ job.status = "failed"
    BY <1>5 DEF Retry
  <2>4. HistoryTyped'
    BY <1>5, HistoryStays DEF Retry
  <2> QED
    BY <1>5, <2>1, <2>2, <2>3, <2>4, MemoryOf, MoveKeeps
<1>6. QED
  BY <1>2, <1>3, <1>4, <1>5

-----------------------------------------------------------------------------
(* Records the executor commits *)

LEMMA CheckpointOf ==
  ASSUME IInv, HasCheckpoint
  PROVE  /\ saved \in Record(flow) /\ flow \in Flows /\ Counted(saved) /\ PendingFits(saved)
         /\ ResultsKnown(saved) /\ PendingApprovals = PendingKeys(saved.pending)
         /\ Tracked \subseteq FlowKeys(flow)
  BY DEF IInv, RowsTyped, HasCheckpoint, DecisionsCounted, RowsKnown, Matched

LEMMA SnapshotFits ==
  ASSUME flow \in Flows, NEW m \in Memory(flow), NEW outcome \in Outcomes, Counted(m),
         NEW pending \in SUBSET ApprovalOf(flow), NEW sa \in BOOLEAN,
         PendingKeys(pending) \subseteq FlowKeys(flow)
  PROVE  LET r == Snapshot(m, outcome, pending, sa)
         IN  /\ r \in Record(flow) /\ Counted(r) /\ PendingFits(r)
             /\ r.pending = pending /\ r.completed = m.completed
<1> DEFINE r == Snapshot(m, outcome, pending, sa)
<1>1. NoPlan \in PlanOf(flow)
  BY FlowsAssumption DEF NoPlan, PlanOf
<1>2. NoChange \in ChangeOf(flow)
  BY <1>1 DEF NoChange, ChangeOf
<1>3. RevisionOptions(m, pending) \subseteq m.completed
  BY DEF RevisionOptions
<1>4. m.completed \in SUBSET FlowKeys(flow) /\ m.handoffs \in CountsOf(flow)
      /\ m.items \in Selections(flow) /\ m.plan \in PlanOf(flow) /\ m.attempt \in Nat
      /\ m.lastDecision \in 0..MaxDecisions /\ m.sequence \in 0..MaxDecisions
  BY DEF Memory
<1>5. r \in Record(flow)
  BY <1>2, <1>3, <1>4 DEF Snapshot, Record
<1>6. r.pending = pending /\ r.completed = m.completed /\ r.sequence = m.sequence
      /\ r.lastDecision = m.lastDecision
  BY DEF Snapshot
<1>7. Counted(r)
  BY <1>6 DEF Counted
<1>8. PendingFits(r)
  BY <1>6 DEF PendingFits
<1>9. QED
  BY <1>5, <1>6, <1>7, <1>8

LEMMA InstallFits ==
  ASSUME flow \in Flows, NEW s \in Record(flow), NEW plan, Installed(flow, plan)
  PROVE  LET r == InstallPlan(s, plan)
             tasks == Effective(flow, plan).tasks
         IN  /\ r \in Record(flow)
             /\ r.completed \subseteq s.completed
             /\ \A p \in r.pending :
                    p.key[1] \in tasks /\ (p \in s.pending \/ p.key \in s.completed)
             /\ \A p \in s.pending : p.key[1] \in tasks => p \in r.pending
             /\ \A field \in DOMAIN s \ {"completed", "pending", "targets", "plan"} :
                    r[field] = s[field]
<1> DEFINE r == InstallPlan(s, plan)
           tasks == Effective(flow, plan).tasks
           new == {Required(k) : k \in NewlyGated(s, plan)}
<1>1. plan \in PlanOf(flow)
  BY DEF Installed, PlanOf
<1>2. NewlyGated(s, plan) \subseteq s.completed /\ \A k \in NewlyGated(s, plan) : k[1] \in tasks
  BY DEF NewlyGated
<1>3. new \subseteq ApprovalOf(flow)
  BY <1>2 DEF Required, Approval, ApprovalOf, Record
<1>4. r = [s EXCEPT !.completed = {k \in s.completed : k[1] \in tasks} \ NewlyGated(s, plan),
                    !.pending = {p \in s.pending : p.key[1] \in tasks} \cup new,
                    !.targets = {k \in s.targets : k[1] \in tasks},
                    !.plan = plan]
  BY DEF InstallPlan, Record
<1>5. \A p \in new : p.key \in s.completed /\ p.key[1] \in tasks
  BY <1>2 DEF Required, Approval
<1> HIDE DEF r, tasks, new
<1>6. r \in Record(flow)
  BY <1>1, <1>3, <1>4 DEF Record
<1>7. r.pending = {p \in s.pending : p.key[1] \in tasks} \cup new
      /\ r.completed \subseteq s.completed
      /\ \A field \in DOMAIN s \ {"completed", "pending", "targets", "plan"} : r[field] = s[field]
  BY <1>4 DEF Record
<1>8. QED
  BY <1>5, <1>6, <1>7 DEF r, tasks

LEMMA ApprovedPlan ==
  ASSUME NEW f \in Flows, NEW q \in PlanOf(f), NEW approved \in BOOLEAN,
         q.approved => approved
  PROVE  [q EXCEPT !.approved = approved] \in PlanOf(f)
<1> DEFINE r == [q EXCEPT !.approved = approved]
<1>1. r \in [excluded : SUBSET f.tasks, reviewed : SUBSET f.tasks,
             approved : BOOLEAN, present : BOOLEAN]
  BY DEF PlanOf
<1>2. CASE q = NoPlan
  <2>1. approved = TRUE
    BY <1>2 DEF NoPlan
  <2>2. r = NoPlan
    <3>1. DOMAIN NoPlan = {"excluded", "reviewed", "approved", "present"} /\ NoPlan.approved = TRUE
      BY DEF NoPlan
    <3>2. NoPlan = [x \in {"excluded", "reviewed", "approved", "present"} |-> NoPlan[x]]
      BY DEF NoPlan
    <3>3. r = [x \in {"excluded", "reviewed", "approved", "present"} |->
                   IF x = "approved" THEN TRUE ELSE NoPlan[x]]
      BY <1>2, <2>1, <3>1
    <3> QED
      BY <3>1, <3>2, <3>3
  <2> QED
    BY <1>1, <2>2 DEF PlanOf
<1>3. CASE Installed(f, q)
  BY <1>1, <1>3 DEF Installed, PlanOf
<1>4. QED
  BY <1>2, <1>3 DEF PlanOf

LEMMA OutcomeFits ==
  ASSUME NEW s, NEW e, Writes(s, e), NEW outcome \in Outcomes
  PROVE  Writes([s EXCEPT !.outcome = outcome], e)
<1> DEFINE r == [s EXCEPT !.outcome = outcome]
<1>1. s \in Record(flow)
  BY DEF Writes
<1>2. r \in Record(flow) /\ r.pending = s.pending /\ r.completed = s.completed
      /\ r.sequence = s.sequence /\ r.lastDecision = s.lastDecision /\ r.change = s.change
  BY <1>1 DEF Record
<1> HIDE DEF r
<1>3. Writes(r, e)
  BY <1>2 DEF Writes, Counted, PendingFits, Accounts
<1>4. QED
  BY <1>3 DEF r

LEMMA ProceedKeeps ==
  ASSUME IInv, NEW s, NEW e, Writes(s, e), Proceed(s, e), pc # "idle",
         flow' = flow, budget' = budget, HistoryTyped'
  PROVE  IInv'
<1>1. CASE s.pending # {}
  <2>1. Pause([s EXCEPT !.outcome = "needs_human"], e)
    BY <1>1 DEF Proceed
  <2>2. Writes([s EXCEPT !.outcome = "needs_human"], e)
    BY OutcomeFits DEF Outcomes
  <2> QED
    BY <2>1, <2>2, PauseKeeps
<1>2. CASE s.pending = {}
  <2>1. Commit(s, e) /\ job' = job /\ issue' = issue /\ mem' = mem
        /\ pc' = IF s.startAction = "revise" THEN "plan" ELSE "prepare"
    BY <1>2 DEF Proceed
  <2>2. pc' \in Pcs \ {"idle"}
    BY <2>1 DEF Pcs
  <2>3. mem.completed \subseteq KnownAfter(e) /\ mem.wave \subseteq Tracked \cup e.staged \cup e.started
        /\ DOMAIN mem.answers \subseteq Tracked \cup e.staged \cup e.started
    BY MemoryOf DEF KnownAfter
  <2> QED
    BY <1>2, <2>1, <2>2, <2>3, MemoryOf, WorkKeeps
<1>3. QED
  BY <1>1, <1>2

LEMMA EffectsOfDecision ==
  ASSUME NEW d, NEW keys, NEW withdrawn
  PROVE  LET e == DecisionEffects(d, keys, withdrawn)
         IN  /\ e.superseded = withdrawn /\ EffectsTyped(e) /\ KnownAfter(e) = Known
             /\ \A k \in keys : Decided(e, k)
<1> DEFINE e == DecisionEffects(d, keys, withdrawn)
           state == IF d.verb = "approve" THEN "approved" ELSE "revised"
<1>1. e.decided = {<<k, state>> : k \in keys} /\ e.superseded = withdrawn
      /\ e.staged = {} /\ e.started = {}
  BY DEF DecisionEffects, NoEffects
<1>2. state \in {"approved", "revised"}
  OBVIOUS
<1> HIDE DEF e, state
<1>3. EffectsTyped(e)
  BY <1>1, <1>2 DEF EffectsTyped
<1>4. \A k \in keys : Decided(e, k)
  <2> TAKE k \in keys
  <2>1. <<k, state>> \in e.decided /\ <<k, state>>[1] = k
    BY <1>1
  <2> QED
    BY <2>1 DEF Decided
<1>5. KnownAfter(e) = Known
  BY <1>1 DEF KnownAfter
<1>6. QED
  BY <1>1, <1>3, <1>4, <1>5 DEF e

\* A decision on approvals accounts for what it decides and withdraws.
LEMMA SettledFits ==
  ASSUME IInv, HasCheckpoint, NEW s \in Record(flow), Counted(s), PendingFits(s), ResultsKnown(s),
         s.pending = saved.pending, NEW d \in Decision, d.id = budget.decisions,
         NEW chosen \in SUBSET ApprovalOf(flow), NEW withdrawn \in SUBSET FlowKeys(flow),
         Accepts(d, chosen) \subseteq FlowKeys(flow) \cap Known
  PROVE  Writes(Settled(s, d, chosen, withdrawn),
                DecisionEffects(d, PendingKeys(chosen), withdrawn))
<1> DEFINE keys == PendingKeys(chosen)
           accepts == Accepts(d, chosen)
           pending == {p \in s.pending : p.key \notin keys \cup withdrawn}
           e == DecisionEffects(d, keys, withdrawn)
           approved == s.plan.approved \/ Start \in accepts
           startApproved == IF Start \in accepts THEN TRUE
                            ELSE s.startApproved /\ ~(Start \in keys /\ d.verb = "revise")
           targets == {k \in s.targets \cup (Redoes(d, chosen) \ {Start}) :
                          k \in withdrawn => k \in keys}
           options == {k \in s.options \ withdrawn :
                          PendingKeys(pending) \cap Affected(s.plan, s.items, k) # {}}
           startAction == IF Start \in accepts THEN "accept"
                          ELSE IF Start \in keys THEN "revise" ELSE s.startAction
           plan == [s.plan EXCEPT !.approved = approved]
           completed == (s.completed \cup (accepts \ {Start})) \ withdrawn
           r == Settled(s, d, chosen, withdrawn)
<1>1. flow \in Flows /\ PendingApprovals = PendingKeys(saved.pending)
  BY CheckpointOf
<1>2. r = [s EXCEPT !.startApproved = startApproved, !.startAction = startAction, !.plan = plan,
                    !.completed = completed, !.targets = targets, !.options = options,
                    !.pending = pending, !.lastDecision = d.id]
  BY DEF Settled, Record
<1>3. plan \in PlanOf(flow)
  <2>1. s.plan \in PlanOf(flow) /\ approved \in BOOLEAN /\ (s.plan.approved => approved)
    BY DEF Record, PlanOf
  <2> QED
    BY <1>1, <2>1, ApprovedPlan
<1>4. startApproved \in BOOLEAN
  BY DEF Record
<1>5. keys \subseteq FlowKeys(flow) \cup {PlanKey} \cup ChangeKeys
  BY <1>1, PendingInKeys
<1>6. targets \subseteq FlowKeys(flow) \cup {PlanKey} \cup ChangeKeys
  BY <1>5 DEF Redoes, Record
<1>7. startAction \in {"none", "accept", "revise"} /\ options \subseteq FlowKeys(flow)
      /\ completed \subseteq FlowKeys(flow) /\ pending \subseteq s.pending
      /\ d.id \in 0..MaxDecisions
  BY DEF Record, Decision
<1> HIDE DEF plan, startApproved, targets, startAction, options, completed, pending, approved, r
<1>8. r \in Record(flow)
  BY <1>2, <1>3, <1>4, <1>6, <1>7 DEF Record
<1>9. r.pending = pending /\ r.completed = completed /\ r.lastDecision = d.id
      /\ r.sequence = s.sequence /\ r.change = s.change
  BY <1>2 DEF Record
<1>10. Counted(r)
  <2>1. s.sequence \in 0..MaxDecisions /\ s.lastDecision \in 0..MaxDecisions
        /\ budget.decisions \in 0..MaxDecisions
    BY MemoryOf DEF Record, Budget
  <2> QED
    BY <1>9, <2>1, BoundsAssumption DEF Counted
<1>11. PendingKeys(r.pending) \subseteq PendingKeys(s.pending) \ (keys \cup withdrawn)
       /\ PendingKeys(s.pending) \subseteq PendingKeys(r.pending) \cup keys \cup withdrawn
  BY <1>9 DEF PendingKeys, pending
<1>12. PendingFits(r)
  BY <1>9, <1>11 DEF PendingFits
<1>13. e.superseded = withdrawn /\ EffectsTyped(e) /\ KnownAfter(e) = Known
       /\ \A k \in keys : Decided(e, k)
  BY EffectsOfDecision
<1>14. Accounts(r, e)
  BY <1>1, <1>11, <1>13 DEF Accounts
<1>15. r.completed \subseteq Known /\ PendingKeys(r.pending) \cap FlowKeys(flow) \subseteq Known
  BY <1>9, <1>11 DEF ResultsKnown, completed
<1>16. r \in Record(flow) /\ Counted(r) /\ PendingFits(r) /\ EffectsTyped(e) /\ Accounts(r, e)
       /\ r.completed \subseteq KnownAfter(e)
       /\ PendingKeys(r.pending) \cap FlowKeys(flow) \subseteq KnownAfter(e)
  BY <1>8, <1>10, <1>12, <1>13, <1>14, <1>15
<1>17. Writes(r, e)
  <2> HIDE DEF e
  <2> QED
    BY <1>16 DEF Writes
<1>18. QED
  BY <1>17 DEF r

-----------------------------------------------------------------------------
(* Decisions *)

LEMMA RestartedKeys ==
  ASSUME flow \in Flows, NEW q \in PlanOf(flow), NEW items \in Selections(flow)
  PROVE  /\ \A targets : RestartedBy(q, items, targets) \subseteq FlowKeys(flow)
         /\ \A keys : SentBack(q, items, keys) \subseteq TaskKeys
         /\ \A keys : Outdated(q, items, keys) \subseteq TaskKeys
         /\ FlowKeys(flow) \subseteq TaskKeys
<1>1. \A k : Affected(q, items, k) \subseteq FlowKeys(flow)
  BY AffectedKeys DEF Affected
<1>2. \A targets : RestartedBy(q, items, targets) \subseteq FlowKeys(flow)
  BY <1>1 DEF RestartedBy
<1>3. FlowKeys(flow) \subseteq TaskKeys
  BY KeysInFlow
<1>4. QED
  BY <1>2, <1>3 DEF SentBack, Outdated

LEMMA ReturnLastKeeps ==
  ASSUME IInv, HasCheckpoint, pc # "idle", ReturnLastResult(saved), flow' = flow, budget' = budget,
         UNCHANGED history
  PROVE  IInv'
<1>1. HistoryTyped'
  BY HistoryStays
<1>2. CASE saved.outcome = "implemented"
  <2>1. job' = [job EXCEPT !.status = "paused"] /\ issue' = StateFor(saved.outcome)
        /\ pc' = "finish" /\ rows' = rows /\ mem' = mem
    BY <1>2 DEF ReturnLastResult
  <2>2. job' \in JobRow /\ job'.decision = job.decision
    BY <2>1, MemoryOf DEF JobRow
  <2>3. issue' \in Issues /\ pc' \in Pcs
    BY <1>2, <2>1 DEF StateFor, Issues, Pcs, Working
  <2> QED
    BY <1>1, <2>1, <2>2, <2>3, MemoryOf, MoveKeeps
<1>3. CASE saved.outcome # "implemented"
  <2>1. StateFor(saved.outcome) \in Issues
    BY CheckpointOf, OutcomeStates DEF Record
  <2>2. StopPaused(StateFor(saved.outcome))
    BY <1>3 DEF ReturnLastResult
  <2> QED
    BY <1>1, <2>1, <2>2, StopPausedKeeps
<1>4. QED
  BY <1>2, <1>3

LEMMA RefuseKeeps ==
  ASSUME IInv, HasCheckpoint, pc # "idle", Refuse, flow' = flow, budget' = budget,
         UNCHANGED history
  PROVE  IInv'
  BY HistoryStays, StopPausedKeeps DEF Refuse, Issues

LEMMA DecideKeeps ==
  ASSUME IInv, HasCheckpoint, pc # "idle", flow' = flow, budget' = budget,
         NEW s \in Record(flow), Counted(s), PendingFits(s), ResultsKnown(s),
         s.pending = saved.pending, NEW d \in Decision, d.id = budget.decisions,
         NEW chosen \in SUBSET ApprovalOf(flow), NEW withdrawn \in SUBSET FlowKeys(flow),
         Accepts(d, chosen) \subseteq FlowKeys(flow) \cap Known,
         Decide(s, d, chosen, withdrawn)
  PROVE  IInv'
<1> DEFINE r == Settled(s, d, chosen, withdrawn)
           e == DecisionEffects(d, PendingKeys(chosen), withdrawn)
           redone == Redoes(d, chosen) \cap GraphKeys(s, s.plan)
<1>1. Writes(r, e)
  BY SettledFits
<1>2. Proceed(r, e)
      /\ accepted' = (accepted \ withdrawn) \cup (Accepts(d, chosen) \cap TaskKeys)
      /\ stale' = stale \cup withdrawn \cup SentBack(s.plan, s.items, redone)
      /\ outdated' = outdated \cup (Outdated(s.plan, s.items, redone) \ withdrawn)
  BY DEF Decide
<1>3. flow \in Flows /\ s.plan \in PlanOf(flow) /\ s.items \in Selections(flow)
  BY CheckpointOf DEF Record
<1>4. HistoryTyped'
  BY <1>2, <1>3, RestartedKeys DEF IInv, HistoryTyped
<1> HIDE DEF r, e
<1>5. QED
  BY <1>1, <1>2, <1>4, ProceedKeeps

\* A revised execution plan withdraws what it excludes and waits for itself.
LEMMA RevisePlanFits ==
  ASSUME IInv, HasCheckpoint, flow.planned, ~flow.intake, NEW d \in Decision, d.id = budget.decisions,
         NEW p \in flow.proposals, Resolvable(flow, p)
  PROVE  Writes(RevisePlan(saved, d, p), DecisionEffects(d, {PlanKey}, ExcludedWork(Plan(p, FALSE))))
<1> DEFINE plan == Plan(p, FALSE)
           i == InstallPlan(saved, plan)
           tasks == Effective(flow, plan).tasks
           e == DecisionEffects(d, {PlanKey}, ExcludedWork(plan))
           r == RevisePlan(saved, d, p)
<1>1. /\ saved \in Record(flow) /\ flow \in Flows /\ Counted(saved) /\ PendingFits(saved)
      /\ ResultsKnown(saved) /\ PendingApprovals = PendingKeys(saved.pending)
      /\ Tracked \subseteq FlowKeys(flow)
  BY CheckpointOf
<1>2. Installed(flow, plan) /\ plan \in PlanOf(flow)
  BY <1>1, ProposalsAssumption DEF Installed, PlanOf, Plan, Resolvable
<1>3. /\ i \in Record(flow) /\ i.completed \subseteq saved.completed
      /\ \A a \in i.pending :
             a.key[1] \in tasks /\ (a \in saved.pending \/ a.key \in saved.completed)
      /\ \A a \in saved.pending : a.key[1] \in tasks => a \in i.pending
      /\ \A field \in DOMAIN saved \ {"completed", "pending", "targets", "plan"} :
             i[field] = saved[field]
  BY <1>1, <1>2, InstallFits
<1>4. DOMAIN saved = {"done", "outcome", "completed", "pending", "options", "startApproved",
                      "startAction", "targets", "handoffs", "items", "plan", "attempt",
                      "lastDecision", "change", "sequence"}
  BY <1>1 DEF Record
<1>5. r = [i EXCEPT !.pending = i.pending \cup {Required(PlanKey)}, !.lastDecision = d.id]
  BY <1>3 DEF RevisePlan, Record
<1>6. i.sequence = saved.sequence /\ i.change = saved.change
  BY <1>3, <1>4
<1>7. Required(PlanKey) \in ApprovalOf(flow) /\ Required(PlanKey).key = PlanKey
  BY DEF Required, Approval, ApprovalOf
<1>8. PlanKey \notin FlowKeys(flow) /\ PlanKey \in AllKeys
  BY <1>1, ReservedKeys
<1>9. e.superseded = ExcludedWork(plan) /\ EffectsTyped(e) /\ KnownAfter(e) = Known
      /\ Decided(e, PlanKey)
  <2>1. /\ e.superseded = ExcludedWork(plan) /\ EffectsTyped(e) /\ KnownAfter(e) = Known
        /\ \A k \in {PlanKey} : Decided(e, k)
    BY EffectsOfDecision
  <2> HIDE DEF e
  <2> QED
    BY <2>1
<1>10. Start[1] \in tasks
  BY <1>1, <1>2, PlanTasks DEF Start, StartKey
<1>11. d.id \in 0..MaxDecisions
  BY DEF Decision
<1> HIDE DEF i, r, e, plan, tasks
<1>12. r \in Record(flow) /\ r.pending = i.pending \cup {Required(PlanKey)} /\ r.lastDecision = d.id
       /\ r.sequence = saved.sequence /\ r.change = saved.change /\ r.completed = i.completed
  BY <1>3, <1>5, <1>6, <1>7, <1>11 DEF Record
<1>13. Counted(r)
  <2>1. saved.sequence \in 0..MaxDecisions /\ saved.lastDecision \in 0..MaxDecisions
        /\ budget.decisions \in 0..MaxDecisions
    BY <1>1, MemoryOf DEF Record, Budget
  <2> QED
    BY <1>1, <1>12, <2>1, BoundsAssumption DEF Counted
<1>14. \A k \in PendingKeys(r.pending) :
          \/ k = PlanKey
          \/ k[1] \in tasks /\ (k \in PendingKeys(saved.pending) \/ k \in saved.completed)
  <2> TAKE k \in PendingKeys(r.pending)
  <2>1. PICK a \in r.pending : a.key = k
    BY DEF PendingKeys
  <2>2. CASE a = Required(PlanKey)
    <3>1. a.key = PlanKey
      BY <2>2 DEF Required, Approval
    <3> QED
      BY <2>1, <3>1
  <2>3. CASE a \in i.pending
    BY <1>3, <2>1, <2>3 DEF PendingKeys
  <2> QED
    BY <1>12, <2>2, <2>3
<1>15. saved.completed \subseteq FlowKeys(flow)
  BY <1>1 DEF Record
<1>16. PendingFits(r)
  BY <1>1, <1>12, <1>14, <1>15 DEF PendingFits
<1>17. \A k \in ExcludedWork(plan) : k \in Tracked /\ k[1] \notin tasks
  BY DEF ExcludedWork, tasks
<1>18. PendingKeys(r.pending) \cap e.superseded = {}
  BY <1>1, <1>8, <1>9, <1>14, <1>17
<1>19. ASSUME NEW k \in PendingKeys(saved.pending)
       PROVE  k \in PendingKeys(r.pending) \/ Decided(e, k) \/ k \in e.superseded
  <2>1. CASE k = PlanKey
    BY <2>1, <1>9
  <2>2. CASE k \in FlowKeys(flow)
    <3>1. CASE k[1] \in tasks
      <4>1. PICK a \in saved.pending : a.key = k
        BY <1>19 DEF PendingKeys
      <4>2. a \in r.pending
        BY <1>3, <1>12, <3>1, <4>1
      <4> QED
        BY <4>1, <4>2 DEF PendingKeys
    <3>2. CASE k[1] \notin tasks
      <4>1. k \in Tracked
        BY <1>1, <1>10, <2>2, <3>2 DEF ResultsKnown, Known
      <4>2. k \in ExcludedWork(plan)
        BY <3>2, <4>1 DEF ExcludedWork, tasks
      <4> QED
        BY <1>9, <4>2
    <3> QED
      BY <3>1, <3>2
  <2> QED
    BY <1>1, <2>1, <2>2 DEF PendingFits
<1>20. Accounts(r, e)
  BY <1>1, <1>18, <1>19 DEF Accounts
<1>21. r.completed \subseteq Known /\ PendingKeys(r.pending) \cap FlowKeys(flow) \subseteq Known
  BY <1>1, <1>3, <1>8, <1>12, <1>14 DEF ResultsKnown
<1>22. Writes(r, e)
  BY <1>9, <1>12, <1>13, <1>16, <1>20, <1>21 DEF Writes
<1>23. QED
  BY <1>22 DEF r, e, plan

LEMMA AcceptPlanFits ==
  ASSUME IInv, HasCheckpoint, NEW d \in Decision, d.id = budget.decisions
  PROVE  Writes(AcceptPlan(saved, d), DecisionEffects(d, {PlanKey}, {}))
<1> DEFINE plan == [saved.plan EXCEPT !.approved = TRUE]
           r == AcceptPlan(saved, d)
           e == DecisionEffects(d, {PlanKey}, {})
<1>1. /\ saved \in Record(flow) /\ flow \in Flows /\ Counted(saved) /\ PendingFits(saved)
      /\ ResultsKnown(saved) /\ PendingApprovals = PendingKeys(saved.pending)
  BY CheckpointOf
<1>2. plan \in PlanOf(flow)
  BY <1>1, ApprovedPlan DEF Record
<1>3. r = [saved EXCEPT !.plan = plan, !.lastDecision = d.id,
                        !.pending = {p \in saved.pending : p.key # PlanKey}]
  BY <1>1 DEF AcceptPlan, Record
<1>4. /\ e.superseded = {} /\ EffectsTyped(e) /\ KnownAfter(e) = Known
      /\ \A k \in {PlanKey} : Decided(e, k)
  BY EffectsOfDecision
<1>5. d.id \in 0..MaxDecisions
  BY DEF Decision
<1> HIDE DEF plan, r, e
<1>6. r \in Record(flow) /\ r.pending = {p \in saved.pending : p.key # PlanKey}
      /\ r.lastDecision = d.id /\ r.completed = saved.completed
      /\ r.sequence = saved.sequence /\ r.change = saved.change
  BY <1>1, <1>2, <1>3, <1>5 DEF Record
<1>7. PendingKeys(r.pending) = PendingKeys(saved.pending) \ {PlanKey}
  BY <1>6 DEF PendingKeys
<1>8. Counted(r)
  <2>1. saved.sequence \in 0..MaxDecisions /\ saved.lastDecision \in 0..MaxDecisions
        /\ budget.decisions \in 0..MaxDecisions
    BY <1>1, MemoryOf DEF Record, Budget
  <2> QED
    BY <1>1, <1>6, <2>1, BoundsAssumption DEF Counted
<1>9. PendingFits(r)
  BY <1>1, <1>6, <1>7 DEF PendingFits
<1>10. Accounts(r, e)
  BY <1>1, <1>4, <1>7 DEF Accounts
<1>11. r.completed \subseteq Known /\ PendingKeys(r.pending) \cap FlowKeys(flow) \subseteq Known
  BY <1>1, <1>6, <1>7 DEF ResultsKnown
<1>12. Writes(r, e)
  BY <1>4, <1>6, <1>8, <1>9, <1>10, <1>11 DEF Writes
<1>13. QED
  BY <1>12 DEF r, e

LEMMA DecidePlanKeeps ==
  ASSUME IInv, HasCheckpoint, pc # "idle", flow' = flow, budget' = budget,
         flow.planned, NEW d \in Decision, d.id = budget.decisions,
         d.verb = "revise" => ~flow.intake, DecidePlan(saved, d)
  PROVE  IInv'
<1>1. HistoryTyped'
  <2>1. accepted' \subseteq accepted /\ stale' = stale /\ outdated' = outdated
    BY DEF DecidePlan
  <2> QED
    BY <2>1 DEF IInv, HistoryTyped
<1>2. ASSUME d.verb = "revise", NEW p \in flow.proposals, Resolvable(flow, p),
             Proceed(RevisePlan(saved, d, p),
                     DecisionEffects(d, {PlanKey}, ExcludedWork(Plan(p, FALSE))))
      PROVE  IInv'
  BY <1>1, <1>2, RevisePlanFits, ProceedKeeps
<1>3. CASE Proceed(AcceptPlan(saved, d), DecisionEffects(d, {PlanKey}, {}))
  BY <1>1, <1>3, AcceptPlanFits, ProceedKeeps
<1>4. CASE Refuse /\ UNCHANGED accepted
  <2>1. UNCHANGED history
    BY <1>4 DEF DecidePlan, history
  <2> QED
    BY <1>4, <2>1, RefuseKeeps
<1>5. QED
  BY <1>2, <1>3, <1>4 DEF DecidePlan

\* A decision never accepts the plan or a change as if it were a result.
LEMMA AcceptsResults ==
  ASSUME IInv, HasCheckpoint, NEW d, ~PlanCommand(saved, d), ~IntakeHandles(saved, d)
  PROVE  Accepts(d, Chosen(saved, d)) \subseteq FlowKeys(flow) \cap Known
<1>1. /\ saved \in Record(flow) /\ flow \in Flows /\ PendingFits(saved) /\ ResultsKnown(saved)
  BY CheckpointOf
<1>2. SUFFICES ASSUME NEW p \in Chosen(saved, d), d.verb = "approve"
               PROVE  p.key \in FlowKeys(flow) \cap Known
  BY DEF Accepts
<1>3. p \in saved.pending /\ (d.target \notin {AllTarget, NoTarget} => p.key = d.target)
  BY DEF Chosen, Named
<1>4. p.key \in PendingKeys(saved.pending)
  BY <1>3 DEF PendingKeys
<1>5. p.key = PlanKey => ~flow.planned
  BY <1>2, <1>3, <1>4 DEF PlanCommand, PlanPending
<1>6. ~(flow.intake /\ saved.change.open)
  BY <1>2 DEF IntakeHandles
<1>7. p.key \in FlowKeys(flow)
  BY <1>1, <1>4, <1>5, <1>6 DEF PendingFits
<1>8. QED
  BY <1>1, <1>4, <1>7 DEF ResultsKnown

LEMMA HumanDecisionKeeps ==
  ASSUME IInv, HasCheckpoint, pc # "idle", flow' = flow, budget' = budget,
         NEW d \in Decision, d.id = budget.decisions, HumanCommand(d),
         ~IntakeHandles(saved, d), ApplyHumanDecision(saved, d)
  PROVE  IInv'
<1>1. /\ saved \in Record(flow) /\ flow \in Flows /\ Counted(saved) /\ PendingFits(saved)
      /\ ResultsKnown(saved)
  BY CheckpointOf
<1>2. saved.plan \in PlanOf(flow) /\ saved.items \in Selections(flow)
      /\ saved.pending \in SUBSET ApprovalOf(flow) /\ saved.completed \subseteq FlowKeys(flow)
      /\ saved.options \subseteq FlowKeys(flow)
  BY <1>1 DEF Record
<1>3. {} \in SUBSET FlowKeys(flow)
  OBVIOUS
<1>4. ASSUME ReturnLastResult(saved), UNCHANGED history
      PROVE  IInv'
  BY <1>4, ReturnLastKeeps
<1>5. CASE PlanCommand(saved, d) /\ DecidePlan(saved, d)
  <2>1. flow.planned /\ (d.verb = "revise" => ~flow.intake)
    BY <1>5 DEF PlanCommand, IntakeHandles
  <2> QED
    BY <1>5, <2>1, DecidePlanKeeps
<1>6. CASE ~PlanCommand(saved, d) /\ Decide(saved, d, Chosen(saved, d), {})
  <2>1. Chosen(saved, d) \in SUBSET ApprovalOf(flow)
    BY <1>2 DEF Chosen, Named
  <2>2. Accepts(d, Chosen(saved, d)) \subseteq FlowKeys(flow) \cap Known
    BY <1>6, AcceptsResults
  <2> QED
    BY <1>1, <1>3, <1>6, <2>1, <2>2, DecideKeeps
<1>7. CASE Repairs(saved, d)
           /\ Decide([saved EXCEPT !.outcome = "needs_human"], d, {Requested(d.target)}, {})
  <2> DEFINE s == [saved EXCEPT !.outcome = "needs_human"]
             chosen == {Requested(d.target)}
  <2>1. s \in Record(flow) /\ s.pending = saved.pending /\ s.completed = saved.completed
        /\ s.sequence = saved.sequence /\ s.lastDecision = saved.lastDecision
        /\ s.change = saved.change
    BY <1>1 DEF Record, Outcomes
  <2>2. d.target \in FlowKeys(flow)
    BY <1>1, <1>2, <1>7, KeysInFlow DEF Repairs, GraphKeys
  <2>3. chosen \in SUBSET ApprovalOf(flow)
    BY <2>2 DEF Requested, Approval, ApprovalOf
  <2>4. Accepts(d, chosen) = {}
    BY <1>7 DEF Accepts, Repairs
  <2> HIDE DEF s, chosen
  <2>5. Counted(s) /\ PendingFits(s) /\ ResultsKnown(s)
    BY <1>1, <2>1 DEF Counted, PendingFits, ResultsKnown
  <2>6. Decide(s, d, chosen, {})
    BY <1>7 DEF s, chosen
  <2> QED
    BY <1>3, <2>1, <2>3, <2>4, <2>5, <2>6, DecideKeeps
<1>8. CASE Reopens(saved, d)
           /\ Decide(saved, d, {Required(d.target)}, Affected(saved.plan, saved.items, d.target))
  <2> DEFINE chosen == {Required(d.target)}
             withdrawn == Affected(saved.plan, saved.items, d.target)
  <2>1. d.target \in FlowKeys(flow) /\ d.verb = "revise"
    BY <1>2, <1>8 DEF Reopens
  <2>2. chosen \in SUBSET ApprovalOf(flow)
    BY <2>1 DEF Required, Approval, ApprovalOf
  <2>3. Accepts(d, chosen) = {}
    BY <2>1 DEF Accepts
  <2>4. withdrawn \in SUBSET FlowKeys(flow)
    BY <1>1, <1>2, AffectedKeys DEF Affected
  <2> HIDE DEF chosen, withdrawn
  <2>5. Decide(saved, d, chosen, withdrawn)
    BY <1>8 DEF chosen, withdrawn
  <2> QED
    BY <1>1, <2>2, <2>3, <2>4, <2>5, DecideKeeps
<1>9. CASE Refuse /\ UNCHANGED history
  BY <1>9, RefuseKeeps
<1>10. QED
  BY <1>4, <1>5, <1>6, <1>7, <1>8, <1>9 DEF ApplyHumanDecision

-----------------------------------------------------------------------------
(* Changes *)

\* A new proposal takes the place of the one under discussion.
LEMMA ReconsideredFits ==
  ASSUME IInv, HasCheckpoint, flow.intake, NEW d \in Decision, d.id = budget.decisions,
         ~Duplicate(saved, d), NEW change \in ChangeOf(flow), change.open,
         NEW outcome \in Outcomes
  PROVE  Writes(Reconsidered(saved, d, change, outcome),
                [NoEffects EXCEPT !.superseded =
                     IF saved.change.open THEN {ChangeKey(saved.sequence)} ELSE {}])
<1> DEFINE n == saved.sequence + 1
           others == {p \in saved.pending : p.key[1] # "change"}
           new == IF change.ready THEN {Required(ChangeKey(n))} ELSE {}
           r == Reconsidered(saved, d, change, outcome)
           e == [NoEffects EXCEPT !.superseded =
                     IF saved.change.open THEN {ChangeKey(saved.sequence)} ELSE {}]
<1>1. /\ saved \in Record(flow) /\ flow \in Flows /\ Counted(saved) /\ PendingFits(saved)
      /\ ResultsKnown(saved) /\ PendingApprovals = PendingKeys(saved.pending)
  BY CheckpointOf
<1>2. /\ n \in 1..MaxDecisions /\ n <= d.id /\ d.id \in 0..MaxDecisions /\ n # saved.sequence
      /\ saved.attempt + 1 \in Nat
  <2>1. saved.sequence \in 0..MaxDecisions /\ saved.lastDecision \in 0..MaxDecisions
        /\ saved.attempt \in Nat /\ d.id \in 0..MaxDecisions /\ MaxDecisions \in Nat
    BY <1>1, BoundsAssumption DEF Record, Decision
  <2>2. saved.sequence <= saved.lastDecision /\ saved.lastDecision <= d.id
        /\ d.id # saved.lastDecision
    BY <1>1 DEF Counted, Duplicate
  <2> QED
    BY <2>1, <2>2
<1>3. Required(ChangeKey(n)) \in ApprovalOf(flow) /\ Required(ChangeKey(n)).key = ChangeKey(n)
  BY <1>2 DEF Required, Approval, ApprovalOf, ChangeKeys
<1>4. ChangeKey(n)[1] = "change" /\ ChangeKey(n) # ChangeKey(saved.sequence)
      /\ ChangeKey(saved.sequence)[1] = "change"
  BY <1>2 DEF ChangeKey
<1>5. r = [saved EXCEPT !.attempt = saved.attempt + 1, !.sequence = n, !.lastDecision = d.id,
                        !.change = change, !.outcome = outcome, !.pending = others \cup new]
  BY <1>1 DEF Reconsidered, Record
<1>6. e.superseded = (IF saved.change.open THEN {ChangeKey(saved.sequence)} ELSE {})
      /\ EffectsTyped(e) /\ KnownAfter(e) = Known
  BY DEF NoEffects, EffectsTyped, KnownAfter
<1>7. others \cup new \subseteq ApprovalOf(flow)
  BY <1>1, <1>3 DEF Record
<1> HIDE DEF r, e
<1>8. r \in Record(flow) /\ r.pending = others \cup new /\ r.sequence = n
      /\ r.lastDecision = d.id /\ r.change = change /\ r.completed = saved.completed
  <2> DEFINE pending == others \cup new
             attempt == saved.attempt + 1
  <2>1. n \in 0..MaxDecisions /\ attempt \in Nat /\ d.id \in 0..MaxDecisions
    BY <1>2
  <2>2. pending \in SUBSET ApprovalOf(flow)
    BY <1>7
  <2> HIDE DEF n, others, new, pending, attempt
  <2>3. r = [saved EXCEPT !.attempt = attempt, !.sequence = n, !.lastDecision = d.id,
                          !.change = change, !.outcome = outcome, !.pending = pending]
    BY <1>5 DEF pending, attempt
  <2>4. r \in Record(flow) /\ r.pending = pending /\ r.sequence = n
        /\ r.lastDecision = d.id /\ r.change = change /\ r.completed = saved.completed
    BY <1>1, <2>1, <2>2, <2>3 DEF Record
  <2> QED
    BY <2>4 DEF pending
<1>9. \A k \in PendingKeys(r.pending) :
          \/ k = ChangeKey(n) /\ change.ready
          \/ k \in PendingKeys(saved.pending) /\ k[1] # "change"
  <2> TAKE k \in PendingKeys(r.pending)
  <2>1. PICK a \in r.pending : a.key = k
    BY DEF PendingKeys
  <2>2. CASE a \in others
    BY <2>1, <2>2 DEF PendingKeys
  <2>3. CASE a \in new
    BY <1>3, <2>1, <2>3
  <2> QED
    BY <1>8, <2>2, <2>3
<1>10. ReservedAssumption /\ \A k \in FlowKeys(flow) : k[1] # "change"
  BY <1>1, ReservedKeys, ReservedAssumption
<1>11. PendingFits(r)
  BY <1>1, <1>2, <1>4, <1>8, <1>9 DEF PendingFits
<1>12. PendingKeys(r.pending) \cap e.superseded = {}
  BY <1>4, <1>6, <1>9
<1>13. ASSUME NEW k \in PendingKeys(saved.pending)
       PROVE  k \in PendingKeys(r.pending) \/ k \in e.superseded
  <2>1. CASE k \in FlowKeys(flow)
    <3>1. PICK a \in saved.pending : a.key = k
      BY <1>13 DEF PendingKeys
    <3>2. a \in r.pending
      BY <1>8, <1>10, <2>1, <3>1
    <3> QED
      BY <3>1, <3>2 DEF PendingKeys
  <2>2. CASE k \notin FlowKeys(flow)
    BY <1>1, <1>6, <2>2 DEF PendingFits
  <2> QED
    BY <2>1, <2>2
<1>14. Accounts(r, e)
  BY <1>1, <1>12, <1>13 DEF Accounts
<1>15. Counted(r)
  BY <1>2, <1>8 DEF Counted
<1>16. r.completed \subseteq Known /\ PendingKeys(r.pending) \cap FlowKeys(flow) \subseteq Known
  BY <1>1, <1>4, <1>8, <1>9, <1>10 DEF ResultsKnown
<1>17. Writes(r, e)
  BY <1>6, <1>8, <1>11, <1>14, <1>15, <1>16 DEF Writes
<1>18. QED
  BY <1>17 DEF r, e

LEMMA ProposeKeeps ==
  ASSUME IInv, HasCheckpoint, pc # "idle", flow' = flow, budget' = budget, flow.intake,
         NEW d \in Decision, d.id = budget.decisions, ~Duplicate(saved, d),
         ProposeChange(saved, d), UNCHANGED history
  PROVE  IInv'
<1> DEFINE e == [NoEffects EXCEPT !.superseded =
                     IF saved.change.open THEN {ChangeKey(saved.sequence)} ELSE {}]
           unready == [NoChange EXCEPT !.open = TRUE]
<1>1. saved \in Record(flow) /\ flow \in Flows /\ HistoryTyped'
  BY CheckpointOf, HistoryStays
<1>2. NoPlan \in PlanOf(flow)
  BY <1>1, FlowsAssumption DEF NoPlan, PlanOf
<1>3. unready \in ChangeOf(flow) /\ unready.open
  BY <1>2 DEF NoChange, ChangeOf
<1>4. ASSUME NEW change \in ChangeOf(flow), change.open, NEW outcome \in Outcomes,
             Pause(Reconsidered(saved, d, change, outcome), e)
      PROVE  IInv'
  <2>1. Writes(Reconsidered(saved, d, change, outcome), e)
    BY <1>4, ReconsideredFits
  <2> HIDE DEF e
  <2> QED
    BY <1>1, <1>4, <2>1, PauseKeeps
<1>5. ASSUME NEW c \in flow.changes, ValidChange(saved, c),
             Pause(Reconsidered(saved, d, [open |-> TRUE, ready |-> TRUE,
                           plan |-> IF c.settings = {} THEN NoPlan ELSE ChangedPlan(saved, c),
                           affected |-> ChangeScope(saved, c),
                           revisions |-> c.revisions], "needs_human"), e)
      PROVE  IInv'
  <2> DEFINE change == [open |-> TRUE, ready |-> TRUE,
                        plan |-> IF c.settings = {} THEN NoPlan ELSE ChangedPlan(saved, c),
                        affected |-> ChangeScope(saved, c), revisions |-> c.revisions]
  <2>1. ChangedPlan(saved, c) \in PlanOf(flow)
    <3>1. CASE c.settings = {}
      BY <1>1, <3>1 DEF ChangedPlan, Record
    <3>2. CASE c.settings # {}
      <4>1. PICK p : p = CHOOSE q \in c.settings : TRUE
        OBVIOUS
      <4>2. p \in c.settings
        BY <3>2, <4>1
      <4>3. p \in flow.proposals /\ Resolvable(flow, p)
        BY <1>1, <1>5, <4>2, ProposalsAssumption DEF ValidChange
      <4>4. Plan(p, TRUE) \in PlanOf(flow)
        BY <1>1, <4>3, ProposalsAssumption DEF Installed, PlanOf, Plan, Resolvable
      <4> QED
        BY <3>2, <4>1, <4>4 DEF ChangedPlan
    <3> QED
      BY <3>1, <3>2
  <2>2. saved.items \in Selections(flow)
    BY <1>1 DEF Record
  <2>3. ChangeScope(saved, c) \subseteq FlowKeys(flow)
    <3>1. \A k : Affected(ChangedPlan(saved, c), saved.items, k) \subseteq FlowKeys(flow)
      BY <1>1, <2>1, <2>2, AffectedKeys DEF Affected
    <3> QED
      BY <3>1 DEF ChangeScope
  <2>4. c.revisions \subseteq FlowKeys(flow)
    BY <1>1, <1>5, <2>1, <2>2, KeysInFlow DEF ValidChange, GraphKeys
  <2>5. change \in ChangeOf(flow) /\ change.open
    BY <1>2, <2>1, <2>3, <2>4 DEF ChangeOf
  <2>6. Pause(Reconsidered(saved, d, change, "needs_human"), e)
    BY <1>5
  <2> HIDE DEF change, e
  <2> QED
    BY <1>4, <2>5, <2>6 DEF Outcomes
<1>6. QED
  <2>1. "needs_info" \in Outcomes /\ "needs_human" \in Outcomes
    BY DEF Outcomes
  <2>2. \/ \E c \in flow.changes :
              /\ ValidChange(saved, c)
              /\ Pause(Reconsidered(saved, d, [open |-> TRUE, ready |-> TRUE,
                           plan |-> IF c.settings = {} THEN NoPlan ELSE ChangedPlan(saved, c),
                           affected |-> ChangeScope(saved, c),
                           revisions |-> c.revisions], "needs_human"), e)
        \/ Pause(Reconsidered(saved, d, unready, "needs_info"), e)
        \/ Pause(Reconsidered(saved, d, unready, "needs_human"), e)
    BY DEF ProposeChange
  <2> HIDE DEF e, unready
  <2> QED
    BY <1>3, <1>4, <1>5, <2>1, <2>2

\* An accepted change withdraws what it undoes, with the approvals of that.
LEMMA ChangeAppliedFits ==
  ASSUME IInv, HasCheckpoint, flow.intake, saved.change.ready,
         NEW d \in Decision, d.id = budget.decisions
  PROVE  /\ Writes(ChangeApplied(saved, d),
                   DecisionEffects(d, {ChangeKey(saved.sequence)}, Undone(saved)))
         /\ Undone(saved) \subseteq FlowKeys(flow)
<1> DEFINE plan == saved.change.plan
           i == IF plan.present THEN InstallPlan(saved, plan) ELSE saved
           tasks == Effective(flow, plan).tasks
           undone == Undone(saved)
           restarts == Start \in saved.change.revisions
           e == DecisionEffects(d, {ChangeKey(saved.sequence)}, undone)
           r == ChangeApplied(saved, d)
<1>1. /\ saved \in Record(flow) /\ flow \in Flows /\ Counted(saved) /\ PendingFits(saved)
      /\ ResultsKnown(saved) /\ PendingApprovals = PendingKeys(saved.pending)
      /\ Tracked \subseteq FlowKeys(flow)
  BY CheckpointOf
<1>2. saved.change \in ChangeOf(flow)
  BY <1>1 DEF Record
<1>3. plan \in PlanOf(flow) /\ saved.change.affected \subseteq FlowKeys(flow)
      /\ saved.change.revisions \subseteq FlowKeys(flow)
  BY <1>2 DEF ChangeOf
<1>4. plan.present => Installed(flow, plan)
  BY <1>3 DEF PlanOf, NoPlan
<1>5. /\ i \in Record(flow) /\ i.completed \subseteq saved.completed
      /\ \A a \in i.pending : a \in saved.pending \/ a.key \in saved.completed
      /\ \A a \in saved.pending : plan.present /\ a.key[1] \in tasks => a \in i.pending
      /\ ~plan.present => i.pending = saved.pending
      /\ i.sequence = saved.sequence /\ i.change = saved.change
  <2>1. CASE plan.present
    <3>1. i = InstallPlan(saved, plan)
      BY <2>1
    <3>2. /\ i \in Record(flow) /\ i.completed \subseteq saved.completed
          /\ \A a \in i.pending :
                 a.key[1] \in tasks /\ (a \in saved.pending \/ a.key \in saved.completed)
          /\ \A a \in saved.pending : a.key[1] \in tasks => a \in i.pending
          /\ \A field \in DOMAIN saved \ {"completed", "pending", "targets", "plan"} :
                 i[field] = saved[field]
      BY <1>1, <1>4, <2>1, <3>1, InstallFits
    <3>3. {"sequence", "change"} \subseteq DOMAIN saved \ {"completed", "pending", "targets", "plan"}
      BY <1>1 DEF Record
    <3> HIDE DEF i
    <3> QED
      BY <2>1, <3>2, <3>3
  <2>2. CASE ~plan.present
    BY <1>1, <2>2
  <2> QED
    BY <2>1, <2>2
<1>6. undone \subseteq FlowKeys(flow)
  BY <1>1, <1>3 DEF Undone, Removed, ExcludedWork
<1> DEFINE completed == i.completed \ undone
           pending == {p \in i.pending : p.key[1] # "change" /\ p.key \notin undone}
           targets == (i.targets \ undone) \cup (saved.change.revisions \ {Start})
           startApproved == i.startApproved /\ ~restarts
           startAction == IF restarts THEN "revise" ELSE i.startAction
<1>7. r = [i EXCEPT !.completed = completed, !.pending = pending, !.targets = targets,
                    !.options = {}, !.startApproved = startApproved, !.startAction = startAction,
                    !.change = NoChange, !.lastDecision = d.id, !.outcome = "implemented"]
  <2>1. r = [i EXCEPT !.completed = @ \ undone,
            !.pending = {p \in @ : p.key[1] # "change" /\ p.key \notin undone},
            !.targets = (@ \ undone) \cup (saved.change.revisions \ {Start}),
            !.options = {},
            !.startApproved = @ /\ ~restarts,
            !.startAction = IF restarts THEN "revise" ELSE @,
            !.change = NoChange, !.lastDecision = d.id, !.outcome = "implemented"]
    BY DEF ChangeApplied
  <2> HIDE DEF i, undone, restarts, r
  <2> QED
    BY <1>5, <2>1 DEF Record
<1>8. completed \subseteq FlowKeys(flow) /\ pending \subseteq ApprovalOf(flow)
      /\ targets \subseteq FlowKeys(flow) \cup {PlanKey} \cup ChangeKeys
      /\ startApproved \in BOOLEAN /\ startAction \in {"none", "accept", "revise"}
      /\ d.id \in 0..MaxDecisions /\ NoChange \in ChangeOf(flow)
  <2>1. NoPlan \in PlanOf(flow)
    BY <1>1, FlowsAssumption DEF NoPlan, PlanOf
  <2>2. NoChange \in ChangeOf(flow)
    BY <2>1 DEF NoChange, ChangeOf
  <2>3. d.id \in 0..MaxDecisions
    BY DEF Decision
  <2> HIDE DEF i, undone, restarts
  <2> QED
    BY <1>3, <1>5, <2>2, <2>3 DEF Record
<1>9. /\ e.superseded = undone /\ EffectsTyped(e) /\ KnownAfter(e) = Known
      /\ Decided(e, ChangeKey(saved.sequence))
  <2>1. /\ e.superseded = undone /\ EffectsTyped(e) /\ KnownAfter(e) = Known
        /\ \A k \in {ChangeKey(saved.sequence)} : Decided(e, k)
    BY EffectsOfDecision
  <2> HIDE DEF e
  <2> QED
    BY <2>1
<1>10. \A k \in FlowKeys(flow) : k[1] # "change"
  BY <1>1, ReservedKeys
<1>11. \A k \in FlowKeys(flow) \cap Known : plan.present /\ k[1] \notin tasks => k \in undone
  <2> TAKE k \in FlowKeys(flow) \cap Known
  <2>1. HAVE plan.present /\ k[1] \notin tasks
  <2>2. k # Start
    BY <1>1, <1>3, <2>1, PlanTasks DEF Start, StartKey
  <2> QED
    BY <2>1, <2>2 DEF Undone, Removed, ExcludedWork, Known
<1> HIDE DEF i, r, e, tasks, undone, completed, targets, startApproved, startAction, restarts
<1>12. r \in Record(flow) /\ r.pending = pending /\ r.completed = completed
       /\ r.lastDecision = d.id /\ r.sequence = saved.sequence
  <2> HIDE DEF pending
  <2> QED
    BY <1>5, <1>7, <1>8 DEF Record, Outcomes
<1>13. \A k \in PendingKeys(r.pending) :
          /\ k[1] # "change" /\ k \notin undone
          /\ k \in PendingKeys(saved.pending) \/ k \in saved.completed
  BY <1>5, <1>12 DEF PendingKeys
<1>14. saved.completed \subseteq FlowKeys(flow)
  BY <1>1 DEF Record
<1>15. PendingKeys(r.pending) \subseteq FlowKeys(flow)
  <2>1. \A k \in PendingKeys(saved.pending) : k[1] # "change" => k \in FlowKeys(flow)
    BY <1>1 DEF PendingFits, ChangeKey
  <2> QED
    BY <1>13, <1>14, <2>1
<1>16. PendingFits(r)
  BY <1>15 DEF PendingFits
<1>17. ASSUME NEW k \in PendingKeys(saved.pending)
       PROVE  k \in PendingKeys(r.pending) \/ Decided(e, k) \/ k \in e.superseded
  <2>1. CASE k \notin FlowKeys(flow)
    BY <1>1, <1>9, <1>17, <2>1 DEF PendingFits
  <2>2. CASE k \in FlowKeys(flow) /\ k \notin undone
    <3>1. PICK a \in saved.pending : a.key = k
      BY <1>17 DEF PendingKeys
    <3>2. k \in Known
      BY <1>1, <1>17, <2>2 DEF ResultsKnown
    <3>3. a \in i.pending
      BY <1>5, <1>11, <2>2, <3>1, <3>2
    <3>4. a \in r.pending
      BY <1>10, <1>12, <2>2, <3>1, <3>3
    <3> QED
      BY <3>1, <3>4 DEF PendingKeys
  <2> QED
    BY <1>9, <2>1, <2>2
<1>18. Accounts(r, e)
  BY <1>1, <1>9, <1>13, <1>17 DEF Accounts
<1>19. Counted(r)
  <2>1. saved.sequence \in 0..MaxDecisions /\ saved.lastDecision \in 0..MaxDecisions
        /\ budget.decisions \in 0..MaxDecisions
    BY <1>1, MemoryOf DEF Record, Budget
  <2> QED
    BY <1>1, <1>12, <2>1, BoundsAssumption DEF Counted
<1>20. r.completed \subseteq Known /\ PendingKeys(r.pending) \cap FlowKeys(flow) \subseteq Known
  BY <1>1, <1>5, <1>12, <1>13 DEF ResultsKnown, completed
<1>21. Writes(r, e)
  BY <1>9, <1>12, <1>16, <1>18, <1>19, <1>20 DEF Writes
<1>22. QED
  BY <1>6, <1>21 DEF r, e, undone

LEMMA SameFits ==
  ASSUME IInv, HasCheckpoint
  PROVE  Writes(saved, NoEffects)
<1>1. /\ saved \in Record(flow) /\ Counted(saved) /\ PendingFits(saved)
      /\ ResultsKnown(saved) /\ PendingApprovals = PendingKeys(saved.pending)
  BY CheckpointOf
<1>2. EffectsTyped(NoEffects) /\ KnownAfter(NoEffects) = Known /\ NoEffects.superseded = {}
  BY DEF EffectsTyped, NoEffects, KnownAfter
<1>3. Accounts(saved, NoEffects)
  BY <1>1, <1>2 DEF Accounts
<1>4. QED
  BY <1>1, <1>2, <1>3 DEF Writes, ResultsKnown

LEMMA IntakeKeeps ==
  ASSUME IInv, HasCheckpoint, pc # "idle", flow' = flow, budget' = budget,
         NEW d \in Decision, d.id = budget.decisions,
         IntakeHandles(saved, d), IntakeDecision(saved, d)
  PROVE  IInv'
<1>1. flow.intake
  BY DEF IntakeHandles
<1>2. ASSUME ReturnLastResult(saved), UNCHANGED history
      PROVE  IInv'
  BY <1>2, ReturnLastKeeps
<1>3. ASSUME ~Duplicate(saved, d), ProposeChange(saved, d), UNCHANGED history
      PROVE  IInv'
  BY <1>1, <1>3, ProposeKeeps
<1>4. ASSUME saved.change.ready, AcceptChange(saved, d)
      PROVE  IInv'
  <2> DEFINE r == ChangeApplied(saved, d)
             e == DecisionEffects(d, {ChangeKey(saved.sequence)}, Undone(saved))
  <2>1. Writes(r, e) /\ Undone(saved) \subseteq FlowKeys(flow)
    BY <1>1, <1>4, ChangeAppliedFits
  <2>2. Proceed(r, e) /\ accepted' = accepted \ Undone(saved)
        /\ stale' = stale \cup Undone(saved) /\ outdated' = outdated
    BY <1>4 DEF AcceptChange
  <2>3. FlowKeys(flow) \subseteq TaskKeys
    BY CheckpointOf DEF TaskKeys, FlowKeys
  <2>4. HistoryTyped'
    BY <2>1, <2>2, <2>3 DEF IInv, HistoryTyped
  <2> HIDE DEF r, e
  <2> QED
    BY <2>1, <2>2, <2>4, ProceedKeeps
<1>5. ASSUME Pause([saved EXCEPT !.outcome = "needs_human"], NoEffects), UNCHANGED history
      PROVE  IInv'
  <2>1. Writes([saved EXCEPT !.outcome = "needs_human"], NoEffects)
    BY SameFits, OutcomeFits DEF Outcomes
  <2> QED
    BY <1>5, <2>1, HistoryStays, PauseKeeps
<1>6. QED
  BY <1>2, <1>3, <1>4, <1>5 DEF IntakeDecision

LEMMA ResumeKeeps == IInv /\ ResumeWithDecision => IInv'
<1> SUFFICES ASSUME IInv, ResumeWithDecision PROVE IInv'
  OBVIOUS
<1>1. PICK d : d = job.decision
  OBVIOUS
<1>2. flow' = flow /\ budget' = budget /\ pc = "resume"
      /\ IF IntakeHandles(saved, d) THEN IntakeDecision(saved, d) ELSE ResumeWith(saved, d)
  BY <1>1 DEF ResumeWithDecision
<1>3. d \in Decision /\ d.id = budget.decisions /\ HasCheckpoint
  BY <1>1, <1>2, MemoryOf DEF JobRow
<1>4. CASE IntakeHandles(saved, d)
  BY <1>2, <1>3, <1>4, IntakeKeeps
<1>5. CASE ~IntakeHandles(saved, d) /\ HumanCommand(d)
  BY <1>2, <1>3, <1>5, HumanDecisionKeeps DEF ResumeWith
<1>6. CASE ~IntakeHandles(saved, d) /\ ~HumanCommand(d)
  <2>1. ResumeUndecided(saved)
    BY <1>2, <1>6 DEF ResumeWith
  <2>2. HistoryTyped'
    BY <2>1, HistoryStays DEF ResumeUndecided
  <2>3. CASE saved.pending # {}
    BY <1>2, <2>1, <2>2, <2>3, FailKeeps DEF ResumeUndecided
  <2>4. CASE saved.pending = {}
    <3>1. durable' = durable /\ mem' = mem
          /\ pc' = IF saved.startAction = "revise" THEN "plan" ELSE "prepare"
      BY <2>1, <2>4 DEF ResumeUndecided
    <3>2. rows' = rows /\ job' = job /\ issue' = issue
      BY <3>1 DEF durable, rows
    <3>3. pc' \in Pcs
      BY <3>1 DEF Pcs
    <3> QED
      BY <1>2, <1>3, <2>2, <2>4, <3>1, <3>2, <3>3, MemoryOf, MoveKeeps
  <2> QED
    BY <2>3, <2>4
<1>7. QED
  BY <1>4, <1>5, <1>6

-----------------------------------------------------------------------------
(* Planning and waves *)

LEMMA NothingAsked ==
  ASSUME IInv, pc \in {"plan", "prepare", "wave", "run", "results"}
  PROVE  PendingApprovals = {}
<1>1. CASE HasCheckpoint
  <2>1. saved.pending = {} /\ PendingApprovals = PendingKeys(saved.pending)
    BY <1>1, CheckpointOf DEF IInv, NothingPending
  <2> QED
    BY <2>1 DEF PendingKeys
<1>2. CASE ~HasCheckpoint
  BY <1>2 DEF IInv, Matched
<1>3. QED
  BY <1>1, <1>2

\* While nothing is asked, a snapshot asks for what it names and drops nothing.
LEMMA SnapshotWrites ==
  ASSUME IInv, pc \in {"plan", "prepare", "wave", "run", "results"},
         NEW m \in Memory(flow), Counted(m), NEW outcome \in Outcomes, NEW sa \in BOOLEAN,
         NEW pending \in SUBSET ApprovalOf(flow), NEW e, EffectsTyped(e), e.superseded = {},
         PendingKeys(pending) \subseteq FlowKeys(flow) \cap KnownAfter(e),
         m.completed \subseteq KnownAfter(e)
  PROVE  Writes(Snapshot(m, outcome, pending, sa), e)
<1> DEFINE r == Snapshot(m, outcome, pending, sa)
<1>1. r \in Record(flow) /\ Counted(r) /\ PendingFits(r)
      /\ r.pending = pending /\ r.completed = m.completed
  BY MemoryOf, SnapshotFits
<1> HIDE DEF r
<1>2. Accounts(r, e)
  BY NothingAsked DEF Accounts
<1>3. Writes(r, e)
  BY <1>1, <1>2 DEF Writes
<1>4. QED
  BY <1>3 DEF r

LEMMA EnsureWaitingFits ==
  ASSUME NEW f \in Flows, NEW m \in Memory(f), NEW keys \in SUBSET FlowKeys(f)
  PROVE  LET r == EnsureWaiting(m, keys)
         IN  /\ r \in Memory(f)
             /\ \A field \in DOMAIN m \ {"staged", "finished"} : r[field] = m[field]
             /\ m.staged \subseteq r.staged
             /\ \A k \in keys : k \in r.staged \/ children[k] \notin {"none", "ended"}
<1> DEFINE r == EnsureWaiting(m, keys)
           new == {k \in keys : k \in m.finished \/ children[k] \in {"none", "ended"}}
<1>1. r = [m EXCEPT !.staged = m.staged \cup new, !.finished = m.finished \ keys]
  BY DEF EnsureWaiting, Memory
<1>2. new \subseteq FlowKeys(f)
  OBVIOUS
<1> HIDE DEF r
<1>3. r \in Memory(f) /\ r.staged = m.staged \cup new
      /\ \A field \in DOMAIN m \ {"staged", "finished"} : r[field] = m[field]
  <2> HIDE DEF new
  <2> QED
    BY <1>1, <1>2 DEF Memory
<1>4. \A k \in keys : k \in r.staged \/ children[k] \notin {"none", "ended"}
  BY <1>3
<1>5. QED
  BY <1>3, <1>4 DEF r

MemoryFields == {"items", "plan", "completed", "running", "wave", "finished", "staged",
                 "handoffs", "answers", "attempt", "outcome", "lastDecision", "sequence"}

LEMMA FieldsOfMemory ==
  ASSUME NEW f, NEW m \in Memory(f)
  PROVE  DOMAIN m = MemoryFields
  BY DEF Memory, MemoryFields

LEMMA RestoredFits ==
  ASSUME flow \in Flows, NEW s \in Record(flow), NEW items \in Selections(flow),
         NEW plan \in PlanOf(flow)
  PROVE  LET m == Restored(s, items, plan)
         IN  /\ m \in Memory(flow) /\ m.completed \subseteq s.completed \cup {Start}
             /\ m.lastDecision = s.lastDecision /\ m.sequence = s.sequence /\ m.wave = {}
             /\ m.answers = NoAnswers /\ m.items = items /\ m.plan = plan
<1> DEFINE m == Restored(s, items, plan)
           keys == KeysOf(Effective(flow, plan), items)
           completed == ((s.completed \cap keys) \cup {Start}) \ RestartedBy(plan, items, s.targets)
<1>1. Start \in FlowKeys(flow)
  BY KeysInFlow DEF Start
<1>2. s.completed \subseteq FlowKeys(flow) /\ s.handoffs \in CountsOf(flow) /\ s.attempt \in Nat
      /\ s.outcome \in Outcomes /\ s.lastDecision \in 0..MaxDecisions
      /\ s.sequence \in 0..MaxDecisions
  BY DEF Record
<1>3. completed \subseteq FlowKeys(flow) /\ completed \subseteq s.completed \cup {Start}
  BY <1>1, <1>2
<1>4. NoWork \in Memory(flow) /\ NoWork.wave = {} /\ NoWork.answers = NoAnswers
  BY NoWorkTyped DEF NoWork
<1>5. m = [NoWork EXCEPT !.items = items, !.plan = plan, !.completed = completed,
               !.finished = s.completed, !.handoffs = s.handoffs,
               !.attempt = s.attempt, !.outcome = s.outcome,
               !.lastDecision = s.lastDecision, !.sequence = s.sequence]
  BY DEF Restored
<1> HIDE DEF m, completed
<1>6. m \in Memory(flow)
  BY <1>2, <1>3, <1>4, <1>5 DEF Memory
<1>7. m.completed = completed /\ m.lastDecision = s.lastDecision /\ m.sequence = s.sequence
      /\ m.wave = {} /\ m.answers = NoAnswers /\ m.items = items /\ m.plan = plan
  BY <1>4, <1>5 DEF Memory
<1>8. QED
  BY <1>3, <1>6, <1>7 DEF m

LEMMA BeginKeeps ==
  ASSUME IInv, pc \in {"plan", "prepare"}, flow' = flow, budget' = budget, HistoryTyped',
         NEW s \in Record(flow), Counted(s), s.completed \subseteq Known,
         NEW items \in Selections(flow), NEW plan \in PlanOf(flow), NEW sa \in BOOLEAN,
         BeginWork(s, items, plan, sa)
  PROVE  IInv'
<1> DEFINE m == Restored(s, items, plan)
<1>1. /\ m \in Memory(flow) /\ m.completed \subseteq s.completed \cup {Start}
      /\ m.lastDecision = s.lastDecision /\ m.sequence = s.sequence /\ m.wave = {}
      /\ m.answers = NoAnswers /\ m.items = items /\ m.plan = plan
  BY MemoryOf, RestoredFits
<1>2. \/ FailCoordinator
      \/ Pause(Snapshot(m, "needs_human", {Required(Start)}, FALSE), NoEffects)
      \/ mem' = EnsureWaiting(m, Incomplete(m)) /\ pc' = "wave" /\ durable' = durable
  BY DEF BeginWork
<1> HIDE DEF m
<1>3. m.completed \subseteq Known /\ Counted(m)
  BY <1>1 DEF Known, Counted
<1>4. Start \in FlowKeys(flow) /\ KeysOf(Effective(flow, plan), items) \subseteq FlowKeys(flow)
  BY MemoryOf, KeysInFlow DEF Start
<1>5. CASE FailCoordinator
  BY <1>5, FailKeeps
<1>6. CASE Pause(Snapshot(m, "needs_human", {Required(Start)}, FALSE), NoEffects)
  <2>1. {Required(Start)} \in SUBSET ApprovalOf(flow)
        /\ PendingKeys({Required(Start)}) = {Start}
    BY <1>4 DEF Required, Approval, ApprovalOf, PendingKeys
  <2>2. EffectsTyped(NoEffects) /\ KnownAfter(NoEffects) = Known /\ NoEffects.superseded = {}
    BY DEF EffectsTyped, NoEffects, KnownAfter
  <2>3. Start \in Known
    BY DEF Known
  <2>4. Writes(Snapshot(m, "needs_human", {Required(Start)}, FALSE), NoEffects)
    BY <1>1, <1>3, <1>4, <2>1, <2>2, <2>3, SnapshotWrites DEF Outcomes
  <2> QED
    BY <1>6, <2>4, PauseKeeps
<1>7. CASE mem' = EnsureWaiting(m, Incomplete(m)) /\ pc' = "wave" /\ durable' = durable
  <2>1. Incomplete(m) \in SUBSET FlowKeys(flow)
    BY <1>1, <1>4 DEF Incomplete, Keys
  <2>2. mem' \in Memory(flow)
        /\ \A field \in MemoryFields \ {"staged", "finished"} : mem'[field] = m[field]
    BY <1>1, <1>7, <2>1, MemoryOf, EnsureWaitingFits, FieldsOfMemory
  <2>3. mem'.completed = m.completed /\ mem'.wave = {} /\ mem'.answers = NoAnswers
        /\ mem'.sequence = m.sequence /\ mem'.lastDecision = m.lastDecision
    BY <1>1, <2>2 DEF MemoryFields
  <2>4. Counted(mem') /\ DOMAIN mem'.answers = {}
    BY <1>3, <2>3 DEF Counted, NoAnswers
  <2>5. rows' = rows /\ job' = job /\ issue' = issue
    BY <1>7 DEF durable, rows
  <2>6. HasCheckpoint => saved.pending = {}
    BY DEF IInv, NothingPending
  <2>7. pc' \in Pcs
    BY <1>7 DEF Pcs, Working
  <2> QED
    BY <1>3, <1>7, <2>2, <2>3, <2>4, <2>5, <2>6, <2>7, MemoryOf, MoveKeeps
<1>8. QED
  BY <1>2, <1>5, <1>6, <1>7

LEMMA PrepareKeeps == IInv /\ Prepare => IInv'
<1> SUFFICES ASSUME IInv, Prepare PROVE IInv'
  OBVIOUS
<1>1. flow' = flow /\ budget' = budget /\ HistoryTyped' /\ pc = "prepare"
      /\ BeginWork(saved, saved.items, saved.plan, saved.startApproved)
  BY HistoryStays DEF Prepare
<1>2. HasCheckpoint
  BY <1>1, MemoryOf
<1>3. /\ saved \in Record(flow) /\ Counted(saved) /\ ResultsKnown(saved)
  BY <1>2, CheckpointOf
<1>4. saved.items \in Selections(flow) /\ saved.plan \in PlanOf(flow)
      /\ saved.startApproved \in BOOLEAN /\ saved.completed \subseteq Known
  BY <1>3 DEF Record, ResultsKnown
<1>5. QED
  BY <1>1, <1>3, <1>4, BeginKeeps

LEMMA BaseFits ==
  ASSUME IInv
  PROVE  Base \in Record(flow) /\ Counted(Base) /\ Base.completed \subseteq Known
<1>1. CASE HasCheckpoint
  <2>1. saved \in Record(flow) /\ Counted(saved) /\ ResultsKnown(saved)
    BY <1>1, CheckpointOf
  <2>2. Base = [saved EXCEPT !.attempt = saved.attempt + 1]
    BY <1>1, <2>1 DEF Base, Record
  <2>3. saved.attempt + 1 \in Nat
    BY <2>1 DEF Record
  <2>4. Base \in Record(flow) /\ Base.completed = saved.completed
        /\ Base.sequence = saved.sequence /\ Base.lastDecision = saved.lastDecision
    BY <2>1, <2>2, <2>3 DEF Record
  <2> QED
    BY <2>1, <2>4 DEF Counted, ResultsKnown
<1>2. CASE ~HasCheckpoint
  <2> DEFINE m == [NoWork EXCEPT !.completed = {Start}]
  <2>1. Start \in FlowKeys(flow) /\ NoWork \in Memory(flow)
    <3>1. NoPlan \in PlanOf(flow) /\ {} \in Selections(flow)
      BY MemoryOf, FlowsAssumption DEF NoPlan, PlanOf, Selections
    <3> QED
      BY <3>1, MemoryOf, KeysInFlow, NoWorkTyped DEF Start
  <2>2. m \in Memory(flow) /\ m.completed = {Start}
    BY <2>1 DEF Memory
  <2>3. m.sequence = 0 /\ m.lastDecision = 0
    BY DEF NoWork
  <2>4. Counted(m)
    BY <2>3, MemoryOf DEF Counted, Budget
  <2>5. Base = Snapshot(m, "implemented", {}, FALSE)
    BY <1>2 DEF Base, Blank
  <2>6. {} \in SUBSET ApprovalOf(flow) /\ PendingKeys({}) \subseteq FlowKeys(flow)
    BY DEF PendingKeys
  <2>7. "implemented" \in Outcomes /\ FALSE \in BOOLEAN /\ flow \in Flows
    BY MemoryOf DEF Outcomes
  <2> HIDE DEF m
  <2>8. Base \in Record(flow) /\ Counted(Base) /\ Base.completed = {Start}
    BY <2>2, <2>4, <2>5, <2>6, <2>7, SnapshotFits
  <2> QED
    BY <2>8 DEF Known
<1>3. QED
  BY <1>1, <1>2

LEMMA PlannerSucceedsKeeps == IInv /\ PlannerSucceeds => IInv'
<1> SUFFICES ASSUME IInv, PlannerSucceeds PROVE IInv'
  OBVIOUS
<1>1. flow' = flow /\ budget' = budget /\ pc = "plan"
  BY DEF PlannerSucceeds
<1>2. HistoryTyped'
  BY DEF PlannerSucceeds, IInv, HistoryTyped
<1>3. PICK items \in flow.selections, p \in PlanOptions :
          IF flow.planned /\ ~Resolvable(flow, p)
          THEN FailCoordinator
          ELSE BeginWork([Base EXCEPT !.outcome = "implemented"], items,
                         IF flow.planned THEN Plan(p, FALSE) ELSE Base.plan, FALSE)
  BY DEF PlannerSucceeds
<1>4. CASE FailCoordinator
  BY <1>1, <1>2, <1>4, FailKeeps
<1>5. CASE (flow.planned => Resolvable(flow, p))
           /\ BeginWork([Base EXCEPT !.outcome = "implemented"], items,
                        IF flow.planned THEN Plan(p, FALSE) ELSE Base.plan, FALSE)
  <2> DEFINE s == [Base EXCEPT !.outcome = "implemented"]
             plan == IF flow.planned THEN Plan(p, FALSE) ELSE Base.plan
  <2>1. Base \in Record(flow) /\ Counted(Base) /\ Base.completed \subseteq Known
    BY BaseFits
  <2>2. s \in Record(flow) /\ s.completed = Base.completed /\ s.sequence = Base.sequence
        /\ s.lastDecision = Base.lastDecision
    BY <2>1 DEF Record, Outcomes
  <2>3. Counted(s) /\ s.completed \subseteq Known
    BY <2>1, <2>2 DEF Counted
  <2>4. plan \in PlanOf(flow)
    <3>1. CASE flow.planned
      <4>1. p \in flow.proposals /\ Resolvable(flow, p) /\ plan = Plan(p, FALSE)
        BY <1>5, <3>1 DEF PlanOptions
      <4>2. Plan(p, FALSE) \in PlanOf(flow)
        <5> HIDE DEF plan, s
        <5> QED
          BY <4>1, MemoryOf, ProposalsAssumption DEF Installed, PlanOf, Plan, Resolvable
      <4> QED
        BY <4>1, <4>2
    <3>2. CASE ~flow.planned
      BY <2>1, <3>2 DEF Record
    <3> QED
      BY <3>1, <3>2
  <2>5. items \in Selections(flow)
    BY DEF Selections
  <2>6. BeginWork(s, items, plan, FALSE)
    BY <1>5
  <2> HIDE DEF s, plan
  <2> QED
    BY <1>1, <1>2, <2>2, <2>3, <2>4, <2>5, <2>6, BeginKeeps
<1>6. QED
  BY <1>3, <1>4, <1>5

LEMMA PlannerPausesKeeps == IInv /\ PlannerPauses => IInv'
<1> SUFFICES ASSUME IInv, PlannerPauses PROVE IInv'
  OBVIOUS
<1>1. flow' = flow /\ budget' = budget /\ pc = "plan" /\ HistoryTyped'
  BY HistoryStays DEF PlannerPauses
<1>2. PICK outcome \in {"needs_human", "needs_info"} :
          Pause([Base EXCEPT
                    !.outcome = outcome,
                    !.pending = IF outcome = "needs_human" THEN {Requested(Start)} ELSE {},
                    !.startApproved = FALSE, !.options = {},
                    !.startAction = IF outcome = "needs_info" THEN "revise" ELSE @], NoEffects)
  BY DEF PlannerPauses
<1> DEFINE pending == IF outcome = "needs_human" THEN {Requested(Start)} ELSE {}
           action == IF outcome = "needs_info" THEN "revise" ELSE Base.startAction
           r == [Base EXCEPT !.outcome = outcome, !.pending = pending, !.startApproved = FALSE,
                             !.options = {}, !.startAction = action]
<1>3. Base \in Record(flow) /\ Counted(Base) /\ Base.completed \subseteq Known
  BY BaseFits
<1>4. Start \in FlowKeys(flow) /\ Start \in Known
  <2>1. NoPlan \in PlanOf(flow) /\ {} \in Selections(flow)
    BY MemoryOf, FlowsAssumption DEF NoPlan, PlanOf, Selections
  <2> QED
    BY <2>1, MemoryOf, KeysInFlow DEF Start, Known
<1>5. pending \in SUBSET ApprovalOf(flow) /\ PendingKeys(pending) \subseteq {Start}
  BY <1>4 DEF Requested, Approval, ApprovalOf, PendingKeys
<1>6. Pause(r, NoEffects)
  BY <1>2, <1>3 DEF Record
<1>7. action \in {"none", "accept", "revise"} /\ outcome \in Outcomes
  BY <1>3 DEF Record, Outcomes
<1> HIDE DEF pending, action, r
<1>8. r \in Record(flow) /\ r.pending = pending /\ r.completed = Base.completed
      /\ r.sequence = Base.sequence /\ r.lastDecision = Base.lastDecision
  BY <1>3, <1>5, <1>7 DEF r, Record
<1>9. EffectsTyped(NoEffects) /\ KnownAfter(NoEffects) = Known /\ NoEffects.superseded = {}
  BY DEF EffectsTyped, NoEffects, KnownAfter
<1>10. Counted(r) /\ PendingFits(r)
  BY <1>3, <1>4, <1>5, <1>8 DEF Counted, PendingFits
<1>11. Accounts(r, NoEffects)
  BY <1>1, <1>9, NothingAsked DEF Accounts
<1>12. Writes(r, NoEffects)
  BY <1>3, <1>4, <1>5, <1>8, <1>9, <1>10, <1>11 DEF Writes
<1>13. QED
  BY <1>1, <1>6, <1>12, PauseKeeps

LEMMA StartWaveKeeps == IInv /\ StartWave => IInv'
<1> SUFFICES ASSUME IInv, StartWave PROVE IInv'
  OBVIOUS
<1>1. flow' = flow /\ budget' = budget /\ pc = "wave" /\ HistoryTyped'
  BY HistoryStays DEF StartWave
<1>2. /\ flow \in Flows /\ mem \in Memory(flow) /\ Counted(mem) /\ mem.completed \subseteq Known
      /\ mem.wave \subseteq Tracked /\ DOMAIN mem.answers \subseteq Tracked /\ budget \in Budget
  BY MemoryOf
<1>3. CASE FailCoordinator
  BY <1>1, <1>3, FailKeeps
<1>4. ASSUME NEW wave \in Waves(Ready),
             LET m == [EnsureWaiting(mem, wave) EXCEPT
                           !.attempt = @ + 1, !.running = @ \cup wave, !.wave = wave]
             IN  /\ Commit(Snapshot(m, m.outcome, {}, TRUE),
                           [NoEffects EXCEPT !.staged = m.staged, !.started = wave])
                 /\ mem' = [m EXCEPT !.staged = {}]
                 /\ pc' = "run"
                 /\ UNCHANGED <<job, issue>>
      PROVE  IInv'
  <2> DEFINE w == EnsureWaiting(mem, wave)
             m == [w EXCEPT !.attempt = @ + 1, !.running = @ \cup wave, !.wave = wave]
             e == [NoEffects EXCEPT !.staged = m.staged, !.started = wave]
  <2>1. wave \in SUBSET FlowKeys(flow)
    <3>1. Ready \subseteq KeysOf(Effective(flow, mem.plan), mem.items)
      BY DEF Ready, ReadyIn
    <3>2. mem.plan \in PlanOf(flow) /\ mem.items \in Selections(flow)
      BY <1>2 DEF Memory
    <3> QED
      BY <1>2, <1>4, <3>1, <3>2, KeysInFlow DEF Waves
  <2>2. /\ w \in Memory(flow)
        /\ \A field \in MemoryFields \ {"staged", "finished"} : w[field] = mem[field]
    BY <1>2, <2>1, EnsureWaitingFits, FieldsOfMemory
  <2>3. w.completed = mem.completed /\ w.answers = mem.answers /\ w.sequence = mem.sequence
        /\ w.lastDecision = mem.lastDecision
    BY <2>2 DEF MemoryFields
  <2> HIDE DEF w
  <2>4. /\ m \in Memory(flow) /\ m.completed = mem.completed /\ m.answers = mem.answers
        /\ m.sequence = mem.sequence /\ m.lastDecision = mem.lastDecision /\ m.wave = wave
    <3> DEFINE attempt == w.attempt + 1
               running == w.running \cup wave
    <3>1. attempt \in Nat /\ running \subseteq FlowKeys(flow)
      BY <2>1, <2>2 DEF Memory
    <3>2. m = [w EXCEPT !.attempt = attempt, !.running = running, !.wave = wave]
      BY <2>2 DEF Memory
    <3> HIDE DEF m, attempt, running
    <3> QED
      BY <2>1, <2>2, <2>3, <3>1, <3>2 DEF Memory
  <2>5. Commit(Snapshot(m, m.outcome, {}, TRUE), e) /\ mem' = [m EXCEPT !.staged = {}]
        /\ pc' = "run" /\ job' = job /\ issue' = issue
    BY <1>4 DEF w
  <2> HIDE DEF m
  <2>6. m.staged \subseteq FlowKeys(flow) /\ m.outcome \in Outcomes
    BY <2>4 DEF Memory
  <2>7. e.staged = m.staged /\ e.started = wave /\ e.decided = {} /\ e.superseded = {}
    BY DEF NoEffects
  <2>8. /\ mem' \in Memory(flow) /\ mem'.completed = mem.completed /\ mem'.answers = mem.answers
        /\ mem'.sequence = mem.sequence /\ mem'.lastDecision = mem.lastDecision
        /\ mem'.wave = wave
    BY <2>4, <2>5 DEF Memory
  <2> HIDE DEF e
  <2>9. EffectsTyped(e)
    BY <2>1, <2>6, <2>7 DEF EffectsTyped
  <2>10. Counted(m) /\ Counted(mem')
    BY <1>2, <2>4, <2>8 DEF Counted
  <2>11. m.completed \subseteq KnownAfter(e) /\ mem'.completed \subseteq KnownAfter(e)
    BY <1>2, <2>4, <2>8 DEF KnownAfter
  <2>12. {} \in SUBSET ApprovalOf(flow) /\ PendingKeys({}) = {} /\ TRUE \in BOOLEAN
    BY DEF PendingKeys
  <2>13. Writes(Snapshot(m, m.outcome, {}, TRUE), e)
    BY <1>1, <2>4, <2>6, <2>7, <2>9, <2>10, <2>11, <2>12, SnapshotWrites
  <2>14. Snapshot(m, m.outcome, {}, TRUE).pending = {}
    BY DEF Snapshot
  <2>15. pc' \in Pcs \ {"idle"}
    BY <2>5 DEF Pcs, Working
  <2> QED
    BY <1>1, <1>2, <2>5, <2>7, <2>8, <2>10, <2>11, <2>13, <2>14, <2>15, WorkKeeps
<1>5. QED
  BY <1>3, <1>4 DEF StartWave

LEMMA AnswersTyped ==
  ASSUME flow \in Flows, NEW wave \in SUBSET FlowKeys(flow),
         NEW answers \in [wave -> UNION {AnswersOf(k) : k \in wave}]
  PROVE  answers \in AnswersIn(flow) /\ DOMAIN answers = wave
<1>1. ASSUME NEW k \in wave, NEW a \in AnswersOf(k)
      PROVE  a \in AnswerOf(flow)
  <2>1. k[1] \in flow.tasks
    BY DEF FlowKeys, KeysOf
  <2>2. flow.handoffs[k[1]] \subseteq flow.tasks
    BY <2>1, FlowsAssumption
  <2> QED
    BY <2>2 DEF AnswersOf, AnswerOf
<1>2. UNION {AnswersOf(k) : k \in wave} \subseteq AnswerOf(flow)
  BY <1>1
<1>3. answers \in [wave -> AnswerOf(flow)]
  BY <1>2
<1>4. QED
  BY <1>3 DEF AnswersIn

LEMMA OutcomesOfAnswers ==
  ASSUME NEW f, NEW a \in AnswerOf(f), a[1] # "error"
  PROVE  OutcomeOf(a) \in Outcomes
  BY DEF AnswerOf, Plain, Broken, Handoff, OutcomeOf, Outcomes

LEMMA FinishWaveKeeps == IInv /\ FinishWave => IInv'
<1> SUFFICES ASSUME IInv, FinishWave PROVE IInv'
  OBVIOUS
<1>1. flow' = flow /\ pc = "run" /\ job' = job /\ issue' = issue /\ pc' = "results"
  BY DEF FinishWave
<1>2. /\ flow \in Flows /\ mem \in Memory(flow) /\ Counted(mem) /\ mem.completed \subseteq Known
      /\ mem.wave \subseteq Tracked /\ budget \in Budget
  BY MemoryOf
<1>3. mem.wave \in SUBSET FlowKeys(flow) /\ mem.outcome \in Outcomes
  BY <1>2 DEF Memory
<1>4. PICK answers \in [mem.wave -> UNION {AnswersOf(k) : k \in mem.wave}] :
        LET done  == {k \in Answering(answers, "implemented") : ~Gated(mem.plan, k)}
            heard == mem.wave \ Answering(answers, "error")
            fresh(old) == {k \in Answering(answers, "implemented") :
                                DependenciesOf(flow, mem.items, k) \cap old = {}}
        IN  /\ \A k \in mem.wave : answers[k] \in AnswersOf(k)
            /\ IF \E k \in mem.wave : answers[k] \in Broken THEN Fails ELSE UNCHANGED budget
            /\ \E last \in IF heard = {} THEN {mem.outcome} ELSE {OutcomeOf(answers[k]) : k \in heard} :
                  LET m == [mem EXCEPT !.completed = @ \cup done, !.running = @ \ done,
                                       !.finished = @ \cup mem.wave,
                                       !.outcome = last, !.answers = answers]
                  IN  /\ Commit(Snapshot(m, last, {}, TRUE), [NoEffects EXCEPT !.ended = mem.wave])
                      /\ mem' = m
            /\ accepted' = accepted \ mem.wave
            /\ stale' = stale \ fresh(stale) /\ outdated' = outdated \ fresh(outdated)
  BY DEF FinishWave
<1> DEFINE done == {k \in Answering(answers, "implemented") : ~Gated(mem.plan, k)}
           heard == mem.wave \ Answering(answers, "error")
<1>5. answers \in AnswersIn(flow) /\ DOMAIN answers = mem.wave
  BY <1>2, <1>3, AnswersTyped
<1>6. PICK last \in IF heard = {} THEN {mem.outcome} ELSE {OutcomeOf(answers[k]) : k \in heard} :
        LET m == [mem EXCEPT !.completed = @ \cup done, !.running = @ \ done,
                             !.finished = @ \cup mem.wave,
                             !.outcome = last, !.answers = answers]
        IN  /\ Commit(Snapshot(m, last, {}, TRUE), [NoEffects EXCEPT !.ended = mem.wave])
            /\ mem' = m
  BY <1>4
<1>7. HistoryTyped'
  BY <1>4 DEF IInv, HistoryTyped
<1>8. budget' \in Budget /\ budget'.decisions = budget.decisions
  BY <1>2, <1>4, FailsTyped
<1>9. last \in Outcomes
  <2>1. \A k \in heard : answers[k] \in AnswerOf(flow) /\ answers[k][1] # "error"
    <3>1. answers \in [mem.wave -> AnswerOf(flow)]
      BY <1>5 DEF AnswersIn
    <3> QED
      BY <1>5, <3>1 DEF Answering
  <2>2. \A k \in heard : OutcomeOf(answers[k]) \in Outcomes
    BY <2>1, OutcomesOfAnswers
  <2> HIDE DEF heard
  <2> QED
    BY <1>3, <1>6, <2>2
<1> DEFINE completed == mem.completed \cup done
           running == mem.running \ done
           finished == mem.finished \cup mem.wave
           m == [mem EXCEPT !.completed = completed, !.running = running,
                            !.finished = finished, !.outcome = last, !.answers = answers]
           e == [NoEffects EXCEPT !.ended = mem.wave]
<1>10. Commit(Snapshot(m, last, {}, TRUE), e) /\ mem' = m
  BY <1>2, <1>6 DEF Memory
<1>11. done \subseteq mem.wave
  BY <1>5 DEF Answering
<1>12. completed \subseteq FlowKeys(flow) /\ completed \subseteq Known
       /\ running \subseteq FlowKeys(flow) /\ finished \subseteq FlowKeys(flow)
  BY <1>2, <1>3, <1>11 DEF Memory, Known
<1>13. e.staged = {} /\ e.started = {} /\ e.superseded = {} /\ e.decided = {}
  BY DEF NoEffects
<1> HIDE DEF completed, running, finished, m, e, done, heard
<1>14. /\ m \in Memory(flow) /\ m.completed = completed /\ m.answers = answers
       /\ m.sequence = mem.sequence /\ m.lastDecision = mem.lastDecision /\ m.wave = mem.wave
  BY <1>2, <1>5, <1>9, <1>12 DEF m, Memory
<1>15. EffectsTyped(e) /\ KnownAfter(e) = Known
  BY <1>13 DEF EffectsTyped, KnownAfter
<1>16. Counted(m)
  BY <1>2, <1>14 DEF Counted
<1>17. {} \in SUBSET ApprovalOf(flow) /\ PendingKeys({}) = {} /\ TRUE \in BOOLEAN
  BY DEF PendingKeys
<1>18. Writes(Snapshot(m, last, {}, TRUE), e)
  BY <1>1, <1>9, <1>12, <1>13, <1>14, <1>15, <1>16, <1>17, SnapshotWrites
<1>19. Snapshot(m, last, {}, TRUE).pending = {} /\ pc' \in Pcs \ {"idle"} /\ pc # "idle"
  BY <1>1 DEF Snapshot, Pcs, Working
<1>20. QED
  BY <1>1, <1>2, <1>5, <1>7, <1>8, <1>10, <1>12, <1>13, <1>14, <1>15, <1>16, <1>18, <1>19,
     WorkKeeps

LEMMA CompleteKeeps == IInv /\ Complete => IInv'
<1> SUFFICES ASSUME IInv, Complete PROVE IInv'
  OBVIOUS
<1>1. flow' = flow /\ pc = "wave" /\ job' = job /\ issue' = issue /\ pc' = "finish"
      /\ mem' = mem /\ budget' = budget /\ HistoryTyped'
  BY HistoryStays DEF Complete
<1> DEFINE s == Snapshot(mem, "implemented", {}, TRUE)
           r == [s EXCEPT !.done = TRUE]
           e == [NoEffects EXCEPT !.staged = mem.staged]
<1>2. Commit(r, e)
  BY DEF Complete
<1>3. /\ flow \in Flows /\ mem \in Memory(flow) /\ Counted(mem) /\ mem.completed \subseteq Known
      /\ mem.wave \subseteq Tracked /\ DOMAIN mem.answers \subseteq Tracked /\ budget \in Budget
  BY MemoryOf
<1>4. e.staged = mem.staged /\ e.started = {} /\ e.superseded = {} /\ e.decided = {}
  BY DEF NoEffects
<1> HIDE DEF e
<1>5. EffectsTyped(e) /\ mem.completed \subseteq KnownAfter(e)
  BY <1>3, <1>4 DEF EffectsTyped, KnownAfter, Memory
<1>6. {} \in SUBSET ApprovalOf(flow) /\ PendingKeys({}) = {} /\ TRUE \in BOOLEAN
      /\ "implemented" \in Outcomes
  BY DEF PendingKeys, Outcomes
<1>7. Writes(s, e)
  BY <1>1, <1>3, <1>4, <1>5, <1>6, SnapshotWrites
<1>8. s.pending = {}
  BY DEF Snapshot
<1> HIDE DEF s
<1>9. s \in Record(flow)
  BY <1>7 DEF Writes
<1>10. r \in Record(flow) /\ r.pending = {} /\ r.completed = s.completed
       /\ r.sequence = s.sequence /\ r.lastDecision = s.lastDecision /\ r.change = s.change
  BY <1>8, <1>9 DEF Record
<1> HIDE DEF r
<1>11. Writes(r, e)
  BY <1>7, <1>8, <1>10 DEF Writes, Counted, PendingFits, Accounts
<1>12. pc' \in Pcs \ {"idle"}
  BY <1>1 DEF Pcs, Working
<1>13. QED
  BY <1>1, <1>2, <1>3, <1>4, <1>5, <1>10, <1>11, <1>12, WorkKeeps

-----------------------------------------------------------------------------
(* Feedback of a wave *)

LEMMA HandoffEdges ==
  ASSUME flow \in Flows, NEW m \in Memory(flow), NEW k \in OverLimit(m) \cup Feeding(m)
  PROVE  EdgeOf(m, k) \in FlowKeys(flow) \X flow.tasks /\ k \in DOMAIN m.answers
<1>1. k \in DOMAIN m.answers /\ Included(m, k)
  BY DEF OverLimit, Feeding, Handing
<1>2. m.answers \in AnswersIn(flow) /\ m.plan \in PlanOf(flow)
  BY DEF Memory
<1>3. DOMAIN m.answers \subseteq FlowKeys(flow)
  BY <1>2 DEF AnswersIn
<1>4. m.answers[k][2] \in flow.tasks
  BY <1>1, <1>2, PlanTasks DEF Included
<1>5. QED
  BY <1>1, <1>3, <1>4 DEF EdgeOf

(* A counter never exceeds the limit: it is raised below it, and a handoff *)
(* at the limit resets it.                                                 *)
LEMMA CountsFit ==
  ASSUME flow \in Flows, NEW m \in Memory(flow)
  PROVE  CountedHandoffs(m) \in CountsOf(flow)
<1> DEFINE D == DOMAIN m.handoffs \cup {EdgeOf(m, k) : k \in OverLimit(m) \cup Feeding(m)}
<1>1. m.handoffs \in CountsOf(flow)
  BY DEF Memory
<1>2. PICK dom \in SUBSET (FlowKeys(flow) \X flow.tasks) : m.handoffs \in [dom -> 0..MaxHandoffs]
  BY <1>1 DEF CountsOf
<1>3. D \in SUBSET (FlowKeys(flow) \X flow.tasks)
  BY <1>2, HandoffEdges
<1>4. ASSUME NEW edge \in D
      PROVE  CountedHandoffs(m)[edge] \in 0..MaxHandoffs
  <2>1. CountedHandoffs(m)[edge] =
           IF \E k \in OverLimit(m) : edge = EdgeOf(m, k) THEN 0
           ELSE IF \E k \in Feeding(m) : edge = EdgeOf(m, k) THEN CountOf(m, edge) + 1
           ELSE m.handoffs[edge]
    BY DEF CountedHandoffs
  <2>2. MaxHandoffs \in Nat /\ CountOf(m, edge) \in 0..MaxHandoffs
    BY <1>2, BoundsAssumption DEF CountOf
  <2>3. CASE \E k \in OverLimit(m) : edge = EdgeOf(m, k)
    BY <2>1, <2>2, <2>3
  <2>4. CASE ~(\E k \in OverLimit(m) : edge = EdgeOf(m, k))
             /\ \E k \in Feeding(m) : edge = EdgeOf(m, k)
    <3>1. PICK k \in Feeding(m) : edge = EdgeOf(m, k)
      BY <2>4
    <3>2. ~(CountOf(m, edge) >= MaxHandoffs)
      BY <3>1 DEF Feeding, OverLimit
    <3>3. CountOf(m, edge) + 1 \in 0..MaxHandoffs
      BY <2>2, <3>2
    <3>4. CountedHandoffs(m)[edge] = CountOf(m, edge) + 1
      BY <2>1, <2>4
    <3> QED
      BY <3>3, <3>4
  <2>5. CASE ~(\E k \in OverLimit(m) : edge = EdgeOf(m, k))
             /\ ~(\E k \in Feeding(m) : edge = EdgeOf(m, k))
    <3>1. edge \in DOMAIN m.handoffs
      BY <2>5
    <3>2. CountedHandoffs(m)[edge] = m.handoffs[edge]
      BY <2>1, <2>5
    <3> QED
      BY <1>2, <3>1, <3>2
  <2> QED
    BY <2>3, <2>4, <2>5
<1>5. CountedHandoffs(m) \in [D -> 0..MaxHandoffs]
  BY <1>4 DEF CountedHandoffs
<1>6. QED
  BY <1>3, <1>5 DEF CountsOf

LEMMA AfterFeedbackFits ==
  ASSUME flow \in Flows, NEW m \in Memory(flow)
  PROVE  LET r == AfterFeedback(m)
         IN  /\ r \in Memory(flow) /\ r.completed = m.completed \ Restarted(m)
             /\ r.plan = m.plan /\ r.items = m.items /\ r.answers = NoAnswers /\ r.wave = {}
             /\ r.sequence = m.sequence /\ r.lastDecision = m.lastDecision
<1> DEFINE r == AfterFeedback(m)
           completed == m.completed \ Restarted(m)
           running == m.running \ Restarted(m)
<1>1. r = [m EXCEPT !.completed = completed, !.running = running,
                    !.handoffs = CountedHandoffs(m), !.answers = NoAnswers, !.wave = {}]
  BY DEF AfterFeedback, Memory
<1>2. completed \subseteq FlowKeys(flow) /\ running \subseteq FlowKeys(flow)
  BY DEF Memory
<1>3. CountedHandoffs(m) \in CountsOf(flow)
  BY CountsFit
<1>4. NoAnswers \in AnswersIn(flow)
  BY DEF NoAnswers, AnswersIn
<1> HIDE DEF r, completed, running
<1>5. /\ r \in Memory(flow) /\ r.completed = completed
      /\ r.plan = m.plan /\ r.items = m.items /\ r.answers = NoAnswers /\ r.wave = {}
      /\ r.sequence = m.sequence /\ r.lastDecision = m.lastDecision
  BY <1>1, <1>2, <1>3, <1>4 DEF Memory
<1>6. QED
  BY <1>5 DEF r, completed

(* Feedback asks about results of the wave, what they blocked, or the      *)
(* start; only a result of the wave is asked about as it stands.           *)
LEMMA AskedKeys ==
  ASSUME NEW m, NEW p \in AllAsked(m)
  PROVE  \/ p = Required(p.key) /\ p.key \in DOMAIN m.answers
         \/ p = Requested(p.key) /\ p.key \in DOMAIN m.answers \cup {Start} \cup Blocked(m)
<1>1. \A k : Required(k).key = k /\ Requested(k).key = k
  BY DEF Required, Requested, Approval
<1>2. ASSUME p \in Asked(m)
      PROVE  \/ p = Required(p.key) /\ p.key \in DOMAIN m.answers
             \/ p = Requested(p.key) /\ p.key \in DOMAIN m.answers \cup {Start} \cup Blocked(m)
  <2>1. CASE p \in {Required(k) : k \in GatedResults(m)}
    BY <1>1, <2>1 DEF GatedResults, Answering
  <2>2. CASE p \in {Requested(k) : k \in {x \in Handing(m) : ~Included(m, x)}}
    BY <1>1, <2>2 DEF Handing
  <2>3. CASE p \in {Requested(k) : k \in (Blocked(m) \ Answering(m.answers, "needs_info"))
                                                \ GatedResults(m)}
    BY <1>1, <2>3
  <2>4. CASE p \in {Requested(k) : k \in {x \in {Start} : PlanSentBack(m)}}
    BY <1>1, <2>4
  <2> QED
    BY <1>2, <2>1, <2>2, <2>3, <2>4 DEF Asked
<1>3. ASSUME p \in {Requested(k) : k \in Clarifying(m) \ PendingKeys(Asked(m))}
      PROVE  p = Requested(p.key) /\ p.key \in DOMAIN m.answers
  BY <1>1, <1>3 DEF Clarifying, Answering
<1>4. QED
  BY <1>2, <1>3 DEF AllAsked

LEMMA AskedFits ==
  ASSUME flow \in Flows, NEW m \in Memory(flow), Fed(m) \cup Blocked(m) \subseteq Keys(m)
  PROVE  /\ AllAsked(m) \in SUBSET ApprovalOf(flow)
         /\ PendingKeys(AllAsked(m)) \subseteq FlowKeys(flow)
         /\ Keys(m) \subseteq FlowKeys(flow) /\ Start \in FlowKeys(flow)
<1>1. m.plan \in PlanOf(flow) /\ m.items \in Selections(flow) /\ m.answers \in AnswersIn(flow)
  BY DEF Memory
<1>2. Keys(m) \subseteq FlowKeys(flow) /\ Start \in FlowKeys(flow)
  BY <1>1, KeysInFlow DEF Keys, Start
<1>3. DOMAIN m.answers \subseteq FlowKeys(flow)
  BY <1>1 DEF AnswersIn
<1>4. ASSUME NEW p \in AllAsked(m)
      PROVE  p \in ApprovalOf(flow) /\ p.key \in FlowKeys(flow)
  <2>1. (p = Required(p.key) \/ p = Requested(p.key)) /\ p.key \in FlowKeys(flow)
    BY <1>2, <1>3, AskedKeys
  <2> QED
    BY <2>1 DEF Required, Requested, Approval, ApprovalOf
<1>5. QED
  BY <1>2, <1>4 DEF PendingKeys

(* A key that is asked about has a child row, or gets one at this pause:   *)
(* what was blocked is restarted, so it is unfinished and made to wait.    *)
LEMMA AskedAreKnown ==
  ASSUME IInv, NEW m \in Memory(flow), Fed(m) \cup Blocked(m) \subseteq Keys(m),
         DOMAIN m.answers \subseteq Tracked, NEW fed \in SUBSET FlowKeys(flow),
         NEW keys, keys = Waiting(AfterFeedback(m), AllAsked(m)) \cup fed
  PROVE  PendingKeys(AllAsked(m))
            \subseteq Known \cup EnsureWaiting(AfterFeedback(m), keys).staged
<1> DEFINE m1 == AfterFeedback(m)
           r == EnsureWaiting(m1, keys)
<1>1. flow \in Flows /\ m.plan \in PlanOf(flow) /\ m.items \in Selections(flow)
  BY MemoryOf DEF Memory
<1>2. m1 \in Memory(flow) /\ m1.completed = m.completed \ Restarted(m)
      /\ m1.plan = m.plan /\ m1.items = m.items
  BY <1>1, AfterFeedbackFits
<1>3. Keys(m) \subseteq FlowKeys(flow)
  BY <1>1, AskedFits
<1>4. Keys(m1) = Keys(m)
  BY <1>2 DEF Keys
<1> HIDE DEF m1
<1>5. keys \in SUBSET FlowKeys(flow)
  BY <1>3, <1>4 DEF Waiting, Incomplete, m1
<1>6. \A k \in keys : k \in r.staged \/ children[k] \notin {"none", "ended"}
  BY <1>1, <1>2, <1>5, EnsureWaitingFits
<1> HIDE DEF r
<1>7. ASSUME NEW k \in Blocked(m), k \notin DOMAIN m.answers
      PROVE  k \in Tracked \cup r.staged
  <2>1. k \in Keys(m)
    BY <1>7
  <2>2. k \in Affected(m.plan, m.items, k)
    BY <1>1, <2>1, AffectedKeys DEF Affected, Keys
  <2>3. k \in Restarted(m)
    BY <1>7, <2>2 DEF Restarted, RestartedBy
  <2>4. k \in Incomplete(m1)
    BY <1>2, <1>4, <2>1, <2>3 DEF Incomplete
  <2>5. Required(k) \notin AllAsked(m)
    <3>1. Required(k).key = k /\ Required(k) # Requested(k)
      BY DEF Required, Requested, Approval
    <3> QED
      BY <1>7, <3>1, AskedKeys
  <2>6. k \in keys
    BY <2>4, <2>5 DEF Waiting, m1
  <2>7. k \in TaskKeys
    BY <1>1, <1>3, <2>1, KeysInFlow
  <2> QED
    BY <1>6, <2>6, <2>7 DEF Tracked
<1>8. ASSUME NEW k \in PendingKeys(AllAsked(m))
      PROVE  k \in Known \cup r.staged
  <2>1. PICK p \in AllAsked(m) : p.key = k
    BY <1>8 DEF PendingKeys
  <2>2. k \in DOMAIN m.answers \/ k = Start \/ k \in Blocked(m)
    BY <2>1, AskedKeys
  <2> QED
    BY <1>7, <2>2 DEF Known
<1>9. QED
  BY <1>8 DEF r, m1

LEMMA CollectKeeps ==
  ASSUME IInv, pc = "results", flow' = flow, budget' = budget,
         NEW m0 \in Memory(flow), Counted(m0), m0.completed \subseteq Known,
         DOMAIN m0.answers \subseteq Tracked, CollectFeedback(m0)
  PROVE  IInv'
<1> DEFINE asked == AllAsked(m0)
           m1 == AfterFeedback(m0)
           pauses == asked # {} \/ Clarifying(m0) # {}
           keys == IF pauses THEN Waiting(m1, asked) \cup RestartedByFeedback(m0)
                             ELSE RestartedByFeedback(m0)
           m == EnsureWaiting(m1, keys)
           e == [NoEffects EXCEPT !.staged = m.staged]
           s == Snapshot(m, "needs_info", {}, TRUE)
<1>1. flow \in Flows /\ m0.plan \in PlanOf(flow) /\ m0.items \in Selections(flow) /\ job \in JobRow
      /\ budget \in Budget /\ issue \in Issues
  BY MemoryOf DEF Memory
<1>2. CASE ~((Fed(m0) \cup Blocked(m0)) \subseteq Keys(m0))
  <2>1. FeedbackEnds("failed") /\ UNCHANGED history
    BY <1>2 DEF CollectFeedback
  <2>2. RowsStay /\ Stops("failed", "blocked")
    BY <2>1 DEF FeedbackEnds, RowsStay, EndsLive, IInv, RowsTyped
  <2>3. HistoryTyped'
    BY <2>1, HistoryStays
  <2>4. "failed" \in Statuses /\ "blocked" \in Issues
    BY DEF Statuses, Issues
  <2> QED
    BY <1>1, <2>2, <2>3, <2>4, EndKeeps
<1>3. CASE (Fed(m0) \cup Blocked(m0)) \subseteq Keys(m0)
  <2>1. \/ asked # {} /\ Pause(Snapshot(m, "needs_human", asked, TRUE), e)
        \/ Pause([s EXCEPT !.targets = Clarifying(m0)], e)
        \/ /\ Commit(Snapshot(m, m.outcome, {}, TRUE), e)
           /\ mem' = [m EXCEPT !.staged = {}]
           /\ pc' = "wave"
           /\ UNCHANGED <<job, issue>>
    BY <1>3 DEF CollectFeedback
  <2>2. HistoryTyped'
    <3>1. /\ stale' = stale \cup SentBack(m0.plan, m0.items, Fed(m0) \cup Blocked(m0))
          /\ outdated' = outdated \cup Outdated(m0.plan, m0.items, Fed(m0) \cup Blocked(m0))
          /\ UNCHANGED accepted
      BY <1>3 DEF CollectFeedback
    <3> QED
      BY <1>1, <3>1, RestartedKeys DEF IInv, HistoryTyped
  <2>3. /\ asked \in SUBSET ApprovalOf(flow) /\ PendingKeys(asked) \subseteq FlowKeys(flow)
        /\ Keys(m0) \subseteq FlowKeys(flow)
    BY <1>1, <1>3, AskedFits
  <2>4. /\ m1 \in Memory(flow) /\ m1.completed \subseteq m0.completed
        /\ m1.plan = m0.plan /\ m1.items = m0.items /\ m1.answers = NoAnswers /\ m1.wave = {}
        /\ m1.sequence = m0.sequence /\ m1.lastDecision = m0.lastDecision
    BY <1>1, AfterFeedbackFits
  <2>5. RestartedByFeedback(m0) \in SUBSET FlowKeys(flow)
    BY <1>1, RestartedKeys DEF RestartedByFeedback
  <2>6. asked # {} => PendingKeys(asked) \subseteq Known \cup m.staged
    <3> SUFFICES ASSUME asked # {} PROVE PendingKeys(asked) \subseteq Known \cup m.staged
      OBVIOUS
    <3>1. keys = Waiting(AfterFeedback(m0), AllAsked(m0)) \cup RestartedByFeedback(m0)
      OBVIOUS
    <3> HIDE DEF keys
    <3> QED
      BY <1>3, <2>5, <3>1, AskedAreKnown
  <2>7. keys \in SUBSET FlowKeys(flow)
    <3>1. Waiting(m1, asked) \subseteq FlowKeys(flow)
      <4> HIDE DEF m1, asked
      <4> QED
        BY <2>3, <2>4 DEF Waiting, Incomplete, Keys
    <3> QED
      BY <2>5, <3>1
  <2> HIDE DEF m1, asked, keys
  <2>8. m \in Memory(flow) /\ \A field \in MemoryFields \ {"staged", "finished"} : m[field] = m1[field]
    BY <1>1, <2>4, <2>7, EnsureWaitingFits, FieldsOfMemory
  <2>9. m.completed = m1.completed /\ m.answers = NoAnswers /\ m.wave = {}
        /\ m.sequence = m1.sequence /\ m.lastDecision = m1.lastDecision
    BY <2>4, <2>8 DEF MemoryFields
  <2>10. e.staged = m.staged /\ e.started = {} /\ e.superseded = {} /\ e.decided = {}
    BY DEF NoEffects
  <2> HIDE DEF m, e
  <2>11. EffectsTyped(e) /\ KnownAfter(e) = Known \cup m.staged /\ m.outcome \in Outcomes
    BY <2>8, <2>10 DEF EffectsTyped, KnownAfter, Memory
  <2>12. Counted(m) /\ m.completed \subseteq Known
    BY <2>4, <2>9 DEF Counted
  <2>13. {} \in SUBSET ApprovalOf(flow) /\ PendingKeys({}) = {} /\ TRUE \in BOOLEAN
         /\ {"needs_human", "needs_info"} \subseteq Outcomes
    BY DEF PendingKeys, Outcomes
  <2>14. \A outcome \in Outcomes : Writes(Snapshot(m, outcome, {}, TRUE), e)
    BY <2>8, <2>10, <2>11, <2>12, <2>13, SnapshotWrites
  <2>15. CASE asked # {} /\ Pause(Snapshot(m, "needs_human", asked, TRUE), e)
    <3>1. PendingKeys(asked) \subseteq FlowKeys(flow) \cap KnownAfter(e)
      BY <2>3, <2>6, <2>11, <2>15
    <3>2. Writes(Snapshot(m, "needs_human", asked, TRUE), e)
      BY <2>3, <2>8, <2>10, <2>11, <2>12, <2>13, <3>1, SnapshotWrites
    <3> QED
      BY <2>2, <2>15, <3>2, PauseKeeps
  <2>16. CASE Pause([s EXCEPT !.targets = Clarifying(m0)], e)
    <3> DEFINE r == [s EXCEPT !.targets = Clarifying(m0)]
    <3>1. Writes(s, e)
      BY <2>13, <2>14
    <3>2. Clarifying(m0) \subseteq FlowKeys(flow)
      BY DEF Clarifying, Answering, Memory, AnswersIn
    <3> HIDE DEF s
    <3>3. s \in Record(flow)
      BY <3>1 DEF Writes
    <3>4. r \in Record(flow) /\ r.pending = s.pending /\ r.completed = s.completed
          /\ r.sequence = s.sequence /\ r.lastDecision = s.lastDecision /\ r.change = s.change
      BY <3>2, <3>3 DEF Record
    <3>5. Pause(r, e)
      BY <2>16
    <3> HIDE DEF r
    <3>6. Writes(r, e)
      BY <3>1, <3>4 DEF Writes, Counted, PendingFits, Accounts
    <3> QED
      BY <2>2, <3>5, <3>6, PauseKeeps
  <2>17. CASE /\ Commit(Snapshot(m, m.outcome, {}, TRUE), e)
              /\ mem' = [m EXCEPT !.staged = {}]
              /\ pc' = "wave"
              /\ UNCHANGED <<job, issue>>
    <3>1. /\ mem' \in Memory(flow) /\ mem'.completed = m.completed /\ mem'.answers = NoAnswers
          /\ mem'.sequence = m.sequence /\ mem'.lastDecision = m.lastDecision /\ mem'.wave = {}
      BY <2>8, <2>9, <2>17 DEF Memory
    <3>2. Counted(mem') /\ mem'.completed \subseteq KnownAfter(e) /\ DOMAIN mem'.answers = {}
      BY <2>11, <2>12, <3>1 DEF Counted, NoAnswers
    <3>3. Snapshot(m, m.outcome, {}, TRUE).pending = {} /\ pc' \in Pcs \ {"idle"}
      BY <2>17 DEF Snapshot, Pcs, Working
    <3>4. Writes(Snapshot(m, m.outcome, {}, TRUE), e)
      BY <2>11, <2>14
    <3> QED
      BY <1>1, <2>2, <2>17, <3>1, <3>2, <3>3, <3>4, WorkKeeps
  <2> QED
    BY <2>1, <2>15, <2>16, <2>17
<1>4. QED
  BY <1>2, <1>3

LEMMA ReplannedFits ==
  ASSUME IInv, NEW items \in flow.selections
  PROVE  LET r == Replanned(mem, items)
         IN  /\ r \in Memory(flow) /\ Counted(r) /\ r.completed \subseteq Known
             /\ r.answers = mem.answers
<1> DEFINE r == Replanned(mem, items)
           completed == (mem.completed \cap KeysOf(Effective(flow, mem.plan), items)) \cup {Start}
<1>1. flow \in Flows /\ mem \in Memory(flow) /\ Counted(mem) /\ mem.completed \subseteq Known
  BY MemoryOf
<1>2. items \in Selections(flow) /\ mem.plan \in PlanOf(flow)
  BY <1>1 DEF Selections, Memory
<1>3. completed \subseteq FlowKeys(flow) /\ completed \subseteq Known
  BY <1>1, <1>2, KeysInFlow DEF Known, Start
<1>4. r = [mem EXCEPT !.items = items, !.running = {}, !.completed = completed]
  BY <1>1 DEF Replanned, Memory
<1> HIDE DEF r, completed
<1>5. /\ r \in Memory(flow) /\ r.completed = completed /\ r.answers = mem.answers
      /\ r.sequence = mem.sequence /\ r.lastDecision = mem.lastDecision
  BY <1>1, <1>2, <1>3, <1>4 DEF Memory
<1>6. QED
  BY <1>1, <1>3, <1>5 DEF r, Counted

LEMMA ProcessKeeps == IInv /\ ProcessResults => IInv'
<1> SUFFICES ASSUME IInv, ProcessResults PROVE IInv'
  OBVIOUS
<1>1. pc = "results" /\ flow' = flow /\ budget' = budget
  BY DEF ProcessResults
<1>2. /\ mem \in Memory(flow) /\ Counted(mem) /\ mem.completed \subseteq Known
      /\ DOMAIN mem.answers \subseteq Tracked
  BY MemoryOf
<1>3. CASE \E items \in flow.selections : CollectFeedback(Replanned(mem, items))
  <2>1. PICK items \in flow.selections : CollectFeedback(Replanned(mem, items))
    BY <1>3
  <2> DEFINE r == Replanned(mem, items)
  <2>2. /\ r \in Memory(flow) /\ Counted(r) /\ r.completed \subseteq Known
        /\ r.answers = mem.answers
    BY ReplannedFits
  <2>3. CollectFeedback(r)
    BY <2>1
  <2> HIDE DEF r
  <2> QED
    BY <1>1, <1>2, <2>2, <2>3, CollectKeeps
<1>4. CASE CollectFeedback(mem)
  BY <1>1, <1>2, <1>4, CollectKeeps
<1>5. QED
  BY <1>3, <1>4 DEF ProcessResults

-----------------------------------------------------------------------------
(* The theorems *)

LEMMA InitHolds == Init => IInv
<1> SUFFICES ASSUME Init PROVE IInv
  OBVIOUS
<1>1. flow \in Flows /\ mem = NoWork /\ pc = "idle" /\ saved = NoCheckpoint /\ ~HasCheckpoint
  BY DEF Init, HasCheckpoint
<1>2. NoWork \in Memory(flow)
  BY <1>1, NoWorkTyped
<1>3. NoDecision \in Decision /\ NoDecision.id = 0
  BY NoDecisionTyped DEF NoDecision
<1>4. {MaxDecisions, MaxFailures, MaxRetries} \subseteq Nat
  BY BoundsAssumption
<1>5. RowsTyped
  BY <1>1 DEF Init, RowsTyped, ApprovalStates, ChildStates
<1>6. ExecutorTyped
  BY <1>1, <1>2, <1>3, <1>4 DEF Init, ExecutorTyped, JobRow, Issues, Pcs, Budget
<1>7. DecisionsCounted
  BY <1>1, <1>3, <1>4 DEF Init, DecisionsCounted, Counted, NoWork
<1>8. Tracked = {}
  BY DEF Init, Tracked
<1>9. RowsKnown
  BY <1>1, <1>8 DEF RowsKnown, NoWork, NoAnswers
<1>10. Matched
  BY <1>1 DEF Init, Matched, PendingApprovals
<1>11. QED
  BY <1>1, <1>5, <1>6, <1>7, <1>9, <1>10 DEF Init, IInv, HistoryTyped, NothingPending,
     ResumesFromCheckpoint

LEMMA StepKeeps == IInv /\ [Next]_vars => IInv'
<1>1. IInv /\ Next => IInv'
  BY AcquireKeeps, LoadKeeps, ResumeKeeps, PrepareKeeps, PlannerSucceedsKeeps, PlannerPausesKeeps,
     StartWaveKeeps, FinishWaveKeeps, ProcessKeeps, CompleteKeeps, EndingKeeps, FaultKeeps, PeopleKeep
     DEF Next, Work, Faults, People
<1>2. IInv /\ UNCHANGED vars => IInv'
  BY DEF vars, IInv, RowsTyped, ExecutorTyped, HistoryTyped, DecisionsCounted, Counted, PendingFits,
         NothingPending, RowsKnown, ResultsKnown, Known, Tracked, Start, Matched, PendingApprovals,
         ResumesFromCheckpoint, HasCheckpoint
<1>3. QED
  BY <1>1, <1>2

(* The inductive invariant holds of every reachable state: rows, executor  *)
(* and history are typed, and the facts of IInv that relate them hold.     *)
THEOREM Invariance == Spec => []IInv
<1>1. Init => IInv
  BY InitHolds
<1>2. IInv /\ [Next]_vars => IInv'
  BY StepKeeps
<1>3. QED
  BY <1>1, <1>2, PTL DEF Spec

(* The type invariant, for every flow, set of work items and bound.        *)
THEOREM TypeCorrect == Spec => []TypeOK
<1>1. IInv => TypeOK
  <2> SUFFICES ASSUME IInv PROVE TypeOK
    OBVIOUS
  <2>1. flow \in Flows /\ mem \in Memory(flow) /\ job \in JobRow /\ issue \in Issues /\ pc \in Pcs
    BY MemoryOf
  <2>2. mem.plan \in PlanOf(flow) /\ mem.items \in Selections(flow)
    BY <2>1 DEF Memory
  <2>3. FlowKeys(flow) \subseteq TaskKeys /\ FlowKeys(flow) \subseteq AllKeys
    BY <2>1, <2>2, KeysInFlow
  <2>4. HasCheckpoint =>
          /\ saved.outcome \in Outcomes /\ saved.done \in BOOLEAN
          /\ saved.completed \subseteq TaskKeys /\ saved.targets \subseteq AllKeys
          /\ PendingKeys(saved.pending) \subseteq AllKeys
          /\ saved.lastDecision \in 0..MaxDecisions
          /\ \A edge \in DOMAIN saved.handoffs : saved.handoffs[edge] \in 0..MaxHandoffs
    <3> SUFFICES ASSUME HasCheckpoint
                 PROVE  /\ saved.outcome \in Outcomes /\ saved.done \in BOOLEAN
                        /\ saved.completed \subseteq TaskKeys /\ saved.targets \subseteq AllKeys
                        /\ PendingKeys(saved.pending) \subseteq AllKeys
                        /\ saved.lastDecision \in 0..MaxDecisions
                        /\ \A edge \in DOMAIN saved.handoffs : saved.handoffs[edge] \in 0..MaxHandoffs
      OBVIOUS
    <3>1. saved \in Record(flow)
      BY CheckpointOf
    <3>2. /\ saved.outcome \in Outcomes /\ saved.done \in BOOLEAN
          /\ saved.completed \subseteq FlowKeys(flow) /\ saved.lastDecision \in 0..MaxDecisions
          /\ saved.targets \subseteq FlowKeys(flow) \cup {PlanKey} \cup ChangeKeys
          /\ saved.pending \in SUBSET ApprovalOf(flow) /\ saved.handoffs \in CountsOf(flow)
      BY <3>1 DEF Record
    <3>3. PendingKeys(saved.pending) \subseteq AllKeys
      BY <2>1, <3>2, PendingInKeys
    <3>4. saved.targets \subseteq AllKeys
      BY <2>1, <2>3, <3>2, ReservedKeys
    <3>5. \A edge \in DOMAIN saved.handoffs : saved.handoffs[edge] \in 0..MaxHandoffs
      BY <3>2 DEF CountsOf
    <3> QED
      BY <2>3, <3>2, <3>3, <3>4, <3>5
  <2>5. /\ job.status \in {"queued", "running", "paused", "failed", "completed"}
        /\ job.resume \in BOOLEAN
        /\ job.decision.id \in 0..MaxDecisions /\ job.decision.target \in Targets
    BY <2>1 DEF JobRow, Decision
  <2>6. mem.completed \subseteq TaskKeys /\ mem.running \subseteq TaskKeys
    BY <2>1, <2>3 DEF Memory
  <2>7. /\ approvals \in [AllKeys -> {"none", "pending", "approved", "revised", "superseded"}]
        /\ children \in [TaskKeys -> {"none", "waiting", "running", "ended"}] /\ pr \in BOOLEAN
        /\ accepted \subseteq TaskKeys /\ stale \subseteq TaskKeys /\ outdated \subseteq TaskKeys
    BY DEF IInv, RowsTyped, HistoryTyped, ApprovalStates, ChildStates
  <2> QED
    BY <2>1, <2>4, <2>5, <2>6, <2>7 DEF TypeOK, Issues, Pcs
<1>2. QED
  BY <1>1, Invariance, PTL

(* The approval requests people see on the issue are exactly those the     *)
(* next decision is matched against: no commit of a checkpoint forgets a   *)
(* request, keeps one it no longer waits for, or waits for one it did not  *)
(* make.                                                                   *)
THEOREM ApprovalsMatched == Spec => []ApprovalsMatch
<1>1. IInv => ApprovalsMatch
  BY DEF IInv, Matched, PendingApprovals, ApprovalsMatch
<1>2. QED
  BY <1>1, Invariance, PTL

-----------------------------------------------------------------------------
(* Gates *)

GatedStart == flow.planned \/ flow.start \in flow.required

\* In what follows held is accepted \cup outdated and old is outdated.
Approved(held, plan, k) == Gated(plan, k) => k \in held
PendingResults(s) == PendingKeys(s.pending) \cap FlowKeys(flow)
ProposedPlan(s) == IF s.change.plan.present THEN s.change.plan ELSE s.plan

\* What a checkpoint keeps was accepted where it is gated, or follows a plan sent back.
ResultsApproved(s, held) == \A k \in s.completed \ {Start} : Approved(held, s.plan, k)
StartApproved(s, held) ==
    Start \notin PendingKeys(s.pending) /\ s.startAction # "revise" => Approved(held, s.plan, Start)
PlanFits(s, old) ==
    /\ ~flow.planned => s.plan = NoPlan /\ s.change.plan = NoPlan
    /\ flow.planned => s.completed \cup PendingResults(s) \subseteq GraphKeys(s, s.plan)
    /\ flow.planned /\ s.startAction = "revise" =>
          (s.completed \cup PendingResults(s)) \ {Start} \subseteq old
    /\ flow.planned /\ ~s.plan.present =>
          Required(Start) \notin s.pending /\ (Requested(Start) \in s.pending \/ s.startAction = "revise")
ChangeFits(s) ==
    /\ GatedStart => Start \notin s.targets
    /\ s.change.ready =>
          /\ flow.intake
          /\ flow.planned /\ Start \in s.change.revisions =>
                GraphKeys(s, ProposedPlan(s)) \subseteq s.change.affected
          /\ GatedStart /\ Start \in s.change.affected => Start \in s.change.revisions
GateFits(s, held, old) ==
    ResultsApproved(s, held) /\ StartApproved(s, held) /\ PlanFits(s, old) /\ ChangeFits(s)

\* A gated start is never run again as a task, so its gate is never skipped.
WorkFits(m, held) ==
    /\ \A k \in m.completed : Approved(held, m.plan, k)
    /\ GatedStart => Start \in m.completed /\ Start \notin m.wave
    /\ IF flow.planned THEN m.plan.present ELSE m.plan = NoPlan
    /\ flow.planned => m.completed \cup m.wave \subseteq Keys(m)
AnswersFit(m) ==
    DOMAIN m.answers \subseteq m.wave /\ \A k \in DOMAIN m.answers : m.answers[k] \in AnswersOf(k)

GateInv ==
    /\ HasCheckpoint => GateFits(saved, accepted \cup outdated, outdated)
    /\ pc \in {"wave", "run", "results"} => WorkFits(mem, accepted \cup outdated)
    /\ pc = "run" => mem.wave \cap mem.completed = {}
    /\ pc = "results" => AnswersFit(mem)
    /\ pc = "plan" /\ HasCheckpoint => saved.startAction = "revise"
    /\ pc = "prepare" => saved.startAction # "revise"

\* What a step has to show of the values it leaves.
Leaves(record, m, at, held, old) ==
    /\ record # NoCheckpoint => GateFits(record, held, old)
    /\ at \in {"wave", "run", "results"} => WorkFits(m, held)
    /\ at = "run" => m.wave \cap m.completed = {}
    /\ at = "results" => AnswersFit(m)
    /\ at = "plan" /\ record # NoCheckpoint => record.startAction = "revise"
    /\ at = "prepare" => record.startAction # "revise"

LEMMA GateOfLeaves ==
  ASSUME flow' = flow, NEW record, NEW m, NEW at, NEW held, NEW old,
         saved' = record, mem' = m, pc' = at, held = accepted' \cup outdated', old = outdated',
         Leaves(record, m, at, held, old)
  PROVE  GateInv'
<1>1. ASSUME NEW q, NEW k PROVE Gated(q, k)' <=> Gated(q, k)
  BY DEF Gated, RequiredTasks
<1>2. Start' = Start /\ (GatedStart' <=> GatedStart)
  BY DEF Start, GatedStart
<1>3. ASSUME NEW s, NEW q PROVE GraphKeys(s, q)' = GraphKeys(s, q)
  BY DEF GraphKeys
<1>4. ASSUME NEW k PROVE Required(k)' = Required(k) /\ Requested(k)' = Requested(k) /\ AnswersOf(k)' = AnswersOf(k)
  BY DEF Required, Requested, Approval, AnswersOf
<1>5. HasCheckpoint' => GateFits(saved, accepted \cup outdated, outdated)'
  <2> SUFFICES ASSUME record # NoCheckpoint PROVE GateFits(saved, accepted \cup outdated, outdated)'
    BY DEF HasCheckpoint
  <2>1. GateFits(record, held, old)
    BY DEF Leaves
  <2>2. (ResultsApproved(record, held) => ResultsApproved(saved, accepted \cup outdated)')
        /\ (StartApproved(record, held) => StartApproved(saved, accepted \cup outdated)')
    BY <1>1, <1>2 DEF ResultsApproved, StartApproved, Approved, PendingKeys
  <2>3. PlanFits(record, old) => PlanFits(saved, outdated)'
    <3>1. GraphKeys(record, record.plan)' = GraphKeys(record, record.plan)
      BY <1>3
    <3>2. Required(Start)' = Required(Start) /\ Requested(Start)' = Requested(Start)
      BY <1>2 DEF Required, Requested, Approval
    <3> QED
      BY <1>2, <3>1, <3>2 DEF PlanFits, PendingResults, PendingKeys
  <2>4. ChangeFits(record) => ChangeFits(saved)'
    <3>1. ProposedPlan(saved)' = ProposedPlan(record)
      BY DEF ProposedPlan
    <3>2. GraphKeys(saved, ProposedPlan(saved))' = GraphKeys(record, ProposedPlan(record))
      BY <3>1 DEF GraphKeys
    <3> QED
      BY <1>2, <3>2 DEF ChangeFits
  <2> QED
    BY <2>1, <2>2, <2>3, <2>4 DEF GateFits
<1>6. pc' \in {"wave", "run", "results"} => WorkFits(mem, accepted \cup outdated)'
  <2>1. Keys(mem)' = Keys(m)
    BY DEF Keys
  <2> QED
    BY <1>1, <1>2, <2>1 DEF Leaves, WorkFits, Approved
<1>7. pc' = "results" => AnswersFit(mem)'
  BY <1>4 DEF Leaves, AnswersFit
<1>8. QED
  BY <1>5, <1>6, <1>7 DEF GateInv, Leaves, HasCheckpoint

(* What GateInv says of the values at hand. *)
LEMMA LeavesOfGate ==
  ASSUME GateInv
  PROVE  Leaves(saved, mem, pc, accepted \cup outdated, outdated)
  BY DEF GateInv, Leaves, HasCheckpoint

(* Steps that leave the checkpoint and return, or have not begun to work. *)
LEMMA GateStays ==
  ASSUME GateInv, flow' = flow, saved' = saved, accepted' = accepted, outdated' = outdated,
         pc' \in {"idle", "load", "resume", "finish"}
  PROVE  GateInv'
<1>1. PICK m : m = mem'
  OBVIOUS
<1>2. PICK at : at = pc'
  OBVIOUS
<1>3. PICK record, held, old : record = saved' /\ held = accepted' \cup outdated' /\ old = outdated'
  OBVIOUS
<1>4. Leaves(record, m, at, held, old)
  BY <1>2, <1>3, LeavesOfGate DEF Leaves
<1>5. QED
  BY <1>1, <1>2, <1>3, <1>4, GateOfLeaves

LEMMA IdleGate ==
  ASSUME GateInv,
         Acquire \/ CheckoutFails \/ StepFails \/ FinishFails \/ RequestedTwice \/ People
           \/ PlannerStops \/ ErrorStops \/ TaskStops \/ OpenPullRequest
  PROVE  GateInv'
<1>1. flow' = flow /\ saved' = saved /\ accepted' = accepted /\ outdated' = outdated
  BY DEF Acquire, CheckoutFails, StepFails, FinishFails, RequestedTwice, People, Command, Answer,
     ReviseFailed, Retry, Requeue, PlannerStops, ErrorStops, TaskStops, OpenPullRequest,
     FeedbackEnds, FailCoordinator, StopPaused, rows, history
<1>2. CASE People
  BY <1>1, <1>2, GateStays DEF People, Command, Answer, ReviseFailed, Retry, Requeue
<1>3. CASE ~People
  <2>1. pc' \in {"idle", "load"}
    BY <1>3 DEF Acquire, CheckoutFails, StepFails, FinishFails, RequestedTwice,
       PlannerStops, ErrorStops, TaskStops, OpenPullRequest,
       FeedbackEnds, FailCoordinator, StopPaused, Stops
  <2> QED
    BY <1>1, <2>1, GateStays
<1>4. QED
  BY <1>2, <1>3

LEMMA LoadGate == IInv /\ GateInv /\ Load => GateInv'
<1> SUFFICES ASSUME IInv, GateInv, Load PROVE GateInv'
  OBVIOUS
<1>1. flow' = flow /\ saved' = saved /\ accepted' = accepted /\ outdated' = outdated
  BY DEF Load, FailCoordinator, durable, history
<1>2. CASE pc' \in {"idle", "resume"}
  BY <1>1, <1>2, GateStays
<1>3. CASE pc' = "plan" /\ ~HasCheckpoint
  <2>1. PICK m, record, held, old : m = mem' /\ record = saved' /\ held = accepted' \cup outdated'
                                        /\ old = outdated'
    OBVIOUS
  <2>2. PICK at : at = pc'
    OBVIOUS
  <2>3. Leaves(record, m, at, held, old)
    BY <1>1, <1>3, <2>1, <2>2 DEF Leaves, HasCheckpoint
  <2> QED
    BY <1>1, <2>1, <2>2, <2>3, GateOfLeaves
<1>4. QED
  BY <1>2, <1>3 DEF Load, FailCoordinator, Stops

-----------------------------------------------------------------------------
(* Gates: the start in the graph, and what a plan gates *)

LEMMA StartAlone ==
  ASSUME flow \in Flows, StartLeads(flow), NEW q \in PlanOf(flow), NEW items \in Selections(flow),
         NEW k, k # Start
  PROVE  Start \notin Affected(q, items, k)
<1> DEFINE g == Remaining(flow, q.excluded)
           graph == <<flow, q.excluded, items>>
           others == KeysOf(g, items) \ {Start}
<1> SUFFICES ASSUME Start \in Affected(q, items, k) PROVE FALSE
  OBVIOUS
<1>1. /\ g.tasks = flow.tasks \ q.excluded /\ g.perItem = flow.perItem
      /\ g.dependencies = flow.dependencies /\ g.acrossItems = flow.acrossItems
  BY ReservedAssumption DEF Remaining
<1>2. <<graph, k, Start>> \in Affects
  BY DEF Affected, AffectedBy
<1>3. k \in KeysOf(g, items) /\ Start \in LeastAffected(g, items, k)
  <2>1. <<graph, k, Start>> \in AffectedPairs
    BY <1>2 DEF Affects
  <2>2. k \in KeysOf(g, items)
    <3>1. PICK other \in Graphs :
            <<graph, k, Start>> \in
               LET h == Remaining(other[1], other[2])
               IN  {<<other, key, l>> : key \in KeysOf(h, other[3]), l \in KeysOf(h, other[3])}
      BY <2>1 DEF AffectedPairs
    <3>2. other = graph /\ k \in KeysOf(Remaining(other[1], other[2]), other[3])
      BY <3>1
    <3> QED
      BY <3>2
  <2>3. Start \in LeastAffected(g, items, k)
    BY <1>2 DEF Affects
  <2> QED
    BY <2>2, <2>3
<1>4. DependenciesOf(g, items, Start) = {}
  <2>1. Start[1] = flow.start
    BY DEF Start, StartKey
  <2>2. flow.start \notin flow.acrossItems
    BY FlowsAssumption
  <2> QED
    BY <1>1, <2>1, <2>2 DEF DependenciesOf, StartLeads
<1>5. ClosedUnderDependents(g, items, others)
  BY <1>4 DEF ClosedUnderDependents
<1>6. others \in SUBSET KeysOf(g, items) /\ k \in others
  BY <1>3
<1>7. Start \in others
  <2> HIDE DEF others, g
  <2> QED
    BY <1>3, <1>5, <1>6 DEF LeastAffected
<1>8. QED
  BY <1>7

LEMMA StartBefore ==
  ASSUME flow \in Flows, StartLeads(flow), flow.planned, NEW q \in PlanOf(flow),
         NEW items \in Selections(flow)
  PROVE  KeysOf(Effective(flow, q), items) \subseteq Affected(q, items, Start)
<1> DEFINE g == Remaining(flow, q.excluded)
           graph == <<flow, q.excluded, items>>
<1>1. g.tasks = flow.tasks \ q.excluded /\ g.perItem = flow.perItem
  BY ReservedAssumption DEF Remaining
<1>2. KeysOf(g, items) = KeysOf(Effective(flow, q), items) /\ Start \in KeysOf(g, items)
  BY <1>1, PlanTasks, KeysInFlow DEF KeysOf, Start
<1>3. /\ q.excluded \in {{}} \cup {p.excluded : p \in {r \in flow.proposals : Resolvable(flow, r)}}
      /\ items \in {{}} \cup flow.selections
  <2>1. q = NoPlan => q.excluded = {}
    BY DEF NoPlan
  <2>2. Installed(flow, q) =>
           \E p \in {r \in flow.proposals : Resolvable(flow, r)} : q.excluded = p.excluded
    BY DEF Installed
  <2> QED
    BY <2>1, <2>2 DEF PlanOf, Selections
<1>4. KeysOf(g, items) \subseteq LeastAffected(g, items, Start)
  BY <1>3 DEF StartLeads, Start
<1>5. graph \in Graphs
  <2>1. graph \in {flow} \X ({{}} \cup {p.excluded : p \in flow.proposals}) \X ({{}} \cup flow.selections)
    BY <1>3
  <2> QED
    BY <2>1 DEF Graphs
<1>6. ASSUME NEW k \in KeysOf(g, items)
      PROVE  k \in Affected(q, items, Start)
  <2>1. <<graph, Start, k>> \in AffectedPairs
    <3>1. graph[1] = flow /\ graph[2] = q.excluded /\ graph[3] = items
      OBVIOUS
    <3>2. <<graph, Start, k>> \in LET h == Remaining(graph[1], graph[2])
             IN {<<graph, key, l>> : key \in KeysOf(h, graph[3]), l \in KeysOf(h, graph[3])}
      BY <1>2, <1>6, <3>1
    <3> QED
      BY <1>5, <3>2 DEF AffectedPairs
  <2>2. <<graph, Start, k>> \in Affects
    BY <1>4, <1>6, <2>1 DEF Affects
  <2> QED
    BY <1>6, <2>2 DEF Affected, AffectedBy
<1>7. QED
  BY <1>2, <1>6

\* A set of targets without the start does not restart it.
LEMMA StartNotRestarted ==
  ASSUME flow \in Flows, StartLeads(flow), NEW q \in PlanOf(flow), NEW items \in Selections(flow),
         NEW targets, Start \notin targets
  PROVE  Start \notin RestartedBy(q, items, targets)
  BY StartAlone DEF RestartedBy

LEMMA PlanGates ==
  ASSUME flow \in Flows, NEW q \in PlanOf(flow)
  PROVE  /\ Gated(q, Start) <=> q.present \/ flow.start \in flow.required
         /\ q.present => \A k : Gated(q, k) <=>
                k[1] \in (flow.required \cup {flow.start} \cup q.reviewed) \ q.excluded
         /\ ~q.present => q = NoPlan /\ \A k : Gated(q, k) <=> k[1] \in flow.required
         /\ ~flow.planned /\ q = NoPlan => (Gated(q, Start) => GatedStart)
<1>1. Start[1] = flow.start /\ {"tasks", "required"} \subseteq DOMAIN flow
  BY ReservedAssumption DEF Start, StartKey
<1>2. CASE q.present
  <2>1. flow.start \notin q.excluded
    <3>1. Installed(flow, q)
      BY <1>2 DEF PlanOf, NoPlan
    <3> QED
      BY <3>1 DEF Installed, Resolvable
  <2>2. Effective(flow, q).required = (flow.required \cup {flow.start} \cup q.reviewed) \ q.excluded
    BY <1>1, <1>2 DEF Effective
  <2> QED
    BY <1>1, <1>2, <2>1, <2>2 DEF Gated, RequiredTasks, NoPlan
<1>3. CASE ~q.present
  <2>1. q = NoPlan
    BY <1>3 DEF PlanOf, Installed
  <2>2. Effective(flow, q).required = flow.required
    BY <1>3 DEF Effective
  <2> QED
    BY <1>1, <1>3, <2>1, <2>2 DEF Gated, RequiredTasks, GatedStart
<1>4. QED
  BY <1>2, <1>3

LEMMA ApprovingPlan ==
  ASSUME flow \in Flows, NEW q \in PlanOf(flow), NEW b \in BOOLEAN
  PROVE  LET r == [q EXCEPT !.approved = b]
         IN  /\ Effective(flow, r) = Effective(flow, q) /\ r.present = q.present
             /\ \A k : Gated(r, k) <=> Gated(q, k)
             /\ b /\ q = NoPlan => r = NoPlan
<1> DEFINE r == [q EXCEPT !.approved = b]
<1>1. r.present = q.present /\ r.excluded = q.excluded /\ r.reviewed = q.reviewed
  BY DEF PlanOf
<1>2. Effective(flow, r) = Effective(flow, q)
  BY <1>1 DEF Effective
<1>3. \A k : Gated(r, k) <=> Gated(q, k)
  BY <1>2 DEF Gated, RequiredTasks
<1>4. b /\ q = NoPlan => r = NoPlan
  <2> SUFFICES ASSUME b, q = NoPlan PROVE r = NoPlan
    OBVIOUS
  <2>1. DOMAIN NoPlan = {"excluded", "reviewed", "approved", "present"} /\ NoPlan.approved = TRUE
    BY DEF NoPlan
  <2>2. NoPlan = [x \in {"excluded", "reviewed", "approved", "present"} |-> NoPlan[x]]
    BY DEF NoPlan
  <2>3. r = [x \in {"excluded", "reviewed", "approved", "present"} |->
                 IF x = "approved" THEN TRUE ELSE NoPlan[x]]
    BY <2>1
  <2> QED
    BY <2>1, <2>2, <2>3
<1>5. QED
  BY <1>1, <1>2, <1>3, <1>4

(* GateFits reads these fields only. *)
LEMMA SameGate ==
  ASSUME NEW s, NEW r, NEW held, NEW old, GateFits(s, held, old),
         r.completed = s.completed, r.pending = s.pending, r.plan = s.plan, r.items = s.items,
         r.startAction = s.startAction, r.targets = s.targets, r.change = s.change
  PROVE  GateFits(r, held, old)
<1>1. PendingResults(r) = PendingResults(s) /\ GraphKeys(r, r.plan) = GraphKeys(s, s.plan)
  BY DEF PendingResults, GraphKeys
<1>2. GraphKeys(r, ProposedPlan(r)) = GraphKeys(s, ProposedPlan(s))
  BY DEF ProposedPlan, GraphKeys
<1>3. QED
  BY <1>1, <1>2 DEF GateFits, ResultsApproved, StartApproved, PlanFits, ChangeFits

LEMMA StartTyped ==
  ASSUME flow \in Flows
  PROVE  /\ Start \in FlowKeys(flow) /\ FlowKeys(flow) \subseteq TaskKeys
         /\ \A q \in PlanOf(flow), items \in Selections(flow) :
               Start \in KeysOf(Effective(flow, q), items)
<1>1. NoPlan \in PlanOf(flow) /\ {} \in Selections(flow)
  BY FlowsAssumption DEF NoPlan, PlanOf, Selections
<1>2. QED
  BY <1>1, KeysInFlow DEF Start

\* What a resting executor or one that plans leaves is only its checkpoint.
LEMMA RestGate ==
  ASSUME flow' = flow, NEW record, saved' = record, NEW at, pc' = at,
         at \in {"idle", "finish", "plan", "prepare"},
         at = "plan" => record.startAction = "revise",
         at = "prepare" => record.startAction # "revise",
         GateFits(record, accepted' \cup outdated', outdated')
  PROVE  GateInv'
<1>1. PICK m : m = mem'
  OBVIOUS
<1>2. PICK held, old : held = accepted' \cup outdated' /\ old = outdated'
  OBVIOUS
<1>3. Leaves(record, m, at, held, old)
  BY <1>2 DEF Leaves
<1>4. QED
  BY <1>1, <1>2, <1>3, GateOfLeaves

LEMMA ProceedGate ==
  ASSUME flow' = flow, NEW s \in Record(flow), NEW e, Proceed(s, e),
         GateFits(s, accepted' \cup outdated', outdated')
  PROVE  GateInv'
<1>1. PICK held, old : held = accepted' \cup outdated' /\ old = outdated'
  OBVIOUS
<1>2. CASE s.pending # {}
  <2> DEFINE r == [s EXCEPT !.outcome = "needs_human"]
  <2>1. saved' = r /\ pc' = "idle"
    BY <1>2 DEF Proceed, Pause, Commit, Stops
  <2>2. /\ r.completed = s.completed /\ r.pending = s.pending /\ r.plan = s.plan
        /\ r.items = s.items /\ r.startAction = s.startAction /\ r.targets = s.targets
        /\ r.change = s.change
    BY DEF Record
  <2> HIDE DEF r
  <2>3. GateFits(r, held, old)
    BY <1>1, <2>2, SameGate
  <2>4. PICK at : at = pc'
    OBVIOUS
  <2> QED
    BY <1>1, <2>1, <2>3, <2>4, RestGate
<1>3. CASE s.pending = {}
  <2>1. saved' = s /\ pc' = IF s.startAction = "revise" THEN "plan" ELSE "prepare"
    BY <1>3 DEF Proceed, Commit
  <2>2. PICK at : at = pc'
    OBVIOUS
  <2> QED
    BY <1>1, <2>1, <2>2, RestGate
<1>4. QED
  BY <1>2, <1>3

\* A start that is planned again was sent back, whatever the history forgets of it.
LEMMA ForgetStart ==
  ASSUME NEW s, NEW held, NEW old, GateFits(s, held, old), s.startAction = "revise"
  PROVE  GateFits(s, held \ {Start}, old \ {Start})
  BY DEF GateFits, ResultsApproved, StartApproved, PlanFits, Approved

\* A plan that is in force, or a start the manifest gates, is what gates the start.
LEMMA UngatedStart ==
  ASSUME flow \in Flows, NEW m \in Memory(flow), flow.planned \/ m.plan = NoPlan, ~GatedStart
  PROVE  ~Gated(m.plan, Start)
<1>1. m.plan \in PlanOf(flow) /\ m.plan = NoPlan
  BY DEF Memory, GatedStart
<1>2. QED
  BY <1>1, PlanGates DEF GatedStart

\* The checkpoint of work keeps the promises of the work.  Where the start is gated its
\* result is held, or a person is asked about it.
LEMMA PausedGate ==
  ASSUME flow \in Flows, NEW m \in Memory(flow), NEW held, NEW old,
         \A k \in m.completed : Approved(held, m.plan, k),
         IF flow.planned THEN m.plan.present ELSE m.plan = NoPlan,
         NEW outcome, NEW pending, NEW sa,
         flow.planned => m.completed \cup (PendingKeys(pending) \cap FlowKeys(flow)) \subseteq Keys(m),
         GatedStart => Start \in m.completed \cup PendingKeys(pending)
  PROVE  GateFits(Snapshot(m, outcome, pending, sa), held, old)
<1> DEFINE r == Snapshot(m, outcome, pending, sa)
<1>1. /\ r.completed = m.completed /\ r.pending = pending /\ r.plan = m.plan /\ r.items = m.items
      /\ r.startAction = "none" /\ r.targets = {} /\ r.change = NoChange
  BY DEF Snapshot
<1>2. ~NoChange.ready /\ NoChange.plan = NoPlan
  BY DEF NoChange
<1> HIDE DEF r
<1>3. GraphKeys(r, r.plan) = Keys(m) /\ PendingResults(r) = PendingKeys(pending) \cap FlowKeys(flow)
  BY <1>1 DEF GraphKeys, Keys, PendingResults
<1>4. ResultsApproved(r, held)
  BY <1>1 DEF ResultsApproved
<1>5. StartApproved(r, held)
  <2> SUFFICES ASSUME Start \notin PendingKeys(pending) PROVE Approved(held, m.plan, Start)
    BY <1>1 DEF StartApproved
  <2>1. CASE GatedStart
    BY <2>1
  <2>2. CASE ~GatedStart
    BY <2>2, UngatedStart DEF Approved
  <2> QED
    BY <2>1, <2>2
<1>6. PlanFits(r, old)
  BY <1>1, <1>2, <1>3 DEF PlanFits
<1>7. ChangeFits(r)
  BY <1>1, <1>2 DEF ChangeFits
<1>8. GateFits(r, held, old)
  BY <1>4, <1>5, <1>6, <1>7 DEF GateFits
<1>9. QED
  BY <1>8 DEF r

LEMMA SnapshotGate ==
  ASSUME flow \in Flows, NEW m \in Memory(flow), NEW held, NEW old, WorkFits(m, held),
         NEW outcome, NEW pending, NEW sa,
         flow.planned => PendingKeys(pending) \cap FlowKeys(flow) \subseteq Keys(m)
  PROVE  GateFits(Snapshot(m, outcome, pending, sa), held, old)
<1>1. /\ \A k \in m.completed : Approved(held, m.plan, k)
      /\ IF flow.planned THEN m.plan.present ELSE m.plan = NoPlan
  BY DEF WorkFits
<1>2. /\ flow.planned => m.completed \cup (PendingKeys(pending) \cap FlowKeys(flow)) \subseteq Keys(m)
      /\ GatedStart => Start \in m.completed \cup PendingKeys(pending)
  BY DEF WorkFits
<1>3. QED
  BY <1>1, <1>2, PausedGate

-----------------------------------------------------------------------------
(* Gates: decisions about results *)

\* A decision accepts what was waiting and withdraws the start only by sending it back.
Deciding(s, d, chosen, withdrawn) ==
    /\ chosen \in SUBSET ApprovalOf(flow) /\ withdrawn \in SUBSET FlowKeys(flow)
    /\ Accepts(d, chosen) \subseteq FlowKeys(flow)
    /\ \A k \in Accepts(d, chosen) : Required(k) \in s.pending
    /\ Start \in withdrawn => Start \in Redoes(d, chosen)

LEMMA SettledGate ==
  ASSUME flow \in Flows, StartLeads(flow), NEW s \in Record(flow), NEW held, NEW old,
         GateFits(s, held, old), NEW d, NEW chosen, NEW withdrawn, Deciding(s, d, chosen, withdrawn),
         NEW held2, NEW old2, held \ withdrawn \subseteq held2, Accepts(d, chosen) \subseteq held2,
         old \subseteq old2,
         Outdated(s.plan, s.items, Redoes(d, chosen) \cap GraphKeys(s, s.plan)) \ withdrawn \subseteq old2
  PROVE  GateFits(Settled(s, d, chosen, withdrawn), held2, old2)
<1> DEFINE keys == PendingKeys(chosen)
           accepts == Accepts(d, chosen)
           pending == {p \in s.pending : p.key \notin keys \cup withdrawn}
           approved == s.plan.approved \/ Start \in accepts
           startApproved == IF Start \in accepts THEN TRUE
                            ELSE s.startApproved /\ ~(Start \in keys /\ d.verb = "revise")
           targets == {k \in s.targets \cup (Redoes(d, chosen) \ {Start}) :
                          k \in withdrawn => k \in keys}
           options == {k \in s.options \ withdrawn :
                          PendingKeys(pending) \cap Affected(s.plan, s.items, k) # {}}
           startAction == IF Start \in accepts THEN "accept"
                          ELSE IF Start \in keys THEN "revise" ELSE s.startAction
           plan == [s.plan EXCEPT !.approved = approved]
           completed == (s.completed \cup (accepts \ {Start})) \ withdrawn
           r == Settled(s, d, chosen, withdrawn)
<1>1. r = [s EXCEPT !.startApproved = startApproved, !.startAction = startAction, !.plan = plan,
                    !.completed = completed, !.targets = targets, !.options = options,
                    !.pending = pending, !.lastDecision = d.id]
  BY DEF Settled, Record
<1>2. s.plan \in PlanOf(flow) /\ s.items \in Selections(flow) /\ approved \in BOOLEAN
  BY DEF Record, PlanOf
<1>3. /\ Effective(flow, plan) = Effective(flow, s.plan) /\ plan.present = s.plan.present
      /\ \A k : Gated(plan, k) <=> Gated(s.plan, k)
      /\ s.plan = NoPlan => plan = NoPlan
  <2>1. LET q == [s.plan EXCEPT !.approved = approved]
        IN  /\ Effective(flow, q) = Effective(flow, s.plan) /\ q.present = s.plan.present
            /\ \A k : Gated(q, k) <=> Gated(s.plan, k)
            /\ approved /\ s.plan = NoPlan => q = NoPlan
    <3> HIDE DEF approved
    <3> QED
      BY <1>2, ApprovingPlan
  <2>2. s.plan = NoPlan => approved
    BY DEF NoPlan
  <2> QED
    BY <2>1, <2>2
<1>4. keys = accepts \cup Redoes(d, chosen)
  BY DEF Redoes, Accepts, PendingKeys
<1>5. /\ accepts \subseteq FlowKeys(flow) /\ accepts \subseteq PendingKeys(s.pending)
      /\ (Start \in withdrawn => Start \in Redoes(d, chosen))
      /\ \A k \in accepts : Required(k) \in s.pending
  <2>1. /\ accepts \subseteq FlowKeys(flow) /\ (Start \in withdrawn => Start \in Redoes(d, chosen))
        /\ \A k \in accepts : Required(k) \in s.pending
    BY DEF Deciding
  <2>2. \A k : Required(k).key = k
    BY DEF Required, Approval
  <2>3. accepts \subseteq PendingKeys(s.pending)
    <3> HIDE DEF accepts
    <3> QED
      BY <2>1, <2>2 DEF PendingKeys
  <2> QED
    BY <2>1, <2>3
<1>6. PendingKeys(pending) = PendingKeys(s.pending) \ (keys \cup withdrawn)
  BY DEF PendingKeys
<1> HIDE DEF keys, accepts, pending, approved, startApproved, targets, options, plan, completed, r
<1>7. /\ r.completed = completed /\ r.pending = pending /\ r.plan = plan /\ r.items = s.items
      /\ r.startAction = startAction /\ r.targets = targets /\ r.change = s.change
  <2> HIDE DEF startAction
  <2> QED
    BY <1>1 DEF Record
<1>8. /\ ResultsApproved(s, held) /\ StartApproved(s, held) /\ PlanFits(s, old) /\ ChangeFits(s)
  BY DEF GateFits
<1>9. /\ completed \subseteq (s.completed \cup accepts) \ withdrawn
      /\ completed \ {Start} \subseteq (s.completed \ {Start}) \cup accepts
  BY DEF completed
<1>10. ResultsApproved(r, held2)
  BY <1>3, <1>7, <1>8, <1>9 DEF ResultsApproved, Approved, accepts
<1>11. StartApproved(r, held2)
  <2> SUFFICES ASSUME Start \notin PendingKeys(pending), startAction # "revise", Gated(plan, Start)
               PROVE  Start \in held2
    BY <1>7 DEF StartApproved, Approved
  <2>1. CASE Start \in accepts
    BY <2>1 DEF accepts
  <2>2. CASE Start \notin accepts
    <3>1. Start \notin keys /\ s.startAction # "revise"
      BY <2>2
    <3>2. Start \notin withdrawn
      BY <1>4, <1>5, <3>1
    <3>3. Start \notin PendingKeys(s.pending)
      BY <1>6, <3>1, <3>2
    <3>4. Start \in held
      BY <1>3, <1>8, <3>1, <3>3 DEF StartApproved, Approved
    <3> QED
      BY <3>2, <3>4
  <2> QED
    BY <2>1, <2>2
<1>12. GraphKeys(r, r.plan) = GraphKeys(s, s.plan)
  BY <1>3, <1>7 DEF GraphKeys
<1>13. r.completed \cup PendingResults(r) \subseteq (s.completed \cup PendingResults(s)) \ withdrawn
  <2>1. PendingResults(r) \subseteq PendingResults(s) \ withdrawn
    BY <1>6, <1>7 DEF PendingResults
  <2>2. completed \subseteq (s.completed \cup PendingResults(s)) \ withdrawn
    BY <1>5, <1>9 DEF PendingResults
  <2> QED
    BY <1>7, <2>1, <2>2
<1>14. PlanFits(r, old2)
  <2>1. ~flow.planned => r.plan = NoPlan /\ r.change.plan = NoPlan
    BY <1>3, <1>7, <1>8 DEF PlanFits
  <2>2. flow.planned => r.completed \cup PendingResults(r) \subseteq GraphKeys(r, r.plan)
    BY <1>8, <1>12, <1>13 DEF PlanFits
  <2>3. ASSUME flow.planned, r.startAction = "revise"
        PROVE  (r.completed \cup PendingResults(r)) \ {Start} \subseteq old2
    <3>1. CASE Start \in keys
      <4>1. Start \in Redoes(d, chosen) /\ Start \in GraphKeys(s, s.plan)
        BY <1>2, <1>4, <1>7, <2>3, <3>1, StartTyped DEF GraphKeys
      <4>2. Outdated(s.plan, s.items, Redoes(d, chosen) \cap GraphKeys(s, s.plan))
              = Affected(s.plan, s.items, Start)
        BY <4>1 DEF Outdated, RestartedBy
      <4>3. GraphKeys(s, s.plan) \subseteq Affected(s.plan, s.items, Start)
        BY <1>2, <2>3, StartBefore DEF GraphKeys
      <4> QED
        BY <1>8, <1>13, <2>3, <4>2, <4>3 DEF PlanFits
    <3>2. CASE Start \notin keys
      <4>1. s.startAction = "revise"
        BY <1>4, <1>7, <2>3, <3>2
      <4> QED
        BY <1>8, <1>13, <2>3, <4>1 DEF PlanFits
    <3> QED
      BY <3>1, <3>2
  <2>4. ASSUME flow.planned, ~r.plan.present
        PROVE  Required(Start) \notin r.pending
               /\ (Requested(Start) \in r.pending \/ r.startAction = "revise")
    <3>1. Required(Start) \notin s.pending
          /\ (Requested(Start) \in s.pending \/ s.startAction = "revise")
      BY <1>3, <1>7, <1>8, <2>4 DEF PlanFits
    <3>2. Required(Start) \notin r.pending /\ Start \notin accepts
      BY <1>5, <1>7, <3>1 DEF pending
    <3>3. CASE Start \in keys
      BY <1>7, <3>2, <3>3
    <3>4. CASE Start \notin keys
      <4>1. r.startAction = s.startAction /\ Start \notin withdrawn
        BY <1>4, <1>5, <1>7, <3>2, <3>4
      <4>2. Requested(Start) \in s.pending => Requested(Start) \in r.pending
        BY <1>7, <3>4, <4>1 DEF pending, Requested, Approval
      <4> QED
        BY <3>1, <3>2, <4>1, <4>2
    <3> QED
      BY <3>3, <3>4
  <2> QED
    BY <2>1, <2>2, <2>3, <2>4 DEF PlanFits
<1>15. ChangeFits(r)
  <2>1. GatedStart => Start \notin r.targets
    BY <1>7, <1>8 DEF ChangeFits, targets
  <2>2. GraphKeys(r, ProposedPlan(r)) = GraphKeys(s, ProposedPlan(s))
    BY <1>7, <1>12 DEF ProposedPlan, GraphKeys
  <2> QED
    BY <1>7, <1>8, <2>1, <2>2 DEF ChangeFits
<1>16. QED
  BY <1>10, <1>11, <1>14, <1>15 DEF GateFits, r

LEMMA GateOfCheckpoint ==
  ASSUME IInv, GateInv, HasCheckpoint, FlowsLead
  PROVE  /\ GateFits(saved, accepted \cup outdated, outdated)
         /\ saved \in Record(flow) /\ flow \in Flows /\ StartLeads(flow)
         /\ saved.plan \in PlanOf(flow) /\ saved.items \in Selections(flow)
         /\ saved.pending \in SUBSET ApprovalOf(flow)
         /\ saved.completed \subseteq FlowKeys(flow)
<1>1. saved \in Record(flow) /\ flow \in Flows
  BY CheckpointOf
<1>2. QED
  BY <1>1 DEF GateInv, FlowsLead, Record

LEMMA DecideGate ==
  ASSUME flow \in Flows, StartLeads(flow), flow' = flow, NEW s \in Record(flow),
         GateFits(s, accepted \cup outdated, outdated),
         NEW d, d.id \in 0..MaxDecisions, NEW chosen, NEW withdrawn,
         Deciding(s, d, chosen, withdrawn),
         Settled(s, d, chosen, withdrawn) \in Record(flow),
         Decide(s, d, chosen, withdrawn)
  PROVE  GateInv'
<1> DEFINE r == Settled(s, d, chosen, withdrawn)
           redone == Redoes(d, chosen) \cap GraphKeys(s, s.plan)
           e == DecisionEffects(d, PendingKeys(chosen), withdrawn)
<1>1. Proceed(r, e)
      /\ accepted' = (accepted \ withdrawn) \cup (Accepts(d, chosen) \cap TaskKeys)
      /\ outdated' = outdated \cup (Outdated(s.plan, s.items, redone) \ withdrawn)
  BY DEF Decide
<1>2. PICK held, old : held = accepted' \cup outdated' /\ old = outdated'
  OBVIOUS
<1>3. Accepts(d, chosen) \subseteq TaskKeys
  BY StartTyped DEF Deciding
<1>4. /\ (accepted \cup outdated) \ withdrawn \subseteq held /\ Accepts(d, chosen) \subseteq held
      /\ outdated \subseteq old /\ Outdated(s.plan, s.items, redone) \ withdrawn \subseteq old
  BY <1>1, <1>2, <1>3
<1>5. GateFits(r, held, old)
  <2>1. PICK held0, old0 : held0 = accepted \cup outdated /\ old0 = outdated
    OBVIOUS
  <2>2. GateFits(s, held0, old0) /\ held0 \ withdrawn \subseteq held /\ old0 \subseteq old
    BY <1>4, <2>1
  <2> QED
    BY <1>4, <2>2, SettledGate
<1> HIDE DEF r, e
<1>6. QED
  BY <1>1, <1>2, <1>5, ProceedGate DEF r

-----------------------------------------------------------------------------
(* Gates: decisions about plans *)

LEMMA KeysFilter ==
  ASSUME flow \in Flows, NEW q \in PlanOf(flow), NEW q2 \in PlanOf(flow), NEW items
  PROVE  \A k \in KeysOf(Effective(flow, q), items) :
            k[1] \in Effective(flow, q2).tasks => k \in KeysOf(Effective(flow, q2), items)
  BY PlanTasks DEF KeysOf

\* What a plan in force keeps of the results, where it gates them, was gated before.
LEMMA InstallGate ==
  ASSUME flow \in Flows, flow.planned, NEW s \in Record(flow), NEW held, NEW old,
         GateFits(s, held, old), NEW plan, Installed(flow, plan)
  PROVE  LET i == InstallPlan(s, plan)
         IN  /\ i \in Record(flow) /\ i.plan = plan /\ i.items = s.items
             /\ i.startAction = s.startAction /\ i.change = s.change /\ i.targets \subseteq s.targets
             /\ \A k \in i.completed \ {Start} : k \in s.completed /\ Approved(held, plan, k)
             /\ i.completed \cup PendingResults(i) \subseteq s.completed \cup PendingResults(s)
             /\ i.completed \cup PendingResults(i) \subseteq KeysOf(Effective(flow, plan), s.items)
             /\ Start \in PendingKeys(s.pending) => Start \in PendingKeys(i.pending)
<1> DEFINE i == InstallPlan(s, plan)
           tasks == Effective(flow, plan).tasks
           completed == {k \in s.completed : k[1] \in tasks} \ NewlyGated(s, plan)
           pending == {p \in s.pending : p.key[1] \in tasks} \cup {Required(k) : k \in NewlyGated(s, plan)}
           targets == {k \in s.targets : k[1] \in tasks}
<1>1. plan \in PlanOf(flow) /\ plan.present /\ s.plan \in PlanOf(flow)
  BY DEF Installed, PlanOf, Record
<1>2. i = [s EXCEPT !.completed = completed, !.pending = pending, !.targets = targets, !.plan = plan]
  BY DEF InstallPlan, Record
<1>3. i \in Record(flow)
  BY InstallFits
<1> HIDE DEF completed, pending, targets, i
<1>4. /\ i.completed = completed /\ i.pending = pending /\ i.targets = targets /\ i.plan = plan
      /\ i.items = s.items /\ i.startAction = s.startAction /\ i.change = s.change
  BY <1>2 DEF Record
<1>5. /\ ResultsApproved(s, held) /\ s.completed \cup PendingResults(s) \subseteq GraphKeys(s, s.plan)
  BY DEF GateFits, PlanFits
<1>6. NewlyGated(s, plan) \subseteq s.completed /\ \A k \in NewlyGated(s, plan) : k[1] \in tasks
  BY DEF NewlyGated
<1>7. ASSUME NEW k \in completed \ {Start}, Gated(plan, k)
      PROVE  k \in s.completed /\ k \in held
  <2>1. k \in s.completed /\ k[1] \in tasks /\ k \notin NewlyGated(s, plan)
    BY <1>7 DEF completed
  <2>2. s.plan.present /\ k[1] \in flow.required \cup s.plan.reviewed
    BY <1>7, <2>1 DEF NewlyGated
  <2>3. k \in KeysOf(Effective(flow, s.plan), s.items)
    BY <1>5, <2>1 DEF GraphKeys
  <2>4. k[1] \in Effective(flow, s.plan).tasks
    BY <2>3 DEF KeysOf
  <2>5. k[1] \notin s.plan.excluded
    BY <1>1, <2>4, PlanTasks
  <2>6. Gated(s.plan, k)
    BY <1>1, <2>2, <2>5, PlanGates
  <2> QED
    BY <1>5, <1>7, <2>1, <2>6 DEF ResultsApproved, Approved
<1>8. \A p \in pending : p.key[1] \in tasks /\ (p \in s.pending \/ p.key \in s.completed)
  BY <1>6 DEF pending, Required, Approval
<1>9. completed \subseteq s.completed /\ \A k \in completed : k[1] \in tasks
  BY DEF completed
<1>10. i.completed \cup PendingResults(i) \subseteq s.completed \cup PendingResults(s)
       /\ \A k \in i.completed \cup PendingResults(i) : k[1] \in tasks
  <2>1. PendingResults(i) = PendingKeys(pending) \cap FlowKeys(flow)
    BY <1>4 DEF PendingResults
  <2>2. \A k \in PendingKeys(pending) :
           k[1] \in tasks /\ (k \in PendingKeys(s.pending) \/ k \in s.completed)
    BY <1>8 DEF PendingKeys
  <2>3. PendingResults(s) = PendingKeys(s.pending) \cap FlowKeys(flow)
    BY DEF PendingResults
  <2>4. \A k \in PendingResults(i) : k[1] \in tasks /\ k \in s.completed \cup PendingResults(s)
    BY <2>1, <2>2, <2>3
  <2> QED
    BY <1>4, <1>9, <2>4
<1>11. i.completed \cup PendingResults(i) \subseteq KeysOf(Effective(flow, plan), s.items)
  <2>1. \A k \in i.completed \cup PendingResults(i) :
           k \in KeysOf(Effective(flow, s.plan), s.items) /\ k[1] \in tasks
    BY <1>4, <1>5, <1>10 DEF GraphKeys
  <2>2. \A k \in KeysOf(Effective(flow, s.plan), s.items) :
           k[1] \in tasks => k \in KeysOf(Effective(flow, plan), s.items)
    BY <1>1, KeysFilter
  <2> QED
    BY <2>1, <2>2
<1>12. Start \in PendingKeys(s.pending) => Start \in PendingKeys(i.pending)
  <2> SUFFICES ASSUME Start \in PendingKeys(s.pending) PROVE Start \in PendingKeys(i.pending)
    OBVIOUS
  <2>1. PICK p \in s.pending : p.key = Start
    BY DEF PendingKeys
  <2>2. Start[1] \in tasks
    BY <1>1, PlanTasks DEF Start, StartKey
  <2>3. p \in pending
    BY <2>1, <2>2 DEF pending
  <2> QED
    BY <1>4, <2>1, <2>3 DEF PendingKeys
<1>13. i.targets \subseteq s.targets
  BY <1>4 DEF targets
<1>14. QED
  BY <1>3, <1>4, <1>7, <1>9, <1>10, <1>11, <1>12, <1>13 DEF i, Approved

\* A flow with plans that waits for nothing at its start has one in force.
LEMMA PlanInForce ==
  ASSUME flow \in Flows, flow.planned, NEW s, NEW held, NEW old, GateFits(s, held, old),
         s.plan \in PlanOf(flow), Start \notin PendingKeys(s.pending), s.startAction # "revise"
  PROVE  s.plan.present /\ Gated(s.plan, Start) /\ Start \in held
<1>1. Requested(Start) \notin s.pending
  BY DEF PendingKeys, Requested, Approval
<1>2. s.plan.present
  BY <1>1 DEF GateFits, PlanFits
<1>3. Gated(s.plan, Start)
  BY <1>2, PlanGates
<1>4. QED
  BY <1>2, <1>3 DEF GateFits, StartApproved, Approved

LEMMA RevisePlanGate ==
  ASSUME flow \in Flows, flow.planned, ~flow.intake, NEW s \in Record(flow), NEW held, NEW old,
         GateFits(s, held, old), NEW d, NEW p \in flow.proposals, Resolvable(flow, p)
  PROVE  GateFits(RevisePlan(s, d, p), held, old)
<1> DEFINE plan == Plan(p, FALSE)
           i == InstallPlan(s, plan)
           pending == i.pending \cup {Required(PlanKey)}
           r == RevisePlan(s, d, p)
<1>1. Installed(flow, plan) /\ plan \in PlanOf(flow) /\ plan.present
  BY ProposalsAssumption DEF Installed, PlanOf, Plan, Resolvable
<1>2. /\ i \in Record(flow) /\ i.plan = plan /\ i.items = s.items
      /\ i.startAction = s.startAction /\ i.change = s.change /\ i.targets \subseteq s.targets
      /\ \A k \in i.completed \ {Start} : k \in s.completed /\ Approved(held, plan, k)
      /\ i.completed \cup PendingResults(i) \subseteq s.completed \cup PendingResults(s)
      /\ i.completed \cup PendingResults(i) \subseteq KeysOf(Effective(flow, plan), s.items)
      /\ Start \in PendingKeys(s.pending) => Start \in PendingKeys(i.pending)
  BY <1>1, InstallGate
<1>3. r = [i EXCEPT !.pending = pending, !.lastDecision = d.id]
  BY <1>2 DEF RevisePlan, Record
<1>4. PendingKeys(pending) = PendingKeys(i.pending) \cup {PlanKey}
  <2> HIDE DEF i
  <2>1. Required(PlanKey).key = PlanKey
    BY DEF Required, Approval
  <2> QED
    BY <2>1 DEF PendingKeys
<1>5. PlanKey \notin FlowKeys(flow)
  BY ReservedKeys
<1>6. s.plan \in PlanOf(flow)
  BY DEF Record
<1> HIDE DEF plan, i, pending, r
<1>7. /\ r.completed = i.completed /\ r.pending = pending /\ r.plan = plan /\ r.items = s.items
      /\ r.startAction = s.startAction /\ r.targets = i.targets /\ r.change = s.change
  BY <1>2, <1>3 DEF Record
<1>8. PendingResults(r) = PendingResults(i)
  BY <1>4, <1>5, <1>7 DEF PendingResults
<1>9. ResultsApproved(r, held)
  BY <1>2, <1>7 DEF ResultsApproved
<1>10. StartApproved(r, held)
  <2> SUFFICES ASSUME Start \notin PendingKeys(pending), s.startAction # "revise"
               PROVE  Start \in held
    BY <1>7 DEF StartApproved, Approved
  <2> QED
    BY <1>2, <1>4, <1>6, PlanInForce
<1>11. PlanFits(r, old)
  <2>1. r.completed \cup PendingResults(r) \subseteq GraphKeys(r, r.plan)
    BY <1>2, <1>7, <1>8 DEF GraphKeys
  <2>2. r.startAction = "revise" => (r.completed \cup PendingResults(r)) \ {Start} \subseteq old
    BY <1>2, <1>7, <1>8 DEF GateFits, PlanFits
  <2> QED
    BY <1>1, <1>7, <2>1, <2>2 DEF PlanFits
<1>12. ChangeFits(r)
  BY <1>2, <1>7 DEF GateFits, ChangeFits
<1>13. QED
  BY <1>9, <1>10, <1>11, <1>12 DEF GateFits, r

LEMMA AcceptPlanGate ==
  ASSUME flow \in Flows, flow.planned, NEW s \in Record(flow), NEW held, NEW old,
         GateFits(s, held, old), NEW d
  PROVE  GateFits(AcceptPlan(s, d), held, old)
<1> DEFINE plan == [s.plan EXCEPT !.approved = TRUE]
           pending == {p \in s.pending : p.key # PlanKey}
           r == AcceptPlan(s, d)
<1>1. r = [s EXCEPT !.plan = plan, !.lastDecision = d.id, !.pending = pending]
  BY DEF AcceptPlan, Record
<1>2. s.plan \in PlanOf(flow)
  BY DEF Record
<1>3. /\ Effective(flow, plan) = Effective(flow, s.plan) /\ plan.present = s.plan.present
      /\ \A k : Gated(plan, k) <=> Gated(s.plan, k)
  BY <1>2, ApprovingPlan
<1>4. PlanKey \notin FlowKeys(flow) /\ Start \in FlowKeys(flow)
  BY ReservedKeys, StartTyped
<1>5. PendingKeys(pending) = PendingKeys(s.pending) \ {PlanKey}
  BY DEF PendingKeys
<1>6. pending \subseteq s.pending /\ (Requested(Start) \in s.pending => Requested(Start) \in pending)
  BY <1>4 DEF Requested, Approval
<1> HIDE DEF plan, pending, r
<1>7. /\ r.completed = s.completed /\ r.pending = pending /\ r.plan = plan /\ r.items = s.items
      /\ r.startAction = s.startAction /\ r.targets = s.targets /\ r.change = s.change
  BY <1>1 DEF Record
<1>8. PendingResults(r) = PendingResults(s) /\ GraphKeys(r, r.plan) = GraphKeys(s, s.plan)
      /\ GraphKeys(r, ProposedPlan(r)) = GraphKeys(s, ProposedPlan(s))
  BY <1>3, <1>4, <1>5, <1>7 DEF PendingResults, GraphKeys, ProposedPlan
<1>9. ResultsApproved(r, held) /\ StartApproved(r, held)
  BY <1>3, <1>4, <1>5, <1>7 DEF GateFits, ResultsApproved, StartApproved, Approved
<1>10. PlanFits(r, old)
  BY <1>3, <1>6, <1>7, <1>8 DEF GateFits, PlanFits
<1>11. ChangeFits(r)
  BY <1>7, <1>8 DEF GateFits, ChangeFits
<1>12. QED
  BY <1>9, <1>10, <1>11 DEF GateFits, r

LEMMA DecidePlanGate ==
  ASSUME IInv, GateInv, HasCheckpoint, FlowsLead, pc # "idle", flow' = flow, flow.planned,
         NEW d \in Decision, d.id = budget.decisions, d.verb = "revise" => ~flow.intake,
         DecidePlan(saved, d)
  PROVE  GateInv'
<1>1. /\ GateFits(saved, accepted \cup outdated, outdated)
      /\ saved \in Record(flow) /\ flow \in Flows
  BY GateOfCheckpoint
<1>2. outdated' = outdated
  BY DEF DecidePlan
<1>3. PICK held, old : held = accepted \cup outdated /\ old = outdated
  OBVIOUS
<1>4. ASSUME d.verb = "revise", NEW p \in flow.proposals, Resolvable(flow, p),
             Proceed(RevisePlan(saved, d, p),
                     DecisionEffects(d, {PlanKey}, ExcludedWork(Plan(p, FALSE)))),
             accepted' = accepted \ ExcludedWork(Plan(p, FALSE))
      PROVE  GateInv'
  <2> DEFINE plan == Plan(p, FALSE)
             r == RevisePlan(saved, d, p)
  <2>1. r \in Record(flow)
    BY <1>4, RevisePlanFits DEF Writes
  <2>2. GateFits(r, held, old)
    BY <1>1, <1>3, <1>4, RevisePlanGate
  <2>3. Start \notin ExcludedWork(plan) /\ \A k \in r.completed : k \notin ExcludedWork(plan)
    <3>1. Installed(flow, plan) /\ plan \in PlanOf(flow)
      BY <1>1, <1>4, ProposalsAssumption DEF Installed, PlanOf, Plan, Resolvable
    <3>2. Start[1] \in Effective(flow, plan).tasks
      BY <1>1, <3>1, PlanTasks DEF Start, StartKey
    <3>3. /\ InstallPlan(saved, plan) \in Record(flow)
          /\ \A k \in InstallPlan(saved, plan).completed : k[1] \in Effective(flow, plan).tasks
      <4> DEFINE i == InstallPlan(saved, plan)
      <4>1. i \in Record(flow)
        BY <1>1, <3>1, InstallFits
      <4>2. i.completed = {k \in saved.completed : k[1] \in Effective(flow, plan).tasks}
                             \ NewlyGated(saved, plan)
        BY <1>1 DEF InstallPlan, Record
      <4> QED
        BY <4>1, <4>2
    <3>4. r.completed = InstallPlan(saved, plan).completed
      BY <3>3 DEF RevisePlan, Record
    <3> QED
      BY <3>2, <3>3, <3>4 DEF ExcludedWork
  <2> HIDE DEF r, plan
  <2>4. PICK held2 : held2 = accepted' \cup outdated'
    OBVIOUS
  <2>5. held \ ExcludedWork(plan) \subseteq held2
    BY <1>2, <1>3, <1>4, <2>4 DEF plan
  <2>6. GateFits(r, held2, old)
    BY <2>2, <2>3, <2>5 DEF GateFits, ResultsApproved, StartApproved, Approved
  <2> QED
    BY <1>2, <1>3, <1>4, <2>1, <2>4, <2>6, ProceedGate DEF r
<1>5. CASE Proceed(AcceptPlan(saved, d), DecisionEffects(d, {PlanKey}, {})) /\ UNCHANGED accepted
  <2>1. AcceptPlan(saved, d) \in Record(flow)
    BY AcceptPlanFits DEF Writes
  <2>2. GateFits(AcceptPlan(saved, d), held, old)
    BY <1>1, <1>3, AcceptPlanGate
  <2> QED
    BY <1>2, <1>3, <1>5, <2>1, <2>2, ProceedGate
<1>6. CASE Refuse /\ UNCHANGED accepted
  <2>1. saved' = saved /\ pc' = "idle"
    BY <1>6 DEF Refuse, StopPaused, Stops, rows
  <2> QED
    BY <1>2, <1>6, <2>1, GateStays
<1>7. QED
  BY <1>4, <1>5, <1>6 DEF DecidePlan

LEMMA ReturnLastGate ==
  ASSUME GateInv, flow' = flow, NEW s, ReturnLastResult(s), UNCHANGED history
  PROVE  GateInv'
<1>1. saved' = saved /\ pc' \in {"idle", "finish"} /\ accepted' = accepted /\ outdated' = outdated
  BY DEF ReturnLastResult, StopPaused, Stops, rows, history
<1>2. QED
  BY <1>1, GateStays

\* What a decision accepts was waiting for it.
LEMMA AcceptsRequired ==
  ASSUME NEW s, s.pending \in SUBSET ApprovalOf(flow), NEW d, NEW k \in Accepts(d, Chosen(s, d))
  PROVE  Required(k) \in s.pending
<1>1. PICK p \in Chosen(s, d) : p.key = k /\ p.trigger = "required"
  BY DEF Accepts
<1>2. p \in s.pending
  BY DEF Chosen, Named
<1>3. p = [key |-> p.key, trigger |-> p.trigger]
  BY <1>2 DEF ApprovalOf
<1>4. QED
  BY <1>1, <1>2, <1>3 DEF Required, Approval

LEMMA HumanDecisionGate ==
  ASSUME IInv, GateInv, HasCheckpoint, FlowsLead, pc # "idle", flow' = flow,
         NEW d \in Decision, d.id = budget.decisions,
         ~IntakeHandles(saved, d), ApplyHumanDecision(saved, d)
  PROVE  GateInv'
<1>1. /\ GateFits(saved, accepted \cup outdated, outdated)
      /\ saved \in Record(flow) /\ flow \in Flows /\ StartLeads(flow)
      /\ saved.plan \in PlanOf(flow) /\ saved.items \in Selections(flow)
      /\ saved.pending \in SUBSET ApprovalOf(flow)
      /\ saved.completed \subseteq FlowKeys(flow)
  BY GateOfCheckpoint
<1>2. /\ Counted(saved) /\ PendingFits(saved) /\ ResultsKnown(saved)
      /\ d.id \in 0..MaxDecisions /\ {} \in SUBSET FlowKeys(flow)
  BY CheckpointOf DEF Decision
<1>3. ASSUME ReturnLastResult(saved), UNCHANGED history
      PROVE  GateInv'
  BY <1>3, ReturnLastGate
<1>4. CASE PlanCommand(saved, d) /\ DecidePlan(saved, d)
  <2>1. flow.planned /\ (d.verb = "revise" => ~flow.intake)
    BY <1>4 DEF PlanCommand, IntakeHandles
  <2> QED
    BY <1>4, <2>1, DecidePlanGate
<1>5. CASE ~PlanCommand(saved, d) /\ Decide(saved, d, Chosen(saved, d), {})
  <2>1. PICK chosen : chosen = Chosen(saved, d)
    OBVIOUS
  <2>2. chosen \in SUBSET ApprovalOf(flow)
    BY <1>1, <2>1 DEF Chosen, Named
  <2>3. Accepts(d, chosen) \subseteq FlowKeys(flow) \cap Known
    BY <1>5, <2>1, AcceptsResults
  <2>4. \A k \in Accepts(d, chosen) : Required(k) \in saved.pending
    BY <1>1, <2>1, AcceptsRequired
  <2>5. Deciding(saved, d, chosen, {})
    BY <2>2, <2>3, <2>4 DEF Deciding
  <2>6. Settled(saved, d, chosen, {}) \in Record(flow)
    BY <1>1, <1>2, <2>2, <2>3, SettledFits DEF Writes
  <2> QED
    BY <1>1, <1>2, <1>5, <2>1, <2>5, <2>6, DecideGate
<1>6. CASE Repairs(saved, d)
           /\ Decide([saved EXCEPT !.outcome = "needs_human"], d, {Requested(d.target)}, {})
  <2> DEFINE s == [saved EXCEPT !.outcome = "needs_human"]
             chosen == {Requested(d.target)}
  <2>1. s \in Record(flow) /\ s.pending = saved.pending /\ s.completed = saved.completed
        /\ s.sequence = saved.sequence /\ s.lastDecision = saved.lastDecision
        /\ s.change = saved.change /\ s.plan = saved.plan /\ s.items = saved.items
        /\ s.startAction = saved.startAction /\ s.targets = saved.targets
    BY <1>1 DEF Record, Outcomes
  <2>2. d.target \in FlowKeys(flow)
    BY <1>1, <1>6, KeysInFlow DEF Repairs, GraphKeys
  <2>3. chosen \in SUBSET ApprovalOf(flow)
    BY <2>2 DEF Requested, Approval, ApprovalOf
  <2>4. Accepts(d, chosen) = {}
    BY <1>6 DEF Accepts, Repairs
  <2> HIDE DEF s, chosen
  <2>5. Counted(s) /\ PendingFits(s) /\ ResultsKnown(s)
    BY <1>2, <2>1 DEF Counted, PendingFits, ResultsKnown
  <2>6. Decide(s, d, chosen, {})
    BY <1>6 DEF s, chosen
  <2>7. Deciding(s, d, chosen, {})
    BY <2>3, <2>4 DEF Deciding
  <2>8. Settled(s, d, chosen, {}) \in Record(flow)
    BY <1>2, <2>1, <2>3, <2>4, <2>5, SettledFits DEF Writes
  <2>9. GateFits(s, accepted \cup outdated, outdated)
    BY <1>1, <2>1, SameGate
  <2> QED
    BY <1>1, <1>2, <2>1, <2>6, <2>7, <2>8, <2>9, DecideGate
<1>7. CASE Reopens(saved, d)
           /\ Decide(saved, d, {Required(d.target)}, Affected(saved.plan, saved.items, d.target))
  <2> DEFINE chosen == {Required(d.target)}
             withdrawn == Affected(saved.plan, saved.items, d.target)
  <2>1. d.target \in FlowKeys(flow) /\ d.verb = "revise"
    BY <1>1, <1>7 DEF Reopens
  <2>2. chosen \in SUBSET ApprovalOf(flow)
    BY <2>1 DEF Required, Approval, ApprovalOf
  <2>3. Accepts(d, chosen) = {}
    BY <2>1 DEF Accepts
  <2>4. withdrawn \in SUBSET FlowKeys(flow)
    BY <1>1, AffectedKeys DEF Affected
  <2>5. Start \in withdrawn => d.target = Start
    BY <1>1, StartAlone
  <2>6. d.target \in Redoes(d, chosen)
    BY <2>3 DEF Redoes, PendingKeys, Required, Approval
  <2> HIDE DEF chosen, withdrawn
  <2>7. Deciding(saved, d, chosen, withdrawn)
    BY <2>2, <2>3, <2>4, <2>5, <2>6 DEF Deciding
  <2>8. Decide(saved, d, chosen, withdrawn)
    BY <1>7 DEF chosen, withdrawn
  <2>9. Settled(saved, d, chosen, withdrawn) \in Record(flow)
    BY <1>1, <1>2, <2>2, <2>3, <2>4, SettledFits DEF Writes
  <2> QED
    BY <1>1, <1>2, <2>7, <2>8, <2>9, DecideGate
<1>8. CASE Refuse /\ UNCHANGED history
  <2>1. saved' = saved /\ pc' = "idle" /\ accepted' = accepted /\ outdated' = outdated
    BY <1>8 DEF Refuse, StopPaused, Stops, rows, history
  <2> QED
    BY <2>1, GateStays
<1>9. QED
  BY <1>3, <1>4, <1>5, <1>6, <1>7, <1>8 DEF ApplyHumanDecision

-----------------------------------------------------------------------------
(* Gates: decisions about changes *)

LEMMA PauseGate ==
  ASSUME flow' = flow, NEW record, NEW e, Pause(record, e),
         GateFits(record, accepted' \cup outdated', outdated')
  PROVE  GateInv'
<1>1. saved' = record /\ pc' = "idle"
  BY DEF Pause, Commit, Stops
<1>2. PICK at : at = pc'
  OBVIOUS
<1>3. QED
  BY <1>1, <1>2, RestGate

\* A proposal that restarts the start undoes all that follows it.
ChangeStands(s, change) ==
    LET plan == IF change.plan.present THEN change.plan ELSE s.plan
    IN  /\ ~flow.planned => change.plan = NoPlan
        /\ change.ready =>
              /\ flow.planned /\ Start \in change.revisions => GraphKeys(s, plan) \subseteq change.affected
              /\ GatedStart /\ Start \in change.affected => Start \in change.revisions

LEMMA ReconsideredGate ==
  ASSUME flow \in Flows, flow.intake, NEW s \in Record(flow), NEW held, NEW old,
         GateFits(s, held, old), NEW d, NEW change, ChangeStands(s, change), NEW outcome
  PROVE  GateFits(Reconsidered(s, d, change, outcome), held, old)
<1> DEFINE pending == {p \in s.pending : p.key[1] # "change"}
                         \cup (IF change.ready THEN {Required(ChangeKey(s.sequence + 1))} ELSE {})
           attempt == s.attempt + 1
           sequence == s.sequence + 1
           r == Reconsidered(s, d, change, outcome)
<1>1. r = [s EXCEPT !.attempt = attempt, !.sequence = sequence, !.lastDecision = d.id,
                    !.change = change, !.outcome = outcome, !.pending = pending]
  BY DEF Reconsidered, Record
<1>2. \A k \in FlowKeys(flow) : k[1] # "change"
  BY ReservedKeys
<1>3. \A p \in pending : p \in s.pending \/ p.key[1] = "change"
  BY DEF Required, Approval, ChangeKey
<1>4. \A p \in s.pending : p.key \in FlowKeys(flow) => p \in pending
  BY <1>2
<1> HIDE DEF pending, attempt, sequence, r
<1>5. /\ r.completed = s.completed /\ r.pending = pending /\ r.plan = s.plan /\ r.items = s.items
      /\ r.startAction = s.startAction /\ r.targets = s.targets /\ r.change = change
  BY <1>1 DEF Record
<1>6. \A k \in FlowKeys(flow) : k \in PendingKeys(pending) <=> k \in PendingKeys(s.pending)
  BY <1>2, <1>3, <1>4 DEF PendingKeys
<1>7. PendingResults(r) = PendingResults(s)
  BY <1>5, <1>6 DEF PendingResults
<1>8. Start \in FlowKeys(flow)
  BY StartTyped
<1>9. \A p : p.key = Start => (p \in pending <=> p \in s.pending)
  BY <1>2, <1>3, <1>4, <1>8
<1>10. /\ Required(Start) \in pending <=> Required(Start) \in s.pending
       /\ Requested(Start) \in pending <=> Requested(Start) \in s.pending
  BY <1>9 DEF Required, Requested, Approval
<1>11. ResultsApproved(r, held) /\ StartApproved(r, held)
  BY <1>5, <1>6, <1>8 DEF GateFits, ResultsApproved, StartApproved
<1>12. GraphKeys(r, r.plan) = GraphKeys(s, s.plan) /\ \A q : GraphKeys(r, q) = GraphKeys(s, q)
  BY <1>5 DEF GraphKeys
<1>13. PlanFits(r, old)
  <2>1. ~flow.planned => r.plan = NoPlan /\ r.change.plan = NoPlan
    BY <1>5 DEF ChangeStands, GateFits, PlanFits
  <2> QED
    BY <1>5, <1>7, <1>10, <1>12, <2>1 DEF GateFits, PlanFits
<1>14. ChangeFits(r)
  BY <1>5, <1>12 DEF GateFits, ChangeFits, ChangeStands, ProposedPlan
<1>15. QED
  BY <1>11, <1>13, <1>14 DEF GateFits, r

LEMMA ProposeGate ==
  ASSUME IInv, GateInv, HasCheckpoint, FlowsLead, flow' = flow, flow.intake, NEW d,
         ProposeChange(saved, d), UNCHANGED history
  PROVE  GateInv'
<1> DEFINE e == [NoEffects EXCEPT !.superseded =
                     IF saved.change.open THEN {ChangeKey(saved.sequence)} ELSE {}]
           unready == [NoChange EXCEPT !.open = TRUE]
<1>1. /\ GateFits(saved, accepted \cup outdated, outdated)
      /\ saved \in Record(flow) /\ flow \in Flows /\ StartLeads(flow)
      /\ saved.plan \in PlanOf(flow) /\ saved.items \in Selections(flow)
      /\ accepted' = accepted /\ outdated' = outdated
  BY GateOfCheckpoint DEF history
<1>2. ChangeStands(saved, unready)
  BY DEF ChangeStands, NoChange
<1>3. ASSUME NEW change, ChangeStands(saved, change), NEW outcome,
             Pause(Reconsidered(saved, d, change, outcome), e)
      PROVE  GateInv'
  <2> HIDE DEF e
  <2>1. PICK held, old : held = accepted \cup outdated /\ old = outdated
    OBVIOUS
  <2>2. GateFits(Reconsidered(saved, d, change, outcome), held, old)
    BY <1>1, <1>3, <2>1, ReconsideredGate
  <2> QED
    BY <1>1, <1>3, <2>1, <2>2, PauseGate
<1>4. ASSUME NEW c \in flow.changes, ValidChange(saved, c),
             Pause(Reconsidered(saved, d, [open |-> TRUE, ready |-> TRUE,
                           plan |-> IF c.settings = {} THEN NoPlan ELSE ChangedPlan(saved, c),
                           affected |-> ChangeScope(saved, c),
                           revisions |-> c.revisions], "needs_human"), e)
      PROVE  GateInv'
  <2> DEFINE q == ChangedPlan(saved, c)
             change == [open |-> TRUE, ready |-> TRUE,
                        plan |-> IF c.settings = {} THEN NoPlan ELSE ChangedPlan(saved, c),
                        affected |-> ChangeScope(saved, c), revisions |-> c.revisions]
  <2>1. /\ q \in PlanOf(flow) /\ (c.settings = {} => q = saved.plan)
        /\ (c.settings # {} => q.present /\ flow.planned)
    <3>1. CASE c.settings = {}
      BY <1>1, <3>1 DEF ChangedPlan
    <3>2. CASE c.settings # {}
      <4>1. PICK p : p = CHOOSE r \in c.settings : TRUE
        OBVIOUS
      <4>2. p \in c.settings
        BY <3>2, <4>1
      <4>3. p \in flow.proposals /\ Resolvable(flow, p) /\ flow.planned
        BY <1>1, <1>4, <4>2, ProposalsAssumption DEF ValidChange
      <4>4. Plan(p, TRUE) \in PlanOf(flow) /\ Plan(p, TRUE).present
        BY <1>1, <4>3, ProposalsAssumption DEF Installed, PlanOf, Plan, Resolvable
      <4> QED
        BY <3>2, <4>1, <4>3, <4>4 DEF ChangedPlan
    <3> QED
      BY <3>1, <3>2
  <2>2. /\ change.ready /\ change.plan = (IF c.settings = {} THEN NoPlan ELSE q)
        /\ change.affected = ChangeScope(saved, c) /\ change.revisions = c.revisions
    OBVIOUS
  <2> HIDE DEF change, q
  <2>3. (IF change.plan.present THEN change.plan ELSE saved.plan) = q
    BY <2>1, <2>2 DEF NoPlan
  <2>4. ~flow.planned => change.plan = NoPlan
    BY <2>1, <2>2
  <2>5. ChangeScope(saved, c) = UNION {Affected(q, saved.items, k) :
                                          k \in c.revisions \cup (saved.targets \cap GraphKeys(saved, q))}
    BY DEF ChangeScope, q
  <2>6. flow.planned /\ Start \in c.revisions => GraphKeys(saved, q) \subseteq ChangeScope(saved, c)
    BY <1>1, <2>1, <2>5, StartBefore DEF GraphKeys
  <2>7. GatedStart /\ Start \in ChangeScope(saved, c) => Start \in c.revisions
    <3> SUFFICES ASSUME GatedStart, Start \in ChangeScope(saved, c) PROVE Start \in c.revisions
      OBVIOUS
    <3>1. PICK k \in c.revisions \cup (saved.targets \cap GraphKeys(saved, q)) :
             Start \in Affected(q, saved.items, k)
      BY <2>5
    <3>2. k = Start
      BY <1>1, <2>1, <3>1, StartAlone
    <3>3. Start \notin saved.targets
      BY <1>1 DEF GateFits, ChangeFits
    <3> QED
      BY <3>1, <3>2, <3>3
  <2>8. ChangeStands(saved, change)
    BY <2>2, <2>3, <2>4, <2>6, <2>7 DEF ChangeStands
  <2>9. Pause(Reconsidered(saved, d, change, "needs_human"), e)
    BY <1>4 DEF change, q
  <2> QED
    BY <1>3, <2>8, <2>9
<1>5. QED
  <2>1. \/ \E c \in flow.changes :
              /\ ValidChange(saved, c)
              /\ Pause(Reconsidered(saved, d, [open |-> TRUE, ready |-> TRUE,
                           plan |-> IF c.settings = {} THEN NoPlan ELSE ChangedPlan(saved, c),
                           affected |-> ChangeScope(saved, c),
                           revisions |-> c.revisions], "needs_human"), e)
        \/ Pause(Reconsidered(saved, d, unready, "needs_info"), e)
        \/ Pause(Reconsidered(saved, d, unready, "needs_human"), e)
    BY DEF ProposeChange
  <2> HIDE DEF e, unready
  <2> QED
    BY <1>2, <1>3, <1>4, <2>1

\* What remains of a change's record is what the change does not undo.
LEMMA ChangeAppliedGate ==
  ASSUME flow \in Flows, flow.intake, NEW s \in Record(flow), NEW held, NEW old,
         GateFits(s, held, old), s.change.ready, NEW d, NEW held2, held \ Undone(s) \subseteq held2
  PROVE  GateFits(ChangeApplied(s, d), held2, old)
<1> DEFINE plan == s.change.plan
           i == IF plan.present THEN InstallPlan(s, plan) ELSE s
           undone == Undone(s)
           restarts == Start \in s.change.revisions
           completed == i.completed \ undone
           pending == {p \in i.pending : p.key[1] # "change" /\ p.key \notin undone}
           targets == (i.targets \ undone) \cup (s.change.revisions \ {Start})
           startApproved == i.startApproved /\ ~restarts
           startAction == IF restarts THEN "revise" ELSE i.startAction
           r == ChangeApplied(s, d)
<1>1. s.change \in ChangeOf(flow) /\ s.plan \in PlanOf(flow) /\ s.items \in Selections(flow)
  BY DEF Record
<1>2. plan \in PlanOf(flow) /\ (plan.present => Installed(flow, plan))
  BY <1>1 DEF ChangeOf, PlanOf, NoPlan
<1>3. /\ ResultsApproved(s, held) /\ StartApproved(s, held) /\ PlanFits(s, old) /\ ChangeFits(s)
  BY DEF GateFits
<1>4. ~flow.planned => s.plan = NoPlan /\ plan = NoPlan /\ ~plan.present
  BY <1>3 DEF PlanFits, NoPlan
<1>5. /\ i \in Record(flow) /\ i.items = s.items /\ i.startAction = s.startAction
      /\ i.targets \subseteq s.targets /\ i.plan \in PlanOf(flow)
      /\ \A k \in i.completed \ {Start} : Approved(held, i.plan, k)
      /\ i.completed \cup PendingResults(i) \subseteq s.completed \cup PendingResults(s)
      /\ flow.planned =>
            i.completed \cup PendingResults(i) \subseteq KeysOf(Effective(flow, i.plan), s.items)
      /\ (Start \in PendingKeys(s.pending) => Start \in PendingKeys(i.pending))
      /\ i.plan = ProposedPlan(s)
  <2>1. CASE plan.present
    <3>1. i = InstallPlan(s, plan)
      BY <2>1
    <3>2. flow.planned
      BY <1>4, <2>1
    <3>3. ProposedPlan(s) = plan
      BY <2>1 DEF ProposedPlan
    <3> HIDE DEF i, plan
    <3>4. /\ i \in Record(flow) /\ i.plan = plan /\ i.items = s.items
          /\ i.startAction = s.startAction /\ i.change = s.change /\ i.targets \subseteq s.targets
          /\ \A k \in i.completed \ {Start} : k \in s.completed /\ Approved(held, plan, k)
          /\ i.completed \cup PendingResults(i) \subseteq s.completed \cup PendingResults(s)
          /\ i.completed \cup PendingResults(i) \subseteq KeysOf(Effective(flow, plan), s.items)
          /\ Start \in PendingKeys(s.pending) => Start \in PendingKeys(i.pending)
      BY <1>2, <2>1, <3>1, <3>2, InstallGate
    <3> QED
      BY <1>2, <3>3, <3>4
  <2>2. CASE ~plan.present
    <3>1. i = s /\ ProposedPlan(s) = s.plan
      BY <2>2 DEF ProposedPlan
    <3> HIDE DEF i, plan
    <3> QED
      BY <1>1, <1>3, <3>1 DEF ResultsApproved, PlanFits, GraphKeys
  <2> QED
    BY <2>1, <2>2
<1>6. ~plan.present => i = s
  OBVIOUS
<1>7. r = [i EXCEPT !.completed = completed, !.pending = pending, !.targets = targets,
                    !.options = {}, !.startApproved = startApproved, !.startAction = startAction,
                    !.change = NoChange, !.lastDecision = d.id, !.outcome = "implemented"]
  <2>1. r = [i EXCEPT !.completed = @ \ undone,
            !.pending = {p \in @ : p.key[1] # "change" /\ p.key \notin undone},
            !.targets = (@ \ undone) \cup (s.change.revisions \ {Start}),
            !.options = {},
            !.startApproved = @ /\ ~restarts,
            !.startAction = IF restarts THEN "revise" ELSE @,
            !.change = NoChange, !.lastDecision = d.id, !.outcome = "implemented"]
    BY DEF ChangeApplied
  <2> HIDE DEF i, undone, restarts, r
  <2> QED
    BY <1>5, <2>1 DEF Record
<1>8. /\ Start \in FlowKeys(flow) /\ Start[1] # "change"
      /\ GatedStart /\ ~restarts => Start \notin undone
  <2>1. Start \in FlowKeys(flow) /\ Start[1] # "change"
    BY StartTyped, ReservedKeys
  <2>2. ASSUME GatedStart, ~restarts PROVE Start \notin undone
    <3>1. Start \notin s.change.affected
      BY <1>3, <2>2 DEF ChangeFits
    <3>2. Start \notin Removed(s)
      BY <1>2, PlanTasks DEF Removed, ExcludedWork, Start, StartKey
    <3> QED
      BY <3>1, <3>2 DEF Undone
  <2> QED
    BY <2>1, <2>2
<1>9. restarts /\ flow.planned => GraphKeys(s, ProposedPlan(s)) \subseteq undone
  BY <1>3 DEF ChangeFits, Undone
<1>10. \A p \in s.pending : p.key = Start => p.key[1] # "change"
  BY <1>8
<1> HIDE DEF plan, i, undone, completed, pending, targets, startApproved, r
<1>11. /\ r.completed = completed /\ r.pending = pending /\ r.plan = i.plan /\ r.items = s.items
       /\ r.startAction = startAction /\ r.targets = targets /\ r.change = NoChange
  <2> HIDE DEF startAction
  <2> QED
    BY <1>5, <1>7 DEF Record
<1>12. completed \subseteq i.completed \ undone /\ pending \subseteq i.pending
       /\ PendingResults(r) \subseteq PendingResults(i) \ undone
  BY <1>11 DEF completed, pending, PendingResults, PendingKeys
<1>13. GatedStart => Start \in undone \/ (Start \in PendingKeys(i.pending) => Start \in PendingKeys(pending))
  BY <1>8 DEF PendingKeys, pending
<1>14. Gated(i.plan, Start) => GatedStart
  <2>1. CASE flow.planned
    BY <2>1 DEF GatedStart
  <2>2. CASE ~flow.planned
    BY <1>4, <1>5, <1>6, <2>2, PlanGates
  <2> QED
    BY <2>1, <2>2
<1>15. ResultsApproved(r, held2)
  BY <1>5, <1>11, <1>12 DEF ResultsApproved, Approved, undone
<1>16. StartApproved(r, held2)
  <2> SUFFICES ASSUME Start \notin PendingKeys(pending), startAction # "revise", Gated(i.plan, Start)
               PROVE  Start \in held2
    BY <1>11 DEF StartApproved, Approved
  <2>1. ~restarts /\ s.startAction # "revise"
    BY <1>5
  <2>2. GatedStart /\ Start \notin undone
    BY <1>8, <1>14, <2>1
  <2>3. Start \notin PendingKeys(s.pending)
    BY <1>5, <1>13, <2>2
  <2>4. CASE flow.planned
    <3>1. Start \in held
      BY <1>1, <2>1, <2>3, <2>4, PlanInForce
    <3> QED
      BY <2>2, <3>1 DEF undone
  <2>5. CASE ~flow.planned
    <3>1. i.plan = s.plan
      BY <1>4, <1>6, <2>5
    <3>2. Start \in held
      BY <1>3, <2>1, <2>3, <3>1 DEF StartApproved, Approved
    <3> QED
      BY <2>2, <3>2 DEF undone
  <2> QED
    BY <2>4, <2>5
<1>17. PlanFits(r, old)
  <2>1. ~flow.planned => r.plan = NoPlan /\ r.change.plan = NoPlan
    BY <1>4, <1>6, <1>11 DEF NoChange
  <2>2. flow.planned => r.completed \cup PendingResults(r) \subseteq GraphKeys(r, r.plan)
    BY <1>5, <1>11, <1>12 DEF GraphKeys
  <2>3. ASSUME flow.planned, r.startAction = "revise"
        PROVE  (r.completed \cup PendingResults(r)) \ {Start} \subseteq old
    <3>1. CASE restarts
      <4>1. GraphKeys(s, ProposedPlan(s)) = KeysOf(Effective(flow, i.plan), s.items)
        BY <1>5 DEF GraphKeys
      <4>2. i.completed \cup PendingResults(i) \subseteq undone
        BY <1>5, <1>9, <2>3, <3>1, <4>1
      <4> QED
        BY <1>11, <1>12, <4>2
    <3>2. CASE ~restarts
      <4>1. s.startAction = "revise"
        BY <1>5, <1>11, <2>3, <3>2
      <4>2. (s.completed \cup PendingResults(s)) \ {Start} \subseteq old
        BY <1>3, <2>3, <4>1 DEF PlanFits
      <4> QED
        BY <1>5, <1>11, <1>12, <4>2
    <3> QED
      BY <3>1, <3>2
  <2>4. ASSUME flow.planned, ~r.plan.present
        PROVE  Required(Start) \notin r.pending
               /\ (Requested(Start) \in r.pending \/ r.startAction = "revise")
    <3>1. i = s
      BY <1>2, <1>5, <1>6, <1>11, <2>4 DEF ProposedPlan, plan
    <3>2. Required(Start) \notin s.pending
          /\ (Requested(Start) \in s.pending \/ s.startAction = "revise")
      BY <1>3, <1>11, <2>4, <3>1 DEF PlanFits
    <3>3. GatedStart
      BY <2>4 DEF GatedStart
    <3>4. ~restarts /\ Requested(Start) \in s.pending => Requested(Start) \in pending
      BY <1>8, <3>1, <3>3 DEF pending, Requested, Approval
    <3> QED
      BY <1>5, <1>11, <1>12, <3>1, <3>2, <3>4
  <2> QED
    BY <2>1, <2>2, <2>3, <2>4 DEF PlanFits
<1>18. ChangeFits(r)
  <2>1. GatedStart => Start \notin targets
    BY <1>3, <1>5 DEF ChangeFits, targets
  <2> QED
    BY <1>11, <2>1 DEF ChangeFits, NoChange
<1>19. QED
  BY <1>15, <1>16, <1>17, <1>18 DEF GateFits, r

LEMMA IntakeGate ==
  ASSUME IInv, GateInv, HasCheckpoint, FlowsLead, flow' = flow,
         NEW d \in Decision, d.id = budget.decisions,
         IntakeHandles(saved, d), IntakeDecision(saved, d)
  PROVE  GateInv'
<1>1. /\ GateFits(saved, accepted \cup outdated, outdated) /\ flow.intake
      /\ saved \in Record(flow) /\ flow \in Flows
  BY GateOfCheckpoint DEF IntakeHandles
<1>2. PICK held, old : held = accepted \cup outdated /\ old = outdated
  OBVIOUS
<1>3. ASSUME ReturnLastResult(saved), UNCHANGED history
      PROVE  GateInv'
  BY <1>3, ReturnLastGate
<1>4. ASSUME ProposeChange(saved, d), UNCHANGED history
      PROVE  GateInv'
  BY <1>1, <1>4, ProposeGate
<1>5. ASSUME saved.change.ready, AcceptChange(saved, d)
      PROVE  GateInv'
  <2> DEFINE r == ChangeApplied(saved, d)
             e == DecisionEffects(d, {ChangeKey(saved.sequence)}, Undone(saved))
  <2>1. r \in Record(flow)
    BY <1>1, <1>5, ChangeAppliedFits DEF Writes
  <2>2. Proceed(r, e) /\ accepted' = accepted \ Undone(saved) /\ outdated' = outdated
    BY <1>5 DEF AcceptChange
  <2>3. PICK held2 : held2 = accepted' \cup outdated'
    OBVIOUS
  <2>4. held \ Undone(saved) \subseteq held2
    BY <1>2, <2>2, <2>3
  <2>5. GateFits(r, held2, old)
    BY <1>1, <1>2, <1>5, <2>4, ChangeAppliedGate
  <2> HIDE DEF r, e
  <2> QED
    BY <1>2, <2>1, <2>2, <2>3, <2>5, ProceedGate
<1>6. ASSUME Pause([saved EXCEPT !.outcome = "needs_human"], NoEffects), UNCHANGED history
      PROVE  GateInv'
  <2> DEFINE r == [saved EXCEPT !.outcome = "needs_human"]
  <2>1. /\ r.completed = saved.completed /\ r.pending = saved.pending /\ r.plan = saved.plan
        /\ r.items = saved.items /\ r.startAction = saved.startAction /\ r.targets = saved.targets
        /\ r.change = saved.change
    BY <1>1 DEF Record
  <2>2. Pause(r, NoEffects) /\ accepted' = accepted /\ outdated' = outdated
    BY <1>6 DEF history
  <2> HIDE DEF r
  <2>3. GateFits(r, held, old)
    BY <1>1, <1>2, <2>1, SameGate
  <2> QED
    BY <1>2, <2>2, <2>3, PauseGate
<1>7. QED
  BY <1>3, <1>4, <1>5, <1>6 DEF IntakeDecision

LEMMA ResumeGate == IInv /\ GateInv /\ FlowsLead /\ ResumeWithDecision => GateInv'
<1> SUFFICES ASSUME IInv, GateInv, FlowsLead, ResumeWithDecision PROVE GateInv'
  OBVIOUS
<1>1. PICK d : d = job.decision
  OBVIOUS
<1>2. flow' = flow /\ budget' = budget /\ pc = "resume"
      /\ IF IntakeHandles(saved, d) THEN IntakeDecision(saved, d) ELSE ResumeWith(saved, d)
  BY <1>1 DEF ResumeWithDecision
<1>3. d \in Decision /\ d.id = budget.decisions /\ HasCheckpoint
  BY <1>1, <1>2, MemoryOf DEF JobRow
<1>4. CASE IntakeHandles(saved, d)
  BY <1>2, <1>3, <1>4, IntakeGate
<1>5. CASE ~IntakeHandles(saved, d) /\ HumanCommand(d)
  BY <1>2, <1>3, <1>5, HumanDecisionGate DEF ResumeWith
<1>6. CASE ~IntakeHandles(saved, d) /\ ~HumanCommand(d)
  <2>1. ResumeUndecided(saved)
    BY <1>2, <1>6 DEF ResumeWith
  <2>2. accepted' = accepted /\ outdated' = outdated /\ saved' = saved
    BY <2>1 DEF ResumeUndecided, FailCoordinator, durable, history
  <2>3. CASE saved.pending # {}
    <3>1. pc' = "idle"
      BY <2>1, <2>3 DEF ResumeUndecided, FailCoordinator, Stops
    <3> QED
      BY <1>2, <2>2, <3>1, GateStays
  <2>4. CASE saved.pending = {}
    <3>1. pc' = IF saved.startAction = "revise" THEN "plan" ELSE "prepare"
      BY <2>1, <2>4 DEF ResumeUndecided
    <3>2. PICK at, record, held, old : at = pc' /\ record = saved
             /\ held = accepted \cup outdated /\ old = outdated
      OBVIOUS
    <3>3. GateFits(record, held, old)
      BY <1>3, <3>2, GateOfCheckpoint
    <3> QED
      BY <1>2, <2>2, <3>1, <3>2, <3>3, RestGate
  <2> QED
    BY <2>3, <2>4
<1>7. QED
  BY <1>4, <1>5, <1>6

-----------------------------------------------------------------------------
(* Gates: planning and waves *)

\* Results a run may begin with: approved under its plan, none of them the start's.
Beginnable(s, plan, held) ==
    /\ \A k \in s.completed \ {Start} : Approved(held, plan, k)
    /\ GatedStart => Start \notin s.targets
    /\ IF flow.planned THEN plan.present ELSE plan = NoPlan

LEMMA RestoredResults ==
  ASSUME flow \in Flows, StartLeads(flow), NEW s \in Record(flow), NEW items \in Selections(flow),
         NEW plan \in PlanOf(flow), NEW held, Beginnable(s, plan, held)
  PROVE  LET m == Restored(s, items, plan)
         IN  /\ \A k \in m.completed \ {Start} : Approved(held, plan, k)
             /\ GatedStart => Start \in m.completed
             /\ m.completed \subseteq KeysOf(Effective(flow, plan), items)
             /\ m.plan = plan /\ m.items = items /\ m.wave = {} /\ m \in Memory(flow)
<1> DEFINE m == Restored(s, items, plan)
           keys == KeysOf(Effective(flow, plan), items)
           completed == ((s.completed \cap keys) \cup {Start}) \ RestartedBy(plan, items, s.targets)
<1>1. m \in Memory(flow) /\ m.items = items /\ m.plan = plan /\ m.wave = {}
  BY RestoredFits
<1>2. m.completed = completed
  BY DEF Restored, NoWork
<1>3. Start \in keys
  BY StartTyped
<1>4. GatedStart => Start \notin RestartedBy(plan, items, s.targets)
  BY StartNotRestarted DEF Beginnable
<1> HIDE DEF m, keys
<1>5. completed \subseteq keys /\ completed \subseteq s.completed \cup {Start}
      /\ (GatedStart => Start \in completed)
  BY <1>3, <1>4
<1>6. QED
  BY <1>1, <1>2, <1>5 DEF m, keys, Beginnable

LEMMA BeginGate ==
  ASSUME flow \in Flows, StartLeads(flow), flow' = flow, NEW s \in Record(flow),
         NEW items \in Selections(flow), NEW plan \in PlanOf(flow), NEW sa,
         BeginWork(s, items, plan, sa), NEW held, NEW old,
         held = accepted' \cup outdated', old = outdated', Beginnable(s, plan, held),
         (Start[1] \in flow.required => sa) /\ plan.approved => Approved(held, plan, Start),
         HasCheckpoint => GateFits(saved, held, old)
  PROVE  GateInv'
<1> DEFINE m == Restored(s, items, plan)
<1>1. /\ \A k \in m.completed \ {Start} : Approved(held, plan, k)
      /\ GatedStart => Start \in m.completed
      /\ m.completed \subseteq KeysOf(Effective(flow, plan), items)
      /\ m.plan = plan /\ m.items = items /\ m.wave = {} /\ m \in Memory(flow)
  BY RestoredResults
<1>2. \/ FailCoordinator
      \/ Pause(Snapshot(m, "needs_human", {Required(Start)}, FALSE), NoEffects)
      \/ /\ (Start[1] \in flow.required => sa) /\ plan.approved
         /\ mem' = EnsureWaiting(m, Incomplete(m)) /\ pc' = "wave" /\ durable' = durable
  BY DEF BeginWork
<1> HIDE DEF m
<1>3. IF flow.planned THEN plan.present ELSE plan = NoPlan
  BY DEF Beginnable
<1>4. CASE FailCoordinator
  <2>1. saved' = saved /\ pc' = "idle"
    BY <1>4 DEF FailCoordinator, Stops
  <2>2. PICK w, at, record : w = mem' /\ at = pc' /\ record = saved
    OBVIOUS
  <2>3. Leaves(record, w, at, held, old)
    BY <2>1, <2>2 DEF Leaves, HasCheckpoint
  <2> QED
    BY <2>1, <2>2, <2>3, GateOfLeaves
<1>5. CASE Pause(Snapshot(m, "needs_human", {Required(Start)}, FALSE), NoEffects)
  <2> DEFINE r == Snapshot(m, "needs_human", {Required(Start)}, FALSE)
  <2>1. /\ r.completed = m.completed /\ r.pending = {Required(Start)} /\ r.plan = plan
        /\ r.items = items /\ r.startAction = "none" /\ r.targets = {} /\ r.change = NoChange
    BY <1>1 DEF Snapshot
  <2>2. ~NoChange.ready /\ NoChange.plan = NoPlan
    BY DEF NoChange
  <2>3. PendingKeys({Required(Start)}) = {Start}
    BY DEF PendingKeys, Required, Approval
  <2>4. Start \in KeysOf(Effective(flow, plan), items)
    BY StartTyped
  <2>5. Pause(r, NoEffects)
    BY <1>5
  <2> HIDE DEF r
  <2>6. PendingResults(r) \subseteq {Start} /\ GraphKeys(r, r.plan) = KeysOf(Effective(flow, plan), items)
    BY <2>1, <2>3 DEF PendingResults, GraphKeys
  <2>7. ResultsApproved(r, held) /\ StartApproved(r, held)
    BY <1>1, <2>1, <2>3 DEF ResultsApproved, StartApproved
  <2>8. PlanFits(r, old)
    BY <1>1, <1>3, <2>1, <2>2, <2>4, <2>6 DEF PlanFits
  <2>9. ChangeFits(r)
    BY <2>1, <2>2 DEF ChangeFits
  <2>10. GateFits(r, held, old)
    BY <2>7, <2>8, <2>9 DEF GateFits
  <2> QED
    BY <2>5, <2>10, PauseGate
<1>6. CASE /\ (Start[1] \in flow.required => sa) /\ plan.approved
           /\ mem' = EnsureWaiting(m, Incomplete(m)) /\ pc' = "wave" /\ durable' = durable
  <2>1. PICK w, at, record : w = EnsureWaiting(m, Incomplete(m)) /\ at = "wave" /\ record = saved
    OBVIOUS
  <2>2. w.completed = m.completed /\ w.wave = {} /\ w.plan = plan /\ w.items = items
    BY <1>1, <2>1 DEF EnsureWaiting, Memory
  <2>3. WorkFits(w, held)
    <3>1. \A k \in w.completed : Approved(held, w.plan, k)
      BY <1>1, <1>6, <2>2
    <3>2. Keys(w) = KeysOf(Effective(flow, plan), items)
      BY <2>2 DEF Keys
    <3> QED
      BY <1>1, <1>3, <2>2, <3>1, <3>2 DEF WorkFits
  <2>4. saved' = record
    BY <1>6, <2>1 DEF durable
  <2>5. Leaves(record, w, at, held, old)
    BY <2>1, <2>3 DEF Leaves, HasCheckpoint
  <2> QED
    BY <1>6, <2>1, <2>4, <2>5, GateOfLeaves
<1>7. QED
  BY <1>2, <1>4, <1>5, <1>6

LEMMA PrepareGate == IInv /\ GateInv /\ FlowsLead /\ Prepare => GateInv'
<1> SUFFICES ASSUME IInv, GateInv, FlowsLead, Prepare PROVE GateInv'
  OBVIOUS
<1>1. /\ flow' = flow /\ accepted' = accepted /\ outdated' = outdated /\ pc = "prepare"
      /\ BeginWork(saved, saved.items, saved.plan, saved.startApproved)
  BY DEF Prepare, history
<1>2. HasCheckpoint
  BY <1>1, MemoryOf
<1>3. /\ saved \in Record(flow) /\ flow \in Flows /\ StartLeads(flow)
      /\ saved.plan \in PlanOf(flow) /\ saved.items \in Selections(flow)
  BY <1>2, GateOfCheckpoint
<1>4. PICK held, old : held = accepted \cup outdated /\ old = outdated
  OBVIOUS
<1>5. GateFits(saved, held, old)
  BY <1>2, <1>4, GateOfCheckpoint
<1>6. saved.pending = {} /\ saved.startAction # "revise"
  BY <1>1, <1>2 DEF IInv, NothingPending, GateInv
<1>7. Start \notin PendingKeys(saved.pending) /\ Requested(Start) \notin saved.pending
  BY <1>6 DEF PendingKeys
<1>8. Approved(held, saved.plan, Start)
  BY <1>5, <1>6, <1>7 DEF GateFits, StartApproved
<1>9. Beginnable(saved, saved.plan, held)
  <2>1. IF flow.planned THEN saved.plan.present ELSE saved.plan = NoPlan
    BY <1>5, <1>6, <1>7 DEF GateFits, PlanFits
  <2> QED
    BY <1>5, <2>1 DEF Beginnable, GateFits, ResultsApproved, ChangeFits
<1>10. PICK s, items, plan, sa : s = saved /\ items = saved.items /\ plan = saved.plan
                                    /\ sa = saved.startApproved
  OBVIOUS
<1>11. BeginWork(s, items, plan, sa)
  BY <1>1, <1>10
<1>12. QED
  BY <1>1, <1>3, <1>4, <1>5, <1>8, <1>9, <1>10, <1>11, BeginGate

\* What planning starts from was accepted, or follows the plan that is made again.
LEMMA BaseGate ==
  ASSUME IInv, GateInv, FlowsLead, pc = "plan", NEW held, NEW old,
         held = accepted \cup outdated, old = outdated
  PROVE  /\ \A k \in Base.completed \ {Start} : Approved(held, Base.plan, k) /\ (flow.planned => k \in old)
         /\ ~flow.planned => Base.plan = NoPlan /\ Base.change.plan = NoPlan
         /\ flow.planned => Base.completed \subseteq GraphKeys(Base, Base.plan)
         /\ ChangeFits(Base) /\ Base \in Record(flow)
<1>1. Base \in Record(flow) /\ flow \in Flows
  BY BaseFits, MemoryOf
<1>2. CASE HasCheckpoint
  <2>1. saved \in Record(flow) /\ GateFits(saved, held, old) /\ saved.startAction = "revise"
    BY <1>2, GateOfCheckpoint DEF GateInv
  <2>2. /\ Base.completed = saved.completed /\ Base.pending = saved.pending
        /\ Base.plan = saved.plan /\ Base.items = saved.items
        /\ Base.startAction = saved.startAction /\ Base.targets = saved.targets
        /\ Base.change = saved.change
    BY <1>2, <2>1 DEF Base, Record
  <2>3. GateFits(Base, held, old)
    BY <2>1, <2>2, SameGate
  <2> QED
    BY <1>1, <2>1, <2>2, <2>3 DEF GateFits, ResultsApproved, PlanFits
<1>3. CASE ~HasCheckpoint
  <2>1. /\ Base.completed = {Start} /\ Base.plan = NoPlan /\ Base.items = {}
        /\ Base.targets = {} /\ Base.change = NoChange
    BY <1>3 DEF Base, Blank, Snapshot, NoWork
  <2>2. ~NoChange.ready /\ NoChange.plan = NoPlan
    BY DEF NoChange
  <2>3. Start \in GraphKeys(Base, Base.plan)
    <3>1. NoPlan \in PlanOf(flow) /\ {} \in Selections(flow)
      BY <1>1, FlowsAssumption DEF NoPlan, PlanOf, Selections
    <3> QED
      BY <1>1, <2>1, <3>1, StartTyped DEF GraphKeys
  <2> QED
    BY <1>1, <2>1, <2>2, <2>3 DEF ChangeFits
<1>4. QED
  BY <1>2, <1>3

LEMMA PlannerSucceedsGate == IInv /\ GateInv /\ FlowsLead /\ PlannerSucceeds => GateInv'
<1> SUFFICES ASSUME IInv, GateInv, FlowsLead, PlannerSucceeds PROVE GateInv'
  OBVIOUS
<1>1. /\ flow' = flow /\ pc = "plan" /\ flow \in Flows /\ StartLeads(flow)
      /\ accepted' = accepted \ {Start} /\ outdated' = outdated \ {Start}
  BY MemoryOf DEF PlannerSucceeds, FlowsLead
<1>2. PICK held0, old0 : held0 = accepted \cup outdated /\ old0 = outdated
  OBVIOUS
<1>3. PICK held, old : held = held0 \ {Start} /\ old = old0 \ {Start}
  OBVIOUS
<1>4. held = accepted' \cup outdated' /\ old = outdated'
  BY <1>1, <1>2, <1>3
<1>5. HasCheckpoint => GateFits(saved, held, old)
  <2> SUFFICES ASSUME HasCheckpoint PROVE GateFits(saved, held, old)
    OBVIOUS
  <2>1. GateFits(saved, held0, old0) /\ saved.startAction = "revise"
    BY <1>1, <1>2, GateOfCheckpoint DEF GateInv
  <2> QED
    BY <1>3, <2>1, ForgetStart
<1>6. PICK items \in flow.selections, p \in PlanOptions :
          IF flow.planned /\ ~Resolvable(flow, p)
          THEN FailCoordinator
          ELSE BeginWork([Base EXCEPT !.outcome = "implemented"], items,
                         IF flow.planned THEN Plan(p, FALSE) ELSE Base.plan, FALSE)
  BY DEF PlannerSucceeds
<1>7. CASE FailCoordinator
  <2>1. saved' = saved /\ pc' = "idle"
    BY <1>7 DEF FailCoordinator, Stops
  <2>2. PICK w, at, record : w = mem' /\ at = pc' /\ record = saved
    OBVIOUS
  <2>3. Leaves(record, w, at, held, old)
    BY <1>5, <2>1, <2>2 DEF Leaves, HasCheckpoint
  <2> QED
    BY <1>1, <1>4, <2>1, <2>2, <2>3, GateOfLeaves
<1>8. CASE (flow.planned => Resolvable(flow, p))
           /\ BeginWork([Base EXCEPT !.outcome = "implemented"], items,
                        IF flow.planned THEN Plan(p, FALSE) ELSE Base.plan, FALSE)
  <2> DEFINE s == [Base EXCEPT !.outcome = "implemented"]
             plan == IF flow.planned THEN Plan(p, FALSE) ELSE Base.plan
  <2>1. /\ \A k \in Base.completed \ {Start} :
              Approved(held0, Base.plan, k) /\ (flow.planned => k \in old0)
        /\ ~flow.planned => Base.plan = NoPlan
        /\ ChangeFits(Base) /\ Base \in Record(flow)
    BY <1>1, <1>2, BaseGate
  <2>2. s \in Record(flow) /\ s.completed = Base.completed /\ s.targets = Base.targets
    BY <2>1 DEF Record, Outcomes
  <2>3. plan \in PlanOf(flow) /\ (flow.planned => plan.present /\ ~plan.approved)
    <3>1. CASE flow.planned
      <4>1. p \in flow.proposals /\ Resolvable(flow, p) /\ plan = Plan(p, FALSE)
        BY <1>8, <3>1 DEF PlanOptions
      <4>2. Plan(p, FALSE) \in PlanOf(flow)
        <5> HIDE DEF plan, s
        <5> QED
          BY <1>1, <4>1, ProposalsAssumption DEF Installed, PlanOf, Plan, Resolvable
      <4> QED
        BY <4>1, <4>2 DEF Plan
    <3>2. CASE ~flow.planned
      BY <2>1, <3>2 DEF Record
    <3> QED
      BY <3>1, <3>2
  <2>4. ~flow.planned => plan = NoPlan /\ plan = Base.plan
    BY <2>1
  <2>5. items \in Selections(flow)
    BY DEF Selections
  <2>6. BeginWork(s, items, plan, FALSE)
    BY <1>8
  <2> HIDE DEF s, plan
  <2>7. Beginnable(s, plan, held)
    <3>1. ASSUME NEW k \in s.completed \ {Start} PROVE Approved(held, plan, k)
      <4>1. Approved(held0, Base.plan, k) /\ (flow.planned => k \in old0)
        BY <2>1, <2>2, <3>1
      <4>2. old0 \subseteq held0
        BY <1>2
      <4> QED
        BY <1>3, <2>4, <3>1, <4>1, <4>2 DEF Approved
    <3>2. GatedStart => Start \notin s.targets
      BY <2>1, <2>2 DEF ChangeFits
    <3> QED
      BY <2>3, <2>4, <3>1, <3>2 DEF Beginnable
  <2>8. (Start[1] \in flow.required => FALSE) /\ plan.approved => Approved(held, plan, Start)
    <3> SUFFICES ASSUME Start[1] \notin flow.required, plan.approved PROVE ~Gated(plan, Start)
      BY DEF Approved
    <3>1. plan = NoPlan /\ Start[1] = flow.start
      BY <2>3, <2>4 DEF Start, StartKey
    <3> QED
      BY <1>1, <2>3, <3>1, PlanGates DEF NoPlan
  <2>9. PICK no : no = FALSE
    OBVIOUS
  <2>10. BeginWork(s, items, plan, no)
         /\ ((Start[1] \in flow.required => no) /\ plan.approved => Approved(held, plan, Start))
    BY <2>6, <2>8, <2>9
  <2> QED
    BY <1>1, <1>4, <1>5, <2>2, <2>3, <2>5, <2>7, <2>10, BeginGate
<1>9. QED
  BY <1>6, <1>7, <1>8

LEMMA PlannerPausesGate == IInv /\ GateInv /\ FlowsLead /\ PlannerPauses => GateInv'
<1> SUFFICES ASSUME IInv, GateInv, FlowsLead, PlannerPauses PROVE GateInv'
  OBVIOUS
<1>1. /\ flow' = flow /\ pc = "plan" /\ flow \in Flows
      /\ accepted' = accepted /\ outdated' = outdated
  BY MemoryOf DEF PlannerPauses, history
<1>2. PICK held, old : held = accepted \cup outdated /\ old = outdated
  OBVIOUS
<1>3. PICK outcome \in {"needs_human", "needs_info"} :
          Pause([Base EXCEPT
                    !.outcome = outcome,
                    !.pending = IF outcome = "needs_human" THEN {Requested(Start)} ELSE {},
                    !.startApproved = FALSE, !.options = {},
                    !.startAction = IF outcome = "needs_info" THEN "revise" ELSE @], NoEffects)
  BY DEF PlannerPauses
<1> DEFINE pending == IF outcome = "needs_human" THEN {Requested(Start)} ELSE {}
           action == IF outcome = "needs_info" THEN "revise" ELSE Base.startAction
           r == [Base EXCEPT !.outcome = outcome, !.pending = pending, !.startApproved = FALSE,
                             !.options = {}, !.startAction = action]
<1>4. /\ \A k \in Base.completed \ {Start} :
              Approved(held, Base.plan, k) /\ (flow.planned => k \in old)
      /\ ~flow.planned => Base.plan = NoPlan /\ Base.change.plan = NoPlan
      /\ flow.planned => Base.completed \subseteq GraphKeys(Base, Base.plan)
      /\ ChangeFits(Base) /\ Base \in Record(flow)
  BY <1>1, <1>2, BaseGate
<1>5. Pause(r, NoEffects)
  BY <1>3, <1>4 DEF Record
<1>6. /\ PendingKeys(pending) \subseteq {Start}
      /\ ((Start \in PendingKeys(pending) /\ Requested(Start) \in pending) \/ action = "revise")
      /\ Required(Start) \notin pending
  BY DEF PendingKeys, Requested, Required, Approval
<1> HIDE DEF pending, action, r
<1>7. /\ r.completed = Base.completed /\ r.pending = pending /\ r.plan = Base.plan
      /\ r.items = Base.items /\ r.startAction = action /\ r.targets = Base.targets
      /\ r.change = Base.change
  BY <1>4 DEF r, Record
<1>8. GraphKeys(r, r.plan) = GraphKeys(Base, Base.plan) /\ PendingResults(r) \subseteq {Start}
      /\ GraphKeys(r, ProposedPlan(r)) = GraphKeys(Base, ProposedPlan(Base))
  BY <1>6, <1>7 DEF GraphKeys, PendingResults, ProposedPlan
<1>9. Start \in GraphKeys(Base, Base.plan)
  <2>1. Base.plan \in PlanOf(flow) /\ Base.items \in Selections(flow)
    BY <1>4 DEF Record
  <2> QED
    BY <1>1, <2>1, StartTyped DEF GraphKeys
<1>10. ResultsApproved(r, held) /\ StartApproved(r, held)
  BY <1>4, <1>6, <1>7 DEF ResultsApproved, StartApproved
<1>11. PlanFits(r, old)
  BY <1>4, <1>6, <1>7, <1>8, <1>9 DEF PlanFits
<1>12. ChangeFits(r)
  BY <1>4, <1>7, <1>8 DEF ChangeFits
<1>13. GateFits(r, held, old)
  BY <1>10, <1>11, <1>12 DEF GateFits
<1>14. QED
  BY <1>1, <1>2, <1>5, <1>13, PauseGate

LEMMA StartWaveGate == IInv /\ GateInv /\ StartWave => GateInv'
<1> SUFFICES ASSUME IInv, GateInv, StartWave PROVE GateInv'
  OBVIOUS
<1>1. flow' = flow /\ pc = "wave" /\ accepted' = accepted /\ outdated' = outdated
  BY DEF StartWave, history
<1>2. flow \in Flows /\ mem \in Memory(flow)
  BY MemoryOf
<1>3. PICK held, old : held = accepted \cup outdated /\ old = outdated
  OBVIOUS
<1>4. WorkFits(mem, held)
  BY <1>1, <1>3 DEF GateInv
<1>5. CASE FailCoordinator
  <2>1. saved' = saved /\ pc' = "idle"
    BY <1>5 DEF FailCoordinator, Stops
  <2> QED
    BY <1>1, <2>1, GateStays
<1>6. ASSUME NEW wave \in Waves(Ready),
             LET m == [EnsureWaiting(mem, wave) EXCEPT
                           !.attempt = @ + 1, !.running = @ \cup wave, !.wave = wave]
             IN  /\ Commit(Snapshot(m, m.outcome, {}, TRUE),
                           [NoEffects EXCEPT !.staged = m.staged, !.started = wave])
                 /\ mem' = [m EXCEPT !.staged = {}]
                 /\ pc' = "run"
                 /\ UNCHANGED <<job, issue>>
      PROVE  GateInv'
  <2> DEFINE w == EnsureWaiting(mem, wave)
             m == [w EXCEPT !.attempt = @ + 1, !.running = @ \cup wave, !.wave = wave]
             last == [m EXCEPT !.staged = {}]
  <2>1. wave \subseteq Keys(mem) \ mem.completed
    BY DEF Waves, Ready, ReadyIn, Keys
  <2>2. wave \in SUBSET FlowKeys(flow)
    <3>1. mem.plan \in PlanOf(flow) /\ mem.items \in Selections(flow)
      BY <1>2 DEF Memory
    <3> QED
      BY <1>2, <2>1, <3>1, KeysInFlow DEF Keys
  <2>3. /\ w \in Memory(flow)
        /\ \A field \in MemoryFields \ {"staged", "finished"} : w[field] = mem[field]
    BY <1>2, <2>2, EnsureWaitingFits, FieldsOfMemory
  <2>4. w.completed = mem.completed /\ w.plan = mem.plan /\ w.items = mem.items
    BY <2>3 DEF MemoryFields
  <2> HIDE DEF w
  <2>5. /\ m \in Memory(flow) /\ m.completed = mem.completed /\ m.plan = mem.plan
        /\ m.items = mem.items /\ m.wave = wave
    <3> DEFINE attempt == w.attempt + 1
               running == w.running \cup wave
    <3>1. attempt \in Nat /\ running \subseteq FlowKeys(flow)
      BY <2>2, <2>3 DEF Memory
    <3>2. m = [w EXCEPT !.attempt = attempt, !.running = running, !.wave = wave]
      BY <2>3 DEF Memory
    <3> HIDE DEF m, attempt, running
    <3> QED
      BY <2>2, <2>3, <2>4, <3>1, <3>2 DEF Memory
  <2>6. saved' = Snapshot(m, m.outcome, {}, TRUE) /\ mem' = last /\ pc' = "run"
    BY <1>6 DEF w, Commit
  <2> HIDE DEF m
  <2>7. last.completed = mem.completed /\ last.plan = mem.plan /\ last.items = mem.items
        /\ last.wave = wave
    BY <2>5 DEF Memory
  <2> HIDE DEF last
  <2>8. Keys(m) = Keys(mem) /\ Keys(last) = Keys(mem)
    BY <2>5, <2>7 DEF Keys
  <2>9. WorkFits(m, held) /\ WorkFits(last, held)
    BY <1>4, <2>1, <2>5, <2>7, <2>8 DEF WorkFits
  <2>10. PICK record, at : record = Snapshot(m, m.outcome, {}, TRUE) /\ at = "run"
    OBVIOUS
  <2>11. PendingKeys({}) = {}
    BY DEF PendingKeys
  <2>12. GateFits(record, held, old)
    BY <1>2, <2>5, <2>9, <2>10, <2>11, SnapshotGate
  <2>13. Leaves(record, last, at, held, old)
    BY <2>1, <2>7, <2>9, <2>10, <2>12 DEF Leaves
  <2> QED
    BY <1>1, <1>3, <2>6, <2>10, <2>13, GateOfLeaves
<1>7. QED
  BY <1>5, <1>6 DEF StartWave

LEMMA FinishWaveGate == IInv /\ GateInv /\ FinishWave => GateInv'
<1> SUFFICES ASSUME IInv, GateInv, FinishWave PROVE GateInv'
  OBVIOUS
<1>1. flow' = flow /\ pc = "run" /\ pc' = "results"
  BY DEF FinishWave
<1>2. flow \in Flows /\ mem \in Memory(flow)
  BY MemoryOf
<1>3. PICK held0 : held0 = accepted \cup outdated
  OBVIOUS
<1>4. WorkFits(mem, held0) /\ mem.wave \cap mem.completed = {}
  BY <1>1, <1>3 DEF GateInv
<1>5. mem.wave \in SUBSET FlowKeys(flow) /\ mem.outcome \in Outcomes
  BY <1>2 DEF Memory
<1>6. PICK answers \in [mem.wave -> UNION {AnswersOf(k) : k \in mem.wave}] :
        LET done  == {k \in Answering(answers, "implemented") : ~Gated(mem.plan, k)}
            heard == mem.wave \ Answering(answers, "error")
            fresh(late) == {k \in Answering(answers, "implemented") :
                                DependenciesOf(flow, mem.items, k) \cap late = {}}
        IN  /\ \A k \in mem.wave : answers[k] \in AnswersOf(k)
            /\ \E last \in IF heard = {} THEN {mem.outcome} ELSE {OutcomeOf(answers[k]) : k \in heard} :
                  LET m == [mem EXCEPT !.completed = @ \cup done, !.running = @ \ done,
                                       !.finished = @ \cup mem.wave,
                                       !.outcome = last, !.answers = answers]
                  IN  /\ Commit(Snapshot(m, last, {}, TRUE), [NoEffects EXCEPT !.ended = mem.wave])
                      /\ mem' = m
            /\ accepted' = accepted \ mem.wave
            /\ outdated' = outdated \ fresh(outdated)
  BY DEF FinishWave
<1> DEFINE done == {k \in Answering(answers, "implemented") : ~Gated(mem.plan, k)}
           heard == mem.wave \ Answering(answers, "error")
<1>7. answers \in AnswersIn(flow) /\ DOMAIN answers = mem.wave
  BY <1>2, <1>5, AnswersTyped
<1>8. PICK last \in IF heard = {} THEN {mem.outcome} ELSE {OutcomeOf(answers[k]) : k \in heard} :
        LET m == [mem EXCEPT !.completed = @ \cup done, !.running = @ \ done,
                             !.finished = @ \cup mem.wave,
                             !.outcome = last, !.answers = answers]
        IN  /\ Commit(Snapshot(m, last, {}, TRUE), [NoEffects EXCEPT !.ended = mem.wave])
            /\ mem' = m
  BY <1>6
<1>9. last \in Outcomes
  <2>1. \A k \in heard : answers[k] \in AnswerOf(flow) /\ answers[k][1] # "error"
    <3>1. answers \in [mem.wave -> AnswerOf(flow)]
      BY <1>7 DEF AnswersIn
    <3> QED
      BY <1>7, <3>1 DEF Answering
  <2>2. \A k \in heard : OutcomeOf(answers[k]) \in Outcomes
    BY <2>1, OutcomesOfAnswers
  <2> HIDE DEF heard
  <2> QED
    BY <1>5, <1>8, <2>2
<1>10. PICK held, old : held = accepted' \cup outdated' /\ old = outdated'
  OBVIOUS
<1>11. held0 \ mem.wave \subseteq held
  <2>1. Answering(answers, "implemented") \subseteq mem.wave
    BY <1>7 DEF Answering
  <2>2. outdated \ mem.wave \subseteq outdated' /\ accepted' = accepted \ mem.wave
    BY <1>6, <2>1
  <2> QED
    BY <1>3, <1>10, <2>2
<1> DEFINE completed == mem.completed \cup done
           running == mem.running \ done
           finished == mem.finished \cup mem.wave
           m == [mem EXCEPT !.completed = completed, !.running = running,
                            !.finished = finished, !.outcome = last, !.answers = answers]
<1>12. saved' = Snapshot(m, last, {}, TRUE) /\ mem' = m
  BY <1>2, <1>8 DEF Memory, Commit
<1>13. done \subseteq mem.wave /\ \A k \in done : ~Gated(mem.plan, k)
  BY <1>7 DEF Answering
<1>14. completed \subseteq FlowKeys(flow) /\ running \subseteq FlowKeys(flow)
       /\ finished \subseteq FlowKeys(flow)
  BY <1>2, <1>5, <1>13 DEF Memory
<1> HIDE DEF running, finished, m, done, heard
<1>15. /\ m \in Memory(flow) /\ m.completed = completed /\ m.answers = answers
       /\ m.wave = mem.wave /\ m.plan = mem.plan /\ m.items = mem.items
  <2> HIDE DEF completed
  <2> QED
    BY <1>2, <1>7, <1>9, <1>14 DEF m, Memory
<1>16. WorkFits(m, held)
  <2>1. \A k \in m.completed : Approved(held, m.plan, k)
    BY <1>4, <1>11, <1>13, <1>15 DEF WorkFits, Approved
  <2>2. Keys(m) = Keys(mem)
    BY <1>15 DEF Keys
  <2> QED
    BY <1>4, <1>13, <1>15, <2>1, <2>2 DEF WorkFits
<1>17. AnswersFit(m)
  BY <1>6, <1>7, <1>15 DEF AnswersFit
<1>18. PICK record, at : record = Snapshot(m, last, {}, TRUE) /\ at = "results"
  OBVIOUS
<1>19. PendingKeys({}) = {}
  BY DEF PendingKeys
<1>20. GateFits(record, held, old)
  BY <1>2, <1>15, <1>16, <1>18, <1>19, SnapshotGate
<1>21. Leaves(record, m, at, held, old)
  BY <1>16, <1>17, <1>18, <1>20 DEF Leaves
<1>22. QED
  BY <1>1, <1>10, <1>12, <1>18, <1>21, GateOfLeaves

LEMMA CompleteGate == IInv /\ GateInv /\ Complete => GateInv'
<1> SUFFICES ASSUME IInv, GateInv, Complete PROVE GateInv'
  OBVIOUS
<1>1. /\ flow' = flow /\ pc = "wave" /\ pc' = "finish"
      /\ accepted' = accepted /\ outdated' = outdated
  BY DEF Complete, history
<1> DEFINE s == Snapshot(mem, "implemented", {}, TRUE)
           r == [s EXCEPT !.done = TRUE]
<1>2. saved' = r
  BY DEF Complete, Commit
<1>3. PICK held, old : held = accepted \cup outdated /\ old = outdated
  OBVIOUS
<1>4. GateFits(s, held, old)
  <2>1. flow \in Flows /\ mem \in Memory(flow) /\ WorkFits(mem, held)
    BY <1>1, <1>3, MemoryOf DEF GateInv
  <2>2. PendingKeys({}) = {}
    BY DEF PendingKeys
  <2> QED
    BY <2>1, <2>2, SnapshotGate
<1>5. /\ r.completed = s.completed /\ r.pending = s.pending /\ r.plan = s.plan
      /\ r.items = s.items /\ r.startAction = s.startAction /\ r.targets = s.targets
      /\ r.change = s.change
  BY DEF Snapshot
<1> HIDE DEF r, s
<1>6. GateFits(r, held, old)
  BY <1>4, <1>5, SameGate
<1>7. PICK at : at = pc'
  OBVIOUS
<1>8. QED
  BY <1>1, <1>2, <1>3, <1>6, <1>7, RestGate

-----------------------------------------------------------------------------
(* Gates: feedback *)

LEMMA TargetsOfHandoffs ==
  ASSUME flow \in Flows, NEW m \in Memory(flow), AnswersFit(m), NEW k \in Handing(m),
         TargetOf(m, k) = Start
  PROVE  \E t \in flow.tasks : flow.start \in flow.handoffs[t]
<1>1. k \in DOMAIN m.answers /\ m.answers[k] \in AnswersOf(k) /\ m.answers[k][1] = "handoff"
  BY DEF Handing, IsHandoff, AnswersFit
<1>2. PICK t \in flow.handoffs[k[1]] : m.answers[k] = Handoff(t)
  BY <1>1 DEF AnswersOf, Plain, Broken
<1>3. TargetOf(m, k)[1] = t /\ Start[1] = flow.start
  BY <1>2 DEF TargetOf, Normal, KeyOf, Handoff, Start, StartKey
<1>4. k[1] \in flow.tasks
  <2>1. k \in FlowKeys(flow)
    BY <1>1 DEF Memory, AnswersIn
  <2> QED
    BY <2>1, FlowsAssumption DEF FlowKeys, KeysOf
<1>5. QED
  BY <1>2, <1>3, <1>4

\* A gated start is only restarted by asking a person about it.
LEMMA StartAskedAbout ==
  ASSUME flow \in Flows, StartLeads(flow), NEW m \in Memory(flow), NEW held, WorkFits(m, held),
         AnswersFit(m), GatedStart, Start \in Restarted(m)
  PROVE  Start \in PendingKeys(AllAsked(m))
<1>1. m.plan \in PlanOf(flow) /\ m.items \in Selections(flow)
  BY DEF Memory
<1>2. Start \in Fed(m) \cup Blocked(m)
  <2>1. PICK k \in Fed(m) \cup Blocked(m) : Start \in Affected(m.plan, m.items, k)
    BY DEF Restarted, RestartedByFeedback, RestartedBy
  <2> QED
    BY <1>1, <2>1, StartAlone
<1>3. Start \notin DOMAIN m.answers
  BY DEF WorkFits, AnswersFit
<1>4. PICK k \in Handing(m) : TargetOf(m, k) = Start
  BY <1>2, <1>3 DEF Fed, Blocked, Feeding, OverLimit, Answering
<1>5. m.plan.present
  <2> SUFFICES ASSUME ~flow.planned PROVE FALSE
    BY DEF WorkFits
  <2>1. \A t \in flow.tasks : flow.start \notin flow.handoffs[t]
    BY DEF GatedStart, StartLeads
  <2> QED
    BY <1>4, <2>1, TargetsOfHandoffs
<1>6. Requested(Start) \in Asked(m)
  <2>1. CASE Start \in Fed(m)
    BY <1>5, <2>1 DEF Asked, PlanSentBack
  <2>2. CASE Start \in Blocked(m)
    <3>1. Start \notin Answering(m.answers, "needs_info") /\ Start \notin GatedResults(m)
      BY <1>3 DEF Answering, GatedResults
    <3> QED
      BY <2>2, <3>1 DEF Asked
  <2> QED
    BY <1>2, <2>1, <2>2
<1>7. QED
  BY <1>6 DEF AllAsked, PendingKeys, Requested, Approval

LEMMA CollectGate ==
  ASSUME IInv, GateInv, FlowsLead, flow' = flow, NEW m0 \in Memory(flow), NEW held0,
         held0 = accepted \cup outdated, WorkFits(m0, held0), AnswersFit(m0), CollectFeedback(m0)
  PROVE  GateInv'
<1> DEFINE asked == AllAsked(m0)
           m1 == AfterFeedback(m0)
           pauses == asked # {} \/ Clarifying(m0) # {}
           keys == IF pauses THEN Waiting(m1, asked) \cup RestartedByFeedback(m0)
                             ELSE RestartedByFeedback(m0)
           m == EnsureWaiting(m1, keys)
           e == [NoEffects EXCEPT !.staged = m.staged]
           s == Snapshot(m, "needs_info", {}, TRUE)
<1>1. /\ flow \in Flows /\ StartLeads(flow)
      /\ m0.plan \in PlanOf(flow) /\ m0.items \in Selections(flow)
  BY MemoryOf DEF Memory, FlowsLead
<1>2. CASE ~((Fed(m0) \cup Blocked(m0)) \subseteq Keys(m0))
  <2>1. saved' = saved /\ pc' = "idle" /\ accepted' = accepted /\ outdated' = outdated
    BY <1>2 DEF CollectFeedback, FeedbackEnds, Stops, history
  <2> QED
    BY <2>1, GateStays
<1>3. CASE (Fed(m0) \cup Blocked(m0)) \subseteq Keys(m0)
  <2>1. \/ asked # {} /\ Pause(Snapshot(m, "needs_human", asked, TRUE), e)
        \/ asked = {} /\ Pause([s EXCEPT !.targets = Clarifying(m0)], e)
        \/ /\ asked = {} /\ Commit(Snapshot(m, m.outcome, {}, TRUE), e)
           /\ mem' = [m EXCEPT !.staged = {}]
           /\ pc' = "wave"
    BY <1>3 DEF CollectFeedback
  <2>2. PICK held, old : held = accepted' \cup outdated' /\ old = outdated'
    OBVIOUS
  <2>3. held0 \subseteq held
    <3>1. accepted' = accepted /\ outdated \subseteq outdated'
      BY <1>3 DEF CollectFeedback
    <3> QED
      BY <2>2, <3>1
  <2>4. PendingKeys(asked) \subseteq FlowKeys(flow) /\ Keys(m0) \subseteq FlowKeys(flow)
    BY <1>1, <1>3, AskedFits
  <2>5. flow.planned => PendingKeys(asked) \subseteq Keys(m0)
    <3> SUFFICES ASSUME flow.planned, NEW k \in PendingKeys(asked) PROVE k \in Keys(m0)
      OBVIOUS
    <3>1. PICK p \in asked : p.key = k
      BY DEF PendingKeys
    <3>2. k \in DOMAIN m0.answers \cup {Start} \cup Blocked(m0)
      BY <3>1, AskedKeys
    <3>3. DOMAIN m0.answers \subseteq Keys(m0)
      BY DEF WorkFits, AnswersFit
    <3>4. Start \in Keys(m0)
      BY <1>1, StartTyped DEF Keys
    <3> QED
      BY <1>3, <3>2, <3>3, <3>4
  <2>6. /\ m1 \in Memory(flow) /\ m1.completed = m0.completed \ Restarted(m0)
        /\ m1.plan = m0.plan /\ m1.items = m0.items /\ m1.wave = {}
    BY <1>1, AfterFeedbackFits
  <2>7. RestartedByFeedback(m0) \in SUBSET FlowKeys(flow)
    BY <1>1, RestartedKeys DEF RestartedByFeedback
  <2>8. keys \in SUBSET FlowKeys(flow)
    <3>1. Waiting(m1, asked) \subseteq FlowKeys(flow)
      <4> HIDE DEF m1, asked
      <4> QED
        BY <2>4, <2>6 DEF Waiting, Incomplete, Keys
    <3> QED
      BY <2>7, <3>1
  <2>9. GatedStart => Start \in m1.completed \cup PendingKeys(asked)
    BY <1>1, <2>6, StartAskedAbout DEF WorkFits
  <2>10. GatedStart => Start \notin Clarifying(m0)
    BY DEF WorkFits, AnswersFit, Clarifying, Answering
  <2> HIDE DEF m1, asked, keys
  <2>11. m \in Memory(flow) /\ \A field \in MemoryFields \ {"staged", "finished"} : m[field] = m1[field]
    BY <1>1, <2>6, <2>8, EnsureWaitingFits, FieldsOfMemory
  <2>12. m.completed = m1.completed /\ m.wave = {} /\ m.plan = m0.plan /\ m.items = m0.items
    BY <2>6, <2>11 DEF MemoryFields
  <2> HIDE DEF m, e
  <2>13. m.completed \subseteq m0.completed /\ Keys(m) = Keys(m0)
    BY <2>6, <2>12 DEF Keys
  <2>14. /\ \A k \in m.completed : Approved(held, m.plan, k)
         /\ IF flow.planned THEN m.plan.present ELSE m.plan = NoPlan
         /\ flow.planned => m.completed \cup PendingKeys(asked) \subseteq Keys(m)
         /\ GatedStart => Start \in m.completed \cup PendingKeys(asked)
    BY <2>3, <2>5, <2>9, <2>12, <2>13 DEF WorkFits, Approved
  <2>15. PendingKeys({}) = {}
    BY DEF PendingKeys
  <2>16. asked = {} => WorkFits(m, held)
    BY <2>12, <2>14, <2>15 DEF WorkFits
  <2>17. CASE asked # {} /\ Pause(Snapshot(m, "needs_human", asked, TRUE), e)
    <3>1. PICK record, at : record = Snapshot(m, "needs_human", asked, TRUE) /\ at = "idle"
      OBVIOUS
    <3>2. saved' = record /\ pc' = at
      BY <2>17, <3>1 DEF Pause, Commit, Stops
    <3>3. flow.planned => m.completed \cup (PendingKeys(asked) \cap FlowKeys(flow)) \subseteq Keys(m)
      BY <2>14
    <3>4. GateFits(record, held, old)
      BY <1>1, <2>11, <2>14, <3>1, <3>3, PausedGate
    <3> QED
      BY <2>2, <3>1, <3>2, <3>4, RestGate
  <2>18. CASE asked = {} /\ Pause([s EXCEPT !.targets = Clarifying(m0)], e)
    <3> DEFINE r == [s EXCEPT !.targets = Clarifying(m0)]
    <3>1. GateFits(s, held, old)
      BY <1>1, <2>11, <2>15, <2>16, <2>18, SnapshotGate
    <3>2. /\ r.completed = s.completed /\ r.pending = s.pending /\ r.plan = s.plan
          /\ r.items = s.items /\ r.startAction = s.startAction /\ r.change = s.change
          /\ r.targets = Clarifying(m0)
      BY DEF Snapshot
    <3>3. saved' = r /\ pc' = "idle"
      BY <2>18 DEF Pause, Commit, Stops
    <3> HIDE DEF r, s
    <3>4. PendingResults(r) = PendingResults(s) /\ GraphKeys(r, r.plan) = GraphKeys(s, s.plan)
      BY <3>2 DEF PendingResults, GraphKeys
    <3>5. GraphKeys(r, ProposedPlan(r)) = GraphKeys(s, ProposedPlan(s))
      BY <3>2 DEF ProposedPlan, GraphKeys
    <3>6. GateFits(r, held, old)
      BY <2>10, <3>1, <3>2, <3>4, <3>5
         DEF GateFits, ResultsApproved, StartApproved, PlanFits, ChangeFits
    <3>7. PICK at : at = "idle"
      OBVIOUS
    <3> QED
      BY <2>2, <3>3, <3>6, <3>7, RestGate
  <2>19. CASE /\ asked = {} /\ Commit(Snapshot(m, m.outcome, {}, TRUE), e)
              /\ mem' = [m EXCEPT !.staged = {}]
              /\ pc' = "wave"
    <3>1. PICK record, last, at : /\ record = Snapshot(m, m.outcome, {}, TRUE)
                                  /\ last = [m EXCEPT !.staged = {}] /\ at = "wave"
      OBVIOUS
    <3>2. saved' = record /\ mem' = last /\ pc' = at
      BY <2>19, <3>1 DEF Commit
    <3>3. /\ last.completed = m.completed /\ last.plan = m.plan /\ last.items = m.items
          /\ last.wave = {}
      BY <2>11, <2>12, <3>1 DEF Memory
    <3>4. Keys(last) = Keys(m)
      BY <3>3 DEF Keys
    <3>5. WorkFits(last, held)
      BY <2>12, <2>16, <2>19, <3>3, <3>4 DEF WorkFits
    <3>6. GateFits(record, held, old)
      BY <1>1, <2>11, <2>15, <2>16, <2>19, <3>1, SnapshotGate
    <3>7. Leaves(record, last, at, held, old)
      BY <3>1, <3>5, <3>6 DEF Leaves
    <3> QED
      BY <2>2, <3>2, <3>7, GateOfLeaves
  <2> QED
    BY <2>1, <2>17, <2>18, <2>19
<1>4. QED
  BY <1>2, <1>3

\* Only a start that is not gated runs as a task, so the new graph has no gate to pass.
LEMMA ReplannedGate ==
  ASSUME flow \in Flows, mem \in Memory(flow), NEW items \in flow.selections, NEW held,
         WorkFits(mem, held), AnswersFit(mem), Start \in Answering(mem.answers, "implemented"),
         NEW r \in Memory(flow), r = Replanned(mem, items)
  PROVE  WorkFits(r, held) /\ AnswersFit(r)
<1> DEFINE completed == (mem.completed \cap KeysOf(Effective(flow, mem.plan), items)) \cup {Start}
<1>1. r = [mem EXCEPT !.items = items, !.running = {}, !.completed = completed]
  BY DEF Replanned, Memory
<1> HIDE DEF completed
<1>2. r.completed = completed /\ r.plan = mem.plan /\ r.wave = mem.wave /\ r.answers = mem.answers
  BY <1>1 DEF Memory
<1>3. ~GatedStart
  BY DEF WorkFits, AnswersFit, Answering
<1>4. ~flow.planned /\ mem.plan = NoPlan /\ ~Gated(mem.plan, Start)
  BY <1>3, UngatedStart DEF WorkFits, GatedStart
<1>5. \A k \in completed : Approved(held, mem.plan, k)
  BY <1>4 DEF WorkFits, Approved, completed
<1>6. QED
  BY <1>2, <1>3, <1>4, <1>5 DEF WorkFits, AnswersFit

LEMMA ProcessGate == IInv /\ GateInv /\ FlowsLead /\ ProcessResults => GateInv'
<1> SUFFICES ASSUME IInv, GateInv, FlowsLead, ProcessResults PROVE GateInv'
  OBVIOUS
<1>1. pc = "results" /\ flow' = flow /\ flow \in Flows /\ mem \in Memory(flow)
  BY MemoryOf DEF ProcessResults
<1>2. PICK held : held = accepted \cup outdated
  OBVIOUS
<1>3. WorkFits(mem, held) /\ AnswersFit(mem)
  BY <1>1, <1>2 DEF GateInv
<1>4. ASSUME Start \in Answering(mem.answers, "implemented"), NEW items \in flow.selections,
             CollectFeedback(Replanned(mem, items))
      PROVE  GateInv'
  <2>1. PICK r : r = Replanned(mem, items)
    OBVIOUS
  <2>2. r \in Memory(flow) /\ CollectFeedback(r)
    BY <1>4, <2>1, ReplannedFits
  <2>3. WorkFits(r, held) /\ AnswersFit(r)
    BY <1>1, <1>3, <1>4, <2>1, <2>2, ReplannedGate
  <2> QED
    BY <1>1, <1>2, <2>2, <2>3, CollectGate
<1>5. CASE CollectFeedback(mem)
  BY <1>1, <1>2, <1>3, <1>5, CollectGate
<1>6. QED
  BY <1>4, <1>5 DEF ProcessResults

LEMMA InitGate == Init => GateInv
  BY DEF Init, GateInv, HasCheckpoint

LEMMA GateKeeps == IInv /\ GateInv /\ FlowsLead /\ [Next]_vars => GateInv'
<1> SUFFICES ASSUME IInv, GateInv, FlowsLead, [Next]_vars PROVE GateInv'
  OBVIOUS
<1>1. CASE \/ Acquire \/ CheckoutFails \/ StepFails \/ FinishFails \/ RequestedTwice \/ People
           \/ PlannerStops \/ ErrorStops \/ TaskStops \/ OpenPullRequest
  BY <1>1, IdleGate
<1>2. CASE Load
  BY <1>2, LoadGate
<1>3. CASE ResumeWithDecision
  BY <1>3, ResumeGate
<1>4. CASE Prepare
  BY <1>4, PrepareGate
<1>5. CASE PlannerSucceeds
  BY <1>5, PlannerSucceedsGate
<1>6. CASE PlannerPauses
  BY <1>6, PlannerPausesGate
<1>7. CASE StartWave
  BY <1>7, StartWaveGate
<1>8. CASE FinishWave
  BY <1>8, FinishWaveGate
<1>9. CASE ProcessResults
  BY <1>9, ProcessGate
<1>10. CASE Complete
  BY <1>10, CompleteGate
<1>11. CASE UNCHANGED vars
  <2>1. /\ flow' = flow /\ saved' = saved /\ mem' = mem /\ pc' = pc
        /\ accepted' = accepted /\ outdated' = outdated
    BY <1>11 DEF vars
  <2>2. PICK record, m, at, held, old : /\ record = saved /\ m = mem /\ at = pc
                                        /\ held = accepted \cup outdated /\ old = outdated
    OBVIOUS
  <2>3. Leaves(record, m, at, held, old)
    BY <2>2, LeavesOfGate
  <2> QED
    BY <2>1, <2>2, <2>3, GateOfLeaves
<1>12. QED
  BY <1>1, <1>2, <1>3, <1>4, <1>5, <1>6, <1>7, <1>8, <1>9, <1>10, <1>11 DEF Next, Work, Faults

(***************************************************************************)
(* In a manifest whose flows lead (StartLeads), work only goes on from     *)
(* results that a person accepted wherever the flow or its plan asks for   *)
(* it, or that were made under a plan which was sent back: pauses,         *)
(* decisions, failures, retries and reruns never slip past a gate          *)
(* (plugin_flow.rs, plan_controls.rs, change_requests.rs).                 *)
(***************************************************************************)
THEOREM GatesHold ==
  ASSUME FlowsLead
  PROVE  Spec => []GateHolds
<1>1. Init => IInv /\ GateInv
  BY InitHolds, InitGate
<1>2. IInv /\ GateInv /\ [Next]_vars => (IInv /\ GateInv)'
  BY StepKeeps, GateKeeps
<1>3. GateInv => GateHolds
  BY DEF GateInv, GateHolds, WorkFits, Approved
<1>4. QED
  BY <1>1, <1>2, <1>3, PTL DEF Spec

-----------------------------------------------------------------------------
(* Going on *)

\* What is running in memory is completed or in the wave, and has answered once it ends.
RunFits(m, at) ==
    /\ at = "wave" => m.running \subseteq m.completed
    /\ at \in {"run", "results"} =>
          m.running \subseteq m.completed \cup m.wave
    /\ at = "run" => m.wave \subseteq Keys(m)
    /\ at = "results" =>
          /\ m.wave \subseteq Keys(m) /\ DOMAIN m.answers = m.wave
          /\ \A k \in m.wave : m.answers[k] \in AnswersOf(k)
          /\ \A k \in Answering(m.answers, "implemented") : Gated(m.plan, k) \/ k \in m.completed
RunInv == RunFits(mem, pc)

LEMMA RunOfFits ==
  ASSUME flow' = flow, NEW m, NEW at, mem' = m, pc' = at, RunFits(m, at)
  PROVE  RunInv'
<1>1. ASSUME NEW q, NEW k PROVE Gated(q, k)' <=> Gated(q, k)
  BY DEF Gated, RequiredTasks
<1>2. ASSUME NEW k PROVE AnswersOf(k)' = AnswersOf(k)
  BY DEF AnswersOf
<1>3. Keys(mem)' = Keys(m)
  BY DEF Keys
<1>4. QED
  BY <1>1, <1>2, <1>3 DEF RunInv, RunFits

LEMMA ReturnsOrPlans ==
  ASSUME \/ Acquire \/ CheckoutFails \/ StepFails \/ FinishFails \/ RequestedTwice \/ Load
         \/ ResumeWithDecision \/ PlannerPauses \/ PlannerStops \/ ErrorStops \/ TaskStops
         \/ Complete \/ OpenPullRequest
  PROVE  pc' \notin {"wave", "run", "results"}
<1>1. CASE ResumeWithDecision
  <2>1. ASSUME NEW s, NEW d, NEW chosen, NEW withdrawn, Decide(s, d, chosen, withdrawn)
        PROVE  pc' \in {"idle", "plan", "prepare"}
    BY <2>1 DEF Decide, Proceed, Pause, Stops
  <2>2. ASSUME NEW s, ReturnLastResult(s) PROVE pc' \in {"idle", "finish"}
    BY <2>2 DEF ReturnLastResult, StopPaused, Stops
  <2>3. Refuse => pc' = "idle"
    BY DEF Refuse, StopPaused, Stops
  <2>4. ASSUME NEW s, NEW d, DecidePlan(s, d) PROVE pc' \in {"idle", "plan", "prepare"}
    BY <2>3, <2>4 DEF DecidePlan, Proceed, Pause, Stops
  <2>5. ASSUME ResumeWith(saved, job.decision)
        PROVE  pc' \in {"idle", "plan", "prepare", "finish"}
    BY <2>1, <2>2, <2>3, <2>4, <2>5
       DEF ResumeWith, ResumeUndecided, FailCoordinator, Stops, ApplyHumanDecision
  <2>6. ASSUME IntakeDecision(saved, job.decision)
        PROVE  pc' \in {"idle", "plan", "prepare", "finish"}
    BY <2>2, <2>6 DEF IntakeDecision, ProposeChange, AcceptChange, Proceed, Pause, Stops
  <2> QED
    BY <1>1, <2>5, <2>6 DEF ResumeWithDecision
<1>2. CASE ~ResumeWithDecision
  BY <1>2 DEF Acquire, CheckoutFails, StepFails, FinishFails, RequestedTwice, Load, PlannerPauses,
     PlannerStops, ErrorStops, TaskStops, Complete, OpenPullRequest,
     FeedbackEnds, FailCoordinator, StopPaused, Pause, Stops
<1>3. QED
  BY <1>1, <1>2

LEMMA BeginRuns ==
  ASSUME flow' = flow, NEW s, NEW items, NEW plan, NEW sa, BeginWork(s, items, plan, sa)
  PROVE  RunInv'
<1> DEFINE m == Restored(s, items, plan)
           w == EnsureWaiting(m, Incomplete(m))
<1>1. CASE pc' = "wave" /\ mem' = w
  <2>1. m.running = {} /\ "running" \in DOMAIN m
    BY DEF Restored, NoWork
  <2>2. w.running = {}
    <3> HIDE DEF m
    <3> QED
      BY <2>1 DEF EnsureWaiting
  <2>3. PICK v, at : v = w /\ at = "wave"
    OBVIOUS
  <2> HIDE DEF w
  <2>4. RunFits(v, at)
    BY <2>2, <2>3 DEF RunFits
  <2> QED
    BY <1>1, <2>3, <2>4, RunOfFits
<1>2. CASE pc' = "idle"
  BY <1>2 DEF RunInv, RunFits
<1>3. QED
  BY <1>1, <1>2 DEF BeginWork, Pause, FailCoordinator, Stops

LEMMA WaitingKeepsRunning ==
  ASSUME NEW m \in Memory(flow), NEW keys
  PROVE  LET r == EnsureWaiting(m, keys)
         IN  /\ DOMAIN r = DOMAIN m
             /\ \A field \in DOMAIN m \ {"staged", "finished"} : r[field] = m[field]
  BY DEF EnsureWaiting

LEMMA StartWaveRuns == IInv /\ RunInv /\ StartWave => RunInv'
<1> SUFFICES ASSUME IInv, RunInv, StartWave PROVE RunInv'
  OBVIOUS
<1>1. flow' = flow /\ mem \in Memory(flow) /\ mem.running \subseteq mem.completed
  BY MemoryOf DEF StartWave, RunInv, RunFits
<1>2. CASE FailCoordinator
  BY <1>2 DEF FailCoordinator, Stops, RunInv, RunFits
<1>3. ASSUME NEW wave \in Waves(Ready), pc' = "run",
             mem' = [[EnsureWaiting(mem, wave) EXCEPT
                           !.attempt = @ + 1, !.running = @ \cup wave, !.wave = wave]
                         EXCEPT !.staged = {}]
      PROVE  RunInv'
  <2> DEFINE w == EnsureWaiting(mem, wave)
             attempt == w.attempt + 1
             running == w.running \cup wave
  <2>1. DOMAIN w = MemoryFields /\ \A field \in MemoryFields \ {"staged", "finished"} : w[field] = mem[field]
    BY <1>1, WaitingKeepsRunning, FieldsOfMemory
  <2>2. w.completed = mem.completed /\ w.running = mem.running /\ w.plan = mem.plan
        /\ w.items = mem.items
    BY <2>1 DEF MemoryFields
  <2>3. mem' = [[w EXCEPT !.attempt = attempt, !.running = running, !.wave = wave]
                   EXCEPT !.staged = {}]
    BY <1>3, <2>1 DEF MemoryFields
  <2>4. PICK v, at : at = "run"
            /\ v = [[w EXCEPT !.attempt = attempt, !.running = running, !.wave = wave]
                      EXCEPT !.staged = {}]
    OBVIOUS
  <2>5. running \subseteq mem.completed \cup wave
    BY <1>1, <2>2
  <2>6. wave \subseteq Keys(mem)
    BY DEF Waves, Ready, ReadyIn, Keys
  <2> HIDE DEF w, attempt, running
  <2>7. v.completed = mem.completed /\ v.running = running /\ v.wave = wave
        /\ v.plan = mem.plan /\ v.items = mem.items
    BY <2>1, <2>2, <2>4 DEF MemoryFields
  <2>8. RunFits(v, at)
    BY <2>4, <2>5, <2>6, <2>7 DEF RunFits, Keys
  <2> QED
    BY <1>1, <1>3, <2>3, <2>4, <2>8, RunOfFits
<1>4. QED
  BY <1>2, <1>3 DEF StartWave

LEMMA FinishWaveRuns == IInv /\ RunInv /\ FinishWave => RunInv'
<1> SUFFICES ASSUME IInv, RunInv, FinishWave PROVE RunInv'
  OBVIOUS
<1>1. /\ flow' = flow /\ mem \in Memory(flow) /\ pc' = "results"
      /\ mem.running \subseteq mem.completed \cup mem.wave /\ mem.wave \subseteq Keys(mem)
  BY MemoryOf DEF FinishWave, RunInv, RunFits
<1>2. PICK answers \in [mem.wave -> UNION {AnswersOf(k) : k \in mem.wave}] :
        /\ \A k \in mem.wave : answers[k] \in AnswersOf(k)
        /\ \E last :
              LET done == {k \in Answering(answers, "implemented") : ~Gated(mem.plan, k)}
              IN  mem' = [mem EXCEPT !.completed = @ \cup done, !.running = @ \ done,
                                     !.finished = @ \cup mem.wave,
                                     !.outcome = last, !.answers = answers]
  BY DEF FinishWave
<1>21. PICK last :
        LET done == {k \in Answering(answers, "implemented") : ~Gated(mem.plan, k)}
        IN  mem' = [mem EXCEPT !.completed = @ \cup done, !.running = @ \ done,
                               !.finished = @ \cup mem.wave,
                               !.outcome = last, !.answers = answers]
  BY <1>2
<1> DEFINE done == {k \in Answering(answers, "implemented") : ~Gated(mem.plan, k)}
           completed == mem.completed \cup done
           running == mem.running \ done
           finished == mem.finished \cup mem.wave
<1>3. PICK v, at : at = "results"
          /\ v = [mem EXCEPT !.completed = completed, !.running = running,
                             !.finished = finished, !.outcome = last, !.answers = answers]
  OBVIOUS
<1>4. mem' = v
  BY <1>1, <1>21, <1>3 DEF Memory
<1>5. DOMAIN answers = mem.wave
  OBVIOUS
<1>6. running \subseteq completed \cup mem.wave
  BY <1>1
<1>7. \A k \in Answering(answers, "implemented") : Gated(mem.plan, k) \/ k \in completed
  OBVIOUS
<1> HIDE DEF running, finished, completed, done
<1>8. v.completed = completed /\ v.running = running /\ v.wave = mem.wave /\ v.answers = answers
      /\ v.plan = mem.plan /\ v.items = mem.items
  BY <1>1, <1>3 DEF Memory
<1>9. RunFits(v, at)
  BY <1>1, <1>2, <1>3, <1>5, <1>6, <1>7, <1>8 DEF RunFits, Keys
<1>10. QED
  BY <1>1, <1>3, <1>4, <1>9, RunOfFits

\* Work that is handed back restarts who handed it back.
LEMMA SendersRestart ==
  ASSUME flow \in Flows, RunsOn(flow), NEW m \in Memory(flow), NEW k \in Handing(m) \cap Keys(m),
         m.answers[k] \in AnswersOf(k), Included(m, k), Fed(m) \cup Blocked(m) \subseteq Keys(m)
  PROVE  k \in Restarted(m)
<1> DEFINE g == Remaining(flow, m.plan.excluded)
           target == TargetOf(m, k)
           graph == <<flow, m.plan.excluded, m.items>>
<1>1. m.plan \in PlanOf(flow) /\ m.items \in Selections(flow)
  BY DEF Memory
<1>2. g.tasks = flow.tasks \ m.plan.excluded /\ g.perItem = flow.perItem
  BY ReservedAssumption DEF Remaining
<1>3. KeysOf(g, m.items) = Keys(m)
  BY <1>1, <1>2, PlanTasks DEF KeysOf, Keys
<1>4. PICK t \in flow.handoffs[k[1]] : target = KeyOf(flow, t, k[2])
  <2>1. m.answers[k][1] = "handoff"
    BY DEF Handing, IsHandoff
  <2>2. PICK t \in flow.handoffs[k[1]] : m.answers[k] = Handoff(t)
    BY <2>1 DEF AnswersOf, Plain, Broken
  <2>3. m.answers[k][2] = t
    BY <2>2 DEF Handoff
  <2> QED
    BY <2>2, <2>3 DEF TargetOf, Normal
<1>5. /\ m.plan.excluded \in {{}} \cup {p.excluded : p \in {q \in flow.proposals : Resolvable(flow, q)}}
      /\ m.items \in {{}} \cup flow.selections
  <2>1. m.plan = NoPlan => m.plan.excluded = {}
    BY DEF NoPlan
  <2>2. Installed(flow, m.plan) =>
           \E p \in {q \in flow.proposals : Resolvable(flow, q)} : m.plan.excluded = p.excluded
    BY DEF Installed
  <2> QED
    BY <1>1, <2>1, <2>2 DEF PlanOf, Selections
<1>0. target \in Fed(m) \cup Blocked(m)
  BY DEF Fed, Blocked, Feeding, OverLimit
<1>6. k \in LeastAffected(g, m.items, target)
  <2>1. \A excluded \in {{}} \cup {p.excluded : p \in {q \in flow.proposals : Resolvable(flow, q)}},
           items \in {{}} \cup flow.selections :
           \A key \in KeysOf(Remaining(flow, excluded), items) : \A s \in flow.handoffs[key[1]] :
               KeyOf(flow, s, key[2]) \in KeysOf(Remaining(flow, excluded), items) =>
                   key \in LeastAffected(Remaining(flow, excluded), items, KeyOf(flow, s, key[2]))
    BY DEF RunsOn
  <2> QED
    BY <1>0, <1>3, <1>4, <1>5, <2>1
<1>7. k \in Affected(m.plan, m.items, target)
  <2>1. graph \in Graphs
    <3>1. graph \in {flow} \X ({{}} \cup {p.excluded : p \in flow.proposals}) \X ({{}} \cup flow.selections)
      BY <1>5
    <3> QED
      BY <3>1 DEF Graphs
  <2>2. <<graph, target, k>> \in AffectedPairs
    <3>1. graph[1] = flow /\ graph[2] = m.plan.excluded /\ graph[3] = m.items
      OBVIOUS
    <3>2. <<graph, target, k>> \in LET h == Remaining(graph[1], graph[2])
             IN {<<graph, key, l>> : key \in KeysOf(h, graph[3]), l \in KeysOf(h, graph[3])}
      BY <1>0, <1>3, <3>1
    <3> QED
      BY <2>1, <3>2 DEF AffectedPairs
  <2>3. <<graph, target, k>> \in Affects
    BY <1>6, <2>2 DEF Affects
  <2> QED
    BY <1>3, <2>3 DEF Affected, AffectedBy
<1>8. QED
  BY <1>0, <1>7 DEF Restarted, RestartedByFeedback, RestartedBy

\* While nobody is asked and nothing is unclear, what has answered is completed or restarts.
LEMMA AnswersSettled ==
  ASSUME flow \in Flows, RunsOn(flow), NEW m \in Memory(flow), m.wave \subseteq Keys(m),
         DOMAIN m.answers = m.wave, \A k \in m.wave : m.answers[k] \in AnswersOf(k) \ Broken,
         \A k \in Answering(m.answers, "implemented") : Gated(m.plan, k) \/ k \in m.completed,
         Fed(m) \cup Blocked(m) \subseteq Keys(m), AllAsked(m) = {}
  PROVE  m.wave \subseteq m.completed \cup Restarted(m)
<1> SUFFICES ASSUME NEW k \in m.wave PROVE k \in m.completed \cup Restarted(m)
  OBVIOUS
<1>1. m.plan \in PlanOf(flow) /\ m.items \in Selections(flow) /\ k \in Keys(m)
  BY DEF Memory
<1>2. Asked(m) = {}
  BY DEF AllAsked
<1>3. CASE k \in Answering(m.answers, "implemented")
  <2> SUFFICES ASSUME Gated(m.plan, k) PROVE k \in RestartedByFeedback(m)
    BY <1>3 DEF Restarted
  <2>1. Required(k) \in {Required(x) : x \in GatedResults(m)} /\ Required(k).key = k
    BY <1>3 DEF GatedResults, Required, Approval
  <2> QED
    BY <1>2, <2>1 DEF Asked
<1>4. CASE k \in Handing(m)
  <2>1. Included(m, k)
    BY <1>2, <1>4 DEF Asked
  <2> QED
    BY <1>1, <1>4, <2>1, SendersRestart
<1>5. CASE k \in Answering(m.answers, "needs_info") \cup Answering(m.answers, "needs_human")
  <2>1. k \in Affected(m.plan, m.items, k)
    BY <1>1, AffectedKeys DEF Affected, Keys
  <2> QED
    BY <1>5, <2>1 DEF Blocked, Restarted, RestartedBy
<1>6. QED
  <2>1. m.answers[k] \in AnswersOf(k) \ Broken
    OBVIOUS
  <2>2. m.answers[k] \in Plain \/ m.answers[k][1] = "handoff"
    BY <2>1 DEF AnswersOf, Handoff
  <2>3. m.answers[k][1] \in {"implemented", "needs_info", "needs_human", "handoff"}
    BY <2>2 DEF Plain
  <2> QED
    BY <1>3, <1>4, <1>5, <2>3 DEF Answering, Handing, IsHandoff

LEMMA CollectRuns ==
  ASSUME flow \in Flows, RunsOn(flow), flow' = flow, NEW m0 \in Memory(flow), CollectFeedback(m0),
         AllAsked(m0) = {} /\ Fed(m0) \cup Blocked(m0) \subseteq Keys(m0) =>
             m0.running \subseteq m0.completed \cup Restarted(m0)
  PROVE  RunInv'
<1> DEFINE m1 == AfterFeedback(m0)
           pauses == AllAsked(m0) # {} \/ Clarifying(m0) # {}
           keys == IF pauses THEN Waiting(m1, AllAsked(m0)) \cup RestartedByFeedback(m0)
                             ELSE RestartedByFeedback(m0)
           m == EnsureWaiting(m1, keys)
<1>1. CASE pc' = "idle"
  BY <1>1 DEF RunInv, RunFits
<1>2. CASE /\ AllAsked(m0) = {} /\ Fed(m0) \cup Blocked(m0) \subseteq Keys(m0)
           /\ pc' = "wave" /\ mem' = [m EXCEPT !.staged = {}]
  <2>1. PICK v, at : at = "wave" /\ v = [m EXCEPT !.staged = {}]
    OBVIOUS
  <2>2. m1.completed = m0.completed \ Restarted(m0) /\ m1 \in Memory(flow)
    BY AfterFeedbackFits
  <2>3. m1.running = m0.running \ Restarted(m0)
    BY DEF AfterFeedback, Memory
  <2> HIDE DEF m1, keys
  <2>4. DOMAIN m = MemoryFields /\ m.completed = m1.completed /\ m.running = m1.running
    BY <2>2, WaitingKeepsRunning, FieldsOfMemory DEF MemoryFields
  <2> HIDE DEF m
  <2>5. v.completed = m1.completed /\ v.running = m1.running
    BY <2>1, <2>4 DEF MemoryFields
  <2>6. RunFits(v, at)
    BY <1>2, <2>1, <2>2, <2>3, <2>5 DEF RunFits
  <2> QED
    BY <1>2, <2>1, <2>6, RunOfFits
<1>3. QED
  BY <1>1, <1>2 DEF CollectFeedback, FeedbackEnds, Pause, Stops

LEMMA ProcessRuns == IInv /\ RunInv /\ FlowsRun /\ ProcessResults => RunInv'
<1> SUFFICES ASSUME IInv, RunInv, FlowsRun, ProcessResults PROVE RunInv'
  OBVIOUS
<1>1. /\ pc = "results" /\ flow' = flow /\ flow \in Flows /\ mem \in Memory(flow) /\ RunsOn(flow)
      /\ \A k \in mem.wave : mem.answers[k] \notin Broken
  BY MemoryOf DEF ProcessResults, FlowsRun
<1>2. ASSUME NEW items \in flow.selections, CollectFeedback(Replanned(mem, items))
      PROVE  RunInv'
  <2>1. PICK r : r = Replanned(mem, items)
    OBVIOUS
  <2>2. r \in Memory(flow) /\ CollectFeedback(r)
    BY <1>2, <2>1, ReplannedFits
  <2>3. r.running = {}
    BY <1>1, <2>1 DEF Replanned, Memory
  <2> QED
    BY <1>1, <2>2, <2>3, CollectRuns
<1>3. CASE CollectFeedback(mem)
  <2> SUFFICES ASSUME AllAsked(mem) = {}, Fed(mem) \cup Blocked(mem) \subseteq Keys(mem)
               PROVE  mem.running \subseteq mem.completed \cup Restarted(mem)
    BY <1>1, <1>3, CollectRuns
  <2>1. /\ mem.running \subseteq mem.completed \cup mem.wave /\ mem.wave \subseteq Keys(mem)
        /\ DOMAIN mem.answers = mem.wave /\ \A k \in mem.wave : mem.answers[k] \in AnswersOf(k) \ Broken
        /\ \A k \in Answering(mem.answers, "implemented") : Gated(mem.plan, k) \/ k \in mem.completed
    BY <1>1 DEF RunInv, RunFits
  <2>2. mem.wave \subseteq mem.completed \cup Restarted(mem)
    BY <1>1, <2>1, AnswersSettled
  <2> QED
    BY <2>1, <2>2
<1>4. QED
  BY <1>2, <1>3 DEF ProcessResults

LEMMA RunKeeps == IInv /\ RunInv /\ FlowsRun /\ [Next]_vars => RunInv'
<1> SUFFICES ASSUME IInv, RunInv, FlowsRun, [Next]_vars PROVE RunInv'
  OBVIOUS
<1>1. CASE \/ Acquire \/ CheckoutFails \/ StepFails \/ FinishFails \/ RequestedTwice \/ Load
           \/ ResumeWithDecision \/ PlannerPauses \/ PlannerStops \/ ErrorStops \/ TaskStops
           \/ Complete \/ OpenPullRequest
  <2>1. pc' \notin {"wave", "run", "results"}
    BY <1>1, ReturnsOrPlans
  <2> QED
    BY <2>1 DEF RunInv, RunFits
<1>2. CASE People
  BY <1>2 DEF People, Command, Answer, ReviseFailed, Retry, Requeue, RunInv, RunFits
<1>3. CASE Prepare
  BY <1>3, BeginRuns DEF Prepare
<1>4. CASE PlannerSucceeds
  <2>1. flow' = flow
    BY <1>4 DEF PlannerSucceeds
  <2>2. CASE FailCoordinator
    BY <2>2 DEF FailCoordinator, Stops, RunInv, RunFits
  <2>3. CASE \E s, items, plan : BeginWork(s, items, plan, FALSE)
    <3>1. PICK s, items, plan : BeginWork(s, items, plan, FALSE)
      BY <2>3
    <3> QED
      BY <2>1, <3>1, BeginRuns
  <2> QED
    BY <1>4, <2>2, <2>3 DEF PlannerSucceeds
<1>5. CASE StartWave
  BY <1>5, StartWaveRuns
<1>6. CASE FinishWave
  BY <1>6, FinishWaveRuns
<1>7. CASE ProcessResults
  BY <1>7, ProcessRuns
<1>8. CASE UNCHANGED vars
  <2>1. flow' = flow /\ mem' = mem /\ pc' = pc
    BY <1>8 DEF vars
  <2>2. PICK m, at : m = mem /\ at = pc
    OBVIOUS
  <2> QED
    BY <2>1, <2>2, RunOfFits DEF RunInv
<1>9. QED
  BY <1>1, <1>2, <1>3, <1>4, <1>5, <1>6, <1>7, <1>8 DEF Next, Work, Faults

\* In the graph a plan leaves, what a key waits for is in the graph.
LEMMA DependenciesInGraph ==
  ASSUME flow \in Flows, RunsOn(flow), NEW q \in PlanOf(flow), NEW items \in Selections(flow),
         NEW k \in KeysOf(Effective(flow, q), items)
  PROVE  /\ DependenciesOf(Effective(flow, q), items, k) \subseteq KeysOf(Effective(flow, q), items)
         /\ DependenciesOf(Effective(flow, q), items, k) \subseteq DependenciesOf(flow, Items, k)
<1> DEFINE g == Effective(flow, q)
<1>1. g.tasks = flow.tasks \ q.excluded /\ g.perItem = flow.perItem
  BY PlanTasks
<1>2. g.dependencies = flow.dependencies /\ g.acrossItems = flow.acrossItems
  BY ReservedAssumption DEF Effective
<1>3. items \subseteq Items
  BY FlowsAssumption DEF Selections
<1>4. k[1] \in flow.tasks \ q.excluded /\ (k[1] \in flow.perItem => k[2] \in items)
  BY <1>1 DEF KeysOf
<1>5. flow.dependencies[k[1]] \subseteq flow.tasks \ q.excluded
  <2>1. flow.dependencies[k[1]] \subseteq flow.tasks
    BY <1>4, FlowsAssumption
  <2>2. flow.dependencies[k[1]] \cap q.excluded = {}
    <3>1. CASE q = NoPlan
      BY <3>1 DEF NoPlan
    <3>2. CASE Installed(flow, q)
      <4>1. PICK p \in flow.proposals : Resolvable(flow, p) /\ q.excluded = p.excluded
        BY <3>2 DEF Installed
      <4> QED
        BY <1>4, <4>1 DEF Resolvable
    <3> QED
      BY <3>1, <3>2 DEF PlanOf
  <2> QED
    BY <2>1, <2>2
<1>6. \A d \in flow.dependencies[k[1]] : d \in flow.perItem => k[2] \in items
  BY <1>4 DEF RunsOn
<1>7. flow.acrossItems \subseteq flow.perItem /\ flow.perItem \subseteq flow.tasks
  BY FlowsAssumption
<1>8. \A d \in flow.dependencies[k[1]] :
          KeyOf(g, d, k[2]) \in KeysOf(g, items) /\ KeyOf(g, d, k[2]) = KeyOf(flow, d, k[2])
  BY <1>1, <1>5, <1>6 DEF KeyOf, KeysOf
<1>9. k[1] \in g.acrossItems =>
         \A other \in ItemDependsOn[k[2]] \cap items : <<k[1], other>> \in KeysOf(g, items)
  BY <1>1, <1>2, <1>4, <1>7 DEF KeysOf
<1>10. DependenciesOf(g, items, k) \subseteq KeysOf(g, items)
  BY <1>2, <1>8, <1>9 DEF DependenciesOf
<1>11. DependenciesOf(g, items, k) \subseteq DependenciesOf(flow, Items, k)
  BY <1>2, <1>3, <1>8 DEF DependenciesOf
<1>12. QED
  BY <1>10, <1>11

(***************************************************************************)
(* In a manifest whose flows run on (RunsOn), a run with unfinished tasks  *)
(* always has a task to start, whatever plans, decisions, handoffs and     *)
(* failures came before: it never fails for want of a ready task           *)
(* (plugin_flow.rs, "plugin task graph has no runnable tasks").             *)
(***************************************************************************)
THEOREM AlwaysReady ==
  ASSUME FlowsRun
  PROVE  Spec => []NeverStuck
<1>1. Init => IInv /\ RunInv
  BY InitHolds DEF Init, RunInv, RunFits
<1>2. IInv /\ RunInv /\ [Next]_vars => (IInv /\ RunInv)'
  BY StepKeeps, RunKeeps
<1>3. ASSUME IInv, RunInv PROVE NeverStuck
  <2> SUFFICES ASSUME pc = "wave", Incomplete(mem) # {} PROVE Ready # {}
    BY DEF NeverStuck
  <2>1. flow \in Flows /\ mem \in Memory(flow) /\ RunsOn(flow)
    BY <1>3, MemoryOf DEF FlowsRun
  <2>2. mem.plan \in PlanOf(flow) /\ mem.items \in Selections(flow)
    BY <2>1 DEF Memory
  <2>3. Incomplete(mem) \in SUBSET KeysOf(flow, Items)
    BY <2>1, <2>2, KeysInFlow DEF Incomplete, Keys, FlowKeys
  <2>4. PICK k \in Incomplete(mem) : DependenciesOf(flow, Items, k) \cap Incomplete(mem) = {}
    <3> HIDE DEF Incomplete
    <3> QED
      BY <2>1, <2>3 DEF RunsOn
  <2>5. k \in Keys(mem) \ mem.completed /\ k \notin mem.running
    BY <1>3, <2>4 DEF RunInv, RunFits, Incomplete
  <2>6. DependenciesOf(Effective(flow, mem.plan), mem.items, k) \subseteq mem.completed
    BY <2>1, <2>2, <2>4, <2>5, DependenciesInGraph DEF Incomplete, Keys
  <2> QED
    BY <2>5, <2>6 DEF Ready, ReadyIn, Keys
<1>4. QED
  BY <1>1, <1>2, <1>3, PTL DEF Spec

-----------------------------------------------------------------------------
(* Results: what lies downstream of a set of keys *)

\* What a key waits for in every graph of the flow, and what follows a set of keys.
NeedsOf(k) == DependenciesOf(flow, Items, k)
Downstream(targets) == UNION {LeastAffected(flow, Items, k) : k \in targets \cap FlowKeys(flow)}
Whole(keys) == \A k \in keys : NeedsOf(k) \subseteq keys

PendingOf(s, trigger) == {p.key : p \in {q \in s.pending : q.trigger = trigger}}
ResultsOf(s) == (s.completed \cup PendingOf(s, "required")) \cap FlowKeys(flow)
RedoneOf(s) == (s.targets \cup PendingOf(s, "agent_requested")) \ {Start}
HeldOf(s) == ResultsOf(s) \ Downstream(RedoneOf(s))

\* In the graph a plan leaves, a key waits for what it waits for in every other graph.
LEMMA NeedsInGraph ==
  ASSUME flow \in Flows, HoldsOn(flow), NEW q \in PlanOf(flow), NEW items \in Selections(flow),
         NEW k \in KeysOf(Effective(flow, q), items)
  PROVE  /\ NeedsOf(k) \subseteq KeysOf(Effective(flow, q), items)
         /\ NeedsOf(k) = DependenciesOf(flow, items, k)
<1> DEFINE g == Effective(flow, q)
<1>1. g.tasks = flow.tasks \ q.excluded /\ g.perItem = flow.perItem
  BY PlanTasks
<1>2. items \subseteq Items /\ flow.acrossItems \subseteq flow.perItem /\ flow.perItem \subseteq flow.tasks
  BY FlowsAssumption DEF Selections
<1>3. k[1] \in flow.tasks \ q.excluded /\ (k[1] \in flow.perItem => k[2] \in items)
  BY <1>1 DEF KeysOf
<1>4. flow.dependencies[k[1]] \subseteq flow.tasks \ q.excluded
  <2>1. flow.dependencies[k[1]] \subseteq flow.tasks
    BY <1>3, FlowsAssumption
  <2>2. flow.dependencies[k[1]] \cap q.excluded = {}
    <3>1. CASE q = NoPlan
      BY <3>1 DEF NoPlan
    <3>2. CASE Installed(flow, q)
      <4>1. PICK p \in flow.proposals : Resolvable(flow, p) /\ q.excluded = p.excluded
        BY <3>2 DEF Installed
      <4> QED
        BY <1>3, <4>1 DEF Resolvable
    <3> QED
      BY <3>1, <3>2 DEF PlanOf
  <2> QED
    BY <2>1, <2>2
<1>5. \A d \in flow.dependencies[k[1]] : d \in flow.perItem => k[2] \in items
  BY <1>3 DEF HoldsOn
<1>6. \A d \in flow.dependencies[k[1]] : KeyOf(flow, d, k[2]) \in KeysOf(g, items)
  BY <1>1, <1>4, <1>5 DEF KeyOf, KeysOf
<1>7. k[1] \in flow.acrossItems => ItemDependsOn[k[2]] \subseteq items
  BY <1>2, <1>3 DEF HoldsOn, Selections
<1>8. k[1] \in flow.acrossItems =>
         \A other \in ItemDependsOn[k[2]] \cap items : <<k[1], other>> \in KeysOf(g, items)
  BY <1>1, <1>2, <1>3 DEF KeysOf
<1>9. NeedsOf(k) = DependenciesOf(flow, items, k)
  <2>1. k[1] \in flow.acrossItems => ItemDependsOn[k[2]] \cap Items = ItemDependsOn[k[2]] \cap items
    BY <1>2, <1>7
  <2> QED
    BY <2>1 DEF NeedsOf, DependenciesOf
<1>10. DependenciesOf(flow, items, k) \subseteq KeysOf(g, items)
  BY <1>6, <1>8 DEF DependenciesOf
<1>11. QED
  BY <1>9, <1>10

LEMMA GraphWhole ==
  ASSUME flow \in Flows, HoldsOn(flow), NEW q \in PlanOf(flow), NEW items \in Selections(flow)
  PROVE  /\ Whole(KeysOf(Effective(flow, q), items))
         /\ KeysOf(Effective(flow, q), items) \subseteq FlowKeys(flow)
         /\ Start \in KeysOf(Effective(flow, q), items) /\ Start \in FlowKeys(flow)
  BY NeedsInGraph, KeysInFlow DEF Whole, Start

LEMMA StartNeeds ==
  ASSUME flow \in Flows, HoldsOn(flow)
  PROVE  NeedsOf(Start) = {}
<1>1. Start[1] = flow.start /\ flow.start \notin flow.acrossItems
  BY FlowsAssumption DEF Start, StartKey
<1>2. QED
  BY <1>1 DEF NeedsOf, DependenciesOf, HoldsOn

\* What is whole without a set of keys is not downstream of it.
LEMMA NotDownstream ==
  ASSUME NEW keys, keys \subseteq FlowKeys(flow), Whole(keys), NEW targets, targets \cap keys = {}
  PROVE  Downstream(targets) \cap keys = {}
<1> DEFINE rest == FlowKeys(flow) \ keys
<1>1. ClosedUnderDependents(flow, Items, rest)
  BY DEF ClosedUnderDependents, Whole, NeedsOf, FlowKeys
<1>2. ASSUME NEW k \in targets \cap FlowKeys(flow) PROVE LeastAffected(flow, Items, k) \subseteq rest
  <2>1. k \in rest /\ rest \in SUBSET KeysOf(flow, Items)
    BY <1>2 DEF FlowKeys
  <2> HIDE DEF rest
  <2> QED
    BY <1>1, <2>1 DEF LeastAffected
<1>3. QED
  BY <1>2 DEF Downstream

LEMMA DownstreamKeys ==
  ASSUME flow \in Flows, HoldsOn(flow), NEW targets
  PROVE  /\ Downstream(targets) \subseteq FlowKeys(flow)
         /\ targets \cap FlowKeys(flow) \subseteq Downstream(targets)
         /\ \A k \in FlowKeys(flow) :
               NeedsOf(k) \cap Downstream(targets) # {} => k \in Downstream(targets)
         /\ Start \in targets => Downstream(targets) = FlowKeys(flow)
         /\ Start \notin targets => Start \notin Downstream(targets)
<1>1. Downstream(targets) \subseteq FlowKeys(flow)
  BY DEF Downstream, LeastAffected, FlowKeys
<1>2. targets \cap FlowKeys(flow) \subseteq Downstream(targets)
  BY DEF Downstream, LeastAffected, FlowKeys
<1>3. ASSUME NEW k \in FlowKeys(flow), NeedsOf(k) \cap Downstream(targets) # {}
      PROVE  k \in Downstream(targets)
  <2>1. PICK t \in targets \cap FlowKeys(flow) : NeedsOf(k) \cap LeastAffected(flow, Items, t) # {}
    BY <1>3 DEF Downstream
  <2>2. ASSUME NEW set \in SUBSET KeysOf(flow, Items), t \in set,
               ClosedUnderDependents(flow, Items, set)
        PROVE  k \in set
    <3>1. LeastAffected(flow, Items, t) \subseteq set
      BY <2>2 DEF LeastAffected
    <3>2. NeedsOf(k) \cap set # {}
      BY <2>1, <3>1
    <3> QED
      BY <1>3, <2>2, <3>2 DEF ClosedUnderDependents, NeedsOf, FlowKeys
  <2>3. k \in LeastAffected(flow, Items, t)
    BY <1>3, <2>2 DEF LeastAffected, FlowKeys
  <2> QED
    BY <2>1, <2>3 DEF Downstream
<1>4. Start \in FlowKeys(flow)
  BY StartTyped
<1>5. Start \in targets => Downstream(targets) = FlowKeys(flow)
  <2> SUFFICES ASSUME Start \in targets PROVE FlowKeys(flow) \subseteq Downstream(targets)
    BY <1>1
  <2>1. FlowKeys(flow) \subseteq LeastAffected(flow, Items, Start)
    BY DEF HoldsOn, FlowKeys, Start
  <2> QED
    BY <1>4, <2>1 DEF Downstream
<1>6. Start \notin targets => Start \notin Downstream(targets)
  <2>1. Whole({Start})
    BY StartNeeds DEF Whole
  <2> QED
    BY <1>4, <2>1, NotDownstream
<1>7. QED
  BY <1>1, <1>2, <1>3, <1>5, <1>6

LEMMA DownstreamOfMore ==
  ASSUME flow \in Flows, HoldsOn(flow), NEW targets, NEW more,
         targets \cap FlowKeys(flow) \subseteq Downstream(more)
  PROVE  Downstream(targets) \subseteq Downstream(more)
<1> DEFINE set == Downstream(more)
<1>1. set \in SUBSET KeysOf(flow, Items)
  BY DownstreamKeys DEF FlowKeys
<1>2. ClosedUnderDependents(flow, Items, set)
  BY DownstreamKeys DEF ClosedUnderDependents, NeedsOf, FlowKeys
<1> HIDE DEF set
<1>3. \A k \in set : LeastAffected(flow, Items, k) \subseteq set
  BY <1>1, <1>2 DEF LeastAffected
<1>4. \A k \in targets \cap FlowKeys(flow) : LeastAffected(flow, Items, k) \subseteq set
  BY <1>3 DEF set
<1>5. Downstream(targets) \subseteq set
  BY <1>4 DEF Downstream
<1>6. QED
  BY <1>5 DEF set

\* affected_by in the graph of a plan is what lies downstream there.
LEMMA RestartedIsDownstream ==
  ASSUME flow \in Flows, HoldsOn(flow), NEW q \in PlanOf(flow), NEW items \in Selections(flow),
         NEW targets
  PROVE  RestartedBy(q, items, targets) = Downstream(targets) \cap KeysOf(Effective(flow, q), items)
<1> DEFINE g == Remaining(flow, q.excluded)
           graph == <<flow, q.excluded, items>>
           G == KeysOf(Effective(flow, q), items)
<1>1. /\ g.tasks = flow.tasks \ q.excluded /\ g.perItem = flow.perItem
      /\ g.dependencies = flow.dependencies /\ g.acrossItems = flow.acrossItems
  BY ReservedAssumption DEF Remaining
<1>2. KeysOf(g, items) = G
  BY <1>1, PlanTasks DEF KeysOf
<1>3. graph \in Graphs
  <2>1. q.excluded \in {{}} \cup {p.excluded : p \in flow.proposals}
    <3>1. q = NoPlan => q.excluded = {}
      BY DEF NoPlan
    <3>2. Installed(flow, q) => \E p \in flow.proposals : q.excluded = p.excluded
      BY DEF Installed
    <3> QED
      BY <3>1, <3>2 DEF PlanOf
  <2>2. graph \in {flow} \X ({{}} \cup {p.excluded : p \in flow.proposals}) \X ({{}} \cup flow.selections)
    BY <2>1 DEF Selections
  <2> QED
    BY <2>2 DEF Graphs
<1>4. Whole(G) /\ G \subseteq FlowKeys(flow)
  BY GraphWhole
<1>5. \A k \in G : DependenciesOf(g, items, k) = NeedsOf(k)
  <2> TAKE k \in G
  <2>1. DependenciesOf(g, items, k) = DependenciesOf(flow, items, k)
    BY <1>1 DEF DependenciesOf, KeyOf
  <2> QED
    BY <2>1, NeedsInGraph
<1>6. ASSUME NEW k, NEW x
      PROVE  x \in Affected(q, items, k) <=> k \in G /\ x \in LeastAffected(g, items, k)
  <2>1. <<graph, k, x>> \in AffectedPairs <=> k \in G /\ x \in G
    <3>1. ASSUME <<graph, k, x>> \in AffectedPairs PROVE k \in G /\ x \in G
      <4>1. PICK other \in Graphs :
              <<graph, k, x>> \in
                 LET h == Remaining(other[1], other[2])
                 IN  {<<other, key, l>> : key \in KeysOf(h, other[3]), l \in KeysOf(h, other[3])}
        BY <3>1 DEF AffectedPairs
      <4>2. other = graph /\ k \in KeysOf(Remaining(other[1], other[2]), other[3])
            /\ x \in KeysOf(Remaining(other[1], other[2]), other[3])
        BY <4>1
      <4> QED
        BY <1>2, <4>2
    <3>2. ASSUME k \in G, x \in G PROVE <<graph, k, x>> \in AffectedPairs
      <4>1. graph[1] = flow /\ graph[2] = q.excluded /\ graph[3] = items
        OBVIOUS
      <4>2. <<graph, k, x>> \in LET h == Remaining(graph[1], graph[2])
               IN {<<graph, key, l>> : key \in KeysOf(h, graph[3]), l \in KeysOf(h, graph[3])}
        BY <1>2, <3>2, <4>1
      <4> QED
        BY <1>3, <4>2 DEF AffectedPairs
    <3> QED
      BY <3>1, <3>2
  <2>2. <<graph, k, x>> \in Affects <=>
           <<graph, k, x>> \in AffectedPairs /\ x \in LeastAffected(g, items, k)
    BY DEF Affects
  <2>3. x \in LeastAffected(g, items, k) => x \in G
    BY <1>2 DEF LeastAffected
  <2> HIDE DEF G, graph, g
  <2> QED
    BY <1>2, <2>1, <2>2, <2>3 DEF Affected, AffectedBy, G, graph, g
<1>7. ASSUME NEW k \in G, NEW x
      PROVE  x \in LeastAffected(g, items, k) <=> x \in G /\ x \in LeastAffected(flow, Items, k)
  <2>1. ASSUME x \in LeastAffected(g, items, k), NEW set \in SUBSET FlowKeys(flow), k \in set,
               ClosedUnderDependents(flow, Items, set)
        PROVE  x \in set
    <3>1. ClosedUnderDependents(g, items, set \cap G)
      BY <1>2, <1>4, <1>5, <2>1 DEF ClosedUnderDependents, NeedsOf, FlowKeys
    <3>2. set \cap G \in SUBSET KeysOf(g, items) /\ k \in set \cap G
      BY <1>2, <1>7, <2>1
    <3> QED
      BY <2>1, <3>1, <3>2 DEF LeastAffected
  <2>2. ASSUME x \in G, x \in LeastAffected(flow, Items, k), NEW set \in SUBSET G, k \in set,
               ClosedUnderDependents(g, items, set)
        PROVE  x \in set
    <3> DEFINE wide == set \cup (FlowKeys(flow) \ G)
    <3>1. ClosedUnderDependents(flow, Items, wide)
      <4> SUFFICES ASSUME NEW y \in FlowKeys(flow), NeedsOf(y) \cap wide # {} PROVE y \in wide
        BY DEF ClosedUnderDependents, NeedsOf, FlowKeys
      <4>1. CASE y \in G
        <5>1. NeedsOf(y) \subseteq G
          BY <1>4, <4>1 DEF Whole
        <5>2. NeedsOf(y) \cap set # {}
          BY <5>1
        <5> QED
          BY <1>2, <1>5, <2>2, <4>1, <5>2 DEF ClosedUnderDependents
      <4> QED
        BY <4>1
    <3>2. wide \in SUBSET KeysOf(flow, Items) /\ k \in wide
      BY <1>4, <2>2 DEF FlowKeys
    <3>3. x \in wide
      <4> HIDE DEF wide
      <4> QED
        BY <2>2, <3>1, <3>2 DEF LeastAffected
    <3> QED
      BY <2>2, <3>3
  <2>3. x \in LeastAffected(g, items, k) => x \in G
    BY <1>2 DEF LeastAffected
  <2>4. x \in LeastAffected(g, items, k) => x \in LeastAffected(flow, Items, k)
    <3> HIDE DEF g, G
    <3> QED
      BY <1>4, <2>1, <2>3 DEF LeastAffected, FlowKeys
  <2>5. x \in G /\ x \in LeastAffected(flow, Items, k) => x \in LeastAffected(g, items, k)
    <3> HIDE DEF g, G
    <3> QED
      BY <1>2, <2>2 DEF LeastAffected
  <2> QED
    BY <2>3, <2>4, <2>5
<1>8. ASSUME NEW k \in FlowKeys(flow) \ G PROVE LeastAffected(flow, Items, k) \cap G = {}
  <2>1. Downstream({k}) \cap G = {}
    BY <1>4, <1>8, NotDownstream
  <2> QED
    BY <1>8, <2>1 DEF Downstream
<1> HIDE DEF G, g
<1>9. RestartedBy(q, items, targets) \subseteq Downstream(targets) \cap G
  BY <1>4, <1>6, <1>7 DEF RestartedBy, Downstream
<1>10. Downstream(targets) \cap G \subseteq RestartedBy(q, items, targets)
  BY <1>6, <1>7, <1>8 DEF RestartedBy, Downstream
<1>11. QED
  BY <1>9, <1>10 DEF G

-----------------------------------------------------------------------------
(* Results: the invariant, and what leaves a checkpoint as it is *)

\* In what follows acc is accepted and out is stale \cup outdated.
\* A checkpoint holds what was accepted and not sent back, and redoes nothing of it.
ResultsFit(s, acc, out) ==
    /\ ResultsOf(s) \subseteq GraphKeys(s, s.plan)
    /\ acc \ out \subseteq ResultsOf(s)
    /\ (ResultsOf(s) \ out) \cap Downstream(RedoneOf(s)) = {}
    /\ s.startAction = "revise" => (acc \cup ResultsOf(s)) \ {Start} \subseteq out

\* What it asks about and sends back lies apart from the results it keeps.
RequestsFit(s) ==
    /\ Start \in PendingOf(s, "required") => Start \in s.completed
    /\ PendingOf(s, "agent_requested") \cap ResultsOf(s) \subseteq {Start}
    /\ Start \notin s.targets
    /\ s.change.ready =>
          /\ flow.intake /\ s.change.open
          /\ s.change.affected = Downstream(s.change.revisions \cup s.targets)
                                    \cap GraphKeys(s, ProposedPlan(s))
HoldsFit(s, acc, out) == ResultsFit(s, acc, out) /\ RequestsFit(s) /\ Whole(HeldOf(s))

WorkHolds(m, acc, out) ==
    /\ m.completed \subseteq Keys(m) /\ Whole(m.completed) /\ Start \in m.completed
    /\ acc \ out \subseteq m.completed
WaveHolds(m) ==
    m.wave \subseteq Keys(m) \ {Start} /\ \A k \in m.wave : NeedsOf(k) \subseteq m.completed
Mirrors(s, m) ==
    /\ s.completed = m.completed /\ s.plan = m.plan /\ s.items = m.items
    /\ s.pending = {} /\ s.targets = {}
AnswersHold(m) ==
    /\ DOMAIN m.answers = m.wave /\ \A k \in m.wave : m.answers[k] \in AnswersOf(k)
    /\ m.wave \cap m.completed = {k \in Answering(m.answers, "implemented") : ~Gated(m.plan, k)}

HeldBy(s) == IF s # NoCheckpoint THEN HeldOf(s) ELSE {}

HoldsLeft(s, m, at, acc, out) ==
    /\ IF s # NoCheckpoint THEN HoldsFit(s, acc, out) ELSE acc = {}
    /\ at \in {"wave", "run", "results"} => WorkHolds(m, acc, out)
    /\ at \in {"run", "results"} => WaveHolds(m) /\ s # NoCheckpoint /\ Mirrors(s, m)
    /\ at = "run" => m.wave \cap m.completed = {}
    /\ at = "results" => AnswersHold(m)
    /\ at = "wave" => m.completed \ {Start} \subseteq HeldBy(s)
    /\ at = "plan" /\ s # NoCheckpoint => s.startAction = "revise"
HoldInv == HoldsOn(flow) /\ HoldsLeft(saved, mem, pc, accepted, stale \cup outdated)

\* A step of the checkpoint is one of the two that Results allows.
Follows(old, new) ==
    \/ HeldBy(new) \subseteq HeldBy(old) \cup {Start}
    \/ /\ old # NoCheckpoint /\ new.items = old.items
       /\ GraphKeys(new, new.plan) = GraphKeys(old, old.plan)
       /\ \A k \in HeldBy(new) \ HeldBy(old) : NeedsOf(k) \subseteq HeldBy(old)
StepHolds == HoldInv' /\ (saved' = saved \/ Follows(saved, saved'))

LEMMA HoldOfLeft ==
  ASSUME flow' = flow, HoldsOn(flow), NEW s, NEW m, NEW at, NEW acc, NEW out,
         saved' = s, mem' = m, pc' = at, acc = accepted', out = stale' \cup outdated',
         HoldsLeft(s, m, at, acc, out)
  PROVE  HoldInv'
<1>1. ASSUME NEW q, NEW k PROVE Gated(q, k)' <=> Gated(q, k)
  BY DEF Gated, RequiredTasks
<1>2. Start' = Start /\ (HoldsOn(flow))'
  BY DEF Start, HoldsOn
<1>3. ASSUME NEW k PROVE NeedsOf(k)' = NeedsOf(k) /\ AnswersOf(k)' = AnswersOf(k)
  BY DEF NeedsOf, AnswersOf
<1>4. ASSUME NEW keys PROVE (Whole(keys)' <=> Whole(keys)) /\ Downstream(keys)' = Downstream(keys)
  BY <1>3 DEF Whole, Downstream
<1>5. GraphKeys(saved, saved.plan)' = GraphKeys(s, s.plan)
      /\ GraphKeys(saved, ProposedPlan(saved))' = GraphKeys(s, ProposedPlan(s))
  BY DEF GraphKeys, ProposedPlan
<1>6. ASSUME NEW t PROVE PendingOf(saved, t)' = PendingOf(s, t)
  BY DEF PendingOf
<1>7. ResultsOf(saved)' = ResultsOf(s) /\ RedoneOf(saved)' = RedoneOf(s)
  BY <1>2, <1>6 DEF ResultsOf, RedoneOf
<1>8. HeldOf(saved)' = HeldOf(s)
  <2>1. Downstream(RedoneOf(saved))' = Downstream(RedoneOf(s))
    BY <1>7 DEF Downstream
  <2> QED
    BY <1>7, <2>1 DEF HeldOf
<1>9. HeldBy(saved)' = HeldBy(s)
  BY <1>8 DEF HeldBy
<1>10. HoldsFit(s, acc, out) => HoldsFit(saved, accepted, stale \cup outdated)'
  <2>1. Downstream(RedoneOf(saved))' = Downstream(RedoneOf(s))
    BY <1>7 DEF Downstream
  <2>2. ResultsFit(s, acc, out) => ResultsFit(saved, accepted, stale \cup outdated)'
    BY <1>2, <1>5, <1>7, <2>1 DEF ResultsFit
  <2>3. Downstream(saved.change.revisions \cup saved.targets)'
            = Downstream(s.change.revisions \cup s.targets)
    BY DEF Downstream
  <2>4. RequestsFit(s) => RequestsFit(saved)'
    BY <1>2, <1>5, <1>6, <1>7, <2>3 DEF RequestsFit
  <2>5. Whole(HeldOf(s)) => Whole(HeldOf(saved))'
    BY <1>3, <1>8 DEF Whole
  <2> QED
    BY <2>2, <2>4, <2>5 DEF HoldsFit
<1>11. Keys(mem)' = Keys(m)
  BY DEF Keys
<1>12. WorkHolds(m, acc, out) => WorkHolds(mem, accepted, stale \cup outdated)'
  <2>1. Whole(m.completed) => Whole(mem.completed)'
    BY <1>3 DEF Whole
  <2> QED
    BY <1>2, <1>11, <2>1 DEF WorkHolds
<1>13. (WaveHolds(m) => WaveHolds(mem)') /\ (Mirrors(s, m) => Mirrors(saved, mem)')
  BY <1>2, <1>3, <1>11 DEF WaveHolds, Mirrors
<1>14. AnswersHold(m) => AnswersHold(mem)'
  BY <1>1, <1>3 DEF AnswersHold
<1>15. HoldsLeft(saved, mem, pc, accepted, stale \cup outdated)'
  BY <1>2, <1>9, <1>10, <1>12, <1>13, <1>14 DEF HoldsLeft
<1>16. QED
  BY <1>2, <1>15 DEF HoldInv

\* What a step leaves of the checkpoint and of what the executor holds.
LEMMA StepOfLeft ==
  ASSUME HoldInv, flow' = flow, NEW s, NEW m, NEW at, NEW acc, NEW out,
         saved' = s, mem' = m, pc' = at, acc = accepted', out = stale' \cup outdated',
         HoldsLeft(s, m, at, acc, out), s = saved \/ Follows(saved, s)
  PROVE  StepHolds
<1>1. HoldInv'
  BY HoldOfLeft DEF HoldInv
<1>2. QED
  BY <1>1 DEF StepHolds

(* Steps that leave the checkpoint and return, or have not begun to work. *)
LEMMA HoldStays ==
  ASSUME HoldInv, flow' = flow, saved' = saved, UNCHANGED history,
         pc' \in {"idle", "load", "resume", "finish", "prepare"}
  PROVE  StepHolds
<1>1. PICK s, m : s = saved' /\ m = mem'
  OBVIOUS
<1>2. PICK at : at = pc'
  OBVIOUS
<1>3. PICK acc, out : acc = accepted' /\ out = stale' \cup outdated'
  OBVIOUS
<1>4. acc = accepted /\ out = stale \cup outdated
  BY <1>3 DEF history
<1>5. HoldsLeft(s, m, at, acc, out)
  BY <1>1, <1>2, <1>4 DEF HoldInv, HoldsLeft
<1>6. QED
  BY <1>1, <1>2, <1>3, <1>5, StepOfLeft

LEMMA IdleHolds ==
  ASSUME HoldInv,
         Acquire \/ CheckoutFails \/ StepFails \/ FinishFails \/ RequestedTwice \/ People
           \/ PlannerStops \/ ErrorStops \/ TaskStops \/ OpenPullRequest
  PROVE  StepHolds
<1>1. flow' = flow /\ saved' = saved /\ UNCHANGED history
  BY DEF Acquire, CheckoutFails, StepFails, FinishFails, RequestedTwice, People, Command, Answer,
     ReviseFailed, Retry, Requeue, PlannerStops, ErrorStops, TaskStops, OpenPullRequest,
     FeedbackEnds, FailCoordinator, StopPaused, rows
<1>2. CASE People
  BY <1>1, <1>2, HoldStays DEF People, Command, Answer, ReviseFailed, Retry, Requeue
<1>3. CASE ~People
  <2>1. pc' \in {"idle", "load"}
    BY <1>3 DEF Acquire, CheckoutFails, StepFails, FinishFails, RequestedTwice,
       PlannerStops, ErrorStops, TaskStops, OpenPullRequest,
       FeedbackEnds, FailCoordinator, StopPaused, Stops
  <2> QED
    BY <1>1, <2>1, HoldStays
<1>4. QED
  BY <1>2, <1>3

LEMMA LoadHolds == HoldInv /\ Load => StepHolds
<1> SUFFICES ASSUME HoldInv, Load PROVE StepHolds
  OBVIOUS
<1>1. flow' = flow /\ saved' = saved /\ UNCHANGED history
  BY DEF Load, FailCoordinator, durable
<1>2. CASE pc' \in {"idle", "resume"}
  BY <1>1, <1>2, HoldStays
<1>3. CASE pc' = "plan" /\ ~HasCheckpoint
  <2>1. PICK s, m : s = saved' /\ m = mem'
    OBVIOUS
  <2>2. PICK at : at = pc'
    OBVIOUS
  <2>3. PICK acc, out : acc = accepted' /\ out = stale' \cup outdated'
    OBVIOUS
  <2>4. acc = accepted /\ out = stale \cup outdated
    BY <1>1, <2>3 DEF history
  <2>5. HoldsLeft(s, m, at, acc, out)
    BY <1>1, <1>3, <2>1, <2>2, <2>4 DEF HoldInv, HoldsLeft, HasCheckpoint
  <2> QED
    BY <1>1, <2>1, <2>2, <2>3, <2>5, StepOfLeft
<1>4. QED
  BY <1>2, <1>3 DEF Load, FailCoordinator, Stops

LEMMA WholeLess ==
  ASSUME flow \in Flows, HoldsOn(flow), NEW keys, keys \subseteq FlowKeys(flow), Whole(keys), NEW targets
  PROVE  Whole(keys \ Downstream(targets))
<1> SUFFICES ASSUME NEW k \in keys \ Downstream(targets)
             PROVE  NeedsOf(k) \subseteq keys \ Downstream(targets)
  BY DEF Whole
<1>1. NeedsOf(k) \subseteq keys
  BY DEF Whole
<1>2. NeedsOf(k) \cap Downstream(targets) = {}
  BY DownstreamKeys
<1>3. QED
  BY <1>1, <1>2

LEMMA DownstreamOfBoth ==
  ASSUME NEW targets, NEW more
  PROVE  /\ Downstream(targets \cup more) = Downstream(targets) \cup Downstream(more)
         /\ targets \cap FlowKeys(flow) \subseteq more => Downstream(targets) \subseteq Downstream(more)
  BY DEF Downstream

\* HoldsFit reads these fields only.
LEMMA SameHeld ==
  ASSUME NEW s, NEW r, NEW acc, NEW out, HoldsFit(s, acc, out),
         r.completed = s.completed, r.pending = s.pending, r.items = s.items,
         r.startAction = s.startAction, r.targets = s.targets, r.change = s.change, r.plan = s.plan
  PROVE  /\ HoldsFit(r, acc, out) /\ HeldOf(r) = HeldOf(s)
         /\ GraphKeys(r, r.plan) = GraphKeys(s, s.plan)
<1>1. \A t : PendingOf(r, t) = PendingOf(s, t)
  BY DEF PendingOf
<1>2. ResultsOf(r) = ResultsOf(s) /\ RedoneOf(r) = RedoneOf(s) /\ HeldOf(r) = HeldOf(s)
  BY <1>1 DEF ResultsOf, RedoneOf, HeldOf
<1>3. GraphKeys(r, r.plan) = GraphKeys(s, s.plan)
      /\ GraphKeys(r, ProposedPlan(r)) = GraphKeys(s, ProposedPlan(s))
  BY DEF ProposedPlan, GraphKeys
<1>4. ResultsFit(r, acc, out)
  BY <1>2, <1>3 DEF HoldsFit, ResultsFit
<1>5. RequestsFit(r)
  BY <1>1, <1>2, <1>3 DEF HoldsFit, RequestsFit
<1>6. QED
  BY <1>2, <1>3, <1>4, <1>5 DEF HoldsFit

\* What a resting executor or one that plans leaves is only its checkpoint.
LEMMA RestHolds ==
  ASSUME HoldInv, flow' = flow, NEW s, s # NoCheckpoint, saved' = s, NEW at, pc' = at,
         at \in {"idle", "finish", "plan", "prepare"},
         at = "plan" => s.startAction = "revise",
         HoldsFit(s, accepted', stale' \cup outdated'), Follows(saved, s)
  PROVE  StepHolds
<1>1. PICK m : m = mem'
  OBVIOUS
<1>2. PICK acc, out : acc = accepted' /\ out = stale' \cup outdated'
  OBVIOUS
<1>3. HoldsLeft(s, m, at, acc, out)
  BY <1>2 DEF HoldsLeft
<1>4. QED
  BY <1>1, <1>2, <1>3, StepOfLeft

LEMMA ProceedHolds ==
  ASSUME HoldInv, flow' = flow, NEW s \in Record(flow), NEW e, Proceed(s, e),
         HoldsFit(s, accepted', stale' \cup outdated'), HeldOf(s) \subseteq HeldBy(saved)
  PROVE  StepHolds
<1>1. PICK acc, out : acc = accepted' /\ out = stale' \cup outdated'
  OBVIOUS
<1>2. CASE s.pending # {}
  <2> DEFINE r == [s EXCEPT !.outcome = "needs_human"]
  <2>1. saved' = r /\ pc' = "idle"
    BY <1>2 DEF Proceed, Pause, Commit, Stops
  <2>2. /\ r.completed = s.completed /\ r.pending = s.pending /\ r.plan = s.plan
        /\ r.items = s.items /\ r.startAction = s.startAction /\ r.targets = s.targets
        /\ r.change = s.change /\ r \in Record(flow)
    BY DEF Record, Outcomes
  <2>6. r # NoCheckpoint /\ s # NoCheckpoint
    BY <2>2, RecordIsCheckpoint
  <2> HIDE DEF r
  <2>3. HoldsFit(r, acc, out) /\ HeldOf(r) = HeldOf(s)
    BY <1>1, <2>2, SameHeld
  <2>4. Follows(saved, r)
    BY <2>2, <2>3, <2>6 DEF Follows, HeldBy
  <2>5. PICK at : at = pc'
    OBVIOUS
  <2> QED
    BY <1>1, <2>1, <2>3, <2>4, <2>5, <2>6, RestHolds
<1>3. CASE s.pending = {}
  <2>1. saved' = s /\ pc' = IF s.startAction = "revise" THEN "plan" ELSE "prepare"
    BY <1>3 DEF Proceed, Commit
  <2>2. s # NoCheckpoint /\ Follows(saved, s)
    BY RecordIsCheckpoint DEF Follows, HeldBy
  <2>3. PICK at : at = pc'
    OBVIOUS
  <2> QED
    BY <1>1, <2>1, <2>2, <2>3, RestHolds
<1>4. QED
  BY <1>2, <1>3

-----------------------------------------------------------------------------
(* Results: decisions about results *)

\* A decision accepts results that wait for it, and withdraws what lies downstream of a key.
Withdraws(s, d, chosen, withdrawn) ==
    /\ Accepts(d, chosen) \subseteq PendingOf(s, "required") \cap FlowKeys(flow)
    /\ \/ withdrawn = {}
       \/ \E t : withdrawn = Downstream({t}) \cap GraphKeys(s, s.plan)
    /\ ~s.change.ready

LEMMA SettledHolds ==
  ASSUME flow \in Flows, HoldsOn(flow), NEW s \in Record(flow), NEW acc, NEW out,
         HoldsFit(s, acc, out), NEW d, NEW chosen, NEW withdrawn, Withdraws(s, d, chosen, withdrawn),
         NEW acc2, NEW out2, acc2 \subseteq (acc \ withdrawn) \cup Accepts(d, chosen),
         out \cup withdrawn \subseteq out2,
         Downstream(Redoes(d, chosen)) \cap GraphKeys(s, s.plan) \subseteq out2
  PROVE  LET r == Settled(s, d, chosen, withdrawn)
         IN  HoldsFit(r, acc2, out2) /\ HeldOf(r) \subseteq HeldOf(s)
<1> DEFINE keys == PendingKeys(chosen)
           accepts == Accepts(d, chosen)
           redoes == Redoes(d, chosen)
           pending == {p \in s.pending : p.key \notin keys \cup withdrawn}
           approved == s.plan.approved \/ Start \in accepts
           startApproved == IF Start \in accepts THEN TRUE
                            ELSE s.startApproved /\ ~(Start \in keys /\ d.verb = "revise")
           targets == {k \in s.targets \cup (redoes \ {Start}) :
                          k \in withdrawn => k \in keys}
           options == {k \in s.options \ withdrawn :
                          PendingKeys(pending) \cap Affected(s.plan, s.items, k) # {}}
           startAction == IF Start \in accepts THEN "accept"
                          ELSE IF Start \in keys THEN "revise" ELSE s.startAction
           plan == [s.plan EXCEPT !.approved = approved]
           completed == (s.completed \cup (accepts \ {Start})) \ withdrawn
           r == Settled(s, d, chosen, withdrawn)
           G == GraphKeys(s, s.plan)
           Y == ResultsOf(s)
           redone == Downstream(RedoneOf(s))
<1>1. r = [s EXCEPT !.startApproved = startApproved, !.startAction = startAction, !.plan = plan,
                    !.completed = completed, !.targets = targets, !.options = options,
                    !.pending = pending, !.lastDecision = d.id]
  BY DEF Settled, Record
<1>2. s.plan \in PlanOf(flow) /\ s.items \in Selections(flow) /\ approved \in BOOLEAN
  BY DEF Record, PlanOf
<1>3. Effective(flow, plan) = Effective(flow, s.plan)
  <2> HIDE DEF approved
  <2> QED
    BY <1>2, ApprovingPlan
<1>4. keys = accepts \cup redoes /\ accepts \cap redoes = {} /\ accepts \subseteq FlowKeys(flow)
      /\ accepts \subseteq PendingOf(s, "required") /\ ~s.change.ready
  BY DEF Redoes, Accepts, PendingKeys, Withdraws
<1>5. ASSUME NEW t
      PROVE  {p.key : p \in {q \in pending : q.trigger = t}} = PendingOf(s, t) \ (keys \cup withdrawn)
  BY DEF PendingOf
<1>6. /\ Whole(G) /\ G \subseteq FlowKeys(flow) /\ Start \in G /\ Start \in FlowKeys(flow)
  BY <1>2, GraphWhole DEF GraphKeys
<1>7. /\ Y \subseteq G /\ acc \ out \subseteq Y /\ (Y \ out) \cap redone = {}
      /\ s.startAction = "revise" => (acc \cup Y) \ {Start} \subseteq out
  BY DEF HoldsFit, ResultsFit
<1>8. /\ Start \in PendingOf(s, "required") => Start \in s.completed
      /\ PendingOf(s, "agent_requested") \cap Y \subseteq {Start}
      /\ Start \notin s.targets
  BY DEF HoldsFit, RequestsFit
<1>9. Whole(Y \ redone)
  BY DEF HoldsFit, HeldOf
<1> HIDE DEF keys, accepts, redoes, pending, approved, startApproved, targets, options, plan, completed, r, G
<1>10. /\ r.completed = completed /\ r.pending = pending /\ r.plan = plan /\ r.items = s.items
       /\ r.startAction = startAction /\ r.targets = targets /\ r.change = s.change
  BY <1>1 DEF Record
<1>11. GraphKeys(r, r.plan) = G
  BY <1>3, <1>10 DEF GraphKeys, G
<1>12. /\ PendingOf(r, "required") = PendingOf(s, "required") \ (keys \cup withdrawn)
       /\ PendingOf(r, "agent_requested") = PendingOf(s, "agent_requested") \ (keys \cup withdrawn)
  BY <1>5, <1>10 DEF PendingOf
<1> DEFINE Z == ResultsOf(r)
           again == Downstream(RedoneOf(r))
<1>13. Z = (completed \cup (PendingOf(s, "required") \ (keys \cup withdrawn))) \cap FlowKeys(flow)
       /\ Y = (s.completed \cup PendingOf(s, "required")) \cap FlowKeys(flow)
  BY <1>10, <1>12 DEF ResultsOf
<1>14. Z \subseteq Y \ withdrawn
  BY <1>4, <1>13 DEF completed
<1>15. Y \subseteq Z \cup withdrawn \cup (redoes \ {Start})
  <2> SUFFICES ASSUME NEW k \in Y, k \notin withdrawn, k \notin redoes \ {Start} PROVE k \in Z
    OBVIOUS
  <2>1. CASE k \in s.completed
    BY <1>13, <2>1 DEF completed
  <2>2. CASE k \notin s.completed
    <3>1. k \in PendingOf(s, "required") /\ k # Start
      BY <1>8, <1>13, <2>2
    <3> QED
      BY <1>4, <1>13, <3>1 DEF completed
  <2> QED
    BY <2>1, <2>2
<1>16. RedoneOf(r) = (targets \cup (PendingOf(s, "agent_requested") \ (keys \cup withdrawn))) \ {Start}
  BY <1>10, <1>12 DEF RedoneOf
<1>17. again \subseteq redone \cup Downstream(redoes \ {Start})
  <2>1. RedoneOf(r) \subseteq RedoneOf(s) \cup (redoes \ {Start})
    BY <1>16 DEF targets, RedoneOf
  <2>2. Downstream(RedoneOf(r)) \subseteq Downstream(RedoneOf(s) \cup (redoes \ {Start}))
    BY <2>1, DownstreamOfBoth
  <2> QED
    BY <2>2, DownstreamOfBoth
<1>18. PICK down : /\ down \cap G = withdrawn
                   /\ redone \cup Downstream(redoes \ {Start}) \subseteq again \cup down
                   /\ \A keep \in SUBSET G : Whole(keep) => Whole(keep \ withdrawn)
  <2>0. accepts \subseteq Y
    BY <1>4, <1>13
  <2>1. CASE withdrawn = {}
    <3>1. RedoneOf(s) \cup (redoes \ {Start}) \subseteq RedoneOf(r)
      BY <1>4, <1>8, <1>16, <2>0, <2>1 DEF targets, RedoneOf
    <3>2. redone \cup Downstream(redoes \ {Start}) \subseteq again \cup {}
      BY <3>1, DownstreamOfBoth
    <3>3. ASSUME NEW keep \in SUBSET G, Whole(keep) PROVE Whole(keep \ withdrawn)
      <4>1. keep \ withdrawn = keep
        BY <2>1
      <4> QED
        BY <3>3, <4>1
    <3> QED
      BY <2>1, <3>2, <3>3
  <2>2. CASE \E t : withdrawn = Downstream({t}) \cap G
    <3>1. PICK t : withdrawn = Downstream({t}) \cap G
      BY <2>2
    <3>2. (RedoneOf(s) \cup (redoes \ {Start})) \cap FlowKeys(flow)
              \subseteq RedoneOf(r) \cup Downstream({t})
      BY <1>4, <1>8, <1>16, <2>0, <3>1 DEF targets, RedoneOf
    <3>3. (RedoneOf(s) \cup (redoes \ {Start})) \cap FlowKeys(flow)
              \subseteq Downstream(RedoneOf(r) \cup {t})
      <4>1. /\ Downstream(RedoneOf(r) \cup {t}) = again \cup Downstream({t})
            /\ RedoneOf(r) \cap FlowKeys(flow) \subseteq again
        BY DownstreamKeys, DownstreamOfBoth
      <4> QED
        BY <3>2, <4>1
    <3>4. Downstream(RedoneOf(s) \cup (redoes \ {Start})) \subseteq Downstream(RedoneOf(r) \cup {t})
      <4>1. ASSUME NEW a, NEW b, a \cap FlowKeys(flow) \subseteq Downstream(b)
            PROVE  Downstream(a) \subseteq Downstream(b)
        BY <4>1, DownstreamOfMore
      <4>2. PICK a : a = RedoneOf(s) \cup (redoes \ {Start})
        OBVIOUS
      <4>3. PICK b : b = RedoneOf(r) \cup {t}
        OBVIOUS
      <4>4. Downstream(a) \subseteq Downstream(b)
        <5>1. a \cap FlowKeys(flow) \subseteq Downstream(b)
          BY <3>3, <4>2, <4>3
        <5> QED
          BY <4>1, <5>1
      <4> QED
        BY <4>2, <4>3, <4>4
    <3>5. redone \cup Downstream(redoes \ {Start}) \subseteq again \cup Downstream({t})
      BY <3>4, DownstreamOfBoth
    <3>6. ASSUME NEW keep \in SUBSET G, Whole(keep) PROVE Whole(keep \ withdrawn)
      <4>1. keep \ withdrawn = keep \ Downstream({t})
        BY <3>1, <3>6
      <4> QED
        BY <1>6, <3>6, <4>1, WholeLess
    <3> QED
      BY <3>1, <3>5, <3>6
  <2> QED
    BY <2>1, <2>2 DEF Withdraws, G
<1>19. HeldOf(r) = ((Y \ redone) \ withdrawn) \ Downstream(redoes \ {Start})
  <2>1. (redoes \ {Start}) \cap FlowKeys(flow) \subseteq Downstream(redoes \ {Start})
    BY DownstreamKeys
  <2>2. Y \subseteq FlowKeys(flow)
    BY <1>6, <1>7
  <2>3. HeldOf(r) = Z \ again
    BY DEF HeldOf
  <2>4. (Z \ again) \subseteq ((Y \ redone) \ withdrawn) \ Downstream(redoes \ {Start})
    BY <1>7, <1>14, <1>18 DEF G
  <2>5. ((Y \ redone) \ withdrawn) \ Downstream(redoes \ {Start}) \subseteq Z \ again
    BY <1>15, <1>17, <2>1, <2>2
  <2> QED
    BY <2>3, <2>4, <2>5
<1>20. Whole(HeldOf(r))
  <2>1. Y \ redone \subseteq G
    BY <1>7 DEF G
  <2>2. Whole((Y \ redone) \ withdrawn)
    BY <1>9, <1>18, <2>1
  <2> QED
    BY <1>6, <1>19, <2>1, <2>2, WholeLess
<1>21. Downstream(redoes \ {Start}) \subseteq Downstream(redoes)
       /\ Downstream(redoes) \cap G \subseteq out2 /\ redoes \cap G \subseteq out2
  <2>1. redoes \cap FlowKeys(flow) \subseteq Downstream(redoes)
    BY DownstreamKeys
  <2>2. Downstream(redoes) \cap G \subseteq out2
    BY DEF redoes, G
  <2> QED
    BY <1>6, <2>1, <2>2, DownstreamOfBoth
<1>22. acc2 \ out2 \subseteq Y
  BY <1>4, <1>7, <1>13 DEF accepts
<1>23. ResultsFit(r, acc2, out2)
  <2>1. Z \subseteq G
    BY <1>7, <1>14 DEF G
  <2>2. acc2 \ out2 \subseteq Z
    BY <1>7, <1>15, <1>21, <1>22 DEF G
  <2>3. (Z \ out2) \cap again = {}
    BY <1>7, <1>14, <1>17, <1>21 DEF G
  <2>4. startAction = "revise" => (acc2 \cup Z) \ {Start} \subseteq out2
    <3>1. CASE Start \in redoes
      <4>1. G \subseteq out2
        BY <1>6, <1>21, <3>1, DownstreamKeys
      <4> QED
        BY <1>7, <1>22, <2>1, <4>1 DEF G
    <3>2. CASE Start \notin redoes
      <4> SUFFICES ASSUME s.startAction = "revise" PROVE (acc2 \cup Z) \ {Start} \subseteq out2
        BY <1>4, <3>2 DEF startAction
      <4> QED
        BY <1>7, <1>14, <1>4, <1>13 DEF accepts
    <3> QED
      BY <3>1, <3>2
  <2> QED
    BY <1>10, <1>11, <2>1, <2>2, <2>3, <2>4 DEF ResultsFit
<1>24. RequestsFit(r)
  <2>1. Start \in PendingOf(r, "required") => Start \in completed
    BY <1>8, <1>12 DEF completed
  <2>2. PendingOf(r, "agent_requested") \cap Z \subseteq {Start}
    BY <1>8, <1>12, <1>14
  <2>3. Start \notin targets
    BY <1>8 DEF targets
  <2> QED
    BY <1>4, <1>10, <2>1, <2>2, <2>3 DEF RequestsFit
<1>25. HeldOf(r) \subseteq HeldOf(s)
  BY <1>19 DEF HeldOf
<1>26. QED
  BY <1>20, <1>23, <1>24, <1>25 DEF HoldsFit, r

LEMMA HoldOfCheckpoint ==
  ASSUME IInv, HoldInv, HasCheckpoint
  PROVE  /\ HoldsFit(saved, accepted, stale \cup outdated) /\ HeldBy(saved) = HeldOf(saved)
         /\ saved \in Record(flow) /\ flow \in Flows /\ HoldsOn(flow)
         /\ saved.plan \in PlanOf(flow) /\ saved.items \in Selections(flow)
         /\ saved.pending \in SUBSET ApprovalOf(flow)
         /\ saved.completed \subseteq FlowKeys(flow)
<1>1. saved \in Record(flow) /\ flow \in Flows
  BY CheckpointOf
<1>2. QED
  BY <1>1 DEF HoldInv, HoldsLeft, HasCheckpoint, HeldBy, Record

\* What sending keys back reaches, of the results of a graph.
LEMMA SentBackReaches ==
  ASSUME flow \in Flows, HoldsOn(flow), NEW q \in PlanOf(flow), NEW items \in Selections(flow),
         NEW keys
  PROVE  LET G == KeysOf(Effective(flow, q), items)
         IN  Downstream(keys) \cap G
                \subseteq SentBack(q, items, keys \cap G) \cup Outdated(q, items, keys \cap G)
<1> DEFINE G == KeysOf(Effective(flow, q), items)
<1>1. Whole(G) /\ G \subseteq FlowKeys(flow)
  BY GraphWhole
<1> HIDE DEF G
<1>2. Downstream(keys \ G) \cap G = {}
  BY <1>1, NotDownstream
<1>3. Downstream(keys) \cap G \subseteq Downstream(keys \cap G)
  BY <1>2 DEF Downstream
<1>4. RestartedBy(q, items, keys \cap G) = Downstream(keys \cap G) \cap G
  BY RestartedIsDownstream DEF G
<1>5. RestartedBy(q, items, keys \cap G)
         = SentBack(q, items, keys \cap G) \cup Outdated(q, items, keys \cap G)
  BY DEF RestartedBy, SentBack, Outdated
<1>6. QED
  BY <1>3, <1>4, <1>5 DEF G

LEMMA DecideHolds ==
  ASSUME HoldInv, flow \in Flows, flow' = flow, NEW s \in Record(flow),
         HoldsFit(s, accepted, stale \cup outdated), HeldOf(s) \subseteq HeldBy(saved),
         NEW d, NEW chosen, NEW withdrawn, Withdraws(s, d, chosen, withdrawn),
         Settled(s, d, chosen, withdrawn) \in Record(flow),
         Decide(s, d, chosen, withdrawn)
  PROVE  StepHolds
<1> DEFINE r == Settled(s, d, chosen, withdrawn)
           redoes == Redoes(d, chosen)
           G == GraphKeys(s, s.plan)
           e == DecisionEffects(d, PendingKeys(chosen), withdrawn)
<1>1. /\ Proceed(r, e)
      /\ accepted' = (accepted \ withdrawn) \cup (Accepts(d, chosen) \cap TaskKeys)
      /\ stale' = stale \cup withdrawn \cup SentBack(s.plan, s.items, redoes \cap G)
      /\ outdated' = outdated \cup (Outdated(s.plan, s.items, redoes \cap G) \ withdrawn)
  BY DEF Decide
<1>2. s.plan \in PlanOf(flow) /\ s.items \in Selections(flow) /\ HoldsOn(flow)
  BY DEF Record, HoldInv
<1>3. Downstream(redoes) \cap G \subseteq SentBack(s.plan, s.items, redoes \cap G)
                                              \cup Outdated(s.plan, s.items, redoes \cap G)
  BY <1>2, SentBackReaches DEF GraphKeys
<1>4. PICK acc2, out2 : acc2 = accepted' /\ out2 = stale' \cup outdated'
  OBVIOUS
<1>5. PICK acc, out : acc = accepted /\ out = stale \cup outdated
  OBVIOUS
<1>6. /\ acc2 \subseteq (acc \ withdrawn) \cup Accepts(d, chosen)
      /\ out \cup withdrawn \subseteq out2
      /\ Downstream(redoes) \cap G \subseteq out2
  BY <1>1, <1>3, <1>4, <1>5
<1>7. HoldsFit(r, acc2, out2) /\ HeldOf(r) \subseteq HeldOf(s)
  <2>1. HoldsFit(s, acc, out)
    BY <1>5
  <2> HIDE DEF r
  <2> QED
    BY <1>2, <1>6, <2>1, SettledHolds DEF r
<1>8. HeldOf(r) \subseteq HeldBy(saved)
  BY <1>7
<1> HIDE DEF r, e
<1>9. QED
  BY <1>1, <1>4, <1>7, <1>8, ProceedHolds DEF r

LEMMA StaysHolds ==
  ASSUME HoldInv, flow' = flow, UNCHANGED history, NEW s, ReturnLastResult(s) \/ Refuse
  PROVE  StepHolds
<1>1. saved' = saved /\ pc' \in {"idle", "finish"}
  BY DEF ReturnLastResult, Refuse, StopPaused, Stops, rows
<1>2. QED
  BY <1>1, HoldStays

\* Which results a decision accepts, and what it withdraws.
LEMMA ChosenWithdraws ==
  ASSUME NEW s \in Record(flow), NEW d, ~s.change.ready, Accepts(d, Chosen(s, d)) \subseteq FlowKeys(flow)
  PROVE  Withdraws(s, d, Chosen(s, d), {})
<1>1. s.pending \in SUBSET ApprovalOf(flow)
  BY DEF Record
<1>2. ASSUME NEW k \in Accepts(d, Chosen(s, d)) PROVE k \in PendingOf(s, "required")
  <2>1. Required(k) \in s.pending
    BY <1>1, AcceptsRequired
  <2> QED
    BY <2>1 DEF Required, Approval, PendingOf
<1>3. QED
  BY <1>2 DEF Withdraws

-----------------------------------------------------------------------------
(* Results: decisions about a plan *)

\* What a plan in force leaves of the results: those of its graph.
Installs(s, i, G) ==
    /\ ResultsOf(i) = ResultsOf(s) \cap G
    /\ Start \in PendingOf(i, "required") => Start \in i.completed
    /\ PendingOf(i, "agent_requested") \subseteq PendingOf(s, "agent_requested")
    /\ i.targets \subseteq s.targets
    /\ Downstream(RedoneOf(i)) \cap G = Downstream(RedoneOf(s)) \cap G

LEMMA WholeBoth ==
  ASSUME NEW keys, NEW more, Whole(keys), Whole(more)
  PROVE  Whole(keys \cap more)
  BY DEF Whole

LEMMA InstallHolds ==
  ASSUME flow \in Flows, HoldsOn(flow), NEW s \in Record(flow), NEW acc, NEW out,
         HoldsFit(s, acc, out), NEW plan, Installed(flow, plan)
  PROVE  LET i == InstallPlan(s, plan)
         IN  /\ i \in Record(flow) /\ i.plan = plan /\ i.items = s.items
             /\ i.startAction = s.startAction /\ i.change = s.change
             /\ Installs(s, i, KeysOf(Effective(flow, plan), s.items))
<1> DEFINE i == InstallPlan(s, plan)
           tasks == Effective(flow, plan).tasks
           new == NewlyGated(s, plan)
           completed == {k \in s.completed : k[1] \in tasks} \ new
           pending == {p \in s.pending : p.key[1] \in tasks} \cup {Required(k) : k \in new}
           targets == {k \in s.targets : k[1] \in tasks}
           G == KeysOf(Effective(flow, plan), s.items)
<1>1. plan \in PlanOf(flow) /\ s.plan \in PlanOf(flow) /\ s.items \in Selections(flow)
  BY DEF Installed, PlanOf, Record
<1>2. i = [s EXCEPT !.completed = completed, !.pending = pending, !.targets = targets, !.plan = plan]
  BY DEF InstallPlan, Record
<1>3. i \in Record(flow)
  BY InstallFits
<1>4. ASSUME NEW t \in {"required", "agent_requested"}
      PROVE  {p.key : p \in {q \in pending : q.trigger = t}}
                = {k \in PendingOf(s, t) : k[1] \in tasks} \cup (IF t = "required" THEN new ELSE {})
  <2>1. \A k : Required(k).key = k /\ Required(k).trigger = "required"
    BY DEF Required, Approval
  <2> QED
    BY <2>1 DEF PendingOf
<1> HIDE DEF completed, pending, targets, i, new
<1>5. /\ i.completed = completed /\ i.pending = pending /\ i.targets = targets /\ i.plan = plan
      /\ i.items = s.items /\ i.startAction = s.startAction /\ i.change = s.change
  BY <1>2 DEF Record
<1>6. PendingOf(i, "required") = {k \in PendingOf(s, "required") : k[1] \in tasks} \cup new
      /\ PendingOf(i, "agent_requested") = {k \in PendingOf(s, "agent_requested") : k[1] \in tasks}
  <2>1. ASSUME NEW t PROVE PendingOf(i, t) = {p.key : p \in {q \in pending : q.trigger = t}}
    BY <1>5 DEF PendingOf
  <2> QED
    BY <1>4, <2>1
<1>7. new \subseteq s.completed \ {Start} /\ \A k \in new : k[1] \in tasks
  BY DEF NewlyGated, new
<1>8. /\ ResultsOf(s) \subseteq KeysOf(Effective(flow, s.plan), s.items)
      /\ Start \in PendingOf(s, "required") => Start \in s.completed
  BY DEF HoldsFit, ResultsFit, RequestsFit, GraphKeys
<1>9. \A k \in ResultsOf(s) : k[1] \in tasks <=> k \in G
  <2>1. \A k \in G : k[1] \in tasks
    BY DEF KeysOf
  <2> QED
    BY <1>1, <1>8, <2>1, KeysFilter
<1>10. Whole(G) /\ G \subseteq FlowKeys(flow) /\ Start \in G /\ Start[1] \in tasks
  BY <1>1, GraphWhole DEF KeysOf
<1>11. ResultsOf(i) = ResultsOf(s) \cap G
  <2>1. ResultsOf(i) = (completed \cup {k \in PendingOf(s, "required") : k[1] \in tasks} \cup new)
                          \cap FlowKeys(flow)
    BY <1>5, <1>6 DEF ResultsOf
  <2>2. ResultsOf(i) = {k \in ResultsOf(s) : k[1] \in tasks}
    BY <1>7, <2>1 DEF ResultsOf, completed
  <2> HIDE DEF G
  <2> QED
    BY <1>9, <2>2
<1>12. Start \in PendingOf(i, "required") => Start \in i.completed
  BY <1>5, <1>6, <1>7, <1>8, <1>10 DEF completed
<1>13. Downstream(RedoneOf(i)) \cap G = Downstream(RedoneOf(s)) \cap G
  <2>1. RedoneOf(i) = {k \in RedoneOf(s) : k[1] \in tasks}
    BY <1>5, <1>6 DEF RedoneOf, targets
  <2>2. \A k \in G : k[1] \in tasks
    BY DEF KeysOf
  <2> HIDE DEF G, tasks
  <2>3. Downstream(RedoneOf(s) \ RedoneOf(i)) \cap G = {}
    BY <1>10, <2>1, <2>2, NotDownstream
  <2>4. PICK a, b : a = RedoneOf(i) /\ b = RedoneOf(s)
    OBVIOUS
  <2>5. Downstream(b) = Downstream(a) \cup Downstream(b \ a)
    BY <2>1, <2>4 DEF Downstream
  <2> QED
    BY <2>3, <2>4, <2>5
<1>14. i.targets \subseteq s.targets
  BY <1>5 DEF targets
<1>15. QED
  BY <1>3, <1>5, <1>6, <1>11, <1>12, <1>13, <1>14 DEF i, Installs

\* Every result that exists is of the graph of a plan, or it is work that the plan excludes.
LEMMA ExcludedResults ==
  ASSUME flow \in Flows, NEW s \in Record(flow), ResultsKnown(s), NEW acc, NEW out,
         HoldsFit(s, acc, out), NEW plan \in PlanOf(flow)
  PROVE  LET G == KeysOf(Effective(flow, plan), s.items)
         IN  /\ ResultsOf(s) \subseteq G \cup ExcludedWork(plan)
             /\ ExcludedWork(plan) \cap G = {}
<1>1. ResultsOf(s) \subseteq KeysOf(Effective(flow, s.plan), s.items) /\ s.plan \in PlanOf(flow)
  BY DEF HoldsFit, ResultsFit, GraphKeys, Record
<1>2. ResultsOf(s) \subseteq Known
  BY DEF ResultsKnown, ResultsOf, PendingOf, PendingKeys
<1>3. Start[1] \in Effective(flow, plan).tasks
  BY PlanTasks DEF Start, StartKey
<1>4. \A k \in ResultsOf(s) \ ExcludedWork(plan) : k[1] \in Effective(flow, plan).tasks
  BY <1>2, <1>3 DEF Known, ExcludedWork
<1>5. \A k \in ResultsOf(s) \ ExcludedWork(plan) : k \in KeysOf(Effective(flow, plan), s.items)
  BY <1>1, <1>4, KeysFilter
<1>6. ExcludedWork(plan) \cap KeysOf(Effective(flow, plan), s.items) = {}
  BY DEF ExcludedWork, KeysOf
<1>7. QED
  BY <1>5, <1>6

LEMMA RevisePlanHolds ==
  ASSUME flow \in Flows, HoldsOn(flow), flow.planned, NEW s \in Record(flow), ResultsKnown(s),
         NEW acc, NEW out, HoldsFit(s, acc, out), ~s.change.ready,
         NEW d, NEW p \in flow.proposals, Resolvable(flow, p)
  PROVE  LET r == RevisePlan(s, d, p)
         IN  HoldsFit(r, acc \ ExcludedWork(Plan(p, FALSE)), out) /\ HeldOf(r) \subseteq HeldOf(s)
<1> DEFINE plan == Plan(p, FALSE)
           i == InstallPlan(s, plan)
           G == KeysOf(Effective(flow, plan), s.items)
           pending == i.pending \cup {Required(PlanKey)}
           r == RevisePlan(s, d, p)
           acc2 == acc \ ExcludedWork(plan)
<1>1. Installed(flow, plan) /\ plan \in PlanOf(flow)
  BY ProposalsAssumption DEF Installed, PlanOf, Plan, Resolvable
<1>2. /\ i \in Record(flow) /\ i.plan = plan /\ i.items = s.items
      /\ i.startAction = s.startAction /\ i.change = s.change /\ Installs(s, i, G)
  BY <1>1, InstallHolds
<1>3. r = [i EXCEPT !.pending = pending, !.lastDecision = d.id]
  BY <1>2 DEF RevisePlan, Record
<1>4. /\ Start # PlanKey /\ PlanKey \notin FlowKeys(flow) /\ s.items \in Selections(flow)
  BY ReservedKeys, StartTyped DEF Record
<1>5. ResultsOf(s) \subseteq G \cup ExcludedWork(plan)
  BY <1>1, ExcludedResults
<1>6. Whole(G)
  BY <1>1, <1>4, GraphWhole
<1>7. ASSUME NEW t \in {"required", "agent_requested"}
      PROVE  {q.key : q \in {x \in pending : x.trigger = t}}
                = PendingOf(i, t) \cup (IF t = "required" THEN {PlanKey} ELSE {})
  <2>1. Required(PlanKey).key = PlanKey /\ Required(PlanKey).trigger = "required"
    BY DEF Required, Approval
  <2> HIDE DEF i
  <2> QED
    BY <2>1 DEF PendingOf
<1> HIDE DEF plan, i, pending, r, G, acc2
<1>8. /\ r.completed = i.completed /\ r.pending = pending /\ r.plan = plan /\ r.items = s.items
      /\ r.startAction = s.startAction /\ r.targets = i.targets /\ r.change = s.change
  BY <1>2, <1>3 DEF Record
<1>9. PendingOf(r, "required") = PendingOf(i, "required") \cup {PlanKey}
      /\ PendingOf(r, "agent_requested") = PendingOf(i, "agent_requested")
  BY <1>7, <1>8 DEF PendingOf
<1>10. ResultsOf(r) = ResultsOf(s) \cap G /\ RedoneOf(r) = RedoneOf(i)
  <2>1. ResultsOf(r) = ResultsOf(i)
    BY <1>4, <1>8, <1>9 DEF ResultsOf
  <2> QED
    BY <1>2, <1>8, <1>9, <2>1 DEF RedoneOf, Installs
<1>11. Downstream(RedoneOf(r)) \cap G = Downstream(RedoneOf(s)) \cap G
  BY <1>2, <1>10 DEF Installs
<1>12. HeldOf(r) = HeldOf(s) \cap G
  BY <1>10, <1>11 DEF HeldOf
<1>13. GraphKeys(r, r.plan) = G
  BY <1>8 DEF GraphKeys, G
<1>14. /\ acc \ out \subseteq ResultsOf(s) /\ (ResultsOf(s) \ out) \cap Downstream(RedoneOf(s)) = {}
       /\ s.startAction = "revise" => (acc \cup ResultsOf(s)) \ {Start} \subseteq out
       /\ PendingOf(s, "agent_requested") \cap ResultsOf(s) \subseteq {Start} /\ Start \notin s.targets
  BY DEF HoldsFit, ResultsFit, RequestsFit
<1>15. ResultsFit(r, acc2, out)
  <2>1. acc2 \ out \subseteq ResultsOf(r)
    BY <1>5, <1>10, <1>14 DEF acc2
  <2>2. (ResultsOf(r) \ out) \cap Downstream(RedoneOf(r)) = {}
    BY <1>10, <1>11, <1>14
  <2>3. r.startAction = "revise" => (acc2 \cup ResultsOf(r)) \ {Start} \subseteq out
    BY <1>8, <1>10, <1>14 DEF acc2
  <2> QED
    BY <1>10, <1>13, <2>1, <2>2, <2>3 DEF ResultsFit
<1>16. RequestsFit(r)
  <2>1. Start \in PendingOf(r, "required") => Start \in r.completed
    BY <1>2, <1>4, <1>8, <1>9 DEF Installs
  <2>2. PendingOf(r, "agent_requested") \cap ResultsOf(r) \subseteq {Start}
    BY <1>2, <1>9, <1>10, <1>14 DEF Installs
  <2>3. Start \notin r.targets
    BY <1>2, <1>8, <1>14 DEF Installs
  <2> QED
    BY <1>8, <2>1, <2>2, <2>3 DEF RequestsFit
<1>17. Whole(HeldOf(r))
  BY <1>6, <1>12, WholeBoth DEF HoldsFit
<1>18. QED
  BY <1>12, <1>15, <1>16, <1>17 DEF HoldsFit, r, acc2, plan

LEMMA AcceptPlanHolds ==
  ASSUME flow \in Flows, HoldsOn(flow), flow.planned, NEW s \in Record(flow),
         NEW acc, NEW out, HoldsFit(s, acc, out), NEW d
  PROVE  LET r == AcceptPlan(s, d)
         IN  HoldsFit(r, acc, out) /\ HeldOf(r) = HeldOf(s)
<1> DEFINE plan == [s.plan EXCEPT !.approved = TRUE]
           pending == {p \in s.pending : p.key # PlanKey}
           r == AcceptPlan(s, d)
<1>1. r = [s EXCEPT !.plan = plan, !.lastDecision = d.id, !.pending = pending]
  BY DEF AcceptPlan, Record
<1>2. s.plan \in PlanOf(flow)
  BY DEF Record
<1>3. Effective(flow, plan) = Effective(flow, s.plan) /\ plan.present = s.plan.present
  BY <1>2, ApprovingPlan
<1>4. PlanKey \notin FlowKeys(flow) /\ Start # PlanKey
  BY ReservedKeys, StartTyped
<1>5. ASSUME NEW t
      PROVE  {q.key : q \in {x \in pending : x.trigger = t}} = PendingOf(s, t) \ {PlanKey}
  BY DEF PendingOf
<1> HIDE DEF plan, pending, r
<1>6. /\ r.completed = s.completed /\ r.pending = pending /\ r.plan = plan /\ r.items = s.items
      /\ r.startAction = s.startAction /\ r.targets = s.targets /\ r.change = s.change
  BY <1>1 DEF Record
<1>7. GraphKeys(r, r.plan) = GraphKeys(s, s.plan)
      /\ GraphKeys(r, ProposedPlan(r)) = GraphKeys(s, ProposedPlan(s))
  BY <1>3, <1>6 DEF GraphKeys, ProposedPlan
<1>8. \A t : PendingOf(r, t) = PendingOf(s, t) \ {PlanKey}
  BY <1>5, <1>6 DEF PendingOf
<1>9. ResultsOf(r) = ResultsOf(s)
  BY <1>4, <1>6, <1>8 DEF ResultsOf
<1>10. Downstream(RedoneOf(r)) = Downstream(RedoneOf(s))
  <2>1. RedoneOf(r) \cap FlowKeys(flow) = RedoneOf(s) \cap FlowKeys(flow)
    BY <1>4, <1>6, <1>8 DEF RedoneOf
  <2>2. PICK a, b : a = RedoneOf(r) /\ b = RedoneOf(s)
    OBVIOUS
  <2>3. Downstream(a) = Downstream(b)
    BY <2>1, <2>2 DEF Downstream
  <2> QED
    BY <2>2, <2>3
<1>11. HeldOf(r) = HeldOf(s)
  BY <1>9, <1>10 DEF HeldOf
<1>12. ResultsFit(r, acc, out)
  BY <1>6, <1>7, <1>9, <1>10 DEF HoldsFit, ResultsFit
<1>13. RequestsFit(r)
  BY <1>4, <1>6, <1>7, <1>8, <1>9 DEF HoldsFit, RequestsFit
<1>14. QED
  BY <1>11, <1>12, <1>13 DEF HoldsFit, r

-----------------------------------------------------------------------------
(* Results: change requests *)

LEMMA PauseHolds ==
  ASSUME HoldInv, flow' = flow, NEW record, record # NoCheckpoint, NEW e, Pause(record, e),
         HoldsFit(record, accepted', stale' \cup outdated'), HeldOf(record) \subseteq HeldBy(saved) \cup {Start}
  PROVE  StepHolds
<1>1. saved' = record /\ pc' = "idle"
  BY DEF Pause, Commit, Stops
<1>2. Follows(saved, record)
  BY DEF Follows, HeldBy
<1>3. PICK at : at = pc'
  OBVIOUS
<1>4. QED
  BY <1>1, <1>2, <1>3, RestHolds

\* What a change undoes lies downstream of what it sends back and of what is redone.
ChangeReaches(s, change) ==
    LET plan == IF change.plan.present THEN change.plan ELSE s.plan
    IN  change.ready =>
          /\ flow.intake /\ change.open
          /\ change.affected = Downstream(change.revisions \cup s.targets) \cap GraphKeys(s, plan)

LEMMA ReconsideredHolds ==
  ASSUME flow \in Flows, flow.intake, NEW s \in Record(flow), NEW acc, NEW out,
         HoldsFit(s, acc, out), NEW d, NEW change, ChangeReaches(s, change), NEW outcome
  PROVE  LET r == Reconsidered(s, d, change, outcome)
         IN  HoldsFit(r, acc, out) /\ HeldOf(r) = HeldOf(s) /\ r # NoCheckpoint
<1> DEFINE pending == {p \in s.pending : p.key[1] # "change"}
                         \cup (IF change.ready THEN {Required(ChangeKey(s.sequence + 1))} ELSE {})
           attempt == s.attempt + 1
           sequence == s.sequence + 1
           r == Reconsidered(s, d, change, outcome)
<1>1. r = [s EXCEPT !.attempt = attempt, !.sequence = sequence, !.lastDecision = d.id,
                    !.change = change, !.outcome = outcome, !.pending = pending]
  BY DEF Reconsidered, Record
<1>2. \A k \in FlowKeys(flow) : k[1] # "change"
  BY ReservedKeys
<1>3. \A p \in pending : p \in s.pending \/ p.key[1] = "change"
  BY DEF Required, Approval, ChangeKey
<1>4. \A p \in s.pending : p.key \in FlowKeys(flow) => p \in pending
  BY <1>2
<1> HIDE DEF pending, attempt, sequence, r
<1>5. /\ r.completed = s.completed /\ r.pending = pending /\ r.plan = s.plan /\ r.items = s.items
      /\ r.startAction = s.startAction /\ r.targets = s.targets /\ r.change = change
  BY <1>1 DEF Record
<1>6. r # NoCheckpoint
  <2>1. "outcome" \in DOMAIN r /\ "outcome" \notin DOMAIN NoCheckpoint
    BY <1>1 DEF Record, NoCheckpoint
  <2> QED
    BY <2>1
<1>7. \A t : PendingOf(r, t) \cap FlowKeys(flow) = PendingOf(s, t) \cap FlowKeys(flow)
  BY <1>2, <1>3, <1>4, <1>5 DEF PendingOf
<1>8. ResultsOf(r) = ResultsOf(s)
  BY <1>5, <1>7 DEF ResultsOf
<1>9. Downstream(RedoneOf(r)) = Downstream(RedoneOf(s))
  <2>1. RedoneOf(r) \cap FlowKeys(flow) = RedoneOf(s) \cap FlowKeys(flow)
    BY <1>5, <1>7 DEF RedoneOf
  <2>2. PICK a, b : a = RedoneOf(r) /\ b = RedoneOf(s)
    OBVIOUS
  <2>3. Downstream(a) = Downstream(b)
    BY <2>1, <2>2 DEF Downstream
  <2> QED
    BY <2>2, <2>3
<1>10. HeldOf(r) = HeldOf(s)
  BY <1>8, <1>9 DEF HeldOf
<1>11. \A q : GraphKeys(r, q) = GraphKeys(s, q)
  BY <1>5 DEF GraphKeys
<1>12. ResultsFit(r, acc, out)
  BY <1>5, <1>8, <1>9, <1>11 DEF HoldsFit, ResultsFit
<1>13. RequestsFit(r)
  <2>1. Start \in FlowKeys(flow) /\ ResultsOf(s) \subseteq FlowKeys(flow)
    BY StartTyped DEF ResultsOf
  <2>2. Start \in PendingOf(r, "required") => Start \in r.completed
    BY <1>5, <1>7, <2>1 DEF HoldsFit, RequestsFit
  <2>3. PendingOf(r, "agent_requested") \cap ResultsOf(r) \subseteq {Start} /\ Start \notin r.targets
    BY <1>5, <1>7, <1>8, <2>1 DEF HoldsFit, RequestsFit
  <2> QED
    BY <1>5, <1>11, <2>2, <2>3 DEF RequestsFit, ChangeReaches, ProposedPlan
<1>14. QED
  BY <1>6, <1>10, <1>12, <1>13 DEF HoldsFit, r

LEMMA ProposeHolds ==
  ASSUME IInv, HoldInv, HasCheckpoint, flow' = flow, flow.intake, NEW d,
         ProposeChange(saved, d), UNCHANGED history
  PROVE  StepHolds
<1> DEFINE e == [NoEffects EXCEPT !.superseded =
                     IF saved.change.open THEN {ChangeKey(saved.sequence)} ELSE {}]
           unready == [NoChange EXCEPT !.open = TRUE]
<1>1. /\ HoldsFit(saved, accepted, stale \cup outdated) /\ HeldBy(saved) = HeldOf(saved)
      /\ saved \in Record(flow) /\ flow \in Flows /\ HoldsOn(flow)
      /\ saved.plan \in PlanOf(flow) /\ saved.items \in Selections(flow)
  BY HoldOfCheckpoint
<1>2. ChangeReaches(saved, unready)
  BY DEF ChangeReaches, NoChange
<1>3. ASSUME NEW change, ChangeReaches(saved, change), NEW outcome,
             Pause(Reconsidered(saved, d, change, outcome), e)
      PROVE  StepHolds
  <2> HIDE DEF e
  <2>1. PICK acc, out : acc = accepted' /\ out = stale' \cup outdated'
    OBVIOUS
  <2>2. HoldsFit(saved, acc, out)
    BY <1>1, <2>1 DEF history
  <2>3. PICK r : r = Reconsidered(saved, d, change, outcome)
    OBVIOUS
  <2>4. HoldsFit(r, acc, out) /\ HeldOf(r) = HeldOf(saved) /\ r # NoCheckpoint
    BY <1>1, <1>3, <2>2, <2>3, ReconsideredHolds
  <2> QED
    BY <1>1, <1>3, <2>1, <2>3, <2>4, PauseHolds
<1>4. ASSUME NEW c \in flow.changes, ValidChange(saved, c),
             Pause(Reconsidered(saved, d, [open |-> TRUE, ready |-> TRUE,
                           plan |-> IF c.settings = {} THEN NoPlan ELSE ChangedPlan(saved, c),
                           affected |-> ChangeScope(saved, c),
                           revisions |-> c.revisions], "needs_human"), e)
      PROVE  StepHolds
  <2> DEFINE q == ChangedPlan(saved, c)
             G == GraphKeys(saved, q)
             change == [open |-> TRUE, ready |-> TRUE,
                        plan |-> IF c.settings = {} THEN NoPlan ELSE ChangedPlan(saved, c),
                        affected |-> ChangeScope(saved, c), revisions |-> c.revisions]
  <2>1. /\ q \in PlanOf(flow) /\ (c.settings = {} => q = saved.plan)
        /\ (c.settings # {} => q.present)
    <3>1. CASE c.settings = {}
      BY <1>1, <3>1 DEF ChangedPlan
    <3>2. CASE c.settings # {}
      <4>1. PICK p : p = CHOOSE r \in c.settings : TRUE
        OBVIOUS
      <4>2. p \in c.settings
        BY <3>2, <4>1
      <4>3. p \in flow.proposals /\ Resolvable(flow, p)
        BY <1>1, <1>4, <4>2, ProposalsAssumption DEF ValidChange
      <4>4. Plan(p, TRUE) \in PlanOf(flow) /\ Plan(p, TRUE).present
        BY <1>1, <4>3, ProposalsAssumption DEF Installed, PlanOf, Plan, Resolvable
      <4> QED
        BY <3>2, <4>1, <4>4 DEF ChangedPlan
    <3> QED
      BY <3>1, <3>2
  <2>2. /\ change.ready /\ change.open /\ change.plan = (IF c.settings = {} THEN NoPlan ELSE q)
        /\ change.affected = ChangeScope(saved, c) /\ change.revisions = c.revisions
    OBVIOUS
  <2>3. Whole(G) /\ G \subseteq FlowKeys(flow)
    BY <1>1, <2>1, GraphWhole DEF GraphKeys
  <2> HIDE DEF change, q
  <2>4. (IF change.plan.present THEN change.plan ELSE saved.plan) = q
    BY <2>1, <2>2 DEF NoPlan
  <2>5. ChangeScope(saved, c) = RestartedBy(q, saved.items, c.revisions \cup (saved.targets \cap G))
    BY DEF ChangeScope, RestartedBy, q
  <2>6. ChangeScope(saved, c) = Downstream(c.revisions \cup (saved.targets \cap G)) \cap G
    <3> DEFINE targets == c.revisions \cup (saved.targets \cap G)
    <3>1. RestartedBy(q, saved.items, targets) = Downstream(targets) \cap KeysOf(Effective(flow, q), saved.items)
      <4> HIDE DEF targets
      <4> QED
        BY <1>1, <2>1, RestartedIsDownstream
    <3> QED
      BY <2>5, <3>1 DEF GraphKeys
  <2> HIDE DEF G
  <2>7. ChangeScope(saved, c) = Downstream(c.revisions \cup saved.targets) \cap G
    <3>1. Downstream(saved.targets \ G) \cap G = {}
      BY <2>3, NotDownstream
    <3>2. PICK a, b : a = saved.targets \ G /\ b = c.revisions \cup (saved.targets \cap G)
      OBVIOUS
    <3>3. c.revisions \cup saved.targets = b \cup a
      BY <3>2
    <3>4. Downstream(b \cup a) = Downstream(b) \cup Downstream(a)
      BY DownstreamOfBoth
    <3> QED
      BY <2>6, <3>1, <3>2, <3>3, <3>4
  <2>8. ChangeReaches(saved, change)
    BY <2>2, <2>4, <2>7 DEF ChangeReaches, G
  <2>9. Pause(Reconsidered(saved, d, change, "needs_human"), e)
    BY <1>4 DEF change, q
  <2> QED
    BY <1>3, <2>8, <2>9
<1>5. QED
  <2>1. \/ \E c \in flow.changes :
              /\ ValidChange(saved, c)
              /\ Pause(Reconsidered(saved, d, [open |-> TRUE, ready |-> TRUE,
                           plan |-> IF c.settings = {} THEN NoPlan ELSE ChangedPlan(saved, c),
                           affected |-> ChangeScope(saved, c),
                           revisions |-> c.revisions], "needs_human"), e)
        \/ Pause(Reconsidered(saved, d, unready, "needs_info"), e)
        \/ Pause(Reconsidered(saved, d, unready, "needs_human"), e)
    BY DEF ProposeChange
  <2> HIDE DEF e, unready
  <2> QED
    BY <1>2, <1>3, <1>4, <2>1

\* A change leaves what it does not undo, and that is complete in itself.
LEMMA ChangeAppliedHolds ==
  ASSUME flow \in Flows, HoldsOn(flow), flow.intake, NEW s \in Record(flow), ResultsKnown(s),
         NEW acc, NEW out, HoldsFit(s, acc, out), s.change.ready, NEW d
  PROVE  LET r == ChangeApplied(s, d)
         IN  HoldsFit(r, acc \ Undone(s), out \cup Undone(s)) /\ HeldOf(r) \subseteq HeldOf(s)
<1> DEFINE plan == s.change.plan
           i == IF plan.present THEN InstallPlan(s, plan) ELSE s
           G == GraphKeys(s, ProposedPlan(s))
           undone == Undone(s)
           revisions == s.change.revisions
           reached == Downstream(revisions \cup s.targets)
           restarts == Start \in revisions
           completed == i.completed \ undone
           pending == {p \in i.pending : p.key[1] # "change" /\ p.key \notin undone}
           targets == (i.targets \ undone) \cup (revisions \ {Start})
           startApproved == i.startApproved /\ ~restarts
           startAction == IF restarts THEN "revise" ELSE i.startAction
           r == ChangeApplied(s, d)
           acc2 == acc \ undone
           out2 == out \cup undone
<1>1. s.change \in ChangeOf(flow) /\ s.plan \in PlanOf(flow) /\ s.items \in Selections(flow)
  BY DEF Record
<1>2. plan \in PlanOf(flow) /\ (plan.present => Installed(flow, plan)) /\ ProposedPlan(s) \in PlanOf(flow)
  BY <1>1 DEF ChangeOf, PlanOf, NoPlan, ProposedPlan
<1>3. /\ ResultsOf(s) \subseteq GraphKeys(s, s.plan) /\ acc \ out \subseteq ResultsOf(s)
      /\ (ResultsOf(s) \ out) \cap Downstream(RedoneOf(s)) = {}
      /\ s.startAction = "revise" => (acc \cup ResultsOf(s)) \ {Start} \subseteq out
      /\ Start \in PendingOf(s, "required") => Start \in s.completed
      /\ PendingOf(s, "agent_requested") \cap ResultsOf(s) \subseteq {Start}
      /\ Start \notin s.targets /\ s.change.affected = reached \cap G
      /\ Whole(HeldOf(s))
  BY DEF HoldsFit, ResultsFit, RequestsFit
<1>4. /\ i \in Record(flow) /\ i.plan = ProposedPlan(s) /\ i.items = s.items
      /\ i.startAction = s.startAction /\ Installs(s, i, G)
      /\ ResultsOf(s) \subseteq G \cup Removed(s) /\ Removed(s) \cap G = {}
  <2>1. CASE plan.present
    <3>1. i = InstallPlan(s, plan) /\ ProposedPlan(s) = plan /\ Removed(s) = ExcludedWork(plan)
      BY <2>1 DEF ProposedPlan, Removed
    <3>2. G = KeysOf(Effective(flow, plan), s.items)
      BY <3>1 DEF GraphKeys
    <3> HIDE DEF i, plan, G
    <3>3. /\ i \in Record(flow) /\ i.plan = plan /\ i.items = s.items
          /\ i.startAction = s.startAction /\ Installs(s, i, G)
      BY <1>2, <2>1, <3>1, <3>2, InstallHolds
    <3>4. ResultsOf(s) \subseteq G \cup ExcludedWork(plan) /\ ExcludedWork(plan) \cap G = {}
      BY <1>2, <3>2, ExcludedResults
    <3> QED
      BY <3>1, <3>3, <3>4
  <2>2. CASE ~plan.present
    <3>1. i = s /\ ProposedPlan(s) = s.plan /\ Removed(s) = {} /\ G = GraphKeys(s, s.plan)
      BY <2>2 DEF ProposedPlan, Removed
    <3> HIDE DEF i, plan, G
    <3> QED
      BY <1>3, <3>1 DEF Installs
  <2> QED
    BY <2>1, <2>2
<1>5. /\ Whole(G) /\ G \subseteq FlowKeys(flow) /\ Start \in G
  BY <1>1, <1>2, GraphWhole DEF GraphKeys
<1>6. \A k \in FlowKeys(flow) : k[1] # "change"
  BY ReservedKeys
<1>7. r = [i EXCEPT !.completed = completed, !.pending = pending, !.targets = targets,
                    !.options = {}, !.startApproved = startApproved, !.startAction = startAction,
                    !.change = NoChange, !.lastDecision = d.id, !.outcome = "implemented"]
  <2>1. r = [i EXCEPT !.completed = @ \ undone,
            !.pending = {p \in @ : p.key[1] # "change" /\ p.key \notin undone},
            !.targets = (@ \ undone) \cup (s.change.revisions \ {Start}),
            !.options = {},
            !.startApproved = @ /\ ~restarts,
            !.startAction = IF restarts THEN "revise" ELSE @,
            !.change = NoChange, !.lastDecision = d.id, !.outcome = "implemented"]
    BY DEF ChangeApplied
  <2> HIDE DEF i, undone, restarts, r
  <2> QED
    BY <1>4, <2>1 DEF Record
<1>8. undone = (reached \cap G) \cup Removed(s)
  BY <1>3 DEF Undone
<1> HIDE DEF i
<1>9. ASSUME NEW t
      PROVE  {q.key : q \in {x \in pending : x.trigger = t}} \cap FlowKeys(flow)
                = (PendingOf(i, t) \cap FlowKeys(flow)) \ undone
  BY <1>6 DEF PendingOf
<1> HIDE DEF plan, G, undone, revisions, completed, pending, targets, startApproved, r, acc2, out2
<1>10. /\ r.completed = completed /\ r.pending = pending /\ r.plan = i.plan /\ r.items = s.items
       /\ r.startAction = startAction /\ r.targets = targets /\ r.change = NoChange
  <2> HIDE DEF startAction
  <2> QED
    BY <1>4, <1>7 DEF Record
<1>11. \A t : PendingOf(r, t) \cap FlowKeys(flow) = (PendingOf(i, t) \cap FlowKeys(flow)) \ undone
  BY <1>9, <1>10 DEF PendingOf
<1> DEFINE Y == ResultsOf(s)
           Z == ResultsOf(r)
           redone == Downstream(RedoneOf(s))
           again == Downstream(RedoneOf(r))
<1>12. Z = (Y \cap G) \ reached
  <2>1. Z = ResultsOf(i) \ undone
    BY <1>10, <1>11 DEF ResultsOf, completed
  <2>2. Z = (Y \cap G) \ undone
    BY <1>4, <2>1 DEF Installs
  <2> QED
    BY <1>4, <1>8, <2>2
<1>13. GraphKeys(r, r.plan) = G
  BY <1>4, <1>10 DEF GraphKeys, G
<1>14. Downstream(revisions) \subseteq reached /\ Downstream(reached \cap G) \subseteq reached
  <2>1. Downstream(revisions) \subseteq reached
    BY DownstreamOfBoth
  <2>2. PICK a, b : a = reached \cap G /\ b = revisions \cup s.targets
    OBVIOUS
  <2>3. a \cap FlowKeys(flow) \subseteq Downstream(b)
    BY <2>2
  <2>4. Downstream(a) \subseteq Downstream(b)
    BY <2>3, DownstreamOfMore
  <2> QED
    BY <2>1, <2>2, <2>4
<1>15. again \cap G \subseteq redone \cup reached
  <2>1. RedoneOf(r) \cap FlowKeys(flow) \subseteq RedoneOf(i) \cup revisions
    BY <1>10, <1>11 DEF RedoneOf, targets
  <2>2. PICK a, b : a = RedoneOf(r) /\ b = RedoneOf(i)
    OBVIOUS
  <2>3. Downstream(a) \subseteq Downstream(b \cup revisions)
    BY <2>1, <2>2, DownstreamOfBoth
  <2>4. Downstream(b \cup revisions) = Downstream(b) \cup Downstream(revisions)
    BY DownstreamOfBoth
  <2>5. Downstream(b) \cap G = redone \cap G
    BY <1>4, <2>2 DEF Installs
  <2> QED
    BY <1>14, <2>2, <2>3, <2>4, <2>5
<1>16. redone \cap G \subseteq again \cup reached
  <2>1. PICK a, b, c, e : a = RedoneOf(i) /\ b = RedoneOf(r) /\ c = reached \cap G /\ e = Removed(s)
    OBVIOUS
  <2>2. a \cap FlowKeys(flow) \subseteq b \cup (c \cup e)
    BY <1>8, <1>10, <1>11, <2>1 DEF RedoneOf, targets
  <2>3. Downstream(a) \subseteq Downstream(b \cup (c \cup e))
    BY <2>2, DownstreamOfBoth
  <2>4. Downstream(b \cup (c \cup e)) = Downstream(b) \cup (Downstream(c) \cup Downstream(e))
    <3>1. Downstream(c \cup e) = Downstream(c) \cup Downstream(e)
      BY DownstreamOfBoth
    <3> QED
      BY <3>1, DownstreamOfBoth
  <2>5. Downstream(e) \cap G = {}
    BY <1>4, <1>5, <2>1, NotDownstream
  <2>6. Downstream(c) \subseteq reached
    BY <1>14, <2>1
  <2>7. Downstream(a) \cap G = redone \cap G
    BY <1>4, <2>1 DEF Installs
  <2> QED
    BY <2>1, <2>3, <2>4, <2>5, <2>6, <2>7
<1>17. HeldOf(r) = (HeldOf(s) \cap G) \ reached
  <2>1. HeldOf(r) = Z \ again /\ HeldOf(s) = Y \ redone
    BY DEF HeldOf
  <2> HIDE DEF Z, again, Y, redone, reached
  <2> QED
    BY <1>12, <1>15, <1>16, <2>1
<1>18. Whole(HeldOf(r))
  <2>1. Whole(HeldOf(s) \cap G)
    BY <1>3, <1>5, WholeBoth
  <2>2. Whole((HeldOf(s) \cap G) \ reached)
    BY <1>5, <2>1, WholeLess
  <2> QED
    BY <1>17, <2>2
<1> HIDE DEF reached
<1>19. ResultsFit(r, acc2, out2)
  <2>1. acc2 \ out2 \subseteq Z
    BY <1>3, <1>4, <1>8, <1>12 DEF acc2, out2
  <2>2. (Z \ out2) \cap again = {}
    BY <1>3, <1>12, <1>15 DEF out2
  <2>3. startAction = "revise" => (acc2 \cup Z) \ {Start} \subseteq out2
    <3>1. CASE restarts
      <4>1. reached = FlowKeys(flow)
        BY <3>1, DownstreamKeys DEF reached
      <4>2. acc \ out \subseteq undone
        BY <1>3, <1>4, <1>5, <1>8, <4>1
      <4> QED
        BY <1>5, <1>12, <4>1, <4>2 DEF acc2, out2
    <3>2. CASE ~restarts
      <4> SUFFICES ASSUME s.startAction = "revise" PROVE (acc2 \cup Z) \ {Start} \subseteq out2
        BY <1>4, <3>2
      <4> QED
        BY <1>3, <1>12 DEF acc2, out2
    <3> QED
      BY <3>1, <3>2
  <2>4. Z \subseteq GraphKeys(r, r.plan)
    BY <1>12, <1>13
  <2>5. r.startAction = "revise" => (acc2 \cup Z) \ {Start} \subseteq out2
    BY <1>10, <2>3
  <2> QED
    BY <2>1, <2>2, <2>4, <2>5 DEF ResultsFit
<1>20. RequestsFit(r)
  <2>1. Start \in PendingOf(r, "required") => Start \in r.completed
    BY <1>4, <1>5, <1>10, <1>11 DEF Installs, completed
  <2>2. PendingOf(r, "agent_requested") \cap Z \subseteq {Start}
    <3>1. Z \subseteq FlowKeys(flow) /\ Z \subseteq Y
      BY <1>5, <1>12
    <3>2. PendingOf(r, "agent_requested") \cap Z \subseteq PendingOf(s, "agent_requested")
      BY <1>4, <1>11, <3>1 DEF Installs
    <3> QED
      BY <1>3, <3>1, <3>2
  <2>3. Start \notin r.targets
    BY <1>3, <1>4, <1>10 DEF Installs, targets
  <2> QED
    BY <1>10, <2>1, <2>2, <2>3 DEF RequestsFit, NoChange
<1>21. HeldOf(r) \subseteq HeldOf(s)
  BY <1>17
<1>22. QED
  BY <1>18, <1>19, <1>20, <1>21 DEF HoldsFit, r, acc2, out2, undone

-----------------------------------------------------------------------------
(* Results: what a person decides *)

LEMMA DecidePlanHolds ==
  ASSUME IInv, HoldInv, HasCheckpoint, flow' = flow, flow.planned, ~saved.change.ready,
         NEW d \in Decision, d.id = budget.decisions, d.verb = "revise" => ~flow.intake,
         DecidePlan(saved, d)
  PROVE  StepHolds
<1>1. /\ HoldsFit(saved, accepted, stale \cup outdated) /\ HeldBy(saved) = HeldOf(saved)
      /\ saved \in Record(flow) /\ flow \in Flows /\ HoldsOn(flow) /\ ResultsKnown(saved)
  BY HoldOfCheckpoint, CheckpointOf
<1>2. stale' = stale /\ outdated' = outdated
  BY DEF DecidePlan
<1>3. PICK acc, out : acc = accepted /\ out = stale \cup outdated
  OBVIOUS
<1>4. HoldsFit(saved, acc, out)
  BY <1>1, <1>3
<1>5. ASSUME d.verb = "revise", NEW p \in flow.proposals, Resolvable(flow, p),
             Proceed(RevisePlan(saved, d, p),
                     DecisionEffects(d, {PlanKey}, ExcludedWork(Plan(p, FALSE)))),
             accepted' = accepted \ ExcludedWork(Plan(p, FALSE))
      PROVE  StepHolds
  <2>1. RevisePlan(saved, d, p) \in Record(flow)
    BY <1>5, RevisePlanFits DEF Writes
  <2>2. PICK r, acc2 : r = RevisePlan(saved, d, p) /\ acc2 = acc \ ExcludedWork(Plan(p, FALSE))
    OBVIOUS
  <2>3. HoldsFit(r, acc2, out) /\ HeldOf(r) \subseteq HeldOf(saved)
    BY <1>1, <1>4, <1>5, <2>2, RevisePlanHolds
  <2>4. acc2 = accepted' /\ out = stale' \cup outdated'
    BY <1>2, <1>3, <1>5, <2>2
  <2> QED
    BY <1>1, <1>5, <2>1, <2>2, <2>3, <2>4, ProceedHolds
<1>6. CASE Proceed(AcceptPlan(saved, d), DecisionEffects(d, {PlanKey}, {})) /\ UNCHANGED accepted
  <2>1. AcceptPlan(saved, d) \in Record(flow)
    BY AcceptPlanFits DEF Writes
  <2>2. PICK r : r = AcceptPlan(saved, d)
    OBVIOUS
  <2>3. HoldsFit(r, acc, out) /\ HeldOf(r) = HeldOf(saved)
    BY <1>1, <1>4, <2>2, AcceptPlanHolds
  <2>4. acc = accepted' /\ out = stale' \cup outdated'
    BY <1>2, <1>3, <1>6
  <2> QED
    BY <1>1, <1>6, <2>1, <2>2, <2>3, <2>4, ProceedHolds
<1>7. CASE Refuse /\ UNCHANGED accepted
  BY <1>2, <1>7, StaysHolds DEF history
<1>8. QED
  BY <1>5, <1>6, <1>7 DEF DecidePlan

LEMMA HumanDecisionHolds ==
  ASSUME IInv, HoldInv, HasCheckpoint, flow' = flow,
         NEW d \in Decision, d.id = budget.decisions, HumanCommand(d),
         ~IntakeHandles(saved, d), ApplyHumanDecision(saved, d)
  PROVE  StepHolds
<1>1. /\ HoldsFit(saved, accepted, stale \cup outdated) /\ HeldBy(saved) = HeldOf(saved)
      /\ saved \in Record(flow) /\ flow \in Flows /\ HoldsOn(flow)
      /\ saved.plan \in PlanOf(flow) /\ saved.items \in Selections(flow)
      /\ saved.pending \in SUBSET ApprovalOf(flow)
  BY HoldOfCheckpoint
<1>2. /\ Counted(saved) /\ PendingFits(saved) /\ ResultsKnown(saved)
      /\ {} \in SUBSET FlowKeys(flow)
  BY CheckpointOf
<1>3. ~saved.change.ready
  BY <1>1 DEF HoldsFit, RequestsFit, IntakeHandles, HumanCommand
<1>4. ASSUME ReturnLastResult(saved) \/ Refuse, UNCHANGED history
      PROVE  StepHolds
  BY <1>4, StaysHolds
<1>5. CASE PlanCommand(saved, d) /\ DecidePlan(saved, d)
  <2>1. flow.planned /\ (d.verb = "revise" => ~flow.intake)
    BY <1>5 DEF PlanCommand, IntakeHandles
  <2> QED
    BY <1>3, <1>5, <2>1, DecidePlanHolds
<1>6. CASE ~PlanCommand(saved, d) /\ Decide(saved, d, Chosen(saved, d), {})
  <2>1. PICK chosen : chosen = Chosen(saved, d)
    OBVIOUS
  <2>2. chosen \in SUBSET ApprovalOf(flow)
    BY <1>1, <2>1 DEF Chosen, Named
  <2>3. Accepts(d, chosen) \subseteq FlowKeys(flow) \cap Known
    BY <1>6, <2>1, AcceptsResults
  <2>4. Withdraws(saved, d, chosen, {})
    BY <1>1, <1>3, <2>1, <2>3, ChosenWithdraws
  <2>5. Settled(saved, d, chosen, {}) \in Record(flow)
    BY <1>1, <1>2, <2>2, <2>3, SettledFits DEF Writes
  <2> QED
    BY <1>1, <1>6, <2>1, <2>4, <2>5, DecideHolds
<1>7. CASE Repairs(saved, d)
           /\ Decide([saved EXCEPT !.outcome = "needs_human"], d, {Requested(d.target)}, {})
  <2> DEFINE s == [saved EXCEPT !.outcome = "needs_human"]
             chosen == {Requested(d.target)}
  <2>1. s \in Record(flow) /\ s.pending = saved.pending /\ s.completed = saved.completed
        /\ s.sequence = saved.sequence /\ s.lastDecision = saved.lastDecision
        /\ s.change = saved.change /\ s.plan = saved.plan /\ s.items = saved.items
        /\ s.startAction = saved.startAction /\ s.targets = saved.targets
    BY <1>1 DEF Record, Outcomes
  <2>2. d.target \in FlowKeys(flow)
    BY <1>1, <1>7, KeysInFlow DEF Repairs, GraphKeys
  <2>3. chosen \in SUBSET ApprovalOf(flow)
    BY <2>2 DEF Requested, Approval, ApprovalOf
  <2>4. Accepts(d, chosen) = {}
    BY <1>7 DEF Accepts, Repairs
  <2> HIDE DEF s, chosen
  <2>5. Counted(s) /\ PendingFits(s) /\ ResultsKnown(s)
    BY <1>2, <2>1 DEF Counted, PendingFits, ResultsKnown
  <2>6. Decide(s, d, chosen, {})
    BY <1>7 DEF s, chosen
  <2>7. Withdraws(s, d, chosen, {})
    BY <1>3, <2>1, <2>4 DEF Withdraws
  <2>8. Settled(s, d, chosen, {}) \in Record(flow)
    BY <1>2, <2>1, <2>3, <2>4, <2>5, SettledFits DEF Writes
  <2>9. HoldsFit(s, accepted, stale \cup outdated) /\ HeldOf(s) \subseteq HeldBy(saved)
    <3>1. PICK acc, out : acc = accepted /\ out = stale \cup outdated
      OBVIOUS
    <3>2. HoldsFit(s, acc, out) /\ HeldOf(s) = HeldOf(saved)
      BY <1>1, <2>1, <3>1, SameHeld
    <3> QED
      BY <1>1, <3>1, <3>2
  <2> QED
    BY <1>1, <2>1, <2>6, <2>7, <2>8, <2>9, DecideHolds
<1>8. CASE Reopens(saved, d)
           /\ Decide(saved, d, {Required(d.target)}, Affected(saved.plan, saved.items, d.target))
  <2> DEFINE chosen == {Required(d.target)}
             withdrawn == Affected(saved.plan, saved.items, d.target)
  <2>1. d.target \in FlowKeys(flow) /\ d.verb = "revise"
    BY <1>1, <1>8, HoldOfCheckpoint DEF Reopens
  <2>2. chosen \in SUBSET ApprovalOf(flow)
    BY <2>1 DEF Required, Approval, ApprovalOf
  <2>3. Accepts(d, chosen) = {}
    BY <2>1 DEF Accepts
  <2>4. withdrawn \in SUBSET FlowKeys(flow)
    BY <1>1, AffectedKeys DEF Affected
  <2>5. withdrawn = Downstream({d.target}) \cap GraphKeys(saved, saved.plan)
    <3>1. RestartedBy(saved.plan, saved.items, {d.target})
             = Downstream({d.target}) \cap KeysOf(Effective(flow, saved.plan), saved.items)
      BY <1>1, RestartedIsDownstream
    <3> QED
      BY <3>1 DEF RestartedBy, GraphKeys
  <2> HIDE DEF chosen, withdrawn
  <2>6. Withdraws(saved, d, chosen, withdrawn)
    BY <1>3, <2>3, <2>5 DEF Withdraws
  <2>7. Decide(saved, d, chosen, withdrawn)
    BY <1>8 DEF chosen, withdrawn
  <2>8. Settled(saved, d, chosen, withdrawn) \in Record(flow)
    BY <1>1, <1>2, <2>2, <2>3, <2>4, SettledFits DEF Writes
  <2> QED
    BY <1>1, <2>6, <2>7, <2>8, DecideHolds
<1>9. QED
  BY <1>4, <1>5, <1>6, <1>7, <1>8 DEF ApplyHumanDecision

LEMMA IntakeHolds ==
  ASSUME IInv, HoldInv, HasCheckpoint, flow' = flow,
         NEW d \in Decision, d.id = budget.decisions,
         IntakeHandles(saved, d), IntakeDecision(saved, d)
  PROVE  StepHolds
<1>1. /\ HoldsFit(saved, accepted, stale \cup outdated) /\ HeldBy(saved) = HeldOf(saved)
      /\ saved \in Record(flow) /\ flow \in Flows /\ HoldsOn(flow) /\ flow.intake
      /\ ResultsKnown(saved)
  BY HoldOfCheckpoint, CheckpointOf DEF IntakeHandles
<1>2. PICK acc, out : acc = accepted /\ out = stale \cup outdated
  OBVIOUS
<1>3. HoldsFit(saved, acc, out)
  BY <1>1, <1>2
<1>4. ASSUME ReturnLastResult(saved), UNCHANGED history
      PROVE  StepHolds
  BY <1>4, StaysHolds
<1>5. ASSUME ProposeChange(saved, d), UNCHANGED history
      PROVE  StepHolds
  BY <1>1, <1>5, ProposeHolds
<1>6. ASSUME saved.change.ready, AcceptChange(saved, d)
      PROVE  StepHolds
  <2>1. ChangeApplied(saved, d) \in Record(flow)
    BY <1>1, <1>6, ChangeAppliedFits DEF Writes
  <2>2. PICK r, e, undone : /\ r = ChangeApplied(saved, d) /\ undone = Undone(saved)
                            /\ e = DecisionEffects(d, {ChangeKey(saved.sequence)}, Undone(saved))
    OBVIOUS
  <2>3. Proceed(r, e) /\ accepted' = accepted \ undone
        /\ stale' = stale \cup undone /\ outdated' = outdated
    BY <1>6, <2>2 DEF AcceptChange
  <2>4. HoldsFit(r, acc \ undone, out \cup undone) /\ HeldOf(r) \subseteq HeldOf(saved)
    BY <1>1, <1>3, <1>6, <2>2, ChangeAppliedHolds
  <2>5. acc \ undone = accepted' /\ out \cup undone = stale' \cup outdated'
    BY <1>2, <2>3
  <2>6. r \in Record(flow) /\ HoldsFit(r, accepted', stale' \cup outdated')
        /\ HeldOf(r) \subseteq HeldBy(saved)
    BY <1>1, <2>1, <2>2, <2>4, <2>5
  <2> QED
    BY <2>3, <2>6, ProceedHolds
<1>7. ASSUME Pause([saved EXCEPT !.outcome = "needs_human"], NoEffects), UNCHANGED history
      PROVE  StepHolds
  <2> DEFINE r == [saved EXCEPT !.outcome = "needs_human"]
  <2>1. /\ r.completed = saved.completed /\ r.pending = saved.pending /\ r.plan = saved.plan
        /\ r.items = saved.items /\ r.startAction = saved.startAction /\ r.targets = saved.targets
        /\ r.change = saved.change /\ r \in Record(flow)
    BY <1>1 DEF Record, Outcomes
  <2>2. Pause(r, NoEffects)
    BY <1>7
  <2> HIDE DEF r
  <2>3. HoldsFit(r, acc, out) /\ HeldOf(r) = HeldOf(saved) /\ r # NoCheckpoint
    BY <1>3, <2>1, SameHeld, RecordIsCheckpoint
  <2>4. acc = accepted' /\ out = stale' \cup outdated'
    BY <1>2, <1>7 DEF history
  <2> QED
    BY <1>1, <2>2, <2>3, <2>4, PauseHolds
<1>8. QED
  BY <1>4, <1>5, <1>6, <1>7 DEF IntakeDecision

LEMMA ResumeHolds == IInv /\ HoldInv /\ ResumeWithDecision => StepHolds
<1> SUFFICES ASSUME IInv, HoldInv, ResumeWithDecision PROVE StepHolds
  OBVIOUS
<1>1. PICK d : d = job.decision
  OBVIOUS
<1>2. flow' = flow /\ budget' = budget /\ pc = "resume"
      /\ IF IntakeHandles(saved, d) THEN IntakeDecision(saved, d) ELSE ResumeWith(saved, d)
  BY <1>1 DEF ResumeWithDecision
<1>3. d \in Decision /\ d.id = budget.decisions /\ HasCheckpoint
  BY <1>1, <1>2, MemoryOf DEF JobRow
<1>4. CASE IntakeHandles(saved, d)
  BY <1>2, <1>3, <1>4, IntakeHolds
<1>5. CASE ~IntakeHandles(saved, d) /\ HumanCommand(d)
  BY <1>2, <1>3, <1>5, HumanDecisionHolds DEF ResumeWith
<1>6. CASE ~IntakeHandles(saved, d) /\ ~HumanCommand(d)
  <2>1. ResumeUndecided(saved)
    BY <1>2, <1>6 DEF ResumeWith
  <2>2. UNCHANGED history /\ saved' = saved
    BY <2>1 DEF ResumeUndecided, FailCoordinator, durable
  <2>3. CASE pc' \in {"idle", "prepare"}
    BY <1>2, <2>2, <2>3, HoldStays
  <2>4. CASE pc' = "plan" /\ saved.startAction = "revise"
    <3>1. PICK at : at = pc'
      OBVIOUS
    <3>2. HoldsFit(saved, accepted', stale' \cup outdated') /\ saved # NoCheckpoint
      <4>1. PICK acc, out, acc2, out2 : /\ acc = accepted /\ out = stale \cup outdated
                                        /\ acc2 = accepted' /\ out2 = stale' \cup outdated'
        OBVIOUS
      <4>2. HoldsFit(saved, acc, out) /\ acc2 = acc /\ out2 = out
        BY <1>3, <2>2, <4>1, HoldOfCheckpoint DEF history
      <4> QED
        BY <1>3, <4>1, <4>2 DEF HasCheckpoint
    <3>3. Follows(saved, saved)
      BY DEF Follows
    <3> QED
      BY <1>2, <2>2, <2>4, <3>1, <3>2, <3>3, RestHolds
  <2> QED
    BY <2>1, <2>3, <2>4 DEF ResumeUndecided, FailCoordinator, Stops
<1>7. QED
  BY <1>4, <1>5, <1>6

-----------------------------------------------------------------------------
(* Results: planning and the beginning of work *)

\* A checkpoint that asks about the start at most and redoes nothing.
LEMMA QuietHolds ==
  ASSUME flow \in Flows, HoldsOn(flow), NEW r, NEW acc, NEW out,
         r.completed \subseteq GraphKeys(r, r.plan), r.completed \subseteq FlowKeys(flow),
         Start \in r.completed, Whole(r.completed), PendingKeys(r.pending) \subseteq {Start},
         r.targets = {}, ~r.change.ready, acc \ out \subseteq r.completed,
         r.startAction = "revise" => acc \ {Start} \subseteq out /\ r.completed = {Start}
  PROVE  HoldsFit(r, acc, out) /\ HeldOf(r) = r.completed
<1>1. \A t : PendingOf(r, t) \subseteq {Start}
  BY DEF PendingOf, PendingKeys
<1>2. ResultsOf(r) = r.completed /\ RedoneOf(r) = {}
  BY <1>1 DEF ResultsOf, RedoneOf
<1>3. Downstream(RedoneOf(r)) = {}
  BY <1>2 DEF Downstream
<1>4. ResultsFit(r, acc, out)
  BY <1>2, <1>3 DEF ResultsFit
<1>5. RequestsFit(r)
  BY <1>1 DEF RequestsFit
<1>6. HeldOf(r) = r.completed
  BY <1>2, <1>3 DEF HeldOf
<1>7. QED
  BY <1>4, <1>5, <1>6 DEF HoldsFit

\* The start's own result can be forgotten: nothing else is redone with it.
LEMMA ForgottenHolds ==
  ASSUME flow \in Flows, HoldsOn(flow), NEW s, NEW acc, NEW out, HoldsFit(s, acc, out)
  PROVE  HoldsFit(s, acc \ {Start}, out \ {Start})
<1>1. Start \notin Downstream(RedoneOf(s))
  BY DownstreamKeys DEF RedoneOf
<1>2. ResultsFit(s, acc \ {Start}, out \ {Start})
  BY <1>1 DEF HoldsFit, ResultsFit
<1>3. QED
  BY <1>2 DEF HoldsFit

\* An executor in the middle of its waves, between them.
LEMMA WorkingHolds ==
  ASSUME HoldInv, flow' = flow, NEW s, saved' = s, NEW m, mem' = m, pc' = "wave",
         IF s # NoCheckpoint THEN HoldsFit(s, accepted', stale' \cup outdated') ELSE accepted' = {},
         WorkHolds(m, accepted', stale' \cup outdated'), m.completed \ {Start} \subseteq HeldBy(s),
         s = saved \/ Follows(saved, s)
  PROVE  StepHolds
<1>1. PICK at : at = pc'
  OBVIOUS
<1>2. PICK acc, out : acc = accepted' /\ out = stale' \cup outdated'
  OBVIOUS
<1>3. HoldsLeft(s, m, at, acc, out)
  BY <1>1, <1>2 DEF HoldsLeft
<1>4. QED
  BY <1>1, <1>2, <1>3, StepOfLeft

LEMMA LeaveHolds ==
  ASSUME HoldInv, flow' = flow, saved' = saved, pc' = "idle",
         HasCheckpoint => HoldsFit(saved, accepted', stale' \cup outdated'),
         ~HasCheckpoint => accepted' = {}
  PROVE  StepHolds
<1>1. PICK m, at, s : m = mem' /\ at = pc' /\ s = saved
  OBVIOUS
<1>2. PICK acc, out : acc = accepted' /\ out = stale' \cup outdated'
  OBVIOUS
<1>3. HoldsLeft(s, m, at, acc, out)
  BY <1>1, <1>2 DEF HoldsLeft, HasCheckpoint
<1>4. QED
  BY <1>1, <1>2, <1>3, StepOfLeft

LEMMA BeginHolds ==
  ASSUME flow \in Flows, HoldInv, flow' = flow, NEW s \in Record(flow),
         NEW items \in Selections(flow), NEW plan \in PlanOf(flow), NEW sa,
         BeginWork(s, items, plan, sa), Start \notin s.targets,
         NEW kept, kept = s.completed \ Downstream(s.targets), Whole(kept),
         kept \subseteq HeldBy(saved) \cup {Start},
         NEW acc, NEW out, acc = accepted', out = stale' \cup outdated',
         acc \ out \subseteq (kept \cap KeysOf(Effective(flow, plan), items)) \cup {Start},
         HasCheckpoint => HoldsFit(saved, acc, out), ~HasCheckpoint => acc = {}
  PROVE  StepHolds
<1> DEFINE m == Restored(s, items, plan)
           G == KeysOf(Effective(flow, plan), items)
           completed == ((s.completed \cap G) \cup {Start}) \ RestartedBy(plan, items, s.targets)
<1>1. m \in Memory(flow) /\ m.items = items /\ m.plan = plan /\ m.wave = {}
  BY RestoredFits
<1>2. m.completed = completed
  BY DEF Restored, NoWork
<1>3. HoldsOn(flow) /\ Whole(G) /\ G \subseteq FlowKeys(flow) /\ Start \in G
  BY GraphWhole DEF HoldInv
<1>4. RestartedBy(plan, items, s.targets) = Downstream(s.targets) \cap G
  BY <1>3, RestartedIsDownstream
<1>5. Start \notin Downstream(s.targets)
  BY <1>3, DownstreamKeys
<1>6. \/ FailCoordinator
      \/ Pause(Snapshot(m, "needs_human", {Required(Start)}, FALSE), NoEffects)
      \/ mem' = EnsureWaiting(m, Incomplete(m)) /\ pc' = "wave" /\ durable' = durable
  BY DEF BeginWork
<1> HIDE DEF m, G
<1>7. m.completed = (kept \cap G) \cup {Start}
  BY <1>2, <1>3, <1>4, <1>5
<1>8. Whole(m.completed) /\ m.completed \subseteq G /\ acc \ out \subseteq m.completed
      /\ m.completed \subseteq HeldBy(saved) \cup {Start}
  <2>1. Whole(kept \cap G)
    BY <1>3, WholeBoth
  <2>2. NeedsOf(Start) = {}
    BY <1>3, StartNeeds
  <2>3. Whole((kept \cap G) \cup {Start})
    BY <2>1, <2>2 DEF Whole
  <2> QED
    BY <1>3, <1>7, <2>3 DEF G
<1>9. CASE FailCoordinator
  <2>1. saved' = saved /\ pc' = "idle"
    BY <1>9 DEF FailCoordinator, Stops
  <2> QED
    BY <2>1, LeaveHolds
<1>10. CASE Pause(Snapshot(m, "needs_human", {Required(Start)}, FALSE), NoEffects)
  <2> DEFINE r == Snapshot(m, "needs_human", {Required(Start)}, FALSE)
  <2>1. /\ r.completed = m.completed /\ r.pending = {Required(Start)} /\ r.plan = plan
        /\ r.items = items /\ r.startAction = "none" /\ r.targets = {} /\ r.change = NoChange
        /\ r.outcome = "needs_human"
    BY <1>1 DEF Snapshot
  <2>2. ~NoChange.ready
    BY DEF NoChange
  <2>3. PendingKeys({Required(Start)}) = {Start}
    BY DEF PendingKeys, Required, Approval
  <2>4. r # NoCheckpoint
    <3>1. "outcome" \in DOMAIN r /\ "outcome" \notin DOMAIN NoCheckpoint
      BY DEF Snapshot, NoCheckpoint
    <3> QED
      BY <3>1
  <2>5. Pause(r, NoEffects)
    BY <1>10
  <2> HIDE DEF r
  <2>6. GraphKeys(r, r.plan) = G
    BY <2>1 DEF GraphKeys, G
  <2>7. HoldsFit(r, acc, out) /\ HeldOf(r) = r.completed
    BY <1>3, <1>7, <1>8, <2>1, <2>2, <2>3, <2>6, QuietHolds
  <2> QED
    BY <1>8, <2>1, <2>4, <2>5, <2>7, PauseHolds
<1>11. CASE mem' = EnsureWaiting(m, Incomplete(m)) /\ pc' = "wave" /\ durable' = durable
  <2>1. PICK w, t : w = EnsureWaiting(m, Incomplete(m)) /\ t = saved
    OBVIOUS
  <2>2. w.completed = m.completed /\ w.plan = plan /\ w.items = items
    BY <1>1, <2>1 DEF EnsureWaiting, Memory
  <2>3. Keys(w) = G
    BY <2>2 DEF Keys, G
  <2>4. WorkHolds(w, acc, out)
    BY <1>7, <1>8, <2>2, <2>3 DEF WorkHolds
  <2>5. saved' = t
    BY <1>11, <2>1 DEF durable
  <2>6. w.completed \ {Start} \subseteq HeldBy(t)
    BY <1>8, <2>1, <2>2
  <2>7. IF t # NoCheckpoint THEN HoldsFit(t, acc, out) ELSE acc = {}
    BY <2>1 DEF HasCheckpoint
  <2> QED
    BY <1>11, <2>1, <2>4, <2>5, <2>6, <2>7, WorkingHolds
<1>12. QED
  BY <1>6, <1>9, <1>10, <1>11

\* While nothing is pending, what is held is what need not be redone.
LEMMA HeldWithoutRequests ==
  ASSUME NEW s, s.pending = {}, s.completed \subseteq FlowKeys(flow), Start \notin s.targets
  PROVE  /\ ResultsOf(s) = s.completed /\ RedoneOf(s) = s.targets
         /\ HeldOf(s) = s.completed \ Downstream(s.targets)
<1>1. \A t : PendingOf(s, t) = {}
  BY DEF PendingOf
<1>2. ResultsOf(s) = s.completed /\ RedoneOf(s) = s.targets
  BY <1>1 DEF ResultsOf, RedoneOf
<1>3. QED
  BY <1>2 DEF HeldOf

LEMMA PrepareHolds == IInv /\ HoldInv /\ Prepare => StepHolds
<1> SUFFICES ASSUME IInv, HoldInv, Prepare PROVE StepHolds
  OBVIOUS
<1>1. /\ flow' = flow /\ accepted' = accepted /\ stale' = stale /\ outdated' = outdated
      /\ pc = "prepare"
      /\ BeginWork(saved, saved.items, saved.plan, saved.startApproved)
  BY DEF Prepare, history
<1>2. HasCheckpoint
  BY <1>1, MemoryOf
<1>3. /\ HoldsFit(saved, accepted, stale \cup outdated) /\ HeldBy(saved) = HeldOf(saved)
      /\ saved \in Record(flow) /\ flow \in Flows /\ HoldsOn(flow)
      /\ saved.plan \in PlanOf(flow) /\ saved.items \in Selections(flow)
      /\ saved.completed \subseteq FlowKeys(flow)
  BY <1>2, HoldOfCheckpoint
<1>4. saved.pending = {} /\ Start \notin saved.targets
  BY <1>1, <1>2, <1>3 DEF IInv, NothingPending, HoldsFit, RequestsFit
<1>5. PICK acc, out, kept : acc = accepted /\ out = stale \cup outdated
                               /\ kept = saved.completed \ Downstream(saved.targets)
  OBVIOUS
<1>6. ResultsOf(saved) = saved.completed /\ RedoneOf(saved) = saved.targets /\ HeldOf(saved) = kept
  BY <1>3, <1>4, <1>5, HeldWithoutRequests
<1>7. HoldsFit(saved, acc, out) /\ Whole(kept)
  BY <1>3, <1>5, <1>6 DEF HoldsFit
<1>8. acc \ out \subseteq kept \cap KeysOf(Effective(flow, saved.plan), saved.items)
  BY <1>5, <1>6, <1>7 DEF HoldsFit, ResultsFit, GraphKeys
<1>9. PICK s, items, plan, sa : s = saved /\ items = saved.items /\ plan = saved.plan
                                   /\ sa = saved.startApproved
  OBVIOUS
<1>10. BeginWork(s, items, plan, sa) /\ acc = accepted' /\ out = stale' \cup outdated'
  BY <1>1, <1>5, <1>9
<1>11. /\ s \in Record(flow) /\ items \in Selections(flow) /\ plan \in PlanOf(flow)
       /\ Start \notin s.targets /\ kept = s.completed \ Downstream(s.targets)
       /\ kept \subseteq HeldBy(saved) \cup {Start}
       /\ acc \ out \subseteq (kept \cap KeysOf(Effective(flow, plan), items)) \cup {Start}
  BY <1>3, <1>4, <1>5, <1>6, <1>8, <1>9
<1>12. QED
  BY <1>1, <1>2, <1>3, <1>7, <1>10, <1>11, BeginHolds

\* What planning starts from holds what the checkpoint holds.
LEMMA BaseHolds ==
  ASSUME IInv, HoldInv, pc = "plan"
  PROVE  /\ Base \in Record(flow) /\ flow \in Flows /\ HoldsOn(flow)
         /\ Base.pending = {} /\ Start \notin Base.targets
         /\ HoldsFit(Base, accepted, stale \cup outdated)
         /\ HeldOf(Base) \subseteq HeldBy(saved) \cup {Start}
         /\ accepted \ {Start} \subseteq stale \cup outdated
         /\ (Base.completed \cup accepted) \ {Start} \subseteq stale \cup outdated
         /\ ~HasCheckpoint => accepted = {}
<1>1. Base \in Record(flow) /\ flow \in Flows /\ HoldsOn(flow)
  BY BaseFits, MemoryOf DEF HoldInv
<1>2. CASE HasCheckpoint
  <2>1. PICK acc, out : acc = accepted /\ out = stale \cup outdated
    OBVIOUS
  <2>2. saved \in Record(flow) /\ HoldsFit(saved, acc, out) /\ HeldBy(saved) = HeldOf(saved)
    BY <1>2, <2>1, HoldOfCheckpoint
  <2>3. saved.startAction = "revise" /\ saved.pending = {}
    BY <1>2 DEF HoldInv, HoldsLeft, HasCheckpoint, IInv, NothingPending
  <2>4. /\ Base.completed = saved.completed /\ Base.pending = saved.pending
        /\ Base.plan = saved.plan /\ Base.items = saved.items
        /\ Base.startAction = saved.startAction /\ Base.targets = saved.targets
        /\ Base.change = saved.change
    BY <1>2, <2>2 DEF Base, Record
  <2>5. HoldsFit(Base, acc, out) /\ HeldOf(Base) = HeldOf(saved)
    BY <2>2, <2>4, SameHeld
  <2>6. Base.completed \subseteq FlowKeys(flow) /\ Start \notin Base.targets
    BY <1>1, <2>5 DEF Record, HoldsFit, RequestsFit
  <2>7. ResultsOf(Base) = Base.completed
    BY <2>3, <2>4, <2>6, HeldWithoutRequests
  <2>8. (acc \cup Base.completed) \ {Start} \subseteq out
    BY <2>3, <2>4, <2>5, <2>7 DEF HoldsFit, ResultsFit
  <2> QED
    BY <1>1, <1>2, <2>1, <2>2, <2>3, <2>4, <2>5, <2>6, <2>8
<1>3. CASE ~HasCheckpoint
  <2>1. /\ Base.completed = {Start} /\ Base.plan = NoPlan /\ Base.items = {} /\ Base.pending = {}
        /\ Base.targets = {} /\ Base.change = NoChange /\ Base.startAction = "none"
    BY <1>3 DEF Base, Blank, Snapshot, NoWork
  <2>2. accepted = {}
    BY <1>3 DEF HoldInv, HoldsLeft, HasCheckpoint
  <2>3. NoPlan \in PlanOf(flow) /\ {} \in Selections(flow)
    BY <1>1, FlowsAssumption DEF NoPlan, PlanOf, Selections
  <2>4. Start \in GraphKeys(Base, Base.plan) /\ Start \in FlowKeys(flow)
    BY <1>1, <2>1, <2>3, StartTyped DEF GraphKeys
  <2>5. Whole({Start})
    BY <1>1, StartNeeds DEF Whole
  <2>6. PICK b, acc, out : b = Base /\ acc = accepted /\ out = stale \cup outdated
    OBVIOUS
  <2>7. HoldsFit(b, acc, out) /\ HeldOf(b) = b.completed
    <3>1. /\ b.completed \subseteq GraphKeys(b, b.plan) /\ b.completed \subseteq FlowKeys(flow)
          /\ Start \in b.completed /\ Whole(b.completed) /\ b.targets = {}
          /\ acc \ out \subseteq b.completed /\ b.startAction # "revise"
      BY <2>1, <2>2, <2>4, <2>5, <2>6
    <3>2. PendingKeys(b.pending) \subseteq {Start} /\ ~b.change.ready
      BY <2>1, <2>6 DEF PendingKeys, NoChange
    <3> QED
      BY <1>1, <3>1, <3>2, QuietHolds
  <2> QED
    BY <1>1, <1>3, <2>1, <2>2, <2>6, <2>7
<1>4. QED
  BY <1>2, <1>3

LEMMA PlannerSucceedsHolds == IInv /\ HoldInv /\ PlannerSucceeds => StepHolds
<1> SUFFICES ASSUME IInv, HoldInv, PlannerSucceeds PROVE StepHolds
  OBVIOUS
<1>1. /\ flow' = flow /\ pc = "plan"
      /\ accepted' = accepted \ {Start} /\ stale' = stale \ {Start} /\ outdated' = outdated \ {Start}
  BY DEF PlannerSucceeds
<1>2. /\ Base \in Record(flow) /\ flow \in Flows /\ HoldsOn(flow)
      /\ Base.pending = {} /\ Start \notin Base.targets
      /\ HoldsFit(Base, accepted, stale \cup outdated)
      /\ HeldOf(Base) \subseteq HeldBy(saved) \cup {Start}
      /\ accepted \ {Start} \subseteq stale \cup outdated
      /\ ~HasCheckpoint => accepted = {}
  BY <1>1, BaseHolds
<1>3. PICK acc, out : acc = accepted' /\ out = stale' \cup outdated'
  OBVIOUS
<1>4. acc \ out = {} /\ (~HasCheckpoint => acc = {})
  BY <1>1, <1>2, <1>3
<1>5. HasCheckpoint => HoldsFit(saved, acc, out)
  <2> SUFFICES ASSUME HasCheckpoint PROVE HoldsFit(saved, acc, out)
    OBVIOUS
  <2>1. PICK acc0, out0 : acc0 = accepted /\ out0 = stale \cup outdated
    OBVIOUS
  <2>2. HoldsFit(saved, acc0, out0)
    BY <2>1, HoldOfCheckpoint
  <2>3. HoldsFit(saved, acc0 \ {Start}, out0 \ {Start})
    BY <1>2, <2>2, ForgottenHolds
  <2>4. acc = acc0 \ {Start} /\ out = out0 \ {Start}
    BY <1>1, <1>3, <2>1
  <2> QED
    BY <2>3, <2>4
<1>6. PICK items \in flow.selections, p \in PlanOptions :
          IF flow.planned /\ ~Resolvable(flow, p)
          THEN FailCoordinator
          ELSE BeginWork([Base EXCEPT !.outcome = "implemented"], items,
                         IF flow.planned THEN Plan(p, FALSE) ELSE Base.plan, FALSE)
  BY DEF PlannerSucceeds
<1>7. CASE FailCoordinator
  <2>1. saved' = saved /\ pc' = "idle"
    BY <1>7 DEF FailCoordinator, Stops
  <2> QED
    BY <1>1, <1>3, <1>4, <1>5, <2>1, LeaveHolds
<1>8. CASE (flow.planned => Resolvable(flow, p))
           /\ BeginWork([Base EXCEPT !.outcome = "implemented"], items,
                        IF flow.planned THEN Plan(p, FALSE) ELSE Base.plan, FALSE)
  <2> DEFINE s == [Base EXCEPT !.outcome = "implemented"]
             plan == IF flow.planned THEN Plan(p, FALSE) ELSE Base.plan
             kept == Base.completed \ Downstream(Base.targets)
  <2>1. s \in Record(flow) /\ s.completed = Base.completed /\ s.targets = Base.targets
    BY <1>2 DEF Record, Outcomes
  <2>2. plan \in PlanOf(flow)
    <3>1. CASE flow.planned
      <4>1. p \in flow.proposals /\ Resolvable(flow, p) /\ plan = Plan(p, FALSE)
        BY <1>8, <3>1 DEF PlanOptions
      <4>2. Plan(p, FALSE) \in PlanOf(flow)
        <5> HIDE DEF plan, s
        <5> QED
          BY <1>2, <4>1, ProposalsAssumption DEF Installed, PlanOf, Plan, Resolvable
      <4> QED
        BY <4>1, <4>2
    <3>2. CASE ~flow.planned
      BY <1>2, <3>2 DEF Record
    <3> QED
      BY <3>1, <3>2
  <2>3. items \in Selections(flow)
    BY DEF Selections
  <2>4. BeginWork(s, items, plan, FALSE)
    BY <1>8
  <2> HIDE DEF s, plan, kept
  <2>5. kept = HeldOf(Base) /\ kept = s.completed \ Downstream(s.targets)
    <3>1. Base.completed \subseteq FlowKeys(flow)
      BY <1>2 DEF Record
    <3> QED
      BY <1>2, <2>1, <3>1, HeldWithoutRequests DEF kept
  <2>6. Whole(kept) /\ kept \subseteq HeldBy(saved) \cup {Start} /\ Start \notin s.targets
    BY <1>2, <2>1, <2>5 DEF HoldsFit
  <2>7. acc \ out \subseteq (kept \cap KeysOf(Effective(flow, plan), items)) \cup {Start}
    BY <1>4
  <2>8. PICK no : no = FALSE
    OBVIOUS
  <2>9. BeginWork(s, items, plan, no)
    BY <2>4, <2>8
  <2>10. PICK t, keep : t = s /\ keep = kept
    OBVIOUS
  <2>11. /\ t \in Record(flow) /\ BeginWork(t, items, plan, no) /\ Start \notin t.targets
         /\ keep = t.completed \ Downstream(t.targets) /\ Whole(keep)
         /\ keep \subseteq HeldBy(saved) \cup {Start}
         /\ acc \ out \subseteq (keep \cap KeysOf(Effective(flow, plan), items)) \cup {Start}
    BY <2>1, <2>5, <2>6, <2>7, <2>9, <2>10
  <2> QED
    BY <1>1, <1>2, <1>3, <1>4, <1>5, <2>2, <2>3, <2>11, BeginHolds
<1>9. QED
  BY <1>6, <1>7, <1>8

LEMMA PlannerPausesHolds == IInv /\ HoldInv /\ PlannerPauses => StepHolds
<1> SUFFICES ASSUME IInv, HoldInv, PlannerPauses PROVE StepHolds
  OBVIOUS
<1>1. flow' = flow /\ pc = "plan" /\ UNCHANGED history
  BY DEF PlannerPauses
<1>2. PICK outcome \in {"needs_human", "needs_info"} :
          Pause([Base EXCEPT
                    !.outcome = outcome,
                    !.pending = IF outcome = "needs_human" THEN {Requested(Start)} ELSE {},
                    !.startApproved = FALSE, !.options = {},
                    !.startAction = IF outcome = "needs_info" THEN "revise" ELSE @], NoEffects)
  BY DEF PlannerPauses
<1> DEFINE pending == IF outcome = "needs_human" THEN {Requested(Start)} ELSE {}
           action == IF outcome = "needs_info" THEN "revise" ELSE Base.startAction
           r == [Base EXCEPT !.outcome = outcome, !.pending = pending, !.startApproved = FALSE,
                             !.options = {}, !.startAction = action]
<1>3. PICK acc, out : acc = accepted /\ out = stale \cup outdated
  OBVIOUS
<1>4. /\ Base \in Record(flow) /\ flow \in Flows /\ HoldsOn(flow)
      /\ Base.pending = {} /\ Start \notin Base.targets
      /\ HoldsFit(Base, acc, out)
      /\ HeldOf(Base) \subseteq HeldBy(saved) \cup {Start}
      /\ (Base.completed \cup acc) \ {Start} \subseteq out
  BY <1>1, <1>3, BaseHolds
<1>5. Pause(r, NoEffects)
  BY <1>2, <1>4 DEF Record
<1>6. \A q \in pending : q.key = Start /\ q.trigger = "agent_requested"
  BY DEF Requested, Approval
<1> HIDE DEF pending, action
<1>7. r # NoCheckpoint
  <2>1. "outcome" \in DOMAIN r /\ "outcome" \notin DOMAIN NoCheckpoint
    BY <1>4 DEF Record, NoCheckpoint
  <2> QED
    BY <2>1
<1>8. /\ r.completed = Base.completed /\ r.pending = pending /\ r.plan = Base.plan
      /\ r.items = Base.items /\ r.startAction = action /\ r.targets = Base.targets
      /\ r.change = Base.change
  BY <1>4 DEF Record
<1> HIDE DEF r
<1>9. PendingOf(r, "required") = {} /\ PendingOf(r, "agent_requested") \subseteq {Start}
  BY <1>6, <1>8 DEF PendingOf
<1>10. /\ Base.completed \subseteq FlowKeys(flow)
       /\ ResultsOf(Base) = Base.completed /\ RedoneOf(Base) = Base.targets
  BY <1>4, HeldWithoutRequests DEF Record
<1>11. ResultsOf(r) = ResultsOf(Base) /\ RedoneOf(r) = RedoneOf(Base) /\ HeldOf(r) = HeldOf(Base)
  <2>1. ResultsOf(r) = ResultsOf(Base)
    BY <1>8, <1>9, <1>10 DEF ResultsOf
  <2>2. RedoneOf(r) = RedoneOf(Base)
    BY <1>4, <1>8, <1>9, <1>10 DEF RedoneOf
  <2> QED
    BY <2>1, <2>2 DEF HeldOf
<1>12. GraphKeys(r, r.plan) = GraphKeys(Base, Base.plan)
      /\ GraphKeys(r, ProposedPlan(r)) = GraphKeys(Base, ProposedPlan(Base))
  BY <1>8 DEF GraphKeys, ProposedPlan
<1>13. ResultsFit(r, acc, out)
  BY <1>4, <1>10, <1>11, <1>12 DEF HoldsFit, ResultsFit
<1>14. RequestsFit(r)
  BY <1>4, <1>8, <1>9, <1>12 DEF HoldsFit, RequestsFit
<1>15. HoldsFit(r, acc, out) /\ HeldOf(r) \subseteq HeldBy(saved) \cup {Start}
  BY <1>4, <1>11, <1>13, <1>14 DEF HoldsFit
<1>16. acc = accepted' /\ out = stale' \cup outdated'
  BY <1>1, <1>3 DEF history
<1>17. QED
  BY <1>1, <1>5, <1>7, <1>15, <1>16, PauseHolds

-----------------------------------------------------------------------------
(* Results: waves *)

\* What is ready waits for nothing but completed tasks.
LEMMA ReadyHolds ==
  ASSUME flow \in Flows, HoldsOn(flow), mem \in Memory(flow), NEW wave \in Waves(Ready)
  PROVE  /\ wave \subseteq Keys(mem) \ mem.completed /\ wave \subseteq FlowKeys(flow)
         /\ \A k \in wave : NeedsOf(k) \subseteq mem.completed
<1>1. mem.plan \in PlanOf(flow) /\ mem.items \in Selections(flow)
  BY DEF Memory
<1>2. wave \subseteq Ready
  BY DEF Waves
<1>3. Ready \subseteq Keys(mem) \ mem.completed
  BY DEF Ready, ReadyIn, Keys
<1>4. wave \subseteq FlowKeys(flow)
  BY <1>1, <1>2, <1>3, KeysInFlow DEF Keys
<1>5. ASSUME NEW k \in wave PROVE NeedsOf(k) \subseteq mem.completed
  <2>1. k \in KeysOf(Effective(flow, mem.plan), mem.items)
    BY <1>2, <1>3 DEF Keys
  <2>2. NeedsOf(k) = DependenciesOf(flow, mem.items, k)
    BY <1>1, <2>1, NeedsInGraph
  <2>3. /\ Effective(flow, mem.plan).perItem = flow.perItem
        /\ Effective(flow, mem.plan).dependencies = flow.dependencies
        /\ Effective(flow, mem.plan).acrossItems = flow.acrossItems
    BY FlowsAssumption, ReservedAssumption DEF Effective
  <2>4. DependenciesOf(Effective(flow, mem.plan), mem.items, k) = DependenciesOf(flow, mem.items, k)
    BY <2>3 DEF DependenciesOf, KeyOf
  <2>5. DependenciesOf(Effective(flow, mem.plan), mem.items, k) \subseteq mem.completed
    BY <1>2 DEF Ready, ReadyIn
  <2> QED
    BY <2>2, <2>4, <2>5
<1>6. QED
  BY <1>2, <1>3, <1>4, <1>5

\* A checkpoint without requests, taken of an executor, holds what it has completed.
LEMMA SnapshotHolds ==
  ASSUME flow \in Flows, HoldsOn(flow), NEW m \in Memory(flow), NEW acc, NEW out, NEW outcome,
         WorkHolds(m, acc, out)
  PROVE  LET r == Snapshot(m, outcome, {}, TRUE)
         IN  /\ HoldsFit(r, acc, out) /\ HeldOf(r) = m.completed /\ r # NoCheckpoint
             /\ Mirrors(r, m) /\ GraphKeys(r, r.plan) = Keys(m)
<1>1. PICK r : r = Snapshot(m, outcome, {}, TRUE)
  OBVIOUS
<1>2. /\ r.completed = m.completed /\ r.pending = {} /\ r.plan = m.plan
      /\ r.items = m.items /\ r.startAction = "none" /\ r.targets = {} /\ r.change = NoChange
  BY <1>1 DEF Snapshot
<1>3. PendingKeys({}) = {} /\ ~NoChange.ready
  BY DEF PendingKeys, NoChange
<1>4. GraphKeys(r, r.plan) = Keys(m) /\ m.completed \subseteq FlowKeys(flow)
  BY <1>2 DEF GraphKeys, Keys, Memory
<1>5. HoldsFit(r, acc, out) /\ HeldOf(r) = r.completed
  BY <1>2, <1>3, <1>4, QuietHolds DEF WorkHolds
<1>6. r # NoCheckpoint
  <2>1. "outcome" \in DOMAIN r /\ "outcome" \notin DOMAIN NoCheckpoint
    BY <1>1 DEF Snapshot, NoCheckpoint
  <2> QED
    BY <2>1
<1>7. QED
  BY <1>1, <1>2, <1>4, <1>5, <1>6 DEF Mirrors

LEMMA StartWaveHolds == IInv /\ HoldInv /\ StartWave => StepHolds
<1> SUFFICES ASSUME IInv, HoldInv, StartWave PROVE StepHolds
  OBVIOUS
<1>1. flow' = flow /\ pc = "wave" /\ UNCHANGED history
  BY DEF StartWave
<1>2. flow \in Flows /\ mem \in Memory(flow) /\ HoldsOn(flow)
  BY MemoryOf DEF HoldInv
<1>3. PICK acc, out : acc = accepted /\ out = stale \cup outdated
  OBVIOUS
<1>4. acc = accepted' /\ out = stale' \cup outdated'
  BY <1>1, <1>3 DEF history
<1>5. WorkHolds(mem, acc, out) /\ mem.completed \ {Start} \subseteq HeldBy(saved)
  BY <1>1, <1>3 DEF HoldInv, HoldsLeft
<1>6. CASE FailCoordinator
  <2>1. saved' = saved /\ pc' = "idle"
    BY <1>6 DEF FailCoordinator, Stops
  <2> QED
    BY <1>1, <2>1, HoldStays
<1>7. ASSUME NEW wave \in Waves(Ready),
             LET m == [EnsureWaiting(mem, wave) EXCEPT
                           !.attempt = @ + 1, !.running = @ \cup wave, !.wave = wave]
             IN  /\ Commit(Snapshot(m, m.outcome, {}, TRUE),
                           [NoEffects EXCEPT !.staged = m.staged, !.started = wave])
                 /\ mem' = [m EXCEPT !.staged = {}]
                 /\ pc' = "run"
                 /\ UNCHANGED <<job, issue>>
      PROVE  StepHolds
  <2> DEFINE w == EnsureWaiting(mem, wave)
             m == [w EXCEPT !.attempt = @ + 1, !.running = @ \cup wave, !.wave = wave]
             last == [m EXCEPT !.staged = {}]
  <2>1. /\ wave \subseteq Keys(mem) \ mem.completed /\ wave \in SUBSET FlowKeys(flow)
        /\ \A k \in wave : NeedsOf(k) \subseteq mem.completed
    BY <1>2, ReadyHolds
  <2>2. /\ w \in Memory(flow)
        /\ \A field \in MemoryFields \ {"staged", "finished"} : w[field] = mem[field]
    BY <1>2, <2>1, EnsureWaitingFits, FieldsOfMemory
  <2>3. w.completed = mem.completed /\ w.plan = mem.plan /\ w.items = mem.items
    BY <2>2 DEF MemoryFields
  <2> HIDE DEF w
  <2>4. /\ m \in Memory(flow) /\ m.completed = mem.completed /\ m.plan = mem.plan
        /\ m.items = mem.items /\ m.wave = wave
    <3> DEFINE attempt == w.attempt + 1
               running == w.running \cup wave
    <3>1. attempt \in Nat /\ running \subseteq FlowKeys(flow)
      BY <2>1, <2>2 DEF Memory
    <3>2. m = [w EXCEPT !.attempt = attempt, !.running = running, !.wave = wave]
      BY <2>2 DEF Memory
    <3> HIDE DEF m, attempt, running
    <3> QED
      BY <2>1, <2>2, <2>3, <3>1, <3>2 DEF Memory
  <2>5. saved' = Snapshot(m, m.outcome, {}, TRUE) /\ mem' = last /\ pc' = "run"
    BY <1>7 DEF w, Commit
  <2> HIDE DEF m
  <2>6. last.completed = mem.completed /\ last.plan = mem.plan /\ last.items = mem.items
        /\ last.wave = wave
    BY <2>4 DEF Memory
  <2> HIDE DEF last
  <2>7. Keys(m) = Keys(mem) /\ Keys(last) = Keys(mem)
    BY <2>4, <2>6 DEF Keys
  <2>8. WorkHolds(m, acc, out) /\ WorkHolds(last, acc, out)
    BY <1>5, <2>4, <2>6, <2>7 DEF WorkHolds
  <2>9. PICK r, at : r = Snapshot(m, m.outcome, {}, TRUE) /\ at = "run"
    OBVIOUS
  <2>10. HoldsFit(r, acc, out) /\ HeldOf(r) = m.completed /\ r # NoCheckpoint /\ Mirrors(r, m)
    BY <1>2, <2>4, <2>8, <2>9, SnapshotHolds
  <2>11. WaveHolds(last) /\ Mirrors(r, last) /\ last.wave \cap last.completed = {}
    BY <1>5, <2>1, <2>4, <2>6, <2>7, <2>10 DEF WaveHolds, Mirrors, WorkHolds
  <2>12. HoldsLeft(r, last, at, acc, out)
    BY <2>8, <2>9, <2>10, <2>11 DEF HoldsLeft
  <2>13. Follows(saved, r)
    BY <1>5, <2>4, <2>10 DEF Follows, HeldBy
  <2>14. saved' = r /\ mem' = last /\ pc' = at
    BY <2>5, <2>9
  <2> QED
    BY <1>1, <1>4, <2>12, <2>13, <2>14, StepOfLeft
<1>8. QED
  BY <1>6, <1>7 DEF StartWave

LEMMA FinishWaveHolds == IInv /\ HoldInv /\ FinishWave => StepHolds
<1> SUFFICES ASSUME IInv, HoldInv, FinishWave PROVE StepHolds
  OBVIOUS
<1>1. flow' = flow /\ pc = "run" /\ pc' = "results"
  BY DEF FinishWave
<1>2. flow \in Flows /\ mem \in Memory(flow) /\ HoldsOn(flow)
  BY MemoryOf DEF HoldInv
<1>3. PICK acc0, out0 : acc0 = accepted /\ out0 = stale \cup outdated
  OBVIOUS
<1>4. /\ WorkHolds(mem, acc0, out0) /\ WaveHolds(mem) /\ saved # NoCheckpoint
      /\ Mirrors(saved, mem) /\ mem.wave \cap mem.completed = {}
  BY <1>1, <1>3 DEF HoldInv, HoldsLeft
<1>5. mem.wave \in SUBSET FlowKeys(flow) /\ mem.outcome \in Outcomes
  BY <1>2 DEF Memory
<1>6. PICK answers \in [mem.wave -> UNION {AnswersOf(k) : k \in mem.wave}] :
        LET done  == {k \in Answering(answers, "implemented") : ~Gated(mem.plan, k)}
            heard == mem.wave \ Answering(answers, "error")
            fresh(late) == {k \in Answering(answers, "implemented") :
                                DependenciesOf(flow, mem.items, k) \cap late = {}}
        IN  /\ \A k \in mem.wave : answers[k] \in AnswersOf(k)
            /\ \E last \in IF heard = {} THEN {mem.outcome} ELSE {OutcomeOf(answers[k]) : k \in heard} :
                  LET m == [mem EXCEPT !.completed = @ \cup done, !.running = @ \ done,
                                       !.finished = @ \cup mem.wave,
                                       !.outcome = last, !.answers = answers]
                  IN  /\ Commit(Snapshot(m, last, {}, TRUE), [NoEffects EXCEPT !.ended = mem.wave])
                      /\ mem' = m
            /\ accepted' = accepted \ mem.wave
            /\ stale' = stale \ fresh(stale)
            /\ outdated' = outdated \ fresh(outdated)
  BY DEF FinishWave
<1> DEFINE done == {k \in Answering(answers, "implemented") : ~Gated(mem.plan, k)}
           heard == mem.wave \ Answering(answers, "error")
<1>7. answers \in AnswersIn(flow) /\ DOMAIN answers = mem.wave
  BY <1>2, <1>5, AnswersTyped
<1>8. PICK last \in IF heard = {} THEN {mem.outcome} ELSE {OutcomeOf(answers[k]) : k \in heard} :
        LET m == [mem EXCEPT !.completed = @ \cup done, !.running = @ \ done,
                             !.finished = @ \cup mem.wave,
                             !.outcome = last, !.answers = answers]
        IN  /\ Commit(Snapshot(m, last, {}, TRUE), [NoEffects EXCEPT !.ended = mem.wave])
            /\ mem' = m
  BY <1>6
<1>9. last \in Outcomes
  <2>1. \A k \in heard : answers[k] \in AnswerOf(flow) /\ answers[k][1] # "error"
    <3>1. answers \in [mem.wave -> AnswerOf(flow)]
      BY <1>7 DEF AnswersIn
    <3> QED
      BY <1>7, <3>1 DEF Answering
  <2>2. \A k \in heard : OutcomeOf(answers[k]) \in Outcomes
    BY <2>1, OutcomesOfAnswers
  <2> HIDE DEF heard
  <2> QED
    BY <1>5, <1>8, <2>2
<1>10. PICK acc, out : acc = accepted' /\ out = stale' \cup outdated'
  OBVIOUS
<1>11. acc \ out \subseteq acc0 \ out0
  <2>1. Answering(answers, "implemented") \subseteq mem.wave
    BY <1>7 DEF Answering
  <2>2. /\ stale \ mem.wave \subseteq stale' /\ outdated \ mem.wave \subseteq outdated'
        /\ accepted' = accepted \ mem.wave
    BY <1>6, <2>1
  <2> QED
    BY <1>3, <1>10, <2>2
<1> DEFINE completed == mem.completed \cup done
           running == mem.running \ done
           finished == mem.finished \cup mem.wave
           m == [mem EXCEPT !.completed = completed, !.running = running,
                            !.finished = finished, !.outcome = last, !.answers = answers]
<1>12. saved' = Snapshot(m, last, {}, TRUE) /\ mem' = m
  BY <1>2, <1>8 DEF Memory, Commit
<1>13. done \subseteq mem.wave
  BY <1>7 DEF Answering
<1>14. completed \subseteq FlowKeys(flow) /\ running \subseteq FlowKeys(flow)
       /\ finished \subseteq FlowKeys(flow)
  BY <1>2, <1>5, <1>13 DEF Memory
<1> HIDE DEF running, finished, m, heard
<1>15. /\ m \in Memory(flow) /\ m.completed = completed /\ m.answers = answers
       /\ m.wave = mem.wave /\ m.plan = mem.plan /\ m.items = mem.items
  <2> HIDE DEF completed, done
  <2> QED
    BY <1>2, <1>7, <1>9, <1>14 DEF m, Memory
<1>16. Keys(m) = Keys(mem)
  BY <1>15 DEF Keys
<1>17. AnswersHold(m)
  <2>1. mem.wave \cap completed = done
    BY <1>4, <1>13
  <2> QED
    BY <1>6, <1>7, <1>15, <2>1 DEF AnswersHold
<1> HIDE DEF done
<1>18. WorkHolds(m, acc, out)
  <2>1. Whole(completed)
    BY <1>4, <1>13 DEF WorkHolds, WaveHolds, Whole
  <2> QED
    BY <1>4, <1>11, <1>13, <1>15, <1>16, <2>1 DEF WorkHolds, WaveHolds
<1>19. WaveHolds(m)
  BY <1>4, <1>15, <1>16 DEF WaveHolds
<1>20. PICK r, at : r = Snapshot(m, last, {}, TRUE) /\ at = "results"
  OBVIOUS
<1>21. /\ HoldsFit(r, acc, out) /\ HeldOf(r) = m.completed /\ r # NoCheckpoint
       /\ Mirrors(r, m) /\ GraphKeys(r, r.plan) = Keys(m)
  BY <1>2, <1>15, <1>18, <1>20, SnapshotHolds
<1>22. HoldsLeft(r, m, at, acc, out)
  BY <1>17, <1>18, <1>19, <1>20, <1>21 DEF HoldsLeft
<1>23. HeldBy(saved) = mem.completed
  <2>1. saved.completed \subseteq FlowKeys(flow) /\ saved.pending = {} /\ saved.targets = {}
    BY <1>2, <1>4 DEF Mirrors, Memory
  <2>2. HeldOf(saved) = saved.completed \ Downstream({})
    BY <2>1, HeldWithoutRequests
  <2>3. Downstream({}) = {}
    BY DEF Downstream
  <2> QED
    BY <1>4, <2>2, <2>3 DEF HeldBy, Mirrors
<1>24. GraphKeys(saved, saved.plan) = Keys(mem)
  BY <1>4 DEF GraphKeys, Keys, Mirrors
<1>25. Follows(saved, r)
  <2>1. HeldBy(r) \ HeldBy(saved) \subseteq mem.wave
    BY <1>13, <1>15, <1>21, <1>23 DEF HeldBy
  <2>2. r.items = saved.items
    BY <1>4, <1>15, <1>21 DEF Mirrors
  <2> QED
    BY <1>4, <1>16, <1>21, <1>23, <1>24, <2>1, <2>2 DEF Follows, WaveHolds
<1>26. saved' = r /\ mem' = m /\ pc' = at
  BY <1>1, <1>12, <1>20
<1>27. QED
  BY <1>1, <1>10, <1>22, <1>25, <1>26, StepOfLeft

LEMMA CompleteHolds == IInv /\ HoldInv /\ Complete => StepHolds
<1> SUFFICES ASSUME IInv, HoldInv, Complete PROVE StepHolds
  OBVIOUS
<1>1. flow' = flow /\ pc = "wave" /\ pc' = "finish" /\ UNCHANGED history
  BY DEF Complete
<1> DEFINE s == Snapshot(mem, "implemented", {}, TRUE)
           r == [s EXCEPT !.done = TRUE]
<1>2. saved' = r
  BY DEF Complete, Commit
<1>3. PICK acc, out : acc = accepted /\ out = stale \cup outdated
  OBVIOUS
<1>4. acc = accepted' /\ out = stale' \cup outdated'
  BY <1>1, <1>3 DEF history
<1>5. WorkHolds(mem, acc, out) /\ mem.completed \ {Start} \subseteq HeldBy(saved)
  BY <1>1, <1>3 DEF HoldInv, HoldsLeft
<1>6. HoldsFit(s, acc, out) /\ HeldOf(s) = mem.completed
  <2>1. flow \in Flows /\ mem \in Memory(flow) /\ HoldsOn(flow)
    BY MemoryOf DEF HoldInv
  <2> HIDE DEF s
  <2>2. PICK outcome : outcome = "implemented"
    OBVIOUS
  <2> QED
    BY <1>5, <2>1, <2>2, SnapshotHolds DEF s
<1>7. /\ r.completed = s.completed /\ r.pending = s.pending /\ r.plan = s.plan
      /\ r.items = s.items /\ r.startAction = s.startAction /\ r.targets = s.targets
      /\ r.change = s.change
  BY DEF Snapshot
<1>8. r # NoCheckpoint
  <2>1. "outcome" \in DOMAIN r /\ "outcome" \notin DOMAIN NoCheckpoint
    BY DEF Snapshot, NoCheckpoint
  <2> QED
    BY <2>1
<1> HIDE DEF r, s
<1>9. HoldsFit(r, acc, out) /\ HeldOf(r) = mem.completed
  BY <1>6, <1>7, SameHeld
<1>10. Follows(saved, r)
  BY <1>5, <1>8, <1>9 DEF Follows, HeldBy
<1>11. PICK at : at = pc'
  OBVIOUS
<1>12. QED
  BY <1>1, <1>2, <1>4, <1>8, <1>9, <1>10, <1>11, RestHolds

-----------------------------------------------------------------------------
(* Results: feedback *)

\* Feedback restarts tasks of the graph other than the start, and asks about what it blocks.
LEMMA FeedbackApart ==
  ASSUME flow \in Flows, HoldsOn(flow), NEW m \in Memory(flow), WaveHolds(m), AnswersHold(m)
  PROVE  /\ Start \notin Fed(m) \cup Blocked(m) /\ ~PlanSentBack(m)
         /\ Answering(m.answers, "implemented") \subseteq m.wave \ {Start}
         /\ GatedResults(m) \subseteq m.wave \ m.completed
         /\ Handing(m) \cup Clarifying(m) \subseteq m.wave \ m.completed
         /\ Handing(m) \cap GatedResults(m) = {} /\ Clarifying(m) \subseteq Blocked(m)
         /\ Clarifying(m) \cap GatedResults(m) = {} /\ Clarifying(m) \cap Handing(m) = {}
<1>1. DOMAIN m.answers = m.wave /\ Start \notin m.wave
  BY DEF AnswersHold, WaveHolds
<1>2. ASSUME NEW k \in Handing(m) PROVE TargetOf(m, k) # Start
  <2>1. k \in m.wave /\ m.answers[k] \in AnswersOf(k) /\ m.answers[k][1] = "handoff"
    BY <1>1 DEF Handing, IsHandoff, AnswersHold
  <2>2. PICK t \in flow.handoffs[k[1]] : m.answers[k] = Handoff(t)
    BY <2>1 DEF AnswersOf, Plain, Broken
  <2>3. TargetOf(m, k)[1] = t /\ Start[1] = flow.start
    BY <2>2 DEF TargetOf, Normal, KeyOf, Handoff, Start, StartKey
  <2>4. k[1] \in flow.tasks
    <3>1. k \in FlowKeys(flow)
      BY <2>1 DEF Memory
    <3> QED
      BY <3>1, FlowsAssumption DEF FlowKeys, KeysOf
  <2> QED
    BY <2>2, <2>3, <2>4 DEF HoldsOn
<1>3. ASSUME NEW kind PROVE Answering(m.answers, kind) \subseteq m.wave
  BY <1>1 DEF Answering
<1>4. Start \notin Fed(m) \cup Blocked(m)
  <2>1. Start \notin Fed(m)
    BY <1>2 DEF Fed, Feeding
  <2>2. Start \notin {TargetOf(m, k) : k \in OverLimit(m)}
    BY <1>2 DEF OverLimit
  <2> QED
    BY <1>1, <1>3, <2>1, <2>2 DEF Blocked
<1>5. Handing(m) = {k \in m.wave : m.answers[k][1] = "handoff"}
  BY <1>1 DEF Handing, IsHandoff
<1>6. /\ Clarifying(m) = {k \in m.wave : m.answers[k][1] = "needs_info"}
      /\ Answering(m.answers, "implemented") = {k \in m.wave : m.answers[k][1] = "implemented"}
  BY <1>1 DEF Clarifying, Answering
<1>7. GatedResults(m) = {k \in m.wave : m.answers[k][1] = "implemented" /\ Gated(m.plan, k)}
  BY <1>6 DEF GatedResults
<1>8. m.wave \cap m.completed = {k \in m.wave : m.answers[k][1] = "implemented" /\ ~Gated(m.plan, k)}
  BY <1>6 DEF AnswersHold
<1>9. Clarifying(m) \subseteq Blocked(m)
  BY DEF Clarifying, Blocked
<1>10. ~PlanSentBack(m)
  BY <1>4 DEF PlanSentBack
<1>11. QED
  BY <1>1, <1>4, <1>5, <1>6, <1>7, <1>8, <1>9, <1>10

\* What feedback asks about: gated results it does not restart, and what it blocks or redirects.
LEMMA FeedbackAsks ==
  ASSUME flow \in Flows, HoldsOn(flow), NEW m \in Memory(flow), WaveHolds(m), AnswersHold(m),
         NEW r, r.pending = AllAsked(m), AllAsked(m) # {}
  PROVE  /\ PendingOf(r, "required") = GatedResults(m) \ RestartedByFeedback(m)
         /\ PendingOf(r, "agent_requested")
               = {k \in Handing(m) : ~Included(m, k)} \cup (Blocked(m) \ GatedResults(m))
<1> DEFINE gated == GatedResults(m)
           direct == {k \in Handing(m) : ~Included(m, k)}
           judged == (Blocked(m) \ Clarifying(m)) \ gated
           again == RestartedByFeedback(m)
<1>1. /\ ~PlanSentBack(m) /\ Clarifying(m) \subseteq Blocked(m)
      /\ Clarifying(m) \cap gated = {} /\ Clarifying(m) \cap Handing(m) = {}
  BY FeedbackApart
<1>2. Asked(m) = {Required(k) : k \in gated \ again} \cup {Requested(k) : k \in direct \cup judged}
  <2>1. {Requested(k) : k \in {x \in {Start} : PlanSentBack(m)}} = {}
    BY <1>1
  <2>2. {p \in {Required(k) : k \in gated} : p.key \notin again} = {Required(k) : k \in gated \ again}
    BY DEF Required, Approval
  <2>3. Asked(m) = {p \in {Required(k) : k \in gated} : p.key \notin again}
                      \cup {Requested(k) : k \in direct} \cup {Requested(k) : k \in judged}
    <3> HIDE DEF again
    <3> QED
      BY <2>1 DEF Asked, Clarifying, again
  <2> HIDE DEF gated, again, direct, judged
  <2> QED
    BY <2>2, <2>3
<1> HIDE DEF gated, direct, judged, again
<1>3. Asked(m) # {}
  BY DEF AllAsked
<1>4. PendingKeys(Asked(m)) = (gated \ again) \cup direct \cup judged
  <2>1. \A k : Required(k).key = k /\ Requested(k).key = k
    BY DEF Required, Requested, Approval
  <2> QED
    BY <1>2, <2>1 DEF PendingKeys
<1>5. Clarifying(m) \ PendingKeys(Asked(m)) = Clarifying(m)
  BY <1>1, <1>4 DEF direct, judged
<1>6. AllAsked(m) = {Required(k) : k \in gated \ again}
                       \cup {Requested(k) : k \in direct \cup judged \cup Clarifying(m)}
  BY <1>2, <1>3, <1>5 DEF AllAsked
<1>7. \A k : /\ Required(k).key = k /\ Required(k).trigger = "required"
             /\ Requested(k).key = k /\ Requested(k).trigger = "agent_requested"
  BY DEF Required, Requested, Approval
<1>8. PendingOf(r, "required") = gated \ again
  BY <1>6, <1>7 DEF PendingOf
<1>9. PendingOf(r, "agent_requested") = direct \cup judged \cup Clarifying(m)
  BY <1>6, <1>7 DEF PendingOf
<1>10. direct \cup judged \cup Clarifying(m) = direct \cup (Blocked(m) \ gated)
  BY <1>1 DEF judged
<1>11. QED
  BY <1>8, <1>9, <1>10 DEF gated, direct, again

\* The results kept beside requests are whole, and what the requests redo lies apart from them.
LEMMA AskedHolds ==
  ASSUME flow \in Flows, HoldsOn(flow), NEW C, C \subseteq FlowKeys(flow), Whole(C),
         NEW wave, wave \subseteq FlowKeys(flow), \A k \in wave : NeedsOf(k) \subseteq C,
         NEW gated, gated \subseteq wave \ C, NEW direct, direct \subseteq wave \ (C \cup gated),
         NEW fed, NEW blocked
  PROVE  LET kept == C \ Downstream(fed \cup blocked)
             results == kept \cup (gated \ Downstream(fed))
             redone == direct \cup (blocked \ gated)
         IN  /\ Whole(results \ Downstream(redone))
             /\ (results \ Downstream(fed \cup blocked)) \cap Downstream(redone) = {}
<1> DEFINE sent == Downstream(fed \cup blocked)
           kept == C \ sent
           results == kept \cup (gated \ Downstream(fed))
           redone == direct \cup (blocked \ gated)
<1>1. Downstream(redone) = Downstream(direct) \cup Downstream(blocked \ gated)
  BY DownstreamOfBoth
<1>2. sent = Downstream(fed) \cup Downstream(blocked)
  BY DownstreamOfBoth
<1>3. Downstream(blocked \ gated) \subseteq Downstream(blocked)
  BY DownstreamOfBoth
<1>4. Downstream(blocked) \subseteq Downstream(blocked \ gated) \cup Downstream(gated)
  <2>1. Downstream(blocked) \subseteq Downstream((blocked \ gated) \cup gated)
    BY DEF Downstream
  <2> QED
    BY <2>1, DownstreamOfBoth
<1>5. Downstream(gated) \cap C = {}
  <2>1. gated \cap C = {}
    OBVIOUS
  <2> QED
    BY <2>1, NotDownstream
<1>6. Downstream(direct) \cap (C \cup gated) = {}
  <2> DEFINE apart == C \cup gated
  <2>1. Whole(apart) /\ apart \subseteq FlowKeys(flow) /\ direct \cap apart = {}
    BY DEF Whole
  <2> HIDE DEF apart
  <2>2. Downstream(direct) \cap apart = {}
    BY <2>1, NotDownstream
  <2> QED
    BY <2>2 DEF apart
<1>7. Whole(kept)
  BY WholeLess
<1> HIDE DEF sent, redone
<1>8. ASSUME NEW k \in results \ Downstream(redone)
      PROVE  NeedsOf(k) \subseteq results \ Downstream(redone)
  <2>1. k \in FlowKeys(flow)
    OBVIOUS
  <2>2. NeedsOf(k) \cap Downstream(redone) = {}
    BY <1>8, <2>1, DownstreamKeys
  <2>3. CASE k \in kept
    BY <1>7, <2>2, <2>3 DEF Whole
  <2>4. CASE k \in gated \ Downstream(fed)
    <3>1. NeedsOf(k) \subseteq C
      BY <2>4
    <3>2. NeedsOf(k) \cap Downstream(fed) = {}
      BY <2>1, <2>4, DownstreamKeys
    <3>3. NeedsOf(k) \cap Downstream(blocked) = {}
      BY <1>1, <1>4, <1>5, <2>2, <3>1
    <3> QED
      BY <1>2, <2>2, <3>1, <3>2, <3>3
  <2> QED
    BY <1>8, <2>3, <2>4
<1>9. (results \ sent) \cap Downstream(redone) = {}
  BY <1>1, <1>2, <1>3, <1>6
<1>10. QED
  BY <1>8, <1>9 DEF Whole, sent, redone

LEMMA CollectHolds ==
  ASSUME IInv, HoldInv, pc = "results", flow' = flow, CollectFeedback(mem)
  PROVE  StepHolds
<1> DEFINE asked == AllAsked(mem)
           m1 == AfterFeedback(mem)
           pauses == asked # {} \/ Clarifying(mem) # {}
           keys == IF pauses THEN Waiting(m1, asked) \cup RestartedByFeedback(mem)
                             ELSE RestartedByFeedback(mem)
           m == EnsureWaiting(m1, keys)
           e == [NoEffects EXCEPT !.staged = m.staged]
           s == Snapshot(m, "needs_info", {}, TRUE)
<1>1. /\ flow \in Flows /\ HoldsOn(flow) /\ mem \in Memory(flow)
      /\ mem.plan \in PlanOf(flow) /\ mem.items \in Selections(flow)
      /\ mem.wave \subseteq FlowKeys(flow) /\ mem.completed \subseteq FlowKeys(flow)
  BY MemoryOf DEF HoldInv, Memory
<1>2. PICK acc0, out0 : acc0 = accepted /\ out0 = stale \cup outdated
  OBVIOUS
<1>3. /\ WorkHolds(mem, acc0, out0) /\ WaveHolds(mem) /\ AnswersHold(mem)
      /\ saved # NoCheckpoint /\ Mirrors(saved, mem)
  BY <1>2 DEF HoldInv, HoldsLeft
<1>4. CASE ~((Fed(mem) \cup Blocked(mem)) \subseteq Keys(mem))
  <2>1. saved' = saved /\ pc' = "idle" /\ UNCHANGED history
    BY <1>4 DEF CollectFeedback, FeedbackEnds, Stops
  <2> QED
    BY <2>1, HoldStays
<1>5. CASE (Fed(mem) \cup Blocked(mem)) \subseteq Keys(mem)
  <2> DEFINE sent == Downstream(Fed(mem) \cup Blocked(mem))
             C == mem.completed
             gated == GatedResults(mem)
             direct == {k \in Handing(mem) : ~Included(mem, k)}
             redone == direct \cup (Blocked(mem) \ gated)
             G == Keys(mem)
  <2>1. \/ asked # {} /\ Pause(Snapshot(m, "needs_human", asked, TRUE), e)
        \/ asked = {} /\ Pause([s EXCEPT !.targets = Clarifying(mem)], e)
        \/ /\ asked = {} /\ Commit(Snapshot(m, m.outcome, {}, TRUE), e)
           /\ mem' = [m EXCEPT !.staged = {}]
           /\ pc' = "wave"
    BY <1>5 DEF CollectFeedback
  <2>2. PICK acc, out : acc = accepted' /\ out = stale' \cup outdated'
    OBVIOUS
  <2>3. acc = acc0 /\ out0 \cup (sent \cap G) \subseteq out
    <3>1. /\ accepted' = accepted
          /\ stale' = stale \cup SentBack(mem.plan, mem.items, Fed(mem) \cup Blocked(mem))
          /\ outdated' = outdated \cup Outdated(mem.plan, mem.items, Fed(mem) \cup Blocked(mem))
      BY <1>5 DEF CollectFeedback
    <3>2. PICK x : x = Fed(mem) \cup Blocked(mem)
      OBVIOUS
    <3>3. Downstream(x) \cap G \subseteq SentBack(mem.plan, mem.items, x \cap G)
                                            \cup Outdated(mem.plan, mem.items, x \cap G)
      BY <1>1, SentBackReaches DEF Keys
    <3>4. x \cap G = x
      BY <1>5, <3>2
    <3> QED
      BY <1>2, <2>2, <3>1, <3>2, <3>3, <3>4
  <2>4. /\ Start \notin Fed(mem) \cup Blocked(mem)
        /\ gated \subseteq mem.wave \ C /\ direct \subseteq mem.wave \ (C \cup gated)
        /\ Clarifying(mem) \subseteq Blocked(mem)
    BY <1>1, <1>3, FeedbackApart
  <2>5. /\ C \subseteq G /\ Whole(C) /\ Start \in C /\ acc0 \ out0 \subseteq C
        /\ mem.wave \subseteq G \ {Start} /\ \A k \in mem.wave : NeedsOf(k) \subseteq C
        /\ G \subseteq FlowKeys(flow)
    BY <1>1, <1>3, KeysInFlow DEF WorkHolds, WaveHolds, Keys
  <2>6. /\ RestartedByFeedback(mem) = Downstream(Fed(mem)) \cap G
        /\ Restarted(mem) = sent \cap G
    <3>1. \A x : RestartedBy(mem.plan, mem.items, x) = Downstream(x) \cap G
      BY <1>1, RestartedIsDownstream DEF Keys
    <3>2. sent = Downstream(Fed(mem)) \cup Downstream(Blocked(mem))
      BY DownstreamOfBoth
    <3> QED
      BY <3>1, <3>2 DEF RestartedByFeedback, Restarted
  <2>7. /\ m1 \in Memory(flow) /\ m1.completed = C \ sent
        /\ m1.plan = mem.plan /\ m1.items = mem.items /\ m1.wave = {}
    <3>1. /\ m1 \in Memory(flow) /\ m1.completed = C \ Restarted(mem)
          /\ m1.plan = mem.plan /\ m1.items = mem.items /\ m1.wave = {}
      BY <1>1, AfterFeedbackFits
    <3> HIDE DEF m1, sent
    <3> QED
      BY <2>5, <2>6, <3>1
  <2>8. keys \in SUBSET FlowKeys(flow)
    <3>1. Waiting(m1, asked) \subseteq FlowKeys(flow)
      <4> HIDE DEF m1, asked
      <4> QED
        BY <2>5, <2>7 DEF Waiting, Incomplete, Keys
    <3> QED
      BY <2>5, <2>6, <3>1
  <2> HIDE DEF m1, asked, keys, sent, gated, direct
  <2>9. m \in Memory(flow) /\ \A field \in MemoryFields \ {"staged", "finished"} : m[field] = m1[field]
    BY <1>1, <2>7, <2>8, EnsureWaitingFits, FieldsOfMemory
  <2>10. m.completed = C \ sent /\ m.plan = mem.plan /\ m.items = mem.items
    BY <2>7, <2>9 DEF MemoryFields
  <2> HIDE DEF m, e
  <2>11. Keys(m) = G
    BY <2>10 DEF Keys
  <2>12. Whole(C \ sent) /\ Start \notin sent
    BY <1>1, <2>4, <2>5, WholeLess, DownstreamKeys DEF sent
  <2>13. WorkHolds(m, acc, out)
    BY <2>3, <2>5, <2>10, <2>11, <2>12 DEF WorkHolds
  <2>14. HeldBy(saved) = C
    <3>1. saved.completed \subseteq FlowKeys(flow) /\ saved.pending = {} /\ saved.targets = {}
      BY <1>1, <1>3 DEF Mirrors
    <3>2. HeldOf(saved) = saved.completed \ Downstream({})
      BY <3>1, HeldWithoutRequests
    <3>3. Downstream({}) = {}
      BY DEF Downstream
    <3> QED
      BY <1>3, <3>2, <3>3 DEF HeldBy, Mirrors
  <2>15. GraphKeys(saved, saved.plan) = G /\ saved.items = mem.items
    BY <1>3 DEF GraphKeys, Keys, Mirrors
  <2>16. CASE asked = {} /\ Commit(Snapshot(m, m.outcome, {}, TRUE), e)
              /\ mem' = [m EXCEPT !.staged = {}] /\ pc' = "wave"
    <3>1. PICK r, last : r = Snapshot(m, m.outcome, {}, TRUE) /\ last = [m EXCEPT !.staged = {}]
      OBVIOUS
    <3>2. saved' = r /\ mem' = last
      BY <2>16, <3>1 DEF Commit
    <3>3. HoldsFit(r, acc, out) /\ HeldOf(r) = m.completed /\ r # NoCheckpoint
      BY <1>1, <2>9, <2>13, <3>1, SnapshotHolds
    <3>4. last.completed = m.completed /\ last.plan = m.plan /\ last.items = m.items
      BY <2>9, <3>1 DEF Memory
    <3>5. WorkHolds(last, acc, out)
      <4>1. Keys(last) = Keys(m)
        BY <3>4 DEF Keys
      <4> QED
        BY <2>13, <3>4, <4>1 DEF WorkHolds
    <3>6. last.completed \ {Start} \subseteq HeldBy(r) /\ Follows(saved, r)
      BY <2>10, <2>14, <3>3, <3>4 DEF HeldBy, Follows
    <3> QED
      BY <2>2, <2>16, <3>2, <3>3, <3>5, <3>6, WorkingHolds
  <2>17. CASE asked = {} /\ Pause([s EXCEPT !.targets = Clarifying(mem)], e)
    <3> DEFINE r == [s EXCEPT !.targets = Clarifying(mem)]
    <3>1. /\ r.completed = C \ sent /\ r.pending = {} /\ r.plan = m.plan
          /\ r.items = m.items /\ r.startAction = "none" /\ r.change = NoChange
          /\ r.targets = Clarifying(mem)
      BY <2>10 DEF Snapshot
    <3>2. r # NoCheckpoint
      <4>1. "outcome" \in DOMAIN r /\ "outcome" \notin DOMAIN NoCheckpoint
        BY DEF Snapshot, NoCheckpoint
      <4> QED
        BY <4>1
    <3>3. Pause(r, e)
      BY <2>17
    <3> HIDE DEF r, s
    <3>4. Start \notin r.targets /\ C \ sent \subseteq FlowKeys(flow)
      BY <2>4, <2>5, <3>1
    <3>5. /\ ResultsOf(r) = C \ sent /\ RedoneOf(r) = Clarifying(mem)
          /\ HeldOf(r) = (C \ sent) \ Downstream(Clarifying(mem))
      BY <3>1, <3>4, HeldWithoutRequests
    <3>6. Downstream(Clarifying(mem)) \subseteq sent
      BY <2>4, DownstreamOfBoth DEF sent
    <3>7. HeldOf(r) = C \ sent
      BY <3>5, <3>6
    <3>8. GraphKeys(r, r.plan) = G
      BY <2>10, <3>1 DEF GraphKeys, Keys
    <3>9. ResultsFit(r, acc, out)
      BY <2>3, <2>5, <3>1, <3>5, <3>6, <3>8 DEF ResultsFit
    <3>10. RequestsFit(r)
      BY <3>1, <3>4 DEF RequestsFit, PendingOf, NoChange
    <3>11. HoldsFit(r, acc, out) /\ HeldOf(r) \subseteq HeldBy(saved) \cup {Start}
      BY <2>12, <2>14, <3>7, <3>9, <3>10 DEF HoldsFit
    <3> QED
      BY <2>2, <3>2, <3>3, <3>11, PauseHolds
  <2>18. CASE asked # {} /\ Pause(Snapshot(m, "needs_human", asked, TRUE), e)
    <3>1. PICK r, at : r = Snapshot(m, "needs_human", asked, TRUE) /\ at = "idle"
      OBVIOUS
    <3>2. saved' = r /\ pc' = at
      BY <2>18, <3>1 DEF Pause, Commit, Stops
    <3>3. /\ r.completed = C \ sent /\ r.pending = AllAsked(mem) /\ r.plan = m.plan
          /\ r.items = m.items /\ r.startAction = "none" /\ r.change = NoChange
          /\ r.targets = {}
      BY <2>10, <3>1 DEF Snapshot, asked
    <3>4. r # NoCheckpoint
      <4>1. "outcome" \in DOMAIN r /\ "outcome" \notin DOMAIN NoCheckpoint
        BY <3>1 DEF Snapshot, NoCheckpoint
      <4> QED
        BY <4>1
    <3>5. GraphKeys(r, r.plan) = G
      BY <2>10, <3>3 DEF GraphKeys, Keys
    <3>6. /\ PendingOf(r, "required") = gated \ RestartedByFeedback(mem)
          /\ PendingOf(r, "agent_requested") = redone
      BY <1>1, <1>3, <2>18, <3>3, FeedbackAsks DEF asked, gated, direct
    <3> DEFINE results == (C \ sent) \cup (gated \ Downstream(Fed(mem)))
    <3>7. PendingOf(r, "required") = gated \ Downstream(Fed(mem))
      BY <2>4, <2>5, <2>6, <3>6
    <3>8. ResultsOf(r) = results
      BY <2>4, <2>5, <3>3, <3>7 DEF ResultsOf
    <3>9. Start \notin redone
      BY <2>4, <2>5
    <3>10. RedoneOf(r) = redone
      BY <3>3, <3>6, <3>9 DEF RedoneOf
    <3>11. /\ Whole(results \ Downstream(redone))
           /\ (results \ sent) \cap Downstream(redone) = {}
      <4>1. PICK W, fed, blocked : W = mem.wave /\ fed = Fed(mem) /\ blocked = Blocked(mem)
        OBVIOUS
      <4>2. /\ W \subseteq FlowKeys(flow) /\ (\A k \in W : NeedsOf(k) \subseteq C)
            /\ gated \subseteq W \ C /\ direct \subseteq W \ (C \cup gated)
        BY <1>1, <2>4, <2>5, <4>1
      <4>3. PICK D : D = C
        OBVIOUS
      <4>4. /\ Whole((((D \ Downstream(fed \cup blocked)) \cup (gated \ Downstream(fed)))
                        \ Downstream(direct \cup (blocked \ gated))))
            /\ (((D \ Downstream(fed \cup blocked)) \cup (gated \ Downstream(fed)))
                   \ Downstream(fed \cup blocked)) \cap Downstream(direct \cup (blocked \ gated)) = {}
        BY <1>1, <2>5, <4>2, <4>3, AskedHolds
      <4> QED
        BY <4>1, <4>3, <4>4 DEF sent
    <3> HIDE DEF redone
    <3>12. redone \cap results = {}
      BY <2>4, <2>5 , <2>6 , DownstreamKeys, <1>1 DEF redone, sent
    <3> HIDE DEF results
    <3>13. results \subseteq G /\ acc \ out \subseteq results
      BY <2>3, <2>4, <2>5 DEF results
    <3>14. HeldOf(r) = results \ Downstream(redone)
      BY <3>8, <3>10 DEF HeldOf
    <3>15. ResultsFit(r, acc, out)
      <4>1. (results \ out) \cap Downstream(redone) = {}
        BY <2>3, <3>11, <3>13
      <4> QED
        BY <3>3, <3>5, <3>8, <3>10, <3>13, <4>1 DEF ResultsFit
    <3>16. RequestsFit(r)
      <4>1. Start \notin PendingOf(r, "required") /\ ~NoChange.ready
        BY <2>4, <2>5, <3>7 DEF NoChange
      <4> QED
        BY <3>3, <3>6, <3>8, <3>12, <4>1 DEF RequestsFit
    <3>17. HoldsFit(r, acc, out)
      BY <3>11, <3>14, <3>15, <3>16 DEF HoldsFit
    <3>18. Follows(saved, r)
      <4>1. HeldBy(r) \ HeldBy(saved) \subseteq mem.wave
        BY <2>4, <2>14, <3>4, <3>14 DEF HeldBy, results
      <4>2. r.items = saved.items /\ GraphKeys(r, r.plan) = GraphKeys(saved, saved.plan)
        BY <2>10, <2>15, <3>3, <3>5
      <4> QED
        BY <1>3, <2>5, <2>14, <4>1, <4>2 DEF Follows
    <3> QED
      BY <2>2, <3>1, <3>2, <3>4, <3>17, <3>18, RestHolds
  <2> QED
    BY <2>1, <2>16, <2>17, <2>18
<1>6. QED
  BY <1>4, <1>5

LEMMA ProcessHolds == IInv /\ HoldInv /\ ProcessResults => StepHolds
<1> SUFFICES ASSUME IInv, HoldInv, ProcessResults PROVE StepHolds
  OBVIOUS
<1>1. pc = "results" /\ flow' = flow /\ flow \in Flows /\ mem \in Memory(flow) /\ HoldsOn(flow)
  BY MemoryOf DEF ProcessResults, HoldInv
<1>2. WaveHolds(mem) /\ AnswersHold(mem)
  <2>1. PICK acc, out : acc = accepted /\ out = stale \cup outdated
    OBVIOUS
  <2> QED
    BY <1>1, <2>1 DEF HoldInv, HoldsLeft
<1>3. Start \notin Answering(mem.answers, "implemented")
  BY <1>1, <1>2, FeedbackApart
<1>4. CollectFeedback(mem)
  BY <1>3 DEF ProcessResults
<1>5. QED
  BY <1>1, <1>4, CollectHolds

-----------------------------------------------------------------------------
(* Results: the theorems *)

LEMMA InitHold == Init /\ FlowsHold => HoldInv
  BY DEF Init, FlowsHold, HoldInv, HoldsLeft

LEMMA HoldKeeps == IInv /\ HoldInv /\ [Next]_vars => StepHolds
<1> SUFFICES ASSUME IInv, HoldInv, [Next]_vars PROVE StepHolds
  OBVIOUS
<1>1. CASE \/ Acquire \/ CheckoutFails \/ StepFails \/ FinishFails \/ RequestedTwice \/ People
           \/ PlannerStops \/ ErrorStops \/ TaskStops \/ OpenPullRequest
  BY <1>1, IdleHolds
<1>2. CASE Load
  BY <1>2, LoadHolds
<1>3. CASE ResumeWithDecision
  BY <1>3, ResumeHolds
<1>4. CASE Prepare
  BY <1>4, PrepareHolds
<1>5. CASE PlannerSucceeds
  BY <1>5, PlannerSucceedsHolds
<1>6. CASE PlannerPauses
  BY <1>6, PlannerPausesHolds
<1>7. CASE StartWave
  BY <1>7, StartWaveHolds
<1>8. CASE FinishWave
  BY <1>8, FinishWaveHolds
<1>9. CASE ProcessResults
  BY <1>9, ProcessHolds
<1>10. CASE Complete
  BY <1>10, CompleteHolds
<1>11. CASE UNCHANGED vars
  <2>1. /\ flow' = flow /\ saved' = saved /\ mem' = mem /\ pc' = pc
        /\ accepted' = accepted /\ stale' = stale /\ outdated' = outdated
    BY <1>11 DEF vars, history
  <2>2. PICK s, m, at : s = saved /\ m = mem /\ at = pc
    OBVIOUS
  <2>3. PICK acc, out : acc = accepted /\ out = stale \cup outdated
    OBVIOUS
  <2>4. HoldsLeft(s, m, at, acc, out)
    BY <2>2, <2>3 DEF HoldInv
  <2>5. saved' = s /\ mem' = m /\ pc' = at /\ acc = accepted' /\ out = stale' \cup outdated'
    BY <2>1, <2>2, <2>3
  <2> QED
    BY <2>1, <2>2, <2>4, <2>5, StepOfLeft
<1>12. QED
  BY <1>1, <1>2, <1>3, <1>4, <1>5, <1>6, <1>7, <1>8, <1>9, <1>10, <1>11 DEF Next, Work, Faults

LEMMA FlowStays == [Next]_vars => flow' = flow
<1> SUFFICES ASSUME [Next]_vars PROVE flow' = flow
  OBVIOUS
<1>1. CASE People
  BY <1>1 DEF People, Command, Answer, ReviseFailed, Retry, Requeue
<1>2. CASE Work
  BY <1>2 DEF Work, Acquire, Load, ResumeWithDecision, Prepare, PlannerSucceeds, PlannerPauses,
     PlannerStops, StartWave, FinishWave, ProcessResults, ErrorStops, TaskStops, Complete,
     OpenPullRequest
<1>3. CASE Faults
  BY <1>3 DEF Faults, CheckoutFails, StepFails, FinishFails, RequestedTwice
<1>4. CASE UNCHANGED vars
  BY <1>4 DEF vars
<1>5. QED
  BY <1>1, <1>2, <1>3, <1>4 DEF Next

\* What the refinement calls held is what the checkpoint holds, complete in the graph.
HeldFits ==
    /\ flow \in Flows /\ HoldsOn(flow) /\ Held = HeldBy(saved)
    /\ HasCheckpoint => DOMAIN Needs = GraphKeys(saved, saved.plan)
    /\ Held \subseteq DOMAIN Needs /\ \A k \in DOMAIN Needs : Needs[k] = NeedsOf(k)
    /\ Whole(Held)

LEMMA HeldInGraph ==
  ASSUME IInv, HoldInv, HasCheckpoint
  PROVE  Held = HeldOf(saved) /\ Held \subseteq GraphKeys(saved, saved.plan)
<1> DEFINE G == GraphKeys(saved, saved.plan)
           redone == RedoneOf(saved)
           Y == ResultsOf(saved)
<1>1. /\ HoldsFit(saved, accepted, stale \cup outdated) /\ flow \in Flows /\ HoldsOn(flow)
      /\ saved.plan \in PlanOf(flow) /\ saved.items \in Selections(flow)
  BY HoldOfCheckpoint
<1>2. DOMAIN Needs = G
  BY DEF Needs
<1>3. Whole(G) /\ G \subseteq FlowKeys(flow)
  BY <1>1, GraphWhole DEF GraphKeys
<1>4. ToBeRedone = redone
  BY DEF ToBeRedone, RedoneOf, PendingBy, PendingOf
<1>5. (saved.completed \cup PendingBy("required")) \cap G = Y
  <2>1. PendingBy("required") = PendingOf(saved, "required")
    BY DEF PendingBy, PendingOf
  <2>2. Y \subseteq G
    BY <1>1 DEF HoldsFit, ResultsFit
  <2> QED
    BY <1>3, <2>1, <2>2 DEF ResultsOf
<1>6. RestartedBy(saved.plan, saved.items, redone \cap G) = Downstream(redone \cap G) \cap G
  BY <1>1, RestartedIsDownstream DEF GraphKeys
<1>7. Downstream(redone \cap G) \cap G = Downstream(redone) \cap G
  <2>1. Downstream(redone \ G) \cap G = {}
    BY <1>3, NotDownstream
  <2>2. Downstream(redone) = Downstream(redone \cap G) \cup Downstream(redone \ G)
    BY DEF Downstream
  <2> QED
    BY <2>1, <2>2
<1>8. Y \subseteq G
  BY <1>5
<1>9. Held = Y \ (Downstream(redone) \cap G)
  <2> HIDE DEF G, redone, Y
  <2> QED
    BY <1>2, <1>4, <1>5, <1>6, <1>7 DEF Held
<1>10. QED
  BY <1>8, <1>9 DEF HeldOf

LEMMA HoldGivesHeld == IInv /\ HoldInv => HeldFits
<1> SUFFICES ASSUME IInv, HoldInv PROVE HeldFits
  OBVIOUS
<1>1. flow \in Flows /\ HoldsOn(flow)
  BY MemoryOf DEF HoldInv
<1>2. CASE HasCheckpoint
  <2>1. Held = HeldOf(saved) /\ Held \subseteq GraphKeys(saved, saved.plan)
    BY <1>2, HeldInGraph
  <2>2. /\ Whole(HeldOf(saved)) /\ HeldBy(saved) = HeldOf(saved)
        /\ saved.plan \in PlanOf(flow) /\ saved.items \in Selections(flow)
    BY <1>2, HoldOfCheckpoint DEF HoldsFit
  <2>3. DOMAIN Needs = GraphKeys(saved, saved.plan)
    BY <1>2 DEF Needs
  <2>4. \A k \in GraphKeys(saved, saved.plan) : Needs[k] = DependenciesOf(flow, saved.items, k)
    BY <1>2 DEF Needs
  <2>5. \A k \in GraphKeys(saved, saved.plan) : DependenciesOf(flow, saved.items, k) = NeedsOf(k)
    BY <1>1, <2>2, NeedsInGraph DEF GraphKeys
  <2> QED
    BY <1>1, <2>1, <2>2, <2>3, <2>4, <2>5 DEF HeldFits
<1>3. CASE ~HasCheckpoint
  <2>1. Held = {} /\ DOMAIN Needs = {} /\ HeldBy(saved) = {}
    BY <1>3 DEF Held, Needs, HeldBy, HasCheckpoint
  <2> QED
    BY <1>1, <1>3, <2>1 DEF HeldFits, Whole
<1>4. QED
  BY <1>2, <1>3

\* A step of the checkpoint is a step of Results, or none.
LEMMA FollowsResults ==
  ASSUME HeldFits, HeldFits', flow' = flow, saved' = saved \/ Follows(saved, saved')
  PROVE  [R!Next]_<<Needs, Held>>
<1>1. CASE saved' = saved
  <2>1. Needs' = Needs
    BY <1>1 DEF Needs, HasCheckpoint, GraphKeys
  <2>2. ToBeRedone' = ToBeRedone /\ PendingBy("required")' = PendingBy("required")
    BY <1>1 DEF ToBeRedone, PendingBy, Start
  <2>3. Held' = Held
    BY <1>1, <2>1, <2>2 DEF Held, HasCheckpoint, RestartedBy, Affected
  <2> QED
    BY <2>1, <2>3
<1>2. ASSUME NEW k PROVE NeedsOf(k)' = NeedsOf(k)
  BY DEF NeedsOf
<1>3. /\ Held \subseteq DOMAIN Needs /\ Held' \subseteq DOMAIN Needs'
      /\ \A k \in DOMAIN Needs : Needs[k] = NeedsOf(k)
      /\ \A k \in DOMAIN Needs' : Needs'[k] = NeedsOf(k)
      /\ Held = HeldBy(saved) /\ flow \in Flows /\ HoldsOn(flow)
  BY <1>2 DEF HeldFits
<1>4. \A k \in Held' : NeedsOf(k) \subseteq Held'
  BY <1>2 DEF HeldFits, Whole
<1>5. Held' = HeldBy(saved')
  <2>1. PICK s : s = saved'
    OBVIOUS
  <2>2. HeldBy(saved)' = HeldBy(s)
    <3>1. ASSUME NEW t PROVE PendingOf(saved, t)' = PendingOf(s, t)
      BY <2>1 DEF PendingOf
    <3>2. ResultsOf(saved)' = ResultsOf(s) /\ RedoneOf(saved)' = RedoneOf(s)
      BY <2>1, <3>1 DEF ResultsOf, RedoneOf, Start
    <3>3. Downstream(RedoneOf(saved))' = Downstream(RedoneOf(s))
      BY <3>2 DEF Downstream
    <3>4. HeldOf(saved)' = HeldOf(s)
      BY <3>2, <3>3 DEF HeldOf
    <3> QED
      BY <2>1, <3>4 DEF HeldBy
  <2> QED
    BY <2>1, <2>2 DEF HeldFits
<1>6. CASE HeldBy(saved') \subseteq HeldBy(saved) \cup {Start}
  <2>1. \A k \in Held' \ Held : k = Start
    BY <1>3, <1>5, <1>6
  <2>2. \A k \in Held' \ Held : NeedsOf(k) = {}
    BY <1>3, <2>1, StartNeeds
  <2>3. R!Replan
    BY <1>3, <1>4, <2>2 DEF R!Replan
  <2> QED
    BY <2>3 DEF R!Next
<1>7. CASE /\ saved # NoCheckpoint /\ saved' # NoCheckpoint /\ saved'.items = saved.items
           /\ GraphKeys(saved', saved'.plan) = GraphKeys(saved, saved.plan)
           /\ \A k \in HeldBy(saved') \ HeldBy(saved) : NeedsOf(k) \subseteq HeldBy(saved)
  <2>1. DOMAIN Needs = GraphKeys(saved, saved.plan)
    BY <1>7 DEF Needs, HasCheckpoint
  <2>2. GraphKeys(saved, saved.plan)' = GraphKeys(saved', saved'.plan)
    BY DEF GraphKeys
  <2>3. Needs' = Needs
    BY <1>7, <2>2 DEF Needs, HasCheckpoint
  <2>4. \A k \in Held' \ Held : Needs[k] \subseteq Held
    BY <1>3, <1>5, <1>7, <2>3
  <2>5. \A k \in Held' : Needs[k] \cap (Held \ Held') = {}
    BY <1>3, <1>4, <2>3
  <2>6. Held' \subseteq DOMAIN Needs
    BY <1>3, <2>3
  <2>7. R!Advance
    BY <2>3, <2>4, <2>5, <2>6 DEF R!Advance
  <2> QED
    BY <2>7 DEF R!Next
<1>8. CASE saved' = NoCheckpoint
  BY <1>6, <1>8 DEF HeldBy
<1>9. QED
  BY <1>1, <1>6, <1>7, <1>8 DEF Follows

(***************************************************************************)
(* In a manifest whose flows hold their results (HoldsOn), failures,       *)
(* retries, pauses, other decisions, new plans and changes keep a result   *)
(* that a person accepted, until it is sent back, withdrawn or excluded    *)
(* (plugin_flow.rs, plan_controls.rs, change_requests.rs).                 *)
(***************************************************************************)
THEOREM ApprovedKept ==
  ASSUME FlowsHold
  PROVE  Spec => []KeepsApproved
<1>1. Init => IInv /\ HoldInv
  BY InitHolds, InitHold
<1>2. IInv /\ HoldInv /\ [Next]_vars => (IInv /\ HoldInv)'
  BY StepKeeps, HoldKeeps DEF StepHolds
<1>3. ASSUME IInv, HoldInv PROVE KeepsApproved
  <2> SUFFICES ASSUME HasCheckpoint
               PROVE  (accepted \ (stale \cup outdated)) \cap GraphKeys(saved, saved.plan) \subseteq Held
    BY DEF KeepsApproved
  <2>1. Held = HeldOf(saved)
    BY <1>3, HeldInGraph
  <2>2. PICK acc, out : acc = accepted /\ out = stale \cup outdated
    OBVIOUS
  <2>3. ResultsFit(saved, acc, out)
    BY <1>3, <2>2, HoldOfCheckpoint DEF HoldsFit
  <2>4. acc \ out \subseteq HeldOf(saved)
    BY <2>3 DEF ResultsFit, HeldOf
  <2> QED
    BY <2>1, <2>2, <2>4
<1>4. QED
  BY <1>1, <1>2, <1>3, PTL DEF Spec

(***************************************************************************)
(* In such a manifest the lifecycle implements Results: whatever a wave,   *)
(* a pause, a decision or a retry commits, the checkpoint gains a result   *)
(* only from results it held, and loses with a result all that was made    *)
(* from it; another plan keeps a part that is complete in its graph.       *)
(***************************************************************************)
THEOREM ResultsHeld ==
  ASSUME FlowsHold
  PROVE  Spec => HoldsResults
<1>1. Init => IInv /\ HoldInv
  BY InitHolds, InitHold
<1>2. IInv /\ HoldInv /\ [Next]_vars => (IInv /\ HoldInv)'
  BY StepKeeps, HoldKeeps DEF StepHolds
<1>3. IInv /\ HoldInv => HeldFits
  BY HoldGivesHeld
<1>4. Init => R!Init
  BY DEF Init, R!Init, Needs, Held, HasCheckpoint
<1>5. IInv /\ HoldInv /\ HeldFits /\ HeldFits' /\ [Next]_vars => [R!Next]_<<Needs, Held>>
  <2> SUFFICES ASSUME IInv, HoldInv, HeldFits, HeldFits', [Next]_vars
               PROVE  [R!Next]_<<Needs, Held>>
    OBVIOUS
  <2>1. StepHolds
    BY HoldKeeps
  <2>2. flow' = flow
    BY FlowStays
  <2> QED
    BY <2>1, <2>2, FollowsResults DEF StepHolds
<1>6. QED
  BY <1>1, <1>2, <1>3, <1>4, <1>5, PTL DEF Spec, HoldsResults, R!Spec
=============================================================================
