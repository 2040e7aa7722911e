------------------------------ MODULE Lifecycle ------------------------------
(***************************************************************************)
(* The plugin lifecycle coordinator (worker/plugin_flow.rs): one job that  *)
(* runs a graph of tasks in waves, commits a checkpoint after every step,  *)
(* pauses for people and is resumed by their commands, fails and is        *)
(* retried.  Lease expiry and closure belong to JobFence.                  *)
(*                                                                         *)
(* Durable state: the job row, the workflow's current_state, the lifecycle *)
(* checkpoint, the approval requests and the child job rows.  What the     *)
(* executor only holds in memory (pc, mem) is lost when it stops.          *)
(***************************************************************************)
EXTENDS TaskGraph

CONSTANTS MaxParallel,      \* max_parallel_tasks of the flow
          MaxHandoffs,      \* max_handoffs_per_edge
          MaxAttempts,      \* 64 waves in the code
          MaxDecisions,     \* bound: comments of people in one behaviour
          MaxFailures,      \* bound: failed tasks, requests, checkouts and statements
          MaxRetries        \* bound: dashboard retries

ASSUME BoundsAssumption ==
    /\ {MaxParallel, MaxHandoffs, MaxAttempts} \subseteq Nat \ {0}
    /\ {MaxDecisions, MaxFailures, MaxRetries} \subseteq Nat

VARIABLES flow,        \* the flow of the manifest
          job,         \* the coordinator's row: status, resume flag, decision in its input
          issue,       \* current_state of the workflow
          saved,       \* the lifecycle checkpoint
          approvals,   \* latest approval request of each key
          children,    \* latest child job row of each key
          pr,          \* whether a pull request was opened
          pc,          \* where the executor is in execute_developer_job
          mem,         \* what it holds in memory
          budget,      \* comments, failures and retries so far
          accepted,    \* history: keys whose present result a person accepted
          stale,       \* history: keys whose last result was sent back or withdrawn
          outdated     \* history: keys whose last result follows a plan sent back

vars == <<flow, job, issue, saved, approvals, children, pr, pc, mem, budget, accepted, stale, outdated>>
rows == <<saved, approvals, children, pr>>
durable == <<job, issue, saved, approvals, children, pr>>
history == <<accepted, stale, outdated>>

-----------------------------------------------------------------------------
(* Keys, decisions, approvals *)

PlanKey == <<"execution-plan", NoItem>>
ChangeKey(n) == <<"change", n>>
TaskKeys == UNION {KeysOf(f, Items) : f \in Flows}
AllKeys == TaskKeys \cup {PlanKey} \cup {ChangeKey(n) : n \in 1..MaxDecisions}

Start == StartKey(flow)
Affected(plan, items, key) == AffectedBy(flow, plan, items, key)

AllTarget == <<"all", NoItem>>
NoTarget == <<"none", NoItem>>
Targets == AllKeys \cup {AllTarget, NoTarget}

Approval(key, trigger) == [key |-> key, trigger |-> trigger]
Required(key) == Approval(key, "required")
Requested(key) == Approval(key, "agent_requested")
PendingKeys(pending) == {p.key : p \in pending}

(* The comment in the job's input; plain replies carry no command. *)
NoDecision == [id |-> 0, verb |-> "none", target |-> NoTarget]
HumanCommand(d) == d.verb \in {"approve", "revise"}

NoChange == [open |-> FALSE, ready |-> FALSE, plan |-> NoPlan, affected |-> {}, revisions |-> {}]

NoCheckpoint == [done |-> FALSE]
HasCheckpoint == saved # NoCheckpoint

Live == {"waiting", "running"}

(* workflow_state_for_outcome, "stopped" standing for blocked and failed *)
StateFor(outcome) ==
    CASE outcome = "needs_info"  -> "needs_info"
      [] outcome = "needs_human" -> "needs_human"
      [] outcome = "stopped"     -> "blocked"
      [] OTHER                   -> "pr_open"

-----------------------------------------------------------------------------
(* LifecycleCheckpoint::capture and LifecycleState::snapshot *)

NoHandoffs == [edge \in {} |-> 0]

NoAnswers == [key \in {} |-> "implemented"]
NoWork == [items |-> {}, plan |-> NoPlan, completed |-> {}, running |-> {}, wave |-> {},
           finished |-> {}, staged |-> {}, handoffs |-> NoHandoffs, answers |-> NoAnswers,
           attempt |-> 1, outcome |-> "implemented", lastDecision |-> 0, sequence |-> 0]

Keys(m) == KeysOf(Effective(flow, m.plan), m.items)
RequiredTasks(plan) == Effective(flow, plan).required
Gated(plan, key) == key[1] \in RequiredTasks(plan)
Incomplete(m) == Keys(m) \ m.completed

RevisionOptions(m, pending) ==
    {k \in m.completed \ PendingKeys(pending) :
        PendingKeys(pending) \cap Affected(m.plan, m.items, k) # {}}

Snapshot(m, outcome, pending, startApproved) ==
    [done |-> FALSE, outcome |-> outcome,
     completed |-> m.completed, pending |-> pending,
     options |-> RevisionOptions(m, pending),
     startApproved |-> startApproved, startAction |-> "none", targets |-> {},
     handoffs |-> m.handoffs, items |-> m.items, plan |-> m.plan,
     attempt |-> m.attempt, lastDecision |-> m.lastDecision,
     change |-> NoChange, sequence |-> m.sequence]

-----------------------------------------------------------------------------
(***************************************************************************)
(* One checkpoint commit (db/lifecycle_checkpoints.rs save): the record,   *)
(* the approval requests and the child rows change together.               *)
(*   decided - <<key, state>> pairs    superseded - invalidated tasks      *)
(*   ended   - children with a result  staged     - new waiting children   *)
(*   started - children set to running                                     *)
(***************************************************************************)
NoEffects == [decided |-> {}, superseded |-> {}, ended |-> {}, staged |-> {}, started |-> {}]

(* CheckpointStore::save asks only for approvals that are not pending yet. *)
Decided(e, key) == \E d \in e.decided : d[1] = key
NewRequests(record, e) ==
    {k \in PendingKeys(record.pending) : approvals[k] # "pending" \/ Decided(e, k)}

ApprovalsAfter(record, e) ==
    [k \in AllKeys |->
        LET decided == IF approvals[k] = "pending" /\ Decided(e, k)
                       THEN (CHOOSE d \in e.decided : d[1] = k)[2]
                       ELSE approvals[k]
            asked   == IF k \in NewRequests(record, e) THEN "pending" ELSE decided
        IN  IF k \in e.superseded /\ asked \in {"pending", "approved"}
            THEN "superseded" ELSE asked]

ChildrenAfter(e) ==
    [k \in TaskKeys |->
        IF k \in e.started THEN "running"
        ELSE IF k \in e.staged THEN "waiting"
        ELSE IF k \in e.ended /\ children[k] = "running" THEN "ended"
        ELSE IF k \in e.superseded /\ children[k] = "waiting" THEN "ended"
        ELSE children[k]]

Commit(record, e) ==
    /\ saved' = record
    /\ approvals' = ApprovalsAfter(record, e)
    /\ children' = ChildrenAfter(e)
    /\ pr' = pr

(* ensure_waiting_tracked_job for a set of keys *)
Startable(m, k) == k \in m.staged \cup m.finished \/ children[k] # "running"
EnsureWaiting(m, keys) ==
    [m EXCEPT !.staged = @ \cup {k \in keys : k \in m.finished \/ children[k] \in {"none", "ended"}},
              !.finished = @ \ keys]

(* The executor returns.  The input of a paused job is replaced by the     *)
(* payload that resumes it, so its decision is forgotten here.             *)
Stops(status, state) ==
    /\ job' = [job EXCEPT !.status = status,
                          !.decision = IF status = "paused" THEN NoDecision ELSE @]
    /\ issue' = state
    /\ pc' = "idle" /\ mem' = NoWork

Pause(record, e) == Commit(record, e) /\ Stops("paused", StateFor(record.outcome))

(* stop_role_job with pause: nothing but the job and the workflow change. *)
StopPaused(state) == Stops("paused", state) /\ UNCHANGED rows

(* An error that reaches execute_developer_job: fail_active_plugin_child_  *)
(* jobs, then fail_role_job.  The checkpoint stays as last committed.      *)
FailCoordinator ==
    /\ children' = [k \in TaskKeys |-> IF children[k] \in Live THEN "ended" ELSE children[k]]
    /\ Stops("failed", "blocked")
    /\ UNCHANGED <<saved, approvals, pr>>

-----------------------------------------------------------------------------
(* Acquisition, CheckpointStore::load and the checkout of a resumed run *)

Acquire ==
    /\ pc = "idle" /\ job.status = "queued"
    /\ job' = [job EXCEPT !.status = "running"]
    /\ issue' = "in_progress"
    /\ pc' = "load"
    /\ UNCHANGED <<flow, rows, mem, budget, history>>

(* "checkpoint cannot be replayed" and "paused lifecycle checkpoint is missing" *)
Replayable == job.resume = (HasCheckpoint /\ ~saved.done)

Load ==
    /\ pc = "load"
    /\ IF Replayable
       THEN /\ pc' = IF HasCheckpoint THEN "resume" ELSE "plan"
            /\ UNCHANGED <<durable, mem>>
       ELSE FailCoordinator
    /\ UNCHANGED <<flow, budget, history>>

Fails ==
    /\ budget.failures < MaxFailures
    /\ budget' = [budget EXCEPT !.failures = @ + 1]

(* pr_revision::prepare cannot restore the retained checkout. *)
CheckoutFails ==
    /\ pc = "load" /\ Fails
    /\ IF job.resume
       THEN StopPaused(IF HasCheckpoint /\ saved.outcome = "needs_info"
                       THEN "needs_info" ELSE "needs_human")
       ELSE FailCoordinator
    /\ UNCHANGED <<flow, history>>

(* Any other error: a statement, a request, a publication, a registry file. *)
StepFails ==
    /\ pc \notin {"idle", "load"} /\ Fails
    /\ FailCoordinator
    /\ UNCHANGED <<flow, history>>

-----------------------------------------------------------------------------
(* apply_human_decision, as operators on the checkpoint s and decision d *)

Named(s, d) == {p \in s.pending : p.key = d.target}

Matches(s, d) ==
    \/ d.verb = "approve" /\ d.target = AllTarget
    \/ d.target = NoTarget /\ Cardinality(s.pending) = 1
    \/ Named(s, d) # {}

Chosen(s, d) == IF d.target \in {AllTarget, NoTarget} THEN s.pending ELSE Named(s, d)

(* The keys of the graph a checkpoint stands for. *)
GraphKeys(s, plan) == KeysOf(Effective(flow, plan), s.items)

(* History: what sending keys back means for the results that exist.       *)
RestartedBy(plan, items, targets) == UNION {Affected(plan, items, k) : k \in targets}
SentBack(plan, items, keys) == RestartedBy(plan, items, keys \ {Start})
Outdated(plan, items, keys) == RestartedBy(plan, items, keys \cap {Start})

(* A revision of completed work upstream of a pending approval. *)
Reopens(s, d) ==
    /\ d.verb = "revise" /\ s.outcome = "needs_human"
    /\ d.target \in s.options \cap s.completed
    /\ PendingKeys(s.pending) \cap Affected(s.plan, s.items, d.target) # {}

(* A revision of any task once the last result was blocked or failed. *)
Repairs(s, d) ==
    /\ d.verb = "revise" /\ s.outcome = "stopped"
    /\ d.target \in GraphKeys(s, s.plan)

Accepts(d, chosen) == {p.key : p \in {q \in chosen : d.verb = "approve" /\ q.trigger = "required"}}
Redoes(d, chosen) == PendingKeys(chosen) \ Accepts(d, chosen)

(* What the chosen approvals become, and the results that are withdrawn. *)
Settled(s, d, chosen, withdrawn) ==
    LET keys    == PendingKeys(chosen)
        accepts == Accepts(d, chosen)
        pending == {p \in s.pending : p.key \notin keys \cup withdrawn}
    IN  [s EXCEPT
            !.startApproved = IF Start \in accepts THEN TRUE
                              ELSE @ /\ ~(Start \in keys /\ d.verb = "revise"),
            !.startAction   = IF Start \in accepts THEN "accept"
                              ELSE IF Start \in keys THEN "revise" ELSE @,
            !.plan.approved = @ \/ Start \in accepts,
            !.completed     = (@ \cup (accepts \ {Start})) \ withdrawn,
            !.targets       = {k \in @ \cup (Redoes(d, chosen) \ {Start}) :
                                   k \in withdrawn => k \in keys},
            !.options       = {k \in @ \ withdrawn :
                                   PendingKeys(pending) \cap Affected(s.plan, s.items, k) # {}},
            !.pending       = pending,
            !.lastDecision  = d.id]

(***************************************************************************)
(* plan_controls.rs: install_plan drops excluded work and returns finished *)
(* work that newly needs a review to the pending approvals.                *)
(***************************************************************************)
Tracked == {k \in TaskKeys : children[k] # "none"}
ExcludedWork(plan) == {k \in Tracked : k[1] \notin Effective(flow, plan).tasks}

\* Mutant of NewlyGated: a revised plan accepts what is already finished.
NothingGated(s, plan) == {}
NewlyGated(s, plan) ==
    {k \in s.completed \ {Start} :
        /\ k[1] \in Effective(flow, plan).tasks /\ Gated(plan, k)
        /\ s.plan.present => k[1] \notin flow.required \cup s.plan.reviewed}

InstallPlan(s, plan) ==
    LET tasks == Effective(flow, plan).tasks
    IN  [s EXCEPT !.completed = {k \in @ : k[1] \in tasks} \ NewlyGated(s, plan),
                  !.pending   = {p \in @ : p.key[1] \in tasks}
                                    \cup {Required(k) : k \in NewlyGated(s, plan)},
                  !.targets   = {k \in @ : k[1] \in tasks},
                  !.plan      = plan]

(* apply_plan_decision handles the target execution-plan, and keeps an     *)
(* unnamed approval from deciding a pending plan.                          *)
PlanPending(s) == PlanKey \in PendingKeys(s.pending)
PlanCommand(s, d) ==
    /\ flow.planned
    /\ \/ d.target = PlanKey
       \/ d.verb = "approve" /\ d.target \in {AllTarget, NoTarget} /\ PlanPending(s)

AcceptPlan(s, d) ==
    [s EXCEPT !.plan.approved = TRUE, !.lastDecision = d.id,
              !.pending = {p \in @ : p.key # PlanKey}]

RevisePlan(s, d, proposal) ==
    LET installed == InstallPlan(s, Plan(proposal, FALSE))
    IN  [installed EXCEPT !.pending = @ \cup {Required(PlanKey)}, !.lastDecision = d.id]

-----------------------------------------------------------------------------
(* resume_human_decision: apply or refuse one decision before any task *)

Duplicate(s, d) == d.id = s.lastDecision

(* What a saved decision leads to: a pause while approvals remain. *)
Proceed(s, e) ==
    IF s.pending # {}
    THEN Pause([s EXCEPT !.outcome = "needs_human"], e)
    ELSE /\ Commit(s, e)
         /\ pc' = IF s.startAction = "revise" THEN "plan" ELSE "prepare"
         /\ UNCHANGED <<job, issue, mem>>

(***************************************************************************)
(* A decision that is already recorded pauses the job and returns the last *)
(* saved result; execute_developer_job treats that result like any other,  *)
(* so "implemented" goes on to the checks and the pull request.            *)
(***************************************************************************)
ReturnLastResult(s) ==
    IF s.outcome = "implemented"
    THEN /\ job' = [job EXCEPT !.status = "paused"]
         /\ issue' = StateFor(s.outcome)
         /\ pc' = "finish"
         /\ UNCHANGED <<rows, mem>>
    ELSE StopPaused(StateFor(s.outcome))

Refuse == StopPaused("needs_human")

\* Mutant of DecisionEffects: the approvals of withdrawn results stay.
EffectsOnChosen(d, keys, withdrawn) ==
    [NoEffects EXCEPT
        !.decided = {<<k, IF d.verb = "approve" THEN "approved" ELSE "revised">> : k \in keys}]
DecisionEffects(d, keys, withdrawn) ==
    [NoEffects EXCEPT
        !.decided = {<<k, IF d.verb = "approve" THEN "approved" ELSE "revised">> : k \in keys},
        !.superseded = withdrawn]

Decide(s, d, chosen, withdrawn) ==
    /\ Proceed(Settled(s, d, chosen, withdrawn), DecisionEffects(d, PendingKeys(chosen), withdrawn))
    /\ accepted' = (accepted \ withdrawn) \cup (Accepts(d, chosen) \cap TaskKeys)
    /\ LET redone == Redoes(d, chosen) \cap GraphKeys(s, s.plan)
       IN  /\ stale' = stale \cup withdrawn \cup SentBack(s.plan, s.items, redone)
           /\ outdated' = outdated \cup (Outdated(s.plan, s.items, redone) \ withdrawn)

DecidePlan(s, d) ==
    /\ \/ /\ d.verb = "revise" /\ d.target = PlanKey
          /\ \E p \in flow.proposals :
                /\ Resolvable(flow, p)
                /\ Proceed(RevisePlan(s, d, p),
                           DecisionEffects(d, {PlanKey}, ExcludedWork(Plan(p, FALSE))))
                /\ accepted' = accepted \ ExcludedWork(Plan(p, FALSE))
       \/ /\ d.verb = "approve" /\ d.target = PlanKey /\ PlanPending(s)
          /\ Proceed(AcceptPlan(s, d), DecisionEffects(d, {PlanKey}, {}))
          /\ UNCHANGED accepted
       \/ /\ ~(d.verb = "approve" /\ d.target = PlanKey /\ PlanPending(s))
          /\ Refuse      \* nothing pending, an unnamed approval, malformed settings
          /\ UNCHANGED accepted
    /\ UNCHANGED <<stale, outdated>>

ApplyHumanDecision(s, d) ==
    IF Duplicate(s, d) THEN ReturnLastResult(s) /\ UNCHANGED history
    ELSE IF PlanCommand(s, d) THEN DecidePlan(s, d)
    ELSE IF Matches(s, d)
    THEN IF Chosen(s, d) = {}
         THEN ReturnLastResult(s) /\ UNCHANGED history      \* "approve all" of nothing
         ELSE Decide(s, d, Chosen(s, d), {})
    ELSE IF Repairs(s, d)
    THEN Decide([s EXCEPT !.outcome = "needs_human"], d, {Requested(d.target)}, {})
    ELSE IF Reopens(s, d)
    THEN Decide(s, d, {Required(d.target)}, Affected(s.plan, s.items, d.target))
    ELSE Refuse /\ UNCHANGED history

(* run_work_item_lifecycle looks at a decision or at pending approvals. *)
ResumeUndecided(s) ==
    /\ IF s.pending # {}
       THEN FailCoordinator      \* "missing a human decision"
       ELSE /\ pc' = IF s.startAction = "revise" THEN "plan" ELSE "prepare"
            /\ UNCHANGED <<durable, mem>>
    /\ UNCHANGED history

ResumeWith(s, d) == IF HumanCommand(d) THEN ApplyHumanDecision(s, d) ELSE ResumeUndecided(s)

-----------------------------------------------------------------------------
(* change_requests.rs: a revision is interpreted before anything is undone *)

IntakeHandles(s, d) ==
    /\ flow.intake
    /\ \/ d.verb = "revise"
       \/ d.verb = "approve" /\ (s.change.open \/ d.target[1] = "change")
       \/ s.change.open /\ ~s.change.ready /\ d.verb = "none"

(* A proposal may change the execution plan and send tasks back. *)
ChangedPlan(s, c) == IF c.settings = {} THEN s.plan
                     ELSE Plan(CHOOSE p \in c.settings : TRUE, TRUE)

ValidChange(s, c) ==
    /\ \A p \in c.settings : flow.planned /\ Resolvable(flow, p)
    /\ c.revisions \subseteq GraphKeys(s, ChangedPlan(s, c))

ChangeScope(s, c) ==
    UNION {Affected(ChangedPlan(s, c), s.items, k) :
              k \in c.revisions \cup (s.targets \cap GraphKeys(s, ChangedPlan(s, c)))}

(* The old proposal gives way to the new one, ready or not. *)
Reconsidered(s, d, change, outcome) ==
    LET others == {p \in s.pending : p.key[1] # "change"}
    IN  [s EXCEPT !.attempt = @ + 1, !.sequence = @ + 1, !.lastDecision = d.id,
                  !.change = change, !.outcome = outcome,
                  !.pending = others \cup (IF change.ready THEN {Required(ChangeKey(s.sequence + 1))}
                                           ELSE {})]

ProposeChange(s, d) ==
    LET e == [NoEffects EXCEPT !.superseded =
                  IF s.change.open THEN {ChangeKey(s.sequence)} ELSE {}]
        unready == [NoChange EXCEPT !.open = TRUE]
    IN  \/ \E c \in flow.changes :
              /\ ValidChange(s, c)
              /\ Pause(Reconsidered(s, d, [open |-> TRUE, ready |-> TRUE,
                                           plan |-> IF c.settings = {} THEN NoPlan ELSE ChangedPlan(s, c),
                                           affected |-> ChangeScope(s, c),
                                           revisions |-> c.revisions], "needs_human"), e)
        \/ Pause(Reconsidered(s, d, unready, "needs_info"), e)
        \/ Pause(Reconsidered(s, d, unready, "needs_human"), e)

(* apply_proposal *)
Removed(s) == IF s.change.plan.present THEN ExcludedWork(s.change.plan) ELSE {}
Undone(s) == s.change.affected \cup Removed(s)

ChangeApplied(s, d) ==
    LET installed == IF s.change.plan.present THEN InstallPlan(s, s.change.plan) ELSE s
        restarts  == Start \in s.change.revisions
    IN  [installed EXCEPT
            !.completed = @ \ Undone(s),
            !.pending = {p \in @ : p.key[1] # "change" /\ p.key \notin Undone(s)},
            !.targets = (@ \ Undone(s)) \cup (s.change.revisions \ {Start}),
            !.options = {},
            !.startApproved = @ /\ ~restarts,
            !.startAction = IF restarts THEN "revise" ELSE @,
            !.change = NoChange, !.lastDecision = d.id, !.outcome = "implemented"]

AcceptChange(s, d) ==
    /\ Proceed(ChangeApplied(s, d),
               DecisionEffects(d, {ChangeKey(s.sequence)}, Undone(s)))
    /\ accepted' = accepted \ Undone(s)
    /\ stale' = stale \cup Undone(s) /\ UNCHANGED outdated

IntakeDecision(s, d) ==
    IF Duplicate(s, d) THEN ReturnLastResult(s) /\ UNCHANGED history
    ELSE IF d.verb # "approve" THEN ProposeChange(s, d) /\ UNCHANGED history
    ELSE IF s.change.ready /\ d.target = ChangeKey(s.sequence) THEN AcceptChange(s, d)
    ELSE Pause([s EXCEPT !.outcome = "needs_human"], NoEffects) /\ UNCHANGED history

ResumeWithDecision ==
    /\ pc = "resume"
    /\ IF IntakeHandles(saved, job.decision)
       THEN IntakeDecision(saved, job.decision)
       ELSE ResumeWith(saved, job.decision)
    /\ UNCHANGED <<flow, budget>>

-----------------------------------------------------------------------------
(* Planning, and the graph a run starts from *)

(***************************************************************************)
(* The graph is rebuilt with the start task completed, whatever the        *)
(* checkpoint says of it; other saved results count if their key exists.   *)
(* Then the start gate pauses, or every unfinished task gets a child row.  *)
(***************************************************************************)
\* Mutant of Restored: results that need approval are asked for again.
RestoredUngated(s, items, plan) ==
    LET keys == KeysOf(Effective(flow, plan), items)
    IN  [NoWork EXCEPT
            !.items = items, !.plan = plan,
            !.completed = ({k \in s.completed \cap keys : ~Gated(plan, k)} \cup {Start})
                              \ RestartedBy(plan, items, s.targets),
            !.finished = s.completed, !.handoffs = s.handoffs,
            !.attempt = s.attempt, !.outcome = s.outcome,
            !.lastDecision = s.lastDecision, !.sequence = s.sequence]
Restored(s, items, plan) ==
    LET keys == KeysOf(Effective(flow, plan), items)
    IN  [NoWork EXCEPT
            !.items = items, !.plan = plan,
            !.completed = ((s.completed \cap keys) \cup {Start})
                              \ RestartedBy(plan, items, s.targets),
            !.finished = s.completed, !.handoffs = s.handoffs,
            !.attempt = s.attempt, !.outcome = s.outcome,
            !.lastDecision = s.lastDecision, !.sequence = s.sequence]

BeginWork(s, items, plan, startApproved) ==
    LET m == Restored(s, items, plan)
    IN  IF \/ items = {}
           \/ ~(s.targets \subseteq KeysOf(Effective(flow, plan), items))
        THEN FailCoordinator      \* an empty registry, an unknown target
        ELSE IF (Start[1] \in flow.required /\ ~startApproved) \/ ~plan.approved
        THEN Pause(Snapshot(m, "needs_human", {Required(Start)}, FALSE), NoEffects)
        ELSE IF \A k \in Incomplete(m) : Startable(m, k)
        THEN /\ mem' = EnsureWaiting(m, Incomplete(m))
             /\ pc' = "wave"
             /\ UNCHANGED durable
        ELSE FailCoordinator

Prepare ==
    /\ pc = "prepare"
    /\ BeginWork(saved, saved.items, saved.plan, saved.startApproved)
    /\ UNCHANGED <<flow, budget, history>>

(* What planning starts from: the checkpoint, or nothing. *)
Blank == Snapshot([NoWork EXCEPT !.completed = {Start}], "implemented", {}, FALSE)
Base == IF HasCheckpoint THEN [saved EXCEPT !.attempt = @ + 1] ELSE Blank

PlanOptions == IF flow.planned THEN flow.proposals ELSE {[excluded |-> {}, reviewed |-> {}]}

(* The planner selected work items; a flow with plans also gets a new one. *)
PlannerSucceeds ==
    /\ pc = "plan"
    /\ \E items \in flow.selections, p \in PlanOptions :
          IF flow.planned /\ ~Resolvable(flow, p)
          THEN FailCoordinator
          ELSE BeginWork([Base EXCEPT !.outcome = "implemented"], items,
                         IF flow.planned THEN Plan(p, FALSE) ELSE Base.plan, FALSE)
    /\ accepted' = accepted \ {Start} /\ stale' = stale \ {Start}
    /\ outdated' = outdated \ {Start}
    /\ UNCHANGED <<flow, budget>>

PlannerPauses ==
    /\ pc = "plan"
    /\ \E outcome \in {"needs_human", "needs_info"} :
          Pause([Base EXCEPT
                    !.outcome = outcome,
                    !.pending = IF outcome = "needs_human" THEN {Requested(Start)} ELSE {},
                    !.startApproved = FALSE, !.options = {},
                    !.startAction = IF outcome = "needs_info" THEN "revise" ELSE @], NoEffects)
    /\ UNCHANGED <<flow, budget, history>>

(* Any other outcome is returned and ends the coordinator; an error fails it. *)
PlannerStops ==
    /\ pc = "plan"
    /\ Stops("completed", "blocked")
    /\ UNCHANGED <<flow, rows, budget, history>>

-----------------------------------------------------------------------------
(* Waves *)

Ready == ReadyIn(Effective(flow, mem.plan), mem.items, mem.completed, mem.running)

(* The first max_parallel_tasks ready keys run together. *)
Waves(ready) ==
    {w \in SUBSET ready : Cardinality(w) = IF Cardinality(ready) < MaxParallel
                                           THEN Cardinality(ready) ELSE MaxParallel}

StartWave ==
    /\ pc = "wave" /\ Incomplete(mem) # {}
    /\ IF Ready = {} \/ mem.attempt + 1 > MaxAttempts
       THEN FailCoordinator
       ELSE \E wave \in Waves(Ready) :
              IF \E k \in wave : ~Startable(mem, k)
              THEN FailCoordinator
              ELSE LET m == [EnsureWaiting(mem, wave) EXCEPT
                                 !.attempt = @ + 1, !.running = @ \cup wave, !.wave = wave]
                   IN  /\ Commit(Snapshot(m, m.outcome, {}, TRUE),
                                 [NoEffects EXCEPT !.staged = m.staged, !.started = wave])
                       /\ mem' = [m EXCEPT !.staged = {}]
                       /\ pc' = "run"
                       /\ UNCHANGED <<job, issue>>
    /\ UNCHANGED <<flow, budget, history>>

(* What a task may answer; "invalid" is needs_changes without a handoff    *)
(* its manifest allows, "error" a task without a result.                   *)
Handoff(t) == <<"handoff", t>>
IsHandoff(a) == a[1] = "handoff"
Plain == {<<"implemented">>, <<"needs_info">>, <<"needs_human">>}
Broken == {<<"stopped">>, <<"invalid">>, <<"error">>}
AnswersOf(key) == Plain \cup Broken \cup {Handoff(t) : t \in flow.handoffs[key[1]]}
OutcomeOf(a) == IF a[1] \in {"handoff", "invalid"} THEN "needs_changes" ELSE a[1]

Answering(answers, kind) == {k \in DOMAIN answers : answers[k][1] = kind}

(* Results that need no approval complete their task at once; the wave is  *)
(* committed before its feedback is looked at.                             *)
FinishWave ==
    /\ pc = "run"
    /\ \E answers \in [mem.wave -> UNION {AnswersOf(k) : k \in mem.wave}] :
          LET done  == {k \in Answering(answers, "implemented") : ~Gated(mem.plan, k)}
              heard == mem.wave \ Answering(answers, "error")
              fresh(old) == {k \in Answering(answers, "implemented") :
                                DependenciesOf(flow, mem.items, k) \cap old = {}}
          IN  /\ \A k \in mem.wave : answers[k] \in AnswersOf(k)
              /\ IF \E k \in mem.wave : answers[k] \in Broken THEN Fails ELSE UNCHANGED budget
              /\ \E last \in IF heard = {} THEN {mem.outcome} ELSE {OutcomeOf(answers[k]) : k \in heard} :
                    LET m == [mem EXCEPT !.completed = @ \cup done, !.running = @ \ done,
                                         !.finished = @ \cup mem.wave,
                                         !.outcome = last, !.answers = answers]
                    IN  /\ Commit(Snapshot(m, last, {}, TRUE), [NoEffects EXCEPT !.ended = mem.wave])
                        /\ mem' = m
              /\ accepted' = accepted \ mem.wave
              /\ stale' = stale \ fresh(stale) /\ outdated' = outdated \ fresh(outdated)
    /\ pc' = "results"
    /\ UNCHANGED <<flow, job, issue>>

-----------------------------------------------------------------------------
(***************************************************************************)
(* Feedback of a wave.  ErrorStops and TaskStops end the run; otherwise    *)
(* handoffs, questions and gated results are collected, and the run pauses *)
(* when a person is needed or goes on to the next wave.                    *)
(***************************************************************************)
FeedbackEnds(status) ==
    /\ children' = [k \in TaskKeys |-> IF children[k] \in Live THEN "ended" ELSE children[k]]
    /\ Stops(status, "blocked")
    /\ UNCHANGED <<saved, approvals, pr>>

(* normalize_handoff_target *)
Normal(key, t) == KeyOf(flow, t, key[2])

(* The start task ran again as a task of the wave: its registry is read    *)
(* again and the graph rebuilt, with the start task completed.             *)
Replanned(m, items) ==
    LET keys == KeysOf(Effective(flow, m.plan), items)
    IN  [m EXCEPT !.items = items, !.running = {},
                  !.completed = (@ \cap keys) \cup {Start}]

Handing(m) == {k \in DOMAIN m.answers : IsHandoff(m.answers[k])}
EdgeOf(m, k) == <<k, m.answers[k][2]>>
Included(m, k) == m.answers[k][2] \in Effective(flow, m.plan).tasks
CountOf(m, edge) == IF edge \in DOMAIN m.handoffs THEN m.handoffs[edge] ELSE 0
\* Mutant of OverLimit: one handoff more than the limit.
OverLimitLate(m) == {k \in Handing(m) : Included(m, k) /\ CountOf(m, EdgeOf(m, k)) > MaxHandoffs}
OverLimit(m) == {k \in Handing(m) : Included(m, k) /\ CountOf(m, EdgeOf(m, k)) >= MaxHandoffs}
Feeding(m) == {k \in Handing(m) : Included(m, k)} \ OverLimit(m)
TargetOf(m, k) == Normal(k, m.answers[k][2])

CountedHandoffs(m) ==
    [edge \in DOMAIN m.handoffs \cup {EdgeOf(m, k) : k \in OverLimit(m) \cup Feeding(m)} |->
        IF \E k \in OverLimit(m) : edge = EdgeOf(m, k) THEN 0
        ELSE IF \E k \in Feeding(m) : edge = EdgeOf(m, k) THEN CountOf(m, edge) + 1
        ELSE m.handoffs[edge]]

(* What each kind of answer restarts, and the approvals the wave asks for. *)
Blocked(m) == {TargetOf(m, k) : k \in OverLimit(m)}
                  \cup Answering(m.answers, "needs_info") \cup Answering(m.answers, "needs_human")
Fed(m) == {TargetOf(m, k) : k \in Feeding(m)}
RestartedByFeedback(m) == RestartedBy(m.plan, m.items, Fed(m))
Restarted(m) == RestartedByFeedback(m) \cup RestartedBy(m.plan, m.items, Blocked(m))

GatedResults(m) == {k \in Answering(m.answers, "implemented") : Gated(m.plan, k)}
PlanSentBack(m) == m.plan.present /\ Start \in Fed(m)

Asked(m) ==
    LET required  == {Required(k) : k \in GatedResults(m)}
        direct    == {Requested(k) : k \in {x \in Handing(m) : ~Included(m, x)}}
        judgement == {Requested(k) : k \in (Blocked(m) \ Answering(m.answers, "needs_info"))
                                                \ GatedResults(m)}
        replan    == {Requested(k) : k \in {x \in {Start} : PlanSentBack(m)}}
    IN  {p \in required : p.key \notin RestartedByFeedback(m)} \cup direct \cup judgement \cup replan

(* A question beside an approval becomes an approval too. *)
Clarifying(m) == Answering(m.answers, "needs_info")
AllAsked(m) ==
    Asked(m) \cup (IF Asked(m) = {} THEN {}
                   ELSE {Requested(k) : k \in Clarifying(m) \ PendingKeys(Asked(m))})

\* Mutant of AfterFeedback: the sender of a handoff is not set to waiting.
AfterFeedbackRunning(m) ==
    [m EXCEPT !.completed = @ \ Restarted(m), !.running = @ \ Fed(m),
              !.handoffs = CountedHandoffs(m), !.answers = NoAnswers, !.wave = {}]
AfterFeedback(m) ==
    [m EXCEPT !.completed = @ \ Restarted(m), !.running = @ \ Restarted(m),
              !.handoffs = CountedHandoffs(m), !.answers = NoAnswers, !.wave = {}]

(* The children a pause keeps waiting: all but the results to be accepted. *)
Waiting(m, asked) ==
    {k \in Incomplete(m) : Required(k) \notin asked}

CollectFeedback(m0) ==
    LET asked  == AllAsked(m0)
        m1     == AfterFeedback(m0)
        pauses == asked # {} \/ Clarifying(m0) # {}
        m      == EnsureWaiting(m1, IF pauses THEN Waiting(m1, asked) \cup RestartedByFeedback(m0)
                                              ELSE RestartedByFeedback(m0))
        e      == [NoEffects EXCEPT !.staged = m.staged]
    IN  IF ~((Fed(m0) \cup Blocked(m0)) \subseteq Keys(m0))
        THEN FeedbackEnds("failed") /\ UNCHANGED history      \* the graph has no such task
        ELSE /\ IF asked # {}
                THEN Pause(Snapshot(m, "needs_human", asked, TRUE), e)
                ELSE IF Clarifying(m0) # {}
                THEN Pause([Snapshot(m, "needs_info", {}, TRUE)
                               EXCEPT !.targets = Clarifying(m0)], e)
                ELSE /\ Commit(Snapshot(m, m.outcome, {}, TRUE), e)
                     /\ mem' = [m EXCEPT !.staged = {}]
                     /\ pc' = "wave"
                     /\ UNCHANGED <<job, issue>>
             /\ stale' = stale \cup SentBack(m0.plan, m0.items, Fed(m0) \cup Blocked(m0))
             /\ outdated' = outdated \cup Outdated(m0.plan, m0.items, Fed(m0) \cup Blocked(m0))
             /\ UNCHANGED accepted

ErrorStops ==
    /\ pc = "results" /\ \E k \in mem.wave : mem.answers[k] \in {<<"error">>, <<"invalid">>}
    /\ FeedbackEnds("failed")
    /\ UNCHANGED <<flow, budget, history>>

(* A blocked or failed task ends the coordinator with its result. *)
TaskStops ==
    /\ pc = "results" /\ \E k \in mem.wave : mem.answers[k] = <<"stopped">>
    /\ \A k \in mem.wave : mem.answers[k] # <<"error">>
    /\ FeedbackEnds("completed")
    /\ UNCHANGED <<flow, budget, history>>

ProcessResults ==
    /\ pc = "results"
    /\ \A k \in mem.wave : mem.answers[k] \notin Broken
    /\ IF Start \in Answering(mem.answers, "implemented")
       THEN \E items \in flow.selections : CollectFeedback(Replanned(mem, items))
       ELSE CollectFeedback(mem)
    /\ UNCHANGED <<flow, budget>>

(* Two tasks that send the plan back at once ask for one approval twice,   *)
(* which the unique index on pending approvals may refuse.                 *)
RequestedTwice ==
    /\ pc = "results" /\ PlanSentBack(mem)
    /\ \A k \in mem.wave : mem.answers[k] \notin Broken
    /\ Cardinality({k \in Feeding(mem) : TargetOf(mem, k) = Start}) > 1
    /\ FailCoordinator
    /\ UNCHANGED <<flow, budget, history>>

Complete ==
    /\ pc = "wave" /\ Incomplete(mem) = {}
    /\ Commit([Snapshot(mem, "implemented", {}, TRUE) EXCEPT !.done = TRUE],
              [NoEffects EXCEPT !.staged = mem.staged])
    /\ pc' = "finish"
    /\ UNCHANGED <<flow, job, issue, mem, budget, history>>

-----------------------------------------------------------------------------
(* execute_developer_job after an implemented result *)

(* complete_job touches a running row only. *)
OpenPullRequest ==
    /\ pc = "finish"
    /\ pr' = TRUE
    /\ Stops(IF job.status = "running" THEN "completed" ELSE job.status, "pr_open")
    /\ UNCHANGED <<flow, saved, approvals, children, budget, history>>

(* Required checks fail, nothing changed, or the push or request fails.    *)
(* fail_job has no status guard.                                           *)
FinishFails ==
    /\ pc = "finish" /\ Fails
    /\ Stops("failed", "blocked")
    /\ UNCHANGED <<flow, rows, history>>

-----------------------------------------------------------------------------
(* People *)

(* A comment replaces the input of the paused job and requeues it.  In     *)
(* needs_human and blocked only a command counts; in needs_info any        *)
(* comment does, and none is read as a command.                            *)
Requeue(decision) ==
    /\ budget.decisions < MaxDecisions
    /\ budget' = [budget EXCEPT !.decisions = @ + 1]
    /\ job' = [status |-> "queued", resume |-> TRUE,
               decision |-> [decision EXCEPT !.id = budget.decisions + 1]]
    /\ UNCHANGED <<flow, issue, rows, pc, mem, history>>

(* What a command may name: anything the issue has shown so far. *)
Nameable == {AllTarget, NoTarget, PlanKey} \cup GraphKeys(saved, NoPlan)
                \cup {ChangeKey(n) : n \in 1..saved.sequence}

Command ==
    /\ pc = "idle" /\ job.status = "paused" /\ issue \in {"needs_human", "blocked"}
    /\ \E verb \in {"approve", "revise"}, target \in Nameable :
          Requeue([id |-> 0, verb |-> verb, target |-> target])

Answer ==
    /\ pc = "idle" /\ job.status = "paused" /\ issue = "needs_info"
    /\ Requeue(NoDecision)

(* resume_latest_paused_job also takes a failed lifecycle for a revision. *)
ReviseFailed ==
    /\ pc = "idle" /\ job.status = "failed" /\ issue = "blocked"
    /\ HasCheckpoint /\ ~saved.done
    /\ \E target \in Nameable : Requeue([id |-> 0, verb |-> "revise", target |-> target])

(* api_retry_run: the same coordinator and input when it has a checkpoint, *)
(* a copy of the job otherwise.                                            *)
Retry ==
    /\ pc = "idle" /\ job.status = "failed" /\ budget.retries < MaxRetries
    /\ HasCheckpoint => ~saved.done
    /\ budget' = [budget EXCEPT !.retries = @ + 1]
    /\ job' = [job EXCEPT !.status = "queued", !.resume = @ \/ HasCheckpoint]
    /\ UNCHANGED <<flow, issue, rows, pc, mem, history>>

-----------------------------------------------------------------------------
Init ==
    /\ flow \in Flows
    /\ job = [status |-> "queued", resume |-> FALSE, decision |-> NoDecision]
    /\ issue = "ready" /\ saved = NoCheckpoint
    /\ approvals = [k \in AllKeys |-> "none"] /\ children = [k \in TaskKeys |-> "none"]
    /\ pr = FALSE /\ pc = "idle" /\ mem = NoWork
    /\ budget = [decisions |-> 0, failures |-> 0, retries |-> 0]
    /\ accepted = {} /\ stale = {} /\ outdated = {}

Work == Acquire \/ Load \/ ResumeWithDecision \/ Prepare
          \/ PlannerSucceeds \/ PlannerPauses \/ PlannerStops
          \/ StartWave \/ FinishWave \/ ProcessResults \/ ErrorStops \/ TaskStops
          \/ Complete \/ OpenPullRequest
Faults == CheckoutFails \/ StepFails \/ FinishFails \/ RequestedTwice
People == Command \/ Answer \/ ReviseFailed \/ Retry

Next == Work \/ Faults \/ People
Spec == Init /\ [][Next]_vars

-----------------------------------------------------------------------------
Outcomes == {"implemented", "needs_changes", "needs_info", "needs_human", "stopped"}
Working == {"wave", "run", "results", "finish"}

TypeOK ==
    /\ flow \in Flows
    /\ job.status \in {"queued", "running", "paused", "failed", "completed"}
    /\ job.resume \in BOOLEAN
    /\ job.decision.id \in 0..MaxDecisions /\ job.decision.target \in Targets
    /\ issue \in {"ready", "in_progress", "needs_info", "needs_human", "blocked", "pr_open"}
    /\ HasCheckpoint =>
          /\ saved.outcome \in Outcomes /\ saved.done \in BOOLEAN
          /\ saved.completed \subseteq TaskKeys /\ saved.targets \subseteq AllKeys
          /\ PendingKeys(saved.pending) \subseteq AllKeys
          /\ saved.lastDecision \in 0..MaxDecisions
          /\ \A edge \in DOMAIN saved.handoffs : saved.handoffs[edge] \in 0..MaxHandoffs
    /\ approvals \in [AllKeys -> {"none", "pending", "approved", "revised", "superseded"}]
    /\ children \in [TaskKeys -> {"none", "waiting", "running", "ended"}]
    /\ pr \in BOOLEAN
    /\ pc \in {"idle", "load", "resume", "plan", "prepare"} \cup Working
    /\ mem.completed \subseteq TaskKeys /\ mem.running \subseteq TaskKeys
    /\ accepted \subseteq TaskKeys /\ stale \subseteq TaskKeys /\ outdated \subseteq TaskKeys

(* Work goes on only from results that a person accepted where the flow or *)
(* the plan asks for it, however often tasks reran in between.             *)
GateHolds ==
    pc \in {"wave", "run", "results"} =>
        \A k \in mem.completed : Gated(mem.plan, k) => k \in accepted \cup outdated

(* The approval requests people see are those the next decision is matched *)
(* against, whenever a decision can arrive.                                *)
ApprovalsMatch ==
    HasCheckpoint /\ job.status \in {"paused", "failed", "queued"} =>
        {k \in AllKeys : approvals[k] = "pending"} = PendingKeys(saved.pending)

(* An accepted manifest never leaves unfinished work with nothing to run. *)
NeverStuck == pc = "wave" /\ Incomplete(mem) # {} => Ready # {}

(* The aggregate checkout is published only after the graph completes. *)
PublishesOnlyComplete == pr => saved.done

-----------------------------------------------------------------------------
(***************************************************************************)
(* Refinement: what the checkpoint holds of the results of its graph.  A   *)
(* result that waits for an approval is held; a task that is to be redone, *)
(* or will be once a person has answered it, holds nothing and neither do  *)
(* those that follow it.                                                   *)
(***************************************************************************)
Needs == IF HasCheckpoint
         THEN [k \in GraphKeys(saved, saved.plan) |-> DependenciesOf(flow, saved.items, k)]
         ELSE [k \in {} |-> {}]

PendingBy(trigger) == {p.key : p \in {q \in saved.pending : q.trigger = trigger}}
ToBeRedone == (saved.targets \cup PendingBy("agent_requested")) \ {Start}

Held ==
    IF HasCheckpoint
    THEN ((saved.completed \cup PendingBy("required")) \cap DOMAIN Needs)
             \ RestartedBy(saved.plan, saved.items, ToBeRedone \cap DOMAIN Needs)
    ELSE {}

R == INSTANCE Results WITH needs <- Needs, results <- Held

(* Every committed step keeps the promise about results. *)
HoldsResults == R!Spec

(* Failures, retries and pauses keep every result a person accepted until  *)
(* it is sent back, withdrawn or excluded.                                 *)
KeepsApproved ==
    HasCheckpoint => (accepted \ (stale \cup outdated)) \cap GraphKeys(saved, saved.plan) \subseteq Held
=============================================================================
