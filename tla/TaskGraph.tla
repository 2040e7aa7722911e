----------------------------- MODULE TaskGraph -----------------------------
(***************************************************************************)
(* The dependency graph of a plugin lifecycle (worker/plugin_task_graph.rs)*)
(* and the scheduling choices an execution plan makes over it              *)
(* (core/execution_plan.rs).                                               *)
(*                                                                         *)
(* A flow is a record: tasks, start, dependencies (of each task), perItem  *)
(* (tasks of work-item scope), acrossItems (depends_on_work_items),        *)
(* required (approval: required), handoffs (allowed targets of each task), *)
(* selections (the sets of work items its planner may select), planned     *)
(* (the flow has an execution plan), proposals (the plans that may be      *)
(* proposed), intake (change_intake) and changes (the proposals intake may *)
(* make: at most one plan in settings, and the keys to revise).            *)
(* A task key is <<task, work item>>, with NoItem for workflow tasks.      *)
(***************************************************************************)
EXTENDS Integers, FiniteSets

CONSTANTS Flows,          \* the flows the plugin manifest may declare
          Items,          \* work items of the registry
          NoItem,         \* the key of a workflow task has no work item
          ItemDependsOn   \* [Items -> SUBSET Items], acyclic

ASSUME FlowsAssumption ==
    \A f \in Flows :
        /\ f.start \in f.tasks \ f.perItem
        /\ f.perItem \subseteq f.tasks /\ f.acrossItems \subseteq f.perItem
        /\ f.required \subseteq f.tasks
        /\ f.dependencies \in [f.tasks -> SUBSET f.tasks]
        /\ f.handoffs \in [f.tasks -> SUBSET f.tasks]
        /\ f.selections \subseteq SUBSET Items
        /\ f.planned \in BOOLEAN /\ f.intake \in BOOLEAN

(* ExecutionPlan::resolve: the start task stays, what stays depends on     *)
(* nothing that goes, and what goes cannot be reviewed.                    *)
Resolvable(f, p) ==
    /\ f.start \notin p.excluded
    /\ p.excluded \subseteq f.tasks /\ p.reviewed \subseteq f.tasks \ p.excluded
    /\ \A t \in f.tasks \ p.excluded : f.dependencies[t] \cap p.excluded = {}

(* The manifest reserves the keys of an execution plan and of a change. *)
ASSUME ReservedAssumption ==
    \A f \in Flows :
        /\ {"tasks", "start", "perItem", "acrossItems", "required", "dependencies"} \subseteq DOMAIN f
        /\ f.planned => "execution-plan" \notin f.tasks
        /\ f.intake => "change" \notin f.tasks

ASSUME ProposalsAssumption ==
    \A f \in Flows :
        /\ \A p \in f.proposals : p.excluded \subseteq f.tasks /\ p.reviewed \subseteq f.tasks
        /\ \A c \in f.changes : c.settings \subseteq f.proposals

NoPlan == [excluded |-> {}, reviewed |-> {}, approved |-> TRUE, present |-> FALSE]
Plan(p, approved) == [excluded |-> p.excluded, reviewed |-> p.reviewed,
                      approved |-> approved, present |-> TRUE]

(* ExecutionPlan::apply: the flow that remains once the plan is in force. *)
Effective(f, plan) ==
    IF plan.present
    THEN [f EXCEPT !.tasks = @ \ plan.excluded,
                   !.required = (@ \cup {f.start} \cup plan.reviewed) \ plan.excluded]
    ELSE f

StartKey(f) == <<f.start, NoItem>>
KeyOf(f, t, item) == <<t, IF t \in f.perItem THEN item ELSE NoItem>>

(* TaskGraph::for_work_items: the keys and what each of them waits for. *)
KeysOf(f, items) ==
    {<<t, NoItem>> : t \in f.tasks \ f.perItem}
        \cup ((f.tasks \cap f.perItem) \X items)

DependenciesOf(f, items, key) ==
    {KeyOf(f, d, key[2]) : d \in f.dependencies[key[1]]}
        \cup (IF key[1] \in f.acrossItems
              THEN {<<key[1], other>> : other \in ItemDependsOn[key[2]] \cap items}
              ELSE {})

(***************************************************************************)
(* affected_by: the key and everything that waits for it, directly or not: *)
(* the least set that holds the key and is closed under "waits for".       *)
(***************************************************************************)
ClosedUnderDependents(f, items, set) ==
    \A key \in KeysOf(f, items) :
        DependenciesOf(f, items, key) \cap set # {} => key \in set

LeastAffected(f, items, key) ==
    {k \in KeysOf(f, items) :
        \A set \in SUBSET KeysOf(f, items) :
            key \in set /\ ClosedUnderDependents(f, items, set) => k \in set}

(* affected_by over every graph a run may meet: of a flow, without the     *)
(* excluded tasks, for the selected work items.                            *)
Graphs ==
    UNION {{f} \X ({{}} \cup {p.excluded : p \in f.proposals}) \X ({{}} \cup f.selections) :
              f \in Flows}
Remaining(f, excluded) == [f EXCEPT !.tasks = @ \ excluded]

AffectedPairs ==
    UNION {LET g == Remaining(graph[1], graph[2])
           IN  {<<graph, key, k>> : key \in KeysOf(g, graph[3]), k \in KeysOf(g, graph[3])} :
           graph \in Graphs}
Affects == {t \in AffectedPairs : t[3] \in LeastAffected(Remaining(t[1][1], t[1][2]), t[1][3], t[2])}

AffectedBy(f, plan, items, key) ==
    {k \in KeysOf(Remaining(f, plan.excluded), items) :
        <<<<f, plan.excluded, items>>, key, k>> \in Affects}

(***************************************************************************)
(* What the gate of the start rests on: it waits for nothing, everything   *)
(* in a flow with plans waits for it, and a start only the manifest gates  *)
(* is not handed work back.                                                *)
(***************************************************************************)
StartLeads(f) ==
    /\ f.dependencies[f.start] = {}
    /\ f.planned =>
          \A excluded \in {{}} \cup {p.excluded : p \in {q \in f.proposals : Resolvable(f, q)}},
             items \in {{}} \cup f.selections :
              KeysOf(Remaining(f, excluded), items)
                  \subseteq LeastAffected(Remaining(f, excluded), items, StartKey(f))
    /\ f.start \in f.required /\ ~f.planned => \A t \in f.tasks : f.start \notin f.handoffs[t]
FlowsLead == \A f \in Flows : StartLeads(f)

(***************************************************************************)
(* What lets a run go on: nothing waits for itself (validate_task_graph    *)
(* and the order of the work items), tasks of the workflow do not wait for *)
(* work items, and work is handed back to what the sender waits for.       *)
(***************************************************************************)
RunsOn(f) ==
    /\ \A set \in SUBSET KeysOf(f, Items) :
          set # {} => \E key \in set : DependenciesOf(f, Items, key) \cap set = {}
    /\ \A t \in f.tasks \ f.perItem : f.dependencies[t] \cap f.perItem = {}
    /\ \A excluded \in {{}} \cup {p.excluded : p \in {q \in f.proposals : Resolvable(f, q)}},
          items \in {{}} \cup f.selections :
           \A key \in KeysOf(Remaining(f, excluded), items) : \A t \in f.handoffs[key[1]] :
               KeyOf(f, t, key[2]) \in KeysOf(Remaining(f, excluded), items) =>
                   key \in LeastAffected(Remaining(f, excluded), items, KeyOf(f, t, key[2]))
FlowsRun == \A f \in Flows : RunsOn(f)

(***************************************************************************)
(* What lets a run keep its results apart from its plan: every task waits  *)
(* for the start, which waits for nothing and is not handed work back,     *)
(* tasks of the workflow do not wait for work items, and a planner that    *)
(* selects a work item selects what it depends on.                         *)
(***************************************************************************)
HoldsOn(f) ==
    /\ f.dependencies[f.start] = {}
    /\ KeysOf(f, Items) \subseteq LeastAffected(f, Items, StartKey(f))
    /\ \A t \in f.tasks \ f.perItem : f.dependencies[t] \cap f.perItem = {}
    /\ \A items \in f.selections : \A i \in items : ItemDependsOn[i] \subseteq items
    /\ \A t \in f.tasks : f.start \notin f.handoffs[t]
FlowsHold == \A f \in Flows : HoldsOn(f)

\* Mutant of ReadyIn: one completed dependency is enough.
ReadyOnAny(f, items, completed, running) ==
    {k \in KeysOf(f, items) \ (completed \cup running) :
        DependenciesOf(f, items, k) \cap completed # {}}

(* TaskGraph::ready *)
ReadyIn(f, items, completed, running) ==
    {k \in KeysOf(f, items) \ (completed \cup running) :
        DependenciesOf(f, items, k) \subseteq completed}
=============================================================================
