---------------------------- MODULE MCLifecycle ----------------------------
(* Instances of Lifecycle: a plan s, a per-item task a whose items wait    *)
(* for one another, and a per-item task b that checks a.                   *)
EXTENDS Lifecycle

CONSTANTS i1, i2

MCItems == {i1, i2}
OneItem == {i1}
MCItemDependsOn == [i \in {i1, i2} |-> IF i = i2 THEN {i1} ELSE {}]
Single == [i \in {i1} |-> {}]

NoSettings == [excluded |-> {}, reviewed |-> {}]
Reviewed(t) == [excluded |-> {}, reviewed |-> {t}]
Without(t) == [excluded |-> {t}, reviewed |-> {}]

Simple == [tasks |-> {"s", "a", "b"}, start |-> "s", perItem |-> {"a", "b"},
          acrossItems |-> {"a"},
          dependencies |-> [t \in {"s", "a", "b"} |->
                               CASE t = "s" -> {} [] t = "a" -> {"s"} [] t = "b" -> {"a"}],
          required |-> {"s", "b"},
          handoffs |-> [t \in {"s", "a", "b"} |-> IF t = "b" THEN {"a"} ELSE {}],
          selections |-> {{i1}}, planned |-> FALSE, proposals |-> {},
          intake |-> FALSE, changes |-> {}]

(* Two items at once, whose checks may both send the plan back. *)
Wide == [Simple EXCEPT !.selections = {{i1, i2}}, !.planned = TRUE, !.proposals = {NoSettings},
                      !.handoffs = [@ EXCEPT !["b"] = {"a", "s"}]]
(* The plan may be excluded or reviewed differently, and sent back. *)
Planned == [Simple EXCEPT !.planned = TRUE, !.proposals = {NoSettings, Reviewed("a"), Without("b")},
                         !.required = {}, !.handoffs = [@ EXCEPT !["b"] = {"a", "s"}]]
(* Revisions are interpreted first; one may change only the plan. *)
Intake == [Planned EXCEPT !.intake = TRUE, !.handoffs = [t \in Planned.tasks |-> {}],
              !.changes = {[settings |-> {Reviewed("a")}, revisions |-> {}],
                           [settings |-> {Without("b")}, revisions |-> {<<"a", i1>>}],
                           [settings |-> {}, revisions |-> {<<"s", NoItem>>}]}]
(* A check may send the accepted plan back to its start task. *)
BackToStart == [Simple EXCEPT !.required = {}, !.handoffs = [@ EXCEPT !["b"] = {"s"}]]

OneFlow == {Simple}
AllFlows == {Simple, Wide, Planned, Intake, BackToStart}

(* What the theorems ask of a manifest holds of these. *)
ASSUME LeadAssumption == FlowsLead /\ FlowsRun
(* Results hold where work is not handed back to the start. *)
ASSUME HoldAssumption == HoldsOn(Simple) /\ HoldsOn(Intake)
=============================================================================
