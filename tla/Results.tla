------------------------------ MODULE Results ------------------------------
(***************************************************************************)
(* What a plugin lifecycle promises about the results it holds, whatever   *)
(* waves, pauses, decisions, failures and retries produced them: a result  *)
(* is only made from results that are held, a result that goes takes every *)
(* result made from it along, and a new graph keeps a part of what was     *)
(* held that is complete in itself.                                        *)
(***************************************************************************)
VARIABLES needs,      \* the graph: what each of its keys is made from
          results     \* keys whose result is held

Init == DOMAIN needs = {} /\ results = {}

(* Results are made from held ones while others, with all that was made    *)
(* from them, are withdrawn.                                               *)
Advance ==
    LET gone == results \ results'
    IN  /\ needs' = needs
        /\ results' \subseteq DOMAIN needs
        /\ \A k \in results' \ results : needs[k] \subseteq results
        /\ \A k \in results' : needs[k] \cap gone = {}

(* Another graph: what is kept is complete in it, and only a key that is   *)
(* made from nothing may be added.                                         *)
Replan ==
    /\ results' \subseteq DOMAIN needs'
    /\ \A k \in results' : needs'[k] \subseteq results'
    /\ \A k \in results' \ results : needs'[k] = {}

Next == Advance \/ Replan
Spec == Init /\ [][Next]_<<needs, results>>

(* Every result that is held was made from results that are held. *)
Complete == results \subseteq DOMAIN needs /\ \A k \in results : needs[k] \subseteq results
=============================================================================
