------------------------------- MODULE MCIntake -------------------------------
(* Instances of Intake: comments of a person who may only answer and of a  *)
(* maintainer, and one that has no say in what follows.                    *)
EXTENDS Intake

MCKind == [c \in Comments |-> IF c = 2 THEN "approve" ELSE "answer"]
MCMaintainers == {1}
================================================================================
