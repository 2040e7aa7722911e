---------------------------- MODULE MCPublication ----------------------------
(* Instances of Publication; worker processes are interchangeable. *)
EXTENDS Publication, TLC

Symmetry == Permutations(Workers)
==============================================================================
