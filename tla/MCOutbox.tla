------------------------------ MODULE MCOutbox ------------------------------
EXTENDS Outbox, TLC

Symmetry == Permutations(Loops) \cup Permutations(Jobs)
=============================================================================
