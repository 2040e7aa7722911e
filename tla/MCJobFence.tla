----------------------------- MODULE MCJobFence -----------------------------
EXTENDS JobFence, TLC

Symmetry == Permutations(Workers)
=============================================================================
