----------------------------- MODULE MCTerminal -----------------------------
(* Instances of Terminal; command lines, tasks, repositories and people     *)
(* are interchangeable.                                                    *)
EXTENDS Terminal, TLC

Symmetry ==
    Permutations(Tasks) \cup Permutations(Sessions \ Tasks) \cup Permutations(People)
    \cup Permutations(Repositories)
=============================================================================
