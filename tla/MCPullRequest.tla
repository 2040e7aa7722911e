---------------------------- MODULE MCPullRequest ----------------------------
(* Instances of PullRequest in which every comment is a "/revise" by      *)
(* someone who may decide, so that comments are interchangeable, as        *)
(* worker processes are.                                                   *)
EXTENDS PullRequest, TLC

Symmetry == Permutations(Workers) \cup Permutations(Comments)
==============================================================================
