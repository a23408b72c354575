---------------------------- MODULE MCProbeFlight ----------------------------
(* Three calls for a full probe, interchangeable among the forced ones and *)
(* among the others.                                                       *)
EXTENDS ProbeFlight, TLC

Symmetry == Permutations(ForcedRuns) \cup Permutations(Runs \ ForcedRuns)
=============================================================================
