----------------------------- MODULE MCPersister -----------------------------
(* Two saves, interchangeable.                                             *)
EXTENDS Persister, TLC

Symmetry == Permutations(Savers)
=============================================================================
