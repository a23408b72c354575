--------------------------- MODULE MCActionEngine ---------------------------
(* One or two threads inside the engine, interchangeable.                  *)
EXTENDS ActionEngine, TLC

Symmetry == Permutations(Calls)
=============================================================================
