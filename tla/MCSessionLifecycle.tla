------------------------- MODULE MCSessionLifecycle -------------------------
(* Small instances of SessionLifecycle for TLC. *)
EXTENDS SessionLifecycle, TLC

\* The objects are interchangeable: nothing orders them.
Symmetry ==
  Permutations(Titles) \cup Permutations(Insts) \cup Permutations(Trees)
    \cup Permutations(Procs) \cup Permutations(Callers)
=============================================================================
