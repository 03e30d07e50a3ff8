-------------------------- MODULE MCIdleAutoPause ---------------------------
(* Small instances of IdleAutoPause for TLC. *)
EXTENDS IdleAutoPause, TLC

Symmetry == Permutations(Titles) \cup Permutations(Pollers)
=============================================================================
