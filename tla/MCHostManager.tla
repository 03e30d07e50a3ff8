--------------------------- MODULE MCHostManager ----------------------------
(* Small instances of HostManager for TLC. *)
EXTENDS HostManager, TLC

Symmetry ==
  Permutations(Sessions) \cup Permutations(Users) \cup Permutations(Entries)
    \cup Permutations(Conns)
=============================================================================
