---------------------------- MODULE MCPtyStream -----------------------------
(* Small instances of PtyStream for TLC. *)
EXTENDS PtyStream, TLC

Symmetry == Permutations(Clients)
=============================================================================
