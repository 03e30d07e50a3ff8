--------------------------- MODULE MCGitWorktree ----------------------------
(* A small instance of GitWorktree for TLC. *)
EXTENDS GitWorktree, TLC

CONSTANTS t1, t2, s1, o1, o2

MCTree == {t1, t2}
MCOneTree == {t1}
MCSub == {s1}
MCOrphan == {o1, o2}
Symmetry == Permutations(MCTree)
=============================================================================
