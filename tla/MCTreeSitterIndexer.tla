------------------------ MODULE MCTreeSitterIndexer -------------------------
(* A small instance of TreeSitterIndexer for TLC: two files. *)
EXTENDS TreeSitterIndexer

MCFile == {"code", "script"}
MCBare == {"script"}
MCCommitted == {"code"}
=============================================================================
