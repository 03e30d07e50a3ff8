---------------------------- MODULE MCHostStore -----------------------------
(* A small instance of HostStore for TLC. *)
EXTENDS HostStore, TLC

CONSTANTS c1, c2, h1, h2, v1, p1

MCCall == {c1, c2}
MCHost == {h1, h2}
MCValue == {v1}
MCPath == {NoPath, p1}
=============================================================================
