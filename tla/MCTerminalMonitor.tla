------------------------- MODULE MCTerminalMonitor --------------------------
(* A small ring buffer: three places, and output that goes round it twice. *)
EXTENDS TerminalMonitor
=============================================================================
