----------------------------- MODULE HostTable ------------------------------
(***************************************************************************)
(* What the store of SSH hosts promises: a table that changes by one host  *)
(* at a time, or is lost, once and for all.                                *)
(***************************************************************************)
CONSTANTS
  Host,    \* host identifiers
  Config,  \* host configurations
  None,    \* no such host
  Lost     \* the table when it is lost

VARIABLE table

Empty == [h \in Host |-> None]

Init == table = Empty

\* A host is saved, updated or deleted.
Put(h, config) ==
  /\ table # Lost
  /\ table' = [table EXCEPT ![h] = config]

Lose == table' = Lost

Next ==
  \/ \E h \in Host, config \in Config \cup {None} : Put(h, config)
  \/ Lose

Spec == Init /\ [][Next]_table
=============================================================================
