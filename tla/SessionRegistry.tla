-------------------------- MODULE SessionRegistry ---------------------------
(***************************************************************************)
(* What the session API promises its caller about a title, whatever calls  *)
(* overlap: the states a session goes through.  SessionLifecycle and       *)
(* IdleAutoPause implement this specification.                             *)
(***************************************************************************)
CONSTANT Titles

VARIABLES
  state,  \* the state of every title
  saved   \* whether the last save of the sessions succeeded

vars == <<state, saved>>

States == {"absent", "new", "running", "paused"}

Init == state = [t \in Titles |-> "absent"] /\ saved = TRUE

Becomes(t, from, to) ==
  /\ state[t] \in from
  /\ state' = [state EXCEPT ![t] = to]

Create(t) == Becomes(t, States, "new")
Start(t)  == Becomes(t, {"new"}, "running")
Pause(t)  == Becomes(t, {"running"}, "paused")
Resume(t) == Becomes(t, {"paused"}, "running")
Remove(t) == Becomes(t, States, "absent")

\* The application ends: what it had started comes back paused, unless the
\* end came before the session was saved; the rest is forgotten.  After a save
\* that failed, anything an older file holds may come back.
Stop ==
  \E kept \in SUBSET {t \in Titles : state[t] \in {"running", "paused"} \/ ~saved} :
    state' = [t \in Titles |-> IF t \in kept THEN "paused" ELSE "absent"]

Step ==
  \/ \E t \in Titles : Create(t) \/ Start(t) \/ Pause(t) \/ Resume(t) \/ Remove(t)
  \/ Stop
  \/ UNCHANGED state

\* Whether a save succeeds is not the registry's to say.
Next == Step /\ saved' \in BOOLEAN

Spec == Init /\ [][Next]_vars
=============================================================================
