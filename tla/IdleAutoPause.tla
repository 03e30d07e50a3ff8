--------------------------- MODULE IdleAutoPause ----------------------------
(***************************************************************************)
(* Automatic pausing of idle sessions (app/bindings.go).  PollAllStatuses, *)
(* called by the frontend, and checkIdleSessions, called by a ticker, scan *)
(* the sessions under the read lock and collect those to pause; then, with *)
(* the lock dropped and retaken twice for each of them, they set           *)
(* AutoPaused and call PauseSession.  The user goes on meanwhile.          *)
(*                                                                         *)
(* Starting, pausing and resuming are atomic here; SessionLifecycle shows  *)
(* their steps.  Time is the length of idleTimeout: a Tick is more than    *)
(* that, so a timestamp is zero, recent, or expired.                       *)
(***************************************************************************)
CONSTANTS
  Titles,   \* session titles
  Pollers,  \* PollAllStatuses calls in flight at once
  Checker,  \* the idleCheckerLoop goroutine
  None

Scanners == Pollers \cup {Checker}

ASSUME ScannersAssumption == Checker \notin Pollers /\ None \notin Titles

VARIABLES
  status,     \* absent, new (not started), running or paused
  prompt,     \* whether the terminal shows a prompt (HasPrompt)
  idleSince,  \* Instance.IdleSince
  lastViewed, \* Instance.LastViewed; its zero value is long expired
  autoPaused, \* Instance.AutoPaused
  scan        \* the scanners: the titles left to pause, and the current one

stamps == <<idleSince, lastViewed>>
vars == <<status, prompt, idleSince, lastViewed, autoPaused, scan>>

NoScan == [pc |-> "waiting", todo |-> {}, current |-> None]

Present(t) == status[t] # "absent"

-----------------------------------------------------------------------------
\* The terminal of t is new, or gone.
Quiet(t) == prompt' = [prompt EXCEPT ![t] = FALSE]

\* The process of t starts: a fresh terminal.  What the caller does to the
\* timestamps is its own business.
Runs(t) ==
  /\ status' = [status EXCEPT ![t] = "running"]
  /\ Quiet(t)

Init ==
  /\ status = [t \in Titles |-> "absent"]
  /\ prompt = [t \in Titles |-> FALSE]
  /\ idleSince = [t \in Titles |-> "zero"]
  /\ lastViewed = [t \in Titles |-> "expired"]
  /\ autoPaused = [t \in Titles |-> FALSE]
  /\ scan = [s \in Scanners |-> NoScan]

\* CreateSession: a new object, in the place of one of the same title.
CreateSession(t) ==
  /\ status' = [status EXCEPT ![t] = "new"]
  /\ Quiet(t)
  /\ idleSince' = [idleSince EXCEPT ![t] = "zero"]
  /\ lastViewed' = [lastViewed EXCEPT ![t] = "expired"]
  /\ autoPaused' = [autoPaused EXCEPT ![t] = FALSE]
  /\ UNCHANGED scan

StartSession(t) ==
  /\ status[t] = "new"
  /\ Runs(t)
  /\ UNCHANGED <<stamps, autoPaused, scan>>

KillSession(t) ==
  /\ Present(t)
  /\ status' = [status EXCEPT ![t] = "absent"]
  /\ Quiet(t)
  /\ UNCHANGED <<stamps, autoPaused, scan>>

\* TouchLastViewed, by OpenSession and TouchSession.
Viewed(t) == lastViewed' = [lastViewed EXCEPT ![t] = "recent"]

TouchSession(t) ==
  /\ Present(t)
  /\ Viewed(t)
  /\ UNCHANGED <<status, prompt, idleSince, autoPaused, scan>>

\* OpenSession resumes a paused session and keeps its AutoPaused flag ...
OpenSession(t) ==
  /\ Present(t)
  /\ Viewed(t)
  /\ IF status[t] = "paused" THEN Runs(t) ELSE UNCHANGED <<status, prompt>>
  /\ UNCHANGED <<idleSince, autoPaused, scan>>

\* ... while ResumeSession clears the flag and does not view the session.
ResumeSession(t) ==
  /\ status[t] = "paused"
  /\ Runs(t)
  /\ autoPaused' = [autoPaused EXCEPT ![t] = FALSE]
  /\ UNCHANGED <<stamps, scan>>

\* Mutant of Pauses: whatever the map holds under the title is paused.
PausesUnchecked(t) ==
  /\ status' = [status EXCEPT ![t] = "paused"]
  /\ Quiet(t)

\* PauseSession, which refuses a session that is not running.
Pauses(t) ==
  IF status[t] = "running"
  THEN /\ status' = [status EXCEPT ![t] = "paused"]
       /\ Quiet(t)
  ELSE UNCHANGED <<status, prompt>>

PauseSession(t) ==
  /\ status[t] = "running"
  /\ Pauses(t)
  /\ UNCHANGED <<stamps, autoPaused, scan>>

-----------------------------------------------------------------------------
\* MarkIdle or MarkActive of a session that is not paused.
Marked(t) ==
  IF status[t] \in {"absent", "paused"} THEN idleSince[t]
  ELSE IF ~prompt[t] THEN "zero"
  ELSE IF idleSince[t] = "zero" THEN "recent"
  ELSE idleSince[t]

\* Sessions the scan looks at: those in the map that are not paused.
Scanned == {t \in Titles : status[t] \in {"new", "running"}}

\* The candidates, given the idle timestamps the scan compares with.
Candidates(idle) == {t \in Scanned : idle[t] = "expired" /\ lastViewed[t] = "expired"}

\* What s has left to pause.
Found(s, todo) ==
  scan' = [scan EXCEPT ![s] =
    IF todo = {} THEN NoScan ELSE [pc |-> "scanned", todo |-> todo, current |-> None]]

\* PollAllStatuses looks for candidates first and marks afterwards;
\* checkIdleSessions does it the other way round.
PollAllStatuses(s) ==
  /\ scan[s].pc = "waiting"
  /\ Found(s, Candidates(idleSince))
  /\ idleSince' = [t \in Titles |-> Marked(t)]
  /\ UNCHANGED <<status, prompt, lastViewed, autoPaused>>

CheckIdleSessions ==
  /\ scan[Checker].pc = "waiting"
  /\ idleSince' = [t \in Titles |-> Marked(t)]
  /\ Found(Checker, Candidates(idleSince'))
  /\ UNCHANGED <<status, prompt, lastViewed, autoPaused>>

\* The first write lock: AutoPaused, for a session still in the map.
FlagAutoPaused(s) ==
  /\ scan[s].pc = "scanned"
  /\ \E t \in scan[s].todo :
       /\ scan' = [scan EXCEPT ![s].pc = "flagged", ![s].current = t]
       /\ autoPaused' = [autoPaused EXCEPT ![t] = @ \/ Present(t)]
  /\ UNCHANGED <<status, prompt, stamps>>

\* What s does once it is through with its current session.
Proceeds(s) == Found(s, scan[s].todo \ {scan[s].current})

\* Mutant of AutoPause: the session is only flagged.
AutoPauseFlagsOnly(s) ==
  /\ scan[s].pc = "flagged"
  /\ Proceeds(s)
  /\ UNCHANGED <<status, prompt, stamps, autoPaused>>

\* Mutant of AutoPause: the session listed is not taken from the list.
AutoPauseKeepsEntry(s) ==
  /\ scan[s].pc = "flagged"
  /\ Pauses(scan[s].current)
  /\ scan' = [scan EXCEPT ![s].pc = "waiting"]
  /\ UNCHANGED <<stamps, autoPaused>>

\* The second one: PauseSession, whose error is only logged.
AutoPause(s) ==
  /\ scan[s].pc = "flagged"
  /\ Pauses(scan[s].current)
  /\ Proceeds(s)
  /\ UNCHANGED <<stamps, autoPaused>>

-----------------------------------------------------------------------------
\* The program reaches a prompt, or gets back to work.
PromptChanges(t) ==
  /\ status[t] = "running"
  /\ prompt' = [prompt EXCEPT ![t] = ~@]
  /\ UNCHANGED <<status, stamps, autoPaused, scan>>

Aged(stamp) == IF stamp = "zero" THEN "zero" ELSE "expired"

\* More than idleTimeout passes.
Tick ==
  /\ idleSince' = [t \in Titles |-> Aged(idleSince[t])]
  /\ lastViewed' = [t \in Titles |-> Aged(lastViewed[t])]
  /\ UNCHANGED <<status, prompt, autoPaused, scan>>

\* The application ends and starts again: the sessions that had started come
\* back paused, with none of these fields, which the file does not hold.
Restart ==
  /\ status' = [t \in Titles |-> IF status[t] \in {"running", "paused"} THEN "paused" ELSE "absent"]
  /\ prompt' = [t \in Titles |-> FALSE]
  /\ idleSince' = [t \in Titles |-> "zero"]
  /\ lastViewed' = [t \in Titles |-> "expired"]
  /\ autoPaused' = [t \in Titles |-> FALSE]
  /\ scan' = [s \in Scanners |-> NoScan]

Next ==
  \/ \E t \in Titles :
       \/ CreateSession(t) \/ StartSession(t) \/ KillSession(t)
       \/ TouchSession(t) \/ OpenSession(t)
       \/ ResumeSession(t) \/ PauseSession(t) \/ PromptChanges(t)
  \/ \E s \in Pollers : PollAllStatuses(s)
  \/ CheckIdleSessions
  \/ \E s \in Scanners : FlagAutoPaused(s) \/ AutoPause(s)
  \/ Tick \/ Restart

\* The ticker of idleCheckerLoop fires and the goroutine runs; time passes.
\* Nothing obliges the frontend to poll (its WebView may be suspended).
Fairness ==
  /\ WF_vars(CheckIdleSessions)
  /\ WF_vars(FlagAutoPaused(Checker))
  /\ WF_vars(AutoPause(Checker))
  /\ WF_vars(Tick)

Spec == Init /\ [][Next]_vars
FairSpec == Spec /\ Fairness

-----------------------------------------------------------------------------
(***************************************************************************)
(* Properties.                                                             *)
(***************************************************************************)

\* The types of the fields; a scanner that waits has nothing to do, and one
\* that flagged a session has it still to pause.
TypeOK ==
  /\ status \in [Titles -> {"absent", "new", "running", "paused"}]
  /\ prompt \in [Titles -> BOOLEAN]
  /\ idleSince \in [Titles -> {"zero", "recent", "expired"}]
  /\ lastViewed \in [Titles -> {"recent", "expired"}]
  /\ autoPaused \in [Titles -> BOOLEAN]
  /\ scan \in [Scanners -> [pc : {"waiting", "scanned", "flagged"},
                            todo : SUBSET Titles, current : Titles \cup {None}]]
  /\ \A s \in Scanners :
       /\ scan[s].pc = "waiting" <=> scan[s].todo = {}
       /\ scan[s].current # None <=> scan[s].pc = "flagged"
       /\ scan[s].current # None => scan[s].current \in scan[s].todo

\* Automatic pausing takes a session through no other states than the user
\* could, even one that is killed, replaced, paused or resumed between the
\* scan and the pause (PauseSession looks the title up again).  What is saved
\* is SessionLifecycle's part: here no save fails.
Registry == INSTANCE SessionRegistry WITH state <- status, saved <- TRUE
RegistrySpec == Registry!Spec

\* A session left at its prompt and not looked at does not run for ever, even
\* if the frontend stops polling (the reason idleCheckerLoop gives for itself).
IdleEventuallyPaused ==
  \A t \in Titles :
    []<>~(status[t] = "running" /\ prompt[t] /\ lastViewed[t] = "expired")
=============================================================================
