------------------------ MODULE IdleAutoPause_proofs ------------------------
(***************************************************************************)
(* Theorems about IdleAutoPause, for any number of sessions and of polls   *)
(* in flight: the type invariant, and that automatic pausing implements    *)
(* SessionRegistry.                                                        *)
(***************************************************************************)
EXTENDS IdleAutoPause, TLAPS

\* The fields of the sessions.
FieldsTyped ==
  /\ status \in [Titles -> {"absent", "new", "running", "paused"}]
  /\ prompt \in [Titles -> BOOLEAN]
  /\ idleSince \in [Titles -> {"zero", "recent", "expired"}]
  /\ lastViewed \in [Titles -> {"recent", "expired"}]
  /\ autoPaused \in [Titles -> BOOLEAN]

\* The scanners.
ScanType ==
  [pc : {"waiting", "scanned", "flagged"}, todo : SUBSET Titles, current : Titles \cup {None}]

\* One scanner: what it has to do agrees with where it is.
ScanAgrees(r) ==
  /\ r.pc = "waiting" <=> r.todo = {}
  /\ r.current # None <=> r.pc = "flagged"
  /\ r.current # None => r.current \in r.todo

ScansTyped ==
  /\ scan \in [Scanners -> ScanType]
  /\ \A s \in Scanners : ScanAgrees(scan[s])

LEMMA TypeParts == TypeOK <=> FieldsTyped /\ ScansTyped
BY DEF TypeOK, FieldsTyped, ScansTyped, ScanType, ScanAgrees

LEMMA TypeInit == Init => TypeOK
<1> SUFFICES ASSUME Init PROVE FieldsTyped /\ ScansTyped
  BY TypeParts
<1>1. FieldsTyped
  BY DEF Init, FieldsTyped
<1>2. NoScan \in ScanType /\ ScanAgrees(NoScan)
  BY DEF NoScan, ScanType, ScanAgrees
<1>3. ScansTyped
  BY <1>2 DEF Init, ScansTyped
<1> QED
  BY <1>1, <1>3

-----------------------------------------------------------------------------
\* The sessions' fields keep their types, in two groups: the operations of
\* the user and the program, and the scanners with the clock.
LEMMA FieldsByUser ==
  ASSUME TypeOK, NEW t \in Titles,
         \/ CreateSession(t) \/ StartSession(t) \/ KillSession(t)
         \/ TouchSession(t) \/ OpenSession(t)
         \/ ResumeSession(t) \/ PauseSession(t) \/ PromptChanges(t)
  PROVE  FieldsTyped'
<1> USE TypeParts DEF FieldsTyped, stamps, Quiet, Runs
<1>1. CASE CreateSession(t)
  BY <1>1 DEF CreateSession
<1>2. CASE StartSession(t)
  BY <1>2 DEF StartSession
<1>3. CASE KillSession(t)
  BY <1>3 DEF KillSession
<1>4. CASE TouchSession(t)
  BY <1>4 DEF TouchSession, Viewed
<1>5. CASE OpenSession(t)
  BY <1>5 DEF OpenSession, Viewed
<1>6. CASE ResumeSession(t)
  BY <1>6 DEF ResumeSession
<1>7. CASE PauseSession(t)
  BY <1>7 DEF PauseSession, Pauses
<1>8. CASE PromptChanges(t)
  BY <1>8 DEF PromptChanges
<1> QED
  BY <1>1, <1>2, <1>3, <1>4, <1>5, <1>6, <1>7, <1>8

LEMMA MarkedTyped ==
  ASSUME TypeOK, NEW t \in Titles
  PROVE  Marked(t) \in {"zero", "recent", "expired"}
BY DEF TypeOK, Marked

LEMMA AgedTyped ==
  ASSUME TypeOK, NEW t \in Titles
  PROVE  /\ Aged(idleSince[t]) \in {"zero", "recent", "expired"}
         /\ Aged(lastViewed[t]) = "expired"
BY DEF TypeOK, Aged

LEMMA FieldsByScans ==
  ASSUME TypeOK,
         \/ \E s \in Scanners : PollAllStatuses(s) \/ FlagAutoPaused(s) \/ AutoPause(s)
         \/ CheckIdleSessions \/ Tick \/ Restart
  PROVE  FieldsTyped'
<1> USE TypeParts DEF FieldsTyped, stamps
<1>1. ASSUME NEW s \in Scanners, PollAllStatuses(s)
      PROVE  FieldsTyped'
  BY <1>1, MarkedTyped DEF PollAllStatuses
<1>2. CASE CheckIdleSessions
  BY <1>2, MarkedTyped DEF CheckIdleSessions
<1>3. ASSUME NEW s \in Scanners, FlagAutoPaused(s)
      PROVE  FieldsTyped'
  <2>1. PICK t \in scan[s].todo : autoPaused' = [autoPaused EXCEPT ![t] = @ \/ Present(t)]
    BY <1>3 DEF FlagAutoPaused
  <2>2. autoPaused' \in [Titles -> BOOLEAN]
    BY <2>1 DEF Present
  <2> QED
    BY <1>3, <2>2 DEF FlagAutoPaused
<1>4. ASSUME NEW s \in Scanners, AutoPause(s)
      PROVE  FieldsTyped'
  BY <1>4 DEF AutoPause, Pauses, Quiet
<1>5. CASE Tick
  BY <1>5, AgedTyped DEF Tick
<1>6. CASE Restart
  BY <1>6 DEF Restart
<1> QED
  BY <1>1, <1>2, <1>3, <1>4, <1>5, <1>6

-----------------------------------------------------------------------------
\* A scanner that has found something, or nothing.
LEMMA FoundTyped ==
  ASSUME TypeOK, NEW s \in Scanners, NEW todo \in SUBSET Titles, Found(s, todo)
  PROVE  ScansTyped'
<1> USE ScannersAssumption
<1> DEFINE r == IF todo = {} THEN NoScan ELSE [pc |-> "scanned", todo |-> todo, current |-> None]
<1>1. r \in ScanType /\ ScanAgrees(r)
  BY DEF NoScan, ScanType, ScanAgrees
<1>2. scan' = [scan EXCEPT ![s] = r]
  BY DEF Found
<1> HIDE DEF r
<1> QED
  BY <1>1, <1>2, TypeParts DEF Found, ScansTyped

\* A scanner that goes on to its next session, or is through.
LEMMA ProceedsTyped ==
  ASSUME TypeOK, NEW s \in Scanners, Proceeds(s)
  PROVE  ScansTyped'
<1>1. scan[s].todo \ {scan[s].current} \in SUBSET Titles
  BY TypeParts DEF ScansTyped, ScanType
<1> QED
  BY <1>1, FoundTyped DEF Proceeds

LEMMA CandidatesTyped ==
  ASSUME NEW idle PROVE Candidates(idle) \in SUBSET Titles
BY DEF Candidates, Scanned

LEMMA TypeNext == TypeOK /\ [Next]_vars => TypeOK'
<1> SUFFICES ASSUME TypeOK, [Next]_vars
             PROVE  FieldsTyped' /\ ScansTyped'
  BY TypeParts DEF TypeOK, FieldsTyped, ScansTyped, ScanType, ScanAgrees
<1>1. ASSUME NEW t \in Titles,
             \/ CreateSession(t) \/ StartSession(t) \/ KillSession(t)
             \/ TouchSession(t) \/ OpenSession(t)
             \/ ResumeSession(t) \/ PauseSession(t) \/ PromptChanges(t)
      PROVE  FieldsTyped' /\ ScansTyped'
  <2>1. FieldsTyped'
    BY <1>1, FieldsByUser
  <2>2. CASE TouchSession(t) \/ OpenSession(t)
    BY <2>1, <2>2, TypeParts DEF TouchSession, OpenSession, Viewed, ScansTyped
  <2>3. CASE \/ CreateSession(t) \/ StartSession(t) \/ KillSession(t)
             \/ ResumeSession(t) \/ PauseSession(t) \/ PromptChanges(t)
    BY <2>1, <2>3, TypeParts
       DEF CreateSession, StartSession, KillSession, ResumeSession, PauseSession, PromptChanges,
           ScansTyped
  <2> QED
    BY <1>1, <2>2, <2>3
<1>2. ASSUME NEW s \in Pollers, PollAllStatuses(s)
      PROVE  FieldsTyped' /\ ScansTyped'
  <2>1. s \in Scanners
    BY DEF Scanners
  <2> QED
    BY <1>2, <2>1, FieldsByScans, FoundTyped, CandidatesTyped DEF PollAllStatuses
<1>3. CASE CheckIdleSessions
  <2>1. Checker \in Scanners
    BY DEF Scanners
  <2> QED
    BY <1>3, <2>1, FieldsByScans, FoundTyped, CandidatesTyped DEF CheckIdleSessions
<1>4. ASSUME NEW s \in Scanners, FlagAutoPaused(s)
      PROVE  FieldsTyped' /\ ScansTyped'
  <2>1. FieldsTyped'
    BY <1>4, FieldsByScans
  <2>2. PICK t \in scan[s].todo : scan' = [scan EXCEPT ![s].pc = "flagged", ![s].current = t]
    BY <1>4 DEF FlagAutoPaused
  <2>3. t \in Titles /\ t # None
    BY <2>2, ScannersAssumption DEF TypeOK
  <2>4. scan'[s] \in ScanType /\ ScanAgrees(scan'[s])
    BY <1>4, <2>2, <2>3, TypeParts DEF FlagAutoPaused, ScansTyped, ScanType, ScanAgrees
  <2>5. scan' = [scan EXCEPT ![s] = scan'[s]]
    BY <2>2, TypeParts DEF ScansTyped
  <2>6. ScansTyped'
    BY <1>4, <2>4, <2>5, TypeParts DEF FlagAutoPaused, ScansTyped
  <2> QED
    BY <2>1, <2>6
<1>5. ASSUME NEW s \in Scanners, AutoPause(s)
      PROVE  FieldsTyped' /\ ScansTyped'
  BY <1>5, FieldsByScans, ProceedsTyped DEF AutoPause
<1>6. CASE Tick
  <2>1. ScansTyped'
    BY <1>6, TypeParts DEF Tick, ScansTyped
  <2> QED
    BY <1>6, <2>1, FieldsByScans
<1>7. CASE Restart
  <2>1. NoScan \in ScanType /\ ScanAgrees(NoScan)
    BY DEF NoScan, ScanType, ScanAgrees
  <2>2. ScansTyped'
    BY <1>7, <2>1 DEF Restart, ScansTyped
  <2> QED
    BY <1>7, <2>2, FieldsByScans
<1>8. CASE UNCHANGED vars
  BY <1>8, TypeParts DEF vars, FieldsTyped, ScansTyped
<1> QED
  BY <1>1, <1>2, <1>3, <1>4, <1>5, <1>6, <1>7, <1>8 DEF Next

\* The types of the sessions' fields; a scanner that waits has nothing to do,
\* and one that has flagged a session has it still to pause.
THEOREM TypeCorrect == Spec => []TypeOK
BY TypeInit, TypeNext, PTL DEF Spec
-----------------------------------------------------------------------------
\* Refinement: every step takes the state of one title the way the registry
\* allows, or ends the application, or leaves all of them alone.
LEMMA RegistryInit == Init => Registry!Init
BY DEF Init, Registry!Init

LEMMA PausesRefine ==
  ASSUME TypeOK, NEW t \in Titles, Pauses(t)
  PROVE  Registry!Pause(t) \/ UNCHANGED status
BY DEF Pauses, Registry!Pause, Registry!Becomes

LEMMA RestartRefines ==
  ASSUME TypeOK, Restart
  PROVE  Registry!Stop
<1> DEFINE kept == {t \in Titles : status[t] \in {"running", "paused"}}
<1>1. status' = [t \in Titles |-> IF t \in kept THEN "paused" ELSE "absent"]
  BY DEF Restart
<1> QED
  BY <1>1 DEF Registry!Stop

LEMMA RegistryNext == TypeOK /\ [Next]_vars => [Registry!Next]_<<status, TRUE>>
<1> SUFFICES ASSUME TypeOK, [Next]_vars
             PROVE  Registry!Step
  BY DEF Registry!Next
<1> USE DEF Registry!Becomes
<1>1. ASSUME NEW t \in Titles, CreateSession(t)
      PROVE  Registry!Create(t)
  BY <1>1 DEF CreateSession, TypeOK, Registry!Create, Registry!States
<1>2. ASSUME NEW t \in Titles, StartSession(t)
      PROVE  Registry!Start(t)
  BY <1>2 DEF StartSession, Runs, Registry!Start
<1>3. ASSUME NEW t \in Titles, KillSession(t)
      PROVE  Registry!Remove(t)
  BY <1>3 DEF KillSession, TypeOK, Registry!Remove, Registry!States
<1>4. ASSUME NEW t \in Titles, OpenSession(t) \/ ResumeSession(t)
      PROVE  Registry!Resume(t) \/ UNCHANGED status
  BY <1>4 DEF OpenSession, ResumeSession, Runs, Registry!Resume
<1>5. ASSUME NEW t \in Titles, PauseSession(t)
      PROVE  Registry!Pause(t) \/ UNCHANGED status
  BY <1>5, PausesRefine DEF PauseSession
<1>6. ASSUME NEW s \in Scanners, AutoPause(s)
      PROVE  \E t \in Titles : Registry!Pause(t) \/ UNCHANGED status
  <2>1. scan[s].current \in Titles
    BY <1>6, TypeParts DEF AutoPause, ScansTyped, ScanType, ScanAgrees
  <2> QED
    BY <1>6, <2>1, PausesRefine DEF AutoPause
<1>7. ASSUME NEW t \in Titles, TouchSession(t) \/ PromptChanges(t)
      PROVE  UNCHANGED status
  BY <1>7 DEF TouchSession, PromptChanges
<1>8. ASSUME NEW s \in Scanners, PollAllStatuses(s) \/ FlagAutoPaused(s)
      PROVE  UNCHANGED status
  BY <1>8 DEF PollAllStatuses, FlagAutoPaused
<1>9. CASE CheckIdleSessions \/ Tick \/ UNCHANGED vars
  BY <1>9 DEF CheckIdleSessions, Tick, vars, Registry!Step
<1>10. CASE Restart
  BY <1>10, RestartRefines DEF Registry!Step
<1> QED
  BY <1>1, <1>2, <1>3, <1>4, <1>5, <1>6, <1>7, <1>8, <1>9, <1>10
     DEF Next, Scanners, Registry!Step

\* Automatic pausing implements SessionRegistry: a session that was killed,
\* replaced, paused or resumed between the scan and the pause goes through no
\* state the user could not have taken it to (PauseSession looks it up again).
THEOREM PausingRefines == Spec => RegistrySpec
<1>1. Init => Registry!Init
  BY RegistryInit
<1>2. TypeOK /\ [Next]_vars => [Registry!Next]_<<status, TRUE>>
  BY RegistryNext
<1> QED
  BY <1>1, <1>2, TypeCorrect, PTL DEF Spec, RegistrySpec, Registry!Spec, Registry!vars
=============================================================================
