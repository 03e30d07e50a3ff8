---------------------- MODULE SessionLifecycle_proofs ----------------------
(***************************************************************************)
(* Theorems about SessionLifecycle, for any titles, instances, worktrees,  *)
(* processes and calls, in five parts: the types; the registry it          *)
(* implements; the file and what a crash loses; processes, worktrees and   *)
(* commits; what shows Loading.  Each part adds its clauses to the         *)
(* invariant of the one before (TypeInv, RegistryInv, DiskInv, OwnInv,     *)
(* AttendInv).                                                             *)
(***************************************************************************)
EXTENDS SessionLifecycle, TLAPS

(***************************************************************************)
(* Part 1: types.                                                          *)
(***************************************************************************)
InstType == [status : Statuses, kind : {"worktree", "inplace", "remote"},
             started : BOOLEAN, proc : Procs \cup {None},
             tree : Trees \cup {None}, baseRef : BOOLEAN]
RecordType == [inst : Insts, tree : Trees \cup {None}]
CallType == [pc : Pcs, inst : Insts \cup {None}, title : Titles \cup {None}]

\* A call in flight returns, or moves on to another step.
Moves(c) == Return(c) \/ \E pc \in Pcs \ {"idle"} : Goto(c, pc)

CallsOK ==
  /\ call \in [Callers -> CallType]
  /\ \A c \in Callers : call[c].pc = "idle" <=> call[c].inst = None

\* TypeOK, with its types named.
Typed ==
  /\ up \in BOOLEAN
  /\ sessions \in [Titles -> Insts \cup {None}]
  /\ disk \in [Titles -> RecordType \cup {None}]
  /\ indexers \in [Titles -> Insts \cup {None}]
  /\ loose \subseteq Insts
  /\ inst \in [Insts -> InstType]
  /\ procs \in [Procs -> Insts \cup {None}]
  /\ trees \subseteq Trees
  /\ commits \subseteq Trees
  /\ CallsOK
  /\ overtaken \subseteq Insts

\* The rest of TypeOK: what only OpenSession and the saves change.
SideTyped ==
  /\ unsaved \in BOOLEAN
  /\ strays \subseteq Insts
  /\ moved \subseteq Callers
  /\ replaced \subseteq Insts

\* The type invariant with what it rests on: an object the map, the file or a
\* call refers to is never taken for an unused one, so that the worktree a
\* call is setting up stays its own.  No call is in flight while the
\* application is down.
TypeInv ==
  /\ Typed /\ SideTyped
  /\ ~up => \A c \in Callers : call[c].pc = "idle"
  /\ \A t \in Titles : sessions[t] # None => inst[sessions[t]].status # "unused"
  /\ \A t \in Titles : disk[t] # None => inst[disk[t].inst].status # "unused"
  /\ \A c \in Callers : call[c].pc # "idle" => inst[call[c].inst].status # "unused"
  /\ \A c \in Callers : call[c].pc = "setup" => inst[call[c].inst].tree # None
  /\ \A c \in Callers : call[c].pc # "idle" => call[c].title \in Titles

-----------------------------------------------------------------------------
(***************************************************************************)
(* What the helpers return.                                                *)
(***************************************************************************)

\* What is saved is a file of records.
LEMMA PersistedType ==
  ASSUME NEW S \in [Titles -> Insts \cup {None}], NEW I \in [Insts -> InstType]
  PROVE  Persisted(S, I) \in [Titles -> RecordType \cup {None}]
BY DEF Persisted, InstType, RecordType

\* Whether a save succeeds or fails, the file is one of records.
LEMMA SaveType ==
  ASSUME Typed, sessions' \in [Titles -> Insts \cup {None}], inst' \in [Insts -> InstType], Save
  PROVE  disk' \in [Titles -> RecordType \cup {None}]
BY PersistedType DEF Save, SaveFails, Typed

\* Killing a process leaves processes, and so does a renewed manager.
LEMMA WithoutProcessOfType ==
  ASSUME Typed, NEW i \in Insts
  PROVE  WithoutProcessOf(i) \in [Procs -> Insts \cup {None}]
BY DEF Typed, WithoutProcessOf

LEMMA KnownProcsType ==
  ASSUME Typed, NEW i, NEW renewed
  PROVE  KnownProcs(i, renewed) \in [Procs -> Insts \cup {None}]
BY DEF Typed, KnownProcs

\* A spawn gives the instance a process and the process its instance.
LEMMA RunsType ==
  ASSUME Typed, NEW i \in Insts, NEW r \in InstType, NEW p \in Procs, Runs(i, r, p)
  PROVE  inst' \in [Insts -> InstType]
<1>1. [r EXCEPT !.status = "running", !.started = TRUE, !.proc = p] \in InstType
  BY DEF InstType, Statuses
<1> QED
  BY <1>1 DEF Runs, Typed

LEMMA SpawnedType ==
  ASSUME Typed, NEW i \in Insts, NEW r \in InstType,
         \/ \E P \in [Procs -> Insts \cup {None}] : Spawned(i, r, P)
         \/ SpawnedAstray(i, r)
  PROVE  /\ inst' \in [Insts -> InstType]
         /\ procs' \in [Procs -> Insts \cup {None}]
<1>1. PICK p \in Procs : Runs(i, r, p)
  BY DEF Spawned, SpawnedAstray, FreshProcs
<1>2. procs' \in [Procs -> Insts \cup {None}]
  BY DEF Spawned, SpawnedAstray, FreshProcs, Typed
<1> QED
  BY <1>1, <1>2, RunsType

\* Cleaning up removes.
LEMMA CleanupType ==
  ASSUME NEW T, NEW tr \in SUBSET Trees, NEW cm \in SUBSET Trees, CleanupFrom(T, tr, cm)
  PROVE  trees' \subseteq Trees /\ commits' \subseteq Trees
BY DEF CleanupFrom

\* Setting a worktree up keeps commits, or drops its own.
LEMMA CommitsAfterSetupType ==
  ASSUME Typed, NEW i \in Insts
  PROVE  CommitsAfterSetup(i) \subseteq Trees /\ CommitsAfterResume(i) \subseteq Trees
BY DEF Typed, CommitsAfterSetup, CommitsAfterResume

\* A call that moves on to another step, or returns.
LEMMA GotoType ==
  ASSUME Typed, NEW c \in Callers, call[c].pc # "idle", Moves(c)
  PROVE  CallsOK'
BY ConstantsAssumption DEF Moves, CallsOK, Typed, CallType, Return, Goto, NoCall, Pcs, StartPcs

\* A call in flight is about an instance and leaves it in the call.
LEMMA CallHasInst ==
  ASSUME Typed, NEW c \in Callers, call[c].pc # "idle"
  PROVE  call[c].inst \in Insts /\ inst[call[c].inst] \in InstType
BY DEF Typed, CallsOK, CallType

\* Typed is TypeOK.
LEMMA TypedIsTypeOK == Typed /\ SideTyped => TypeOK
BY DEF Typed, SideTyped, TypeOK, CallsOK, InstType, RecordType, CallType

-----------------------------------------------------------------------------
(***************************************************************************)
(* Type correctness, one group of steps at a time.                         *)
(***************************************************************************)
LEMMA TypeInit == Init => TypeInv
<1> SUFFICES ASSUME Init PROVE TypeInv
  OBVIOUS
<1>1. NoInstance \in InstType
  BY DEF NoInstance, InstType, Statuses
<1>2. CallsOK
  BY DEF Init, CallsOK, CallType, NoCall, Pcs, StartPcs
<1>3. Typed
  BY <1>1, <1>2 DEF Init, Typed
<1> QED
  BY <1>3 DEF Init, TypeInv, SideTyped, NoCall

\* The steps of StartSession.
LEMMA TypedStart ==
  ASSUME TypeInv, NEW c \in Callers, StartStep(c)
  PROVE  Typed'
<1> DEFINE i == call[c].inst
<1>1. call[c].pc # "idle"
  BY DEF StartStep, StartConstruct, StartSetup, StartSpawn, StartFailed, StartPublish, StartIndex
<1>2. Typed /\ i \in Insts /\ inst[i] \in InstType
  BY <1>1, CallHasInst DEF TypeInv
<1>3. call[c].title \in Titles \cup {None}
  BY <1>2 DEF Typed, CallsOK, CallType
<1>4. CASE StartConstruct(c)
  <2>1. CallsOK'
    BY <1>1, <1>2, <1>4, GotoType DEF StartConstruct, Moves, Pcs, StartPcs
  <2>2. inst' \in [Insts -> InstType]
    <3>1. CASE UNCHANGED inst
      BY <3>1, <1>2 DEF Typed
    <3>2. CASE \E T \in FreshTrees, ref \in BOOLEAN : inst' = [inst EXCEPT ![i].tree = T, ![i].baseRef = ref]
      BY <3>2, <1>2 DEF FreshTrees, InstType, Typed
    <3> QED
      BY <1>4, <3>1, <3>2 DEF StartConstruct
  <2> QED
    BY <1>2, <1>4, <2>1, <2>2 DEF StartConstruct, Typed
<1>5. CASE StartSetup(c)
  <2>1. CallsOK'
    BY <1>1, <1>2, <1>5, GotoType DEF StartSetup, Moves, Pcs, StartPcs
  <2>2. commits' \subseteq Trees
    BY <1>2, <1>5, CommitsAfterSetupType DEF StartSetup
  <2>3. inst[i].tree \in Trees
    BY <1>2, <1>5 DEF StartSetup, TypeInv, InstType
  <2> QED
    BY <1>2, <1>5, <2>1, <2>2, <2>3 DEF StartSetup, Typed
<1>6. CASE StartSpawn(c)
  <2>1. CallsOK'
    BY <1>1, <1>2, <1>6, GotoType DEF StartSpawn, Moves, Pcs, StartPcs
  <2>2. CASE (Spawned(i, inst[i], procs) \/ SpawnedAstray(i, inst[i])) /\ UNCHANGED <<trees, commits>>
    BY <1>2, <1>6, <2>1, <2>2, SpawnedType DEF StartSpawn, Typed
  <2>3. CASE Cleanup(inst[i].tree) /\ UNCHANGED <<inst, procs>>
    <3>1. trees' \subseteq Trees /\ commits' \subseteq Trees
      BY <1>2, <2>3, CleanupType DEF Cleanup, Typed
    <3> QED
      BY <1>2, <1>6, <2>1, <2>3, <3>1 DEF StartSpawn, Typed
  <2> QED
    BY <1>6, <2>2, <2>3 DEF StartSpawn
<1>7. CASE StartFailed(c)
  <2>1. CallsOK'
    BY <1>1, <1>2, <1>7, GotoType DEF StartFailed, Moves
  <2>2. inst' \in [Insts -> InstType] /\ procs' \in [Procs -> Insts \cup {None}]
    <3>1. CASE inst[i].started
      <4>1. inst' = [inst EXCEPT ![i].proc = None] /\ procs' = WithoutProcessOf(i)
        BY <1>7, <3>1 DEF StartFailed
      <4>2. [inst[i] EXCEPT !.proc = None] \in InstType
        BY <1>2 DEF InstType
      <4> QED
        BY <1>2, <4>1, <4>2, WithoutProcessOfType DEF Typed
    <3>2. CASE ~inst[i].started
      BY <1>2, <1>7, <3>2 DEF StartFailed, Typed
    <3> QED
      BY <3>1, <3>2
  <2>3. trees' \subseteq Trees /\ commits' \subseteq Trees
    BY <1>2, <1>7, CleanupType DEF StartFailed, Cleanup, Typed
  <2>4. sessions' \in [Titles -> Insts \cup {None}] /\ indexers' \in [Titles -> Insts \cup {None}]
    BY <1>2, <1>7 DEF StartFailed, Typed
  <2>5. disk' \in [Titles -> RecordType \cup {None}]
    BY <1>2, <1>7, <2>2, <2>4, SaveType DEF StartFailed
  <2> QED
    BY <1>2, <1>7, <2>1, <2>2, <2>3, <2>4, <2>5 DEF StartFailed, Typed
<1>8. CASE StartPublish(c)
  <2>1. CallsOK'
    BY <1>1, <1>2, <1>8, GotoType DEF StartPublish, Moves, Pcs, StartPcs
  <2>2. disk' \in [Titles -> RecordType \cup {None}]
    BY <1>2, <1>8, SaveType DEF StartPublish, Typed
  <2>3. indexers' \in [Titles -> Insts \cup {None}] /\ loose' \subseteq Insts
    BY <1>1, <1>2, <1>8 DEF StartPublish, IndexStarted, Typed, TypeInv
  <2> QED
    BY <1>2, <1>8, <2>1, <2>2, <2>3 DEF StartPublish, Typed
<1>9. CASE StartIndex(c)
  <2>1. CallsOK'
    BY <1>1, <1>2, <1>9, GotoType DEF StartIndex, Moves
  <2>2. indexers' \in [Titles -> Insts \cup {None}] /\ loose' \subseteq Insts
    BY <1>1, <1>2, <1>9 DEF StartIndex, IndexStarted, Typed, TypeInv
  <2> QED
    BY <1>2, <1>9, <2>1, <2>2 DEF StartIndex, Typed
<1> QED
  BY <1>4, <1>5, <1>6, <1>7, <1>8, <1>9 DEF StartStep

\* The steps of KillSession, and the first step of either call.
LEMMA TypedCalls ==
  ASSUME TypeInv, NEW c \in Callers,
         KillStep(c) \/ \E t \in Titles : StartBegin(c, t) \/ KillBegin(c, t)
  PROVE  Typed'
<1>1. Typed
  BY DEF TypeInv
<1>2. CASE KillProcess(c)
  <2> DEFINE i == call[c].inst
  <2>1. call[c].pc # "idle" /\ i \in Insts /\ inst[i] \in InstType
    BY <1>1, <1>2, CallHasInst DEF KillProcess
  <2>2. CallsOK'
    BY <1>1, <1>2, <2>1, GotoType DEF KillProcess, Moves, Pcs, StartPcs
  <2>3. CASE inst[i].started
    <3>1. inst' = [inst EXCEPT ![i].proc = None] /\ procs' = WithoutProcessOf(i)
      BY <1>2, <2>3 DEF KillProcess
    <3>2. [inst[i] EXCEPT !.proc = None] \in InstType
      BY <2>1 DEF InstType
    <3> QED
      BY <1>1, <1>2, <2>1, <2>2, <3>1, <3>2, WithoutProcessOfType DEF KillProcess, Typed
  <2>4. CASE ~inst[i].started
    BY <1>1, <1>2, <2>2, <2>4 DEF KillProcess, Typed
  <2> QED
    BY <2>3, <2>4
<1>3. CASE KillCleanup(c)
  <2>1. call[c].pc # "idle"
    BY <1>3 DEF KillCleanup
  <2>2. CallsOK'
    BY <1>1, <1>3, <2>1, GotoType DEF KillCleanup, Moves
  <2>3. trees' \subseteq Trees /\ commits' \subseteq Trees
    BY <1>1, <1>3, CleanupType DEF KillCleanup, Cleanup, Typed
  <2> QED
    BY <1>1, <1>3, <2>2, <2>3 DEF KillCleanup, Typed
<1>4. ASSUME NEW t \in Titles, StartBegin(c, t)
      PROVE  Typed'
  <2> DEFINE i == sessions[t]
  <2>1. i \in Insts /\ inst[i] \in InstType
    BY <1>1, <1>4 DEF StartBegin, Typed
  <2>2. CallsOK'
    BY <1>1, <1>4, <2>1, ConstantsAssumption DEF StartBegin, Typed, CallsOK, CallType, Pcs, StartPcs
  <2>3. [inst[i] EXCEPT !.status = "loading"] \in InstType
    BY <2>1 DEF InstType, Statuses
  <2> QED
    BY <1>1, <1>4, <2>1, <2>2, <2>3 DEF StartBegin, Typed
<1>5. ASSUME NEW t \in Titles, KillBegin(c, t)
      PROVE  Typed'
  <2> DEFINE i == sessions[t]
  <2>1. i \in Insts
    BY <1>1, <1>5 DEF KillBegin, Typed
  <2>2. CallsOK'
    BY <1>1, <1>5, <2>1, ConstantsAssumption DEF KillBegin, Typed, CallsOK, CallType, Pcs, StartPcs
  <2>3. sessions' \in [Titles -> Insts \cup {None}] /\ inst' \in [Insts -> InstType]
    BY <1>1, <1>5 DEF KillBegin, Typed
  <2>4. disk' \in [Titles -> RecordType \cup {None}]
    BY <1>1, <1>5, <2>3, SaveType DEF KillBegin
  <2> QED
    BY <1>1, <1>5, <2>1, <2>2, <2>3, <2>4 DEF KillBegin, Typed
<1> QED
  BY <1>2, <1>3, <1>4, <1>5 DEF KillStep

\* What Resume leaves behind, whether it succeeds or fails.
LEMMA TypedResumed ==
  ASSUME Typed, NEW i \in Insts, NEW r \in InstType, r.tree = inst[i].tree,
         NEW P \in [Procs -> Insts \cup {None}],
         Resumed(i, r, P) \/ ResumeFailed(i, r, P)
  PROVE  /\ inst' \in [Insts -> InstType]
         /\ procs' \in [Procs -> Insts \cup {None}]
         /\ trees' \subseteq Trees /\ commits' \subseteq Trees
<1>1. CommitsAfterResume(i) \subseteq Trees
  BY CommitsAfterSetupType
<1>2. r.tree \in Trees \cup {None}
  BY DEF InstType
<1>3. CASE Resumed(i, r, P)
  BY <1>1, <1>2, <1>3, SpawnedType DEF Resumed, Typed
<1>4. CASE ResumeRefused(i, r) /\ procs' = P
  BY <1>4 DEF ResumeRefused, Typed
<1>5. CASE ResumeSetupFailed(i, r) /\ procs' = P
  BY <1>1, <1>2, <1>5 DEF ResumeSetupFailed, TreeMissing, Typed
<1>6. CASE ResumeSpawnFailed(i, r) /\ procs' = P
  <2>1. PICK p \in {r.proc} \cup FreshProcs : inst' = [inst EXCEPT ![i] = [r EXCEPT !.proc = p]]
    BY <1>6 DEF ResumeSpawnFailed
  <2>2. [r EXCEPT !.proc = p] \in InstType
    BY <2>1 DEF InstType, FreshProcs
  <2>3. trees \cup {r.tree} \subseteq Trees
    BY <1>2, <1>6 DEF ResumeSpawnFailed, Typed
  <2>4. trees' \subseteq Trees /\ commits' \subseteq Trees
    BY <1>1, <1>6, <2>3, CleanupType DEF ResumeSpawnFailed
  <2> QED
    BY <1>6, <2>1, <2>2, <2>4 DEF Typed
<1> QED
  BY <1>3, <1>4, <1>5, <1>6 DEF ResumeFailed

\* OpenSession and ResumeSession.
LEMMA TypedResume ==
  ASSUME Typed, NEW t \in Titles, OpenSession(t) \/ ResumeSession(t)
  PROVE  Typed'
<1> DEFINE i == sessions[t]
<1>1. i \in Insts /\ inst[i] \in InstType
  BY DEF OpenSession, ResumeSession, Typed
<1>2. \A renewed \in BOOLEAN :
        /\ Reconnected(i, renewed) \in InstType /\ Reconnected(i, renewed).tree = inst[i].tree
        /\ KnownProcs(i, renewed) \in [Procs -> Insts \cup {None}]
  BY <1>1, KnownProcsType DEF Reconnected, ForcePaused, InstType, Statuses
<1>3. CallsOK' /\ sessions' \in [Titles -> Insts \cup {None}]
  BY DEF OpenSession, ResumeSession, CallsOK, Typed
<1>4. ASSUME OpenSession(t) PROVE Typed'
  <2>1. PICK renewed \in BOOLEAN :
          \/ /\ Resumed(i, Reconnected(i, renewed), KnownProcs(i, renewed))
             /\ IndexOpened(t, i) /\ Save
          \/ /\ ResumeFailed(i, Reconnected(i, renewed), KnownProcs(i, renewed))
             /\ UNCHANGED <<disk, unsaved, indexers>>
          \/ /\ IndexOpened(t, i) /\ procs' = KnownProcs(i, renewed)
             /\ UNCHANGED <<disk, unsaved, inst, trees, commits>>
    BY <1>4 DEF OpenSession
  <2>2. /\ inst' \in [Insts -> InstType] /\ procs' \in [Procs -> Insts \cup {None}]
        /\ trees' \subseteq Trees /\ commits' \subseteq Trees
    BY <1>1, <1>2, <2>1, TypedResumed DEF Typed
  <2>3. disk' \in [Titles -> RecordType \cup {None}]
    BY <1>3, <2>1, <2>2, SaveType DEF Typed
  <2>4. indexers' \in [Titles -> Insts \cup {None}]
    BY <1>1, <2>1 DEF IndexOpened, Typed
  <2>5. UNCHANGED <<up, loose, overtaken>>
    BY <1>4 DEF OpenSession
  <2> QED
    BY <1>3, <2>2, <2>3, <2>4, <2>5 DEF Typed
<1>5. CASE ResumeSession(t)
  <2>1. procs \in [Procs -> Insts \cup {None}]
    BY DEF Typed
  <2>2. /\ inst' \in [Insts -> InstType] /\ procs' \in [Procs -> Insts \cup {None}]
        /\ trees' \subseteq Trees /\ commits' \subseteq Trees
    BY <1>1, <1>5, <2>1, TypedResumed DEF ResumeSession
  <2>3. disk' \in [Titles -> RecordType \cup {None}]
    BY <1>3, <1>5, <2>2, SaveType DEF ResumeSession, Typed
  <2> QED
    BY <1>3, <1>5, <2>2, <2>3 DEF ResumeSession, Typed
<1> QED
  BY <1>4, <1>5

\* The other operations, which keep the lock to their end.
LEMMA TypedOperation ==
  ASSUME Typed, NEW t \in Titles,
         \/ \E k \in Kinds : CreateSession(t, k)
         \/ PauseSession(t) \/ IndexSession(t) \/ StopIndexer(t)
  PROVE  Typed'
<1>1. ASSUME NEW k \in Kinds, CreateSession(t, k)
      PROVE  Typed'
  <2>1. PICK i \in Insts :
          /\ inst' = [inst EXCEPT ![i] = [NoInstance EXCEPT !.status = "ready", !.kind = k]]
          /\ sessions' = [sessions EXCEPT ![t] = i]
    BY <1>1 DEF CreateSession
  <2>2. [NoInstance EXCEPT !.status = "ready", !.kind = k] \in InstType
    BY ConstantsAssumption DEF NoInstance, InstType, Statuses
  <2>3. sessions' \in [Titles -> Insts \cup {None}] /\ inst' \in [Insts -> InstType]
    BY <2>1, <2>2 DEF Typed
  <2>4. disk' \in [Titles -> RecordType \cup {None}]
    BY <1>1, <2>3, SaveType DEF CreateSession
  <2>5. UNCHANGED <<up, indexers, loose, procs, trees, commits, call, overtaken>>
    BY <1>1 DEF CreateSession
  <2> QED
    BY <2>3, <2>4, <2>5 DEF Typed, CallsOK
<1>2. CASE PauseSession(t)
  <2> DEFINE i == sessions[t]
  <2>1. i \in Insts /\ inst[i] \in InstType
    BY <1>2 DEF PauseSession, Typed
  <2>2. CASE Paused(i) /\ Save
    <3>1. [inst[i] EXCEPT !.status = "paused", !.proc = None] \in InstType
      BY <2>1 DEF InstType, Statuses
    <3>2. inst' \in [Insts -> InstType]
      BY <2>1, <2>2, <3>1 DEF Paused, Typed
    <3>3. sessions' \in [Titles -> Insts \cup {None}]
      BY <1>2 DEF PauseSession, Typed
    <3>4. disk' \in [Titles -> RecordType \cup {None}]
      BY <2>2, <3>2, <3>3, SaveType
    <3> QED
      BY <1>2, <2>1, <2>2, <3>2, <3>4, WithoutProcessOfType DEF PauseSession, Paused, Typed, CallsOK
  <2>3. CASE UNCHANGED <<procs, inst, disk>>
    BY <1>2, <2>3 DEF PauseSession, Typed, CallsOK
  <2> QED
    BY <1>2, <2>2, <2>3 DEF PauseSession
<1>3. CASE IndexSession(t)
  BY <1>3 DEF IndexSession, Typed, CallsOK
<1>4. CASE StopIndexer(t)
  BY <1>4 DEF StopIndexer, Typed, CallsOK
<1> QED
  BY <1>1, <1>2, <1>3, <1>4

\* The end of the application, its restart, and the world around it.
LEMMA TypedWorld ==
  ASSUME Typed,
         \/ Close \/ Crash \/ Restart
         \/ \E p \in Procs : ProcessExits(p) \/ ProcessCommits(p)
         \/ \E i \in Insts : StrayExits(i) \/ StrayCommits(i)
         \/ \E T \in Trees : TreeDeleted(T)
  PROVE  Typed'
<1>1. ASSUME NEW saved \in BOOLEAN, Stop(saved)
      PROVE  Typed'
  <2>1. Persisted(sessions, inst) \in [Titles -> RecordType \cup {None}]
    BY PersistedType DEF Typed
  <2>2. CallsOK'
    BY <1>1 DEF Stop, CallsOK, CallType, NoCall, Pcs, StartPcs
  <2>3. disk' \in [Titles -> RecordType \cup {None}]
    BY <1>1, <2>1 DEF Stop, SaveFails, Typed
  <2> QED
    BY <1>1, <2>2, <2>3 DEF Stop, Typed
<1>2. CASE Restart
  <2> DEFINE saved == {disk[t] : t \in Titles} \ {None}
  <2>1. saved \subseteq RecordType
    BY DEF Typed
  <2>2. \A i \in Insts : [inst[i] EXCEPT !.proc = None] \in InstType
    BY DEF Typed, InstType
  <2>3. ASSUME NEW d \in RecordType
        PROVE  Restored(d) \in InstType
    <3>1. inst[d.inst] \in InstType /\ d.tree \in Trees \cup {None}
      BY DEF Typed, RecordType
    <3> QED
      BY <3>1 DEF Restored, InstType, Statuses
  <2>4. inst' \in [Insts -> InstType]
    BY <1>2, <2>1, <2>2, <2>3 DEF Restart
  <2>5. sessions' \in [Titles -> Insts \cup {None}]
    BY <1>2 DEF Restart, Typed, RecordType
  <2> QED
    BY <1>2, <2>4, <2>5 DEF Restart, Typed, CallsOK
<1>3. ASSUME NEW p \in Procs, ProcessExits(p) \/ ProcessCommits(p)
      PROVE  Typed'
  BY <1>3 DEF ProcessExits, ProcessCommits, Typed, CallsOK
<1>4. ASSUME NEW T \in Trees, TreeDeleted(T)
      PROVE  Typed'
  BY <1>4 DEF TreeDeleted, Typed, CallsOK
<1>5. ASSUME NEW i \in Insts, StrayExits(i) \/ StrayCommits(i)
      PROVE  Typed'
  BY <1>5 DEF StrayExits, StrayCommits, Typed, CallsOK
<1> QED
  BY <1>1, <1>2, <1>3, <1>4, <1>5 DEF Close, Crash

\* What only the saves, the managers and the namesakes change.
LEMMA SideStep ==
  ASSUME TypeInv, Next
  PROVE  SideTyped'
<1>1. SideTyped /\ Typed /\ CallsOK /\ \A t \in Titles : sessions[t] \in Insts \cup {None}
  BY DEF TypeInv, Typed
<1>2. unsaved' \in BOOLEAN
  BY <1>1 DEF Next, CreateSession, StartBegin, KillBegin, OpenSession, ResumeSession, PauseSession,
           IndexSession, StopIndexer, StartStep, StartConstruct, StartSetup, StartSpawn,
           StartFailed, StartPublish, StartIndex, KillStep, KillProcess, KillCleanup, Save, SaveFails,
           Close, Crash, Stop, Restart, ProcessExits, ProcessCommits, StrayExits, StrayCommits,
           TreeDeleted, SideTyped
<1>3. strays' \subseteq Insts
  <2>1. CASE \E t \in Titles : OpenSession(t)
    <3>1. PICK t \in Titles, renewed \in BOOLEAN :
            LeftBehind(sessions[t], renewed) /\ sessions[t] \in Insts
      BY <1>1, <2>1 DEF OpenSession
    <3> QED
      BY <1>1, <3>1 DEF LeftBehind, SideTyped
  <2>2. CASE \E c \in Callers : StartSpawn(c)
    <3>1. PICK c \in Callers : StartSpawn(c)
      BY <2>2
    <3>2. call[c].inst \in Insts
      BY <1>1, <3>1, CallHasInst DEF StartSpawn
    <3> QED
      BY <1>1, <3>1, <3>2 DEF StartSpawn, SpawnedAstray, SideTyped
  <2> QED
    BY <1>1, <2>1, <2>2
       DEF Next, CreateSession, StartBegin, KillBegin, ResumeSession, PauseSession,
           IndexSession, StopIndexer, StartStep, StartConstruct, StartSetup,
           StartFailed, StartPublish, StartIndex, KillStep, KillProcess, KillCleanup,
           Close, Crash, Stop, Restart, ProcessExits, ProcessCommits, StrayExits, StrayCommits,
           TreeDeleted, SideTyped
<1>4. moved' \subseteq Callers
  BY <1>1 DEF Next, CreateSession, StartBegin, KillBegin, OpenSession, LeftBehind, ResumeSession,
           PauseSession, IndexSession, StopIndexer, StartStep, StartConstruct, StartSetup, StartSpawn,
           StartFailed, StartPublish, StartIndex, KillStep, KillProcess, KillCleanup,
           Close, Crash, Stop, Restart, ProcessExits, ProcessCommits, StrayExits, StrayCommits,
           TreeDeleted, SideTyped
<1>5. replaced' \subseteq Insts
  <2>1. CASE \E c \in Callers : StartFailed(c)
    <3>1. PICK c \in Callers : StartFailed(c)
      BY <2>1
    <3>2. sessions[call[c].title] \in Insts \cup {None}
      BY <1>1, <3>1 DEF StartFailed, TypeInv
    <3> QED
      BY <1>1, <3>1, <3>2 DEF StartFailed, SideTyped
  <2>2. CASE \E t \in Titles, k \in Kinds : CreateSession(t, k)
    BY <1>1, <2>2 DEF CreateSession, SideTyped
  <2>3. SideTyped => replaced \subseteq Insts
    BY DEF SideTyped
  <2> QED
    BY <1>1, <2>1, <2>2, <2>3
       DEF Next, StartBegin, KillBegin, OpenSession, ResumeSession, PauseSession,
           IndexSession, StopIndexer, StartStep, StartConstruct, StartSetup, StartSpawn,
           StartPublish, StartIndex, KillStep, KillProcess, KillCleanup,
           Close, Crash, Stop, Restart, ProcessExits, ProcessCommits, StrayExits, StrayCommits,
           TreeDeleted
<1> QED
  BY <1>2, <1>3, <1>4, <1>5 DEF SideTyped

-----------------------------------------------------------------------------
(***************************************************************************)
(* The rest of TypeInv.                                                    *)
(***************************************************************************)

\* An object in use stays in use and of its kind, with a worktree if it has one.
Kept ==
  \A i \in Insts : inst[i].status # "unused" =>
    /\ inst'[i].status # "unused" /\ inst'[i].kind = inst[i].kind
    /\ inst[i].tree # None => inst'[i].tree # None

\* Every step keeps the objects, but for the restart.
LEMMA KeptByStep ==
  ASSUME TypeInv, Next, ~Restart
  PROVE  Kept
<1>1. inst \in [Insts -> InstType] /\ None \notin Trees
  BY ConstantsAssumption DEF TypeInv, Typed
<1>2. ASSUME UNCHANGED inst PROVE Kept
  BY <1>2 DEF Kept
<1>3. ASSUME NEW c \in Callers, StartStep(c) \/ KillStep(c)
      PROVE  Kept
  <2> DEFINE i == call[c].inst
  <2>1. i \in Insts /\ inst[i] \in InstType /\ inst[i].status # "unused"
    <3>1. call[c].pc # "idle"
      BY <1>3 DEF StartStep, StartConstruct, StartSetup, StartSpawn, StartFailed, StartPublish,
                  StartIndex, KillStep, KillProcess, KillCleanup
    <3> QED
      BY <3>1, CallHasInst DEF TypeInv
  <2>2. CASE \E T \in FreshTrees, ref \in BOOLEAN : inst' = [inst EXCEPT ![i].tree = T, ![i].baseRef = ref]
    BY <1>1, <2>1, <2>2 DEF Kept, FreshTrees, InstType
  <2>3. CASE Spawned(i, inst[i], procs) \/ SpawnedAstray(i, inst[i])
    <3>1. PICK p : inst' = [inst EXCEPT ![i] =
                             [inst[i] EXCEPT !.status = "running", !.started = TRUE, !.proc = p]]
      BY <2>3 DEF Spawned, SpawnedAstray, Runs
    <3>2. inst'[i] = [inst[i] EXCEPT !.status = "running", !.started = TRUE, !.proc = p]
      BY <1>1, <2>1, <3>1
    <3>3. inst'[i].status = "running" /\ inst'[i].kind = inst[i].kind /\ inst'[i].tree = inst[i].tree
      BY <2>1, <3>2 DEF InstType
    <3> QED
      BY <1>1, <2>1, <3>1, <3>3 DEF Kept
  <2>4. CASE inst' = [inst EXCEPT ![i].proc = None]
    BY <1>1, <2>1, <2>4 DEF Kept, InstType
  <2> QED
    BY <1>2, <1>3, <2>2, <2>3, <2>4
       DEF StartStep, StartConstruct, StartSetup, StartSpawn, StartFailed, StartPublish,
           StartIndex, KillStep, KillProcess, KillCleanup
<1>4. ASSUME NEW t \in Titles, NEW k \in Kinds, CreateSession(t, k)
      PROVE  Kept
  BY <1>1, <1>4 DEF CreateSession, Kept
<1>5. ASSUME NEW t \in Titles, NEW c \in Callers, StartBegin(c, t) \/ KillBegin(c, t)
      PROVE  Kept
  BY <1>1, <1>2, <1>5 DEF StartBegin, KillBegin, Kept, InstType
<1>6. ASSUME NEW t \in Titles, OpenSession(t) \/ ResumeSession(t) \/ PauseSession(t)
      PROVE  Kept
  <2> DEFINE i == sessions[t]
  <2>1. i \in Insts /\ inst[i] \in InstType /\ inst[i].status # "unused"
    <3>1. i # None
      BY <1>6 DEF OpenSession, ResumeSession, PauseSession
    <3> QED
      BY <3>1 DEF TypeInv, Typed
  <2>2. ASSUME NEW renewed \in BOOLEAN, NEW r \in {inst[i], Reconnected(i, renewed)}, NEW P,
               Resumed(i, r, P) \/ ResumeFailed(i, r, P)
        PROVE  Kept
    <3>1. r \in InstType /\ r.status # "unused" /\ r.tree = inst[i].tree /\ r.kind = inst[i].kind
      <4>1. r = inst[i] \/ r = [inst[i] EXCEPT !.status = "paused", !.proc = None]
        BY DEF Reconnected, ForcePaused
      <4> QED
        BY <2>1, <4>1 DEF InstType, Statuses
    <3>2. \E q \in InstType :
            /\ q.status # "unused" /\ q.tree = r.tree /\ q.kind = r.kind
            /\ inst' = [inst EXCEPT ![i] = q]
      <4>1. CASE Resumed(i, r, P)
        <5>1. PICK p \in Procs :
                inst' = [inst EXCEPT ![i] = [r EXCEPT !.status = "running", !.started = TRUE, !.proc = p]]
          BY <4>1 DEF Resumed, Spawned, Runs, FreshProcs
        <5>2. [r EXCEPT !.status = "running", !.started = TRUE, !.proc = p] \in InstType
          BY <3>1 DEF InstType, Statuses
        <5> QED
          BY <3>1, <5>1, <5>2 DEF InstType
      <4>2. CASE inst' = [inst EXCEPT ![i] = r]
        BY <3>1, <4>2
      <4>3. CASE \E p \in {r.proc} \cup FreshProcs : inst' = [inst EXCEPT ![i] = [r EXCEPT !.proc = p]]
        <5>1. PICK p \in Procs \cup {None} : inst' = [inst EXCEPT ![i] = [r EXCEPT !.proc = p]]
          BY <3>1, <4>3 DEF FreshProcs, InstType
        <5>2. [r EXCEPT !.proc = p] \in InstType
          BY <3>1 DEF InstType
        <5> QED
          BY <3>1, <5>1, <5>2 DEF InstType
      <4> QED
        BY <2>2, <4>1, <4>2, <4>3 DEF ResumeFailed, ResumeRefused, ResumeSetupFailed, ResumeSpawnFailed
    <3> QED
      BY <1>1, <2>1, <3>1, <3>2 DEF Kept, InstType
  <2>3. CASE Paused(i)
    BY <1>1, <2>1, <2>3 DEF Paused, Kept, InstType
  <2>4. CASE OpenSession(t)
    BY <1>2, <2>2, <2>4 DEF OpenSession
  <2> QED
    BY <1>2, <1>6, <2>2, <2>3, <2>4 DEF ResumeSession, PauseSession
<1>7. CASE UNCHANGED inst
  BY <1>2, <1>7
<1> QED
  BY <1>3, <1>4, <1>5, <1>6, <1>7
     DEF Next, IndexSession, StopIndexer, Close, Crash, Stop, ProcessExits, ProcessCommits, StrayExits, StrayCommits, TreeDeleted

\* What the map, the file and the calls refer to after a step they referred
\* to before, or it is the object the step creates.
LEMMA ReferencesKept ==
  ASSUME TypeInv, Next, ~Restart, Kept
  PROVE  /\ \A t \in Titles : sessions'[t] # None => inst'[sessions'[t]].status # "unused"
         /\ \A t \in Titles : disk'[t] # None => inst'[disk'[t].inst].status # "unused"
         /\ \A c \in Callers : call'[c].pc # "idle" =>
              inst'[call'[c].inst].status # "unused" /\ call'[c].title \in Titles
         /\ \A c \in Callers : call'[c].pc = "setup" => inst'[call'[c].inst].tree # None
<1>1. Typed /\ None \notin Insts
  BY ConstantsAssumption DEF TypeInv
<1>2. ASSUME NEW t \in Titles, sessions'[t] # None
      PROVE  inst'[sessions'[t]].status # "unused"
  <2>1. CASE \E k \in Kinds, u \in Titles : CreateSession(u, k)
    <3>1. PICK k \in Kinds, u \in Titles : CreateSession(u, k)
      BY <2>1
    <3>2. PICK i \in Insts :
            /\ inst' = [inst EXCEPT ![i] = [NoInstance EXCEPT !.status = "ready", !.kind = k]]
            /\ sessions' = [sessions EXCEPT ![u] = i]
      BY <3>1 DEF CreateSession
    <3> QED
      BY <1>1, <1>2, <3>2 DEF Typed, TypeInv, Kept, NoInstance
  <2>2. CASE sessions'[t] = sessions[t]
    BY <1>1, <1>2, <2>2 DEF Typed, TypeInv, Kept
  <2>3. CASE \E u \in Titles, c \in Callers : StartFailed(c) \/ KillBegin(c, u)
    <3>1. sessions'[t] = sessions[t] \/ sessions'[t] = None
      BY <1>1, <2>3 DEF StartFailed, KillBegin, Typed
    <3> QED
      BY <1>2, <2>2, <3>1
  <2>4. CASE Close \/ Crash
    BY <1>2, <2>4 DEF Close, Crash, Stop
  <2> QED
    BY <2>1, <2>2, <2>3, <2>4
       DEF Next, StartBegin, OpenSession, ResumeSession, PauseSession, IndexSession, StopIndexer,
           StartStep, StartConstruct, StartSetup, StartSpawn, StartPublish, StartIndex,
           KillStep, KillProcess, KillCleanup, ProcessExits, ProcessCommits, StrayExits, StrayCommits, TreeDeleted
<1>3. ASSUME NEW t \in Titles, disk'[t] # None
      PROVE  inst'[disk'[t].inst].status # "unused"
  <2>1. CASE disk' = disk
    BY <1>1, <1>3, <2>1 DEF Typed, TypeInv, Kept, RecordType
  <2>2. CASE disk' = Persisted(sessions', inst')
    BY <1>2, <1>3, <2>2 DEF Persisted
  <2>3. CASE disk' = Persisted(sessions, inst)
    BY <1>1, <1>3, <2>3 DEF Persisted, Typed, TypeInv, Kept
  <2>4. CASE disk' = [u \in Titles |-> None]
    BY <1>3, <2>4
  <2> QED
    BY <2>1, <2>2, <2>3, <2>4
       DEF Save, SaveFails, Next, CreateSession, StartBegin, KillBegin, OpenSession, ResumeSession, PauseSession,
           IndexSession, StopIndexer, StartStep, StartConstruct, StartSetup, StartSpawn,
           StartFailed, StartPublish, StartIndex, KillStep, KillProcess, KillCleanup,
           Close, Crash, Stop, ProcessExits, ProcessCommits, StrayExits, StrayCommits, TreeDeleted
<1>4. ASSUME NEW c \in Callers, call'[c].pc # "idle"
      PROVE  /\ inst'[call'[c].inst].status # "unused" /\ call'[c].title \in Titles
             /\ call'[c].pc = "setup" => inst'[call'[c].inst].tree # None
  <2>1. CASE call'[c] = call[c]
    <3>1. call[c].pc # "idle" /\ call[c].inst \in Insts
      BY <1>1, <1>4, <2>1, CallHasInst
    <3>2. inst[call[c].inst].status # "unused" /\ call[c].title \in Titles
      BY <3>1 DEF TypeInv
    <3>3. call[c].pc = "setup" => inst[call[c].inst].tree # None
      BY DEF TypeInv
    <3> QED
      BY <2>1, <3>1, <3>2, <3>3 DEF Kept
  <2>2. CASE \E t \in Titles : StartBegin(c, t) \/ KillBegin(c, t)
    <3>1. PICK t \in Titles : StartBegin(c, t) \/ KillBegin(c, t)
      BY <2>2
    <3>2. sessions[t] \in Insts /\ inst[sessions[t]].status # "unused"
      BY <3>1 DEF StartBegin, KillBegin, TypeInv, Typed
    <3>3. call'[c].inst = sessions[t] /\ call'[c].title = t /\ call'[c].pc # "setup"
      BY <1>1, <3>1 DEF StartBegin, KillBegin, Typed, CallsOK
    <3> QED
      BY <3>2, <3>3 DEF Kept
  <2>3. CASE StartConstruct(c)
    <3>1. call[c].pc # "idle" /\ call[c].inst \in Insts /\ inst[call[c].inst] \in InstType
      BY <1>1, <2>3, CallHasInst DEF StartConstruct
    <3>2. CASE \E T \in FreshTrees, ref \in BOOLEAN :
                 /\ inst' = [inst EXCEPT ![call[c].inst].tree = T, ![call[c].inst].baseRef = ref]
                 /\ Goto(c, "setup")
      <4>1. inst'[call[c].inst].tree # None
        BY <1>1, <3>1, <3>2, ConstantsAssumption DEF FreshTrees, Typed, InstType
      <4> QED
        BY <1>1, <3>1, <3>2, <4>1 DEF Goto, Typed, CallsOK, CallType, TypeInv, Kept
    <3>3. CASE Goto(c, "failed")
      BY <1>1, <3>1, <3>3 DEF Goto, Typed, CallsOK, CallType, TypeInv, Kept
    <3> QED
      BY <2>3, <3>2, <3>3 DEF StartConstruct
  <2>4. CASE call[c].pc # "idle" /\ \E pc \in Pcs \ {"setup"} : Goto(c, pc)
    BY <1>1, <1>4, <2>4 DEF Goto, Typed, CallsOK, CallType, TypeInv, Kept
  <2>5. CASE Return(c)
    BY <1>1, <1>4, <2>5 DEF Return, NoCall, Typed, CallsOK
  <2>6. CASE Close \/ Crash
    BY <1>4, <2>6 DEF Close, Crash, Stop, NoCall
  <2>7. CASE call[c].pc # "idle" /\ (StartStep(c) \/ KillStep(c))
    BY <2>3, <2>4, <2>5, <2>7
       DEF StartStep, StartSetup, StartSpawn, StartFailed, StartPublish, StartIndex,
           KillStep, KillProcess, KillCleanup, Pcs, StartPcs
  <2>8. CASE (StartStep(c) \/ KillStep(c))
    BY <2>7, <2>8
       DEF StartStep, StartConstruct, StartSetup, StartSpawn, StartFailed, StartPublish,
           StartIndex, KillStep, KillProcess, KillCleanup
  <2>9. ASSUME NEW d \in Callers \ {c},
               \/ StartStep(d) \/ KillStep(d)
               \/ \E t \in Titles : StartBegin(d, t) \/ KillBegin(d, t)
        PROVE  inst'[call'[c].inst].status # "unused" /\ call'[c].title \in Titles
               /\ (call'[c].pc = "setup" => inst'[call'[c].inst].tree # None)
    <3>1. call'[c] = call[c]
      BY <1>1, <2>9
         DEF StartBegin, KillBegin, StartStep, StartConstruct, StartSetup, StartSpawn, StartFailed,
             StartPublish, StartIndex, KillStep, KillProcess, KillCleanup, Goto, Return, Typed, CallsOK
    <3> QED
      BY <2>1, <3>1
  <2>10. CASE UNCHANGED call
    BY <2>1, <2>10
  <2> QED
    BY <2>2, <2>6, <2>8, <2>9, <2>10
       DEF Next, CreateSession, OpenSession, ResumeSession, PauseSession,
           IndexSession, StopIndexer, ProcessExits, ProcessCommits, StrayExits, StrayCommits, TreeDeleted
<1> QED
  BY <1>2, <1>3, <1>4

\* A restart refers to what the file holds, and no call is in flight.
LEMMA TypeRestart ==
  ASSUME TypeInv, Restart
  PROVE  TypeInv'
<1>1. Typed /\ Typed' /\ SideTyped'
  BY TypedWorld, SideStep DEF TypeInv, Next
<1>2. \A c \in Callers : call'[c].pc = "idle"
  BY DEF Restart, TypeInv
<1>3. ASSUME NEW t \in Titles, disk[t] # None
      PROVE  inst'[disk[t].inst].status # "unused"
  <2> DEFINE saved == {disk[u] : u \in Titles} \ {None}
  <2>1. disk[t] \in saved /\ disk[t].inst \in Insts
    BY <1>1, <1>3 DEF Typed, RecordType
  <2>2. PICK d \in saved : inst'[disk[t].inst] = Restored(d) /\ d.inst \in Insts /\ inst[d.inst] \in InstType
    BY <1>1, <2>1 DEF Restart, Typed, RecordType
  <2> QED
    BY <2>2 DEF Restored, InstType
<1> QED
  BY <1>1, <1>2, <1>3 DEF Restart, TypeInv

LEMMA TypeNext == TypeInv /\ [Next]_vars => TypeInv'
<1> SUFFICES ASSUME TypeInv, [Next]_vars
             PROVE  TypeInv'
  OBVIOUS
<1>1. CASE Restart
  BY <1>1, TypeRestart
<1>2. CASE Next /\ ~Restart
  <2>1. Kept
    BY <1>2, KeptByStep
  <2>2. Typed'
    BY <1>2, TypedStart, TypedCalls, TypedResume, TypedOperation, TypedWorld DEF Next, TypeInv
  <2>4. SideTyped'
    BY <1>2, SideStep
  <2>3. ~up' => \A c \in Callers : call'[c].pc = "idle"
    <3>1. CASE Close \/ Crash
      BY <3>1 DEF Close, Crash, Stop, NoCall
    <3>2. CASE up
      BY <1>2, <3>1, <3>2
         DEF Next, CreateSession, StartBegin, KillBegin, OpenSession, ResumeSession,
             PauseSession, IndexSession, StopIndexer, StartStep, StartConstruct, StartSetup,
             StartSpawn, StartFailed, StartPublish, StartIndex, KillStep, KillProcess,
             KillCleanup, ProcessExits, ProcessCommits, StrayExits, StrayCommits, TreeDeleted
    <3>3. CASE ~up
      <4>1. \A c \in Callers : call[c].pc = "idle"
        BY <3>3 DEF TypeInv
      <4>2. call' = call
        BY <1>2, <3>3, <4>1
           DEF Next, CreateSession, StartBegin, KillBegin, OpenSession, ResumeSession,
               PauseSession, IndexSession, StopIndexer, StartStep, StartConstruct, StartSetup,
               StartSpawn, StartFailed, StartPublish, StartIndex, KillStep, KillProcess,
               KillCleanup, Close, Crash, Stop, ProcessExits, ProcessCommits, StrayExits, StrayCommits, TreeDeleted
      <4> QED
        BY <4>1, <4>2
    <3> QED
      BY <3>2, <3>3
  <2> QED
    BY <1>2, <2>1, <2>2, <2>3, <2>4, ReferencesKept DEF TypeInv
<1>3. CASE UNCHANGED vars
  BY <1>3 DEF vars, TypeInv, Typed, SideTyped, CallsOK
<1> QED
  BY <1>1, <1>2, <1>3

\* The state keeps its types, whatever StartSession and KillSession calls
\* overlap: in particular every call in flight is about an instance and a
\* title, and sets a worktree up that it has named.
THEOREM TypeCorrect == Spec => []TypeOK
<1>1. TypeInv => TypeOK
  BY TypedIsTypeOK DEF TypeInv
<1> QED
  BY TypeInit, TypeNext, <1>1, PTL DEF Spec

-----------------------------------------------------------------------------
(***************************************************************************)
(* Part 2: SessionLifecycle implements SessionRegistry: whatever           *)
(* StartSession and KillSession calls overlap with one another and with    *)
(* everything else, a title goes through the states the registry allows.   *)
(***************************************************************************)
\* What the map and the file say of each other.  An instance is in the map
\* under one title; so is one in the file; and while the application runs, a
\* record of the file is of the started instance the map has for its title,
\* unless the last save failed.
MapInjective ==
  \A t, u \in Titles : sessions[t] # None /\ sessions[t] = sessions[u] => t = u

FileInjective ==
  \A t, u \in Titles :
    disk[t] # None /\ disk[u] # None /\ disk[t].inst = disk[u].inst => t = u

FileInMap ==
  up /\ ~unsaved => \A t \in Titles : disk[t] # None =>
    sessions[t] = disk[t].inst /\ inst[disk[t].inst].started

RegistryInv ==
  /\ TypeInv
  /\ MapInjective
  /\ FileInjective
  /\ FileInMap

\* The state the registry is shown.
Shown == [t \in Titles |-> StateOf(t)]

\* The fields of instance i that StateOf looks at stay as they are.
SameObject(i) ==
  /\ inst'[i].started = inst[i].started
  /\ inst[i].started => (inst'[i].status = "paused" <=> inst[i].status = "paused")

\* The step concerns title t, and no other.
OnlyAt(t) ==
  /\ up /\ up'
  /\ \A u \in Titles \ {t} :
       sessions'[u] = sessions[u] /\ (sessions[u] # None => SameObject(sessions[u]))

-----------------------------------------------------------------------------
(***************************************************************************)
(* Steps of the registry.                                                  *)
(***************************************************************************)

LEMMA StateOfType ==
  ASSUME NEW t \in Titles
  PROVE  StateOf(t) \in Registry!States
BY DEF StateOf, Registry!States

LEMMA ShownElsewhere ==
  ASSUME NEW t \in Titles, OnlyAt(t)
  PROVE  Shown' = [Shown EXCEPT ![t] = StateOf(t)']
<1>1. ASSUME NEW u \in Titles \ {t} PROVE StateOf(u)' = StateOf(u)
  BY DEF OnlyAt, StateOf, SameObject
<1> QED
  BY <1>1 DEF Shown

LEMMA BecomesAt ==
  ASSUME NEW t \in Titles, OnlyAt(t), NEW from, NEW to,
         StateOf(t) \in from, StateOf(t)' = to
  PROVE  Registry!Becomes(t, from, to)
BY ShownElsewhere DEF Registry!Becomes, Shown

\* Only two moves of a title are not the registry's: from absent to a started
\* state, and from new to paused.
LEMMA AllowedAt ==
  ASSUME NEW t \in Titles, OnlyAt(t),
         StateOf(t)' \in {"running", "paused"} => StateOf(t) # "absent",
         StateOf(t)' = "paused" => StateOf(t) # "new"
  PROVE  Registry!Step \/ UNCHANGED Shown
<1>1. /\ StateOf(t) \in {"absent", "new", "running", "paused"}
      /\ StateOf(t)' \in {"absent", "new", "running", "paused"}
  BY DEF StateOf
<1>2. CASE StateOf(t)' = "absent"
  BY <1>2, BecomesAt, StateOfType DEF Registry!Step, Registry!Remove
<1>3. CASE StateOf(t)' = "new"
  BY <1>3, BecomesAt, StateOfType DEF Registry!Step, Registry!Create
<1>4. CASE StateOf(t) = "new" /\ StateOf(t)' = "running"
  BY <1>4, BecomesAt DEF Registry!Step, Registry!Start
<1>5. CASE StateOf(t) = "running" /\ StateOf(t)' = "paused"
  BY <1>5, BecomesAt DEF Registry!Step, Registry!Pause
<1>6. CASE StateOf(t) = "paused" /\ StateOf(t)' = "running"
  BY <1>6, BecomesAt DEF Registry!Step, Registry!Resume
<1>7. CASE StateOf(t)' = StateOf(t)
  BY <1>7, ShownElsewhere DEF Shown
<1> QED
  BY <1>1, <1>2, <1>3, <1>4, <1>5, <1>6, <1>7

\* A step that leaves the map and what is shown of the objects alone.
LEMMA ShownUnchanged ==
  ASSUME \/ up /\ up' /\ UNCHANGED sessions
              /\ \A u \in Titles : sessions[u] # None => SameObject(sessions[u])
         \/ ~up /\ ~up' /\ UNCHANGED disk
  PROVE  UNCHANGED Shown
<1>1. ASSUME NEW u \in Titles PROVE StateOf(u)' = StateOf(u)
  BY DEF StateOf, SameObject
<1> QED
  BY <1>1 DEF Shown
-----------------------------------------------------------------------------
(***************************************************************************)
(* What the steps do to the objects.                                       *)
(***************************************************************************)

\* Two records that show the same.
LEMMA SameIfEqual ==
  ASSUME NEW i, inst'[i] = inst[i]
  PROVE  SameObject(i)
BY DEF SameObject

LEMMA SpawnedObject ==
  ASSUME Typed, NEW i \in Insts, NEW r \in InstType,
         (\E P : Spawned(i, r, P)) \/ SpawnedAstray(i, r)
  PROVE  /\ inst'[i].started /\ inst'[i].status = "running"
         /\ \A j \in Insts \ {i} : inst'[j] = inst[j]
<1>1. PICK p \in Procs :
        inst' = [inst EXCEPT ![i] = [r EXCEPT !.status = "running", !.started = TRUE, !.proc = p]]
  BY DEF Spawned, SpawnedAstray, Runs, FreshProcs
<1>2. inst \in [Insts -> InstType]
  BY DEF Typed
<1>3. inst'[i] = [r EXCEPT !.status = "running", !.started = TRUE, !.proc = p]
  BY <1>1, <1>2
<1> QED
  BY <1>1, <1>2, <1>3 DEF InstType

\* An instance forced into Paused stays started.
LEMMA ReconnectedObject ==
  ASSUME Typed, NEW i \in Insts, NEW renewed
  PROVE  /\ Reconnected(i, renewed) \in InstType
         /\ Reconnected(i, renewed).started = inst[i].started
<1>1. inst[i] \in InstType
  BY DEF Typed
<1> QED
  BY <1>1 DEF Reconnected, ForcePaused, InstType, Statuses

\* A Resume that fails leaves a paused instance.
LEMMA FailedObject ==
  ASSUME Typed, NEW i \in Insts, NEW r \in InstType, NEW P, ResumeFailed(i, r, P)
  PROVE  /\ r.started
         /\ inst'[i].started /\ inst'[i].status = "paused"
         /\ \A j \in Insts \ {i} : inst'[j] = inst[j]
<1>1. inst \in [Insts -> InstType]
  BY DEF Typed
<1>2. CASE ResumeRefused(i, r) \/ ResumeSetupFailed(i, r)
  BY <1>1, <1>2 DEF ResumeFailed, ResumeRefused, ResumeSetupFailed, InstType
<1>3. CASE ResumeSpawnFailed(i, r)
  <2>1. PICK p : inst' = [inst EXCEPT ![i] = [r EXCEPT !.proc = p]]
    BY <1>3 DEF ResumeSpawnFailed
  <2>2. inst'[i] = [r EXCEPT !.proc = p]
    BY <1>1, <2>1
  <2> QED
    BY <1>1, <2>1, <2>2 DEF ResumeFailed, InstType
<1> QED
  BY <1>2, <1>3 DEF ResumeFailed

LEMMA PausedObject ==
  ASSUME Typed, NEW i \in Insts, Paused(i)
  PROVE  /\ inst'[i].started = inst[i].started /\ inst'[i].status = "paused"
         /\ \A j \in Insts \ {i} : inst'[j] = inst[j]
BY DEF Typed, Paused, InstType

\* The steps that change no object in what is shown of it.
LEMMA CalmSteps ==
  ASSUME Typed,
         \/ \E c \in Callers :
              \/ call[c].pc # "idle"
                   /\ \/ StartConstruct(c) \/ StartSetup(c) \/ StartFailed(c)
                      \/ StartPublish(c) \/ StartIndex(c) \/ KillStep(c)
              \/ \E t \in Titles : StartBegin(c, t) \/ KillBegin(c, t)
         \/ \E t \in Titles : IndexSession(t) \/ StopIndexer(t)
         \/ \E p \in Procs : ProcessExits(p) \/ ProcessCommits(p)
         \/ \E i \in Insts : StrayExits(i) \/ StrayCommits(i)
         \/ \E T \in Trees : TreeDeleted(T),
         NEW i \in Insts
  PROVE  SameObject(i)
<1>1. inst \in [Insts -> InstType]
  BY DEF Typed
<1> USE DEF SameObject
<1>2. ASSUME NEW c \in Callers, call[c].pc # "idle", StartConstruct(c)
      PROVE  SameObject(i)
  <2> DEFINE j == call[c].inst
  <2>1. j \in Insts
    BY <1>2, CallHasInst
  <2>2. CASE UNCHANGED inst
    BY <2>2
  <2>3. CASE \E T \in FreshTrees, ref \in BOOLEAN :
               inst' = [inst EXCEPT ![j].tree = T, ![j].baseRef = ref]
    <3>1. PICK T \in FreshTrees, ref \in BOOLEAN :
            inst' = [inst EXCEPT ![j].tree = T, ![j].baseRef = ref]
      BY <2>3
    <3>2. inst'[j] = [inst[j] EXCEPT !.tree = T, !.baseRef = ref]
      BY <1>1, <2>1, <3>1
    <3>3. inst'[j].started = inst[j].started /\ inst'[j].status = inst[j].status
      BY <1>1, <2>1, <3>2 DEF InstType
    <3>4. i # j => inst'[i] = inst[i]
      BY <1>1, <3>1
    <3> QED
      BY <3>3, <3>4
  <2> QED
    BY <1>2, <2>2, <2>3 DEF StartConstruct
<1>3. ASSUME NEW c \in Callers, call[c].pc # "idle", StartFailed(c)
      PROVE  SameObject(i)
  <2>1. UNCHANGED inst \/ inst' = [inst EXCEPT ![call[c].inst].proc = None]
    BY <1>3 DEF StartFailed
  <2> QED
    BY <1>1, <2>1 DEF InstType
<1>4. ASSUME NEW c \in Callers, call[c].pc # "idle", KillStep(c)
      PROVE  SameObject(i)
  BY <1>1, <1>4, CallHasInst DEF KillStep, KillProcess, KillCleanup, InstType
<1>5. ASSUME NEW c \in Callers, NEW t \in Titles, StartBegin(c, t)
      PROVE  SameObject(i)
  BY <1>1, <1>5 DEF StartBegin, InstType, Typed
<1>6. ASSUME NEW c \in Callers, StartSetup(c) \/ StartPublish(c) \/ StartIndex(c)
      PROVE  SameObject(i)
  BY <1>6 DEF StartSetup, StartPublish, StartIndex
<1>7. ASSUME NEW t \in Titles, NEW c \in Callers,
             KillBegin(c, t)
      PROVE  SameObject(i)
  BY <1>7 DEF KillBegin
<1>8. ASSUME NEW t \in Titles, IndexSession(t) \/ StopIndexer(t)
      PROVE  SameObject(i)
  BY <1>8 DEF IndexSession, StopIndexer
<1>9. CASE \/ \E p \in Procs : ProcessExits(p) \/ ProcessCommits(p)
           \/ \E j \in Insts : StrayExits(j) \/ StrayCommits(j)
           \/ \E T \in Trees : TreeDeleted(T)
  BY <1>9 DEF ProcessExits, ProcessCommits, StrayExits, StrayCommits, TreeDeleted
<1> QED
  BY <1>2, <1>3, <1>4, <1>5, <1>6, <1>7, <1>8, <1>9
-----------------------------------------------------------------------------
(***************************************************************************)
(* The map and the file.                                                   *)
(***************************************************************************)

LEMMA RegistryInvInit == Init => RegistryInv
<1> SUFFICES ASSUME Init PROVE RegistryInv
  OBVIOUS
<1>1. TypeInv
  BY TypeInit
<1>2. \A t \in Titles : sessions[t] = None /\ disk[t] = None
  BY DEF Init
<1> QED
  BY <1>1, <1>2 DEF RegistryInv, MapInjective, FileInjective, FileInMap

\* A save makes the file agree with the map, if it succeeds.
LEMMA SaveAgrees ==
  ASSUME RegistryInv, MapInjective', Save
  PROVE  FileInjective' /\ FileInMap'
<1>1. CASE disk' = Persisted(sessions', inst')
  <2>1. ASSUME NEW t \in Titles, disk'[t] # None
        PROVE  disk'[t].inst = sessions'[t] /\ sessions'[t] # None /\ inst'[sessions'[t]].started
    BY <1>1, <2>1 DEF Persisted
  <2> QED
    BY <2>1 DEF MapInjective, FileInjective, FileInMap
<1>2. CASE SaveFails
  BY <1>2 DEF SaveFails, RegistryInv, FileInjective, FileInMap
<1> QED
  BY <1>1, <1>2 DEF Save

\* A step that leaves both alone keeps them in agreement if no instance of the
\* file stops being started.
LEMMA AgreementKept ==
  ASSUME RegistryInv, UNCHANGED <<up, sessions, disk, unsaved>>,
         \A i \in Insts : inst[i].started => inst'[i].started
  PROVE  MapInjective' /\ FileInjective' /\ FileInMap'
<1>1. \A t \in Titles : disk[t] # None => disk[t].inst \in Insts
  BY DEF RegistryInv, TypeInv, Typed, RecordType
<1> QED
  BY <1>1 DEF RegistryInv, MapInjective, FileInjective, FileInMap

\* An instance made or removed leaves the map injective.
LEMMA MapAfterCreate ==
  ASSUME RegistryInv, NEW t \in Titles, NEW i \in Insts, inst[i].status = "unused",
         sessions' = [sessions EXCEPT ![t] = i]
  PROVE  MapInjective'
<1>1. \A u \in Titles : sessions[u] # i
  BY ConstantsAssumption DEF RegistryInv, TypeInv
<1>2. sessions \in [Titles -> Insts \cup {None}]
  BY DEF RegistryInv, TypeInv, Typed
<1> QED
  BY <1>1, <1>2 DEF RegistryInv, MapInjective

LEMMA MapAfterRemoval ==
  ASSUME RegistryInv, NEW t, sessions' = [sessions EXCEPT ![t] = None]
  PROVE  MapInjective'
<1>1. sessions \in [Titles -> Insts \cup {None}]
  BY DEF RegistryInv, TypeInv, Typed
<1> QED
  BY <1>1 DEF RegistryInv, MapInjective

LEMMA AgreementAfterStop ==
  ASSUME RegistryInv, NEW saved \in BOOLEAN, Stop(saved)
  PROVE  MapInjective' /\ FileInjective' /\ FileInMap'
<1>1. \A t \in Titles : sessions'[t] = None
  BY DEF Stop
<1>2. ~up'
  BY DEF Stop
<1>3. CASE disk' = Persisted(sessions, inst)
  <2>1. \A t \in Titles : disk'[t] # None => sessions[t] # None /\ disk'[t].inst = sessions[t]
    BY <1>3 DEF Persisted
  <2> QED
    BY <1>1, <1>2, <2>1 DEF RegistryInv, MapInjective, FileInjective, FileInMap
<1>4. CASE disk' \in {disk, [t \in Titles |-> None]}
  BY <1>1, <1>2, <1>4 DEF RegistryInv, MapInjective, FileInjective, FileInMap
<1> QED
  BY <1>3, <1>4 DEF Stop, SaveFails

\* After a restart every record of the file is a started, paused instance.
LEMMA RestartObject ==
  ASSUME RegistryInv, Restart, NEW t \in Titles, disk[t] # None
  PROVE  /\ sessions'[t] = disk[t].inst /\ sessions'[t] # None
         /\ inst'[disk[t].inst].started /\ inst'[disk[t].inst].status = "paused"
<1> DEFINE saved == {disk[u] : u \in Titles} \ {None}
<1>1. disk[t] \in RecordType /\ disk[t] \in saved
  BY DEF RegistryInv, TypeInv, Typed
<1>2. disk[t].inst \in Insts /\ disk[t].inst # None
  BY <1>1, ConstantsAssumption DEF RecordType
<1>3. PICK d \in saved : inst'[disk[t].inst] = Restored(d)
  BY <1>1, <1>2 DEF Restart
<1>4. d.inst \in Insts
  <2>1. saved \subseteq RecordType
    BY DEF RegistryInv, TypeInv, Typed
  <2> QED
    BY <2>1 DEF RecordType
<1>5. inst[d.inst] \in InstType
  BY <1>4 DEF RegistryInv, TypeInv, Typed
<1>6. Restored(d).started /\ Restored(d).status = "paused"
  BY <1>5 DEF Restored, InstType
<1> QED
  BY <1>2, <1>3, <1>6 DEF Restart

LEMMA AgreementAfterRestart ==
  ASSUME RegistryInv, Restart
  PROVE  MapInjective' /\ FileInjective' /\ FileInMap'
<1>1. ASSUME NEW t \in Titles, sessions'[t] # None
      PROVE  disk[t] # None /\ sessions'[t] = disk[t].inst
  BY <1>1 DEF Restart
<1> QED
  BY <1>1, RestartObject DEF Restart, RegistryInv, MapInjective, FileInjective, FileInMap

\* What Resume, Pause and Start make of their instance.
LEMMA OperationAgrees ==
  ASSUME RegistryInv, NEW t \in Titles,
         OpenSession(t) \/ ResumeSession(t) \/ PauseSession(t)
  PROVE  MapInjective' /\ FileInjective' /\ FileInMap'
<1> DEFINE i == sessions[t]
<1>1. Typed /\ i \in Insts /\ inst[i] \in InstType
  BY DEF RegistryInv, TypeInv, Typed, OpenSession, ResumeSession, PauseSession
<1>2. UNCHANGED <<up, sessions>>
  BY DEF OpenSession, ResumeSession, PauseSession
<1>3. MapInjective'
  BY <1>2 DEF RegistryInv, MapInjective
<1>4. CASE Save
  BY <1>3, <1>4, SaveAgrees
<1>5. ASSUME NEW r \in InstType, NEW P, ResumeFailed(i, r, P), UNCHANGED <<disk, unsaved>>
      PROVE  MapInjective' /\ FileInjective' /\ FileInMap'
  BY <1>1, <1>2, <1>5, FailedObject, AgreementKept
<1>6. CASE UNCHANGED <<inst, disk, unsaved>>
  BY <1>2, <1>6, AgreementKept
<1>7. CASE OpenSession(t)
  BY <1>1, <1>4, <1>5, <1>6, <1>7, ReconnectedObject DEF OpenSession
<1>8. CASE ResumeSession(t)
  BY <1>1, <1>4, <1>5, <1>8 DEF ResumeSession
<1>9. CASE PauseSession(t)
  BY <1>4, <1>6, <1>9 DEF PauseSession
<1> QED
  BY <1>7, <1>8, <1>9

LEMMA StartAgrees ==
  ASSUME RegistryInv, NEW c \in Callers, StartStep(c) \/ KillStep(c)
  PROVE  MapInjective' /\ FileInjective' /\ FileInMap'
<1>1. call[c].pc # "idle" /\ Typed
  BY DEF RegistryInv, TypeInv, StartStep, KillStep, StartConstruct, StartSetup, StartSpawn,
         StartFailed, StartPublish, StartIndex, KillProcess, KillCleanup
<1>2. CASE StartFailed(c)
  BY <1>2, MapAfterRemoval, SaveAgrees DEF StartFailed
<1>3. CASE StartPublish(c)
  <2>1. MapInjective'
    BY <1>3 DEF StartPublish, RegistryInv, MapInjective
  <2> QED
    BY <1>3, <2>1, SaveAgrees DEF StartPublish
<1>4. CASE StartSpawn(c)
  <2>1. call[c].inst \in Insts /\ inst[call[c].inst] \in InstType
    BY <1>1, CallHasInst
  <2>2. \A i \in Insts : inst[i].started => inst'[i].started
    BY <1>1, <1>4, <2>1, SpawnedObject DEF StartSpawn
  <2> QED
    BY <1>4, <2>2, AgreementKept DEF StartSpawn
<1>5. CASE StartConstruct(c) \/ StartSetup(c) \/ StartIndex(c) \/ KillStep(c)
  <2>1. \A i \in Insts : inst[i].started => inst'[i].started
    BY <1>1, <1>5, CalmSteps DEF SameObject
  <2> QED
    BY <1>5, <2>1, AgreementKept
       DEF StartConstruct, StartSetup, StartIndex, KillStep, KillProcess, KillCleanup
<1> QED
  BY <1>2, <1>3, <1>4, <1>5 DEF StartStep

LEMMA RegistryInvNext == RegistryInv /\ [Next]_vars => RegistryInv'
<1> SUFFICES ASSUME RegistryInv, [Next]_vars
             PROVE  MapInjective' /\ FileInjective' /\ FileInMap'
  BY TypeNext DEF RegistryInv
<1>1. Typed
  BY DEF RegistryInv, TypeInv
<1>2. ASSUME NEW t \in Titles, NEW k \in Kinds, CreateSession(t, k)
      PROVE  MapInjective' /\ FileInjective' /\ FileInMap'
  BY <1>2, MapAfterCreate, SaveAgrees DEF CreateSession
<1>3. ASSUME NEW c \in Callers, NEW t \in Titles, KillBegin(c, t)
      PROVE  MapInjective' /\ FileInjective' /\ FileInMap'
  BY <1>3, MapAfterRemoval, SaveAgrees DEF KillBegin
<1>4. ASSUME NEW c \in Callers, NEW t \in Titles, StartBegin(c, t)
      PROVE  MapInjective' /\ FileInjective' /\ FileInMap'
  BY <1>1, <1>4, CalmSteps, AgreementKept DEF StartBegin, SameObject
<1>5. ASSUME NEW t \in Titles, OpenSession(t) \/ ResumeSession(t) \/ PauseSession(t)
      PROVE  MapInjective' /\ FileInjective' /\ FileInMap'
  BY <1>5, OperationAgrees
<1>6. ASSUME NEW t \in Titles, IndexSession(t) \/ StopIndexer(t)
      PROVE  MapInjective' /\ FileInjective' /\ FileInMap'
  BY <1>6, AgreementKept DEF IndexSession, StopIndexer
<1>7. ASSUME NEW c \in Callers, StartStep(c) \/ KillStep(c)
      PROVE  MapInjective' /\ FileInjective' /\ FileInMap'
  BY <1>7, StartAgrees
<1>8. CASE Close \/ Crash
  BY <1>8, AgreementAfterStop DEF Close, Crash
<1>9. CASE Restart
  BY <1>9, AgreementAfterRestart
<1>10. CASE \/ \E p \in Procs : ProcessExits(p) \/ ProcessCommits(p)
            \/ \E i \in Insts : StrayExits(i) \/ StrayCommits(i)
            \/ \E T \in Trees : TreeDeleted(T)
  BY <1>10, AgreementKept DEF ProcessExits, ProcessCommits, StrayExits, StrayCommits, TreeDeleted
<1>11. CASE UNCHANGED vars
  BY <1>11, AgreementKept DEF vars
<1> QED
  BY <1>2, <1>3, <1>4, <1>5, <1>6, <1>7, <1>8, <1>9, <1>10, <1>11 DEF Next

-----------------------------------------------------------------------------
(***************************************************************************)
(* The steps, as the registry sees them.                                   *)
(***************************************************************************)

\* A step that changes one object concerns the title that has it, if any.
LEMMA OneObjectOnlyAt ==
  ASSUME RegistryInv, up, up', UNCHANGED sessions,
         NEW i \in Insts, \A j \in Insts \ {i} : inst'[j] = inst[j],
         NEW t \in Titles, sessions[t] = i
  PROVE  OnlyAt(t)
<1>1. \A u \in Titles : sessions[u] # None => sessions[u] \in Insts
  BY DEF RegistryInv, TypeInv, Typed
<1>2. i # None
  BY ConstantsAssumption
<1>3. \A u \in Titles \ {t} : sessions[u] # i
  BY <1>2 DEF RegistryInv, MapInjective
<1> QED
  BY <1>1, <1>3, SameIfEqual DEF OnlyAt

LEMMA CreateRefines ==
  ASSUME RegistryInv, NEW t \in Titles, NEW k \in Kinds, CreateSession(t, k)
  PROVE  Registry!Step \/ UNCHANGED Shown
<1>1. PICK i \in Insts :
        /\ inst[i].status = "unused"
        /\ inst' = [inst EXCEPT ![i] = [NoInstance EXCEPT !.status = "ready", !.kind = k]]
        /\ sessions' = [sessions EXCEPT ![t] = i]
  BY DEF CreateSession
<1>2. sessions \in [Titles -> Insts \cup {None}] /\ inst \in [Insts -> InstType]
  BY DEF RegistryInv, TypeInv, Typed
<1>3. \A u \in Titles : sessions[u] # None => sessions[u] \in Insts \ {i}
  BY <1>1, <1>2 DEF RegistryInv, TypeInv
<1>4. OnlyAt(t)
  BY <1>1, <1>2, <1>3, SameIfEqual DEF CreateSession, OnlyAt
<1>5. inst'[i] = [NoInstance EXCEPT !.status = "ready", !.kind = k]
  BY <1>1, <1>2
<1>6. ~inst'[i].started /\ sessions'[t] = i /\ i # None
  BY <1>1, <1>2, <1>5, ConstantsAssumption DEF NoInstance
<1>7. StateOf(t)' = "new"
  BY <1>6 DEF StateOf, CreateSession
<1> QED
  BY <1>4, <1>7, AllowedAt

\* The session leaves the map.
LEMMA RemovalRefines ==
  ASSUME RegistryInv, NEW t \in Titles, up, up', sessions' = [sessions EXCEPT ![t] = None],
         \A i \in Insts : SameObject(i)
  PROVE  Registry!Step \/ UNCHANGED Shown
<1>1. sessions \in [Titles -> Insts \cup {None}]
  BY DEF RegistryInv, TypeInv, Typed
<1>2. OnlyAt(t)
  BY <1>1 DEF OnlyAt
<1>3. StateOf(t)' = "absent"
  BY <1>1 DEF StateOf
<1> QED
  BY <1>2, <1>3, AllowedAt

\* One object of the map comes to run, or comes to be paused after it started.
LEMMA ObjectRefines ==
  ASSUME RegistryInv, up, up', UNCHANGED sessions,
         NEW i \in Insts, \A j \in Insts \ {i} : inst'[j] = inst[j],
         \/ inst'[i].started /\ inst'[i].status = "running"
         \/ inst[i].started /\ inst'[i].started /\ inst'[i].status = "paused"
  PROVE  Registry!Step \/ UNCHANGED Shown
<1>1. \A u \in Titles : sessions[u] # None => sessions[u] \in Insts
  BY DEF RegistryInv, TypeInv, Typed
<1>2. i # None
  BY ConstantsAssumption
<1>3. ASSUME NEW t \in Titles, sessions[t] = i
      PROVE  Registry!Step \/ UNCHANGED Shown
  <2>1. OnlyAt(t)
    BY <1>3, OneObjectOnlyAt
  <2>2. StateOf(t) # "absent"
    BY <1>2, <1>3 DEF StateOf
  <2>3. StateOf(t)' = "paused" => StateOf(t) # "new"
    BY <1>2, <1>3 DEF StateOf
  <2> QED
    BY <2>1, <2>2, <2>3, AllowedAt
<1>4. CASE \A t \in Titles : sessions[t] # i
  BY <1>1, <1>4, SameIfEqual, ShownUnchanged
<1> QED
  BY <1>3, <1>4

LEMMA OperationRefines ==
  ASSUME RegistryInv, NEW t \in Titles,
         OpenSession(t) \/ ResumeSession(t) \/ PauseSession(t)
  PROVE  Registry!Step \/ UNCHANGED Shown
<1> DEFINE i == sessions[t]
<1>1. Typed /\ i \in Insts /\ inst[i] \in InstType
  BY DEF RegistryInv, TypeInv, Typed, OpenSession, ResumeSession, PauseSession
<1>2. up /\ up' /\ UNCHANGED sessions
  <2>1. CASE OpenSession(t)
    BY <2>1 DEF OpenSession
  <2>2. CASE ResumeSession(t)
    BY <2>2 DEF ResumeSession
  <2>3. CASE PauseSession(t)
    BY <2>3 DEF PauseSession
  <2> QED
    BY <2>1, <2>2, <2>3
<1>3. ASSUME NEW r \in InstType, NEW P, Resumed(i, r, P)
      PROVE  Registry!Step \/ UNCHANGED Shown
  BY <1>1, <1>2, <1>3, SpawnedObject, ObjectRefines DEF Resumed
<1>4. ASSUME NEW r \in InstType, NEW P, r.started = inst[i].started, ResumeFailed(i, r, P)
      PROVE  Registry!Step \/ UNCHANGED Shown
  BY <1>1, <1>2, <1>4, FailedObject, ObjectRefines
<1>5. CASE UNCHANGED inst
  <2>1. \A u \in Titles : sessions[u] # None => SameObject(sessions[u])
    BY <1>5, SameIfEqual
  <2> QED
    BY <1>2, <2>1, ShownUnchanged
<1>6. CASE inst[i].started /\ Paused(i)
  BY <1>1, <1>2, <1>6, PausedObject, ObjectRefines
<1>7. CASE OpenSession(t)
  BY <1>1, <1>3, <1>4, <1>5, <1>7, ReconnectedObject DEF OpenSession
<1>8. CASE ResumeSession(t)
  BY <1>1, <1>3, <1>4, <1>8 DEF ResumeSession
<1>9. CASE PauseSession(t)
  BY <1>5, <1>6, <1>9 DEF PauseSession
<1> QED
  BY <1>7, <1>8, <1>9

LEMMA CallRefines ==
  ASSUME RegistryInv, NEW c \in Callers, StartStep(c) \/ KillStep(c)
  PROVE  Registry!Step \/ UNCHANGED Shown
<1>1. call[c].pc # "idle" /\ Typed /\ up /\ UNCHANGED up
  BY DEF RegistryInv, TypeInv, StartStep, KillStep, StartConstruct, StartSetup, StartSpawn,
         StartFailed, StartPublish, StartIndex, KillProcess, KillCleanup
<1>2. CASE StartFailed(c)
  <2>1. call[c].title \in Titles
    BY <1>1 DEF RegistryInv, TypeInv
  <2>2. \A i \in Insts : SameObject(i)
    BY <1>1, <1>2, CalmSteps
  <2>3. sessions' = [sessions EXCEPT ![call[c].title] = None]
    BY <1>2 DEF StartFailed
  <2> QED
    BY <1>1, <2>1, <2>2, <2>3, RemovalRefines
<1>3. CASE StartSpawn(c)
  <2>1. call[c].inst \in Insts /\ inst[call[c].inst] \in InstType
    BY <1>1, CallHasInst
  <2>2. CASE \/ Spawned(call[c].inst, inst[call[c].inst], procs)
             \/ SpawnedAstray(call[c].inst, inst[call[c].inst])
    BY <1>1, <1>3, <2>1, <2>2, SpawnedObject, ObjectRefines DEF StartSpawn
  <2>3. CASE UNCHANGED inst
    <3>1. \A u \in Titles : sessions[u] # None => SameObject(sessions[u])
      BY <2>3, SameIfEqual
    <3>2. up' /\ UNCHANGED sessions
      BY <1>1, <1>3 DEF StartSpawn
    <3> QED
      BY <1>1, <3>1, <3>2, ShownUnchanged
  <2> QED
    BY <1>3, <2>2, <2>3 DEF StartSpawn
<1>4. CASE StartConstruct(c) \/ StartSetup(c) \/ StartPublish(c) \/ StartIndex(c) \/ KillStep(c)
  <2>1. \A u \in Titles : sessions[u] # None => sessions[u] \in Insts
    BY <1>1 DEF Typed
  <2>2. \A i \in Insts : SameObject(i)
    BY <1>1, <1>4, CalmSteps
  <2>3. UNCHANGED sessions
    BY <1>4 DEF StartConstruct, StartSetup, StartPublish, StartIndex, KillStep, KillProcess, KillCleanup
  <2> QED
    BY <1>1, <2>1, <2>2, <2>3, ShownUnchanged
<1> QED
  BY <1>2, <1>3, <1>4 DEF StartStep

\* The application ends: what is in the file had started, or the last save
\* failed.
LEMMA StopRefines ==
  ASSUME RegistryInv, NEW saved \in BOOLEAN, Stop(saved)
  PROVE  Registry!Step
<1> DEFINE kept == {t \in Titles : disk'[t] # None}
<1>1. up /\ ~up'
  BY DEF Stop
<1>2. \A t \in Titles : StateOf(t)' = IF t \in kept THEN "paused" ELSE "absent"
  BY <1>1 DEF StateOf
<1>3. ASSUME NEW t \in kept
      PROVE  StateOf(t) \in {"running", "paused"} \/ unsaved
  <2>1. CASE disk' = Persisted(sessions, inst)
    <3>1. sessions[t] # None /\ inst[sessions[t]].started
      BY <2>1 DEF Persisted
    <3> QED
      BY <1>1, <3>1 DEF StateOf
  <2>2. CASE disk' = disk /\ ~unsaved
    <3>1. disk[t] \in RecordType /\ sessions[t] = disk[t].inst /\ inst[sessions[t]].started
      BY <1>1, <2>2 DEF RegistryInv, FileInMap, TypeInv, Typed
    <3>2. sessions[t] # None
      BY <3>1, ConstantsAssumption DEF RecordType
    <3> QED
      BY <1>1, <3>1, <3>2 DEF StateOf
  <2>3. CASE disk' = [u \in Titles |-> None]
    BY <2>3
  <2> QED
    BY <2>1, <2>2, <2>3 DEF Stop, SaveFails
<1>4. kept \in SUBSET {t \in Titles : Shown[t] \in {"running", "paused"} \/ unsaved}
  BY <1>3 DEF Shown
<1>5. Shown' = [t \in Titles |-> IF t \in kept THEN "paused" ELSE "absent"]
  BY <1>2 DEF Shown
<1> HIDE DEF kept
<1> QED
  BY <1>4, <1>5 DEF Registry!Step, Registry!Stop, Shown

\* What comes back is what the file showed already.
LEMMA RestartRefines ==
  ASSUME RegistryInv, Restart
  PROVE  UNCHANGED Shown
<1>1. ~up /\ up' /\ UNCHANGED disk
  BY DEF Restart
<1>2. ASSUME NEW t \in Titles, disk[t] = None
      PROVE  StateOf(t)' = StateOf(t)
  BY <1>1, <1>2 DEF Restart, StateOf
<1>3. ASSUME NEW t \in Titles, disk[t] # None
      PROVE  StateOf(t)' = StateOf(t)
  BY <1>1, <1>3, RestartObject DEF StateOf
<1> QED
  BY <1>2, <1>3 DEF Shown

LEMMA RegistryNext == RegistryInv /\ [Next]_vars => [Registry!Next]_<<Shown, ~unsaved>>
<1> SUFFICES ASSUME RegistryInv, [Next]_vars
             PROVE  Registry!Step \/ UNCHANGED Shown
  BY DEF Registry!Next, Registry!Step, Shown
<1>1. Typed /\ \A u \in Titles : sessions[u] # None => sessions[u] \in Insts
  BY DEF RegistryInv, TypeInv, Typed
<1>2. ASSUME NEW t \in Titles, NEW k \in Kinds, CreateSession(t, k)
      PROVE  Registry!Step \/ UNCHANGED Shown
  BY <1>2, CreateRefines
<1>3. ASSUME NEW c \in Callers, NEW t \in Titles, KillBegin(c, t)
      PROVE  Registry!Step \/ UNCHANGED Shown
  <2>1. \A i \in Insts : SameObject(i)
    BY <1>1, <1>3, CalmSteps
  <2> QED
    BY <1>3, <2>1, RemovalRefines DEF KillBegin
<1>4. ASSUME NEW c \in Callers, NEW t \in Titles, StartBegin(c, t)
      PROVE  Registry!Step \/ UNCHANGED Shown
  BY <1>1, <1>4, CalmSteps, ShownUnchanged DEF StartBegin
<1>5. ASSUME NEW t \in Titles, OpenSession(t) \/ ResumeSession(t) \/ PauseSession(t)
      PROVE  Registry!Step \/ UNCHANGED Shown
  BY <1>5, OperationRefines
<1>6. ASSUME NEW t \in Titles, IndexSession(t) \/ StopIndexer(t)
      PROVE  Registry!Step \/ UNCHANGED Shown
  BY <1>6, SameIfEqual, ShownUnchanged DEF IndexSession, StopIndexer
<1>7. ASSUME NEW c \in Callers, StartStep(c) \/ KillStep(c)
      PROVE  Registry!Step \/ UNCHANGED Shown
  BY <1>7, CallRefines
<1>8. CASE Close \/ Crash
  BY <1>8, StopRefines DEF Close, Crash
<1>9. CASE Restart
  BY <1>9, RestartRefines
<1>10. CASE \/ \E p \in Procs : ProcessExits(p) \/ ProcessCommits(p)
            \/ \E i \in Insts : StrayExits(i) \/ StrayCommits(i)
            \/ \E T \in Trees : TreeDeleted(T)
            \/ UNCHANGED vars
  <2>1. UNCHANGED <<up, sessions, disk, inst>>
    BY <1>10 DEF ProcessExits, ProcessCommits, StrayExits, StrayCommits, TreeDeleted, vars
  <2>2. up \in BOOLEAN
    BY <1>1 DEF Typed
  <2> QED
    BY <2>1, <2>2, SameIfEqual, ShownUnchanged
<1> QED
  BY <1>2, <1>3, <1>4, <1>5, <1>6, <1>7, <1>8, <1>9, <1>10 DEF Next

\* A title goes through the states of SessionRegistry only, whatever calls
\* overlap, fail or are cut off by the end of the application: a session that
\* was killed does not come back when its StartSession returns, none is
\* resumed that was not paused, and after a restart the file's sessions, each
\* of which had started unless the last save failed, are paused.
THEOREM LifecycleRefines == Spec => RegistrySpec
<1>1. Init => Registry!Init
  BY DEF Init, Registry!Init, StateOf
<1>2. RegistryInv /\ [Next]_vars => [Registry!Next]_(Registry!vars)
  BY RegistryNext DEF Shown, Registry!vars
<1> QED
  BY RegistryInvInit, RegistryInvNext, <1>1, <1>2, PTL DEF Spec, RegistrySpec, Registry!Spec

-----------------------------------------------------------------------------
(***************************************************************************)
(* Part 3: what a crash loses (saveInstancesLocked, StartSession):         *)
(* state.json holds the started sessions of the map.                       *)
(***************************************************************************)
\* Two starts of one instance, or a start of one that has started, are known
\* to have met: only then can an instance get another worktree than the file
\* has for it.
CallsAgree ==
  \A c \in Callers : call[c].pc \in StartPcs =>
    /\ inst[call[c].inst].started => call[c].inst \in overtaken
    /\ \A d \in Callers \ {c} :
         call[d].pc \in StartPcs /\ call[d].inst = call[c].inst => call[c].inst \in overtaken

\* Unless the last save failed, the file has the worktrees of its instances.
TreesAgree ==
  up /\ ~unsaved => \A t \in Titles : disk[t] # None =>
    inst[disk[t].inst].tree = disk[t].tree \/ disk[t].inst \in overtaken

\* What has started is saved, or about to be.
StartedSaved ==
  up /\ ~unsaved => \A t \in Titles : sessions[t] # None /\ inst[sessions[t]].started =>
    disk[t] # None \/ Publishing(sessions[t])

DiskInv ==
  /\ RegistryInv
  /\ CallsAgree
  /\ TreesAgree
  /\ StartedSaved

LEMMA DiskInvInit == Init => DiskInv
<1> SUFFICES ASSUME Init PROVE DiskInv
  OBVIOUS
<1>1. /\ \A t \in Titles : sessions[t] = None /\ disk[t] = None
      /\ \A c \in Callers : call[c] = NoCall
  BY DEF Init
<1>2. \A c \in Callers : call[c].pc \notin StartPcs
  BY <1>1 DEF NoCall, StartPcs
<1> QED
  BY <1>1, <1>2, RegistryInvInit DEF DiskInv, CallsAgree, TreesAgree, StartedSaved

LEMMA DiskInvImplies == DiskInv => DiskAgrees
BY DEF DiskInv, RegistryInv, FileInMap, TreesAgree, StartedSaved, DiskAgrees

-----------------------------------------------------------------------------
\* A save settles both, if it succeeds.
LEMMA SaveSettles ==
  ASSUME Typed', Save
  PROVE  TreesAgree' /\ StartedSaved'
<1> SUFFICES ASSUME disk' = Persisted(sessions', inst')
             PROVE  TreesAgree' /\ StartedSaved'
  BY DEF Save, SaveFails, TreesAgree, StartedSaved
<1>1. ASSUME NEW t \in Titles, sessions'[t] # None, inst'[sessions'[t]].started
      PROVE  disk'[t] # None
  <2> DEFINE r == [inst |-> sessions'[t], tree |-> inst'[sessions'[t]].tree]
  <2>1. disk'[t] = r
    BY <1>1 DEF Persisted
  <2>2. sessions'[t] \in Insts /\ inst'[sessions'[t]].tree \in Trees \cup {None}
    BY <1>1 DEF Typed, InstType
  <2> QED
    BY <2>1, <2>2, RecordsAssumption
<1>2. ASSUME NEW t \in Titles, disk'[t] # None
      PROVE  inst'[disk'[t].inst].tree = disk'[t].tree
  BY <1>2 DEF Persisted
<1> QED
  BY <1>1, <1>2 DEF TreesAgree, StartedSaved

\* What CallsAgree rests on: no call becomes one that starts, and an instance
\* that starts under such a call had met another start.
LEMMA CallsKept ==
  ASSUME CallsAgree, overtaken \subseteq overtaken',
         \A c \in Callers : call'[c].pc \in StartPcs =>
           /\ call[c].pc \in StartPcs /\ call'[c].inst = call[c].inst
           /\ inst'[call[c].inst].started =>
                inst[call[c].inst].started \/ call[c].inst \in overtaken
  PROVE  CallsAgree'
BY DEF CallsAgree

\* A step that does not save: what is saved stays saved, as long as no
\* worktree changes and a call that is about to save is left at that.
LEMMA SettledKept ==
  ASSUME TreesAgree, StartedSaved, RegistryInv,
         UNCHANGED <<up, sessions, disk, unsaved>>, overtaken \subseteq overtaken',
         \A i \in Insts : inst'[i].tree = inst[i].tree \/ ~inst[i].started \/ i \in overtaken,
         \A i \in Insts : inst'[i].started => inst[i].started \/ Publishing(i)',
         \A c \in Callers : call[c].pc = "publish" => call'[c] = call[c]
  PROVE  TreesAgree' /\ StartedSaved'
<1>1. ASSUME NEW t \in Titles, up, ~unsaved, disk[t] # None
      PROVE  inst'[disk[t].inst].tree = disk[t].tree \/ disk[t].inst \in overtaken'
  <2>1. disk[t].inst \in Insts /\ inst[disk[t].inst].started
    BY <1>1 DEF RegistryInv, FileInMap, TypeInv, Typed, RecordType
  <2> QED
    BY <1>1, <2>1 DEF TreesAgree
<1>2. ASSUME NEW t \in Titles, up, ~unsaved, sessions[t] # None, inst'[sessions[t]].started
      PROVE  disk[t] # None \/ Publishing(sessions[t])'
  <2>1. sessions[t] \in Insts
    BY <1>2 DEF RegistryInv, TypeInv, Typed
  <2>2. Publishing(sessions[t]) => Publishing(sessions[t])'
    BY DEF Publishing
  <2> QED
    BY <1>2, <2>1, <2>2 DEF StartedSaved
<1> QED
  BY <1>1, <1>2 DEF TreesAgree, StartedSaved
-----------------------------------------------------------------------------
(***************************************************************************)
(* The steps.                                                              *)
(***************************************************************************)

\* What Resume and Pause keep of their instance.
LEMMA ResumedKeeps ==
  ASSUME Typed, NEW i \in Insts, NEW r \in InstType, r.started = inst[i].started, r.tree = inst[i].tree,
         NEW P, Resumed(i, r, P) \/ ResumeFailed(i, r, P)
  PROVE  \A j \in Insts : inst'[j].started = inst[j].started /\ inst'[j].tree = inst[j].tree
<1>1. inst \in [Insts -> InstType]
  BY DEF Typed
<1>2. CASE Resumed(i, r, P)
  <2>1. PICK p : inst' = [inst EXCEPT ![i] = [r EXCEPT !.status = "running", !.started = TRUE, !.proc = p]]
    BY <1>2 DEF Resumed, Spawned, Runs
  <2>2. inst'[i] = [r EXCEPT !.status = "running", !.started = TRUE, !.proc = p]
    BY <1>1, <2>1
  <2>3. inst'[i].started = inst[i].started /\ inst'[i].tree = inst[i].tree
    BY <1>2, <2>2 DEF Resumed, InstType
  <2> QED
    BY <1>1, <2>1, <2>3
<1>3. CASE ResumeFailed(i, r, P)
  <2>1. PICK q \in InstType : /\ inst' = [inst EXCEPT ![i] = q]
                              /\ q.started = r.started /\ q.tree = r.tree
    <3>1. CASE ResumeRefused(i, r) \/ ResumeSetupFailed(i, r)
      BY <3>1 DEF ResumeRefused, ResumeSetupFailed
    <3>2. CASE ResumeSpawnFailed(i, r)
      <4>1. PICK p \in {r.proc} \cup FreshProcs : inst' = [inst EXCEPT ![i] = [r EXCEPT !.proc = p]]
        BY <3>2 DEF ResumeSpawnFailed
      <4>2. [r EXCEPT !.proc = p] \in InstType
        BY <4>1 DEF InstType, FreshProcs
      <4>3. /\ [r EXCEPT !.proc = p].started = r.started
            /\ [r EXCEPT !.proc = p].tree = r.tree
        BY DEF InstType
      <4> QED
        BY <4>1, <4>2, <4>3
    <3> QED
      BY <1>3, <3>1, <3>2 DEF ResumeFailed
  <2> QED
    BY <1>1, <2>1
<1> QED
  BY <1>2, <1>3

LEMMA PausedKeeps ==
  ASSUME Typed, NEW i \in Insts, Paused(i)
  PROVE  \A j \in Insts : inst'[j].started = inst[j].started /\ inst'[j].tree = inst[j].tree
BY DEF Typed, Paused, InstType

LEMMA ReconnectedKeeps ==
  ASSUME Typed, NEW i \in Insts, NEW renewed
  PROVE  Reconnected(i, renewed).tree = inst[i].tree
<1>1. inst[i] \in InstType
  BY DEF Typed
<1> QED
  BY <1>1 DEF Reconnected, ForcePaused, InstType

LEMMA OperationSettles ==
  ASSUME DiskInv, Typed', NEW t \in Titles,
         OpenSession(t) \/ ResumeSession(t) \/ PauseSession(t)
  PROVE  CallsAgree' /\ TreesAgree' /\ StartedSaved'
<1> DEFINE i == sessions[t]
<1>1. Typed /\ i \in Insts /\ inst[i] \in InstType
  BY DEF DiskInv, RegistryInv, TypeInv, Typed, OpenSession, ResumeSession, PauseSession
<1>2. UNCHANGED <<up, sessions, call, overtaken>>
  BY DEF OpenSession, ResumeSession, PauseSession
<1>3. \A j \in Insts : inst'[j].started = inst[j].started /\ inst'[j].tree = inst[j].tree
  <2>1. CASE OpenSession(t)
    BY <1>1, <2>1, ResumedKeeps, ReconnectedObject, ReconnectedKeeps DEF OpenSession
  <2>2. CASE ResumeSession(t)
    BY <1>1, <2>2, ResumedKeeps DEF ResumeSession
  <2>3. CASE PauseSession(t)
    BY <1>1, <2>3, PausedKeeps DEF PauseSession
  <2> QED
    BY <2>1, <2>2, <2>3
<1>4. CallsAgree'
  <2>1. \A c \in Callers : call[c].pc \in StartPcs => call[c].inst \in Insts
    BY <1>1, CallHasInst DEF StartPcs
  <2> QED
    BY <1>2, <1>3, <2>1, CallsKept DEF DiskInv
<1>5. CASE Save
  BY <1>4, <1>5, SaveSettles
<1>6. CASE UNCHANGED <<disk, unsaved>>
  BY <1>2, <1>3, <1>4, <1>6, SettledKept DEF DiskInv
<1> QED
  BY <1>5, <1>6 DEF OpenSession, ResumeSession, PauseSession

\* A worktree object is only made for an instance that has not started, or
\* whose Start had met another.
LEMMA ConstructSettles ==
  ASSUME DiskInv, NEW c \in Callers, StartConstruct(c)
  PROVE  CallsAgree' /\ TreesAgree' /\ StartedSaved'
<1> DEFINE i == call[c].inst
<1>1. Typed /\ call[c].pc = "construct" /\ call \in [Callers -> CallType]
  BY DEF DiskInv, RegistryInv, TypeInv, Typed, CallsOK, StartConstruct
<1>2. i \in Insts /\ inst \in [Insts -> InstType]
  BY <1>1, CallHasInst DEF Typed
<1>3. /\ \A j \in Insts \ {i} : inst'[j] = inst[j]
      /\ inst'[i].started = inst[i].started
  <2>1. CASE UNCHANGED inst
    BY <2>1
  <2>2. CASE \E T \in FreshTrees, ref \in BOOLEAN :
               inst' = [inst EXCEPT ![i].tree = T, ![i].baseRef = ref]
    <3>1. PICK T \in FreshTrees, ref \in BOOLEAN :
            inst' = [inst EXCEPT ![i].tree = T, ![i].baseRef = ref]
      BY <2>2
    <3>2. inst'[i] = [inst[i] EXCEPT !.tree = T, !.baseRef = ref]
      BY <1>2, <3>1
    <3>3. inst'[i].started = inst[i].started
      BY <1>2, <3>2 DEF InstType
    <3> QED
      BY <1>2, <3>1, <3>3
  <2> QED
    BY <2>1, <2>2 DEF StartConstruct
<1>4. \A d \in Callers : call'[d] = call[d] \/ (d = c /\ call'[d].inst = i)
  BY <1>1 DEF StartConstruct, Goto, CallType
<1>5. inst[i].started => i \in overtaken
  BY <1>1 DEF DiskInv, CallsAgree, StartPcs
<1>6. CallsAgree'
  <2>1. \A d \in Callers : call[d].pc \in StartPcs => call[d].inst \in Insts
    BY <1>1, CallHasInst DEF StartPcs
  <2> QED
    BY <1>1, <1>3, <1>4, <2>1, CallsKept DEF DiskInv, StartConstruct, StartPcs
<1>7. \A d \in Callers : call[d].pc = "publish" => call'[d] = call[d]
  BY <1>1, <1>4
<1> QED
  BY <1>3, <1>5, <1>6, <1>7, SettledKept DEF DiskInv, StartConstruct

\* An instance that starts is about to be saved; any other call that starts it
\* had met this one.
LEMMA SpawnSettles ==
  ASSUME DiskInv, NEW c \in Callers, StartSpawn(c)
  PROVE  CallsAgree' /\ TreesAgree' /\ StartedSaved'
<1> DEFINE i == call[c].inst
<1>1. Typed /\ call[c].pc = "spawn" /\ call \in [Callers -> CallType]
  BY DEF DiskInv, RegistryInv, TypeInv, Typed, CallsOK, StartSpawn
<1>2. i \in Insts /\ inst \in [Insts -> InstType]
  BY <1>1, CallHasInst DEF Typed
<1>3. \A d \in Callers \ {c} : call'[d] = call[d]
  BY <1>1 DEF StartSpawn, Goto
<1>4. call'[c].inst = i
  BY <1>1 DEF StartSpawn, Goto, CallType
<1>5. \A j \in Insts : inst'[j].tree = inst[j].tree
  <2>1. CASE UNCHANGED inst
    BY <2>1
  <2>2. CASE Spawned(i, inst[i], procs) \/ SpawnedAstray(i, inst[i])
    <3>1. PICK p : inst' = [inst EXCEPT ![i] = [inst[i] EXCEPT !.status = "running", !.started = TRUE, !.proc = p]]
      BY <2>2 DEF Spawned, SpawnedAstray, Runs
    <3>2. inst'[i] = [inst[i] EXCEPT !.status = "running", !.started = TRUE, !.proc = p]
      BY <1>2, <3>1
    <3>3. inst'[i].tree = inst[i].tree
      BY <1>2, <3>2 DEF InstType
    <3> QED
      BY <1>2, <3>1, <3>3
  <2> QED
    BY <2>1, <2>2 DEF StartSpawn
<1>6. \A j \in Insts \ {i} : inst'[j] = inst[j]
  BY <1>1, <1>2, SpawnedObject DEF StartSpawn
<1>7. inst'[i].started => inst[i].started \/ call'[c].pc = "publish"
  <2>1. CASE UNCHANGED inst
    BY <2>1
  <2>2. CASE Goto(c, "publish")
    BY <1>1, <2>2 DEF Goto, CallType
  <2> QED
    BY <2>1, <2>2 DEF StartSpawn
<1>8. CallsAgree'
  <2>1. ASSUME NEW d \in Callers \ {c}, call[d].pc \in StartPcs, inst'[call[d].inst].started
        PROVE  inst[call[d].inst].started \/ call[d].inst \in overtaken
    <3>1. call[d].inst \in Insts
      BY <1>1, <2>1, CallHasInst DEF StartPcs
    <3>2. CASE call[d].inst = i
      BY <1>1, <2>1, <3>2 DEF DiskInv, CallsAgree, StartPcs
    <3>3. CASE call[d].inst # i
      BY <1>6, <2>1, <3>1, <3>3
    <3> QED
      BY <3>2, <3>3
  <2>2. call'[c].pc \in StartPcs => (inst'[i].started => inst[i].started)
    BY <1>7 DEF StartPcs
  <2>3. call[c].pc \in StartPcs
    BY <1>1 DEF StartPcs
  <2> QED
    BY <1>3, <1>4, <2>1, <2>2, <2>3, CallsKept DEF DiskInv, StartSpawn
<1>9. \A j \in Insts : inst'[j].started => inst[j].started \/ Publishing(j)'
  BY <1>4, <1>6, <1>7 DEF Publishing
<1>10. \A d \in Callers : call[d].pc = "publish" => call'[d] = call[d]
  BY <1>1, <1>3
<1> QED
  BY <1>5, <1>8, <1>9, <1>10, SettledKept DEF DiskInv, StartSpawn

\* The other steps of a call change neither what has started nor a worktree.
LEMMA CallKeeps ==
  ASSUME Typed, NEW c \in Callers,
         StartSetup(c) \/ StartFailed(c) \/ StartPublish(c) \/ StartIndex(c) \/ KillStep(c)
  PROVE  /\ \A j \in Insts : inst'[j].started = inst[j].started /\ inst'[j].tree = inst[j].tree
         /\ \A d \in Callers : \/ call'[d] = call[d]
                               \/ d = c /\ call'[d].pc \notin StartPcs
                               \/ d = c /\ call[d].pc \in StartPcs /\ call'[d].inst = call[d].inst
<1>1. inst \in [Insts -> InstType] /\ call \in [Callers -> CallType]
  BY DEF Typed, CallsOK
<1>2. \A j \in Insts : inst'[j].started = inst[j].started /\ inst'[j].tree = inst[j].tree
  <2>1. CASE UNCHANGED inst
    BY <2>1
  <2>2. CASE inst' = [inst EXCEPT ![call[c].inst].proc = None]
    BY <1>1, <2>2 DEF InstType
  <2> QED
    BY <2>1, <2>2 DEF StartSetup, StartFailed, StartPublish, StartIndex, KillStep, KillProcess, KillCleanup
<1>3. \/ Return(c) \/ Goto(c, "index") \/ Goto(c, "cleanup")
      \/ call[c].pc = "setup" /\ \E pc : Goto(c, pc)
  BY DEF StartSetup, StartFailed, StartPublish, StartIndex, KillStep, KillProcess, KillCleanup
<1>4. \A d \in Callers : \/ call'[d] = call[d]
                         \/ d = c /\ call'[d].pc \notin StartPcs
                         \/ d = c /\ call[d].pc \in StartPcs /\ call'[d].inst = call[d].inst
  <2>1. CASE Return(c)
    BY <1>1, <2>1 DEF Return, NoCall, StartPcs
  <2>2. CASE Goto(c, "index") \/ Goto(c, "cleanup")
    BY <1>1, <2>2 DEF Goto, CallType, StartPcs
  <2>3. CASE call[c].pc = "setup" /\ \E pc : Goto(c, pc)
    BY <1>1, <2>3 DEF Goto, CallType, StartPcs
  <2> QED
    BY <1>3, <2>1, <2>2, <2>3
<1> QED
  BY <1>2, <1>4

LEMMA CallSettles ==
  ASSUME DiskInv, Typed', NEW c \in Callers, StartStep(c) \/ KillStep(c)
  PROVE  CallsAgree' /\ TreesAgree' /\ StartedSaved'
<1>1. Typed
  BY DEF DiskInv, RegistryInv, TypeInv
<1>2. CASE StartConstruct(c)
  BY <1>2, ConstructSettles
<1>3. CASE StartSpawn(c)
  BY <1>3, SpawnSettles
<1>4. ASSUME StartSetup(c) \/ StartFailed(c) \/ StartPublish(c) \/ StartIndex(c) \/ KillStep(c)
      PROVE  CallsAgree'
  <2>1. overtaken \subseteq overtaken'
    BY <1>4 DEF StartSetup, StartFailed, StartPublish, StartIndex, KillStep, KillProcess, KillCleanup
  <2>2. \A d \in Callers : call[d].pc \in StartPcs => call[d].inst \in Insts
    BY <1>1, CallHasInst DEF StartPcs
  <2> QED
    BY <1>1, <1>4, <2>1, <2>2, CallKeeps, CallsKept DEF DiskInv
<1>5. CASE StartFailed(c) \/ StartPublish(c)
  BY <1>4, <1>5, SaveSettles DEF StartFailed, StartPublish
<1>6. CASE StartSetup(c) \/ StartIndex(c) \/ KillStep(c)
  <2>1. \A d \in Callers : call[d].pc = "publish" => call'[d] = call[d]
    BY <1>1, <1>6 DEF Typed, CallsOK, StartSetup, StartIndex, KillStep, KillProcess, KillCleanup, Goto, Return
  <2> QED
    BY <1>1, <1>4, <1>6, <2>1, CallKeeps, SettledKept
       DEF DiskInv, StartSetup, StartIndex, KillStep, KillProcess, KillCleanup
<1> QED
  BY <1>2, <1>3, <1>5, <1>6 DEF StartStep

\* A call that begins: a second Start of an instance is noticed.
LEMMA BeginSettles ==
  ASSUME DiskInv, Typed', NEW c \in Callers, NEW t \in Titles,
         StartBegin(c, t) \/ KillBegin(c, t)
  PROVE  CallsAgree' /\ TreesAgree' /\ StartedSaved'
<1> DEFINE i == sessions[t]
<1>1. Typed /\ call \in [Callers -> CallType] /\ inst \in [Insts -> InstType] /\ i \in Insts
  BY DEF DiskInv, RegistryInv, TypeInv, Typed, CallsOK, StartBegin, KillBegin
<1>2. \A j \in Insts : inst'[j].started = inst[j].started /\ inst'[j].tree = inst[j].tree
  BY <1>1 DEF StartBegin, KillBegin, InstType
<1>3. \A d \in Callers \ {c} : call'[d] = call[d]
  BY <1>1 DEF StartBegin, KillBegin
<1>4. overtaken \subseteq overtaken'
  BY DEF StartBegin, KillBegin
<1>5. \A d \in Callers : call[d].pc \in StartPcs => call[d].inst \in Insts
  BY <1>1, CallHasInst DEF StartPcs
<1>6. CASE StartBegin(c, t)
  <2>1. call'[c].inst = i /\ ~inst[i].started /\ call[c].pc = "idle"
    BY <1>1, <1>6 DEF StartBegin
  <2>2. Starting(i) => i \in overtaken'
    BY <1>6 DEF StartBegin
  <2>3. \A d \in Callers \ {c} :
          call[d].pc \in StartPcs /\ call[d].inst = i => i \in overtaken'
    BY <2>2 DEF Starting
  <2>4. CallsAgree'
    <3>1. ASSUME NEW d \in Callers, call'[d].pc \in StartPcs, inst'[call'[d].inst].started
          PROVE  call'[d].inst \in overtaken'
      BY <1>1, <1>2, <1>3, <1>4, <1>5, <2>1, <3>1 DEF DiskInv, CallsAgree
    <3>2. ASSUME NEW d \in Callers, call'[d].pc \in StartPcs,
                 NEW e \in Callers \ {d}, call'[e].pc \in StartPcs, call'[e].inst = call'[d].inst
          PROVE  call'[d].inst \in overtaken'
      BY <1>3, <1>4, <2>1, <2>3, <3>2 DEF DiskInv, CallsAgree
    <3> QED
      BY <3>1, <3>2 DEF CallsAgree
  <2>5. \A d \in Callers : call[d].pc = "publish" => call'[d] = call[d]
    BY <1>3, <2>1
  <2> QED
    BY <1>2, <1>4, <1>6, <2>4, <2>5, SettledKept DEF DiskInv, StartBegin
<1>7. CASE KillBegin(c, t)
  <2>1. call'[c].pc \notin StartPcs
    BY <1>1, <1>7 DEF KillBegin, StartPcs
  <2>2. CallsAgree'
    BY <1>2, <1>3, <1>4, <1>5, <2>1, CallsKept DEF DiskInv
  <2> QED
    BY <1>7, <2>2, SaveSettles DEF KillBegin
<1> QED
  BY <1>6, <1>7

\* A restart gives each instance of the file the worktree the file has for it:
\* no two records are of one instance.
LEMMA RestartSettles ==
  ASSUME DiskInv, Restart
  PROVE  CallsAgree' /\ TreesAgree' /\ StartedSaved'
<1> DEFINE saved == {disk[u] : u \in Titles} \ {None}
<1>1. CallsAgree'
  <2>1. \A c \in Callers : call'[c].pc = "idle"
    BY DEF DiskInv, RegistryInv, TypeInv, Restart
  <2> QED
    BY <2>1 DEF CallsAgree, StartPcs
<1>2. ASSUME NEW t \in Titles, disk[t] # None
      PROVE  inst'[disk[t].inst].tree = disk[t].tree
  <2>1. disk[t] \in RecordType /\ disk[t] \in saved
    BY <1>2 DEF DiskInv, RegistryInv, TypeInv, Typed
  <2>2. disk[t].inst \in Insts
    BY <2>1 DEF RecordType
  <2>3. PICK d \in saved : d.inst = disk[t].inst /\ inst'[disk[t].inst] = Restored(d)
    BY <2>1, <2>2 DEF Restart
  <2>4. d = disk[t]
    BY <1>2, <2>3 DEF DiskInv, RegistryInv, FileInjective
  <2>5. inst[d.inst] \in InstType
    BY <2>2, <2>4 DEF DiskInv, RegistryInv, TypeInv, Typed
  <2>6. Restored(d).tree = d.tree
    BY <2>5 DEF Restored, InstType
  <2> QED
    BY <2>3, <2>4, <2>6
<1>3. \A t \in Titles : sessions'[t] # None => disk[t] # None
  BY DEF Restart
<1> QED
  BY <1>1, <1>2, <1>3 DEF TreesAgree, StartedSaved, Restart

LEMMA DiskInvNext == DiskInv /\ [Next]_vars => DiskInv'
<1> SUFFICES ASSUME DiskInv, [Next]_vars
             PROVE  CallsAgree' /\ TreesAgree' /\ StartedSaved'
  BY RegistryInvNext DEF DiskInv
<1>1. Typed /\ Typed'
  BY RegistryInvNext DEF DiskInv, RegistryInv, TypeInv
<1>2. \A c \in Callers : call[c].pc \in StartPcs => call[c].inst \in Insts
  BY <1>1, CallHasInst DEF StartPcs
<1>3. ASSUME NEW t \in Titles, NEW k \in Kinds, CreateSession(t, k)
      PROVE  CallsAgree' /\ TreesAgree' /\ StartedSaved'
  <2>1. \A j \in Insts : inst'[j].started => inst[j].started
    BY <1>1, <1>3 DEF CreateSession, Typed, InstType, NoInstance
  <2>2. CallsAgree'
    BY <1>2, <1>3, <2>1, CallsKept DEF DiskInv, CreateSession
  <2> QED
    BY <1>1, <1>3, <2>2, SaveSettles DEF CreateSession
<1>4. ASSUME NEW c \in Callers, NEW t \in Titles, StartBegin(c, t) \/ KillBegin(c, t)
      PROVE  CallsAgree' /\ TreesAgree' /\ StartedSaved'
  BY <1>1, <1>4, BeginSettles
<1>5. ASSUME NEW t \in Titles, OpenSession(t) \/ ResumeSession(t) \/ PauseSession(t)
      PROVE  CallsAgree' /\ TreesAgree' /\ StartedSaved'
  BY <1>1, <1>5, OperationSettles
<1>6. ASSUME NEW c \in Callers, StartStep(c) \/ KillStep(c)
      PROVE  CallsAgree' /\ TreesAgree' /\ StartedSaved'
  BY <1>1, <1>6, CallSettles
<1>7. CASE Close \/ Crash
  <2>1. ~up' /\ \A c \in Callers : call'[c] = NoCall
    BY <1>7 DEF Close, Crash, Stop
  <2> QED
    BY <2>1 DEF CallsAgree, TreesAgree, StartedSaved, NoCall, StartPcs
<1>8. CASE Restart
  BY <1>8, RestartSettles
<1>9. CASE \/ \E t \in Titles : IndexSession(t) \/ StopIndexer(t)
           \/ \E p \in Procs : ProcessExits(p) \/ ProcessCommits(p)
           \/ \E i \in Insts : StrayExits(i) \/ StrayCommits(i)
           \/ \E T \in Trees : TreeDeleted(T)
           \/ UNCHANGED vars
  <2>1. UNCHANGED <<up, sessions, disk, unsaved, inst, call, overtaken>>
    BY <1>9 DEF IndexSession, StopIndexer, ProcessExits, ProcessCommits, StrayExits, StrayCommits, TreeDeleted, vars
  <2> QED
    BY <2>1 DEF DiskInv, CallsAgree, TreesAgree, StartedSaved, Publishing
<1> QED
  BY <1>3, <1>4, <1>5, <1>6, <1>7, <1>8, <1>9 DEF Next

\* While the application runs, and unless the last save failed, state.json
\* holds the started sessions of the map and no others, with the worktrees they have, so that a crash at any
\* moment loses no session but one whose StartSession has not got the lock
\* back.  Only an instance whose Start met another can have a different
\* worktree in the file than it has itself.
THEOREM FileAgrees == Spec => []DiskAgrees
<1> QED
  BY DiskInvInit, DiskInvNext, DiskInvImplies, PTL DEF Spec

-----------------------------------------------------------------------------
(***************************************************************************)
(* Part 4: whatever the calls do to one another, a process can be stopped, *)
(* has its worktree, and keeps its commits (Start, Kill, Pause, Resume).   *)
(***************************************************************************)
\* A Start that was not overtaken is of the session its title names, unless a
\* namesake replaced that one, and has no rival; an instance that is being
\* killed, or was replaced, is in no map any more.
StartsMapped ==
  \A c \in Callers : call[c].pc \in StartPcs =>
    \/ sessions[call[c].title] = call[c].inst
    \/ call[c].inst \in overtaken \cup replaced

KillsUnmapped ==
  \A c \in Callers : call[c].pc \in {"process", "cleanup"} =>
    \A t \in Titles : sessions[t] # call[c].inst

\* An instance that was replaced was in use, and one with a process that its
\* manager does not know is on a remote host.
SideInv ==
  /\ ~up => strays = {} /\ moved = {} /\ replaced = {}
  /\ \A i \in replaced : inst[i].status # "unused"
  /\ \A i \in strays : inst[i].status # "unused" /\ inst[i].kind = "remote"
  /\ \A c \in moved : call[c].pc = "spawn" /\ inst[call[c].inst].kind = "remote"

ReplacedGone ==
  /\ \A t \in Titles : sessions[t] # None => sessions[t] \notin replaced
  /\ \A c \in Callers : call[c].pc \in {"process", "cleanup"} => call[c].inst \notin replaced

StartedStatus ==
  \A i \in Insts : inst[i].started => inst[i].status \in {"running", "paused"}

MapInv == StartsMapped /\ KillsUnmapped /\ ReplacedGone /\ StartedStatus

\* No two instances have one worktree, not even one of them in the file only:
\* so nobody removes another's.
TreesApart ==
  \A i, j \in Insts : inst[i].tree # None /\ inst[i].tree = inst[j].tree => i = j

RecordsApart ==
  \A t \in Titles : disk[t] # None /\ disk[t].tree # None =>
    /\ \A j \in Insts : inst[j].tree = disk[t].tree => j = disk[t].inst
    /\ \A u \in Titles : disk[u] # None /\ disk[u].tree = disk[t].tree => disk[u].inst = disk[t].inst

\* A session in place has no worktree.
InPlaceBare ==
  /\ \A i \in Insts : inst[i].kind = "inplace" => inst[i].tree = None
  /\ \A t \in Titles : disk[t] # None /\ inst[disk[t].inst].kind = "inplace" => disk[t].tree = None
  /\ \A c \in Callers : call[c].pc \in {"construct", "setup"} => inst[call[c].inst].kind # "inplace"

TreeInv == TreesApart /\ RecordsApart /\ InPlaceBare

\* Somebody can stop instance i, or a namesake has pushed it out of the map.
Accounted(i) == Reachable(i) \/ i \in replaced

\* ProcessOwned, as an invariant that is inductive: what runs belongs to an
\* instance that has started.
Quiet == ~up => \A p \in Procs : procs[p] = None

Owned ==
  \A p \in Procs : procs[p] # None /\ procs[p] \notin overtaken =>
    /\ inst[procs[p]].proc = p /\ inst[procs[p]].started
    /\ Accounted(procs[p])
    /\ inst[procs[p]].status = "paused" => \A t \in Titles : sessions[t] # procs[p]

\* The worktree is there when the process is about to be spawned, and nothing
\* runs in it when Kill cleans it up.
Prepared ==
  \A c \in Callers :
    call[c].pc = "spawn" /\ call[c].inst \notin overtaken /\ inst[call[c].inst].tree # None =>
      inst[call[c].inst].tree \in trees

CleanupQuiet ==
  \A c \in Callers : call[c].pc = "cleanup" /\ call[c].inst \notin overtaken =>
    \A p \in Procs : procs[p] # call[c].inst

ProcInv == Quiet /\ Owned /\ ProcessHasTree /\ Prepared /\ CleanupQuiet

OwnInv == DiskInv /\ SideInv /\ MapInv /\ TreeInv /\ ProcInv

-----------------------------------------------------------------------------
(***************************************************************************)
(* What the invariant says of an instance.                                 *)
(***************************************************************************)

\* What the invariants of the other parts say, in one place.
LEMMA OwnTypes ==
  ASSUME OwnInv
  PROVE  /\ TypeInv /\ Typed /\ DiskInv /\ RegistryInv
         /\ inst \in [Insts -> InstType] /\ call \in [Callers -> CallType]
         /\ sessions \in [Titles -> Insts \cup {None}]
         /\ procs \in [Procs -> Insts \cup {None}]
         /\ trees \subseteq Trees
         /\ None \notin Insts /\ None \notin Trees /\ None \notin Procs
BY ConstantsAssumption DEF OwnInv, DiskInv, RegistryInv, TypeInv, Typed, CallsOK

\* At first there is nothing to own.
LEMMA OwnInvInit == Init => OwnInv
<1> SUFFICES ASSUME Init PROVE OwnInv
  OBVIOUS
<1>1. /\ \A t \in Titles : sessions[t] = None /\ disk[t] = None
      /\ \A c \in Callers : call[c] = NoCall
      /\ \A p \in Procs : procs[p] = None
      /\ \A i \in Insts : inst[i] = NoInstance
  BY DEF Init
<1>2. MapInv
  BY <1>1 DEF Init, MapInv, StartsMapped, KillsUnmapped, ReplacedGone, StartedStatus, NoCall, StartPcs, NoInstance
<1>3. TreeInv
  BY <1>1 DEF TreeInv, TreesApart, RecordsApart, InPlaceBare, NoCall, NoInstance
<1>4. ProcInv
  BY <1>1 DEF ProcInv, Quiet, Owned, ProcessHasTree, Prepared, CleanupQuiet, NoCall
<1>5. SideInv
  BY DEF Init, SideInv
<1> QED
  BY <1>2, <1>3, <1>4, <1>5, DiskInvInit DEF OwnInv

\* What is being started does not run yet, and is in the map.
LEMMA StartingQuiet ==
  ASSUME OwnInv, NEW c \in Callers, call[c].pc \in StartPcs, call[c].inst \notin overtaken
  PROVE  /\ ~inst[call[c].inst].started
         /\ \A p \in Procs : procs[p] # call[c].inst
         /\ sessions[call[c].title] = call[c].inst \/ call[c].inst \in replaced
<1>1. ~inst[call[c].inst].started
  BY DEF OwnInv, DiskInv, CallsAgree
<1>2. call[c].inst \in Insts
  BY OwnTypes, CallHasInst DEF StartPcs
<1>3. \A p \in Procs : procs[p] # call[c].inst
  BY <1>1, <1>2, OwnTypes DEF OwnInv, ProcInv, Owned
<1> QED
  BY <1>1, <1>3 DEF OwnInv, MapInv, StartsMapped

\* A paused session does not run.
LEMMA PausedQuiet ==
  ASSUME OwnInv, NEW t \in Titles, sessions[t] # None, inst[sessions[t]].status = "paused",
         sessions[t] \notin overtaken
  PROVE  \A p \in Procs : procs[p] # sessions[t]
BY OwnTypes DEF OwnInv, ProcInv, Owned

\* What runs for an instance in the map is its own process, and no call
\* starts or kills it.
LEMMA MappedAlone ==
  ASSUME OwnInv, NEW t \in Titles, sessions[t] # None, inst[sessions[t]].started,
         sessions[t] \notin overtaken
  PROVE  /\ \A p \in Procs : procs[p] = sessions[t] => inst[sessions[t]].proc = p
         /\ \A c \in Callers :
              call[c].pc \in StartPcs \cup {"process", "cleanup"} => call[c].inst # sessions[t]
<1>1. \A p \in Procs : procs[p] = sessions[t] => inst[sessions[t]].proc = p
  BY OwnTypes DEF OwnInv, ProcInv, Owned
<1>2. \A c \in Callers : call[c].pc \in StartPcs => call[c].inst # sessions[t]
  BY DEF OwnInv, DiskInv, CallsAgree
<1>3. \A c \in Callers : call[c].pc \in {"process", "cleanup"} => call[c].inst # sessions[t]
  BY DEF OwnInv, MapInv, KillsUnmapped
<1> QED
  BY <1>1, <1>2, <1>3

\* Removing the worktree of one instance leaves the others theirs.
LEMMA OthersTree ==
  ASSUME OwnInv, NEW i \in Insts, NEW j \in Insts, i # j,
         trees \ {inst[j].tree} \subseteq trees', inst[i].tree \in trees
  PROVE  inst[i].tree \in trees'
BY OwnTypes DEF OwnInv, TreeInv, TreesApart

-----------------------------------------------------------------------------
(***************************************************************************)
(* What keeps the parts of the invariant.                                  *)
(***************************************************************************)

\* The file after a save, or as before.
LEMMA FileTrees ==
  ASSUME Typed', Save \/ UNCHANGED disk
  PROVE  \A t \in Titles : disk'[t] # None =>
           disk'[t] = disk[t] \/ (disk'[t].inst \in Insts /\ disk'[t].tree = inst'[disk'[t].inst].tree)
<1>1. CASE UNCHANGED disk
  BY <1>1
<1>2. CASE Save
  BY <1>2 DEF Save, SaveFails, Persisted, Typed
<1> QED
  BY <1>1, <1>2

\* Worktrees stay apart while the instances keep theirs and the file takes
\* them from the instances.
LEMMA TreesKept ==
  ASSUME OwnInv,
         \A j \in Insts : inst'[j].tree = inst[j].tree /\ inst'[j].kind = inst[j].kind,
         \A t \in Titles : disk'[t] # None =>
           disk'[t] = disk[t] \/ (disk'[t].inst \in Insts /\ disk'[t].tree = inst'[disk'[t].inst].tree),
         \A c \in Callers : call'[c].pc \in {"construct", "setup"} =>
           /\ call'[c].inst \in Insts
           /\ \/ call[c].pc \in {"construct", "setup"} /\ call'[c].inst = call[c].inst
              \/ inst[call'[c].inst].kind # "inplace"
  PROVE  TreeInv'
<1>1. \A t \in Titles : disk[t] # None => disk[t].inst \in Insts
  BY OwnTypes DEF Typed, RecordType
<1>2. TreesApart'
  BY DEF OwnInv, TreeInv, TreesApart
<1>3. RecordsApart'
  BY <1>1 DEF OwnInv, TreeInv, TreesApart, RecordsApart
<1>4. InPlaceBare'
  BY <1>1 DEF OwnInv, TreeInv, InPlaceBare
<1> QED
  BY <1>2, <1>3, <1>4 DEF TreeInv


\* No process is added, and those that stay keep their instances.
LEMMA ProcessesKept ==
  ASSUME OwnInv, UNCHANGED up, overtaken \subseteq overtaken',
         \A p \in Procs : procs'[p] = procs[p] \/ procs'[p] = None,
         \A p \in Procs : \A i \in Insts \ overtaken' : procs'[p] = i =>
           /\ inst'[i].proc = inst[i].proc /\ inst'[i].started = inst[i].started
           /\ inst'[i].tree = inst[i].tree
           /\ inst'[i].status = "paused" => inst[i].status = "paused"
           /\ Accounted(i)'
           /\ \A t \in Titles : sessions'[t] = i => sessions[t] = i
           /\ inst[i].tree \in trees => inst[i].tree \in trees'
  PROVE  Quiet' /\ Owned' /\ ProcessHasTree'
<1>1. Quiet'
  BY DEF OwnInv, ProcInv, Quiet
<1>2. ASSUME NEW p \in Procs, procs'[p] # None, procs'[p] \notin overtaken'
      PROVE  procs'[p] \in Insts \ overtaken' /\ procs[p] = procs'[p] /\ procs[p] \notin overtaken
  BY <1>2, OwnTypes
<1>3. Owned'
  BY <1>2 DEF OwnInv, ProcInv, Owned
<1>4. ProcessHasTree'
  BY <1>2 DEF OwnInv, ProcInv, ProcessHasTree
<1> QED
  BY <1>1, <1>3, <1>4

\* A worktree stays ready for the spawn that is next.
LEMMA PreparedKept ==
  ASSUME OwnInv, overtaken \subseteq overtaken',
         \A c \in Callers : call'[c].pc = "spawn" /\ call'[c].inst \notin overtaken' =>
           /\ call[c].pc = "spawn" /\ call'[c].inst = call[c].inst
           /\ inst'[call[c].inst].tree = inst[call[c].inst].tree
           /\ inst[call[c].inst].tree \in trees => inst[call[c].inst].tree \in trees'
  PROVE  Prepared'
BY DEF OwnInv, ProcInv, Prepared

\* What Kill cleans up after stays quiet.
LEMMA CleanupKept ==
  ASSUME OwnInv, overtaken \subseteq overtaken',
         \A p \in Procs : procs'[p] = procs[p] \/ procs'[p] = None,
         \A c \in Callers : call'[c].pc = "cleanup" =>
           /\ call[c].pc = "cleanup" /\ call'[c].inst = call[c].inst
           /\ call[c].inst \in Insts
  PROVE  CleanupQuiet'
BY OwnTypes DEF OwnInv, ProcInv, CleanupQuiet

-----------------------------------------------------------------------------
(***************************************************************************)
(* The steps, one group at a time.                                         *)
(***************************************************************************)

\* A new instance replaces one that can run on; nothing refers to it yet.
LEMMA CreateOwns ==
  ASSUME OwnInv, Typed', NEW t \in Titles, NEW k \in Kinds, CreateSession(t, k)
  PROVE  MapInv' /\ TreeInv' /\ ProcInv'
<1>1. PICK i \in Insts :
        /\ inst[i].status = "unused"
        /\ inst' = [inst EXCEPT ![i] = [NoInstance EXCEPT !.status = "ready", !.kind = k]]
        /\ sessions' = [sessions EXCEPT ![t] = i]
  BY DEF CreateSession
<1>2. /\ inst'[i].status = "ready" /\ ~inst'[i].started /\ inst'[i].tree = None
      /\ \A j \in Insts \ {i} : inst'[j] = inst[j]
  BY <1>1, OwnTypes DEF NoInstance
<1>3. /\ sessions'[t] = i
      /\ \A u \in Titles \ {t} : sessions'[u] = sessions[u]
      /\ replaced' = replaced \cup ({sessions[t]} \ {None})
      /\ UNCHANGED <<up, procs, trees, call, overtaken>> /\ Save
  BY <1>1, OwnTypes DEF CreateSession
<1>4. /\ \A u \in Titles : sessions[u] # i
      /\ \A u \in Titles : disk[u] # None => disk[u].inst # i
      /\ \A c \in Callers : call[c].pc # "idle" => call[c].inst # i /\ call[c].inst \in Insts
  BY <1>1, OwnTypes, CallHasInst DEF TypeInv
<1>5. i \in overtaken \/ \A p \in Procs : procs[p] # i
  BY <1>1, OwnTypes DEF OwnInv, MapInv, StartedStatus, ProcInv, Owned
<1>6. MapInv'
  <2>1. StartsMapped'
    BY <1>3, <1>4, OwnTypes DEF OwnInv, MapInv, StartsMapped, StartPcs, TypeInv
  <2>2. KillsUnmapped'
    BY <1>3, <1>4 DEF OwnInv, MapInv, KillsUnmapped
  <2>3. i \notin replaced
    BY <1>1 DEF OwnInv, SideInv
  <2>4. ReplacedGone'
    BY <1>3, <1>4, <2>3, OwnTypes DEF OwnInv, MapInv, ReplacedGone, KillsUnmapped, RegistryInv, MapInjective
  <2>5. StartedStatus'
    BY <1>2 DEF OwnInv, MapInv, StartedStatus
  <2> QED
    BY <2>1, <2>2, <2>4, <2>5 DEF MapInv
<1>7. TreeInv'
  <2>1. \A u \in Titles : disk'[u] # None =>
          \/ disk'[u] = disk[u] /\ disk[u].inst \in Insts \ {i}
          \/ disk'[u].inst \in Insts /\ disk'[u].tree = inst'[disk'[u].inst].tree
    BY <1>3, <1>4, FileTrees, OwnTypes DEF Typed, RecordType
  <2>2. TreesApart'
    BY <1>2 DEF OwnInv, TreeInv, TreesApart
  <2>3. RecordsApart'
    BY <1>2, <2>1, <2>2 DEF TreesApart, RecordsApart, OwnInv, TreeInv
  <2>4. InPlaceBare'
    BY <1>2, <1>3, <1>4, <2>1 DEF OwnInv, TreeInv, InPlaceBare
  <2> QED
    BY <2>2, <2>3, <2>4 DEF TreeInv
<1>8. ASSUME NEW p \in Procs, NEW j \in Insts \ overtaken', procs[p] = j
      PROVE  j # i /\ Accounted(j)' /\ \A u \in Titles : sessions'[u] = j => sessions[u] = j
  <2>1. j # i
    BY <1>3, <1>5, <1>8
  <2>2. Accounted(j)
    BY <1>3, <1>8, OwnTypes DEF OwnInv, ProcInv, Owned
  <2>3. \A u \in Titles : sessions[u] = j => sessions'[u] = j \/ j \in replaced'
    BY <1>3, <1>8, OwnTypes
  <2>4. Accounted(j)'
    BY <1>3, <2>2, <2>3 DEF Accounted, Reachable
  <2> QED
    BY <1>3, <2>1, <2>4
<1>9. Quiet' /\ Owned' /\ ProcessHasTree'
  BY <1>2, <1>3, <1>8, ProcessesKept
<1>10. Prepared'
  BY <1>2, <1>3, <1>4, PreparedKept
<1>11. CleanupQuiet'
  BY <1>3, <1>4, CleanupKept
<1> QED
  BY <1>6, <1>7, <1>9, <1>10, <1>11 DEF ProcInv

\* A Start that begins.
LEMMA StartBeginOwns ==
  ASSUME OwnInv, Typed', NEW c \in Callers, NEW t \in Titles, StartBegin(c, t)
  PROVE  MapInv' /\ TreeInv' /\ ProcInv'
<1> DEFINE i == sessions[t]
<1>1. /\ i \in Insts /\ ~inst[i].started /\ call[c].pc = "idle"
      /\ overtaken \subseteq overtaken'
      /\ UNCHANGED <<up, sessions, disk, procs, trees, replaced>>
  BY OwnTypes DEF StartBegin
<1>2. /\ \A j \in Insts \ {i} : inst'[j] = inst[j]
      /\ inst'[i].started = inst[i].started /\ inst'[i].tree = inst[i].tree
      /\ inst'[i].kind = inst[i].kind
  BY <1>1, OwnTypes DEF StartBegin, InstType
<1>3. /\ \A d \in Callers \ {c} : call'[d] = call[d]
      /\ call'[c].inst = i /\ call'[c].title = t
      /\ call'[c].pc = IF inst[i].kind = "inplace" THEN "spawn" ELSE "construct"
  BY <1>1, OwnTypes DEF StartBegin
<1>4. \A d \in Callers : call[d].pc # "idle" => call[d].inst \in Insts
  BY OwnTypes, CallHasInst
<1>5. i \in overtaken \/ \A p \in Procs : procs[p] # i
  BY <1>1, OwnTypes DEF OwnInv, ProcInv, Owned
<1>6. MapInv'
  <2>1. StartsMapped'
    BY <1>1, <1>3, OwnTypes DEF OwnInv, MapInv, StartsMapped
  <2>2. KillsUnmapped' /\ ReplacedGone'
    BY <1>1, <1>3 DEF OwnInv, MapInv, KillsUnmapped, ReplacedGone
  <2>3. StartedStatus'
    BY <1>1, <1>2 DEF OwnInv, MapInv, StartedStatus
  <2> QED
    BY <2>1, <2>2, <2>3 DEF MapInv
<1>7. TreeInv'
  BY <1>1, <1>2, <1>3, <1>4, FileTrees, TreesKept
<1>8. ASSUME NEW p \in Procs, NEW j \in Insts \ overtaken', procs[p] = j
      PROVE  j # i /\ Accounted(j)'
  <2>1. j # i
    BY <1>1, <1>5, <1>8
  <2>2. Accounted(j)
    BY <1>1, <1>8, OwnTypes DEF OwnInv, ProcInv, Owned
  <2> QED
    BY <1>1, <1>3, <2>1, <2>2 DEF Accounted, Reachable
<1>9. Quiet' /\ Owned' /\ ProcessHasTree'
  BY <1>1, <1>2, <1>8, ProcessesKept
<1>10. Prepared'
  <2>1. inst'[i].kind = "inplace" => inst'[i].tree = None
    BY <1>1, <1>2 DEF OwnInv, TreeInv, InPlaceBare
  <2>2. ASSUME NEW d \in Callers, call'[d].pc = "spawn", call'[d].inst \notin overtaken',
               inst'[call'[d].inst].tree # None
        PROVE  inst'[call'[d].inst].tree \in trees'
    BY <1>1, <1>2, <1>3, <1>4, <2>1, <2>2 DEF OwnInv, ProcInv, Prepared
  <2> QED
    BY <2>2 DEF Prepared
<1>11. CleanupQuiet'
  BY <1>1, <1>3, <1>4, CleanupKept
<1> QED
  BY <1>6, <1>7, <1>9, <1>10, <1>11 DEF ProcInv

\* A Kill that begins: the session leaves the map for the call.
LEMMA KillBeginOwns ==
  ASSUME OwnInv, Typed', NEW c \in Callers, NEW t \in Titles, KillBegin(c, t)
  PROVE  MapInv' /\ TreeInv' /\ ProcInv'
<1> DEFINE i == sessions[t]
<1>1. /\ i \in Insts /\ call[c].pc = "idle"
      /\ overtaken \subseteq overtaken'
      /\ UNCHANGED <<up, inst, procs, trees, replaced>> /\ Save
  BY OwnTypes DEF KillBegin
<1>2. /\ sessions'[t] = None
      /\ \A u \in Titles \ {t} : sessions'[u] = sessions[u] /\ sessions[u] # i
  BY <1>1, OwnTypes DEF KillBegin, RegistryInv, MapInjective
<1>3. /\ \A d \in Callers \ {c} : call'[d] = call[d]
      /\ call'[c].inst = i /\ call'[c].pc = "process"
  BY <1>1, OwnTypes DEF KillBegin
<1>4. /\ \A d \in Callers : call[d].pc # "idle" => call[d].inst \in Insts
      /\ \A d \in Callers : call[d].pc \in StartPcs /\ call[d].inst = i => i \in overtaken'
  BY OwnTypes, CallHasInst DEF KillBegin, Starting
<1>5. MapInv'
  <2>1. StartsMapped'
    <3>1. ASSUME NEW d \in Callers, call'[d].pc \in StartPcs
          PROVE  sessions'[call'[d].title] = call'[d].inst \/ call'[d].inst \in overtaken' \cup replaced'
      <4>1. d # c /\ call'[d] = call[d] /\ call[d].title \in Titles
        BY <1>3, <3>1, OwnTypes DEF StartPcs, TypeInv
      <4> QED
        BY <1>1, <1>2, <1>4, <3>1, <4>1 DEF OwnInv, MapInv, StartsMapped
    <3> QED
      BY <3>1 DEF StartsMapped
  <2>2. KillsUnmapped'
    BY <1>1, <1>2, <1>3, <1>4, OwnTypes DEF OwnInv, MapInv, KillsUnmapped
  <2>3. StartedStatus'
    BY <1>1 DEF OwnInv, MapInv, StartedStatus
  <2>4. ReplacedGone'
    BY <1>1, <1>2, <1>3, OwnTypes DEF OwnInv, MapInv, ReplacedGone
  <2> QED
    BY <2>1, <2>2, <2>3, <2>4 DEF MapInv
<1>6. TreeInv'
  BY <1>1, <1>3, <1>4, FileTrees, TreesKept
<1>7. ASSUME NEW p \in Procs, NEW j \in Insts \ overtaken', procs[p] = j
      PROVE  Accounted(j)' /\ \A u \in Titles : sessions'[u] = j => sessions[u] = j
  <2>1. Accounted(j)
    BY <1>1, <1>7, OwnTypes DEF OwnInv, ProcInv, Owned
  <2>2. CASE j = i
    BY <1>2, <1>3, <2>2, OwnTypes DEF Accounted, Reachable
  <2>3. CASE j # i
    BY <1>1, <1>2, <1>3, <2>1, <2>3, OwnTypes DEF Accounted, Reachable
  <2> QED
    BY <2>2, <2>3, <1>2, OwnTypes
<1>8. Quiet' /\ Owned' /\ ProcessHasTree'
  BY <1>1, <1>7, ProcessesKept
<1>9. Prepared'
  BY <1>1, <1>3, PreparedKept
<1>10. CleanupQuiet'
  BY <1>1, <1>3, <1>4, CleanupKept
<1> QED
  BY <1>5, <1>6, <1>8, <1>9, <1>10 DEF ProcInv

\* Where a step leaves the call that makes it.
LEMMA CallAfter ==
  ASSUME OwnInv, NEW c \in Callers, NEW pc, call[c].pc # "idle",
         Goto(c, pc) \/ (pc = "idle" /\ Return(c))
  PROVE  /\ \A d \in Callers \ {c} : call'[d] = call[d]
         /\ call'[c].pc = pc
         /\ pc # "idle" => call'[c].inst = call[c].inst /\ call'[c].title = call[c].title
         /\ call[c].inst \in Insts /\ call[c].title \in Titles
         /\ \A d \in Callers : call[d].pc # "idle" => call[d].inst \in Insts
BY OwnTypes, CallHasInst DEF Goto, Return, NoCall, CallType, TypeInv

\* A step of a call that leaves the map alone, and neither starts nor kills
\* what did not start or was not killed before.
LEMMA MapKept ==
  ASSUME OwnInv, UNCHANGED <<sessions, replaced>>, overtaken \subseteq overtaken',
         \A c \in Callers : call'[c].pc \in StartPcs =>
           call[c].pc \in StartPcs /\ call'[c].inst = call[c].inst /\ call'[c].title = call[c].title,
         \A c \in Callers : call'[c].pc \in {"process", "cleanup"} =>
           call[c].pc \in {"process", "cleanup"} /\ call'[c].inst = call[c].inst,
         \A i \in Insts : inst'[i].started => inst'[i].status \in {"running", "paused"}
  PROVE  MapInv'
<1>1. StartsMapped'
  BY DEF OwnInv, MapInv, StartsMapped
<1>2. KillsUnmapped'
  BY DEF OwnInv, MapInv, KillsUnmapped
<1>3. ReplacedGone'
  BY DEF OwnInv, MapInv, ReplacedGone
<1> QED
  BY <1>1, <1>2, <1>3 DEF MapInv, StartedStatus

\* Start makes a worktree object for what does not run, with a path nobody has.
LEMMA ConstructOwns ==
  ASSUME OwnInv, NEW c \in Callers, StartConstruct(c)
  PROVE  MapInv' /\ TreeInv' /\ ProcInv'
<1> DEFINE i == call[c].inst
<1>1. /\ call[c].pc = "construct"
      /\ UNCHANGED <<up, sessions, disk, procs, trees, overtaken, replaced>>
  BY DEF StartConstruct
<1>2. PICK pc \in {"setup", "failed"} : Goto(c, pc) /\ (pc = "failed" => UNCHANGED inst)
  BY DEF StartConstruct
<1>3. /\ \A d \in Callers \ {c} : call'[d] = call[d]
      /\ call'[c].pc = pc /\ call'[c].inst = i /\ call'[c].title = call[c].title
      /\ i \in Insts
      /\ \A d \in Callers : call[d].pc # "idle" => call[d].inst \in Insts
  BY <1>1, <1>2, CallAfter
<1>4. /\ \A j \in Insts \ {i} : inst'[j] = inst[j]
      /\ inst'[i].started = inst[i].started /\ inst'[i].status = inst[i].status
      /\ inst'[i].proc = inst[i].proc /\ inst'[i].kind = inst[i].kind
      /\ inst'[i].tree = inst[i].tree \/ inst'[i].tree \in FreshTrees
  <2>1. CASE UNCHANGED inst
    BY <2>1
  <2>2. CASE \E T \in FreshTrees, ref \in BOOLEAN : inst' = [inst EXCEPT ![i].tree = T, ![i].baseRef = ref]
    <3>1. PICK T \in FreshTrees, ref \in BOOLEAN : inst' = [inst EXCEPT ![i].tree = T, ![i].baseRef = ref]
      BY <2>2
    <3>2. inst'[i] = [inst[i] EXCEPT !.tree = T, !.baseRef = ref]
      BY <1>3, <3>1, OwnTypes
    <3> QED
      BY <1>3, <3>1, <3>2, OwnTypes DEF InstType
  <2> QED
    BY <2>1, <2>2 DEF StartConstruct
<1>5. i \notin overtaken => \A p \in Procs : procs[p] # i
  BY <1>1, StartingQuiet DEF StartPcs
<1>6. MapInv'
  BY <1>1, <1>2, <1>3, <1>4, MapKept DEF StartPcs, OwnInv, MapInv, StartedStatus
<1>7. TreeInv'
  <2>1. inst[i].kind # "inplace"
    BY <1>1 DEF OwnInv, TreeInv, InPlaceBare
  <2>2. TreesApart'
    BY <1>3, <1>4 DEF OwnInv, TreeInv, TreesApart, FreshTrees
  <2>3. RecordsApart'
    BY <1>1, <1>3, <1>4 DEF OwnInv, TreeInv, RecordsApart, FreshTrees
  <2>4. InPlaceBare'
    <3>1. \A t \in Titles : disk[t] # None => disk[t].inst \in Insts
      BY OwnTypes DEF Typed, RecordType
    <3> QED
      BY <1>1, <1>2, <1>3, <1>4, <2>1, <3>1 DEF OwnInv, TreeInv, InPlaceBare
  <2> QED
    BY <2>2, <2>3, <2>4 DEF TreeInv
<1>8. Quiet' /\ Owned' /\ ProcessHasTree'
  <2>1. ASSUME NEW p \in Procs, NEW j \in Insts \ overtaken', procs'[p] = j
        PROVE  j # i /\ Accounted(j)'
    <3>1. j # i /\ Accounted(j)
      BY <1>1, <1>5, <2>1, OwnTypes DEF OwnInv, ProcInv, Owned
    <3> QED
      BY <1>1, <1>3, <3>1 DEF Accounted, Reachable
  <2> QED
    BY <1>1, <1>4, <2>1, ProcessesKept
<1>9. Prepared'
  <2>1. \A d \in Callers \ {c} : call[d].pc = "spawn" /\ call[d].inst = i => i \in overtaken
    BY <1>1 DEF OwnInv, DiskInv, CallsAgree, StartPcs
  <2> QED
    BY <1>1, <1>2, <1>3, <1>4, <2>1, PreparedKept
<1>10. CleanupQuiet'
  BY <1>1, <1>2, <1>3, CleanupKept
<1> QED
  BY <1>6, <1>7, <1>8, <1>9, <1>10 DEF ProcInv

\* Setup concerns the worktree of an instance that does not run.
LEMMA SetupOwns ==
  ASSUME OwnInv, Typed', NEW c \in Callers, StartSetup(c)
  PROVE  MapInv' /\ TreeInv' /\ ProcInv'
<1> DEFINE i == call[c].inst
<1>1. /\ call[c].pc = "setup"
      /\ UNCHANGED <<up, sessions, disk, inst, procs, overtaken, replaced>>
      /\ trees \ {inst[i].tree} \subseteq trees'
  BY DEF StartSetup
<1>2. PICK pc \in {"spawn", "failed"} : Goto(c, pc) /\ (pc = "spawn" => inst[i].tree \in trees')
  BY DEF StartSetup
<1>3. /\ \A d \in Callers \ {c} : call'[d] = call[d]
      /\ call'[c].pc = pc /\ call'[c].inst = i /\ call'[c].title = call[c].title
      /\ i \in Insts
      /\ \A d \in Callers : call[d].pc # "idle" => call[d].inst \in Insts
  BY <1>1, <1>2, CallAfter
<1>4. i \notin overtaken => \A p \in Procs : procs[p] # i
  BY <1>1, StartingQuiet DEF StartPcs
<1>5. MapInv'
  BY <1>1, <1>2, <1>3, MapKept DEF StartPcs, OwnInv, MapInv, StartedStatus
<1>6. TreeInv'
  BY <1>1, <1>2, <1>3, FileTrees, TreesKept
<1>7. Quiet' /\ Owned' /\ ProcessHasTree'
  <2>1. ASSUME NEW p \in Procs, NEW j \in Insts \ overtaken', procs'[p] = j
        PROVE  /\ Accounted(j)'
               /\ inst[j].tree \in trees => inst[j].tree \in trees'
    <3>1. j # i /\ Accounted(j)
      BY <1>1, <1>4, <2>1, OwnTypes DEF OwnInv, ProcInv, Owned
    <3>2. Accounted(j)'
      BY <1>1, <1>3, <3>1 DEF Accounted, Reachable
    <3> QED
      BY <1>1, <1>3, <3>1, <3>2, OthersTree
  <2> QED
    BY <1>1, <2>1, ProcessesKept
<1>8. Prepared'
  <2>1. ASSUME NEW d \in Callers \ {c}, call[d].pc = "spawn", call[d].inst \notin overtaken,
               inst[call[d].inst].tree \in trees
        PROVE  inst[call[d].inst].tree \in trees'
    <3>1. call[d].inst # i
      BY <1>1, <2>1 DEF OwnInv, DiskInv, CallsAgree, StartPcs
    <3> QED
      BY <1>1, <1>3, <2>1, <3>1, OthersTree
  <2>2. ASSUME NEW d \in Callers, call'[d].pc = "spawn", call'[d].inst \notin overtaken',
               inst'[call'[d].inst].tree # None
        PROVE  inst'[call'[d].inst].tree \in trees'
    BY <1>1, <1>2, <1>3, <2>1, <2>2 DEF OwnInv, ProcInv, Prepared
  <2> QED
    BY <2>2 DEF Prepared
<1>9. CleanupQuiet'
  BY <1>1, <1>2, <1>3, CleanupKept
<1> QED
  BY <1>5, <1>6, <1>7, <1>8, <1>9 DEF ProcInv

\* A process is spawned for an instance of the map that has none, in a
\* worktree that is there.
LEMMA SpawnedOwns ==
  ASSUME OwnInv, NEW i \in Insts, NEW r \in InstType,
         NEW P \in [Procs -> Insts \cup {None}], Spawned(i, r, P), r.tree = inst[i].tree,
         up, UNCHANGED <<up, sessions, overtaken, replaced>>,
         \A p \in Procs : P[p] = procs[p] \/ P[p] = None,
         i \notin overtaken => /\ \A p \in Procs : P[p] # i
                               /\ i \in replaced \/ \E t \in Titles : sessions[t] = i
                               /\ r.tree # None => r.tree \in trees',
         trees \subseteq trees',
         \A c \in Callers : call[c].pc = "process" => call'[c] = call[c]
  PROVE  /\ Quiet' /\ Owned' /\ ProcessHasTree'
         /\ \A j \in Insts \ {i} : inst'[j] = inst[j]
         /\ inst'[i].started /\ inst'[i].status = "running"
         /\ inst'[i].tree = inst[i].tree /\ inst'[i].kind = r.kind
         /\ \A p \in Procs : procs'[p] = procs[p] \/ procs'[p] = None \/ procs'[p] = i
<1>1. PICK q \in FreshProcs :
        /\ inst' = [inst EXCEPT ![i] = [r EXCEPT !.status = "running", !.started = TRUE, !.proc = q]]
        /\ procs' = [P EXCEPT ![q] = i]
  BY DEF Spawned, Runs
<1>2. /\ inst'[i] = [r EXCEPT !.status = "running", !.started = TRUE, !.proc = q]
      /\ \A j \in Insts \ {i} : inst'[j] = inst[j]
  BY <1>1, OwnTypes
<1>3. /\ inst'[i].started /\ inst'[i].status = "running" /\ inst'[i].proc = q
      /\ inst'[i].tree = inst[i].tree /\ inst'[i].kind = r.kind
  BY <1>2 DEF InstType
<1>4. q \in Procs /\ procs'[q] = i /\ \A p \in Procs \ {q} : procs'[p] = P[p]
  BY <1>1, OwnTypes DEF FreshProcs
<1>5. ASSUME NEW p \in Procs, procs'[p] # None, procs'[p] \notin overtaken
      PROVE  /\ procs'[p] \in Insts
             /\ p = q \/ (p # q /\ procs'[p] = procs[p] /\ procs'[p] # i)
             /\ Accounted(procs[p])'
  <2>1. procs'[p] \in Insts /\ (p = q \/ (p # q /\ procs'[p] = procs[p] /\ procs'[p] # i))
    BY <1>4, <1>5, OwnTypes
  <2>2. CASE p = q
    BY <1>4, <1>5, <2>2 DEF Accounted, Reachable
  <2>3. CASE p # q
    <3>1. Accounted(procs[p])
      BY <1>5, <2>1, <2>3 DEF OwnInv, ProcInv, Owned
    <3> QED
      BY <2>1, <2>3, <3>1 DEF Accounted, Reachable
  <2> QED
    BY <2>1, <2>2, <2>3
<1>6. Owned'
  <2>1. ASSUME NEW p \in Procs, procs'[p] # None, procs'[p] \notin overtaken'
        PROVE  /\ inst'[procs'[p]].proc = p /\ inst'[procs'[p]].started
               /\ inst'[procs'[p]].status = "paused" => \A t \in Titles : sessions'[t] # procs'[p]
    <3>1. CASE p = q
      BY <1>3, <1>4, <3>1
    <3>2. CASE p # q
      <4>1. inst'[procs[p]] = inst[procs[p]] /\ procs'[p] = procs[p]
        BY <1>2, <1>5, <2>1, <3>2
      <4> QED
        BY <2>1, <4>1 DEF OwnInv, ProcInv, Owned
    <3> QED
      BY <3>1, <3>2
  <2> QED
    BY <1>5, <2>1 DEF Owned
<1>7. ProcessHasTree'
  <2>1. ASSUME NEW p \in Procs, procs'[p] # None, inst'[procs'[p]].tree # None, procs'[p] \notin overtaken
        PROVE  inst'[procs'[p]].tree \in trees'
    <3>1. CASE p = q
      BY <1>3, <1>4, <2>1, <3>1
    <3>2. CASE p # q
      <4>1. inst'[procs[p]] = inst[procs[p]] /\ procs'[p] = procs[p]
        BY <1>2, <1>5, <2>1, <3>2
      <4> QED
        BY <2>1, <4>1 DEF OwnInv, ProcInv, ProcessHasTree
    <3> QED
      BY <3>1, <3>2
  <2> QED
    BY <2>1 DEF ProcessHasTree
<1> QED
  BY <1>2, <1>3, <1>4, <1>6, <1>7 DEF Quiet

\* A process that is spawned in a manager its instance no longer has is not
\* one the instance runs.
LEMMA SpawnedAstrayOwns ==
  ASSUME OwnInv, NEW i \in Insts, inst[i] \in InstType, SpawnedAstray(i, inst[i]),
         UNCHANGED <<up, sessions, overtaken, replaced, trees>>,
         i \notin overtaken => \A p \in Procs : procs[p] # i,
         \A c \in Callers : call[c].pc = "process" => call'[c] = call[c]
  PROVE  /\ Quiet' /\ Owned' /\ ProcessHasTree'
         /\ \A j \in Insts \ {i} : inst'[j] = inst[j]
         /\ inst'[i].started /\ inst'[i].status = "running"
         /\ inst'[i].tree = inst[i].tree /\ inst'[i].kind = inst[i].kind
         /\ \A p \in Procs : procs'[p] = procs[p]
<1>1. PICK q \in FreshProcs :
        inst' = [inst EXCEPT ![i] = [inst[i] EXCEPT !.status = "running", !.started = TRUE, !.proc = q]]
  BY DEF SpawnedAstray, Runs
<1>2. /\ inst'[i] = [inst[i] EXCEPT !.status = "running", !.started = TRUE, !.proc = q]
      /\ \A j \in Insts \ {i} : inst'[j] = inst[j]
  BY <1>1, OwnTypes
<1>3. /\ inst'[i].started /\ inst'[i].status = "running" /\ inst'[i].tree = inst[i].tree
      /\ inst'[i].kind = inst[i].kind
  BY <1>2 DEF InstType
<1>4. UNCHANGED procs
  BY DEF SpawnedAstray
<1>5. ASSUME NEW p \in Procs, NEW j \in Insts \ overtaken', procs'[p] = j
      PROVE  j # i /\ Accounted(j)'
  <2>1. j # i /\ Accounted(j)
    BY <1>4, <1>5, OwnTypes DEF OwnInv, ProcInv, Owned
  <2> QED
    BY <2>1 DEF Accounted, Reachable
<1>6. Quiet' /\ Owned' /\ ProcessHasTree'
  BY <1>2, <1>3, <1>4, <1>5, ProcessesKept
<1> QED
  BY <1>2, <1>3, <1>4, <1>6

\* The spawn of Start, and the cleanup when it fails.
LEMMA SpawnOwns ==
  ASSUME OwnInv, Typed', NEW c \in Callers, StartSpawn(c)
  PROVE  MapInv' /\ TreeInv' /\ ProcInv'
<1> DEFINE i == call[c].inst
<1>1. /\ call[c].pc = "spawn"
      /\ UNCHANGED <<up, sessions, disk, overtaken, replaced>>
  BY DEF StartSpawn
<1>2. i \notin overtaken =>
        /\ ~inst[i].started
        /\ \A p \in Procs : procs[p] # i
        /\ sessions[call[c].title] = i \/ i \in replaced
        /\ inst[i].tree # None => inst[i].tree \in trees
  BY <1>1, StartingQuiet DEF StartPcs, OwnInv, ProcInv, Prepared
<1>3. up
  BY <1>1, OwnTypes DEF TypeInv
<1>4. CASE /\ Spawned(i, inst[i], procs) \/ SpawnedAstray(i, inst[i])
           /\ Goto(c, "publish") /\ UNCHANGED <<trees, commits>>
  <2>1. /\ \A d \in Callers \ {c} : call'[d] = call[d]
        /\ call'[c].pc = "publish" /\ call'[c].inst = i
        /\ i \in Insts /\ inst[i] \in InstType /\ call[c].title \in Titles
        /\ \A d \in Callers : call[d].pc # "idle" => call[d].inst \in Insts
    BY <1>1, <1>4, CallAfter, OwnTypes
  <2>2. /\ Quiet' /\ Owned' /\ ProcessHasTree'
        /\ \A j \in Insts \ {i} : inst'[j] = inst[j]
        /\ inst'[i].started /\ inst'[i].status = "running"
        /\ inst'[i].tree = inst[i].tree /\ inst'[i].kind = inst[i].kind
        /\ \A p \in Procs : procs'[p] = procs[p] \/ procs'[p] = None \/ procs'[p] = i
    <3>1. CASE Spawned(i, inst[i], procs)
      BY <1>1, <1>2, <1>3, <1>4, <2>1, <3>1, SpawnedOwns, OwnTypes
    <3>2. CASE SpawnedAstray(i, inst[i])
      BY <1>1, <1>2, <1>3, <1>4, <2>1, <3>2, SpawnedAstrayOwns
    <3> QED
      BY <1>4, <3>1, <3>2
  <2>3. MapInv'
    BY <1>1, <2>1, <2>2, MapKept DEF StartPcs, OwnInv, MapInv, StartedStatus
  <2>4. TreeInv'
    BY <1>1, <2>1, <2>2, FileTrees, TreesKept
  <2>5. Prepared'
    BY <1>1, <1>4, <2>1, <2>2, PreparedKept
  <2>6. CleanupQuiet'
    <3>1. ASSUME NEW d \in Callers, call'[d].pc = "cleanup", call'[d].inst \notin overtaken'
          PROVE  /\ call'[d].inst \in Insts \ {i}
                 /\ \A p \in Procs : procs[p] # call'[d].inst
      BY <1>1, <1>2, <2>1, <3>1 DEF OwnInv, MapInv, KillsUnmapped, ReplacedGone, ProcInv, CleanupQuiet
    <3> QED
      BY <2>2, <3>1, OwnTypes DEF CleanupQuiet
  <2> QED
    BY <2>2, <2>3, <2>4, <2>5, <2>6 DEF ProcInv
<1>5. CASE Cleanup(inst[i].tree) /\ Goto(c, "failed") /\ UNCHANGED <<inst, procs>>
  <2>1. /\ \A d \in Callers \ {c} : call'[d] = call[d]
        /\ call'[c].pc = "failed" /\ call'[c].inst = i /\ call'[c].title = call[c].title
        /\ i \in Insts
        /\ \A d \in Callers : call[d].pc # "idle" => call[d].inst \in Insts
    BY <1>1, <1>5, CallAfter
  <2>2. trees \ {inst[i].tree} \subseteq trees'
    BY <1>5 DEF Cleanup, CleanupFrom
  <2>3. MapInv'
    BY <1>1, <1>5, <2>1, MapKept DEF StartPcs, OwnInv, MapInv, StartedStatus
  <2>4. TreeInv'
    BY <1>1, <1>5, <2>1, FileTrees, TreesKept
  <2>5. Quiet' /\ Owned' /\ ProcessHasTree'
    <3>1. ASSUME NEW p \in Procs, NEW j \in Insts \ overtaken', procs'[p] = j
          PROVE  /\ Accounted(j)'
                 /\ inst[j].tree \in trees => inst[j].tree \in trees'
      <4>1. j # i /\ Accounted(j)
        BY <1>1, <1>2, <1>5, <3>1, OwnTypes DEF OwnInv, ProcInv, Owned
      <4>2. Accounted(j)'
        BY <1>1, <2>1, <4>1 DEF Accounted, Reachable
      <4> QED
        BY <2>1, <2>2, <3>1, <4>1, <4>2, OthersTree
    <3> QED
      BY <1>1, <1>5, <3>1, ProcessesKept
  <2>6. Prepared'
    <3>1. ASSUME NEW d \in Callers \ {c}, call[d].pc = "spawn", call[d].inst \notin overtaken,
                 inst[call[d].inst].tree \in trees
          PROVE  inst[call[d].inst].tree \in trees'
      <4>1. call[d].inst # i
        BY <1>1, <3>1 DEF OwnInv, DiskInv, CallsAgree, StartPcs
      <4> QED
        BY <2>1, <2>2, <3>1, <4>1, OthersTree
    <3> QED
      BY <1>1, <1>5, <2>1, <3>1, PreparedKept
  <2>7. CleanupQuiet'
    BY <1>1, <1>5, <2>1, CleanupKept
  <2> QED
    BY <2>3, <2>4, <2>5, <2>6, <2>7 DEF ProcInv
<1> QED
  BY <1>4, <1>5 DEF StartSpawn

\* Killing a process frees no other, and none of the instance's own is left.
LEMMA ProcessKilled ==
  ASSUME OwnInv, NEW i \in Insts, procs' = WithoutProcessOf(i)
  PROVE  /\ \A p \in Procs : procs'[p] = procs[p] \/ procs'[p] = None
         /\ i \notin overtaken => \A p \in Procs : procs'[p] # i
BY OwnTypes DEF WithoutProcessOf, OwnInv, ProcInv, Owned

\* The error path of StartSession takes the map entry of its title, whose
\* session is replaced by nothing unless it is its own.
LEMMA FailedOwns ==
  ASSUME OwnInv, Typed', NEW c \in Callers, StartFailed(c)
  PROVE  MapInv' /\ TreeInv' /\ ProcInv'
<1> DEFINE i == call[c].inst
           t == call[c].title
<1>1. call[c].pc = "failed" /\ UNCHANGED <<up, overtaken>> /\ Save /\ replaced \subseteq replaced'
  BY DEF StartFailed
<1>2. /\ \A d \in Callers \ {c} : call'[d] = call[d]
      /\ call'[c].pc = "idle"
      /\ i \in Insts /\ t \in Titles
      /\ \A d \in Callers : call[d].pc # "idle" => call[d].inst \in Insts
  BY <1>1, CallAfter DEF StartFailed
<1>3. /\ sessions'[t] = None
      /\ \A u \in Titles \ {t} : sessions'[u] = sessions[u]
      /\ replaced' = replaced \cup ({sessions[t]} \ {i, None})
  BY <1>2, OwnTypes DEF StartFailed
<1>4. /\ i \notin overtaken => ~inst[i].started /\ \A p \in Procs : procs[p] # i
      /\ \A d \in Callers \ {c} : call[d].pc \in StartPcs /\ call[d].inst = i => i \in overtaken
  BY <1>1, StartingQuiet DEF StartPcs, OwnInv, DiskInv, CallsAgree
<1>5. /\ \A p \in Procs : procs'[p] = procs[p] \/ procs'[p] = None
      /\ \A j \in Insts \ {i} : inst'[j] = inst[j]
      /\ inst'[i].started = inst[i].started /\ inst'[i].status = inst[i].status
      /\ inst'[i].tree = inst[i].tree /\ inst'[i].kind = inst[i].kind
      /\ trees \ {inst[i].tree} \subseteq trees'
  <2>1. CASE inst[i].started
    <3>1. /\ procs' = WithoutProcessOf(i) /\ inst' = [inst EXCEPT ![i].proc = None]
          /\ Cleanup(inst[i].tree)
      BY <2>1 DEF StartFailed
    <3>2. inst'[i] = [inst[i] EXCEPT !.proc = None] /\ \A j \in Insts \ {i} : inst'[j] = inst[j]
      BY <1>2, <3>1, OwnTypes
    <3> QED
      BY <1>2, <3>1, <3>2, ProcessKilled, OwnTypes DEF InstType, Cleanup, CleanupFrom
  <2>2. CASE ~inst[i].started
    BY <2>2 DEF StartFailed
  <2> QED
    BY <2>1, <2>2
<1>6. MapInv'
  <2>1. StartsMapped'
    <3>1. ASSUME NEW d \in Callers, call'[d].pc \in StartPcs
          PROVE  sessions'[call'[d].title] = call'[d].inst \/ call'[d].inst \in overtaken' \cup replaced'
      <4>1. d # c /\ call'[d] = call[d] /\ call[d].title \in Titles
        BY <1>2, <3>1, OwnTypes DEF StartPcs, TypeInv
      <4>2. call[d].inst \in Insts
        BY <1>2, <3>1, <4>1 DEF StartPcs
      <4> QED
        BY <1>1, <1>3, <1>4, <3>1, <4>1, <4>2, OwnTypes DEF OwnInv, MapInv, StartsMapped
    <3> QED
      BY <3>1 DEF StartsMapped
  <2>2. KillsUnmapped'
    <3>1. ASSUME NEW d \in Callers, call'[d].pc \in {"process", "cleanup"}, NEW u \in Titles
          PROVE  sessions'[u] # call'[d].inst
      <4>1. call'[d] = call[d] /\ call[d].inst \in Insts
        BY <1>2, <3>1
      <4> QED
        BY <1>3, <3>1, <4>1, OwnTypes DEF OwnInv, MapInv, KillsUnmapped
    <3> QED
      BY <3>1 DEF KillsUnmapped
  <2>3. StartedStatus'
    BY <1>2, <1>5 DEF OwnInv, MapInv, StartedStatus
  <2>4. ReplacedGone'
    <3>1. ASSUME NEW u \in Titles, sessions'[u] # None
          PROVE  sessions'[u] \notin replaced'
      <4>1. u # t /\ sessions'[u] = sessions[u] /\ sessions[u] \notin replaced
        BY <1>3, <3>1 DEF OwnInv, MapInv, ReplacedGone
      <4> QED
        BY <1>2, <1>3, <3>1, <4>1, OwnTypes DEF RegistryInv, MapInjective
    <3>2. ASSUME NEW d \in Callers, call'[d].pc \in {"process", "cleanup"}
          PROVE  call'[d].inst \notin replaced'
      <4>1. call'[d] = call[d] /\ call[d].inst \in Insts
        BY <1>2, <3>2
      <4> QED
        BY <1>2, <1>3, <3>2, <4>1 DEF OwnInv, MapInv, ReplacedGone, KillsUnmapped
    <3> QED
      BY <3>1, <3>2 DEF ReplacedGone
  <2> QED
    BY <2>1, <2>2, <2>3, <2>4 DEF MapInv
<1>7. TreeInv'
  BY <1>1, <1>2, <1>5, FileTrees, TreesKept
<1>8. Quiet' /\ Owned' /\ ProcessHasTree'
  <2>1. ASSUME NEW p \in Procs, NEW j \in Insts \ overtaken', procs'[p] = j
        PROVE  /\ j # i /\ Accounted(j)'
               /\ inst[j].tree \in trees => inst[j].tree \in trees'
               /\ \A u \in Titles : sessions'[u] = j => sessions[u] = j
    <3>1. j # i /\ procs[p] = j
      BY <1>1, <1>4, <1>5, <2>1, OwnTypes
    <3>2. Accounted(j)
      BY <1>1, <2>1, <3>1, OwnTypes DEF OwnInv, ProcInv, Owned
    <3>3. \A u \in Titles : /\ sessions'[u] = j => sessions[u] = j
                            /\ sessions[u] = j => sessions'[u] = j \/ j \in replaced'
      BY <1>2, <1>3, <2>1, <3>1, OwnTypes
    <3>4. Accounted(j)'
      BY <1>1, <1>2, <3>2, <3>3 DEF Accounted, Reachable
    <3> QED
      BY <1>2, <1>5, <3>1, <3>3, <3>4, OthersTree
  <2> QED
    BY <1>1, <1>5, <2>1, ProcessesKept
<1>9. Prepared'
  <2>1. ASSUME NEW d \in Callers \ {c}, call[d].pc = "spawn", call[d].inst \notin overtaken,
               inst[call[d].inst].tree \in trees
        PROVE  inst[call[d].inst].tree \in trees'
    <3>1. call[d].inst # i
      BY <1>4, <2>1 DEF StartPcs
    <3> QED
      BY <1>2, <1>5, <2>1, <3>1, OthersTree
  <2> QED
    BY <1>1, <1>2, <1>5, <2>1, PreparedKept
<1>10. CleanupQuiet'
  BY <1>1, <1>2, <1>5, CleanupKept
<1> QED
  BY <1>6, <1>7, <1>8, <1>9, <1>10 DEF ProcInv

\* A Start that is done.
LEMMA PublishOwns ==
  ASSUME OwnInv, Typed', NEW c \in Callers, StartPublish(c) \/ StartIndex(c)
  PROVE  MapInv' /\ TreeInv' /\ ProcInv'
<1>1. /\ call[c].pc \in {"publish", "index"}
      /\ UNCHANGED <<up, sessions, inst, procs, trees, overtaken, replaced>>
      /\ Save \/ UNCHANGED disk
  BY DEF StartPublish, StartIndex
<1>2. PICK pc \in {"idle", "index"} : Goto(c, pc) \/ (pc = "idle" /\ Return(c))
  BY DEF StartPublish, StartIndex
<1>3. /\ \A d \in Callers \ {c} : call'[d] = call[d]
      /\ call'[c].pc = pc
      /\ \A d \in Callers : call[d].pc # "idle" => call[d].inst \in Insts
  BY <1>1, <1>2, CallAfter
<1>4. MapInv'
  BY <1>1, <1>3, MapKept DEF StartPcs, OwnInv, MapInv, StartedStatus
<1>5. TreeInv'
  BY <1>1, <1>3, FileTrees, TreesKept
<1>6. Quiet' /\ Owned' /\ ProcessHasTree'
  <2>1. ASSUME NEW p \in Procs, NEW j \in Insts \ overtaken', procs'[p] = j
        PROVE  Accounted(j)'
    <3>1. Accounted(j)
      BY <1>1, <2>1, OwnTypes DEF OwnInv, ProcInv, Owned
    <3> QED
      BY <1>1, <1>3, <3>1 DEF Accounted, Reachable
  <2> QED
    BY <1>1, <2>1, ProcessesKept
<1>7. Prepared'
  BY <1>1, <1>3, PreparedKept
<1>8. CleanupQuiet'
  BY <1>1, <1>3, CleanupKept
<1> QED
  BY <1>4, <1>5, <1>6, <1>7, <1>8 DEF ProcInv

\* Kill kills the process of an instance that is in no map, before it cleans
\* up after it.
LEMMA KillOwns ==
  ASSUME OwnInv, Typed', NEW c \in Callers, KillProcess(c)
  PROVE  MapInv' /\ TreeInv' /\ ProcInv'
<1> DEFINE i == call[c].inst
<1>1. call[c].pc = "process" /\ UNCHANGED <<up, sessions, disk, trees, overtaken, replaced>>
  BY DEF KillProcess
<1>2. PICK pc \in {"idle", "cleanup"} : Goto(c, pc) \/ (pc = "idle" /\ Return(c))
  BY DEF KillProcess
<1>3. /\ \A d \in Callers \ {c} : call'[d] = call[d]
      /\ call'[c].pc = pc /\ (pc = "cleanup" => call'[c].inst = i)
      /\ i \in Insts
      /\ \A d \in Callers : call[d].pc # "idle" => call[d].inst \in Insts
  BY <1>1, <1>2, CallAfter
<1>4. /\ \A p \in Procs : procs'[p] = procs[p] \/ procs'[p] = None
      /\ i \notin overtaken => \A p \in Procs : procs'[p] # i
      /\ \A j \in Insts \ {i} : inst'[j] = inst[j]
      /\ inst'[i].started = inst[i].started /\ inst'[i].status = inst[i].status
      /\ inst'[i].tree = inst[i].tree /\ inst'[i].kind = inst[i].kind
  <2>1. CASE inst[i].started
    <3>1. procs' = WithoutProcessOf(i) /\ inst' = [inst EXCEPT ![i].proc = None]
      BY <2>1 DEF KillProcess
    <3>2. inst'[i] = [inst[i] EXCEPT !.proc = None] /\ \A j \in Insts \ {i} : inst'[j] = inst[j]
      BY <1>3, <3>1, OwnTypes
    <3> QED
      BY <1>3, <3>1, <3>2, ProcessKilled, OwnTypes DEF InstType
  <2>2. CASE ~inst[i].started
    <3>1. i \notin overtaken => \A p \in Procs : procs[p] # i
      BY <1>3, <2>2, OwnTypes DEF OwnInv, ProcInv, Owned
    <3> QED
      BY <2>2, <3>1 DEF KillProcess
  <2> QED
    BY <2>1, <2>2
<1>5. MapInv'
  <2>1. \A j \in Insts : inst'[j].started => inst'[j].status \in {"running", "paused"}
    BY <1>3, <1>4 DEF OwnInv, MapInv, StartedStatus
  <2> QED
    BY <1>1, <1>2, <1>3, <2>1, MapKept DEF StartPcs
<1>6. TreeInv'
  BY <1>1, <1>2, <1>3, <1>4, FileTrees, TreesKept
<1>7. Quiet' /\ Owned' /\ ProcessHasTree'
  <2>1. ASSUME NEW p \in Procs, NEW j \in Insts \ overtaken', procs'[p] = j
        PROVE  j # i /\ Accounted(j)'
    <3>1. j # i /\ procs[p] = j
      BY <1>1, <1>4, <2>1, OwnTypes
    <3>2. Accounted(j)
      BY <1>1, <2>1, <3>1, OwnTypes DEF OwnInv, ProcInv, Owned
    <3> QED
      BY <1>1, <1>3, <3>1, <3>2 DEF Accounted, Reachable
  <2> QED
    BY <1>1, <1>4, <2>1, ProcessesKept
<1>8. Prepared'
  BY <1>1, <1>2, <1>3, <1>4, PreparedKept
<1>9. CleanupQuiet'
  <2>1. ASSUME NEW d \in Callers, call'[d].pc = "cleanup", call'[d].inst \notin overtaken', NEW p \in Procs
        PROVE  procs'[p] # call'[d].inst
    <3>1. CASE d = c
      BY <1>1, <1>3, <1>4, <2>1, <3>1
    <3>2. CASE d # c
      BY <1>1, <1>3, <1>4, <2>1, <3>2, OwnTypes DEF OwnInv, ProcInv, CleanupQuiet
    <3> QED
      BY <3>1, <3>2
  <2> QED
    BY <2>1 DEF CleanupQuiet
<1> QED
  BY <1>5, <1>6, <1>7, <1>8, <1>9 DEF ProcInv

\* Kill removes the worktree of an instance whose process is dead.
LEMMA KillCleanupOwns ==
  ASSUME OwnInv, Typed', NEW c \in Callers, KillCleanup(c)
  PROVE  MapInv' /\ TreeInv' /\ ProcInv'
<1> DEFINE i == call[c].inst
<1>1. call[c].pc = "cleanup" /\ UNCHANGED <<up, sessions, disk, inst, procs, overtaken, replaced>>
  BY DEF KillCleanup
<1>2. /\ \A d \in Callers \ {c} : call'[d] = call[d]
      /\ call'[c].pc = "idle"
      /\ i \in Insts
      /\ \A d \in Callers : call[d].pc # "idle" => call[d].inst \in Insts
  BY <1>1, CallAfter DEF KillCleanup
<1>3. trees \ {inst[i].tree} \subseteq trees'
  BY DEF KillCleanup, Cleanup, CleanupFrom
<1>4. MapInv'
  BY <1>1, <1>2, MapKept DEF StartPcs, OwnInv, MapInv, StartedStatus
<1>5. TreeInv'
  BY <1>1, <1>2, FileTrees, TreesKept
<1>6. Quiet' /\ Owned' /\ ProcessHasTree'
  <2>1. ASSUME NEW p \in Procs, NEW j \in Insts \ overtaken', procs'[p] = j
        PROVE  Accounted(j)' /\ (inst[j].tree \in trees => inst[j].tree \in trees')
    <3>1. j # i /\ Accounted(j)
      BY <1>1, <2>1, OwnTypes DEF OwnInv, ProcInv, Owned, CleanupQuiet
    <3>2. Accounted(j)'
      BY <1>1, <1>2, <3>1 DEF Accounted, Reachable
    <3> QED
      BY <1>2, <1>3, <3>1, <3>2, OthersTree
  <2> QED
    BY <1>1, <2>1, ProcessesKept
<1>7. Prepared'
  <2>1. ASSUME NEW d \in Callers, call[d].pc = "spawn", call[d].inst \notin overtaken,
               inst[call[d].inst].tree \in trees
        PROVE  inst[call[d].inst].tree \in trees'
    <3>1. call[d].inst # i
      BY <1>1, <2>1, OwnTypes DEF OwnInv, MapInv, StartsMapped, KillsUnmapped, ReplacedGone, StartPcs, TypeInv
    <3> QED
      BY <1>2, <1>3, <2>1, <3>1, OthersTree
  <2> QED
    BY <1>1, <1>2, <2>1, PreparedKept
<1>8. CleanupQuiet'
  BY <1>1, <1>2, CleanupKept
<1> QED
  BY <1>4, <1>5, <1>6, <1>7, <1>8 DEF ProcInv

\* The fields and the processes that ResumeSession, and OpenSession once it
\* has asked the manager of the session, hand to Resume.
Handed(i, r, P) ==
  \/ r = inst[i] /\ P = procs
  \/ \E renewed \in BOOLEAN : r = Reconnected(i, renewed) /\ P = KnownProcs(i, renewed)

\* What Resume finds: an instance of the map that does not run, as far as its
\* manager knows.
LEMMA ResumedObject ==
  ASSUME OwnInv, NEW t \in Titles, sessions[t] # None,
         NEW r, NEW P, Handed(sessions[t], r, P), r.started, r.status = "paused"
  PROVE  /\ sessions[t] \in Insts /\ r \in InstType
         /\ P \in [Procs -> Insts \cup {None}]
         /\ \A p \in Procs : P[p] = procs[p] \/ P[p] = None
         /\ r.tree = inst[sessions[t]].tree /\ r.kind = inst[sessions[t]].kind
         /\ inst[sessions[t]].started
         /\ sessions[t] \notin overtaken => \A p \in Procs : P[p] # sessions[t]
<1> DEFINE i == sessions[t]
<1>1. i \in Insts /\ inst[i] \in InstType
  BY OwnTypes
<1>2. \/ r = inst[i]
      \/ r = [inst[i] EXCEPT !.status = "paused", !.proc = None] /\ P[inst[i].proc] = None
  BY DEF Handed, Reconnected, ForcePaused
<1>5. /\ P \in [Procs -> Insts \cup {None}]
      /\ \A p \in Procs : P[p] = procs[p] \/ P[p] = None
  BY OwnTypes, KnownProcsType DEF Handed, KnownProcs
<1>3. /\ r \in InstType /\ r.tree = inst[i].tree /\ r.kind = inst[i].kind
      /\ inst[i].started
  BY <1>1, <1>2 DEF InstType, Statuses
<1>4. i \notin overtaken => \A p \in Procs : P[p] # i
  <2>1. CASE r = inst[i]
    BY <1>1, <1>5, <2>1, PausedQuiet, OwnTypes
  <2>2. CASE P[inst[i].proc] = None
    BY <1>1, <1>3, <1>5, <2>2, MappedAlone, OwnTypes
  <2> QED
    BY <1>2, <2>1, <2>2
<1> QED
  BY <1>1, <1>3, <1>4, <1>5

\* Resume spawns in a worktree that is there, and removes none but its own,
\* in which nothing runs.
LEMMA ResumeOwns ==
  ASSUME OwnInv, Typed', NEW t \in Titles, sessions[t] # None, up,
         UNCHANGED <<up, sessions, call, overtaken, replaced>>, Save \/ UNCHANGED disk,
         NEW r, NEW P, Handed(sessions[t], r, P),
         Resumed(sessions[t], r, P) \/ ResumeFailed(sessions[t], r, P)
  PROVE  MapInv' /\ TreeInv' /\ ProcInv'
<1> DEFINE i == sessions[t]
<1>1. /\ r.started /\ r.status = "paused"
      /\ i \in Insts /\ r \in InstType
      /\ r.tree = inst[i].tree /\ r.kind = inst[i].kind
      /\ inst[i].started
      /\ P \in [Procs -> Insts \cup {None}]
      /\ \A p \in Procs : P[p] = procs[p] \/ P[p] = None
      /\ i \notin overtaken => \A p \in Procs : P[p] # i
  <2>1. r.started /\ r.status = "paused"
    BY DEF Resumed, ResumeFailed
  <2> QED
    BY <2>1, ResumedObject
<1>2. /\ \A d \in Callers : call[d].pc # "idle" => call[d].inst \in Insts
      /\ i \notin overtaken =>
           \A d \in Callers : call[d].pc \in StartPcs \cup {"process", "cleanup"} => call[d].inst # i
  BY <1>1, MappedAlone, OwnTypes, CallHasInst
<1>3. CASE Resumed(i, r, P)
  <2>1. /\ Spawned(i, r, P)
        /\ trees' = trees \cup ({r.tree} \ {None})
    BY <1>3 DEF Resumed
  <2>2. trees \subseteq trees' /\ (r.tree # None => r.tree \in trees')
    BY <2>1
  <2>3. /\ Quiet' /\ Owned' /\ ProcessHasTree'
        /\ \A j \in Insts \ {i} : inst'[j] = inst[j]
        /\ inst'[i].started /\ inst'[i].status = "running"
        /\ inst'[i].tree = inst[i].tree /\ inst'[i].kind = inst[i].kind
        /\ \A p \in Procs : procs'[p] = procs[p] \/ procs'[p] = None \/ procs'[p] = i
    BY <1>1, <2>1, <2>2, SpawnedOwns
  <2>4. MapInv'
    BY <2>3, MapKept DEF OwnInv, MapInv, StartedStatus
  <2>5. TreeInv'
    BY <1>2, <2>3, FileTrees, TreesKept
  <2>6. Prepared'
    BY <1>2, <2>2, <2>3, PreparedKept
  <2>7. CleanupQuiet'
    BY <1>2, <2>3, OwnTypes DEF OwnInv, ProcInv, CleanupQuiet
  <2> QED
    BY <2>3, <2>4, <2>5, <2>6, <2>7 DEF ProcInv
<1>4. CASE ResumeFailed(i, r, P)
  <2>1. procs' = P /\ trees \ {inst[i].tree} \subseteq trees'
    BY <1>1, <1>4 DEF ResumeFailed, ResumeRefused, ResumeSetupFailed, ResumeSpawnFailed, CleanupFrom
  <2>2. PICK q : /\ inst' = [inst EXCEPT ![i] = q]
                 /\ q.status = r.status /\ q.started = r.started /\ q.tree = r.tree /\ q.kind = r.kind
    <3>1. CASE inst' = [inst EXCEPT ![i] = r]
      BY <3>1
    <3>2. CASE \E p \in {r.proc} \cup FreshProcs : inst' = [inst EXCEPT ![i] = [r EXCEPT !.proc = p]]
      <4>1. PICK p : inst' = [inst EXCEPT ![i] = [r EXCEPT !.proc = p]]
        BY <3>2
      <4> DEFINE q == [r EXCEPT !.proc = p]
      <4>2. q.status = r.status /\ q.started = r.started /\ q.tree = r.tree /\ q.kind = r.kind
        BY <1>1 DEF InstType
      <4> HIDE DEF q
      <4> QED
        BY <4>1, <4>2 DEF q
    <3> QED
      BY <1>4, <3>1, <3>2 DEF ResumeFailed, ResumeRefused, ResumeSetupFailed, ResumeSpawnFailed
  <2>3. /\ \A j \in Insts \ {i} : inst'[j] = inst[j]
        /\ inst'[i].started /\ inst'[i].status = "paused"
        /\ inst'[i].tree = inst[i].tree /\ inst'[i].kind = inst[i].kind
    BY <1>1, <2>2, OwnTypes
  <2>4. MapInv'
    BY <2>3, MapKept DEF OwnInv, MapInv, StartedStatus
  <2>5. TreeInv'
    BY <1>2, <2>3, FileTrees, TreesKept
  <2>6. Quiet' /\ Owned' /\ ProcessHasTree'
    <3>1. ASSUME NEW p \in Procs, NEW j \in Insts \ overtaken', procs'[p] = j
          PROVE  j # i /\ Accounted(j)' /\ (inst[j].tree \in trees => inst[j].tree \in trees')
      <4>1. j # i /\ Accounted(j)
        BY <1>1, <2>1, <3>1, OwnTypes DEF OwnInv, ProcInv, Owned
      <4> QED
        BY <1>1, <2>1, <4>1, OthersTree DEF Accounted, Reachable
    <3> QED
      BY <1>1, <2>1, <2>3, <3>1, ProcessesKept
  <2>7. Prepared'
    <3>1. ASSUME NEW d \in Callers, call[d].pc = "spawn", call[d].inst \notin overtaken,
                 inst[call[d].inst].tree \in trees
          PROVE  call[d].inst # i /\ inst[call[d].inst].tree \in trees'
      <4>1. call[d].inst # i
        BY <1>2, <3>1 DEF StartPcs
      <4> QED
        BY <1>1, <1>2, <2>1, <3>1, <4>1, OthersTree
    <3>2. \A d \in Callers : call[d].pc = "spawn" /\ call[d].inst \notin overtaken => call[d].inst # i
      BY <1>2 DEF StartPcs
    <3> QED
      BY <1>2, <2>3, <3>1, <3>2, PreparedKept
  <2>8. CleanupQuiet'
    BY <1>1, <1>2, <2>1, CleanupKept
  <2> QED
    BY <2>4, <2>5, <2>6, <2>7, <2>8 DEF ProcInv
<1> QED
  BY <1>3, <1>4

\* Steps that neither add a process nor touch the map, the calls or a worktree.
LEMMA CalmOwns ==
  ASSUME OwnInv, Typed', UNCHANGED <<up, sessions, call, overtaken, replaced>>, Save \/ UNCHANGED disk,
         \A p \in Procs : procs'[p] = procs[p] \/ procs'[p] = None,
         \A j \in Insts :
           /\ inst'[j].started = inst[j].started /\ inst'[j].tree = inst[j].tree
           /\ inst'[j].kind = inst[j].kind
           /\ inst'[j].started => inst'[j].status \in {"running", "paused"}
           /\ \/ inst'[j] = inst[j]
              \/ j \notin overtaken => \A p \in Procs : procs'[p] # j,
         \A T \in trees \ trees' :
           /\ \A p \in Procs : procs[p] # None => inst[procs[p]].tree # T
           /\ \A c \in Callers : call[c].pc # "idle" => inst[call[c].inst].tree # T
  PROVE  MapInv' /\ TreeInv' /\ ProcInv'
<1>1. \A d \in Callers : call[d].pc # "idle" => call[d].inst \in Insts
  BY OwnTypes, CallHasInst
<1>2. MapInv'
  BY MapKept
<1>3. TreeInv'
  BY <1>1, FileTrees, TreesKept
<1>4. Quiet' /\ Owned' /\ ProcessHasTree'
  <2>1. ASSUME NEW p \in Procs, NEW j \in Insts \ overtaken', procs'[p] = j
        PROVE  inst'[j] = inst[j] /\ Accounted(j)' /\ (inst[j].tree \in trees => inst[j].tree \in trees')
    <3>1. procs[p] = j /\ Accounted(j)
      BY <2>1, OwnTypes DEF OwnInv, ProcInv, Owned
    <3>2. Accounted(j)'
      BY <3>1 DEF Accounted, Reachable
    <3> QED
      BY <2>1, <3>1, <3>2, OwnTypes
  <2> QED
    BY <2>1, ProcessesKept
<1>5. Prepared'
  BY <1>1, PreparedKept
<1>6. CleanupQuiet'
  BY <1>1, CleanupKept
<1> QED
  BY <1>2, <1>3, <1>4, <1>5, <1>6 DEF ProcInv

\* The operations that keep the lock of the API.
LEMMA OperationOwns ==
  ASSUME OwnInv, Typed', NEW t \in Titles, OpenSession(t) \/ ResumeSession(t) \/ PauseSession(t)
  PROVE  MapInv' /\ TreeInv' /\ ProcInv'
<1> DEFINE i == sessions[t]
<1>1. /\ up /\ i # None /\ i \in Insts /\ inst[i] \in InstType
      /\ UNCHANGED <<up, sessions, call, overtaken, replaced>>
  BY OwnTypes DEF OpenSession, ResumeSession, PauseSession
<1>2. ASSUME UNCHANGED <<inst, trees>>, Save \/ UNCHANGED disk,
             \A p \in Procs : procs'[p] = procs[p] \/ procs'[p] = None
      PROVE  MapInv' /\ TreeInv' /\ ProcInv'
  BY <1>1, <1>2, CalmOwns DEF OwnInv, MapInv, StartedStatus
<1>3. ASSUME Save \/ UNCHANGED disk,
             NEW r, NEW P, Handed(i, r, P), Resumed(i, r, P) \/ ResumeFailed(i, r, P)
      PROVE  MapInv' /\ TreeInv' /\ ProcInv'
  BY <1>1, <1>3, ResumeOwns
<1>4. CASE PauseSession(t) /\ inst[i].started /\ inst[i].status # "paused"
  <2>1. Paused(i) /\ Save /\ UNCHANGED trees
    BY <1>4 DEF PauseSession
  <2>2. /\ \A p \in Procs : procs'[p] = procs[p] \/ procs'[p] = None
        /\ i \notin overtaken => \A p \in Procs : procs'[p] # i
    BY <1>1, <2>1, ProcessKilled DEF Paused
  <2>3. inst'[i] = [inst[i] EXCEPT !.status = "paused", !.proc = None]
    BY <1>1, <2>1, OwnTypes DEF Paused
  <2>4. /\ \A j \in Insts \ {i} : inst'[j] = inst[j]
        /\ inst'[i].started = inst[i].started /\ inst'[i].status = "paused"
        /\ inst'[i].tree = inst[i].tree /\ inst'[i].kind = inst[i].kind
    BY <1>1, <2>1, <2>3, OwnTypes DEF InstType, Paused
  <2>5. \A j \in Insts :
          /\ inst'[j].started = inst[j].started /\ inst'[j].tree = inst[j].tree
          /\ inst'[j].kind = inst[j].kind
          /\ inst'[j].started => inst'[j].status \in {"running", "paused"}
          /\ \/ inst'[j] = inst[j]
             \/ j \notin overtaken => \A p \in Procs : procs'[p] # j
    BY <2>2, <2>4 DEF OwnInv, MapInv, StartedStatus
  <2> QED
    BY <1>1, <2>1, <2>2, <2>5, CalmOwns
<1>5. CASE OpenSession(t)
  <2>1. PICK renewed \in BOOLEAN :
          LET r == Reconnected(i, renewed)
              P == KnownProcs(i, renewed) IN
          \/ Resumed(i, r, P) /\ Save
          \/ ResumeFailed(i, r, P) /\ UNCHANGED disk
          \/ procs' = P /\ UNCHANGED <<disk, inst, trees>>
    BY <1>5 DEF OpenSession
  <2>2. Handed(i, Reconnected(i, renewed), KnownProcs(i, renewed))
    BY DEF Handed
  <2>3. CASE procs' = KnownProcs(i, renewed) /\ UNCHANGED <<disk, inst, trees>>
    BY <1>2, <2>3, OwnTypes DEF KnownProcs
  <2> QED
    BY <1>3, <2>1, <2>2, <2>3
<1>6. CASE ResumeSession(t)
  BY <1>3, <1>6 DEF ResumeSession, Handed
<1>7. CASE PauseSession(t)
  <2>1. CASE UNCHANGED <<procs, inst, disk, trees>>
    BY <1>2, <2>1
  <2> QED
    BY <1>4, <1>7, <2>1 DEF PauseSession
<1> QED
  BY <1>5, <1>6, <1>7

\* When the application ends nothing of a call or a process is left.
LEMMA StopOwns ==
  ASSUME OwnInv, Close \/ Crash
  PROVE  MapInv' /\ TreeInv' /\ ProcInv'
<1>1. /\ \A p \in Procs : procs'[p] = None
      /\ \A c \in Callers : call'[c] = NoCall
      /\ UNCHANGED inst
      /\ disk' \in {disk, Persisted(sessions, inst), [t \in Titles |-> None]}
  BY DEF Close, Crash, Stop, SaveFails
<1>2. \A t \in Titles : disk'[t] # None =>
        disk'[t] = disk[t] \/ (disk'[t].inst \in Insts /\ disk'[t].tree = inst'[disk'[t].inst].tree)
  BY <1>1, OwnTypes DEF Persisted
<1>3. MapInv'
  <2>1. \A t \in Titles : sessions'[t] = None
    BY DEF Close, Crash, Stop
  <2> QED
    BY <1>1, <2>1 DEF MapInv, StartsMapped, KillsUnmapped, ReplacedGone, OwnInv, StartedStatus, NoCall, StartPcs
<1>4. TreeInv'
  BY <1>1, <1>2, TreesKept DEF NoCall
<1>5. ProcInv'
  BY <1>1 DEF ProcInv, Quiet, Owned, ProcessHasTree, Prepared, CleanupQuiet, NoCall
<1> QED
  BY <1>3, <1>4, <1>5

\* A restart brings back the worktrees of the file, which nobody else has.
LEMMA RestartOwns ==
  ASSUME OwnInv, Restart
  PROVE  MapInv' /\ TreeInv' /\ ProcInv'
<1> DEFINE saved == {disk[u] : u \in Titles} \ {None}
<1>1. /\ \A p \in Procs : procs'[p] = None
      /\ \A c \in Callers : call'[c].pc = "idle"
      /\ UNCHANGED disk
  BY OwnTypes DEF OwnInv, ProcInv, Quiet, TypeInv, Restart
<1>2. ASSUME NEW i \in Insts
      PROVE  /\ inst'[i].kind = inst[i].kind
             /\ \/ \E t \in Titles : /\ disk[t] # None /\ disk[t].inst = i
                                     /\ inst'[i].tree = disk[t].tree
                                     /\ inst'[i].status = "paused"
                \/ /\ \A t \in Titles : disk[t] # None => disk[t].inst # i
                   /\ inst'[i].tree = inst[i].tree /\ inst'[i].started = inst[i].started
                   /\ inst'[i].status = inst[i].status
  <2>1. CASE \E d \in saved : d.inst = i
    <3>1. PICK d \in saved : d.inst = i /\ inst'[i] = Restored(d)
      BY <2>1 DEF Restart
    <3>2. PICK t \in Titles : disk[t] = d /\ d # None
      BY <3>1
    <3>3. Restored(d).tree = d.tree /\ Restored(d).kind = inst[i].kind /\ Restored(d).status = "paused"
      BY <3>1, OwnTypes DEF Restored, InstType
    <3> QED
      BY <3>1, <3>2, <3>3
  <2>2. CASE ~\E d \in saved : d.inst = i
    <3>1. inst'[i] = [inst[i] EXCEPT !.proc = None]
      BY <2>2 DEF Restart
    <3>2. \A t \in Titles : disk[t] # None => disk[t] \in saved
      OBVIOUS
    <3> QED
      BY <2>2, <3>1, <3>2, OwnTypes DEF InstType
  <2> QED
    BY <2>1, <2>2
<1>3. MapInv'
  <2>1. replaced' = {}
    BY DEF Restart, OwnInv, SideInv
  <2> QED
    BY <1>1, <1>2, <2>1 DEF MapInv, StartsMapped, KillsUnmapped, ReplacedGone, OwnInv, StartedStatus, StartPcs
<1>4. \A t \in Titles : disk[t] # None => disk[t].inst \in Insts
  BY OwnTypes DEF Typed, RecordType
<1>5. TreeInv'
  <2>1. TreesApart'
    <3>1. ASSUME NEW i \in Insts, NEW j \in Insts, inst'[i].tree # None, inst'[i].tree = inst'[j].tree
          PROVE  i = j
      <4>1. CASE \E t \in Titles : disk[t] # None /\ disk[t].inst = i /\ inst'[i].tree = disk[t].tree
        <5>1. PICK t \in Titles : disk[t] # None /\ disk[t].inst = i /\ inst'[i].tree = disk[t].tree
          BY <4>1
        <5>2. CASE \E u \in Titles : disk[u] # None /\ disk[u].inst = j /\ inst'[j].tree = disk[u].tree
          BY <3>1, <5>1, <5>2 DEF OwnInv, TreeInv, RecordsApart
        <5>3. CASE inst'[j].tree = inst[j].tree
          BY <3>1, <5>1, <5>3 DEF OwnInv, TreeInv, RecordsApart
        <5> QED
          BY <1>2, <5>2, <5>3
      <4>2. CASE \E t \in Titles : disk[t] # None /\ disk[t].inst = j /\ inst'[j].tree = disk[t].tree
                 /\ inst'[i].tree = inst[i].tree
        BY <3>1, <4>2 DEF OwnInv, TreeInv, RecordsApart
      <4>3. CASE inst'[i].tree = inst[i].tree /\ inst'[j].tree = inst[j].tree
        BY <3>1, <4>3 DEF OwnInv, TreeInv, TreesApart
      <4> QED
        BY <1>2, <4>1, <4>2, <4>3
    <3> QED
      BY <3>1 DEF TreesApart
  <2>2. RecordsApart'
    <3>1. ASSUME NEW t \in Titles, disk[t] # None, disk[t].tree # None,
                 NEW j \in Insts, inst'[j].tree = disk[t].tree
          PROVE  j = disk[t].inst
      BY <1>2, <3>1 DEF OwnInv, TreeInv, RecordsApart
    <3> QED
      BY <1>1, <3>1 DEF OwnInv, TreeInv, RecordsApart
  <2>3. InPlaceBare'
    BY <1>1, <1>2, <1>4 DEF OwnInv, TreeInv, InPlaceBare
  <2> QED
    BY <2>1, <2>2, <2>3 DEF TreeInv
<1>6. ProcInv'
  BY <1>1 DEF ProcInv, Quiet, Owned, ProcessHasTree, Prepared, CleanupQuiet
<1> QED
  BY <1>3, <1>5, <1>6

\* What is left behind by a renewed manager, and what was replaced.
LEMMA SideOwns ==
  ASSUME OwnInv, Next, SideTyped'
  PROVE  SideInv'
<1>1. /\ TypeInv /\ Typed /\ SideTyped /\ SideInv /\ SideTyped'
      /\ call \in [Callers -> CallType]
      /\ sessions \in [Titles -> Insts \cup {None}]
      /\ \A t \in Titles : sessions[t] # None => inst[sessions[t]].status # "unused"
      /\ None \notin Insts
  BY OwnTypes DEF OwnInv, TypeInv
<1>2. CASE Restart
  BY <1>1, <1>2 DEF Restart, SideInv
<1>3. CASE Close \/ Crash
  BY <1>3 DEF Close, Crash, Stop, SideInv
<1>4. CASE ~Restart /\ ~(Close \/ Crash)
  <2>1. Kept /\ UNCHANGED up
    BY <1>1, <1>4, KeptByStep
       DEF Next, CreateSession, StartBegin, KillBegin, OpenSession, ResumeSession, PauseSession,
           IndexSession, StopIndexer, StartStep, StartConstruct, StartSetup, StartSpawn,
           StartFailed, StartPublish, StartIndex, KillStep, KillProcess, KillCleanup,
           ProcessExits, ProcessCommits, StrayExits, StrayCommits, TreeDeleted
  <2>2. up \/ (strays' \subseteq strays /\ moved' \subseteq moved /\ replaced' \subseteq replaced)
    BY <1>1, <1>4
       DEF Next, CreateSession, StartBegin, KillBegin, OpenSession, ResumeSession, PauseSession,
           IndexSession, StopIndexer, StartStep, StartConstruct, StartSetup, StartSpawn,
           StartFailed, StartPublish, StartIndex, KillStep, KillProcess, KillCleanup,
           ProcessExits, ProcessCommits, StrayExits, StrayCommits, TreeDeleted, TypeInv
  <2> DEFINE Good ==
        /\ \A i \in replaced' : inst[i].status # "unused"
        /\ \A i \in strays' : inst[i].status # "unused" /\ inst[i].kind = "remote"
        /\ \A c \in moved' : /\ call[c].pc = "spawn" /\ call'[c].pc = "spawn"
                             /\ call'[c].inst = call[c].inst
                             /\ inst[call[c].inst].kind = "remote"
  <2>3. ASSUME NEW c \in Callers, StartStep(c) \/ KillStep(c)
        PROVE  Good
    <3>1. /\ call[c].pc # "idle" /\ call[c].title \in Titles /\ call[c].inst \in Insts
          /\ inst[call[c].inst].status # "unused"
      <4>1. call[c].pc # "idle"
        BY <2>3 DEF StartStep, StartConstruct, StartSetup, StartSpawn, StartFailed, StartPublish,
                    StartIndex, KillStep, KillProcess, KillCleanup
      <4> QED
        BY <1>1, <4>1, CallHasInst DEF TypeInv
    <3>2. \A d \in Callers \ {c} : call'[d] = call[d]
      BY <1>1, <2>3
         DEF StartStep, StartConstruct, StartSetup, StartSpawn, StartFailed, StartPublish,
             StartIndex, KillStep, KillProcess, KillCleanup, Goto, Return
    <3>3. CASE StartSpawn(c)
      BY <1>1, <3>1, <3>2, <3>3 DEF StartSpawn, SpawnedAstray, SideInv, SideTyped
    <3>4. CASE StartFailed(c)
      <4>1. c \notin moved
        BY <1>1, <3>4 DEF StartFailed, SideInv
      <4>2. UNCHANGED <<strays, moved>>
        BY <3>4 DEF StartFailed
      <4>3. \A i \in replaced' : i \in replaced \/ (i = sessions[call[c].title] /\ i # None)
        BY <3>4 DEF StartFailed
      <4> QED
        BY <1>1, <3>1, <3>2, <4>1, <4>2, <4>3 DEF SideInv, SideTyped
    <3>5. CASE ~StartSpawn(c) /\ ~StartFailed(c)
      <4>1. UNCHANGED <<strays, moved, replaced>> /\ call[c].pc # "spawn"
        BY <2>3, <3>5
           DEF StartStep, StartConstruct, StartSetup, StartPublish,
               StartIndex, KillStep, KillProcess, KillCleanup
      <4> QED
        BY <1>1, <3>2, <4>1 DEF SideInv, SideTyped
    <3> QED
      BY <3>3, <3>4, <3>5
  <2>4. ASSUME NEW t \in Titles, OpenSession(t)
        PROVE  Good
    <3>1. PICK renewed \in BOOLEAN :
            /\ LeftBehind(sessions[t], renewed)
            /\ renewed => inst[sessions[t]].kind = "remote"
      BY <2>4 DEF OpenSession
    <3>2. sessions[t] # None /\ UNCHANGED <<call, replaced>>
      BY <2>4 DEF OpenSession
    <3> QED
      BY <1>1, <3>1, <3>2 DEF LeftBehind, SideInv, SideTyped
  <2>5. ASSUME NEW t \in Titles, NEW c \in Callers, StartBegin(c, t) \/ KillBegin(c, t)
        PROVE  Good
    <3>1. /\ call[c].pc = "idle" /\ \A d \in Callers \ {c} : call'[d] = call[d]
          /\ UNCHANGED <<strays, moved, replaced>>
      BY <1>1, <2>5 DEF StartBegin, KillBegin
    <3> QED
      BY <1>1, <3>1 DEF SideInv, SideTyped
  <2>6. ASSUME NEW t \in Titles, NEW k \in Kinds, CreateSession(t, k)
        PROVE  Good
    BY <1>1, <2>6 DEF CreateSession, SideInv
  <2>7. ASSUME UNCHANGED <<call, moved, replaced>> /\ strays' \subseteq strays
        PROVE  Good
    <3>1. SideInv
      BY <1>1
    <3>2. \A i \in replaced' : inst[i].status # "unused"
      BY <2>7, <3>1 DEF SideInv
    <3>3. \A i \in strays' : inst[i].status # "unused" /\ inst[i].kind = "remote"
      BY <2>7, <3>1 DEF SideInv
    <3>4. \A c \in moved' : call[c].pc = "spawn" /\ inst[call[c].inst].kind = "remote"
      BY <2>7, <3>1 DEF SideInv
    <3>5. \A c \in moved' : call'[c] = call[c]
      BY <2>7
    <3> QED
      BY <3>2, <3>3, <3>4, <3>5
  <2>8. Good
    <3>1. \/ UNCHANGED <<call, moved, replaced>> /\ strays' \subseteq strays
          \/ \E t \in Titles : \/ \E k \in Kinds : CreateSession(t, k)
                               \/ \E c \in Callers : StartBegin(c, t) \/ KillBegin(c, t)
                               \/ OpenSession(t)
          \/ \E c \in Callers : StartStep(c) \/ KillStep(c)
      BY <1>4 DEF Next, ResumeSession, PauseSession, IndexSession, StopIndexer,
                  ProcessExits, ProcessCommits, StrayExits, StrayCommits, TreeDeleted
    <3> HIDE DEF Good
    <3>2. CASE \E t \in Titles : \/ \E k \in Kinds : CreateSession(t, k)
                                 \/ \E c \in Callers : StartBegin(c, t) \/ KillBegin(c, t)
                                 \/ OpenSession(t)
      BY <2>4, <2>5, <2>6, <3>2
    <3>3. CASE \E c \in Callers : StartStep(c) \/ KillStep(c)
      BY <2>3, <3>3
    <3> QED
      BY <2>7, <3>1, <3>2, <3>3
  <2>9. \A c \in moved' : call[c].inst \in Insts /\ inst[call[c].inst].status # "unused"
    <3>1. moved' \subseteq Callers
      BY <1>1 DEF SideTyped
    <3>2. \A c \in Callers : call[c].pc = "spawn" => call[c].pc # "idle"
      OBVIOUS
    <3> QED
      BY <1>1, <2>8, <3>1, <3>2, CallHasInst DEF TypeInv
  <2>10. ~up' => strays' = {} /\ moved' = {} /\ replaced' = {}
    BY <1>1, <2>1, <2>2 DEF SideInv
  <2> QED
    BY <1>1, <2>1, <2>8, <2>9, <2>10 DEF SideInv, SideTyped, Kept
<1> QED
  BY <1>2, <1>3, <1>4

\* Every step keeps the invariant.
LEMMA OwnInvNext == OwnInv /\ [Next]_vars => OwnInv'
<1>10. ASSUME OwnInv, [Next]_vars
       PROVE  DiskInv' /\ SideInv'
  <2>1. DiskInv' /\ SideTyped'
    BY <1>10, DiskInvNext DEF OwnInv, DiskInv, RegistryInv, TypeInv
  <2>2. CASE Next
    BY <1>10, <2>1, <2>2, SideOwns
  <2>3. CASE UNCHANGED vars
    BY <1>10, <2>1, <2>3 DEF vars, OwnInv, SideInv
  <2> QED
    BY <1>10, <2>1, <2>2, <2>3
<1> SUFFICES ASSUME OwnInv, [Next]_vars
             PROVE  MapInv' /\ TreeInv' /\ ProcInv'
  BY <1>10 DEF OwnInv
<1>1. Typed'
  BY DiskInvNext DEF OwnInv, DiskInv, RegistryInv, TypeInv
<1>2. ASSUME NEW t \in Titles, NEW k \in Kinds, CreateSession(t, k)
      PROVE  MapInv' /\ TreeInv' /\ ProcInv'
  BY <1>1, <1>2, CreateOwns
<1>3. ASSUME NEW c \in Callers, NEW t \in Titles, StartBegin(c, t) \/ KillBegin(c, t)
      PROVE  MapInv' /\ TreeInv' /\ ProcInv'
  BY <1>1, <1>3, StartBeginOwns, KillBeginOwns
<1>4. ASSUME NEW t \in Titles, OpenSession(t) \/ ResumeSession(t) \/ PauseSession(t)
      PROVE  MapInv' /\ TreeInv' /\ ProcInv'
  BY <1>1, <1>4, OperationOwns
<1>5. ASSUME NEW c \in Callers, StartStep(c)
      PROVE  MapInv' /\ TreeInv' /\ ProcInv'
  BY <1>1, <1>5, ConstructOwns, SetupOwns, SpawnOwns, FailedOwns, PublishOwns DEF StartStep
<1>6. ASSUME NEW c \in Callers, KillStep(c)
      PROVE  MapInv' /\ TreeInv' /\ ProcInv'
  BY <1>1, <1>6, KillOwns, KillCleanupOwns DEF KillStep
<1>7. CASE Close \/ Crash
  BY <1>7, StopOwns
<1>8. CASE Restart
  BY <1>8, RestartOwns
<1>9. CASE \/ \E t \in Titles : IndexSession(t) \/ StopIndexer(t)
           \/ \E p \in Procs : ProcessExits(p) \/ ProcessCommits(p)
           \/ \E i \in Insts : StrayExits(i) \/ StrayCommits(i)
           \/ \E T \in Trees : TreeDeleted(T)
           \/ UNCHANGED vars
  <2>1. /\ UNCHANGED <<up, sessions, disk, inst, call, overtaken, replaced>>
        /\ \A p \in Procs : procs'[p] = procs[p] \/ procs'[p] = None
        /\ \A T \in trees \ trees' :
             /\ \A p \in Procs : procs[p] # None => inst[procs[p]].tree # T
             /\ \A c \in Callers : call[c].pc # "idle" => inst[call[c].inst].tree # T
    BY <1>9, OwnTypes DEF IndexSession, StopIndexer, ProcessExits, ProcessCommits, StrayExits, StrayCommits, TreeDeleted, vars
  <2>2. \A j \in Insts : inst[j].started => inst[j].status \in {"running", "paused"}
    BY DEF OwnInv, MapInv, StartedStatus
  <2> QED
    BY <1>1, <2>1, <2>2, CalmOwns
<1> QED
  BY <1>2, <1>3, <1>4, <1>5, <1>6, <1>7, <1>8, <1>9 DEF Next

\* Whatever StartSession, KillSession, Open, Pause and Resume do to one
\* another, a process that runs is the one its instance knows, and somebody
\* can still stop that instance: it is in the map, and not as a paused one, or
\* a Kill is on its way to it.  Only an instance that was overtaken while it
\* started, or that a namesake replaced, can have a process that is lost; and
\* only a session on a remote host one that its manager does not know.
THEOREM ProcessesOwned == Spec => []ProcessOwned
<1>1. OwnInv => ProcessOwned
  BY DEF OwnInv, SideInv, ProcInv, Owned, Accounted, ProcessOwned
<1> QED
  BY <1>1, OwnInvInit, OwnInvNext, PTL DEF Spec

\* No process runs in a worktree that was removed, by a Kill, a failed Resume
\* or a failed Start, its own or another session's.
THEOREM ProcessesHoused == Spec => []ProcessHasTree
<1>1. OwnInv => ProcessHasTree
  BY DEF OwnInv, ProcInv
<1> QED
  BY <1>1, OwnInvInit, OwnInvNext, PTL DEF Spec

-----------------------------------------------------------------------------
\* A step deletes one branch at the most: that of an instance it starts, or
\* cleans up after, or resumes.
LEMMA BranchDeleted ==
  ASSUME OwnInv, Next
  PROVE  \/ commits \subseteq commits'
         \/ \E c \in Callers : /\ call[c].pc \in StartPcs \cup {"process", "cleanup"}
                               /\ commits \ {inst[call[c].inst].tree} \subseteq commits'
         \/ \E t \in Titles :
              /\ sessions[t] # None
              /\ sessions[t] \notin overtaken =>
                   \A p \in Procs : ~(procs[p] = sessions[t] /\ procs'[p] = sessions[t])
              /\ commits \ {inst[sessions[t]].tree} \subseteq commits'
<1>1. ASSUME NEW c \in Callers, StartStep(c) \/ KillStep(c), ~(commits \subseteq commits')
      PROVE  /\ call[c].pc \in StartPcs \cup {"process", "cleanup"}
             /\ commits \ {inst[call[c].inst].tree} \subseteq commits'
  BY <1>1 DEF StartStep, StartConstruct, StartSetup, StartSpawn, StartFailed, StartPublish, StartIndex,
              KillStep, KillProcess, KillCleanup, Cleanup, CleanupFrom, CommitsAfterSetup, StartPcs
<1>2. ASSUME NEW t \in Titles, OpenSession(t) \/ ResumeSession(t), ~(commits \subseteq commits')
      PROVE  /\ sessions[t] # None
             /\ sessions[t] \notin overtaken =>
                  \A p \in Procs : ~(procs[p] = sessions[t] /\ procs'[p] = sessions[t])
             /\ commits \ {inst[sessions[t]].tree} \subseteq commits'
  <2> DEFINE i == sessions[t]
  <2>1. PICK r, P : Handed(i, r, P) /\ (Resumed(i, r, P) \/ ResumeFailed(i, r, P))
    <3>1. CASE ResumeSession(t)
      BY <3>1 DEF ResumeSession, Handed
    <3>2. CASE OpenSession(t)
      <4>1. PICK renewed \in BOOLEAN :
              \/ Resumed(i, Reconnected(i, renewed), KnownProcs(i, renewed))
              \/ ResumeFailed(i, Reconnected(i, renewed), KnownProcs(i, renewed))
        BY <1>2, <3>2 DEF OpenSession
      <4> QED
        BY <4>1 DEF Handed
    <3> QED
      BY <1>2, <3>1, <3>2
  <2>2. i # None /\ r.started /\ r.status = "paused"
    BY <1>2, <2>1 DEF OpenSession, ResumeSession, Resumed, ResumeFailed
  <2>3. /\ r.tree = inst[i].tree /\ i \in Insts
        /\ P \in [Procs -> Insts \cup {None}]
        /\ i \notin overtaken => \A p \in Procs : P[p] # i
    BY <2>1, <2>2, ResumedObject
  <2>6. i \notin overtaken => \A p \in Procs : ~(procs[p] = i /\ procs'[p] = i)
    <3>1. CASE ResumeFailed(i, r, P)
      BY <2>3, <3>1 DEF ResumeFailed
    <3>2. CASE Resumed(i, r, P)
      BY <2>3, <3>2, OwnTypes DEF Resumed, Spawned, FreshProcs
    <3> QED
      BY <2>1, <3>1, <3>2
  <2>4. commits \ {inst[i].tree} \subseteq CommitsAfterResume(i)
    BY DEF CommitsAfterResume, CommitsAfterSetup
  <2>5. CommitsAfterResume(i) \ {r.tree} \subseteq commits' \/ commits' = commits
    BY <2>1 DEF Resumed, ResumeFailed, ResumeRefused, ResumeSetupFailed, ResumeSpawnFailed, CleanupFrom
  <2> QED
    BY <2>2, <2>3, <2>4, <2>5, <2>6
<1>3. CASE \/ \E t \in Titles :
                \/ \E k \in Kinds : CreateSession(t, k)
                \/ \E c \in Callers : StartBegin(c, t) \/ KillBegin(c, t)
                \/ PauseSession(t) \/ IndexSession(t) \/ StopIndexer(t)
           \/ Close \/ Crash \/ Restart
           \/ \E p \in Procs : ProcessExits(p) \/ ProcessCommits(p)
           \/ \E i \in Insts : StrayExits(i) \/ StrayCommits(i)
           \/ \E T \in Trees : TreeDeleted(T)
  BY <1>3 DEF CreateSession, StartBegin, KillBegin, PauseSession, IndexSession, StopIndexer,
              Close, Crash, Stop, Restart, ProcessExits, ProcessCommits, StrayExits, StrayCommits, TreeDeleted
<1> QED
  BY <1>1, <1>2, <1>3 DEF Next

\* The instances that are overtaken stay so while the application runs.
LEMMA OvertakenStays ==
  ASSUME Next, up', up
  PROVE  overtaken \subseteq overtaken'
BY DEF Next, StartStep, StartConstruct, StartSetup, StartSpawn, StartFailed, StartPublish, StartIndex,
       KillStep, KillProcess, KillCleanup, CreateSession, StartBegin, KillBegin,
       OpenSession, ResumeSession, PauseSession, IndexSession, StopIndexer,
       Close, Crash, Stop, Restart, ProcessExits, ProcessCommits, StrayExits, StrayCommits, TreeDeleted

\* The commits a session has made are not deleted while it stays in the map
\* and its manager knows a process of it: neither by a Start, whose Setup deletes the branch of that name,
\* nor by the cleanup of a Start, a Resume or a Kill, its own or another's.
THEOREM CommitsKept == Spec => LiveKeepsCommits
<1>1. ASSUME OwnInv, [Next]_vars, NEW t \in Titles, sessions[t] # None, sessions'[t] = sessions[t],
             sessions[t] \notin overtaken', NEW p \in Procs, procs[p] = sessions[t],
             procs'[p] = sessions[t], inst[sessions[t]].tree \in commits
      PROVE  inst[sessions[t]].tree \in commits'
  <2> DEFINE i == sessions[t]
  <2>1. CASE UNCHANGED vars
    BY <1>1, <2>1 DEF vars
  <2>2. CASE Next
    <3>1. up /\ up'
      BY <1>1, <2>2, OwnTypes
         DEF OwnInv, ProcInv, Quiet, Next, StartStep, StartConstruct, StartSetup, StartSpawn, StartFailed,
             StartPublish, StartIndex, KillStep, KillProcess, KillCleanup, CreateSession, StartBegin,
             KillBegin, OpenSession, ResumeSession, PauseSession, IndexSession, StopIndexer,
             Close, Crash, Stop, Restart, ProcessExits, ProcessCommits, StrayExits, StrayCommits, TreeDeleted
    <3>2. i \notin overtaken
      BY <1>1, <2>2, <3>1, OvertakenStays
    <3>3. /\ i \in Insts /\ inst[i].started /\ inst[i].tree # None
          /\ \A c \in Callers : call[c].pc \in StartPcs \cup {"process", "cleanup"} =>
               call[c].inst # i /\ call[c].inst \in Insts
      <4>1. i \in Insts /\ inst[i].started /\ inst[i].tree # None
        BY <1>1, <3>2, OwnTypes DEF OwnInv, ProcInv, Owned, Typed
      <4> QED
        BY <1>1, <3>2, <4>1, MappedAlone, OwnTypes, CallHasInst DEF StartPcs
    <3>4. ASSUME NEW j \in Insts \ {i}, commits \ {inst[j].tree} \subseteq commits'
          PROVE  inst[i].tree \in commits'
      BY <1>1, <3>3, <3>4 DEF OwnInv, TreeInv, TreesApart
    <3>5. \A u \in Titles : sessions[u] # None => sessions[u] \in Insts
      BY <1>1, OwnTypes
    <3> QED
      BY <1>1, <2>2, <3>2, <3>3, <3>4, <3>5, BranchDeleted
  <2> QED
    BY <1>1, <2>1, <2>2
<1>2. OwnInv /\ [Next]_vars =>
        [\A t \in Titles :
           LET i == sessions[t] IN
           i # None /\ sessions'[t] = i /\ i \notin overtaken'
             /\ (\E p \in Procs : procs[p] = i /\ procs'[p] = i) /\ inst[i].tree \in commits
           => inst[i].tree \in commits']_vars
  BY <1>1
<1> QED
  BY <1>2, OwnInvInit, OwnInvNext, PTL DEF Spec, LiveKeepsCommits
-----------------------------------------------------------------------------
(***************************************************************************)
(* Part 5: who attends to a session that shows Loading (StartSession).     *)
(***************************************************************************)

\* A Start knows its instance by the only title that can have it in the map,
\* so its error path takes it out.
OneTitle ==
  \A c \in Callers : call[c].pc \in StartPcs =>
    \A u \in Titles : sessions[u] = call[c].inst => u = call[c].title

AttendInv == OwnInv /\ OneTitle /\ LoadingAttended

\* Call c goes on with its Start, or has attended to its instance.
Attends(c) ==
  \/ call'[c].pc \in StartPcs /\ call'[c].inst = call[c].inst
  \/ inst'[call[c].inst].status # "loading"
  \/ \A u \in Titles : sessions'[u] # call[c].inst

\* A step that puts nothing into the map, begins no Start and turns nothing to
\* Loading.
LEMMA AttendKept ==
  ASSUME AttendInv,
         \A t \in Titles : sessions'[t] \in {sessions[t], None},
         \A i \in Insts : inst'[i].status = "loading" => inst[i].status = "loading",
         \A c \in Callers : call[c].pc \in StartPcs => Attends(c),
         \A c \in Callers : call'[c].pc \in StartPcs =>
           /\ call[c].pc \in StartPcs
           /\ call'[c].inst = call[c].inst /\ call'[c].title = call[c].title
  PROVE  OneTitle' /\ LoadingAttended'
<1>1. sessions \in [Titles -> Insts \cup {None}]
  BY OwnTypes DEF AttendInv
<1>2. OneTitle'
  <2> SUFFICES ASSUME NEW c \in Callers, call'[c].pc \in StartPcs,
                      NEW u \in Titles, sessions'[u] = call'[c].inst
               PROVE  u = call'[c].title
    BY DEF OneTitle
  <2>1. call[c].pc \in StartPcs /\ call'[c].inst = call[c].inst /\ call'[c].title = call[c].title
    OBVIOUS
  <2>2. call[c].inst # None
    BY <2>1, OwnTypes, CallHasInst DEF AttendInv, StartPcs
  <2> QED
    BY <2>1, <2>2 DEF AttendInv, OneTitle
<1>3. LoadingAttended'
  <2> SUFFICES ASSUME NEW t \in Titles, sessions'[t] # None, inst'[sessions'[t]].status = "loading"
               PROVE  \E c \in Callers : call'[c].inst = sessions'[t] /\ call'[c].pc \in StartPcs
    BY DEF LoadingAttended, Starting
  <2>1. sessions'[t] = sessions[t] /\ sessions[t] \in Insts
    BY <1>1
  <2>2. inst[sessions[t]].status = "loading"
    BY <2>1
  <2>3. PICK c \in Callers : call[c].inst = sessions[t] /\ call[c].pc \in StartPcs
    BY <2>1, <2>2 DEF AttendInv, LoadingAttended, Starting
  <2>4. Attends(c)
    BY <2>3
  <2> QED
    BY <2>1, <2>3, <2>4 DEF Attends
<1> QED
  BY <1>2, <1>3

LEMMA AttendCalls ==
  ASSUME AttendInv, NEW c \in Callers, StartStep(c) \/ KillStep(c)
  PROVE  OneTitle' /\ LoadingAttended'
<1> DEFINE i == call[c].inst
<1>1. /\ call[c].pc # "idle" /\ i \in Insts /\ inst[i] \in InstType /\ i # None
      /\ inst \in [Insts -> InstType] /\ call \in [Callers -> CallType]
      /\ sessions \in [Titles -> Insts \cup {None}]
  <2>1. call[c].pc # "idle"
    BY DEF StartStep, StartConstruct, StartSetup, StartSpawn, StartFailed, StartPublish, StartIndex,
           KillStep, KillProcess, KillCleanup
  <2> QED
    BY <2>1, OwnTypes, CallHasInst DEF AttendInv
<1>2. \A d \in Callers \ {c} : call'[d] = call[d]
  BY <1>1 DEF StartStep, StartConstruct, StartSetup, StartSpawn, StartFailed, StartPublish, StartIndex,
              KillStep, KillProcess, KillCleanup, Goto, Return
<1>3. \A t \in Titles : sessions'[t] \in {sessions[t], None}
  BY <1>1 DEF StartStep, StartConstruct, StartSetup, StartSpawn, StartFailed, StartPublish, StartIndex,
              KillStep, KillProcess, KillCleanup
<1>4. \A d \in Callers \ {c} : call[d].pc \in StartPcs => Attends(d)
  BY <1>2 DEF Attends
<1>5. ASSUME \A j \in Insts : inst'[j].status = "loading" => inst[j].status = "loading",
             call[c].pc \in StartPcs => Attends(c),
             call'[c].pc \in StartPcs => /\ call[c].pc \in StartPcs
                                         /\ call'[c].inst = i /\ call'[c].title = call[c].title
      PROVE  OneTitle' /\ LoadingAttended'
  BY <1>2, <1>3, <1>4, <1>5, AttendKept
<1>6. CASE StartConstruct(c)
  <2>1. \A j \in Insts : inst'[j].status = inst[j].status
    <3>1. CASE \E T \in FreshTrees, ref \in BOOLEAN :
                 inst' = [inst EXCEPT ![i].tree = T, ![i].baseRef = ref]
      <4>1. PICK T \in FreshTrees, ref \in BOOLEAN :
              inst' = [inst EXCEPT ![i].tree = T, ![i].baseRef = ref]
        BY <3>1
      <4>2. inst'[i].status = inst[i].status
        BY <1>1, <4>1 DEF InstType
      <4> QED
        BY <1>1, <4>1, <4>2
    <3> QED
      BY <1>6, <3>1 DEF StartConstruct
  <2>2. call'[c].pc \in StartPcs /\ call'[c].inst = i /\ call'[c].title = call[c].title
    <3>1. \E pc \in {"setup", "failed"} : call' = [call EXCEPT ![c].pc = pc]
      BY <1>6 DEF StartConstruct, Goto
    <3> QED
      BY <1>1, <3>1 DEF StartPcs, CallType
  <2> QED
    BY <1>5, <1>6, <2>1, <2>2 DEF StartConstruct, StartPcs, Attends
<1>7. CASE StartSetup(c)
  <2>1. call'[c].pc \in StartPcs /\ call'[c].inst = i /\ call'[c].title = call[c].title
    BY <1>1, <1>7 DEF StartSetup, Goto, StartPcs, CallType
  <2> QED
    BY <1>5, <1>7, <2>1 DEF StartSetup, StartPcs, Attends
<1>8. CASE StartSpawn(c)
  <2>1. /\ call'[c].inst = i /\ call'[c].title = call[c].title /\ call[c].pc \in StartPcs
        /\ call'[c].pc = "publish" \/ call'[c].pc = "failed"
    BY <1>1, <1>8 DEF StartSpawn, Goto, StartPcs, CallType
  <2>2. CASE UNCHANGED inst /\ call'[c].pc = "failed"
    BY <1>5, <2>1, <2>2 DEF StartPcs, Attends
  <2>3. CASE Spawned(i, inst[i], procs) \/ SpawnedAstray(i, inst[i])
    <3>1. /\ inst'[i].status = "running"
          /\ \A j \in Insts \ {i} : inst'[j] = inst[j]
      BY <1>1, <2>3, OwnTypes, SpawnedObject DEF AttendInv
    <3> QED
      BY <1>5, <2>1, <3>1 DEF Attends
  <2> QED
    BY <1>1, <1>8, <2>2, <2>3 DEF StartSpawn, Goto, CallType
<1>9. CASE StartFailed(c)
  <2>1. \A j \in Insts : inst'[j].status = inst[j].status
    BY <1>1, <1>9 DEF StartFailed, InstType
  <2>2. \A u \in Titles : sessions'[u] # i
    BY <1>1, <1>9 DEF StartFailed, AttendInv, OneTitle, StartPcs
  <2>3. call'[c].pc = "idle"
    BY <1>1, <1>9 DEF StartFailed, Return, NoCall
  <2> QED
    BY <1>5, <2>1, <2>2, <2>3 DEF Attends, StartPcs
<1>10. CASE StartPublish(c) \/ StartIndex(c) \/ KillStep(c)
  <2>1. \A j \in Insts : inst'[j].status = inst[j].status
    BY <1>1, <1>10 DEF StartPublish, StartIndex, KillStep, KillProcess, KillCleanup, InstType
  <2>2. call[c].pc \notin StartPcs /\ call'[c].pc \notin StartPcs
    BY <1>1, <1>10 DEF StartPublish, StartIndex, KillStep, KillProcess, KillCleanup, Goto, Return,
                       NoCall, StartPcs, CallType
  <2> QED
    BY <1>5, <2>1, <2>2
<1> QED
  BY <1>6, <1>7, <1>8, <1>9, <1>10 DEF StartStep

LEMMA AttendNext == AttendInv /\ [Next]_vars => AttendInv'
<1> SUFFICES ASSUME AttendInv, [Next]_vars PROVE OneTitle' /\ LoadingAttended'
  BY OwnInvNext DEF AttendInv
<1>1. /\ inst \in [Insts -> InstType] /\ call \in [Callers -> CallType]
      /\ sessions \in [Titles -> Insts \cup {None}] /\ None \notin Insts /\ Typed
      /\ OwnInv
  BY OwnTypes DEF AttendInv
<1>2. \A c \in Callers : UNCHANGED call => (call[c].pc \in StartPcs => Attends(c))
  BY DEF Attends
<1>3. ASSUME NEW t \in Titles, NEW k \in Kinds, CreateSession(t, k)
      PROVE  OneTitle' /\ LoadingAttended'
  <2>1. PICK i \in Insts :
          /\ inst[i].status = "unused"
          /\ inst' = [inst EXCEPT ![i] = [NoInstance EXCEPT !.status = "ready", !.kind = k]]
          /\ sessions' = [sessions EXCEPT ![t] = i]
    BY <1>3 DEF CreateSession
  <2>2. \A c \in Callers : call[c].pc \in StartPcs => call[c].inst # i
    BY <2>1, OwnTypes DEF AttendInv, TypeInv, StartPcs
  <2>3. UNCHANGED call
    BY <1>3 DEF CreateSession
  <2>4. OneTitle'
    BY <1>1, <2>1, <2>2, <2>3 DEF AttendInv, OneTitle
  <2>5. inst'[i].status = "ready"
    BY <1>1, <2>1 DEF NoInstance
  <2>6. ASSUME NEW u \in Titles, sessions'[u] # None, inst'[sessions'[u]].status = "loading"
        PROVE  \E d \in Callers : call'[d].inst = sessions'[u] /\ call'[d].pc \in StartPcs
    <3>1. u # t /\ sessions'[u] = sessions[u] /\ sessions[u] # i
      BY <1>1, <2>1, <2>5, <2>6
    <3>2. inst'[sessions[u]] = inst[sessions[u]]
      BY <1>1, <2>1, <2>6, <3>1
    <3> QED
      BY <2>3, <2>6, <3>1, <3>2 DEF AttendInv, LoadingAttended, Starting
  <2> QED
    BY <2>4, <2>6 DEF LoadingAttended, Starting
<1>4. ASSUME NEW c \in Callers, NEW t \in Titles, StartBegin(c, t)
      PROVE  OneTitle' /\ LoadingAttended'
  <2> DEFINE i == sessions[t]
  <2>1. /\ i \in Insts /\ call[c].pc = "idle" /\ UNCHANGED sessions
        /\ inst' = [inst EXCEPT ![i].status = "loading"]
    BY <1>1, <1>4 DEF StartBegin
  <2>2. /\ call'[c].pc \in StartPcs /\ call'[c].inst = i /\ call'[c].title = t
        /\ \A d \in Callers \ {c} : call'[d] = call[d]
    BY <1>1, <1>4 DEF StartBegin, StartPcs
  <2>3. \A u \in Titles : sessions[u] = i => u = t
    BY <1>1, <2>1 DEF OwnInv, DiskInv, RegistryInv, MapInjective
  <2>4. OneTitle'
    BY <2>1, <2>2, <2>3 DEF AttendInv, OneTitle
  <2>5. ASSUME NEW u \in Titles, sessions'[u] # None, inst'[sessions'[u]].status = "loading"
        PROVE  \E d \in Callers : call'[d].inst = sessions'[u] /\ call'[d].pc \in StartPcs
    <3>1. CASE sessions[u] = i
      BY <2>1, <2>2, <3>1 DEF Starting
    <3>2. CASE sessions[u] # i
      <4>1. sessions[u] \in Insts /\ inst'[sessions[u]] = inst[sessions[u]]
        BY <1>1, <2>1, <2>5, <3>2
      <4>2. PICK d \in Callers : call[d].inst = sessions[u] /\ call[d].pc \in StartPcs
        <5>1. sessions[u] # None /\ inst[sessions[u]].status = "loading"
          BY <1>1, <2>1, <2>5, <4>1
        <5>2. Starting(sessions[u])
          BY <5>1 DEF AttendInv, LoadingAttended
        <5> QED
          BY <5>2 DEF Starting
      <4>3. d # c
        BY <2>1, <4>2 DEF StartPcs
      <4> QED
        BY <2>1, <2>2, <4>2, <4>3 DEF Starting
    <3> QED
      BY <3>1, <3>2
  <2> QED
    BY <2>4, <2>5 DEF LoadingAttended, Starting
<1>5. ASSUME NEW c \in Callers, NEW t \in Titles, KillBegin(c, t)
      PROVE  OneTitle' /\ LoadingAttended'
  <2>1. /\ \A u \in Titles : sessions'[u] \in {sessions[u], None}
        /\ UNCHANGED inst /\ call[c].pc = "idle" /\ call'[c].pc = "process"
        /\ \A d \in Callers \ {c} : call'[d] = call[d]
    BY <1>1, <1>5 DEF KillBegin
  <2> QED
    BY <2>1, AttendKept DEF Attends, StartPcs
<1>6. ASSUME NEW t \in Titles, OpenSession(t) \/ ResumeSession(t) \/ PauseSession(t)
      PROVE  OneTitle' /\ LoadingAttended'
  <2> DEFINE i == sessions[t]
  <2>1. UNCHANGED <<sessions, call>> /\ i \in Insts
    BY <1>1, <1>6 DEF OpenSession, ResumeSession, PauseSession
  <2>2. UNCHANGED inst \/ /\ inst'[i].status \in {"running", "paused"}
                          /\ \A j \in Insts \ {i} : inst'[j] = inst[j]
    <3>1. ASSUME NEW r \in InstType, NEW P, Resumed(i, r, P) \/ ResumeFailed(i, r, P)
          PROVE  /\ inst'[i].status \in {"running", "paused"}
                 /\ \A j \in Insts \ {i} : inst'[j] = inst[j]
      BY <1>1, <2>1, <3>1, SpawnedObject, FailedObject DEF Resumed
    <3>2. inst[i] \in InstType /\ \A renewed : Reconnected(i, renewed) \in InstType
      BY <1>1, <2>1, ReconnectedObject
    <3> QED
      BY <1>1, <1>6, <2>1, <3>1, <3>2, PausedObject DEF OpenSession, ResumeSession, PauseSession
  <2> QED
    BY <1>2, <2>1, <2>2, AttendKept
<1>7. CASE Close \/ Crash
  BY <1>1, <1>7 DEF Close, Crash, Stop, OneTitle, LoadingAttended, NoCall, StartPcs
<1>8. CASE Restart
  <2>1. \A c \in Callers : call'[c].pc = "idle"
    BY <1>8, OwnTypes DEF Restart, AttendInv, TypeInv
  <2>2. ASSUME NEW t \in Titles, sessions'[t] # None
        PROVE  inst'[sessions'[t]].status = "paused"
    <3>1. disk[t] # None
      BY <1>8, <2>2 DEF Restart
    <3> QED
      BY <1>8, <3>1, OwnTypes, RestartObject DEF AttendInv
  <2> QED
    BY <2>1, <2>2 DEF OneTitle, LoadingAttended, StartPcs
<1>9. CASE UNCHANGED <<sessions, inst, call>>
  BY <1>2, <1>9, AttendKept
<1> QED
  BY <1>3, <1>4, <1>5, <1>6, <1>7, <1>8, <1>9, AttendCalls
     DEF Next, IndexSession, StopIndexer, ProcessExits, ProcessCommits, StrayExits, StrayCommits,
         TreeDeleted, vars

\* Whatever the calls do to one another, a session that shows Loading has a
\* StartSession at work on it: the error path takes its instance out of the
\* map, or another Start has marked it running (StartSession).
THEOREM StartsAttended == Spec => []LoadingAttended
<1>1. Init => AttendInv
  <2> SUFFICES ASSUME Init PROVE OneTitle /\ LoadingAttended
    BY OwnInvInit DEF AttendInv
  <2> QED
    BY DEF Init, OneTitle, LoadingAttended, NoCall, StartPcs
<1>2. AttendInv => LoadingAttended
  BY DEF AttendInv
<1> QED
  BY <1>1, <1>2, AttendNext, PTL DEF Spec
=============================================================================
