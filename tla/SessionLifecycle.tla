-------------------------- MODULE SessionLifecycle --------------------------
(***************************************************************************)
(* The life of a session, from CreateSession to KillSession, as            *)
(* app/bindings.go (SessionAPI) and session/instance.go (Instance) run it. *)
(*                                                                         *)
(* SessionAPI guards its maps with one mutex.  An operation that keeps the *)
(* mutex to the end is one action here.  StartSession and KillSession drop *)
(* it around the slow git and process work, so each is a call whose steps  *)
(* interleave with everything else; a Caller is one such call in flight.   *)
(*                                                                         *)
(* An instance object, a worktree (its unique path and the branch made     *)
(* with it) and a process are identified by Insts, Trees and Procs: a      *)
(* title can be reused while the objects of its earlier owner still exist. *)
(***************************************************************************)
EXTENDS Naturals, FiniteSets

CONSTANTS
  Titles,           \* session titles, the keys of SessionAPI's maps
  Insts,            \* instance objects: at most this many are ever created
  Trees,            \* worktree paths (with their branches)
  Procs,            \* process ids of the process managers
  Callers,          \* StartSession and KillSession calls in flight at once
  Kinds,            \* the kinds of session the user creates
  UserDeletesTrees, \* whether the user removes worktrees by hand
  None

ASSUME ConstantsAssumption ==
  /\ None \notin Insts /\ None \notin Trees /\ None \notin Procs /\ None \notin Titles
  /\ Kinds \subseteq {"worktree", "inplace", "remote"}
  /\ UserDeletesTrees \in BOOLEAN

\* None is no record of the file.
ASSUME RecordsAssumption == None \notin [inst : Insts, tree : Trees \cup {None}]

VARIABLES
  up,        \* whether the application runs
  sessions,  \* SessionAPI.instances
  disk,      \* the instances of state.json, by title
  unsaved,   \* whether the last save failed
  indexers,  \* SessionAPI.indexers: the instance whose tree is indexed
  loose,     \* instances with a running indexer that is in no map
  inst,      \* the fields of every instance object
  procs,     \* the instance a process runs for, None when it does not run
             \* or the instance has another process manager by now
  strays,    \* instances with a process in a manager they no longer have
  trees,     \* worktree directories that exist
  commits,   \* worktrees whose branch holds commits of the session
  call,      \* the StartSession and KillSession calls
  moved,     \* calls spawning for an instance that got another manager since
  overtaken, \* history: instances whose Start met another Start or a Kill
  replaced   \* history: instances a namesake has pushed out of the map

vars == <<up, sessions, disk, unsaved, indexers, loose, inst, procs, strays,
          trees, commits, call, moved, overtaken, replaced>>

Statuses == {"unused", "ready", "loading", "running", "paused"}

\* Steps of a StartSession that has no process yet.
StartPcs == {"construct", "setup", "spawn", "failed"}
Pcs == StartPcs \cup {"idle", "publish", "index", "process", "cleanup"}

NoInstance == [status |-> "unused", kind |-> "worktree", started |-> FALSE,
               proc |-> None, tree |-> None, baseRef |-> FALSE]
NoCall == [pc |-> "idle", inst |-> None, title |-> None]

-----------------------------------------------------------------------------
\* Helpers.

\* The records SaveInstances writes: only instances that have started.
Persisted(S, I) ==
  [t \in Titles |->
     IF S[t] # None /\ I[S[t]].started
     THEN [inst |-> S[t], tree |-> I[S[t]].tree]
     ELSE None]

\* Mutant of Save: the file is written before the map changes.
SaveTooEarly == disk' = Persisted(sessions, inst') /\ unsaved' = FALSE

\* A write that fails is only logged.  It leaves the old file, or one cut
\* short, which NewSessionAPI reads as no session at all.
SaveFails == disk' \in {disk, [t \in Titles |-> None]} /\ unsaved' = TRUE

\* saveInstancesLocked, after the step's changes to the map and the objects.
Save ==
  \/ disk' = Persisted(sessions', inst') /\ unsaved' = FALSE
  \/ SaveFails

\* A process id no process and no instance uses (the managers' counters).
FreshProcs == {p \in Procs : procs[p] = None /\ \A i \in Insts : inst[i].proc # p}

\* A worktree path nothing refers to (the path ends in the current time).
FreshTrees ==
  {T \in Trees : /\ T \notin trees \cup commits
                 /\ \A i \in Insts : inst[i].tree # T
                 /\ \A t \in Titles : disk[t] # None => disk[t].tree # T}

\* Start and Resume mark instance i running, with process p; its other
\* fields are r.
Runs(i, r, p) ==
  inst' = [inst EXCEPT ![i] = [r EXCEPT !.status = "running", !.started = TRUE, !.proc = p]]

\* Instance.spawnProcess succeeds for i, beside the processes P.
Spawned(i, r, P) ==
  \E p \in FreshProcs : Runs(i, r, p) /\ procs' = [P EXCEPT ![p] = i]

\* It succeeds in the manager i had when the call began, not the one it has.
SpawnedAstray(i, r) ==
  /\ \E p \in FreshProcs : Runs(i, r, p)
  /\ strays' = strays \cup {i}
  /\ UNCHANGED procs

\* The processes once the process of instance i is killed.
WithoutProcessOf(i) ==
  [p \in Procs |-> IF p = inst[i].proc THEN None ELSE procs[p]]

\* GitWorktree.Cleanup of T, with trees and commits at tr and cm before it:
\* the directory may resist, and the branch goes only after the directory.
CleanupFrom(T, tr, cm) ==
  /\ trees' \in {tr, tr \ {T}}
  /\ commits' \in IF T \in trees' THEN {cm} ELSE {cm, cm \ {T}}

Cleanup(T) == CleanupFrom(T, trees, commits)

\* The commits left by GitWorktree.Setup: setupFromRef deletes the branch,
\* while a worktree restored from storage is set up from the branch it finds.
CommitsAfterSetup(i) ==
  IF inst[i].baseRef THEN commits \ {inst[i].tree} ELSE commits

Goto(c, pc) == call' = [call EXCEPT ![c].pc = pc]

\* Mutant of Return: the finished call keeps its instance.
ReturnKeepsInstance(c) == Goto(c, "idle")

Return(c) == call' = [call EXCEPT ![c] = NoCall]

Starting(i) == \E c \in Callers : call[c].inst = i /\ call[c].pc \in StartPcs

-----------------------------------------------------------------------------
\* The application starts, with no session and an empty state.json.
Init ==
  /\ up = TRUE
  /\ sessions = [t \in Titles |-> None]
  /\ disk = [t \in Titles |-> None]
  /\ unsaved = FALSE
  /\ indexers = [t \in Titles |-> None]
  /\ loose = {}
  /\ inst = [i \in Insts |-> NoInstance]
  /\ procs = [p \in Procs |-> None]
  /\ strays = {}
  /\ trees = {}
  /\ commits = {}
  /\ call = [c \in Callers |-> NoCall]
  /\ moved = {}
  /\ overtaken = {}
  /\ replaced = {}

-----------------------------------------------------------------------------
\* CreateSession: a session of the same title is replaced in the map, and is
\* not in the file any more.
CreateSession(t, k) ==
  /\ up
  /\ \E i \in Insts :
       /\ inst[i].status = "unused"
       /\ inst' = [inst EXCEPT ![i] = [NoInstance EXCEPT !.status = "ready", !.kind = k]]
       /\ sessions' = [sessions EXCEPT ![t] = i]
  /\ replaced' = replaced \cup ({sessions[t]} \ {None})
  /\ Save
  /\ UNCHANGED <<up, indexers, loose, procs, strays, trees, commits, call, moved, overtaken>>

\* StartSession up to the first unlock.
StartBegin(c, t) ==
  LET i == sessions[t] IN
  /\ up /\ call[c].pc = "idle"
  /\ i # None /\ ~inst[i].started
  /\ inst' = [inst EXCEPT ![i].status = "loading"]
  /\ call' = [call EXCEPT ![c] =
       [pc |-> IF inst[i].kind = "inplace" THEN "spawn" ELSE "construct",
        inst |-> i, title |-> t]]
  /\ overtaken' = IF Starting(i) THEN overtaken \cup {i} ELSE overtaken
  /\ UNCHANGED <<up, sessions, disk, unsaved, indexers, loose, procs, strays, trees, commits, moved, replaced>>

\* Start builds the GitWorktree object: from a ref, from HEAD, or not at all.
StartConstruct(c) ==
  LET i == call[c].inst IN
  /\ call[c].pc = "construct"
  /\ \/ \E T \in FreshTrees, ref \in BOOLEAN :
          /\ inst' = [inst EXCEPT ![i].tree = T, ![i].baseRef = ref]
          /\ Goto(c, "setup")
     \/ Goto(c, "failed") /\ UNCHANGED inst
  /\ UNCHANGED <<up, sessions, disk, unsaved, indexers, loose, procs, strays, trees, commits, moved, overtaken, replaced>>

\* GitWorktree.Setup: an error can come before or after the worktree is there.
StartSetup(c) ==
  LET i == call[c].inst
      T == inst[i].tree IN
  /\ call[c].pc = "setup"
  /\ \/ trees' = trees \cup {T} /\ Goto(c, "spawn")
     \/ trees' \in {trees \ {T}, trees \cup {T}} /\ Goto(c, "failed")
  /\ commits' = CommitsAfterSetup(i)
  /\ UNCHANGED <<up, sessions, disk, unsaved, indexers, loose, inst, procs, strays, moved, overtaken, replaced>>

\* spawnProcess and the end of Start; a failed spawn removes the worktree.
StartSpawn(c) ==
  LET i == call[c].inst IN
  /\ call[c].pc = "spawn"
  /\ moved' = moved \ {c}
  /\ \/ /\ \/ Spawned(i, inst[i], procs) /\ UNCHANGED strays
           \/ c \in moved /\ SpawnedAstray(i, inst[i])
        /\ Goto(c, "publish")
        /\ UNCHANGED <<trees, commits>>
     \/ /\ Cleanup(inst[i].tree)
        /\ Goto(c, "failed")
        /\ UNCHANGED <<inst, procs, strays>>
  /\ UNCHANGED <<up, sessions, disk, unsaved, indexers, loose, overtaken, replaced>>

\* Mutant of StartFailed: the failed session stays in the map.
StartFailedStays(c) ==
  /\ call[c].pc = "failed"
  /\ Return(c)
  /\ UNCHANGED <<up, sessions, disk, unsaved, indexers, loose, inst, procs, strays, trees, commits, moved, overtaken, replaced>>

\* StartSession's error path.  Kill does nothing to an instance that has not
\* started, and the map entry goes by title, whoever it names by now.
StartFailed(c) ==
  LET i == call[c].inst
      t == call[c].title
      other == {sessions[t]} \ {i, None} IN
  /\ call[c].pc = "failed"
  /\ indexers' = [indexers EXCEPT ![t] = None]
  /\ IF inst[i].started
     THEN /\ procs' = WithoutProcessOf(i)
          /\ inst' = [inst EXCEPT ![i].proc = None]
          /\ Cleanup(inst[i].tree)
     ELSE UNCHANGED <<procs, inst, trees, commits>>
  /\ sessions' = [sessions EXCEPT ![t] = None]
  /\ Save
  /\ Return(c)
  /\ replaced' = replaced \cup other
  /\ UNCHANGED <<up, loose, strays, moved, overtaken>>

\* The indexer StartSession starts; it does not look for one already there.
IndexStarted(t, i) ==
  IF inst[i].kind = "remote"
  THEN UNCHANGED <<indexers, loose>>
  ELSE /\ indexers' = [indexers EXCEPT ![t] = i]
       /\ loose' = loose \cup ({indexers[t]} \ {None})

\* Mutant of StartPublish: the session is put back into the map.
StartPublishReinserts(c) ==
  /\ call[c].pc = "publish"
  /\ sessions' = [sessions EXCEPT ![call[c].title] = call[c].inst]
  /\ IndexStarted(call[c].title, call[c].inst)
  /\ Return(c)
  /\ UNCHANGED <<up, inst, procs, strays, trees, commits, moved, overtaken, replaced>>
  /\ Save

\* The success path under the lock.  With submodule failures the lock is
\* dropped between the save and the indexer.
StartPublish(c) ==
  /\ call[c].pc = "publish"
  /\ \/ IndexStarted(call[c].title, call[c].inst) /\ Return(c)
     \/ Goto(c, "index") /\ UNCHANGED <<indexers, loose>>
  /\ UNCHANGED <<up, sessions, inst, procs, strays, trees, commits, moved, overtaken, replaced>>
  /\ Save

StartIndex(c) ==
  /\ call[c].pc = "index"
  /\ IndexStarted(call[c].title, call[c].inst)
  /\ Return(c)
  /\ UNCHANGED <<up, sessions, disk, unsaved, inst, procs, strays, trees, commits, moved, overtaken, replaced>>

StartStep(c) ==
  \/ StartConstruct(c) \/ StartSetup(c) \/ StartSpawn(c)
  \/ StartFailed(c) \/ StartPublish(c) \/ StartIndex(c)

-----------------------------------------------------------------------------
\* KillSession up to the unlock: the session leaves the maps and the file.
KillBegin(c, t) ==
  LET i == sessions[t] IN
  /\ up /\ call[c].pc = "idle"
  /\ i # None
  /\ indexers' = [indexers EXCEPT ![t] = None]
  /\ sessions' = [sessions EXCEPT ![t] = None]
  /\ call' = [call EXCEPT ![c] = [pc |-> "process", inst |-> i, title |-> t]]
  /\ overtaken' = IF Starting(i) THEN overtaken \cup {i} ELSE overtaken
  /\ UNCHANGED <<up, loose, inst, procs, strays, trees, commits, moved, replaced>>
  /\ Save

\* Mutant of KillProcess: the worktree goes, the process stays.
KillTreeFirst(c) ==
  /\ call[c].pc = "process"
  /\ Cleanup(inst[call[c].inst].tree)
  /\ Goto(c, "cleanup")
  /\ UNCHANGED <<up, sessions, disk, unsaved, indexers, loose, inst, procs, strays, moved, overtaken, replaced>>

\* Instance.Kill: nothing for an instance that has not started; otherwise
\* first the process, whatever Kill says of an id its manager does not know ...
KillProcess(c) ==
  LET i == call[c].inst IN
  /\ call[c].pc = "process"
  /\ IF inst[i].started
     THEN /\ procs' = WithoutProcessOf(i)
          /\ inst' = [inst EXCEPT ![i].proc = None]
          /\ Goto(c, "cleanup")
     ELSE Return(c) /\ UNCHANGED <<procs, inst>>
  /\ UNCHANGED <<up, sessions, disk, unsaved, indexers, loose, strays, trees, commits, moved, overtaken, replaced>>

\* ... and then the worktree.
KillCleanup(c) ==
  /\ call[c].pc = "cleanup"
  /\ Cleanup(inst[call[c].inst].tree)
  /\ Return(c)
  /\ UNCHANGED <<up, sessions, disk, unsaved, indexers, loose, inst, procs, strays, moved, overtaken, replaced>>

KillStep(c) == KillProcess(c) \/ KillCleanup(c)

-----------------------------------------------------------------------------
\* Instance.Resume of i, whose fields are r when it is called, beside the
\* processes P.  Setup runs only when the directory is missing; a --continue
\* that finds no conversation is killed and respawned within the same call.
TreeMissing(r) == r.tree # None /\ r.tree \notin trees

CommitsAfterResume(i) ==
  IF TreeMissing(inst[i]) THEN CommitsAfterSetup(i) ELSE commits

\* Mutant of Resumed: a session that is not paused is resumed all the same.
ResumedUnchecked(i, r, P) ==
  /\ r.started
  /\ Spawned(i, r, P)
  /\ trees' = trees \cup ({r.tree} \ {None})
  /\ commits' = CommitsAfterResume(i)

Resumed(i, r, P) ==
  /\ r.started /\ r.status = "paused"
  /\ Spawned(i, r, P)
  /\ trees' = trees \cup ({r.tree} \ {None})
  /\ commits' = CommitsAfterResume(i)

\* The branch is checked out elsewhere, git fails, or an in-place spawn does.
ResumeRefused(i, r) ==
  /\ inst' = [inst EXCEPT ![i] = r]
  /\ UNCHANGED <<trees, commits>>

ResumeSetupFailed(i, r) ==
  /\ TreeMissing(r)
  /\ inst' = [inst EXCEPT ![i] = r]
  /\ trees' \in {trees, trees \cup {r.tree}}
  /\ commits' = CommitsAfterResume(i)

\* A failed spawn cleans the worktree up; after the fallback spawn fails the
\* instance keeps the id of the first, dead process.
ResumeSpawnFailed(i, r) ==
  /\ r.tree # None
  /\ \E p \in {r.proc} \cup FreshProcs : inst' = [inst EXCEPT ![i] = [r EXCEPT !.proc = p]]
  /\ CleanupFrom(r.tree, trees \cup {r.tree}, CommitsAfterResume(i))

\* Mutant of ResumeFailed: it cleans up after a session that is not paused.
ResumeFailedUnchecked(i, r, P) ==
  /\ r.started
  /\ ResumeSpawnFailed(i, r)
  /\ procs' = P

ResumeFailed(i, r, P) ==
  /\ r.started /\ r.status = "paused"
  /\ ResumeRefused(i, r) \/ ResumeSetupFailed(i, r) \/ ResumeSpawnFailed(i, r)
  /\ procs' = P

\* The indexer OpenSession starts: only for a local session without one.
IndexOpened(t, i) ==
  IF indexers[t] = None /\ inst[i].kind # "remote"
  THEN indexers' = [indexers EXCEPT ![t] = i]
  ELSE UNCHANGED indexers

\* Instance.ForcePause: the fields change, the process is left alone.
ForcePaused(i) == [inst[i] EXCEPT !.status = "paused", !.proc = None]

\* The processes the managers know once instance i has a renewed one, that
\* of a new connection to its host.
KnownProcs(i, renewed) ==
  [p \in Procs |-> IF renewed /\ procs[p] = i THEN None ELSE procs[p]]

\* The instance once OpenSession has asked its manager for its process: one
\* that has exited, or that a renewed manager does not know and takes for
\* exited, forces the instance into Paused.
Reconnected(i, renewed) ==
  IF /\ inst[i].kind = "remote" /\ inst[i].status # "paused"
     /\ inst[i].proc # None /\ KnownProcs(i, renewed)[inst[i].proc] = None
  THEN ForcePaused(i)
  ELSE inst[i]

\* What the renewed manager leaves behind: the running process of i, and
\* calls that may be spawning in the old one.
LeftBehind(i, renewed) ==
  /\ strays' = IF renewed /\ \E p \in Procs : procs[p] = i
               THEN strays \cup {i} ELSE strays
  /\ moved' = IF renewed
              THEN moved \cup {c \in Callers : call[c].inst = i /\ call[c].pc = "spawn"}
              ELSE moved

\* OpenSession of a session that is, or becomes, paused; or that is not.
OpenSession(t) ==
  LET i == sessions[t] IN
  /\ up /\ i # None
  /\ UNCHANGED <<up, sessions, loose, call, overtaken, replaced>>
  /\ \E renewed \in {inst[i].kind = "remote", FALSE} :
       LET r == Reconnected(i, renewed)
           P == KnownProcs(i, renewed) IN
       /\ LeftBehind(i, renewed)
       /\ \/ Resumed(i, r, P) /\ IndexOpened(t, i) /\ Save
          \/ ResumeFailed(i, r, P) /\ UNCHANGED <<disk, unsaved, indexers>>
          \/ /\ r.status # "paused"
             /\ IndexOpened(t, i)
             /\ procs' = P
             /\ UNCHANGED <<disk, unsaved, inst, trees, commits>>

ResumeSession(t) ==
  LET i == sessions[t] IN
  /\ up /\ i # None
  /\ UNCHANGED <<up, sessions, indexers, loose, strays, call, moved, overtaken, replaced>>
  /\ \/ Resumed(i, inst[i], procs) /\ Save
     \/ ResumeFailed(i, inst[i], procs) /\ UNCHANGED <<disk, unsaved>>

\* Instance.Pause of a started instance that is not paused: the id is
\* forgotten even when the manager does not know it and Kill fails.
Paused(i) ==
  /\ procs' = WithoutProcessOf(i)
  /\ inst' = [inst EXCEPT ![i].status = "paused", ![i].proc = None]

\* PauseSession: the indexer stops even when Pause then refuses.
PauseSession(t) ==
  LET i == sessions[t] IN
  /\ up /\ i # None
  /\ indexers' = [indexers EXCEPT ![t] = None]
  /\ UNCHANGED <<up, sessions, loose, strays, trees, commits, call, moved, overtaken, replaced>>
  /\ IF inst[i].started /\ inst[i].status # "paused"
     THEN Paused(i) /\ Save
     ELSE UNCHANGED <<procs, inst, disk, unsaved>>

\* IndexSession restarts the indexer; a paused or remote session gets none.
IndexSession(t) ==
  LET i == sessions[t] IN
  /\ up
  /\ indexers' = [indexers EXCEPT ![t] =
       IF i # None /\ inst[i].status # "paused" /\ inst[i].kind # "remote" THEN i ELSE None]
  /\ UNCHANGED <<up, sessions, disk, unsaved, loose, inst, procs, strays, trees, commits, call, moved, overtaken, replaced>>

StopIndexer(t) ==
  /\ up
  /\ indexers' = [indexers EXCEPT ![t] = None]
  /\ UNCHANGED <<up, sessions, disk, unsaved, loose, inst, procs, strays, trees, commits, call, moved, overtaken, replaced>>

-----------------------------------------------------------------------------
\* The application ends, with Close or in a crash.  Either way its memory
\* goes, and the processes with their terminals; Close saves first.
Stop(saved) ==
  /\ up
  /\ up' = FALSE
  /\ \/ saved /\ disk' = Persisted(sessions, inst) /\ unsaved' = FALSE
     \/ saved /\ SaveFails
     \/ ~saved /\ UNCHANGED <<disk, unsaved>>
  /\ sessions' = [t \in Titles |-> None]
  /\ indexers' = [t \in Titles |-> None]
  /\ loose' = {}
  /\ procs' = [p \in Procs |-> None]
  /\ strays' = {}
  /\ call' = [c \in Callers |-> NoCall]
  /\ moved' = {}
  /\ overtaken' = {}
  /\ replaced' = {}
  /\ UNCHANGED <<inst, trees, commits>>

Close == Stop(TRUE)
Crash == Stop(FALSE)

\* FromInstanceData of the record d, whose status is forced to Paused: the
\* worktree is restored without the ref it was made from.
Restored(d) ==
  [inst[d.inst] EXCEPT !.status = "paused", !.started = TRUE, !.proc = None,
                       !.tree = d.tree, !.baseRef = FALSE]

\* NewSessionAPI: every session of the file comes back, paused.
Restart ==
  LET saved == {disk[t] : t \in Titles} \ {None} IN
  /\ ~up
  /\ up' = TRUE
  /\ unsaved' = FALSE
  /\ sessions' = [t \in Titles |-> IF disk[t] = None THEN None ELSE disk[t].inst]
  /\ inst' = [i \in Insts |->
       IF \E d \in saved : d.inst = i
       THEN Restored(CHOOSE d \in saved : d.inst = i)
       ELSE [inst[i] EXCEPT !.proc = None]]
  /\ UNCHANGED <<disk, indexers, loose, procs, strays, trees, commits, call, moved, overtaken, replaced>>

\* The world around it: a process exits by itself, or commits its work; the
\* user removes the directory of a session that runs nothing there.
ProcessExits(p) ==
  /\ procs[p] # None
  /\ procs' = [procs EXCEPT ![p] = None]
  /\ UNCHANGED <<up, sessions, disk, unsaved, indexers, loose, inst, strays, trees, commits, call, moved, overtaken, replaced>>

ProcessCommits(p) ==
  /\ procs[p] # None
  /\ inst[procs[p]].tree \in trees
  /\ commits' = commits \cup {inst[procs[p]].tree}
  /\ UNCHANGED <<up, sessions, disk, unsaved, indexers, loose, inst, procs, strays, trees, call, moved, overtaken, replaced>>

StrayExits(i) ==
  /\ i \in strays
  /\ strays' = strays \ {i}
  /\ UNCHANGED <<up, sessions, disk, unsaved, indexers, loose, inst, procs, trees, commits, call, moved, overtaken, replaced>>

StrayCommits(i) ==
  /\ i \in strays /\ inst[i].tree \in trees
  /\ commits' = commits \cup {inst[i].tree}
  /\ UNCHANGED <<up, sessions, disk, unsaved, indexers, loose, inst, procs, strays, trees, call, moved, overtaken, replaced>>

TreeDeleted(T) ==
  /\ UserDeletesTrees
  /\ T \in trees
  /\ \A p \in Procs : procs[p] # None => inst[procs[p]].tree # T
  /\ \A i \in strays : inst[i].tree # T
  /\ \A c \in Callers : call[c].pc # "idle" => inst[call[c].inst].tree # T
  /\ trees' = trees \ {T}
  /\ UNCHANGED <<up, sessions, disk, unsaved, indexers, loose, inst, procs, strays, commits, call, moved, overtaken, replaced>>

Next ==
  \/ \E t \in Titles :
       \/ \E k \in Kinds : CreateSession(t, k)
       \/ \E c \in Callers : StartBegin(c, t) \/ KillBegin(c, t)
       \/ OpenSession(t) \/ ResumeSession(t) \/ PauseSession(t)
       \/ IndexSession(t) \/ StopIndexer(t)
  \/ \E c \in Callers : StartStep(c) \/ KillStep(c)
  \/ Close \/ Crash \/ Restart
  \/ \E p \in Procs : ProcessExits(p) \/ ProcessCommits(p)
  \/ \E i \in Insts : StrayExits(i) \/ StrayCommits(i)
  \/ \E T \in Trees : TreeDeleted(T)

Spec == Init /\ [][Next]_vars

-----------------------------------------------------------------------------
(***************************************************************************)
(* Properties.                                                             *)
(***************************************************************************)

\* The types of the state; a call in flight is about an instance, an idle
\* one about none (StartSession, KillSession).
TypeOK ==
  /\ up \in BOOLEAN
  /\ sessions \in [Titles -> Insts \cup {None}]
  /\ disk \in [Titles -> [inst : Insts, tree : Trees \cup {None}] \cup {None}]
  /\ indexers \in [Titles -> Insts \cup {None}]
  /\ loose \subseteq Insts
  /\ inst \in [Insts -> [status : Statuses, kind : {"worktree", "inplace", "remote"},
                         started : BOOLEAN, proc : Procs \cup {None},
                         tree : Trees \cup {None}, baseRef : BOOLEAN]]
  /\ procs \in [Procs -> Insts \cup {None}]
  /\ trees \subseteq Trees
  /\ commits \subseteq Trees
  /\ call \in [Callers -> [pc : Pcs, inst : Insts \cup {None}, title : Titles \cup {None}]]
  /\ \A c \in Callers : call[c].pc = "idle" <=> call[c].inst = None
  /\ overtaken \subseteq Insts
  /\ replaced \subseteq Insts
  /\ strays \subseteq Insts
  /\ moved \subseteq Callers
  /\ unsaved \in BOOLEAN

\* Instance i is in the map, or a call that will dispose of it is in flight.
Reachable(i) ==
  \/ \E t \in Titles : sessions[t] = i
  \/ \E c \in Callers : call[c].inst = i /\ call[c].pc = "process"

\* Every process that its instance's manager knows is the current process of
\* an instance somebody can still stop, and that is not taken for paused
\* (Pause, ForcePause, NewSessionAPI): none is lost by Start, Pause, Resume or
\* Kill, whatever their interleaving, unless the instance was overtaken while
\* it started or a namesake has pushed it out of the map.  A process its
\* manager does not know is lost only with the connection to a remote host.
ProcessOwned ==
  /\ \A p \in Procs : procs[p] # None =>
       \/ /\ inst[procs[p]].proc = p
          /\ Reachable(procs[p]) \/ procs[p] \in replaced
          /\ inst[procs[p]].status = "paused" => \A t \in Titles : sessions[t] # procs[p]
       \/ procs[p] \in overtaken
  /\ \A i \in strays : inst[i].kind = "remote"

\* No process runs in a worktree that was removed: Kill stops the process
\* before it cleans up, and Resume recreates the directory before it spawns.
ProcessHasTree ==
  \A p \in Procs : procs[p] # None /\ inst[procs[p]].tree # None =>
    \/ inst[procs[p]].tree \in trees
    \/ procs[p] \in overtaken

\* What a crash would lose: unless the last save failed, the file holds
\* exactly the started sessions of the map, with their worktrees, except for a
\* session whose StartSession has not got the lock back yet.
Publishing(i) == \E c \in Callers : call[c].inst = i /\ call[c].pc = "publish"

DiskAgrees ==
  up /\ ~unsaved => \A t \in Titles :
    /\ disk[t] # None =>
         /\ sessions[t] = disk[t].inst
         /\ inst[disk[t].inst].started
         /\ inst[disk[t].inst].tree = disk[t].tree \/ disk[t].inst \in overtaken
    /\ sessions[t] # None /\ inst[sessions[t]].started =>
         disk[t] # None \/ Publishing(sessions[t])

\* The commits of a session that stays in the map and has a live process that
\* its manager knows, before the step and after it, are never thrown away:
\* only Kill, a failed Resume and the Setup of a missing worktree delete a
\* branch, and none of them happens under the process.
LiveKeepsCommits ==
  [][\A t \in Titles :
       LET i == sessions[t] IN
       i # None /\ sessions'[t] = i /\ i \notin overtaken'
         /\ (\E p \in Procs : procs[p] = i /\ procs'[p] = i) /\ inst[i].tree \in commits
       => inst[i].tree \in commits']_vars

\* The state a caller of the API sees of the session with title t.
StateOf(t) ==
  IF ~up THEN IF disk[t] = None THEN "absent" ELSE "paused"
  ELSE IF sessions[t] = None THEN "absent"
  ELSE IF ~inst[sessions[t]].started THEN "new"
  ELSE IF inst[sessions[t]].status = "paused" THEN "paused"
  ELSE "running"

\* However the calls overlap, crash or fail, a title goes through the states
\* of SessionRegistry only: a session that was killed does not come back when
\* its StartSession returns, and none is resumed that was not paused.
Registry ==
  INSTANCE SessionRegistry WITH state <- [t \in Titles |-> StateOf(t)], saved <- ~unsaved
RegistrySpec == Registry!Spec

\* A session in the map that shows Loading has a StartSession at work on it, or
\* about to remove it: no error path, no namesake and no call that overlaps
\* leaves one behind that nobody will start or take out of the list.
LoadingAttended ==
  \A t \in Titles :
    sessions[t] # None /\ inst[sessions[t]].status = "loading" => Starting(sessions[t])
=============================================================================
