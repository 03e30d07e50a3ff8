---------------------------- MODULE GitWorktree -----------------------------
(***************************************************************************)
(* The git worktrees of the sessions of one repository                     *)
(* (session/git/worktree.go, worktree_ops.go, executor_timeout.go,         *)
(* session/cleanup.go).  Each session has a GitWorktree object with a path *)
(* of its own, but the branches, the list of worktrees and the submodules' *)
(* remotes are shared, and StartSession and KillSession run without the    *)
(* lock of the API: each git command is a step, and the user's own         *)
(* commands and `reset' come in between.                                   *)
(*                                                                         *)
(* All the sessions' titles give the same branch name, so that the objects *)
(* compete: a name is the number appended to it, 0 when none is.           *)
(***************************************************************************)
EXTENDS Naturals, FiniteSets

CONSTANTS
  Tree,      \* GitWorktree objects, and their paths
  MaxIndex,  \* bound: the largest number tried (100 in the code)
  Sub,       \* the submodules
  Orphan,    \* processes started from a worktree that outlive its agent
  Attempts,  \* submoduleFetchAttempts
  MaxActs,   \* bound: commands of the user, pushes and restarts
  None

ASSUME ConstantsAssumption ==
  MaxIndex \in Nat /\ Attempts \in Nat \ {0} /\ MaxActs \in Nat /\ None \notin Tree
    /\ None \notin Sub /\ None \notin Nat
    /\ \A x \in {"user", "retry"} : x \notin Tree /\ x # None

Name == 0 .. MaxIndex

VARIABLES
  owner,     \* who made a local branch, None when there is none
  late,      \* history: objects that had chosen the name before
  remote,    \* branches of origin
  listed,    \* git worktree list: the branch a path has checked out
  dir,       \* paths that exist
  main,      \* the branch the repository itself has checked out
  obj,       \* the GitWorktree objects and the calls that use them
  job,       \* the submodule setup of each tree and of RetrySubmodules
  filled,    \* submodules whose directory is populated
  failures,  \* Instance.submoduleFailures
  unsure,    \* history: trees whose failures do not tell: the submodules were
             \* not listed, or a retry or a restart has upset them
  orphan,    \* the worktree a process was started from
  doomed,    \* the processes KillWorktreeProcesses has found
  reset,     \* the reset command: what it has still to remove
  acts

repo == <<owner, late, remote, listed, dir, main>>
modules == <<job, filled, failures, unsure>>
processes == <<orphan, doomed>>
vars == <<repo, obj, modules, processes, reset, acts>>

Retry == "retry"
Worker == Tree \cup {Retry}

NoObject == [pc |-> "none", name |-> 0, fallback |-> FALSE, restored |-> FALSE,
             how |-> "ref", call |-> "start", err |-> FALSE]
NoJob == [tree |-> None, todo |-> {}, cur |-> None, stage |-> "init", tries |-> 0,
          hung |-> FALSE, bad |-> {}]

Exists(n) == owner[n] # None

\* git refuses to delete, or to check out again, what a worktree has.
CheckedOut(n) == main = n \/ \E t \in Tree : listed[t] = n

Goto(t, pc) == obj' = [obj EXCEPT ![t].pc = pc]

\* A branch is made by w, one that other objects may have chosen already.
NewBranch(n, w) ==
  /\ owner' = [owner EXCEPT ![n] = w]
  /\ late' = [late EXCEPT ![n] = {t \in Tree : obj[t].pc # "none" /\ obj[t].name = n}]

\* git branch -D, which fails without harm.
DeleteBranch(n) ==
  /\ owner' = IF CheckedOut(n) THEN owner ELSE [owner EXCEPT ![n] = None]
  /\ late' = late

\* git worktree remove -f: the directory may resist, the entry does not.
RemoveWorktree(t) ==
  IF listed[t] = None
  THEN UNCHANGED <<listed, dir>>
  ELSE /\ listed' = [listed EXCEPT ![t] = None]
       /\ dir' \in {dir, dir \ {t}}

\* git worktree prune.
Prune == listed' = [t \in Tree |-> IF t \in dir THEN listed[t] ELSE None]

-----------------------------------------------------------------------------
Init ==
  /\ owner = [n \in Name |-> None] /\ late = [n \in Name |-> {}] /\ remote = {}
  /\ listed = [t \in Tree |-> None] /\ dir = {} /\ main = None
  /\ obj = [t \in Tree |-> NoObject]
  /\ job = [w \in Worker |-> NoJob] /\ filled = {} /\ failures = [t \in Tree |-> {}]
  /\ unsure = {}
  /\ orphan = [o \in Orphan |-> None] /\ doomed = [t \in Tree |-> {}]
  /\ reset = [pc |-> "idle", todo |-> {}, seen |-> {}] /\ acts = 0

Taken(n) == Exists(n) \/ n \in remote

\* Mutant of Deduplicated: the plain name, taken or not.
DeduplicatedNot == 0

Free == {n \in Name : ~Taken(n)}

\* deduplicateBranchName: the first name that is free, or the plain one.
Deduplicated == IF Free = {} THEN 0 ELSE CHOOSE n \in Free : \A m \in Free : n <= m

\* NewGitWorktreeFromRef, called by Instance.Start.
Construct(t) ==
  /\ obj[t].pc = "none"
  /\ obj' = [obj EXCEPT ![t] = [NoObject EXCEPT !.pc = "setup", !.name = Deduplicated,
                                                !.fallback = Free = {}]]
  /\ UNCHANGED <<repo, modules, processes, reset, acts>>

\* Setup: an object made in this run sets up from its ref, one restored from
\* storage from its branch when that exists.
SetupBegins(t) ==
  /\ obj[t].pc = "setup"
  /\ obj' = [obj EXCEPT ![t].pc = "remove",
                        ![t].how = IF ~obj[t].restored THEN "ref"
                                   ELSE IF Exists(obj[t].name) THEN "existing" ELSE "new"]
  /\ UNCHANGED <<repo, modules, processes, reset, acts>>

RemoveOld(t) ==
  /\ obj[t].pc = "remove"
  /\ RemoveWorktree(t)
  /\ filled' = filled \ ({t} \X Sub)
  /\ Goto(t, IF obj[t].how = "existing" THEN "check" ELSE "delete")
  /\ UNCHANGED <<owner, late, remote, main, job, failures, unsure, processes, reset, acts>>

\* setupNewWorktree and setupFromRef: any branch of that name is deleted.
DeleteOld(t) ==
  /\ obj[t].pc = "delete"
  /\ DeleteBranch(obj[t].name)
  /\ Goto(t, "add")
  /\ UNCHANGED <<remote, listed, dir, main, modules, processes, reset, acts>>

\* setupFromExistingBranch looks for the branch, here and at origin.
CheckBranch(t) ==
  /\ obj[t].pc = "check"
  /\ Taken(obj[t].name)
  /\ Goto(t, IF Exists(obj[t].name) THEN "addOld" ELSE "add")
  /\ UNCHANGED <<repo, modules, processes, reset, acts>>

\* The worktree is there: the submodules are next.
Added(t) ==
  /\ t \notin dir
  /\ listed' = [listed EXCEPT ![t] = obj[t].name]
  /\ dir' = dir \cup {t}
  /\ Goto(t, "modules")
  /\ job' = [job EXCEPT ![t] = [NoJob EXCEPT !.tree = t, !.todo = Sub]]
  /\ unsure' = IF job[Retry].tree = t THEN unsure \cup {t} ELSE unsure \ {t}
  /\ UNCHANGED <<remote, main, filled, failures, processes, reset, acts>>

\* git worktree add -b
AddNew(t) ==
  /\ obj[t].pc = "add" /\ ~Exists(obj[t].name)
  /\ NewBranch(obj[t].name, t)
  /\ Added(t)

\* git worktree add of a branch that is there
AddOld(t) ==
  /\ obj[t].pc = "addOld" /\ Exists(obj[t].name) /\ ~CheckedOut(obj[t].name)
  /\ Added(t)
  /\ UNCHANGED <<owner, late>>

\* Where a call that fails leaves its session, and a kill that is done.
Failed(t) ==
  CASE obj[t].call = "start" -> "failed" [] obj[t].call = "kill" -> "gone" [] OTHER -> "paused"

\* Setup returns an error before the worktree is there: what it has done
\* stays, for Kill does nothing before the session has started.
SetupFails(t) ==
  /\ obj[t].pc \in {"check", "add", "addOld"}
  /\ Goto(t, Failed(t))
  /\ UNCHANGED <<repo, modules, processes, reset, acts>>

-----------------------------------------------------------------------------
\* initFetchAndVerifyOne, by the setup of a worktree or by RetrySubmodules.

Working(w) == job[w].cur # None

JobStep(w, r) == job' = [job EXCEPT ![w] = r]

\* initAndFetchSubmodules has the submodules still to list.
Listing(t) == obj[t].pc = "modules" /\ job[t] = [NoJob EXCEPT !.tree = t, !.todo = Sub]

\* It cannot list them: Setup returns an error though the worktree is there
\* by now, so that the next Resume finds the directory and runs no Setup ...
\* (Without submodules nothing was to be told of them.)
ListingFails(t) ==
  /\ Listing(t)
  /\ Goto(t, Failed(t))
  /\ JobStep(t, NoJob)
  /\ unsure' = IF Sub = {} THEN unsure ELSE unsure \cup {t}
  /\ UNCHANGED <<repo, filled, failures, processes, reset, acts>>

\* ... or git said nothing with its error, or a remote host did not answer
\* `test -f .gitmodules`: that is taken for a worktree with no submodules.
ListingEmpty(t) ==
  /\ Listing(t) /\ Sub # {}
  /\ JobStep(t, [job[t] EXCEPT !.todo = {}])
  /\ unsure' = unsure \cup {t}
  /\ UNCHANGED <<repo, obj, filled, failures, processes, reset, acts>>

\* The next submodule; a clone the repository has serves as reference.
ModuleBegins(w, s) ==
  /\ job[w].tree # None /\ ~Working(w) /\ s \in job[w].todo
  /\ \E stage \in {"reference", "init"} :
       JobStep(w, [job[w] EXCEPT !.cur = s, !.todo = @ \ {s}, !.stage = stage, !.tries = 1])
  /\ UNCHANGED <<repo, obj, filled, failures, unsure, processes, reset, acts>>

\* The submodule of w is done, well or badly.
ModuleEnds(w, ok) ==
  JobStep(w, [job[w] EXCEPT !.cur = None, !.stage = "init", !.tries = 0, !.hung = FALSE,
                            !.bad = IF ok THEN @ \ {job[w].cur} ELSE @ \cup {job[w].cur}])

ModuleAt(w, stage) ==
  JobStep(w, [job[w] EXCEPT !.stage = stage, !.tries = 1, !.hung = FALSE])

Here(w) == <<job[w].tree, job[w].cur>>

\* A command in the submodule may populate it, as may one that is killed.
MayFill(w) ==
  filled' \in {filled, IF job[w].tree \in dir THEN filled \cup {Here(w)} ELSE filled}

NextStage(stage) ==
  CASE stage = "reference" -> "fetch" [] stage = "init" -> "fetch"
    [] stage = "fetch" -> "checkout" [] stage = "checkout" -> "verify"

CommandSucceeds(w) ==
  /\ Working(w) /\ ~job[w].hung /\ job[w].stage # "verify" /\ job[w].tree \in dir
  /\ IF job[w].stage = "fetch" THEN filled' = filled ELSE MayFill(w)
  /\ ModuleAt(w, NextStage(job[w].stage))
  /\ UNCHANGED <<repo, obj, failures, unsure, processes, reset, acts>>

\* A reference that does not do is given up for a plain clone; any other
\* error ends the submodule, and is not tried again.
CommandFails(w) ==
  /\ Working(w) /\ ~job[w].hung /\ job[w].stage # "verify"
  /\ IF job[w].stage = "reference" THEN ModuleAt(w, "init") ELSE ModuleEnds(w, FALSE)
  /\ UNCHANGED <<repo, obj, filled, failures, unsure, processes, reset, acts>>

\* A network command hangs; a checkout does not.
CommandHangs(w) ==
  /\ Working(w) /\ ~job[w].hung /\ job[w].stage \in {"reference", "init", "fetch"}
  /\ JobStep(w, [job[w] EXCEPT !.hung = TRUE])
  /\ UNCHANGED <<repo, obj, filled, failures, unsure, processes, reset, acts>>

\* Mutant of Limited: a clone has no timeout.
LimitedFetch == {"fetch"}

\* The commands runCommandWithTimeout runs.
Limited == {"reference", "init", "fetch"}

\* runOneAttempt kills the process group of a command that has timed out,
\* which may have had its effect; only fetch is tried again.
CommandTimesOut(w) ==
  /\ Working(w) /\ job[w].hung /\ job[w].stage \in Limited
  /\ IF job[w].stage = "fetch" THEN filled' = filled ELSE MayFill(w)
  /\ CASE job[w].stage = "fetch" /\ job[w].tries < Attempts ->
            JobStep(w, [job[w] EXCEPT !.tries = @ + 1, !.hung = FALSE])
       [] job[w].stage = "reference" -> ModuleAt(w, "init")
       [] OTHER -> ModuleEnds(w, FALSE)
  /\ UNCHANGED <<repo, obj, failures, unsure, processes, reset, acts>>

\* Mutant of Populated: nothing is verified.
PopulatedUnverified(w) == TRUE

\* isSubmoduleDirEmpty
Populated(w) == Here(w) \in filled

Verify(w) ==
  /\ Working(w) /\ job[w].stage = "verify"
  /\ ModuleEnds(w, Populated(w))
  /\ UNCHANGED <<repo, obj, filled, failures, unsure, processes, reset, acts>>

Done(w) == job[w].tree # None /\ ~Working(w) /\ job[w].todo = {}

\* setSubmoduleFailures, at the end of Setup.
ModulesDone(t) ==
  /\ obj[t].pc = "modules" /\ Done(t)
  /\ failures' = [failures EXCEPT ![t] = job[t].bad]
  /\ JobStep(t, NoJob)
  /\ Goto(t, "find")
  /\ UNCHANGED <<repo, filled, unsure, processes, reset, acts>>

\* RetrySubmoduleSetup, without the lock: it starts from the failures it
\* finds and replaces them at its end.
RetrySubmodules(t) ==
  /\ job[Retry].tree = None
  /\ obj[t].pc \notin {"none", "gone", "failed"} /\ obj[t].call # "kill"
  /\ failures[t] # {}
  /\ JobStep(Retry, [NoJob EXCEPT !.tree = t, !.todo = failures[t], !.bad = failures[t]])
  /\ unsure' = IF obj[t].pc = "modules" THEN unsure \cup {t} ELSE unsure
  /\ UNCHANGED <<repo, obj, filled, failures, processes, reset, acts>>

RetryDone ==
  /\ Done(Retry)
  /\ failures' = [failures EXCEPT ![job[Retry].tree] = job[Retry].bad]
  /\ JobStep(Retry, NoJob)
  /\ UNCHANGED <<repo, obj, filled, unsure, processes, reset, acts>>

-----------------------------------------------------------------------------
\* Instance.Start, Pause, Resume and Kill around the worktree.

\* OpenSession and PauseSession hold the lock of the API to their end.
Locked ==
  \E t \in Tree : obj[t].call \in {"pause", "resume"}
                  /\ obj[t].pc \notin {"none", "running", "paused", "gone", "failed"}

Calls(t, pc, call) ==
  /\ ~Locked
  /\ obj' = [obj EXCEPT ![t].pc = pc, ![t].call = call, ![t].err = FALSE]
  /\ UNCHANGED <<repo, modules, processes, reset, acts>>

\* spawnProcess: the agent starts, or does not and the worktree is cleaned up.
Spawn(t) ==
  /\ obj[t].pc = "spawn"
  /\ \E pc \in {"running", "cleanRemove"} : Goto(t, pc)
  /\ doomed' = [doomed EXCEPT ![t] = {}]
  /\ UNCHANGED <<repo, modules, orphan, reset, acts>>

Pause(t) == obj[t].pc = "running" /\ Calls(t, "find", "pause")

\* IsBranchCheckedOut looks at the repository itself only.
Resume(t) ==
  /\ obj[t].pc = "paused" /\ main # obj[t].name
  /\ Calls(t, IF t \in dir THEN "find" ELSE "setup", "resume")

Kill(t) == obj[t].pc \in {"running", "paused"} /\ Calls(t, "find", "kill")

\* KillWorktreeProcesses, of a pause, a kill and every spawn: pgrep, SIGTERM,
\* three seconds, SIGKILL.
FindProcesses(t) ==
  /\ obj[t].pc = "find"
  /\ doomed' = [doomed EXCEPT ![t] = {o \in Orphan : orphan[o] = t}]
  /\ Goto(t, "term")
  /\ UNCHANGED <<repo, modules, orphan, reset, acts>>

Dead(gone) == orphan' = [o \in Orphan |-> IF o \in gone THEN None ELSE orphan[o]]

Terminated(t) ==
  CASE obj[t].call = "pause" -> "paused" [] obj[t].call = "kill" -> "cleanRemove"
    [] OTHER -> "spawn"

\* Mutant of Survivors: SIGTERM is taken to do.
SurvivorsSpared(t) == {}

\* What SIGKILL is sent to after three seconds.
Survivors(t) == doomed[t]

Terminate(t) ==
  /\ obj[t].pc = "term"
  /\ \E gone \in SUBSET doomed[t] : Dead(gone \cup Survivors(t))
  /\ Goto(t, Terminated(t))
  /\ UNCHANGED <<repo, modules, doomed, reset, acts>>

\* Cleanup, of a session that is killed or whose agent did not start: a
\* directory that is not there is not removed, and its entry stays.
CleanRemove(t) ==
  /\ obj[t].pc = "cleanRemove"
  /\ IF t \in dir THEN RemoveWorktree(t) ELSE UNCHANGED <<listed, dir>>
  /\ filled' = IF t \in dir THEN filled \ ({t} \X Sub) ELSE filled
  /\ obj' = [obj EXCEPT ![t].pc = "cleanDelete", ![t].err = t \in dir']
  /\ UNCHANGED <<owner, late, remote, main, job, failures, unsure, processes, reset, acts>>

\* git refuses to delete a branch that is checked out, and Cleanup says so.
BranchStays(t) == Exists(obj[t].name) /\ CheckedOut(obj[t].name)

CleanBranch(t) ==
  /\ obj[t].pc = "cleanDelete"
  /\ DeleteBranch(obj[t].name)
  /\ obj' = [obj EXCEPT ![t].pc = "prune",
                        ![t].err = @ \/ BranchStays(t)]
  /\ UNCHANGED <<remote, listed, dir, main, modules, processes, reset, acts>>

CleanPrune(t) ==
  /\ obj[t].pc = "prune"
  /\ Prune
  /\ Goto(t, Failed(t))
  /\ UNCHANGED <<owner, late, remote, dir, main, modules, processes, reset, acts>>

-----------------------------------------------------------------------------
\* A dev server or a watcher, started by the agent or by another of them.
StartsProcess(t, o) ==
  /\ orphan[o] = None /\ \A u \in Tree : o \notin doomed[u]
  /\ obj[t].pc = "running" \/ \E p \in Orphan : orphan[p] = t
  /\ orphan' = [orphan EXCEPT ![o] = t]
  /\ UNCHANGED <<repo, obj, modules, doomed, reset, acts>>

Act == acts < MaxActs /\ acts' = acts + 1

\* Mutant of RestoredName: the name is chosen anew, its own branch in the way.
RestoredNameAgain(t) == Deduplicated

\* NewGitWorktreeFromStorage
RestoredName(t) == obj[t].name

\* The application ends or crashes, and starts again: the sessions that had
\* started are restored as paused ones, without their base ref.
Restored(t) ==
  CASE obj[t].pc \in {"running", "paused"} \/ obj[t].call \in {"pause", "resume"} ->
         [NoObject EXCEPT !.pc = "paused", !.name = RestoredName(t), !.call = "resume",
                          !.fallback = obj[t].fallback, !.restored = TRUE]
    [] obj[t].pc \in {"none", "gone", "failed"} -> obj[t]
    [] OTHER -> [obj[t] EXCEPT !.pc = "failed"]

Restart ==
  /\ Act
  /\ obj' = [t \in Tree |-> Restored(t)]
  /\ job' = [w \in Worker |-> NoJob]
  /\ failures' = [t \in Tree |-> {}] /\ unsure' = Tree
  /\ doomed' = [t \in Tree |-> {}]
  /\ UNCHANGED <<repo, filled, orphan, reset>>

\* The user's own git and shell.
UserMakesBranch(n) ==
  /\ Act /\ ~Exists(n)
  /\ NewBranch(n, "user")
  /\ UNCHANGED <<remote, listed, dir, main, obj, modules, processes, reset>>

UserDeletesBranch(n) ==
  /\ Act /\ Exists(n) /\ ~CheckedOut(n)
  /\ DeleteBranch(n)
  /\ UNCHANGED <<remote, listed, dir, main, obj, modules, processes, reset>>

UserChecksOut(n) ==
  /\ Act /\ main # n
  /\ n = None \/ (n \in Name /\ Exists(n) /\ ~CheckedOut(n))
  /\ main' = n
  /\ UNCHANGED <<owner, late, remote, listed, dir, obj, modules, processes, reset>>

UserDeletesTree(t) ==
  /\ Act /\ t \in dir
  /\ dir' = dir \ {t} /\ filled' = filled \ ({t} \X Sub)
  /\ UNCHANGED <<owner, late, remote, listed, main, obj, job, failures, unsure, processes, reset>>

UserPushes(n) ==
  /\ Act /\ Exists(n) /\ n \notin remote
  /\ remote' = remote \cup {n}
  /\ UNCHANGED <<owner, late, listed, dir, main, obj, modules, processes, reset>>

\* CleanupWorktrees, of the reset command: a process of its own, with the
\* list of worktrees it has read at the start.
ResetBegins ==
  /\ Act /\ reset.pc = "idle"
  /\ reset' = [pc |-> "trees", todo |-> dir, seen |-> {t \in Tree : listed[t] # None}]
  /\ UNCHANGED <<repo, obj, modules, processes>>

ResetTree(t) ==
  /\ t \in reset.todo
  /\ IF t \in reset.seen THEN DeleteBranch(obj[t].name) ELSE UNCHANGED <<owner, late>>
  /\ dir' = dir \ {t} /\ filled' = filled \ ({t} \X Sub)
  /\ reset' = [reset EXCEPT !.todo = @ \ {t}]
  /\ UNCHANGED <<remote, listed, main, obj, job, failures, unsure, processes, acts>>

ResetPrunes ==
  /\ reset.pc = "trees" /\ reset.todo = {}
  /\ Prune
  /\ reset' = [reset EXCEPT !.pc = "idle", !.seen = {}]
  /\ UNCHANGED <<owner, late, remote, dir, main, obj, modules, processes, acts>>

-----------------------------------------------------------------------------
SetupStep(t) ==
  SetupBegins(t) \/ RemoveOld(t) \/ DeleteOld(t) \/ CheckBranch(t) \/ AddNew(t) \/ AddOld(t)
    \/ SetupFails(t) \/ ListingFails(t) \/ ListingEmpty(t) \/ ModulesDone(t)

Run(w) == (\E s \in Sub : ModuleBegins(w, s)) \/ CommandSucceeds(w) \/ CommandFails(w)
            \/ CommandHangs(w) \/ CommandTimesOut(w) \/ Verify(w)

Call(t) ==
  Construct(t) \/ Spawn(t) \/ Pause(t) \/ Resume(t) \/ Kill(t) \/ FindProcesses(t)
    \/ Terminate(t) \/ CleanRemove(t) \/ CleanBranch(t) \/ CleanPrune(t) \/ RetrySubmodules(t)

User ==
  \/ \E n \in Name : UserMakesBranch(n) \/ UserDeletesBranch(n) \/ UserPushes(n)
  \/ \E n \in Name \cup {None} : UserChecksOut(n)
  \/ \E t \in Tree : UserDeletesTree(t)

Next ==
  \/ \E t \in Tree : SetupStep(t) \/ Call(t) \/ (\E o \in Orphan : StartsProcess(t, o))
  \/ \E w \in Worker : Run(w)
  \/ RetryDone \/ Restart \/ User
  \/ ResetBegins \/ ResetPrunes \/ \E t \in Tree : ResetTree(t)

Spec == Init /\ [][Next]_vars

\* The submodule's commands end, by themselves or by their timeout, and Setup
\* goes on to the next.
FairSpec == Spec /\ \A w \in Worker : WF_vars(Run(w)) /\ \A t \in Tree : WF_vars(ModulesDone(t))

-----------------------------------------------------------------------------
Pcs == {"none", "setup", "remove", "delete", "check", "add", "addOld", "modules", "spawn",
        "running", "paused", "find", "term", "cleanRemove", "cleanDelete", "prune", "gone", "failed"}

\* The variables have their types, the worktrees' list agrees with the
\* objects' names, and a job works for one tree at a time.
TypeOK ==
  /\ owner \in [Name -> Tree \cup {"user", None}] /\ late \in [Name -> SUBSET Tree]
  /\ remote \subseteq Name /\ dir \subseteq Tree /\ main \in Name \cup {None}
  /\ \A t \in Tree : listed[t] \in {None, obj[t].name}
  /\ obj \in [Tree -> [pc : Pcs, name : Name, fallback : BOOLEAN, restored : BOOLEAN,
                      how : {"ref", "existing", "new"}, call : {"start", "resume", "pause", "kill"},
                      err : BOOLEAN]]
  /\ \A t \in Tree : job[t].tree = (IF obj[t].pc = "modules" THEN t ELSE None)
  /\ filled \subseteq dir \X Sub /\ failures \in [Tree -> SUBSET Sub] /\ unsure \subseteq Tree
  /\ orphan \in [Orphan -> Tree \cup {None}] /\ doomed \in [Tree -> SUBSET Orphan]

\* `branch -D` never deletes a branch that was there before the session chose
\* its name: one that other work still needs, though its worktree is not
\* there to protect it.  Not so when a hundred names were taken.
DeletesOwnBranch ==
  \A t \in Tree :
    LET n == obj[t].name
    IN obj[t].pc \in {"delete", "cleanDelete"} /\ ~obj[t].fallback /\ Exists(n) /\ ~CheckedOut(n)
         => owner[n] = t \/ t \in late[n]

\* A Cleanup that has met no error has removed the worktree, its entry and
\* the branch the session had made, and what pgrep had found is dead.
CleanupComplete ==
  \A t \in Tree :
    obj[t].pc = "prune" /\ ~obj[t].err
      => /\ t \notin dir /\ listed[t] = None
         /\ \A n \in Name : owner[n] # t
         /\ \A o \in doomed[t] : orphan[o] = None

\* "Absence of a result is the success signal" (submodule_result.go): of the
\* submodules a setup of this run has listed, those it does not report as
\* failed are populated, whatever commands fail, hang or are retried.
FailureHonest ==
  \A t \in Tree : \A s \in Sub :
    t \in dir /\ listed[t] # None /\ t \notin unsure /\ job[t].tree = None /\ job[Retry].tree # t
      => s \in failures[t] \/ <<t, s>> \in filled

\* A setup that has come to the submodules gets through them: a clone or a
\* fetch of a submodule that hangs is killed by its timeout.  What comes before
\* them, such as Start's `git fetch --prune`, has no timeout and may hang.
SetupEnds == \A t \in Tree : obj[t].pc = "modules" ~> obj[t].pc # "modules"
=============================================================================
