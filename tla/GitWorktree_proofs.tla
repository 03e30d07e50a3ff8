-------------------------- MODULE GitWorktree_proofs --------------------------
(***************************************************************************)
(* Theorems about GitWorktree, for any worktrees, submodules, processes,   *)
(* number of names and number of commands of the user.                     *)
(***************************************************************************)
EXTENDS GitWorktree, FiniteSetTheorems, TLAPS

\* A set of numbers that is not empty has a least one.  The numbers below all
\* of them are else closed under successor, and as many as those but 0.
LEMMA HasLeast ==
  ASSUME NEW S \in SUBSET Nat, S # {}
  PROVE  \E n \in S : \A m \in S : n <= m
<1> SUFFICES ASSUME \A n \in S : \E m \in S : ~(n <= m)
             PROVE  FALSE
  OBVIOUS
<1> DEFINE Below == {n \in Nat : \A m \in S : n < m}
           next == [n \in Below |-> n + 1]
<1>1. 0 \in Below
  <2> SUFFICES ASSUME NEW m \in S
               PROVE  0 < m
    OBVIOUS
  <2>1. PICK l \in S : ~(m <= l)
    OBVIOUS
  <2> QED
    BY <2>1
<1>2. ASSUME NEW n \in Below
      PROVE  n + 1 \in Below \ {0}
  <2>1. n \in Nat /\ \A m \in S : n < m
    OBVIOUS
  <2> SUFFICES ASSUME NEW m \in S
               PROVE  n + 1 < m
    BY <2>1
  <2>2. PICK l \in S : ~(m <= l)
    OBVIOUS
  <2> QED
    BY <2>1, <2>2
<1>3. PICK x \in S : TRUE
  OBVIOUS
<1>4. Below \subseteq 0 .. x
  BY <1>3
<1>5. IsFiniteSet(Below)
  BY <1>3, <1>4, FS_Interval, FS_Subset, 0 \in Int, x \in Int
<1>6. IsFiniteSet(Below \ {0}) /\ Cardinality(Below \ {0}) = Cardinality(Below) - 1
  BY <1>1, <1>5, FS_RemoveElement
<1>7. Cardinality(Below \ {0}) < Cardinality(Below)
  BY <1>5, <1>6, FS_CardinalityType
<1>8. next \in [Below -> Below \ {0}]
  BY <1>2
<1>9. \A m, n \in Below : next[m] = next[n] => m = n
  OBVIOUS
<1> HIDE DEF Below, next
<1> QED
  BY <1>5, <1>6, <1>7, <1>8, <1>9, FS_PigeonHole

\* A session gets a name that nobody has, as long as there is one.
LEMMA FreeName ==
  /\ Deduplicated \in Name
  /\ Free # {} => ~Exists(Deduplicated)
<1>1. CASE Free = {}
  BY <1>1, ConstantsAssumption DEF Deduplicated, Name
<1>2. CASE Free # {}
  <2>1. Free \in SUBSET Nat
    BY ConstantsAssumption DEF Free, Name
  <2>2. Deduplicated \in Free
    BY <1>2, <2>1, HasLeast DEF Deduplicated
  <2> QED
    BY <2>2 DEF Free, Taken
<1> QED
  BY <1>1, <1>2

-----------------------------------------------------------------------------
(***************************************************************************)
(* The types of the state, those TypeOK leaves out with the others.        *)
(***************************************************************************)

Maker == Tree \cup {"user", None}

ObjType ==
  [pc : Pcs, name : Name, fallback : BOOLEAN, restored : BOOLEAN,
   how : {"ref", "existing", "new"}, call : {"start", "resume", "pause", "kill"}, err : BOOLEAN]

JobType ==
  [tree : Tree \cup {None}, todo : SUBSET Sub, cur : Sub \cup {None},
   stage : {"reference", "init", "fetch", "checkout", "verify"}, tries : Nat,
   hung : BOOLEAN, bad : SUBSET Sub]

RepoType ==
  /\ owner \in [Name -> Maker] /\ late \in [Name -> SUBSET Tree] /\ remote \in SUBSET Name
  /\ listed \in [Tree -> Name \cup {None}] /\ dir \in SUBSET Tree /\ main \in Name \cup {None}

JobsType ==
  /\ job \in [Worker -> JobType]
  /\ \A w \in Worker : job[w].cur # None => job[w].tree # None
  /\ \A t \in Tree : job[t].tree = (IF obj[t].pc = "modules" THEN t ELSE None)

FilledType ==
  filled \in SUBSET (dir \X Sub) /\ failures \in [Tree -> SUBSET Sub] /\ unsure \in SUBSET Tree

ProcType ==
  /\ orphan \in [Orphan -> Tree \cup {None}] /\ doomed \in [Tree -> SUBSET Orphan]
  /\ reset \in [pc : {"idle", "trees"}, todo : SUBSET Tree, seen : SUBSET Tree]

\* A worktree is listed with the branch its object has chosen.
NameType == \A t \in Tree : listed[t] \in {None, obj[t].name} /\ (obj[t].pc = "none" => listed[t] = None)

Idle == {"none", "gone", "failed"}

\* No call goes on about an object that is not there.
FreshType == \A t \in Tree : obj[t].pc \in Idle => obj[t].call \in {"start", "kill"}

StateType ==
  /\ RepoType /\ obj \in [Tree -> ObjType] /\ FreshType /\ JobsType /\ FilledType /\ ProcType /\ NameType

LEMMA StateTyped == StateType => TypeOK
BY DEF StateType, RepoType, JobsType, FilledType, ProcType, NameType, TypeOK, ObjType, Maker

LEMMA RetryApart == Retry \notin Tree /\ Retry \in Worker /\ Tree \subseteq Worker /\ None \notin Tree
BY ConstantsAssumption DEF Retry, Worker

LEMMA StartTypes == NoObject \in ObjType /\ NoJob \in JobType /\ NoJob.tree = None /\ NoJob.cur = None
BY ConstantsAssumption DEF NoObject, ObjType, NoJob, JobType, Pcs, Name

LEMMA TypeInit == Init => StateType
<1> SUFFICES ASSUME Init PROVE StateType
  OBVIOUS
<1>1. RepoType
  BY DEF Init, RepoType, Maker
<1>2. obj \in [Tree -> ObjType] /\ FreshType /\ \A t \in Tree : obj[t].pc = "none"
  BY StartTypes DEF Init, NoObject, FreshType, Idle
<1>3. JobsType
  BY <1>2, StartTypes, RetryApart DEF Init, JobsType
<1>4. FilledType /\ ProcType /\ NameType
  BY DEF Init, FilledType, ProcType, NameType
<1> QED
  BY <1>1, <1>2, <1>3, <1>4 DEF StateType

-----------------------------------------------------------------------------
(***************************************************************************)
(* What the steps do to the repository.                                    *)
(***************************************************************************)

LEMMA Deletes ==
  ASSUME RepoType, NEW n \in Name, DeleteBranch(n)
  PROVE  /\ owner' \in [Name -> Maker] /\ late' = late
         /\ \A m \in Name : owner'[m] = owner[m] \/ (owner'[m] = None /\ \A t \in Tree : listed[t] # m)
         /\ ~CheckedOut(n) => owner'[n] = None
BY DEF RepoType, DeleteBranch, CheckedOut, Maker

LEMMA Makes ==
  ASSUME RepoType, NEW n \in Name, NEW w \in Maker, NewBranch(n, w)
  PROVE  /\ owner' \in [Name -> Maker] /\ late' \in [Name -> SUBSET Tree]
         /\ owner'[n] = w /\ late'[n] = {t \in Tree : obj[t].pc # "none" /\ obj[t].name = n}
         /\ \A m \in Name \ {n} : owner'[m] = owner[m] /\ late'[m] = late[m]
BY DEF RepoType, NewBranch

LEMMA Removes ==
  ASSUME RepoType, NEW t \in Tree, RemoveWorktree(t)
  PROVE  /\ listed' \in [Tree -> Name \cup {None}] /\ listed'[t] = None
         /\ \A u \in Tree \ {t} : listed'[u] = listed[u]
         /\ dir' \subseteq dir /\ dir \ {t} \subseteq dir'
BY DEF RepoType, RemoveWorktree

LEMMA Prunes ==
  ASSUME RepoType, Prune
  PROVE  /\ listed' \in [Tree -> Name \cup {None}]
         /\ \A t \in Tree : listed'[t] = IF t \in dir THEN listed[t] ELSE None
BY DEF RepoType, Prune

\* A branch stays, or is deleted where no worktree has it, or is made by the
\* user or for an object that adds its worktree.
BranchEffect(n) ==
  \/ owner'[n] = owner[n] /\ late'[n] = late[n]
  \/ owner'[n] = None /\ \A t \in Tree : listed'[t] # n
  \/ /\ owner[n] = None /\ late'[n] = {t \in Tree : obj[t].pc # "none" /\ obj[t].name = n}
     /\ owner'[n] \in {"user"} \cup {t \in Tree : obj[t].pc = "add" /\ obj[t].name = n}

\* A worktree stays, or is removed, or is added with its branch.
ListEffect(t) ==
  \/ listed'[t] \in {listed[t], None} /\ (t \in dir' => t \in dir)
  \/ obj[t].pc \in {"add", "addOld"} /\ listed'[t] = obj[t].name /\ owner'[obj[t].name] # None

RepoEffect == RepoType' /\ (\A n \in Name : BranchEffect(n)) /\ (\A t \in Tree : ListEffect(t))

LEMMA RepoKept ==
  ASSUME RepoType, UNCHANGED repo
  PROVE  RepoEffect
BY DEF RepoType, RepoEffect, BranchEffect, ListEffect, repo

\* A step that deletes a branch, or none, and removes worktrees and entries.
LEMMA RepoShrinks ==
  ASSUME RepoType, UNCHANGED late, owner' \in [Name -> Maker],
         \A m \in Name : owner'[m] = owner[m] \/ (owner'[m] = None /\ \A t \in Tree : listed[t] # m),
         listed' \in [Tree -> Name \cup {None}],
         \A t \in Tree : listed'[t] \in {listed[t], None},
         dir' \subseteq dir, remote' \in SUBSET Name, main' \in Name \cup {None}
  PROVE  RepoEffect
<1>1. RepoType'
  BY DEF RepoType
<1>2. ASSUME NEW n \in Name PROVE BranchEffect(n)
  BY ConstantsAssumption DEF BranchEffect, Name
<1>3. ASSUME NEW t \in Tree PROVE ListEffect(t)
  BY DEF ListEffect
<1> QED
  BY <1>1, <1>2, <1>3 DEF RepoEffect

LEMMA RemoveOldRepo ==
  ASSUME StateType, NEW t \in Tree, RemoveOld(t) \/ CleanRemove(t) \/ CleanPrune(t)
  PROVE  RepoEffect
<1>1. UNCHANGED <<owner, late, remote, main>>
  BY DEF RemoveOld, CleanRemove, CleanPrune
<1>2. RemoveWorktree(t) \/ UNCHANGED <<listed, dir>> \/ (Prune /\ UNCHANGED dir)
  BY DEF RemoveOld, CleanRemove, CleanPrune
<1>3. /\ listed' \in [Tree -> Name \cup {None}] /\ \A u \in Tree : listed'[u] \in {listed[u], None}
      /\ dir' \subseteq dir
  BY <1>2, Removes, Prunes DEF StateType, RepoType
<1> QED
  BY <1>1, <1>3, RepoShrinks DEF StateType, RepoType

LEMMA NameOf == ASSUME StateType, NEW t \in Tree PROVE obj[t].name \in Name /\ obj[t] \in ObjType
BY DEF StateType, ObjType

LEMMA DeleteOldRepo ==
  ASSUME StateType, NEW t \in Tree, DeleteOld(t) \/ CleanBranch(t)
  PROVE  RepoEffect
<1>1. UNCHANGED <<listed, dir, remote, main>> /\ DeleteBranch(obj[t].name)
  BY DEF DeleteOld, CleanBranch
<1>2. /\ owner' \in [Name -> Maker] /\ late' = late
      /\ \A m \in Name : owner'[m] = owner[m] \/ (owner'[m] = None /\ \A u \in Tree : listed[u] # m)
  BY <1>1, Deletes, NameOf DEF StateType
<1> QED
  BY <1>1, <1>2, RepoShrinks DEF StateType, RepoType

LEMMA AddRepo ==
  ASSUME StateType, NEW t \in Tree, AddNew(t) \/ AddOld(t)
  PROVE  RepoEffect
<1>1. /\ Added(t) /\ obj[t].pc \in {"add", "addOld"} /\ obj[t].name \in Name
      /\ RepoType
  BY NameOf DEF AddNew, AddOld, StateType
<1>2. /\ UNCHANGED <<remote, main>> /\ listed' = [listed EXCEPT ![t] = obj[t].name]
      /\ dir' = dir \cup {t}
  BY <1>1 DEF Added
<1>3. /\ owner' \in [Name -> Maker] /\ late' \in [Name -> SUBSET Tree] /\ owner'[obj[t].name] # None
      /\ \A n \in Name : BranchEffect(n)
  <2>1. CASE AddNew(t)
    <3>1. NewBranch(obj[t].name, t) /\ owner[obj[t].name] = None /\ obj[t].pc = "add"
      BY <2>1 DEF AddNew, Exists
    <3>2. t \in Maker /\ t # None
      BY ConstantsAssumption DEF Maker
    <3> QED
      BY <1>1, <3>1, <3>2, Makes DEF BranchEffect
  <2>2. CASE AddOld(t)
    BY <1>1, <2>2 DEF AddOld, Exists, RepoType, BranchEffect
  <2> QED
    BY <2>1, <2>2
<1>4. ASSUME NEW u \in Tree PROVE ListEffect(u)
  BY <1>1, <1>2, <1>3, <1>4 DEF ListEffect, RepoType
<1>5. RepoType'
  BY <1>1, <1>2, <1>3 DEF RepoType
<1> QED
  BY <1>3, <1>4, <1>5 DEF RepoEffect

LEMMA UserRepo ==
  ASSUME StateType, User
  PROVE  RepoEffect
<1>0. RepoType
  BY DEF StateType
<1>1. ASSUME NEW n \in Name, UserMakesBranch(n)
      PROVE  RepoEffect
  <2>1. /\ UNCHANGED <<remote, listed, dir, main>> /\ NewBranch(n, "user") /\ owner[n] = None
        /\ "user" \in Maker
    BY <1>1 DEF UserMakesBranch, Exists, Maker
  <2>2. /\ owner' \in [Name -> Maker] /\ late' \in [Name -> SUBSET Tree]
        /\ \A m \in Name : BranchEffect(m)
    BY <1>0, <2>1, Makes DEF BranchEffect
  <2> QED
    BY <1>0, <2>1, <2>2 DEF RepoEffect, RepoType, ListEffect
<1>2. ASSUME NEW n \in Name, UserDeletesBranch(n)
      PROVE  RepoEffect
  BY <1>0, <1>2, Deletes, RepoShrinks DEF UserDeletesBranch, RepoType
<1>3. ASSUME NEW n \in Name \cup {None}, UserChecksOut(n)
      PROVE  RepoEffect
  BY <1>0, <1>3, RepoShrinks DEF UserChecksOut, RepoType
<1>4. ASSUME NEW t \in Tree, UserDeletesTree(t)
      PROVE  RepoEffect
  BY <1>0, <1>4, RepoShrinks DEF UserDeletesTree, RepoType
<1>5. ASSUME NEW n \in Name, UserPushes(n)
      PROVE  RepoEffect
  BY <1>0, <1>5, RepoShrinks DEF UserPushes, RepoType
<1> QED
  BY <1>1, <1>2, <1>3, <1>4, <1>5 DEF User

LEMMA ResetRepo ==
  ASSUME StateType, NEW t \in Tree, ResetTree(t) \/ ResetPrunes
  PROVE  RepoEffect
<1>0. RepoType /\ obj[t].name \in Name
  BY NameOf DEF StateType
<1>1. CASE ResetTree(t)
  <2>1. /\ UNCHANGED <<remote, listed, main>> /\ dir' \subseteq dir
        /\ DeleteBranch(obj[t].name) \/ UNCHANGED <<owner, late>>
    BY <1>1 DEF ResetTree
  <2>2. /\ owner' \in [Name -> Maker] /\ late' = late
        /\ \A m \in Name : owner'[m] = owner[m] \/ (owner'[m] = None /\ \A u \in Tree : listed[u] # m)
    BY <1>0, <2>1, Deletes DEF RepoType
  <2> QED
    BY <1>0, <2>1, <2>2, RepoShrinks DEF RepoType
<1>2. CASE ResetPrunes
  BY <1>0, <1>2, Prunes, RepoShrinks DEF ResetPrunes, RepoType
<1> QED
  BY <1>1, <1>2

LEMMA RepoStep ==
  ASSUME StateType, [Next]_vars
  PROVE  RepoEffect
<1>0. CASE UNCHANGED repo
  BY <1>0, RepoKept DEF StateType
<1>1. ASSUME NEW t \in Tree, SetupStep(t)
      PROVE  RepoEffect
  BY <1>0, <1>1, RemoveOldRepo, DeleteOldRepo, AddRepo
     DEF SetupStep, SetupBegins, CheckBranch, SetupFails, ListingFails, ListingEmpty, ModulesDone
<1>2. ASSUME NEW t \in Tree, Call(t)
      PROVE  RepoEffect
  BY <1>0, <1>2, RemoveOldRepo, DeleteOldRepo
     DEF Call, Construct, Spawn, Pause, Resume, Kill, Calls, FindProcesses, Terminate, RetrySubmodules
<1>3. ASSUME NEW t \in Tree, NEW o \in Orphan, StartsProcess(t, o)
      PROVE  RepoEffect
  BY <1>0, <1>3 DEF StartsProcess
<1>4. ASSUME NEW w \in Worker, Run(w)
      PROVE  RepoEffect
  BY <1>0, <1>4 DEF Run, ModuleBegins, CommandSucceeds, CommandFails, CommandHangs, CommandTimesOut, Verify
<1>5. CASE RetryDone \/ Restart \/ ResetBegins \/ UNCHANGED vars
  BY <1>0, <1>5 DEF RetryDone, Restart, ResetBegins, vars
<1>6. CASE ResetPrunes
  <2>1. CASE Tree = {}
    BY <1>6, <2>1, Prunes, RepoShrinks DEF ResetPrunes, StateType, RepoType
  <2> QED
    BY <1>6, <2>1, ResetRepo
<1> QED
  BY <1>1, <1>2, <1>3, <1>4, <1>5, <1>6, UserRepo, ResetRepo DEF Next

-----------------------------------------------------------------------------
(***************************************************************************)
(* What the steps do to the objects.                                       *)
(***************************************************************************)

\* An object keeps the name it has chosen.
NameEffect(t) ==
  \/ /\ obj'[t].name = obj[t].name /\ obj'[t].fallback = obj[t].fallback
     /\ obj'[t].pc = "none" => obj[t].pc = "none"
     /\ obj[t].pc = "none" => obj'[t] = obj[t]
  \/ /\ obj[t].pc = "none" /\ obj'[t].pc = "setup" /\ obj'[t].name = Deduplicated
     /\ obj'[t].fallback = (Free = {}) /\ UNCHANGED repo

\* The step moves the call of one object.
Moves(t) ==
  /\ obj'[t].pc \in Idle => obj'[t].call \in {"start", "kill"}
  /\ obj' \in [Tree -> ObjType] /\ \A u \in Tree \ {t} : obj'[u] = obj[u]
  /\ NameEffect(t)

LEMMA Goes ==
  ASSUME obj \in [Tree -> ObjType], NEW t \in Tree, NEW pc \in Pcs \ {"none"}, Goto(t, pc),
         obj[t].pc # "none", pc \in Idle => obj[t].call \in {"start", "kill"}
  PROVE  /\ Moves(t) /\ obj'[t].pc = pc /\ obj'[t].err = obj[t].err /\ obj'[t].call = obj[t].call
<1>1. obj[t] \in ObjType /\ obj'[t] = [obj[t] EXCEPT !.pc = pc]
  BY DEF Goto
<1>2. obj' \in [Tree -> ObjType] /\ \A u \in Tree \ {t} : obj'[u] = obj[u]
  <2>1. [obj[t] EXCEPT !.pc = pc] \in ObjType
    BY <1>1 DEF ObjType
  <2> QED
    BY <2>1 DEF Goto
<1> QED
  BY <1>1, <1>2 DEF Moves, NameEffect, ObjType

LEMMA FailedPc ==
  ASSUME NEW t \in Tree
  PROVE  /\ Failed(t) \in {"failed", "gone", "paused"}
         /\ Failed(t) \in Idle => obj[t].call \in {"start", "kill"}
BY DEF Failed, Idle

LEMMA TerminatedPc == ASSUME NEW t \in Tree PROVE Terminated(t) \in {"paused", "cleanRemove", "spawn"}
BY DEF Terminated

\* The step moves the call of one object from one of some places to another.
GoesFrom(t, from, to) == Moves(t) /\ obj[t].pc \in from /\ obj'[t].pc \in to

LEMMA GoesFromTo ==
  ASSUME obj \in [Tree -> ObjType], NEW t \in Tree, NEW from \in SUBSET Pcs, NEW to \in SUBSET Pcs,
         "none" \notin from \cup to, obj[t].pc \in from, NEW pc \in to, Goto(t, pc),
         pc \in Idle => obj[t].call \in {"start", "kill"}
  PROVE  GoesFrom(t, from, to)
BY Goes DEF GoesFrom

LEMMA ConstructMoves ==
  ASSUME StateType, NEW t \in Tree, Construct(t)
  PROVE  GoesFrom(t, {"none"}, {"setup"})
<1>1. obj' = [obj EXCEPT ![t] = [NoObject EXCEPT !.pc = "setup", !.name = Deduplicated,
                                                  !.fallback = Free = {}]]
  BY DEF Construct
<1>2. [NoObject EXCEPT !.pc = "setup", !.name = Deduplicated, !.fallback = Free = {}] \in ObjType
  BY StartTypes, FreeName DEF ObjType, Pcs
<1>3. obj'[t] = [NoObject EXCEPT !.pc = "setup", !.name = Deduplicated, !.fallback = Free = {}]
  BY <1>1 DEF StateType
<1> QED
  BY <1>1, <1>2, <1>3 DEF GoesFrom, Moves, Idle, NameEffect, Construct, NoObject, StateType

SettingUp == {"setup", "remove", "delete", "check", "add", "addOld"}

\* The steps of a setup.
LEMMA AddMoves ==
  ASSUME StateType, NEW t \in Tree, AddNew(t) \/ AddOld(t)
  PROVE  GoesFrom(t, {"add", "addOld"}, {"modules"})
BY GoesFromTo DEF AddNew, AddOld, Added, Pcs, Idle, StateType

LEMMA ModulesDoneMoves ==
  ASSUME StateType, NEW t \in Tree, ModulesDone(t)
  PROVE  GoesFrom(t, {"modules"}, {"find"})
BY GoesFromTo DEF ModulesDone, Pcs, Idle, StateType

LEMMA ListingMoves ==
  ASSUME StateType, NEW t \in Tree, ListingFails(t) \/ ListingEmpty(t)
  PROVE  GoesFrom(t, {"modules"}, {"modules", "failed", "gone", "paused"})
<1>1. CASE ListingFails(t)
  BY <1>1, GoesFromTo, FailedPc DEF ListingFails, Listing, Pcs, Idle, StateType
<1>2. CASE ListingEmpty(t)
  BY <1>2 DEF ListingEmpty, Listing, GoesFrom, Moves, NameEffect, Idle, StateType
<1> QED
  BY <1>1, <1>2

LEMMA SetupMoves ==
  ASSUME StateType, NEW t \in Tree,
         SetupBegins(t) \/ RemoveOld(t) \/ DeleteOld(t) \/ CheckBranch(t) \/ SetupFails(t)
  PROVE  GoesFrom(t, SettingUp, SettingUp \cup {"failed", "gone", "paused"})
<1>0. obj \in [Tree -> ObjType]
  BY DEF StateType
<1>1. CASE SetupBegins(t)
  <2> DEFINE how == IF ~obj[t].restored THEN "ref" ELSE IF Exists(obj[t].name) THEN "existing" ELSE "new"
  <2>1. /\ obj' = [obj EXCEPT ![t] = [obj[t] EXCEPT !.pc = "remove", !.how = how]]
        /\ obj[t] \in ObjType /\ obj[t].pc = "setup"
    BY <1>0, <1>1 DEF SetupBegins
  <2>2. how \in {"ref", "existing", "new"}
    OBVIOUS
  <2> HIDE DEF how
  <2>3. [obj[t] EXCEPT !.pc = "remove", !.how = how] \in ObjType
    BY <2>1, <2>2 DEF ObjType, Pcs
  <2>4. obj'[t] = [obj[t] EXCEPT !.pc = "remove", !.how = how] /\ \A u \in Tree \ {t} : obj'[u] = obj[u]
    BY <1>0, <2>1
  <2> QED
    BY <1>0, <2>1, <2>3, <2>4 DEF GoesFrom, Moves, Idle, NameEffect, ObjType, SettingUp
<1>2. CASE RemoveOld(t) \/ DeleteOld(t) \/ CheckBranch(t) \/ SetupFails(t)
  BY <1>0, <1>2, GoesFromTo, FailedPc
     DEF RemoveOld, DeleteOld, CheckBranch, SetupFails, SettingUp, Pcs, Idle
<1> QED
  BY <1>1, <1>2

\* The steps of a call about a session that has been set up.
LEMMA CallsMove ==
  ASSUME StateType, NEW t \in Tree, NEW pc \in {"find", "setup"},
         NEW call \in {"pause", "resume", "kill"}, Calls(t, pc, call),
         obj[t].pc \in {"running", "paused"}
  PROVE  GoesFrom(t, {"running", "paused"}, {pc})
<1>0. obj \in [Tree -> ObjType]
  BY DEF StateType
<1>1. /\ obj' = [obj EXCEPT ![t] = [obj[t] EXCEPT !.pc = pc, !.call = call, !.err = FALSE]]
      /\ obj[t] \in ObjType
  BY <1>0 DEF Calls
<1>2. [obj[t] EXCEPT !.pc = pc, !.call = call, !.err = FALSE] \in ObjType
  BY <1>1 DEF ObjType, Pcs
<1> QED
  BY <1>0, <1>1, <1>2 DEF GoesFrom, Moves, Idle, NameEffect, ObjType

LEMMA CallMoves ==
  ASSUME StateType, NEW t \in Tree, Pause(t) \/ Resume(t) \/ Kill(t)
  PROVE  GoesFrom(t, {"running", "paused"}, {"find", "setup"})
BY CallsMove DEF Pause, Resume, Kill, GoesFrom

LEMMA KillingMoves ==
  ASSUME StateType, NEW t \in Tree
  PROVE  /\ Spawn(t) => GoesFrom(t, {"spawn"}, {"running", "cleanRemove"})
         /\ FindProcesses(t) => GoesFrom(t, {"find"}, {"term"})
         /\ Terminate(t) => GoesFrom(t, {"term"}, {"paused", "cleanRemove", "spawn"})
         /\ CleanPrune(t) => GoesFrom(t, {"prune"}, {"failed", "gone", "paused"})
BY GoesFromTo, FailedPc, TerminatedPc DEF Spawn, FindProcesses, Terminate, CleanPrune, StateType, Pcs, Idle

LEMMA CleanRemoveMoves ==
  ASSUME StateType, NEW t \in Tree, CleanRemove(t)
  PROVE  GoesFrom(t, {"cleanRemove"}, {"cleanDelete"}) /\ obj'[t].err = (t \in dir')
<1>0. obj \in [Tree -> ObjType]
  BY DEF StateType
<1> DEFINE left == t \in dir'
<1>4. obj' = [obj EXCEPT ![t].pc = "cleanDelete", ![t].err = left] /\ obj[t].pc = "cleanRemove"
  BY DEF CleanRemove
<1> SUFFICES GoesFrom(t, {"cleanRemove"}, {"cleanDelete"}) /\ obj'[t].err = left
  OBVIOUS
<1>2. left \in BOOLEAN
  OBVIOUS
<1> HIDE DEF left
<1>1. /\ obj' = [obj EXCEPT ![t] = [obj[t] EXCEPT !.pc = "cleanDelete", !.err = left]]
      /\ obj[t] \in ObjType /\ obj[t].pc = "cleanRemove"
  BY <1>0, <1>4
<1>3. [obj[t] EXCEPT !.pc = "cleanDelete", !.err = left] \in ObjType
  BY <1>1, <1>2 DEF ObjType, Pcs
<1> QED
  BY <1>0, <1>1, <1>3 DEF GoesFrom, Moves, Idle, NameEffect, ObjType

LEMMA CleanBranchMoves ==
  ASSUME StateType, NEW t \in Tree, CleanBranch(t)
  PROVE  GoesFrom(t, {"cleanDelete"}, {"prune"}) /\ obj'[t].err = (obj[t].err \/ BranchStays(t))
<1>0. obj \in [Tree -> ObjType]
  BY DEF StateType
<1>1. /\ obj' = [obj EXCEPT ![t] = [obj[t] EXCEPT !.pc = "prune", !.err = obj[t].err \/ BranchStays(t)]]
      /\ obj[t] \in ObjType /\ obj[t].pc = "cleanDelete"
  BY <1>0 DEF CleanBranch
<1>2. [obj[t] EXCEPT !.pc = "prune", !.err = obj[t].err \/ BranchStays(t)] \in ObjType
  BY <1>1 DEF ObjType, Pcs
<1> QED
  BY <1>0, <1>1, <1>2 DEF GoesFrom, Moves, Idle, NameEffect, ObjType

LEMMA RestoredType ==
  ASSUME StateType, NEW t \in Tree
  PROVE  /\ Restored(t) \in ObjType /\ Restored(t).name = obj[t].name
         /\ Restored(t).fallback = obj[t].fallback
         /\ obj[t].pc = "none" => Restored(t) = obj[t]
         /\ Restored(t).pc = "none" => obj[t].pc = "none"
         /\ Restored(t).pc \in {"none", "paused", "gone", "failed"}
         /\ Restored(t).pc \in Idle => Restored(t).call \in {"start", "kill"}
<1> DEFINE back == [NoObject EXCEPT !.pc = "paused", !.name = RestoredName(t), !.call = "resume",
                                    !.fallback = obj[t].fallback, !.restored = TRUE]
           lost == [obj[t] EXCEPT !.pc = "failed"]
           kept == obj[t].pc \in {"running", "paused"} \/ obj[t].call \in {"pause", "resume"}
           over == obj[t].pc \in {"none", "gone", "failed"}
<1>1. obj[t] \in ObjType /\ (over => ~kept /\ obj[t].call \in {"start", "kill"})
  BY DEF StateType, FreshType, Idle
<1>2. /\ back \in ObjType /\ back.pc = "paused" /\ back.name = obj[t].name
      /\ back.fallback = obj[t].fallback
  BY <1>1, StartTypes DEF ObjType, Pcs, RestoredName
<1>3. /\ lost \in ObjType /\ lost.pc = "failed" /\ lost.name = obj[t].name
      /\ lost.call = obj[t].call
      /\ lost.fallback = obj[t].fallback
  BY <1>1 DEF ObjType, Pcs
<1>4. Restored(t) = CASE kept -> back [] over -> obj[t] [] OTHER -> lost
  BY DEF Restored
<1>5. \/ Restored(t) = back /\ kept
      \/ Restored(t) = obj[t] /\ over
      \/ Restored(t) = lost /\ ~kept /\ ~over
  <2>1. over => ~kept
    BY <1>1
  <2> HIDE DEF back, lost, kept, over
  <2>2. CASE kept /\ ~over
    BY <1>4, <2>2
  <2>3. CASE ~kept /\ over
    BY <1>4, <2>3
  <2>4. CASE ~kept /\ ~over
    BY <1>4, <2>4
  <2> QED
    BY <2>1, <2>2, <2>3, <2>4
<1>6. lost.call \in {"start", "kill"} \/ kept
  BY <1>1, <1>3 DEF ObjType
<1> HIDE DEF lost
<1> QED
  BY <1>1, <1>2, <1>3, <1>5, <1>6 DEF Idle

LEMMA RestartMoves ==
  ASSUME StateType, Restart
  PROVE  /\ obj' \in [Tree -> ObjType] /\ \A t \in Tree : NameEffect(t)
         /\ \A t \in Tree : obj'[t].pc \in {"none", "paused", "gone", "failed"}
         /\ \A t \in Tree : obj'[t].pc \in Idle => obj'[t].call \in {"start", "kill"}
BY RestoredType DEF Restart, NameEffect

ObjEffect == obj' \in [Tree -> ObjType] /\ FreshType' /\ \A t \in Tree : NameEffect(t)

LEMMA ObjKept ==
  ASSUME StateType, UNCHANGED obj
  PROVE  ObjEffect
BY DEF StateType, ObjEffect, FreshType, NameEffect

LEMMA MovesEffect ==
  ASSUME StateType, NEW t \in Tree, Moves(t)
  PROVE  ObjEffect
<1>1. ASSUME NEW u \in Tree \ {t}
      PROVE  NameEffect(u)
  BY <1>1 DEF Moves, NameEffect
<1>2. FreshType'
  BY DEF Moves, StateType, FreshType
<1> QED
  BY <1>1, <1>2 DEF Moves, ObjEffect

\* The steps of a call about a session all move its object.
LEMMA CallSteps ==
  ASSUME StateType, NEW t \in Tree, SetupStep(t) \/ Call(t), ~RetrySubmodules(t)
  PROVE  Moves(t)
BY ConstructMoves, AddMoves, ListingMoves, ModulesDoneMoves, SetupMoves, CallMoves, KillingMoves, CleanRemoveMoves,
   CleanBranchMoves DEF SetupStep, Call, GoesFrom

LEMMA ObjStep ==
  ASSUME StateType, [Next]_vars
  PROVE  ObjEffect
<1>1. ASSUME NEW t \in Tree, SetupStep(t) \/ Call(t)
      PROVE  ObjEffect
  <2>1. CASE RetrySubmodules(t)
    BY <2>1, ObjKept DEF RetrySubmodules
  <2> QED
    BY <1>1, <2>1, CallSteps, MovesEffect
<1>2. ASSUME NEW t \in Tree, NEW o \in Orphan, StartsProcess(t, o)
      PROVE  ObjEffect
  BY <1>2, ObjKept DEF StartsProcess
<1>3. ASSUME NEW w \in Worker, Run(w)
      PROVE  ObjEffect
  BY <1>3, ObjKept
     DEF Run, ModuleBegins, CommandSucceeds, CommandFails, CommandHangs, CommandTimesOut, Verify
<1>4. CASE User
  BY <1>4, ObjKept
     DEF User, UserMakesBranch, UserDeletesBranch, UserChecksOut, UserDeletesTree, UserPushes
<1>5. CASE RetryDone \/ ResetBegins \/ ResetPrunes \/ UNCHANGED vars \/ \E t \in Tree : ResetTree(t)
  BY <1>5, ObjKept DEF RetryDone, ResetBegins, ResetPrunes, ResetTree, vars
<1>6. CASE Restart
  BY <1>6, RestartMoves DEF ObjEffect, FreshType
<1> QED
  BY <1>1, <1>2, <1>3, <1>4, <1>5, <1>6 DEF Next

LEMMA NameStep ==
  ASSUME StateType, [Next]_vars
  PROVE  NameType'
<1> SUFFICES ASSUME NEW t \in Tree
             PROVE  listed'[t] \in {None, obj'[t].name} /\ (obj'[t].pc = "none" => listed'[t] = None)
  BY DEF NameType
<1>1. NameEffect(t) /\ ListEffect(t)
  BY RepoStep, ObjStep DEF RepoEffect, ObjEffect
<1>2. listed[t] \in {None, obj[t].name} /\ (obj[t].pc = "none" => listed[t] = None)
  BY DEF StateType, NameType
<1>3. CASE obj[t].pc = "none"
  BY <1>1, <1>2, <1>3 DEF ListEffect
<1>4. CASE obj[t].pc # "none"
  BY <1>1, <1>2, <1>4 DEF NameEffect, ListEffect
<1> QED
  BY <1>3, <1>4

-----------------------------------------------------------------------------
(***************************************************************************)
(* What the steps do to the setups of submodules.                          *)
(***************************************************************************)

\* What a job has still to do with a submodule, or has said of it.
Covers(w, s) ==
  \/ s \in job[w].todo \/ job[w].cur = s \/ s \in job[w].bad
  \/ <<job[w].tree, s>> \in filled

Reports(w, s) == s \in job[w].bad \/ <<job[w].tree, s>> \in filled

\* A job goes on, for the same tree.
Works(w) ==
  /\ job' \in [Worker -> JobType] /\ \A v \in Worker \ {w} : job'[v] = job[v]
  /\ job'[w].tree = job[w].tree /\ job[w].tree # None
  /\ filled \subseteq filled' /\ filled' \in SUBSET (dir \X Sub)
  /\ \A s \in Sub : (Covers(w, s) => Covers(w, s)') /\ (Reports(w, s) => Reports(w, s)')
  /\ UNCHANGED <<repo, obj, failures, unsure, processes, reset>>

LEMMA JobStepped ==
  ASSUME StateType, NEW w \in Worker, NEW r \in JobType, JobStep(w, r)
  PROVE  /\ job' \in [Worker -> JobType] /\ job'[w] = r
         /\ \A v \in Worker \ {w} : job'[v] = job[v]
BY DEF StateType, JobsType, JobStep

LEMMA JobOf ==
  ASSUME StateType, NEW w \in Worker, Working(w)
  PROVE  job[w] \in JobType /\ job[w].cur \in Sub /\ job[w].tree \in Tree /\ job[w].tree # None
BY DEF StateType, JobsType, Working, JobType

\* The job goes to another command of the same submodule.
LEMMA WorksAt ==
  ASSUME StateType, NEW w \in Worker, Working(w),
         NEW stage \in {"reference", "init", "fetch", "checkout", "verify"}, NEW tries \in Nat,
         NEW hung \in BOOLEAN,
         JobStep(w, [job[w] EXCEPT !.stage = stage, !.tries = tries, !.hung = hung]),
         filled \subseteq filled', filled' \in SUBSET (dir \X Sub),
         UNCHANGED <<repo, obj, failures, unsure, processes, reset>>
  PROVE  Works(w)
<1> DEFINE r == [job[w] EXCEPT !.stage = stage, !.tries = tries, !.hung = hung]
<1>1. /\ r \in JobType /\ r.tree = job[w].tree /\ r.todo = job[w].todo /\ r.cur = job[w].cur
      /\ r.bad = job[w].bad
  BY JobOf DEF JobType
<1>2. /\ job' \in [Worker -> JobType] /\ job'[w] = r
      /\ \A v \in Worker \ {w} : job'[v] = job[v]
  <2> HIDE DEF r
  <2> QED
    BY <1>1, JobStepped DEF r
<1> HIDE DEF r
<1> QED
  BY <1>1, <1>2, JobOf DEF Works, Covers, Reports

\* The submodule is done: it is populated, or reported.
LEMMA WorksEnd ==
  ASSUME StateType, NEW w \in Worker, Working(w), NEW ok \in BOOLEAN, ModuleEnds(w, ok),
         ok => Here(w) \in filled',
         filled \subseteq filled', filled' \in SUBSET (dir \X Sub),
         UNCHANGED <<repo, obj, failures, unsure, processes, reset>>
  PROVE  Works(w)
<1> DEFINE bad == IF ok THEN job[w].bad \ {job[w].cur} ELSE job[w].bad \cup {job[w].cur}
           r == [job[w] EXCEPT !.cur = None, !.stage = "init", !.tries = 0, !.hung = FALSE, !.bad = bad]
<1>0. bad \in SUBSET Sub
  BY JobOf DEF JobType
<1>1. JobStep(w, r)
  BY JobOf DEF ModuleEnds, JobType
<1>2. r \in JobType /\ r.tree = job[w].tree /\ r.todo = job[w].todo /\ r.cur = None /\ r.bad = bad
  <2> HIDE DEF bad
  <2> QED
    BY <1>0, JobOf DEF JobType
<1>3. /\ job' \in [Worker -> JobType] /\ job'[w] = r
      /\ \A v \in Worker \ {w} : job'[v] = job[v]
  <2> HIDE DEF r
  <2> QED
    BY <1>1, <1>2, JobStepped
<1> HIDE DEF r
<1> QED
  BY <1>2, <1>3, JobOf DEF Works, Covers, Reports, Here

LEMMA FillType ==
  ASSUME StateType, NEW w \in Worker, Working(w), MayFill(w)
  PROVE  filled \subseteq filled' /\ filled' \in SUBSET (dir \X Sub)
BY JobOf DEF MayFill, StateType, FilledType, Here

LEMMA RunWorks ==
  ASSUME StateType, NEW w \in Worker, Run(w)
  PROVE  Works(w)
<1>f. filled \subseteq filled /\ filled \in SUBSET (dir \X Sub)
  BY DEF StateType, FilledType
<1>1. ASSUME NEW s \in Sub, ModuleBegins(w, s)
      PROVE  Works(w)
  <2>1. PICK stage \in {"reference", "init"} :
          JobStep(w, [job[w] EXCEPT !.cur = s, !.todo = @ \ {s}, !.stage = stage, !.tries = 1])
    BY <1>1 DEF ModuleBegins
  <2>2. job[w] \in JobType /\ job[w].tree # None /\ job[w].cur = None
    BY <1>1 DEF StateType, JobsType, ModuleBegins, Working
  <2> DEFINE r == [job[w] EXCEPT !.cur = s, !.todo = job[w].todo \ {s}, !.stage = stage, !.tries = 1]
  <2>3. /\ r \in JobType /\ r.tree = job[w].tree /\ r.todo = job[w].todo \ {s} /\ r.cur = s
        /\ r.bad = job[w].bad
    BY <2>2 DEF JobType
  <2>4. JobStep(w, r)
    BY <2>1, <2>2 DEF JobType
  <2> HIDE DEF r
  <2>5. job' \in [Worker -> JobType] /\ job'[w] = r /\ \A v \in Worker \ {w} : job'[v] = job[v]
    BY <2>3, <2>4, JobStepped
  <2>6. UNCHANGED <<repo, obj, filled, failures, unsure, processes, reset>>
    BY <1>1 DEF ModuleBegins
  <2> QED
    BY <1>f, <2>2, <2>3, <2>5, <2>6, ConstantsAssumption DEF Works, Covers, Reports
<1>2. CASE CommandSucceeds(w)
  <2>1. Working(w) /\ filled \subseteq filled' /\ filled' \in SUBSET (dir \X Sub)
        /\ UNCHANGED <<repo, obj, failures, unsure, processes, reset>>
    BY <1>f, <1>2, FillType DEF CommandSucceeds
  <2>2. NextStage(job[w].stage) \in {"fetch", "checkout", "verify"}
    BY <1>2, <2>1, JobOf DEF CommandSucceeds, NextStage, JobType
  <2> QED
    BY <1>2, <2>1, <2>2, WorksAt DEF CommandSucceeds, ModuleAt
<1>3. CASE CommandFails(w)
  BY <1>f, <1>3, WorksAt, WorksEnd DEF CommandFails, ModuleAt
<1>4. CASE CommandHangs(w)
  <2>1. Working(w) /\ UNCHANGED <<repo, obj, filled, failures, unsure, processes, reset>>
    BY <1>4 DEF CommandHangs
  <2>2. JobStep(w, [job[w] EXCEPT !.stage = job[w].stage, !.tries = job[w].tries, !.hung = TRUE])
    BY <1>4, <2>1, JobOf DEF CommandHangs, JobType
  <2> QED
    BY <1>f, <2>1, <2>2, JobOf, WorksAt DEF JobType
<1>5. CASE CommandTimesOut(w)
  <2>1. Working(w) /\ filled \subseteq filled' /\ filled' \in SUBSET (dir \X Sub)
        /\ UNCHANGED <<repo, obj, failures, unsure, processes, reset>>
    BY <1>f, <1>5, FillType DEF CommandTimesOut
  <2>2. \/ JobStep(w, [job[w] EXCEPT !.tries = @ + 1, !.hung = FALSE])
        \/ ModuleAt(w, "init") \/ ModuleEnds(w, FALSE)
    BY <1>5 DEF CommandTimesOut
  <2>3. CASE JobStep(w, [job[w] EXCEPT !.tries = @ + 1, !.hung = FALSE])
    <3>1. JobStep(w, [job[w] EXCEPT !.stage = job[w].stage, !.tries = job[w].tries + 1, !.hung = FALSE])
      BY <2>1, <2>3, JobOf DEF JobType
    <3>2. job[w].stage \in {"reference", "init", "fetch", "checkout", "verify"} /\ job[w].tries + 1 \in Nat
      BY <2>1, JobOf DEF JobType
    <3> QED
      BY <2>1, <3>1, <3>2, WorksAt
  <2>4. CASE ModuleAt(w, "init")
    BY <2>1, <2>4, WorksAt DEF ModuleAt
  <2>5. CASE ModuleEnds(w, FALSE)
    BY <2>1, <2>5, WorksEnd
  <2> QED
    BY <2>2, <2>3, <2>4, <2>5
<1>6. CASE Verify(w)
  <2>1. Populated(w) \in BOOLEAN
    BY DEF Populated
  <2>2. Working(w) /\ ModuleEnds(w, Populated(w))
        /\ UNCHANGED <<repo, obj, filled, failures, unsure, processes, reset>>
    BY <1>6 DEF Verify
  <2>3. Populated(w) => Here(w) \in filled'
    BY <2>2 DEF Populated
  <2> QED
    BY <1>f, <2>1, <2>2, <2>3, WorksEnd
<1> QED
  BY <1>1, <1>2, <1>3, <1>4, <1>5, <1>6 DEF Run

-----------------------------------------------------------------------------
LEMMA JobsKept ==
  ASSUME StateType, UNCHANGED job,
         \A t \in Tree : obj'[t].pc = "modules" <=> obj[t].pc = "modules"
  PROVE  JobsType'
BY DEF StateType, JobsType

\* The calls, but those that begin and end a job.
LEMMA WalkJobs ==
  ASSUME StateType, NEW t \in Tree, SetupStep(t) \/ Call(t),
         ~AddNew(t), ~AddOld(t), ~ListingFails(t), ~ListingEmpty(t), ~ModulesDone(t), ~RetrySubmodules(t)
  PROVE  JobsType'
<1>1. UNCHANGED job
  BY DEF SetupStep, SetupBegins, RemoveOld, DeleteOld, CheckBranch, SetupFails, Call, Construct, Spawn,
         Pause, Resume, Kill, Calls, FindProcesses, Terminate, CleanRemove, CleanBranch, CleanPrune, modules
<1>2. obj'[t].pc # "modules" /\ obj[t].pc # "modules" /\ \A u \in Tree \ {t} : obj'[u] = obj[u]
  BY ConstructMoves, SetupMoves, CallMoves, KillingMoves, CleanRemoveMoves, CleanBranchMoves
     DEF SetupStep, Call, GoesFrom, Moves, SettingUp
<1> QED
  BY <1>1, <1>2, JobsKept

LEMMA AddJob ==
  ASSUME StateType, NEW t \in Tree, AddNew(t) \/ AddOld(t)
  PROVE  /\ JobsType' /\ job'[t].tree = t /\ job'[t].todo = Sub
         /\ \A v \in Worker \ {t} : job'[v] = job[v]
<1>1. /\ GoesFrom(t, {"add", "addOld"}, {"modules"})
      /\ job' = [job EXCEPT ![t] = [NoJob EXCEPT !.tree = t, !.todo = Sub]]
  BY AddMoves DEF AddNew, AddOld, Added
<1> DEFINE r == [NoJob EXCEPT !.tree = t, !.todo = Sub]
<1>2. r \in JobType /\ r.tree = t /\ r.cur = None /\ r.todo = Sub
  BY DEF JobType, NoJob
<1> HIDE DEF r
<1>3. job \in [Worker -> JobType] /\ t \in Worker
  BY RetryApart DEF StateType, JobsType
<1>4. job' \in [Worker -> JobType] /\ job'[t] = r /\ \A v \in Worker \ {t} : job'[v] = job[v]
  BY <1>1, <1>2, <1>3 DEF r
<1> QED
  BY <1>1, <1>2, <1>4, RetryApart DEF GoesFrom, Moves, StateType, JobsType

LEMMA ListingJob ==
  ASSUME StateType, NEW t \in Tree, ListingFails(t) \/ ListingEmpty(t)
  PROVE  JobsType' /\ \A v \in Worker \ {t} : job'[v] = job[v]
<1>0. t \in Worker /\ job \in [Worker -> JobType] /\ NoJob \in JobType /\ NoJob.tree = None
  BY RetryApart, StartTypes DEF StateType, JobsType
<1>1. CASE ListingFails(t)
  <2>1. JobStep(t, NoJob) /\ Goto(t, Failed(t))
    BY <1>1 DEF ListingFails
  <2>3. Moves(t)
    BY <1>1, ListingMoves DEF GoesFrom
  <2>4. obj'[t].pc # "modules"
    BY <2>1, FailedPc DEF Goto, StateType
  <2>2. job' \in [Worker -> JobType] /\ job'[t] = NoJob /\ \A v \in Worker \ {t} : job'[v] = job[v]
    BY <1>0, <2>1, JobStepped
  <2> QED
    BY <1>0, <2>2, <2>3, <2>4, RetryApart, StartTypes DEF Moves, StateType, JobsType
<1>2. CASE ListingEmpty(t)
  <2> DEFINE r == [job[t] EXCEPT !.todo = {}]
  <2>1. JobStep(t, r) /\ UNCHANGED obj
    BY <1>2 DEF ListingEmpty
  <2>2. r \in JobType /\ r.tree = job[t].tree /\ r.cur = job[t].cur
    BY <1>0 DEF JobType
  <2> HIDE DEF r
  <2>3. job' \in [Worker -> JobType] /\ job'[t] = r /\ \A v \in Worker \ {t} : job'[v] = job[v]
    BY <1>0, <2>1, <2>2, JobStepped
  <2> QED
    BY <1>0, <2>1, <2>2, <2>3, RetryApart DEF StateType, JobsType
<1> QED
  BY <1>1, <1>2

LEMMA ModulesDoneJob ==
  ASSUME StateType, NEW t \in Tree, ModulesDone(t)
  PROVE  /\ JobsType' /\ job'[t].tree = None /\ \A v \in Worker \ {t} : job'[v] = job[v]
<1>1. GoesFrom(t, {"modules"}, {"find"}) /\ JobStep(t, NoJob) /\ t \in Worker
  BY ModulesDoneMoves, RetryApart DEF ModulesDone
<1>2. job' \in [Worker -> JobType] /\ job'[t] = NoJob /\ \A v \in Worker \ {t} : job'[v] = job[v]
  BY <1>1, JobStepped, StartTypes
<1> QED
  BY <1>1, <1>2, RetryApart, StartTypes DEF GoesFrom, Moves, StateType, JobsType

LEMMA RetryJob ==
  ASSUME StateType, NEW t \in Tree, RetrySubmodules(t)
  PROVE  /\ JobsType' /\ job'[Retry].tree = t /\ job'[Retry].bad = failures[t]
         /\ job'[Retry].todo = failures[t] /\ job'[Retry].cur = None
         /\ \A v \in Worker \ {Retry} : job'[v] = job[v]
<1> DEFINE r == [NoJob EXCEPT !.tree = t, !.todo = failures[t], !.bad = failures[t]]
<1>1. JobStep(Retry, r) /\ UNCHANGED obj
  BY DEF RetrySubmodules
<1>2. r \in JobType /\ r.tree = t /\ r.cur = None /\ r.todo = failures[t] /\ r.bad = failures[t]
  BY DEF JobType, NoJob, StateType, FilledType
<1> HIDE DEF r
<1>3. job' \in [Worker -> JobType] /\ job'[Retry] = r /\ \A v \in Worker \ {Retry} : job'[v] = job[v]
  BY <1>1, <1>2, JobStepped, RetryApart
<1> QED
  BY <1>1, <1>2, <1>3, RetryApart DEF StateType, JobsType

LEMMA RetryDoneJob ==
  ASSUME StateType, RetryDone
  PROVE  /\ JobsType' /\ job'[Retry].tree = None
         /\ \A v \in Worker \ {Retry} : job'[v] = job[v]
<1>1. JobStep(Retry, NoJob) /\ UNCHANGED obj
  BY DEF RetryDone
<1>2. job' \in [Worker -> JobType] /\ job'[Retry] = NoJob /\ \A v \in Worker \ {Retry} : job'[v] = job[v]
  BY <1>1, JobStepped, RetryApart, StartTypes
<1> QED
  BY <1>1, <1>2, RetryApart, StartTypes DEF StateType, JobsType

LEMMA JobsStep ==
  ASSUME StateType, [Next]_vars
  PROVE  JobsType'
<1>0. CASE UNCHANGED <<job, obj>>
  BY <1>0, JobsKept
<1>1. ASSUME NEW t \in Tree, SetupStep(t) \/ Call(t)
      PROVE  JobsType'
  BY <1>1, WalkJobs, AddJob, ListingJob, ModulesDoneJob, RetryJob
<1>2. ASSUME NEW t \in Tree, NEW o \in Orphan, StartsProcess(t, o)
      PROVE  JobsType'
  BY <1>0, <1>2 DEF StartsProcess, modules
<1>3. ASSUME NEW w \in Worker, Run(w)
      PROVE  JobsType'
  <2>1. Works(w)
    BY <1>3, RunWorks
  <2>2. \A v \in Worker : job'[v].tree = job[v].tree /\ (v # w => job'[v].cur = job[v].cur)
    BY <2>1 DEF Works
  <2> QED
    BY <2>1, <2>2, RetryApart DEF Works, StateType, JobsType
<1>4. CASE User
  BY <1>0, <1>4
     DEF User, UserMakesBranch, UserDeletesBranch, UserChecksOut, UserDeletesTree, UserPushes, modules
<1>5. CASE ResetBegins \/ ResetPrunes \/ UNCHANGED vars \/ \E t \in Tree : ResetTree(t)
  BY <1>0, <1>5 DEF ResetBegins, ResetPrunes, ResetTree, vars, modules
<1>6. CASE Restart
  <2>1. \A w \in Worker : job'[w] = NoJob
    BY <1>6 DEF Restart
  <2>2. job' \in [Worker -> JobType]
    BY <1>6, StartTypes DEF Restart
  <2>3. \A t \in Tree : obj'[t].pc # "modules"
    BY <1>6, RestartMoves
  <2> QED
    BY <2>1, <2>2, <2>3, StartTypes, RetryApart DEF JobsType
<1> QED
  BY <1>1, <1>2, <1>3, <1>4, <1>5, <1>6, RetryDoneJob DEF Next

-----------------------------------------------------------------------------
\* A step that takes worktrees away takes what was populated in them.
LEMMA FilledLess ==
  ASSUME StateType, NEW t \in Tree, UNCHANGED <<failures, unsure>>,
         dir \ {t} \subseteq dir', filled' = filled \ ({t} \X Sub)
  PROVE  FilledType'
BY DEF StateType, FilledType

LEMMA FilledKept ==
  ASSUME StateType, UNCHANGED filled, dir \subseteq dir',
         failures' \in [Tree -> SUBSET Sub], unsure' \in SUBSET Tree
  PROVE  FilledType'
BY DEF StateType, FilledType

\* A worktree that goes leaves the others.
LEMMA GoesAlone ==
  ASSUME StateType, NEW t \in Tree,
         RemoveOld(t) \/ CleanRemove(t) \/ UserDeletesTree(t) \/ ResetTree(t)
  PROVE  /\ UNCHANGED <<failures, unsure, job>> /\ dir \ {t} \subseteq dir' /\ dir' \subseteq dir
         /\ filled' = filled \ ({t} \X Sub) \/ (t \notin dir /\ UNCHANGED <<dir, listed, filled>>)
         /\ \A u \in Tree \ {t} : listed'[u] = listed[u]
         /\ t \notin dir' \/ listed'[t] = None \/ UNCHANGED <<dir, listed, filled>>
<1>0. RepoType
  BY DEF StateType
<1>1. CASE RemoveOld(t)
  BY <1>0, <1>1, Removes DEF RemoveOld
<1>2. CASE CleanRemove(t)
  BY <1>0, <1>2, Removes DEF CleanRemove
<1>3. CASE UserDeletesTree(t)
  BY <1>3 DEF UserDeletesTree
<1>4. CASE ResetTree(t)
  BY <1>4 DEF ResetTree
<1> QED
  BY <1>1, <1>2, <1>3, <1>4

LEMMA FilledStep ==
  ASSUME StateType, [Next]_vars
  PROVE  FilledType'
<1>t. failures \in [Tree -> SUBSET Sub] /\ unsure \in SUBSET Tree
  BY DEF StateType, FilledType
<1>0. CASE UNCHANGED <<filled, dir, failures, unsure>>
  BY <1>t, <1>0, FilledKept
<1>1. ASSUME NEW t \in Tree, RemoveOld(t) \/ CleanRemove(t) \/ UserDeletesTree(t) \/ ResetTree(t)
      PROVE  FilledType'
  BY <1>0, <1>1, GoesAlone, FilledLess
<1>2. ASSUME NEW t \in Tree, AddNew(t) \/ AddOld(t)
      PROVE  FilledType'
  BY <1>t, <1>2, FilledKept DEF AddNew, AddOld, Added
<1>3. ASSUME NEW t \in Tree, ModulesDone(t)
      PROVE  FilledType'
  <2>1. job[t].bad \in SUBSET Sub
    BY RetryApart DEF StateType, JobsType, JobType
  <2>2. UNCHANGED <<filled, dir, unsure>> /\ failures' = [failures EXCEPT ![t] = job[t].bad]
    BY <1>3 DEF ModulesDone, repo
  <2> QED
    BY <1>t, <2>1, <2>2, FilledKept
<1>4. ASSUME NEW t \in Tree, RetrySubmodules(t) \/ ListingFails(t) \/ ListingEmpty(t)
      PROVE  FilledType'
  BY <1>t, <1>4, FilledKept DEF RetrySubmodules, ListingFails, ListingEmpty, repo
<1>5. CASE RetryDone
  <2>1. job[Retry].bad \in SUBSET Sub
    BY RetryApart DEF StateType, JobsType, JobType
  <2>2. UNCHANGED <<filled, dir, unsure>>
        /\ failures' = [failures EXCEPT ![job[Retry].tree] = job[Retry].bad]
    BY <1>5 DEF RetryDone, repo
  <2> QED
    BY <1>t, <2>1, <2>2, FilledKept
<1>6. CASE Restart
  BY <1>6, FilledKept DEF Restart, repo
<1>7. ASSUME NEW t \in Tree, SetupStep(t) \/ Call(t)
      PROVE  FilledType'
  BY <1>0, <1>1, <1>2, <1>3, <1>4, <1>7
     DEF SetupStep, SetupBegins, DeleteOld, CheckBranch, SetupFails, Call, Construct, Spawn,
         Pause, Resume, Kill, Calls, FindProcesses, Terminate, CleanBranch, CleanPrune, modules, repo
<1>8. ASSUME NEW w \in Worker, Run(w)
      PROVE  FilledType'
  BY <1>t, <1>8, RunWorks DEF Works, FilledType, repo
<1>9. CASE User
  BY <1>0, <1>1, <1>9
     DEF User, UserMakesBranch, UserDeletesBranch, UserChecksOut, UserPushes, modules
<1>10. CASE ResetBegins \/ ResetPrunes \/ UNCHANGED vars \/ \E t \in Tree, o \in Orphan : StartsProcess(t, o)
  BY <1>0, <1>10 DEF ResetBegins, ResetPrunes, StartsProcess, vars, modules, repo
<1> QED
  BY <1>1, <1>5, <1>6, <1>7, <1>8, <1>9, <1>10 DEF Next

LEMMA ProcStep ==
  ASSUME StateType, [Next]_vars
  PROVE  ProcType'
<1>t. ProcType
  BY DEF StateType
<1>0. CASE UNCHANGED <<orphan, doomed, reset>>
  BY <1>t, <1>0 DEF ProcType
<1>1. ASSUME NEW t \in Tree, Spawn(t) \/ FindProcesses(t)
      PROVE  ProcType'
  BY <1>t, <1>1 DEF Spawn, FindProcesses, ProcType
<1>2. ASSUME NEW t \in Tree, Terminate(t)
      PROVE  ProcType'
  BY <1>t, <1>2 DEF Terminate, Dead, ProcType
<1>3. ASSUME NEW t \in Tree, NEW o \in Orphan, StartsProcess(t, o)
      PROVE  ProcType'
  BY <1>t, <1>3 DEF StartsProcess, ProcType
<1>4. CASE Restart
  BY <1>t, <1>4 DEF Restart, ProcType
<1>5. CASE ResetBegins \/ ResetPrunes \/ \E t \in Tree : ResetTree(t)
  <2>1. UNCHANGED <<orphan, doomed>>
    BY <1>5 DEF ResetBegins, ResetPrunes, ResetTree, processes
  <2>2. reset' \in [pc : {"idle", "trees"}, todo : SUBSET Tree, seen : SUBSET Tree]
    <3>1. CASE ResetBegins
      <4>1. dir \in SUBSET Tree /\ {u \in Tree : listed[u] # None} \in SUBSET Tree
        BY DEF StateType, RepoType
      <4> QED
        BY <3>1, <4>1 DEF ResetBegins
    <3>2. CASE ResetPrunes
      BY <1>t, <3>2 DEF ResetPrunes, ProcType
    <3>3. ASSUME NEW t \in Tree, ResetTree(t)
          PROVE  reset' \in [pc : {"idle", "trees"}, todo : SUBSET Tree, seen : SUBSET Tree]
      <4>1. reset' = [reset EXCEPT !.todo = reset.todo \ {t}]
        BY <1>t, <3>3 DEF ResetTree, ProcType
      <4> QED
        BY <1>t, <4>1 DEF ProcType
    <3> QED
      BY <1>5, <3>1, <3>2, <3>3
  <2> QED
    BY <1>t, <2>1, <2>2 DEF ProcType
<1>6. ASSUME NEW t \in Tree, SetupStep(t) \/ Call(t)
      PROVE  ProcType'
  BY <1>0, <1>1, <1>2, <1>6
     DEF SetupStep, SetupBegins, RemoveOld, DeleteOld, CheckBranch, AddNew, AddOld, Added, SetupFails,
         ListingFails, ListingEmpty, ModulesDone, Call, Construct, Pause, Resume, Kill, Calls, CleanRemove, CleanBranch,
         CleanPrune, RetrySubmodules, processes
<1>7. ASSUME NEW w \in Worker, Run(w)
      PROVE  ProcType'
  BY <1>0, <1>7, RunWorks DEF Works, processes
<1>8. CASE User \/ RetryDone \/ UNCHANGED vars
  BY <1>0, <1>8 DEF User, UserMakesBranch, UserDeletesBranch, UserChecksOut, UserDeletesTree, UserPushes,
                    RetryDone, vars, processes
<1> QED
  BY <1>3, <1>4, <1>5, <1>6, <1>7, <1>8 DEF Next

LEMMA TypeStep == StateType /\ [Next]_vars => StateType'
<1> SUFFICES ASSUME StateType, [Next]_vars
             PROVE  StateType'
  OBVIOUS
<1>1. RepoType' /\ obj' \in [Tree -> ObjType] /\ FreshType'
  BY RepoStep, ObjStep DEF RepoEffect, ObjEffect
<1> QED
  BY <1>1, NameStep, JobsStep, FilledStep, ProcStep DEF StateType

LEMMA StateTypes == Spec => []StateType
BY TypeInit, TypeStep, PTL DEF Spec

\* However setups, kills, retries, resets, restarts and the user's own git
\* interleave, a worktree is listed with the branch its object has chosen,
\* only directories that exist are populated, and a job is in flight exactly
\* while its object waits for it.
THEOREM WorktreeTypes == Spec => []TypeOK
BY StateTypes, StateTyped, PTL

-----------------------------------------------------------------------------
(***************************************************************************)
(* The branches.                                                           *)
(***************************************************************************)

\* A branch with the name an object has chosen is its own, or was made after
\* it had chosen, unless no name was free.
ChoiceInv ==
  \A t \in Tree : obj[t].pc # "none" /\ ~obj[t].fallback /\ Exists(obj[t].name) =>
    owner[obj[t].name] = t \/ t \in late[obj[t].name]

\* A branch that a worktree has checked out is there, and an object makes only
\* the branch of its name.
BranchInv ==
  /\ \A t \in Tree : listed[t] # None => owner[listed[t]] # None
  /\ \A t \in Tree, n \in Name : owner[n] = t => obj[t].pc # "none" /\ obj[t].name = n

LEMMA ChoiceInit == Init => ChoiceInv /\ BranchInv
BY ConstantsAssumption DEF Init, ChoiceInv, BranchInv, NoObject

LEMMA ChoiceStep ==
  ASSUME StateType, ChoiceInv, [Next]_vars
  PROVE  ChoiceInv'
<1> SUFFICES ASSUME NEW t \in Tree, obj'[t].pc # "none", ~obj'[t].fallback,
                    owner'[obj'[t].name] # None
             PROVE  owner'[obj'[t].name] = t \/ t \in late'[obj'[t].name]
  BY DEF ChoiceInv, Exists
<1>1. NameEffect(t) /\ \A n \in Name : BranchEffect(n)
  BY RepoStep, ObjStep DEF RepoEffect, ObjEffect
<1>2. CASE obj[t].pc = "none"
  <2>1. obj'[t].name = Deduplicated /\ Free # {} /\ UNCHANGED owner
    BY <1>1, <1>2 DEF NameEffect, repo
  <2> QED
    BY <2>1, FreeName DEF Exists
<1>3. CASE obj[t].pc # "none"
  <2> DEFINE n == obj[t].name
  <2>1. n \in Name /\ obj'[t].name = n /\ ~obj[t].fallback
    BY <1>1, <1>3, NameOf DEF NameEffect
  <2>2. BranchEffect(n)
    BY <1>1, <2>1
  <2>3. owner[n] # None => owner[n] = t \/ t \in late[n]
    BY <1>3, <2>1 DEF ChoiceInv, Exists
  <2> QED
    BY <1>3, <2>1, <2>2, <2>3 DEF BranchEffect
<1> QED
  BY <1>2, <1>3

LEMMA BranchStep ==
  ASSUME StateType, StateType', BranchInv, [Next]_vars
  PROVE  BranchInv'
<1>0. \A t \in Tree : NameEffect(t) /\ ListEffect(t)
  BY RepoStep, ObjStep DEF RepoEffect, ObjEffect
<1>1. \A n \in Name : BranchEffect(n)
  BY RepoStep DEF RepoEffect
<1>2. ASSUME NEW t \in Tree, listed'[t] # None
      PROVE  owner'[listed'[t]] # None
  <2>1. CASE listed'[t] = listed[t]
    <3>1. listed[t] \in Name /\ owner[listed[t]] # None
      BY <1>2, <2>1 DEF BranchInv, StateType, RepoType
    <3>2. "user" # None /\ None \notin Tree
      BY ConstantsAssumption
    <3> QED
      BY <1>1, <2>1, <3>1, <3>2 DEF BranchEffect
  <2>2. CASE listed'[t] # listed[t]
    BY <1>0, <1>2, <2>2 DEF ListEffect
  <2> QED
    BY <2>1, <2>2
<1>3. ASSUME NEW t \in Tree, NEW n \in Name, owner'[n] = t
      PROVE  obj'[t].pc # "none" /\ obj'[t].name = n
  <2>1. t # None /\ t # "user"
    BY ConstantsAssumption
  <2>2. \/ owner[n] = t
        \/ obj[t].pc = "add" /\ obj[t].name = n
    BY <1>1, <1>3, <2>1 DEF BranchEffect
  <2>3. obj[t].pc # "none" /\ obj[t].name = n
    BY <2>2 DEF BranchInv
  <2> QED
    BY <1>0, <2>3 DEF NameEffect
<1> QED
  BY <1>2, <1>3 DEF BranchInv

\* Whoever makes, deletes, pushes or checks out branches meanwhile, `git
\* branch -D' (worktree_ops.go) of a setup or a cleanup meets only a branch
\* that the session made, or that was made after the session had chosen its
\* name: no work that was there before is lost with it.  A session for which
\* all the names were taken has no such promise.
THEOREM OwnBranchesDeleted == Spec => []DeletesOwnBranch
<1>1. ChoiceInv => DeletesOwnBranch
  BY DEF ChoiceInv, DeletesOwnBranch, Exists
<1>2. Init => ChoiceInv
  BY ChoiceInit
<1>3. StateType /\ ChoiceInv /\ [Next]_vars => ChoiceInv'
  BY ChoiceStep
<1> QED
  BY <1>1, <1>2, <1>3, StateTypes, PTL DEF Spec

-----------------------------------------------------------------------------
(***************************************************************************)
(* Cleanup.                                                                *)
(***************************************************************************)

\* How far a Cleanup has come that has met no error.
CleanInv ==
  \A t \in Tree :
    /\ obj[t].pc \in {"cleanDelete", "prune"} /\ ~obj[t].err => t \notin dir
    /\ obj[t].pc = "prune" /\ ~obj[t].err => listed[t] = None /\ \A n \in Name : owner[n] # t
    /\ obj[t].pc \in {"cleanRemove", "cleanDelete", "prune"} => \A o \in doomed[t] : orphan[o] = None

CleanPcs == {"cleanRemove", "cleanDelete", "prune"}

\* What a step leaves to a cleanup that goes on beside it.
LEMMA BesideRepo ==
  ASSUME StateType, [Next]_vars, NEW t \in Tree, obj[t].pc \notin {"add", "addOld"}
  PROVE  /\ listed[t] = None => listed'[t] = None
         /\ t \notin dir => t \notin dir'
         /\ \A n \in Name : owner[n] # t => owner'[n] # t
<1>1. ListEffect(t) /\ \A n \in Name : BranchEffect(n)
  BY RepoStep DEF RepoEffect
<1>2. t # None /\ t # "user"
  BY ConstantsAssumption
<1> QED
  BY <1>1, <1>2 DEF ListEffect, BranchEffect

LEMMA BesideProc ==
  ASSUME StateType, [Next]_vars, NEW t \in Tree, obj[t].pc \in CleanPcs
  PROVE  doomed'[t] \subseteq doomed[t] /\ \A o \in doomed[t] : orphan[o] = None => orphan'[o] = None
<1>t. ProcType
  BY DEF StateType
<1>0. CASE UNCHANGED <<orphan, doomed>>
  BY <1>0
<1>1. ASSUME NEW u \in Tree, Spawn(u) \/ FindProcesses(u)
      PROVE  doomed'[t] = doomed[t] /\ UNCHANGED orphan
  BY <1>t, <1>1 DEF Spawn, FindProcesses, ProcType, CleanPcs
<1>2. ASSUME NEW u \in Tree, Terminate(u)
      PROVE  UNCHANGED doomed /\ \A o \in Orphan : orphan'[o] \in {orphan[o], None}
  BY <1>t, <1>2 DEF Terminate, Dead, ProcType
<1>3. ASSUME NEW u \in Tree, NEW p \in Orphan, StartsProcess(u, p)
      PROVE  UNCHANGED doomed /\ \A o \in doomed[t] : orphan'[o] = orphan[o]
  BY <1>t, <1>3 DEF StartsProcess, ProcType
<1>4. CASE Restart
  BY <1>4 DEF Restart
<1>5. CASE RetryDone \/ User \/ ResetBegins \/ ResetPrunes \/ UNCHANGED vars \/ \E u \in Tree : ResetTree(u)
  BY <1>0, <1>5 DEF RetryDone, User, UserMakesBranch, UserDeletesBranch, UserChecksOut, UserDeletesTree,
                    UserPushes, ResetBegins, ResetPrunes, ResetTree, vars, processes
<1>6. ASSUME NEW u \in Tree, SetupStep(u) \/ Call(u), ~Spawn(u), ~FindProcesses(u), ~Terminate(u)
      PROVE  UNCHANGED <<orphan, doomed>>
  BY <1>6 DEF SetupStep, SetupBegins, RemoveOld, DeleteOld, CheckBranch, AddNew, AddOld, Added, SetupFails,
         ListingFails, ListingEmpty, ModulesDone, Call, Construct, Pause, Resume, Kill, Calls, CleanRemove, CleanBranch,
         CleanPrune, RetrySubmodules, processes
<1>7. ASSUME NEW w \in Worker, Run(w)
      PROVE  UNCHANGED <<orphan, doomed>>
  BY <1>7, RunWorks DEF Works, processes
<1>8. doomed[t] \subseteq Orphan
  BY <1>t DEF ProcType
<1> QED
  BY <1>0, <1>1, <1>2, <1>3, <1>4, <1>5, <1>6, <1>7, <1>8 DEF Next

\* A step that does not move the object.
LEMMA CleanBeside ==
  ASSUME StateType, CleanInv, [Next]_vars, NEW t \in Tree, obj'[t] = obj[t]
  PROVE  /\ obj'[t].pc \in {"cleanDelete", "prune"} /\ ~obj'[t].err => t \notin dir'
         /\ obj'[t].pc = "prune" /\ ~obj'[t].err => listed'[t] = None /\ \A n \in Name : owner'[n] # t
         /\ obj'[t].pc \in CleanPcs => \A o \in doomed'[t] : orphan'[o] = None
BY BesideRepo, BesideProc DEF CleanInv, CleanPcs

\* The steps of the cleanup itself.
LEMMA CleanMoves ==
  ASSUME StateType, StateType', CleanInv, BranchInv, [Next]_vars, NEW t \in Tree, SetupStep(t) \/ Call(t)
  PROVE  /\ obj'[t].pc \in {"cleanDelete", "prune"} /\ ~obj'[t].err => t \notin dir'
         /\ obj'[t].pc = "prune" /\ ~obj'[t].err => listed'[t] = None /\ \A n \in Name : owner'[n] # t
         /\ obj'[t].pc \in CleanPcs => \A o \in doomed'[t] : orphan'[o] = None
<1>1. CASE obj'[t].pc \notin CleanPcs
  BY <1>1 DEF CleanPcs
<1>2. CASE CleanRemove(t)
  <2>1. obj[t].pc = "cleanRemove" /\ obj'[t].pc = "cleanDelete" /\ obj'[t].err = (t \in dir')
    BY <1>2, CleanRemoveMoves DEF GoesFrom
  <2> QED
    BY <2>1, BesideProc DEF CleanInv, CleanPcs
<1>3. CASE CleanBranch(t)
  <2>1. /\ obj[t].pc = "cleanDelete" /\ obj'[t].pc = "prune" /\ obj'[t].err = (obj[t].err \/ BranchStays(t))
        /\ UNCHANGED <<listed, dir>> /\ DeleteBranch(obj[t].name)
    BY <1>3, CleanBranchMoves DEF GoesFrom, CleanBranch
  <2>2. \A o \in doomed'[t] : orphan'[o] = None
    BY <2>1, BesideProc DEF CleanInv, CleanPcs
  <2>3. SUFFICES ASSUME ~obj[t].err, ~BranchStays(t)
                 PROVE  t \notin dir /\ listed[t] = None /\ \A n \in Name : owner'[n] # t
    BY <2>1, <2>2
  <2>4. t \notin dir
    BY <2>1, <2>3 DEF CleanInv
  <2>5. listed[t] = None
    <3>1. listed[t] = obj[t].name => BranchStays(t) \/ listed[t] = None
      BY DEF BranchStays, CheckedOut, BranchInv, Exists
    <3> QED
      BY <2>3, <3>1 DEF StateType, NameType
  <2>6. ASSUME NEW n \in Name, owner'[n] = t
        PROVE  FALSE
    <3>1. obj'[t].name = n /\ obj[t].name = n
      BY <1>3, <2>1, <2>6, BranchStep, CleanBranchMoves DEF BranchInv, GoesFrom, Moves, NameEffect
    <3>2. owner'[n] = None \/ (CheckedOut(n) /\ owner'[n] = owner[n])
      BY <2>1, <3>1, Deletes, NameOf DEF StateType, DeleteBranch
    <3> QED
      BY <2>3, <2>6, <3>1, <3>2, RetryApart DEF BranchStays, Exists
  <2> QED
    BY <2>4, <2>5, <2>6
<1>4. CASE Spawn(t)
  <2>1. doomed'[t] = {} /\ obj'[t].pc \notin {"cleanDelete", "prune"}
    BY <1>4, KillingMoves DEF Spawn, GoesFrom, StateType, ProcType
  <2> QED
    BY <2>1
<1>5. CASE Terminate(t)
  <2>1. obj'[t].pc \notin {"cleanDelete", "prune"}
    BY <1>5, KillingMoves DEF GoesFrom
  <2>2. PICK gone : Dead(gone \cup doomed[t]) /\ UNCHANGED doomed
    BY <1>5 DEF Terminate, Survivors
  <2>3. \A o \in doomed[t] : orphan'[o] = None
    BY <2>2 DEF Dead, StateType, ProcType
  <2> QED
    BY <2>1, <2>2, <2>3
<1>6. CASE RetrySubmodules(t)
  BY <1>6, CleanBeside DEF RetrySubmodules
<1>7. CASE ~(CleanRemove(t) \/ CleanBranch(t) \/ Spawn(t) \/ Terminate(t) \/ RetrySubmodules(t))
  <2>1. obj'[t].pc \notin CleanPcs
    BY <1>7, ConstructMoves, AddMoves, ListingMoves, ModulesDoneMoves, SetupMoves, CallMoves, KillingMoves
       DEF SetupStep, Call, GoesFrom, CleanPcs, SettingUp
  <2> QED
    BY <1>1, <2>1
<1> QED
  BY <1>2, <1>3, <1>4, <1>5, <1>6, <1>7

LEMMA CleanStep ==
  ASSUME StateType, StateType', CleanInv, BranchInv, [Next]_vars
  PROVE  CleanInv'
<1> SUFFICES ASSUME NEW t \in Tree
             PROVE  /\ obj'[t].pc \in {"cleanDelete", "prune"} /\ ~obj'[t].err => t \notin dir'
                    /\ obj'[t].pc = "prune" /\ ~obj'[t].err =>
                         listed'[t] = None /\ \A n \in Name : owner'[n] # t
                    /\ obj'[t].pc \in CleanPcs => \A o \in doomed'[t] : orphan'[o] = None
  BY DEF CleanInv, CleanPcs
<1>1. CASE SetupStep(t) \/ Call(t)
  BY <1>1, CleanMoves
<1>2. ASSUME NEW u \in Tree \ {t}, SetupStep(u) \/ Call(u)
      PROVE  obj'[t] = obj[t]
  <2>1. CASE RetrySubmodules(u)
    BY <2>1 DEF RetrySubmodules
  <2> QED
    BY <1>2, <2>1, CallSteps DEF Moves
<1>3. CASE UNCHANGED obj
  BY <1>3, CleanBeside
<1>4. CASE Restart
  BY <1>4, RestartMoves DEF CleanPcs
<1>5. CASE \/ RetryDone \/ User \/ ResetBegins \/ ResetPrunes \/ UNCHANGED vars
           \/ \E u \in Tree : ResetTree(u)
           \/ \E u \in Tree, o \in Orphan : StartsProcess(u, o)
  BY <1>3, <1>5 DEF RetryDone, User, UserMakesBranch, UserDeletesBranch, UserChecksOut, UserDeletesTree,
                    UserPushes, ResetBegins, ResetPrunes, ResetTree, StartsProcess, vars
<1>6. ASSUME NEW w \in Worker, Run(w)
      PROVE  UNCHANGED obj
  BY <1>6, RunWorks DEF Works
<1> QED
  BY <1>1, <1>2, <1>3, <1>4, <1>5, <1>6, CleanBeside DEF Next

\* A Cleanup that reports no error (worktree_ops.go) has removed the worktree,
\* its entry in git's list and the branch that the session had made, and the
\* processes that pgrep had found in the worktree are dead, whatever the user
\* does to the branches and the directory, and whoever else sets up or cleans
\* up, between its git commands.
THEOREM CleanupsComplete == Spec => []CleanupComplete
<1>1. CleanInv => CleanupComplete
  BY DEF CleanInv, CleanupComplete
<1>2. Init => CleanInv /\ BranchInv
  BY ChoiceInit DEF Init, CleanInv, NoObject
<1>3. StateType /\ StateType' /\ CleanInv /\ BranchInv /\ [Next]_vars => CleanInv' /\ BranchInv'
  BY CleanStep, BranchStep
<1> QED
  BY <1>1, <1>2, <1>3, StateTypes, PTL DEF Spec

-----------------------------------------------------------------------------
(***************************************************************************)
(* The submodules.                                                         *)
(***************************************************************************)

\* Whether anything is promised of the submodules of t.
Promised(t) == t \in dir /\ listed[t] # None /\ t \notin unsure

\* No submodule is left that a setup neither has still to do, nor reports as
\* failed, nor has populated; no retry disturbs it; and what a retry does not
\* report is populated.
ModulesAt(t) ==
  Promised(t) =>
    /\ job[t].tree = t => job[Retry].tree # t /\ \A s \in Sub : Covers(t, s)
    /\ job[Retry].tree = t => \A s \in Sub : Reports(Retry, s)
    /\ job[t].tree # t /\ job[Retry].tree # t => \A s \in Sub : s \in failures[t] \/ <<t, s>> \in filled

ModulesInv == \A t \in Tree : ModulesAt(t)

\* Only what has gone is no longer promised, or populated.
PromiseKept(t) ==
  /\ UNCHANGED <<job, failures>> /\ (Promised(t)' => Promised(t))
  /\ Promised(t)' => \A s \in Sub : <<t, s>> \in filled => <<t, s>> \in filled'

LEMMA KeepsPromise ==
  ASSUME NEW t \in Tree, ModulesAt(t), PromiseKept(t)
  PROVE  ModulesAt(t)'
BY DEF ModulesAt, PromiseKept, Covers, Reports

LEMMA PromiseGoes ==
  ASSUME StateType, NEW t \in Tree, NEW u \in Tree,
         RemoveOld(u) \/ CleanRemove(u) \/ UserDeletesTree(u) \/ ResetTree(u)
  PROVE  PromiseKept(t)
<1>1. /\ UNCHANGED <<failures, unsure, job>> /\ dir' \subseteq dir
      /\ filled' = filled \ ({u} \X Sub) \/ (u \notin dir /\ UNCHANGED <<dir, listed, filled>>)
      /\ \A v \in Tree \ {u} : listed'[v] = listed[v]
      /\ u \notin dir' \/ listed'[u] = None \/ UNCHANGED <<dir, listed, filled>>
  BY GoesAlone
<1> QED
  BY <1>1 DEF PromiseKept, Promised

LEMMA PromisePruned ==
  ASSUME StateType, NEW t \in Tree, Prune, UNCHANGED <<dir, modules>>
  PROVE  PromiseKept(t)
BY Prunes DEF PromiseKept, Promised, modules, StateType

LEMMA AddModules ==
  ASSUME StateType, ModulesInv, NEW t \in Tree, NEW u \in Tree, AddNew(u) \/ AddOld(u)
  PROVE  ModulesAt(t)'
<1>1. /\ listed' = [listed EXCEPT ![u] = obj[u].name] /\ dir' = dir \cup {u}
      /\ unsure' = (IF job[Retry].tree = u THEN unsure \cup {u} ELSE unsure \ {u})
      /\ UNCHANGED <<filled, failures>>
  BY DEF AddNew, AddOld, Added
<1>2. job'[u].tree = u /\ job'[u].todo = Sub /\ \A v \in Worker \ {u} : job'[v] = job[v]
  BY AddJob
<1>3. listed \in [Tree -> Name \cup {None}]
  BY DEF StateType, RepoType
<1>4. CASE t = u
  BY <1>1, <1>2, <1>4, RetryApart DEF ModulesAt, Promised, Covers
<1>5. CASE t # u
  BY <1>1, <1>2, <1>3, <1>5, RetryApart DEF ModulesInv, ModulesAt, Promised, Covers, Reports
<1> QED
  BY <1>4, <1>5

\* Nothing is promised of submodules that could not be listed.
LEMMA ListingModules ==
  ASSUME StateType, ModulesInv, NEW t \in Tree, NEW u \in Tree, ListingFails(u) \/ ListingEmpty(u)
  PROVE  ModulesAt(t)'
<1>1. /\ unsure' \in {unsure, unsure \cup {u}} /\ (Sub # {} => u \in unsure')
      /\ UNCHANGED <<listed, dir, filled, failures>>
  BY DEF ListingFails, ListingEmpty, repo
<1>2. \A v \in Worker \ {u} : job'[v] = job[v]
  BY ListingJob
<1>3. CASE t = u /\ Sub # {}
  BY <1>1, <1>3 DEF ModulesAt, Promised
<1>4. CASE t = u /\ Sub = {}
  <2>1. job'[u].tree = None
    BY <1>4, u \in Worker DEF ListingFails, ListingEmpty, JobStep, NoJob, StateType, JobsType, Worker
  <2> QED
    BY <1>4, <2>1, ConstantsAssumption DEF ModulesAt
<1>5. CASE t # u
  BY <1>1, <1>2, <1>5, RetryApart DEF ModulesInv, ModulesAt, Promised, Covers, Reports
<1> QED
  BY <1>3, <1>4, <1>5

LEMMA DoneModules ==
  ASSUME StateType, ModulesInv, NEW t \in Tree, NEW u \in Tree, ModulesDone(u)
  PROVE  ModulesAt(t)'
<1>1. /\ failures' = [failures EXCEPT ![u] = job[u].bad] /\ obj[u].pc = "modules" /\ Done(u)
      /\ UNCHANGED <<listed, dir, filled, unsure>>
  BY DEF ModulesDone, repo
<1>2. job'[u].tree = None /\ \A v \in Worker \ {u} : job'[v] = job[v]
  BY ModulesDoneJob
<1>3. job[u].tree = u /\ failures \in [Tree -> SUBSET Sub]
  BY <1>1 DEF StateType, JobsType, FilledType
<1>4. CASE t = u
  <2> SUFFICES ASSUME Promised(t)
               PROVE  /\ job[Retry].tree # t
                      /\ \A s \in Sub : s \in job[t].bad \/ <<t, s>> \in filled
    BY <1>1, <1>2, <1>3, <1>4, RetryApart DEF ModulesAt, Promised
  <2>1. job[t].todo = {} /\ job[t].cur = None
    BY <1>1, <1>4 DEF Done, Working
  <2> QED
    BY <1>3, <1>4, <2>1, ConstantsAssumption DEF ModulesInv, ModulesAt, Covers
<1>5. CASE t # u
  BY <1>1, <1>2, <1>3, <1>5, RetryApart DEF ModulesInv, ModulesAt, Promised, Covers, Reports
<1> QED
  BY <1>4, <1>5

LEMMA RetryModules ==
  ASSUME StateType, ModulesInv, NEW t \in Tree, NEW u \in Tree, RetrySubmodules(u)
  PROVE  ModulesAt(t)'
<1>1. /\ job[Retry].tree = None /\ unsure' = (IF obj[u].pc = "modules" THEN unsure \cup {u} ELSE unsure)
      /\ UNCHANGED <<listed, dir, filled, failures>>
  BY DEF RetrySubmodules, repo
<1>2. /\ job'[Retry].tree = u /\ job'[Retry].bad = failures[u]
      /\ \A v \in Worker \ {Retry} : job'[v] = job[v]
  BY RetryJob
<1>3. job[u].tree = (IF obj[u].pc = "modules" THEN u ELSE None)
  BY DEF StateType, JobsType
<1>4. CASE t = u
  BY <1>1, <1>2, <1>3, <1>4, RetryApart DEF ModulesInv, ModulesAt, Promised, Reports
<1>5. CASE t # u
  BY <1>1, <1>2, <1>5, RetryApart DEF ModulesInv, ModulesAt, Promised, Covers
<1> QED
  BY <1>4, <1>5

LEMMA RetryDoneModules ==
  ASSUME StateType, ModulesInv, NEW t \in Tree, RetryDone
  PROVE  ModulesAt(t)'
<1> DEFINE u == job[Retry].tree
<1>1. /\ failures' = [failures EXCEPT ![u] = job[Retry].bad] /\ u # None
      /\ UNCHANGED <<listed, dir, filled, unsure>>
  BY DEF RetryDone, Done, repo
<1>2. job'[Retry].tree = None /\ \A v \in Worker \ {Retry} : job'[v] = job[v]
  BY RetryDoneJob
<1>3. u \in Tree /\ failures \in [Tree -> SUBSET Sub]
  BY <1>1, RetryApart DEF StateType, JobsType, JobType, FilledType
<1>4. CASE t = u
  BY <1>1, <1>2, <1>3, <1>4, RetryApart DEF ModulesInv, ModulesAt, Promised, Reports
<1>5. CASE t # u
  BY <1>1, <1>2, <1>3, <1>5, RetryApart DEF ModulesInv, ModulesAt, Promised, Covers
<1> QED
  BY <1>4, <1>5

LEMMA RunModules ==
  ASSUME StateType, ModulesInv, NEW t \in Tree, NEW w \in Worker, Run(w)
  PROVE  ModulesAt(t)'
<1>1. Works(w)
  BY RunWorks
<1>2. UNCHANGED <<listed, dir, unsure, failures>> /\ filled \subseteq filled'
  BY <1>1 DEF Works, repo
<1>3. \A v \in Worker : job'[v].tree = job[v].tree
  BY <1>1 DEF Works
<1>4. \A v \in Worker, s \in Sub : (Covers(v, s) => Covers(v, s)') /\ (Reports(v, s) => Reports(v, s)')
  <2> SUFFICES ASSUME NEW v \in Worker, NEW s \in Sub
               PROVE  (Covers(v, s) => Covers(v, s)') /\ (Reports(v, s) => Reports(v, s)')
    OBVIOUS
  <2>1. CASE v = w
    BY <1>1, <2>1 DEF Works
  <2>2. CASE v # w
    <3>1. job'[v] = job[v]
      BY <1>1, <2>2 DEF Works
    <3> QED
      BY <1>2, <3>1 DEF Covers, Reports
  <2> QED
    BY <2>1, <2>2
<1> QED
  BY <1>2, <1>3, <1>4, RetryApart DEF ModulesInv, ModulesAt, Promised

LEMMA ModulesStep ==
  ASSUME StateType, ModulesInv, [Next]_vars
  PROVE  ModulesInv'
<1> SUFFICES ASSUME NEW t \in Tree
             PROVE  ModulesAt(t)'
  BY DEF ModulesInv
<1>0. ModulesAt(t)
  BY DEF ModulesInv
<1>1. CASE UNCHANGED <<listed, dir, modules>>
  BY <1>0, <1>1, KeepsPromise DEF PromiseKept, Promised, modules
<1>2. ASSUME NEW u \in Tree, RemoveOld(u) \/ CleanRemove(u) \/ UserDeletesTree(u) \/ ResetTree(u)
      PROVE  ModulesAt(t)'
  BY <1>0, <1>2, PromiseGoes, KeepsPromise
<1>3. ASSUME ResetPrunes \/ \E u \in Tree : CleanPrune(u)
      PROVE  ModulesAt(t)'
  BY <1>0, <1>3, PromisePruned, KeepsPromise DEF ResetPrunes, CleanPrune
<1>4. ASSUME NEW u \in Tree, SetupStep(u) \/ Call(u)
      PROVE  ModulesAt(t)'
  <2>1. CASE RemoveOld(u) \/ CleanRemove(u) \/ CleanPrune(u)
    BY <1>2, <1>3, <2>1
  <2>2. CASE \/ AddNew(u) \/ AddOld(u) \/ ListingFails(u) \/ ListingEmpty(u)
             \/ ModulesDone(u) \/ RetrySubmodules(u)
    BY <2>2, AddModules, ListingModules, DoneModules, RetryModules
  <2>3. CASE SetupBegins(u) \/ DeleteOld(u) \/ CheckBranch(u) \/ SetupFails(u)
    BY <1>1, <2>3 DEF SetupBegins, DeleteOld, CheckBranch, SetupFails, repo
  <2>4. CASE \/ Construct(u) \/ Spawn(u) \/ Pause(u) \/ Resume(u) \/ Kill(u)
             \/ FindProcesses(u) \/ Terminate(u) \/ CleanBranch(u)
    BY <1>1, <2>4 DEF Construct, Spawn, Pause, Resume, Kill, Calls, FindProcesses, Terminate,
                      CleanBranch, repo
  <2> QED
    BY <1>4, <2>1, <2>2, <2>3, <2>4 DEF SetupStep, Call
<1>5. CASE User
  BY <1>1, <1>2, <1>5 DEF User, UserMakesBranch, UserDeletesBranch, UserChecksOut, UserPushes
<1>6. CASE ResetBegins \/ UNCHANGED vars \/ \E u \in Tree, o \in Orphan : StartsProcess(u, o)
  BY <1>1, <1>6 DEF ResetBegins, StartsProcess, vars, repo
<1>7. CASE Restart
  BY <1>7 DEF Restart, ModulesAt, Promised
<1> QED
  BY <1>2, <1>3, <1>4, <1>5, <1>6, <1>7, RetryDoneModules, RunModules DEF Next

\* "Absence of a result is the success signal" (submodule_result.go): however
\* commands of a setup and of a retry succeed, fail, hang and time out, and
\* whatever is removed, reset or retried beside them, a submodule that is not
\* among the failures of its worktree is populated, unless its setup could not
\* list the submodules, a retry has overlapped with the setup, or the
\* application has been restarted.
THEOREM FailuresHonest == Spec => []FailureHonest
<1>1. StateType /\ ModulesInv => FailureHonest
  BY RetryApart DEF ModulesInv, ModulesAt, Promised, FailureHonest
<1>2. Init => ModulesInv
  BY DEF Init, ModulesInv, ModulesAt, Promised
<1>3. StateType /\ ModulesInv /\ [Next]_vars => ModulesInv'
  BY ModulesStep
<1> QED
  BY <1>1, <1>2, <1>3, StateTypes, PTL DEF Spec
=============================================================================
