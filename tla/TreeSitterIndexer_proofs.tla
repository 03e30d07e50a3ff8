----------------------- MODULE TreeSitterIndexer_proofs -----------------------
(***************************************************************************)
(* Theorems about TreeSitterIndexer, for any files, number of versions and *)
(* number of failures.                                                     *)
(***************************************************************************)
EXTENDS TreeSitterIndexer, TLAPS

LEMMA EmptyType == Empty \in Table
BY ConstantsAssumption DEF Empty, Table, Version

LEMMA NoBuildType == NoBuild \in BuildType
BY EmptyType DEF NoBuild, BuildType, Pc

LEMMA SymbolsType == ASSUME NEW t \in Table PROVE Symbols(t) \in Table
BY ConstantsAssumption DEF Symbols, Table, Version

\* The tables of a complete index.
LEMMA LoadedType ==
  ASSUME TypeOK, Loadable
  PROVE  disk.syms \in Table /\ disk.refs \in Table /\ Loaded \in [syms : Table, refs : Table]
BY DEF TypeOK, Loadable, Loaded

LEMMA EnsureLoadedType ==
  ASSUME TypeOK
  PROVE  /\ EnsureLoaded \in {None} \cup [syms : Table, refs : Table]
         /\ EnsureLoaded # None => indexed
BY LoadedType DEF TypeOK, EnsureLoaded

LEMMA TypeInit == Init => TypeOK
<1> SUFFICES ASSUME Init PROVE TypeOK
  OBVIOUS
<1>1. tree \in Table /\ clock \in Version
  BY ConstantsAssumption DEF Init, Table, Version
<1>2. disk \in [commit : {None, Torn, "head", "older"},
                syms : {None, Torn} \cup Table, refs : {None, Torn} \cup Table]
  BY DEF Init
<1>3. faults \in 0 .. MaxFaults /\ tracked \in SUBSET File
  BY ConstantsAssumption DEF Init
<1> QED
  BY <1>1, <1>2, <1>3, EmptyType, NoBuildType DEF Init, TypeOK

\* A step that leaves the indexer as it is, or ends it, and the disk.
LEMMA WorldType ==
  ASSUME TypeOK, NEW gone \in SUBSET File, NEW new \in SUBSET File, Changes(gone, new),
         writer' \in SUBSET File
  PROVE  TypeOK'
<1>1. clock' \in Version /\ clock + 1 \in Version /\ 0 \in Version
  BY ConstantsAssumption DEF Changes, TypeOK, Version
<1>2. tree' \in Table
  BY <1>1 DEF Changes, TypeOK, Table
<1> QED
  BY <1>1, <1>2 DEF Changes, TypeOK, indexer

\* The steps of the world: edits, operations, git.
LEMMA WorldStepsType ==
  ASSUME TypeOK, NEW f \in File, NEW g \in File,
         \/ Edit(f) \/ WriteFile(f) \/ CreateFile(f) \/ DeletePath(f) \/ GitAdd(f)
         \/ RenamePath(f, g) \/ CopyPath(f, g)
  PROVE  TypeOK'
<1>1. CASE Edit(f)
  BY <1>1, WorldType DEF Edit, TypeOK
<1>2. ASSUME NEW gone \in SUBSET File, NEW new \in SUBSET File, Operation(gone, new)
      PROVE  TypeOK'
  BY <1>2, WorldType DEF Operation
<1>3. CASE GitAdd(f)
  BY <1>3 DEF GitAdd, indexer, TypeOK
<1> QED
  BY <1>1, <1>2, <1>3 DEF WriteFile, CreateFile, DeletePath, RenamePath, CopyPath

LEMMA AgedType ==
  ASSUME TypeOK
  PROVE  /\ Aged(disk) \in [commit : {None, Torn, "head", "older"},
                            syms : {None, Torn} \cup Table, refs : {None, Torn} \cup Table]
         /\ Aged(disk).syms = disk.syms /\ Aged(disk).refs = disk.refs
         /\ \A b \in BuildType : Aged(b) \in BuildType /\ Aged(b).pc = b.pc
BY DEF TypeOK, Aged, BuildType

LEMMA CommitType ==
  ASSUME TypeOK, Commit
  PROVE  TypeOK'
<1>1. build' \in BuildType /\ build'.pc = build.pc
  BY AgedType DEF Commit, TypeOK
<1>2. ~on => build' = NoBuild
  <2>1. NoBuild.commit = "older"
    BY DEF NoBuild
  <2> QED
    BY <2>1 DEF Commit, TypeOK, Aged
<1>3. stray' \in {None} \cup {b \in BuildType : b.pc \in SavePcs}
  BY AgedType DEF Commit, TypeOK
<1>4. UNCHANGED <<world, on, indexed, mod, mem, search, refresh, writer, history>>
  BY DEF Commit
<1>5. disk' \in [commit : {None, Torn, "head", "older"},
                 syms : {None, Torn} \cup Table, refs : {None, Torn} \cup Table]
  BY AgedType DEF Commit
<1> QED
  BY <1>1, <1>2, <1>3, <1>4, <1>5 DEF TypeOK, world, history

LEMMA CutShortType ==
  ASSUME TypeOK, NEW pc, CutShort(pc)
  PROVE  disk' \in [commit : {None, Torn, "head", "older"},
                    syms : {None, Torn} \cup Table, refs : {None, Torn} \cup Table]
BY DEF TypeOK, CutShort

LEMMA FaultType ==
  ASSUME TypeOK, Fault
  PROVE  faults' \in 0 .. MaxFaults
BY ConstantsAssumption DEF TypeOK, Fault

\* The indexer is started, stopped or lost.
LEMMA ServerType ==
  ASSUME TypeOK, Start \/ Stop \/ IndexSession \/ StopTimesOut \/ Crash
  PROVE  TypeOK'
<1>1. /\ on' \in BOOLEAN /\ indexed' = FALSE /\ mod' \in Table /\ mem' = None
      /\ search' \in Table /\ refresh' \in BOOLEAN /\ build' = NoBuild /\ (~on' => ~refresh')
  BY EmptyType DEF Start, Stop, IndexSession, StopTimesOut, Crash, Fresh, Gone, NoSearch
<1>2. UNCHANGED world /\ told' \in SUBSET File /\ stale' \in SUBSET File /\ writer' \in SUBSET File
  BY DEF Start, Stop, IndexSession, StopTimesOut, Crash, Gone, history, TypeOK
<1>3. faults' \in 0 .. MaxFaults
  BY FaultType DEF Start, Stop, IndexSession, StopTimesOut, Crash, history, TypeOK
<1>4. intact' \in BOOLEAN
  BY DEF Start, Stop, IndexSession, StopTimesOut, Crash, history, TypeOK
<1>5. stray' \in {None} \cup {b \in BuildType : b.pc \in SavePcs}
  BY DEF Start, Stop, IndexSession, StopTimesOut, Crash, Saving, TypeOK
<1>6. disk' \in [commit : {None, Torn, "head", "older"},
                 syms : {None, Torn} \cup Table, refs : {None, Torn} \cup Table]
  BY CutShortType DEF Start, Stop, IndexSession, StopTimesOut, Crash, TypeOK
<1> QED
  BY <1>1, <1>2, <1>3, <1>4, <1>5, <1>6, NoBuildType DEF TypeOK, world

\* What is written is a table.
LEMMA WrittenType ==
  ASSUME TypeOK, NEW b \in BuildType, b.pc \in SavePcs
  PROVE  /\ Written(b) \in [commit : {None, Torn, "head", "older"},
                            syms : {None, Torn} \cup Table, refs : {None, Torn} \cup Table]
         /\ NextPc(b.pc) \in {"syms", "calls", "update"}
         /\ b.pc # "calls" => NextPc(b.pc) \in SavePcs
<1>1. CASE b.pc = "meta"
  BY <1>1 DEF TypeOK, Written, NextPc, BuildType, SavePcs
<1>2. CASE b.pc = "syms"
  BY <1>2 DEF TypeOK, Written, NextPc, BuildType, SavePcs
<1>3. CASE b.pc = "calls"
  BY <1>3 DEF TypeOK, Written, NextPc, BuildType, SavePcs
<1> QED
  BY <1>1, <1>2, <1>3 DEF SavePcs

LEMMA StrayType ==
  ASSUME TypeOK, StraySaves
  PROVE  TypeOK'
<1>1. stray \in BuildType /\ stray.pc \in SavePcs
  BY DEF TypeOK, StraySaves
<1>2. stray.pc # "calls" => [stray EXCEPT !.pc = NextPc(stray.pc)] \in
                              {b \in BuildType : b.pc \in SavePcs}
  BY <1>1, WrittenType DEF BuildType, Pc
<1>3. stray' \in {None} \cup {b \in BuildType : b.pc \in SavePcs}
  BY <1>2 DEF StraySaves
<1> QED
  BY <1>1, <1>3, WrittenType DEF StraySaves, TypeOK, world, indexer, history

LEMMA RefreshesType ==
  ASSUME TypeOK, Refreshes
  PROVE  TypeOK'
BY DEF Refreshes, Refresh, TypeOK, world

LEMMA QueryType ==
  ASSUME TypeOK, Query
  PROVE  TypeOK'
BY EnsureLoadedType DEF Query, TypeOK, world, history

-----------------------------------------------------------------------------
\* The steps of a build.
LEMMA AdoptType ==
  ASSUME TypeOK, Adopt \/ AdoptUnlisted
  PROVE  TypeOK'
<1>1. PICK listed \in SUBSET File : Adopts(listed)
  BY DEF Adopt, AdoptUnlisted, TypeOK
<1>2. disk.syms \in Table
  BY <1>1, LoadedType DEF Adopts, Adoptable
<1>3. mod' \in Table
  BY <1>1 DEF Adopts, TypeOK, Table
<1>4. search' \in Table
  BY <1>1, <1>2 DEF Adopts, IndexBatch, TypeOK, Table
<1>5. stale' \in SUBSET File
  BY <1>1 DEF Adopts
<1>6. faults' \in 0 .. MaxFaults /\ intact' \in BOOLEAN
  BY FaultType DEF Adopt, AdoptUnlisted, TypeOK
<1> QED
  BY <1>1, <1>3, <1>4, <1>5, <1>6 DEF Adopts, At, TypeOK, world

\* The build begins or ends, or its lists cannot be had.
LEMMA WakeType ==
  ASSUME TypeOK, Wake \/ ListFails
  PROVE  TypeOK'
<1>1. build' \in BuildType
  BY NoBuildType DEF Wake, ListFails, BuildGoesTo, Ends, TypeOK, BuildType, Pc
<1>2. on /\ faults' \in 0 .. MaxFaults /\ told' \in SUBSET File /\ refresh' \in BOOLEAN
  BY FaultType DEF Wake, ListFails, At, history, TypeOK
<1> QED
  BY <1>1, <1>2 DEF Wake, ListFails, history, TypeOK, world

LEMMA ScanType ==
  ASSUME TypeOK, Scan \/ ScanUnloaded
  PROVE  TypeOK'
<1>1. PICK tables : Scans(tables) /\ tables \in {EnsureLoaded, None}
  BY DEF Scan, ScanUnloaded
<1>2. tables \in {None} \cup [syms : Table, refs : Table] /\ (tables # None => indexed)
  BY <1>1, EnsureLoadedType
<1> DEFINE new == [f \in File |-> IF f \in tracked THEN tree[f] ELSE 0]
           kept == {f \in File \ Changed(new) : new[f] # 0}
           syms == [f \in File |-> IF tables # None /\ f \in kept THEN tables.syms[f] ELSE 0]
<1>3. new \in Table
  BY ConstantsAssumption DEF TypeOK, Table, Version
<1>4. syms \in Table
  <2>1. 0 \in Version
    BY ConstantsAssumption DEF Version
  <2>2. tables # None => tables.syms \in Table
    BY <1>2
  <2> QED
    BY <2>1, <2>2 DEF Table
<1>5. Changed(new) \in SUBSET File
  BY DEF Changed
<1>6. build' \in BuildType
  <2>1. CASE build' = NoBuild
    BY <2>1, NoBuildType
  <2>2. CASE build' = [build EXCEPT !.pc = "parse", !.mod = new, !.changed = Changed(new),
                                    !.syms = syms, !.full = ~indexed]
    <3> HIDE DEF new, syms
    <3> QED
      BY <1>3, <1>4, <1>5, <2>2 DEF BuildType, TypeOK, Pc
  <2> QED
    BY <1>1, <2>1, <2>2 DEF Scans, Ends
<1>7. faults' \in 0 .. MaxFaults /\ intact' \in BOOLEAN
  BY FaultType DEF Scan, ScanUnloaded, TypeOK
<1> QED
  BY <1>1, <1>2, <1>6, <1>7 DEF Scans, At, TypeOK, world

LEMMA ParseType ==
  ASSUME TypeOK, Parse \/ \E f \in File : ParseFails(f)
  PROVE  TypeOK'
<1>1. PICK lost : Parses(lost)
  BY DEF Parse, ParseFails
<1> DEFINE syms == [f \in File |-> IF f \in build.changed \ lost THEN Symbols(tree)[f] ELSE build.syms[f]]
           refs == [f \in File |-> IF f \in build.changed \ lost THEN tree[f] ELSE 0]
<1>2. syms \in Table /\ refs \in Table
  BY SymbolsType, ConstantsAssumption DEF TypeOK, BuildType, Table, Version
<1>3. build' = [build EXCEPT !.pc = "refs", !.syms = syms, !.refs = refs, !.clean = lost = {}]
  BY <1>1 DEF Parses
<1> HIDE DEF syms, refs
<1>4. build' \in BuildType
  BY <1>2, <1>3 DEF BuildType, TypeOK, Pc
<1>5. faults' \in 0 .. MaxFaults /\ intact' \in BOOLEAN
  BY FaultType DEF Parse, ParseFails, TypeOK
<1> QED
  BY <1>1, <1>4, <1>5 DEF Parses, At, TypeOK, world

LEMMA SearchType ==
  ASSUME TypeOK, UpdateSearch
  PROVE  TypeOK'
<1> DEFINE refs == [f \in File |-> IF f \in Unchanged THEN tree[f] ELSE build.refs[f]]
<1>1. refs \in Table
  BY DEF TypeOK, BuildType, Table
<1>2. build' = [build EXCEPT !.pc = "meta", !.changed = {}, !.commit = "head", !.refs = refs,
                             !.clean = build.clean /\ stray = None]
  BY DEF UpdateSearch
<1> HIDE DEF refs
<1>3. build' \in BuildType
  BY <1>1, <1>2 DEF BuildType, TypeOK, Pc, SavePcs
<1>4. search' \in Table
  BY DEF UpdateSearch, Reindexed, TypeOK, BuildType
<1> QED
  BY <1>3, <1>4 DEF UpdateSearch, At, TypeOK, world, history

LEMMA SaveType ==
  ASSUME TypeOK, Save \/ SaveFails
  PROVE  TypeOK'
<1>1. on /\ build \in BuildType /\ build.pc \in SavePcs
  BY DEF Save, SaveFails, Saving, TypeOK
<1>2. build' \in BuildType
  BY <1>1, WrittenType DEF Save, SaveFails, BuildGoesTo, BuildType, Pc, SavePcs
<1>3. disk' \in [commit : {None, Torn, "head", "older"},
                 syms : {None, Torn} \cup Table, refs : {None, Torn} \cup Table]
  BY <1>1, WrittenType, CutShortType DEF Save, SaveFails
<1>4. faults' \in 0 .. MaxFaults /\ intact' \in BOOLEAN
  BY FaultType DEF Save, SaveFails, history, TypeOK
<1> QED
  BY <1>1, <1>2, <1>3, <1>4 DEF Save, SaveFails, TypeOK, world, history

LEMMA UpdateType ==
  ASSUME TypeOK, Update
  PROVE  TypeOK'
<1>1. on /\ mod' \in Table
  BY DEF Update, At, NewModTimes, TypeOK, BuildType
<1> QED
  BY <1>1, NoBuildType DEF Update, Ends, ReleasedTables, TypeOK, BuildType, world

LEMMA TypeStep == TypeOK /\ [Next]_vars => TypeOK'
<1> SUFFICES ASSUME TypeOK, [Next]_vars
             PROVE  TypeOK'
  OBVIOUS
<1>1. CASE UNCHANGED vars
  BY <1>1 DEF TypeOK, vars, world, indexer, history
<1>2. CASE Build \/ BuildFails
  BY <1>2, WakeType, AdoptType, ScanType, ParseType, SearchType, SaveType, UpdateType
     DEF Build, BuildFails
<1>3. CASE Query \/ Start \/ Stop \/ IndexSession \/ StopTimesOut \/ Crash \/ StraySaves
             \/ Refreshes \/ Commit
  BY <1>3, QueryType, ServerType, StrayType, RefreshesType, CommitType
<1>4. ASSUME NEW f \in File, NEW g \in File,
             \/ Edit(f) \/ WriteFile(f) \/ CreateFile(f) \/ DeletePath(f) \/ GitAdd(f)
             \/ RenamePath(f, g) \/ CopyPath(f, g)
      PROVE  TypeOK'
  BY <1>4, WorldStepsType
<1> QED
  BY <1>1, <1>2, <1>3, <1>4 DEF Next

\* The state of the indexer, of a build in flight and of one that was left to
\* run keep their types, whatever is edited or fails meanwhile: an indexer
\* that is stopped has nothing, and one that has tables has built some.
THEOREM IndexTypes == Spec => []TypeOK
BY TypeInit, TypeStep, PTL DEF Spec

-----------------------------------------------------------------------------
(***************************************************************************)
(* The inductive invariant.                                                *)
(***************************************************************************)

\* No version is known that was not given out.
VersionInv ==
  \A f \in File : tree[f] <= clock /\ mod[f] <= clock /\ build.mod[f] <= clock

\* Nothing is indexed that is not tracked.
TrackedInv ==
  \A f \in File \ tracked :
    /\ mod[f] = 0 /\ build.mod[f] = 0
    /\ disk.syms \in Table => disk.syms[f] = 0
    /\ disk.refs \in Table => disk.refs[f] = 0
    /\ stray # None => stray.syms[f] = 0 /\ stray.refs[f] = 0

\* An indexer that has indexed nothing has nothing.
StartInv == ~indexed => mod = Empty /\ (Settled => search = Empty)

\* A file the build has not found has nothing in its tables.
AbsentInv ==
  \A f \in File : build.mod[f] = 0 /\ build.pc \notin {"idle", "scan"} =>
    /\ f \notin build.changed /\ build.syms[f] = 0
    /\ build.pc # "parse" => build.refs[f] = 0

\* The build started from an index that was right, or from none, and nothing
\* went wrong in it.
Sound == build.clean /\ (intact \/ build.full)

\* The build has what an index that was adopted had of the file.
Inherits(f) == f \in stale /\ build.mod[f] # 0 /\ build.mod[f] = mod[f]

\* What the build has of a file, as far as it has got, is what the file holds.
Builds(f) ==
  /\ build.pc = "parse" /\ f \notin build.changed => build.syms[f] = Symbols(tree)[f]
  /\ build.pc = "refs" =>
       /\ build.syms[f] = Symbols(tree)[f]
       /\ build.refs[f] = IF f \in build.changed THEN tree[f] ELSE 0
  /\ ~Settled =>
       /\ build.syms[f] = Symbols(tree)[f]
       /\ f \notin Bare => build.refs[f] = tree[f]

\* A sound build has every file that has not changed since it was listed.
BuildInv ==
  Sound => \A f \in File : build.mod[f] = tree[f] /\ ~Inherits(f) => Builds(f)

\* A clean build has written what its place says, and nobody writes besides.
SaveInv ==
  /\ build.pc \in {"idle", "scan", "parse"} => build.clean
  /\ build.clean =>
       /\ ~Settled => stray = None
       /\ build.pc \in {"syms", "calls", "update"} => disk.commit \notin {None, Torn}
       /\ build.pc \in {"calls", "update"} => disk.syms = build.syms
       /\ build.pc = "update" => disk.refs = build.refs
  /\ ~Settled => search = build.syms

\* The index that no fault has touched: its copies agree, and it has what a
\* rebuild passes over.
IntactInv ==
  intact =>
    /\ build.clean /\ stray = None
    /\ indexed => Loadable
    /\ Settled =>
         /\ mem # None => mem = Loaded
         /\ indexed =>
              /\ search = disk.syms
              /\ \A f \in File \ stale :
                   /\ mod[f] = tree[f] => Current(f)
                   /\ mod[f] = 0 => disk.syms[f] = 0 /\ (f \notin Bare => disk.refs[f] = 0)

IndexInv ==
  /\ VersionInv /\ TrackedInv /\ StartInv /\ AbsentInv
  /\ BuildInv /\ SaveInv /\ IntactInv

LEMMA IndexInit == Init => IndexInv
<1> SUFFICES ASSUME Init PROVE IndexInv
  OBVIOUS
<1>1. build.pc = "idle" /\ build.clean /\ build.mod = Empty /\ Settled
  BY DEF Init, NoBuild, Settled, SavePcs
<1>2. \A f \in File : Empty[f] = 0
  BY DEF Empty
<1>3. VersionInv
  <2> SUFFICES ASSUME NEW f \in File
               PROVE  tree[f] <= clock /\ mod[f] <= clock /\ build.mod[f] <= clock
    BY DEF VersionInv
  <2>1. tree[f] \in {0, 1} /\ clock = 1
    BY DEF Init
  <2>2. mod[f] = 0 /\ build.mod[f] = 0
    BY <1>1 DEF Init, Empty
  <2> QED
    BY <2>1, <2>2
<1>4. TrackedInv
  BY <1>1, <1>2, ConstantsAssumption DEF Init, TrackedInv
<1>5. StartInv /\ AbsentInv /\ BuildInv /\ SaveInv
  BY <1>1 DEF Init, StartInv, AbsentInv, BuildInv, Builds, SaveInv
<1>6. IntactInv
  BY <1>1 DEF Init, IntactInv
<1> QED
  BY <1>3, <1>4, <1>5, <1>6 DEF IndexInv

-----------------------------------------------------------------------------
(***************************************************************************)
(* What the steps do to the modification times and to the tables.          *)
(***************************************************************************)

\* The steps other than those that change files.
Indexes ==
  \/ Build \/ BuildFails \/ Query
  \/ Start \/ Stop \/ IndexSession \/ StopTimesOut \/ Crash \/ StraySaves
  \/ Refreshes \/ Commit
  \/ \E f \in File : GitAdd(f)

\* The others change files.
Alters == \E gone, new \in SUBSET File : Changes(gone, new)

LEMMA NextCases == Next => Indexes \/ Alters
BY DEF Next, Indexes, Alters, Edit, WriteFile, CreateFile, DeletePath, RenamePath, CopyPath, Operation

\* A scan ends the build, or has for each file what the worktree has now, and
\* the symbols of the tables for one that has not changed.
LEMMA ScanFields ==
  ASSUME TypeOK, NEW tables, Scans(tables)
  PROVE  \/ build' = NoBuild
         \/ /\ build'.pc = "parse" /\ build'.full = ~indexed /\ build'.clean = build.clean
            /\ \A f \in File :
                 /\ build'.mod[f] = IF f \in tracked THEN tree[f] ELSE 0
                 /\ f \in build'.changed <=> build'.mod[f] # 0 /\ build'.mod[f] # mod[f]
                 /\ build'.syms[f] = IF tables # None /\ f \notin build'.changed /\ build'.mod[f] # 0
                                     THEN tables.syms[f] ELSE 0
<1> DEFINE new == [f \in File |-> IF f \in tracked THEN tree[f] ELSE 0]
           kept == {f \in File \ Changed(new) : new[f] # 0}
           syms == [f \in File |-> IF tables # None /\ f \in kept THEN tables.syms[f] ELSE 0]
<1>1. CASE build' = NoBuild
  BY <1>1
<1>2. CASE build' = [build EXCEPT !.pc = "parse", !.mod = new, !.changed = Changed(new),
                                  !.syms = syms, !.full = ~indexed]
  <2>1. \A f \in File : f \in Changed(new) <=> new[f] # 0 /\ new[f] # mod[f]
    BY DEF Changed
  <2>2. \A f \in File : new[f] = IF f \in tracked THEN tree[f] ELSE 0
    OBVIOUS
  <2>3. \A f \in File : syms[f] = IF tables # None /\ f \notin Changed(new) /\ new[f] # 0
                                  THEN tables.syms[f] ELSE 0
    OBVIOUS
  <2> HIDE DEF new, syms
  <2>4. /\ build'.pc = "parse" /\ build'.full = ~indexed /\ build'.clean = build.clean
        /\ build'.mod = new /\ build'.changed = Changed(new) /\ build'.syms = syms
    BY <1>2 DEF TypeOK, BuildType
  <2> QED
    BY <2>1, <2>2, <2>3, <2>4
<1> QED
  BY <1>1, <1>2 DEF Scans, Ends

\* A modification time comes from the listed files, or from the build, or is
\* forgotten.
LEMMA ModStep ==
  ASSUME TypeOK, Indexes, NEW f \in File
  PROVE  /\ tree' = tree /\ clock' = clock
         /\ mod'[f] \in {0, mod[f], build.mod[f]} \/ (f \in tracked /\ mod'[f] = tree[f])
         /\ build'.mod[f] \in {0, build.mod[f]} \/ (f \in tracked /\ build'.mod[f] = tree[f])
<1>0. Empty[f] = 0 /\ NoBuild.mod[f] = 0 /\ build \in BuildType
  BY DEF Empty, NoBuild, TypeOK
<1>1. CASE Adopt \/ AdoptUnlisted
  <2>1. PICK listed \in SUBSET tracked : Adopts(listed)
    BY <1>1 DEF Adopt, AdoptUnlisted
  <2> QED
    BY <2>1 DEF Adopts, world
<1>2. CASE Wake \/ ListFails
  BY <1>0, <1>2 DEF Wake, ListFails, BuildGoesTo, Ends, BuildType, world
<1>3. CASE Scan \/ ScanUnloaded
  <2>1. PICK tables : Scans(tables)
    BY <1>3 DEF Scan, ScanUnloaded
  <2>2. UNCHANGED <<tree, clock, mod>>
    BY <2>1 DEF Scans, world
  <2>3. build'.mod[f] = 0 \/ build'.mod[f] = IF f \in tracked THEN tree[f] ELSE 0
    BY <1>0, <2>1, ScanFields
  <2> QED
    BY <2>2, <2>3
<1>4. CASE Parse \/ \E g \in File : ParseFails(g)
  <2>1. PICK lost : Parses(lost)
    BY <1>4 DEF Parse, ParseFails
  <2> QED
    BY <1>0, <2>1 DEF Parses, BuildType, world
<1>5. CASE UpdateSearch
  BY <1>0, <1>5 DEF UpdateSearch, BuildType, world
<1>6. CASE Save \/ SaveFails
  BY <1>0, <1>6 DEF Save, SaveFails, BuildGoesTo, BuildType, world
<1>7. CASE Update
  BY <1>0, <1>7 DEF Update, NewModTimes, Ends, world
<1>8. CASE Query \/ Refreshes \/ StraySaves \/ \E g \in File : GitAdd(g)
  BY <1>8 DEF Query, Refreshes, StraySaves, GitAdd, world, indexer
<1>9. CASE Start \/ Stop \/ IndexSession \/ StopTimesOut \/ Crash
  BY <1>0, <1>9 DEF Start, Stop, IndexSession, StopTimesOut, Crash, Fresh, Gone, world
<1>10. CASE Commit
  BY <1>0, <1>10 DEF Commit, Aged, BuildType, world
<1> QED
  BY <1>1, <1>2, <1>3, <1>4, <1>5, <1>6, <1>7, <1>8, <1>9, <1>10 DEF Indexes, Build, BuildFails

LEMMA VersionStep ==
  ASSUME TypeOK, TypeOK', VersionInv, [Next]_vars
  PROVE  VersionInv'
<1> SUFFICES ASSUME NEW f \in File
             PROVE  tree'[f] <= clock' /\ mod'[f] <= clock' /\ build'.mod[f] <= clock'
  BY DEF VersionInv
<1>0. tree[f] \in Nat /\ mod[f] \in Nat /\ build.mod[f] \in Nat /\ clock \in Nat
        /\ tree[f] <= clock /\ mod[f] <= clock /\ build.mod[f] <= clock
  BY DEF TypeOK, VersionInv, Table, Version, BuildType
<1>1. CASE Indexes
  BY <1>0, <1>1, ModStep
<1>2. CASE Alters
  <2>1. PICK gone \in SUBSET File, new \in SUBSET File : Changes(gone, new)
    BY <1>2 DEF Alters
  <2> QED
    BY <1>0, <2>1 DEF Changes, indexer
<1>3. CASE UNCHANGED vars
  BY <1>0, <1>3 DEF vars, world, indexer
<1> QED
  BY <1>1, <1>2, <1>3, NextCases

\* What is on disk was there before, or was written by a build.
LEMMA TablesStep ==
  ASSUME TypeOK, Indexes
  PROVE  /\ tracked \subseteq tracked'
         /\ \/ disk'.syms \in {disk.syms, Torn}
            \/ Saving /\ disk'.syms = build.syms
            \/ stray # None /\ disk'.syms = stray.syms
         /\ \/ disk'.refs \in {disk.refs, Torn}
            \/ Saving /\ disk'.refs = build.refs
            \/ stray # None /\ disk'.refs = stray.refs
         /\ stray' # None =>
              \/ stray # None /\ stray'.syms = stray.syms /\ stray'.refs = stray.refs
              \/ Saving /\ stray' = build
<1>0. \A b \in BuildType : b.pc \in SavePcs =>
        Written(b).syms \in {disk.syms, b.syms} /\ Written(b).refs \in {disk.refs, b.refs}
  BY DEF SavePcs, Written, TypeOK
<1>1. \A pc : CutShort(pc) => disk'.syms \in {disk.syms, Torn} /\ disk'.refs \in {disk.refs, Torn}
  BY DEF CutShort, TypeOK
<1>2. CASE UNCHANGED <<disk, stray, tracked>>
  BY <1>2
<1>3. CASE (\E f \in File : GitAdd(f)) \/ StopTimesOut
  BY <1>3 DEF GitAdd, StopTimesOut, world
<1>4. CASE Commit
  <2>1. disk'.syms = disk.syms /\ disk'.refs = disk.refs
    BY <1>4, AgedType DEF Commit
  <2>2. stray # None => Aged(stray).syms = stray.syms /\ Aged(stray).refs = stray.refs
    BY DEF TypeOK, Aged, BuildType
  <2> QED
    BY <1>4, <2>1, <2>2 DEF Commit, world
<1>5. CASE StraySaves
  <2>1. stray \in BuildType /\ stray.pc \in SavePcs
    BY <1>5 DEF StraySaves, TypeOK
  <2>2. stray' # None => stray'.syms = stray.syms /\ stray'.refs = stray.refs
    BY <1>5, <2>1 DEF StraySaves, BuildType
  <2> QED
    BY <1>0, <1>5, <2>1, <2>2 DEF StraySaves, world
<1>6. CASE Save
  BY <1>0, <1>6 DEF Save, Saving, TypeOK, world
<1>7. CASE SaveFails \/ Crash
  BY <1>1, <1>7 DEF SaveFails, Crash, world
<1>8. CASE Build \/ BuildFails
  BY <1>2, <1>6, <1>7, <1>8 DEF Build, BuildFails, Wake, Adopt, Scan, Parse, UpdateSearch, Update,
       AdoptUnlisted, ListFails, ScanUnloaded, ParseFails, Adopts, Scans, Parses, world
<1>9. CASE Query \/ Start \/ Stop \/ IndexSession \/ Refreshes
  BY <1>2, <1>9 DEF Query, Start, Stop, IndexSession, Refreshes, world
<1> QED
  BY <1>3, <1>4, <1>5, <1>7, <1>8, <1>9 DEF Indexes

LEMMA TrackedStep ==
  ASSUME TypeOK, TypeOK', TrackedInv, AbsentInv, [Next]_vars
  PROVE  TrackedInv'
<1>1. CASE Indexes
  <2> SUFFICES ASSUME NEW f \in File, f \notin tracked'
               PROVE  /\ mod'[f] = 0 /\ build'.mod[f] = 0
                      /\ disk'.syms \in Table => disk'.syms[f] = 0
                      /\ disk'.refs \in Table => disk'.refs[f] = 0
                      /\ stray' # None => stray'.syms[f] = 0 /\ stray'.refs[f] = 0
    BY DEF TrackedInv
  <2>1. f \notin tracked
    BY <1>1, TablesStep
  <2>2. mod'[f] = 0 /\ build'.mod[f] = 0
    BY <1>1, <2>1, ModStep DEF TrackedInv
  <2>3. Saving => build.syms[f] = 0 /\ build.refs[f] = 0
    BY <2>1 DEF TrackedInv, AbsentInv, Saving, SavePcs
  <2>4. Torn \notin Table
    BY ConstantsAssumption
  <2>5. disk'.syms \in Table => disk'.syms[f] = 0
    BY <1>1, <2>1, <2>3, <2>4, TablesStep DEF TrackedInv
  <2>6. disk'.refs \in Table => disk'.refs[f] = 0
    BY <1>1, <2>1, <2>3, <2>4, TablesStep DEF TrackedInv
  <2>7. stray' # None => stray'.syms[f] = 0 /\ stray'.refs[f] = 0
    BY <1>1, <2>1, <2>3, TablesStep DEF TrackedInv
  <2> QED
    BY <2>2, <2>5, <2>6, <2>7
<1>2. CASE Alters \/ UNCHANGED vars
  BY <1>2 DEF Alters, Changes, vars, world, indexer, TrackedInv
<1> QED
  BY <1>1, <1>2, NextCases

LEMMA EmptyMod == \A f \in File : Empty[f] = 0 /\ NoBuild.pc = "idle" /\ NoBuild.clean
BY DEF Empty, NoBuild

LEMMA StartStep ==
  ASSUME TypeOK, TypeOK', StartInv, [Next]_vars
  PROVE  StartInv'
<1>s. \A pc \in SavePcs : NextPc(pc) \in SavePcs \cup {"update"}
  BY DEF SavePcs, NextPc
<1>1. CASE UNCHANGED <<indexed, mod, search, build>>
  BY <1>1 DEF StartInv, Settled
<1>2. CASE indexed'
  BY <1>2 DEF StartInv
<1>3. CASE Start \/ Stop \/ IndexSession \/ StopTimesOut \/ Crash
  BY <1>3 DEF Start, Stop, IndexSession, StopTimesOut, Crash, Fresh, Gone, NoSearch, StartInv
<1>4. CASE UNCHANGED <<indexed, mod, search>> /\ Settled
  BY <1>4 DEF StartInv
<1>5. CASE UpdateSearch
  BY <1>5 DEF UpdateSearch, StartInv, Settled, SavePcs, TypeOK, BuildType
<1>6. CASE Save \/ SaveFails
  <2>1. ~Settled'
    <3>1. build'.pc \in SavePcs \cup {"update"}
      <4>1. CASE Save
        BY <1>s, <4>1 DEF Save, BuildGoesTo, Saving, TypeOK, BuildType
      <4>2. CASE SaveFails
        BY <4>2 DEF SaveFails, TypeOK, BuildType
      <4> QED
        BY <1>6, <4>1, <4>2
    <3> QED
      BY <3>1 DEF Settled
  <2> QED
    BY <1>6, <2>1 DEF Save, SaveFails, StartInv
<1>7. CASE Commit
  <2>1. build'.pc = build.pc
    BY <1>7, AgedType DEF Commit, TypeOK
  <2> QED
    BY <1>7, <2>1 DEF Commit, StartInv, Settled
<1>8. CASE Build \/ BuildFails
  <2>1. CASE Adopt \/ AdoptUnlisted \/ Update
    BY <1>2, <2>1 DEF Adopt, AdoptUnlisted, Adopts, Update
  <2>2. CASE Wake \/ ListFails \/ Scan \/ ScanUnloaded \/ Parse \/ \E f \in File : ParseFails(f)
    BY <1>4, <2>2 DEF Wake, ListFails, Scan, ScanUnloaded, Scans, Parse, ParseFails, Parses,
         At, Settled, SavePcs
  <2> QED
    BY <1>5, <1>6, <1>8, <2>1, <2>2 DEF Build, BuildFails
<1>9. CASE Query \/ StraySaves \/ Refreshes \/ \E f \in File : GitAdd(f)
  BY <1>1, <1>9 DEF Query, StraySaves, Refreshes, GitAdd, indexer
<1>10. CASE Alters \/ UNCHANGED vars
  BY <1>1, <1>10 DEF Alters, Changes, vars, indexer
<1> QED
  BY <1>3, <1>7, <1>8, <1>9, <1>10, NextCases DEF Indexes

-----------------------------------------------------------------------------
(***************************************************************************)
(* What the steps of a build make of its local variables, file by file.    *)
(***************************************************************************)

LEMMA ParseFields ==
  ASSUME TypeOK, NEW lost, Parses(lost)
  PROVE  /\ build'.pc = "refs" /\ build'.clean = (lost = {})
         /\ build'.mod = build.mod /\ build'.changed = build.changed /\ build'.full = build.full
         /\ \A f \in File :
              /\ build'.syms[f] = IF f \in build.changed \ lost THEN Symbols(tree)[f] ELSE build.syms[f]
              /\ build'.refs[f] = IF f \in build.changed \ lost THEN tree[f] ELSE 0
<1> DEFINE syms == [f \in File |-> IF f \in build.changed \ lost THEN Symbols(tree)[f] ELSE build.syms[f]]
           refs == [f \in File |-> IF f \in build.changed \ lost THEN tree[f] ELSE 0]
<1>1. build' = [build EXCEPT !.pc = "refs", !.syms = syms, !.refs = refs, !.clean = lost = {}]
  BY DEF Parses
<1>2. \A f \in File :
        /\ syms[f] = IF f \in build.changed \ lost THEN Symbols(tree)[f] ELSE build.syms[f]
        /\ refs[f] = IF f \in build.changed \ lost THEN tree[f] ELSE 0
  OBVIOUS
<1> HIDE DEF syms, refs
<1>3. /\ build'.pc = "refs" /\ build'.clean = (lost = {})
      /\ build'.mod = build.mod /\ build'.changed = build.changed /\ build'.full = build.full
      /\ build'.syms = syms /\ build'.refs = refs
  BY <1>1 DEF TypeOK, BuildType
<1> QED
  BY <1>2, <1>3

LEMMA SearchFields ==
  ASSUME TypeOK, UpdateSearch
  PROVE  /\ build'.pc = "meta" /\ build'.clean = (build.clean /\ stray = None)
         /\ build'.mod = build.mod /\ build'.changed = {} /\ build'.full = build.full
         /\ build'.syms = build.syms /\ search' = build.syms
         /\ \A f \in File : build'.refs[f] = IF f \notin build.changed /\ build.syms[f] # 0
                                             THEN tree[f] ELSE build.refs[f]
<1> DEFINE refs == [f \in File |-> IF f \in Unchanged THEN tree[f] ELSE build.refs[f]]
<1>1. build' = [build EXCEPT !.pc = "meta", !.changed = {}, !.commit = "head", !.refs = refs,
                             !.clean = build.clean /\ stray = None]
  BY DEF UpdateSearch
<1>2. \A f \in File : refs[f] = IF f \notin build.changed /\ build.syms[f] # 0
                                THEN tree[f] ELSE build.refs[f]
  BY DEF Unchanged
<1> HIDE DEF refs
<1>3. /\ build'.pc = "meta" /\ build'.clean = (build.clean /\ stray = None)
      /\ build'.mod = build.mod /\ build'.changed = {} /\ build'.full = build.full
      /\ build'.syms = build.syms /\ build'.refs = refs
  BY <1>1 DEF TypeOK, BuildType
<1> QED
  BY <1>2, <1>3 DEF UpdateSearch, Reindexed

\* A step that only moves the build on, from saving or at its beginning.
LEMMA SaveFields ==
  ASSUME TypeOK, Save
  PROVE  /\ build' = [build EXCEPT !.pc = NextPc(build.pc)]
         /\ build'.pc = NextPc(build.pc) /\ build'.clean = build.clean
         /\ build'.mod = build.mod /\ build'.changed = build.changed /\ build'.full = build.full
         /\ build'.syms = build.syms /\ build'.refs = build.refs
         /\ build'.pc \in {"syms", "calls", "update"}
BY WrittenType DEF Save, Saving, BuildGoesTo, TypeOK, BuildType

LEMMA SaveFailsFields ==
  ASSUME TypeOK, SaveFails
  PROVE  /\ build'.pc = "update" /\ ~build'.clean
         /\ build'.mod = build.mod /\ build'.changed = build.changed /\ build'.full = build.full
         /\ build'.syms = build.syms /\ build'.refs = build.refs
BY DEF SaveFails, TypeOK, BuildType

LEMMA CommitFields ==
  ASSUME TypeOK, Commit
  PROVE  /\ build'.pc = build.pc /\ build'.clean = build.clean
         /\ build'.mod = build.mod /\ build'.changed = build.changed /\ build'.full = build.full
         /\ build'.syms = build.syms /\ build'.refs = build.refs
         /\ disk'.syms = disk.syms /\ disk'.refs = disk.refs
         /\ disk'.commit \in {disk.commit, "older"} /\ (stray = None => stray' = None)
BY DEF Commit, Aged, TypeOK, BuildType

LEMMA NoBuildFields ==
  NoBuild.pc = "idle" /\ NoBuild.clean = TRUE
BY DEF NoBuild

-----------------------------------------------------------------------------
LEMMA AbsentStep ==
  ASSUME TypeOK, TypeOK', AbsentInv, [Next]_vars
  PROVE  AbsentInv'
<1>1. CASE UNCHANGED build
  BY <1>1 DEF AbsentInv
<1>2. CASE build'.pc \in {"idle", "scan"}
  BY <1>2 DEF AbsentInv
<1>3. CASE Scan \/ ScanUnloaded
  <2>1. PICK tables : Scans(tables)
    BY <1>3 DEF Scan, ScanUnloaded
  <2> QED
    BY <1>2, <2>1, ScanFields, NoBuildFields DEF AbsentInv
<1>4. CASE Parse \/ \E f \in File : ParseFails(f)
  <2>1. PICK lost : Parses(lost)
    BY <1>4 DEF Parse, ParseFails
  <2>2. At("parse")
    BY <2>1 DEF Parses
  <2> QED
    BY <2>1, <2>2, ParseFields DEF AbsentInv, At
<1>5. CASE UpdateSearch
  BY <1>5, SearchFields DEF AbsentInv, UpdateSearch, At
<1>6. CASE Save \/ SaveFails
  BY <1>6, SaveFields, SaveFailsFields DEF AbsentInv, Save, SaveFails, Saving, SavePcs
<1>7. CASE Commit
  BY <1>7, CommitFields DEF AbsentInv
<1>8. CASE Wake \/ ListFails \/ Update
  <2>1. build'.pc \in {"idle", "scan"}
    BY <1>8, NoBuildFields DEF Wake, ListFails, Update, BuildGoesTo, Ends, TypeOK, BuildType
  <2> QED
    BY <1>2, <2>1
<1>9. CASE Start \/ Stop \/ IndexSession \/ StopTimesOut \/ Crash
  BY <1>2, <1>9, NoBuildFields DEF Start, Stop, IndexSession, StopTimesOut, Crash, Fresh, Gone
<1>10. CASE Adopt \/ AdoptUnlisted \/ Query \/ StraySaves \/ Refreshes \/ \E f \in File : GitAdd(f)
  BY <1>1, <1>10 DEF Adopt, AdoptUnlisted, Adopts, Query, StraySaves, Refreshes, GitAdd, indexer
<1>11. CASE Alters \/ UNCHANGED vars
  BY <1>1, <1>11 DEF Alters, Changes, vars, indexer
<1> QED
  BY <1>3, <1>4, <1>5, <1>6, <1>7, <1>8, <1>9, <1>10, <1>11, NextCases DEF Indexes, Build, BuildFails

-----------------------------------------------------------------------------
LEMMA SymbolsOf ==
  ASSUME NEW f \in File
  PROVE  Symbols(tree)[f] = (IF f \in Bare THEN 0 ELSE tree[f])
         /\ Symbols(tree)'[f] = (IF f \in Bare THEN 0 ELSE tree'[f])
BY DEF Symbols

\* A file that changes is gone, or gets a version that nobody has seen.
LEMMA ChangeCases ==
  ASSUME TypeOK, VersionInv, NEW gone, NEW new, Changes(gone, new), NEW f \in File
  PROVE  /\ \/ tree'[f] = tree[f]
            \/ tree'[f] = 0
            \/ mod[f] # tree'[f] /\ build.mod[f] # tree'[f]
         /\ UNCHANGED <<disk, indexer, stray, stale, intact>>
<1>1. mod[f] \in Nat /\ build.mod[f] \in Nat /\ clock \in Nat
        /\ mod[f] <= clock /\ build.mod[f] <= clock
  BY DEF TypeOK, VersionInv, Table, Version, BuildType
<1>2. tree'[f] \in {tree[f], 0, clock + 1}
  BY DEF Changes
<1> QED
  BY <1>1, <1>2 DEF Changes

\* A build that has not begun to read says nothing yet.
LEMMA BuildsVoid ==
  ASSUME build'.pc \in {"idle", "scan"}
  PROVE  BuildInv'
BY DEF BuildInv, Builds, Settled, SavePcs

LEMMA ScanBuild ==
  ASSUME TypeOK, IndexInv, Scan \/ ScanUnloaded
  PROVE  BuildInv'
<1>1. PICK tables : Scans(tables) /\ (Scan => tables = EnsureLoaded)
  BY DEF Scan, ScanUnloaded
<1>2. CASE build' = NoBuild
  BY <1>2, BuildsVoid, NoBuildFields
<1>3. CASE build' # NoBuild
  <2>0. UNCHANGED <<tree, mod, stale>> /\ build.pc = "scan" /\ Settled
    BY <1>1 DEF Scans, At, world, Settled, SavePcs
  <2>1. build'.pc = "parse" /\ build'.full = ~indexed /\ build'.clean = build.clean
    BY <1>1, <1>3, ScanFields
  <2>2. SUFFICES ASSUME Sound', NEW f \in File, build'.mod[f] = tree[f],
                        ~(f \in stale /\ build'.mod[f] # 0 /\ build'.mod[f] = mod[f]),
                        f \notin build'.changed
                 PROVE  build'.syms[f] = Symbols(tree)'[f]
    BY <2>0, <2>1 DEF BuildInv, Builds, Inherits, Settled, SavePcs
  <2>3. /\ f \in build'.changed <=> build'.mod[f] # 0 /\ build'.mod[f] # mod[f]
        /\ build'.syms[f] = IF tables # None /\ f \notin build'.changed /\ build'.mod[f] # 0
                            THEN tables.syms[f] ELSE 0
    BY <1>1, <1>3, ScanFields
  <2>4. CASE tree[f] = 0
    BY <2>0, <2>2, <2>3, <2>4, SymbolsOf
  <2>5. CASE tree[f] # 0
    <3>1. mod[f] = tree[f] /\ f \notin stale
      BY <2>2, <2>3, <2>5
    <3>2. indexed
      BY <2>5, <3>1 DEF IndexInv, StartInv, Empty
    <3>3. Scan /\ intact
      BY <2>1, <2>2, <3>2 DEF Sound, Scan, ScanUnloaded
    <3>4. disk.syms[f] = Symbols(tree)[f] /\ (mem # None => mem = Loaded) /\ Loadable
      BY <2>0, <3>1, <3>2, <3>3 DEF IndexInv, IntactInv, Current
    <3>5. Loaded # None
      BY <3>4, LoadedType, ConstantsAssumption
    <3>6. tables = Loaded
      BY <1>1, <3>2, <3>3, <3>4 DEF EnsureLoaded
    <3>7. build'.syms[f] = disk.syms[f]
      BY <2>2, <2>3, <2>5, <3>5, <3>6 DEF Loaded
    <3> QED
      BY <2>0, <3>4, <3>7, SymbolsOf
  <2> QED
    BY <2>4, <2>5
<1> QED
  BY <1>2, <1>3

LEMMA ParseBuild ==
  ASSUME TypeOK, IndexInv, Parse \/ \E f \in File : ParseFails(f)
  PROVE  BuildInv'
<1>1. CASE Parse
  <2>1. Parses({}) /\ UNCHANGED <<intact, tree, mod, stale>> /\ build.pc = "parse" /\ build.clean
    BY <1>1 DEF Parse, Parses, At, world, IndexInv, SaveInv
  <2>2. Sound' => Sound
    BY <2>1, ParseFields DEF Sound
  <2>3. SUFFICES ASSUME Sound, NEW f \in File, build.mod[f] = tree[f], ~Inherits(f)
                 PROVE  /\ build'.syms[f] = Symbols(tree)'[f]
                        /\ build'.refs[f] = IF f \in build'.changed THEN tree'[f] ELSE 0
    BY <2>1, <2>2, ParseFields DEF BuildInv, Builds, Inherits, Settled, SavePcs
  <2>4. f \notin build.changed => build.syms[f] = Symbols(tree)[f]
    BY <2>1, <2>3 DEF IndexInv, BuildInv, Builds
  <2> QED
    BY <2>1, <2>4, ParseFields, SymbolsOf
<1>2. ASSUME NEW g \in File, ParseFails(g)
      PROVE  BuildInv'
  <2>1. ~build'.clean
    BY <1>2, ParseFields DEF ParseFails
  <2> QED
    BY <2>1 DEF BuildInv, Sound
<1> QED
  BY <1>1, <1>2

LEMMA SearchBuild ==
  ASSUME TypeOK, IndexInv, UpdateSearch
  PROVE  BuildInv'
<1>1. UNCHANGED <<intact, tree, mod, stale>> /\ build.pc = "refs"
  BY DEF UpdateSearch, At, world, history
<1>2. Sound' => Sound
  BY <1>1, SearchFields DEF Sound
<1>3. SUFFICES ASSUME Sound, NEW f \in File, build.mod[f] = tree[f], ~Inherits(f)
               PROVE  /\ build'.syms[f] = Symbols(tree)'[f]
                      /\ f \notin Bare => build'.refs[f] = tree'[f]
  BY <1>1, <1>2, SearchFields DEF BuildInv, Builds, Inherits
<1>4. /\ build.syms[f] = Symbols(tree)[f]
      /\ build.refs[f] = IF f \in build.changed THEN tree[f] ELSE 0
  BY <1>1, <1>3 DEF IndexInv, BuildInv, Builds
<1> QED
  BY <1>1, <1>4, SearchFields, SymbolsOf

\* A step that leaves what a build has, while it saves, and what it is
\* compared with.
LEMMA SaveBuild ==
  ASSUME TypeOK, IndexInv, Save \/ SaveFails \/ Commit
  PROVE  BuildInv'
<1>1. CASE SaveFails
  BY <1>1, SaveFailsFields DEF BuildInv, Sound
<1>2. CASE Save
  <2>1. UNCHANGED <<intact, tree, mod, stale>> /\ ~Settled
    BY <1>2 DEF Save, Saving, Settled, world, history
  <2>2. build'.pc \notin {"parse", "refs"}
    BY <1>2, SaveFields
  <2>3. Sound' => Sound
    BY <1>2, <2>1, SaveFields DEF Sound
  <2>4. SUFFICES ASSUME Sound, NEW f \in File, build.mod[f] = tree[f], ~Inherits(f)
                 PROVE  /\ build.syms[f] = Symbols(tree)'[f]
                        /\ f \notin Bare => build.refs[f] = tree'[f]
    BY <1>2, <2>1, <2>2, <2>3, SaveFields DEF BuildInv, Builds, Inherits
  <2> QED
    BY <2>1, <2>4, SymbolsOf DEF IndexInv, BuildInv, Builds
<1>3. CASE Commit
  <2>1. UNCHANGED <<intact, tree, mod, stale>>
    BY <1>3 DEF Commit, world, history
  <2>2. Sound' => Sound
    BY <1>3, <2>1, CommitFields DEF Sound
  <2>3. SUFFICES ASSUME Sound, NEW f \in File, build.mod[f] = tree[f], ~Inherits(f)
                 PROVE  Builds(f)'
    BY <1>3, <2>1, <2>2, CommitFields DEF BuildInv, Inherits
  <2>4. Builds(f)
    BY <2>3 DEF IndexInv, BuildInv
  <2> QED
    BY <1>3, <2>1, <2>4, CommitFields, SymbolsOf DEF Builds, Settled
<1> QED
  BY <1>1, <1>2, <1>3

LEMMA ChangeBuild ==
  ASSUME TypeOK, IndexInv, Alters
  PROVE  BuildInv'
<1>1. PICK gone \in SUBSET File, new \in SUBSET File : Changes(gone, new)
  BY DEF Alters
<1>2. UNCHANGED <<build, mod, stale, intact>>
  BY <1>1 DEF Changes, indexer
<1>3. SUFFICES ASSUME Sound, NEW f \in File, build.mod[f] = tree'[f], ~Inherits(f)
               PROVE  Builds(f)'
  BY <1>2 DEF BuildInv, Sound, Inherits
<1>4. tree'[f] \in {tree[f], 0}
  BY <1>1, <1>3, ChangeCases DEF IndexInv
<1>5. CASE tree'[f] = tree[f]
  BY <1>2, <1>3, <1>5, SymbolsOf DEF IndexInv, BuildInv, Builds, Settled
<1>6. CASE tree'[f] = 0
  <2>1. build.pc \notin {"idle", "scan"} =>
          f \notin build.changed /\ build.syms[f] = 0 /\ (build.pc # "parse" => build.refs[f] = 0)
    BY <1>3, <1>6 DEF IndexInv, AbsentInv
  <2>2. Symbols(tree)'[f] = 0
    BY <1>6, SymbolsOf
  <2> QED
    BY <1>2, <1>6, <2>1, <2>2 DEF Builds, Settled, SavePcs
<1> QED
  BY <1>4, <1>5, <1>6

LEMMA BuildStep ==
  ASSUME TypeOK, IndexInv, [Next]_vars
  PROVE  BuildInv'
<1>1. CASE UNCHANGED <<build, tree, mod, stale, intact>>
  BY <1>1 DEF IndexInv, BuildInv, Builds, Inherits, Sound, Symbols, Settled
<1>2. CASE Query \/ StraySaves \/ Refreshes \/ (\E f \in File : GitAdd(f)) \/ UNCHANGED vars
  BY <1>1, <1>2 DEF Query, StraySaves, Refreshes, GitAdd, vars, world, indexer, history
<1>3. CASE Start \/ Stop \/ IndexSession \/ StopTimesOut \/ Crash
  BY <1>3, BuildsVoid, NoBuildFields DEF Start, Stop, IndexSession, StopTimesOut, Crash, Fresh, Gone
<1>4. CASE Wake \/ ListFails \/ Update \/ Adopt \/ AdoptUnlisted
  <2>1. build'.pc \in {"idle", "scan"}
    BY <1>4, NoBuildFields DEF Wake, ListFails, Update, Adopt, AdoptUnlisted, Adopts, At, BuildGoesTo,
       Ends, TypeOK, BuildType
  <2> QED
    BY <2>1, BuildsVoid
<1> QED
  BY <1>2, <1>3, <1>4, ScanBuild, ParseBuild, SearchBuild, SaveBuild, ChangeBuild, NextCases
     DEF Indexes, Build, BuildFails

-----------------------------------------------------------------------------
\* A step that leaves the disk, the search index and a build that is not
\* saving, or none.
LEMMA SaveVoid ==
  ASSUME build'.pc \in {"idle", "scan", "parse"}, build'.clean
  PROVE  SaveInv'
BY DEF SaveInv, Settled, SavePcs

LEMMA SavesStep ==
  ASSUME TypeOK, IndexInv, Save
  PROVE  SaveInv'
<1>1. UNCHANGED <<stray, search>> /\ build \in BuildType /\ disk' = Written(build)
      /\ build.pc \in SavePcs /\ ~Settled
  BY DEF Save, Saving, Settled, TypeOK
<1>2. build.commit \notin {None, Torn}
  BY <1>1, ConstantsAssumption DEF BuildType
<1>3. search' = build'.syms /\ (build.clean => stray' = None)
  BY <1>1, SaveFields DEF IndexInv, SaveInv
<1>4. CASE build.pc = "meta"
  <2>1. disk'.commit = build.commit /\ build'.pc = "syms"
    BY <1>1, <1>4, SaveFields DEF Written, NextPc, TypeOK
  <2> QED
    BY <1>2, <1>3, <2>1, SaveFields DEF SaveInv
<1>5. CASE build.pc = "syms"
  <2>1. disk'.commit = disk.commit /\ disk'.syms = build.syms /\ build'.pc = "calls"
    BY <1>1, <1>5, SaveFields DEF Written, NextPc, TypeOK
  <2> QED
    BY <1>3, <1>5, <2>1, SaveFields DEF IndexInv, SaveInv
<1>6. CASE build.pc = "calls"
  <2>1. /\ disk'.commit = disk.commit /\ disk'.syms = disk.syms /\ disk'.refs = build.refs
        /\ build'.pc = "update"
    BY <1>1, <1>6, SaveFields DEF Written, NextPc, TypeOK
  <2> QED
    BY <1>3, <1>6, <2>1, SaveFields DEF IndexInv, SaveInv
<1> QED
  BY <1>1, <1>4, <1>5, <1>6 DEF SavePcs

LEMMA SaveStep ==
  ASSUME TypeOK, IndexInv, [Next]_vars
  PROVE  SaveInv'
<1>0. SaveInv
  BY DEF IndexInv
<1>1. CASE UNCHANGED <<build, disk, stray, search>>
  BY <1>0, <1>1 DEF SaveInv, Settled
<1>2. CASE Query \/ Refreshes \/ (\E f \in File : GitAdd(f)) \/ Alters \/ UNCHANGED vars
  BY <1>1, <1>2 DEF Query, Refreshes, GitAdd, Alters, Changes, vars, world, indexer
<1>3. CASE Start \/ Stop \/ IndexSession \/ StopTimesOut \/ Crash
  BY <1>3, SaveVoid, NoBuildFields DEF Start, Stop, IndexSession, StopTimesOut, Crash, Fresh, Gone
<1>4. CASE Wake \/ ListFails \/ Update \/ Adopt \/ AdoptUnlisted
  <2>1. build'.pc \in {"idle", "scan"} /\ build'.clean
    BY <1>0, <1>4, NoBuildFields DEF Wake, ListFails, Update, Adopt, AdoptUnlisted, Adopts, At,
       BuildGoesTo, Ends, TypeOK, BuildType, SaveInv
  <2> QED
    BY <2>1, SaveVoid
<1>5. CASE Scan \/ ScanUnloaded
  <2>1. PICK tables : Scans(tables)
    BY <1>5 DEF Scan, ScanUnloaded
  <2>2. build.clean
    BY <1>0, <2>1 DEF Scans, At, SaveInv
  <2> QED
    BY <2>1, <2>2, ScanFields, SaveVoid, NoBuildFields
<1>6. CASE Parse \/ \E f \in File : ParseFails(f)
  <2>1. build'.pc = "refs"
    BY <1>6, ParseFields DEF Parse, ParseFails
  <2> QED
    BY <2>1 DEF SaveInv, Settled, SavePcs
<1>7. CASE UpdateSearch
  <2>1. stray' = stray
    BY <1>7 DEF UpdateSearch
  <2> QED
    BY <1>7, <2>1, SearchFields DEF SaveInv
<1>8. CASE SaveFails
  <2>1. search' = search /\ ~Settled
    BY <1>8 DEF SaveFails, Saving, Settled
  <2> QED
    BY <1>0, <1>8, <2>1, SaveFailsFields DEF SaveInv
<1>9. CASE Commit
  <2>1. search' = search /\ Settled' = Settled
    BY <1>9, CommitFields DEF Commit, Settled
  <2> QED
    BY <1>0, <1>9, <2>1, CommitFields, ConstantsAssumption DEF SaveInv
<1>10. CASE StraySaves
  <2>1. UNCHANGED <<build, search>> /\ stray # None
    BY <1>10 DEF StraySaves, indexer
  <2>2. build.clean => Settled
    BY <1>0, <2>1 DEF SaveInv
  <2> QED
    BY <1>0, <2>1, <2>2 DEF SaveInv, Settled, SavePcs
<1> QED
  BY <1>2, <1>3, <1>4, <1>5, <1>6, <1>7, <1>8, <1>9, <1>10, SavesStep, NextCases
     DEF Indexes, Build, BuildFails

-----------------------------------------------------------------------------
LEMMA ChangeIntact ==
  ASSUME TypeOK, IndexInv, Alters
  PROVE  IntactInv'
<1>1. PICK gone \in SUBSET File, new \in SUBSET File : Changes(gone, new)
  BY DEF Alters
<1>2. UNCHANGED <<disk, on, indexed, mod, mem, search, build, stray, stale, intact>>
  BY <1>1 DEF Changes, indexer
<1>3. IntactInv
  BY DEF IndexInv
<1>4. ASSUME intact, Settled, indexed, NEW f \in File \ stale, mod[f] = tree'[f]
      PROVE  Current(f)'
  <2>1. tree'[f] \in {tree[f], 0}
    BY <1>1, <1>4, ChangeCases DEF IndexInv
  <2>2. CASE tree'[f] = tree[f]
    BY <1>2, <1>3, <1>4, <2>2, SymbolsOf DEF IntactInv, Current
  <2>3. CASE tree'[f] = 0
    <3>1. disk.syms[f] = 0 /\ (f \notin Bare => disk.refs[f] = 0)
      BY <1>3, <1>4, <2>3 DEF IntactInv
    <3> QED
      BY <1>2, <2>3, <3>1, SymbolsOf DEF Current
  <2> QED
    BY <2>1, <2>2, <2>3
<1>5. Settled' = Settled /\ Loadable' = Loadable /\ Loaded' = Loaded
  BY <1>2 DEF Settled, Loadable, Loaded
<1> QED
  BY <1>2, <1>3, <1>4, <1>5 DEF IntactInv

\* A step that leaves the index as it is, with a build that is clean.
LEMMA KeepsIntact ==
  ASSUME TypeOK, IntactInv, UNCHANGED <<tree, disk, indexed, mod, search, stray, stale, intact>>,
         intact /\ build.clean => build'.clean,
         Settled, Settled',
         mem' \in {mem, Loaded}
  PROVE  IntactInv'
<1>1. Loadable' = Loadable /\ Loaded' = Loaded
  BY DEF Loadable, Loaded
<1>2. \A f \in File : Current(f)' = Current(f)
  BY DEF Current, Symbols
<1> QED
  BY <1>1, <1>2 DEF IntactInv

\* An indexer that has not indexed has nothing to agree on.
LEMMA FreshIntact ==
  ASSUME intact' => build'.clean /\ stray' = None, ~indexed', mem' = None
  PROVE  IntactInv'
BY DEF IntactInv

LEMMA AdoptIntact ==
  ASSUME TypeOK, TypeOK', IndexInv, Adopt
  PROVE  IntactInv'
<1>1. /\ UNCHANGED <<tree, disk, mem, build, stray, intact>> /\ ~indexed /\ indexed'
      /\ Loadable /\ build.pc = "idle" /\ IndexBatch(disk.syms)
      /\ stale' = {f \in File : mod'[f] = tree[f] /\ ~Current(f)}
      /\ mod' = [f \in File |-> IF f \in tracked THEN tree[f] ELSE mod[f]]
  BY DEF Adopt, Adopts, Adoptable, At, world
<1>2. Settled /\ mem = None /\ mod = Empty /\ search = Empty
  BY <1>1 DEF Settled, SavePcs, TypeOK, IndexInv, StartInv
<1>3. disk.syms \in Table /\ disk.refs \in Table
  BY <1>1, LoadedType
<1>4. search' = disk.syms
  <2>1. search' = [f \in File |-> disk.syms[f]]
    BY <1>1, <1>2 DEF IndexBatch, Empty
  <2> QED
    BY <1>3, <2>1 DEF Table
<1>5. Loadable' /\ Settled' = Settled
  BY <1>1 DEF Loadable, Settled
<1>6. ASSUME NEW f \in File \ stale', mod'[f] = tree'[f]
      PROVE  Current(f)'
  <2>1. Current(f)
    BY <1>1, <1>6
  <2> QED
    BY <1>1, <2>1, SymbolsOf DEF Current
<1>7. ASSUME NEW f \in File \ stale', mod'[f] = 0
      PROVE  disk'.syms[f] = 0 /\ (f \notin Bare => disk'.refs[f] = 0)
  <2>1. CASE f \notin tracked
    BY <1>1, <1>3, <2>1 DEF IndexInv, TrackedInv
  <2>2. CASE f \in tracked
    <3>1. mod'[f] = tree[f] /\ tree[f] = 0
      BY <1>1, <1>7, <2>2
    <3>2. Current(f)
      BY <1>1, <1>7, <3>1
    <3> QED
      BY <1>1, <3>1, <3>2, SymbolsOf DEF Current
  <2> QED
    BY <2>1, <2>2
<1>8. intact' => build'.clean /\ stray' = None
  BY <1>1 DEF IndexInv, IntactInv
<1> QED
  BY <1>1, <1>2, <1>4, <1>5, <1>6, <1>7, <1>8 DEF IntactInv

LEMMA UpdateIntact ==
  ASSUME TypeOK, TypeOK', IndexInv, Update
  PROVE  IntactInv'
<1>1. /\ UNCHANGED <<tree, disk, search, stray>> /\ build.pc = "update" /\ ~Settled
      /\ mod' = build.mod /\ mem' = None /\ indexed' /\ build' = NoBuild
      /\ intact' = (intact \/ (build.full /\ build.clean))
      /\ stale' = {f \in stale : build.mod[f] # 0 /\ build.mod[f] = mod[f]}
  BY DEF Update, At, NewModTimes, ReleasedTables, Ends, world, Settled
<1> SUFFICES ASSUME intact'
             PROVE  IntactInv'
  BY DEF IntactInv
<1>2. Sound
  BY <1>1 DEF Sound, IndexInv, IntactInv
<1>3. /\ stray = None /\ disk.commit \notin {None, Torn}
      /\ disk.syms = build.syms /\ disk.refs = build.refs /\ search = build.syms
  BY <1>1, <1>2 DEF Sound, IndexInv, SaveInv
<1>4. Loadable
  <2>1. build.syms \in Table /\ build.refs \in Table
    BY DEF TypeOK, BuildType
  <2>2. None \notin Table /\ Torn \notin Table
    BY ConstantsAssumption
  <2> QED
    BY <1>3, <2>1, <2>2 DEF Loadable
<1>5. Loadable' = Loadable
  BY <1>1 DEF Loadable
<1>6. ASSUME NEW f \in File \ stale', mod'[f] = tree'[f]
      PROVE  Current(f)'
  <2>1. build.mod[f] = tree[f] /\ ~Inherits(f)
    BY <1>1, <1>6 DEF Inherits
  <2>2. build.syms[f] = Symbols(tree)[f] /\ (f \notin Bare => build.refs[f] = tree[f])
    BY <1>1, <1>2, <2>1 DEF IndexInv, BuildInv, Builds
  <2> QED
    BY <1>1, <1>3, <2>2, SymbolsOf DEF Current
<1>7. ASSUME NEW f \in File \ stale', mod'[f] = 0
      PROVE  disk'.syms[f] = 0 /\ (f \notin Bare => disk'.refs[f] = 0)
  <2>1. build.syms[f] = 0 /\ build.refs[f] = 0
    BY <1>1, <1>7 DEF IndexInv, AbsentInv
  <2> QED
    BY <1>1, <1>3, <2>1
<1> QED
  BY <1>1, <1>3, <1>4, <1>5, <1>6, <1>7, NoBuildFields DEF IntactInv

LEMMA SavingIntact ==
  ASSUME TypeOK, TypeOK', IndexInv, UpdateSearch \/ Save
  PROVE  IntactInv'
<1>0. IntactInv /\ UNCHANGED <<indexed, intact, stray>>
  BY DEF UpdateSearch, Save, IndexInv, history
<1>1. ~Settled'
  <2>1. build'.pc \in {"meta", "syms", "calls", "update"}
    BY SearchFields, SaveFields
  <2> QED
    BY <2>1 DEF Settled, SavePcs
<1>2. Loadable => Loadable'
  <2>1. CASE UpdateSearch
    BY <2>1 DEF UpdateSearch, Loadable
  <2>2. CASE Save
    <3>1. build \in BuildType /\ build.pc \in SavePcs /\ disk' = Written(build)
      BY <2>2 DEF Save, Saving, TypeOK
    <3>2. build.commit \notin {None, Torn} /\ build.syms \notin {None, Torn} /\ build.refs \notin {None, Torn}
      BY <3>1, ConstantsAssumption DEF BuildType
    <3>3. /\ disk'.commit \in {disk.commit, build.commit} /\ disk'.syms \in {disk.syms, build.syms}
          /\ disk'.refs \in {disk.refs, build.refs}
      BY <3>1 DEF Written, SavePcs, TypeOK
    <3> QED
      BY <3>2, <3>3 DEF Loadable
  <2> QED
    BY <2>1, <2>2
<1>3. build.clean /\ stray = None => build'.clean
  BY SearchFields, SaveFields
<1> QED
  BY <1>0, <1>1, <1>2, <1>3 DEF IntactInv

LEMMA IntactStep ==
  ASSUME TypeOK, TypeOK', IndexInv, [Next]_vars
  PROVE  IntactInv'
<1>0. IntactInv
  BY DEF IndexInv
<1>1. CASE UNCHANGED <<tree, disk, indexed, mod, mem, search, build, stray, stale, intact>>
  BY <1>0, <1>1 DEF IntactInv, Settled, Loadable, Loaded, Current, Symbols
<1>2. CASE Refreshes \/ (\E f \in File : GitAdd(f)) \/ UNCHANGED vars
  BY <1>1, <1>2 DEF Refreshes, GitAdd, vars, world, indexer, history
<1>3. CASE Query
  <2>1. /\ UNCHANGED <<tree, disk, indexed, mod, search, build, stray, stale, intact>>
        /\ mem' \in {mem, Loaded}
    BY <1>3 DEF Query, EnsureLoaded, world, history
  <2>2. CASE Settled
    BY <1>0, <2>1, <2>2, KeepsIntact DEF Settled
  <2>3. CASE ~Settled
    BY <1>0, <2>1, <2>3 DEF IntactInv, Settled, Loadable
  <2> QED
    BY <2>2, <2>3
<1>4. CASE Start \/ Stop \/ IndexSession \/ StopTimesOut \/ Crash
  <2>1. ~indexed' /\ mem' = None /\ build'.clean
    BY <1>4, NoBuildFields DEF Start, Stop, IndexSession, StopTimesOut, Crash, Fresh, Gone
  <2>2. intact' => stray' = None
    BY <1>0, <1>4 DEF Start, Stop, IndexSession, StopTimesOut, Crash, history, IntactInv
  <2> QED
    BY <2>1, <2>2, FreshIntact
<1>5. CASE Commit
  <2>1. ~indexed' /\ mem' = None /\ UNCHANGED intact
    BY <1>5 DEF Commit, TypeOK, history
  <2>2. intact' => build'.clean /\ stray' = None
    BY <1>0, <1>5, <2>1, CommitFields DEF IntactInv
  <2> QED
    BY <2>1, <2>2, FreshIntact
<1>6. CASE Wake \/ ListFails
  <2>1. /\ UNCHANGED <<tree, disk, indexed, mod, mem, search, stray, stale, intact>>
        /\ build.pc \in {"idle", "scan"}
    BY <1>6 DEF Wake, ListFails, At, world, history
  <2>2. build'.pc \in {"idle", "scan"} /\ (build.clean => build'.clean)
    BY <1>6, NoBuildFields DEF Wake, ListFails, BuildGoesTo, Ends, TypeOK, BuildType
  <2> QED
    BY <1>0, <2>1, <2>2, KeepsIntact DEF Settled, SavePcs
<1>7. CASE Scan
  <2>1. Scans(EnsureLoaded) /\ UNCHANGED intact
    BY <1>7 DEF Scan
  <2>2. UNCHANGED <<tree, disk, indexed, mod, search, stray, stale>> /\ mem' = EnsureLoaded
        /\ build.pc = "scan"
    BY <2>1 DEF Scans, At, world
  <2>3. build'.pc \in {"idle", "parse"} /\ (build.clean => build'.clean)
    BY <2>1, ScanFields, NoBuildFields
  <2>4. mem' \in {mem, Loaded}
    BY <2>2 DEF EnsureLoaded
  <2> QED
    BY <1>0, <2>1, <2>2, <2>3, <2>4, KeepsIntact DEF Settled, SavePcs
<1>8. CASE Parse
  <2>1. Parses({}) /\ UNCHANGED intact
    BY <1>8 DEF Parse
  <2>2. UNCHANGED <<tree, disk, indexed, mod, mem, search, stray, stale>> /\ build.pc = "parse"
    BY <2>1 DEF Parses, At, world
  <2>3. build'.pc = "refs" /\ build'.clean
    BY <2>1, ParseFields
  <2> QED
    BY <1>0, <2>1, <2>2, <2>3, KeepsIntact DEF Settled, SavePcs
<1>9. CASE AdoptUnlisted \/ ScanUnloaded \/ SaveFails \/ \E f \in File : ParseFails(f)
  BY <1>9 DEF AdoptUnlisted, ScanUnloaded, SaveFails, ParseFails, IntactInv
<1>10. CASE StraySaves
  <2>1. intact' = intact /\ stray # None
    BY <1>10 DEF StraySaves, history
  <2> QED
    BY <1>0, <2>1 DEF IntactInv
<1> QED
  BY <1>2, <1>3, <1>4, <1>5, <1>6, <1>7, <1>8, <1>9, <1>10, ChangeIntact, AdoptIntact, UpdateIntact,
     SavingIntact, NextCases DEF Indexes, Build, BuildFails

-----------------------------------------------------------------------------
LEMMA IndexStep == TypeOK /\ TypeOK' /\ IndexInv /\ [Next]_vars => IndexInv'
<1> SUFFICES ASSUME TypeOK, TypeOK', IndexInv, [Next]_vars
             PROVE  IndexInv'
  OBVIOUS
<1>1. VersionInv' /\ TrackedInv' /\ StartInv' /\ AbsentInv'
  BY VersionStep, TrackedStep, StartStep, AbsentStep DEF IndexInv
<1>2. BuildInv' /\ SaveInv' /\ IntactInv'
  BY BuildStep, SaveStep, IntactStep
<1> QED
  BY <1>1, <1>2 DEF IndexInv

LEMMA IndexSound == Spec => []IndexInv
BY IndexInit, IndexStep, IndexTypes, PTL DEF Spec

\* Whatever is edited, committed, refreshed, queried, stopped or killed while
\* builds run, an index that no fault has touched since it was rebuilt has
\* every file whose modification time the indexer remembers as the file is
\* now: the rebuild that passes over it (indexer_treesitter.go:306-330) loses
\* nothing.  The exceptions are the files that were not as in the index when
\* it was adopted.
THEOREM SkipsAreSafe == Spec => []SkipIsSafe
<1>1. IndexInv => SkipIsSafe
  BY DEF IndexInv, IntactInv, SkipIsSafe
<1> QED
  BY <1>1, IndexSound, PTL

\* The tables in memory are those on disk whenever a query or a build may read
\* them, and the search index has the symbols of the same tables between
\* builds: a build never leaves the tables of the build before it in memory.
THEOREM CopiesStayEqual == Spec => []CopiesAgree
<1>1. TypeOK /\ IndexInv => CopiesAgree
  <2> SUFFICES ASSUME TypeOK, IndexInv, intact
               PROVE  /\ on /\ Settled /\ mem # None => mem = Loaded
                      /\ indexed /\ build.pc = "idle" => search = disk.syms
    BY DEF CopiesAgree
  <2>1. build.pc = "idle" => Settled
    BY DEF Settled, SavePcs
  <2> QED
    BY <2>1 DEF IndexInv, IntactInv
<1> QED
  BY <1>1, IndexTypes, IndexSound, PTL
=============================================================================
