------------------------- MODULE TreeSitterIndexer --------------------------
(***************************************************************************)
(* The tree-sitter indexer of one session (app/indexer_treesitter.go), its *)
(* files on disk (app/indexer_persistence.go), its search index            *)
(* (app/indexer_search.go) and the calls of app/bindings.go that start,    *)
(* stop and refresh it.  Its loop rebuilds the index at each refresh while *)
(* the user goes on editing, the queries load the tables it has released   *)
(* and the application stops it or crashes.                                *)
(*                                                                         *)
(* A version stands for the content of a file with its modification time:  *)
(* a path never gets a version again that it had before.  0 is no file,    *)
(* and, in a table, no entry.  A loop over the files is one step: the      *)
(* tables have one entry per file, and no file looks at another's.         *)
(***************************************************************************)
EXTENDS Naturals

CONSTANTS
  File,        \* paths in the worktree
  Bare,        \* those that define no symbol and only refer to others
  Committed,   \* those in the worktree, and tracked, at first
  MaxVersion,  \* bound: versions given out
  MaxFaults,   \* bound: failures of git, of reads and of writes, and crashes
  None, Torn   \* a file of the index that is not there, or not complete

Version == 0 .. MaxVersion
Table == [File -> Version]

ASSUME ConstantsAssumption ==
  /\ Bare \subseteq File /\ Committed \subseteq File
  /\ MaxVersion \in Nat \ {0} /\ MaxFaults \in Nat
  /\ None # Torn
  /\ \A x \in {None, Torn} : x \notin {"head", "older"} \cup Table
  /\ None \notin [syms : Table, refs : Table]

VARIABLES
  tree,     \* the worktree: path -> version
  clock,    \* the last version given out
  tracked,  \* what git ls-files lists
  disk,     \* meta.json (whether its commit is HEAD), symbols.gob, callgraph.gob
  on,       \* whether the indexer runs
  indexed,  \* TreeSitterIndexer.indexed
  mod,      \* TreeSitterIndexer.fileModTimes
  mem,      \* symbols, fileSymbols and callgraph: None when released
  search,   \* the bleve index
  refresh,  \* the refresh channel, of capacity one, has a token
  build,    \* the build in progress and its local variables
  stray,    \* the build of an indexer whose Stop timed out
  writer,   \* paths a file operation has changed and not refreshed for yet
  told,     \* history: changed paths a Refresh has been called for
  stale,    \* history: paths not as in the cached index when it was adopted,
            \* and not indexed since
  intact,   \* history: no fault has touched the index since it was rebuilt
  faults    \* failures so far

world == <<tree, clock, tracked>>
indexer == <<on, indexed, mod, mem, search, refresh, build>>
history == <<told, stale, intact, faults>>
vars == <<world, disk, indexer, stray, writer, history>>

Empty == [f \in File |-> 0]

-----------------------------------------------------------------------------
\* What the tables have of a file: symbols.gob is by symbol, so a file that
\* defines none leaves no trace in it.
Symbols(t) == [f \in File |-> IF f \in Bare THEN 0 ELSE t[f]]

NoBuild == [pc |-> "idle", mod |-> Empty, changed |-> {}, syms |-> Empty, refs |-> Empty,
            commit |-> "older", full |-> FALSE, clean |-> TRUE]

\* The steps of IndexStore.Save.
SavePcs == {"meta", "syms", "calls"}

Saving == build.pc \in SavePcs

\* No build is between the first file it saves and its end.
Settled == build.pc \notin SavePcs \cup {"update"}

\* IndexStore.Load: all three files are there and decode.
Loadable == disk.commit \notin {None, Torn} /\ disk.syms \notin {None, Torn}
                /\ disk.refs \notin {None, Torn}
Loaded == [syms |-> disk.syms, refs |-> disk.refs]

Fault == faults < MaxFaults /\ faults' = faults + 1

\* Mutant of ReleasedTables: a build leaves loaded tables in memory.
ReleasedTablesKept == mem

\* A build releases the tables, to be loaded again on demand.
ReleasedTables == None

-----------------------------------------------------------------------------
Init ==
  /\ tree = [f \in File |-> IF f \in Committed THEN 1 ELSE 0] /\ clock = 1
  /\ tracked = Committed
  /\ disk = [commit |-> None, syms |-> None, refs |-> None]
  /\ on = FALSE /\ indexed = FALSE /\ mod = Empty /\ mem = None /\ search = Empty
  /\ refresh = FALSE /\ build = NoBuild /\ stray = None
  /\ writer = {} /\ told = {} /\ stale = {} /\ intact = TRUE /\ faults = 0

\* A change of the paths in fs, gone or with a new version.
Changes(gone, new) ==
  /\ clock < MaxVersion
  /\ clock' = clock + 1
  /\ tree' = [f \in File |-> IF f \in gone THEN 0 ELSE IF f \in new THEN clock + 1 ELSE tree[f]]
  /\ told' = told \ (gone \cup new)
  /\ UNCHANGED <<tracked, disk, indexer, stray, stale, intact, faults>>

\* The agent in the terminal edits: nothing tells the indexer.
Edit(f) ==
  /\ Changes({}, {f}) \/ (tree[f] # 0 /\ Changes({f}, {}))
  /\ UNCHANGED writer

\* The file operations of the API, one at a time.  The indexer has to be
\* told of what they have changed.
Operation(gone, new) ==
  /\ writer = {}
  /\ Changes(gone, new)
  /\ writer' = gone \cup new

WriteFile(f) == Operation({}, {f})

CreateFile(f) == tree[f] = 0 /\ Operation({}, {f})

DeletePath(f) == tree[f] # 0 /\ Operation({f}, {})

RenamePath(f, g) == f # g /\ tree[f] # 0 /\ Operation({f}, {g})

CopyPath(f, g) == f # g /\ tree[f] # 0 /\ Operation({}, {g})

\* Mutant of Refresh: the token is lost while a build is in progress.
RefreshBusyDropped ==
  /\ refresh' = (refresh \/ (on /\ build.pc = "idle"))
  /\ told' = IF on THEN told \cup writer ELSE told

\* TreeSitterIndexer.Refresh of the session's indexer, if it has one: a
\* token, unless there is one already.
Refresh ==
  /\ refresh' = (refresh \/ on)
  /\ told' = IF on THEN told \cup writer ELSE told

\* The end of the file operation: the indexer is told.
Refreshes ==
  /\ writer # {}
  /\ Refresh
  /\ writer' = {}
  /\ UNCHANGED <<world, disk, on, indexed, mod, mem, search, build, stray, stale, intact, faults>>

GitAdd(f) ==
  /\ f \notin tracked /\ tree[f] # 0
  /\ tracked' = tracked \cup {f}
  /\ told' = told \ {f}
  /\ UNCHANGED <<tree, clock, disk, indexer, stray, writer, stale, intact, faults>>

\* A commit: what was saved for HEAD, or is about to be, is for an older one.
\* Only the first build looks, so a commit before is as good as one long before.
Aged(r) == IF r.commit = "head" THEN [r EXCEPT !.commit = "older"] ELSE r

Commit ==
  /\ ~indexed
  /\ disk' = Aged(disk) /\ build' = Aged(build)
  /\ stray' = IF stray = None THEN None ELSE Aged(stray)
  /\ UNCHANGED <<world, on, indexed, mod, mem, search, refresh, writer, history>>

-----------------------------------------------------------------------------
\* The search index is made anew with the indexer, and removed with it.
NoSearch == Empty

\* NewTreeSitterIndexer and Start, by OpenSession and StartSession: nothing in
\* memory, and a first refresh.
Fresh ==
  /\ on' = TRUE /\ indexed' = FALSE /\ mod' = Empty /\ mem' = None
  /\ search' = NoSearch /\ refresh' = TRUE /\ build' = NoBuild

Start ==
  /\ ~on
  /\ Fresh
  /\ UNCHANGED <<world, disk, stray, writer, history>>

\* The indexer's memory is gone, and its search index with it.
Gone ==
  /\ on' = FALSE /\ indexed' = FALSE /\ mod' = Empty /\ mem' = None
  /\ search' = NoSearch /\ refresh' = FALSE /\ build' = NoBuild
  /\ told' = {} /\ stale' = {}

\* Stop: a build looks at its context between its steps and ends there.
Stop ==
  /\ on /\ ~Saving
  /\ Gone
  /\ UNCHANGED <<world, disk, stray, writer, intact, faults>>

\* IndexSession stops the session's indexer and starts another.
IndexSession ==
  /\ on /\ ~Saving
  /\ Fresh
  /\ told' = {} /\ stale' = {}
  /\ UNCHANGED <<world, disk, stray, writer, intact, faults>>

\* Save does not look at it: Stop waits for it two seconds, no longer.
StopTimesOut ==
  /\ on /\ Saving /\ stray = None /\ Fault
  /\ Gone
  /\ stray' = build
  /\ intact' = FALSE
  /\ UNCHANGED <<world, disk, writer>>

\* A file is emptied before it is written: a write that is cut short leaves
\* it as it was, or incomplete.
CutShort(pc) ==
  \/ disk' = disk
  \/ pc = "meta" /\ disk' = [disk EXCEPT !.commit = Torn]
  \/ pc = "syms" /\ disk' = [disk EXCEPT !.syms = Torn]
  \/ pc = "calls" /\ disk' = [disk EXCEPT !.refs = Torn]

Crash ==
  /\ on /\ Fault
  /\ Gone
  /\ IF stray = None THEN CutShort(build.pc) ELSE CutShort(stray.pc)
  /\ stray' = None /\ writer' = {}
  /\ intact' = (intact /\ ~Saving)
  /\ UNCHANGED world

-----------------------------------------------------------------------------
\* Mutant of EnsureLoaded: the tables are loaded whether or not they are
\* those of a build of this indexer.
EnsureLoadedEarly == IF mem = None /\ Loadable THEN Loaded ELSE mem

\* ensureLoaded: the tables as the disk has them, or still none.
EnsureLoaded ==
  IF mem = None /\ indexed /\ Loadable THEN Loaded ELSE mem

\* What a query does before it reads the tables: Lookup, LookupSymbol,
\* AllSymbols, FindCallers and the others.
Query ==
  /\ on
  /\ mem' = EnsureLoaded
  /\ UNCHANGED <<world, disk, on, indexed, mod, search, refresh, build, stray, writer, history>>

At(pc) == on /\ build.pc = pc

BuildGoesTo(pc) == build' = [build EXCEPT !.pc = pc]

Ends == build' = NoBuild

\* The symbols of the table t are added to the search index.
IndexBatch(t) == search' = [f \in File |-> IF t[f] # 0 THEN t[f] ELSE search[f]]

\* The first build looks for tables of the commit that is checked out ...
Adoptable == ~indexed /\ Loadable /\ disk.commit = "head"

\* Whether the index has what the file holds now.
Current(f) ==
  /\ disk.syms[f] = Symbols(tree)[f]
  /\ f \notin Bare => disk.refs[f] = tree[f]

\* ... and takes them for those of the files listed, as they are now.
Adopts(listed) ==
  /\ At("idle") /\ refresh /\ Adoptable
  /\ refresh' = FALSE
  /\ IndexBatch(disk.syms)
  /\ mod' = [f \in File |-> IF f \in listed THEN tree[f] ELSE mod[f]]
  /\ indexed' = TRUE
  /\ stale' = {f \in File : mod'[f] = tree[f] /\ ~Current(f)}
  /\ UNCHANGED <<world, disk, on, mem, build, stray, writer, told>>

Adopt == Adopts(tracked) /\ UNCHANGED <<intact, faults>>

\* git ls-files fails: the tables are adopted with no file to compare later.
AdoptUnlisted == Adopts({}) /\ Fault /\ intact' = FALSE

\* Any other build starts from the files.
Wake ==
  /\ At("idle") /\ refresh /\ ~Adoptable
  /\ refresh' = FALSE
  /\ BuildGoesTo("scan")
  /\ UNCHANGED <<world, disk, on, indexed, mod, mem, search, stray, writer, history>>

\* git ls-files fails: the build ends, and its token is spent.
ListFails ==
  /\ At("scan")
  /\ Fault
  /\ Ends
  /\ told' = {}
  /\ UNCHANGED <<world, disk, on, indexed, mod, mem, search, refresh, stray, writer, stale, intact>>

\* The files whose modification time is not the one of the last build.
Changed(new) == {f \in File : new[f] # 0 /\ new[f] # mod[f]}

Deleted(new) == {f \in File : new[f] = 0 /\ mod[f] # 0}

\* The files are listed, the tables loaded, the files compared with the last
\* build, and the symbols of those that have not changed kept.
Scans(tables) ==
  LET new == [f \in File |-> IF f \in tracked THEN tree[f] ELSE 0]
      kept == {f \in File \ Changed(new) : new[f] # 0}
  IN
  /\ At("scan")
  /\ mem' = tables
  /\ IF Changed(new) \cup Deleted(new) = {} /\ indexed
     THEN Ends
     ELSE build' = [build EXCEPT !.pc = "parse", !.mod = new, !.changed = Changed(new),
                                 !.syms = [f \in File |-> IF tables # None /\ f \in kept
                                                          THEN tables.syms[f] ELSE 0],
                                 !.full = ~indexed]
  /\ UNCHANGED <<world, disk, on, indexed, mod, search, refresh, stray, writer, told, stale>>

Scan == Scans(EnsureLoaded) /\ UNCHANGED <<intact, faults>>

\* The tables cannot be read: the build goes on as if no file had symbols.
ScanUnloaded ==
  /\ indexed /\ mem = None
  /\ Scans(None)
  /\ Fault
  /\ intact' = FALSE

\* The changed files are parsed, those that can be read.
Parses(lost) ==
  LET parsed == build.changed \ lost
  IN
  /\ At("parse")
  /\ build' = [build EXCEPT
       !.pc = "refs",
       !.syms = [f \in File |-> IF f \in parsed THEN Symbols(tree)[f] ELSE build.syms[f]],
       !.refs = [f \in File |-> IF f \in parsed THEN tree[f] ELSE 0],
       !.clean = lost = {}]
  /\ UNCHANGED <<world, disk, on, indexed, mod, mem, search, refresh, stray, writer, told, stale>>

Parse == Parses({}) /\ UNCHANGED <<intact, faults>>

ParseFails(f) ==
  /\ f \in build.changed
  /\ Parses({f})
  /\ Fault
  /\ intact' = FALSE

\* The references of the unchanged files are extracted again: of those that
\* have symbols, for the others are not in the table.
Unchanged == {f \in File \ build.changed : build.syms[f] # 0}

\* The search index after Clear and IndexBatch.
Reindexed(t) == t

UpdateSearch ==
  /\ At("refs")
  /\ search' = Reindexed(build.syms)
  /\ build' = [build EXCEPT
       !.pc = "meta", !.changed = {}, !.commit = "head",
       !.refs = [f \in File |-> IF f \in Unchanged THEN tree[f] ELSE build.refs[f]],
       !.clean = build.clean /\ stray = None]
  /\ UNCHANGED <<world, disk, on, indexed, mod, mem, refresh, stray, writer, history>>

-----------------------------------------------------------------------------
\* IndexStore.Save writes three files one after the other.
Written(b) ==
  CASE b.pc = "meta"  -> [disk EXCEPT !.commit = b.commit]
    [] b.pc = "syms"  -> [disk EXCEPT !.syms = b.syms]
    [] b.pc = "calls" -> [disk EXCEPT !.refs = b.refs]

NextPc(pc) == CASE pc = "meta" -> "syms" [] pc = "syms" -> "calls" [] pc = "calls" -> "update"

Save ==
  /\ on /\ Saving
  /\ disk' = Written(build)
  /\ BuildGoesTo(NextPc(build.pc))
  /\ UNCHANGED <<world, on, indexed, mod, mem, search, refresh, stray, writer, history>>

\* A file cannot be written: the rest is not either, and the build goes on.
SaveFails ==
  /\ on /\ Saving
  /\ Fault
  /\ CutShort(build.pc)
  /\ build' = [build EXCEPT !.pc = "update", !.clean = FALSE]
  /\ intact' = FALSE
  /\ UNCHANGED <<world, on, indexed, mod, mem, search, refresh, stray, writer, told, stale>>

\* The build of a stopped indexer goes on writing.
StraySaves ==
  /\ stray # None
  /\ disk' = Written(stray)
  /\ stray' = IF stray.pc = "calls" THEN None ELSE [stray EXCEPT !.pc = NextPc(stray.pc)]
  /\ UNCHANGED <<world, indexer, writer, history>>

\* Mutant of NewModTimes: taken when the tables are saved.
NewModTimesLate == [f \in File |-> IF build.mod[f] # 0 THEN tree[f] ELSE 0]

\* The modification times taken before the files were read.
NewModTimes == build.mod

Update ==
  /\ At("update")
  /\ mod' = NewModTimes
  /\ mem' = ReleasedTables
  /\ indexed' = TRUE
  /\ Ends
  /\ intact' = (intact \/ (build.full /\ build.clean))
  /\ stale' = {f \in stale : build.mod[f] # 0 /\ build.mod[f] = mod[f]}
  /\ UNCHANGED <<world, disk, on, search, refresh, stray, writer, told, faults>>

-----------------------------------------------------------------------------
Build == Wake \/ Adopt \/ Scan \/ Parse \/ UpdateSearch \/ Save \/ Update

BuildFails == AdoptUnlisted \/ ListFails \/ ScanUnloaded \/ SaveFails
                \/ \E f \in File : ParseFails(f)

Next ==
  \/ Build \/ BuildFails
  \/ Query
  \/ Start \/ Stop \/ IndexSession \/ StopTimesOut \/ Crash \/ StraySaves
  \/ Refreshes
  \/ Commit
  \/ \E f \in File : Edit(f) \/ WriteFile(f) \/ CreateFile(f) \/ DeletePath(f) \/ GitAdd(f)
  \/ \E f, g \in File : RenamePath(f, g) \/ CopyPath(f, g)

Spec == Init /\ [][Next]_vars

\* The goroutine of the indexer runs.
FairSpec == Spec /\ WF_vars(Build \/ BuildFails)

-----------------------------------------------------------------------------
Pc == {"idle", "scan", "parse", "refs", "update"} \cup SavePcs

BuildType ==
  [pc : Pc, mod : Table, changed : SUBSET File, syms : Table, refs : Table,
   commit : {"head", "older"}, full : BOOLEAN, clean : BOOLEAN]

\* The type of the state.  An indexer that does not run has nothing in memory
\* and no build in progress, and a released table is loaded only after a
\* build has saved one.
TypeOK ==
  /\ tree \in Table /\ clock \in Version /\ tracked \in SUBSET File
  /\ disk \in [commit : {None, Torn, "head", "older"},
               syms : {None, Torn} \cup Table, refs : {None, Torn} \cup Table]
  /\ on \in BOOLEAN /\ indexed \in BOOLEAN /\ mod \in Table
  /\ mem \in {None} \cup [syms : Table, refs : Table]
  /\ search \in Table /\ refresh \in BOOLEAN
  /\ build \in BuildType
  /\ stray \in {None} \cup {b \in BuildType : b.pc \in SavePcs}
  /\ writer \in SUBSET File /\ told \in SUBSET File /\ stale \in SUBSET File
  /\ intact \in BOOLEAN /\ faults \in 0 .. MaxFaults
  /\ ~on => build = NoBuild /\ ~indexed /\ ~refresh
  /\ mem # None => indexed

\* A rebuild passes over the files whose modification time it knows, so the
\* index on disk must have them as they are (indexer_treesitter.go:306-330),
\* between builds and while one reads: however edits, refreshes and builds
\* overlap, unless an index was adopted that did not have the file, or a fault
\* has hit the index since.
SkipIsSafe ==
  intact /\ indexed /\ Settled =>
    \A f \in File \ stale : mod[f] = tree[f] => Current(f)

\* The three copies of the index agree: what a query reads from memory is
\* what the disk has, and never the tables of a build before the last
\* (ensureLoaded, build 447-454), and between builds the search index has the
\* symbols of the table on disk (236, 428-429).
CopiesAgree ==
  intact =>
    /\ on /\ Settled /\ mem # None => mem = Loaded
    /\ indexed /\ build.pc = "idle" => search = disk.syms

\* A file whose change was followed by a Refresh gets into the index, unless
\* it changes again, the indexer stops or a fault hits (Refresh, loop).
ToldIsIndexed ==
  \A f \in File :
    (f \in told /\ f \in tracked)
      ~> (f \notin told \/ (f \in stale /\ mod[f] = tree[f]) \/ ~intact
            \/ (indexed /\ ~Saving /\ mod[f] = tree[f] /\ Current(f)))
=============================================================================
