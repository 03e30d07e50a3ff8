# claude-squad-ide in TLA+

Specifications, model-checking configurations and proofs for claude-squad-ide: a
desktop application (Go backend, React frontend in a WebView) that runs many
coding-agent sessions side by side, each in a terminal and usually in a git
worktree and branch of its own, locally or on a host reached by SSH.

Paths are relative to `src/`. `PROJECT.json` maps every definition to the lines it
models, lists the components, the hazards, the runs, the mutants and the theorems.

- [The system](#the-system)
- [Modules](#modules)
- [Runs](#runs)
- [Proofs](#proofs)
- [Divergences](#divergences)
- [What is not modelled](#what-is-not-modelled)
- [Plan](#plan)

## The system

```
 frontend (React)            Go backend
 ----------------            ------------------------------------------------
 sessionStore  --calls-->    SessionAPI (app/bindings.go) ---- state.json
 useSessionPoller --polls->    |  instances, indexers, one RWMutex
 useTerminal  --WebSocket->    |-- Instance (session/instance.go)
                |              |     |-- GitWorktree (session/git)
                |              |     `-- ProcessManager (pty, or ssh)
                `----------->  |-- pty.Manager, Session, Monitor, WebSocketServer
                               |-- ssh.HostManager, Client, SSHProcessManager
                               |-- TreeSitterIndexer, MCP server
                               `-- idleCheckerLoop
 daemon (a second process)   ---------------------------------- state.json
```

| Component | State | Operations | Correct when | Status |
|---|---|---|---|---|
| Session API, life of a session (`app/bindings.go`, `session/instance.go`) | `instances`, `indexers`, fields of each `Instance`, `state.json` | Create, Start, Open, Pause, Resume, Kill, Index, StopIndexer, Close, NewSessionAPI | every process belongs to a session somebody can stop; a process has its worktree; the file says what the map says; a title goes through the promised states; what shows Loading is being started; a live session's commits survive | `SessionLifecycle`; not the queries |
| Automatic pausing (`app/bindings.go`) | `IdleSince`, `LastViewed`, `AutoPaused`, the lists two scanners work off | PollAllStatuses, checkIdleSessions, TouchSession | acting on an old list, it does nothing a user could not have done; an idle session is paused in the end | `IdleAutoPause` |
| Terminal sessions and viewers (`pty`, `ssh/session.go`) | `closed`, `exited`, subscribers and their channels, `mu`, `subMu` | Spawn's reader and waiter, Subscribe, Write, Kill, handleWS | no panic; a viewer gets the output in order and complete; Kill ends the program | `PtyStream`; not resizing and server shutdown |
| Terminal monitor (`pty/monitor.go`) | ring buffer, write position, hash | Write, Content, HasUpdated, HasPrompt | the snapshot is the end of the output; no update is missed but a repetition | `TerminalMonitor` |
| SSH hosts and connections (`ssh/host_manager.go`, `ssh/client.go`, `ssh/process_manager.go`) | managed clients with reference counts and idle timers, connections, process numbers | GetClient, ReleaseClient, idle timer, keepalive, reconnectLoop, Spawn, Kill | no idle timer closes a connection in use; a number names the session's own process, in the manager that gave it out | `HostManager`; not the remote file calls |
| Host store, keychain (`ssh/hosts.go`, `ssh/keychain_*.go`) | `hosts.json`, the keychain, a mutex | CreateHost, UpdateHost, DeleteHost, SetHostLastPath | one host changes at a time; a host has its secret | `HostStore`, `HostTable` |
| Git worktrees (`session/git/worktree*.go`, `session/instance.go`) | directories, branches, git's list of worktrees, submodules, failures | Construct, Setup, Cleanup, Pause, Resume, Kill, RetrySubmoduleSetup, reset | a branch that was there before is not deleted; a failure is reported; a cleanup is complete | `GitWorktree`; not sessions on an existing branch, nor repositories on another host |
| Command timeout (`session/git/executor_timeout.go`) | none | Run, Output | a submodule's hung clone or fetch ends | in `GitWorktree` |
| Cleanup of worktree processes (`session/cleanup.go`) | the processes pgrep has found | TERM, wait, KILL | what was found is dead | in `GitWorktree` |
| Tree-sitter indexer (`app/indexer_treesitter.go`) | modification times, tables in memory or released, search index, refresh channel | Start, Stop, Refresh, build, ensureLoaded | what a build skips is right on disk; the copies agree; what was refreshed for gets indexed | `TreeSitterIndexer`; not the ctags indexer |
| Index store (`app/indexer_persistence.go`) | `meta.json`, `symbols.gob`, `callgraph.gob` | Save, Load | a torn save is not loaded as a whole one | in `TreeSitterIndexer` |
| Languages, search, call graph, diffs of the indexer (`app/indexer_languages.go`, `indexer_search.go`, `indexer_callgraph.go`, `indexer_git.go`) | the extracted symbols and references | WalkNode, Search, GetBlastRadius, ComputePageRank, FindDeadCode, ChangedSymbols | answers agree with the syntax trees | `SourceWalk`, `CallGraph`, `IndexQueries` |
| MCP server (`app/mcp_server.go`) | none of its own | its six tools for code | as above, within a token budget | `IndexQueries`; not index_status, start and stop |
| state.json (`config/state.go`, `session/storage.go`) | one JSON file | LoadState, SaveState, SaveInstances | nothing saved is lost | what is saved and when, and a write that fails or is cut short: `SessionLifecycle` |
| Daemon (`daemon/`) | a copy of the sessions | RunDaemon | | not modelled: nothing launches it |
| Frontend store and terminal (`frontend/src/store`, `frontend/src/hooks`) | sessions, tabs, statuses; one WebSocket per terminal | store actions, polls, reconnection | the view agrees with the API | not modelled |
| Frontend views, configuration, logging, entry point, benchmark harness, diffs | | | | not modelled: rendering, parsing and plain I/O |

What is hard here: `StartSession` and `KillSession` drop the API's lock around slow
work, so calls about one title overlap; the frontend's polls and the backend's own
ticker decide under one lock and act under another; three goroutines, any number of
WebSocket handlers and a `Kill` share one terminal session; an SSH connection may be
replaced by two parties; git commands fail half way, and hang, next to the user's own;
an index is rebuilt from files that go on changing, and saved in three pieces; and the
application may end anywhere. `PROJECT.json` lists the hazards at their lines, with the
properties that would catch each.

## Modules

### SessionRegistry

What the API promises a caller about a title: absent, new, running or paused, and
the moves between them. `SessionLifecycle` and `IdleAutoPause` both implement it
(`RegistrySpec`, with a refinement mapping).

### SessionLifecycle

The API and its instances. An operation that keeps `SessionAPI.mu` to its end is one
action (`CreateSession`, `OpenSession`, `ResumeSession`, `PauseSession`,
`IndexSession`, `StopIndexer`). The two that drop it are calls with steps, and a
`Caller` is one of them in flight:

| Code | Steps |
|---|---|
| `StartSession` | `StartBegin` (up to the unlock), `StartConstruct`, `StartSetup`, `StartSpawn` (`Instance.Start`, no lock), then `StartFailed`, or `StartPublish` and, after submodule failures, `StartIndex` |
| `KillSession` | `KillBegin` (out of the maps and the file), `KillProcess`, `KillCleanup` (`Instance.Kill`, no lock) |

Instance objects, worktrees (a path that ends in a time stamp, with its branch) and
processes are constants apart from titles, since a title is reused while objects of
its earlier owner are still at work. `Kinds` are local worktree sessions, in-place
ones and remote ones (which have a worktree and may be forced into Paused when their
process is gone). `Close`, `Crash` and `Restart` end and start the application;
`disk` is what `state.json` holds. The environment exits processes, commits, and
removes worktree directories nobody works in. `GitWorktree` takes the steps of
`StartSetup` and `KillCleanup` apart.

A save may fail (`SaveFails`), which the code only logs: `unsaved` says that the last one
did, and the map goes on. `OpenSession` fetches the manager of a remote session anew; if
it is that of a new connection (`renewed`), it knows no process, takes an unknown id for
one that has exited, and the session is forced into Paused (`Reconnected`). The process may
live on through the connection that was left open: `strays` are the instances with such a
process, which may go on committing, and `moved` the Starts that will spawn in a manager
their instance no longer has (`SpawnedAstray`). `procs` holds only processes that their
instance's manager knows; of the others `ProcessOwned` says that only remote sessions have
them. Pause and Kill forget the process id, whatever their manager says of it.

`overtaken` and `replaced` are history: the instances whose Start met another Start or a
Kill, and those a namesake pushed out of the map. `ProcessOwned` exempts both and
`ProcessHasTree` the first, because there the code does lose processes.

### IdleAutoPause

Two scanners, a poll and the idle checker, each with the list it has to work off. The
two write locks per entry (`FlagAutoPaused`, `AutoPause`) are separate steps. Time is
measured in idle timeouts: a stamp is zero, recent or expired. Start, pause and resume
are atomic here; `SessionLifecycle` has their steps. An `idleTimeout` of 0 has no
checker and no candidates and is left out. `MarkIdle` and `MarkActive` run under the
read lock, so two scanners race on `IdleSince`; both write what they read from the same
prompt, and a scan is one step. A session that is viewed after it was listed is paused all
the same; what a scan lists is its guard, and no property repeats it.

### TerminalMonitor

The ring buffer (`MonitorSpec`; its theorems are in `PtyStream_proofs`, next to those of
the reader that writes to it). A multi-byte write is its bytes one after the other under the
monitor's mutex. A pattern is a set of bytes; escape sequences are not stripped. `answer`
is what HasUpdated said last, with the output before and since the question before it.

### PtyStream

One terminal session, local or remote (`remote`), its program and whoever holds its
terminal, the reading and the waiting goroutine, `Kill`, and the handler and input
goroutine of each viewer. Sections under `subMu` are one step; `mu` is a variable,
because `Write` holds it across a write that may block. Chunks are numbered in the
order printed, so what a viewer got can be compared with what was broadcast.
`Resize` and `Manager.Write` also take `mu`, for a moment or as `Write` does, and are
not actions of their own. A program may stop reading, and leave descendants behind that
keep its terminal open (`Lingers`, TRUE in both runs) and do not read either: `WriteBlocked`
is a `Write` that holds `mu` until somebody does.

### HostManager

The entry of one host, its reference count and idle timer, the connections made for
it, the disconnect callback and reconnect loop of each, the process managers with
their counters, and remote sessions as they use them (`CreateSession` and
`OpenSession` in two steps, because they take the client first and the sessions' lock is held by
the whole call). Starting, pausing and killing are atomic here. `watched` are the
connections whose keepalive runs: it ends with a keepalive that fails, on a broken
connection or under a `Close`, and then starts the reconnect loop, or because `Close` stops
it (`KeepaliveFails`, `KeepaliveStops`). A remote in-place
session whose Pause fails because the new manager does not know its process is not
modelled.

`short` is history: entries that lost a reference to a call that had taken it from
another entry.

### HostStore, HostTable

`hosts.json`, the mutex of the store, the keychain, and the calls of the frontend that
change them. Each call is the sequence of store and keychain operations its function
makes; a store operation is `Load` (under the mutex), a change in memory, the
truncation of the file and its writing, since `os.WriteFile` writes in place. A
failure of a write, of the keychain, or a crash can come at each step and counts
against `MaxFaults`. `HostTable` is the abstract specification: a table that changes
by one host at a time or is lost for good. The refinement maps the table to the file,
or, while it is being written, to what its writer read.

### GitWorktree

The `GitWorktree` objects of the sessions of one repository, which compete for branch
names: a name is the number `deduplicateBranchName` has appended. Each git command of
`Setup` (in its three forms), `Cleanup` and `CleanupWorktrees` is a step; between them
the user makes, deletes and checks out branches, pushes, and removes directories. The
submodules of a tree are a job of its own, of `Setup` or of `RetrySubmoduleSetup`. It
begins with listing them, which may fail after `git worktree add` (`ListingFails`: Setup
returns the error, and the next Resume finds the directory and runs no Setup), or be taken
for a repository without any (`ListingEmpty`). Then each
command succeeds, fails, or hangs, and only those the executor limits are killed then,
with their effect or without. `FindProcesses` and `Terminate` are
`KillWorktreeProcesses`. `Restart` restores the sessions from storage, without their
base ref, so that a later Setup takes another form. `OpenSession` and `PauseSession`
keep the API's lock (`Locked`), `StartSession` and `KillSession` do not.

`late` and `unsure` are history: the objects that had chosen a name before somebody
made a branch of it, and the trees whose submodules were not listed, or whose list of
failures a retry or a restart replaced. `FailureHonest` is about the other trees.

### TreeSitterIndexer

One session's indexer: the loop, a build in its steps (list, parse, references, update
of the search index, the three files of `IndexStore.Save`, then the new modification
times and the release of the tables), queries that load the tables again, `Refresh` with
its channel of capacity one, `Stop` with its two seconds, `IndexSession`, and the calls
that edit files and then refresh. The agent edits files and tells nobody. A version
stands for a file's content with its modification time; `Bare` files define no symbol.
A commit is HEAD's or an older one. A loop over the files is one step.

`stale`, `told` and `intact` are history: paths that were not as in the cached index
when it was adopted, until a build has parsed them or found them gone; paths a Refresh
has been called for; and whether a failure has touched the index. Between the first
file of a save and the end of the build the copies differ; otherwise the index is
`Settled`.

### SourceWalk, CallGraph, IndexQueries

The answers. `SourceWalk` is the walk over a syntax tree with the scope it passes down,
`CallGraph` the breadth-first search, PageRank (integers, rounded down) and dead code.
`IndexQueries` builds the tables of a small repository, lets one file change, and
answers any tool of the MCP server and any query of the indexer; its properties compare
the answer with the syntax trees. What the search library makes of a query is given by
constants: `StopWords` have no term in the index, `Expressions` are not words to the query
parser and may find anything, `Contained` is what a wildcard finds; a search may fail,
which answers with no hits. `git diff` may fail too, with an error or as an empty success
(`DiffFails`), and quotes some file names, whose hunks go to the file before
(`QuotedHeader`, `Strays`). Which repositories there are is a constant
(`Sources`). A syntax tree is the sequence of its nodes in the order of the text, each
with its parent and the last node in it, so that the recursion of `walkNode` is a walk
along the sequence with the scope each parent has come to; the other loops are folds too,
and the queue of the search is worked off in as many turns as there are references, and
one. Nothing is a recursive operator, which proofs could not be about.

## Runs

Every run is exhaustive within its bounds. Each property of a run has a mutant of the
code that breaks it.

| Run | Instance | Shows |
|---|---|---|
| `lifecycle_calls` | 1 title, 2 instances, 2 worktrees, 2 processes, 2 overlapping calls, remote and in-place sessions, user deletes worktrees | `TypeOK`, `ProcessOwned`, `ProcessHasTree`, `DiskAgrees`, `LiveKeepsCommits` |
| `lifecycle_titles` | 2 titles, 2 instances, 1 worktree, 2 processes, 2 calls, local worktree sessions | `RegistrySpec`, `LoadingAttended` |
| `idle_scans` | 2 titles, one poll and the checker, with fairness | `TypeOK`, `RegistrySpec`, `IdleEventuallyPaused` |
| `monitor_ring` | 2 bytes, 3 places, 8 bytes of output | `ContentIsTail`, `MissedOnlyRepeats` |
| `pty_sessions` | 2 viewers, channels of 2, 3 chunks, local and remote, descendants may linger | `TypeOK`, `NoPanic`, `StreamExact`, `KilledIsDead` |
| `pty_live` | 1 viewer, channel of 2, 4 chunks, descendants may linger, with fairness | `StreamEnds`, `ExitSettles` |
| `host_sessions` | 2 sessions, 1 short call, 2 entries, 3 connections, 2 processes per manager | `TypeOK`, `OwnProcess`, `HeldStaysOpen` |
| `host_store` | 2 calls, 2 hosts, 1 failure or crash, with fairness | `TypeOK`, `HostHasSecret`, `OneHostAtATime`, `CallsEnd` |
| `git_branches` | 2 worktrees, 2 names, 2 acts of the user, restarts or resets | `TypeOK`, `DeletesOwnBranch` |
| `git_modules` | 1 worktree with 1 submodule, 2 attempts, 2 processes, 1 act, with fairness | `CleanupComplete`, `FailureHonest`, `SetupEnds` |
| `index_builds` | 2 files, one of them bare, 3 versions, 1 failure, with fairness | `TypeOK`, `SkipIsSafe`, `CopiesAgree`, `ToldIsIndexed` |
| `index_queries` | 189 repositories of 2 files, 4 names (one a stop word, one an expression), 3 budgets, 3 depths, one edit, failing searches and diffs, a quoted file | `ReferencesExact`, `DefinitionsFound`, `BudgetKept`, `DependentsExact`, `ChangesFound` |

The longest are `host_sessions` (1.7 million states, three minutes), `index_builds` and
`index_queries` (two to two and a half each), `git_branches` (2.3 million),
`lifecycle_calls` and `host_store` (a minute and a half each). The longest proof is `IndexQueries_proofs`, a quarter of an hour; the others take
minutes at most.

Why the bounds are enough. Two instances of one title are the original and the
namesake that replaced it, and two calls are all that a second click, a kill during a
start, or an old start that outlives its session needs; a local worktree session does
what a remote one does, except lose its process to a broken connection, so the first
run takes the remote kind. Two viewers are a slow one next to a fast one; a channel of
two fills, drains and fills again. Three places and eight bytes go round the ring twice
and end at every position. Two entries and three connections are a host lost once, with
the reconnect loop and `GetClient` each making a successor. Two calls of two hosts are
a lost update or a read of half a file; a second failure only meets what the first has
already lost. Two names let one worktree take the name of another, and two acts are a
restart together with a branch the user made, or a push together with a deletion. One
submodule is enough because they are populated one by one and share nothing but the
list of failures. Three versions are an edit before, during and after a build, and two
files tell an unchanged one from a changed one; a bare file is the only kind whose
entry differs between the tables. The repositories of `index_queries` have functions in
functions, methods in types, anonymous functions, repeated and circular calls,
definitions of one name in one file and in two, and no symbol at all. One stop word, one
name that is an expression to the query parser, and one quoted file, of which nothing or
one line is added, are each of their kind; what they do does not depend on a second. One
worktree is enough for `lifecycle_titles`: the second session then starts on a worktree
that was cleaned up, or fails.

When the instances, entries, connections, chunks, versions or acts run out the model
stops making new ones; the runs of `HostManager`, `PtyStream`, `TerminalMonitor`,
`GitWorktree` and `TreeSitterIndexer` may then stop where the system would go on, or have
come to the end of a session's life. The runs of the first four switch deadlock checking
off. The others check it.

Symmetry is used only in runs without liveness, over constants nothing orders.

Fairness, and why the code justifies it:

- `SessionLifecycle`: none, and nothing is said to end. `Start` runs `git fetch --prune`
  without a limit, and a Kill may wait for `mu` for ever.
- `IdleAutoPause`: the ticker of `idleCheckerLoop` fires, and time passes. Polls are
  not fair: the frontend may be suspended, the reason the loop exists. Strong fairness
  is not needed: a scan is always possible. A pause is taken to get `SessionAPI.mu`.
- `PtyStream`: goroutines run on, a browser that is there reads what it is sent (there is
  no limit on a write to one that does not), and a write to a closed or dead terminal
  returns. `Kill` and the waiter compete for `mu` with the
  viewers' writes; Go's mutex hands over to a waiter after a millisecond (starvation
  mode), hence strong fairness for these two. Nothing is assumed of the program: it may
  never read, print or exit; nor of its descendants. `ExitSettles` therefore leaves out a
  `Write` that stays blocked (`[]WriteBlocked`).
- `HostStore`: the steps of a call that has begun go on, and a call that waits for the
  store's mutex gets it, for the same reason; hence strong fairness for each call.
- `GitWorktree`: a submodule command ends by itself or, where the executor limits it, by
  its timeout; one that hangs without a limit is not made to end. Nothing else is fair, and
  `SetupEnds` is about the submodules of local repositories only.
- `TreeSitterIndexer`: the goroutine of the loop runs. Nothing is assumed of edits,
  queries and refreshes.

## Proofs

TLAPS proves these for every value of the constants; the modules say from what.

| Theorem | Module | Argument |
|---|---|---|
| `TypeCorrect` (`TypeOK`) | `SessionLifecycle_proofs` | `TypeOK` is not inductive: a step reads `inst[call[c].inst].tree` and puts it into `trees`, so the call's instance, its title and, while it sets up, its worktree must be there. `TypeInv` adds those references, and that instances in the map and the file are in use |
| `LifecycleRefines` (`RegistrySpec`) | `SessionLifecycle_proofs` | `SessionLifecycle` implements `SessionRegistry`. `RegistryInv` adds to `TypeInv` that the map, and the file, name an instance under one title at most, and that while the application runs a record of the file is of the started instance the map has for its title: without it a crash or a restart could move a title to a state it was not in. Each step then concerns one title (`OnlyAt`) and makes an allowed move of it, leaves what is shown alone, or ends the application |
| `FileAgrees` (`DiskAgrees`) | `SessionLifecycle_proofs` | `DiskInv` adds to `RegistryInv` that a Start in flight of an instance that has started, or that another Start in flight is about, is in `overtaken`: only such a Start can give an instance another worktree after it was saved. A step saves (`SaveSettles`), or changes nothing the file should know (`SettledKept`) |
| `ProcessesOwned` (`ProcessOwned`) | `SessionLifecycle_proofs` | `OwnInv`, the same for this theorem and the two below, adds three parts to `DiskInv`. `MapInv`: a Start that was not overtaken is of the session its title names, and what is being killed is in no map. `TreeInv`: no two instances, nor an instance and a record of the file, have one worktree. `ProcInv`: a process its manager knows belongs to an instance that has started and knows it, and nothing runs once the application has ended. `SideInv` is about the processes left on lost connections |
| `ProcessesHoused` (`ProcessHasTree`) | `SessionLifecycle_proofs` | part of `OwnInv`: a worktree about to get a process is there, nothing runs in one about to be cleaned up, and by `TreeInv` no other instance's cleanup or Setup is about it |
| `CommitsKept` (`LiveKeepsCommits`) | `SessionLifecycle_proofs` | step by step from `OwnInv`: each step that deletes commits deletes those of one worktree, whose only instance has then left the map, has no process its manager knows, or was overtaken |
| `StartsAttended` (`LoadingAttended`) | `SessionLifecycle_proofs` | `AttendInv` adds to `OwnInv` that only its own title can have the instance of a Start in the map (`OneTitle`): the error path, which goes by title, takes it out, and a spawn marks it running for every Start of it (`AttendKept`) |
| `NeverPanics` (`NoPanic`) | `PtyStream_proofs` | a channel in `subs` is open: whoever closes channels takes them out of `subs` in the same critical section |
| `KillIsFinal` (`KilledIsDead`) | `PtyStream_proofs` | a local session that is closed has lost its program, whichever of the waiter and `Kill` closed it |
| `TypeCorrect` (`TypeOK`) | `PtyStream_proofs` | with a reader that holds a chunk having read one; the capacity of the channels is part of it |
| `StreamsExact` (`StreamExact`) | `PtyStream_proofs` | what a subscriber has got and what waits in its channel are one sequence: sending moves the boundary, a broadcast appends a chunk larger than all before or adds it to the lost ones; a handler that has not subscribed has got nothing |
| `ShowsTheEnd` (`ContentIsTail`) | `PtyStream_proofs` | each place of the buffer holds the byte of the output that belongs there (`TailInv`), before and after the buffer is full; the snapshot and the search for a prompt read the places in that order |
| `UpdatesAreExact` (`MissedOnlyRepeats`) | `PtyStream_proofs` | `HashInv`: the hash that is kept is that of the buffer at the last question, whose places held the end of the output then (`TailInv`). If the places hold the same bytes now, each byte of the output equals the one that was in its place (`AnswerInv`) |
| `TypeCorrect` (`TypeOK`) | `HostManager_proofs` | `TypeInv` adds that the connection a reconnect loop is about to install was made, and that a loop runs only for a connection that is down |
| `OwnNumber` (`OwnProcess`) | `HostManager_proofs` | the number of a running session is at most the counter of the manager that started it, which never goes back, so a new process gets another number |
| `HeldOpen` (`HeldStaysOpen`) | `HostManager_proofs` | no two entries, nor an entry and a reconnect loop, share a connection (`Apart`), and an entry that is not short of a reference counts at least the calls that hold it (`CountInv`): with no reference left there is no holder |
| `TypeCorrect` (`TypeOK`) | `IdleAutoPause_proofs` | inductive as it stands, as it ties a scanner's list to where the scanner is |
| `PausingRefines` (`RegistrySpec`) | `IdleAutoPause_proofs` | step by step from `TypeOK`: what the lists say may be out of date, and a pause still looks at the session as it is |
| `StoreTypes` (`TypeOK`) | `HostStore_proofs` | with what a call in flight knows: its host and, from loading on, what it is going to write (`CallInv`) |
| `WholeReads` | `HostStore_proofs` | `LockInv`: the call with the mutex, and only that, is between reading the file and the end of writing it, so the file is what the last complete write left |
| `StoreIsTable` (`OneHostAtATime`) | `HostStore_proofs` | `HostStore` implements `HostTable`: the change takes effect when the file is truncated, what is written is what was read with one host changed, and a torn file stays torn |
| `SecretsKept` (`HostHasSecret`) | `HostStore_proofs` | a host without its secret is a debt, and some call about it has still to pay it (`DebtInv`). A call in flight can undo another's payment only if it deletes the host, or has not read the table yet (`FreshInv`); `StageInv` says where each kind of call can be, `UsedInv` that identifiers are new |
| `WorktreeTypes` (`TypeOK`) | `GitWorktree_proofs` | `StateType` adds the types of the parts, that a worktree is listed with the branch its object has chosen, and which job waits for which object |
| `OwnBranchesDeleted` (`DeletesOwnBranch`) | `GitWorktree_proofs` | `ChoiceInv`: a branch with a chosen name is the object's own or in `late`, unless no name was free. The step that chooses needs that the least free name is free (`HasLeast`, `FreeName`), which is shown by counting, without induction |
| `CleanupsComplete` (`CleanupComplete`) | `GitWorktree_proofs` | `CleanInv` says what a Cleanup without an error has done at each of its steps; `BranchInv`, that a listed branch exists and that an object makes only the branch of its name. No step of anybody else undoes it (`BesideRepo`) |
| `FailuresHonest` (`FailureHonest`) | `GitWorktree_proofs` | `ModulesInv`: each submodule of a worktree something is promised of, one whose submodules were listed, is still to be done, reported or populated, by the setup or by the retry that is about it |
| `IndexTypes` (`TypeOK`) | `TreeSitterIndexer_proofs` | inductive as it stands |
| `SkipsAreSafe` (`SkipIsSafe`) | `TreeSitterIndexer_proofs` | `IndexInv`: no version is known that was not given out (`VersionInv`), nothing untracked is indexed (`TrackedInv`), a file the build has not found is not in its tables (`AbsentInv`), a sound build has every file that has not changed since it was listed (`BuildInv`), a clean one has written what its place says and nobody writes besides (`SaveInv`), and an index no fault has touched has what a rebuild passes over (`IntactInv`) |
| `CopiesStayEqual` (`CopiesAgree`) | `TreeSitterIndexer_proofs` | from the same `IndexInv` |
| `TablesAreExact` | `IndexQueries_proofs` | the symbols and the references correspond one to one to the definitions and the calls of the syntax trees (`TablesExact`), a reference with the innermost named function or type around it. The tables stay as built (`TablesInv`); `WalkInv` carries the scopes along the walk: what a node passes down is that name of the nodes around its children (`EnclosingIs`), because a parent is the innermost node around (`IsTree`) |
| `ReferencesFound` (`ReferencesExact`) | `IndexQueries_proofs` | from `TablesInv`: a query is the subsequence of the table with the name asked for (`OnlyIs`, `OnlyCount`), and two references differ in their place (`ListedAre`) |
| `DefinitionsAreFound` (`DefinitionsFound`) | `IndexQueries_proofs` | from `TablesInv`: the last definition of a name in a file is a document (`DocumentOf`); of a name that is neither a stop word nor an expression it is a hit, if the search does not fail; a ranking shorter than the limit has all the hits, and while a file is as indexed the lines kept with a symbol are those of its node |
| `BudgetIsKept` (`BudgetKept`) | `IndexQueries_proofs` | `ContextStates`: the symbols that are packed are within the budget, or one bundle without callees, whose budget was then negative (`BundleIs`). `BudgetInv` of the search with a budget: what is packed is a prefix of the readable hits with its costs, and once it is full the next did not fit |
| `DependentsAreExact` (`DependentsExact`) | `IndexQueries_proofs` | the search: `SearchInv` says that the queue is the rest of what was found, in order of depth, at most one apart, that each found function is as many calls away as its depth and none met before, and that the callers of all heads so far have been met (`Done`); each turn takes one head and no function is found twice, so the queue is empty at the end (`FoundFew`, `NoMore`) and, by induction over the distance, nothing is missing (`AllReached`). The ranks: `FairRanks`, no rank below the random jumps and the sum at most 1, is kept by an iteration, since what a function gives to its callees, summed over the references, is at most 85 % of its rank (`GivenAtMost`), and the sum over what each receives is the sum over what each gives (`ScoresSum`, `GotIsGiven`) |
| `ChangesAreFound` (`ChangesFound`) | `IndexQueries_proofs` | `DiffInv` says what a run of changed lines covers: each line added before the run is inside a block of the diff, a header and the lines after it (`Covered`). A block is read back as it was written, wherever it lies in the diff of all files (`BlockRead`), and a line once read stays in the hunks (`AddedLasts`); a hunk is of the file named last (`FileInHand`), which has a changed line; the blocks of files whose names are quoted join the last such hunk's file and leave what was read. Only a diff that did not fail is meant |

They rest on the assumptions named in the modules (`ConstantsAssumption`,
`NoneAssumption`, `ScannersAssumption`, `RecordsAssumption`, `SizesAssumption`,
`BytesAssumption`): the placeholders are none of the model values they stand beside and no
record, table or file, the checker is not a poll, the sizes are natural numbers, and finitely many short
calls are in flight; and of what a parser makes of a file, that it is a tree (`IsTree`).
Nothing is assumed of how many titles, instances, hosts, worktrees, files, viewers, nodes
or calls there are.

`IndexQueries_proofs` proves by induction what its folds compute. The induction theorems of
the library take the property as an operator and cannot be cited; here a property is the
set of the numbers that have it, and that a set of numbers with 0 and all successors is
`Nat` follows from a least element of the rest, which is found by counting (`HasLeast`,
`Induction`). A fold of the community modules is a recursive function chosen by `CHOOSE`:
it exists by that induction (`FoldExists`), and its values are a run (`RunExists`), the
list of what the fold has come to after each element. Every lemma about a loop then shows
what the run has at its start and keeps at each step.

Every inductive invariant of a state machine was checked by TLC before it was proved,
`GitWorktree`'s with two worktrees and submodules as well; of `IndexQueries` TLC checks the
properties, and the invariants of its loops are about the folds inside one step. One property of an earlier version turned out to
be false beyond the bounds of its run: `SkipIsSafe` of `TreeSitterIndexer` with four
versions or more. A tracked file that was missing when a cached index was adopted, and is
made and removed again before a build, is still in that index and looks unchanged, so an
edit does not end the exception for it; only a build does (`Update`). And after the last file of
a save the disk is new while the remembered times are old, so the property is about
builds that are `Settled`. The counterexamples were shortcomings of the statement and of
the history variable; the actions of the code are as they were. The corrected property
was checked with four versions, and then proved for any number.

Only model-checked, and why:

- Liveness, and what rests on `ENABLED`: `CallsEnd`, `IdleEventuallyPaused`,
  `StreamEnds`, `ExitSettles`, `SetupEnds`, `ToldIsIndexed`. TLAPS cannot reason about
  `ENABLED`, which fairness is made of.

Every invariant and action property a run checks, and the three refinements, are proved.

## Divergences

Met while modelling. The models take these steps; no property says they do not happen.

Against a comment of the source:

- Kill "terminates the instance and cleans up all resources" (`session/instance.go:509`):
  a session killed or replaced while it starts is not `started`, Kill returns at once
  (511), and Start spawns a process nobody owns. And a Write blocked on a program, or on
  a descendant that outlives it, that does not read holds the mutex Kill and the waiter
  wait for (`pty/manager.go:35`): neither comes to its end.
- Paused: "worktree removed but branch preserved" (`session/instance.go:36`): in the run
  that created the session, Resume of a missing worktree goes through `setupFromRef`,
  which deletes the branch (`session/git/worktree_ops.go:126`).
- TouchSession refreshes LastViewed "so the auto-pauser won't kill it"
  (`app/bindings.go:499-500`): a session viewed between the scan and the pause is paused.
  And it is no "no-op for ... paused sessions" (501), whose stamp it refreshes.
- OpenSession detects SSH sessions whose process has died (`app/bindings.go:452-455`):
  process numbers start again in a new manager, and the dead session is attached to
  another session's process. And an unknown number counts as exited
  (`ssh/process_manager.go:212-218`): a process that lives on through a connection left open
  is disowned (455-458), and when the Resume that follows fails to spawn, its worktree and
  commits are removed under it.
- smart_lookup "stays within limit", "All within your token budget", "Token budget for
  response" (`app/mcp_server.go:305`, 312, 327): the first symbol is given even when it alone
  is larger (`app/indexer_treesitter.go:689-697`), and headings are not counted.
- "Empty diff is not an error" (`app/indexer_git.go:147`): neither is then a git that fails
  before it prints anything, and no symbol counts as changed.
- An exact query is tried "first; if it returns no hits, fall back to a wildcard"
  (`app/indexer_search.go:87-89`): a name that is a stop word of the analyzer (`All`, `Is`,
  `Not`; 36) has no term either way, a query is parsed for operators (90), and a search that
  fails answers as one without hits (97-99).
- When every name is taken "fall through and let git error" (`session/git/worktree.go:71`):
  git has no reason to, since Setup deletes the branch of that name first.
- CleanupWorktrees removes "all worktrees and their associated branches"
  (`session/git/worktree_ops.go:282`): git refuses to delete a branch while its worktree
  is listed, and the entry is pruned after.
- The plan of the indexer says "Validate checksum on load"
  (`docs/superpowers/specs/2026-04-13-treesitter-indexer-design.md:255`): there is none, and
  after a crash between `meta.json` and `symbols.gob` the old tables are accepted for the
  new commit (`app/indexer_persistence.go:50`).
- "main process kills the daemon when the main process starts" (`daemon/daemon.go:19`): it
  does not, and nothing launches one.

Sessions:

- `Start` runs `git fetch --prune` before it makes the worktree (`session/instance.go:425`,
  439; `session/git/worktree_git.go:71`), and only local submodule commands have a limit: if
  it hangs, the session stays in Loading for ever.
- Pause forgets the process id even when the kill failed (`session/instance.go:703-713`).
- A save that fails is logged, and the map goes on (`app/bindings.go:1930`): a crash then
  loses what was done since the last save that succeeded, or all sessions.
- An error in `Setup` after `git worktree add` leaves worktree and branch: the handler
  calls Kill before `started` is set (`session/instance.go:458-462`, 511).
- Resume removes the paused session's worktree when the process cannot be spawned
  (`session/instance.go:776`), against the comment at 676-679.
- StartSession's error path removes whatever session now has the title
  (`app/bindings.go:546`).
- A session paused before its StartSession gets the lock back gets an indexer while
  paused (`app/bindings.go:566-575`); an indexer made meanwhile is overwritten and runs on.
- `AutoPaused` ends up on sessions the user paused (`app/bindings.go:788`, 963;
  `session/instance.go:78-79`).
- PollAllStatuses decides by the old `IdleSince` (`app/bindings.go:739-754`), and
  `ResumeSession` leaves it standing (633-653): sessions at work or just resumed are listed.

Terminals and hosts:

- `HasUpdated` hashes the bytes as they lie (`pty/monitor.go:91`): output that repeats,
  place by place, what the full buffer held is not reported, though the content has
  shifted. And a prompt that stays in the tail is reported again with any later output.
- The snapshot and the subscription are two steps (`pty/websocket.go:81-90`), as are the
  reader's write to the monitor and its broadcast: a chunk in between comes twice or never.
- A viewer that subscribes after EOF has a channel nobody closes until a Kill
  (`pty/manager.go:44`, 166). A terminal that reconnects is sent the snapshot again on top
  of what it shows (`frontend/src/hooks/useTerminal.ts:93`).
- The reconnect loop installs its connection over one `GetClient` has made, and the
  loser stays open (`ssh/host_manager.go:169-177`); a Close under a keepalive starts such a
  loop for a connection nobody wants (`ssh/client.go:164-203`); its callback is registered late
  (174), so a loss before that starts no loop.
- `ReleaseClient` goes by host (`ssh/host_manager.go:103`): a reference taken from a
  lost entry is given back to its successor, which the idle timer may then close in use.
- `SetHostLastPath` reads a host in one critical section and writes it in another, so it
  undoes an `UpdateHost` in between (`app/bindings.go:1640`); `UpdateHost` forgets the last
  path (1043-1058); `DeleteHost` looks for active sessions first and acts later, and
  ignores the keychain's error (1060-1072), as CreateHost does its rollback's (1031).
- A secret stays in the keychain when UpdateHost or CreateHost races DeleteHost, and a
  torn `hosts.json` makes every later operation fail.

Worktrees:

- When the submodules cannot be listed after `git worktree add`, Setup returns an error
  (`session/git/worktree_ops.go:146-151`, 181-191); a Resume leaves the session paused with
  its directory there, so that the next one skips Setup (`session/instance.go:755-767`) and runs
  with submodules that are neither populated nor reported. An error without output, or a
  remote host that does not answer, passes for a repository without submodules.
- A branch the user makes after the session has chosen its name is deleted by Setup.
- Cleanup of a worktree removed by hand fails to delete its branch, because it prunes
  after (`session/git/worktree_ops.go:244`, 253).
- `RetrySubmoduleSetup` that races a Setup replaces its failures.
- Processes started after pgrep has looked survive the cleanup.

Indexer:

- A cached index of HEAD is adopted with the modification times of now: files edited
  before are stale until edited again (`app/indexer_treesitter.go:248`), and when the
  listing fails then (243) later deletions are not seen.
- A failed save still marks the files as indexed (442-453). When the tables cannot be
  loaded again the unchanged files are dropped (106, 285). A listing that fails spends
  the refresh (266).
- The references of a file without symbols are lost when another file is rebuilt (390).
- `Save` runs outside the lock and outlives a `Stop` (83-88, 442).
- A rename that is undone between two builds may bring back a modification time the
  index knows.
- Between the release of the tables and their reload a query can find none (157), and a
  query after Stop loads tables nobody releases (`app/mcp_server.go:165-171`).
- References are stored by the text of the callee: find_references and dead code miss
  `x.a()` when asked for `a` (`app/mcp_server.go:261`, `app/indexer_languages.go:340-363`).
- PageRank counts a repeated call twice and divides by callees once, so that ranks may
  exceed 1 (`app/indexer_callgraph.go:516`).
- A file whose name git quotes does not match `diffFilePattern` (`app/indexer_git.go:160`):
  its hunks go to the file before. And a line of a diff that is longer than 64 KB ends the
  parsing, unnoticed (170).
- The headers of the next file count as lines of the last hunk of the one before
  (`app/indexer_git.go:216`), and removed lines, numbered as they were, are compared with
  the new positions of symbols.
- The search index keeps one definition per file and name (`app/indexer_search.go:66-84`).
- A file that changed under the index gives other text without an error
  (`app/indexer_treesitter.go:638`).

state.json and the frontend, read and not modelled:

- `state.json` is written in place (`config/state.go:106`); a torn one is taken for an
  empty state, which the next save makes final. The daemon would save the copy it read at
  its start (`daemon/daemon.go:88`).
- Answers of two polls may overtake each other (`frontend/src/store/sessionStore.ts:193`).

## What is not modelled

- In the modelled parts: Claude's conversation ids, queries about diffs, files and
  directories, resizing, the start and stop of the WebSocket and MCP servers, stripping of
  escape sequences, two writers of `IdleSince` interleaving inside one scan, a remote
  process that survives the end of the application, sessions on an existing branch,
  repositories on another host, the process group and `WaitDelay` of a killed command,
  index_status and the MCP handlers no tool names.
- Of the indexer: the grammars and queries of the languages, how a name is found in a
  node, ranking by BM25, risk scores and confidences, lines longer than the scanner
  takes, and the ctags `SessionIndexer`, which no setting chooses.
- The steps of the in-place write of `state.json`, but for the file it may leave cut short,
  and the daemon, a second writer that is never started.
- The frontend: it shows what the modelled API answers, and promises nothing about the
  order of its answers.
- Rendering, forms, parsing of git output for display, the inside of the search library, configuration, logging,
  the benchmark harness.

## Plan

1. Done: the modules and theorems above.
2. Worth modelling next: sessions on a branch that exists, remote processes that outlive
   the application.
