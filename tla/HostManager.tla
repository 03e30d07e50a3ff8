---------------------------- MODULE HostManager -----------------------------
(***************************************************************************)
(* The SSH connection of one host (ssh/host_manager.go, ssh/client.go),    *)
(* the process manager behind it (ssh/process_manager.go), and the calls   *)
(* of app/bindings.go that share them: sessions on the host, and short     *)
(* calls that take the connection and give it back.                        *)
(*                                                                         *)
(* A managedClient, its process manager and its idle timer are one Entry;  *)
(* a process is named by the number the manager's counter gave it.         *)
(***************************************************************************)
EXTENDS Integers, FiniteSets

CONSTANTS
  Sessions,  \* sessions on the host
  Users,     \* short calls in flight at once
  Entries,   \* managedClient objects: at most this many are ever made
  Conns,     \* connections: at most this many are ever made
  MaxPid,    \* bound: processes one manager starts
  MaxRefs,   \* bound: references to one client
  None

ASSUME ConstantsAssumption ==
  /\ MaxPid \in Nat /\ MaxRefs \in Nat
  /\ IsFiniteSet(Users)
  /\ None \notin Sessions \cup Users \cup Entries \cup Conns

Pids == 1..MaxPid

VARIABLES
  entry,    \* HostManager.clients[host]
  made,     \* managedClients made so far
  client,   \* their client; the process manager's is the same
  refs,     \* their refCount
  timer,    \* those whose idle timer is armed or fires
  counter,  \* the counter of their process manager
  procs,    \* its sessions: the owner and connection of each, and its life
  conn,     \* the life of a connection
  watched,  \* connections whose keepaliveLoop runs
  callback, \* connections with an onDisconnect
  loop,     \* the reconnectLoop a lost connection left
  inst,     \* the remote instances
  open,     \* the CreateSession or OpenSession under way, under api.mu
  user,     \* the short calls
  short     \* history: entries that lost a reference nobody gave them

hostVars == <<entry, made, client, refs, timer>>
procVars == <<counter, procs>>
connVars == <<conn, watched, callback, loop>>
vars == <<hostVars, procVars, connVars, inst, open, user, short>>

NoProc == [owner |-> None, conn |-> None, live |-> FALSE]
NoLoop == [pc |-> "none", next |-> None]
NoInst == [status |-> "none", pm |-> None, home |-> None, pid |-> 0]
NoOpen == [pc |-> "none", session |-> None]
NoUser == [entry |-> None, conn |-> None]

Init ==
  /\ entry = None /\ made = {}
  /\ client = [e \in Entries |-> None]
  /\ refs = [e \in Entries |-> 0]
  /\ timer = {}
  /\ counter = [e \in Entries |-> 0]
  /\ procs = [e \in Entries |-> [n \in Pids |-> NoProc]]
  /\ conn = [k \in Conns |-> "unused"]
  /\ watched = {} /\ callback = {}
  /\ loop = [k \in Conns |-> NoLoop]
  /\ inst = [s \in Sessions |-> NoInst]
  /\ open = NoOpen
  /\ user = [u \in Users |-> NoUser]
  /\ short = {}

-----------------------------------------------------------------------------
\* Client.Connected: a connection that broke counts until a keepalive fails.
Connected(k) == conn[k] \in {"up", "broken"}

\* The host has an entry with a connected client.
Usable == IF entry = None THEN FALSE ELSE Connected(client[entry])

\* GetClient gives one more reference to a connected client.  Timer.Stop may
\* come too late, and stops only the timer armed last.
Reused ==
  /\ Usable /\ refs[entry] < MaxRefs
  /\ refs' = [refs EXCEPT ![entry] = @ + 1]
  /\ timer' \in {timer, timer \ {entry}}
  /\ UNCHANGED <<entry, made, client, conn, watched, callback>>

\* Otherwise it makes a new entry for a new connection, with a new process
\* manager, in place of the dead one.
Renewed ==
  /\ ~Usable
  /\ \E e \in Entries \ made, k \in Conns :
       /\ conn[k] = "unused"
       /\ conn' = [conn EXCEPT ![k] = "up"]
       /\ watched' = watched \cup {k}
       /\ callback' = callback \cup {k}
       /\ entry' = e
       /\ made' = made \cup {e}
       /\ client' = [client EXCEPT ![e] = k]
       /\ refs' = [refs EXCEPT ![e] = 1]
  /\ UNCHANGED timer

GetClient == Reused \/ Renewed

\* ... or it fails: the dead entry is gone by then.
GetClientFails ==
  /\ ~Usable
  /\ entry' = None
  /\ UNCHANGED <<made, client, refs, timer, conn, watched, callback>>

-----------------------------------------------------------------------------
\* A short call (ListRemoteDir, CheckRemoteGitRepo, ...) takes the client.
UserGets(u) ==
  /\ user[u] = NoUser
  /\ GetClient
  /\ user' = [user EXCEPT ![u] = [entry |-> entry', conn |-> client'[entry']]]
  /\ UNCHANGED <<procVars, loop, inst, open, short>>

UserFails(u) ==
  /\ user[u] = NoUser
  /\ GetClientFails
  /\ UNCHANGED <<procVars, loop, inst, open, user, short>>

\* ... and gives it back with ReleaseClient, to the entry that is there now.
UserReleases(u) ==
  /\ user[u] # NoUser
  /\ user' = [user EXCEPT ![u] = NoUser]
  /\ IF entry = None
     THEN UNCHANGED <<refs, timer, short>>
     ELSE /\ refs' = [refs EXCEPT ![entry] = @ - 1]
          /\ timer' = IF refs'[entry] <= 0 THEN timer \cup {entry} ELSE timer
          /\ short' = IF entry = user[u].entry THEN short ELSE short \cup {entry}
  /\ UNCHANGED <<entry, made, client, procVars, connVars, inst, open>>

\* The processes of connection k end with it.
EndedWith(k) ==
  [e \in Entries |-> [n \in Pids |->
     IF procs[e][n].conn = k THEN [procs[e][n] EXCEPT !.live = FALSE] ELSE procs[e][n]]]

\* Mutant of IdleTimer: references taken since are not looked at.
IdleTimerUnchecked(e) ==
  /\ e \in timer
  /\ timer' = timer \ {e}
  /\ IF entry = e
     THEN /\ conn' = [conn EXCEPT ![client[e]] = "closed"]
          /\ procs' = EndedWith(client[e])
          /\ entry' = None
     ELSE UNCHANGED <<conn, procs, entry>>
  /\ UNCHANGED <<made, client, refs, counter, watched, callback, loop, inst, open, user, short>>

\* The idle timer of e: it looks again under the lock.
IdleTimer(e) ==
  /\ e \in timer
  /\ timer' = timer \ {e}
  /\ IF entry = e /\ refs[e] <= 0
     THEN /\ conn' = [conn EXCEPT ![client[e]] = "closed"]
          /\ procs' = EndedWith(client[e])
          /\ entry' = None
     ELSE UNCHANGED <<conn, procs, entry>>
  /\ UNCHANGED <<made, client, refs, counter, watched, callback, loop, inst, open, user, short>>

-----------------------------------------------------------------------------
\* A connection breaks, and its processes end; then a keepalive notices.
Breaks(k) ==
  /\ conn[k] = "up"
  /\ conn' = [conn EXCEPT ![k] = "broken"]
  /\ procs' = EndedWith(k)
  /\ UNCHANGED <<hostVars, counter, watched, callback, loop, inst, open, user, short>>

\* keepaliveLoop ends with a keepalive that fails, on a connection that broke
\* or that Close closed under it, and calls onDisconnect, if it is set, which
\* starts the loop ...
KeepaliveFails(k) ==
  /\ k \in watched
  /\ conn[k] \in {"broken", "closed"}
  /\ watched' = watched \ {k}
  /\ conn' = [conn EXCEPT ![k] = IF @ = "broken" THEN "down" ELSE @]
  /\ loop' = IF k \in callback THEN [loop EXCEPT ![k].pc = "sleeping"] ELSE loop
  /\ UNCHANGED <<hostVars, procVars, callback, inst, open, user, short>>

\* ... or because Close closes its channel.
KeepaliveStops(k) ==
  /\ k \in watched
  /\ conn[k] = "closed"
  /\ watched' = watched \ {k}
  /\ UNCHANGED <<hostVars, procVars, conn, callback, loop, inst, open, user, short>>

\* reconnectLoop ends: the host has no entry, or five minutes have passed.
LoopEnds(k) ==
  /\ loop[k].pc = "sleeping"
  /\ loop' = [loop EXCEPT ![k] = NoLoop]
  /\ UNCHANGED <<hostVars, procVars, conn, watched, callback, inst, open, user, short>>

\* It connects, without a callback on the new client ...
LoopConnects(k) ==
  /\ loop[k].pc = "sleeping"
  /\ entry # None
  /\ \E n \in Conns :
       /\ conn[n] = "unused"
       /\ conn' = [conn EXCEPT ![n] = "up"]
       /\ watched' = watched \cup {n}
       /\ loop' = [loop EXCEPT ![k] = [pc |-> "connected", next |-> n]]
  /\ UNCHANGED <<hostVars, procVars, callback, inst, open, user, short>>

\* Mutant of LoopInstalls: the entry gets a new process manager, whose
\* counter starts again.
LoopInstallsManager(k) ==
  /\ loop[k].pc = "connected"
  /\ loop' = [loop EXCEPT ![k] = NoLoop]
  /\ IF entry = None
     THEN UNCHANGED <<client, callback, counter>>
     ELSE /\ client' = [client EXCEPT ![entry] = loop[k].next]
          /\ callback' = callback \cup {loop[k].next}
          /\ counter' = [counter EXCEPT ![entry] = 0]
  /\ UNCHANGED <<entry, made, refs, timer, procs, conn, watched, inst, open, user, short>>

\* ... and installs it in the entry that is there by now, if any; the entry
\* keeps its process manager.
LoopInstalls(k) ==
  /\ loop[k].pc = "connected"
  /\ loop' = [loop EXCEPT ![k] = NoLoop]
  /\ IF entry = None
     THEN UNCHANGED <<client, callback>>
     ELSE /\ client' = [client EXCEPT ![entry] = loop[k].next]
          /\ callback' = callback \cup {loop[k].next}
  /\ UNCHANGED <<entry, made, refs, timer, procVars, conn, watched, inst, open, user, short>>

-----------------------------------------------------------------------------
\* SSHProcessManager.Spawn on manager e for s, over its present connection.
Spawns(e, s) ==
  LET n == counter[e] + 1
      k == client[e] IN
  /\ conn[k] = "up"
  /\ n \in Pids
  /\ counter' = [counter EXCEPT ![e] = n]
  /\ procs' = [procs EXCEPT ![e][n] = [owner |-> s, conn |-> k, live |-> TRUE]]
  /\ inst' = [inst EXCEPT ![s] = [status |-> "running", pm |-> e, home |-> e, pid |-> n]]

\* SSHProcessManager.Kill of the process i names, in the manager it has.
Killed(i) ==
  IF i.pid = 0 THEN procs ELSE [procs EXCEPT ![i.pm][i.pid] = NoProc]

\* CreateSession and OpenSession take a reference, which nobody gives back ...
OpenGets(s) ==
  /\ open = NoOpen
  /\ GetClient
  /\ open' = [pc |-> "got", session |-> s]
  /\ UNCHANGED <<procVars, loop, inst, user, short>>

OpenFails(s) ==
  /\ open = NoOpen
  /\ GetClientFails
  /\ UNCHANGED <<procVars, loop, inst, open, user, short>>

\* ... then ask for the process manager, which may be gone.
NoManager ==
  /\ open.pc = "got"
  /\ entry = None
  /\ open' = NoOpen
  /\ UNCHANGED <<hostVars, procVars, connVars, inst, user, short>>

Creates ==
  LET s == open.session IN
  /\ open.pc = "got" /\ entry # None
  /\ inst[s].status = "none"
  /\ inst' = [inst EXCEPT ![s] = [NoInst EXCEPT !.status = "ready", !.pm = entry]]
  /\ open' = NoOpen
  /\ UNCHANGED <<hostVars, procVars, connVars, user, short>>

\* WaitExit of the instance's process number, in the manager e: a number the
\* manager does not have has exited.
Exited(e, n) == ~procs[e][n].live

\* OpenSession of an instance that runs, in the eyes of WaitExit.
OpensRunning ==
  LET s == open.session
      i == [inst[s] EXCEPT !.pm = entry] IN
  /\ open.pc = "got" /\ entry # None
  /\ \/ i.status = "ready"
     \/ i.status = "running" /\ ~Exited(i.pm, i.pid)
  /\ inst' = [inst EXCEPT ![s] = i]
  /\ open' = NoOpen
  /\ UNCHANGED <<hostVars, procVars, connVars, user, short>>

\* OpenSession of a paused one, or of one whose process is found dead:
\* ForcePause, and Resume, which may fail.
OpensDead ==
  LET s == open.session IN
  /\ open.pc = "got" /\ entry # None
  /\ \/ inst[s].status = "paused"
     \/ inst[s].status = "running" /\ Exited(entry, inst[s].pid)
  /\ \/ Spawns(entry, s)
     \/ /\ inst' = [inst EXCEPT ![s] = [NoInst EXCEPT !.status = "paused", !.pm = entry]]
        /\ UNCHANGED procVars
  /\ open' = NoOpen
  /\ UNCHANGED <<hostVars, connVars, user, short>>

\* StartSession spawns on the manager the instance was created with; an
\* instance that fails to start is dropped.
Starts(s) ==
  /\ inst[s].status = "ready"
  /\ \/ Spawns(inst[s].pm, s)
     \/ inst' = [inst EXCEPT ![s] = NoInst] /\ UNCHANGED procVars
  /\ UNCHANGED <<hostVars, connVars, open, user, short>>

\* Mutant of Pauses: the instance keeps its process number.
PausesKeepsPid(s) ==
  /\ open = NoOpen
  /\ inst[s].status = "running"
  /\ procs' = Killed(inst[s])
  /\ inst' = [inst EXCEPT ![s].status = "paused"]
  /\ UNCHANGED <<hostVars, counter, connVars, open, user, short>>

\* PauseSession and KillSession; neither releases the client.
Pauses(s) ==
  /\ open = NoOpen
  /\ inst[s].status = "running"
  /\ procs' = Killed(inst[s])
  /\ inst' = [inst EXCEPT ![s] = [NoInst EXCEPT !.status = "paused", !.pm = inst[s].pm]]
  /\ UNCHANGED <<hostVars, counter, connVars, open, user, short>>

Kills(s) ==
  /\ open = NoOpen
  /\ inst[s].status # "none"
  /\ procs' = Killed(inst[s])
  /\ inst' = [inst EXCEPT ![s] = NoInst]
  /\ UNCHANGED <<hostVars, counter, connVars, open, user, short>>

\* A program exits by itself.
ProgramExits(e, n) ==
  /\ procs[e][n].live
  /\ procs' = [procs EXCEPT ![e][n].live = FALSE]
  /\ UNCHANGED <<hostVars, counter, connVars, inst, open, user, short>>

Next ==
  \/ \E u \in Users : UserGets(u) \/ UserFails(u) \/ UserReleases(u)
  \/ \E e \in Entries : IdleTimer(e)
  \/ \E k \in Conns :
       \/ Breaks(k) \/ KeepaliveFails(k) \/ KeepaliveStops(k)
       \/ LoopEnds(k) \/ LoopConnects(k) \/ LoopInstalls(k)
  \/ \E s \in Sessions : OpenGets(s) \/ OpenFails(s) \/ Starts(s) \/ Pauses(s) \/ Kills(s)
  \/ NoManager \/ Creates \/ OpensRunning \/ OpensDead
  \/ \E e \in Entries, n \in Pids : ProgramExits(e, n)

Spec == Init /\ [][Next]_vars

-----------------------------------------------------------------------------
(***************************************************************************)
(* Properties.                                                             *)
(***************************************************************************)

\* The types of the state; the entry in the map is one that was made, has a
\* connection that was made; a running instance names a process.
TypeOK ==
  /\ entry \in made \cup {None}
  /\ made \subseteq Entries
  /\ client \in [Entries -> Conns \cup {None}]
  /\ \A e \in made : client[e] # None /\ conn[client[e]] # "unused"
  /\ refs \in [Entries -> Int]
  /\ timer \subseteq made
  /\ counter \in [Entries -> 0..MaxPid]
  /\ procs \in [Entries -> [Pids -> [owner : Sessions \cup {None}, conn : Conns \cup {None},
                                     live : BOOLEAN]]]
  /\ conn \in [Conns -> {"unused", "up", "broken", "down", "closed"}]
  /\ watched \subseteq Conns
  /\ callback \subseteq Conns
  /\ loop \in [Conns -> [pc : {"none", "sleeping", "connected"}, next : Conns \cup {None}]]
  /\ \A k \in Conns : loop[k].pc = "connected" <=> loop[k].next # None
  /\ inst \in [Sessions -> [status : {"none", "ready", "running", "paused"},
                            pm : made \cup {None}, home : made \cup {None}, pid : 0..MaxPid]]
  /\ \A s \in Sessions :
       /\ inst[s].status = "none" <=> inst[s].pm = None
       /\ inst[s].status = "running" <=> inst[s].home # None
       /\ inst[s].status = "running" <=> inst[s].pid # 0
  /\ open \in [pc : {"none", "got"}, session : Sessions \cup {None}]
  /\ open.pc = "got" <=> open.session # None
  /\ user \in [Users -> [entry : made \cup {None}, conn : Conns \cup {None}]]
  /\ \A u \in Users : user[u].entry = None <=> user[u].conn = None
  /\ short \subseteq made

\* In the process manager that started it, a session's process number names
\* its own process or none, through every reconnect: the loop changes the
\* client and keeps the manager with its counter.
OwnProcess ==
  \A s \in Sessions :
    inst[s].status = "running" /\ inst[s].pm = inst[s].home =>
      procs[inst[s].pm][inst[s].pid].owner \in {s, None}

\* The idle timer never closes the connection under a call that holds it,
\* whichever calls come and go while it runs, provided no reference of its
\* entry was given back by a call that had it from another one: ReleaseClient
\* goes by host, not by entry, and such entries are `short` of a reference.
HeldStaysOpen ==
  \A u \in Users :
    user[u] # NoUser /\ user[u].entry \notin short => conn[user[u].conn] # "closed"
=============================================================================
