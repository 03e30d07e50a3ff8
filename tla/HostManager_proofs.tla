------------------------- MODULE HostManager_proofs -------------------------
(***************************************************************************)
(* For any sessions, calls, connections and bounds: the types of the       *)
(* state; that a session's process number never comes to name another      *)
(* session's process in the manager that started it; and that an idle      *)
(* timer closes no connection under a call that holds it.                  *)
(***************************************************************************)
EXTENDS HostManager, FiniteSetTheorems, TLAPS

-----------------------------------------------------------------------------
(***************************************************************************)
(* TypeOK in parts that the steps leave alone together.  It is not         *)
(* inductive: the connection a reconnect loop installs must have been made.*)
(***************************************************************************)
Process == [owner : Sessions \cup {None}, conn : Conns \cup {None}, live : BOOLEAN]
Instance == [status : {"none", "ready", "running", "paused"},
             pm : made \cup {None}, home : made \cup {None}, pid : 0..MaxPid]

HostInv ==
  /\ entry \in made \cup {None} /\ made \subseteq Entries
  /\ client \in [Entries -> Conns \cup {None}]
  /\ refs \in [Entries -> Int] /\ timer \subseteq made

ConnInv ==
  /\ conn \in [Conns -> {"unused", "up", "broken", "down", "closed"}]
  /\ callback \subseteq Conns
  /\ loop \in [Conns -> [pc : {"none", "sleeping", "connected"}, next : Conns \cup {None}]]
  /\ \A k \in Conns : loop[k].pc = "connected" <=> loop[k].next # None
  /\ watched \subseteq Conns
  /\ \A k \in Conns : loop[k].pc # "none" => k \notin watched /\ conn[k] # "unused"

\* Whatever connection is in use has been made.
MadeInv ==
  /\ \A e \in made : client[e] # None /\ conn[client[e]] # "unused"
  /\ \A k \in Conns : loop[k].next # None => conn[loop[k].next] # "unused"

ProcInv ==
  /\ counter \in [Entries -> 0..MaxPid]
  /\ procs \in [Entries -> [Pids -> Process]]

InstInv ==
  /\ inst \in [Sessions -> Instance]
  /\ \A s \in Sessions :
       /\ inst[s].status = "none" <=> inst[s].pm = None
       /\ inst[s].status = "running" <=> inst[s].home # None
       /\ inst[s].status = "running" <=> inst[s].pid # 0

CallInv ==
  /\ open \in [pc : {"none", "got"}, session : Sessions \cup {None}]
  /\ open.pc = "got" <=> open.session # None
  /\ user \in [Users -> [entry : made \cup {None}, conn : Conns \cup {None}]]
  /\ \A u \in Users : user[u].entry = None <=> user[u].conn = None
  /\ short \subseteq made

TypeInv == HostInv /\ ConnInv /\ MadeInv /\ ProcInv /\ InstInv /\ CallInv

LEMMA TypeInvImplies == TypeInv => TypeOK
  BY DEF TypeInv, HostInv, ConnInv, MadeInv, ProcInv, InstInv, CallInv, TypeOK, Process, Instance

LEMMA InitTypes == Init => TypeInv
<1> USE ConstantsAssumption DEF Init
<1>1. Init => HostInv /\ CallInv
  BY DEF HostInv, CallInv, NoOpen, NoUser
<1>2. Init => ConnInv /\ MadeInv
  BY DEF ConnInv, MadeInv, NoLoop
<1>3. Init => ProcInv
  BY DEF ProcInv, Process, NoProc, Pids
<1>4. Init => InstInv
  BY DEF InstInv, Instance, NoInst
<1> QED
  BY <1>1, <1>2, <1>3, <1>4 DEF TypeInv

-----------------------------------------------------------------------------
\* GetClient ends with an entry that was made and has a connection that was.
LEMMA GetClientTypes ==
  ASSUME TypeInv, GetClient, loop' = loop
  PROVE  /\ HostInv' /\ ConnInv' /\ MadeInv' /\ made \subseteq made'
         /\ entry' \in made' /\ client'[entry'] \in Conns
<1> USE ConstantsAssumption
<1>1. CASE Reused
  BY <1>1 DEF Reused, Usable, TypeInv, HostInv, ConnInv, MadeInv
<1>2. CASE Renewed
  <2> PICK e \in Entries \ made, k \in Conns :
         /\ conn[k] = "unused"
         /\ conn' = [conn EXCEPT ![k] = "up"]
         /\ watched' = watched \cup {k}
         /\ callback' = callback \cup {k}
         /\ entry' = e
         /\ made' = made \cup {e}
         /\ client' = [client EXCEPT ![e] = k]
         /\ refs' = [refs EXCEPT ![e] = 1]
         /\ timer' = timer
    BY <1>2 DEF Renewed
  <2>0. loop[k].pc = "none"
    BY DEF TypeInv, ConnInv
  <2>1. HostInv' /\ made \subseteq made' /\ entry' \in made' /\ client'[entry'] = k
    BY DEF TypeInv, HostInv
  <2>3. ConnInv'
    BY <2>0 DEF TypeInv, ConnInv
  <2>2. MadeInv'
    BY <2>1 DEF TypeInv, HostInv, ConnInv, MadeInv
  <2> QED
    BY <2>1, <2>2, <2>3
<1> QED
  BY <1>1, <1>2 DEF GetClient

\* The values of other variables keep their types when entries are made.
LEMMA MoreMade ==
  ASSUME InstInv, CallInv, made \subseteq made'
  PROVE  /\ UNCHANGED inst => InstInv'
         /\ UNCHANGED <<open, user, short>> => CallInv'
<1>1. Instance \subseteq Instance'
  BY DEF Instance
<1>2. UNCHANGED inst => InstInv'
  BY <1>1 DEF InstInv
<1>3. UNCHANGED <<open, user, short>> => CallInv'
  BY DEF CallInv
<1> QED
  BY <1>2, <1>3

LEMMA GetClientFailsTypes ==
  ASSUME TypeInv, GetClientFails, UNCHANGED <<procVars, loop, inst, open, user, short>>
  PROVE  TypeInv'
<1> USE DEF GetClientFails, procVars, TypeInv
<1>1. HostInv' /\ ConnInv' /\ MadeInv' /\ ProcInv'
  BY DEF HostInv, ConnInv, MadeInv, ProcInv, Process
<1>2. InstInv' /\ CallInv'
  BY DEF InstInv, Instance, CallInv
<1> QED
  BY <1>1, <1>2

LEMMA EndedWithTypes ==
  ASSUME ProcInv, NEW k \in Conns
  PROVE  EndedWith(k) \in [Entries -> [Pids -> Process]]
<1>1. ASSUME NEW p \in Process PROVE [p EXCEPT !.live = FALSE] \in Process
  BY DEF Process
<1> DEFINE f(p) == IF p.conn = k THEN [p EXCEPT !.live = FALSE] ELSE p
<1>2. ASSUME NEW p \in Process PROVE f(p) \in Process
  BY <1>1
<1> HIDE DEF f
<1>3. [e \in Entries |-> [n \in Pids |-> f(procs[e][n])]] \in [Entries -> [Pids -> Process]]
  BY <1>2 DEF ProcInv
<1> QED
  BY <1>3 DEF EndedWith, f

LEMMA KilledTypes ==
  ASSUME TypeInv, NEW s \in Sessions
  PROVE  Killed(inst[s]) \in [Entries -> [Pids -> Process]]
<1> USE ConstantsAssumption
<1>1. NoProc \in Process
  BY DEF NoProc, Process
<1>2. inst[s] \in Instance
  BY DEF TypeInv, InstInv
<1>3. CASE inst[s].pid # 0
  <2>1. inst[s].pm \in Entries /\ inst[s].pid \in Pids
    BY <1>2, <1>3 DEF TypeInv, InstInv, HostInv, Instance, Pids
  <2> QED
    BY <1>1, <1>3, <2>1 DEF Killed, TypeInv, ProcInv
<1> QED
  BY <1>3 DEF Killed, TypeInv, ProcInv

\* Spawn uses the next number of the manager, and gives the instance a
\* process of its own.
LEMMA SpawnsTypes ==
  ASSUME TypeInv, NEW e \in made, NEW s \in Sessions, Spawns(e, s), UNCHANGED made
  PROVE  ProcInv' /\ InstInv'
<1> USE ConstantsAssumption
<1> DEFINE n == counter[e] + 1
           p == [owner |-> s, conn |-> client[e], live |-> TRUE]
           i == [status |-> "running", pm |-> e, home |-> e, pid |-> n]
<1>1. e \in Entries /\ client[e] \in Conns /\ n \in Pids /\ n # 0 /\ n \in 0..MaxPid
  BY DEF Spawns, TypeInv, HostInv, MadeInv, ProcInv, Pids
<1>2. p \in Process /\ i \in Instance
  BY <1>1 DEF Process, Instance
<1>3. /\ counter' = [counter EXCEPT ![e] = n]
      /\ procs' = [procs EXCEPT ![e] = [procs[e] EXCEPT ![n] = p]]
      /\ inst' = [inst EXCEPT ![s] = i]
  BY DEF Spawns
<1> HIDE DEF n, p, i
<1>4. ProcInv'
  BY <1>1, <1>2, <1>3 DEF TypeInv, ProcInv, Process
<1>5. InstInv'
  <2>1. inst' \in [Sessions -> Instance'] 
    BY <1>2, <1>3 DEF TypeInv, InstInv, Instance
  <2>2. i.status = "running" /\ i.pm # None /\ i.home # None /\ i.pid # 0
    BY <1>1 DEF i
  <2> QED
    BY <1>3, <2>1, <2>2 DEF TypeInv, InstInv
<1> QED
  BY <1>4, <1>5

-----------------------------------------------------------------------------
LEMMA UserGetsTypes ==
  ASSUME TypeInv, NEW u \in Users, UserGets(u)
  PROVE  TypeInv'
<1> USE ConstantsAssumption
<1>1. /\ HostInv' /\ ConnInv' /\ MadeInv' /\ made \subseteq made'
      /\ entry' \in made' /\ client'[entry'] \in Conns
  BY GetClientTypes DEF UserGets
<1>2. ProcInv' /\ InstInv'
  BY <1>1, MoreMade DEF UserGets, TypeInv, ProcInv, Process, procVars
<1>3. CallInv'
  <2>1. entry' # None /\ client'[entry'] # None
    BY <1>1 DEF HostInv
  <2> QED
    BY <1>1, <2>1 DEF UserGets, TypeInv, CallInv
<1> QED
  BY <1>1, <1>2, <1>3 DEF TypeInv

LEMMA OpenGetsTypes ==
  ASSUME TypeInv, NEW s \in Sessions, OpenGets(s)
  PROVE  TypeInv'
<1> USE ConstantsAssumption
<1>1. HostInv' /\ ConnInv' /\ MadeInv' /\ made \subseteq made'
  BY GetClientTypes DEF OpenGets
<1>2. ProcInv' /\ InstInv'
  BY <1>1, MoreMade DEF OpenGets, TypeInv, ProcInv, Process, procVars
<1>3. CallInv'
  BY <1>1 DEF OpenGets, TypeInv, CallInv
<1> QED
  BY <1>1, <1>2, <1>3 DEF TypeInv

LEMMA UserReleasesTypes ==
  ASSUME TypeInv, NEW u \in Users, UserReleases(u)
  PROVE  TypeInv'
<1> USE ConstantsAssumption DEF UserReleases
<1>1. CallInv'
  BY DEF TypeInv, HostInv, CallInv, NoUser
<1>2. HostInv'
  BY DEF TypeInv, HostInv
<1>3. ConnInv' /\ MadeInv' /\ ProcInv' /\ InstInv'
  BY DEF TypeInv, ConnInv, MadeInv, ProcInv, Process, InstInv, Instance, procVars, connVars
<1> QED
  BY <1>1, <1>2, <1>3 DEF TypeInv

LEMMA ConnStepTypes ==
  ASSUME TypeInv,
         \/ \E e \in Entries : IdleTimer(e)
         \/ \E k \in Conns : Breaks(k) \/ KeepaliveFails(k) \/ KeepaliveStops(k) \/ LoopEnds(k) \/ LoopConnects(k) \/ LoopInstalls(k)
  PROVE  TypeInv'
<1> USE ConstantsAssumption
<1>1. ASSUME NEW e \in Entries, IdleTimer(e) PROVE TypeInv'
  <2> USE <1>1 DEF IdleTimer
  <2>1. CASE entry = e /\ refs[e] <= 0
    <3>1. client[e] \in Conns
      BY <2>1 DEF TypeInv, HostInv, MadeInv
    <3>2. HostInv' /\ ConnInv' /\ MadeInv'
      BY <2>1, <3>1 DEF TypeInv, HostInv, ConnInv, MadeInv
    <3>3. ProcInv'
      BY <2>1, <3>1, EndedWithTypes DEF TypeInv, ProcInv, Process
    <3>4. InstInv' /\ CallInv'
      BY DEF TypeInv, InstInv, Instance, CallInv
    <3> QED
      BY <3>2, <3>3, <3>4 DEF TypeInv
  <2>2. CASE ~(entry = e /\ refs[e] <= 0)
    BY <2>2 DEF TypeInv, HostInv, ConnInv, MadeInv, ProcInv, Process, InstInv, Instance, CallInv
  <2> QED
    BY <2>1, <2>2
<1>2. ASSUME NEW k \in Conns, Breaks(k) PROVE TypeInv'
  <2> USE <1>2 DEF Breaks
  <2>1. HostInv' /\ ConnInv' /\ MadeInv' /\ InstInv' /\ CallInv'
    BY DEF TypeInv, HostInv, ConnInv, MadeInv, InstInv, Instance, CallInv, hostVars
  <2>2. ProcInv'
    BY EndedWithTypes DEF TypeInv, ProcInv, Process
  <2> QED
    BY <2>1, <2>2 DEF TypeInv
<1>3. ASSUME NEW k \in Conns, KeepaliveFails(k) \/ KeepaliveStops(k) \/ LoopEnds(k) \/ LoopConnects(k) \/ LoopInstalls(k)
      PROVE  ProcInv' /\ InstInv' /\ CallInv'
  BY <1>3 DEF TypeInv, ProcInv, Process, InstInv, Instance, CallInv, KeepaliveFails, KeepaliveStops, LoopEnds,
     LoopConnects, LoopInstalls, hostVars, procVars
<1>4. ASSUME NEW k \in Conns, KeepaliveFails(k) PROVE HostInv' /\ ConnInv' /\ MadeInv'
  <2>1. ConnInv'
    <3>1. loop[k].pc = "none" /\ loop[k].next = None
      BY <1>4 DEF TypeInv, ConnInv, KeepaliveFails
    <3> QED
      BY <1>4, <3>1 DEF TypeInv, ConnInv, KeepaliveFails
  <2> QED
    BY <1>4, <2>1 DEF TypeInv, HostInv, ConnInv, MadeInv, KeepaliveFails, hostVars
<1>5. ASSUME NEW k \in Conns, KeepaliveStops(k) \/ LoopEnds(k) PROVE HostInv' /\ ConnInv' /\ MadeInv'
  BY <1>5 DEF TypeInv, HostInv, ConnInv, MadeInv, KeepaliveStops, LoopEnds, NoLoop, hostVars
<1>6. ASSUME NEW k \in Conns, LoopConnects(k) PROVE HostInv' /\ ConnInv' /\ MadeInv'
  BY <1>6 DEF TypeInv, HostInv, ConnInv, MadeInv, LoopConnects, hostVars
<1>7. ASSUME NEW k \in Conns, LoopInstalls(k) PROVE HostInv' /\ ConnInv' /\ MadeInv'
  BY <1>7 DEF TypeInv, HostInv, ConnInv, MadeInv, LoopInstalls, NoLoop
<1> QED
  BY <1>1, <1>2, <1>3, <1>4, <1>5, <1>6, <1>7 DEF TypeInv

LEMMA NoManagerTypes ==
  ASSUME TypeInv, NoManager
  PROVE  TypeInv'
  BY DEF NoManager, NoOpen, TypeInv, HostInv, ConnInv, MadeInv, ProcInv, Process, InstInv, Instance,
     CallInv, hostVars, procVars, connVars

\* An instance that runs and one that does not keep the types of inst.
LEMMA InstanceTypes ==
  ASSUME TypeInv, UNCHANGED made, NEW s \in Sessions, NEW i \in Instance,
         inst' = [inst EXCEPT ![s] = i],
         i.status = "none" <=> i.pm = None,
         i.status = "running" <=> i.home # None,
         i.status = "running" <=> i.pid # 0
  PROVE  InstInv'
<1>1. inst' \in [Sessions -> Instance']
  BY DEF TypeInv, InstInv, Instance
<1> QED
  BY <1>1 DEF TypeInv, InstInv

\* ... and so do those with no process.
LEMMA IdleInstanceTypes ==
  ASSUME TypeInv, UNCHANGED made, NEW s \in Sessions, NEW e \in made, NEW st \in {"ready", "paused"},
         \/ inst' = [inst EXCEPT ![s] = NoInst]
         \/ inst' = [inst EXCEPT ![s] = [NoInst EXCEPT !.status = st, !.pm = e]]
  PROVE  InstInv'
<1> USE ConstantsAssumption
<1> DEFINE i == [NoInst EXCEPT !.status = st, !.pm = e]
<1>1. e # None /\ None \notin made
  BY DEF TypeInv, HostInv
<1>2. NoInst \in Instance
  BY DEF NoInst, Instance
<1>3. i \in Instance /\ i.status = st /\ i.pm = e /\ i.home = None /\ i.pid = 0
  BY <1>2 DEF NoInst, Instance
<1>4. CASE inst' = [inst EXCEPT ![s] = NoInst]
  BY <1>2, <1>4, InstanceTypes DEF NoInst
<1>5. CASE inst' = [inst EXCEPT ![s] = i]
  <2> HIDE DEF i
  <2> QED
    BY <1>1, <1>3, <1>5, InstanceTypes
<1> QED
  BY <1>4, <1>5

\* The steps of the sessions change their instances, the processes, and the
\* call under way.
LEMMA SessionStepTypes ==
  ASSUME TypeInv, UNCHANGED <<hostVars, connVars, user, short>>,
         ProcInv', InstInv', open' \in {open, NoOpen}
  PROVE  TypeInv'
<1>1. HostInv' /\ ConnInv' /\ MadeInv'
  BY DEF TypeInv, HostInv, ConnInv, MadeInv, hostVars, connVars
<1>2. CallInv'
  BY DEF TypeInv, HostInv, CallInv, NoOpen, hostVars
<1> QED
  BY <1>1, <1>2 DEF TypeInv

LEMMA OpensTypes ==
  ASSUME TypeInv, Creates \/ OpensRunning \/ OpensDead
  PROVE  TypeInv'
<1> USE ConstantsAssumption
<1>0. entry \in made /\ open.session \in Sessions
  BY DEF Creates, OpensRunning, OpensDead, TypeInv, HostInv, CallInv
<1>1. CASE Creates
  <2>1. InstInv'
    BY <1>0, <1>1, IdleInstanceTypes DEF Creates, hostVars
  <2> QED
    BY <1>1, <2>1, SessionStepTypes DEF Creates, procVars, TypeInv, ProcInv, Process
<1>2. CASE OpensRunning
  <2> DEFINE s == open.session
             i == [inst[s] EXCEPT !.pm = entry]
  <2>1. /\ inst[s] \in Instance /\ inst[s].status # "none" /\ entry # None
        /\ inst[s].status = "running" <=> inst[s].home # None
        /\ inst[s].status = "running" <=> inst[s].pid # 0
    BY <1>0, <1>2 DEF OpensRunning, TypeInv, InstInv, Instance
  <2>2. /\ i \in Instance /\ i.status = inst[s].status /\ i.pm = entry
        /\ i.home = inst[s].home /\ i.pid = inst[s].pid
    BY <1>0, <2>1 DEF Instance
  <2>3. inst' = [inst EXCEPT ![s] = i] /\ UNCHANGED made
    BY <1>2 DEF OpensRunning, hostVars
  <2> HIDE DEF i, s
  <2>4. s \in Sessions
    BY <1>0 DEF s
  <2>5. InstInv'
    BY <2>1, <2>2, <2>3, <2>4, InstanceTypes
  <2> QED
    BY <1>2, <2>5, SessionStepTypes DEF OpensRunning, procVars, TypeInv, ProcInv, Process
<1>3. CASE OpensDead
  <2>1. CASE Spawns(entry, open.session)
    BY <1>0, <1>3, <2>1, SpawnsTypes, SessionStepTypes DEF OpensDead, hostVars
  <2>2. CASE /\ inst' = [inst EXCEPT ![open.session] = [NoInst EXCEPT !.status = "paused", !.pm = entry]]
             /\ UNCHANGED procVars
    <3>1. InstInv'
      BY <1>0, <1>3, <2>2, IdleInstanceTypes DEF OpensDead, hostVars
    <3> QED
      BY <1>3, <2>2, <3>1, SessionStepTypes DEF OpensDead, procVars, TypeInv, ProcInv, Process
  <2> QED
    BY <1>3, <2>1, <2>2 DEF OpensDead
<1> QED
  BY <1>1, <1>2, <1>3

LEMMA SessionTypes ==
  ASSUME TypeInv, NEW s \in Sessions, Starts(s) \/ Pauses(s) \/ Kills(s)
  PROVE  TypeInv'
<1> USE ConstantsAssumption
<1>0. inst[s].pm \in made /\ UNCHANGED <<hostVars, connVars, user, short, made>> /\ UNCHANGED open
  BY DEF Starts, Pauses, Kills, TypeInv, InstInv, Instance, hostVars
<1>1. CASE Starts(s)
  <2>1. CASE Spawns(inst[s].pm, s)
    BY <1>0, <2>1, SpawnsTypes, SessionStepTypes
  <2>2. CASE inst' = [inst EXCEPT ![s] = NoInst] /\ UNCHANGED procVars
    <3>1. InstInv'
      BY <1>0, <2>2, IdleInstanceTypes
    <3> QED
      BY <1>0, <2>2, <3>1, SessionStepTypes DEF procVars, TypeInv, ProcInv, Process
  <2> QED
    BY <1>1, <2>1, <2>2 DEF Starts
<1>2. CASE Pauses(s) \/ Kills(s)
  <2>1. InstInv'
    BY <1>0, <1>2, IdleInstanceTypes DEF Pauses, Kills
  <2>2. ProcInv'
    BY <1>2, KilledTypes DEF Pauses, Kills, TypeInv, ProcInv, Process
  <2> QED
    BY <1>0, <2>1, <2>2, SessionStepTypes
<1> QED
  BY <1>1, <1>2

LEMMA ProgramExitsTypes ==
  ASSUME TypeInv, NEW e \in Entries, NEW n \in Pids, ProgramExits(e, n)
  PROVE  TypeInv'
<1> DEFINE p == [procs[e][n] EXCEPT !.live = FALSE]
<1>0. procs[e] \in [Pids -> Process] /\ procs[e][n] \in Process
  BY DEF TypeInv, ProcInv
<1>1. p \in Process
  BY <1>0 DEF Process
<1>2. procs' = [procs EXCEPT ![e] = [procs[e] EXCEPT ![n] = p]]
  BY DEF ProgramExits
<1> HIDE DEF p
<1>3. [procs[e] EXCEPT ![n] = p] \in [Pids -> Process]
  BY <1>0, <1>1
<1>4. procs' \in [Entries -> [Pids -> Process]]
  BY <1>2, <1>3 DEF TypeInv, ProcInv
<1>5. ProcInv'
  BY <1>4 DEF ProgramExits, TypeInv, ProcInv, Process
<1>6. InstInv'
  BY DEF ProgramExits, TypeInv, InstInv, Instance, hostVars
<1> QED
  BY <1>5, <1>6, SessionStepTypes DEF ProgramExits

LEMMA NextTypes == TypeInv /\ [Next]_vars => TypeInv'
<1> SUFFICES ASSUME TypeInv, [Next]_vars PROVE TypeInv'
  OBVIOUS
<1>1. CASE UNCHANGED vars
  BY <1>1 DEF vars, hostVars, procVars, connVars, TypeInv, HostInv, ConnInv, MadeInv, ProcInv, Process,
     InstInv, Instance, CallInv
<1>2. CASE \E u \in Users : UserGets(u) \/ UserFails(u) \/ UserReleases(u)
  BY <1>2, UserGetsTypes, UserReleasesTypes, GetClientFailsTypes DEF UserFails
<1>3. CASE \/ \E e \in Entries : IdleTimer(e)
           \/ \E k \in Conns : Breaks(k) \/ KeepaliveFails(k) \/ KeepaliveStops(k) \/ LoopEnds(k) \/ LoopConnects(k) \/ LoopInstalls(k)
  BY <1>3, ConnStepTypes
<1>4. CASE \E s \in Sessions : OpenGets(s) \/ OpenFails(s) \/ Starts(s) \/ Pauses(s) \/ Kills(s)
  BY <1>4, OpenGetsTypes, SessionTypes, GetClientFailsTypes DEF OpenFails
<1>5. CASE NoManager \/ Creates \/ OpensRunning \/ OpensDead
  BY <1>5, NoManagerTypes, OpensTypes
<1>6. CASE \E e \in Entries, n \in Pids : ProgramExits(e, n)
  BY <1>6, ProgramExitsTypes
<1> QED
  BY <1>1, <1>2, <1>3, <1>4, <1>5, <1>6 DEF Next

\* The state has its types in every behaviour: a running instance names a
\* process of a manager that was made, and a manager in use has a connection
\* that was made (HostManager.clients, managedClient).
THEOREM TypeCorrect == Spec => []TypeOK
<1>1. Spec => []TypeInv
  BY InitTypes, NextTypes, PTL DEF Spec
<1> QED
  BY <1>1, TypeInvImplies, PTL

-----------------------------------------------------------------------------
(***************************************************************************)
(* OwnProcess holds because the counter of a manager never goes back: the  *)
(* numbers it gave out name the processes it started for them, or none.    *)
(***************************************************************************)
Owns(s) ==
  inst[s].status = "running" =>
    /\ inst[s].pid <= counter[inst[s].home]
    /\ procs[inst[s].home][inst[s].pid].owner \in {s, None}

OwnInv == \A s \in Sessions : Owns(s)

\* A process changes hands to nobody.
Loses == \A e \in Entries, n \in Pids : procs'[e][n].owner \in {procs[e][n].owner, None}

\* Nothing is running that did not run in the same place.
Stays(s) ==
  inst'[s].status = "running" =>
    inst[s].status = "running" /\ inst'[s].home = inst[s].home /\ inst'[s].pid = inst[s].pid

\* A running instance names a process of a manager.
LEMMA RunningNames ==
  ASSUME TypeInv, NEW s \in Sessions, inst[s].status = "running"
  PROVE  inst[s].home \in Entries /\ inst[s].pid \in Pids
<1>1. inst[s] \in Instance
  BY DEF TypeInv, InstInv
<1> QED
  BY <1>1, ConstantsAssumption DEF TypeInv, InstInv, HostInv, Instance, Pids

LEMMA KeepsOwn ==
  ASSUME TypeInv, OwnInv, Loses, UNCHANGED counter, \A s \in Sessions : Stays(s)
  PROVE  OwnInv'
<1> SUFFICES ASSUME NEW s \in Sessions, inst'[s].status = "running" PROVE Owns(s)'
  BY DEF OwnInv, Owns
<1>1. inst[s].status = "running" /\ inst'[s].home = inst[s].home /\ inst'[s].pid = inst[s].pid
  BY DEF Stays
<1>2. inst[s].home \in Entries /\ inst[s].pid \in Pids
  BY <1>1, RunningNames
<1>3. procs'[inst[s].home][inst[s].pid].owner \in {procs[inst[s].home][inst[s].pid].owner, None}
  BY <1>2 DEF Loses
<1> QED
  BY <1>1, <1>3 DEF OwnInv, Owns

LEMMA SpawnsOwn ==
  ASSUME TypeInv, OwnInv, NEW e \in made, NEW s \in Sessions, Spawns(e, s)
  PROVE  OwnInv'
<1> USE ConstantsAssumption
<1> DEFINE n == counter[e] + 1
           p == [owner |-> s, conn |-> client[e], live |-> TRUE]
           i == [status |-> "running", pm |-> e, home |-> e, pid |-> n]
<1>1. e \in Entries /\ n \in Pids /\ counter[e] \in Nat /\ p.owner = s
  BY DEF Spawns, TypeInv, HostInv, ProcInv
<1>2. /\ counter' = [counter EXCEPT ![e] = n]
      /\ procs' = [procs EXCEPT ![e] = [procs[e] EXCEPT ![n] = p]]
      /\ inst' = [inst EXCEPT ![s] = i]
  BY DEF Spawns
<1>3. i.home = e /\ i.pid = n
  OBVIOUS
<1> HIDE DEF p, i
<1>4. procs[e] \in [Pids -> Process] /\ procs \in [Entries -> [Pids -> Process]]
      /\ counter \in [Entries -> Nat] /\ inst \in [Sessions -> Instance]
  BY <1>1 DEF TypeInv, ProcInv, InstInv
<1>5. Owns(s)'
  BY <1>1, <1>2, <1>3, <1>4 DEF Owns
<1>6. ASSUME NEW t \in Sessions, t # s PROVE Owns(t)'
  <2>1. inst'[t] = inst[t]
    BY <1>2, <1>4, <1>6
  <2>2. SUFFICES ASSUME inst[t].status = "running" PROVE Owns(t)'
    BY <2>1 DEF Owns
  <2> DEFINE h == inst[t].home
             m == inst[t].pid
  <2>3. h \in Entries /\ m \in Pids
    BY <2>2, RunningNames
  <2>4. m <= counter[h] /\ procs[h][m].owner \in {t, None}
    BY <2>2, <1>6 DEF OwnInv, Owns
  <2>5. m <= counter'[h]
    BY <1>1, <1>2, <1>4, <2>3, <2>4 DEF Pids
  <2>6. procs'[h][m] = procs[h][m]
    <3>1. CASE h = e
      <4>1. m # n
        BY <1>1, <2>3, <2>4, <3>1 DEF Pids
      <4> QED
        BY <1>1, <1>2, <1>4, <2>3, <3>1, <4>1
    <3>2. CASE h # e
      BY <1>2, <1>4, <2>3, <3>2
    <3> QED
      BY <3>1, <3>2
  <2> QED
    BY <2>1, <2>4, <2>5, <2>6 DEF Owns
<1> QED
  BY <1>5, <1>6 DEF OwnInv

LEMMA EndedWithLoses ==
  ASSUME TypeInv, NEW k \in Conns, procs' = EndedWith(k)
  PROVE  Loses
<1> SUFFICES ASSUME NEW e \in Entries, NEW n \in Pids
             PROVE  procs'[e][n].owner = procs[e][n].owner
  BY DEF Loses
<1>1. procs[e][n] \in Process
  BY DEF TypeInv, ProcInv
<1>2. procs'[e][n] = IF procs[e][n].conn = k THEN [procs[e][n] EXCEPT !.live = FALSE] ELSE procs[e][n]
  BY DEF EndedWith
<1> QED
  BY <1>1, <1>2 DEF Process

LEMMA KilledLoses ==
  ASSUME TypeInv, NEW s \in Sessions, procs' = Killed(inst[s])
  PROVE  Loses
<1> SUFFICES ASSUME NEW e \in Entries, NEW n \in Pids
             PROVE  procs'[e][n] \in {procs[e][n], NoProc}
  BY DEF Loses, NoProc
<1>1. procs \in [Entries -> [Pids -> Process]] /\ procs[e] \in [Pids -> Process]
  BY DEF TypeInv, ProcInv
<1> QED
  BY <1>1 DEF Killed

LEMMA NextOwn == TypeInv /\ OwnInv /\ [Next]_vars => OwnInv'
<1> SUFFICES ASSUME TypeInv, OwnInv, [Next]_vars PROVE OwnInv'
  OBVIOUS
<1> USE ConstantsAssumption
<1>0. ASSUME UNCHANGED <<procs, counter, inst>> PROVE OwnInv'
  BY <1>0 DEF OwnInv, Owns
<1>1. CASE UNCHANGED vars
  BY <1>0, <1>1 DEF vars, procVars
<1>2. CASE \E u \in Users : UserGets(u) \/ UserFails(u) \/ UserReleases(u)
  BY <1>0, <1>2 DEF UserGets, UserFails, UserReleases, procVars
<1>3. ASSUME NEW e \in Entries, IdleTimer(e) PROVE OwnInv'
  <2>1. CASE entry = e /\ refs[e] <= 0
    <3>1. client[e] \in Conns
      BY <2>1 DEF TypeInv, HostInv, MadeInv
    <3> QED
      BY <1>3, <2>1, <3>1, EndedWithLoses, KeepsOwn DEF IdleTimer, Stays
  <2> QED
    BY <1>0, <1>3, <2>1 DEF IdleTimer
<1>4. ASSUME NEW k \in Conns, Breaks(k) PROVE OwnInv'
  BY <1>4, EndedWithLoses, KeepsOwn DEF Breaks, Stays
<1>5. CASE \E k \in Conns : KeepaliveFails(k) \/ KeepaliveStops(k) \/ LoopEnds(k) \/ LoopConnects(k) \/ LoopInstalls(k)
  BY <1>0, <1>5 DEF KeepaliveFails, KeepaliveStops, LoopEnds, LoopConnects, LoopInstalls, procVars
<1>6. CASE NoManager \/ \E s \in Sessions : OpenGets(s) \/ OpenFails(s)
  BY <1>0, <1>6 DEF NoManager, OpenGets, OpenFails, procVars
<1>7. ASSUME NEW s \in Sessions, Starts(s) \/ Pauses(s) \/ Kills(s) PROVE OwnInv'
  <2>1. CASE Starts(s)
    <3>1. CASE Spawns(inst[s].pm, s)
      <4>1. inst[s].pm \in made
        BY <2>1 DEF Starts, TypeInv, InstInv, Instance
      <4> QED
        BY <3>1, <4>1, SpawnsOwn
    <3>2. CASE inst' = [inst EXCEPT ![s] = NoInst] /\ UNCHANGED procVars
      BY <3>2, KeepsOwn DEF Loses, Stays, NoInst, procVars, TypeInv, InstInv
    <3> QED
      BY <2>1, <3>1, <3>2 DEF Starts
  <2>2. ASSUME NEW i, inst' = [inst EXCEPT ![s] = i], i.status # "running"
        PROVE  \A t \in Sessions : Stays(t)
    BY <2>2 DEF Stays, TypeInv, InstInv
  <2>3. CASE Pauses(s)
    <3> DEFINE i == [NoInst EXCEPT !.status = "paused", !.pm = inst[s].pm]
    <3>1. i.status # "running" /\ inst' = [inst EXCEPT ![s] = i]
      BY <2>3 DEF Pauses, NoInst
    <3> QED
      BY <2>2, <2>3, <3>1, KilledLoses, KeepsOwn DEF Pauses
  <2>4. CASE Kills(s)
    <3>1. NoInst.status # "running" /\ inst' = [inst EXCEPT ![s] = NoInst]
      BY <2>4 DEF Kills, NoInst
    <3> QED
      BY <2>2, <2>4, <3>1, KilledLoses, KeepsOwn DEF Kills
  <2> QED
    BY <1>7, <2>1, <2>3, <2>4
<1>8. CASE Creates
  BY <1>8, KeepsOwn DEF Creates, Loses, Stays, NoInst, procVars, TypeInv, InstInv
<1>9. CASE OpensRunning
  <2>1. \A t \in Sessions : Stays(t)
    BY <1>9 DEF OpensRunning, Stays, TypeInv, InstInv, Instance
  <2> QED
    BY <1>9, <2>1, KeepsOwn DEF OpensRunning, Loses, procVars
<1>10. CASE OpensDead
  <2>1. entry \in made /\ open.session \in Sessions
    BY <1>10 DEF OpensDead, TypeInv, HostInv, CallInv
  <2>2. CASE Spawns(entry, open.session)
    BY <2>1, <2>2, SpawnsOwn
  <2>3. CASE /\ inst' = [inst EXCEPT ![open.session] = [NoInst EXCEPT !.status = "paused", !.pm = entry]]
             /\ UNCHANGED procVars
    BY <2>1, <2>3, KeepsOwn DEF Loses, Stays, NoInst, procVars, TypeInv, InstInv
  <2> QED
    BY <1>10, <2>2, <2>3 DEF OpensDead
<1>11. ASSUME NEW e \in Entries, NEW n \in Pids, ProgramExits(e, n) PROVE OwnInv'
  <2>1. Loses
    BY <1>11 DEF ProgramExits, Loses, TypeInv, ProcInv, Process
  <2> QED
    BY <1>11, <2>1, KeepsOwn DEF ProgramExits, Stays
<1> QED
  BY <1>1, <1>2, <1>3, <1>4, <1>5, <1>6, <1>7, <1>8, <1>9, <1>10, <1>11 DEF Next

\* In the process manager that started it, a session's process number never
\* names the process of another session, for any number of sessions, calls,
\* connections and reconnections (SSHProcessManager.counter).
THEOREM OwnNumber == Spec => []OwnProcess
<1>1. Init => OwnInv
  BY DEF Init, OwnInv, Owns, NoInst
<1>2. OwnInv => OwnProcess
  BY DEF OwnInv, Owns, OwnProcess
<1>3. Spec => []TypeInv
  BY InitTypes, NextTypes, PTL DEF Spec
<1> QED
  BY <1>1, <1>2, <1>3, NextOwn, PTL DEF Spec

-----------------------------------------------------------------------------
(***************************************************************************)
(* HeldStaysOpen: no two entries, nor an entry and a reconnect loop, share *)
(* a connection, and an entry that is not short of a reference counts at   *)
(* least the calls that hold it.  So the connection an idle timer closes   *)
(* is held by nobody.                                                      *)
(***************************************************************************)
\* Whose connection is whose.
Apart ==
  /\ \A e, f \in made : client[e] = client[f] => e = f
  /\ \A k \in Conns, e \in made : loop[k].next # client[e]
  /\ \A k, l \in Conns : loop[k].next # None /\ loop[k].next = loop[l].next => k = l

\* The holder r of a connection: no other entry has it, no loop will install it.
HolderApart(r) ==
  r.conn # None =>
    /\ \A e \in made : r.conn = client[e] => r.entry = e
    /\ \A k \in Conns : loop[k].next # r.conn
    /\ conn[r.conn] # "unused"

ApartInv == Apart /\ \A u \in Users : HolderApart(user[u])

HoldersOf(e) == {u \in Users : user[u].entry = e}

CountInv == \A e \in made \ short : Cardinality(HoldersOf(e)) <= refs[e]

HeldInv == ApartInv /\ CountInv /\ HeldStaysOpen

Holder == [entry : made \cup {None}, conn : Conns \cup {None}]

\* GetClient keeps connections apart, and gives one of its own.
LEMMA GetClientApart ==
  ASSUME TypeInv, Apart, GetClient, loop' = loop
  PROVE  /\ Apart'
         /\ \A r \in Holder : HolderApart(r) => HolderApart(r)'
         /\ \A r : r.conn = client'[entry'] /\ r.entry = entry' => HolderApart(r)'
         /\ conn'[client'[entry']] # "closed"
         /\ \A k \in Conns : conn[k] \notin {"unused", "closed"} => conn'[k] = conn[k]
<1> USE ConstantsAssumption
<1>1. CASE Reused
  <2>1. entry \in made /\ conn[client[entry]] \in {"up", "broken"}
    BY <1>1 DEF Reused, Usable, Connected, TypeInv, HostInv
  <2> QED
    BY <1>1, <2>1 DEF Reused, Apart, HolderApart, Holder, TypeInv, HostInv, ConnInv, MadeInv
<1>2. CASE Renewed
  <2> PICK e \in Entries \ made, k \in Conns :
         /\ conn[k] = "unused"
         /\ conn' = [conn EXCEPT ![k] = "up"]
         /\ entry' = e
         /\ made' = made \cup {e}
         /\ client' = [client EXCEPT ![e] = k]
    BY <1>2 DEF Renewed
  <2>1. /\ client'[e] = k /\ conn'[k] = "up"
        /\ \A f \in made : client'[f] = client[f] /\ client[f] # k
        /\ \A l \in Conns : loop[l].next # k
        /\ \A l \in Conns : l # k => conn'[l] = conn[l]
    BY DEF TypeInv, HostInv, ConnInv, MadeInv
  <2>2. Apart'
    BY <2>1 DEF Apart
  <2>3. ASSUME NEW r \in Holder, HolderApart(r) PROVE HolderApart(r)'
    <3>1. r.conn # k
      BY <2>3 DEF HolderApart
    <3> QED
      BY <2>1, <2>3, <3>1 DEF HolderApart, Holder
  <2>4. ASSUME NEW r, r.conn = k, r.entry = e PROVE HolderApart(r)'
    BY <2>1, <2>4 DEF HolderApart
  <2> QED
    BY <2>1, <2>2, <2>3, <2>4
<1> QED
  BY <1>1, <1>2 DEF GetClient

\* ... and counts the reference it gives.
LEMMA GetClientCounts ==
  ASSUME TypeInv, GetClient
  PROVE  /\ \A e \in made : e # entry' => refs'[e] = refs[e]
         /\ entry' \in made => refs'[entry'] = refs[entry'] + 1
         /\ entry' \notin made => refs'[entry'] = 1
         /\ made' \subseteq made \cup {entry'} /\ entry' # None
<1>1. CASE Reused
  <2>1. entry \in made /\ entry # None
    BY <1>1 DEF Reused, Usable, TypeInv, HostInv
  <2> QED
    BY <1>1, <2>1 DEF Reused, TypeInv, HostInv
<1>2. CASE Renewed
  BY <1>2, ConstantsAssumption DEF Renewed, TypeInv, HostInv
<1> QED
  BY <1>1, <1>2 DEF GetClient

LEMMA HoldersFinite ==
  ASSUME NEW e
  PROVE  IsFiniteSet(HoldersOf(e)) /\ Cardinality(HoldersOf(e)) \in Nat
BY ConstantsAssumption, FS_Subset, FS_CardinalityType DEF HoldersOf

\* A step of the rest of the program closes no connection in use.
LEMMA OthersHeld ==
  ASSUME TypeInv, HeldInv, UNCHANGED <<user, short>>,
         Apart', \A u \in Users : HolderApart(user[u])',
         made' \subseteq Entries,
         \A e \in made' : IF e \in made THEN refs'[e] >= refs[e] ELSE refs'[e] >= 0,
         \A e \in made : refs'[e] \in Int,
         \A k \in Conns : conn'[k] = "closed" => conn[k] = "closed"
  PROVE  HeldInv'
<1> USE ConstantsAssumption
<1>1. user \in [Users -> Holder]
  BY DEF TypeInv, CallInv, Holder
<1>2. CountInv'
  <2> SUFFICES ASSUME NEW e \in made' \ short PROVE Cardinality(HoldersOf(e)) <= refs'[e]
    BY DEF CountInv, HoldersOf
  <2>1. CASE e \in made
    <3>1. Cardinality(HoldersOf(e)) <= refs[e] /\ refs[e] \in Int /\ refs'[e] >= refs[e] /\ refs'[e] \in Int
      BY <2>1 DEF HeldInv, CountInv, TypeInv, HostInv
    <3> QED
      BY <3>1, HoldersFinite
  <2>2. CASE e \notin made
    <3>1. HoldersOf(e) = {} /\ refs'[e] >= 0
      BY <1>1, <2>2 DEF HoldersOf, Holder
    <3> QED
      BY <3>1, FS_EmptySet
  <2> QED
    BY <2>1, <2>2
<1>3. HeldStaysOpen'
  BY <1>1 DEF HeldInv, HeldStaysOpen, NoUser, Holder, TypeInv, CallInv
<1> QED
  BY <1>2, <1>3 DEF HeldInv, ApartInv

\* The steps that change neither the connections nor who holds them.
LEMMA StillHeld ==
  ASSUME HeldInv, UNCHANGED <<made, client, refs, conn, loop, user, short>>
  PROVE  HeldInv'
  BY DEF HeldInv, ApartInv, Apart, HolderApart, CountInv, HoldersOf, HeldStaysOpen

LEMMA UserGetsHeld ==
  ASSUME TypeInv, TypeInv', HeldInv, NEW u \in Users, UserGets(u)
  PROVE  HeldInv'
<1> USE ConstantsAssumption
<1> PICK r : r = [entry |-> entry', conn |-> client'[entry']]
  OBVIOUS
<1>1. /\ user \in [Users -> Holder] /\ user[u].entry = None
      /\ user' = [user EXCEPT ![u] = r] /\ UNCHANGED <<loop, short>> /\ GetClient
  BY DEF UserGets, TypeInv, CallInv, Holder, NoUser
<1>2. r.entry = entry' /\ r.conn = client'[entry']
  OBVIOUS
<1>3. entry' \in made' /\ r.conn \in Conns /\ made \subseteq made' /\ entry' # None
  BY <1>1, <1>2, GetClientTypes, GetClientCounts
<1>4. /\ Apart' /\ HolderApart(r)' /\ \A q \in Holder : HolderApart(q) => HolderApart(q)'
      /\ conn'[r.conn] # "closed"
      /\ \A l \in Conns : conn[l] \notin {"unused", "closed"} => conn'[l] = conn[l]
  BY <1>1, <1>2, GetClientApart DEF HeldInv, ApartInv
<1>5. ApartInv'
  <2>1. ASSUME NEW v \in Users PROVE HolderApart(user[v])'
    <3>1. CASE v = u
      <4>1. user'[v] = r
        BY <1>1, <3>1
      <4> QED
        BY <1>4, <4>1 DEF HolderApart
    <3>2. CASE v # u
      <4>1. user'[v] = user[v] /\ user[v] \in Holder /\ HolderApart(user[v])
        BY <1>1, <3>2 DEF HeldInv, ApartInv
      <4>2. \A q \in Holder : q = user[v] => HolderApart(q)'
        BY <1>4, <4>1
      <4> QED
        BY <4>1, <4>2 DEF HolderApart
    <3> QED
      BY <3>1, <3>2
  <2> QED
    BY <1>4, <2>1 DEF ApartInv
<1>6. CountInv'
  <2> SUFFICES ASSUME NEW e \in made' \ short PROVE Cardinality(HoldersOf(e)') <= refs'[e]
    BY <1>1 DEF CountInv, HoldersOf
  <2>1. CASE e # entry'
    <3>1. HoldersOf(e)' = HoldersOf(e)
      <4>1. e # None
        BY DEF TypeInv, HostInv
      <4> QED
        BY <1>1, <1>2, <2>1, <4>1 DEF HoldersOf
    <3>2. e \in made /\ refs'[e] = refs[e]
      BY <1>1, <2>1, GetClientCounts
    <3> QED
      BY <3>1, <3>2 DEF HeldInv, CountInv
  <2>2. CASE e = entry'
    <3>1. HoldersOf(e)' = HoldersOf(e) \cup {u} /\ u \notin HoldersOf(e)
      BY <1>1, <1>2, <1>3, <2>2 DEF HoldersOf
    <3>2. Cardinality(HoldersOf(e)') = Cardinality(HoldersOf(e)) + 1
      BY <3>1, HoldersFinite, FS_AddElement
    <3>3. CASE e \in made
      <4>1. refs'[e] = refs[e] + 1 /\ refs[e] \in Int /\ Cardinality(HoldersOf(e)) <= refs[e]
        BY <1>1, <2>2, <3>3, GetClientCounts DEF HeldInv, CountInv, TypeInv, HostInv
      <4> QED
        BY <3>2, <4>1, HoldersFinite
    <3>4. CASE e \notin made
      <4>1. HoldersOf(e) = {}
        BY <1>1, <1>3, <2>2, <3>4 DEF HoldersOf, Holder
      <4>2. refs'[e] = 1 /\ Cardinality(HoldersOf(e)) = 0
        BY <1>1, <2>2, <3>4, <4>1, GetClientCounts, FS_EmptySet
      <4> QED
        BY <3>2, <4>2
    <3> QED
      BY <3>3, <3>4
  <2> QED
    BY <2>1, <2>2
<1>7. HeldStaysOpen'
  <2> SUFFICES ASSUME NEW v \in Users, user'[v] # NoUser, user'[v].entry \notin short
               PROVE  conn'[user'[v].conn] # "closed"
    BY <1>1 DEF HeldStaysOpen
  <2>1. CASE v = u
    BY <1>1, <1>4, <2>1
  <2>2. CASE v # u
    <3>1. user'[v] = user[v] /\ user[v] \in Holder
      BY <1>1, <2>2
    <3>2. user[v].conn # None
      BY <3>1 DEF TypeInv, CallInv, NoUser, Holder
    <3>3. user[v].conn \in Conns /\ conn[user[v].conn] \notin {"unused", "closed"}
      BY <3>1, <3>2 DEF HeldInv, ApartInv, HolderApart, HeldStaysOpen, Holder
    <3> QED
      BY <1>4, <3>1, <3>3
  <2> QED
    BY <2>1, <2>2
<1> QED
  BY <1>5, <1>6, <1>7 DEF HeldInv

LEMMA UserReleasesHeld ==
  ASSUME TypeInv, HeldInv, NEW u \in Users, UserReleases(u)
  PROVE  HeldInv'
<1> USE ConstantsAssumption
<1>1. /\ user \in [Users -> Holder] /\ user[u] # NoUser
      /\ user' = [user EXCEPT ![u] = NoUser] /\ short \subseteq short'
      /\ UNCHANGED <<entry, made, client, conn, loop>>
  BY DEF UserReleases, connVars, TypeInv, CallInv, Holder
<1>2. \A v \in Users : user'[v] = NoUser \/ user'[v] = user[v]
  BY <1>1
<1>3. ApartInv'
  BY <1>1, <1>2 DEF HeldInv, ApartInv, Apart, HolderApart, NoUser
<1>4. HeldStaysOpen'
  BY <1>1, <1>2 DEF HeldInv, HeldStaysOpen
<1>5. CountInv'
  <2> SUFFICES ASSUME NEW e \in made \ short' PROVE Cardinality(HoldersOf(e)') <= refs'[e]
    BY <1>1 DEF CountInv, HoldersOf
  <2>1. e # None /\ Cardinality(HoldersOf(e)) <= refs[e] /\ refs[e] \in Int
    BY <1>1 DEF HeldInv, CountInv, TypeInv, HostInv
  <2>2. HoldersOf(e)' = HoldersOf(e) \ {u}
    BY <1>1, <2>1 DEF HoldersOf, NoUser
  <2>3. CASE user[u].entry = e
    <3>1. u \in HoldersOf(e) /\ refs'[e] >= refs[e] - 1
      BY <1>1, <2>1, <2>3 DEF HoldersOf, UserReleases, TypeInv, HostInv
    <3>2. refs'[e] \in Int
      BY <2>1 DEF UserReleases, TypeInv, HostInv
    <3>3. Cardinality(HoldersOf(e)') = Cardinality(HoldersOf(e)) - 1
      BY <2>2, <3>1, HoldersFinite, FS_RemoveElement
    <3> QED
      BY <2>1, <3>1, <3>2, <3>3, HoldersFinite
  <2>4. CASE user[u].entry # e
    <3>1. entry # e /\ refs'[e] = refs[e]
      BY <1>1, <2>1, <2>4 DEF UserReleases, TypeInv, HostInv
    <3>2. HoldersOf(e)' = HoldersOf(e)
      BY <2>2, <2>4 DEF HoldersOf
    <3> QED
      BY <2>1, <3>1, <3>2
  <2> QED
    BY <2>3, <2>4
<1> QED
  BY <1>3, <1>4, <1>5 DEF HeldInv

\* An idle timer that closes the connection of an entry finds no holder of it.
LEMMA IdleTimerHeld ==
  ASSUME TypeInv, HeldInv, NEW e \in Entries, IdleTimer(e)
  PROVE  HeldInv'
<1> USE ConstantsAssumption
<1>1. UNCHANGED <<made, client, refs, loop, user, short>>
  BY DEF IdleTimer
<1>2. CASE ~(entry = e /\ refs[e] <= 0)
  BY <1>1, <1>2, StillHeld DEF IdleTimer
<1>3. CASE entry = e /\ refs[e] <= 0
  <2>1. /\ e \in made /\ refs[e] \in Int /\ client[e] \in Conns
        /\ user \in [Users -> Holder] /\ conn' = [conn EXCEPT ![client[e]] = "closed"]
    BY <1>3 DEF IdleTimer, TypeInv, HostInv, MadeInv, CallInv, Holder
  <2>2. ApartInv'
    BY <1>1, <2>1 DEF HeldInv, ApartInv, Apart, HolderApart, Holder, TypeInv, ConnInv
  <2>3. CountInv'
    BY <1>1 DEF HeldInv, CountInv, HoldersOf
  <2>4. HeldStaysOpen'
    <3> SUFFICES ASSUME NEW v \in Users, user[v] # NoUser, user[v].entry \notin short
                 PROVE  conn'[user[v].conn] # "closed"
      BY <1>1 DEF HeldStaysOpen
    <3>1. user[v].conn \in Conns /\ conn[user[v].conn] # "closed"
      BY <2>1 DEF HeldInv, HeldStaysOpen, TypeInv, CallInv, NoUser, Holder
    <3>2. user[v].conn # client[e]
      <4> SUFFICES ASSUME user[v].conn = client[e] PROVE FALSE
        OBVIOUS
      <4>1. user[v].entry = e
        BY <2>1, <3>1 DEF HeldInv, ApartInv, HolderApart
      <4>2. v \in HoldersOf(e) /\ Cardinality(HoldersOf(e)) <= refs[e]
        BY <2>1, <4>1 DEF HoldersOf, HeldInv, CountInv
      <4> QED
        BY <1>3, <2>1, <4>2, HoldersFinite, FS_EmptySet
    <3> QED
      BY <2>1, <3>1, <3>2 DEF TypeInv, ConnInv
  <2> QED
    BY <2>2, <2>3, <2>4 DEF HeldInv
<1> QED
  BY <1>2, <1>3

LEMMA ConnStepHeld ==
  ASSUME TypeInv, HeldInv, NEW k \in Conns,
         Breaks(k) \/ KeepaliveFails(k) \/ KeepaliveStops(k) \/ LoopEnds(k) \/ LoopConnects(k) \/ LoopInstalls(k)
  PROVE  HeldInv'
<1> USE ConstantsAssumption
<1>1. UNCHANGED <<made, refs, user, short>>
  BY DEF Breaks, KeepaliveFails, KeepaliveStops, LoopEnds, LoopConnects, LoopInstalls, hostVars
<1>2. user \in [Users -> Holder]
  BY DEF TypeInv, CallInv, Holder
<1>3. \A l \in Conns : /\ conn'[l] = "closed" => conn[l] = "closed"
                       /\ conn'[l] = "unused" => conn[l] = "unused"
  BY DEF Breaks, KeepaliveFails, KeepaliveStops, LoopEnds, LoopConnects, LoopInstalls, TypeInv, ConnInv
<1>4. Apart' /\ \A v \in Users : HolderApart(user[v])'
  <2>1. CASE Breaks(k) \/ KeepaliveFails(k) \/ KeepaliveStops(k) \/ LoopEnds(k)
    <3>1. UNCHANGED client /\ \A l \in Conns : loop'[l].next \in {loop[l].next, None}
      BY <2>1 DEF Breaks, KeepaliveFails, KeepaliveStops, LoopEnds, NoLoop, TypeInv, ConnInv, hostVars
    <3>2. \A e \in made : client[e] # None
      BY DEF TypeInv, MadeInv
    <3> QED
      BY <1>1, <1>2, <1>3, <3>1, <3>2 DEF HeldInv, ApartInv, Apart, HolderApart, Holder
  <2>2. CASE LoopConnects(k)
    <3> PICK n \in Conns : /\ conn[n] = "unused"
                           /\ loop' = [loop EXCEPT ![k] = [pc |-> "connected", next |-> n]]
      BY <2>2 DEF LoopConnects
    <3>1. UNCHANGED client /\ loop'[k].next = n /\ \A l \in Conns \ {k} : loop'[l] = loop[l]
      BY <2>2 DEF LoopConnects, hostVars, TypeInv, ConnInv
    <3>2. /\ \A e \in made : client[e] # n
          /\ \A l \in Conns : loop[l].next # n
          /\ \A v \in Users : user[v].conn # n
      BY DEF TypeInv, MadeInv, HeldInv, ApartInv, HolderApart
    <3>3. Apart'
      BY <1>1, <3>1, <3>2 DEF HeldInv, ApartInv, Apart
    <3>4. ASSUME NEW v \in Users PROVE HolderApart(user[v])'
      BY <1>1, <1>2, <1>3, <3>1, <3>2 DEF HeldInv, ApartInv, HolderApart, Holder
    <3> QED
      BY <3>3, <3>4
  <2>3. CASE LoopInstalls(k)
    <3>1. /\ loop[k].next # None /\ loop' = [loop EXCEPT ![k] = NoLoop]
          /\ \/ UNCHANGED client
             \/ entry \in made /\ client' = [client EXCEPT ![entry] = loop[k].next]
      BY <2>3 DEF LoopInstalls, TypeInv, HostInv, ConnInv
    <3>2. loop'[k].next = None /\ \A l \in Conns \ {k} : loop'[l] = loop[l]
      BY <3>1 DEF NoLoop, TypeInv, ConnInv
    <3>3. \A e \in made : client'[e] = client[e] \/ (client'[e] = loop[k].next /\ e = entry)
      BY <3>1 DEF TypeInv, HostInv
    <3>4. \A e \in made : client'[e] # None
      BY <3>1, <3>3 DEF TypeInv, MadeInv
    <3>5. Apart'
      BY <1>1, <3>1, <3>2, <3>3, <3>4 DEF HeldInv, ApartInv, Apart
    <3>6. ASSUME NEW v \in Users PROVE HolderApart(user[v])'
      BY <1>1, <1>2, <1>3, <3>2, <3>3 DEF HeldInv, ApartInv, HolderApart, Holder
    <3> QED
      BY <3>5, <3>6
  <2> QED
    BY <2>1, <2>2, <2>3
<1>5. made' \subseteq Entries /\ refs \in [Entries -> Int]
  BY <1>1 DEF TypeInv, HostInv
<1> QED
  BY <1>1, <1>3, <1>4, <1>5, OthersHeld

LEMMA NextHeld == TypeInv /\ TypeInv' /\ HeldInv /\ [Next]_vars => HeldInv'
<1> SUFFICES ASSUME TypeInv, TypeInv', HeldInv, [Next]_vars PROVE HeldInv'
  OBVIOUS
<1>1. CASE UNCHANGED vars
  BY <1>1, StillHeld DEF vars, hostVars, connVars
<1>2. CASE \E u \in Users : UserGets(u) \/ UserReleases(u)
  BY <1>2, UserGetsHeld, UserReleasesHeld
<1>3. CASE (\E u \in Users : UserFails(u)) \/ (\E s \in Sessions : OpenFails(s))
  BY <1>3, StillHeld DEF UserFails, OpenFails, GetClientFails
<1>4. CASE \E e \in Entries : IdleTimer(e)
  BY <1>4, IdleTimerHeld
<1>5. CASE \E k \in Conns :
             Breaks(k) \/ KeepaliveFails(k) \/ KeepaliveStops(k) \/ LoopEnds(k) \/ LoopConnects(k) \/ LoopInstalls(k)
  BY <1>5, ConnStepHeld
<1>6. ASSUME NEW s \in Sessions, OpenGets(s) PROVE HeldInv'
  <2>1. GetClient /\ UNCHANGED <<loop, user, short>>
    BY <1>6 DEF OpenGets
  <2>2. /\ Apart' /\ \A r \in Holder : HolderApart(r) => HolderApart(r)'
        /\ \A l \in Conns : conn'[l] = "closed" => conn[l] = "closed"
    <3>1. \A l \in Conns : conn'[l] = "closed" => conn[l] = "closed"
      BY <2>1 DEF GetClient, Reused, Renewed, TypeInv, ConnInv
    <3> QED
      BY <2>1, <3>1, GetClientApart DEF HeldInv, ApartInv
  <2>3. ASSUME NEW v \in Users PROVE HolderApart(user[v])'
    <3>1. user'[v] = user[v] /\ user[v] \in Holder /\ HolderApart(user[v])
      BY <2>1 DEF HeldInv, ApartInv, TypeInv, CallInv, Holder
    <3>2. \A q \in Holder : q = user[v] => HolderApart(q)'
      BY <2>2, <3>1
    <3> QED
      BY <3>1, <3>2 DEF HolderApart
  <2>4. /\ made' \subseteq Entries
        /\ \A e \in made : refs'[e] \in Int
        /\ \A e \in made' : IF e \in made THEN refs'[e] >= refs[e] ELSE refs'[e] >= 0
    BY <2>1, GetClientCounts DEF TypeInv, HostInv
  <2> QED
    BY <2>1, <2>2, <2>3, <2>4, OthersHeld
<1>7. CASE \/ \E s \in Sessions : Starts(s) \/ Pauses(s) \/ Kills(s)
           \/ NoManager \/ Creates \/ OpensRunning \/ OpensDead
           \/ \E e \in Entries, n \in Pids : ProgramExits(e, n)
  BY <1>7, StillHeld DEF Starts, Pauses, Kills, NoManager, Creates, OpensRunning, OpensDead, ProgramExits,
     hostVars, connVars
<1> QED
  BY <1>1, <1>2, <1>3, <1>4, <1>5, <1>6, <1>7 DEF Next

\* The idle timer closes no connection under a call that holds it, for any
\* number of calls, connections and reconnections, unless a call gave back a
\* reference of its entry that it had from another (ReleaseClient).
THEOREM HeldOpen == Spec => []HeldStaysOpen
<1>1. Init => HeldInv
  BY DEF Init, HeldInv, ApartInv, Apart, HolderApart, CountInv, HeldStaysOpen, NoUser, NoLoop
<1>2. Spec => []TypeInv
  BY InitTypes, NextTypes, PTL DEF Spec
<1> QED
  BY <1>1, <1>2, NextHeld, PTL DEF Spec, HeldInv
=============================================================================
