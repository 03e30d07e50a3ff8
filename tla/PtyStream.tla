----------------------------- MODULE PtyStream ------------------------------
(***************************************************************************)
(* One terminal session: its program, the goroutines that serve it         *)
(* (pty/manager.go, and ssh/process_manager.go with ssh/session.go for a   *)
(* remote one), the viewers connected to it (pty/websocket.go), and the    *)
(* Kill that ends it.                                                      *)
(*                                                                         *)
(* Output is a sequence of chunks, numbered 1, 2, ... as the program       *)
(* prints them; TerminalMonitor shows what the monitor keeps of them.  A   *)
(* section under subMu is one step; mu, which is held across blocking      *)
(* calls, is a variable.                                                   *)
(***************************************************************************)
EXTENDS Integers, Sequences, FiniteSets

CONSTANTS
  Clients,   \* WebSocket connections
  Lingers,   \* whether descendants of the program may keep its terminal open
  ChanSize,  \* the capacity of a subscriber's channel (256)
  MaxOutput, \* bound: chunks printed in all
  None

Killer == "killer"

ASSUME ConstantsAssumption ==
  /\ Lingers \in BOOLEAN
  /\ ChanSize \in Nat \ {0} /\ MaxOutput \in Nat
  /\ None \notin Clients /\ Killer \notin Clients /\ None # Killer

VARIABLES
  remote,   \* whether this is an SSHSession
  alive,    \* the program runs
  ttyOpen,  \* some process holds the program's side of the terminal
  output,   \* chunks the program printed
  ptmx,     \* our side of it (the SSH channel) is open
  inMap,    \* the session is in Manager.sessions
  closed,   \* Session.closed
  exited,   \* Session.exited is closed
  mu,       \* who holds Session.mu
  reader,   \* the reading goroutine: reading, writing, sending or ended
  taken,    \* chunks it has read
  killer,   \* Manager.Kill: idle, locking, closing or done
  subs,     \* Session.subscribers
  chan,     \* the channels of the subscribers
  chanOpen, \* those not closed
  client,   \* a connection's handler: idle, found, replayed, streaming, done
  typing,   \* its input goroutine: off, ready, writing
  gone,     \* connections whose browser end is gone
  panicked, \* a closed channel was sent to, or closed again
  since,    \* history: the last chunk broadcast before a client subscribed
  got,      \* history: the live chunks a client was sent
  lost      \* history: chunks dropped because its channel was full

program == <<alive, ttyOpen, output>>
session == <<inMap, closed, exited>>
streams == <<subs, chan, chanOpen, panicked>>
viewers == <<client, typing, gone>>
history == <<since, got, lost>>
vars == <<remote, program, ptmx, session, mu, reader, taken, killer, streams, viewers, history>>

\* Manager.Spawn has returned.
Init ==
  /\ remote \in BOOLEAN
  /\ alive = TRUE /\ ttyOpen = TRUE /\ output = 0
  /\ ptmx = TRUE
  /\ inMap = TRUE /\ closed = FALSE /\ exited = FALSE
  /\ mu = None
  /\ reader = "reading" /\ taken = 0
  /\ killer = "idle"
  /\ subs = {} /\ panicked = FALSE
  /\ chan = [c \in Clients |-> <<>>]
  /\ chanOpen = {}
  /\ client = [c \in Clients |-> "idle"]
  /\ typing = [c \in Clients |-> "off"]
  /\ gone = {}
  /\ since = [c \in Clients |-> 0]
  /\ got = [c \in Clients |-> <<>>]
  /\ lost = [c \in Clients |-> {}]

\* The last chunk broadcast.
Broadcasted == IF reader \in {"writing", "sending"} THEN taken - 1 ELSE taken

-----------------------------------------------------------------------------
\* The program, and whoever holds its terminal.
ProgramPrints ==
  /\ alive /\ output < MaxOutput
  /\ output' = output + 1
  /\ UNCHANGED <<remote, alive, ttyOpen, ptmx, session, mu, reader, taken, killer, streams, viewers, history>>

ProgramExits ==
  /\ alive
  /\ alive' = FALSE
  /\ ttyOpen' \in {FALSE, Lingers}
  /\ UNCHANGED <<remote, output, ptmx, session, mu, reader, taken, killer, streams, viewers, history>>

\* The SSH connection is lost, and with it the channel.
ConnectionLost ==
  /\ remote /\ ptmx
  /\ ptmx' = FALSE
  /\ UNCHANGED <<remote, program, session, mu, reader, taken, killer, streams, viewers, history>>

-----------------------------------------------------------------------------
\* The reading goroutine: Read, then monitor.Write, then broadcast.
ReadChunk ==
  /\ reader = "reading"
  /\ ptmx /\ taken < output
  /\ taken' = taken + 1
  /\ reader' = "writing"
  /\ UNCHANGED <<remote, program, ptmx, session, mu, killer, streams, viewers, history>>

WriteMonitor ==
  /\ reader = "writing"
  /\ reader' = "sending"
  /\ UNCHANGED <<remote, program, ptmx, session, mu, taken, killer, streams, viewers, history>>

Full(c) == Len(chan[c]) >= ChanSize

\* Mutant of Broadcast: the loop ends at the first subscriber that is slow.
BroadcastBreaks ==
  LET served == IF \E c \in subs : Full(c) THEN {} ELSE subs IN
  /\ reader = "sending"
  /\ reader' = "reading"
  /\ chan' = [c \in Clients |-> IF c \in served THEN Append(chan[c], taken) ELSE chan[c]]
  /\ lost' = [c \in Clients |-> IF c \in subs /\ Full(c) THEN lost[c] \cup {taken} ELSE lost[c]]
  /\ panicked' = (panicked \/ ~(subs \subseteq chanOpen))
  /\ UNCHANGED <<remote, program, ptmx, session, mu, taken, killer, subs, chanOpen, viewers, since, got>>

\* Mutant of Broadcast: no regard to the capacity of the channels.
BroadcastUnbounded ==
  /\ reader = "sending"
  /\ reader' = "reading"
  /\ chan' = [c \in Clients |-> IF c \in subs THEN Append(chan[c], taken) ELSE chan[c]]
  /\ panicked' = (panicked \/ ~(subs \subseteq chanOpen))
  /\ UNCHANGED <<remote, program, ptmx, session, mu, taken, killer, subs, chanOpen, viewers, history>>

\* broadcast: a chunk is dropped for a subscriber whose channel is full.
Broadcast ==
  /\ reader = "sending"
  /\ reader' = "reading"
  /\ chan' = [c \in Clients |-> IF c \in subs /\ ~Full(c) THEN Append(chan[c], taken) ELSE chan[c]]
  /\ lost' = [c \in Clients |-> IF c \in subs /\ Full(c) THEN lost[c] \cup {taken} ELSE lost[c]]
  /\ panicked' = (panicked \/ ~(subs \subseteq chanOpen))
  /\ UNCHANGED <<remote, program, ptmx, session, mu, taken, killer, subs, chanOpen, viewers, since, got>>

\* Mutant of CloseSubscribers: the closed channels stay in the map.
CloseKeepsSubscribers ==
  /\ panicked' = (panicked \/ ~(subs \subseteq chanOpen))
  /\ chanOpen' = chanOpen \ subs
  /\ UNCHANGED <<subs, chan>>

\* Every subscriber's channel is closed and leaves the map, under subMu.
CloseSubscribers ==
  /\ panicked' = (panicked \/ ~(subs \subseteq chanOpen))
  /\ chanOpen' = chanOpen \ subs
  /\ subs' = {}
  /\ UNCHANGED chan

\* Mutant of ReaderEnds: the channels are left open.
ReaderEndsQuietly ==
  /\ reader = "reading"
  /\ ~ptmx \/ (~ttyOpen /\ taken = output)
  /\ reader' = "ended"
  /\ UNCHANGED <<remote, program, ptmx, session, mu, taken, killer, streams, viewers, history>>

\* Read fails: the terminal is closed, by us or, once drained, by the others.
ReaderEnds ==
  /\ reader = "reading"
  /\ ~ptmx \/ (~ttyOpen /\ taken = output)
  /\ reader' = "ended"
  /\ CloseSubscribers
  /\ UNCHANGED <<remote, program, ptmx, session, mu, taken, killer, viewers, history>>

ReaderStep == ReadChunk \/ WriteMonitor \/ Broadcast \/ ReaderEnds

\* Mutant of WaiterEnds: the program's exit is signalled only after a Kill.
WaiterAfterKill ==
  /\ closed /\ ~exited
  /\ exited' = TRUE
  /\ UNCHANGED <<remote, program, ptmx, inMap, closed, mu, reader, taken, killer, streams, viewers, history>>

\* The waiting goroutine: cmd.Wait (session.Wait), then closed under mu,
\* then the channel WaitExit looks at.
WaiterEnds ==
  /\ ~alive \/ (remote /\ ~ptmx)
  /\ ~exited
  /\ mu = None
  /\ closed' = TRUE
  /\ exited' = TRUE
  /\ UNCHANGED <<remote, program, ptmx, inMap, mu, reader, taken, killer, streams, viewers, history>>

-----------------------------------------------------------------------------
\* Manager.Kill: the session leaves the map, then close() wants mu.
Kill ==
  /\ killer = "idle" /\ inMap
  /\ inMap' = FALSE
  /\ killer' = "locking"
  /\ UNCHANGED <<remote, program, ptmx, closed, exited, mu, reader, taken, streams, viewers, history>>

\* close() of a session that is closed already.
CloseAgain ==
  /\ killer = "locking" /\ mu = None
  /\ closed
  /\ killer' = "done"
  /\ UNCHANGED <<remote, program, ptmx, session, mu, reader, taken, streams, viewers, history>>

\* Mutant of CloseTerminal: the program is not killed.
CloseTerminalOnly ==
  /\ killer = "locking" /\ mu = None
  /\ ~closed
  /\ mu' = Killer
  /\ closed' = TRUE
  /\ ptmx' = FALSE
  /\ killer' = "closing"
  /\ UNCHANGED <<remote, program, inMap, exited, reader, taken, streams, viewers, history>>

\* close(): the terminal is closed and the program killed, waited for; a
\* remote program merely loses its terminal.
CloseTerminal ==
  /\ killer = "locking" /\ mu = None
  /\ ~closed
  /\ mu' = Killer
  /\ closed' = TRUE
  /\ ptmx' = FALSE
  /\ alive' \in {FALSE, remote /\ alive}
  /\ ttyOpen' \in {ttyOpen /\ (Lingers \/ alive'), FALSE}
  /\ killer' = "closing"
  /\ UNCHANGED <<remote, output, inMap, exited, reader, taken, streams, viewers, history>>

\* ... and the subscribers' channels are closed.
CloseStreams ==
  /\ killer = "closing"
  /\ CloseSubscribers
  /\ mu' = None
  /\ killer' = "done"
  /\ UNCHANGED <<remote, program, ptmx, session, reader, taken, viewers, history>>

KillerStep == CloseAgain \/ CloseTerminal \/ CloseStreams

-----------------------------------------------------------------------------
\* handleWS finds the session ...
Connect(c) ==
  /\ client[c] = "idle" /\ inMap
  /\ client' = [client EXCEPT ![c] = "found"]
  /\ UNCHANGED <<remote, program, ptmx, session, mu, reader, taken, killer, streams, typing, gone, history>>

\* ... replays the snapshot (or fails to) ...
Replay(c) ==
  /\ client[c] = "found"
  /\ client' = [client EXCEPT ![c] = IF c \in gone THEN "done" ELSE "replayed"]
  /\ UNCHANGED <<remote, program, ptmx, session, mu, reader, taken, killer, streams, typing, gone, history>>

\* ... subscribes, and starts its two goroutines.
Subscribe(c) ==
  /\ client[c] = "replayed"
  /\ client' = [client EXCEPT ![c] = "streaming"]
  /\ typing' = [typing EXCEPT ![c] = "ready"]
  /\ subs' = subs \cup {c}
  /\ chanOpen' = chanOpen \cup {c}
  /\ since' = [since EXCEPT ![c] = Broadcasted]
  /\ UNCHANGED <<remote, program, ptmx, session, mu, reader, taken, killer, chan, panicked, gone, got, lost>>

\* The output goroutine sends one chunk.
Forward(c) ==
  /\ client[c] = "streaming" /\ chan[c] # <<>>
  /\ c \notin gone
  /\ chan' = [chan EXCEPT ![c] = Tail(@)]
  /\ got' = [got EXCEPT ![c] = Append(@, Head(chan[c]))]
  /\ UNCHANGED <<remote, program, ptmx, session, mu, reader, taken, killer, subs, chanOpen, panicked, viewers, since, lost>>

\* It ends when its channel is closed and drained, or when it cannot send;
\* the handler unsubscribes and closes the connection.
ForwardEnds(c) ==
  /\ client[c] = "streaming"
  /\ \/ chan[c] = <<>> /\ c \notin chanOpen
     \/ chan[c] # <<>> /\ c \in gone
  /\ client' = [client EXCEPT ![c] = "done"]
  /\ subs' = subs \ {c}
  /\ UNCHANGED <<remote, program, ptmx, session, mu, reader, taken, killer, chan, chanOpen, panicked, typing, gone, history>>

\* The browser's end goes; nobody notices before the next chunk.
Disconnect(c) ==
  /\ client[c] \in {"found", "replayed", "streaming"}
  /\ gone' = gone \cup {c}
  /\ UNCHANGED <<remote, program, ptmx, session, mu, reader, taken, killer, streams, client, typing, history>>

\* Session.Write takes mu; a closed session ends the input goroutine.  A
\* message that was read may be written after the output goroutine ended.
WriteLock(c) ==
  /\ typing[c] = "ready" /\ c \notin gone
  /\ mu = None
  /\ IF closed
     THEN typing' = [typing EXCEPT ![c] = "off"] /\ UNCHANGED mu
     ELSE typing' = [typing EXCEPT ![c] = "writing"] /\ mu' = c
  /\ UNCHANGED <<remote, program, ptmx, session, reader, taken, killer, streams, client, gone, history>>

\* The write to the terminal returns when the program, or who keeps the
\* terminal open after it, takes the input ...
InputTaken(c) ==
  /\ typing[c] = "writing"
  /\ ttyOpen /\ ptmx
  /\ mu' = None
  /\ typing' = [typing EXCEPT ![c] = "ready"]
  /\ UNCHANGED <<remote, program, ptmx, session, reader, taken, killer, streams, client, gone, history>>

\* ... or when nobody can any more.
WriteFails(c) ==
  /\ typing[c] = "writing"
  /\ ~ttyOpen \/ ~ptmx
  /\ mu' = None
  /\ typing' = [typing EXCEPT ![c] = "off"]
  /\ UNCHANGED <<remote, program, ptmx, session, reader, taken, killer, streams, client, gone, history>>

HandlerStep(c) == Replay(c) \/ Subscribe(c) \/ Forward(c) \/ ForwardEnds(c)

Next ==
  \/ ProgramPrints \/ ProgramExits \/ ConnectionLost
  \/ ReaderStep \/ WaiterEnds
  \/ Kill \/ KillerStep
  \/ \E c \in Clients :
       \/ Connect(c) \/ HandlerStep(c) \/ Disconnect(c)
       \/ WriteLock(c) \/ InputTaken(c) \/ WriteFails(c)

\* The goroutines run on, and a write to a dead terminal returns.  Nothing
\* obliges the program to read its input, to print or to exit; a browser reads
\* what it is sent, or is gone (there is no limit on sending to one that does
\* neither).  Kill and the waiter compete for mu with the viewers, whose every
\* keystroke takes it: a Go mutex is fair in the long run (starvation mode).
Fairness ==
  /\ WF_vars(ReaderStep)
  /\ SF_vars(WaiterEnds)
  /\ SF_vars(KillerStep)
  /\ \A c \in Clients : WF_vars(HandlerStep(c)) /\ WF_vars(WriteFails(c))

Spec == Init /\ [][Next]_vars
FairSpec == Spec /\ Fairness

-----------------------------------------------------------------------------
(***************************************************************************)
(* Properties.                                                             *)
(***************************************************************************)

\* The types of the state; the reader is not ahead of the program.
TypeOK ==
  /\ {remote, alive, ttyOpen, ptmx, inMap, closed, exited, panicked} \subseteq BOOLEAN
  /\ output \in 0..MaxOutput
  /\ taken \in 0..output
  /\ mu \in Clients \cup {None, Killer}
  /\ reader \in {"reading", "writing", "sending", "ended"}
  /\ killer \in {"idle", "locking", "closing", "done"}
  /\ subs \subseteq Clients /\ chanOpen \subseteq Clients /\ gone \subseteq Clients
  /\ chan \in [Clients -> Seq(1..MaxOutput)]
  /\ \A c \in Clients : Len(chan[c]) <= ChanSize
  /\ client \in [Clients -> {"idle", "found", "replayed", "streaming", "done"}]
  /\ typing \in [Clients -> {"off", "ready", "writing"}]
  /\ since \in [Clients -> 0..MaxOutput]
  /\ got \in [Clients -> Seq(1..MaxOutput)]
  /\ lost \in [Clients -> SUBSET (1..MaxOutput)]

\* Nothing is sent on a closed channel and no channel is closed twice, which
\* would bring the whole application down: the reader's EOF and Kill both
\* close the channels, and handlers come and go in between.
NoPanic == ~panicked

\* What a viewer gets after it subscribed is the live output in order, each
\* chunk once, without any but the ones its full channel dropped.
StreamExact ==
  \A c \in subs :
    LET live == got[c] \o chan[c] IN
    /\ \A i, j \in 1..Len(live) : i < j => live[i] < live[j]
    /\ {live[i] : i \in 1..Len(live)} \cup lost[c] = since[c] + 1 .. Broadcasted

\* When Kill returns, the program of a local session is dead, so that its
\* worktree can be removed, also when the waiter closed the session first.
KilledIsDead == killer = "done" /\ ~remote => ~alive

\* Once the terminal has no other end, a viewer that was subscribed before
\* EOF gets the rest of the output and sees its connection closed.
StreamEnds ==
  \A c \in Clients :
    c \in subs /\ reader # "ended" /\ ~ttyOpen ~> client[c] = "done"

\* A Write that holds mu until somebody reads the terminal: the program, or a
\* descendant that outlives it.
WriteBlocked == mu \in Clients /\ ttyOpen /\ ptmx

\* Once the program has ended, even by itself, its exit is signalled to
\* WaitExit, and a Kill comes to its end, whoever is typing at the time: unless
\* a Write is blocked for ever, by a program that lives and does not read, or
\* by descendants that keep the terminal open and do not read.  Nothing else
\* holds them up (Write, close).
ExitSettles ==
  /\ ~alive ~> (exited \/ []WriteBlocked)
  /\ killer = "locking" ~> (killer = "done" \/ []WriteBlocked)
=============================================================================
