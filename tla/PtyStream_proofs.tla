-------------------------- MODULE PtyStream_proofs --------------------------
(***************************************************************************)
(* Theorems about PtyStream, for any number of viewers, any capacity of    *)
(* their channels and any amount of output; and about the TerminalMonitor  *)
(* of a session, for any size of its buffer.                               *)
(***************************************************************************)
EXTENDS PtyStream, TerminalMonitor, SequenceTheorems, TLAPS

\* A channel in the map is open: whoever closes channels, the reader at EOF
\* or Kill, takes them out of the map under the same lock.
ChannelInv ==
  /\ panicked = FALSE
  /\ subs \subseteq chanOpen

LEMMA ChannelInit == Init => ChannelInv
BY DEF Init, ChannelInv

\* Closing the subscribers' channels, by whichever goroutine.
LEMMA ChannelClose == ChannelInv /\ CloseSubscribers => ChannelInv'
BY DEF ChannelInv, CloseSubscribers

LEMMA ChannelNext == ChannelInv /\ [Next]_vars => ChannelInv'
<1> SUFFICES ASSUME ChannelInv, [Next]_vars
             PROVE  ChannelInv'
  OBVIOUS
<1> USE DEF ChannelInv
<1>1. CASE ProgramPrints \/ ProgramExits \/ ConnectionLost
  BY <1>1 DEF ProgramPrints, ProgramExits, ConnectionLost, streams
<1>2. CASE ReadChunk \/ WriteMonitor \/ WaiterEnds
  BY <1>2 DEF ReadChunk, WriteMonitor, WaiterEnds, streams
<1>3. CASE Broadcast
  BY <1>3 DEF Broadcast
<1>4. CASE ReaderEnds
  BY <1>4, ChannelClose DEF ReaderEnds
<1>5. CASE Kill \/ CloseAgain \/ CloseTerminal
  BY <1>5 DEF Kill, CloseAgain, CloseTerminal, streams
<1>6. CASE CloseStreams
  BY <1>6, ChannelClose DEF CloseStreams
<1>7. ASSUME NEW c \in Clients, Connect(c) \/ Replay(c) \/ Disconnect(c)
      PROVE  ChannelInv'
  BY <1>7 DEF Connect, Replay, Disconnect, streams
<1>8. ASSUME NEW c \in Clients, Subscribe(c)
      PROVE  ChannelInv'
  BY <1>8 DEF Subscribe
<1>9. ASSUME NEW c \in Clients, Forward(c) \/ ForwardEnds(c)
      PROVE  ChannelInv'
  BY <1>9 DEF Forward, ForwardEnds
<1>10. ASSUME NEW c \in Clients, WriteLock(c) \/ InputTaken(c) \/ WriteFails(c)
       PROVE  ChannelInv'
  BY <1>10 DEF WriteLock, InputTaken, WriteFails, streams
<1>11. CASE UNCHANGED vars
  BY <1>11 DEF vars, streams
<1> QED
  BY <1>1, <1>2, <1>3, <1>4, <1>5, <1>6, <1>7, <1>8, <1>9, <1>10, <1>11
     DEF Next, ReaderStep, KillerStep, HandlerStep

\* No goroutine ever sends on a closed channel or closes one twice (broadcast,
\* close, and the EOF branch of the reader): the application does not panic.
THEOREM NeverPanics == Spec => []NoPanic
<1>1. ChannelInv => NoPanic
  BY DEF ChannelInv, NoPanic
<1> QED
  BY ChannelInit, ChannelNext, <1>1, PTL DEF Spec

-----------------------------------------------------------------------------
\* A local session that is closed has lost its program: the waiter closes it
\* after the exit, close() kills and waits before anything else can look.
DeadInv ==
  ~remote =>
    /\ closed => ~alive
    /\ killer \in {"closing", "done"} => closed

LEMMA DeadInit == Init => DeadInv
BY DEF Init, DeadInv

LEMMA DeadNext == DeadInv /\ [Next]_vars => DeadInv'
<1> SUFFICES ASSUME DeadInv, [Next]_vars
             PROVE  DeadInv'
  OBVIOUS
<1> USE DEF DeadInv, program, session
<1>1. CASE ProgramPrints \/ ProgramExits \/ ConnectionLost
  BY <1>1 DEF ProgramPrints, ProgramExits, ConnectionLost
<1>2. CASE ReadChunk \/ WriteMonitor \/ Broadcast \/ ReaderEnds
  BY <1>2 DEF ReadChunk, WriteMonitor, Broadcast, ReaderEnds
<1>3. CASE WaiterEnds
  BY <1>3 DEF WaiterEnds
<1>4. CASE Kill
  BY <1>4 DEF Kill
<1>5. CASE CloseAgain
  BY <1>5 DEF CloseAgain
<1>6. CASE CloseTerminal
  BY <1>6 DEF CloseTerminal
<1>7. CASE CloseStreams
  BY <1>7 DEF CloseStreams
<1>8. ASSUME NEW c \in Clients, Connect(c) \/ HandlerStep(c) \/ Disconnect(c)
      PROVE  DeadInv'
  BY <1>8 DEF Connect, HandlerStep, Replay, Subscribe, Forward, ForwardEnds, Disconnect
<1>9. ASSUME NEW c \in Clients, WriteLock(c) \/ InputTaken(c) \/ WriteFails(c)
      PROVE  DeadInv'
  BY <1>9 DEF WriteLock, InputTaken, WriteFails
<1>10. CASE UNCHANGED vars
  BY <1>10 DEF vars
<1> QED
  BY <1>1, <1>2, <1>3, <1>4, <1>5, <1>6, <1>7, <1>8, <1>9, <1>10
     DEF Next, ReaderStep, KillerStep

\* When Manager.Kill returns, the program of a local session is dead, even
\* if its exit and the Kill met: Instance.Kill may remove the worktree then.
THEOREM KillIsFinal == Spec => []KilledIsDead
<1>1. DeadInv => KilledIsDead
  BY DEF DeadInv, KilledIsDead
<1> QED
  BY DeadInit, DeadNext, <1>1, PTL DEF Spec
-----------------------------------------------------------------------------
\* The type invariant, with what it rests on: a reader that holds a chunk has
\* read one.
TypeInv ==
  /\ TypeOK
  /\ reader \in {"writing", "sending"} => taken > 0

LEMMA TypeInit == Init => TypeInv
<1> SUFFICES ASSUME Init PROVE TypeInv
  OBVIOUS
<1> USE ConstantsAssumption DEF Init
<1>1. /\ chan \in [Clients -> Seq(1..MaxOutput)]
      /\ got \in [Clients -> Seq(1..MaxOutput)]
      /\ \A c \in Clients : Len(chan[c]) <= ChanSize
  OBVIOUS
<1>2. /\ since \in [Clients -> 0..MaxOutput]
      /\ lost \in [Clients -> SUBSET (1..MaxOutput)]
  OBVIOUS
<1>3. /\ client \in [Clients -> {"idle", "found", "replayed", "streaming", "done"}]
      /\ typing \in [Clients -> {"off", "ready", "writing"}]
  OBVIOUS
<1>4. {remote, alive, ttyOpen, ptmx, inMap, closed, exited, panicked} \subseteq BOOLEAN
  OBVIOUS
<1>5. /\ output \in 0..MaxOutput /\ taken \in 0..output
      /\ mu \in Clients \cup {None, Killer}
      /\ reader = "reading" /\ killer = "idle"
      /\ subs = {} /\ chanOpen = {} /\ gone = {}
  OBVIOUS
<1> QED
  BY <1>1, <1>2, <1>3, <1>4, <1>5 DEF TypeInv, TypeOK

\* A chunk on its way is a chunk that was printed.
LEMMA TakenIsChunk ==
  ASSUME TypeInv, reader \in {"writing", "sending"}
  PROVE  taken \in 1..MaxOutput
BY ConstantsAssumption DEF TypeInv, TypeOK

LEMMA TypeNext == TypeInv /\ [Next]_vars => TypeInv'
<1> SUFFICES ASSUME TypeInv, [Next]_vars
             PROVE  TypeInv'
  OBVIOUS
<1> USE ConstantsAssumption
<1> USE DEF TypeInv, TypeOK
<1>1. CASE ProgramPrints
  <2>1. output' \in 0..MaxOutput /\ taken \in 0..output'
    BY <1>1 DEF ProgramPrints
  <2> QED
    BY <1>1, <2>1 DEF ProgramPrints, session, streams, viewers, history
<1>2. CASE ProgramExits \/ ConnectionLost
  BY <1>2 DEF ProgramExits, ConnectionLost, program, session, streams, viewers, history
<1>3. CASE ReadChunk \/ WriteMonitor
  BY <1>3 DEF ReadChunk, WriteMonitor, program, session, streams, viewers, history
<1>4. CASE Broadcast
  <2> USE <1>4 DEF Broadcast, program, session, viewers
  <2>1. taken \in 1..MaxOutput
    BY TakenIsChunk
  <2>2. chan' \in [Clients -> Seq(1..MaxOutput)]
    <3>1. \A c \in Clients : Append(chan[c], taken) \in Seq(1..MaxOutput)
      BY <2>1
    <3> QED
      BY <3>1
  <2>3. \A c \in Clients : Len(chan'[c]) <= ChanSize
    BY <2>1 DEF Full
  <2>4. lost' \in [Clients -> SUBSET (1..MaxOutput)]
    BY <2>1
  <2>5. panicked' \in BOOLEAN
    OBVIOUS
  <2> QED
    BY <2>2, <2>3, <2>4, <2>5
<1>5. CASE ReaderEnds
  BY <1>5 DEF ReaderEnds, CloseSubscribers, program, session, viewers, history
<1>6. CASE WaiterEnds \/ Kill \/ CloseAgain
  BY <1>6 DEF WaiterEnds, Kill, CloseAgain, program, session, streams, viewers, history
<1>7. CASE CloseTerminal
  BY <1>7 DEF CloseTerminal, session, streams, viewers, history
<1>8. CASE CloseStreams
  BY <1>8 DEF CloseStreams, CloseSubscribers, program, session, viewers, history
<1>9. ASSUME NEW c \in Clients, Connect(c) \/ Disconnect(c)
      PROVE  TypeInv'
  BY <1>9 DEF Connect, Disconnect, program, session, streams, viewers, history
<1>10. ASSUME NEW c \in Clients, Replay(c)
      PROVE  TypeInv'
  BY <1>10 DEF Replay, program, session, streams, history
<1>11. ASSUME NEW c \in Clients, Subscribe(c)
       PROVE  TypeInv'
  BY <1>11 DEF Subscribe, Broadcasted, program, session
<1>12. ASSUME NEW c \in Clients, Forward(c)
       PROVE  TypeInv'
  <2> USE <1>12 DEF Forward, program, session, viewers
  <2>1. /\ Head(chan[c]) \in 1..MaxOutput
        /\ Tail(chan[c]) \in Seq(1..MaxOutput)
        /\ Len(Tail(chan[c])) <= ChanSize
    <3>1. chan[c] \in Seq(1..MaxOutput) /\ chan[c] # <<>> /\ Len(chan[c]) <= ChanSize
      OBVIOUS
    <3>2. /\ Head(chan[c]) \in 1..MaxOutput /\ Tail(chan[c]) \in Seq(1..MaxOutput)
          /\ Len(Tail(chan[c])) = Len(chan[c]) - 1
      BY ONLY <3>1, HeadTailProperties
    <3>3. Len(chan[c]) \in Nat
      BY ONLY <3>1
    <3> QED
      BY <3>1, <3>2, <3>3
  <2>2. chan' \in [Clients -> Seq(1..MaxOutput)]
    BY <2>1
  <2>3. \A d \in Clients : Len(chan'[d]) <= ChanSize
    BY <2>1
  <2>4. got' \in [Clients -> Seq(1..MaxOutput)]
    BY <2>1
  <2> QED
    BY <2>2, <2>3, <2>4
<1>13. ASSUME NEW c \in Clients, ForwardEnds(c)
       PROVE  TypeInv'
  BY <1>13 DEF ForwardEnds, program, session, history
<1>14. ASSUME NEW c \in Clients, WriteLock(c) \/ InputTaken(c) \/ WriteFails(c)
       PROVE  TypeInv'
  BY <1>14 DEF WriteLock, InputTaken, WriteFails, program, session, streams, history
<1>15. CASE UNCHANGED vars
  BY <1>15 DEF vars, program, session, streams, viewers, history
<1> QED
  BY <1>1, <1>2, <1>3, <1>4, <1>5, <1>6, <1>7, <1>8, <1>9, <1>10, <1>11, <1>12, <1>13, <1>14, <1>15
     DEF Next, ReaderStep, KillerStep, HandlerStep

\* The state keeps its types: no channel ever holds more than its capacity,
\* and the reader is never ahead of the program.
THEOREM TypeCorrect == Spec => []TypeOK
<1>1. TypeInv => TypeOK
  BY DEF TypeInv
<1> QED
  BY TypeInit, TypeNext, <1>1, PTL DEF Spec

-----------------------------------------------------------------------------
(***************************************************************************)
(* What a subscriber has got and what waits in its channel is one          *)
(* sequence: sending moves its boundary, a broadcast adds the next chunk   *)
(* to its end or to the lost ones.                                         *)
(***************************************************************************)
Live(c) == got[c] \o chan[c]
Sorted(s) == \A i, j \in 1..Len(s) : i < j => s[i] < s[j]
Elements(s) == {s[i] : i \in 1..Len(s)}

Exact(c) ==
  /\ Sorted(Live(c))
  /\ Elements(Live(c)) \cup lost[c] = since[c] + 1 .. Broadcasted
  /\ since[c] <= Broadcasted

\* A handler that has not subscribed yet has got nothing.
Fresh(c) == c \notin subs /\ got[c] = <<>> /\ chan[c] = <<>> /\ lost[c] = {}

StreamInv ==
  /\ \A c \in Clients : client[c] \in {"idle", "found", "replayed"} => Fresh(c)
  /\ \A c \in subs : Exact(c)

Chunks == Seq(1..MaxOutput)

LEMMA AppendSorted ==
  ASSUME NEW s \in Seq(1..MaxOutput), NEW x \in 1..MaxOutput, Sorted(s), \A y \in Elements(s) : y < x
  PROVE  Sorted(Append(s, x)) /\ Elements(Append(s, x)) = Elements(s) \cup {x}
<1>1. /\ Len(Append(s, x)) = Len(s) + 1 /\ Len(s) \in Nat
      /\ \A i \in 1..Len(s) : Append(s, x)[i] = s[i]
      /\ Append(s, x)[Len(s) + 1] = x
  BY AppendProperties
<1>2. ASSUME NEW i \in 1..Len(s) + 1, NEW j \in 1..Len(s) + 1, i < j
      PROVE  Append(s, x)[i] < Append(s, x)[j]
  <2>1. CASE j = Len(s) + 1
    BY <1>1, <1>2, <2>1 DEF Elements
  <2>2. CASE j # Len(s) + 1
    BY <1>1, <1>2, <2>2 DEF Sorted
  <2> QED
    BY <2>1, <2>2
<1>3. Elements(Append(s, x)) = Elements(s) \cup {x}
  <2>1. 1..Len(s) + 1 = (1..Len(s)) \cup {Len(s) + 1}
    BY <1>1
  <2> QED
    BY <1>1, <2>1 DEF Elements
<1> QED
  BY <1>1, <1>2, <1>3 DEF Sorted

\* Sending the first chunk of the channel does not change the stream.
LEMMA ForwardKeeps ==
  ASSUME NEW g \in Chunks, NEW q \in Chunks, q # <<>>
  PROVE  Append(g, Head(q)) \o Tail(q) = g \o q
<1> USE DEF Chunks
<1>1. Head(q) \in 1..MaxOutput /\ Tail(q) \in Chunks /\ <<Head(q)>> \in Chunks
  <2>1. Head(q) \in 1..MaxOutput /\ Tail(q) \in Chunks
    BY HeadTailProperties
  <2> QED
    BY <2>1
<1>2. Append(g, Head(q)) = g \o <<Head(q)>>
  BY <1>1, AppendIsConcat
<1>3. <<Head(q)>> \o Tail(q) = q
  BY <1>1
<1> QED
  BY <1>1, <1>2, <1>3, ConcatAssociative

LEMMA AppendToConcat ==
  ASSUME NEW g \in Chunks, NEW q \in Chunks, NEW x \in 1..MaxOutput
  PROVE  g \o Append(q, x) = Append(g \o q, x) /\ g \o q \in Chunks
<1> USE DEF Chunks
<1>1. <<x>> \in Chunks /\ g \o q \in Chunks
  BY ConcatProperties
<1>2. Append(q, x) = q \o <<x>> /\ Append(g \o q, x) = (g \o q) \o <<x>>
  BY <1>1, AppendIsConcat
<1> QED
  BY <1>1, <1>2, ConcatAssociative

\* The steps that do not touch the streams.
LEMMA StreamStays ==
  ASSUME StreamInv, UNCHANGED <<chan, got, lost, since>>, Broadcasted' = Broadcasted,
         subs' \subseteq subs,
         \A c \in Clients : client'[c] \in {"idle", "found", "replayed"} =>
                              client[c] \in {"idle", "found", "replayed"}
  PROVE  StreamInv'
<1>1. ASSUME NEW c \in subs' PROVE Exact(c)'
  <2>1. Exact(c)
    BY DEF StreamInv
  <2> QED
    BY <2>1 DEF Exact, Live
<1> QED
  BY <1>1 DEF StreamInv, Fresh

LEMMA BroadcastExact ==
  ASSUME TypeInv, StreamInv, Broadcast
  PROVE  StreamInv'
<1> USE ConstantsAssumption
<1>1. /\ taken \in 1..MaxOutput /\ Broadcasted = taken - 1 /\ Broadcasted' = taken
      /\ subs \subseteq Clients
      /\ chan \in [Clients -> Chunks] /\ got \in [Clients -> Chunks]
      /\ lost \in [Clients -> SUBSET (1..MaxOutput)]
      /\ since \in [Clients -> 0..MaxOutput]
  BY TakenIsChunk DEF Broadcast, Broadcasted, TypeInv, TypeOK, Chunks
<1>2. UNCHANGED <<subs, since, got, client>>
  BY DEF Broadcast, viewers
<1>3. ASSUME NEW c \in Clients, c \notin subs PROVE chan'[c] = chan[c] /\ lost'[c] = lost[c]
  BY <1>3 DEF Broadcast
<1>4. ASSUME NEW c \in subs PROVE Exact(c)'
  <2>1. c \in Clients /\ Exact(c) /\ since[c] \in Int /\ since[c] <= taken - 1
    BY <1>1 DEF StreamInv, Exact
  <2>2. Live(c) \in Chunks
    BY <1>1, <2>1, ConcatProperties DEF Live, Chunks
  <2>3. (since[c] + 1 .. taken - 1) \cup {taken} = since[c] + 1 .. taken
    BY <1>1, <2>1
  <2>4. CASE Full(c)
    <3>1. chan'[c] = chan[c] /\ lost'[c] = lost[c] \cup {taken}
      BY <2>1, <2>4 DEF Broadcast
    <3>2. Live(c)' = Live(c)
      BY <1>2, <3>1 DEF Live
    <3>3. Elements(Live(c)) \cup lost'[c] = since[c] + 1 .. taken
      BY <1>1, <2>1, <2>3, <3>1 DEF Exact
    <3> QED
      BY <1>1, <1>2, <2>1, <3>2, <3>3 DEF Exact
  <2>5. CASE ~Full(c)
    <3>1. chan'[c] = Append(chan[c], taken) /\ lost'[c] = lost[c]
      BY <2>1, <2>5 DEF Broadcast
    <3>2. Live(c)' = Append(Live(c), taken)
      <4>1. got[c] \in Chunks /\ chan[c] \in Chunks /\ got'[c] = got[c]
        BY <1>1, <1>2, <2>1
      <4>2. got[c] \o Append(chan[c], taken) = Append(got[c] \o chan[c], taken)
        BY <1>1, <4>1, AppendToConcat
      <4> QED
        BY <3>1, <4>1, <4>2 DEF Live
    <3>3. \A y \in Elements(Live(c)) : y < taken
      BY <1>1, <2>1 DEF Exact
    <3>4. Sorted(Append(Live(c), taken))
          /\ Elements(Append(Live(c), taken)) = Elements(Live(c)) \cup {taken}
      BY <1>1, <2>1, <2>2, <3>3, AppendSorted DEF Exact, Chunks
    <3>5. Elements(Append(Live(c), taken)) \cup lost[c] = since[c] + 1 .. taken
      BY <1>1, <2>1, <2>3, <3>4 DEF Exact
    <3> QED
      BY <1>1, <1>2, <2>1, <3>1, <3>2, <3>4, <3>5 DEF Exact
  <2> QED
    BY <2>4, <2>5
<1> QED
  BY <1>2, <1>3, <1>4 DEF StreamInv, Fresh

LEMMA SubscribeExact ==
  ASSUME TypeInv, StreamInv, NEW c \in Clients, Subscribe(c)
  PROVE  StreamInv'
<1>1. /\ subs' = subs \cup {c} /\ since' = [since EXCEPT ![c] = Broadcasted]
      /\ client' = [client EXCEPT ![c] = "streaming"]
      /\ UNCHANGED <<chan, got, lost>> /\ Broadcasted' = Broadcasted /\ Fresh(c)
      /\ Broadcasted \in Int
      /\ since \in [Clients -> 0..MaxOutput] /\ subs \subseteq Clients
      /\ client \in [Clients -> {"idle", "found", "replayed", "streaming", "done"}]
  BY ConstantsAssumption DEF Subscribe, StreamInv, Broadcasted, TypeInv, TypeOK
<1>2. Exact(c)'
  <2>1. Live(c)' = <<>> /\ lost'[c] = {} /\ since'[c] = Broadcasted
    BY <1>1 DEF Live, Fresh
  <2>2. Sorted(<<>>) /\ Elements(<<>>) = {}
    BY DEF Sorted, Elements
  <2>3. Broadcasted + 1 .. Broadcasted = {} /\ Broadcasted <= Broadcasted
    BY <1>1
  <2> QED
    BY <1>1, <2>1, <2>2, <2>3 DEF Exact
<1>3. ASSUME NEW d \in subs \ {c} PROVE Exact(d)'
  <2>1. Exact(d) /\ since'[d] = since[d]
    BY <1>1 DEF StreamInv
  <2> QED
    BY <1>1, <2>1 DEF Exact, Live
<1> QED
  BY <1>1, <1>2, <1>3 DEF StreamInv, Fresh

LEMMA ForwardExact ==
  ASSUME TypeInv, StreamInv, NEW c \in Clients, Forward(c)
  PROVE  StreamInv'
<1>1. /\ chan \in [Clients -> Chunks] /\ got \in [Clients -> Chunks] /\ subs \subseteq Clients
      /\ chan' = [chan EXCEPT ![c] = Tail(chan[c])] /\ chan[c] # <<>>
      /\ got' = [got EXCEPT ![c] = Append(got[c], Head(chan[c]))]
      /\ client[c] = "streaming"
      /\ UNCHANGED <<subs, since, lost, client>> /\ Broadcasted' = Broadcasted
  BY DEF Forward, viewers, Broadcasted, TypeInv, TypeOK, Chunks
<1>2. ASSUME NEW d \in Clients PROVE Live(d)' = Live(d)
  <2>1. CASE d = c
    BY <1>1, <2>1, ForwardKeeps DEF Live
  <2>2. CASE d # c
    BY <1>1, <2>2 DEF Live
  <2> QED
    BY <2>1, <2>2
<1>3. ASSUME NEW d \in subs PROVE Exact(d)'
  <2>1. Exact(d) /\ Live(d)' = Live(d)
    BY <1>1, <1>2 DEF StreamInv
  <2> QED
    BY <1>1, <2>1 DEF Exact
<1> QED
  BY <1>1, <1>3 DEF StreamInv, Fresh

LEMMA StreamNext == TypeInv /\ StreamInv /\ [Next]_vars => StreamInv'
<1> SUFFICES ASSUME TypeInv, StreamInv, [Next]_vars
             PROVE  StreamInv'
  OBVIOUS
<1>1. CASE ProgramPrints \/ ProgramExits \/ ConnectionLost
  BY <1>1, StreamStays DEF ProgramPrints, ProgramExits, ConnectionLost, streams, viewers, history, Broadcasted
<1>2. CASE ReadChunk \/ WriteMonitor
  <2>1. Broadcasted' = Broadcasted
    <3>1. taken \in Nat
      BY ConstantsAssumption DEF TypeInv, TypeOK
    <3>2. CASE ReadChunk
      BY <3>1, <3>2 DEF ReadChunk, Broadcasted
    <3>3. CASE WriteMonitor
      BY <3>3 DEF WriteMonitor, Broadcasted
    <3> QED
      BY <1>2, <3>2, <3>3
  <2> QED
    BY <1>2, <2>1, StreamStays DEF ReadChunk, WriteMonitor, streams, viewers, history
<1>3. CASE Broadcast
  BY <1>3, BroadcastExact
<1>4. CASE ReaderEnds \/ CloseStreams
  BY <1>4, StreamStays DEF ReaderEnds, CloseStreams, CloseSubscribers, viewers, history, Broadcasted
<1>5. CASE WaiterEnds \/ Kill \/ CloseAgain \/ CloseTerminal
  BY <1>5, StreamStays DEF WaiterEnds, Kill, CloseAgain, CloseTerminal, streams, viewers, history, Broadcasted
<1>6. ASSUME NEW c \in Clients, Connect(c) \/ Replay(c) \/ Disconnect(c) \/ ForwardEnds(c)
      PROVE  StreamInv'
  <2>1. UNCHANGED <<chan, history>> /\ Broadcasted' = Broadcasted /\ subs' \subseteq subs
    BY <1>6 DEF Connect, Replay, Disconnect, ForwardEnds, streams, history, Broadcasted
  <2>2. \A d \in Clients : client'[d] \in {"idle", "found", "replayed"} =>
                             client[d] \in {"idle", "found", "replayed"}
    BY <1>6 DEF Connect, Replay, Disconnect, ForwardEnds, TypeInv, TypeOK
  <2> QED
    BY <2>1, <2>2, StreamStays DEF history
<1>7. ASSUME NEW c \in Clients, Subscribe(c) PROVE StreamInv'
  BY <1>7, SubscribeExact
<1>8. ASSUME NEW c \in Clients, Forward(c) PROVE StreamInv'
  BY <1>8, ForwardExact
<1>9. ASSUME NEW c \in Clients, WriteLock(c) \/ InputTaken(c) \/ WriteFails(c)
      PROVE  StreamInv'
  BY <1>9, StreamStays DEF WriteLock, InputTaken, WriteFails, streams, history, Broadcasted
<1>10. CASE UNCHANGED vars
  BY <1>10, StreamStays DEF vars, streams, viewers, history, Broadcasted
<1> QED
  BY <1>1, <1>2, <1>3, <1>4, <1>5, <1>6, <1>7, <1>8, <1>9, <1>10
     DEF Next, ReaderStep, KillerStep, HandlerStep

\* What a viewer gets from its subscription on is the live output, in order
\* and each chunk once, but for the chunks its full channel dropped: for any
\* viewers, any capacity and any output (broadcast, handleWS).
THEOREM StreamsExact == Spec => []StreamExact
<1>1. Init => StreamInv
  BY DEF Init, StreamInv, Fresh
<1>2. StreamInv => StreamExact
  BY DEF StreamInv, StreamExact, Exact, Live, Sorted, Elements
<1>3. Spec => []TypeInv
  BY TypeInit, TypeNext, PTL DEF Spec
<1> QED
  BY <1>1, <1>2, <1>3, StreamNext, PTL DEF Spec

-----------------------------------------------------------------------------
(***************************************************************************)
(* The monitor a session's reader writes to.  The ring buffer holds the    *)
(* end of the output, and a change is reported only after output, for      *)
(* every size of the buffer and of the part that is searched for a prompt. *)
(***************************************************************************)

\* The types of what Write changes; the buffer fills from its start.
BufferInv ==
  /\ buf \in [0..Size - 1 -> Bytes \cup {Zero}]
  /\ writePos \in 0..Size - 1
  /\ used \in 0..Size
  /\ written \in Seq(Bytes)
  /\ used = IF Len(written) < Size THEN Len(written) ELSE Size
  /\ used < Size => writePos = used

\* Where the i-th byte of the content lies.
Place(i) ==
  IF used < Size THEN i - 1
  ELSE IF i <= Size - writePos THEN writePos + i - 1 ELSE writePos + i - 1 - Size

TailInv == \A i \in 1..used : buf[Place(i)] = written[Len(written) - used + i]

MonitorInv == BufferInv /\ TailInv

LEMMA InitTail == MonitorInit => MonitorInv
  BY SizesAssumption DEF MonitorInit, MonitorInv, BufferInv, TailInv, Place

\* A byte takes the place after the last one: the next free place, or, once
\* the buffer is full, the place of the oldest.
LEMMA WriteTail ==
  ASSUME MonitorInv, NEW b \in Bytes, Write(b)
  PROVE  MonitorInv'
<1> USE SizesAssumption
<1>1. BufferInv'
  BY DEF MonitorInv, BufferInv, Write
<1>2. /\ written' = Append(written, b) /\ Len(written') = Len(written) + 1
      /\ \A k \in 1..Len(written) : written'[k] = written[k]
      /\ written'[Len(written) + 1] = b
  BY DEF MonitorInv, BufferInv, Write
<1>3. /\ buf'[writePos] = b
      /\ \A k \in 0..Size - 1 : k # writePos => buf'[k] = buf[k]
  BY DEF MonitorInv, BufferInv, Write
<1>4. CASE used < Size
  <2>1. used' = used + 1 /\ Len(written) = used /\ writePos = used /\ used \in Nat
    BY <1>4 DEF MonitorInv, BufferInv, Write
  <2>2. ASSUME NEW i \in 1..used + 1 PROVE Place(i)' = i - 1
    BY <1>1, <1>4, <2>1 DEF BufferInv, Write, Place
  <2>3. ASSUME NEW i \in 1..used PROVE buf'[i - 1] = written'[i]
    <3>1. buf[i - 1] = written[i]
      BY <1>4, <2>1 DEF MonitorInv, TailInv, Place
    <3>2. i - 1 \in 0..Size - 1 /\ i - 1 # writePos
      BY <1>4, <2>1
    <3> QED
      BY <1>2, <1>3, <2>1, <3>1, <3>2
  <2>4. buf'[used + 1 - 1] = written'[used + 1]
    BY <1>2, <1>3, <2>1
  <2>5. ASSUME NEW i \in 1..used' PROVE buf'[Place(i)'] = written'[Len(written') - used' + i]
    <3>1. i \in 1..used + 1 /\ Len(written') - used' + i = i
      BY <1>2, <2>1
    <3>2. CASE i = used + 1
      BY <2>1, <2>2, <2>4, <3>1, <3>2
    <3>3. CASE i # used + 1
      BY <2>1, <2>2, <2>3, <3>1, <3>3
    <3> QED
      BY <3>2, <3>3
  <2> QED
    BY <1>1, <2>5 DEF MonitorInv, TailInv
<1>5. CASE used = Size
  <2>1. used' = Size /\ Len(written) \in Nat /\ Len(written) >= Size
    BY <1>5 DEF MonitorInv, BufferInv, Write
  <2>2. ASSUME NEW i \in 1..Size - 1 PROVE Place(i)' = Place(i + 1) /\ Place(i + 1) \in 0..Size - 1 /\ Place(i + 1) # writePos
    BY <1>5, <2>1 DEF MonitorInv, BufferInv, Write, Place
  <2>3. Place(Size)' = writePos
    BY <1>5, <2>1 DEF MonitorInv, BufferInv, Write, Place
  <2>4. ASSUME NEW i \in 1..Size - 1 PROVE buf'[Place(i)'] = written'[Len(written') - Size + i]
    <3>1. buf'[Place(i)'] = buf[Place(i + 1)]
      BY <1>3, <2>2
    <3>2. buf[Place(i + 1)] = written[Len(written) - Size + (i + 1)]
      BY <1>5 DEF MonitorInv, TailInv
    <3>3. Len(written) - Size + (i + 1) \in 1..Len(written)
      BY <2>1
    <3> QED
      BY <1>2, <2>1, <3>1, <3>2, <3>3
  <2>5. buf'[Place(Size)'] = written'[Len(written') - Size + Size]
    BY <1>2, <1>3, <2>1, <2>3
  <2>6. TailInv'
    <3> SUFFICES ASSUME NEW i \in 1..used' PROVE (buf[Place(i)] = written[Len(written) - used + i])'
      BY DEF TailInv
    <3>1. CASE i = Size
      BY <3>1, <2>1, <2>5
    <3>2. CASE i # Size
      BY <3>2, <2>1, <2>4
    <3> QED
      BY <3>1, <3>2
  <2> QED
    BY <1>1, <2>6 DEF MonitorInv
<1> QED
  BY <1>4, <1>5 DEF MonitorInv, BufferInv

LEMMA TailStep == MonitorInv /\ [MonitorNext]_monitorVars => MonitorInv'
<1> SUFFICES ASSUME MonitorInv, [MonitorNext]_monitorVars PROVE MonitorInv'
  OBVIOUS
<1>1. ASSUME NEW b \in Bytes, Write(b) PROVE MonitorInv'
  BY <1>1, WriteTail
<1>2. CASE HasUpdated
  BY <1>2 DEF MonitorInv, BufferInv, TailInv, Place, HasUpdated
<1>3. CASE UNCHANGED monitorVars
  BY <1>3 DEF MonitorInv, BufferInv, TailInv, Place, monitorVars
<1> QED
  BY <1>1, <1>2, <1>3 DEF MonitorNext

\* The content is a sequence, its i-th element the byte at its place.
LEMMA ContentIs ==
  ASSUME MonitorInv
  PROVE  Content = SubSeq(written, Len(written) - used + 1, Len(written))
<1> USE SizesAssumption
<1>1. Content = [i \in 1..used |-> buf[Place(i)]]
  BY DEF Content, Place, MonitorInv, BufferInv
<1>2. SubSeq(written, Len(written) - used + 1, Len(written))
        = [i \in 1..used |-> written[Len(written) - used + i]]
  <2>1. Len(written) \in Nat /\ used \in 0..Len(written) /\ written \in Seq(Bytes)
    BY DEF MonitorInv, BufferInv
  <2>2. CASE used = 0
    BY <2>1, <2>2
  <2>3. CASE used # 0
    <3>1. Len(written) - used + 1 \in 1..Len(written)
      BY <2>1, <2>3
    <3>2. /\ SubSeq(written, Len(written) - used + 1, Len(written)) \in Seq(Bytes)
          /\ Len(SubSeq(written, Len(written) - used + 1, Len(written))) = used
          /\ \A i \in 1..used : SubSeq(written, Len(written) - used + 1, Len(written))[i]
                                  = written[Len(written) - used + i]
      BY <2>1, <2>3, <3>1, SMTT(30)
    <3> QED
      BY <2>1, <3>2
  <2> QED
    BY <2>2, <2>3
<1>3. [i \in 1..used |-> buf[Place(i)]] = [i \in 1..used |-> written[Len(written) - used + i]]
  BY DEF MonitorInv, TailInv
<1> QED
  BY ONLY <1>1, <1>2, <1>3

LEMMA PromptIs ==
  ASSUME MonitorInv, NEW from,
         from = IF Len(written) < TailSize THEN 1 ELSE Len(written) - TailSize + 1
  PROVE  HasPrompt <=> \E i \in from..Len(written) : i > Len(written) - Size /\ written[i] \in Prompts
<1> USE SizesAssumption
<1> DEFINE n == Len(written)
           k == IF used > TailSize THEN TailSize ELSE used
<1>1. n \in Nat /\ used \in Nat /\ used <= n /\ k \in Nat /\ k <= used
  BY DEF MonitorInv, BufferInv
<1>2. /\ Content = [i \in 1..used |-> written[n - used + i]]
      /\ Len(Content) = used
  BY ContentIs DEF MonitorInv, BufferInv
<1>3. TailOfContent = [i \in 1..k |-> written[n - k + i]] /\ Len(TailOfContent) = k
  <2>1. CASE used > TailSize
    <3>1. TailOfContent = [i \in 1..TailSize |-> Content[used - TailSize + 1 + i - 1]]
      BY <1>1, <1>2, <2>1 DEF TailOfContent
    <3> QED
      BY <1>1, <1>2, <2>1, <3>1
  <2>2. CASE ~(used > TailSize)
    BY <1>1, <1>2, <2>2 DEF TailOfContent
  <2> QED
    BY <2>1, <2>2
<1>4. ShowsPrompt <=> \E i \in 1..k : written[n - k + i] \in Prompts
  BY <1>1, <1>3 DEF ShowsPrompt
<1>5. ASSUME NEW j \in Int
      PROVE  j \in n - k + 1..n <=> j \in from..n /\ j > n - Size
  BY <1>1 DEF MonitorInv, BufferInv
<1>6. (\E i \in 1..k : written[n - k + i] \in Prompts) <=> \E j \in n - k + 1..n : written[j] \in Prompts
  <2>1. ASSUME NEW j \in n - k + 1..n PROVE j - (n - k) \in 1..k /\ n - k + (j - (n - k)) = j
    BY <1>1
  <2>2. ASSUME NEW i \in 1..k PROVE n - k + i \in n - k + 1..n
    BY <1>1
  <2> QED
    BY <2>1, <2>2
<1>7. (\E j \in n - k + 1..n : written[j] \in Prompts)
        <=> \E j \in from..n : j > n - Size /\ written[j] \in Prompts
  BY <1>1, <1>5 DEF MonitorInv, BufferInv
<1>8. ShowsPrompt => used # 0
  BY <1>1, <1>4
<1> QED
  BY <1>4, <1>6, <1>7, <1>8 DEF HasPrompt

\* What the buffer shows, its content and whether there is a prompt, is the
\* end of the output, for every size.
THEOREM ShowsTheEnd == MonitorSpec => []ContentIsTail
<1>1. MonitorInv => ContentIsTail
  BY ContentIs, PromptIs DEF ContentIsTail, MonitorInv, BufferInv
<1> QED
  BY <1>1, InitTail, TailStep, PTL DEF MonitorSpec

-----------------------------------------------------------------------------
\* Division with remainder is unique.
LEMMA OneRemainder ==
  ASSUME NEW s \in Nat \ {0}, NEW a \in Int, NEW b \in Int, NEW p \in 0..s - 1, NEW q \in 0..s - 1,
         s * a + p = s * b + q
  PROVE  p = q
<1>1. s * (b - a) = p - q
  OBVIOUS
<1>2. CASE a < b
  <2>1. b - a >= 1
    BY <1>2
  <2>2. s * (b - a) >= s
    BY <2>1
  <2> QED
    BY <1>1, <2>2
<1>3. CASE b < a
  <2>1. a - b >= 1
    BY <1>3
  <2>2. s * (a - b) >= s
    BY <2>1
  <2>3. s * (a - b) = q - p
    OBVIOUS
  <2> QED
    BY <2>2, <2>3
<1>4. CASE a = b
  BY <1>4
<1> QED
  BY <1>2, <1>3, <1>4

\* The place of a byte goes up by one and round at the end of the buffer; and
\* bytes less than a buffer's length apart have places of their own.
LEMMA NextPlace ==
  ASSUME NEW n \in Nat, NEW s \in Nat \ {0}
  PROVE  /\ n % s \in 0..s - 1
         /\ (n + 1) % s = IF (n % s) + 1 = s THEN 0 ELSE (n % s) + 1
<1> DEFINE a == n \div s
           b == (n + 1) \div s
           p == n % s
           q == (n + 1) % s
<1>1. n = s * a + p /\ p \in 0..s - 1 /\ a \in Int
  OBVIOUS
<1>2. n + 1 = s * b + q /\ q \in 0..s - 1 /\ b \in Int
  OBVIOUS
<1>3. q = IF p + 1 = s THEN 0 ELSE p + 1
  <2> HIDE DEF a, b, p, q
  <2>1. CASE p + 1 = s
    <3>1. s * b + q = s * (a + 1) + 0
      BY <1>1, <1>2, <2>1
    <3>2. a + 1 \in Int /\ 0 \in 0..s - 1
      BY <1>1
    <3> QED
      BY <1>2, <2>1, <3>1, <3>2, OneRemainder
  <2>2. CASE p + 1 # s
    <3>1. s * b + q = s * a + (p + 1)
      BY <1>1, <1>2
    <3>2. p + 1 \in 0..s - 1
      BY <1>1, <2>2
    <3> QED
      BY <1>1, <1>2, <2>2, <3>1, <3>2, OneRemainder
  <2> QED
    BY <2>1, <2>2
<1> QED
  BY <1>1, <1>3

LEMMA PlacesDiffer ==
  ASSUME NEW m \in Nat, NEW n \in Nat, NEW s \in Nat \ {0}, m < n, n - m < s
  PROVE  m % s # n % s
<1> SUFFICES ASSUME m % s = n % s PROVE FALSE
  OBVIOUS
<1> DEFINE a == m \div s
           b == n \div s
<1>1. m = s * a + (m % s) /\ a \in Int
  OBVIOUS
<1>2. n = s * b + (n % s) /\ b \in Int
  OBVIOUS
<1> HIDE DEF a, b
<1>3. n - m = s * (b - a)
  BY <1>1, <1>2
<1>4. b - a >= 1
  BY <1>1, <1>2, <1>3
<1>5. s * (b - a) >= s
  BY <1>1, <1>2, <1>4
<1> QED
  BY <1>3, <1>5

-----------------------------------------------------------------------------
\* A buffer of the last bytes of the first n, each at its place.
Laid(f, n) ==
  \A i \in 1..n : i > n - Size => f[(i - 1) % Size] = written[i]

Held(n) == IF n < Size THEN n ELSE Size

\* The hash kept is that of the buffer as it lay at the last question.
HashInv ==
  /\ polled \in 0..Len(written)
  /\ writePos = Len(written) % Size
  /\ Laid(buf, Len(written))
  /\ polled > 0 => DOMAIN lastHash = 0..Held(polled) - 1
  /\ polled = 0 => lastHash = <<>>
  /\ Len(written) = polled /\ used # 0 => lastHash = Hash
  /\ Laid(lastHash, polled)

\* The last question found what it should.
AnswerInv ==
  /\ answer.from \in Nat /\ answer.upto \in 0..Len(written)
  /\ MissedOnlyRepeats

LEMMA HashWrite ==
  ASSUME MonitorInv, HashInv, NEW b \in Bytes, Write(b)
  PROVE  HashInv'
<1> USE SizesAssumption
<1> DEFINE n == Len(written)
<1>1. /\ n \in Nat /\ Len(written') = n + 1
      /\ \A k \in 1..n : written'[k] = written[k]
      /\ written'[n + 1] = b
  BY DEF MonitorInv, BufferInv, Write
<1>2. /\ buf'[writePos] = b
      /\ \A k \in 0..Size - 1 : k # writePos => buf'[k] = buf[k]
  BY DEF MonitorInv, BufferInv, Write
<1>3. n % Size \in 0..Size - 1 /\ writePos' = (n + 1) % Size
  BY <1>1, NextPlace DEF HashInv, Write
<1>4. Laid(buf, n)'
  <2>1. ASSUME NEW i \in 1..n + 1, i > n + 1 - Size
        PROVE  buf'[(i - 1) % Size] = written'[i]
    <3>1. CASE i = n + 1
      BY <1>1, <1>2, <3>1 DEF HashInv
    <3>2. CASE i # n + 1
      <4>1. i - 1 \in Nat /\ i - 1 < n /\ n - (i - 1) < Size /\ i \in 1..n
        BY <1>1, <2>1, <3>2
      <4>2. (i - 1) % Size # writePos
        BY <1>1, <4>1, PlacesDiffer DEF HashInv
      <4>3. (i - 1) % Size \in 0..Size - 1
        BY <4>1, NextPlace
      <4>4. buf[(i - 1) % Size] = written[i]
        BY <1>1, <4>1 DEF HashInv, Laid
      <4> QED
        BY <1>1, <1>2, <4>1, <4>2, <4>3, <4>4
    <3> QED
      BY <3>1, <3>2
  <2>2. \A i \in 1..n + 1 : i > n + 1 - Size => buf'[(i - 1) % Size] = written'[i]
    BY <2>1
  <2>3. \A i \in 1..n' : i > n' - Size => buf'[(i - 1) % Size] = written'[i]
    <3>1. n' = n + 1
      BY <1>1
    <3> QED
      BY <2>2, <3>1
  <2> QED
    BY <2>3, Zenon DEF Laid
<1>5. Laid(lastHash, polled)'
  BY <1>1 DEF HashInv, Laid, Write
<1> QED
  BY <1>1, <1>3, <1>4, <1>5 DEF HashInv, Write, Held

\* What the question finds: a new hash is one of new output, and an old one
\* that of output which repeats what the buffer held.
LEMMA HashTells ==
  ASSUME MonitorInv, HashInv
  PROVE  /\ used # 0 /\ Hash # lastHash => polled < Len(written)
         /\ polled < Len(written) /\ ~(used # 0 /\ Hash # lastHash) =>
              /\ polled >= Size
              /\ \A i \in Len(written) - Size + 1..Len(written), j \in polled - Size + 1..polled :
                   i % Size = j % Size => written[i] = written[j]
<1> USE SizesAssumption
<1> DEFINE n == Len(written)
<1>1. n \in Nat /\ used = Held(n) /\ polled \in 0..n
  BY DEF MonitorInv, BufferInv, HashInv, Held
<1>2. DOMAIN Hash = 0..used - 1 /\ \A p \in 0..used - 1 : Hash[p] = buf[p]
  BY DEF Hash
<1>3. used # 0 /\ Hash # lastHash => polled < n
  BY <1>1 DEF HashInv
<1>4. ASSUME polled < n, ~(used # 0 /\ Hash # lastHash)
      PROVE  /\ polled >= Size
             /\ \A i \in n - Size + 1..n, j \in polled - Size + 1..polled :
                  i % Size = j % Size => written[i] = written[j]
  <2>1. used # 0 /\ Hash = lastHash
    BY <1>1, <1>4 DEF Held
  <2>2. polled > 0
    <3> SUFFICES ASSUME polled = 0 PROVE FALSE
      BY <1>1
    <3>1. DOMAIN lastHash = {}
      BY DEF HashInv
    <3>2. 0 \in DOMAIN Hash
      BY <1>1, <1>2, <2>1 DEF Held
    <3> QED
      BY <2>1, <3>1, <3>2
  <2>3. 0..used - 1 = 0..Held(polled) - 1
    BY <1>2, <2>1, <2>2 DEF HashInv
  <2>4. polled >= Size
    <3> SUFFICES ASSUME polled < Size PROVE FALSE
      BY <1>1
    <3>1. polled \in 0..used - 1 /\ polled \notin 0..Held(polled) - 1
      BY <1>1, <1>4 DEF Held
    <3> QED
      BY <2>3, <3>1
  <2>5. ASSUME NEW i \in n - Size + 1..n, NEW j \in polled - Size + 1..polled, i % Size = j % Size
        PROVE  written[i] = written[j]
    <3>1. /\ i \in 1..n /\ i > n - Size /\ i - 1 \in Nat
          /\ j \in 1..polled /\ j > polled - Size /\ j - 1 \in Nat
          /\ (i - 1) + 1 = i /\ (j - 1) + 1 = j
      BY <1>1, <1>4, <2>4
    <3>2. (i - 1) % Size = (j - 1) % Size /\ (i - 1) % Size \in 0..Size - 1
      <4>1. /\ (i - 1) % Size \in 0..Size - 1
            /\ i % Size = IF ((i - 1) % Size) + 1 = Size THEN 0 ELSE ((i - 1) % Size) + 1
        BY <3>1, NextPlace
      <4>2. /\ (j - 1) % Size \in 0..Size - 1
            /\ j % Size = IF ((j - 1) % Size) + 1 = Size THEN 0 ELSE ((j - 1) % Size) + 1
        BY <3>1, NextPlace
      <4> QED
        BY <2>5, <4>1, <4>2
    <3>3. (i - 1) % Size \in 0..used - 1
      BY <1>1, <1>4, <2>4, <3>2 DEF Held
    <3>4. written[i] = buf[(i - 1) % Size]
      BY <3>1 DEF HashInv, Laid
    <3>5. written[j] = lastHash[(j - 1) % Size]
      BY <3>1 DEF HashInv, Laid
    <3> QED
      BY <1>2, <2>1, <3>2, <3>3, <3>4, <3>5
  <2> QED
    BY <2>4, <2>5
<1> QED
  BY <1>3, <1>4

\* A question keeps the hash of the buffer as it lies.
LEMMA HashKept ==
  ASSUME MonitorInv, HashInv, HasUpdated
  PROVE  HashInv'
<1> USE SizesAssumption
<1> DEFINE n == Len(written)
<1>1. n \in Nat /\ used = Held(n) /\ polled \in 0..n
  BY DEF MonitorInv, BufferInv, HashInv, Held
<1>2. UNCHANGED <<buf, writePos, used, written>> /\ polled' = n
  BY DEF HasUpdated
<1>3. CASE used = 0
  <2>1. n = 0 /\ polled = 0 /\ lastHash' = lastHash
    BY <1>1, <1>3 DEF Held, HasUpdated
  <2> QED
    BY <1>2, <1>3, <2>1 DEF HashInv, Laid
<1>4. CASE used # 0
  <2>1. lastHash' = [p \in 0..used - 1 |-> buf[p]]
    BY <1>4 DEF HasUpdated, Hash
  <2>2. Hash' = lastHash'
    BY <1>2, <2>1 DEF Hash
  <2>3. n > 0
    BY <1>1, <1>4 DEF Held
  <2>4. ASSUME NEW i \in 1..n, i > n - Size PROVE lastHash'[(i - 1) % Size] = written[i]
    <3>1. (i - 1) % Size \in 0..used - 1
      <4>1. CASE n < Size
        <5>1. i - 1 \in Nat /\ i - 1 < Size
          BY <1>1, <4>1
        <5>2. (i - 1) % Size = i - 1
          BY <5>1
        <5> QED
          BY <1>1, <4>1, <5>1, <5>2 DEF Held
      <4>2. CASE ~(n < Size)
        <5>1. used = Size /\ i - 1 \in Nat
          BY <1>1, <4>2 DEF Held
        <5> QED
          BY <5>1, NextPlace
      <4> QED
        BY <4>1, <4>2
    <3> QED
      BY <2>1, <2>4, <3>1 DEF HashInv, Laid
  <2>5. Laid(lastHash, polled)'
    BY <1>2, <2>4 DEF Laid
  <2>6. DOMAIN lastHash' = 0..Held(polled') - 1
    BY <1>1, <1>2, <2>1 DEF Held
  <2> QED
    BY <1>1, <1>2, <2>2, <2>3, <2>5, <2>6 DEF HashInv, Laid, Held
<1> QED
  BY <1>3, <1>4

LEMMA AnswerWrite ==
  ASSUME MonitorInv, AnswerInv, NEW b \in Bytes, Write(b)
  PROVE  AnswerInv'
<1> USE SizesAssumption
<1>1. /\ Len(written) \in Nat /\ Len(written') = Len(written) + 1 /\ answer' = answer
      /\ \A k \in 1..Len(written) : written'[k] = written[k]
  BY DEF MonitorInv, BufferInv, Write
<1>2. /\ answer.from \in Nat /\ answer.upto \in 0..Len(written)
      /\ MissedOnlyRepeats
  BY DEF AnswerInv
<1>3. ASSUME answer.from < answer.upto, ~answer.updated,
             NEW i \in answer.upto - Size + 1..answer.upto, NEW j \in answer.from - Size + 1..answer.from,
             i % Size = j % Size
      PROVE  written'[i] = written'[j]
  <2>1. answer.from >= Size /\ written[i] = written[j]
    BY <1>2, <1>3 DEF MissedOnlyRepeats
  <2>2. i \in 1..Len(written) /\ j \in 1..Len(written)
    BY <1>1, <1>2, <1>3, <2>1
  <2> QED
    BY <1>1, <2>1, <2>2
<1>4. MissedOnlyRepeats'
  <2>1. answer.updated => answer.from < answer.upto
    BY <1>2 DEF MissedOnlyRepeats
  <2>2. answer.from < answer.upto /\ ~answer.updated => answer.from >= Size
    BY <1>2 DEF MissedOnlyRepeats
  <2> QED
    BY <1>1, <1>3, <2>1, <2>2 DEF MissedOnlyRepeats
<1> QED
  BY <1>1, <1>2, <1>4 DEF AnswerInv

LEMMA HashStep == MonitorInv /\ HashInv /\ AnswerInv /\ [MonitorNext]_monitorVars => HashInv' /\ AnswerInv'
<1> SUFFICES ASSUME MonitorInv, HashInv, AnswerInv, [MonitorNext]_monitorVars
             PROVE  HashInv' /\ AnswerInv'
  OBVIOUS
<1>1. ASSUME NEW b \in Bytes, Write(b) PROVE HashInv' /\ AnswerInv'
  BY <1>1, HashWrite, AnswerWrite
<1>2. CASE HasUpdated
  <2>1. HashInv'
    BY <1>2, HashKept
  <2>2. answer' = [updated |-> used # 0 /\ Hash # lastHash,
                   prompt  |-> (used # 0 /\ Hash # lastHash) /\ ShowsPrompt,
                   from    |-> polled, upto |-> Len(written)]
    BY <1>2 DEF HasUpdated, Answer
  <2>3. /\ answer'.from = polled /\ answer'.upto = Len(written)
        /\ answer'.updated <=> (used # 0 /\ Hash # lastHash)
    BY ONLY <2>2, Zenon
  <2>4. written' = written /\ polled \in Nat /\ Len(written) \in Nat
    BY <1>2 DEF HasUpdated, MonitorInv, BufferInv, HashInv
  <2> QED
    BY <2>1, <2>3, <2>4, HashTells DEF AnswerInv, MissedOnlyRepeats
<1>3. CASE UNCHANGED monitorVars
  BY <1>3 DEF monitorVars, HashInv, Laid, Hash, AnswerInv, MissedOnlyRepeats
<1> QED
  BY <1>1, <1>2, <1>3 DEF MonitorNext

\* HasUpdated says yes only after output, and the output it does not report
\* repeats, place by place, what the full buffer held: for every size and
\* however the writes and the questions interleave (HasUpdated).
THEOREM UpdatesAreExact == MonitorSpec => []MissedOnlyRepeats
<1>1. MonitorInit => HashInv /\ AnswerInv
  BY SizesAssumption DEF MonitorInit, HashInv, Laid, AnswerInv, MissedOnlyRepeats
<1>2. AnswerInv => MissedOnlyRepeats
  BY DEF AnswerInv
<1> QED
  BY <1>1, <1>2, InitTail, TailStep, HashStep, PTL DEF MonitorSpec
=============================================================================
