-------------------------- MODULE TerminalMonitor ---------------------------
(***************************************************************************)
(* The ring buffer that keeps the end of a terminal's output               *)
(* (pty/monitor.go), and what is read from it: the snapshot a new viewer   *)
(* gets, whether the content changed, and whether it shows a prompt.       *)
(* Monitor's mutex makes each method one action; writing several bytes is  *)
(* writing them one by one with nobody in between.                         *)
(***************************************************************************)
EXTENDS Integers, Sequences

CONSTANTS
  Bytes,      \* the bytes of the output
  Prompts,    \* bytes that stand for a prompt or idle pattern
  Size,       \* the size of the buffer
  TailSize,   \* how much of its end is searched for patterns (500 bytes)
  MaxWritten, \* bound: bytes written in all
  Zero        \* an unused place of the buffer

ASSUME SizesAssumption == Size \in Nat \ {0} /\ TailSize \in Nat \ {0} /\ MaxWritten \in Nat
ASSUME BytesAssumption == Prompts \subseteq Bytes /\ Zero \notin Bytes

VARIABLES
  buf, writePos, used, lastHash, \* the fields of Monitor
  written,  \* history: all output
  polled,   \* history: Len(written) at the last HasUpdated
  answer    \* what the last HasUpdated returned; history: how much output there was
            \* at the HasUpdated before it and at its own time

monitorVars == <<buf, writePos, used, lastHash, written, polled, answer>>

MonitorInit ==
  /\ buf = [i \in 0..Size - 1 |-> Zero]
  /\ writePos = 0
  /\ used = 0
  /\ lastHash = <<>>
  /\ written = <<>>
  /\ polled = 0
  /\ answer = [updated |-> FALSE, prompt |-> FALSE, from |-> 0, upto |-> 0]

-----------------------------------------------------------------------------
\* Mutant of Content: a full buffer is read from its start.
ContentUnrotated == [i \in 1..used |-> buf[i - 1]]

\* contentLocked: from the start while the buffer fills, then from writePos.
Content ==
  IF used < Size
  THEN [i \in 1..used |-> buf[i - 1]]
  ELSE [i \in 1..Size |->
          IF i <= Size - writePos THEN buf[writePos + i - 1] ELSE buf[writePos + i - 1 - Size]]

\* The part of the content that is searched for patterns.
TailOfContent ==
  IF Len(Content) > TailSize
  THEN SubSeq(Content, Len(Content) - TailSize + 1, Len(Content))
  ELSE Content

\* checkPromptLocked.
ShowsPrompt == \E i \in 1..Len(TailOfContent) : TailOfContent[i] \in Prompts

\* HasPrompt.
HasPrompt == used # 0 /\ ShowsPrompt

\* Mutant of Hash: only the part that is searched for prompts.
HashOfTail == TailOfContent

\* The hash HasUpdated compares: of the buffer as it lies, not of Content.
\* Hashes do not collide, nor with the zero hash of no content.
Hash == [i \in 0..used - 1 |-> buf[i]]

Write(b) ==
  /\ Len(written) < MaxWritten
  /\ buf' = [buf EXCEPT ![writePos] = b]
  /\ writePos' = IF writePos + 1 = Size THEN 0 ELSE writePos + 1
  /\ used' = IF used < Size THEN used + 1 ELSE used
  /\ written' = Append(written, b)
  /\ UNCHANGED <<lastHash, polled, answer>>

\* The answer of HasUpdated, which looks for a prompt only if there is news.
Answer(updated) ==
  [updated |-> updated, prompt |-> updated /\ ShowsPrompt, from |-> polled, upto |-> Len(written)]

HasUpdated ==
  /\ answer' = Answer(used # 0 /\ Hash # lastHash)
  /\ lastHash' = IF used = 0 THEN lastHash ELSE Hash
  /\ polled' = Len(written)
  /\ UNCHANGED <<buf, writePos, used, written>>

MonitorNext == (\E b \in Bytes : Write(b)) \/ HasUpdated

MonitorSpec == MonitorInit /\ [][MonitorNext]_monitorVars

-----------------------------------------------------------------------------
(***************************************************************************)
(* Properties.                                                             *)
(***************************************************************************)

\* The snapshot is the end of the output, byte for byte and in order, on
\* both sides of every wrap-around, as much of it as the buffer holds
\* (contentLocked).  And a prompt is seen exactly when its bytes are among the
\* last ones written, wherever in the buffer they lie (HasPrompt).
ContentIsTail ==
  LET held == IF Len(written) < Size THEN Len(written) ELSE Size
      from == IF Len(written) < TailSize THEN 1 ELSE Len(written) - TailSize + 1
  IN /\ Content = SubSeq(written, Len(written) - held + 1, Len(written))
     /\ HasPrompt <=> \E i \in from..Len(written) :
                        i > Len(written) - Size /\ written[i] \in Prompts

\* HasUpdated says yes only if there was output since it was last asked, and
\* output escapes it only where it writes over a full buffer, place by place,
\* what was there already.  That it can escape at all is the price of hashing
\* the buffer as it lies: bytes that repeat those of a buffer's length before
\* move the end of the output, and may move a prompt into the part that is
\* searched, without a report.
MissedOnlyRepeats ==
  LET from == answer.from
      upto == answer.upto
  IN /\ answer.updated => from < upto
     /\ from < upto /\ ~answer.updated =>
          /\ from >= Size
          /\ \A i \in upto - Size + 1..upto, j \in from - Size + 1..from :
               i % Size = j % Size => written[i] = written[j]
=============================================================================
