-------------------------------- MODULE Adapter --------------------------------
(***************************************************************************)
(* elelemstream.Adapter with the roundStream and TextStreamers it drives   *)
(* (elelemstream/adapter.go, elelemstream/roundstream.go, streamer.go):    *)
(* the engine's callbacks of one turn become content blocks on the wire.   *)
(*                                                                         *)
(* The engine (external, github.com/psyb0t/elelem) runs the callbacks one  *)
(* after another in one goroutine, so every callback is one action.  What  *)
(* can go wrong inside one is a Sink that fails: a callback returns at the *)
(* first event that cannot be emitted, with what it changed before that.   *)
(***************************************************************************)
EXTENDS Wire, Integers, SequencesExt

CONSTANTS MaxRounds,   \* the engine's limit on rounds (WithMaxRounds)
          MaxDeltas,   \* bound: deltas in one turn
          MaxTools,    \* bound: tool calls in one round
          UniqueIDs,   \* TRUE: a call id never repeats in a turn; FALSE: only
                       \* within a round, all the engine guarantees
          Faults       \* what may fail: "sink", the wire; "copy", another sink
                       \* of the MultiSink; "tool"; "provider"

ASSUME AdapterAssumption ==
  /\ MaxRounds \in Nat \ {0} /\ MaxDeltas \in Nat /\ MaxTools \in Nat
  /\ UniqueIDs \in BOOLEAN /\ Faults \subseteq {"sink", "copy", "tool", "provider"}

VARIABLES
  ad,      \* the Adapter: blockIndex, rounds, toolBase, toolCallCount and
           \* the roundStream
  wire,    \* events the sink has let through, in order
  run,     \* the engine: phase, the calls of the round, the next call,
           \* and whether a callback has failed
  said     \* history: what the model said and which calls are to be run,
           \* round by round

avars == <<ad, wire, run, said>>

NoStreamer == [index |-> -1, started |-> FALSE, text |-> EmptyText]

NewStreamer(index) == [index |-> index, started |-> FALSE, text |-> EmptyText]

(* A roundStream: text is nil until opened.  Before the first round the    *)
(* Adapter has none (nil); the engine delivers nothing to it then.         *)
NoRoundStream == [thinking |-> NoStreamer, text |-> NoStreamer, opened |-> FALSE]

NewRoundStream(base) ==
  [thinking |-> NewStreamer(base), text |-> NoStreamer, opened |-> FALSE]

--------------------------------------------------------------------------------
(* A callback in progress: the adapter and the wire so far, how many more  *)
(* events the sink takes, and whether all of them succeeded.  With leak    *)
(* the sink that fails is not the wire but a copy beside it.               *)
Calls == [left : 0 .. 5, leak : BOOLEAN]

Fault(c) == IF c.leak THEN "copy" ELSE "sink"

Begin(call) == [ad |-> ad, wire |-> wire, left |-> call.left, leak |-> call.leak, ok |-> TRUE]

EmitPair(c, es) == Emit(Emit(c, es[1]), es[2])

EmitBlock(c, es) == Emit(Emit(Emit(c, es[1]), es[2]), es[3])

(* TextStreamer.Write of the streamer f, "thinking" or "text": the block   *)
(* opens with its first chunk.                                             *)
Write(c, f, chunk) ==
  IF ~c.ok \/ chunk = EmptyText THEN c
  ELSE LET s      == c.ad.round[f]
           added  == [c EXCEPT !.ad.round[f].text = @ \o chunk]
           opened == IF s.started THEN added ELSE Emit(added, BlockStart(s.index, f))
           begun  == IF opened.ok THEN [opened EXCEPT !.ad.round[f].started = TRUE]
                                  ELSE opened
       IN  Emit(begun, BlockDelta(s.index, f, chunk))

(* TextStreamer.Close: stop the block if one is open, and move on.         *)
CloseAlwaysAdvances(c, f) ==
  IF ~c.ok THEN c
  ELSE LET stopped == IF c.ad.round[f].started
                        THEN Emit(c, BlockStop(c.ad.round[f].index)) ELSE c
       IN  IF stopped.ok
             THEN [stopped EXCEPT !.ad.round[f].started = FALSE,
                                  !.ad.round[f].index = @ + 1]
             ELSE stopped

CloseKeepsIndex(c, f) ==
  IF ~c.ok \/ ~c.ad.round[f].started THEN c
  ELSE LET stopped == Emit(c, BlockStop(c.ad.round[f].index))
       IN  IF stopped.ok THEN [stopped EXCEPT !.ad.round[f].started = FALSE] ELSE stopped

Close(c, f) ==
  IF ~c.ok \/ ~c.ad.round[f].started THEN c
  ELSE LET stopped == Emit(c, BlockStop(c.ad.round[f].index))
       IN  IF stopped.ok
             THEN [stopped EXCEPT !.ad.round[f].started = FALSE,
                                  !.ad.round[f].index = @ + 1]
             ELSE stopped

(* roundStream.openText: thinking closes before text opens.                *)
openTextNoClose(c) ==
  IF ~c.ok \/ c.ad.round.opened THEN c
  ELSE [c EXCEPT !.ad.round.text = NewStreamer(c.ad.round.thinking.index + 1),
                 !.ad.round.opened = TRUE]

openText(c) ==
  IF ~c.ok \/ c.ad.round.opened THEN c
  ELSE LET closed == Close(c, "thinking")
       IN  IF closed.ok
             THEN [closed EXCEPT !.ad.round.text = NewStreamer(closed.ad.round.thinking.index),
                                 !.ad.round.opened = TRUE]
             ELSE closed

(* roundStream.handleDelta: reasoning counts only until text has opened.   *)
handleDelta(c, reasoning, text) ==
  LET thought == IF c.ad.round.opened THEN c ELSE Write(c, "thinking", reasoning)
  IN  IF text = EmptyText THEN thought
      ELSE Write(openText(thought), "text", text)

(* roundStream.finish.                                                     *)
finish(c) == Close(openText(c), "text")

(* roundStream.nextBlockIndex.                                             *)
nextBlockIndex(round) ==
  IF round.opened THEN round.text.index ELSE round.thinking.index

--------------------------------------------------------------------------------
(* What the model says.  Delta n of the turn carries the chunk n (a round  *)
(* has the number of deltas up to its end); the k-th call of round i is    *)
(* <<i, k>>, which names the tool and tags its input and its output.       *)
Round == Len(said)

Heard == IF said = <<>> THEN 0 ELSE said[Round].deltas

DeltaNumber == Heard + 1

CallID(k) == IF UniqueIDs THEN <<Round, k>> ELSE <<0, k>>

Input(call) == IF call.input THEN <<call.tag>> ELSE EmptyText

Output(call) == <<call.tag>>

(* The calls the model may end a round with; at most one comes without     *)
(* input.                                                                  *)
CallLists ==
  UNION {{[k \in 1 .. n |-> [id |-> CallID(k), tag |-> <<Round, k>>, input |-> k # bare]] :
            bare \in 0 .. n} : n \in 0 .. MaxTools}

AInit ==
  /\ ad = [blockIndex |-> 0, rounds |-> 0, toolBase |-> 0, toolCallCount |-> 0,
           round |-> NoRoundStream]
  /\ wire = <<>>
  /\ run = [phase |-> "preamble", calls |-> <<>>, next |-> 0, failed |-> FALSE]
  /\ said = <<>>

(* The outcome of a callback: the engine goes on or gives the run up.      *)
Done(c, go) ==
  /\ c.ok \/ Fault(c) \in Faults
  /\ ad' = c.ad
  /\ wire' = c.wire
  /\ run' = IF c.ok THEN go
                    ELSE [run EXCEPT !.phase = "aborted", !.failed = TRUE]

(* The application opens the stream, then starts the engine.               *)
Preamble(call) ==
  /\ run.phase = "preamble"
  /\ Done(EmitPair(Begin(call), StreamPreamble(<<"stream">>)), [run EXCEPT !.phase = "round"])
  /\ UNCHANGED said

(* OnRoundStart: the roundStream starts where the last round left off.     *)
OnRoundStart ==
  /\ run.phase = "round"
  /\ Round < MaxRounds
  /\ ad' = [ad EXCEPT !.round = NewRoundStream(ad.blockIndex)]
  /\ run' = [run EXCEPT !.phase = "streaming"]
  /\ said' = Append(said, [deltas |-> Heard, thinking |-> EmptyText, text |-> EmptyText,
                           calls |-> <<>>])
  /\ UNCHANGED wire

(* A round x after one delta more; reasoning behind text is not shown.     *)
Hear(x, reasoning, text) ==
  [x EXCEPT !.deltas   = @ + 1,
            !.thinking = IF x.text = EmptyText THEN @ \o reasoning ELSE @,
            !.text     = @ \o text]

(* OnDelta, with reasoning, text, both or neither.                         *)
OnDelta(call, thinks, speaks) ==
  LET chunk     == <<DeltaNumber>>
      reasoning == IF thinks THEN chunk ELSE EmptyText
      text      == IF speaks THEN chunk ELSE EmptyText
  IN  /\ run.phase = "streaming"
      /\ DeltaNumber <= MaxDeltas
      /\ Done(handleDelta(Begin(call), reasoning, text), run)
      /\ said' = [said EXCEPT ![Round] = Hear(said[Round], reasoning, text)]

(* OnAssistantMessage, which ends the streaming of the round, and          *)
(* OnRoundEnd, which the engine calls right after it.                      *)
finishRoundAccumulating(c, calls) ==
  LET f == finish(c)
      i == nextBlockIndex(f.ad.round)
  IN  IF ~f.ok THEN f
      ELSE [f EXCEPT !.ad.blockIndex    = i,
                     !.ad.toolBase      = i,
                     !.ad.toolCallCount = @ + Len(calls),
                     !.ad.rounds        = Round]

finishRound(c, calls) ==
  LET f == finish(c)
      i == nextBlockIndex(f.ad.round)
  IN  IF ~f.ok THEN f
      ELSE [f EXCEPT !.ad.blockIndex    = i,
                     !.ad.toolBase      = i,
                     !.ad.toolCallCount = Len(calls),
                     !.ad.rounds        = Round]

(* The engine runs the calls unless its limit on rounds is reached.        *)
OnAssistantMessage(call, calls) ==
  LET goesOn == Round < MaxRounds
      ran    == IF goesOn THEN calls ELSE <<>>
  IN  /\ run.phase = "streaming"
      /\ Done(finishRound(Begin(call), calls),
              [run EXCEPT !.phase = IF calls = <<>> THEN "finished"
                                    ELSE IF goesOn THEN "calling" ELSE "aborted",
                          !.calls = ran,
                          !.next  = 1])
      /\ said' = [said EXCEPT ![Round].calls = ran]

(* OnToolCallStart, once per call in order, before any tool runs.          *)
useIndex(k) == ad.toolBase + (k - 1)

OnToolCallStart(call) ==
  LET k == run.next
      t == run.calls[k]
  IN  /\ run.phase = "calling"
      /\ Done(EmitBlock(Begin(call), ToolUseBlock(useIndex(k), t.id, t.tag, Input(t))),
              IF k = Len(run.calls) THEN [run EXCEPT !.phase = "results", !.next = 1]
                                    ELSE [run EXCEPT !.next = k + 1])
      /\ UNCHANGED said

(* OnToolResult, once per call in order; the engine goes through all the   *)
(* calls even after one has failed, and gives the run up at the end.  A    *)
(* call without a Result is an error of its own.                           *)
resultIndexUnshifted(k) == ad.toolBase + (k - 1)

resultIndex(k) == ad.toolBase + ad.toolCallCount + (k - 1)

sendResult(c, k, missing) ==
  LET t    == run.calls[k]
      sent == IF missing THEN [c EXCEPT !.ok = FALSE]
              ELSE EmitBlock(c, ToolResultBlock(resultIndex(k), t.id, Output(t)))
  IN  IF sent.ok /\ k = ad.toolCallCount
        THEN [sent EXCEPT !.ad.blockIndex = ad.toolBase + 2 * ad.toolCallCount]
        ELSE sent

OnToolResult(call, missing) ==
  LET k == run.next
      c == sendResult(Begin(call), k, missing)
      failed == run.failed \/ ~c.ok
  IN  /\ run.phase = "results"
      /\ c.ok \/ (IF missing THEN "tool" ELSE Fault(c)) \in Faults
      /\ ad' = c.ad
      /\ wire' = c.wire
      /\ run' = IF k < Len(run.calls)
                  THEN [run EXCEPT !.next = k + 1, !.failed = failed]
                  ELSE [run EXCEPT !.phase = IF failed THEN "aborted" ELSE "round",
                                   !.failed = failed]
      /\ UNCHANGED said

(* The provider's stream breaks between two callbacks.                     *)
ProviderFails ==
  /\ "provider" \in Faults
  /\ run.phase \in {"round", "streaming"}
  /\ run' = [run EXCEPT !.phase = "aborted", !.failed = TRUE]
  /\ UNCHANGED <<ad, wire, said>>

(* The application closes the stream, also after a run that was given up;  *)
(* or, then, it just lets go of it.                                        *)
Epilogue(call) ==
  /\ run.phase \in {"finished", "aborted"}
  /\ LET c == EmitPair(Begin(call), StreamEpilogue("end_turn"))
     IN  /\ c.ok \/ Fault(c) \in Faults
         /\ wire' = c.wire
         /\ run' = [run EXCEPT !.phase = "over", !.failed = @ \/ ~c.ok]
  /\ UNCHANGED <<ad, said>>

Abandon ==
  /\ run.phase = "aborted"
  /\ run' = [run EXCEPT !.phase = "over"]
  /\ UNCHANGED <<ad, wire, said>>

ANext ==
  \/ \E call \in Calls :
       \/ Preamble(call)
       \/ \E thinks, speaks \in BOOLEAN : OnDelta(call, thinks, speaks)
       \/ \E calls \in CallLists : OnAssistantMessage(call, calls)
       \/ OnToolCallStart(call)
       \/ \E missing \in BOOLEAN : OnToolResult(call, missing)
       \/ Epilogue(call)
  \/ OnRoundStart
  \/ ProviderFails
  \/ Abandon

ASpec == AInit /\ [][ANext]_avars

--------------------------------------------------------------------------------
(* The fields of Adapter and roundStream, and what may be on the wire.     *)
ATypeOK ==
  /\ ad.blockIndex \in Nat /\ ad.toolBase \in Nat
  /\ ad.toolCallCount \in 0 .. MaxTools /\ ad.rounds \in 0 .. MaxRounds
  /\ ad.round.thinking.index \in Nat \cup {-1}
  /\ ad.round.text.index \in Nat \cup {-1}
  /\ ad.round.thinking.started \in BOOLEAN /\ ad.round.text.started \in BOOLEAN
  /\ run.phase \in {"preamble", "round", "streaming", "calling", "results",
                    "finished", "aborted", "over"}
  /\ Round <= MaxRounds
  /\ \A p \in DOMAIN wire : IsWireEvent(wire[p])

Starts      == {p \in DOMAIN wire : IsStart(wire[p])}
StartsAt(i) == {p \in DOMAIN wire : IsStart(wire[p]) /\ wire[p].index = i}
StopsAt(i)  == {p \in DOMAIN wire : IsStop(wire[p]) /\ wire[p].index = i}

(* A block index is never used twice in a turn, and blocks start in the    *)
(* order of their indices, across rounds, parallel tools and failures.     *)
IndicesAscend ==
  \A p, q \in Starts : p < q => wire[p].index < wire[q].index

(* Every delta and every stop belongs to a block that was started before   *)
(* it, that is not yet stopped, and, for a delta, that is of its kind.     *)
NoStrayEvents ==
  \A p \in DOMAIN wire :
    IsDelta(wire[p]) \/ IsStop(wire[p]) =>
      /\ \E q \in StartsAt(wire[p].index) :
           /\ q < p
           /\ IsDelta(wire[p]) => wire[q].block = wire[p].block
      /\ \A q \in StopsAt(wire[p].index) : q >= p

(* As long as nothing has failed at most one block is open at a time: a    *)
(* thinking block is closed before the text block of its round opens.      *)
OneBlockOpen ==
  ~run.failed =>
    \A p, q \in Starts : p < q => \E s \in StopsAt(wire[p].index) : s < q

(* A run that finished leaves no hole in the numbering and no block open:  *)
(* the indices below blockIndex were each started and stopped once, and    *)
(* none at or above it was used.                                           *)
DenseWhenFinished ==
  run.phase = "finished" =>
    /\ \A i \in 0 .. ad.blockIndex - 1 :
         \E p, q \in DOMAIN wire : StartsAt(i) = {p} /\ StopsAt(i) = {q}
    /\ \A p \in Starts : wire[p].index < ad.blockIndex

(* A tool_result follows the complete tool_use block it answers, at        *)
(* exactly toolCallCount indices above it, so parallel calls of a round    *)
(* never share or swap slots.                                              *)
ResultAnswersUse ==
  \A p \in Starts :
    wire[p].block = "tool_result" =>
      \E q \in Starts :
        /\ q < p
        /\ wire[q].block = "tool_use" /\ wire[q].id = wire[p].id
        /\ wire[p].index - wire[q].index = Len(said[wire[q].name[1]].calls)
        /\ \E s \in StopsAt(wire[q].index) : s < p
================================================================================
