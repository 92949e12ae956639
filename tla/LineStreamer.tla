------------------------------ MODULE LineStreamer -----------------------------
(***************************************************************************)
(* LineStreamer (streamer.go): chunks are cut into lines, each complete    *)
(* line is transformed and sent, and a partial one is held for the next    *)
(* chunk or for Close.  One goroutine uses a streamer, so each method is   *)
(* one action.  Any send may fail, and its event may be out all the same   *)
(* (a MultiSink with a copy that fails); after a call that failed the      *)
(* caller can only close, and a Close that failed may be called again.     *)
(***************************************************************************)
EXTENDS Wire, SequencesExt

CONSTANTS Chars,          \* the characters
          Chunks,         \* what Write may be called with
          Transform(_),   \* the application's LineTransform (external)
          StartIndex,     \* the first block's index
          MaxCalls        \* bound: calls of Write and Close

NL == "NL"

(* A chunk is a string, that is a sequence of characters.                  *)
ASSUME LineStreamerAssumption ==
  /\ StartIndex \in Nat /\ MaxCalls \in Nat
  /\ NL \in Chars /\ Chunks \subseteq Seq(Chars)

VARIABLES
  ls,       \* lineBuffer, output, blockIndex, blockStarted; and whether it
            \* has a publisher and a transform
  wire,     \* events the sink has let through
  calls,    \* calls made
  failed,   \* whether a call has failed
  leaks,    \* history: calls whose failed send got its event out all the same
  given,    \* history: what Write was given since the last Close
  before    \* history: the text of what was given before it

lvars == <<ls, wire, calls, failed, leaks, given, before>>

(* NewLineStreamer; publisher and transform may be nil.                    *)
LInit ==
  /\ ls \in [lineBuffer : {EmptyText}, output : {EmptyText}, blockIndex : {StartIndex},
             blockStarted : {FALSE}, publisher : BOOLEAN, transform : BOOLEAN]
  /\ wire = <<>>
  /\ calls = 0
  /\ failed = FALSE
  /\ leaks = 0
  /\ given = EmptyText
  /\ before = EmptyText

--------------------------------------------------------------------------------
rewritten(line) == IF ls.transform THEN Transform(line) ELSE line

(* emitLine: the text is accumulated, then sent, in a block opened first.  *)
emitLineUnopened(c, line, end) ==
  LET chunk == rewritten(line) \o end
      added == [c EXCEPT !.ls.output = @ \o chunk]
      open  == IF c.ls.blockStarted THEN added ELSE Emit(added, BlockStart(c.ls.blockIndex, "text"))
  IN  IF ~c.ok THEN c
      ELSE IF ~ls.publisher THEN added
      ELSE Emit(open, BlockDelta(c.ls.blockIndex, "text", chunk))

emitLine(c, line, end) ==
  LET chunk == rewritten(line) \o end
      added == [c EXCEPT !.ls.output = @ \o chunk]
      open  == IF c.ls.blockStarted THEN added ELSE Emit(added, BlockStart(c.ls.blockIndex, "text"))
      begun == [open EXCEPT !.ls.blockStarted = open.ok]
  IN  IF ~c.ok THEN c
      ELSE IF ~ls.publisher THEN added
      ELSE Emit(IF c.ls.blockStarted THEN added ELSE begun,
                BlockDelta(c.ls.blockIndex, "text", chunk))

(* Write's loop, byte by byte: a newline completes the line that is held.  *)
takeKeepingNewline(c, char) ==
  IF ~c.ok THEN c
  ELSE IF char # NL THEN [c EXCEPT !.ls.lineBuffer = Append(@, char)]
  ELSE emitLine([c EXCEPT !.ls.lineBuffer = <<NL>>], c.ls.lineBuffer, <<NL>>)

take(c, char) ==
  IF ~c.ok THEN c
  ELSE IF char # NL THEN [c EXCEPT !.ls.lineBuffer = Append(@, char)]
  ELSE emitLine([c EXCEPT !.ls.lineBuffer = EmptyText], c.ls.lineBuffer, <<NL>>)

(* Close: the partial line goes out and is forgotten, then the block stops.*)
flushKeepingLine(c) ==
  IF c.ls.lineBuffer = EmptyText THEN c ELSE emitLine(c, c.ls.lineBuffer, EmptyText)

flush(c) ==
  LET sent == emitLine(c, c.ls.lineBuffer, EmptyText)
  IN  IF c.ls.lineBuffer = EmptyText THEN c
      ELSE IF sent.ok THEN [sent EXCEPT !.ls.lineBuffer = EmptyText] ELSE sent

stopBlock(c) ==
  LET stopped == IF ls.publisher THEN Emit(c, BlockStop(c.ls.blockIndex)) ELSE c
  IN  IF ~c.ok \/ ~c.ls.blockStarted THEN c
      ELSE IF ~stopped.ok THEN stopped
      ELSE [stopped EXCEPT !.ls.blockStarted = FALSE, !.ls.blockIndex = @ + 1]

--------------------------------------------------------------------------------
(* The reference: the text that a whole input stands for.                  *)
Ends(s) == {i \in DOMAIN s : s[i] = NL}

LineUpTo(s, i) == SubSeq(s, Max({0} \cup {j \in Ends(s) : j < i}) + 1, i - 1)

Complete(s) ==
  FlattenSeq([i \in DOMAIN s |->
    IF s[i] = NL THEN rewritten(LineUpTo(s, i)) \o <<NL>> ELSE EmptyText])

Partial(s) == LineUpTo(s, Len(s) + 1)

Trailing(s) == IF Partial(s) = EmptyText THEN EmptyText ELSE rewritten(Partial(s))

Whole(s) == Complete(s) \o Trailing(s)

--------------------------------------------------------------------------------
(* A call of which the sink lets left events through, and which gets the   *)
(* event of its failed send out or does not.                               *)
Begin(left, leak) == [ls |-> ls, wire |-> wire, left |-> left, leak |-> leak, ok |-> TRUE]

Leaked(c) == IF ~c.ok /\ c.leak THEN 1 ELSE 0

Returns(c) ==
  /\ ls' = c.ls
  /\ wire' = c.wire
  /\ calls' = calls + 1
  /\ failed' = (failed \/ ~c.ok)
  /\ leaks' = leaks + Leaked(c)

Write(chunk, left, leak) ==
  /\ ~failed
  /\ calls < MaxCalls
  /\ Returns(FoldLeft(take, Begin(left, leak), chunk))
  /\ given' = given \o chunk
  /\ UNCHANGED before

Close(left, leak) ==
  LET c == stopBlock(flush(Begin(left, leak)))
  IN  /\ calls < MaxCalls
      /\ Returns(c)
      /\ IF c.ok /\ ~failed
           THEN before' = before \o Whole(given) /\ given' = EmptyText
           ELSE UNCHANGED <<before, given>>

(* A Write sends at most a start and a delta per newline, a Close at most  *)
(* a start, a delta and a stop.                                            *)
LNext ==
  \E leak \in BOOLEAN :
    \/ \E left \in 0 .. 3 : Close(left, leak)
    \/ \E chunk \in Chunks : \E left \in 0 .. Len(chunk) + 1 : Write(chunk, left, leak)

LSpec == LInit /\ [][LNext]_lvars

--------------------------------------------------------------------------------
(* How the input was cut into chunks cannot be told from what comes out:   *)
(* as long as nothing failed the output is the transformed complete lines, *)
(* and exactly the partial line after them is held.                        *)
ChunkingInvisible ==
  ~failed =>
    /\ ls.output = before \o Complete(given)
    /\ ls.lineBuffer = Partial(given)

WireText == FlattenSeq([p \in DOMAIN wire |-> IF IsDelta(wire[p]) THEN wire[p].text ELSE EmptyText])

Times(n, text) == FlattenSeq([i \in 1 .. n |-> text])

(* The client sees the output while nothing fails.  After a failure, a     *)
(* Close called again included, it still sees no complete line twice, out  *)
(* of order or after a missing one; only the partial line at the end may   *)
(* come again, once for each failed send whose event was out.              *)
WireOnce ==
  ls.publisher =>
    /\ ~failed => WireText = ls.output
    /\ \/ IsPrefix(WireText, before \o Complete(given))
       \/ \E n \in 0 .. leaks + 1 :
            WireText = before \o Complete(given) \o Times(n, Trailing(given))

(* A start or stop that is on the wire already, right before.              *)
Repeats(w) == {p \in 2 .. Len(w) : ~IsDelta(w[p]) /\ w[p] = w[p - 1]}

StopsBefore(w, p) == {q \in 1 .. p - 1 : IsStop(w[q])} \ Repeats(w)

(* The blocks on the wire follow one another, whatever failed in between:  *)
(* every event is at the index after the blocks stopped so far, and a      *)
(* block starts exactly where none is open.  Only a failed send whose      *)
(* event was out makes the next Close repeat that start or stop.           *)
BlocksInTurn ==
  /\ Cardinality(Repeats(wire)) <= leaks
  /\ \A p \in DOMAIN wire \ Repeats(wire) :
       /\ wire[p].index = StartIndex + Cardinality(StopsBefore(wire, p))
       /\ IsStart(wire[p]) <=> p = 1 \/ IsStop(wire[p - 1])
================================================================================
