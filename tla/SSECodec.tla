-------------------------------- MODULE SSECodec -------------------------------
(***************************************************************************)
(* The SSE format (sse/codec.go and the split functions of sse/source.go). *)
(* Bytes are symbols: one for each character the format tells apart, one   *)
(* for a whole field name, one for a whole decimal numeral.  A string is a *)
(* sequence of them and <<>> is "".                                        *)
(***************************************************************************)
EXTENDS Integers, Sequences, SequencesExt, FiniteSetsExt, TLC

CONSTANTS WordBits,   \* width of int64 and time.Duration, scaled down
          MsInNs      \* time.Millisecond, scaled down with it

ASSUME WidthAssumption == WordBits \in Nat \ {0} /\ MsInNs \in Nat \ {0}

LF    == "LF"
CR    == "CR"
NUL   == "NUL"
BOM   == "BOM"
COLON == "COLON"
SP    == "SP"

(* int64: the largest value, and what the product of two values is.        *)
MaxInt == 2 ^ (WordBits - 1) - 1
Wrap(n) == ((n + 2 ^ (WordBits - 1)) % 2 ^ WordBits) - 2 ^ (WordBits - 1)

--------------------------------------------------------------------------------
(* Writing.                                                                *)

writeField(name, value) == <<name, COLON, SP>> \o value \o <<LF>>

(* CR, LF and NUL cannot survive in a one-line field and are stripped.     *)
sanitizeNothing(value) == value

sanitizeFieldValue(value) == SelectSeq(value, LAMBDA c : c \notin {CR, LF, NUL})

(* A payload with CRLF and CR replaced by LF.                              *)
normalized(payload) ==
  FlattenSeq([i \in DOMAIN payload |->
    IF payload[i] # CR THEN <<payload[i]>>
    ELSE IF i < Len(payload) /\ payload[i + 1] = LF THEN <<>> ELSE <<LF>>])

(* strings.Split at every LF: one piece more than there are LFs.           *)
SplitAtLF(text) ==
  FoldLeft(LAMBDA pieces, c : IF c = LF THEN Append(pieces, <<>>)
                              ELSE [pieces EXCEPT ![Len(pieces)] = Append(@, c)],
           <<<<>>>>, text)

splitPayloadLines(payload) == SplitAtLF(normalized(payload))

(* An event's frame: id and event lines unless empty, one data line per    *)
(* line of the payload, and the blank line.                                *)
FrameLinesUnterminated(ev) ==
  LET lines == splitPayloadLines(ev.data)
  IN  (IF ev.id = <<>> THEN <<>> ELSE writeField("id", sanitizeFieldValue(ev.id)))
        \o (IF ev.event = <<>> THEN <<>>
            ELSE writeField("event", sanitizeFieldValue(ev.event)))
        \o FlattenSeq([i \in DOMAIN lines |-> writeField("data", lines[i])])

FrameLines(ev) ==
  LET lines == splitPayloadLines(ev.data)
  IN  (IF ev.id = <<>> THEN <<>> ELSE writeField("id", sanitizeFieldValue(ev.id)))
        \o (IF ev.event = <<>> THEN <<>>
            ELSE writeField("event", sanitizeFieldValue(ev.event)))
        \o FlattenSeq([i \in DOMAIN lines |-> writeField("data", lines[i])])
        \o <<LF>>

FrameComment(text) == <<COLON, SP>> \o sanitizeFieldValue(text) \o <<LF>>

(* strconv.FormatInt and ParseInt, on numerals up to twice the range of    *)
(* int64; a numeral is its own symbol.                                     *)
Numbers == 0 .. 2 ^ WordBits
FormatInt(n) == ToString(n)
Numerals == {FormatInt(n) : n \in Numbers}
ParseInt(numeral) == CHOOSE n \in Numbers : FormatInt(n) = numeral

(* The delay in whole milliseconds, never below zero.                      *)
FrameRetry(d) ==
  writeField("retry", <<FormatInt(IF d < 0 THEN 0 ELSE d \div MsInNs)>>) \o <<LF>>

--------------------------------------------------------------------------------
(* Reading.                                                                *)

(* What a bufio.SplitFunc answers: a token and how many bytes it takes, or *)
(* a request for more.                                                     *)
NeedMore == [found |-> FALSE, advance |-> 0, token |-> <<>>]
Token(data, advance, n) ==
  [found |-> TRUE, advance |-> advance, token |-> SubSeq(data, 1, n)]

(* A CR at position i: it may be half of a CRLF that has not all arrived.  *)
scanAtCREager(data, i, atEOF) ==
  IF i < Len(data) /\ data[i + 1] = LF
    THEN Token(data, i + 1, i - 1)
    ELSE Token(data, i, i - 1)

scanAtCarriageReturn(data, i, atEOF) ==
  IF i = Len(data) /\ ~atEOF THEN NeedMore
  ELSE IF i < Len(data) /\ data[i + 1] = LF THEN Token(data, i + 1, i - 1)
  ELSE Token(data, i, i - 1)

scanFrameLines(data, atEOF) ==
  LET ends == {i \in DOMAIN data : data[i] \in {LF, CR}}
      i    == Min(ends)
  IN  IF ends = {}
        THEN IF atEOF /\ data # <<>> THEN Token(data, Len(data), Len(data)) ELSE NeedMore
        ELSE IF data[i] = LF THEN Token(data, i, i - 1)
        ELSE scanAtCarriageReturn(data, i, atEOF)

(* The name is what precedes the first colon; of the value one leading     *)
(* space goes.  A line without a colon is a name with an empty value.      *)
parseFieldLine(line) ==
  LET colons == {i \in DOMAIN line : line[i] = COLON}
      rest   == SubSeq(line, Min(colons) + 1, Len(line))
  IN  IF colons = {} THEN [name |-> line, value |-> <<>>]
      ELSE [name  |-> SubSeq(line, 1, Min(colons) - 1),
            value |-> IF rest # <<>> /\ rest[1] = SP THEN Tail(rest) ELSE rest]

isASCIIDigits(value) == Len(value) = 1 /\ value[1] \in Numerals
================================================================================
