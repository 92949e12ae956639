-------------------------------- MODULE SSESource ------------------------------
(***************************************************************************)
(* sse.Source (sse/source.go): a bufio.Scanner cuts the bytes it reads     *)
(* into lines, Next feeds the lines to the parser, and a blank line        *)
(* completes an event.  The bytes arrive in reads of any size, so the end  *)
(* of the scanner's buffer falls anywhere.                                 *)
(*                                                                         *)
(* bufio.Scanner and the io.Reader below it are external.  The caller      *)
(* keeps calling Next until it fails, as Reassemble does, so the calls are *)
(* one loop here.  What the bytes are is left to the modules that extend   *)
(* this one: SSEPipe (frames of this package) and SSEForeign (any).        *)
(***************************************************************************)
EXTENDS SSECodec

CONSTANTS MaxLine,    \* the scanner's buffer (maxLineSize)
          ReadSizes   \* how many bytes one read brings at most

ASSUME LineAssumption == MaxLine \in Nat \ {0} /\ ReadSizes \subseteq Nat \ {0}

VARIABLES
  unread,      \* bytes written and not read yet
  closed,      \* the producer's end: nothing more will be written
  buf,         \* the scanner's buffer
  reader,      \* the reader's error so far: "open", "eof" or "broken"
  src,         \* the Source: dataBuf, eventType, lastEventID, retry, bomChecked
  status,      \* "reading", "ended" (ErrNoMoreEvents) or "failed"
  lines,       \* history: lines scanned
  delivered    \* history: events Next returned

svars == <<unread, closed, buf, reader, src, status, lines, delivered>>

NewSource ==
  [dataBuf |-> <<>>, eventType |-> <<>>, lastEventID |-> <<>>, retry |-> 0,
   bomChecked |-> FALSE]

SInit(bytes, done) ==
  /\ unread = bytes
  /\ closed = done
  /\ buf = <<>>
  /\ reader = "open"
  /\ src = NewSource
  /\ status = "reading"
  /\ lines = <<>>
  /\ delivered = <<>>

--------------------------------------------------------------------------------
(* The parser.                                                             *)

(* An id with NUL is ignored, and the previous one stays.                  *)
consumeID(s, value) == IF Contains(value, NUL) THEN s ELSE [s EXCEPT !.lastEventID = value]

(* A retry that is no numeral, or not an int64, is ignored; the product    *)
(* with time.Millisecond is an int64 again.                                *)
consumeRetryUnscaled(s, value) ==
  IF ~isASCIIDigits(value) \/ ParseInt(value[1]) > MaxInt
    THEN s
    ELSE [s EXCEPT !.retry = ParseInt(value[1])]

consumeRetry(s, value) ==
  IF ~isASCIIDigits(value) \/ ParseInt(value[1]) > MaxInt
    THEN s
    ELSE [s EXCEPT !.retry = Wrap(ParseInt(value[1]) * MsInNs)]

consumeField(s, field) ==
  CASE field.name = <<"event">> -> [s EXCEPT !.eventType = field.value]
    [] field.name = <<"data">>  -> [s EXCEPT !.dataBuf = @ \o field.value \o <<LF>>]
    [] field.name = <<"id">>    -> consumeID(s, field.value)
    [] field.name = <<"retry">> -> consumeRetry(s, field.value)
    [] OTHER                    -> s

(* The event a blank line completes, and the buffers after it; without     *)
(* data there is none.                                                     *)
completed(s) ==
  IF s.dataBuf = <<>> THEN <<>>
  ELSE <<[id |-> s.lastEventID, event |-> s.eventType, data |-> Front(s.dataBuf)]>>

dispatchKeepingType(s) == [s EXCEPT !.dataBuf = <<>>]

dispatch(s) == [s EXCEPT !.dataBuf = <<>>, !.eventType = <<>>]

(* What is incomplete when the stream ends is thrown away.                 *)
dropIncomplete(s) == [s EXCEPT !.dataBuf = <<>>, !.eventType = <<>>]

stripBOM(s, line) ==
  IF ~s.bomChecked /\ line # <<>> /\ line[1] = BOM THEN Tail(line) ELSE line

isComment(line) == line # <<>> /\ line[1] = COLON

--------------------------------------------------------------------------------
(* Scanner.Scan and the body of Next's loop.                               *)
atEOF == reader # "open"

scan == scanFrameLines(buf, atEOF)

(* A line: blank, comment or field.                                        *)
parsed(s, line) ==
  CASE line = <<>>     -> dispatch(s)
    [] isComment(line) -> s
    [] OTHER           -> consumeField(s, parseFieldLine(line))

NextLine ==
  /\ status = "reading"
  /\ \E found \in {scan} :
       /\ found.found
       /\ \E line \in {stripBOM(src, found.token)} :
            /\ src' = parsed([src EXCEPT !.bomChecked = TRUE], line)
            /\ delivered' = IF line = <<>> THEN delivered \o completed(src) ELSE delivered
       /\ lines' = Append(lines, found.token)
       /\ buf' = SubSeq(buf, found.advance + 1, Len(buf))
  /\ UNCHANGED <<unread, closed, reader, status>>

(* The scanner needs more and reads what there is room for, or less; a     *)
(* reader may report the end together with the last bytes.                 *)
Read(size) ==
  LET n == Min({size, Len(unread), MaxLine - Len(buf)}) IN
  /\ status = "reading"
  /\ ~scan.found
  /\ reader = "open"
  /\ n > 0
  /\ buf' = buf \o SubSeq(unread, 1, n)
  /\ unread' = SubSeq(unread, n + 1, Len(unread))
  /\ reader' \in IF closed /\ n = Len(unread) THEN {"open", "eof"} ELSE {"open"}
  /\ UNCHANGED <<closed, src, status, lines, delivered>>

(* The reader has no more bytes: the stream ended, or the connection broke.*)
ReadEnds ==
  /\ status = "reading"
  /\ ~scan.found
  /\ reader = "open"
  /\ Len(buf) < MaxLine
  /\ closed /\ unread = <<>>
  /\ reader' \in {"eof", "broken"}
  /\ UNCHANGED <<unread, closed, buf, src, status, lines, delivered>>

(* The buffer is full and holds no line: bufio.ErrTooLong.                 *)
TooLong ==
  /\ status = "reading"
  /\ ~scan.found
  /\ reader = "open"
  /\ Len(buf) = MaxLine
  /\ status' = "failed"
  /\ UNCHANGED <<unread, closed, buf, reader, src, lines, delivered>>

(* Scan returns false: Next drops what is incomplete, or hands the error on.*)
NextEnds ==
  /\ status = "reading"
  /\ ~scan.found
  /\ atEOF
  /\ status' = IF reader = "eof" THEN "ended" ELSE "failed"
  /\ src' = IF reader = "eof" THEN dropIncomplete(src) ELSE src
  /\ UNCHANGED <<unread, closed, buf, reader, lines, delivered>>

SNext ==
  \/ NextLine
  \/ \E size \in ReadSizes : Read(size)
  \/ ReadEnds
  \/ TooLong
  \/ NextEnds

(* The caller keeps calling Next, and the reader keeps answering.          *)
SFairness == WF_svars(SNext)
================================================================================
