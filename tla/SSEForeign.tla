------------------------------- MODULE SSEForeign ------------------------------
(***************************************************************************)
(* sse.Source on a stream of another producer: "The parser accepts what    *)
(* the format allows, not just what this package writes" (sse/README.md).  *)
(* The stream is a sequence of lines, each with what it means beside its   *)
(* text and one of the three terminators; the last one may lack its        *)
(* terminator.  What should come out is defined from the meanings alone.   *)
(***************************************************************************)
EXTENDS SSESource

CONSTANTS Producers   \* kinds of producers, each with its lines ([text, kind,
                      \* value]), its terminators, of <<LF>>, <<CR>> and
                      \* <<CR, LF>>, and a bound on the lines it writes

VARIABLES stream   \* the stream: a sequence of [line, end]

fvars == <<svars, stream>>

(* A CR before the LF that ends an empty line is not a CR: the two are one *)
(* terminator.  Without a terminator there must be some text.              *)
IsStream(s) ==
  /\ \A i \in 1 .. Len(s) - 1 :
       /\ s[i].end # <<>>
       /\ s[i].end = <<CR>> /\ s[i + 1].line.text = <<>> => s[i + 1].end # <<LF>>
  /\ s # <<>> => Last(s).end # <<>> \/ Last(s).line.text # <<>>

Streams ==
  UNION {{s \in SeqOf([line : p.lines, end : p.ends \cup {<<>>}], p.max) : IsStream(s)} :
           p \in Producers}

Bytes(s) == FlattenSeq([i \in DOMAIN s |-> s[i].line.text \o s[i].end])

FInit ==
  /\ stream \in Streams
  /\ SInit(Bytes(stream), TRUE)

FNext == SNext /\ UNCHANGED stream

FSpec == FInit /\ [][FNext]_fvars

--------------------------------------------------------------------------------
(* The meaning of the stream.                                              *)
Kind(i) ==
  IF stream[i].line.kind = "bom" THEN IF i = 1 THEN "data" ELSE "other"
  ELSE stream[i].line.kind

Value(i) == stream[i].line.value

(* The last line of a kind after line a, up to line b; 0 if there is none. *)
LastOf(kind, a, b) == Max({0} \cup {i \in a + 1 .. b : Kind(i) = kind})

ValueOfLast(kind, a, b) ==
  IF LastOf(kind, a, b) = 0 THEN <<>> ELSE Value(LastOf(kind, a, b))

(* The lines an event could end at: blank ones that are terminated.        *)
Blanks == {i \in DOMAIN stream : Kind(i) = "blank"}

(* The event that ends at blank line b, if there is data since the blank   *)
(* line before it.                                                         *)
EventAt(b) ==
  LET a    == LastOf("blank", 0, b - 1)
      data == SelectSeq([i \in 1 .. b |-> i], LAMBDA i : i > a /\ Kind(i) = "data")
  IN  IF data = <<>> THEN <<>>
      ELSE <<[id    |-> ValueOfLast("id", 0, b),
              event |-> ValueOfLast("event", a, b),
              data  |-> Tail(FlattenSeq([k \in DOMAIN data |-> <<LF>> \o Value(data[k])]))]>>

EventsIn(n) ==
  FlattenSeq([b \in 1 .. n |-> IF b \in Blanks THEN EventAt(b) ELSE <<>>])

(* The scanner finds the stream's own lines, however the terminators fall  *)
(* on the ends of its buffer: no line is split, joined or invented, and    *)
(* none is missing at a clean end.                                         *)
LinesExact ==
  /\ Len(lines) <= Len(stream)
  /\ \A i \in DOMAIN lines : lines[i] = stream[i].line.text
  /\ status = "ended" => Len(lines) = Len(stream)

(* After any number of lines exactly the events have been returned that    *)
(* those lines complete: data of several lines joined, type forgotten at   *)
(* each blank line, id carried on and untouched by one with NUL, nothing   *)
(* for a block without data or for an unterminated one.                    *)
ParsedAsSpecified ==
  /\ delivered = EventsIn(Len(lines))
  /\ src.lastEventID = ValueOfLast("id", 0, Len(lines))

(* "Retry returns the reconnection delay the producer asked for"           *)
(* (sse/source.go): the last retry line that is an int64 decides, and if a *)
(* time.Duration can hold its delay, that is what Retry returns; what no   *)
(* int64 can hold is ignored.                                              *)
RetryAsAsked ==
  LET asked == {i \in DOMAIN lines : Kind(i) = "retry" /\ ParseInt(Value(i)[1]) <= MaxInt}
      delay == IF asked = {} THEN 0 ELSE ParseInt(Value(Max(asked))[1]) * MsInNs
  IN  delay <= MaxInt => src.retry = delay
================================================================================
