--------------------------------- MODULE SSEPipe -------------------------------
(***************************************************************************)
(* WriterSink or HTTPSink at one end of a connection (sse/sink.go) and     *)
(* sse.Source at the other.  Emit writes one frame in one Write under the  *)
(* sink's mutex, so frames are never mixed, whoever emits; comments and    *)
(* retry frames go to the same writer between them.  A write may fail when *)
(* part of the frame is out: the connection is gone then.  The reader runs *)
(* all the while.                                                          *)
(***************************************************************************)
EXTENDS SSESource

CONSTANTS Events,     \* events that may be emitted
          Comments,   \* texts for FrameComment
          Delays,     \* durations for FrameRetry
          MaxItems,   \* bound: frames written
          Breaks      \* whether a write may fail part-way

VARIABLES sent   \* history: what was written in full

pvars == <<svars, sent>>

PInit ==
  /\ SInit(<<>>, FALSE)
  /\ sent = <<>>

--------------------------------------------------------------------------------
Write(bytes) ==
  /\ ~closed
  /\ Len(sent) < MaxItems
  /\ unread' = unread \o bytes
  /\ UNCHANGED <<closed, buf, reader, src, status, lines, delivered>>

(* The frames of the events, computed once.                                *)
frame == [ev \in Events |-> FrameLines(ev)]

(* WriterSink.Emit and HTTPSink.Emit.                                      *)
Emit(ev) == Write(frame[ev]) /\ sent' = Append(sent, ev)

(* The application keeps the connection alive and names a delay.           *)
WriteComment(text) == Write(FrameComment(text)) /\ sent' = Append(sent, [comment |-> text])
WriteRetry(d)      == Write(FrameRetry(d)) /\ sent' = Append(sent, [delay |-> d])

(* Emit fails after n bytes of its frame.                                  *)
EmitBreaks(ev, n) ==
  /\ Breaks
  /\ ~closed
  /\ Len(sent) < MaxItems
  /\ unread' = unread \o SubSeq(frame[ev], 1, n)
  /\ closed' = TRUE
  /\ UNCHANGED <<buf, reader, src, status, lines, delivered, sent>>

(* The handler returns and the body ends.                                  *)
Close ==
  /\ ~closed
  /\ closed' = TRUE
  /\ UNCHANGED <<unread, buf, reader, src, status, lines, delivered, sent>>

PNext ==
  \/ \E ev \in Events : Emit(ev)
  \/ \E ev \in Events : \E n \in 1 .. Len(frame[ev]) - 1 : EmitBreaks(ev, n)
  \/ \E text \in Comments : WriteComment(text)
  \/ \E d \in Delays : WriteRetry(d)
  \/ Close
  \/ SNext /\ UNCHANGED sent

(* Nothing makes the producer write or close; what is written is read.     *)
PSpec == PInit /\ [][PNext]_pvars /\ SFairness

--------------------------------------------------------------------------------
(* What was emitted, and what of it must come out.                         *)
Emitted == SelectSeq(sent, LAMBDA item : "data" \in DOMAIN item)

(* The id the receiver has after the first n events.                       *)
IDAfter(n) ==
  LET named == {i \in 1 .. n : Emitted[i].id # <<>>}
  IN  IF named = {} THEN <<>> ELSE sanitizeFieldValue(Emitted[Max(named)].id)

Received(n) ==
  [id    |-> IDAfter(n),
   event |-> sanitizeFieldValue(Emitted[n].event),
   data  |-> normalized(Emitted[n].data)]

(* Together sink and source are an event channel.  The reader returns the  *)
(* emitted events in order, one for one: no payload or name, blank lines,  *)
(* colons and leading spaces in it included, forges, splits or hides an    *)
(* event, none is returned of a frame that was cut, and an id stands until *)
(* the next.  A normal end is reported only when every one was returned.   *)
Arriving == [n \in DOMAIN Emitted |-> Received(n)]

Reading ==
  IF status = "reading" THEN "open" ELSE IF status = "ended" THEN "ended" ELSE "left"

Channel == INSTANCE EventChannel
             WITH accepted <- Arriving, received <- delivered, reading <- Reading

ImplementsChannel == Channel!Spec

(* An event whose frame is out is delivered without the producer writing   *)
(* anything more, unless the reader fails ("so the client sees it          *)
(* immediately", sse/sink.go).                                             *)
Arrives ==
  \A n \in 1 .. MaxItems :
    (Len(Emitted) >= n) ~> (Len(delivered) >= n \/ status = "failed")
================================================================================
