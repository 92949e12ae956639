--------------------------------- MODULE Resume --------------------------------
(***************************************************************************)
(* Retention as README.md composes it ("Resuming a dropped stream"):       *)
(* producers emit through                                                  *)
(*     NewMultiSink(httpSink, store.SinkFor(chatID))                       *)
(* and a client that lost its connection comes back with the last id it    *)
(* saw: what Since answers goes into a SliceSource (memory.go), which is   *)
(* pumped through the wire sink alone, and the connection may break again  *)
(* before that is done.                                                    *)
(*                                                                         *)
(* MultiSink.Emit (multisink.go) calls one sink after the other and holds  *)
(* no lock across them; each sink has a lock of its own.  So Emit is two   *)
(* steps, and other producers run between them.                            *)
(*                                                                         *)
(* The application (external) lets no Emit run from Since to the end of    *)
(* the replay: the library offers no atomic hand-over, and an application  *)
(* that does not serialise it loses what is emitted between the two.       *)
(***************************************************************************)
EXTENDS EventStore

CONSTANTS Producers,   \* goroutines that emit
          Stream,      \* the stream they emit to
          MaxEmits,    \* bound: events per producer
          MaxDrops,    \* bound: connections lost
          CutFrames    \* whether a connection may break inside a frame

ASSUME ResumeAssumption ==
  /\ Stream \in Streams
  /\ MaxEmits \in Nat /\ MaxDrops \in Nat /\ CutFrames \in BOOLEAN
  /\ Data = Producers \X (1 .. MaxEmits)
  /\ IDs = Data

VARIABLES
  emitting,   \* emitting[p]: the event p is inside Emit with, or NoEvent
  emits,      \* emits[p]: Emit calls p has begun
  conn,       \* the client: "up", "down", "replaying" or "refused" (resume
              \* point unknown)
  replay,     \* what the SliceSource has not handed out yet
  received,   \* the events the client was sent, over all its connections
  lastID,     \* the client's Last-Event-ID
  drops,      \* connections lost so far
  torn        \* history: the data of the events whose frame was cut

cvars == <<streams, emitting, emits, conn, replay, received, lastID, drops, torn>>

NoEvent == [id |-> NoID, data |-> NoID]

(* The n-th event of p; its producer may leave it without an id.           *)
EventOf(p, n, named) == [id |-> IF named THEN <<p, n>> ELSE NoID, data |-> <<p, n>>]

RInit ==
  /\ Init
  /\ emitting = [p \in Producers |-> NoEvent]
  /\ emits = [p \in Producers |-> 0]
  /\ conn = "up"
  /\ replay = <<>>
  /\ received = <<>>
  /\ lastID = NoID
  /\ drops = 0
  /\ torn = {}

--------------------------------------------------------------------------------
(* HTTPSink.Emit to a client that is there, and what its sse.Source makes  *)
(* of the frame: the event, and its id if it has one.                      *)
Deliver(e) ==
  /\ received' = Append(received, e)
  /\ lastID' = IF e.id = NoID THEN lastID ELSE e.id

(* The connection breaks when the id line of the frame of e is through and *)
(* its blank line is not: the client's Source has taken the id (consumeID) *)
(* and drops the event (dropIncomplete).                                   *)
Tear(e) ==
  /\ CutFrames
  /\ drops < MaxDrops
  /\ e.id # NoID
  /\ lastID' = e.id
  /\ conn' = "down"
  /\ drops' = drops + 1
  /\ torn' = torn \cup {e.data}
  /\ replay' = <<>>
  /\ UNCHANGED received

(* MultiSink.Emit, first sink: HTTPSink.Emit writes the frame, or fails    *)
(* because the client is gone.  Either way the loop goes on.               *)
EmitWireStops(p, named) ==
  LET e == EventOf(p, emits[p] + 1, named)
  IN  /\ emitting[p] = NoEvent
      /\ emits[p] < MaxEmits
      /\ conn # "replaying"
      /\ emits' = [emits EXCEPT ![p] = @ + 1]
      /\ IF conn = "up" THEN Deliver(e) /\ emitting' = [emitting EXCEPT ![p] = e]
                        ELSE UNCHANGED <<received, lastID, emitting>>
      /\ UNCHANGED <<streams, conn, replay, drops, torn>>

EmitWire(p, named) ==
  LET e == EventOf(p, emits[p] + 1, named)
  IN  /\ emitting[p] = NoEvent
      /\ emits[p] < MaxEmits
      /\ conn # "replaying"
      /\ emits' = [emits EXCEPT ![p] = @ + 1]
      /\ emitting' = [emitting EXCEPT ![p] = e]
      /\ IF conn = "up" THEN Deliver(e) ELSE UNCHANGED <<received, lastID>>
      /\ UNCHANGED <<streams, conn, replay, drops, torn>>

(* The same, but the connection breaks inside the frame.                   *)
EmitWireCut(p) ==
  LET e == EventOf(p, emits[p] + 1, TRUE)
  IN  /\ emitting[p] = NoEvent
      /\ emits[p] < MaxEmits
      /\ conn = "up"
      /\ emits' = [emits EXCEPT ![p] = @ + 1]
      /\ emitting' = [emitting EXCEPT ![p] = e]
      /\ Tear(e)
      /\ UNCHANGED streams

(* MultiSink.Emit, second sink: storeSink.Emit records the event.          *)
EmitStore(p) ==
  /\ emitting[p] # NoEvent
  /\ Record(Stream, emitting[p])
  /\ emitting' = [emitting EXCEPT ![p] = NoEvent]
  /\ UNCHANGED <<emits, conn, replay, received, lastID, drops, torn>>

(* The connection breaks, live or in the middle of a replay.               *)
Drop ==
  /\ conn \in {"up", "replaying"}
  /\ drops < MaxDrops
  /\ conn' = "down"
  /\ drops' = drops + 1
  /\ replay' = <<>>
  /\ UNCHANGED <<streams, emitting, emits, received, lastID, torn>>

(* The client comes back: a known resume point is replayed, an unknown one *)
(* is handed to the application, which here gives the stream up.           *)
Reconnect ==
  LET answer == Since(Stream, lastID)
  IN  /\ conn = "down"
      /\ \A p \in Producers : emitting[p] = NoEvent
      /\ conn' = IF answer.known THEN "replaying" ELSE "refused"
      /\ replay' = answer.events
      /\ UNCHANGED <<streams, emitting, emits, received, lastID, drops, torn>>

(* SliceSource.Next hands out the next event, for the wire sink.           *)
ReplayNext ==
  /\ conn = "replaying"
  /\ replay # <<>>
  /\ Deliver(Head(replay))
  /\ replay' = Tail(replay)
  /\ UNCHANGED <<streams, emitting, emits, conn, drops, torn>>

(* The same, but the connection breaks inside the frame.                   *)
ReplayCut ==
  /\ conn = "replaying"
  /\ replay # <<>>
  /\ Tear(Head(replay))
  /\ UNCHANGED <<streams, emitting, emits>>

(* SliceSource.Next answers ErrNoMoreEvents: the client is live again.     *)
ReplayDone ==
  /\ conn = "replaying"
  /\ replay = <<>>
  /\ conn' = "up"
  /\ UNCHANGED <<streams, emitting, emits, replay, received, lastID, drops, torn>>

(* The application forgets the stream, at any moment.                      *)
Forget ==
  /\ streams[Stream] # NoBuffer
  /\ Clear(Stream)
  /\ UNCHANGED <<emitting, emits, conn, replay, received, lastID, drops, torn>>

RNext ==
  \/ \E p \in Producers :
       \/ \E named \in BOOLEAN : EmitWire(p, named)
       \/ EmitWireCut(p)
       \/ EmitStore(p)
  \/ Drop
  \/ Reconnect
  \/ ReplayNext
  \/ ReplayCut
  \/ ReplayDone
  \/ Forget

(* An Emit that has begun goes on, a lost client comes back, and a replay  *)
(* is pumped to its end.  Nothing makes producers emit.                    *)
RFairness ==
  /\ \A p \in Producers : WF_cvars(EmitStore(p))
  /\ WF_cvars(Reconnect)
  /\ WF_cvars(ReplayNext)
  /\ WF_cvars(ReplayDone)

RSpec == RInit /\ [][RNext]_cvars /\ RFairness

--------------------------------------------------------------------------------
Got(d) == {i \in DOMAIN received : received[i].data = d}

(* The events begun so far whose frame was not cut.                        *)
Due == {d \in Data : d[2] <= emits[d[1]]} \ torn

(* A client that is live, after whatever losses and resumptions, one cut   *)
(* short by the next included, has been sent every event there is          *)
(* ("known=true with an empty slice means the client is already up to      *)
(* date", store.go); a frame cut in the middle costs at most its own event.*)
NothingMissed == conn = "up" => \A d \in Due : Got(d) # {}

(* "This is what makes a dropped connection recoverable" (event.go): an    *)
(* event whose frame was cut is sent again before the client is live.      *)
CutIsRecovered == conn = "up" => \A d \in torn : Got(d) # {}

(* No event that carries an id is sent twice: a resume repeats at most the *)
(* events without an id after the resume point.                            *)
NamedOnce ==
  \A i, j \in DOMAIN received :
    i # j /\ received[i] = received[j] => received[i].id = NoID

(* The first time the events of one producer reach the client they do so   *)
(* in the order in which they were emitted, replayed or live.              *)
InOrder ==
  \A i \in DOMAIN received :
    LET p == received[i].data[1]
        n == received[i].data[2]
    IN  n > 1 => \/ <<p, n - 1>> \in torn
                 \/ \E j \in 1 .. i - 1 : received[j].data = <<p, n - 1>>

(* Every event whose frame was not cut reaches the client in the end, live *)
(* or replayed, unless the store has to tell it that its resume point is   *)
(* gone.                                                                   *)
CaughtUp ==
  \A d \in Data : d \in Due ~> (Got(d) # {} \/ d \in torn \/ conn = "refused")
================================================================================
