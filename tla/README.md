# essessey in TLA+

Specifications, model-checking runs and proofs for `essessey`: a Go library that
streams an LLM turn as typed events (`message_start`, `content_block_*`, ...)
over SSE, NATS or WebSocket, and puts the turn together again on the other side.
Paths are relative to the repository root.

## The system

```
 engine (elelem) --callbacks--> Adapter --> TextStreamer --> Publisher --> Sink
                                                                            |
                                   MultiSink = wire sink + store.SinkFor ---+
                                                  |              |
                                              transport     InMemoryEventStore
                                                  |              | Since
                                               Source  <-- replay to a client
                                                  |
                                             Reassemble --> ParsedStream
```

| Component | State | Operations | Interacts with | What is hard | What makes it correct |
|---|---|---|---|---|---|
| `InMemoryEventStore` (`store.go`) | per stream a ring, head, count, next sequence number, index id -> sequence | `Append` (also as a Sink), `Since`, `Clear` | MultiSink, the application's reconnect | wrap-around, eviction, ids recorded twice, events without id | a known resume point is answered without gap, repeat or reordering; an evicted one is refused |
| `MultiSink` (`multisink.go`) | list of sinks | `Emit` | every sink | no lock across the sinks; one of several fails; the connection breaks inside a frame or a replay | what the client missed is in the store, in the order it was sent |
| `nats.Source`, `ws.Source` | mutex, buffered channel, closed flag | `Deliver`, `Close`, `Next` | client library callbacks, `Reassemble` | callbacks racing `Close`; a full channel; a consumer that leaves | no panic, no lost event, drained before the end, nobody stuck |
| `Publisher`, `types.go` | none | `Send*` | Sink | a send of several events failing in the middle | stops at the first failure |
| `TextStreamer` (`streamer.go`) | block index, open flag, text | `Write`, `Close` | Publisher | lazy open; failure between start and delta | the index moves only with a block that was really used |
| `LineStreamer` (`streamer.go`) | the same and a held partial line | `Write`, `Close` | Publisher | failure with a line half accounted for, or with its event out | how chunks are cut does not show; no complete line lost, repeated or out of its block |
| `Adapter`, `roundStream` (`elelemstream/`) | blockIndex, toolBase, toolCallCount, the round's two streamers | the engine's six callbacks | engine, TextStreamer, Publisher | thinking/text interleaving; parallel tools; rounds; sink failures | every block has its own index, in order, closed before the next |
| `Reassemble` (`reassemble.go`) | open runs, in-flight tools and results by index, the result | one handler per event, `finalize` | Source | lost, stray and cut-off events; map iteration order | a complete turn is rebuilt exactly, any other without mixing things up |
| SSE codec, `Source`, sinks (`sse/`) | scanner buffer, data buffer, type, last id, retry | `FrameLines`, `FrameComment`, `FrameRetry`, `Emit`, `Next` | byte streams | reads of any size, CR at the end of one, a full buffer; frames cut by a failing write; fields of different lifetimes; retry width | lines are found as written; a framed event is read back once and nothing else is |
| `nats.Sink`, `ws.Sink`, `InMemorySink`, `SliceSource`, `MapStopReason` | little or none | one call each | - | nothing of their own | - |

The hazards, each at the line where it bites and with the properties that would
catch it, are in `PROJECT.json`.

## Modules

| Module | Models | State and actions |
|---|---|---|
| `RetainedLog` | the promise of the `EventStore` interface | `log`: a bounded list per stream; `Record`, `Clear`, `Since` |
| `EventStore` | `store.go` | `streams`: the streams map. `Record` = `Append`, `Clear`; `Since` is an operator, since it changes nothing. All hold the lock throughout, so each is one step |
| `Resume` | `multisink.go` with a wire sink and `SinkFor`, as README.md composes them, and the replay through `SliceSource` | `EmitWire` and `EmitStore` are the two iterations of `MultiSink.Emit`; `Drop`, `Reconnect`, `Forget` are client and application; `ReplayNext`, `ReplayDone` pump the answer of `Since`; `EmitWireCut`, `ReplayCut` break the connection between the id line of a frame and its end |
| `EventChannel` | the promise of the `Source` interface (`event.go`) | `accepted`, `received`, `reading`; `Accept`, `Take`, `End` (`ErrNoMoreEvents`), `Leave` |
| `DeliverSource` | `nats/source.go` = `ws/source.go` | `mu`, `ch`, `closed` as in the code and `chClosed` for the channel, which panics when it is sent on or closed again; each call is split where it can block (`DeliverCall`, `DeliverLock`, `DeliverSend`, `CloseCall`, `Close`); `Next` is its three outcomes |
| `Wire` | the events of `publisher.go` and `types.go`, `Publisher.Publish` | constructors, the shape of an event, `Emit` on a sink that may fail |
| `Adapter` | `elelemstream/`, `TextStreamer`, the engine's callback order | `ad` is the Adapter with its roundStream, `wire` what the sink let through, `run` the engine, `said` what the model produced. One action per callback; inside it the sink may fail at any event, with that event out (a copy beside the wire failed) or not |
| `LineStreamer` | `LineStreamer` of `streamer.go` | `ls` its fields; `Write` and `Close` with a send failing anywhere, its event out (`leaks` counts them) or not, `Close` possibly again; `Transform` is a constant operator |
| `Reassembler` | `reassemble.go` | `r` is the reassembler; operators named after the handlers; `Handle`, `HandleStop`, `SourceEnds` are iterations of the loop |
| `AnyFeed` | `Reassemble` fed with anything | any event of `Inputs` in any order, at any index, any end; the texts are over `Chunks` |
| `RoundTrip` | Adapter -> transport -> Reassemble | adds `Carry`: the whole wire, a beginning of it, or all but any `MaxLost` events, through the loop of `Reassemble` |
| `SSECodec` | `sse/codec.go`, the split function of `sse/source.go` | operators: framing, sanitising, splitting lines, parsing a field |
| `SSESource` | `sse.Source` with its `bufio.Scanner` | `buf`, `reader`, `src`, `status`; `Read`, `ReadEnds`, `TooLong` are the scanner, `NextLine` and `NextEnds` the loop of `Next` |
| `SSEForeign` | the source on another producer's stream | `stream`: lines with their meaning, from which the expected events are defined |
| `SSEPipe` | `WriterSink`/`HTTPSink` to `Source` | `Emit`, `WriteComment`, `WriteRetry`, `EmitBreaks` (a write that fails inside a frame), `Close`, while the source reads |
| `EventStoreProofs`, `DeliverSourceProofs`, `ResumeProofs`, `ReassemblerProofs`, `AdapterProofs`, `LineStreamerProofs`, `RoundTripProofs` | - | the theorems about the module of that name (`ReassemblerProofs`: about `AnyFeed`) |
| `JoinProofs` | - | what the last three and `ReassemblerProofs` need of the operators: induction over the naturals, a fold as the table of its steps, `FlattenSeq`, prefixes, maps with one entry more or less |
| `MC*` | - | what TLC instantiates; values are in the `.cfg` files |

Abstractions. A string is a sequence of chunks, so `""` is `<<>>` and joining is
`\o`; every chunk is distinct, so a loss, a repetition or a swap shows. On the
byte level (`SSE*`) a symbol is one of CR, LF, colon, space, NUL, the byte order
mark, or a word; a numeral is one symbol. JSON is a record; an event that does
not decode is one `malformed` event, one without an index decodes to index 0.
Logging, model name, usage and `is_error` are left out: nothing downstream reads
them. An int64 is `WordBits` wide and a millisecond `MsInNs` units, so that the
product wraps at small numbers as it does at large ones. A definition with a
suffix as in `evictNever` or `CloseKeepsIndex` stands before the one it varies:
it is a plausible mistake in that code, and `PROJECT.json` says which property it
breaks.

## Runs

| Run | Instance | Shows |
|---|---|---|
| `store_streams` | 2 streams, capacity 2, 5 appends each, 2 ids, events without id | ring contiguous, index exact, resume gap free, `Since` equal to the abstract `Since`, refinement of `RetainedLog`, a repeated resume only grows |
| `resume_serial` | 1 producer, 5 events, capacity 2, 3 lost connections, also inside a frame or a replay, `Clear` at any time | a live client has been sent everything but the event of a cut frame; named events once; in order; in the end everything arrives or the client is refused |
| `resume_concurrent` | 2 producers, 1 event each, 1 lost connection | **violation** (finding 3) |
| `resume_lost` | 1 producer, 2 events, 1 frame cut | **violation** (finding 4) |
| `deliver_use` | 2 callbacks x 3 events, 2 closers, buffer 2, consumer may stop or be cancelled, fair | no panic, no holes, nothing after Close, refinement of `EventChannel`; unless the consumer has left, Deliver and Close return; the consumer ends |
| `deliver_leave` | 1 callback, 1 closer, buffer 1, consumer stops at message_stop | **violation** (finding 1) |
| `any_feed` | all sequences of 4 events, block events without index or at -1 and blocks of no or unknown type included, all ends | text conserved, timeline consistent, a run fed only at the marked index and closed by the next start, no call invented |
| `roundtrip_turn` | 2 rounds, 2 deltas, 2 parallel tools; the sink, a copy, a tool or the provider fails anywhere; 1 event lost or the stream cut | on the wire: indices ascend, no stray events, one block open, dense when finished, results at their slots; rebuilt: complete turns exact, cut turns a beginning of the turn, nothing garbled, results with their own calls |
| `roundtrip_reused` | 3 rounds, 1 tool, call ids repeating between rounds | **violation** (finding 2) |
| `sse_reads` | streams of 3 lines with every mix of LF, CR, CRLF; 3 lines of 13 kinds; 5 lines of 5 kinds; terminated at the end or not; reads of 1, 2 and 5 symbols into a buffer of 5 | the scanner finds exactly the lines; the events returned, the last id and the delay are those defined from the meaning of the lines |
| `sse_emit` | 3 frames of 4 events, a comment and 2 delays, a write failing at any symbol, reads of 1 and 7 | sink and source together refine `EventChannel`; an emitted event is delivered without the producer writing more |
| `line_calls` | 5 calls over 6 chunks with newlines anywhere, any send failing, its event out or not, with and without publisher and transform | chunking invisible, every complete line on the wire once, blocks in turn; what comes twice is what a failed send had got out |

Bounds. Five appends at capacity 2 take the ring through two wraps and reuse an
id before, at and after its eviction; the theorems hold for every capacity. A
buffer of 2 in `DeliverSource` stands for 64: only empty, partly full and full
differ, and 6 events fill it three times. Two rounds show the hand-over of the
index from a round to the next; two tools are the least that can swap. Two deltas
in a turn give thinking then text, text then thinking, both in one, neither, and
one in each round. Four events in `AnyFeed` are enough for start, delta, stop and
one event that disturbs them. One event lost or one cut is the least a transport
can do (`MaxLost` is 1); `AnyFeed` has events missing in any number, and the
theorems about `RoundTrip` hold for any `MaxLost`. In `sse_reads` a buffer of 5
is just filled by the longest line with its terminator, and overflows with CRLF;
four lines are needed for a type to leak over a blank line, five give a second
event with an id carried over. `WordBits` 4 and `MsInNs` 2 put values on both
sides of both limits of `retry`. Three frames give an event between two others,
or one beside a comment and a delay. Five calls of a `LineStreamer` give a line
over three chunks, two blocks, and a Close repeated after a failed one.

Deadlock checking is off where the system may stop: a turn ends, producers run
out of events, a source is closed.

Fairness. `deliver_*`: a goroutine that can run does (weak fairness), and one
that waits for the mutex gets it if it is free again and again (strong fairness):
`sync.Mutex` hands itself to a waiter of more than a millisecond. Nobody is
obliged to call `Deliver` or `Close` or to cancel. `sse_emit`: the caller goes on
calling `Next`, as `Reassemble` does, and a reader with bytes to give gives them;
the producer is obliged to nothing. `resume_serial`: an `Emit` that has begun
goes on to the next sink, a client that lost its connection comes back, a replay
is pumped to its end; nobody is obliged to emit.

## Findings

1. `Close` may never return (`deliver_leave`). `Deliver` keeps the mutex while it
   waits for room. Once the consumer has stopped, as `Reassemble` does at
   `message_stop`, a callback on a full channel holds it for good, and `Close`
   waits behind it. `nats/README.md` tears down in exactly this order.
2. Results are matched by call id, not by block index (`roundtrip_reused`), as
   the comment on `Reassemble` and the README have it. When a provider repeats an
   id in a later round the result goes to the earlier call. With unique ids
   `roundtrip_turn` shows the matching right.
3. The store may disagree with the wire about order (`resume_concurrent`). With
   two producers `MultiSink` can record `b, a` after the client was sent `a`, and
   a client that resumes from `a` is told it is up to date without `b`. With one
   producer `resume_serial` shows resumption right.
4. A connection that breaks inside a frame loses its event for good
   (`resume_lost`). `Source` takes an id as soon as its line is read, and drops
   the event when the blank line does not come; `LastEventID` then names an event
   the client never got, and `Since` answers without it. `resume_serial` shows
   that nothing else is lost.

Observations: places where a comment or a document says more than the code does.
The models follow the code, and the properties are stated so that they hold
beside these.

- A stream that ends inside a line has the rest parsed as a whole line
  (`sse/source.go:259`): cut inside `id: 12` it leaves the last id `1`.
- An id made only of CR, LF and NUL is not empty when `FrameLines` tests it and
  empty when it writes it (`sse/codec.go:76`): the receiver's resume point is
  reset, which the comment there wants to avoid. `sse_emit` includes such an id.
- A `retry` value that is an int64 but overflows as nanoseconds is stored as the
  wrapped product (`sse/source.go:192`), possibly negative. `RetryAsAsked` speaks
  of the values that fit; `sse_reads` includes ones that do not.
- CR and CRLF in a payload arrive as LF (`sse/codec.go:142`), while
  `sse/README.md` calls the payload byte-identical. `Received` in `SSEPipe` has
  the normalised payload.
- A failing copy makes `MultiSink.Emit` fail (`multisink.go:48`), the callback
  with it, and the engine gives the run up, while the comment says that a broken
  audit sink "must not abort delivery to the client". It is the fault `"copy"` of
  `Adapter`.
- A block event without an index decodes to index 0 (`reassemble.go:156`), while
  the comment says "never silently route to 0". `any_feed` includes such events.
- Block indices are not checked, and -1 is also what the markers of the
  reassembler hold when no block is open: a thinking delta at -1 is buffered
  although no thinking block was started (`reassemble.go:324`), where one at
  another index is dropped as an orphan. `OneOpenRun` says that nothing else can
  begin such a run.
- After a failed `LineStreamer.Close` the text is already in `output` and the
  line still held: calling `Close` again repeats it in `Text()`. On the wire it
  comes again when the failed send had got its event out, as with a `MultiSink`
  whose copy fails (`streamer.go:219`); a start or a stop that got out so comes
  twice in the same way (`streamer.go:231`, `streamer.go:266`). `WireOnce` and
  `BlocksInTurn` allow one repetition for each such send, of the partial line at
  the end or of the start or stop right before, and nothing else.

## Proofs

For every value of the constants that satisfies the assumptions:

- `EventStoreProofs`. The inductive invariant is `TypeOK`, `RingContiguous` and
  `IndexExact` together. None is inductive alone: eviction deletes an index entry
  by sequence number, which is right only because the outgoing slot holds the
  smallest one, and that is contiguity. The lemmas `SlotValue` and
  `SlotInjective` do the modular arithmetic once; `AppendEntries` says how the
  i-th oldest entry moves with an append. `ResumeIsGapFree` follows from the
  invariant, and `StoreImplementsLog` proves that every step of the ring is a
  step of `RetainedLog` or leaves it alone. `SinceIsExact` proves that the scan of
  `since` over the ring returns what the abstract `Since` cuts off the log: the
  positions selected are an interval at its end (`SinceRetained`), because the
  index holds the sequence number of the last occurrence. `ReplayNeverShrinks`, an
  action property, follows with `LogAfterRecord`, which says what an append does
  to the log: a known id was not evicted, so its tail only grows.
- `DeliverSourceProofs`. The inductive invariant is `TypeOK`, `LockInv` (who is
  sending holds the mutex, and then the source is not closed; the flag and the
  channel agree, so that a `Close` that passes the flag closes an open channel),
  `FlowInv` (what
  was received and what is queued make up what was accepted) and `OrderInv` (the
  accepted events of a callback are its calls in order). From it: no panic,
  drained at the end, no holes, nothing accepted after `Close`.
  `SourceImplementsChannel` proves the refinement of `EventChannel`: the lemma
  `ChannelStep` takes the actions one by one; a send is an `Accept`, which is
  possible only because a sender holds the mutex of a source that is not closed
  and the reader therefore cannot have ended (`LockInv`); `NextEvent` is a `Take`
  of the right event and `NextEnd` an `End` by `FlowInv`.

- `ResumeProofs`, for one producer (the hypothesis `Producers = {p}`; with two the
  results are false, finding 3), on top of the invariant of the store. Emission
  numbers make everything comparable: `LogInv` says that the store holds the
  latest emissions, consecutively, except the one between the wire and the store;
  `CoverInv` that everything up to the resume point was sent or cut, everything at
  all while the client is live, and that a replay in progress holds exactly what
  is still missing; `SentInv` that no event with an id beyond the resume point
  was sent. `LogInv` is what makes a resumption right and cannot be left out: the
  answer of `Since` is known only through `SinceIsExact`, and it is the missing
  part only because the log is consecutive and ends at the last emission.
- `ReassemblerProofs`, for any set of events, in any order and number. The
  invariant `RInv` has the types; at most one run marked open; the thinking that
  waits fed at the marked index since the last block started (`Fed`), which one
  lemma (`EventOnThinking`) follows through every handler; every finished and every
  in-flight call traced to a start that was handled, and every execution to a call;
  the text deltas seen equal to the finished text and the open run joined; and
  the items of the timeline joined equal to the finished text, thinking and
  executions. The conservation of text needs the open run in the invariant, since
  a delta goes to it and reaches the result only when something closes it.
  `flushAll` is proved for every order of the two Go maps at once. What a joined
  sequence of pieces is goes by induction over its length (`JoinProofs`): an
  induction over a set of naturals, from the well-foundedness of `<`, since the
  provers cannot use an induction rule that takes a predicate.
- `AdapterProofs`, for any number of rounds, deltas and parallel tools and any
  failure inside a callback. The invariant `AInv` speaks of the wire: `Orderly`
  (starts ascend, every delta and stop has its open block), `Booked` (every tool
  use names a call that was announced, every result answers one), and a part for
  each phase of the run. Between callbacks all indices below `blockIndex` are
  started and stopped once and none is used above (`Between`); while a round
  streams the streamer that is at work stands at the first free index, its block
  open or not (`Midway`); while tools are called, the same up to the next slot
  (`Calling`), and each use stands complete at its slot (`UsedAt`), which the
  results need (`Resulting`). After a failure the engine still asks for the other
  results, so `Resulting` keeps only an upper bound on the indices then, and that
  is enough for the order. The lemmas `StartStep`, `QuietStep` and `StopStep` say
  what one event more does to the wire; `Written`, `Closed`, `TextOpened`,
  `DeltaHandled` and `Finished` follow the streamers through a callback event by
  event; `UseEmitted` and `ResultHandled` do the same for the tool blocks. Then
  there is one lemma for each action.
- `LineStreamerProofs`, for any set of chunks of any length, any transform that
  makes a text of a text (the premise `TransformsText`; it is an operator, so the
  same line is always transformed alike) and any failing sends, with their event
  out or not. The fold of `Write` over the pieces of a chunk is taken through the table
  of its intermediate states (`JoinProofs`), so that `emitLine` is reasoned about
  one line at a time. The invariant `LInv` has the types; `InStep`, which ties the
  block index and the open flag to the starts and stops on the wire; and what the
  output is: while nothing failed, the transformed lines of the whole input with
  the partial line held (`Running`). After a failure (`Stuck`) there are two cases
  and both are needed: `Write` gives up with the held line gone and the wire some
  way into the input, while a `Close` that failed still holds it, and only then may
  a second `Close` put it on the wire. There it is still missing, unless the send
  that failed had its event out: the number of copies is bounded by the number of
  such sends (`leaks`), and likewise the starts and stops repeated.
- `RoundTripProofs`, for any number of rounds, deltas and parallel tools, any
  failure, and any set of events lost (a `MaxLost` as long as the wire allows every
  set). The writer's invariant `AInv` says nothing
  of what the deltas carry; `GInv` adds that the tags of each kind ascend on the
  wire and were said. The reader is followed event by event through the fold of
  `Carry`, with one lemma for each kind of event saying which fields it changes
  and which it leaves alone, then for `finalize` under every order of the two
  maps. `NoTextGarbled` needs that the finished text and the open run together
  follow the wire up to that event; that the run is joined in at most once is why
  both are in the statement. `ResultsStayWithTheirCalls` needs that every call in
  flight and every finished one goes back to its own start on the wire (`Tally`),
  that starts on the wire have different ids (`Paired`), and that a result is
  taken from its map when it is attached. Its premise `UniqueIDs` is one the code
  does not enforce: `roundtrip_reused` shows the result false without it.

  `CompleteTurnsAreExact` and `CutTurnsAreBeginnings` are about a turn in which
  nothing failed, under the same premise. Here the reader's state has to be known,
  not only bounded. A page (`PageOf`) is what a list of rounds comes to: names,
  calls, executions, timeline, text and thinking. `Rests`, `Thinks`, `Talks`,
  `Uses` and `Gives` say that the reader has closed such a page and has nothing, a
  run of text or of thinking, one call, or one result open beside it, and there is
  one lemma for each event that leads from one of these to the next. `Cut` is
  `CutIsPrefix` as a relation between two timelines, and it is transitive; `Clear`
  says that a reader of the whole wire has that state and that, stopped after any
  event so far, it would have returned a `Cut` of the timeline. The invariant
  `EInv` states this for each phase of the turn: while a round is streamed
  (`Streams`), after n of its calls (`Ordering`), after m of its results
  (`Serves`), between rounds (`Settles`). The timeline grows while the turn goes
  on, so a step also shows that the old one is a `Cut` of the new one. The premise
  is needed where a result is given to the first finished call with its id.

Assumptions are the named `ASSUME`s: a positive capacity (which the constructor
enforces), the empty id not being an id, distinct goroutines, events that have the
fields decoding gives them (`InputAssumption`), bounds that
are natural numbers (`AdapterAssumption`, `LostAssumption`), a chunk being a sequence of characters
(`LineStreamerAssumption`).

Only model-checked: liveness (`CallsReturn`, `ConsumerEnds`, `CaughtUp`,
`Arrives`), which the prover does not do, and `SSE*`, where what is expected is
defined from all lines of a stream at once and `strings.Split` is a fold. Nothing
stands against a proof of the latter, none is written.

## Not modelled

- `nats.Sink`, `ws.Sink`: one library call each. A failing call is the failing
  `Emit` of `Adapter` and `Resume`.
- `MapStopReason`: a stateless three-way choice.
- `InMemorySink`: a list under a mutex, the `wire` of `Adapter`; its readers
  change nothing.
- A writer that recovers after a failed write: `WriterSink` would go on inside the
  torn frame. Which writers do is outside the code; `SSEPipe` ends the connection
  with the first failure, as `net/http` does.
- Keep-alive comments written beside the sink's mutex by the application:
  `SSEPipe` takes a write as whole.
- The engine beyond the order of its callbacks and its reaction to their errors.
- The application's hand-over from replay to live: `Resume` assumes that it is
  serialised with the producers.

## Plan

Done: the store with its abstract specification, the push sources and the SSE
source with theirs, the adapter, both streamers, reassembly, the round trip,
resumption and replay with faults, the SSE format; the theorems above.

Next, proofs: `LinesExact` of the SSE source.
