------------------------------- MODULE EventStore ------------------------------
(***************************************************************************)
(* InMemoryEventStore (store.go): per stream a ring buffer of the last     *)
(* Capacity events and an index from event id to sequence number.          *)
(*                                                                         *)
(* Append and Clear run under mu.Lock and Since under mu.RLock, so each is *)
(* one atomic step; Since changes nothing and is an operator.              *)
(***************************************************************************)
EXTENDS Integers, FiniteSets, Sequences, SequencesExt

CONSTANTS Streams,    \* stream identifiers (opaque keys)
          Capacity,   \* events retained per stream
          IDs,        \* non-empty event ids
          NoID,       \* the empty id ""
          Data,       \* payloads
          NoData,     \* the empty payload
          NoBuffer,   \* a stream with no entry in the streams map
          MaxSeq      \* bound: appends to one buffer of a stream

(* NewInMemoryEventStore refuses a capacity that is not positive.          *)
ASSUME CapacityAssumption == Capacity \in Nat \ {0}
ASSUME IDAssumption == NoID \notin IDs
ASSUME DataAssumption == NoData \in Data
ASSUME BoundAssumption == MaxSeq \in Nat

VARIABLE streams      \* streams[s]: the buffer of s, or NoBuffer

vars == <<streams>>

--------------------------------------------------------------------------------
Event == [id : IDs \cup {NoID}, data : Data]

StoredEvent == [seq : Nat, ev : Event]

(* The value index has for an id it does not hold.                         *)
NoSeq == -1

Slots == 0 .. Capacity - 1

Buffer == [ring  : [Slots -> StoredEvent],
           head  : Slots,
           count : 0 .. Capacity,
           next  : Nat,
           index : [IDs -> Nat \cup {NoSeq}]]

ASSUME NoBufferAssumption == NoBuffer \notin Buffer

(* A new streamBuffer: make fills the ring with zero values.               *)
FreshBuffer ==
  [ring  |-> [i \in Slots |-> [seq |-> 0, ev |-> [id |-> NoID, data |-> NoData]]],
   head  |-> 0,
   count |-> 0,
   next  |-> 0,
   index |-> [id \in IDs |-> NoSeq]]

(* streamBuffer.evict: the index once an outgoing entry has left the ring. *)
evictNever(index, outgoing) == index

evictUnchecked(index, outgoing) ==
  IF outgoing.ev.id # NoID
    THEN [index EXCEPT ![outgoing.ev.id] = NoSeq]
    ELSE index

evict(index, outgoing) ==
  IF outgoing.ev.id # NoID /\ index[outgoing.ev.id] = outgoing.seq
    THEN [index EXCEPT ![outgoing.ev.id] = NoSeq]
    ELSE index

(* The next slot to write.                                                 *)
advanceUnwrapped(b) == b.head + 1

advanceWhileFilling(b) ==
  IF b.count = Capacity THEN b.head ELSE (b.head + 1) % Capacity

advance(b) == (b.head + 1) % Capacity

(* streamBuffer.append: write at the head, evicting what is there.         *)
append(b, e) ==
  LET kept == IF b.count = Capacity THEN evict(b.index, b.ring[b.head]) ELSE b.index
  IN  [ring  |-> [b.ring EXCEPT ![b.head] = [seq |-> b.next, ev |-> e]],
       head  |-> advance(b),
       count |-> IF b.count < Capacity THEN b.count + 1 ELSE b.count,
       next  |-> b.next + 1,
       index |-> IF e.id # NoID THEN [kept EXCEPT ![e.id] = b.next] ELSE kept]

(* The slot of the i-th oldest valid entry, i counted from 0.              *)
slot(b, i) ==
  LET oldest == (b.head - b.count + Capacity) % Capacity
  IN  (oldest + i) % Capacity

(* The positions, oldest first, of the entries recorded after seq.         *)
afterInclusive(b, seq) == {i \in 0 .. b.count - 1 : b.ring[slot(b, i)].seq >= seq}

after(b, seq) == {i \in 0 .. b.count - 1 : b.ring[slot(b, i)].seq > seq}

(* The k-th smallest of a set of positions.                                *)
kth(S, k) == CHOOSE i \in S : Cardinality({j \in S : j < i}) = k - 1

(* streamBuffer.since: an id that is not indexed is not a resume point;    *)
(* otherwise the later entries, in ring order from the oldest.             *)
since(b, id) ==
  IF id = NoID \/ b.index[id] = NoSeq
    THEN [known |-> FALSE, events |-> <<>>]
    ELSE LET later == after(b, b.index[id])
         IN  [known  |-> TRUE,
              events |-> [k \in 1 .. Cardinality(later) |->
                            b.ring[slot(b, kth(later, k))].ev]]

(* InMemoryEventStore.Since: what a client resuming at id is sent.         *)
Since(s, id) ==
  IF streams[s] = NoBuffer
    THEN [known |-> FALSE, events |-> <<>>]
    ELSE since(streams[s], id)

--------------------------------------------------------------------------------
Init == streams = [s \in Streams |-> NoBuffer]

(* InMemoryEventStore.Append, which is all that storeSink.Emit does.       *)
BufferOf(s) == IF streams[s] = NoBuffer THEN FreshBuffer ELSE streams[s]

Record(s, e) ==
  /\ BufferOf(s).next < MaxSeq
  /\ streams' = [streams EXCEPT ![s] = append(BufferOf(s), e)]

(* Clear forgets the stream; the next Append starts a fresh buffer.        *)
ClearAll(s) == streams' = [t \in Streams |-> NoBuffer]

Clear(s) == streams' = [streams EXCEPT ![s] = NoBuffer]

Next == \E s \in Streams : Clear(s) \/ \E e \in Event : Record(s, e)

Spec == Init /\ [][Next]_vars

--------------------------------------------------------------------------------
(* Every buffer of the streams map is well formed (type streamBuffer).     *)
TypeOK == streams \in [Streams -> Buffer \cup {NoBuffer}]

(* The valid entries of a buffer, oldest first, hold consecutive sequence  *)
(* numbers that end at next - 1: the ring never skips, repeats or reorders *)
(* an entry, also once head has wrapped and count has stopped growing.     *)
Contiguous(b) ==
  /\ b.count <= b.next
  /\ b.count < Capacity => b.count = b.next
  /\ \A i \in 0 .. b.count - 1 : b.ring[slot(b, i)].seq = b.next - b.count + i

RingContiguous == \A s \in Streams : streams[s] # NoBuffer => Contiguous(streams[s])

(* The index holds an id exactly while some retained entry carries it, and *)
(* then the sequence number of the newest of them: eviction neither leaves *)
(* a dangling resume point nor destroys a live one when an id was reused.  *)
Exact(b) ==
  \A id \in IDs :
    /\ b.index[id] = NoSeq =>
         \A i \in 0 .. b.count - 1 : b.ring[slot(b, i)].ev.id # id
    /\ b.index[id] # NoSeq =>
         \E i \in 0 .. b.count - 1 :
           /\ b.ring[slot(b, i)].seq = b.index[id]
           /\ b.ring[slot(b, i)].ev.id = id
           /\ \A j \in i + 1 .. b.count - 1 : b.ring[slot(b, j)].ev.id # id

IndexExact == \A s \in Streams : streams[s] # NoBuffer => Exact(streams[s])

(* What since selects for a resume point: every sequence number recorded   *)
(* after it, none twice, none missing, and in increasing order of position.*)
GapFree ==
  \A s \in Streams, id \in IDs :
    streams[s] # NoBuffer /\ streams[s].index[id] # NoSeq =>
      LET b == streams[s]
          from == b.index[id]
      IN  /\ {b.ring[slot(b, i)].seq : i \in after(b, from)} = from + 1 .. b.next - 1
          /\ \A i, j \in after(b, from) :
               i < j => b.ring[slot(b, i)].seq < b.ring[slot(b, j)].seq

(* The retained log a buffer stands for.                                   *)
Retained(b) == [k \in 1 .. b.count |-> b.ring[slot(b, k - 1)].ev]

LogOf(s) == IF streams[s] = NoBuffer THEN <<>> ELSE Retained(streams[s])

RL == INSTANCE RetainedLog WITH log <- [s \in Streams |-> LogOf(s)]

(* Since answers what the interface promises (store.go, EventStore.Since): *)
(* for every stream and id, known exactly when the id is retained, and     *)
(* then everything after its last occurrence, in order and without a gap.  *)
SinceExact ==
  \A s \in Streams, id \in IDs \cup {NoID} : Since(s, id) = RL!Since(s, id)

(* The ring, head, count and index implement the plain retained log.       *)
ImplementsRetainedLog == RL!Spec

(* A client that resumes twice from the same id sees, the second time, at  *)
(* least what it saw the first time and in the same order, as long as the  *)
(* id stays known and was not itself recorded again (store.go, the comment *)
(* on InMemoryEventStore about reused ids).                                *)
ReplayGrows ==
  \A s \in Streams, id \in IDs :
    /\ Since(s, id).known
    /\ Since(s, id)'.known
    => \/ IsPrefix(Since(s, id).events, Since(s, id)'.events)
       \/ Last(LogOf(s)').id = id

ReplayOnlyGrows == [][ReplayGrows]_vars
================================================================================
