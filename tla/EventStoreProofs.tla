--------------------------- MODULE EventStoreProofs ----------------------------
(***************************************************************************)
(* Theorems about EventStore for every number of streams and ids, every    *)
(* capacity and every bound on the number of appends.                      *)
(***************************************************************************)
EXTENDS EventStore, FiniteSetTheorems, TLAPS

(* Remainder on the only range the ring arithmetic uses: one wrap.         *)
LEMMA ModOneWrap ==
  ASSUME NEW n \in Nat \ {0}, NEW x \in 0 .. 2 * n - 1
  PROVE  x % n = IF x < n THEN x ELSE x - n
  OBVIOUS

(* streamBuffer.since computes the slot of the i-th oldest entry with two  *)
(* remainders; each wraps at most once.                                    *)
LEMMA SlotValue ==
  ASSUME NEW b \in Buffer, NEW i \in 0 .. Capacity - 1
  PROVE  LET d == IF b.head < b.count THEN b.head - b.count + Capacity
                                      ELSE b.head - b.count
         IN  slot(b, i) = IF d + i < Capacity THEN d + i ELSE d + i - Capacity
<1> DEFINE d == IF b.head < b.count THEN b.head - b.count + Capacity
                                    ELSE b.head - b.count
           old == (b.head - b.count + Capacity) % Capacity
<1>1. Capacity \in Nat \ {0} /\ b.head \in 0 .. Capacity - 1 /\ b.count \in 0 .. Capacity
  BY CapacityAssumption DEF Buffer, Slots
<1>2. old = d
  <2> DEFINE x == b.head - b.count + Capacity
  <2>1. x \in 0 .. 2 * Capacity - 1
    BY <1>1
  <2>2. x % Capacity = IF x < Capacity THEN x ELSE x - Capacity
    BY <1>1, <2>1, ModOneWrap
  <2> QED
    BY <1>1, <2>2
<1>3. (d + i) % Capacity = IF d + i < Capacity THEN d + i ELSE d + i - Capacity
  <2> HIDE DEF d
  <2>1. d \in 0 .. Capacity - 1
    BY <1>1 DEF d
  <2>2. \A x \in 0 .. 2 * Capacity - 1 : x % Capacity = IF x < Capacity THEN x ELSE x - Capacity
    BY <1>1, ModOneWrap
  <2>3. d + i \in 0 .. 2 * Capacity - 1
    BY <1>1, <2>1
  <2> QED
    BY <1>1, <2>1, <2>2, <2>3, SMTT(30)
<1>4. slot(b, i) = (old + i) % Capacity
  BY DEF slot
<1> QED
  BY <1>2, <1>3, <1>4

(* Distinct positions are distinct slots, and all of them are in the ring. *)
LEMMA SlotInjective ==
  ASSUME NEW b \in Buffer, NEW i \in 0 .. Capacity - 1, NEW j \in 0 .. Capacity - 1
  PROVE  /\ slot(b, i) \in Slots
         /\ slot(b, i) = slot(b, j) => i = j
<1>1. Capacity \in Nat \ {0} /\ b.head \in 0 .. Capacity - 1 /\ b.count \in 0 .. Capacity
  BY CapacityAssumption DEF Buffer, Slots
<1> QED
  BY <1>1, SlotValue DEF Slots

(* append keeps a streamBuffer well formed.                                *)
LEMMA AppendType ==
  ASSUME NEW b \in Buffer, NEW e \in Event
  PROVE  append(b, e) \in Buffer
<1> DEFINE kept == IF b.count = Capacity THEN evict(b.index, b.ring[b.head]) ELSE b.index
<1>1. /\ b.head \in Slots
      /\ b.ring \in [Slots -> StoredEvent]
      /\ b.next \in Nat
      /\ b.count \in 0 .. Capacity
      /\ b.index \in [IDs -> Nat \cup {NoSeq}]
  BY DEF Buffer
<1>2. b.ring[b.head].ev.id \in IDs \cup {NoID}
  BY <1>1 DEF StoredEvent, Event
<1>3. kept \in [IDs -> Nat \cup {NoSeq}]
  BY <1>1, <1>2 DEF evict
<1>4. e.id \in IDs \cup {NoID}
  BY DEF Event
<1>5. (IF e.id # NoID THEN [kept EXCEPT ![e.id] = b.next] ELSE kept)
        \in [IDs -> Nat \cup {NoSeq}]
  <2> HIDE DEF kept
  <2> QED
    BY <1>1, <1>3, <1>4
<1>6. [b.ring EXCEPT ![b.head] = [seq |-> b.next, ev |-> e]] \in [Slots -> StoredEvent]
  BY <1>1 DEF StoredEvent
<1>7. (b.head + 1) % Capacity \in Slots
  BY <1>1, CapacityAssumption DEF Slots
<1>8. (IF b.count < Capacity THEN b.count + 1 ELSE b.count) \in 0 .. Capacity
  BY <1>1, CapacityAssumption
<1> QED
  BY <1>1, <1>5, <1>6, <1>7, <1>8 DEF append, advance, Buffer

(* Where append leaves the positions: while the ring fills, the new entry  *)
(* is one more position; once full, every entry moves one position down,   *)
(* the oldest one is overwritten and the new entry is the last.            *)
LEMMA AppendSlots ==
  ASSUME NEW b \in Buffer, NEW e \in Event
  PROVE  LET c == append(b, e)
         IN  /\ b.count < Capacity =>
                  /\ c.count = b.count + 1
                  /\ slot(c, b.count) = b.head
                  /\ \A i \in 0 .. b.count - 1 : /\ slot(c, i) = slot(b, i)
                                                 /\ slot(b, i) # b.head
             /\ b.count = Capacity =>
                  /\ c.count = Capacity
                  /\ slot(c, Capacity - 1) = b.head
                  /\ slot(b, 0) = b.head
                  /\ \A i \in 0 .. Capacity - 2 : /\ slot(c, i) = slot(b, i + 1)
                                                  /\ slot(b, i + 1) # b.head
<1> DEFINE c == append(b, e)
<1>1. Capacity \in Nat \ {0} /\ b.head \in 0 .. Capacity - 1 /\ b.count \in 0 .. Capacity
  BY CapacityAssumption DEF Buffer, Slots
<1>2. c \in Buffer
  BY AppendType
<1>3. c.head = IF b.head + 1 < Capacity THEN b.head + 1 ELSE 0
  <2>1. c.head = (b.head + 1) % Capacity
    BY DEF append, advance
  <2> DEFINE x == b.head + 1
  <2>2. x \in 0 .. 2 * Capacity - 1
    BY <1>1
  <2>3. x % Capacity = IF x < Capacity THEN x ELSE x - Capacity
    BY <1>1, <2>2, ModOneWrap
  <2> QED
    BY <1>1, <2>1, <2>3
<1>4. c.count = IF b.count < Capacity THEN b.count + 1 ELSE b.count
  BY DEF append
<1> HIDE DEF c
<1>5. ASSUME b.count < Capacity
      PROVE  /\ slot(c, b.count) = b.head
             /\ \A i \in 0 .. b.count - 1 : /\ slot(c, i) = slot(b, i)
                                            /\ slot(b, i) # b.head
  BY <1>1, <1>2, <1>3, <1>4, <1>5, SlotValue
<1>6. ASSUME b.count = Capacity
      PROVE  /\ slot(c, Capacity - 1) = b.head
             /\ slot(b, 0) = b.head
             /\ \A i \in 0 .. Capacity - 2 : /\ slot(c, i) = slot(b, i + 1)
                                             /\ slot(b, i + 1) # b.head
  BY <1>1, <1>2, <1>3, <1>4, <1>6, SlotValue
<1> QED
  BY <1>1, <1>4, <1>5, <1>6 DEF c

(* What append does to the entries themselves, by position.                *)
LEMMA AppendEntries ==
  ASSUME NEW b \in Buffer, NEW e \in Event
  PROVE  LET c == append(b, e)
             new == [seq |-> b.next, ev |-> e]
         IN  /\ b.count < Capacity =>
                  /\ c.ring[slot(c, b.count)] = new
                  /\ \A i \in 0 .. b.count - 1 : c.ring[slot(c, i)] = b.ring[slot(b, i)]
             /\ b.count = Capacity =>
                  /\ c.ring[slot(c, Capacity - 1)] = new
                  /\ \A i \in 0 .. Capacity - 2 : c.ring[slot(c, i)] = b.ring[slot(b, i + 1)]
<1> DEFINE c == append(b, e)
           new == [seq |-> b.next, ev |-> e]
<1>1. /\ Capacity \in Nat \ {0} /\ b.head \in Slots /\ b.count \in 0 .. Capacity
      /\ b.ring \in [Slots -> StoredEvent]
  BY CapacityAssumption DEF Buffer
<1>2. c.ring = [b.ring EXCEPT ![b.head] = new]
  BY DEF append
<1>3. c.ring[b.head] = new
  BY <1>1, <1>2
<1>4. \A k \in Slots : k # b.head => c.ring[k] = b.ring[k]
  BY <1>1, <1>2
<1> HIDE DEF c, new
<1>5. ASSUME b.count < Capacity
      PROVE  /\ c.ring[slot(c, b.count)] = new
             /\ \A i \in 0 .. b.count - 1 : c.ring[slot(c, i)] = b.ring[slot(b, i)]
  <2>1. /\ slot(c, b.count) = b.head
        /\ \A i \in 0 .. b.count - 1 : /\ slot(c, i) = slot(b, i)
                                       /\ slot(b, i) # b.head
    BY <1>5, AppendSlots DEF c
  <2>2. \A i \in 0 .. b.count - 1 : slot(b, i) \in Slots
    BY <1>1, SlotInjective
  <2> QED
    BY <1>3, <1>4, <2>1, <2>2
<1>6. ASSUME b.count = Capacity
      PROVE  /\ c.ring[slot(c, Capacity - 1)] = new
             /\ \A i \in 0 .. Capacity - 2 : c.ring[slot(c, i)] = b.ring[slot(b, i + 1)]
  <2>1. /\ slot(c, Capacity - 1) = b.head
        /\ \A i \in 0 .. Capacity - 2 : /\ slot(c, i) = slot(b, i + 1)
                                        /\ slot(b, i + 1) # b.head
    BY <1>6, AppendSlots DEF c
  <2>2. \A i \in 0 .. Capacity - 2 : slot(b, i + 1) \in Slots
    BY <1>1, SlotInjective
  <2> QED
    BY <1>3, <1>4, <2>1, <2>2
<1> QED
  BY <1>5, <1>6 DEF c, new

(* append keeps the sequence numbers of a buffer consecutive.              *)
LEMMA AppendContiguous ==
  ASSUME NEW b \in Buffer, NEW e \in Event, Contiguous(b)
  PROVE  Contiguous(append(b, e))
<1> DEFINE c == append(b, e)
           new == [seq |-> b.next, ev |-> e]
<1>1. /\ Capacity \in Nat \ {0} /\ b.count \in 0 .. Capacity /\ b.next \in Nat
      /\ b.count <= b.next /\ (b.count < Capacity => b.count = b.next)
      /\ \A i \in 0 .. b.count - 1 : b.ring[slot(b, i)].seq = b.next - b.count + i
  BY CapacityAssumption DEF Buffer, Contiguous
<1>2. c.next = b.next + 1 /\ c.count = IF b.count < Capacity THEN b.count + 1 ELSE b.count
  BY DEF append
<1>3. new.seq = b.next
  OBVIOUS
<1> HIDE DEF c, new
<1>4. ASSUME NEW i \in 0 .. c.count - 1
      PROVE  c.ring[slot(c, i)].seq = c.next - c.count + i
  <2>1. CASE b.count < Capacity
    <3>1. /\ c.ring[slot(c, b.count)] = new
          /\ \A k \in 0 .. b.count - 1 : c.ring[slot(c, k)] = b.ring[slot(b, k)]
      BY <2>1, AppendEntries DEF c, new
    <3>2. CASE i = b.count
      BY <1>1, <1>2, <1>3, <2>1, <3>1, <3>2
    <3>3. CASE i \in 0 .. b.count - 1
      BY <1>1, <1>2, <2>1, <3>1, <3>3
    <3> QED
      BY <1>1, <1>2, <2>1, <3>2, <3>3
  <2>2. CASE b.count = Capacity
    <3>1. /\ c.ring[slot(c, Capacity - 1)] = new
          /\ \A k \in 0 .. Capacity - 2 : c.ring[slot(c, k)] = b.ring[slot(b, k + 1)]
      BY <2>2, AppendEntries DEF c, new
    <3>2. CASE i = Capacity - 1
      BY <1>1, <1>2, <1>3, <2>2, <3>1, <3>2
    <3>3. CASE i \in 0 .. Capacity - 2
      <4>1. i + 1 \in 0 .. b.count - 1
        BY <1>1, <2>2, <3>3
      <4> QED
        BY <1>1, <1>2, <2>2, <3>1, <3>3, <4>1
    <3> QED
      BY <1>1, <1>2, <2>2, <3>2, <3>3
  <2> QED
    BY <1>1, <2>1, <2>2
<1> QED
  BY <1>1, <1>2, <1>4 DEF Contiguous, c

(* append keeps the index exact: evict removes an id exactly when the      *)
(* entry that leaves the ring is the newest one that carries it.           *)
LEMMA AppendExact ==
  ASSUME NEW b \in Buffer, NEW e \in Event, Contiguous(b), Exact(b)
  PROVE  Exact(append(b, e))
<1> DEFINE c == append(b, e)
           new == [seq |-> b.next, ev |-> e]
           out == b.ring[b.head]
           kept == IF b.count = Capacity THEN evict(b.index, out) ELSE b.index
           Old(i) == b.ring[slot(b, i)]
           New(i) == c.ring[slot(c, i)]
<1> SUFFICES ASSUME NEW id \in IDs
             PROVE  /\ c.index[id] = NoSeq =>
                         \A i \in 0 .. c.count - 1 : New(i).ev.id # id
                    /\ c.index[id] # NoSeq =>
                         \E i \in 0 .. c.count - 1 :
                           /\ New(i).seq = c.index[id]
                           /\ New(i).ev.id = id
                           /\ \A j \in i + 1 .. c.count - 1 : New(j).ev.id # id
  BY DEF Exact
<1>1. /\ Capacity \in Nat \ {0} /\ b.count \in 0 .. Capacity /\ b.next \in Nat
      /\ b.index \in [IDs -> Nat \cup {NoSeq}]
      /\ \A i \in 0 .. b.count - 1 : Old(i).seq = b.next - b.count + i
  BY CapacityAssumption DEF Buffer, Contiguous
<1>2. /\ b.index[id] = NoSeq => \A i \in 0 .. b.count - 1 : Old(i).ev.id # id
      /\ b.index[id] # NoSeq =>
           \E i \in 0 .. b.count - 1 :
             /\ Old(i).seq = b.index[id]
             /\ Old(i).ev.id = id
             /\ \A j \in i + 1 .. b.count - 1 : Old(j).ev.id # id
  BY DEF Exact
<1>3. c.count = IF b.count < Capacity THEN b.count + 1 ELSE b.count
  BY DEF append
<1>4. new.seq = b.next /\ new.ev = e
  OBVIOUS
<1>5. out.ev.id \in IDs \cup {NoID}
  BY DEF Buffer, StoredEvent, Event
<1>6. kept \in [IDs -> Nat \cup {NoSeq}]
  BY <1>1, <1>5 DEF evict
<1>7. c.index[id] = IF e.id = id THEN b.next ELSE kept[id]
  <2>1. c.index = IF e.id # NoID THEN [kept EXCEPT ![e.id] = b.next] ELSE kept
    BY DEF append
  <2>2. id # NoID
    BY IDAssumption
  <2> HIDE DEF c, kept
  <2> QED
    BY <1>6, <2>1, <2>2
<1>8. kept[id] = IF b.count = Capacity /\ out.ev.id = id /\ b.index[id] = out.seq
                   THEN NoSeq ELSE b.index[id]
  BY <1>1, <1>5, IDAssumption DEF evict
<1> HIDE DEF kept
<1>9. CASE b.count < Capacity
  <2>1. New(b.count) = new /\ \A i \in 0 .. b.count - 1 : New(i) = Old(i)
    BY <1>9, AppendEntries
  <2> HIDE DEF c, new, New, Old
  <2>2. CASE e.id = id
    <3>1. c.index[id] = b.next /\ b.next # NoSeq
      BY <1>1, <1>7, <2>2 DEF NoSeq
    <3> QED
      BY <1>1, <1>3, <1>4, <1>9, <2>1, <2>2, <3>1
  <2>3. CASE e.id # id
    <3>1. c.index[id] = b.index[id] /\ c.count = b.count + 1
      BY <1>1, <1>3, <1>7, <1>8, <1>9, <2>3
    <3>2. CASE b.index[id] = NoSeq
      BY <1>1, <1>2, <1>4, <2>1, <2>3, <3>1, <3>2
    <3>3. CASE b.index[id] # NoSeq
      <4>1. PICK i \in 0 .. b.count - 1 :
              /\ Old(i).seq = b.index[id]
              /\ Old(i).ev.id = id
              /\ \A j \in i + 1 .. b.count - 1 : Old(j).ev.id # id
        BY <1>2, <3>3
      <4>2. New(i).seq = c.index[id] /\ New(i).ev.id = id
        BY <2>1, <3>1, <4>1
      <4>3. \A j \in i + 1 .. c.count - 1 : New(j).ev.id # id
        BY <1>1, <1>4, <2>1, <2>3, <3>1, <4>1
      <4>4. i \in 0 .. c.count - 1
        BY <1>1, <3>1
      <4> QED
        BY <3>1, <3>3, <4>2, <4>3, <4>4
    <3> QED
      BY <3>2, <3>3
  <2> QED
    BY <2>2, <2>3
<1>10. CASE b.count = Capacity
  <2>1. New(Capacity - 1) = new /\ \A i \in 0 .. Capacity - 2 : New(i) = Old(i + 1)
    BY <1>10, AppendEntries
  <2>2. out = Old(0)
    BY <1>10, AppendSlots
  <2> HIDE DEF c, new, New, Old, out
  <2>3. c.count = Capacity
    BY <1>1, <1>3, <1>10
  <2>4. CASE e.id = id
    <3>1. c.index[id] = b.next /\ b.next # NoSeq
      BY <1>1, <1>7, <2>4 DEF NoSeq
    <3> QED
      BY <1>1, <1>4, <2>1, <2>3, <2>4, <3>1
  <2>5. CASE e.id # id
    <3>1. c.index[id] = kept[id]
      BY <1>7, <2>5
    <3>2. CASE b.index[id] = NoSeq
      <4>1. c.index[id] = NoSeq
        BY <1>8, <3>1, <3>2
      <4>2. \A i \in 0 .. Capacity - 2 : i + 1 \in 0 .. b.count - 1
        BY <1>1, <1>10
      <4> QED
        BY <1>1, <1>2, <1>4, <2>1, <2>3, <2>5, <3>2, <4>1, <4>2
    <3>3. CASE b.index[id] # NoSeq
      <4>1. PICK i \in 0 .. b.count - 1 :
              /\ Old(i).seq = b.index[id]
              /\ Old(i).ev.id = id
              /\ \A j \in i + 1 .. b.count - 1 : Old(j).ev.id # id
        BY <1>2, <3>3
      <4>2. CASE i = 0
        <5>1. c.index[id] = NoSeq
          BY <1>8, <1>10, <2>2, <3>1, <4>1, <4>2
        <5>2. \A k \in 0 .. Capacity - 2 : New(k).ev.id # id
          BY <1>1, <1>10, <2>1, <4>1, <4>2
        <5> QED
          BY <1>1, <1>4, <2>1, <2>3, <2>5, <5>1, <5>2
      <4>3. CASE i # 0
        <5>1. Old(0).seq # Old(i).seq
          BY <1>1, <4>3
        <5>2. c.index[id] = b.index[id]
          BY <1>8, <2>2, <3>1, <4>1, <5>1
        <5>3. i - 1 \in 0 .. Capacity - 2 /\ (i - 1) + 1 = i
          BY <1>1, <1>10, <4>3
        <5>4. New(i - 1) = Old(i)
          BY <2>1, <5>3
        <5>5. \A j \in i .. Capacity - 1 : New(j).ev.id # id
          BY <1>1, <1>4, <1>10, <2>1, <2>5, <4>1
        <5>6. i - 1 \in 0 .. c.count - 1 /\ (i - 1) + 1 .. c.count - 1 = i .. Capacity - 1
          BY <1>1, <2>3, <5>3
        <5> QED
          BY <3>3, <4>1, <5>2, <5>4, <5>5, <5>6
      <4> QED
        BY <4>2, <4>3
    <3> QED
      BY <3>2, <3>3
  <2> QED
    BY <2>4, <2>5
<1> QED
  BY <1>1, <1>9, <1>10

(* The buffer Append creates satisfies everything before its first event.  *)
LEMMA FreshBufferOK ==
  FreshBuffer \in Buffer /\ Contiguous(FreshBuffer) /\ Exact(FreshBuffer)
<1>1. FreshBuffer \in Buffer
  BY CapacityAssumption, DataAssumption DEF FreshBuffer, Buffer, Slots, StoredEvent, Event
<1>2. /\ FreshBuffer.count = 0 /\ FreshBuffer.next = 0
      /\ FreshBuffer.index = [id \in IDs |-> NoSeq]
  BY DEF FreshBuffer
<1>3. Contiguous(FreshBuffer)
  BY <1>2, CapacityAssumption DEF Contiguous
<1>4. Exact(FreshBuffer)
  BY <1>2 DEF Exact
<1> QED
  BY <1>1, <1>3, <1>4

--------------------------------------------------------------------------------
(* The inductive invariant.  IndexExact needs RingContiguous: only because *)
(* sequence numbers in the ring are distinct does evict's comparison tell  *)
(* the newest entry of an id from an older one.                            *)
IInv == TypeOK /\ RingContiguous /\ IndexExact

LEMMA InitIInv == Init => IInv
  BY DEF Init, IInv, TypeOK, RingContiguous, IndexExact

LEMMA NextIInv == IInv /\ [Next]_vars => IInv'
<1> SUFFICES ASSUME IInv, [Next]_vars
             PROVE  IInv'
  OBVIOUS
<1>1. /\ streams \in [Streams -> Buffer \cup {NoBuffer}]
      /\ \A s \in Streams : streams[s] # NoBuffer =>
           streams[s] \in Buffer /\ Contiguous(streams[s]) /\ Exact(streams[s])
  BY DEF IInv, TypeOK, RingContiguous, IndexExact
<1>2. ASSUME NEW s \in Streams, Clear(s)
      PROVE  IInv'
  BY <1>1, <1>2 DEF Clear, IInv, TypeOK, RingContiguous, IndexExact
<1>3. ASSUME NEW s \in Streams, NEW e \in Event, Record(s, e)
      PROVE  IInv'
  <2> DEFINE c == append(BufferOf(s), e)
  <2>1. BufferOf(s) \in Buffer /\ Contiguous(BufferOf(s)) /\ Exact(BufferOf(s))
    BY <1>1, FreshBufferOK DEF BufferOf
  <2>2. c \in Buffer /\ Contiguous(c) /\ Exact(c)
    BY <2>1, AppendType, AppendContiguous, AppendExact
  <2>3. streams' = [streams EXCEPT ![s] = c]
    BY <1>3 DEF Record
  <2> HIDE DEF c
  <2>4. \A t \in Streams : streams'[t] = IF t = s THEN c ELSE streams[t]
    BY <1>1, <2>3
  <2>5. TypeOK'
    BY <1>1, <2>2, <2>3 DEF TypeOK
  <2> QED
    BY <1>1, <2>2, <2>4, <2>5 DEF IInv, RingContiguous, IndexExact
<1>4. CASE UNCHANGED vars
  BY <1>4 DEF vars, IInv, TypeOK, RingContiguous, IndexExact
<1> QED
  BY <1>2, <1>3, <1>4 DEF Next

(* Every buffer the store ever holds is well formed (streamBuffer).        *)
THEOREM TypeCorrect == Spec => []TypeOK
<1>1. IInv => TypeOK
  BY DEF IInv
<1> QED
  BY InitIInv, NextIInv, <1>1, PTL DEF Spec

(* The entries of every ring carry consecutive sequence numbers, however   *)
(* often head has wrapped (streamBuffer.append).                           *)
THEOREM RingIsContiguous == Spec => []RingContiguous
<1>1. IInv => RingContiguous
  BY DEF IInv
<1> QED
  BY InitIInv, NextIInv, <1>1, PTL DEF Spec

(* The index holds exactly the retained ids, each at its newest occurrence *)
(* (streamBuffer.append and streamBuffer.evict).                           *)
THEOREM IndexIsExact == Spec => []IndexExact
<1>1. IInv => IndexExact
  BY DEF IInv
<1> QED
  BY InitIInv, NextIInv, <1>1, PTL DEF Spec

--------------------------------------------------------------------------------
(* GapFree is a consequence of the invariant alone.                        *)
LEMMA GapFreeStep == IInv => GapFree
<1> SUFFICES ASSUME IInv, NEW s \in Streams, NEW id \in IDs,
                    streams[s] # NoBuffer, streams[s].index[id] # NoSeq
             PROVE  LET b == streams[s]
                        from == b.index[id]
                    IN  /\ {b.ring[slot(b, i)].seq : i \in after(b, from)}
                             = from + 1 .. b.next - 1
                        /\ \A i, j \in after(b, from) :
                             i < j => b.ring[slot(b, i)].seq < b.ring[slot(b, j)].seq
  BY DEF GapFree
<1> DEFINE b == streams[s]
           from == b.index[id]
           SeqAt(i) == b.ring[slot(b, i)].seq
<1>1. b \in Buffer /\ Contiguous(b) /\ Exact(b)
  BY DEF IInv, TypeOK, RingContiguous, IndexExact
<1>2. /\ b.count \in Nat /\ b.next \in Nat /\ b.count <= b.next
      /\ \A i \in 0 .. b.count - 1 : SeqAt(i) = b.next - b.count + i
  BY <1>1, CapacityAssumption DEF Buffer, Contiguous
<1>3. PICK p \in 0 .. b.count - 1 : SeqAt(p) = from
  BY <1>1 DEF Exact
<1>4. from = b.next - b.count + p
  BY <1>2, <1>3
<1>5. after(b, from) = {i \in 0 .. b.count - 1 : SeqAt(i) > from}
  BY DEF after
<1> HIDE DEF from, b, SeqAt
<1>6. after(b, from) = p + 1 .. b.count - 1
  <2>1. ASSUME NEW i \in 0 .. b.count - 1
        PROVE  SeqAt(i) > from <=> i > p
    BY <1>2, <1>3, <1>4
  <2>2. p + 1 .. b.count - 1 = {i \in 0 .. b.count - 1 : i > p}
    BY <1>2
  <2> QED
    BY <1>5, <2>1, <2>2
<1>7. {SeqAt(i) : i \in after(b, from)} = from + 1 .. b.next - 1
  <2>1. ASSUME NEW n \in from + 1 .. b.next - 1
        PROVE  n \in {SeqAt(i) : i \in after(b, from)}
    <3>1. n - (b.next - b.count) \in p + 1 .. b.count - 1
      BY <1>2, <1>3, <1>4
    <3>2. SeqAt(n - (b.next - b.count)) = n
      BY <1>2, <1>3, <1>4, <3>1
    <3> QED
      BY <1>6, <3>1, <3>2
  <2>2. ASSUME NEW i \in after(b, from)
        PROVE  SeqAt(i) \in from + 1 .. b.next - 1
    <3>1. i \in p + 1 .. b.count - 1
      BY <1>6
    <3>2. SeqAt(i) = b.next - b.count + i
      BY <1>2, <3>1
    <3> QED
      BY <1>2, <1>4, <3>1, <3>2
  <2> QED
    BY <2>1, <2>2
<1>8. \A i, j \in after(b, from) : i < j => SeqAt(i) < SeqAt(j)
  BY <1>2, <1>3, <1>6
<1> QED
  BY <1>7, <1>8 DEF b, from, SeqAt

(* A resume never skips, repeats or reorders an event (streamBuffer.since).*)
THEOREM ResumeIsGapFree == Spec => []GapFree
  BY InitIInv, NextIInv, GapFreeStep, PTL DEF Spec

--------------------------------------------------------------------------------
(* The log a buffer stands for is a sequence of events.                    *)
LEMMA RetainedType ==
  ASSUME NEW b \in Buffer
  PROVE  Retained(b) \in Seq(Event) /\ Len(Retained(b)) = b.count
<1>1. Capacity \in Nat \ {0} /\ b.count \in 0 .. Capacity
  BY CapacityAssumption DEF Buffer
<1>2. ASSUME NEW k \in 1 .. b.count
      PROVE  b.ring[slot(b, k - 1)].ev \in Event
  <2>1. slot(b, k - 1) \in Slots
    BY <1>1, SlotInjective
  <2> QED
    BY <2>1 DEF Buffer, StoredEvent
<1> QED
  BY <1>1, <1>2 DEF Retained

(* append on the buffer is a bounded append on the log it stands for.      *)
LEMMA RetainedAppend ==
  ASSUME NEW b \in Buffer, NEW e \in Event
  PROVE  Retained(append(b, e)) =
           Append(IF Len(Retained(b)) < Capacity THEN Retained(b)
                                                 ELSE Tail(Retained(b)), e)
<1> DEFINE c == append(b, e)
           old == Retained(b)
<1>1. /\ Capacity \in Nat \ {0} /\ b.count \in 0 .. Capacity
      /\ c.count = IF b.count < Capacity THEN b.count + 1 ELSE b.count
  BY CapacityAssumption DEF Buffer, append
<1>2. c \in Buffer
  BY AppendType
<1>3. /\ old \in Seq(Event) /\ Len(old) = b.count
      /\ \A k \in 1 .. b.count : old[k] = b.ring[slot(b, k - 1)].ev
  BY <1>1, RetainedType DEF Retained
<1>4. /\ Retained(c) \in Seq(Event) /\ Len(Retained(c)) = c.count
      /\ \A k \in 1 .. c.count : Retained(c)[k] = c.ring[slot(c, k - 1)].ev
  <2> HIDE DEF c
  <2> QED
    BY <1>2, RetainedType DEF Retained
<1>5. CASE b.count < Capacity
  <2> DEFINE new == [seq |-> b.next, ev |-> e]
  <2>0. /\ c.ring[slot(c, b.count)] = new
        /\ \A i \in 0 .. b.count - 1 : c.ring[slot(c, i)] = b.ring[slot(b, i)]
    BY <1>5, AppendEntries
  <2>1. /\ c.ring[slot(c, b.count)].ev = e
        /\ \A i \in 0 .. b.count - 1 : c.ring[slot(c, i)] = b.ring[slot(b, i)]
    <3> HIDE DEF c
    <3> QED
      BY <2>0
  <2> HIDE DEF c, old
  <2>2. ASSUME NEW k \in 1 .. c.count
        PROVE  Retained(c)[k] = Append(old, e)[k]
    <3>1. CASE k = b.count + 1
      BY <1>1, <1>3, <1>4, <1>5, <2>1, <3>1
    <3>2. CASE k \in 1 .. b.count
      <4>1. k - 1 \in 0 .. b.count - 1
        BY <1>1, <3>2
      <4>2. Append(old, e)[k] = old[k]
        BY <1>3, <3>2
      <4> QED
        BY <1>3, <1>4, <2>1, <3>2, <4>1, <4>2
    <3>3. k = b.count + 1 \/ k \in 1 .. b.count
      BY <1>1, <1>5
    <3> QED
      BY <3>1, <3>2, <3>3
  <2>3. Len(Append(old, e)) = c.count /\ Append(old, e) \in Seq(Event)
    BY <1>1, <1>3, <1>5
  <2>4. Retained(c) = Append(old, e)
    BY <1>4, <2>2, <2>3
  <2> QED
    BY <1>3, <1>5, <2>4 DEF c, old
<1>6. CASE b.count = Capacity
  <2> DEFINE new == [seq |-> b.next, ev |-> e]
  <2>0. /\ c.ring[slot(c, Capacity - 1)] = new
        /\ \A i \in 0 .. Capacity - 2 : c.ring[slot(c, i)] = b.ring[slot(b, i + 1)]
    BY <1>6, AppendEntries
  <2>1. /\ c.ring[slot(c, Capacity - 1)].ev = e
        /\ \A i \in 0 .. Capacity - 2 : c.ring[slot(c, i)] = b.ring[slot(b, i + 1)]
    <3> HIDE DEF c
    <3> QED
      BY <2>0
  <2> HIDE DEF c, old
  <2> DEFINE tl == Tail(old)
  <2>2. /\ tl \in Seq(Event) /\ Len(tl) = Capacity - 1
        /\ \A k \in 1 .. Capacity - 1 : tl[k] = old[k + 1]
    BY <1>1, <1>3, <1>6
  <2> HIDE DEF tl
  <2>3. ASSUME NEW k \in 1 .. c.count
        PROVE  Retained(c)[k] = Append(tl, e)[k]
    <3>1. CASE k = Capacity
      BY <1>1, <1>4, <1>6, <2>1, <2>2, <3>1
    <3>2. CASE k \in 1 .. Capacity - 1
      <4>1. /\ k - 1 \in 0 .. Capacity - 2 /\ (k - 1) + 1 = k
            /\ k + 1 \in 1 .. b.count /\ (k + 1) - 1 = k
        BY <1>1, <1>6, <3>2
      <4>2. Append(tl, e)[k] = tl[k]
        BY <2>2, <3>2
      <4>3. tl[k] = b.ring[slot(b, k)].ev
        BY <1>3, <2>2, <3>2, <4>1
      <4>4. Retained(c)[k] = b.ring[slot(b, k)].ev
        BY <1>4, <2>1, <4>1
      <4> QED
        BY <4>2, <4>3, <4>4
    <3>3. k = Capacity \/ k \in 1 .. Capacity - 1
      BY <1>1, <1>6
    <3> QED
      BY <3>1, <3>2, <3>3
  <2>4. Len(Append(tl, e)) = c.count /\ Append(tl, e) \in Seq(Event)
    BY <1>1, <1>6, <2>2
  <2>5. Retained(c) = Append(tl, e)
    BY <1>4, <2>3, <2>4
  <2> QED
    BY <1>1, <1>3, <1>6, <2>5 DEF c, old, tl
<1> QED
  BY <1>1, <1>5, <1>6

(* Append of the store is a bounded append on the log of its stream, and   *)
(* leaves the other logs alone.                                            *)
LEMMA LogAfterRecord ==
  ASSUME TypeOK, NEW s \in Streams, NEW e \in Event, Record(s, e)
  PROVE  /\ LogOf(s) \in Seq(Event) /\ Len(LogOf(s)) \in 0 .. Capacity
         /\ LogOf(s)' = Append(IF Len(LogOf(s)) < Capacity THEN LogOf(s)
                                                           ELSE Tail(LogOf(s)), e)
         /\ \A t \in Streams \ {s} : LogOf(t)' = LogOf(t)
<1> DEFINE c == append(BufferOf(s), e)
<1>1. streams \in [Streams -> Buffer \cup {NoBuffer}]
  BY DEF TypeOK
<1>2. BufferOf(s) \in Buffer
  BY <1>1, FreshBufferOK DEF BufferOf
<1>3. LogOf(s) = Retained(BufferOf(s))
  <2>1. Retained(FreshBuffer) = <<>>
    BY DEF Retained, FreshBuffer
  <2> QED
    BY <2>1 DEF LogOf, BufferOf
<1>4. c \in Buffer /\ c # NoBuffer
  BY <1>2, AppendType, NoBufferAssumption
<1>5. Retained(c) = Append(IF Len(LogOf(s)) < Capacity THEN LogOf(s)
                                                      ELSE Tail(LogOf(s)), e)
  BY <1>2, <1>3, RetainedAppend
<1>6. streams' = [streams EXCEPT ![s] = c]
  BY DEF Record
<1> HIDE DEF c
<1>7. \A t \in Streams : streams'[t] = IF t = s THEN c ELSE streams[t]
  BY <1>1, <1>6
<1>8. LogOf(s)' = Retained(c)
  BY <1>4, <1>7 DEF LogOf
<1>9. \A t \in Streams \ {s} : LogOf(t)' = LogOf(t)
  BY <1>7 DEF LogOf
<1>10. LogOf(s) \in Seq(Event) /\ Len(LogOf(s)) \in 0 .. Capacity
  BY <1>2, <1>3, RetainedType DEF Buffer
<1> QED
  BY <1>5, <1>8, <1>9, <1>10

(* The ring with its index is an implementation of the retained log the    *)
(* EventStore interface promises: every Append and Clear of the store is a *)
(* Record or Clear of the log.                                             *)
THEOREM StoreImplementsLog == Spec => ImplementsRetainedLog
<1> DEFINE lg == [s \in Streams |-> LogOf(s)]
<1>1. Init => RL!Init
  BY DEF Init, RL!Init, LogOf
<1>2. IInv /\ [Next]_vars => [RL!Next]_lg
  <2> SUFFICES ASSUME IInv, [Next]_vars
               PROVE  [RL!Next]_lg
    OBVIOUS
  <2>1. streams \in [Streams -> Buffer \cup {NoBuffer}]
    BY DEF IInv, TypeOK
  <2>2. ASSUME NEW s \in Streams, Clear(s)
        PROVE  RL!Next
    <3>1. \A t \in Streams : streams'[t] = IF t = s THEN NoBuffer ELSE streams[t]
      BY <2>1, <2>2 DEF Clear
    <3>2. lg' = [lg EXCEPT ![s] = <<>>]
      BY <3>1 DEF LogOf
    <3> QED
      BY <3>2 DEF RL!Next, RL!Clear
  <2>3. ASSUME NEW s \in Streams, NEW e \in Event, Record(s, e)
        PROVE  RL!Next
    <3>1. /\ LogOf(s)' = Append(IF Len(LogOf(s)) < Capacity THEN LogOf(s)
                                                            ELSE Tail(LogOf(s)), e)
          /\ \A t \in Streams \ {s} : LogOf(t)' = LogOf(t)
      BY <2>1, <2>3, LogAfterRecord DEF TypeOK
    <3>2. lg' = [lg EXCEPT ![s] = Append(IF Len(@) < Capacity THEN @ ELSE Tail(@), e)]
      BY <3>1
    <3>3. e \in RL!Event
      BY DEF Event, RL!Event
    <3> QED
      BY <3>2, <3>3 DEF RL!Next, RL!Record
  <2>4. CASE UNCHANGED vars
    BY <2>4 DEF vars, LogOf
  <2> QED
    BY <2>2, <2>3, <2>4 DEF Next
<1> QED
  BY InitIInv, NextIInv, <1>1, <1>2, PTL DEF Spec, ImplementsRetainedLog, RL!Spec

--------------------------------------------------------------------------------
(* The k-th smallest position of an interval.                              *)
LEMMA KthOfInterval ==
  ASSUME NEW m \in Int, NEW n \in Int, NEW k \in 1 .. n - m + 1
  PROVE  kth(m .. n, k) = m + k - 1
<1> DEFINE Below(i) == {j \in m .. n : j < i}
<1>1. ASSUME NEW i \in m .. n
      PROVE  Cardinality(Below(i)) = i - m
  <2>1. Below(i) = m .. i - 1
    OBVIOUS
  <2>2. Cardinality(m .. i - 1) = IF m > i - 1 THEN 0 ELSE i - 1 - m + 1
    BY FS_Interval
  <2> HIDE DEF Below
  <2>3. Cardinality(Below(i)) = Cardinality(m .. i - 1)
    BY <2>1
  <2> QED
    BY <2>2, <2>3
<1>2. m + k - 1 \in m .. n
  OBVIOUS
<1> HIDE DEF Below
<1>3. \A i \in m .. n : Cardinality(Below(i)) = k - 1 <=> i = m + k - 1
  BY <1>1
<1>4. kth(m .. n, k) = CHOOSE i \in m .. n : Cardinality(Below(i)) = k - 1
  BY DEF kth, Below
<1> QED
  BY <1>2, <1>3, <1>4

(* For an indexed id: the newest entry that carries it, which position it  *)
(* has, and that the entries selected are exactly the later positions.     *)
LEMMA ResumePoint ==
  ASSUME NEW b \in Buffer, Contiguous(b), Exact(b),
         NEW id \in IDs, b.index[id] # NoSeq
  PROVE  \E p \in 0 .. b.count - 1 :
           /\ b.ring[slot(b, p)].ev.id = id
           /\ \A j \in p + 1 .. b.count - 1 : b.ring[slot(b, j)].ev.id # id
           /\ after(b, b.index[id]) = p + 1 .. b.count - 1
<1>1. /\ b.count \in Nat /\ b.next \in Nat
      /\ \A i \in 0 .. b.count - 1 : b.ring[slot(b, i)].seq = b.next - b.count + i
  BY CapacityAssumption DEF Buffer, Contiguous
<1>2. PICK p \in 0 .. b.count - 1 :
        /\ b.ring[slot(b, p)].seq = b.index[id]
        /\ b.ring[slot(b, p)].ev.id = id
        /\ \A j \in p + 1 .. b.count - 1 : b.ring[slot(b, j)].ev.id # id
  BY DEF Exact
<1>3. \A i \in 0 .. b.count - 1 : b.ring[slot(b, i)].seq > b.index[id] <=> i > p
  BY <1>1, <1>2
<1>4. after(b, b.index[id]) = {i \in 0 .. b.count - 1 : i > p}
  BY <1>3 DEF after
<1>5. {i \in 0 .. b.count - 1 : i > p} = p + 1 .. b.count - 1
  BY <1>1
<1> QED
  BY <1>2, <1>4, <1>5

(* The greatest element of a set, and the rest of a sequence.              *)
LEMMA ChooseMax ==
  ASSUME NEW S \in SUBSET Int, NEW m \in S, \A j \in S : j <= m
  PROVE  (CHOOSE i \in S : \A j \in S : j <= i) = m
<1>1. \A i \in S : (\A j \in S : j <= i) => i = m
  OBVIOUS
<1> QED
  BY <1>1

LEMMA SuffixValue ==
  ASSUME NEW S, NEW q \in Seq(S), NEW p \in 0 .. Len(q)
  PROVE  SubSeq(q, p + 1, Len(q)) = [k \in 1 .. Len(q) - p |-> q[p + k]]
<1>1. /\ Len(q) - (p + 1) + 1 = Len(q) - p
      /\ \A k \in 1 .. Len(q) - p : p + k = (p + 1) + k - 1
  OBVIOUS
<1> QED
  BY <1>1

LEMMA SuffixElements ==
  ASSUME NEW S, NEW q \in Seq(S), NEW p \in 0 .. Len(q)
  PROVE  /\ SubSeq(q, p + 1, Len(q)) \in Seq(S)
         /\ Len(SubSeq(q, p + 1, Len(q))) = Len(q) - p
         /\ \A k \in 1 .. Len(q) - p : SubSeq(q, p + 1, Len(q))[k] = q[p + k]
  OBVIOUS

(* p is the last position of q that carries id.                            *)
LastAt(q, id, p) ==
  p \in 1 .. Len(q) /\ q[p].id = id /\ \A j \in p + 1 .. Len(q) : q[j].id # id

(* What since makes of a buffer, said of the log the buffer stands for: an *)
(* id that is not in the log is unknown, and one that is in it is answered *)
(* with what follows its last occurrence.                                  *)
LEMMA SinceRetained ==
  ASSUME NEW b \in Buffer, Contiguous(b), Exact(b), NEW id \in IDs
  PROVE  LET q == Retained(b)
         IN  \/ /\ since(b, id) = [known |-> FALSE, events |-> <<>>]
                /\ \A i \in 1 .. Len(q) : q[i].id # id
             \/ \E p \in 1 .. Len(q) :
                  /\ q[p].id = id
                  /\ \A j \in p + 1 .. Len(q) : q[j].id # id
                  /\ since(b, id) = [known |-> TRUE, events |-> SubSeq(q, p + 1, Len(q))]
<1> DEFINE q == Retained(b)
<1>1. /\ q \in Seq(Event) /\ Len(q) = b.count /\ b.count \in Nat
      /\ \A k \in 1 .. b.count : q[k] = b.ring[slot(b, k - 1)].ev
  BY RetainedType, CapacityAssumption DEF Retained, Buffer
<1>2. id # NoID
  BY IDAssumption
<1> HIDE DEF q
<1>3. CASE b.index[id] = NoSeq
  <2>1. \A i \in 0 .. b.count - 1 : b.ring[slot(b, i)].ev.id # id
    BY <1>3 DEF Exact
  <2>2. since(b, id) = [known |-> FALSE, events |-> <<>>]
    BY <1>3 DEF since
  <2>3. ASSUME NEW i \in 1 .. Len(q)
        PROVE  q[i].id # id
    BY <1>1, <2>1
  <2> QED
    BY <2>2, <2>3 DEF q
<1>4. CASE b.index[id] # NoSeq
  <2> DEFINE later == after(b, b.index[id])
             answer == [k \in 1 .. Cardinality(later) |-> b.ring[slot(b, kth(later, k))].ev]
  <2>1. PICK p \in 0 .. b.count - 1 :
          /\ b.ring[slot(b, p)].ev.id = id
          /\ \A j \in p + 1 .. b.count - 1 : b.ring[slot(b, j)].ev.id # id
          /\ later = p + 1 .. b.count - 1
    BY <1>4, ResumePoint
  <2>2. since(b, id) = [known |-> TRUE, events |-> answer]
    BY <1>2, <1>4 DEF since
  <2>3. /\ p + 1 \in 1 .. Len(q) /\ q[p + 1].id = id
        /\ \A j \in (p + 1) + 1 .. Len(q) : q[j].id # id
    <3>1. p + 1 \in 1 .. b.count /\ (p + 1) - 1 = p
      BY <1>1
    <3>2. ASSUME NEW j \in (p + 1) + 1 .. b.count
          PROVE  q[j].id # id
      <4>1. j - 1 \in p + 1 .. b.count - 1 /\ j \in 1 .. b.count
        BY <1>1
      <4> QED
        BY <1>1, <2>1, <4>1
    <3> QED
      BY <1>1, <2>1, <3>1, <3>2
  <2>4. answer = SubSeq(q, (p + 1) + 1, Len(q))
    <3>1. Cardinality(later) = b.count - (p + 1)
      <4>1. p + 1 \in Int /\ b.count - 1 \in Int
        BY <1>1
      <4>2. Cardinality(p + 1 .. b.count - 1)
              = IF p + 1 > b.count - 1 THEN 0 ELSE b.count - 1 - (p + 1) + 1
        BY <4>1, FS_Interval
      <4> HIDE DEF later
      <4> QED
        BY <1>1, <2>1, <4>2
    <3>2. ASSUME NEW k \in 1 .. b.count - (p + 1)
          PROVE  kth(later, k) = p + k
      <4>1. kth(p + 1 .. b.count - 1, k) = (p + 1) + k - 1
        BY <1>1, KthOfInterval
      <4> HIDE DEF later
      <4> QED
        BY <1>1, <2>1, <4>1
    <3> HIDE DEF later
    <3>3. answer = [k \in 1 .. b.count - (p + 1) |-> b.ring[slot(b, p + k)].ev]
      BY <3>1, <3>2
    <3>4. ASSUME NEW k \in 1 .. b.count - (p + 1)
          PROVE  b.ring[slot(b, p + k)].ev = q[p + 1 + k]
      <4>1. p + 1 + k \in 1 .. b.count /\ (p + 1 + k) - 1 = p + k
        BY <1>1
      <4> QED
        BY <1>1, <4>1
    <3>5. answer = [k \in 1 .. Len(q) - (p + 1) |-> q[p + 1 + k]]
      BY <1>1, <3>3, <3>4
    <3>6. p + 1 \in 0 .. Len(q)
      BY <1>1
    <3>7. SubSeq(q, (p + 1) + 1, Len(q)) = [k \in 1 .. Len(q) - (p + 1) |-> q[(p + 1) + k]]
      BY <1>1, <3>6, SuffixValue
    <3> QED
      BY <3>5, <3>7
  <2> HIDE DEF answer
  <2> QED
    BY <2>2, <2>3, <2>4 DEF q
<1> QED
  BY <1>3, <1>4

(* Since answers what the abstract Since answers, from the invariant alone.*)
LEMMA SinceExactStep == IInv => SinceExact
<1> SUFFICES ASSUME IInv, NEW s \in Streams, NEW id \in IDs \cup {NoID}
             PROVE  Since(s, id) = RL!Since(s, id)
  BY DEF SinceExact
<1> DEFINE b == streams[s]
           occ == {i \in DOMAIN LogOf(s) : LogOf(s)[i].id = id}
           unknown == [known |-> FALSE, events |-> <<>>]
<1>1. RL!Occurrences(s, id) = occ
  BY DEF RL!Occurrences
<1>2. RL!Since(s, id) =
        IF id = NoID \/ occ = {} THEN unknown
        ELSE LET last == CHOOSE i \in occ : \A j \in occ : j <= i
             IN  [known |-> TRUE, events |-> SubSeq(LogOf(s), last + 1, Len(LogOf(s)))]
  BY <1>1 DEF RL!Since, RL!Known
<1>3. CASE b = NoBuffer
  <2>1. occ = {}
    BY <1>3 DEF LogOf
  <2> QED
    BY <1>2, <1>3, <2>1 DEF Since
<1>4. CASE b # NoBuffer /\ id = NoID
  BY <1>2, <1>4 DEF Since, since
<1>5. CASE b # NoBuffer /\ id # NoID
  <2> DEFINE q == Retained(b)
  <2>1. b \in Buffer /\ Contiguous(b) /\ Exact(b) /\ id \in IDs
    BY <1>5 DEF IInv, TypeOK, RingContiguous, IndexExact
  <2>2. Since(s, id) = since(b, id) /\ LogOf(s) = q
    BY <1>5 DEF Since, LogOf
  <2>3. q \in Seq(Event) /\ DOMAIN q = 1 .. Len(q) /\ Len(q) \in Nat
    BY <2>1, RetainedType
  <2>4. \/ since(b, id) = unknown /\ \A i \in 1 .. Len(q) : q[i].id # id
        \/ \E p \in 1 .. Len(q) :
             /\ q[p].id = id
             /\ \A j \in p + 1 .. Len(q) : q[j].id # id
             /\ since(b, id) = [known |-> TRUE, events |-> SubSeq(q, p + 1, Len(q))]
    BY <2>1, SinceRetained
  <2> HIDE DEF q, b
  <2>5. CASE since(b, id) = unknown /\ \A i \in 1 .. Len(q) : q[i].id # id
    BY <1>2, <2>2, <2>3, <2>5
  <2>6. ASSUME NEW p \in 1 .. Len(q),
               q[p].id = id,
               \A j \in p + 1 .. Len(q) : q[j].id # id,
               since(b, id) = [known |-> TRUE, events |-> SubSeq(q, p + 1, Len(q))]
        PROVE  Since(s, id) = RL!Since(s, id)
    <3>1. occ = {i \in 1 .. Len(q) : q[i].id = id}
      BY <2>2, <2>3
    <3>2. p \in occ /\ occ \in SUBSET Int
      BY <2>3, <2>6, <3>1
    <3>3. ASSUME NEW j \in occ
          PROVE  j <= p
      <4>1. j \in 1 .. Len(q) /\ j \notin p + 1 .. Len(q)
        BY <2>6, <3>1
      <4> QED
        BY <2>3, <4>1
    <3> HIDE DEF occ
    <3>4. (CHOOSE i \in occ : \A j \in occ : j <= i) = p
      BY <3>2, <3>3, ChooseMax
    <3> QED
      BY <1>2, <1>5, <2>2, <2>6, <3>2, <3>4
  <2> QED
    BY <2>4, <2>5, <2>6
<1> QED
  BY <1>3, <1>4, <1>5

(* Since keeps the promise of the EventStore interface for every stream    *)
(* and id, at every capacity (InMemoryEventStore.Since).                   *)
THEOREM SinceIsExact == Spec => []SinceExact
  BY InitIInv, NextIInv, SinceExactStep, PTL DEF Spec

--------------------------------------------------------------------------------
(* r is q without its d oldest events, and with e as its newest.           *)
Moved(q, d, e, r) ==
  /\ d <= Len(q) /\ Len(r) = Len(q) - d + 1
  /\ \A k \in 1 .. Len(q) - d : r[k] = q[k + d]
  /\ r[Len(r)] = e

(* The answer for an id once one more event has been recorded.             *)
LEMMA AnswerGrows ==
  ASSUME NEW q \in Seq(Event), NEW r \in Seq(Event), NEW e, NEW id,
         NEW d \in {0, 1}, NEW p, NEW n,
         e.id # id, Moved(q, d, e, r), LastAt(q, id, p), LastAt(r, id, n)
  PROVE  IsPrefix(SubSeq(q, p + 1, Len(q)), SubSeq(r, n + 1, Len(r)))
<1>0. /\ Len(q) \in Nat /\ Len(r) \in Nat
      /\ p \in 1 .. Len(q) /\ q[p].id = id /\ \A j \in p + 1 .. Len(q) : q[j].id # id
      /\ n \in 1 .. Len(r) /\ r[n].id = id /\ \A j \in n + 1 .. Len(r) : r[j].id # id
      /\ d <= Len(q) /\ Len(r) = Len(q) - d + 1
      /\ \A k \in 1 .. Len(q) - d : r[k] = q[k + d]
      /\ r[Len(r)] = e
  BY DEF Moved, LastAt
<1>1. n \in 1 .. Len(q) - d
  BY <1>0
<1>2. n = p - d
  <2>1. n + d <= p
    <3>1. q[n + d].id = id /\ n + d \in 1 .. Len(q)
      BY <1>0, <1>1
    <3>2. n + d \notin p + 1 .. Len(q)
      BY <1>0, <3>1
    <3> QED
      BY <1>0, <3>1, <3>2
  <2>2. n >= p - d
    <3>1. CASE p - d \in 1 .. Len(q) - d
      <4>1. r[p - d].id = id
        BY <1>0, <3>1
      <4>2. p - d \notin n + 1 .. Len(r)
        BY <1>0, <4>1
      <4> QED
        BY <1>0, <3>1, <4>2
    <3>2. CASE p - d \notin 1 .. Len(q) - d
      BY <1>0, <3>2
    <3> QED
      BY <3>1, <3>2
  <2> QED
    BY <1>0, <2>1, <2>2
<1> DEFINE x == SubSeq(q, p + 1, Len(q))
           y == SubSeq(r, n + 1, Len(r))
<1>3. x \in Seq(Event) /\ Len(x) = Len(q) - p /\ \A k \in 1 .. Len(q) - p : x[k] = q[p + k]
  <2>1. p \in 0 .. Len(q)
    BY <1>0
  <2> QED
    BY <2>1, SuffixElements
<1>4. y \in Seq(Event) /\ Len(y) = Len(r) - n /\ \A k \in 1 .. Len(r) - n : y[k] = r[n + k]
  <2>1. n \in 0 .. Len(r)
    BY <1>0
  <2> QED
    BY <2>1, SuffixElements
<1> HIDE DEF x, y
<1>5. Len(x) <= Len(y)
  BY <1>0, <1>2, <1>3, <1>4
<1>6. ASSUME NEW k \in 1 .. Len(x)
      PROVE  x[k] = y[k]
  <2>1. n + k \in 1 .. Len(q) - d /\ (n + k) + d = p + k
    BY <1>0, <1>2, <1>3
  <2>2. r[n + k] = q[p + k]
    <3>1. r[n + k] = q[(n + k) + d]
      BY <1>0, <2>1
    <3> QED
      BY <2>1, <3>1
  <2>3. k \in 1 .. Len(r) - n
    BY <1>0, <1>4, <1>5
  <2> QED
    BY <1>3, <1>4, <2>2, <2>3
<1>7. SubSeq(x, 1, Len(x)) = SubSeq(y, 1, Len(x))
  BY <1>3, <1>4, <1>5, <1>6
<1> QED
  BY <1>5, <1>7 DEF IsPrefix, x, y

(* What a step leaves of an answer that stays known.                       *)
LEMMA ReplayStep == IInv /\ IInv' /\ [Next]_vars => [ReplayGrows]_vars
<1> SUFFICES ASSUME IInv, IInv', Next,
                    NEW s \in Streams, NEW id \in IDs,
                    Since(s, id).known, Since(s, id)'.known,
                    Last(LogOf(s)').id # id
             PROVE  IsPrefix(Since(s, id).events, Since(s, id)'.events)
  BY DEF ReplayGrows
<1> DEFINE b == streams[s]
           c == streams'[s]
           q == Retained(b)
           r == Retained(c)
<1>1. b # NoBuffer /\ c # NoBuffer
  BY DEF Since
<1>2. /\ b \in Buffer /\ Contiguous(b) /\ Exact(b)
      /\ c \in Buffer /\ Contiguous(c) /\ Exact(c)
  BY <1>1 DEF IInv, TypeOK, RingContiguous, IndexExact
<1>3. /\ Since(s, id) = since(b, id) /\ Since(s, id)' = since(c, id)
      /\ LogOf(s)' = r
  BY <1>1 DEF Since, LogOf
<1>4. /\ q \in Seq(Event) /\ Len(q) = b.count
      /\ r \in Seq(Event) /\ Len(r) = c.count
  BY <1>2, RetainedType
<1> HIDE DEF b, c, q, r
<1>5. PICK p \in 1 .. Len(q) :
        /\ q[p].id = id
        /\ \A j \in p + 1 .. Len(q) : q[j].id # id
        /\ since(b, id) = [known |-> TRUE, events |-> SubSeq(q, p + 1, Len(q))]
  BY <1>2, <1>3, SinceRetained, SMTT(20) DEF q
<1>6. PICK n \in 1 .. Len(r) :
        /\ r[n].id = id
        /\ \A j \in n + 1 .. Len(r) : r[j].id # id
        /\ since(c, id) = [known |-> TRUE, events |-> SubSeq(r, n + 1, Len(r))]
  BY <1>2, <1>3, SinceRetained, SMTT(20) DEF r
<1>7. CASE c = b
  <2>1. Since(s, id)'.events = Since(s, id).events
    BY <1>3, <1>7
  <2>2. Since(s, id).events \in Seq(Event)
    BY <1>3, <1>4, <1>5
  <2> QED
    BY <2>1, <2>2 DEF IsPrefix
<1>8. ASSUME NEW e \in Event, c = append(b, e)
      PROVE  IsPrefix(Since(s, id).events, Since(s, id)'.events)
  <2>1. r = Append(IF Len(q) < Capacity THEN q ELSE Tail(q), e)
    BY <1>2, <1>8, RetainedAppend DEF q, r
  <2>2. Capacity \in Nat \ {0} /\ Len(q) \in 0 .. Capacity
    BY <1>2, <1>4, CapacityAssumption DEF Buffer
  <2>3. r[Len(r)] = e /\ e.id # id
    <3>1. r[Len(r)] = e
      BY <1>4, <2>1, <2>2
    <3> QED
      BY <1>3, <3>1 DEF Last
  <2>4. PICK d \in {0, 1} : Moved(q, d, e, r)
    <3>1. CASE Len(q) < Capacity
      <4>1. Len(r) = Len(q) - 0 + 1 /\ \A k \in 1 .. Len(q) - 0 : r[k] = q[k + 0]
        BY <1>4, <2>1, <3>1
      <4>2. Moved(q, 0, e, r)
        BY <2>2, <2>3, <4>1 DEF Moved
      <4> QED
        BY <4>2
    <3>2. CASE Len(q) = Capacity
      <4>1. Len(r) = Len(q) - 1 + 1 /\ \A k \in 1 .. Len(q) - 1 : r[k] = q[k + 1]
        BY <1>4, <2>1, <2>2, <3>2
      <4>2. Moved(q, 1, e, r)
        BY <2>2, <2>3, <3>2, <4>1 DEF Moved
      <4> QED
        BY <4>2
    <3>3. Len(q) < Capacity \/ Len(q) = Capacity
      BY <2>2
    <3> QED
      BY <3>1, <3>2, <3>3
  <2>5. IsPrefix(SubSeq(q, p + 1, Len(q)), SubSeq(r, n + 1, Len(r)))
    <3>1. LastAt(q, id, p) /\ LastAt(r, id, n)
      BY <1>5, <1>6 DEF LastAt
    <3> QED
      BY <1>4, <2>3, <2>4, <3>1, AnswerGrows
  <2> QED
    BY <1>3, <1>5, <1>6, <2>5
<1>9. c = b \/ \E e \in Event : c = append(b, e)
  <2>1. ASSUME NEW t \in Streams, Clear(t)
        PROVE  c = b
    BY <1>1, <2>1 DEF Clear, IInv, TypeOK, b, c
  <2>2. ASSUME NEW t \in Streams, NEW e \in Event, Record(t, e)
        PROVE  c = b \/ c = append(b, e)
    BY <1>1, <2>2 DEF Record, BufferOf, IInv, TypeOK, b, c
  <2> QED
    BY <2>1, <2>2 DEF Next
<1> QED
  BY <1>7, <1>8, <1>9

(* A resume point that stays known is answered, later, with at least what  *)
(* it was answered with before (InMemoryEventStore.Append and Since).      *)
THEOREM ReplayNeverShrinks == Spec => ReplayOnlyGrows
  BY InitIInv, NextIInv, ReplayStep, PTL DEF Spec, ReplayOnlyGrows

================================================================================
