------------------------------ MODULE ResumeProofs -----------------------------
(***************************************************************************)
(* Theorems about Resume with one producer, for every capacity, number of  *)
(* events, number of lost connections and place where they break.  With    *)
(* two producers the results do not hold: MultiSink may record two events  *)
(* in the order opposite to the one they were sent in.                     *)
(***************************************************************************)
EXTENDS Resume, EventStoreProofs

(* The events producers emit: their payload serves as their id.            *)
Tagged == {e \in Event : e.id = NoID \/ e.id = e.data}

(* The number of an event, and of the one Last-Event-ID names.             *)
Num(e) == e.data[2]

Mark == IF lastID = NoID THEN 0 ELSE lastID[2]

(* The event number n was sent to the client, or its frame was cut.        *)
Covered(n) ==
  \/ \E d \in torn : d[2] = n
  \/ \E i \in 1 .. Len(received) : Num(received[i]) = n

ResumeType ==
  /\ emitting \in [Producers -> Tagged \cup {NoEvent}]
  /\ emits \in [Producers -> 0 .. MaxEmits]
  /\ conn \in {"up", "down", "replaying", "refused"}
  /\ replay \in Seq(Tagged)
  /\ received \in Seq(Tagged)
  /\ lastID \in IDs \cup {NoID}
  /\ torn \in SUBSET Data

(* The store holds the latest events, in the order of their numbers; the   *)
(* one p is emitting right now is not yet among them.                      *)
Stored(p) == IF emitting[p] = NoEvent THEN emits[p] ELSE emits[p] - 1

LogInv(p) ==
  LET q == LogOf(Stream)
  IN  /\ q \in Seq(Tagged)
      /\ emitting[p] # NoEvent => Num(emitting[p]) = emits[p]
      /\ \A k \in 1 .. Len(q) : Num(q[k]) = Stored(p) - Len(q) + k

(* Nothing up to the resume point is missing; nothing at all is while the  *)
(* client is live; and what a replay still has to send is all that is.     *)
CoverInv(p) ==
  /\ Mark <= emits[p]
  /\ \A n \in 1 .. Mark : Covered(n)
  /\ conn = "up" => \A n \in 1 .. emits[p] : Covered(n)
  /\ conn = "replaying" =>
       /\ emitting[p] = NoEvent
       /\ Mark + Len(replay) <= emits[p]
       /\ \A n \in 1 .. emits[p] - Len(replay) : Covered(n)
       /\ \A k \in 1 .. Len(replay) : Num(replay[k]) = emits[p] - Len(replay) + k

(* What was sent: events with an id never lie beyond the resume point.     *)
NoneBeyond ==
  \A i \in 1 .. Len(received) : received[i].id # NoID => Num(received[i]) <= Mark

SentInv == NoneBeyond /\ NamedOnce /\ InOrder

ResumeInv(p) == IInv /\ ResumeType /\ LogInv(p) /\ CoverInv(p) /\ SentInv

--------------------------------------------------------------------------------
(* Events and their numbers when there is one producer.                    *)
LEMMA TaggedFacts ==
  ASSUME NEW p, Producers = {p}
  PROVE  /\ \A d \in Data : d = <<p, d[2]>> /\ d[2] \in 1 .. MaxEmits
         /\ \A e \in Tagged : /\ e \in Event /\ e.data \in Data
                              /\ Num(e) \in 1 .. MaxEmits /\ e.data = <<p, Num(e)>>
                              /\ e.id = NoID \/ e.id = e.data
         /\ NoEvent \notin Tagged
         /\ IDs = Data /\ MaxEmits \in Nat /\ NoID \notin Data
<1>1. Data = {p} \X (1 .. MaxEmits) /\ IDs = Data /\ MaxEmits \in Nat
  BY ResumeAssumption
<1>2. NoID \notin Data
  BY <1>1, IDAssumption
<1>3. ASSUME NEW d \in Data
      PROVE  d = <<p, d[2]>> /\ d[2] \in 1 .. MaxEmits
  BY <1>1
<1>4. ASSUME NEW e \in Tagged
      PROVE  /\ e \in Event /\ e.data \in Data
             /\ Num(e) \in 1 .. MaxEmits /\ e.data = <<p, Num(e)>>
             /\ e.id = NoID \/ e.id = e.data
  <2>1. e \in Event /\ e.data \in Data /\ (e.id = NoID \/ e.id = e.data)
    BY DEF Tagged, Event
  <2> QED
    BY <1>3, <2>1 DEF Num
<1>5. NoEvent \notin Tagged
  BY <1>2 DEF NoEvent, Tagged, Event
<1> QED
  BY <1>1, <1>2, <1>3, <1>4, <1>5

(* The event a producer emits next.                                        *)
LEMMA EventOfTagged ==
  ASSUME NEW p, Producers = {p}, NEW n \in 1 .. MaxEmits, NEW named \in BOOLEAN
  PROVE  /\ EventOf(p, n, named) \in Tagged /\ Num(EventOf(p, n, named)) = n
         /\ EventOf(p, n, TRUE).id # NoID
<1>1. <<p, n>> \in Data /\ IDs = Data /\ NoID \notin Data
  BY ResumeAssumption, IDAssumption
<1> QED
  BY <1>1 DEF EventOf, Tagged, Event, Num

(* Delivering an event beyond the resume point to a client that has all    *)
(* the events before it keeps what was sent in order and named events      *)
(* unique, and covers the event.                                           *)
LEMMA DeliverSent ==
  ASSUME NEW p, Producers = {p}, ResumeType, SentInv, NEW e \in Tagged,
         Deliver(e), UNCHANGED torn, Mark < Num(e),
         \A n \in 1 .. Num(e) - 1 : Covered(n)
  PROVE  /\ SentInv'
         /\ received' \in Seq(Tagged) /\ lastID' \in IDs \cup {NoID}
         /\ \A n \in Int : Covered(n) => Covered(n)'
         /\ Covered(Num(e))'
         /\ Mark' = Mark \/ Mark' = Num(e)
<1> DEFINE last == Len(received) + 1
<1>1. /\ \A f \in Tagged : /\ f.data \in Data /\ Num(f) \in 1 .. MaxEmits
                           /\ f.data = <<p, Num(f)>> /\ (f.id = NoID \/ f.id = f.data)
      /\ IDs = Data /\ NoID \notin Data /\ MaxEmits \in Nat
      /\ \A d \in Data : d = <<p, d[2]>> /\ d[2] \in 1 .. MaxEmits
  BY TaggedFacts
<1>2. /\ received \in Seq(Tagged) /\ Len(received) \in Nat
      /\ torn \in SUBSET Data /\ torn' = torn /\ lastID \in IDs \cup {NoID}
      /\ received' = Append(received, e)
      /\ lastID' = IF e.id = NoID THEN lastID ELSE e.id
  BY DEF ResumeType, Deliver
<1>3. /\ received' \in Seq(Tagged) /\ Len(received') = last /\ received'[last] = e
      /\ \A i \in 1 .. Len(received) : received'[i] = received[i]
  BY <1>2
<1>4. lastID' \in IDs \cup {NoID}
  BY <1>1, <1>2
<1>5. Mark' = IF e.id = NoID THEN Mark ELSE Num(e)
  BY <1>1, <1>2 DEF Mark, Num
<1>6. Mark \in Nat
  BY <1>1, <1>2 DEF Mark
<1>7. ASSUME NEW n \in Int, Covered(n)
      PROVE  Covered(n)'
  BY <1>2, <1>3, <1>7 DEF Covered
<1>8. Covered(Num(e))'
  BY <1>2, <1>3 DEF Covered
<1>9. NoneBeyond'
  <2> SUFFICES ASSUME NEW i \in 1 .. Len(received'), received'[i].id # NoID
               PROVE  Num(received'[i]) <= Mark'
    BY DEF NoneBeyond
  <2>1. CASE i = last
    BY <1>1, <1>3, <1>5, <2>1
  <2>2. CASE i \in 1 .. Len(received)
    <3>1. Num(received[i]) <= Mark /\ Num(received[i]) \in Int
      BY <1>1, <1>2, <1>3, <2>2 DEF SentInv, NoneBeyond
    <3> QED
      BY <1>1, <1>3, <1>5, <1>6, <2>2, <3>1
  <2> QED
    BY <1>2, <1>3, <2>1, <2>2
<1>10. NamedOnce'
  <2>1. DOMAIN received' = 1 .. last /\ DOMAIN received = 1 .. Len(received)
    BY <1>2, <1>3
  <2>2. ASSUME NEW i \in 1 .. Len(received), received[i] = e, e.id # NoID
        PROVE  FALSE
    BY <1>1, <1>2, <1>6, <2>2 DEF SentInv, NoneBeyond
  <2> SUFFICES ASSUME NEW i \in 1 .. last, NEW j \in 1 .. last,
                      i # j, received'[i] = received'[j]
               PROVE  received'[i].id = NoID
    BY <2>1 DEF NamedOnce
  <2>3. CASE i = last
    BY <1>2, <1>3, <2>2, <2>3
  <2>4. CASE j = last
    BY <1>2, <1>3, <2>2, <2>4
  <2>5. CASE i \in 1 .. Len(received) /\ j \in 1 .. Len(received)
    BY <1>3, <2>1, <2>5 DEF SentInv, NamedOnce
  <2> QED
    BY <1>2, <2>3, <2>4, <2>5
<1>11. InOrder'
  <2> DEFINE Before(q, t, i) ==
        q[i].data[2] > 1 => \/ <<q[i].data[1], q[i].data[2] - 1>> \in t
                            \/ \E j \in 1 .. i - 1 : q[j].data = <<q[i].data[1], q[i].data[2] - 1>>
  <2>1. InOrder <=> \A i \in DOMAIN received : Before(received, torn, i)
    BY DEF InOrder
  <2>2. InOrder' <=> \A i \in DOMAIN received' : Before(received', torn', i)
    BY DEF InOrder
  <2>3. DOMAIN received' = 1 .. last /\ DOMAIN received = 1 .. Len(received)
    BY <1>2, <1>3
  <2>4. ASSUME NEW i \in 1 .. Len(received)
        PROVE  Before(received', torn', i)
    <3>1. Before(received, torn, i)
      BY <2>1, <2>3 DEF SentInv
    <3>2. \A j \in 1 .. i - 1 : j \in 1 .. Len(received)
      BY <1>2
    <3> QED
      BY <1>2, <1>3, <3>1, <3>2
  <2>5. Before(received', torn', last)
    <3>0. received'[last].data[1] = p /\ received'[last].data[2] = Num(e)
      BY <1>1, <1>3
    <3> SUFFICES ASSUME Num(e) > 1
                 PROVE  \/ <<p, Num(e) - 1>> \in torn
                        \/ \E j \in 1 .. last - 1 : received'[j].data = <<p, Num(e) - 1>>
      BY <1>2, <3>0
    <3>1. Covered(Num(e) - 1)
      BY <1>1
    <3>2. ASSUME NEW d \in torn, d[2] = Num(e) - 1
          PROVE  <<p, Num(e) - 1>> \in torn
      BY <1>1, <1>2, <3>2
    <3>3. ASSUME NEW j \in 1 .. Len(received), Num(received[j]) = Num(e) - 1
          PROVE  j \in 1 .. last - 1 /\ received'[j].data = <<p, Num(e) - 1>>
      BY <1>1, <1>2, <1>3, <3>3
    <3> QED
      BY <3>1, <3>2, <3>3 DEF Covered
  <2> HIDE DEF Before
  <2> QED
    BY <1>2, <2>2, <2>3, <2>4, <2>5
<1> QED
  BY <1>3, <1>4, <1>5, <1>7, <1>8, <1>9, <1>10, <1>11 DEF SentInv

(* A frame cut after its id line: the resume point moves to the event, and *)
(* nothing else is sent.                                                   *)
LEMMA TearSent ==
  ASSUME NEW p, Producers = {p}, ResumeType, SentInv, NEW e \in Tagged,
         Tear(e), Mark < Num(e)
  PROVE  /\ SentInv'
         /\ received' \in Seq(Tagged) /\ lastID' \in IDs \cup {NoID}
         /\ torn' \in SUBSET Data /\ replay' \in Seq(Tagged) /\ conn' = "down"
         /\ \A n \in Int : Covered(n) => Covered(n)'
         /\ Covered(Num(e))'
         /\ Mark' = Num(e)
<1>1. /\ \A f \in Tagged : /\ f.data \in Data /\ Num(f) \in 1 .. MaxEmits
                           /\ f.data = <<p, Num(f)>> /\ (f.id = NoID \/ f.id = f.data)
      /\ IDs = Data /\ NoID \notin Data /\ MaxEmits \in Nat
      /\ \A d \in Data : d = <<p, d[2]>> /\ d[2] \in 1 .. MaxEmits
  BY TaggedFacts
<1>2. /\ received \in Seq(Tagged) /\ received' = received /\ torn \in SUBSET Data
      /\ torn' = torn \cup {e.data} /\ lastID \in IDs \cup {NoID}
      /\ e.id # NoID /\ lastID' = e.id /\ replay' = <<>> /\ conn' = "down"
  BY DEF ResumeType, Tear
<1>3. lastID' = e.data /\ e.data \in Data /\ lastID' # NoID
  BY <1>1, <1>2
<1>4. Mark' = Num(e)
  BY <1>3 DEF Mark, Num
<1>5. Mark \in Nat
  BY <1>1, <1>2 DEF Mark
<1>6. ASSUME NEW n \in Int, Covered(n)
      PROVE  Covered(n)'
  BY <1>2, <1>6 DEF Covered
<1>7. Covered(Num(e))'
  BY <1>2 DEF Covered, Num
<1>8. NoneBeyond'
  <2> SUFFICES ASSUME NEW i \in 1 .. Len(received), received[i].id # NoID
               PROVE  Num(received[i]) <= Mark'
    BY <1>2 DEF NoneBeyond
  <2>1. Num(received[i]) <= Mark /\ Num(received[i]) \in Int
    BY <1>1, <1>2 DEF SentInv, NoneBeyond
  <2> QED
    BY <1>1, <1>4, <1>5, <2>1
<1>9. NamedOnce'
  BY <1>2 DEF SentInv, NamedOnce
<1>10. InOrder'
  BY <1>2 DEF SentInv, InOrder
<1>11. received' \in Seq(Tagged) /\ torn' \in SUBSET Data /\ replay' \in Seq(Tagged)
  BY <1>1, <1>2
<1> QED
  BY <1>1, <1>2, <1>3, <1>4, <1>6, <1>7, <1>8, <1>9, <1>10, <1>11 DEF SentInv

(* What a step does to the store: it records an event, forgets the stream  *)
(* or leaves the streams alone, each a step of EventStore.                 *)
LEMMA StoreStep ==
  ASSUME NEW p, Producers = {p}, ResumeType, [RNext]_cvars
  PROVE  [Next]_vars
<1>1. Stream \in Streams
  BY ResumeAssumption
<1>2. CASE UNCHANGED streams
  BY <1>2 DEF vars
<1>3. ASSUME EmitStore(p)
      PROVE  Next
  <2>1. emitting[p] \in Event
    BY <1>3 DEF ResumeType, EmitStore, Tagged
  <2> QED
    BY <1>1, <1>3, <2>1 DEF EmitStore, Next
<1>4. CASE Forget
  BY <1>1, <1>4 DEF Forget, Next
<1>5. ASSUME ~EmitStore(p), ~Forget
      PROVE  UNCHANGED streams
  BY <1>5 DEF RNext, cvars, EmitWire, EmitWireCut, Drop, Reconnect, ReplayNext,
              ReplayCut, ReplayDone
<1> QED
  BY <1>2, <1>3, <1>4, <1>5

(* A step that sends nothing and cuts nothing.                             *)
LEMMA NothingSent ==
  ASSUME UNCHANGED <<received, lastID, torn>>
  PROVE  /\ \A n \in Int : Covered(n)' <=> Covered(n)
         /\ Mark' = Mark
         /\ SentInv => SentInv'
<1>1. /\ \A n \in Int : Covered(n)' <=> Covered(n)
      /\ Mark' = Mark
  BY DEF Covered, Mark
<1>2. NoneBeyond => NoneBeyond'
  BY <1>1 DEF NoneBeyond
<1>3. (NamedOnce => NamedOnce') /\ (InOrder => InOrder')
  BY DEF NamedOnce, InOrder
<1> QED
  BY <1>1, <1>2, <1>3 DEF SentInv

(* The numbers in the log after an event was recorded.                     *)
LEMMA LogStep ==
  ASSUME NEW p, Producers = {p}, ResumeInv(p), EmitStore(p)
  PROVE  LogInv(p)'
<1> DEFINE q == LogOf(Stream)
           e == emitting[p]
           kept == IF Len(q) < Capacity THEN q ELSE Tail(q)
           N == emits[p]
<1>1. /\ e \in Tagged /\ e # NoEvent /\ Num(e) = N /\ N \in 0 .. MaxEmits
      /\ Stream \in Streams /\ Capacity \in Nat \ {0} /\ MaxEmits \in Nat
  BY ResumeAssumption, CapacityAssumption
     DEF ResumeInv, ResumeType, LogInv, EmitStore
<1>2. q \in Seq(Tagged) /\ \A k \in 1 .. Len(q) : Num(q[k]) = (N - 1) - Len(q) + k
  BY <1>1 DEF ResumeInv, LogInv, Stored
<1>3. q' = Append(kept, e) /\ Len(q) \in 0 .. Capacity
  <2>1. Record(Stream, e) /\ e \in Event /\ TypeOK
    BY <1>1 DEF EmitStore, Tagged, ResumeInv, IInv
  <2> QED
    BY <1>1, <2>1, LogAfterRecord
<1>4. emitting'[p] = NoEvent /\ emits' = emits
  BY DEF EmitStore, ResumeInv, ResumeType
<1> HIDE DEF q, e, N
<1>5. /\ kept \in Seq(Tagged)
      /\ \A k \in 1 .. Len(kept) : Num(kept[k]) = (N - 1) - Len(kept) + k
  <2>1. CASE Len(q) < Capacity
    BY <1>2, <2>1
  <2>2. CASE ~(Len(q) < Capacity)
    <3>1. Len(q) \in Nat \ {0}
      BY <1>1, <1>3, <2>2
    <3>2. Tail(q) \in Seq(Tagged) /\ Len(Tail(q)) = Len(q) - 1
      BY <1>2, <3>1
    <3>3. ASSUME NEW k \in 1 .. Len(Tail(q))
          PROVE  Num(Tail(q)[k]) = (N - 1) - Len(Tail(q)) + k
      <4>1. Tail(q)[k] = q[k + 1] /\ k + 1 \in 1 .. Len(q)
        BY <1>2, <3>1, <3>2
      <4>2. Num(q[k + 1]) = (N - 1) - Len(q) + (k + 1)
        BY <1>2, <4>1
      <4> QED
        BY <1>1, <3>1, <3>2, <4>1, <4>2
    <3> QED
      BY <2>2, <3>2, <3>3
  <2> QED
    BY <2>1, <2>2
<1> HIDE DEF kept
<1>6. /\ q' \in Seq(Tagged) /\ Len(q') = Len(kept) + 1 /\ Len(kept) \in Nat
      /\ q'[Len(kept) + 1] = e /\ \A k \in 1 .. Len(kept) : q'[k] = kept[k]
  BY <1>1, <1>3, <1>5
<1>7. ASSUME NEW k \in 1 .. Len(q')
      PROVE  Num(q'[k]) = N - Len(q') + k
  <2>1. CASE k = Len(kept) + 1
    BY <1>1, <1>6, <2>1
  <2>2. CASE k \in 1 .. Len(kept)
    BY <1>1, <1>5, <1>6, <2>2
  <2> QED
    BY <1>6, <2>1, <2>2
<1>8. Stored(p)' = N
  BY <1>4 DEF Stored, N
<1> QED
  BY <1>4, <1>6, <1>7, <1>8 DEF LogInv, q

(* What a client that comes back is sent: exactly the events after its     *)
(* resume point, up to the latest.                                         *)
LEMMA AnswerNumbers ==
  ASSUME NEW p, Producers = {p}, ResumeInv(p), emitting[p] = NoEvent,
         Since(Stream, lastID).known
  PROVE  LET x == Since(Stream, lastID).events
         IN  /\ x \in Seq(Tagged)
             /\ Mark + Len(x) = emits[p]
             /\ \A k \in 1 .. Len(x) : Num(x[k]) = Mark + k
<1> DEFINE q == LogOf(Stream)
           b == streams[Stream]
           x == Since(Stream, lastID).events
<1>1. Stream \in Streams /\ b # NoBuffer /\ lastID # NoID /\ lastID \in IDs
  BY ResumeAssumption DEF Since, since, ResumeInv, ResumeType
<1>2. b \in Buffer /\ Contiguous(b) /\ Exact(b)
  BY <1>1 DEF ResumeInv, IInv, TypeOK, RingContiguous, IndexExact
<1>3. Since(Stream, lastID) = since(b, lastID) /\ q = Retained(b)
  BY <1>1 DEF Since, LogOf
<1>4. /\ q \in Seq(Tagged) /\ Len(q) \in Nat /\ emits[p] \in Nat
      /\ \A k \in 1 .. Len(q) : Num(q[k]) = emits[p] - Len(q) + k
  BY ResumeAssumption DEF ResumeInv, ResumeType, LogInv, Stored
<1> HIDE DEF b, q
<1>5. PICK n \in 1 .. Len(q) :
        /\ q[n].id = lastID
        /\ since(b, lastID) = [known |-> TRUE, events |-> SubSeq(q, n + 1, Len(q))]
  BY <1>1, <1>2, <1>3, SinceRetained
<1>6. Mark = emits[p] - Len(q) + n
  <2>1. q[n].id = q[n].data
    BY <1>1, <1>4, <1>5 DEF Tagged
  <2>2. Mark = Num(q[n])
    BY <1>1, <1>5, <2>1 DEF Mark, Num
  <2> QED
    BY <1>4, <2>2
<1>7. x = SubSeq(q, n + 1, Len(q))
  BY <1>3, <1>5
<1>8. /\ x \in Seq(Tagged) /\ Len(x) = Len(q) - n
      /\ \A k \in 1 .. Len(q) - n : x[k] = q[n + k]
  <2>1. n \in 0 .. Len(q)
    OBVIOUS
  <2> QED
    BY <1>4, <1>7, <2>1, SuffixElements
<1> HIDE DEF x
<1>9. ASSUME NEW k \in 1 .. Len(x)
      PROVE  Num(x[k]) = Mark + k
  <2>1. n + k \in 1 .. Len(q) /\ x[k] = q[n + k]
    BY <1>4, <1>8
  <2> QED
    BY <1>4, <1>6, <2>1
<1>10. Mark + Len(x) = emits[p]
  BY <1>4, <1>6, <1>8
<1> QED
  BY <1>8, <1>9, <1>10 DEF x

--------------------------------------------------------------------------------
LEMMA ResumeInit ==
  ASSUME NEW p, Producers = {p}, RInit
  PROVE  ResumeInv(p)
<1>1. MaxEmits \in Nat /\ Stream \in Streams
  BY ResumeAssumption
<1>2. IInv
  BY InitIInv DEF RInit
<1>3. ResumeType
  BY <1>1 DEF RInit, ResumeType
<1>4. LogInv(p)
  <2>1. LogOf(Stream) = <<>>
    BY <1>1 DEF RInit, Init, LogOf
  <2> QED
    BY <2>1 DEF RInit, LogInv
<1>5. CoverInv(p)
  BY DEF RInit, CoverInv, Mark
<1>6. SentInv
  BY DEF RInit, SentInv, NoneBeyond, NamedOnce, InOrder
<1> QED
  BY <1>2, <1>3, <1>4, <1>5, <1>6 DEF ResumeInv

LEMMA ResumeNext ==
  ASSUME NEW p, Producers = {p}, ResumeInv(p), [RNext]_cvars
  PROVE  ResumeInv(p)'
<1> DEFINE N == emits[p]
           q == LogOf(Stream)
<1>1. ResumeType /\ IInv /\ LogInv(p) /\ CoverInv(p) /\ SentInv
  BY DEF ResumeInv
<1>2. IInv'
  BY <1>1, StoreStep, NextIInv
<1>3. /\ emitting \in [Producers -> Tagged \cup {NoEvent}]
      /\ emits \in [Producers -> 0 .. MaxEmits] /\ N \in 0 .. MaxEmits /\ MaxEmits \in Nat
      /\ replay \in Seq(Tagged) /\ received \in Seq(Tagged) /\ torn \in SUBSET Data
      /\ lastID \in IDs \cup {NoID} /\ p \in Producers /\ Stream \in Streams
  BY <1>1, ResumeAssumption DEF ResumeType
<1>4. Mark \in Nat /\ Mark <= N
  <2>1. Mark \in Nat
    BY <1>3, TaggedFacts DEF Mark
  <2> QED
    BY <1>1, <2>1 DEF CoverInv
<1>5. \A e \in Tagged : Num(e) \in 1 .. MaxEmits
  BY TaggedFacts
<1>6. ASSUME UNCHANGED streams
      PROVE  LogOf(Stream)' = LogOf(Stream)
  BY <1>6 DEF LogOf
<1>7. ASSUME NEW named \in BOOLEAN, EmitWire(p, named)
      PROVE  ResumeInv(p)'
  <2>0. N + 1 \in 1 .. MaxEmits
    BY <1>3, <1>7 DEF EmitWire
  <2>e. PICK e \in Tagged : e = EventOf(p, N + 1, named) /\ Num(e) = N + 1
    <3>1. EventOf(p, N + 1, named) \in Tagged /\ Num(EventOf(p, N + 1, named)) = N + 1
      BY <2>0, EventOfTagged
    <3> QED
      BY <3>1
  <2>1. /\ emitting[p] = NoEvent /\ N < MaxEmits /\ conn # "replaying"
        /\ emits' = [emits EXCEPT ![p] = N + 1] /\ emitting' = [emitting EXCEPT ![p] = e]
        /\ UNCHANGED <<streams, conn, replay, torn>>
        /\ IF conn = "up" THEN Deliver(e) ELSE UNCHANGED <<received, lastID>>
    BY <1>7, <2>e DEF EmitWire
  <2>2. e \in Tagged /\ Num(e) = N + 1
    BY <2>e
  <2>3. /\ emits'[p] = N + 1 /\ emitting'[p] = e
        /\ emits' \in [Producers -> 0 .. MaxEmits]
        /\ emitting' \in [Producers -> Tagged \cup {NoEvent}]
    BY <1>3, <2>1, <2>2
  <2>4. LogInv(p)'
    <3>1. e # NoEvent
      BY <2>2, TaggedFacts
    <3>2. Stored(p) = N /\ Stored(p)' = N
      BY <1>3, <2>1, <2>3, <3>1 DEF Stored
    <3> QED
      BY <1>1, <1>6, <2>1, <2>2, <2>3, <3>2 DEF LogInv
  <2>5. CASE conn = "up"
    <3>1. \A n \in 1 .. Num(e) - 1 : Covered(n)
      BY <1>1, <1>3, <2>2, <2>5 DEF CoverInv
    <3>2. Mark < Num(e) /\ Deliver(e) /\ torn' = torn
      BY <1>3, <1>4, <2>1, <2>2, <2>5
    <3>3. /\ SentInv' /\ received' \in Seq(Tagged) /\ lastID' \in IDs \cup {NoID}
          /\ \A n \in Int : Covered(n) => Covered(n)'
          /\ Covered(Num(e))' /\ (Mark' = Mark \/ Mark' = Num(e))
      BY <1>1, <2>2, <3>1, <3>2, DeliverSent
    <3>4. ASSUME NEW n \in 1 .. N + 1
          PROVE  Covered(n)'
      BY <1>3, <2>2, <3>1, <3>3
    <3>5. CoverInv(p)'
      <4>1. Mark' \in 0 .. N + 1
        BY <1>3, <1>4, <2>2, <3>3
      <4>2. \A n \in 1 .. Mark' : n \in 1 .. N + 1
        BY <1>3, <4>1
      <4> QED
        BY <2>1, <2>3, <2>5, <3>4, <4>1, <4>2 DEF CoverInv
    <3>6. ResumeType'
      BY <1>1, <2>1, <2>3, <3>3 DEF ResumeType
    <3> QED
      BY <1>2, <2>4, <3>3, <3>5, <3>6 DEF ResumeInv
  <2>6. CASE conn # "up"
    <3>1. UNCHANGED <<received, lastID, torn>>
      BY <2>1, <2>6
    <3>2. SentInv' /\ Mark' = Mark /\ \A n \in Int : Covered(n)' <=> Covered(n)
      BY <1>1, <3>1, NothingSent
    <3>3. CoverInv(p)'
      BY <1>1, <1>3, <1>4, <2>1, <2>3, <2>6, <3>2 DEF CoverInv
    <3>4. ResumeType'
      BY <1>1, <2>1, <2>3, <3>1 DEF ResumeType
    <3> QED
      BY <1>2, <2>4, <3>2, <3>3, <3>4 DEF ResumeInv
  <2> QED
    BY <2>5, <2>6
<1>8. ASSUME EmitWireCut(p)
      PROVE  ResumeInv(p)'
  <2>0. N + 1 \in 1 .. MaxEmits
    BY <1>3, <1>8 DEF EmitWireCut
  <2>e. PICK e \in Tagged : e = EventOf(p, N + 1, TRUE) /\ Num(e) = N + 1
    <3>1. EventOf(p, N + 1, TRUE) \in Tagged /\ Num(EventOf(p, N + 1, TRUE)) = N + 1
      BY <2>0, EventOfTagged
    <3> QED
      BY <3>1
  <2>1. /\ emitting[p] = NoEvent /\ N < MaxEmits /\ conn = "up"
        /\ emits' = [emits EXCEPT ![p] = N + 1] /\ emitting' = [emitting EXCEPT ![p] = e]
        /\ UNCHANGED streams /\ Tear(e)
    BY <1>8, <2>e DEF EmitWireCut
  <2>2. e \in Tagged /\ Num(e) = N + 1
    BY <2>e
  <2>3. /\ emits'[p] = N + 1 /\ emitting'[p] = e
        /\ emits' \in [Producers -> 0 .. MaxEmits]
        /\ emitting' \in [Producers -> Tagged \cup {NoEvent}]
    BY <1>3, <2>1, <2>2
  <2>4. LogInv(p)'
    <3>1. e # NoEvent
      BY <2>2, TaggedFacts
    <3>2. Stored(p) = N /\ Stored(p)' = N
      BY <1>3, <2>1, <2>3, <3>1 DEF Stored
    <3> QED
      BY <1>1, <1>6, <2>1, <2>2, <2>3, <3>2 DEF LogInv
  <2>5. Mark < Num(e)
    BY <1>3, <1>4, <2>2
  <2>6. /\ SentInv' /\ received' \in Seq(Tagged) /\ lastID' \in IDs \cup {NoID}
        /\ torn' \in SUBSET Data /\ replay' \in Seq(Tagged) /\ conn' = "down"
        /\ \A n \in Int : Covered(n) => Covered(n)'
        /\ Covered(Num(e))' /\ Mark' = Num(e)
    BY <1>1, <2>1, <2>2, <2>5, TearSent
  <2>7. CoverInv(p)'
    <3>1. \A n \in 1 .. N + 1 : Covered(n)'
      <4>1. \A n \in 1 .. N : Covered(n)
        BY <1>1, <2>1 DEF CoverInv
      <4> QED
        BY <1>3, <2>2, <2>6, <4>1
    <3> QED
      BY <1>3, <2>2, <2>3, <2>6, <3>1 DEF CoverInv
  <2>8. ResumeType'
    BY <2>3, <2>6 DEF ResumeType
  <2> QED
    BY <1>2, <2>4, <2>6, <2>7, <2>8 DEF ResumeInv
<1>9. ASSUME EmitStore(p)
      PROVE  ResumeInv(p)'
  <2>1. /\ emitting' = [emitting EXCEPT ![p] = NoEvent] /\ emitting[p] # NoEvent
        /\ UNCHANGED <<emits, conn, replay, received, lastID, torn>>
    BY <1>9 DEF EmitStore
  <2>2. SentInv' /\ Mark' = Mark /\ \A n \in Int : Covered(n)' <=> Covered(n)
    BY <1>1, <2>1, NothingSent
  <2>3. CoverInv(p)'
    BY <1>1, <1>3, <1>4, <2>1, <2>2 DEF CoverInv
  <2>4. ResumeType'
    BY <1>1, <1>3, <2>1 DEF ResumeType
  <2> QED
    BY <1>2, <1>9, <2>2, <2>3, <2>4, LogStep DEF ResumeInv
<1>10. CASE Drop
  <2>1. /\ conn' = "down" /\ replay' = <<>>
        /\ UNCHANGED <<streams, emitting, emits, received, lastID, torn>>
    BY <1>10 DEF Drop
  <2>2. SentInv' /\ Mark' = Mark /\ \A n \in Int : Covered(n)' <=> Covered(n)
    BY <1>1, <2>1, NothingSent
  <2>3. CoverInv(p)'
    BY <1>1, <1>4, <2>1, <2>2 DEF CoverInv
  <2>4. ResumeType' /\ LogInv(p)'
    BY <1>1, <1>6, <2>1 DEF ResumeType, LogInv, Stored
  <2> QED
    BY <1>2, <2>2, <2>3, <2>4 DEF ResumeInv
<1>11. CASE Reconnect
  <2> DEFINE x == Since(Stream, lastID).events
  <2>1. /\ conn = "down" /\ emitting[p] = NoEvent /\ replay' = x
        /\ conn' = IF Since(Stream, lastID).known THEN "replaying" ELSE "refused"
        /\ UNCHANGED <<streams, emitting, emits, received, lastID, torn>>
    BY <1>3, <1>11 DEF Reconnect
  <2>2. SentInv' /\ Mark' = Mark /\ \A n \in Int : Covered(n)' <=> Covered(n)
    BY <1>1, <2>1, NothingSent
  <2>3. LogInv(p)'
    BY <1>1, <1>6, <2>1 DEF LogInv, Stored
  <2>4. CASE Since(Stream, lastID).known
    <3>1. x \in Seq(Tagged) /\ Mark + Len(x) = N /\ \A k \in 1 .. Len(x) : Num(x[k]) = Mark + k
      BY <2>1, <2>4, AnswerNumbers
    <3> HIDE DEF x
    <3>2. Len(x) \in Nat /\ N - Len(x) = Mark
      BY <1>3, <1>4, <3>1
    <3>3. CoverInv(p)'
      BY <1>1, <1>3, <1>4, <2>1, <2>2, <2>4, <3>1, <3>2 DEF CoverInv
    <3>4. ResumeType'
      BY <1>1, <2>1, <2>4, <3>1 DEF ResumeType
    <3> QED
      BY <1>2, <2>2, <2>3, <3>3, <3>4 DEF ResumeInv
  <2>5. CASE ~Since(Stream, lastID).known
    <3>1. x = <<>>
      BY <2>5 DEF Since, since
    <3> HIDE DEF x
    <3>2. CoverInv(p)'
      BY <1>1, <1>4, <2>1, <2>2, <2>5 DEF CoverInv
    <3>3. ResumeType'
      BY <1>1, <2>1, <2>5, <3>1 DEF ResumeType
    <3> QED
      BY <1>2, <2>2, <2>3, <3>2, <3>3 DEF ResumeInv
  <2> QED
    BY <2>4, <2>5
<1>12. ASSUME conn = "replaying", replay # <<>>
       PROVE  /\ Head(replay) \in Tagged /\ Num(Head(replay)) = N - Len(replay) + 1
              /\ Mark < Num(Head(replay)) /\ emitting[p] = NoEvent
              /\ \A n \in 1 .. Num(Head(replay)) - 1 : Covered(n)
              /\ Tail(replay) \in Seq(Tagged) /\ Len(Tail(replay)) = Len(replay) - 1
              /\ Len(replay) \in 1 .. N
              /\ \A k \in 1 .. Len(Tail(replay)) :
                   Num(Tail(replay)[k]) = N - Len(Tail(replay)) + k
  <2>1. /\ Len(replay) \in Nat \ {0} /\ Head(replay) = replay[1] /\ replay[1] \in Tagged
        /\ Tail(replay) \in Seq(Tagged) /\ Len(Tail(replay)) = Len(replay) - 1
        /\ \A k \in 1 .. Len(Tail(replay)) : Tail(replay)[k] = replay[k + 1]
    BY <1>3, <1>12
  <2>2. /\ emitting[p] = NoEvent /\ Mark + Len(replay) <= N
        /\ \A n \in 1 .. N - Len(replay) : Covered(n)
        /\ \A k \in 1 .. Len(replay) : Num(replay[k]) = N - Len(replay) + k
    BY <1>1, <1>12 DEF CoverInv
  <2>3. Num(Head(replay)) = N - Len(replay) + 1
    BY <2>1, <2>2
  <2>4. ASSUME NEW k \in 1 .. Len(Tail(replay))
        PROVE  Num(Tail(replay)[k]) = N - Len(Tail(replay)) + k
    <3>1. k + 1 \in 1 .. Len(replay)
      BY <2>1
    <3>2. Num(replay[k + 1]) = N - Len(replay) + (k + 1)
      BY <2>2, <3>1
    <3> QED
      BY <1>3, <2>1, <3>2
  <2> QED
    BY <1>3, <1>4, <2>1, <2>2, <2>3, <2>4
<1>13. CASE ReplayNext
  <2>e. PICK e \in Tagged : e = Head(replay)
    BY <1>12, <1>13 DEF ReplayNext
  <2>1. /\ conn = "replaying" /\ replay # <<>> /\ Deliver(e) /\ replay' = Tail(replay)
        /\ UNCHANGED <<streams, emitting, emits, conn, torn>>
    BY <1>13, <2>e DEF ReplayNext
  <2>2. /\ e \in Tagged /\ Num(e) = N - Len(replay) + 1 /\ Mark < Num(e)
        /\ emitting[p] = NoEvent /\ \A n \in 1 .. Num(e) - 1 : Covered(n)
        /\ replay' \in Seq(Tagged) /\ Len(replay') = Len(replay) - 1
        /\ Len(replay) \in 1 .. N
        /\ \A k \in 1 .. Len(replay') : Num(replay'[k]) = N - Len(replay') + k
    BY <1>12, <2>1, <2>e
  <2>3. /\ SentInv' /\ received' \in Seq(Tagged) /\ lastID' \in IDs \cup {NoID}
        /\ \A n \in Int : Covered(n) => Covered(n)'
        /\ Covered(Num(e))' /\ (Mark' = Mark \/ Mark' = Num(e))
    BY <1>1, <2>1, <2>2, DeliverSent
  <2>4. \A n \in 1 .. N - Len(replay') : Covered(n)'
    BY <1>3, <2>2, <2>3
  <2>5. Mark' \in Nat /\ Mark' <= N - Len(replay')
    BY <1>3, <1>4, <2>2, <2>3
  <2>6. CoverInv(p)'
    BY <1>3, <2>1, <2>2, <2>4, <2>5 DEF CoverInv
  <2>7. ResumeType' /\ LogInv(p)'
    BY <1>1, <1>6, <2>1, <2>2, <2>3 DEF ResumeType, LogInv, Stored
  <2> QED
    BY <1>2, <2>3, <2>6, <2>7 DEF ResumeInv
<1>14. CASE ReplayCut
  <2>e. PICK e \in Tagged : e = Head(replay)
    BY <1>12, <1>14 DEF ReplayCut
  <2>1. /\ conn = "replaying" /\ replay # <<>> /\ Tear(e)
        /\ UNCHANGED <<streams, emitting, emits>>
    BY <1>14, <2>e DEF ReplayCut
  <2>2. /\ e \in Tagged /\ Num(e) = N - Len(replay) + 1 /\ Mark < Num(e)
        /\ \A n \in 1 .. Num(e) - 1 : Covered(n) /\ Len(replay) \in 1 .. N
    BY <1>12, <2>1, <2>e
  <2>3. /\ SentInv' /\ received' \in Seq(Tagged) /\ lastID' \in IDs \cup {NoID}
        /\ torn' \in SUBSET Data /\ replay' \in Seq(Tagged) /\ conn' = "down"
        /\ \A n \in Int : Covered(n) => Covered(n)'
        /\ Covered(Num(e))' /\ Mark' = Num(e)
    BY <1>1, <2>1, <2>2, TearSent
  <2>4. CoverInv(p)'
    <3>1. \A n \in 1 .. Num(e) : Covered(n)'
      BY <1>5, <2>2, <2>3
    <3> QED
      BY <1>3, <2>1, <2>2, <2>3, <3>1 DEF CoverInv
  <2>5. ResumeType' /\ LogInv(p)'
    BY <1>1, <1>6, <2>1, <2>3 DEF ResumeType, LogInv, Stored
  <2> QED
    BY <1>2, <2>3, <2>4, <2>5 DEF ResumeInv
<1>15. CASE ReplayDone
  <2>1. /\ conn = "replaying" /\ replay = <<>> /\ conn' = "up"
        /\ UNCHANGED <<streams, emitting, emits, replay, received, lastID, torn>>
    BY <1>15 DEF ReplayDone
  <2>2. SentInv' /\ Mark' = Mark /\ \A n \in Int : Covered(n)' <=> Covered(n)
    BY <1>1, <2>1, NothingSent
  <2>3. CoverInv(p)'
    <3>1. Len(replay) = 0 /\ N - 0 = N
      BY <1>3, <2>1
    <3>2. \A n \in 1 .. N : Covered(n)
      BY <1>1, <2>1, <3>1 DEF CoverInv
    <3> QED
      BY <1>3, <1>4, <2>1, <2>2, <3>2 DEF CoverInv
  <2>4. ResumeType' /\ LogInv(p)'
    BY <1>1, <1>6, <2>1 DEF ResumeType, LogInv, Stored
  <2> QED
    BY <1>2, <2>2, <2>3, <2>4 DEF ResumeInv
<1>16. CASE Forget
  <2>1. Clear(Stream) /\ UNCHANGED <<emitting, emits, conn, replay, received, lastID, torn>>
    BY <1>16 DEF Forget
  <2>2. SentInv' /\ Mark' = Mark /\ \A n \in Int : Covered(n)' <=> Covered(n)
    BY <1>1, <2>1, NothingSent
  <2>3. LogOf(Stream)' = <<>>
    BY <1>1, <1>3, <2>1 DEF Clear, LogOf, IInv, TypeOK
  <2>4. CoverInv(p)' /\ ResumeType'
    BY <1>1, <1>4, <2>1, <2>2 DEF CoverInv, ResumeType
  <2>5. LogInv(p)'
    BY <1>1, <2>1, <2>3 DEF LogInv
  <2> QED
    BY <1>2, <2>2, <2>4, <2>5 DEF ResumeInv
<1>17. CASE UNCHANGED cvars
  <2>1. UNCHANGED <<streams, emitting, emits, conn, replay, received, lastID, torn>>
    BY <1>17 DEF cvars
  <2>2. SentInv' /\ Mark' = Mark /\ \A n \in Int : Covered(n)' <=> Covered(n)
    BY <1>1, <2>1, NothingSent
  <2>3. CoverInv(p)' /\ ResumeType' /\ LogInv(p)'
    BY <1>1, <1>4, <1>6, <2>1, <2>2 DEF CoverInv, ResumeType, LogInv, Stored
  <2> QED
    BY <1>2, <2>2, <2>3 DEF ResumeInv
<1> QED
  BY <1>7, <1>8, <1>9, <1>10, <1>11, <1>13, <1>14, <1>15, <1>16, <1>17 DEF RNext

--------------------------------------------------------------------------------
(* The invariant in every reachable state.                                 *)
LEMMA ResumeInvariant ==
  ASSUME NEW p, Producers = {p}
  PROVE  RSpec => []ResumeInv(p)
<1>1. RInit => ResumeInv(p)
  BY ResumeInit
<1>2. ResumeInv(p) /\ [RNext]_cvars => ResumeInv(p)'
  BY ResumeNext
<1> QED
  BY <1>1, <1>2, PTL DEF RSpec

(* A client that is live has been sent every event begun whose frame was   *)
(* not cut, whatever was lost before: MultiSink.Emit, record, Since and    *)
(* the replay together drop nothing while one goroutine emits.             *)
THEOREM ResumeMissesNothing ==
  ASSUME NEW p, Producers = {p}
  PROVE  RSpec => []NothingMissed
<1>1. ASSUME ResumeInv(p)
      PROVE  NothingMissed
  <2> SUFFICES ASSUME conn = "up", NEW d \in Due
               PROVE  Got(d) # {}
    BY DEF NothingMissed
  <2>1. d \in Data /\ d = <<p, d[2]>> /\ d[2] \in 1 .. MaxEmits /\ d \notin torn
    BY TaggedFacts DEF Due
  <2>2. d[2] \in 1 .. emits[p] /\ torn \in SUBSET Data /\ received \in Seq(Tagged)
    BY <1>1, <2>1 DEF Due, ResumeInv, ResumeType
  <2>3. Covered(d[2])
    BY <1>1, <2>2 DEF ResumeInv, CoverInv
  <2>4. ASSUME NEW c \in torn, c[2] = d[2]
        PROVE  FALSE
    BY <2>1, <2>2, <2>4, TaggedFacts
  <2>5. PICK i \in 1 .. Len(received) : Num(received[i]) = d[2]
    BY <2>3, <2>4 DEF Covered
  <2>6. received[i] \in Tagged
    BY <2>2
  <2>7. received[i].data = d
    BY <2>1, <2>5, <2>6, TaggedFacts
  <2>8. i \in DOMAIN received
    BY <2>2
  <2> QED
    BY <2>7, <2>8 DEF Got
<1> QED
  BY <1>1, ResumeInvariant, PTL

(* No event with an id is sent twice over all the client's connections:    *)
(* what Since answers starts after the Last-Event-ID the Source took.      *)
THEOREM ResumeRepeatsNoNamedEvent ==
  ASSUME NEW p, Producers = {p}
  PROVE  RSpec => []NamedOnce
<1>1. ResumeInv(p) => NamedOnce
  BY DEF ResumeInv, SentInv
<1> QED
  BY <1>1, ResumeInvariant, PTL

(* Events reach the client first in the order of emission, live or         *)
(* replayed, a cut frame excepted.                                         *)
THEOREM ResumeKeepsOrder ==
  ASSUME NEW p, Producers = {p}
  PROVE  RSpec => []InOrder
<1>1. ResumeInv(p) => InOrder
  BY DEF ResumeInv, SentInv
<1> QED
  BY <1>1, ResumeInvariant, PTL
================================================================================
