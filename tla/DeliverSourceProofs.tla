-------------------------- MODULE DeliverSourceProofs --------------------------
(***************************************************************************)
(* Safety of DeliverSource for any number of callbacks, closers and        *)
(* events, any buffer size and any way the consumer may stop.              *)
(***************************************************************************)
EXTENDS DeliverSource, TLAPS

(* The flag tells whether the channel is closed.  mu is held exactly by    *)
(* the Deliver that waits on the channel, and while it waits the source is *)
(* open: Close cannot come between the check of closed and the send.       *)
LockInv ==
  /\ chClosed = closed
  /\ \A d \in Deliverers : dpc[d] = "sending" => mu = d /\ ~closed
  /\ mu # NoOne => \E d \in Deliverers : mu = d /\ dpc[d] = "sending"
  /\ ~panicked

(* Events are in the channel or have been received, never both or neither. *)
FlowInv ==
  /\ accepted = received \o ch
  /\ consumer = "ended" => closed /\ ch = <<>>
  /\ \A c \in Closers : cpc[c] = "returned" => closed

(* The n-th call of d is accepted only behind the one before it; while the *)
(* source is open every call of d that has returned is accepted.           *)
Behind(q) ==
  \A i \in DOMAIN q : q[i][2] > 1 =>
    \E j \in 1 .. i - 1 : q[j] = <<q[i][1], q[i][2] - 1>>

Returned(d) == IF dpc[d] = "idle" THEN calls[d] ELSE calls[d] - 1

OrderInv ==
  /\ Behind(accepted)
  /\ ~closed => \A d \in Deliverers : \A n \in 1 .. Returned(d) :
                  \E j \in DOMAIN accepted : accepted[j] = <<d, n>>
  /\ \A d \in Deliverers : dpc[d] # "idle" => calls[d] > 0

IInv == TypeOK /\ LockInv /\ FlowInv /\ OrderInv

LEMMA InitIInv == Init => IInv
<1> SUFFICES ASSUME Init PROVE IInv
  OBVIOUS
<1>1. TypeOK
  <2>1. ch \in Seq(Events) /\ Len(ch) <= Capacity /\ accepted \in Seq(Events)
    BY CapacityAssumption DEF Init
  <2>2. received \in Seq(Events) /\ calls \in [Deliverers -> 0 .. MaxEvents]
    BY BoundAssumption DEF Init
  <2> QED
    BY <2>1, <2>2 DEF Init, TypeOK
<1>2. LockInv
  BY DEF Init, LockInv
<1>3. FlowInv
  BY DEF Init, FlowInv
<1>4. OrderInv
  BY DEF Init, OrderInv, Behind, Returned
<1> QED
  BY <1>1, <1>2, <1>3, <1>4 DEF IInv

(* Under the invariant a send finds the source open, has room when it      *)
(* proceeds, and releases mu.                                              *)
LEMMA DeliverSendFacts ==
  ASSUME IInv, NEW d \in Deliverers, DeliverSend(d)
  PROVE  /\ closed = FALSE /\ Len(ch) < Capacity
         /\ mu' = NoOne /\ panicked' = FALSE
         /\ ch' = Append(ch, <<d, calls[d]>>)
         /\ accepted' = Append(accepted, <<d, calls[d]>>)
         /\ dpc' = [dpc EXCEPT ![d] = "idle"]
         /\ UNCHANGED <<chClosed, closed, calls, cpc, consumer, ctxDone, received>>
         /\ <<d, calls[d]>> \in Events
<1>1. closed = FALSE /\ chClosed = FALSE /\ panicked = FALSE
  BY DEF DeliverSend, IInv, LockInv, TypeOK
<1>2. calls[d] \in 1 .. MaxEvents
  BY BoundAssumption DEF DeliverSend, IInv, OrderInv, TypeOK
<1> QED
  BY <1>1, <1>2 DEF DeliverSend, HasRoom, Unlock, Events

LEMMA TypeStep == IInv /\ [Next]_vars => TypeOK'
<1> SUFFICES ASSUME IInv, [Next]_vars PROVE TypeOK'
  OBVIOUS
<1>0. TypeOK
  BY DEF IInv
<1>1. ASSUME NEW d \in Deliverers, DeliverCall(d) PROVE TypeOK'
  BY <1>0, <1>1, BoundAssumption DEF DeliverCall, TypeOK
<1>2. ASSUME NEW d \in Deliverers, DeliverLock(d) PROVE TypeOK'
  BY <1>0, <1>2 DEF DeliverLock, TypeOK
<1>3. ASSUME NEW d \in Deliverers, DeliverSend(d) PROVE TypeOK'
  <2>1. ch' \in Seq(Events) /\ Len(ch') <= Capacity /\ accepted' \in Seq(Events)
    <3>1. PICK e \in Events : ch' = Append(ch, e) /\ accepted' = Append(accepted, e)
      BY <1>3, DeliverSendFacts
    <3>2. Len(ch) < Capacity /\ ch \in Seq(Events) /\ accepted \in Seq(Events)
      BY <1>0, <1>3, DeliverSendFacts DEF TypeOK
    <3> QED
      BY <3>1, <3>2, CapacityAssumption
  <2>2. /\ mu' \in Deliverers \cup Closers \cup {NoOne}
        /\ dpc' \in [Deliverers -> {"idle", "locking", "sending"}]
        /\ panicked' \in BOOLEAN
    BY <1>0, <1>3, DeliverSendFacts DEF TypeOK
  <2>3. UNCHANGED <<chClosed, closed, calls, cpc, consumer, ctxDone, received>>
    BY <1>3, DeliverSendFacts
  <2> QED
    BY <1>0, <2>1, <2>2, <2>3 DEF TypeOK
<1>4. ASSUME NEW c \in Closers, CloseCall(c) \/ Close(c) PROVE TypeOK'
  BY <1>0, <1>4 DEF CloseCall, Close, closeChannel, TypeOK
<1>5. CASE NextEvent
  <2>1. ch' \in Seq(Events) /\ Len(ch') <= Capacity /\ received' \in Seq(Events)
    BY <1>0, <1>5, CapacityAssumption DEF NextEvent, TypeOK
  <2> QED
    BY <1>0, <1>5, <2>1 DEF NextEvent, TypeOK
<1>6. CASE NextEnd \/ NextCancelled \/ Cancel
  BY <1>0, <1>6 DEF NextEnd, NextCancelled, Cancel, TypeOK
<1>7. CASE UNCHANGED vars
  BY <1>0, <1>7 DEF vars, TypeOK
<1> QED
  BY <1>1, <1>2, <1>3, <1>4, <1>5, <1>6, <1>7 DEF Next

LEMMA LockStep == IInv /\ [Next]_vars => LockInv'
<1> SUFFICES ASSUME IInv, [Next]_vars PROVE LockInv'
  OBVIOUS
<1>0. TypeOK /\ LockInv
  BY DEF IInv
<1>1. ASSUME NEW d \in Deliverers, DeliverCall(d) PROVE LockInv'
  BY <1>0, <1>1 DEF DeliverCall, TypeOK, LockInv
<1>2. ASSUME NEW d \in Deliverers, DeliverLock(d) PROVE LockInv'
  BY <1>0, <1>2, ProcessAssumption DEF DeliverLock, TypeOK, LockInv
<1>3. ASSUME NEW d \in Deliverers, DeliverSend(d) PROVE LockInv'
  <2>1. dpc[d] = "sending" /\ mu = d
    BY <1>0, <1>3 DEF DeliverSend, LockInv
  <2>2. \A f \in Deliverers : dpc'[f] # "sending"
    BY <1>0, <1>3, <2>1, DeliverSendFacts DEF TypeOK, LockInv
  <2> QED
    BY <1>0, <1>3, <2>2, DeliverSendFacts DEF LockInv
<1>4. ASSUME NEW c \in Closers, CloseCall(c) PROVE LockInv'
  BY <1>0, <1>4 DEF CloseCall, LockInv
<1>5. ASSUME NEW c \in Closers, Close(c) PROVE LockInv'
  <2>0. mu = NoOne /\ mu' = mu /\ dpc' = dpc
    BY <1>5 DEF Close
  <2>1. \A d \in Deliverers : dpc'[d] # "sending"
    BY <1>0, <2>0, ProcessAssumption DEF LockInv
  <2>2. chClosed' = closed' /\ ~panicked'
    <3>1. CASE closed
      BY <1>0, <1>5, <3>1 DEF Close, LockInv
    <3>2. CASE ~closed
      <4>1. closed' = TRUE /\ chClosed' = TRUE /\ panicked' = (panicked \/ chClosed)
        BY <1>5, <3>2 DEF Close, closeChannel
      <4>2. chClosed = FALSE /\ ~panicked
        BY <1>0, <3>2 DEF TypeOK, LockInv
      <4> QED
        BY <4>1, <4>2
    <3> QED
      BY <3>1, <3>2
  <2>3. mu' = NoOne
    BY <2>0
  <2> QED
    BY <2>1, <2>2, <2>3 DEF LockInv
<1>6. CASE NextEvent \/ NextEnd \/ NextCancelled \/ Cancel \/ UNCHANGED vars
  BY <1>0, <1>6 DEF NextEvent, NextEnd, NextCancelled, Cancel, vars, LockInv
<1> QED
  BY <1>1, <1>2, <1>3, <1>4, <1>5, <1>6 DEF Next

(* Appending to the right operand of a concatenation.                      *)
LEMMA ConcatAppend ==
  ASSUME NEW S, NEW p \in Seq(S), NEW q \in Seq(S), NEW e \in S
  PROVE  Append(p \o q, e) = p \o Append(q, e)
<1> DEFINE l == Append(p \o q, e)
           r == p \o Append(q, e)
<1>1. l \in Seq(S) /\ r \in Seq(S) /\ Len(l) = Len(p) + Len(q) + 1 /\ Len(r) = Len(l)
  OBVIOUS
<1>2. ASSUME NEW i \in 1 .. Len(l) PROVE l[i] = r[i]
  <2>1. CASE i \in 1 .. Len(p)
    BY <1>1, <2>1
  <2>2. CASE i \in Len(p) + 1 .. Len(p) + Len(q)
    BY <1>1, <2>2
  <2>3. CASE i = Len(p) + Len(q) + 1
    BY <1>1, <2>3
  <2> QED
    BY <1>1, <2>1, <2>2, <2>3
<1> HIDE DEF l, r
<1>3. l = r
  BY <1>1, <1>2
<1> QED
  BY <1>3 DEF l, r

LEMMA FlowStep == IInv /\ [Next]_vars => FlowInv'
<1> SUFFICES ASSUME IInv, [Next]_vars PROVE FlowInv'
  OBVIOUS
<1>0. TypeOK /\ FlowInv /\ chClosed = closed
  BY DEF IInv, LockInv
<1>1. ASSUME NEW d \in Deliverers, DeliverCall(d) \/ DeliverLock(d) PROVE FlowInv'
  BY <1>0, <1>1 DEF DeliverCall, DeliverLock, FlowInv
<1>2. ASSUME NEW d \in Deliverers, DeliverSend(d) PROVE FlowInv'
  <2>1. accepted' = received' \o ch'
    <3>1. PICK e \in Events : ch' = Append(ch, e) /\ accepted' = Append(accepted, e)
      BY <1>2, DeliverSendFacts
    <3>2. received' = received
      BY <1>2, DeliverSendFacts
    <3>3. ch \in Seq(Events) /\ received \in Seq(Events) /\ accepted = received \o ch
      BY <1>0 DEF TypeOK, FlowInv
    <3> QED
      BY <3>1, <3>2, <3>3, ConcatAppend
  <2>2. consumer # "ended"
    BY <1>0, <1>2, DeliverSendFacts DEF FlowInv
  <2> QED
    BY <1>0, <1>2, <2>1, <2>2, DeliverSendFacts DEF FlowInv
<1>3. ASSUME NEW c \in Closers, CloseCall(c) \/ Close(c) PROVE FlowInv'
  BY <1>0, <1>3 DEF CloseCall, Close, TypeOK, FlowInv
<1>4. CASE NextEvent
  <2>1. received' \o ch' = received \o ch
    BY <1>0, <1>4 DEF NextEvent, TypeOK
  <2> QED
    BY <1>0, <1>4, <2>1 DEF NextEvent, FlowInv
<1>5. CASE NextEnd \/ NextCancelled \/ Cancel \/ UNCHANGED vars
  BY <1>0, <1>5 DEF NextEnd, NextCancelled, Cancel, vars, FlowInv
<1> QED
  BY <1>1, <1>2, <1>3, <1>4, <1>5 DEF Next

(* A later position cannot invalidate the order of the earlier ones.       *)
LEMMA BehindAppend ==
  ASSUME NEW q \in Seq(Events), Behind(q), NEW e \in Events,
         e[2] > 1 => \E j \in DOMAIN q : q[j] = <<e[1], e[2] - 1>>
  PROVE  Behind(Append(q, e))
<1> DEFINE r == Append(q, e)
<1>1. /\ Len(q) \in Nat /\ DOMAIN q = 1 .. Len(q) /\ DOMAIN r = 1 .. Len(q) + 1
      /\ r[Len(q) + 1] = e /\ \A i \in 1 .. Len(q) : r[i] = q[i]
  OBVIOUS
<1> HIDE DEF r
<1> SUFFICES ASSUME NEW i \in DOMAIN r, r[i][2] > 1
             PROVE  \E j \in 1 .. i - 1 : r[j] = <<r[i][1], r[i][2] - 1>>
  BY DEF Behind, r
<1>2. CASE i = Len(q) + 1
  <2>1. PICK j \in DOMAIN q : q[j] = <<e[1], e[2] - 1>>
    BY <1>1, <1>2
  <2>2. j \in 1 .. i - 1 /\ r[j] = q[j]
    BY <1>1, <1>2, <2>1
  <2> QED
    BY <1>1, <1>2, <2>1, <2>2
<1>3. CASE i \in 1 .. Len(q)
  <2>1. PICK j \in 1 .. i - 1 : q[j] = <<q[i][1], q[i][2] - 1>>
    BY <1>1, <1>3 DEF Behind
  <2>2. j \in 1 .. Len(q)
    BY <1>1, <1>3
  <2> QED
    BY <1>1, <1>3, <2>1, <2>2
<1> QED
  BY <1>1, <1>2, <1>3

LEMMA OrderStep == IInv /\ [Next]_vars => OrderInv'
<1> SUFFICES ASSUME IInv, [Next]_vars PROVE OrderInv'
  OBVIOUS
<1>0. TypeOK /\ OrderInv
  BY DEF IInv
<1>1. ASSUME NEW d \in Deliverers, DeliverCall(d) PROVE OrderInv'
  <2>1. \A f \in Deliverers : Returned(f)' = Returned(f)
    BY <1>0, <1>1 DEF DeliverCall, TypeOK, Returned
  <2>2. accepted' = accepted /\ closed' = closed
    BY <1>1 DEF DeliverCall
  <2>3. \A f \in Deliverers : dpc'[f] # "idle" => calls'[f] > 0
    BY <1>0, <1>1 DEF DeliverCall, TypeOK, OrderInv
  <2> QED
    BY <1>0, <2>1, <2>2, <2>3 DEF OrderInv, Behind
<1>2. ASSUME NEW d \in Deliverers, DeliverLock(d) PROVE OrderInv'
  <2>1. accepted' = accepted /\ closed' = closed /\ calls' = calls
    BY <1>2 DEF DeliverLock
  <2>2. ~closed => \A f \in Deliverers : Returned(f)' = Returned(f)
    BY <1>0, <1>2 DEF DeliverLock, TypeOK, Returned
  <2>3. \A f \in Deliverers : dpc'[f] # "idle" => dpc[f] # "idle"
    BY <1>0, <1>2 DEF DeliverLock, TypeOK
  <2> QED
    BY <1>0, <2>1, <2>2, <2>3 DEF OrderInv, Behind
<1>3. ASSUME NEW d \in Deliverers, DeliverSend(d) PROVE OrderInv'
  <2> DEFINE e == <<d, calls[d]>>
  <2>1. /\ closed = FALSE /\ accepted' = Append(accepted, e) /\ e \in Events
        /\ dpc' = [dpc EXCEPT ![d] = "idle"] /\ calls' = calls /\ closed' = closed
    BY <1>3, DeliverSendFacts
  <2>2. Returned(d) = calls[d] - 1 /\ calls[d] \in Nat /\ calls[d] > 0
    BY <1>0, <1>3 DEF DeliverSend, Returned, TypeOK, OrderInv
  <2>3. /\ Returned(d)' = calls[d]
        /\ \A f \in Deliverers \ {d} : Returned(f)' = Returned(f)
    BY <1>0, <2>1 DEF TypeOK, Returned
  <2>4. accepted \in Seq(Events)
    BY <1>0 DEF TypeOK
  <2>5. \A f \in Deliverers : \A n \in 1 .. Returned(f) :
          \E j \in DOMAIN accepted : accepted[j] = <<f, n>>
    BY <1>0, <2>1 DEF OrderInv
  <2>6. Behind(accepted')
    <3>1. e[2] > 1 => \E j \in DOMAIN accepted : accepted[j] = <<e[1], e[2] - 1>>
      BY <2>2, <2>5
    <3> QED
      BY <1>0, <2>1, <2>4, <3>1, BehindAppend DEF OrderInv
  <2>7. ASSUME NEW f \in Deliverers, NEW n \in 1 .. Returned(f)'
        PROVE  \E j \in DOMAIN accepted' : accepted'[j] = <<f, n>>
    <3> HIDE DEF e
    <3>0. /\ DOMAIN accepted = 1 .. Len(accepted) /\ Len(accepted) \in Nat
          /\ DOMAIN accepted' = 1 .. Len(accepted) + 1
          /\ accepted'[Len(accepted) + 1] = e
          /\ \A j \in 1 .. Len(accepted) : accepted'[j] = accepted[j]
      BY <2>1, <2>4
    <3>1. CASE f = d /\ n = calls[d]
      BY <3>0, <3>1 DEF e
    <3>2. CASE f # d \/ n # calls[d]
      <4>1. n \in 1 .. Returned(f)
        BY <2>2, <2>3, <3>2
      <4>2. PICK j \in DOMAIN accepted : accepted[j] = <<f, n>>
        BY <2>5, <4>1
      <4> QED
        BY <3>0, <4>2
    <3> QED
      BY <3>1, <3>2
  <2>8. \A f \in Deliverers : dpc'[f] # "idle" => calls'[f] > 0
    BY <1>0, <2>1 DEF TypeOK, OrderInv
  <2> QED
    BY <2>6, <2>7, <2>8 DEF OrderInv
<1>4. ASSUME NEW c \in Closers, CloseCall(c) \/ Close(c) PROVE OrderInv'
  <2>1. UNCHANGED <<accepted, calls, dpc>> /\ (~closed' => ~closed)
    BY <1>4 DEF CloseCall, Close
  <2> QED
    BY <1>0, <2>1 DEF OrderInv, Behind, Returned
<1>5. CASE NextEvent \/ NextEnd \/ NextCancelled \/ Cancel \/ UNCHANGED vars
  <2>1. UNCHANGED <<accepted, calls, dpc, closed>>
    BY <1>5 DEF NextEvent, NextEnd, NextCancelled, Cancel, vars
  <2> QED
    BY <1>0, <2>1 DEF OrderInv, Behind, Returned
<1> QED
  BY <1>1, <1>2, <1>3, <1>4, <1>5 DEF Next

LEMMA NextIInv == IInv /\ [Next]_vars => IInv'
  BY TypeStep, LockStep, FlowStep, OrderStep DEF IInv

--------------------------------------------------------------------------------
(* Every state of the source is well formed; in particular the channel     *)
(* never holds more than its buffer.                                       *)
THEOREM TypeCorrect == Spec => []TypeOK
<1>1. IInv => TypeOK
  BY DEF IInv
<1> QED
  BY InitIInv, NextIInv, <1>1, PTL DEF Spec

(* However Deliver and Close interleave, no send on a closed channel and   *)
(* no second close (nats/source.go, Deliver and Close).                    *)
THEOREM NeverPanics == Spec => []NoPanic
<1>1. IInv => NoPanic
  BY DEF IInv, LockInv, NoPanic
<1> QED
  BY InitIInv, NextIInv, <1>1, PTL DEF Spec

(* Next reports the end only when everything accepted has been handed out. *)
THEOREM DrainsBeforeEnd == Spec => []DrainedAtEnd
<1>1. IInv => DrainedAtEnd
  <2> SUFFICES ASSUME IInv, consumer = "ended" PROVE received = accepted
    BY DEF DrainedAtEnd
  <2>1. accepted = received \o <<>> /\ received \in Seq(Events)
    BY DEF IInv, FlowInv, TypeOK
  <2> QED
    BY <2>1
<1> QED
  BY InitIInv, NextIInv, <1>1, PTL DEF Spec

(* The consumer sees an unbroken initial run of every callback's events.   *)
THEOREM NeverSkips == Spec => []NoHoles
<1>1. IInv => NoHoles
  <2> SUFFICES ASSUME IInv, NEW i \in DOMAIN received, received[i][2] > 1
               PROVE  \E j \in 1 .. i - 1 :
                        received[j] = <<received[i][1], received[i][2] - 1>>
    BY DEF NoHoles
  <2>1. /\ accepted = received \o ch /\ Behind(accepted)
        /\ received \in Seq(Events) /\ ch \in Seq(Events)
    BY DEF IInv, FlowInv, OrderInv, TypeOK
  <2>2. /\ DOMAIN received = 1 .. Len(received) /\ Len(received) \in Nat
        /\ DOMAIN received \subseteq DOMAIN accepted
        /\ \A k \in DOMAIN received : accepted[k] = received[k]
    BY <2>1
  <2>3. PICK j \in 1 .. i - 1 : accepted[j] = <<accepted[i][1], accepted[i][2] - 1>>
    BY <2>1, <2>2 DEF Behind
  <2>4. j \in DOMAIN received
    BY <2>2
  <2> QED
    BY <2>2, <2>3, <2>4
<1> QED
  BY InitIInv, NextIInv, <1>1, PTL DEF Spec

(* After a Close has returned nothing is accepted any more.                *)
THEOREM NothingIsAcceptedAfterClose == Spec => NothingAfterClose
<1>1. IInv /\ [Next]_vars =>
        [(\E c \in Closers : cpc[c] = "returned") => accepted' = accepted]_vars
  <2> SUFFICES ASSUME IInv, Next, NEW c \in Closers, cpc[c] = "returned"
               PROVE  accepted' = accepted
    BY DEF vars
  <2>1. closed
    BY DEF IInv, FlowInv
  <2>2. ASSUME NEW d \in Deliverers PROVE ~DeliverSend(d)
    BY <2>1, DeliverSendFacts
  <2>3. \/ \E d \in Deliverers : DeliverCall(d) \/ DeliverLock(d)
        \/ \E k \in Closers : CloseCall(k) \/ Close(k)
        \/ NextEvent \/ NextEnd \/ NextCancelled \/ Cancel
    BY <2>2 DEF Next
  <2> QED
    BY <2>3 DEF DeliverCall, DeliverLock, CloseCall, Close, NextEvent, NextEnd,
                NextCancelled, Cancel
<1> QED
  BY InitIInv, NextIInv, <1>1, PTL DEF Spec, NothingAfterClose

(* The source implements the event channel: every step puts one event in,  *)
(* takes the oldest one out, ends a drained channel, lets the reader go,   *)
(* or leaves the channel alone.                                            *)
LEMMA ChannelStep == IInv /\ [Next]_vars => [Channel!Next]_(Channel!vars)
<1> SUFFICES ASSUME IInv, [Next]_vars PROVE [Channel!Next]_(Channel!vars)
  OBVIOUS
<1> USE DEF Channel!Next, Channel!vars
<1>0. /\ accepted = received \o ch
      /\ accepted \in Seq(Events) /\ received \in Seq(Events) /\ ch \in Seq(Events)
      /\ consumer = "ended" => closed
  BY DEF IInv, FlowInv, TypeOK
<1>1. ASSUME NEW d \in Deliverers, DeliverCall(d) \/ DeliverLock(d)
      PROVE  UNCHANGED Channel!vars
  BY <1>1 DEF DeliverCall, DeliverLock, Reading
<1>2. ASSUME NEW d \in Deliverers, DeliverSend(d) PROVE Channel!Accept
  <2>1. PICK e \in Events : accepted' = Append(accepted, e)
    BY <1>2, DeliverSendFacts
  <2>2. ~closed /\ UNCHANGED <<received, consumer>>
    BY <1>2, DeliverSendFacts
  <2>3. Len(accepted') = Len(accepted) + 1 /\ accepted = SubSeq(accepted', 1, Len(accepted))
    BY <1>0, <2>1
  <2> QED
    BY <1>0, <2>2, <2>3 DEF Channel!Accept, Reading
<1>3. ASSUME NEW c \in Closers, CloseCall(c) \/ Close(c) PROVE UNCHANGED Channel!vars
  BY <1>3 DEF CloseCall, Close, Reading
<1>4. CASE NextEvent
  <2>1. /\ Len(received) < Len(accepted)
        /\ accepted[Len(received) + 1] = Head(ch)
    BY <1>0, <1>4 DEF NextEvent
  <2> QED
    BY <1>4, <2>1 DEF NextEvent, Channel!Take, Reading
<1>5. CASE NextEnd
  <2>1. received = accepted
    BY <1>0, <1>5 DEF NextEnd
  <2> QED
    BY <1>5, <2>1 DEF NextEnd, Channel!End, Reading
<1>6. CASE NextCancelled
  BY <1>6 DEF NextCancelled, Channel!Leave, Reading
<1>7. CASE Cancel \/ UNCHANGED vars
  BY <1>7 DEF Cancel, vars, Reading
<1> QED
  BY <1>1, <1>2, <1>3, <1>4, <1>5, <1>6, <1>7 DEF Next

(* nats.Source and ws.Source keep the promise of the Source interface, for *)
(* any number of callbacks and closers.                                    *)
THEOREM SourceImplementsChannel == Spec => ImplementsChannel
<1>1. Init => Channel!Init
  BY DEF Init, Channel!Init, Reading
<1> QED
  BY <1>1, InitIInv, NextIInv, ChannelStep, PTL DEF Spec, ImplementsChannel, Channel!Spec
================================================================================
