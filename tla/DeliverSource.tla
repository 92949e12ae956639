----------------------------- MODULE DeliverSource -----------------------------
(***************************************************************************)
(* Source of the nats and ws bindings (nats/source.go and ws/source.go,    *)
(* the same code): callbacks push events with Deliver, one consumer pulls  *)
(* them with Next, anybody may Close.                                      *)
(*                                                                         *)
(* Deliver and Close run under mu; Deliver keeps mu while it waits for     *)
(* room in the channel.  Each call is split at the points where it can     *)
(* block: waiting for mu, and waiting for the channel.  The consumer is    *)
(* the loop of Reassemble (reassemble.go): it calls Next until that fails, *)
(* and it may stop earlier, after an event (message_stop) or because its   *)
(* context is done.                                                        *)
(***************************************************************************)
EXTENDS Integers, Sequences

CONSTANTS Deliverers,   \* goroutines that call Deliver
          Closers,      \* goroutines that call Close, once each
          NoOne,        \* nobody holds mu
          Capacity,     \* buffer of the channel (sourceBufferSize)
          MaxEvents,    \* bound: Deliver calls per deliverer
          Quits         \* how the consumer may stop early, a subset of
                        \* {"stop", "ctx"}

ASSUME CapacityAssumption == Capacity \in Nat \ {0}
ASSUME ProcessAssumption == /\ Deliverers \cap Closers = {}
                            /\ NoOne \notin Deliverers \cup Closers
ASSUME BoundAssumption == MaxEvents \in Nat
ASSUME QuitsAssumption == Quits \subseteq {"stop", "ctx"}

VARIABLES
  mu,         \* who holds the mutex, or NoOne
  ch,         \* events in the channel's buffer
  chClosed,   \* the channel has been closed
  closed,     \* the closed flag of the source
  dpc,        \* dpc[d]: where deliverer d is
  calls,      \* calls[d]: Deliver calls d has begun; the event of call n is <<d, n>>
  cpc,        \* cpc[c]: where closer c is
  consumer,   \* "pulling", "ended" (ErrNoMoreEvents), "stopped" or "cancelled"
  ctxDone,    \* the consumer's context is done
  accepted,   \* history: events that entered the channel
  received,   \* history: events Next returned
  panicked    \* a send on or a close of a closed channel happened

vars == <<mu, ch, chClosed, closed, dpc, calls, cpc, consumer, ctxDone, accepted, received, panicked>>

Events == Deliverers \X (1 .. MaxEvents)

(* Quits without "ctx" is a context that is never done.                    *)
Init ==
  /\ mu = NoOne
  /\ ch = <<>>
  /\ chClosed = FALSE
  /\ closed = FALSE
  /\ dpc = [d \in Deliverers |-> "idle"]
  /\ calls = [d \in Deliverers |-> 0]
  /\ cpc = [c \in Closers |-> "idle"]
  /\ consumer = "pulling"
  /\ ctxDone = FALSE
  /\ accepted = <<>>
  /\ received = <<>>
  /\ panicked = FALSE

--------------------------------------------------------------------------------
(* Deliver.                                                                *)

(* A callback fires: it calls Deliver and waits for mu.                    *)
DeliverCall(d) ==
  /\ dpc[d] = "idle"
  /\ calls[d] < MaxEvents
  /\ dpc' = [dpc EXCEPT ![d] = "locking"]
  /\ calls' = [calls EXCEPT ![d] = @ + 1]
  /\ UNCHANGED <<mu, ch, chClosed, closed, cpc, consumer, ctxDone, accepted, received, panicked>>

(* mu acquired; a closed source drops the event and returns.               *)
DeliverLockUnheld(d) ==
  /\ dpc[d] = "locking"
  /\ mu = NoOne
  /\ dpc' = [dpc EXCEPT ![d] = IF closed THEN "idle" ELSE "sending"]
  /\ UNCHANGED <<mu, ch, chClosed, closed, calls, cpc, consumer, ctxDone, accepted, received, panicked>>

DeliverLock(d) ==
  /\ dpc[d] = "locking"
  /\ mu = NoOne
  /\ \/ /\ closed
        /\ dpc' = [dpc EXCEPT ![d] = "idle"]
        /\ mu' = mu
     \/ /\ ~closed
        /\ dpc' = [dpc EXCEPT ![d] = "sending"]
        /\ mu' = d
  /\ UNCHANGED <<ch, chClosed, closed, calls, cpc, consumer, ctxDone, accepted, received, panicked>>

(* The buffer of the channel (external: a Go channel).                     *)
HasRoom == Len(ch) < Capacity

(* The deferred mu.Unlock.                                                 *)
UnlockForgotten == mu' = mu

Unlock == mu' = NoOne

(* s.ch <- ev, with mu held: waits for room; on a closed channel it panics.*)
DeliverSendLossy(d) ==
  /\ dpc[d] = "sending"
  /\ IF HasRoom
       THEN ch' = Append(ch, <<d, calls[d]>>) /\ accepted' = Append(accepted, <<d, calls[d]>>)
       ELSE UNCHANGED <<ch, accepted>>
  /\ Unlock
  /\ dpc' = [dpc EXCEPT ![d] = "idle"]
  /\ UNCHANGED <<chClosed, closed, calls, cpc, consumer, ctxDone, received, panicked>>

DeliverSend(d) ==
  /\ dpc[d] = "sending"
  /\ chClosed \/ HasRoom
  /\ panicked' = (panicked \/ chClosed)
  /\ ch' = IF chClosed THEN ch ELSE Append(ch, <<d, calls[d]>>)
  /\ accepted' = IF chClosed THEN accepted ELSE Append(accepted, <<d, calls[d]>>)
  /\ Unlock
  /\ dpc' = [dpc EXCEPT ![d] = "idle"]
  /\ UNCHANGED <<chClosed, closed, calls, cpc, consumer, ctxDone, received>>

--------------------------------------------------------------------------------
(* Close.                                                                  *)

CloseCall(c) ==
  /\ cpc[c] = "idle"
  /\ cpc' = [cpc EXCEPT ![c] = "locking"]
  /\ UNCHANGED <<mu, ch, chClosed, closed, dpc, calls, consumer, ctxDone, accepted, received, panicked>>

(* mu acquired: the first Close sets the flag and closes the channel, a    *)
(* later one finds the flag set and returns; close(ch) of a closed channel *)
(* panics.  Nothing blocks between Lock and Unlock, so this is one step.   *)
closeChannel ==
  /\ panicked' = (panicked \/ chClosed)
  /\ chClosed' = TRUE

CloseInverted(c) ==
  /\ cpc[c] = "locking"
  /\ mu = NoOne
  /\ cpc' = [cpc EXCEPT ![c] = "returned"]
  /\ IF closed THEN closeChannel ELSE UNCHANGED <<chClosed, panicked>>
  /\ UNCHANGED <<mu, ch, closed, dpc, calls, consumer, ctxDone, accepted, received>>

CloseUnguarded(c) ==
  /\ cpc[c] = "locking"
  /\ mu = NoOne
  /\ cpc' = [cpc EXCEPT ![c] = "returned"]
  /\ closed' = TRUE
  /\ closeChannel
  /\ UNCHANGED <<mu, ch, dpc, calls, consumer, ctxDone, accepted, received>>

Close(c) ==
  /\ cpc[c] = "locking"
  /\ mu = NoOne
  /\ cpc' = [cpc EXCEPT ![c] = "returned"]
  /\ \/ closed /\ UNCHANGED <<chClosed, closed, panicked>>
     \/ ~closed /\ closed' = TRUE /\ closeChannel
  /\ UNCHANGED <<mu, ch, dpc, calls, consumer, ctxDone, accepted, received>>

--------------------------------------------------------------------------------
(* Next, called in the loop of Reassemble.                                 *)

(* The channel case of the select: an event, whether or not the context is *)
(* done as well.  After it the loop pulls again or, with "stop", ends.     *)
NextEvent ==
  /\ consumer = "pulling"
  /\ ch # <<>>
  /\ received' = Append(received, Head(ch))
  /\ ch' = Tail(ch)
  /\ \/ consumer' = consumer
     \/ "stop" \in Quits /\ consumer' = "stopped"
  /\ UNCHANGED <<mu, chClosed, closed, dpc, calls, cpc, ctxDone, accepted, panicked>>

(* The channel case once the channel is closed and drained.                *)
NextEndEarly ==
  /\ consumer = "pulling"
  /\ chClosed
  /\ consumer' = "ended"
  /\ UNCHANGED <<mu, ch, chClosed, closed, dpc, calls, cpc, ctxDone, accepted, received, panicked>>

NextEnd ==
  /\ consumer = "pulling"
  /\ ch = <<>>
  /\ chClosed
  /\ consumer' = "ended"
  /\ UNCHANGED <<mu, ch, chClosed, closed, dpc, calls, cpc, ctxDone, accepted, received, panicked>>

(* The context case of the select, possible also while events are queued.  *)
NextCancelled ==
  /\ consumer = "pulling"
  /\ ctxDone
  /\ consumer' = "cancelled"
  /\ UNCHANGED <<mu, ch, chClosed, closed, dpc, calls, cpc, ctxDone, accepted, received, panicked>>

(* The caller cancels the context, or its deadline passes.                 *)
Cancel ==
  /\ "ctx" \in Quits
  /\ ~ctxDone
  /\ ctxDone' = TRUE
  /\ UNCHANGED <<mu, ch, chClosed, closed, dpc, calls, cpc, consumer, accepted, received, panicked>>

--------------------------------------------------------------------------------
Next ==
  \/ \E d \in Deliverers : DeliverCall(d) \/ DeliverLock(d) \/ DeliverSend(d)
  \/ \E c \in Closers : CloseCall(c) \/ Close(c)
  \/ NextEvent
  \/ NextEnd
  \/ NextCancelled
  \/ Cancel

Spec == Init /\ [][Next]_vars

(* A goroutine that can run does (weak fairness).  A goroutine waiting for *)
(* mu gets it if it is free again and again (strong fairness): sync.Mutex  *)
(* hands itself to the oldest waiter once that has waited a millisecond.   *)
(* Nobody is obliged to call Deliver or Close, or to cancel.               *)
Fairness ==
  /\ \A d \in Deliverers : SF_vars(DeliverLock(d)) /\ WF_vars(DeliverSend(d))
  /\ \A c \in Closers : SF_vars(Close(c))
  /\ WF_vars(NextEvent)
  /\ WF_vars(NextEnd)
  /\ WF_vars(NextCancelled)

FairSpec == Spec /\ Fairness

--------------------------------------------------------------------------------
(* The fields of Source, where every goroutine is, and the channel's bound.*)
TypeOK ==
  /\ mu \in Deliverers \cup Closers \cup {NoOne}
  /\ ch \in Seq(Events)
  /\ Len(ch) <= Capacity
  /\ chClosed \in BOOLEAN
  /\ closed \in BOOLEAN
  /\ dpc \in [Deliverers -> {"idle", "locking", "sending"}]
  /\ calls \in [Deliverers -> 0 .. MaxEvents]
  /\ cpc \in [Closers -> {"idle", "locking", "returned"}]
  /\ consumer \in {"pulling", "ended", "stopped", "cancelled"}
  /\ ctxDone \in BOOLEAN
  /\ accepted \in Seq(Events)
  /\ received \in Seq(Events)
  /\ panicked \in BOOLEAN

(* No interleaving of Deliver and Close sends on the closed channel or     *)
(* closes it twice (nats/README.md: "a no-op that warns rather than        *)
(* panicking, because a subscription callback can still be in flight").    *)
NoPanic == ~panicked

(* Next reports ErrNoMoreEvents only when every accepted event has been    *)
(* handed out, in the order it was accepted ("Next drains any already-     *)
(* buffered events first").                                                *)
DrainedAtEnd == consumer = "ended" => received = accepted

(* The source is an event channel: what callbacks get into it comes out in *)
(* that order and once each, whoever closes it when.                       *)
Reading ==
  IF consumer = "pulling" THEN "open" ELSE IF consumer = "ended" THEN "ended" ELSE "left"

Channel == INSTANCE EventChannel WITH reading <- Reading

ImplementsChannel == Channel!Spec

(* What the consumer has seen of one deliverer is, at every moment, an     *)
(* initial run of that deliverer's calls: an event is never lost in the    *)
(* middle and never overtakes an earlier one of the same callback.         *)
NoHoles ==
  \A i \in DOMAIN received :
    LET d == received[i][1]
        n == received[i][2]
    IN  n > 1 => \E j \in 1 .. i - 1 : received[j] = <<d, n - 1>>

(* Once a Close has returned the source accepts nothing more, also from    *)
(* callbacks that were already waiting inside Deliver.                     *)
NothingAfterClose ==
  [][(\E c \in Closers : cpc[c] = "returned") => accepted' = accepted]_vars

(* Every Deliver and every Close returns unless the consumer has left: a   *)
(* full buffer delays a callback and who waits for mu behind it, it never  *)
(* blocks them for good.                                                   *)
Left == consumer \in {"stopped", "cancelled"}

CallsReturn ==
  /\ \A d \in Deliverers : dpc[d] # "idle" ~> (dpc[d] = "idle" \/ Left)
  /\ \A c \in Closers : cpc[c] = "locking" ~> (cpc[c] = "returned" \/ Left)

(* A call of Close returns, consumer or not: "Close stops the source"      *)
(* (nats/source.go).                                                       *)
CloseReturns == \A c \in Closers : cpc[c] = "locking" ~> cpc[c] = "returned"

(* After a call of Close the consumer's loop comes to an end.              *)
ConsumerEnds == (\E c \in Closers : cpc[c] # "idle") ~> consumer # "pulling"
================================================================================
