------------------------------- MODULE RoundTrip -------------------------------
(***************************************************************************)
(* A turn from one end to the other: what the Adapter emits is carried to  *)
(* Reassemble.  The transport keeps the order, may lose events (core NATS  *)
(* is at most once, nats/README.md) and may end at any event; whether with *)
(* an error or not only sets Error, which AnyFeed covers.                  *)
(*                                                                         *)
(* Nothing flows back from the reader to the writer, so the reader may as  *)
(* well start when the writer is done and take all it gets in one step.    *)
(* AnyFeed takes the loop event by event; its history (seen) is not kept   *)
(* here.                                                                   *)
(***************************************************************************)
EXTENDS Adapter, Reassembler

CONSTANT MaxLost   \* bound: events the transport loses of a turn it does not cut off

ASSUME LostAssumption == MaxLost \in Nat

VARIABLES kept   \* the positions of the wire that reached the reader

vars == <<avars, rvars, kept>>

Init == AInit /\ RInit /\ kept = {}

Produce == ANext /\ UNCHANGED <<rvars, kept>>

(* The loop of Reassemble over what a Source hands out before it ends, or  *)
(* before message_stop, which every producer sends last: the events of the *)
(* wire at these positions, in order.                                      *)
Reassembled(positions) ==
  Finalized(FoldLeftDomain(LAMBDA s, p : IF p \in positions THEN handleEvent(s, wire[p]) ELSE s,
                           NewReassembler, wire))

(* What the transport may let through: everything up to some event, or all *)
(* but any MaxLost events, any set of them when MaxLost is large (0 stands *)
(* for no event).                                                          *)
Deliveries ==
  {1 .. n : n \in 0 .. Len(wire)}
    \cup {DOMAIN wire \ Range(lost) : lost \in [1 .. MaxLost -> 0 .. Len(wire)]}

(* The transport carries the events of the wire at these positions, ends,  *)
(* and with it Reassemble.                                                 *)
Carry(positions) ==
  /\ run.phase = "over"
  /\ loop = "running"
  /\ r' \in Reassembled(positions)
  /\ loop' = "returned"
  /\ kept' = positions
  /\ UNCHANGED <<avars, seen>>

Next ==
  \/ Produce
  \/ \E positions \in Deliveries : Carry(positions)

Spec == Init /\ [][Next]_vars

--------------------------------------------------------------------------------
(* The turn as the model and the tools made it.                            *)
Join(f(_)) == FlattenSeq([i \in 1 .. Round |-> f(i)])

SaidText     == Join(LAMBDA i : said[i].text)
SaidThinking == Join(LAMBDA i : said[i].thinking)

Execution(t) ==
  [name |-> t.tag, id |-> t.id,
   params |-> IF t.input THEN Input(t) ELSE EmptyInput, result |-> Output(t)]

Executions(i) == [k \in DOMAIN said[i].calls |-> Execution(said[i].calls[k])]

Segment(kind, text) == IF text = EmptyText THEN <<>> ELSE <<[kind |-> kind, text |-> text]>>

SaidTimeline ==
  Join(LAMBDA i : Segment("thinking", said[i].thinking)
                    \o Segment("text", said[i].text)
                    \o [k \in DOMAIN Executions(i) |->
                          [kind |-> "tool", exec |-> Executions(i)[k]]])

Returned == loop = "returned"

(* Nothing failed, and what arrived is a beginning of the wire.            *)
Whole == ~run.failed /\ kept = 1 .. Cardinality(kept)

(* A turn that nothing failed in and that arrives complete is rebuilt      *)
(* exactly: text, thinking, calls, executions with their own results, and  *)
(* the timeline in the order things happened.                              *)
ExactWhenComplete ==
  Returned /\ Whole /\ kept = DOMAIN wire =>
    /\ r.text = SaidText
    /\ r.thinking = SaidThinking
    /\ r.toolNames = Join(LAMBDA i : [k \in DOMAIN said[i].calls |-> said[i].calls[k].tag])
    /\ Len(r.tools) = Len(r.toolNames)
    /\ r.executions = Join(Executions)
    /\ r.timeline = SaidTimeline

(* A turn cut off anywhere, in the middle of a block or between blocks,    *)
(* gives the beginning of the turn: all but the last timeline item are as  *)
(* said, and the last one is as said or the beginning of it.               *)
BeginsLike(item, whole) ==
  /\ item.kind = whole.kind
  /\ IF item.kind = "tool"
       THEN /\ item.exec.id = whole.exec.id /\ item.exec.name = whole.exec.name
            /\ item.exec.params = whole.exec.params
            /\ IsPrefix(item.exec.result, whole.exec.result)
       ELSE IsPrefix(item.text, whole.text)

CutIsPrefix ==
  Returned /\ Whole =>
    /\ Len(r.timeline) <= Len(SaidTimeline)
    /\ \A i \in 1 .. Len(r.timeline) - 1 : r.timeline[i] = SaidTimeline[i]
    /\ r.timeline # <<>> => BeginsLike(Last(r.timeline), SaidTimeline[Len(r.timeline)])

(* Whatever fails, is lost or is cut off, no text is repeated, reordered   *)
(* or taken from the thinking, and the other way round.                    *)
Increasing(q) == \A i, j \in DOMAIN q : i < j => q[i] < q[j]

NoGarbling ==
  Returned =>
    /\ Increasing(r.text) /\ ToSet(r.text) \subseteq ToSet(SaidText)
    /\ Increasing(r.thinking) /\ ToSet(r.thinking) \subseteq ToSet(SaidThinking)

(* Whatever fails, is lost or is cut off, a result is attached only to the *)
(* call that produced it, at most once.                                    *)
ResultsMatchCalls ==
  /\ \A i \in DOMAIN r.executions :
       LET x == r.executions[i]
       IN  /\ x.result = EmptyText \/ x.result = <<x.name>>
           /\ x.params = EmptyInput \/ x.params = <<x.name>>
  /\ \A i, j \in DOMAIN r.executions :
       i # j => r.executions[i].name # r.executions[j].name
================================================================================
