----------------------------- MODULE AdapterProofs -----------------------------
(***************************************************************************)
(* Theorems about Adapter: the numbering of the content blocks on the wire *)
(* for any number of rounds, deltas and parallel tools, and whatever the   *)
(* sinks, the tools and the provider do.                                   *)
(***************************************************************************)
EXTENDS Adapter, TLAPS

(* What the state holds.                                                   *)
Tags == Nat \X Nat

ToolCalls == [id : Tags, tag : Tags, input : BOOLEAN]

Streamers == [index : Nat \cup {-1}, started : BOOLEAN, text : Seq(Nat)]

RoundStreams == [thinking : Streamers, text : Streamers, opened : BOOLEAN]

Adapters ==
  [blockIndex : Nat, rounds : Nat, toolBase : Nat, toolCallCount : Nat,
   round : RoundStreams]

Phases == {"preamble", "round", "streaming", "calling", "results",
           "finished", "aborted", "over"}

Runs == [phase : Phases, calls : Seq(ToolCalls), next : Nat, failed : BOOLEAN]

Rounds == [deltas : Nat, thinking : Seq(Nat), text : Seq(Nat), calls : Seq(ToolCalls)]

(* What goes over the wire.                                                *)
Kinds == {"text", "thinking", "tool_use", "tool_result"}

WireEvents ==
       [type : {"message_start"}, stream : {<<"stream">>}]
  \cup [type : {"ping", "message_stop"}]
  \cup [type : {"message_delta"}, reason : StopReasons]
  \cup [type : {"content_block_start"}, index : Nat, block : {"text", "thinking"}]
  \cup [type : {"content_block_start"}, index : Nat, block : {"tool_use"},
        id : Tags, name : Tags]
  \cup [type : {"content_block_start"}, index : Nat, block : {"tool_result"}, id : Tags]
  \cup [type : {"content_block_delta"}, index : Nat, block : Kinds,
        text : Seq(Nat) \cup Seq(Tags)]
  \cup [type : {"content_block_stop"}, index : Nat]

InCall == [ad : Adapters, wire : Seq(WireEvents), left : Nat, leak : BOOLEAN, ok : BOOLEAN]

--------------------------------------------------------------------------------
(* The parts of the invariant, of a wire w.                                *)
StartsIn(w)    == {p \in DOMAIN w : IsStart(w[p])}
StartsOf(w, i) == {p \in DOMAIN w : IsStart(w[p]) /\ w[p].index = i}
StopsOf(w, i)  == {p \in DOMAIN w : IsStop(w[p]) /\ w[p].index = i}

IsBlock(e) == IsStart(e) \/ IsDelta(e) \/ IsStop(e)

Ascending(w) == \A p, q \in StartsIn(w) : p < q => w[p].index < w[q].index

Housed(w) ==
  \A p \in DOMAIN w :
    IsDelta(w[p]) \/ IsStop(w[p]) =>
      /\ \E q \in StartsOf(w, w[p].index) :
           /\ q < p
           /\ IsDelta(w[p]) => w[q].block = w[p].block
      /\ \A q \in StopsOf(w, w[p].index) : q >= p

Orderly(w) == Ascending(w) /\ Housed(w)

(* A block starts only when those before it have stopped.                  *)
Serial(w) ==
  \A p, q \in StartsIn(w) : p < q => \E s \in StopsOf(w, w[p].index) : s < q

(* No block at b or above; every block below b came and went once; the     *)
(* block b is open, is of this kind and is the last one.                   *)
Below(w, b) == \A p \in DOMAIN w : IsBlock(w[p]) => w[p].index < b

Solid(w, b) ==
  \A i \in 0 .. b - 1 : \E p, q \in DOMAIN w : StartsOf(w, i) = {p} /\ StopsOf(w, i) = {q}

OpenAt(w, b, kind) ==
  /\ Below(w, b + 1)
  /\ StopsOf(w, b) = {}
  /\ \E p \in DOMAIN w : StartsOf(w, b) = {p} /\ w[p].block = kind

(* The tool blocks: every use names a call of the rounds up to m, and      *)
(* every result answers a use, by what was said in s.                      *)
Named(w, m) ==
  \A p \in StartsIn(w) : w[p].block = "tool_use" => w[p].name[1] \in 1 .. m

Answering(w, s) ==
  \A p \in StartsIn(w) :
    w[p].block = "tool_result" =>
      \E q \in StartsIn(w) :
        /\ q < p
        /\ w[q].block = "tool_use" /\ w[q].id = w[p].id
        /\ w[p].index - w[q].index = Len(s[w[q].name[1]].calls)
        /\ \E t \in StopsOf(w, w[q].index) : t < p

Booked(w, s, m) == Named(w, m) /\ Answering(w, s)

(* The use of a call stands complete at its slot.                          *)
UsedAt(w, i, t) ==
  \E q \in StartsIn(w) :
    /\ w[q].block = "tool_use" /\ w[q].index = i /\ w[q].id = t.id /\ w[q].name = t.tag
    /\ StopsOf(w, i) # {}

(* Where a streamer and the wire stand to each other.                      *)
BlockAt(w, x, kind) ==
  /\ x.index \in Nat
  /\ Solid(w, x.index)
  /\ IF x.started THEN OpenAt(w, x.index, kind) ELSE Below(w, x.index)

Midway(a, w) ==
  IF a.round.opened
    THEN ~a.round.thinking.started /\ BlockAt(w, a.round.text, "text")
    ELSE BlockAt(w, a.round.thinking, "thinking")

Between(w, b) == Below(w, b) /\ Solid(w, b)

--------------------------------------------------------------------------------
(* The inductive invariant.                                                *)
ATypes ==
  /\ ad \in Adapters /\ ad.toolCallCount <= MaxTools /\ ad.rounds <= MaxRounds
  /\ wire \in Seq(WireEvents)
  /\ run \in Runs
  /\ said \in Seq(Rounds) /\ Len(said) <= MaxRounds

NamedUpTo == IF run.phase = "streaming" THEN Len(said) - 1 ELSE Len(said)

Resting ==
  run.phase \in {"preamble", "round", "finished"} =>
    ~run.failed /\ Between(wire, ad.blockIndex)

Streaming ==
  run.phase = "streaming" => ~run.failed /\ Midway(ad, wire) /\ Len(said) > 0

Tooling ==
  run.phase \in {"calling", "results"} =>
    /\ Len(said) > 0 /\ said[Len(said)].calls = run.calls
    /\ Len(run.calls) = ad.toolCallCount /\ run.next \in 1 .. ad.toolCallCount
    /\ \A k \in 1 .. ad.toolCallCount : run.calls[k].tag = <<Len(said), k>>

Calling ==
  run.phase = "calling" =>
    /\ ~run.failed
    /\ Between(wire, ad.toolBase + (run.next - 1))
    /\ \A k \in 1 .. run.next - 1 : UsedAt(wire, ad.toolBase + (k - 1), run.calls[k])

Resulting ==
  run.phase = "results" =>
    /\ Below(wire, ad.toolBase + ad.toolCallCount + (run.next - 1))
    /\ ~run.failed => Solid(wire, ad.toolBase + ad.toolCallCount + (run.next - 1))
    /\ \A k \in 1 .. ad.toolCallCount : UsedAt(wire, ad.toolBase + (k - 1), run.calls[k])

AInv ==
  /\ ATypes
  /\ Orderly(wire) /\ (~run.failed => Serial(wire))
  /\ Booked(wire, said, NamedUpTo)
  /\ Resting /\ Streaming /\ Tooling /\ Calling /\ Resulting

--------------------------------------------------------------------------------
(* One event more.                                                         *)
LEMMA EventShape ==
  ASSUME NEW e \in WireEvents
  PROVE  /\ IsWireEvent(e)
         /\ IsBlock(e) => e.index \in Nat
         /\ IsStart(e) => ~IsDelta(e) /\ ~IsStop(e)
         /\ IsDelta(e) => ~IsStart(e) /\ ~IsStop(e)
         /\ IsStop(e) => ~IsStart(e) /\ ~IsDelta(e)
<1> USE DEF IsWireEvent, IsBlock, IsStart, IsDelta, IsStop
<1>1. CASE e \in [type : {"message_start"}, stream : {<<"stream">>}]
  BY <1>1
<1>2. CASE e \in [type : {"ping", "message_stop"}]
  BY <1>2
<1>3. CASE e \in [type : {"message_delta"}, reason : StopReasons]
  BY <1>3
<1>4. CASE e \in [type : {"content_block_start"}, index : Nat, block : {"text", "thinking"}]
  BY <1>4
<1>5. CASE e \in [type : {"content_block_start"}, index : Nat, block : {"tool_use"},
                  id : Tags, name : Tags]
  BY <1>5
<1>6. CASE e \in [type : {"content_block_start"}, index : Nat, block : {"tool_result"}, id : Tags]
  BY <1>6
<1>7. CASE e \in [type : {"content_block_delta"}, index : Nat, block : Kinds,
                  text : Seq(Nat) \cup Seq(Tags)]
  BY <1>7 DEF Kinds
<1>8. CASE e \in [type : {"content_block_stop"}, index : Nat]
  BY <1>8
<1> QED
  BY <1>1, <1>2, <1>3, <1>4, <1>5, <1>6, <1>7, <1>8 DEF WireEvents

LEMMA Extended ==
  ASSUME NEW w \in Seq(WireEvents), NEW e \in WireEvents,
         NEW v, v = Append(w, e), NEW n, n = Len(w) + 1
  PROVE  /\ v \in Seq(WireEvents) /\ DOMAIN v = DOMAIN w \cup {n}
         /\ DOMAIN w \subseteq Nat /\ n \in Nat /\ n \notin DOMAIN w
         /\ v[n] = e /\ \A p \in DOMAIN w : v[p] = w[p] /\ p < n
         /\ \A p \in DOMAIN w : w[p] \in WireEvents
OBVIOUS

(* A block that starts at the first free index.                            *)
LEMMA StartStep ==
  ASSUME NEW w \in Seq(WireEvents), NEW e \in WireEvents, NEW v, v = Append(w, e),
         IsStart(e), Orderly(w), Below(w, e.index)
  PROVE  /\ v \in Seq(WireEvents) /\ Orderly(v) /\ OpenAt(v, e.index, e.block)
         /\ Solid(w, e.index) => Solid(v, e.index)
         /\ Serial(w) /\ Solid(w, e.index) => Serial(v)
<1>1. PICK n : n = Len(w) + 1
  OBVIOUS
<1>2. PICK b \in Nat : b = e.index
  BY EventShape DEF IsBlock
<1>3. /\ v \in Seq(WireEvents) /\ DOMAIN v = DOMAIN w \cup {n}
      /\ DOMAIN w \subseteq Nat /\ n \in Nat /\ n \notin DOMAIN w
      /\ v[n] = e /\ \A p \in DOMAIN w : v[p] = w[p] /\ p < n
      /\ \A p \in DOMAIN w : w[p] \in WireEvents
  BY <1>1, Extended
<1>4. /\ StartsIn(v) = StartsIn(w) \cup {n}
      /\ \A i : StartsOf(v, i) = StartsOf(w, i) \cup (IF i = b THEN {n} ELSE {})
      /\ \A i : StopsOf(v, i) = StopsOf(w, i)
  <2>1. ~IsStop(e)
    BY EventShape
  <2> QED
    BY <1>2, <1>3, <2>1 DEF StartsIn, StartsOf, StopsOf
<1>5. \A p \in DOMAIN w : IsBlock(w[p]) => w[p].index \in Nat /\ w[p].index < b
  BY <1>2, <1>3, EventShape DEF Below
<1>6. Ascending(v)
  <2> SUFFICES ASSUME NEW p \in StartsIn(v), NEW q \in StartsIn(v), p < q
               PROVE  v[p].index < v[q].index
    BY DEF Ascending
  <2>1. CASE q = n
    <3>1. p \in StartsIn(w) /\ p \in DOMAIN w
      BY <1>3, <1>4, <2>1 DEF StartsIn
    <3> QED
      BY <1>2, <1>3, <1>5, <2>1, <3>1 DEF StartsIn, IsBlock
  <2>2. CASE q # n
    <3>1. q \in StartsIn(w) /\ q \in DOMAIN w /\ p # n /\ p \in StartsIn(w) /\ p \in DOMAIN w
      BY <1>3, <1>4, <2>2 DEF StartsIn
    <3> QED
      BY <1>3, <3>1 DEF Orderly, Ascending
  <2> QED
    BY <2>1, <2>2
<1>7. Housed(v)
  <2> SUFFICES ASSUME NEW p \in DOMAIN v, IsDelta(v[p]) \/ IsStop(v[p])
               PROVE  /\ \E q \in StartsOf(v, v[p].index) :
                           /\ q < p
                           /\ IsDelta(v[p]) => v[q].block = v[p].block
                      /\ \A q \in StopsOf(v, v[p].index) : q >= p
    BY DEF Housed
  <2>1. p \in DOMAIN w /\ v[p] = w[p]
    BY <1>3, EventShape
  <2>2. PICK q \in StartsOf(w, w[p].index) : q < p /\ (IsDelta(w[p]) => w[q].block = w[p].block)
    BY <2>1 DEF Orderly, Housed
  <2>3. q \in StartsOf(v, v[p].index) /\ v[q] = w[q]
    BY <1>3, <1>4, <2>1, <2>2 DEF StartsOf
  <2>4. \A t \in StopsOf(w, w[p].index) : t >= p
    BY <2>1 DEF Orderly, Housed
  <2> QED
    BY <1>4, <2>1, <2>2, <2>3, <2>4
<1>8. OpenAt(v, b, e.block)
  <2>1. Below(v, b + 1)
    BY <1>2, <1>3, <1>5 DEF Below
  <2>2. StopsOf(w, b) = {} /\ StartsOf(w, b) = {}
    BY <1>5 DEF StopsOf, StartsOf, IsBlock
  <2>3. StartsOf(v, b) = {n} /\ StopsOf(v, b) = {}
    BY <1>4, <2>2
  <2> QED
    BY <1>3, <2>1, <2>2, <2>3 DEF OpenAt
<1>9. ASSUME Solid(w, b)
      PROVE  Solid(v, b)
  <2> SUFFICES ASSUME NEW i \in 0 .. b - 1
               PROVE  \E p, q \in DOMAIN v : StartsOf(v, i) = {p} /\ StopsOf(v, i) = {q}
    BY DEF Solid
  <2>1. PICK p \in DOMAIN w, q \in DOMAIN w : StartsOf(w, i) = {p} /\ StopsOf(w, i) = {q}
    BY <1>9 DEF Solid
  <2>2. StartsOf(v, i) = {p} /\ StopsOf(v, i) = {q}
    BY <1>4, <2>1
  <2> QED
    BY <1>3, <2>1, <2>2
<1>10. ASSUME Serial(w), Solid(w, b)
       PROVE  Serial(v)
  <2> SUFFICES ASSUME NEW p \in StartsIn(v), NEW q \in StartsIn(v), p < q
               PROVE  \E t \in StopsOf(v, v[p].index) : t < q
    BY DEF Serial
  <2>1. CASE q = n
    <3>1. p \in StartsIn(w) /\ p \in DOMAIN w /\ v[p] = w[p]
      BY <1>3, <1>4, <2>1 DEF StartsIn
    <3>2. w[p].index \in 0 .. b - 1
      BY <1>5, <3>1 DEF StartsIn, IsBlock
    <3>3. PICK t \in DOMAIN w : StopsOf(w, w[p].index) = {t}
      BY <1>10, <3>2 DEF Solid
    <3> QED
      BY <1>3, <1>4, <2>1, <3>1, <3>3
  <2>2. CASE q # n
    <3>1. /\ q \in StartsIn(w) /\ q \in DOMAIN w /\ p \in StartsIn(w) /\ p \in DOMAIN w
          /\ v[p] = w[p]
      BY <1>3, <1>4, <2>2 DEF StartsIn
    <3> QED
      BY <1>4, <1>10, <3>1 DEF Serial
  <2> QED
    BY <2>1, <2>2
<1> QED
  BY <1>2, <1>3, <1>6, <1>7, <1>8, <1>9, <1>10 DEF Orderly

(* An event that starts and stops nothing, and is not a stray delta.       *)
LEMMA QuietStep ==
  ASSUME NEW w \in Seq(WireEvents), NEW e \in WireEvents, NEW v, v = Append(w, e),
         ~IsStart(e), ~IsStop(e), Orderly(w),
         IsDelta(e) => OpenAt(w, e.index, e.block)
  PROVE  /\ v \in Seq(WireEvents) /\ Orderly(v) /\ (Serial(w) => Serial(v))
         /\ \A b : Solid(w, b) => Solid(v, b)
         /\ ~IsDelta(e) => \A b : Below(w, b) => Below(v, b)
         /\ IsDelta(e) => OpenAt(v, e.index, e.block)
<1>1. PICK n : n = Len(w) + 1
  OBVIOUS
<1>2. /\ v \in Seq(WireEvents) /\ DOMAIN v = DOMAIN w \cup {n}
      /\ DOMAIN w \subseteq Nat /\ n \in Nat /\ n \notin DOMAIN w
      /\ v[n] = e /\ \A p \in DOMAIN w : v[p] = w[p] /\ p < n
      /\ \A p \in DOMAIN w : w[p] \in WireEvents
  BY <1>1, Extended
<1>3. /\ StartsIn(v) = StartsIn(w)
      /\ \A i : StartsOf(v, i) = StartsOf(w, i)
      /\ \A i : StopsOf(v, i) = StopsOf(w, i)
  BY <1>2 DEF StartsIn, StartsOf, StopsOf
<1>4. Ascending(v)
  <2> SUFFICES ASSUME NEW p \in StartsIn(v), NEW q \in StartsIn(v), p < q
               PROVE  v[p].index < v[q].index
    BY DEF Ascending
  <2>1. q \in StartsIn(w) /\ q \in DOMAIN w /\ p \in StartsIn(w) /\ p \in DOMAIN w
    BY <1>3 DEF StartsIn
  <2> QED
    BY <1>2, <2>1 DEF Orderly, Ascending
<1>5. Housed(v)
  <2> SUFFICES ASSUME NEW p \in DOMAIN v, IsDelta(v[p]) \/ IsStop(v[p])
               PROVE  /\ \E q \in StartsOf(v, v[p].index) :
                           /\ q < p
                           /\ IsDelta(v[p]) => v[q].block = v[p].block
                      /\ \A q \in StopsOf(v, v[p].index) : q >= p
    BY DEF Housed
  <2>1. CASE p \in DOMAIN w
    <3>1. v[p] = w[p]
      BY <1>2, <2>1
    <3>2. PICK q \in StartsOf(w, w[p].index) : q < p /\ (IsDelta(w[p]) => w[q].block = w[p].block)
      BY <2>1, <3>1 DEF Orderly, Housed
    <3>3. q \in StartsOf(v, v[p].index) /\ v[q] = w[q]
      BY <1>2, <1>3, <3>1, <3>2 DEF StartsOf
    <3>4. \A t \in StopsOf(w, w[p].index) : t >= p
      BY <2>1, <3>1 DEF Orderly, Housed
    <3> QED
      BY <1>3, <3>1, <3>2, <3>3, <3>4
  <2>2. CASE p = n
    <3>1. v[p] = e /\ IsDelta(e) /\ StopsOf(w, e.index) = {}
      BY <1>2, <2>2 DEF OpenAt
    <3>2. PICK q \in DOMAIN w : StartsOf(w, e.index) = {q} /\ w[q].block = e.block
      BY <3>1 DEF OpenAt
    <3> QED
      BY <1>2, <1>3, <2>2, <3>1, <3>2
  <2> QED
    BY <1>2, <2>1, <2>2
<1>6. ASSUME Serial(w)
      PROVE  Serial(v)
  <2> SUFFICES ASSUME NEW p \in StartsIn(v), NEW q \in StartsIn(v), p < q
               PROVE  \E t \in StopsOf(v, v[p].index) : t < q
    BY DEF Serial
  <2>1. q \in StartsIn(w) /\ p \in StartsIn(w) /\ v[p] = w[p]
    BY <1>2, <1>3 DEF StartsIn
  <2> QED
    BY <1>3, <1>6, <2>1 DEF Serial
<1>7. ASSUME NEW b, Solid(w, b)
      PROVE  Solid(v, b)
  BY <1>2, <1>3, <1>7 DEF Solid
<1>8. ASSUME ~IsDelta(e), NEW b, Below(w, b)
      PROVE  Below(v, b)
  BY <1>2, <1>8 DEF Below, IsBlock
<1>9. ASSUME IsDelta(e)
      PROVE  OpenAt(v, e.index, e.block)
  <2>1. PICK b \in Nat : b = e.index
    BY <1>9, EventShape DEF IsBlock
  <2>2. Below(v, b + 1)
    BY <1>2, <1>9, <2>1 DEF OpenAt, Below
  <2>3. PICK q \in DOMAIN w : StartsOf(w, b) = {q} /\ w[q].block = e.block
    BY <1>9, <2>1 DEF OpenAt
  <2>4. StopsOf(v, b) = {} /\ StartsOf(v, b) = {q} /\ q \in DOMAIN v /\ v[q].block = e.block
    BY <1>2, <1>3, <1>9, <2>1, <2>3 DEF OpenAt
  <2> QED
    BY <2>1, <2>2, <2>4 DEF OpenAt
<1> QED
  BY <1>2, <1>4, <1>5, <1>6, <1>7, <1>8, <1>9 DEF Orderly

(* A stop of the open block.                                               *)
LEMMA StopStep ==
  ASSUME NEW w \in Seq(WireEvents), NEW e \in WireEvents, NEW v, v = Append(w, e),
         IsStop(e), Orderly(w), NEW kind, OpenAt(w, e.index, kind)
  PROVE  /\ v \in Seq(WireEvents) /\ Orderly(v) /\ (Serial(w) => Serial(v))
         /\ Below(v, e.index + 1)
         /\ Solid(w, e.index) => Solid(v, e.index + 1)
<1>1. PICK n : n = Len(w) + 1
  OBVIOUS
<1>2. /\ v \in Seq(WireEvents) /\ DOMAIN v = DOMAIN w \cup {n}
      /\ DOMAIN w \subseteq Nat /\ n \in Nat /\ n \notin DOMAIN w
      /\ v[n] = e /\ \A p \in DOMAIN w : v[p] = w[p] /\ p < n
      /\ \A p \in DOMAIN w : w[p] \in WireEvents
  BY <1>1, Extended
<1>3. PICK b \in Nat : b = e.index
  BY EventShape DEF IsBlock
<1>4. ~IsStart(e) /\ ~IsDelta(e)
  BY EventShape
<1>5. /\ StartsIn(v) = StartsIn(w)
      /\ \A i : StartsOf(v, i) = StartsOf(w, i)
      /\ \A i : StopsOf(v, i) = StopsOf(w, i) \cup (IF i = b THEN {n} ELSE {})
  BY <1>2, <1>3, <1>4 DEF StartsIn, StartsOf, StopsOf
<1>6. PICK q \in DOMAIN w : StartsOf(w, b) = {q} /\ StopsOf(w, b) = {}
  BY <1>3 DEF OpenAt
<1>7. Ascending(v)
  <2> SUFFICES ASSUME NEW p \in StartsIn(v), NEW t \in StartsIn(v), p < t
               PROVE  v[p].index < v[t].index
    BY DEF Ascending
  <2>1. t \in StartsIn(w) /\ t \in DOMAIN w /\ p \in StartsIn(w) /\ p \in DOMAIN w
    BY <1>5 DEF StartsIn
  <2> QED
    BY <1>2, <2>1 DEF Orderly, Ascending
<1>8. Housed(v)
  <2> SUFFICES ASSUME NEW p \in DOMAIN v, IsDelta(v[p]) \/ IsStop(v[p])
               PROVE  /\ \E t \in StartsOf(v, v[p].index) :
                           /\ t < p
                           /\ IsDelta(v[p]) => v[t].block = v[p].block
                      /\ \A t \in StopsOf(v, v[p].index) : t >= p
    BY DEF Housed
  <2>1. CASE p \in DOMAIN w
    <3>1. v[p] = w[p]
      BY <1>2, <2>1
    <3>2. PICK t \in StartsOf(w, w[p].index) : t < p /\ (IsDelta(w[p]) => w[t].block = w[p].block)
      BY <2>1, <3>1 DEF Orderly, Housed
    <3>3. t \in StartsOf(v, v[p].index) /\ v[t] = w[t]
      BY <1>2, <1>5, <3>1, <3>2 DEF StartsOf
    <3>4. \A u \in StopsOf(w, w[p].index) : u >= p
      BY <2>1, <3>1 DEF Orderly, Housed
    <3>5. n >= p
      BY <1>2, <2>1
    <3>6. \A u \in StopsOf(v, v[p].index) : u >= p
      BY <1>5, <3>1, <3>4, <3>5
    <3> QED
      BY <3>1, <3>2, <3>3, <3>6
  <2>2. CASE p = n
    <3>1. v[p] = e /\ StopsOf(v, e.index) = {n} /\ StartsOf(v, e.index) = {q}
      BY <1>2, <1>3, <1>5, <1>6, <2>2
    <3> QED
      BY <1>2, <1>4, <1>6, <2>2, <3>1
  <2> QED
    BY <1>2, <2>1, <2>2
<1>9. ASSUME Serial(w)
      PROVE  Serial(v)
  <2> SUFFICES ASSUME NEW p \in StartsIn(v), NEW t \in StartsIn(v), p < t
               PROVE  \E u \in StopsOf(v, v[p].index) : u < t
    BY DEF Serial
  <2>1. t \in StartsIn(w) /\ p \in StartsIn(w) /\ v[p] = w[p]
    BY <1>2, <1>5 DEF StartsIn
  <2>2. PICK u \in StopsOf(w, w[p].index) : u < t
    BY <1>9, <2>1 DEF Serial
  <2> QED
    BY <1>5, <2>1, <2>2
<1>10. Below(v, b + 1)
  BY <1>2, <1>3 DEF OpenAt, Below
<1>11. ASSUME Solid(w, b)
       PROVE  Solid(v, b + 1)
  <2> SUFFICES ASSUME NEW i \in 0 .. (b + 1) - 1
               PROVE  \E p, t \in DOMAIN v : StartsOf(v, i) = {p} /\ StopsOf(v, i) = {t}
    BY DEF Solid
  <2>1. CASE i = b
    <3>1. StartsOf(v, i) = {q} /\ StopsOf(v, i) = {n}
      BY <1>5, <1>6, <2>1
    <3> QED
      BY <1>2, <3>1
  <2>2. CASE i # b
    <3>1. i \in 0 .. b - 1
      BY <2>2
    <3>2. PICK p \in DOMAIN w, t \in DOMAIN w : StartsOf(w, i) = {p} /\ StopsOf(w, i) = {t}
      BY <1>11, <3>1 DEF Solid
    <3>3. StartsOf(v, i) = {p} /\ StopsOf(v, i) = {t}
      BY <1>5, <2>2, <3>2
    <3> QED
      BY <1>2, <3>2, <3>3
  <2> QED
    BY <2>1, <2>2
<1> QED
  BY <1>2, <1>3, <1>7, <1>8, <1>9, <1>10, <1>11 DEF Orderly

(* The books of tool blocks: uses stay complete, and an event that is not  *)
(* the start of one changes nothing.                                       *)
LEMMA UsedStep ==
  ASSUME NEW w \in Seq(WireEvents), NEW e \in WireEvents, NEW v, v = Append(w, e),
         NEW i, NEW t, UsedAt(w, i, t)
  PROVE  UsedAt(v, i, t)
<1>1. PICK n : n = Len(w) + 1
  OBVIOUS
<1>2. /\ v \in Seq(WireEvents) /\ DOMAIN v = DOMAIN w \cup {n}
      /\ DOMAIN w \subseteq Nat /\ n \in Nat /\ n \notin DOMAIN w
      /\ v[n] = e /\ \A p \in DOMAIN w : v[p] = w[p] /\ p < n
      /\ \A p \in DOMAIN w : w[p] \in WireEvents
  BY <1>1, Extended
<1>3. PICK q \in StartsIn(w) :
        /\ w[q].block = "tool_use" /\ w[q].index = i /\ w[q].id = t.id /\ w[q].name = t.tag
        /\ StopsOf(w, i) # {}
  BY DEF UsedAt
<1>4. q \in StartsIn(v) /\ v[q] = w[q] /\ StopsOf(v, i) # {}
  BY <1>2, <1>3 DEF StartsIn, StopsOf
<1> QED
  BY <1>3, <1>4 DEF UsedAt

LEMMA BookStep ==
  ASSUME NEW w \in Seq(WireEvents), NEW e \in WireEvents, NEW v, v = Append(w, e),
         NEW s, NEW m, Booked(w, s, m),
         IsStart(e) => e.block \notin {"tool_use", "tool_result"}
  PROVE  Booked(v, s, m)
<1>1. PICK n : n = Len(w) + 1
  OBVIOUS
<1>2. /\ v \in Seq(WireEvents) /\ DOMAIN v = DOMAIN w \cup {n}
      /\ DOMAIN w \subseteq Nat /\ n \in Nat /\ n \notin DOMAIN w
      /\ v[n] = e /\ \A p \in DOMAIN w : v[p] = w[p] /\ p < n
      /\ \A p \in DOMAIN w : w[p] \in WireEvents
  BY <1>1, Extended
<1>3. ASSUME NEW p \in StartsIn(v), v[p].block \in {"tool_use", "tool_result"}
      PROVE  p \in StartsIn(w) /\ v[p] = w[p]
  BY <1>2, <1>3 DEF StartsIn
<1>4. Named(v, m)
  BY <1>3 DEF Booked, Named
<1>5. ASSUME NEW p \in StartsIn(v), v[p].block = "tool_result"
      PROVE  \E q \in StartsIn(v) :
               /\ q < p
               /\ v[q].block = "tool_use" /\ v[q].id = v[p].id
               /\ v[p].index - v[q].index = Len(s[v[q].name[1]].calls)
               /\ \E t \in StopsOf(v, v[q].index) : t < p
  <2>1. p \in StartsIn(w) /\ v[p] = w[p]
    BY <1>3, <1>5
  <2>2. PICK q \in StartsIn(w) :
          /\ q < p
          /\ w[q].block = "tool_use" /\ w[q].id = w[p].id
          /\ w[p].index - w[q].index = Len(s[w[q].name[1]].calls)
          /\ \E t \in StopsOf(w, w[q].index) : t < p
    BY <1>5, <2>1 DEF Booked, Answering
  <2>3. q \in StartsIn(v) /\ v[q] = w[q] /\ StopsOf(w, w[q].index) \subseteq StopsOf(v, v[q].index)
    BY <1>2, <2>2 DEF StartsIn, StopsOf
  <2> QED
    BY <2>1, <2>2, <2>3
<1> QED
  BY <1>4, <1>5 DEF Booked, Answering

--------------------------------------------------------------------------------
(* A callback, event by event.                                             *)
LEMMA Emitted ==
  ASSUME NEW c \in InCall, NEW e \in WireEvents, NEW d, d = Emit(c, e)
  PROVE  /\ d \in InCall /\ d.ad = c.ad
         /\ ~c.ok => d = c
         /\ d.ok => c.ok /\ d.wire = Append(c.wire, e)
         /\ d.wire = c.wire \/ d.wire = Append(c.wire, e)
<1>1. c.left \in Nat /\ c.ok \in BOOLEAN /\ c.leak \in BOOLEAN /\ c.wire \in Seq(WireEvents)
  BY DEF InCall
<1>2. PICK v \in Seq(WireEvents) : v = Append(c.wire, e)
  <2>1. Append(c.wire, e) \in Seq(WireEvents)
    BY <1>1
  <2> QED
    BY <2>1
<1>3. CASE ~c.ok
  BY <1>3 DEF Emit
<1>4. CASE c.ok /\ c.left > 0
  <2>1. d = [c EXCEPT !.wire = v, !.left = c.left - 1]
    BY <1>1, <1>2, <1>4 DEF Emit
  <2>2. c.left - 1 \in Nat
    BY <1>1, <1>4
  <2> QED
    BY <1>2, <1>4, <2>1, <2>2 DEF InCall
<1>5. CASE c.ok /\ c.left = 0
  <2>1. d = [c EXCEPT !.ok = FALSE, !.wire = IF c.leak THEN v ELSE c.wire]
    BY <1>1, <1>2, <1>5 DEF Emit
  <2> QED
    BY <1>1, <1>2, <1>5, <2>1 DEF InCall
<1> QED
  BY <1>1, <1>3, <1>4, <1>5

LEMMA BlockEvents ==
  ASSUME NEW i \in Nat, NEW f \in {"thinking", "text"}, NEW x \in Seq(Nat)
  PROVE  /\ BlockStart(i, f) \in WireEvents /\ IsStart(BlockStart(i, f))
         /\ BlockStart(i, f).index = i /\ BlockStart(i, f).block = f
         /\ BlockDelta(i, f, x) \in WireEvents /\ IsDelta(BlockDelta(i, f, x))
         /\ ~IsStart(BlockDelta(i, f, x)) /\ ~IsStop(BlockDelta(i, f, x))
         /\ BlockDelta(i, f, x).index = i /\ BlockDelta(i, f, x).block = f
BY DEF BlockStart, BlockDelta, WireEvents, IsStart, IsDelta, IsStop, Kinds

LEMMA StopEvent ==
  ASSUME NEW i \in Nat
  PROVE  /\ BlockStop(i) \in WireEvents /\ IsStop(BlockStop(i))
         /\ ~IsStart(BlockStop(i)) /\ BlockStop(i).index = i
BY DEF BlockStop, WireEvents, IsStart, IsStop

(* What a callback may change of one streamer.                             *)
Streamed(c, d, f) ==
  /\ d \in InCall /\ d.wire = c.wire /\ d.ok = c.ok /\ d.left = c.left /\ d.leak = c.leak
  /\ d.ad.blockIndex = c.ad.blockIndex /\ d.ad.rounds = c.ad.rounds
  /\ d.ad.toolBase = c.ad.toolBase /\ d.ad.toolCallCount = c.ad.toolCallCount
  /\ d.ad.round.opened = c.ad.round.opened
  /\ f # "thinking" => d.ad.round.thinking = c.ad.round.thinking
  /\ f # "text" => d.ad.round.text = c.ad.round.text

Put(c, f, z) == [c EXCEPT !.ad = [c.ad EXCEPT !.round = [c.ad.round EXCEPT ![f] = z]]]

LEMMA StreamerPut ==
  ASSUME NEW c \in InCall, NEW f \in {"thinking", "text"}, NEW z \in Streamers,
         NEW d, d = Put(c, f, z)
  PROVE  Streamed(c, d, f) /\ d.ad.round[f] = z
<1>1. c.ad \in Adapters /\ c.ad.round \in RoundStreams
  BY DEF InCall, Adapters
<1>2. PICK rs \in RoundStreams : rs = [c.ad.round EXCEPT ![f] = z]
  BY <1>1 DEF RoundStreams
<1>3. /\ rs[f] = z /\ rs.opened = c.ad.round.opened
      /\ f # "thinking" => rs.thinking = c.ad.round.thinking
      /\ f # "text" => rs.text = c.ad.round.text
  BY <1>1, <1>2 DEF RoundStreams
<1>4. PICK a \in Adapters : a = [c.ad EXCEPT !.round = rs]
  BY <1>1, <1>2 DEF Adapters
<1>5. /\ a.round = rs /\ a.blockIndex = c.ad.blockIndex /\ a.rounds = c.ad.rounds
      /\ a.toolBase = c.ad.toolBase /\ a.toolCallCount = c.ad.toolCallCount
  BY <1>1, <1>4 DEF Adapters
<1>6. d = [c EXCEPT !.ad = a]
  BY <1>2, <1>4 DEF Put
<1>7. /\ d \in InCall /\ d.ad = a /\ d.wire = c.wire /\ d.ok = c.ok
      /\ d.left = c.left /\ d.leak = c.leak
  BY <1>4, <1>6 DEF InCall
<1> QED
  BY <1>3, <1>5, <1>7 DEF Streamed

WithText(c, f, x) == [c EXCEPT !.ad.round[f].text = @ \o x]
WithStart(c, f)   == [c EXCEPT !.ad.round[f].started = TRUE]
WithStop(c, f)    == [c EXCEPT !.ad.round[f].started = FALSE, !.ad.round[f].index = @ + 1]

LEMMA TextAdded ==
  ASSUME NEW c \in InCall, NEW f \in {"thinking", "text"}, NEW x \in Seq(Nat),
         NEW d, d = WithText(c, f, x)
  PROVE  /\ Streamed(c, d, f)
         /\ d.ad.round[f].index = c.ad.round[f].index
         /\ d.ad.round[f].started = c.ad.round[f].started
<1>1. c.ad.round[f] \in Streamers
  BY DEF InCall, Adapters, RoundStreams
<1>2. PICK y \in Seq(Nat) : y = c.ad.round[f].text \o x
  <2>1. c.ad.round[f].text \o x \in Seq(Nat)
    BY <1>1 DEF Streamers
  <2> QED
    BY <2>1
<1>3. PICK z \in Streamers : z = [c.ad.round[f] EXCEPT !.text = y]
  BY <1>1, <1>2 DEF Streamers
<1>4. PICK g : g = Put(c, f, z)
  OBVIOUS
<1>5. Streamed(c, g, f) /\ g.ad.round[f] = z
  BY <1>3, <1>4, StreamerPut
<1>6. g = d
  BY <1>2, <1>3, <1>4 DEF Put, WithText
<1>7. z.index = c.ad.round[f].index /\ z.started = c.ad.round[f].started
  BY <1>1, <1>3 DEF Streamers
<1> QED
  BY <1>5, <1>6, <1>7

LEMMA BlockBegun ==
  ASSUME NEW c \in InCall, NEW f \in {"thinking", "text"},
         NEW d, d = WithStart(c, f)
  PROVE  /\ Streamed(c, d, f)
         /\ d.ad.round[f].index = c.ad.round[f].index
         /\ d.ad.round[f].started
<1>1. c.ad.round[f] \in Streamers
  BY DEF InCall, Adapters, RoundStreams
<1>2. PICK z \in Streamers : z = [c.ad.round[f] EXCEPT !.started = TRUE]
  BY <1>1 DEF Streamers
<1>3. PICK g : g = Put(c, f, z)
  OBVIOUS
<1>4. Streamed(c, g, f) /\ g.ad.round[f] = z
  BY <1>2, <1>3, StreamerPut
<1>5. g = d
  BY <1>2, <1>3 DEF Put, WithStart
<1>6. z.index = c.ad.round[f].index /\ z.started
  BY <1>1, <1>2 DEF Streamers
<1> QED
  BY <1>4, <1>5, <1>6

LEMMA BlockEnded ==
  ASSUME NEW c \in InCall, NEW f \in {"thinking", "text"}, c.ad.round[f].index \in Nat,
         NEW d, d = WithStop(c, f)
  PROVE  /\ Streamed(c, d, f)
         /\ d.ad.round[f].index = c.ad.round[f].index + 1
         /\ ~d.ad.round[f].started
<1>1. c.ad.round[f] \in Streamers
  BY DEF InCall, Adapters, RoundStreams
<1>2. PICK z \in Streamers : z = [c.ad.round[f] EXCEPT !.started = FALSE]
  BY <1>1 DEF Streamers
<1>3. PICK g : g = Put(c, f, z)
  OBVIOUS
<1>4. Streamed(c, g, f) /\ g.ad.round[f] = z /\ g \in InCall
  BY <1>2, <1>3, StreamerPut DEF Streamed
<1>5. z.index = c.ad.round[f].index /\ z.index + 1 \in Nat /\ ~z.started
  BY <1>1, <1>2 DEF Streamers
<1>6. PICK y \in Streamers : y = [z EXCEPT !.index = z.index + 1]
  BY <1>2, <1>5 DEF Streamers
<1>7. PICK h : h = Put(g, f, y)
  OBVIOUS
<1>8. Streamed(g, h, f) /\ h.ad.round[f] = y
  BY <1>4, <1>6, <1>7, StreamerPut
<1>9. h = d
  <2>1. g = [c EXCEPT !.ad.round[f].started = FALSE]
    BY <1>2, <1>3 DEF Put
  <2>2. d = [g EXCEPT !.ad.round[f].index = @ + 1]
    BY <2>1 DEF WithStop
  <2> QED
    BY <1>4, <1>6, <1>7, <2>2 DEF Put
<1>10. Streamed(c, h, f)
  BY <1>4, <1>8 DEF Streamed
<1>11. y.index = z.index + 1 /\ y.started = z.started
  BY <1>2, <1>6 DEF Streamers
<1> QED
  BY <1>5, <1>8, <1>9, <1>10, <1>11

--------------------------------------------------------------------------------
(* A callback of a streaming round: whether or not it comes to its end the *)
(* wire is in order, and as long as all goes well the streamers know which *)
(* block is open.                                                          *)
Fine(c, s, m) ==
  /\ c \in InCall /\ Orderly(c.wire) /\ Serial(c.wire) /\ Booked(c.wire, s, m)
  /\ c.ok => Midway(c.ad, c.wire)

SameTools(c, d) ==
  /\ d.ad.blockIndex = c.ad.blockIndex /\ d.ad.rounds = c.ad.rounds
  /\ d.ad.toolBase = c.ad.toolBase /\ d.ad.toolCallCount = c.ad.toolCallCount

LEMMA MidwayAt ==
  ASSUME NEW c \in InCall, NEW f \in {"thinking", "text"}, c.ad.round.opened <=> f = "text",
         NEW w
  PROVE  Midway(c.ad, w) <=> /\ f = "text" => ~c.ad.round.thinking.started
                             /\ BlockAt(w, c.ad.round[f], f)
BY DEF Midway

LEMMA StreamerType ==
  ASSUME NEW c \in InCall, NEW f \in {"thinking", "text"}
  PROVE  /\ c.ad.round[f] \in Streamers /\ c.ad.round[f].started \in BOOLEAN
         /\ c.ad.round.opened \in BOOLEAN /\ c.ok \in BOOLEAN
         /\ c.wire \in Seq(WireEvents)
<1>1. c.ad \in Adapters /\ c.ok \in BOOLEAN /\ c.wire \in Seq(WireEvents)
  BY DEF InCall
<1>2. c.ad.round \in RoundStreams
  BY <1>1 DEF Adapters
<1>3. c.ad.round[f] \in Streamers /\ c.ad.round.opened \in BOOLEAN
  BY <1>2 DEF RoundStreams
<1> QED
  BY <1>1, <1>3 DEF Streamers

LEMMA DeltaWritten ==
  ASSUME NEW c, NEW s, NEW m, Fine(c, s, m), NEW f \in {"thinking", "text"}, NEW x \in Seq(Nat),
         c.ok => (c.ad.round.opened <=> f = "text") /\ c.ad.round[f].started,
         NEW i, i = c.ad.round[f].index,
         NEW d, d = Emit(c, BlockDelta(i, f, x))
  PROVE  Fine(d, s, m) /\ d.ad = c.ad
<1>1. c \in InCall /\ c.wire \in Seq(WireEvents)
  BY DEF Fine, InCall
<1>2. CASE ~c.ok
  BY <1>2 DEF Emit
<1>3. CASE c.ok
  <2>1. BlockAt(c.wire, c.ad.round[f], f) /\ (f = "text" => ~c.ad.round.thinking.started)
    BY <1>1, <1>3, MidwayAt DEF Fine
  <2>2. i \in Nat /\ Solid(c.wire, i) /\ OpenAt(c.wire, i, f)
    BY <1>3, <2>1 DEF BlockAt
  <2>3. PICK e \in WireEvents : e = BlockDelta(i, f, x)
    BY <2>2, BlockEvents
  <2>4. ~IsStart(e) /\ ~IsStop(e) /\ IsDelta(e) /\ e.index = i /\ e.block = f
    BY <2>2, <2>3, BlockEvents
  <2>5. PICK w \in Seq(WireEvents) : w = c.wire
    BY <1>1
  <2>6. PICK v : v = Append(w, e)
    OBVIOUS
  <2>7. /\ v \in Seq(WireEvents) /\ Orderly(v) /\ Serial(v) /\ Solid(v, i) /\ OpenAt(v, i, f)
    <3>1. Orderly(w) /\ Serial(w) /\ Solid(w, i) /\ OpenAt(w, e.index, e.block)
      BY <2>2, <2>4, <2>5 DEF Fine
    <3>2. /\ v \in Seq(WireEvents) /\ Orderly(v) /\ (Serial(w) => Serial(v))
          /\ \A b : Solid(w, b) => Solid(v, b)
          /\ OpenAt(v, e.index, e.block)
      BY <2>4, <2>6, <3>1, QuietStep
    <3> QED
      BY <2>4, <3>1, <3>2
  <2>8. Booked(v, s, m)
    BY <2>4, <2>5, <2>6, BookStep DEF Fine
  <2>9. /\ d \in InCall /\ d.ad = c.ad /\ (d.ok => d.wire = v) /\ (d.wire = w \/ d.wire = v)
    BY <1>1, <2>3, <2>5, <2>6, Emitted
  <2>10. Midway(c.ad, v)
    <3>1. BlockAt(v, c.ad.round[f], f)
      BY <1>3, <2>2, <2>7 DEF BlockAt
    <3> QED
      BY <1>1, <1>3, <2>1, <3>1, MidwayAt
  <2> QED
    BY <2>5, <2>7, <2>8, <2>9, <2>10 DEF Fine
<1> QED
  BY <1>1, <1>2, <1>3, StreamerType

LEMMA Written ==
  ASSUME NEW c, NEW s, NEW m, Fine(c, s, m), NEW f \in {"thinking", "text"}, NEW x \in Seq(Nat),
         c.ok => (c.ad.round.opened <=> f = "text"),
         NEW d, d = Write(c, f, x)
  PROVE  Fine(d, s, m) /\ SameTools(c, d) /\ d.ad.round.opened = c.ad.round.opened
<1>1. c \in InCall /\ c.ok \in BOOLEAN
  BY DEF Fine, InCall
<1>2. CASE ~c.ok \/ x = EmptyText
  BY <1>2 DEF Write, SameTools
<1>3. CASE c.ok /\ x # EmptyText
  <2>1. PICK i : i = c.ad.round[f].index
    OBVIOUS
  <2>2. /\ BlockAt(c.wire, c.ad.round[f], f) /\ (f = "text" => ~c.ad.round.thinking.started)
    BY <1>1, <1>3, MidwayAt DEF Fine
  <2>3. i \in Nat /\ Solid(c.wire, i)
    BY <2>1, <2>2 DEF BlockAt
  <2>4. PICK g : g = WithText(c, f, x)
    OBVIOUS
  <2>5. /\ Streamed(c, g, f) /\ g.ad.round[f].index = i
        /\ g.ad.round[f].started = c.ad.round[f].started
    BY <1>1, <2>1, <2>4, TextAdded
  <2>6. g \in InCall /\ g.wire = c.wire /\ g.ok = c.ok /\ SameTools(c, g)
        /\ g.ad.round.opened = c.ad.round.opened
    BY <2>5 DEF Streamed, SameTools
  <2>7. f = "text" => ~g.ad.round.thinking.started
    BY <2>2, <2>5 DEF Streamed
  <2>8. Midway(g.ad, g.wire)
    <3>1. BlockAt(g.wire, g.ad.round[f], f)
      BY <2>1, <2>2, <2>5, <2>6 DEF BlockAt
    <3> QED
      BY <1>3, <2>6, <2>7, <3>1, MidwayAt
  <2>9. Fine(g, s, m)
    BY <2>6, <2>8 DEF Fine
  <2>10. CASE c.ad.round[f].started
    <3>1. PICK h : h = WithStart(g, f)
      OBVIOUS
    <3>2. Streamed(g, h, f) /\ h.ad.round[f].index = i /\ h.ad.round[f].started
      BY <2>5, <2>6, <3>1, BlockBegun
    <3>3. /\ h \in InCall /\ h.wire = c.wire /\ h.ok /\ SameTools(c, h)
          /\ h.ad.round.opened = c.ad.round.opened
      BY <1>3, <2>6, <3>2 DEF Streamed, SameTools
    <3>4. f = "text" => ~h.ad.round.thinking.started
      BY <2>7, <3>2 DEF Streamed
    <3>5. Midway(h.ad, h.wire)
      <4>1. BlockAt(h.wire, h.ad.round[f], f)
        BY <2>1, <2>2, <2>10, <3>2, <3>3 DEF BlockAt
      <4> QED
        BY <1>3, <3>3, <3>4, <4>1, MidwayAt
    <3>6. Fine(h, s, m)
      BY <3>3, <3>5 DEF Fine
    <3>7. d = Emit(h, BlockDelta(i, f, x))
      BY <1>3, <2>1, <2>4, <2>6, <2>10, <3>1 DEF Write, WithText, WithStart
    <3>8. Fine(d, s, m) /\ d.ad = h.ad
      BY <1>3, <3>2, <3>3, <3>6, <3>7, DeltaWritten
    <3> QED
      BY <3>3, <3>8 DEF SameTools
  <2>11. CASE ~c.ad.round[f].started
    <3>1. PICK e \in WireEvents : e = BlockStart(i, f)
      BY <2>3, BlockEvents
    <3>2. IsStart(e) /\ e.index = i /\ e.block = f
      BY <2>3, <3>1, BlockEvents
    <3>3. PICK w \in Seq(WireEvents) : w = c.wire
      BY <1>1 DEF InCall
    <3>4. PICK v : v = Append(w, e)
      OBVIOUS
    <3>5. Below(w, i)
      BY <2>1, <2>2, <2>11, <3>3 DEF BlockAt
    <3>6. /\ v \in Seq(WireEvents) /\ Orderly(v) /\ Serial(v) /\ Solid(v, i) /\ OpenAt(v, i, f)
      BY <2>3, <3>2, <3>3, <3>4, <3>5, StartStep DEF Fine
    <3>7. Booked(v, s, m)
      <4>1. e.block \notin {"tool_use", "tool_result"}
        BY <3>2
      <4> QED
        BY <3>3, <3>4, <4>1, BookStep DEF Fine
    <3>8. PICK o : o = Emit(g, e)
      OBVIOUS
    <3>9. /\ o \in InCall /\ o.ad = g.ad /\ (o.ok => o.wire = v) /\ (o.wire = w \/ o.wire = v)
      <4>1. /\ o \in InCall /\ o.ad = g.ad /\ (o.ok => o.wire = Append(g.wire, e))
            /\ o.wire = g.wire \/ o.wire = Append(g.wire, e)
        BY <2>6, <3>8, Emitted
      <4> QED
        BY <2>6, <3>3, <3>4, <4>1
    <3>10. Orderly(o.wire) /\ Serial(o.wire) /\ Booked(o.wire, s, m)
      BY <3>3, <3>6, <3>7, <3>9 DEF Fine
    <3>11. CASE ~o.ok
      <4>1. d = Emit(o, BlockDelta(i, f, x))
        BY <1>3, <2>1, <2>4, <2>11, <3>1, <3>8, <3>11 DEF Write, WithText
      <4>2. d = o
        BY <3>11, <4>1 DEF Emit
      <4>3. Fine(o, s, m)
        BY <3>9, <3>10, <3>11 DEF Fine
      <4> QED
        BY <2>6, <3>9, <4>2, <4>3 DEF SameTools
    <3>12. CASE o.ok
      <4>1. PICK h : h = WithStart(o, f)
        OBVIOUS
      <4>2. Streamed(o, h, f) /\ h.ad.round[f].index = i /\ h.ad.round[f].started
        <5>1. o.ad.round[f].index = i
          BY <2>5, <3>9
        <5> QED
          BY <3>9, <4>1, <5>1, BlockBegun
      <4>3. h \in InCall /\ h.wire = v /\ h.ok /\ SameTools(c, h)
            /\ h.ad.round.opened = c.ad.round.opened
        BY <2>6, <3>9, <3>12, <4>2 DEF Streamed, SameTools
      <4>4. f = "text" => ~h.ad.round.thinking.started
        BY <2>7, <3>9, <4>2 DEF Streamed
      <4>5. Midway(h.ad, v)
        <5>1. BlockAt(v, h.ad.round[f], f)
          BY <2>3, <3>6, <4>2 DEF BlockAt
        <5> QED
          BY <1>3, <4>3, <4>4, <5>1, MidwayAt
      <4>6. Fine(h, s, m)
        BY <3>6, <3>7, <4>3, <4>5 DEF Fine
      <4>7. d = Emit(h, BlockDelta(i, f, x))
        BY <1>3, <2>1, <2>4, <2>11, <3>1, <3>8, <3>12, <4>1 DEF Write, WithText, WithStart
      <4>8. Fine(d, s, m) /\ d.ad = h.ad
        BY <1>3, <4>2, <4>3, <4>6, <4>7, DeltaWritten
      <4> QED
        BY <4>3, <4>8 DEF SameTools
    <3> QED
      BY <3>9, <3>11, <3>12 DEF InCall
  <2> QED
    BY <1>1, <2>10, <2>11, StreamerType
<1> QED
  BY <1>1, <1>2, <1>3

LEMMA Closed ==
  ASSUME NEW c, NEW s, NEW m, Fine(c, s, m), NEW f \in {"thinking", "text"},
         c.ok => (c.ad.round.opened <=> f = "text"),
         NEW d, d = Close(c, f)
  PROVE  /\ Fine(d, s, m) /\ SameTools(c, d) /\ d.ad.round.opened = c.ad.round.opened
         /\ d.ok => ~d.ad.round[f].started
         /\ d.ok => c.ok
<1>1. c \in InCall /\ c.ok \in BOOLEAN
  BY DEF Fine, InCall
<1>2. CASE ~c.ok \/ ~c.ad.round[f].started
  BY <1>2 DEF Close, SameTools
<1>3. CASE c.ok /\ c.ad.round[f].started
  <2>1. PICK i : i = c.ad.round[f].index
    OBVIOUS
  <2>2. /\ BlockAt(c.wire, c.ad.round[f], f) /\ (f = "text" => ~c.ad.round.thinking.started)
    BY <1>1, <1>3, MidwayAt DEF Fine
  <2>3. i \in Nat /\ Solid(c.wire, i) /\ OpenAt(c.wire, i, f)
    BY <1>3, <2>1, <2>2 DEF BlockAt
  <2>4. PICK e \in WireEvents : e = BlockStop(i)
    BY <2>3, StopEvent
  <2>5. IsStop(e) /\ ~IsStart(e) /\ e.index = i
    BY <2>3, <2>4, StopEvent
  <2>6. PICK w \in Seq(WireEvents) : w = c.wire
    BY <1>1 DEF InCall
  <2>7. PICK v : v = Append(w, e)
    OBVIOUS
  <2>8. Orderly(w) /\ Serial(w) /\ Solid(w, e.index) /\ OpenAt(w, e.index, f) /\ Booked(w, s, m)
    BY <2>3, <2>5, <2>6 DEF Fine
  <2>9. /\ v \in Seq(WireEvents) /\ Orderly(v) /\ Serial(v)
        /\ Below(v, e.index + 1) /\ Solid(v, e.index + 1)
    BY <2>5, <2>7, <2>8, StopStep
  <2>10. Booked(v, s, m)
    BY <2>5, <2>7, <2>8, BookStep
  <2>11. PICK o : o = Emit(c, e)
    OBVIOUS
  <2>12. /\ o \in InCall /\ o.ad = c.ad /\ (o.ok => o.wire = v) /\ (o.wire = w \/ o.wire = v)
    <3>1. /\ o \in InCall /\ o.ad = c.ad /\ (o.ok => o.wire = Append(c.wire, e))
          /\ o.wire = c.wire \/ o.wire = Append(c.wire, e)
      BY <1>1, <2>11, Emitted
    <3> QED
      BY <2>6, <2>7, <3>1
  <2>13. Orderly(o.wire) /\ Serial(o.wire) /\ Booked(o.wire, s, m)
    BY <2>8, <2>9, <2>10, <2>12
  <2>14. CASE ~o.ok
    <3>1. d = o
      BY <1>3, <2>1, <2>4, <2>11, <2>14 DEF Close
    <3>2. Fine(o, s, m)
      BY <2>12, <2>13, <2>14 DEF Fine
    <3> QED
      BY <2>12, <2>14, <3>1, <3>2 DEF SameTools
  <2>15. CASE o.ok
    <3>1. PICK h : h = WithStop(o, f)
      OBVIOUS
    <3>2. d = h
      BY <1>3, <2>1, <2>4, <2>11, <2>15, <3>1 DEF Close, WithStop
    <3>3. Streamed(o, h, f) /\ h.ad.round[f].index = i + 1 /\ ~h.ad.round[f].started
      <4>1. o.ad.round[f].index = i /\ i \in Nat
        BY <2>1, <2>3, <2>12
      <4> QED
        BY <2>12, <3>1, <4>1, BlockEnded
    <3>4. /\ h \in InCall /\ h.wire = v /\ h.ok /\ SameTools(c, h)
          /\ h.ad.round.opened = c.ad.round.opened
      BY <2>12, <2>15, <3>3 DEF Streamed, SameTools
    <3>5. f = "text" => ~h.ad.round.thinking.started
      BY <2>2, <2>12, <3>3 DEF Streamed
    <3>6. Midway(h.ad, v)
      <4>1. BlockAt(v, h.ad.round[f], f)
        BY <2>3, <2>5, <2>9, <3>3 DEF BlockAt
      <4> QED
        BY <1>3, <3>4, <3>5, <4>1, MidwayAt
    <3>7. Fine(h, s, m)
      BY <2>9, <2>10, <3>4, <3>6 DEF Fine
    <3> QED
      BY <1>3, <3>2, <3>3, <3>4, <3>7
  <2> QED
    BY <2>12, <2>14, <2>15 DEF InCall
<1> QED
  BY <1>1, <1>2, <1>3, StreamerType

WithOpened(c, x) == [c EXCEPT !.ad.round.text = x, !.ad.round.opened = TRUE]

LEMMA TextPut ==
  ASSUME NEW c \in InCall, NEW x \in Streamers, NEW d, d = WithOpened(c, x)
  PROVE  /\ d \in InCall /\ d.wire = c.wire /\ d.ok = c.ok /\ SameTools(c, d)
         /\ d.ad.round.opened /\ d.ad.round.text = x
         /\ d.ad.round.thinking = c.ad.round.thinking
<1>1. c.ad \in Adapters /\ c.ad.round \in RoundStreams
  BY DEF InCall, Adapters
<1>2. PICK rs \in RoundStreams : rs = [c.ad.round EXCEPT !.text = x, !.opened = TRUE]
  BY <1>1 DEF RoundStreams
<1>3. rs.opened /\ rs.text = x /\ rs.thinking = c.ad.round.thinking
  BY <1>1, <1>2 DEF RoundStreams
<1>4. PICK a \in Adapters : a = [c.ad EXCEPT !.round = rs]
  BY <1>1, <1>2 DEF Adapters
<1>5. /\ a.round = rs /\ a.blockIndex = c.ad.blockIndex /\ a.rounds = c.ad.rounds
      /\ a.toolBase = c.ad.toolBase /\ a.toolCallCount = c.ad.toolCallCount
  BY <1>1, <1>4 DEF Adapters
<1>6. PICK g : g = [c EXCEPT !.ad = a]
  OBVIOUS
<1>7. g \in InCall /\ g.ad = a /\ g.wire = c.wire /\ g.ok = c.ok
  BY <1>4, <1>6 DEF InCall
<1>8. d = g
  BY <1>1, <1>2, <1>4, <1>6 DEF WithOpened, InCall, Adapters, RoundStreams
<1> QED
  BY <1>3, <1>5, <1>7, <1>8 DEF SameTools

LEMMA TextOpened ==
  ASSUME NEW c, NEW s, NEW m, Fine(c, s, m), NEW d, d = openText(c)
  PROVE  Fine(d, s, m) /\ SameTools(c, d) /\ (d.ok => d.ad.round.opened)
<1>1. c \in InCall /\ c.ok \in BOOLEAN
  BY DEF Fine, InCall
<1>2. CASE ~c.ok \/ c.ad.round.opened
  BY <1>2 DEF openText, SameTools
<1>3. CASE c.ok /\ ~c.ad.round.opened
  <2>1. PICK g : g = Close(c, "thinking")
    OBVIOUS
  <2>2. /\ Fine(g, s, m) /\ SameTools(c, g) /\ ~g.ad.round.opened
        /\ g.ok => ~g.ad.round.thinking.started
    BY <1>3, <2>1, Closed
  <2>3. CASE ~g.ok
    <3>1. d = g
      BY <1>3, <2>1, <2>3 DEF openText
    <3> QED
      BY <2>2, <2>3, <3>1
  <2>4. CASE g.ok
    <3>1. g \in InCall /\ BlockAt(g.wire, g.ad.round.thinking, "thinking")
      BY <2>2, <2>4 DEF Fine, Midway
    <3>2. PICK i \in Nat : i = g.ad.round.thinking.index
      BY <3>1 DEF BlockAt
    <3>3. Solid(g.wire, i) /\ Below(g.wire, i)
      BY <2>2, <2>4, <3>1, <3>2 DEF BlockAt
    <3>4. PICK x \in Streamers : x = NewStreamer(i)
      <4>1. NewStreamer(i) \in Streamers
        BY <3>2 DEF NewStreamer, Streamers, EmptyText
      <4> QED
        BY <4>1
    <3>5. x.index = i /\ ~x.started
      BY <3>4 DEF NewStreamer
    <3>6. PICK h : h = WithOpened(g, x)
      OBVIOUS
    <3>7. d = h
      BY <1>3, <2>1, <2>4, <3>2, <3>4, <3>6 DEF openText, WithOpened
    <3>8. /\ h \in InCall /\ h.wire = g.wire /\ h.ok = g.ok /\ SameTools(g, h)
          /\ h.ad.round.opened /\ h.ad.round.text = x
          /\ h.ad.round.thinking = g.ad.round.thinking
      BY <3>1, <3>4, <3>6, TextPut
    <3>9. Midway(h.ad, h.wire)
      BY <2>2, <2>4, <3>3, <3>5, <3>8 DEF Midway, BlockAt
    <3>10. Fine(h, s, m) /\ SameTools(c, h)
      BY <2>2, <3>8, <3>9 DEF Fine, SameTools
    <3> QED
      BY <3>7, <3>8, <3>10
  <2> QED
    BY <2>2, <2>3, <2>4 DEF Fine, InCall
<1> QED
  BY <1>1, <1>2, <1>3, StreamerType

(* OnDelta and the end of a round.                                         *)
LEMMA DeltaHandled ==
  ASSUME NEW c, NEW s, NEW m, Fine(c, s, m), NEW x \in Seq(Nat), NEW y \in Seq(Nat),
         NEW d, d = handleDelta(c, x, y)
  PROVE  Fine(d, s, m) /\ SameTools(c, d)
<1>1. c \in InCall /\ c.ok \in BOOLEAN /\ c.ad.round.opened \in BOOLEAN
  BY StreamerType DEF Fine
<1>2. PICK g : g = IF c.ad.round.opened THEN c ELSE Write(c, "thinking", x)
  OBVIOUS
<1>3. Fine(g, s, m) /\ SameTools(c, g)
  <2>1. CASE c.ad.round.opened
    BY <1>2, <2>1 DEF SameTools
  <2>2. CASE ~c.ad.round.opened
    <3>1. g = Write(c, "thinking", x)
      BY <1>2, <2>2
    <3> QED
      BY <2>2, <3>1, Written
  <2> QED
    BY <1>1, <2>1, <2>2
<1>4. CASE y = EmptyText
  BY <1>2, <1>3, <1>4 DEF handleDelta
<1>5. CASE y # EmptyText
  <2>1. PICK h : h = openText(g)
    OBVIOUS
  <2>2. Fine(h, s, m) /\ SameTools(g, h) /\ (h.ok => h.ad.round.opened)
    BY <1>3, <2>1, TextOpened
  <2>3. d = Write(h, "text", y)
    BY <1>2, <1>5, <2>1 DEF handleDelta
  <2>4. Fine(d, s, m) /\ SameTools(h, d)
    BY <2>2, <2>3, Written
  <2> QED
    BY <1>3, <2>2, <2>4 DEF SameTools
<1> QED
  BY <1>4, <1>5

LEMMA Finished ==
  ASSUME NEW c, NEW s, NEW m, Fine(c, s, m), NEW d, d = finish(c)
  PROVE  /\ Fine(d, s, m) /\ SameTools(c, d)
         /\ d.ok => /\ nextBlockIndex(d.ad.round) \in Nat
                    /\ Between(d.wire, nextBlockIndex(d.ad.round))
<1>1. PICK g : g = openText(c)
  OBVIOUS
<1>2. Fine(g, s, m) /\ SameTools(c, g) /\ (g.ok => g.ad.round.opened)
  BY <1>1, TextOpened
<1>3. d = Close(g, "text")
  BY <1>1 DEF finish
<1>4. /\ Fine(d, s, m) /\ SameTools(g, d) /\ d.ad.round.opened = g.ad.round.opened
      /\ d.ok => ~d.ad.round.text.started
      /\ d.ok => g.ok
  BY <1>2, <1>3, Closed
<1>5. ASSUME d.ok
      PROVE  /\ nextBlockIndex(d.ad.round) \in Nat
             /\ Between(d.wire, nextBlockIndex(d.ad.round))
  <2>1. d.ad.round.opened /\ ~d.ad.round.text.started
    BY <1>2, <1>4, <1>5
  <2>2. BlockAt(d.wire, d.ad.round.text, "text")
    BY <1>4, <1>5, <2>1 DEF Fine, Midway
  <2> QED
    BY <2>1, <2>2 DEF nextBlockIndex, Between, BlockAt
<1> QED
  BY <1>2, <1>4, <1>5 DEF SameTools

--------------------------------------------------------------------------------
(* The three events of a tool block, sent in one callback.                 *)
Passed(c, e, d) ==
  /\ d \in InCall /\ d.ad = c.ad
  /\ ~c.ok => d = c
  /\ d.ok => c.ok /\ d.wire = Append(c.wire, e)
  /\ d.wire = c.wire \/ d.wire = Append(c.wire, e)

LEMMA Emits ==
  ASSUME NEW c \in InCall, NEW e \in WireEvents
  PROVE  Passed(c, e, Emit(c, e))
BY Emitted DEF Passed

PairPassed(c, e1, e2, d) ==
  LET w1 == Append(c.wire, e1)
  IN  d \in InCall /\ d.ad = c.ad /\ d.wire \in {c.wire, w1, Append(w1, e2)}

BlockPassed(c, e1, e2, e3, d) ==
  LET w1 == Append(c.wire, e1)
      w2 == Append(w1, e2)
      w3 == Append(w2, e3)
  IN  d \in InCall /\ d.ad = c.ad /\ d.wire \in {c.wire, w1, w2, w3} /\ (d.ok => d.wire = w3)

LEMMA BlockEmitted ==
  ASSUME NEW c \in InCall, NEW e1 \in WireEvents, NEW e2 \in WireEvents, NEW e3 \in WireEvents,
         NEW d, d = EmitBlock(c, <<e1, e2, e3>>)
  PROVE  BlockPassed(c, e1, e2, e3, d)
<1> DEFINE w1 == Append(c.wire, e1)
           w2 == Append(w1, e2)
           w3 == Append(w2, e3)
<1>1. PICK g : g = Emit(c, e1) /\ Passed(c, e1, g)
  BY Emits
<1>2. PICK h : h = Emit(g, e2) /\ Passed(g, e2, h)
  <2>1. g \in InCall
    BY <1>1 DEF Passed
  <2> QED
    BY <2>1, Emits
<1>3. PICK x : x = Emit(h, e3) /\ Passed(h, e3, x)
  <2>1. h \in InCall
    BY <1>2 DEF Passed
  <2> QED
    BY <2>1, Emits
<1>4. d = x
  BY <1>1, <1>2, <1>3 DEF EmitBlock
<1>5. /\ c.ok \in BOOLEAN /\ g.ok \in BOOLEAN /\ h.ok \in BOOLEAN
  BY <1>1, <1>2 DEF Passed, InCall
<1>6. g.wire \in {c.wire, w1} /\ (g.ok => g.wire = w1)
  BY <1>1 DEF Passed
<1>7. h.wire \in {c.wire, w1, w2} /\ (h.ok => h.wire = w2)
  BY <1>2, <1>5, <1>6 DEF Passed
<1>8. x.wire \in {c.wire, w1, w2, w3} /\ (x.ok => x.wire = w3)
  BY <1>3, <1>5, <1>7 DEF Passed
<1> QED
  BY <1>1, <1>2, <1>3, <1>4, <1>8 DEF Passed, BlockPassed

LEMMA PairEmitted ==
  ASSUME NEW c \in InCall, NEW e1 \in WireEvents, NEW e2 \in WireEvents,
         NEW d, d = EmitPair(c, <<e1, e2>>)
  PROVE  PairPassed(c, e1, e2, d)
<1> DEFINE w1 == Append(c.wire, e1)
           w2 == Append(w1, e2)
<1>1. PICK g : g = Emit(c, e1) /\ Passed(c, e1, g)
  BY Emits
<1>2. PICK h : h = Emit(g, e2) /\ Passed(g, e2, h)
  <2>1. g \in InCall
    BY <1>1 DEF Passed
  <2> QED
    BY <2>1, Emits
<1>3. d = h
  BY <1>1, <1>2 DEF EmitPair
<1>4. g.ok \in BOOLEAN
  BY <1>1 DEF Passed, InCall
<1>5. g.wire \in {c.wire, w1} /\ (g.ok => g.wire = w1)
  BY <1>1 DEF Passed
<1>6. h.wire \in {c.wire, w1, w2}
  BY <1>2, <1>4, <1>5 DEF Passed
<1> QED
  BY <1>1, <1>2, <1>3, <1>6 DEF Passed, PairPassed

ForBlock(e1, e2, e3, i, kind) ==
  /\ IsStart(e1) /\ e1.index = i /\ e1.block = kind
  /\ IsDelta(e2) /\ e2.index = i /\ e2.block = kind
  /\ IsStop(e3) /\ e3.index = i

Sent(w, e1, e2, e3, i) ==
  LET w1 == Append(w, e1)
      w2 == Append(w1, e2)
      w3 == Append(w2, e3)
  IN  /\ w1 \in Seq(WireEvents) /\ Orderly(w1) /\ Below(w1, i + 1)
      /\ w2 \in Seq(WireEvents) /\ Orderly(w2) /\ Below(w2, i + 1)
      /\ w3 \in Seq(WireEvents) /\ Orderly(w3) /\ Below(w3, i + 1)
      /\ Below(w, i + 1)
      /\ Solid(w, i) => Solid(w3, i + 1)
      /\ Solid(w, i) /\ Serial(w) => Serial(w1) /\ Serial(w2) /\ Serial(w3)

LEMMA BlockSent ==
  ASSUME NEW w \in Seq(WireEvents), Orderly(w), NEW i \in Nat, Below(w, i), NEW kind,
         NEW e1 \in WireEvents, NEW e2 \in WireEvents, NEW e3 \in WireEvents,
         ForBlock(e1, e2, e3, i, kind)
  PROVE  Sent(w, e1, e2, e3, i)
<1>0. PICK w1, w2, w3 : w1 = Append(w, e1) /\ w2 = Append(w1, e2) /\ w3 = Append(w2, e3)
  OBVIOUS
<1>1. /\ w1 \in Seq(WireEvents) /\ Orderly(w1) /\ OpenAt(w1, i, kind)
      /\ Solid(w, i) => Solid(w1, i)
      /\ Serial(w) /\ Solid(w, i) => Serial(w1)
  BY <1>0, StartStep DEF ForBlock
<1>2. ~IsStart(e2) /\ ~IsStop(e2)
  BY EventShape DEF ForBlock
<1>3. OpenAt(w1, e2.index, e2.block)
  BY <1>1 DEF ForBlock
<1>4. /\ w2 \in Seq(WireEvents) /\ Orderly(w2) /\ (Serial(w1) => Serial(w2))
      /\ \A b : Solid(w1, b) => Solid(w2, b)
      /\ OpenAt(w2, e2.index, e2.block)
  BY <1>0, <1>1, <1>2, <1>3, QuietStep DEF ForBlock
<1>5. OpenAt(w2, e3.index, kind)
  BY <1>4 DEF ForBlock
<1>6. /\ w3 \in Seq(WireEvents) /\ Orderly(w3) /\ (Serial(w2) => Serial(w3))
      /\ Below(w3, e3.index + 1)
      /\ Solid(w2, e3.index) => Solid(w3, e3.index + 1)
  BY <1>0, <1>4, <1>5, StopStep DEF ForBlock
<1>7. Below(w1, i + 1) /\ Below(w2, i + 1)
  BY <1>1, <1>4 DEF OpenAt, ForBlock
<1>8. Below(w, i + 1)
  <2> SUFFICES ASSUME NEW p \in DOMAIN w, IsBlock(w[p])
               PROVE  w[p].index < i + 1
    BY DEF Below
  <2>1. w[p] \in WireEvents
    OBVIOUS
  <2>2. w[p].index \in Nat /\ w[p].index < i
    BY <2>1, EventShape DEF Below
  <2> QED
    BY <2>2
<1>9. Solid(w, i) => Solid(w3, i + 1)
  BY <1>1, <1>4, <1>6 DEF ForBlock
<1>10. Solid(w, i) /\ Serial(w) => Serial(w1) /\ Serial(w2) /\ Serial(w3)
  BY <1>1, <1>4, <1>6
<1>11. Below(w3, i + 1)
  BY <1>6 DEF ForBlock
<1> QED
  BY <1>0, <1>1, <1>4, <1>6, <1>7, <1>8, <1>9, <1>10, <1>11 DEF Sent

(* The start of a tool block enters the books.                             *)
LEMMA UseBooked ==
  ASSUME NEW w \in Seq(WireEvents), NEW e \in WireEvents, NEW v, v = Append(w, e),
         NEW s, NEW m, Booked(w, s, m),
         IsStart(e), e.block = "tool_use", e.name[1] \in 1 .. m
  PROVE  Booked(v, s, m)
<1>1. PICK n : n = Len(w) + 1
  OBVIOUS
<1>2. /\ v \in Seq(WireEvents) /\ DOMAIN v = DOMAIN w \cup {n}
      /\ DOMAIN w \subseteq Nat /\ n \in Nat /\ n \notin DOMAIN w
      /\ v[n] = e /\ \A p \in DOMAIN w : v[p] = w[p] /\ p < n
      /\ \A p \in DOMAIN w : w[p] \in WireEvents
  BY <1>1, Extended
<1>3. Named(v, m)
  BY <1>2 DEF Booked, Named, StartsIn
<1>4. ASSUME NEW p \in StartsIn(v), v[p].block = "tool_result"
      PROVE  \E q \in StartsIn(v) :
               /\ q < p
               /\ v[q].block = "tool_use" /\ v[q].id = v[p].id
               /\ v[p].index - v[q].index = Len(s[v[q].name[1]].calls)
               /\ \E t \in StopsOf(v, v[q].index) : t < p
  <2>1. p \in StartsIn(w) /\ v[p] = w[p]
    BY <1>2, <1>4 DEF StartsIn
  <2>2. PICK q \in StartsIn(w) :
          /\ q < p
          /\ w[q].block = "tool_use" /\ w[q].id = w[p].id
          /\ w[p].index - w[q].index = Len(s[w[q].name[1]].calls)
          /\ \E t \in StopsOf(w, w[q].index) : t < p
    BY <1>4, <2>1 DEF Booked, Answering
  <2>3. q \in StartsIn(v) /\ v[q] = w[q] /\ StopsOf(w, w[q].index) \subseteq StopsOf(v, v[q].index)
    BY <1>2, <2>2 DEF StartsIn, StopsOf
  <2> QED
    BY <2>1, <2>2, <2>3
<1> QED
  BY <1>3, <1>4 DEF Booked, Answering

LEMMA ResultBooked ==
  ASSUME NEW w \in Seq(WireEvents), NEW e \in WireEvents, NEW v, v = Append(w, e),
         NEW s, NEW m, Booked(w, s, m),
         IsStart(e), e.block = "tool_result",
         NEW i, NEW t, UsedAt(w, i, t), e.id = t.id,
         e.index - i = Len(s[t.tag[1]].calls)
  PROVE  Booked(v, s, m)
<1>1. PICK n : n = Len(w) + 1
  OBVIOUS
<1>2. /\ v \in Seq(WireEvents) /\ DOMAIN v = DOMAIN w \cup {n}
      /\ DOMAIN w \subseteq Nat /\ n \in Nat /\ n \notin DOMAIN w
      /\ v[n] = e /\ \A p \in DOMAIN w : v[p] = w[p] /\ p < n
      /\ \A p \in DOMAIN w : w[p] \in WireEvents
  BY <1>1, Extended
<1>3. Named(v, m)
  BY <1>2 DEF Booked, Named, StartsIn
<1>4. ASSUME NEW p \in StartsIn(v), v[p].block = "tool_result"
      PROVE  \E q \in StartsIn(v) :
               /\ q < p
               /\ v[q].block = "tool_use" /\ v[q].id = v[p].id
               /\ v[p].index - v[q].index = Len(s[v[q].name[1]].calls)
               /\ \E u \in StopsOf(v, v[q].index) : u < p
  <2>1. CASE p = n
    <3>1. PICK q \in StartsIn(w) :
            /\ w[q].block = "tool_use" /\ w[q].index = i /\ w[q].id = t.id /\ w[q].name = t.tag
            /\ StopsOf(w, i) # {}
      BY DEF UsedAt
    <3>2. PICK u \in StopsOf(w, i) : TRUE
      BY <3>1
    <3>3. q \in StartsIn(v) /\ v[q] = w[q] /\ q < n /\ u \in StopsOf(v, v[q].index) /\ u < n
      BY <1>2, <3>1, <3>2 DEF StartsIn, StopsOf
    <3>4. v[p] = e
      BY <1>2, <2>1
    <3> QED
      BY <2>1, <3>1, <3>3, <3>4
  <2>2. CASE p # n
    <3>1. p \in StartsIn(w) /\ v[p] = w[p]
      BY <1>2, <2>2 DEF StartsIn
    <3>2. PICK q \in StartsIn(w) :
            /\ q < p
            /\ w[q].block = "tool_use" /\ w[q].id = w[p].id
            /\ w[p].index - w[q].index = Len(s[w[q].name[1]].calls)
            /\ \E u \in StopsOf(w, w[q].index) : u < p
      BY <1>4, <3>1 DEF Booked, Answering
    <3>3. q \in StartsIn(v) /\ v[q] = w[q] /\ StopsOf(w, w[q].index) \subseteq StopsOf(v, v[q].index)
      BY <1>2, <3>2 DEF StartsIn, StopsOf
    <3> QED
      BY <3>1, <3>2, <3>3
  <2> QED
    BY <2>1, <2>2
<1> QED
  BY <1>3, <1>4 DEF Booked, Answering

(* The books outlast what is said later.                                   *)
LEMMA BookKept ==
  ASSUME NEW w \in Seq(WireEvents), NEW s, NEW m \in Int, Booked(w, s, m),
         NEW z, NEW n \in Int, m <= n, \A i \in 1 .. m : z[i].calls = s[i].calls
  PROVE  Booked(w, z, n)
<1>1. Named(w, n)
  BY DEF Booked, Named
<1>2. ASSUME NEW p \in StartsIn(w), w[p].block = "tool_result"
      PROVE  \E q \in StartsIn(w) :
               /\ q < p
               /\ w[q].block = "tool_use" /\ w[q].id = w[p].id
               /\ w[p].index - w[q].index = Len(z[w[q].name[1]].calls)
               /\ \E t \in StopsOf(w, w[q].index) : t < p
  <2>1. PICK q \in StartsIn(w) :
          /\ q < p
          /\ w[q].block = "tool_use" /\ w[q].id = w[p].id
          /\ w[p].index - w[q].index = Len(s[w[q].name[1]].calls)
          /\ \E t \in StopsOf(w, w[q].index) : t < p
    BY <1>2 DEF Booked, Answering
  <2>2. w[q].name[1] \in 1 .. m
    BY <2>1 DEF Booked, Named
  <2> QED
    BY <2>1, <2>2
<1> QED
  BY <1>1, <1>2 DEF Booked, Answering

(* Events outside blocks.                                                  *)
Alike(w, v, s, m) ==
  /\ v \in Seq(WireEvents) /\ Orderly(v) /\ (Serial(w) => Serial(v))
  /\ \A b : Between(w, b) => Between(v, b)
  /\ Booked(v, s, m)

LEMMA QuietEvent ==
  ASSUME NEW w \in Seq(WireEvents), Orderly(w), NEW s, NEW m, Booked(w, s, m),
         NEW e \in WireEvents, ~IsBlock(e)
  PROVE  Alike(w, Append(w, e), s, m)
<1>1. PICK v : v = Append(w, e)
  OBVIOUS
<1>2. ~IsStart(e) /\ ~IsStop(e) /\ ~IsDelta(e)
  BY DEF IsBlock
<1>3. /\ v \in Seq(WireEvents) /\ Orderly(v) /\ (Serial(w) => Serial(v))
      /\ \A b : Solid(w, b) => Solid(v, b)
      /\ \A b : Below(w, b) => Below(v, b)
  BY <1>1, <1>2, QuietStep
<1>4. Booked(v, s, m)
  BY <1>1, <1>2, BookStep
<1> QED
  BY <1>1, <1>3, <1>4 DEF Alike, Between

LEMMA QuietPair ==
  ASSUME NEW w \in Seq(WireEvents), Orderly(w), NEW s, NEW m, Booked(w, s, m),
         NEW e1 \in WireEvents, ~IsBlock(e1), NEW e2 \in WireEvents, ~IsBlock(e2),
         NEW w1, w1 = Append(w, e1), NEW w2, w2 = Append(w1, e2), NEW v \in {w, w1, w2}
  PROVE  Alike(w, v, s, m)
<1>1. Alike(w, w1, s, m)
  BY QuietEvent
<1>2. w1 \in Seq(WireEvents) /\ Orderly(w1) /\ Booked(w1, s, m)
  BY <1>1 DEF Alike
<1>3. Alike(w1, w2, s, m)
  BY <1>2, QuietEvent
<1>4. Alike(w, w2, s, m)
  BY <1>1, <1>3 DEF Alike
<1>5. Alike(w, w, s, m)
  BY DEF Alike
<1> QED
  BY <1>1, <1>4, <1>5

--------------------------------------------------------------------------------
(* Every action keeps the invariant.                                       *)
LEMMA GivenUp ==
  ASSUME ATypes', Orderly(wire'), ~run'.failed => Serial(wire'),
         Booked(wire', said', Len(said')), run'.phase \in {"aborted", "over"}
  PROVE  AInv'
<1>1. NamedUpTo' = Len(said')
  BY DEF NamedUpTo
<1> QED
  BY <1>1 DEF AInv, Resting, Streaming, Tooling, Calling, Resulting

LEMMA Begun ==
  ASSUME NEW call \in Calls, ATypes
  PROVE  /\ Begin(call) \in InCall /\ Begin(call).ad = ad /\ Begin(call).wire = wire
         /\ Begin(call).ok
BY DEF Calls, ATypes, Begin, InCall

LEMMA StartsInOrder ==
  AInit => AInv
<1> SUFFICES ASSUME AInit PROVE AInv
  OBVIOUS
<1>1. /\ ad = [blockIndex |-> 0, rounds |-> 0, toolBase |-> 0, toolCallCount |-> 0,
               round |-> NoRoundStream]
      /\ wire = <<>> /\ said = <<>>
      /\ run = [phase |-> "preamble", calls |-> <<>>, next |-> 0, failed |-> FALSE]
  BY DEF AInit
<1>2. ATypes
  <2>1. NoStreamer \in Streamers
    BY DEF NoStreamer, Streamers, EmptyText
  <2>2. NoRoundStream \in RoundStreams
    BY <2>1 DEF NoRoundStream, RoundStreams
  <2>3. ad \in Adapters /\ ad.toolCallCount = 0 /\ ad.rounds = 0
    BY <1>1, <2>2 DEF Adapters
  <2>4. run \in Runs
    BY <1>1 DEF Runs, Phases
  <2>5. MaxTools \in Nat /\ MaxRounds \in Nat
    BY AdapterAssumption
  <2> QED
    BY <1>1, <2>3, <2>4, <2>5 DEF ATypes
<1>3. DOMAIN wire = {}
  BY <1>1
<1>4. /\ Orderly(wire) /\ Serial(wire) /\ Below(wire, 0) /\ Solid(wire, 0)
      /\ Booked(wire, said, NamedUpTo)
  BY <1>3 DEF Orderly, Ascending, Housed, Serial, StartsIn, Below, Solid, Booked, Named, Answering
<1>5. Resting /\ Streaming /\ Tooling /\ Calling /\ Resulting
  BY <1>1, <1>4 DEF Resting, Streaming, Tooling, Calling, Resulting, Between
<1> QED
  BY <1>2, <1>4, <1>5 DEF AInv

LEMMA PreambleKeeps ==
  ASSUME AInv, NEW call \in Calls, Preamble(call)
  PROVE  AInv'
<1>1. ATypes /\ Orderly(wire) /\ Booked(wire, said, Len(said)) /\ ~run.failed /\ Serial(wire)
      /\ Between(wire, ad.blockIndex) /\ wire \in Seq(WireEvents)
  BY DEF AInv, NamedUpTo, Preamble, Resting, ATypes
<1>2. PICK c \in InCall : c = Begin(call) /\ c.ad = ad /\ c.wire = wire
  BY <1>1, Begun
<1>3. PICK e1 \in WireEvents, e2 \in WireEvents : e1 = MessageStart(<<"stream">>) /\ e2 = Ping
  BY DEF MessageStart, Ping, WireEvents
<1>4. ~IsBlock(e1) /\ ~IsBlock(e2)
  BY <1>3 DEF MessageStart, Ping, IsBlock, IsStart, IsDelta, IsStop
<1>5. PICK w1, w2 : w1 = Append(c.wire, e1) /\ w2 = Append(w1, e2)
  OBVIOUS
<1>6. PICK d : d = EmitPair(c, <<e1, e2>>)
  OBVIOUS
<1>7. d \in InCall /\ d.ad = c.ad /\ d.wire \in {c.wire, w1, w2}
  <2>1. PairPassed(c, e1, e2, d)
    BY <1>6, PairEmitted
  <2> QED
    BY <1>5, <2>1 DEF PairPassed
<1>8. PICK w \in Seq(WireEvents), q \in Seq(Rounds) : w = c.wire /\ q = said
  BY <1>1, <1>2 DEF ATypes
<1>9. PICK v : v = d.wire
  OBVIOUS
<1>10. Alike(w, v, q, Len(q))
  <2>1. Orderly(w) /\ Booked(w, q, Len(q)) /\ v \in {w, w1, w2} /\ w1 = Append(w, e1)
    BY <1>1, <1>2, <1>5, <1>7, <1>8, <1>9
  <2> QED
    BY <1>4, <1>5, <2>1, QuietPair
<1>11. /\ ad' = ad /\ wire' = v /\ said' = q
       /\ run' = IF d.ok THEN [run EXCEPT !.phase = "round"]
                         ELSE [run EXCEPT !.phase = "aborted", !.failed = TRUE]
  BY <1>2, <1>3, <1>6, <1>7, <1>8, <1>9 DEF Preamble, Done, StreamPreamble
<1>12. ATypes'
  <2>1. run' \in Runs
    BY <1>1, <1>11 DEF ATypes, Runs, Phases
  <2>2. v \in Seq(WireEvents)
    BY <1>10 DEF Alike
  <2> QED
    BY <1>1, <1>8, <1>11, <2>1, <2>2 DEF ATypes
<1>13. /\ Orderly(wire') /\ Serial(wire') /\ Booked(wire', said', Len(said'))
       /\ Between(wire', ad'.blockIndex)
  BY <1>1, <1>2, <1>8, <1>10, <1>11 DEF Alike
<1>14. CASE d.ok
  <2>1. run'.phase = "round" /\ ~run'.failed
    BY <1>1, <1>11, <1>14 DEF ATypes, Runs
  <2>2. Booked(wire', said', NamedUpTo')
    BY <1>13, <2>1 DEF NamedUpTo
  <2> QED
    BY <1>12, <1>13, <2>1, <2>2 DEF AInv, Resting, Streaming, Tooling, Calling, Resulting
<1>15. CASE ~d.ok
  <2>1. run'.phase = "aborted"
    BY <1>1, <1>11, <1>15 DEF ATypes, Runs
  <2> QED
    BY <1>12, <1>13, <2>1, GivenUp
<1> QED
  BY <1>7, <1>14, <1>15 DEF InCall

LEMMA EpilogueKeeps ==
  ASSUME AInv, NEW call \in Calls, Epilogue(call)
  PROVE  AInv'
<1>1. ATypes /\ Orderly(wire) /\ Booked(wire, said, Len(said)) /\ (~run.failed => Serial(wire))
      /\ wire \in Seq(WireEvents)
  BY DEF AInv, NamedUpTo, Epilogue, ATypes
<1>2. PICK c \in InCall : c = Begin(call) /\ c.ad = ad /\ c.wire = wire
  BY <1>1, Begun
<1>3. PICK e1 \in WireEvents, e2 \in WireEvents : e1 = MessageDelta("end_turn") /\ e2 = MessageStop
  BY DEF MessageDelta, MessageStop, WireEvents, StopReasons
<1>4. ~IsBlock(e1) /\ ~IsBlock(e2)
  BY <1>3 DEF MessageDelta, MessageStop, IsBlock, IsStart, IsDelta, IsStop
<1>5. PICK w1, w2 : w1 = Append(c.wire, e1) /\ w2 = Append(w1, e2)
  OBVIOUS
<1>6. PICK d : d = EmitPair(c, <<e1, e2>>)
  OBVIOUS
<1>7. d \in InCall /\ d.ad = c.ad /\ d.wire \in {c.wire, w1, w2}
  <2>1. PairPassed(c, e1, e2, d)
    BY <1>6, PairEmitted
  <2> QED
    BY <1>5, <2>1 DEF PairPassed
<1>8. PICK w \in Seq(WireEvents), q \in Seq(Rounds) : w = c.wire /\ q = said
  BY <1>1, <1>2 DEF ATypes
<1>9. PICK v : v = d.wire
  OBVIOUS
<1>10. Alike(w, v, q, Len(q))
  <2>1. Orderly(w) /\ Booked(w, q, Len(q)) /\ v \in {w, w1, w2} /\ w1 = Append(w, e1)
    BY <1>1, <1>2, <1>5, <1>7, <1>8, <1>9
  <2> QED
    BY <1>4, <1>5, <2>1, QuietPair
<1>11. /\ ad' = ad /\ wire' = v /\ said' = q
       /\ run' = [run EXCEPT !.phase = "over", !.failed = run.failed \/ ~d.ok]
  BY <1>2, <1>3, <1>6, <1>8, <1>9 DEF Epilogue, StreamEpilogue
<1>12. run' \in Runs /\ run'.phase = "over" /\ (~run'.failed => ~run.failed)
  <2>1. run.failed \in BOOLEAN /\ d.ok \in BOOLEAN /\ run \in Runs
    BY <1>1, <1>7 DEF ATypes, Runs, InCall
  <2>2. PICK b \in BOOLEAN : b = (run.failed \/ ~d.ok)
    BY <2>1
  <2>3. run' = [run EXCEPT !.phase = "over", !.failed = b]
    BY <1>11, <2>2
  <2> QED
    BY <2>1, <2>2, <2>3 DEF Runs, Phases
<1>13. ATypes'
  <2>1. v \in Seq(WireEvents)
    BY <1>10 DEF Alike
  <2> QED
    BY <1>1, <1>8, <1>11, <1>12, <2>1 DEF ATypes
<1>14. Orderly(wire') /\ (~run'.failed => Serial(wire')) /\ Booked(wire', said', Len(said'))
  BY <1>1, <1>2, <1>8, <1>10, <1>11, <1>12 DEF Alike
<1> QED
  BY <1>12, <1>13, <1>14, GivenUp

LEMMA ProviderFailsKeeps ==
  ASSUME AInv, ProviderFails \/ Abandon
  PROVE  AInv'
<1>1. /\ ATypes /\ Orderly(wire) /\ Booked(wire, said, NamedUpTo) /\ (~run.failed => Serial(wire))
      /\ wire \in Seq(WireEvents) /\ said \in Seq(Rounds) /\ run \in Runs
  BY DEF AInv, ATypes
<1>2. /\ ad' = ad /\ wire' = wire /\ said' = said
      /\ run' = [run EXCEPT !.phase = "aborted", !.failed = TRUE] \/ run' = [run EXCEPT !.phase = "over"]
  BY DEF ProviderFails, Abandon
<1>3. run' \in Runs /\ run'.phase \in {"aborted", "over"} /\ (~run'.failed => ~run.failed)
  BY <1>1, <1>2 DEF Runs, Phases
<1>4. Booked(wire, said, Len(said))
  <2>1. PICK w \in Seq(WireEvents), q \in Seq(Rounds) : w = wire /\ q = said
    BY <1>1
  <2>2. PICK m \in Int : m = NamedUpTo /\ m <= Len(q)
    <3>1. Len(q) \in Nat
      BY <2>1
    <3>2. NamedUpTo \in Int /\ NamedUpTo <= Len(q)
      BY <2>1, <3>1 DEF NamedUpTo
    <3> QED
      BY <3>2
  <2>3. Booked(w, q, m) /\ Len(q) \in Int
    BY <1>1, <2>1, <2>2
  <2>4. Booked(w, q, Len(q))
    BY <2>2, <2>3, BookKept
  <2> QED
    BY <2>1, <2>4
<1>5. ATypes'
  BY <1>1, <1>2, <1>3 DEF ATypes
<1> QED
  BY <1>1, <1>2, <1>3, <1>4, <1>5, GivenUp

LEMMA HeardType ==
  ASSUME ATypes
  PROVE  Heard \in Nat
<1>1. PICK q \in Seq(Rounds) : q = said
  BY DEF ATypes
<1>2. CASE q = <<>>
  BY <1>1, <1>2 DEF Heard
<1>3. CASE q # <<>>
  <2>1. Len(q) \in 1 .. Len(q)
    BY <1>3
  <2>2. q[Len(q)] \in Rounds
    BY <2>1
  <2>3. q[Len(q)].deltas \in Nat
    BY <2>2 DEF Rounds
  <2> QED
    BY <1>1, <1>3, <2>3 DEF Heard, Round
<1> QED
  BY <1>2, <1>3

LEMMA OnRoundStartKeeps ==
  ASSUME AInv, OnRoundStart
  PROVE  AInv'
<1>1. /\ ATypes /\ Orderly(wire) /\ Booked(wire, said, Len(said)) /\ ~run.failed /\ Serial(wire)
      /\ Between(wire, ad.blockIndex) /\ run.phase = "round"
  BY DEF AInv, NamedUpTo, OnRoundStart, Resting
<1>2. /\ ad \in Adapters /\ wire \in Seq(WireEvents) /\ run \in Runs /\ said \in Seq(Rounds)
      /\ ad.toolCallCount <= MaxTools /\ ad.rounds <= MaxRounds
  BY <1>1 DEF ATypes
<1>3. PICK x \in Rounds : x = [deltas |-> Heard, thinking |-> EmptyText, text |-> EmptyText,
                               calls |-> <<>>]
  <2>1. Heard \in Nat
    BY <1>1, HeardType
  <2>2. [deltas |-> Heard, thinking |-> EmptyText, text |-> EmptyText, calls |-> <<>>] \in Rounds
    BY <2>1 DEF Rounds, EmptyText
  <2> QED
    BY <2>2
<1>4. PICK b \in Nat : b = ad.blockIndex
  BY <1>2 DEF Adapters
<1>5. PICK rs \in RoundStreams : rs = NewRoundStream(b)
  <2>1. NewStreamer(b) \in Streamers /\ NoStreamer \in Streamers
    BY DEF NewStreamer, NoStreamer, Streamers, EmptyText
  <2> QED
    BY <2>1 DEF NewRoundStream, RoundStreams
<1>6. ~rs.opened /\ rs.thinking.index = b /\ ~rs.thinking.started
  BY <1>5 DEF NewRoundStream, NewStreamer
<1>7. /\ ad' = [ad EXCEPT !.round = rs] /\ wire' = wire /\ said' = Append(said, x)
      /\ run' = [run EXCEPT !.phase = "streaming"] /\ Len(said) < MaxRounds
  BY <1>3, <1>4, <1>5 DEF OnRoundStart, Round
<1>8. /\ ad' \in Adapters /\ ad'.round = rs /\ ad'.toolCallCount = ad.toolCallCount
      /\ ad'.rounds = ad.rounds
  BY <1>2, <1>5, <1>7 DEF Adapters
<1>9. run' \in Runs /\ run'.phase = "streaming" /\ ~run'.failed
  BY <1>1, <1>2, <1>7 DEF Runs, Phases
<1>10. PICK q \in Seq(Rounds), z \in Seq(Rounds) : q = said /\ z = said'
  <2>1. Append(said, x) \in Seq(Rounds)
    BY <1>2, <1>3
  <2> QED
    BY <1>2, <1>7, <2>1
<1>11. Len(z) = Len(q) + 1 /\ Len(q) \in Nat /\ \A i \in 1 .. Len(q) : z[i] = q[i]
  BY <1>7, <1>10
<1>12. ATypes'
  <2>1. MaxRounds \in Nat
    BY AdapterAssumption
  <2> QED
    BY <1>2, <1>7, <1>8, <1>9, <1>10, <1>11, <2>1 DEF ATypes
<1>13. Booked(wire', said', NamedUpTo')
  <2>1. PICK w \in Seq(WireEvents) : w = wire
    BY <1>2
  <2>2. Booked(w, q, Len(q)) /\ Len(q) \in Int
    BY <1>1, <1>10, <1>11, <2>1
  <2>3. Booked(w, z, Len(q))
    BY <1>11, <2>2, BookKept
  <2>4. NamedUpTo' = Len(q)
    BY <1>9, <1>10, <1>11 DEF NamedUpTo
  <2> QED
    BY <1>7, <1>10, <2>1, <2>3, <2>4
<1>14. Midway(ad', wire')
  BY <1>1, <1>4, <1>6, <1>7, <1>8 DEF Midway, BlockAt, Between
<1>15. Len(said') > 0
  BY <1>10, <1>11
<1> QED
  BY <1>1, <1>7, <1>9, <1>12, <1>13, <1>14, <1>15
     DEF AInv, Resting, Streaming, Tooling, Calling, Resulting

LEMMA IsSeq ==
  ASSUME NEW T, NEW n \in Nat, NEW f \in [1 .. n -> T]
  PROVE  f \in Seq(T) /\ Len(f) = n
OBVIOUS

LEMMA LastChanged ==
  ASSUME NEW q \in Seq(Rounds), Len(q) > 0, NEW x \in Rounds,
         NEW z, z = [q EXCEPT ![Len(q)] = x]
  PROVE  /\ z \in Seq(Rounds) /\ Len(z) = Len(q) /\ z[Len(q)] = x
         /\ \A i \in 1 .. Len(q) - 1 : z[i] = q[i]
<1>1. Len(q) \in Nat /\ DOMAIN q = 1 .. Len(q) /\ \A i \in 1 .. Len(q) : q[i] \in Rounds
  OBVIOUS
<1>2. DOMAIN z = 1 .. Len(q) /\ \A i \in 1 .. Len(q) : z[i] = IF i = Len(q) THEN x ELSE q[i]
  BY <1>1
<1>3. z = [i \in 1 .. Len(q) |-> z[i]]
  BY <1>1, <1>2
<1>4. \A i \in 1 .. Len(q) : z[i] \in Rounds
  BY <1>1, <1>2
<1>5. z \in [1 .. Len(q) -> Rounds]
  BY <1>3, <1>4, Zenon
<1>6. z \in Seq(Rounds) /\ Len(z) = Len(q)
  BY <1>1, <1>5, IsSeq
<1>7. PICK n \in Nat : n = Len(q) /\ n > 0
  BY <1>1
<1>8. /\ n \in 1 .. n
      /\ \A i \in 1 .. n - 1 : i \in 1 .. n /\ i # n
  BY <1>7
<1>9. z[n] = x /\ \A i \in 1 .. n - 1 : z[i] = q[i]
  BY <1>2, <1>7, <1>8
<1> QED
  BY <1>6, <1>7, <1>9

LEMMA HearType ==
  ASSUME NEW o \in Rounds, NEW x \in Seq(Nat), NEW y \in Seq(Nat)
  PROVE  Hear(o, x, y) \in Rounds
<1>1. o.deltas + 1 \in Nat /\ o.thinking \in Seq(Nat) /\ o.text \in Seq(Nat)
  BY DEF Rounds
<1>2. o.thinking \o x \in Seq(Nat) /\ o.text \o y \in Seq(Nat)
  BY <1>1
<1>3. PICK u \in Seq(Nat), v \in Seq(Nat) :
        u = (IF o.text = EmptyText THEN o.thinking \o x ELSE o.thinking) /\ v = o.text \o y
  BY <1>1, <1>2
<1>4. [o EXCEPT !.deltas = o.deltas + 1, !.thinking = u, !.text = v] \in Rounds
  BY <1>1, <1>3 DEF Rounds
<1>5. Hear(o, x, y) = [o EXCEPT !.deltas = o.deltas + 1, !.thinking = u, !.text = v]
  BY <1>3 DEF Hear, Rounds
<1> QED
  BY <1>4, <1>5

LEMMA OnDeltaKeeps ==
  ASSUME AInv, NEW call \in Calls, NEW thinks \in BOOLEAN, NEW speaks \in BOOLEAN,
         OnDelta(call, thinks, speaks)
  PROVE  AInv'
<1>1. /\ ATypes /\ Orderly(wire) /\ Booked(wire, said, Len(said) - 1) /\ ~run.failed /\ Serial(wire)
      /\ Midway(ad, wire) /\ run.phase = "streaming" /\ Len(said) > 0
  BY DEF AInv, NamedUpTo, OnDelta, Streaming
<1>2. /\ ad \in Adapters /\ wire \in Seq(WireEvents) /\ run \in Runs /\ said \in Seq(Rounds)
      /\ ad.toolCallCount <= MaxTools /\ ad.rounds <= MaxRounds /\ Len(said) <= MaxRounds
  BY <1>1 DEF ATypes
<1>3. PICK x \in Seq(Nat), y \in Seq(Nat) :
        /\ x = IF thinks THEN <<DeltaNumber>> ELSE EmptyText
        /\ y = IF speaks THEN <<DeltaNumber>> ELSE EmptyText
  <2>1. DeltaNumber \in Nat
    BY <1>1, HeardType DEF DeltaNumber
  <2>2. <<DeltaNumber>> \in Seq(Nat) /\ EmptyText \in Seq(Nat)
    BY <2>1 DEF EmptyText
  <2> QED
    BY <2>2
<1>4. PICK q \in Seq(Rounds), w \in Seq(WireEvents) : q = said /\ w = wire
  BY <1>2
<1>5. PICK c \in InCall : c = Begin(call) /\ c.ad = ad /\ c.wire = w /\ c.ok
  BY <1>1, <1>4, Begun
<1>6. Fine(c, q, Len(q) - 1)
  BY <1>1, <1>4, <1>5 DEF Fine
<1>7. PICK d : d = handleDelta(c, x, y)
  OBVIOUS
<1>8. Fine(d, q, Len(q) - 1) /\ SameTools(c, d)
  BY <1>6, <1>7, DeltaHandled
<1>9. /\ d \in InCall /\ d.ad \in Adapters /\ d.wire \in Seq(WireEvents) /\ d.ok \in BOOLEAN
      /\ Orderly(d.wire) /\ Serial(d.wire) /\ Booked(d.wire, q, Len(q) - 1)
      /\ d.ok => Midway(d.ad, d.wire)
  BY <1>8 DEF Fine, InCall
<1>10. PICK a \in Rounds : a = Hear(q[Len(q)], x, y)
  <2>1. q[Len(q)] \in Rounds
    BY <1>1, <1>4
  <2>2. Hear(q[Len(q)], x, y) \in Rounds
    BY <2>1, HearType
  <2> QED
    BY <2>2
<1>11. PICK z : z = [q EXCEPT ![Len(q)] = a]
  OBVIOUS
<1>12. /\ z \in Seq(Rounds) /\ Len(z) = Len(q) /\ Len(q) \in Nat
       /\ \A i \in 1 .. Len(q) - 1 : z[i] = q[i]
  BY <1>1, <1>4, <1>10, <1>11, LastChanged
<1>13. /\ ad' = d.ad /\ wire' = d.wire /\ said' = z
       /\ run' = IF d.ok THEN run ELSE [run EXCEPT !.phase = "aborted", !.failed = TRUE]
  <2>1. ad' = d.ad /\ wire' = d.wire
        /\ run' = IF d.ok THEN run ELSE [run EXCEPT !.phase = "aborted", !.failed = TRUE]
    BY <1>3, <1>5, <1>7 DEF OnDelta, Done
  <2>2. said' = [said EXCEPT ![Round] = Hear(said[Round], x, y)]
    BY <1>3 DEF OnDelta
  <2>3. said' = z
    BY <1>4, <1>10, <1>11, <2>2 DEF Round
  <2> QED
    BY <2>1, <2>3
<1>14. ATypes'
  <2>1. run' \in Runs
    BY <1>2, <1>13 DEF Runs, Phases
  <2>2. d.ad.toolCallCount <= MaxTools /\ d.ad.rounds <= MaxRounds
    BY <1>2, <1>5, <1>8 DEF SameTools
  <2> QED
    BY <1>2, <1>4, <1>9, <1>12, <1>13, <2>1, <2>2 DEF ATypes
<1>15. PICK v \in Seq(WireEvents) : v = d.wire
  BY <1>9
<1>16. Booked(v, z, Len(z) - 1) /\ Booked(v, z, Len(z))
  <2>1. Booked(v, q, Len(q) - 1) /\ Len(q) - 1 \in Int /\ Len(q) \in Int
    BY <1>9, <1>12, <1>15
  <2>2. \A i \in 1 .. Len(q) - 1 : z[i].calls = q[i].calls
    BY <1>12
  <2>3. Booked(v, z, Len(q) - 1)
    BY <2>1, <2>2, BookKept
  <2>4. Booked(v, z, Len(q))
    BY <2>1, <2>2, BookKept
  <2> QED
    BY <1>12, <2>3, <2>4
<1>17. CASE d.ok
  <2>1. run' = run
    BY <1>13, <1>17
  <2>2. Booked(wire', said', NamedUpTo')
    BY <1>1, <1>13, <1>15, <1>16, <2>1 DEF NamedUpTo
  <2>3. Orderly(wire') /\ Serial(wire') /\ Midway(ad', wire') /\ Len(said') > 0
    BY <1>1, <1>4, <1>9, <1>12, <1>13, <1>17
  <2> QED
    BY <1>1, <1>14, <2>1, <2>2, <2>3 DEF AInv, Resting, Streaming, Tooling, Calling, Resulting
<1>18. CASE ~d.ok
  <2>1. run'.phase = "aborted"
    BY <1>2, <1>13, <1>18 DEF Runs
  <2>2. Orderly(wire') /\ Serial(wire') /\ Booked(wire', said', Len(said'))
    BY <1>9, <1>13, <1>15, <1>16
  <2> QED
    BY <1>14, <2>1, <2>2, GivenUp
<1> QED
  BY <1>9, <1>17, <1>18

LEMMA CallListType ==
  ASSUME ATypes, NEW calls \in CallLists
  PROVE  /\ calls \in Seq(ToolCalls) /\ Len(calls) \in Nat /\ Len(calls) <= MaxTools
         /\ \A k \in 1 .. Len(calls) : calls[k].tag = <<Len(said), k>>
<1>1. PICK n \in 0 .. MaxTools : \E bare \in 0 .. n :
        calls = [k \in 1 .. n |-> [id |-> CallID(k), tag |-> <<Round, k>>, input |-> k # bare]]
  <2> DEFINE lists(n) ==
        {[k \in 1 .. n |-> [id |-> CallID(k), tag |-> <<Round, k>>, input |-> k # bare]] :
           bare \in 0 .. n}
  <2>1. calls \in UNION {lists(n) : n \in 0 .. MaxTools}
    BY DEF CallLists
  <2>2. PICK n \in 0 .. MaxTools : calls \in lists(n)
    <3> HIDE DEF lists
    <3> QED
      BY <2>1
  <2> QED
    BY <2>2
<1> PICK bare \in 0 .. n :
      calls = [k \in 1 .. n |-> [id |-> CallID(k), tag |-> <<Round, k>>, input |-> k # bare]]
  BY <1>1
<1>2. n \in Nat /\ n <= MaxTools
  BY AdapterAssumption
<1>3. PICK m \in Nat : m = Len(said)
  BY DEF ATypes
<1>4. ASSUME NEW k \in 1 .. n
      PROVE  /\ calls[k] \in ToolCalls /\ calls[k].tag = <<m, k>>
  <2>1. calls[k] = [id |-> CallID(k), tag |-> <<m, k>>, input |-> k # bare]
    BY <1>1, <1>3 DEF Round
  <2>2. <<m, k>> \in Tags /\ CallID(k) \in Tags
    BY <1>2, <1>3 DEF Tags, CallID, Round
  <2>3. (k # bare) \in BOOLEAN
    OBVIOUS
  <2> QED
    BY <2>1, <2>2, <2>3 DEF ToolCalls
<1>5. calls = [k \in 1 .. n |-> calls[k]]
  BY <1>1
<1>6. calls \in [1 .. n -> ToolCalls]
  BY <1>4, <1>5, Zenon
<1>7. calls \in Seq(ToolCalls) /\ Len(calls) = n
  BY <1>2, <1>6, IsSeq
<1> QED
  BY <1>2, <1>3, <1>4, <1>7

WithTools(c, i, k, n) ==
  [c EXCEPT !.ad.blockIndex    = i,
            !.ad.toolBase      = i,
            !.ad.toolCallCount = k,
            !.ad.rounds        = n]

Counted(c, i, k, n, d) ==
  /\ d.ad \in Adapters /\ d.wire = c.wire /\ d.ok = c.ok
  /\ d.ad.blockIndex = i /\ d.ad.toolBase = i /\ d.ad.toolCallCount = k /\ d.ad.rounds = n

LEMMA ToolsCounted ==
  ASSUME NEW c \in InCall, NEW i \in Nat, NEW k \in Nat, NEW n \in Nat
  PROVE  Counted(c, i, k, n, WithTools(c, i, k, n))
<1>1. c.ad \in Adapters
  BY DEF InCall
<1>2. PICK a : a = [c.ad EXCEPT !.blockIndex = i, !.toolBase = i, !.toolCallCount = k, !.rounds = n]
  OBVIOUS
<1>3. /\ a \in Adapters
      /\ a.blockIndex = i /\ a.toolBase = i /\ a.toolCallCount = k /\ a.rounds = n
  BY <1>1, <1>2 DEF Adapters
<1>4. PICK g : g = [c EXCEPT !.ad = a]
  OBVIOUS
<1>5. g.ad = a /\ g.wire = c.wire /\ g.ok = c.ok
  BY <1>4 DEF InCall
<1>6. WithTools(c, i, k, n) = g
  BY <1>1, <1>2, <1>4 DEF WithTools, InCall, Adapters
<1> QED
  BY <1>3, <1>5, <1>6 DEF Counted

LEMMA OnAssistantMessageKeeps ==
  ASSUME AInv, NEW call \in Calls, NEW calls \in CallLists, OnAssistantMessage(call, calls)
  PROVE  AInv'
<1>1. /\ ATypes /\ Orderly(wire) /\ Booked(wire, said, Len(said) - 1) /\ ~run.failed /\ Serial(wire)
      /\ Midway(ad, wire) /\ run.phase = "streaming" /\ Len(said) > 0
  BY DEF AInv, NamedUpTo, OnAssistantMessage, Streaming
<1>2. /\ ad \in Adapters /\ wire \in Seq(WireEvents) /\ run \in Runs /\ said \in Seq(Rounds)
      /\ ad.toolCallCount <= MaxTools /\ ad.rounds <= MaxRounds /\ Len(said) <= MaxRounds
  BY <1>1 DEF ATypes
<1>3. /\ calls \in Seq(ToolCalls) /\ Len(calls) \in Nat /\ Len(calls) <= MaxTools
      /\ \A k \in 1 .. Len(calls) : calls[k].tag = <<Len(said), k>>
  BY <1>1, CallListType
<1>4. PICK q \in Seq(Rounds), w \in Seq(WireEvents) : q = said /\ w = wire
  BY <1>2
<1>5. PICK c \in InCall : c = Begin(call) /\ c.ad = ad /\ c.wire = w /\ c.ok
  BY <1>1, <1>4, Begun
<1>6. Fine(c, q, Len(q) - 1)
  BY <1>1, <1>4, <1>5 DEF Fine
<1>7. PICK f : f = finish(c)
  OBVIOUS
<1>8. /\ Fine(f, q, Len(q) - 1) /\ SameTools(c, f)
      /\ f.ok => /\ nextBlockIndex(f.ad.round) \in Nat
                 /\ Between(f.wire, nextBlockIndex(f.ad.round))
  BY <1>6, <1>7, Finished
<1>9. /\ f \in InCall /\ f.ad \in Adapters /\ f.wire \in Seq(WireEvents) /\ f.ok \in BOOLEAN
      /\ Orderly(f.wire) /\ Serial(f.wire) /\ Booked(f.wire, q, Len(q) - 1)
  BY <1>8 DEF Fine, InCall
<1>10. PICK ran \in Seq(ToolCalls) : ran = IF Len(q) < MaxRounds THEN calls ELSE <<>>
  <2>1. (IF Len(q) < MaxRounds THEN calls ELSE <<>>) \in Seq(ToolCalls)
    BY <1>3
  <2> QED
    BY <2>1
<1>11. PICK a \in Rounds : a = [q[Len(q)] EXCEPT !.calls = ran] /\ a.calls = ran
  <2>1. q[Len(q)] \in Rounds
    BY <1>1, <1>4
  <2>2. [q[Len(q)] EXCEPT !.calls = ran] \in Rounds
        /\ [q[Len(q)] EXCEPT !.calls = ran].calls = ran
    BY <2>1 DEF Rounds
  <2> QED
    BY <2>2
<1>12. PICK z : z = [q EXCEPT ![Len(q)] = a]
  OBVIOUS
<1>13. /\ z \in Seq(Rounds) /\ Len(z) = Len(q) /\ Len(q) \in Nat /\ z[Len(q)] = a
       /\ \A i \in 1 .. Len(q) - 1 : z[i] = q[i]
  <2>1. Len(q) > 0 /\ Len(q) \in Nat
    BY <1>1, <1>4
  <2>2. /\ z \in Seq(Rounds) /\ Len(z) = Len(q) /\ z[Len(q)] = a
        /\ \A i \in 1 .. Len(q) - 1 : z[i] = q[i]
    BY <1>12, <2>1, LastChanged
  <2> QED
    BY <2>1, <2>2
<1>14. said' = z
  <2>1. said' = [said EXCEPT ![Round].calls = ran]
    BY <1>4, <1>10 DEF OnAssistantMessage, Round
  <2> QED
    BY <1>4, <1>11, <1>12, <2>1 DEF Round
<1>15. PICK v \in Seq(WireEvents) : v = f.wire
  BY <1>9
<1>16. Booked(v, z, Len(z))
  <2>1. Booked(v, q, Len(q) - 1) /\ Len(q) - 1 \in Int /\ Len(q) \in Int
    BY <1>9, <1>13, <1>15
  <2>2. \A i \in 1 .. Len(q) - 1 : z[i].calls = q[i].calls
    BY <1>13
  <2>3. Booked(v, z, Len(q))
    BY <2>1, <2>2, BookKept
  <2> QED
    BY <1>13, <2>3
<1>17. PICK d : d = finishRound(c, calls)
  OBVIOUS
<1>18. /\ ad' = d.ad /\ wire' = d.wire
       /\ run' = IF d.ok THEN [run EXCEPT !.phase = IF calls = <<>> THEN "finished"
                                                    ELSE IF Len(q) < MaxRounds THEN "calling"
                                                    ELSE "aborted",
                                          !.calls = ran, !.next = 1]
                         ELSE [run EXCEPT !.phase = "aborted", !.failed = TRUE]
  BY <1>4, <1>5, <1>10, <1>17 DEF OnAssistantMessage, Done, Round
<1>19. CASE ~f.ok
  <2>1. d = f
    BY <1>7, <1>17, <1>19 DEF finishRound
  <2>2. /\ ad' = f.ad /\ wire' = v /\ run' = [run EXCEPT !.phase = "aborted", !.failed = TRUE]
    BY <1>15, <1>18, <1>19, <2>1
  <2>3. run' \in Runs /\ run'.phase = "aborted"
    BY <1>2, <2>2 DEF Runs, Phases
  <2>4. f.ad.toolCallCount <= MaxTools /\ f.ad.rounds <= MaxRounds
    BY <1>2, <1>5, <1>8 DEF SameTools
  <2>5. ATypes'
    BY <1>2, <1>4, <1>9, <1>13, <1>14, <1>15, <2>2, <2>3, <2>4 DEF ATypes
  <2> QED
    BY <1>9, <1>14, <1>15, <1>16, <2>2, <2>3, <2>5, GivenUp
<1>20. CASE f.ok
  <2>1. PICK i \in Nat : i = nextBlockIndex(f.ad.round)
    BY <1>8, <1>20
  <2>2. PICK g : g = WithTools(f, i, Len(calls), Len(q))
    OBVIOUS
  <2>3. d = g
    BY <1>4, <1>7, <1>17, <1>20, <2>1, <2>2 DEF finishRound, WithTools, Round
  <2>4. /\ g.ad \in Adapters /\ g.wire = f.wire /\ g.ok = f.ok
        /\ g.ad.blockIndex = i /\ g.ad.toolBase = i /\ g.ad.toolCallCount = Len(calls)
        /\ g.ad.rounds = Len(q)
    <3>1. PICK k \in Nat, n \in Nat : k = Len(calls) /\ n = Len(q)
      BY <1>3, <1>13
    <3>2. f \in InCall /\ g = WithTools(f, i, k, n)
      BY <1>9, <2>2, <3>1
    <3>3. Counted(f, i, k, n, g)
      BY <3>2, ToolsCounted
    <3> QED
      BY <3>1, <3>3 DEF Counted
  <2>5. /\ ad' \in Adapters /\ ad'.blockIndex = i /\ ad'.toolBase = i
        /\ ad'.toolCallCount = Len(calls) /\ ad'.rounds = Len(q) /\ wire' = v
    BY <1>15, <1>18, <2>3, <2>4
  <2>6. Between(wire', i)
    BY <1>8, <1>15, <1>20, <2>1, <2>5
  <2>7. PICK ph \in {"finished", "calling", "aborted"} :
          ph = IF calls = <<>> THEN "finished"
               ELSE IF Len(q) < MaxRounds THEN "calling" ELSE "aborted"
    OBVIOUS
  <2>8. run' = [run EXCEPT !.phase = ph, !.calls = ran, !.next = 1]
    BY <1>18, <1>20, <2>3, <2>4, <2>7
  <2>9. /\ run' \in Runs /\ run'.phase = ph /\ run'.calls = ran /\ run'.next = 1 /\ ~run'.failed
    BY <1>1, <1>2, <1>10, <2>7, <2>8 DEF Runs, Phases
  <2>10. ATypes'
    BY <1>2, <1>3, <1>4, <1>13, <1>14, <2>5, <2>9 DEF ATypes
  <2>11. Orderly(wire') /\ Serial(wire') /\ Booked(wire', said', Len(said'))
    BY <1>9, <1>14, <1>15, <1>16, <2>5
  <2>12. CASE ph = "aborted"
    BY <2>9, <2>10, <2>11, <2>12, GivenUp
  <2>13. CASE ph = "finished"
    <3>1. Booked(wire', said', NamedUpTo')
      BY <2>9, <2>11, <2>13 DEF NamedUpTo
    <3> QED
      BY <2>5, <2>6, <2>9, <2>10, <2>11, <2>13, <3>1
         DEF AInv, Resting, Streaming, Tooling, Calling, Resulting
  <2>14. CASE ph = "calling"
    <3>1. Booked(wire', said', NamedUpTo')
      BY <2>9, <2>11, <2>14 DEF NamedUpTo
    <3>2. ran = calls /\ calls # <<>>
      BY <1>10, <2>7, <2>14
    <3>3. Len(calls) \in Nat \ {0}
      BY <1>3, <3>2
    <3>4. Len(said') > 0 /\ said'[Len(said')].calls = run'.calls
      BY <1>1, <1>4, <1>11, <1>13, <1>14, <2>9
    <3>5. \A k \in 1 .. Len(calls) : calls[k].tag = <<Len(said'), k>>
      BY <1>3, <1>4, <1>13, <1>14
    <3>6. Tooling'
      BY <2>5, <2>9, <3>2, <3>3, <3>4, <3>5 DEF Tooling
    <3>7. Calling'
      <4>1. ad'.toolBase + (run'.next - 1) = i
        BY <2>5, <2>9
      <4>2. 1 .. run'.next - 1 = {}
        BY <2>9
      <4> QED
        BY <2>6, <2>9, <4>1, <4>2 DEF Calling
    <3> QED
      BY <2>9, <2>10, <2>11, <2>14, <3>1, <3>6, <3>7 DEF AInv, Resting, Streaming, Resulting
  <2> QED
    BY <2>7, <2>12, <2>13, <2>14
<1> QED
  BY <1>9, <1>19, <1>20

ForUse(e, t) == e.id = t.id /\ e.name = t.tag

LEMMA ToolEvents ==
  ASSUME NEW i \in Nat, NEW t \in ToolCalls
  PROVE  /\ ToolUseStart(i, t.id, t.tag) \in WireEvents
         /\ ToolInputDelta(i, Input(t)) \in WireEvents
         /\ ToolResultStart(i, t.id) \in WireEvents
         /\ ToolResultDelta(i, Output(t)) \in WireEvents
         /\ ForUse(ToolUseStart(i, t.id, t.tag), t) /\ ToolResultStart(i, t.id).id = t.id
         /\ ForBlock(ToolUseStart(i, t.id, t.tag), ToolInputDelta(i, Input(t)), BlockStop(i),
                     i, "tool_use")
         /\ ForBlock(ToolResultStart(i, t.id), ToolResultDelta(i, Output(t)), BlockStop(i),
                     i, "tool_result")
<1>1. t.id \in Tags /\ t.tag \in Tags
  BY DEF ToolCalls
<1>2. Input(t) \in Seq(Tags) /\ Output(t) \in Seq(Tags)
  BY <1>1 DEF Input, Output, EmptyText
<1>3. /\ ToolUseStart(i, t.id, t.tag) \in WireEvents
      /\ ToolInputDelta(i, Input(t)) \in WireEvents
      /\ ToolResultStart(i, t.id) \in WireEvents
      /\ ToolResultDelta(i, Output(t)) \in WireEvents
  BY <1>1, <1>2 DEF ToolUseStart, ToolInputDelta, ToolResultStart, ToolResultDelta,
                    WireEvents, Kinds
<1>4. ForUse(ToolUseStart(i, t.id, t.tag), t) /\ ToolResultStart(i, t.id).id = t.id
  BY DEF ForUse, ToolUseStart, ToolResultStart
<1>5. ForBlock(ToolUseStart(i, t.id, t.tag), ToolInputDelta(i, Input(t)), BlockStop(i),
               i, "tool_use")
  BY DEF ForBlock, ToolUseStart, ToolInputDelta, BlockStop, IsStart, IsDelta, IsStop
<1>6. ForBlock(ToolResultStart(i, t.id), ToolResultDelta(i, Output(t)), BlockStop(i),
               i, "tool_result")
  BY DEF ForBlock, ToolResultStart, ToolResultDelta, BlockStop, IsStart, IsDelta, IsStop
<1> QED
  BY <1>3, <1>4, <1>5, <1>6

(* The wire v, at some point of a block that is sent after w.              *)
Extends(w, v, s, m, i) ==
  /\ v \in Seq(WireEvents) /\ Orderly(v) /\ Below(v, i + 1) /\ Booked(v, s, m)
  /\ Solid(w, i) /\ Serial(w) => Serial(v)

LEMMA UseSent ==
  ASSUME NEW w \in Seq(WireEvents), Orderly(w), NEW i \in Nat, Below(w, i),
         NEW s, NEW m, Booked(w, s, m),
         NEW t \in ToolCalls, t.tag[1] \in 1 .. m,
         NEW e1 \in WireEvents, NEW e2 \in WireEvents, NEW e3 \in WireEvents,
         ForUse(e1, t), ForBlock(e1, e2, e3, i, "tool_use"),
         NEW w1, w1 = Append(w, e1), NEW w2, w2 = Append(w1, e2), NEW w3, w3 = Append(w2, e3)
  PROVE  /\ Extends(w, w, s, m, i) /\ Extends(w, w1, s, m, i)
         /\ Extends(w, w2, s, m, i) /\ Extends(w, w3, s, m, i)
         /\ Solid(w, i) => Solid(w3, i + 1)
         /\ UsedAt(w3, i, t)
         /\ \A j, u : UsedAt(w, j, u) => UsedAt(w3, j, u)
<1>1. /\ IsStart(e1) /\ e1.index = i /\ e1.block = "tool_use" /\ e1.name = t.tag /\ e1.id = t.id
      /\ IsStop(e3) /\ e3.index = i /\ ~IsStart(e2) /\ ~IsStart(e3)
  BY EventShape DEF ForUse, ForBlock
<1>2. /\ w1 \in Seq(WireEvents) /\ Orderly(w1) /\ Below(w1, i + 1)
      /\ w2 \in Seq(WireEvents) /\ Orderly(w2) /\ Below(w2, i + 1)
      /\ w3 \in Seq(WireEvents) /\ Orderly(w3) /\ Below(w3, i + 1)
      /\ Below(w, i + 1)
      /\ Solid(w, i) => Solid(w3, i + 1)
      /\ Solid(w, i) /\ Serial(w) => Serial(w1) /\ Serial(w2) /\ Serial(w3)
  <2>1. Sent(w, e1, e2, e3, i)
    BY BlockSent
  <2> QED
    BY <2>1 DEF Sent
<1>3. Booked(w1, s, m)
  BY <1>1, UseBooked
<1>4. Booked(w2, s, m)
  BY <1>1, <1>2, <1>3, BookStep
<1>5. Booked(w3, s, m)
  BY <1>1, <1>2, <1>4, BookStep
<1>6. UsedAt(w3, i, t)
  <2>1. PICK p \in Nat : p = Len(w)
    OBVIOUS
  <2>2. Len(w1) = p + 1 /\ Len(w2) = p + 2 /\ Len(w3) = p + 3
    BY <1>2, <2>1
  <2>3. w3[p + 1] = e1 /\ w3[p + 3] = e3
    BY <1>2, <2>1, <2>2
  <2>4. p + 1 \in DOMAIN w3 /\ p + 3 \in DOMAIN w3
    BY <1>2, <2>2
  <2>5. p + 1 \in StartsIn(w3) /\ p + 3 \in StopsOf(w3, i)
    BY <1>1, <2>3, <2>4 DEF StartsIn, StopsOf
  <2> QED
    BY <1>1, <2>3, <2>5 DEF UsedAt
<1>7. ASSUME NEW j, NEW u, UsedAt(w, j, u)
      PROVE  UsedAt(w3, j, u)
  <2>1. UsedAt(w1, j, u)
    BY <1>7, UsedStep
  <2>2. UsedAt(w2, j, u)
    BY <1>2, <2>1, UsedStep
  <2> QED
    BY <1>2, <2>2, UsedStep
<1> QED
  BY <1>2, <1>3, <1>4, <1>5, <1>6, <1>7 DEF Extends

Resulted(w, e1, e2, e3, s, m, i) ==
  LET w1 == Append(w, e1)
      w2 == Append(w1, e2)
      w3 == Append(w2, e3)
  IN  /\ Extends(w, w, s, m, i) /\ Extends(w, w1, s, m, i)
      /\ Extends(w, w2, s, m, i) /\ Extends(w, w3, s, m, i)
      /\ Solid(w, i) => Solid(w3, i + 1)
      /\ \A k, u : UsedAt(w, k, u) => UsedAt(w1, k, u) /\ UsedAt(w2, k, u) /\ UsedAt(w3, k, u)

LEMMA ResultSent ==
  ASSUME NEW w \in Seq(WireEvents), Orderly(w), NEW i \in Nat, Below(w, i),
         NEW s, NEW m, Booked(w, s, m),
         NEW t \in ToolCalls, NEW j, UsedAt(w, j, t), i - j = Len(s[t.tag[1]].calls),
         NEW e1 \in WireEvents, NEW e2 \in WireEvents, NEW e3 \in WireEvents,
         e1.id = t.id, ForBlock(e1, e2, e3, i, "tool_result")
  PROVE  Resulted(w, e1, e2, e3, s, m, i)
<1>0. PICK w1, w2, w3 : w1 = Append(w, e1) /\ w2 = Append(w1, e2) /\ w3 = Append(w2, e3)
  OBVIOUS
<1>1. IsStart(e1) /\ e1.index = i /\ e1.block = "tool_result" /\ ~IsStart(e2) /\ ~IsStart(e3)
  BY EventShape DEF ForBlock
<1>2. /\ w1 \in Seq(WireEvents) /\ Orderly(w1) /\ Below(w1, i + 1)
      /\ w2 \in Seq(WireEvents) /\ Orderly(w2) /\ Below(w2, i + 1)
      /\ w3 \in Seq(WireEvents) /\ Orderly(w3) /\ Below(w3, i + 1)
      /\ Below(w, i + 1)
      /\ Solid(w, i) => Solid(w3, i + 1)
      /\ Solid(w, i) /\ Serial(w) => Serial(w1) /\ Serial(w2) /\ Serial(w3)
  <2>1. Sent(w, e1, e2, e3, i)
    BY BlockSent
  <2> QED
    BY <1>0, <2>1 DEF Sent
<1>3. Booked(w1, s, m)
  BY <1>0, <1>1, ResultBooked
<1>4. Booked(w2, s, m)
  BY <1>0, <1>1, <1>2, <1>3, BookStep
<1>5. Booked(w3, s, m)
  BY <1>0, <1>1, <1>2, <1>4, BookStep
<1>6. ASSUME NEW k, NEW u, UsedAt(w, k, u)
      PROVE  UsedAt(w1, k, u) /\ UsedAt(w2, k, u) /\ UsedAt(w3, k, u)
  <2>1. UsedAt(w1, k, u)
    BY <1>0, <1>6, UsedStep
  <2>2. UsedAt(w2, k, u)
    BY <1>0, <1>2, <2>1, UsedStep
  <2>3. UsedAt(w3, k, u)
    BY <1>0, <1>2, <2>2, UsedStep
  <2> QED
    BY <2>1, <2>2, <2>3
<1>7. /\ Extends(w, w, s, m, i) /\ Extends(w, w1, s, m, i)
      /\ Extends(w, w2, s, m, i) /\ Extends(w, w3, s, m, i)
  BY <1>2, <1>3, <1>4, <1>5 DEF Extends
<1> QED
  BY <1>0, <1>2, <1>6, <1>7 DEF Resulted

LEMMA UseEmitted ==
  ASSUME NEW w \in Seq(WireEvents), Orderly(w), NEW i \in Nat, Below(w, i),
         NEW s, NEW m, Booked(w, s, m),
         NEW t \in ToolCalls, t.tag[1] \in 1 .. m,
         NEW c \in InCall, c.wire = w,
         NEW d, d = EmitBlock(c, ToolUseBlock(i, t.id, t.tag, Input(t)))
  PROVE  /\ d \in InCall /\ d.ad = c.ad /\ Extends(w, d.wire, s, m, i)
         /\ d.ok => /\ Solid(w, i) => Solid(d.wire, i + 1)
                    /\ UsedAt(d.wire, i, t)
                    /\ \A j, u : UsedAt(w, j, u) => UsedAt(d.wire, j, u)
<1>1. PICK e1 \in WireEvents, e2 \in WireEvents, e3 \in WireEvents :
        /\ e1 = ToolUseStart(i, t.id, t.tag)
        /\ e2 = ToolInputDelta(i, Input(t))
        /\ e3 = BlockStop(i)
  BY ToolEvents, StopEvent
<1>2. ForUse(e1, t) /\ ForBlock(e1, e2, e3, i, "tool_use")
  BY <1>1, ToolEvents
<1>3. d = EmitBlock(c, <<e1, e2, e3>>)
  BY <1>1 DEF ToolUseBlock
<1>4. BlockPassed(c, e1, e2, e3, d)
  BY <1>3, BlockEmitted
<1>5. PICK w1, w2, w3 : w1 = Append(w, e1) /\ w2 = Append(w1, e2) /\ w3 = Append(w2, e3)
  OBVIOUS
<1>6. d \in InCall /\ d.ad = c.ad /\ d.wire \in {w, w1, w2, w3} /\ (d.ok => d.wire = w3)
  BY <1>4, <1>5 DEF BlockPassed
<1>7. /\ Extends(w, w, s, m, i) /\ Extends(w, w1, s, m, i)
      /\ Extends(w, w2, s, m, i) /\ Extends(w, w3, s, m, i)
      /\ Solid(w, i) => Solid(w3, i + 1)
      /\ UsedAt(w3, i, t)
      /\ \A j, u : UsedAt(w, j, u) => UsedAt(w3, j, u)
  BY <1>2, <1>5, UseSent
<1> QED
  BY <1>6, <1>7

(* What is known after a result was sent, or could not be.                 *)
ResultGiven(w, c, d, s, m, i) ==
  /\ d \in InCall /\ d.ad = c.ad /\ Extends(w, d.wire, s, m, i)
  /\ d.ok => (Solid(w, i) => Solid(d.wire, i + 1))
  /\ \A k, u : UsedAt(w, k, u) => UsedAt(d.wire, k, u)

LEMMA ResultEmitted ==
  ASSUME NEW w \in Seq(WireEvents), Orderly(w), NEW i \in Nat, Below(w, i),
         NEW s, NEW m, Booked(w, s, m),
         NEW t \in ToolCalls, NEW j, UsedAt(w, j, t), i - j = Len(s[t.tag[1]].calls),
         NEW c \in InCall, c.wire = w,
         NEW d, d = EmitBlock(c, ToolResultBlock(i, t.id, Output(t)))
  PROVE  ResultGiven(w, c, d, s, m, i)
<1>1. PICK e1 \in WireEvents, e2 \in WireEvents, e3 \in WireEvents :
        /\ e1 = ToolResultStart(i, t.id)
        /\ e2 = ToolResultDelta(i, Output(t))
        /\ e3 = BlockStop(i)
  BY ToolEvents, StopEvent
<1>2. e1.id = t.id /\ ForBlock(e1, e2, e3, i, "tool_result")
  BY <1>1, ToolEvents
<1>3. d = EmitBlock(c, <<e1, e2, e3>>)
  BY <1>1 DEF ToolResultBlock
<1>4. BlockPassed(c, e1, e2, e3, d)
  BY <1>3, BlockEmitted
<1>5. PICK w1, w2, w3 : w1 = Append(w, e1) /\ w2 = Append(w1, e2) /\ w3 = Append(w2, e3)
  OBVIOUS
<1>6. d \in InCall /\ d.ad = c.ad /\ d.wire \in {w, w1, w2, w3} /\ (d.ok => d.wire = w3)
  BY <1>4, <1>5 DEF BlockPassed
<1>7. /\ Extends(w, w, s, m, i) /\ Extends(w, w1, s, m, i)
      /\ Extends(w, w2, s, m, i) /\ Extends(w, w3, s, m, i)
      /\ Solid(w, i) => Solid(w3, i + 1)
      /\ \A k, u : UsedAt(w, k, u) => UsedAt(w1, k, u) /\ UsedAt(w2, k, u) /\ UsedAt(w3, k, u)
  <2>1. Resulted(w, e1, e2, e3, s, m, i)
    BY <1>2, ResultSent
  <2> QED
    BY <1>5, <2>1 DEF Resulted
<1> QED
  BY <1>6, <1>7 DEF ResultGiven

LEMMA OnToolCallStartKeeps ==
  ASSUME AInv, NEW call \in Calls, OnToolCallStart(call)
  PROVE  AInv'
<1>1. /\ ATypes /\ Orderly(wire) /\ ~run.failed /\ Serial(wire)
      /\ Booked(wire, said, Len(said)) /\ run.phase = "calling"
  BY DEF AInv, OnToolCallStart, Calling, NamedUpTo
<1>2. /\ wire \in Seq(WireEvents) /\ said \in Seq(Rounds) /\ run \in Runs /\ ad \in Adapters
      /\ ad.toolCallCount <= MaxTools /\ ad.rounds <= MaxRounds /\ Len(said) <= MaxRounds
  BY <1>1 DEF ATypes
<1>3. /\ Len(said) > 0 /\ said[Len(said)].calls = run.calls
      /\ Len(run.calls) = ad.toolCallCount /\ run.next \in 1 .. ad.toolCallCount
      /\ \A k \in 1 .. ad.toolCallCount : run.calls[k].tag = <<Len(said), k>>
  BY <1>1 DEF AInv, Tooling
<1>4. PICK w \in Seq(WireEvents), s \in Seq(Rounds), r \in Runs :
        w = wire /\ s = said /\ r = run
  BY <1>2
<1>5. PICK base \in Nat, count \in Nat : base = ad.toolBase /\ count = ad.toolCallCount
  BY <1>2 DEF Adapters
<1>6. PICK m \in Nat \ {0} : m = Len(said)
  BY <1>2, <1>3
<1>7. PICK k \in 1 .. count : k = run.next
  BY <1>3, <1>5
<1>8. PICK i \in Nat, n \in Nat : i = base + (k - 1) /\ n = Len(run.calls) /\ n = count
  BY <1>3, <1>5
<1>9. PICK t \in ToolCalls : t = run.calls[k]
  BY <1>2, <1>3, <1>5, <1>7 DEF Runs
<1>10. t.tag[1] \in 1 .. m
  BY <1>3, <1>5, <1>6, <1>7, <1>9
<1>11. /\ Below(w, i) /\ Solid(w, i)
       /\ \A j \in 1 .. k - 1 : UsedAt(w, base + (j - 1), run.calls[j])
  BY <1>1, <1>4, <1>5, <1>7, <1>8 DEF AInv, Calling, Between
<1>12. Orderly(w) /\ Serial(w) /\ Booked(w, s, m)
  BY <1>1, <1>4, <1>6
<1>13. PICK c \in InCall : c = Begin(call) /\ c.ad = ad /\ c.wire = w
  BY <1>1, <1>4, Begun
<1>14. PICK d : d = EmitBlock(c, ToolUseBlock(i, t.id, t.tag, Input(t)))
  OBVIOUS
<1>15. /\ d \in InCall /\ d.ad = c.ad /\ Extends(w, d.wire, s, m, i)
       /\ d.ok => /\ Solid(w, i) => Solid(d.wire, i + 1)
                  /\ UsedAt(d.wire, i, t)
                  /\ \A j, u : UsedAt(w, j, u) => UsedAt(d.wire, j, u)
  BY <1>10, <1>11, <1>12, <1>13, <1>14, UseEmitted
<1>16. PICK v : v = d.wire
  OBVIOUS
<1>17. v \in Seq(WireEvents) /\ Orderly(v) /\ Below(v, i + 1) /\ Booked(v, s, m) /\ Serial(v)
  BY <1>11, <1>12, <1>15, <1>16 DEF Extends
<1>18. /\ ad' = ad /\ wire' = v /\ said' = s
       /\ run' = IF d.ok THEN IF k = n THEN [run EXCEPT !.phase = "results", !.next = 1]
                                       ELSE [run EXCEPT !.next = k + 1]
                 ELSE [run EXCEPT !.phase = "aborted", !.failed = TRUE]
  BY <1>4, <1>5, <1>7, <1>8, <1>9, <1>13, <1>14, <1>15, <1>16 DEF OnToolCallStart, Done, useIndex
<1>19. ASSUME run' \in Runs
       PROVE  ATypes'
  BY <1>2, <1>4, <1>17, <1>18, <1>19 DEF ATypes
<1>20. CASE ~d.ok
  <2>1. run' \in Runs /\ run'.phase = "aborted" /\ run'.failed
    BY <1>2, <1>18, <1>20 DEF Runs, Phases
  <2>2. Booked(wire', said', Len(said'))
    BY <1>4, <1>6, <1>17, <1>18
  <2> QED
    BY <1>17, <1>18, <1>19, <2>1, <2>2, GivenUp
<1>21. CASE d.ok
  <2>1. Solid(v, i + 1) /\ UsedAt(v, i, t) /\ \A j, u : UsedAt(w, j, u) => UsedAt(v, j, u)
    BY <1>11, <1>15, <1>16, <1>21
  <2>2. \A j \in 1 .. k : UsedAt(v, base + (j - 1), run.calls[j])
    <3> SUFFICES ASSUME NEW j \in 1 .. k
                 PROVE  UsedAt(v, base + (j - 1), run.calls[j])
      OBVIOUS
    <3>1. CASE j = k
      BY <1>8, <1>9, <2>1, <3>1
    <3>2. CASE j # k
      <4>1. j \in 1 .. k - 1
        BY <3>2
      <4>2. UsedAt(w, base + (j - 1), run.calls[j])
        BY <1>11, <4>1
      <4> QED
        BY <2>1, <4>2
    <3> QED
      BY <3>1, <3>2
  <2>3. CASE k = n
    <3>1. /\ run' \in Runs /\ run'.phase = "results" /\ run'.next = 1 /\ ~run'.failed
          /\ run'.calls = run.calls
      BY <1>1, <1>2, <1>18, <1>21, <2>3 DEF Runs, Phases
    <3>2. k = count /\ i + 1 = base + count + (1 - 1)
      BY <1>8, <2>3
    <3>3. Tooling'
      BY <1>3, <1>4, <1>5, <1>7, <1>18, <3>1 DEF Tooling
    <3>4. Resulting'
      BY <1>5, <1>17, <1>18, <2>1, <2>2, <3>1, <3>2 DEF Resulting
    <3>5. Booked(wire', said', NamedUpTo')
      BY <1>4, <1>6, <1>17, <1>18, <3>1 DEF NamedUpTo
    <3> QED
      BY <1>17, <1>18, <1>19, <3>1, <3>3, <3>4, <3>5 DEF AInv, Resting, Streaming, Calling
  <2>4. CASE k # n
    <3>1. /\ run' \in Runs /\ run'.phase = "calling" /\ run'.next = k + 1 /\ ~run'.failed
          /\ run'.calls = run.calls
      <4>1. run' = [run EXCEPT !.next = k + 1] /\ k + 1 \in Nat
        BY <1>18, <1>21, <2>4
      <4> QED
        BY <1>1, <1>2, <4>1 DEF Runs
    <3>2. k + 1 \in 1 .. count /\ i + 1 = base + ((k + 1) - 1) /\ (k + 1) - 1 = k
      BY <1>8, <2>4
    <3>3. Tooling'
      BY <1>3, <1>4, <1>5, <1>7, <1>18, <3>1, <3>2 DEF Tooling
    <3>4. Calling'
      BY <1>5, <1>17, <1>18, <2>1, <2>2, <3>1, <3>2 DEF Calling, Between
    <3>5. Booked(wire', said', NamedUpTo')
      BY <1>4, <1>6, <1>17, <1>18, <3>1 DEF NamedUpTo
    <3> QED
      BY <1>17, <1>18, <1>19, <3>1, <3>3, <3>4, <3>5 DEF AInv, Resting, Streaming, Resulting
  <2> QED
    BY <2>3, <2>4
<1> QED
  BY <1>20, <1>21

(* The last result of a round moves blockIndex behind the tool blocks.     *)
WithIndex(c, b) == [c EXCEPT !.ad.blockIndex = b]

Moved(c, b, d) ==
  /\ d \in InCall /\ d.wire = c.wire /\ d.ok = c.ok /\ d.leak = c.leak
  /\ d.ad.blockIndex = b /\ d.ad.rounds = c.ad.rounds
  /\ d.ad.toolBase = c.ad.toolBase /\ d.ad.toolCallCount = c.ad.toolCallCount

LEMMA IndexMoved ==
  ASSUME NEW c \in InCall, NEW b \in Nat
  PROVE  Moved(c, b, WithIndex(c, b))
<1>1. PICK a \in Adapters : a = [c.ad EXCEPT !.blockIndex = b]
  BY DEF InCall, Adapters
<1>2. PICK d : d = [c EXCEPT !.ad = a]
  OBVIOUS
<1>3. WithIndex(c, b) = d
  BY <1>1, <1>2 DEF WithIndex
<1>4. /\ d \in InCall /\ d.wire = c.wire /\ d.ok = c.ok /\ d.leak = c.leak /\ d.ad = a
  BY <1>2 DEF InCall
<1>5. /\ a.blockIndex = b /\ a.toolBase = c.ad.toolBase /\ a.rounds = c.ad.rounds
      /\ a.toolCallCount = c.ad.toolCallCount
  BY <1>1 DEF InCall, Adapters
<1> QED
  BY <1>3, <1>4, <1>5 DEF Moved

LEMMA StillBelow ==
  ASSUME NEW w \in Seq(WireEvents), NEW i \in Nat, Below(w, i)
  PROVE  Below(w, i + 1)
<1> SUFFICES ASSUME NEW p \in DOMAIN w, IsBlock(w[p])
             PROVE  w[p].index < i + 1
  BY DEF Below
<1>1. w[p] \in WireEvents
  OBVIOUS
<1>2. w[p].index \in Nat /\ w[p].index < i
  BY <1>1, EventShape DEF Below
<1> QED
  BY <1>2

LEMMA ResultHandled ==
  ASSUME NEW w \in Seq(WireEvents), Orderly(w), NEW i \in Nat, Below(w, i),
         NEW s, NEW m, Booked(w, s, m),
         NEW t \in ToolCalls, NEW j, UsedAt(w, j, t), i - j = Len(s[t.tag[1]].calls),
         NEW c \in InCall, c.wire = w, NEW missing \in BOOLEAN,
         NEW d, d = IF missing THEN [c EXCEPT !.ok = FALSE]
                    ELSE EmitBlock(c, ToolResultBlock(i, t.id, Output(t)))
  PROVE  ResultGiven(w, c, d, s, m, i)
<1>1. CASE missing
  <2>1. d \in InCall /\ d.ad = c.ad /\ d.wire = w /\ ~d.ok
    BY <1>1 DEF InCall
  <2>2. Extends(w, w, s, m, i)
    BY StillBelow DEF Extends
  <2> QED
    BY <2>1, <2>2 DEF ResultGiven
<1>2. CASE ~missing
  <2>1. d = EmitBlock(c, ToolResultBlock(i, t.id, Output(t)))
    BY <1>2
  <2> QED
    BY <2>1, ResultEmitted
<1> QED
  BY <1>1, <1>2

LEMMA OnToolResultKeeps ==
  ASSUME AInv, NEW call \in Calls, NEW missing \in BOOLEAN, OnToolResult(call, missing)
  PROVE  AInv'
<1>1. /\ ATypes /\ Orderly(wire) /\ (~run.failed => Serial(wire))
      /\ Booked(wire, said, Len(said)) /\ run.phase = "results"
  BY DEF AInv, OnToolResult, NamedUpTo
<1>2. /\ wire \in Seq(WireEvents) /\ said \in Seq(Rounds) /\ run \in Runs /\ ad \in Adapters
      /\ ad.toolCallCount <= MaxTools /\ ad.rounds <= MaxRounds /\ Len(said) <= MaxRounds
  BY <1>1 DEF ATypes
<1>3. /\ Len(said) > 0 /\ said[Len(said)].calls = run.calls
      /\ Len(run.calls) = ad.toolCallCount /\ run.next \in 1 .. ad.toolCallCount
      /\ \A k \in 1 .. ad.toolCallCount : run.calls[k].tag = <<Len(said), k>>
  BY <1>1 DEF AInv, Tooling
<1>4. PICK w \in Seq(WireEvents), s \in Seq(Rounds), r \in Runs :
        w = wire /\ s = said /\ r = run
  BY <1>2
<1>5. PICK base \in Nat, count \in Nat : base = ad.toolBase /\ count = ad.toolCallCount
  BY <1>2 DEF Adapters
<1>6. PICK m \in Nat \ {0} : m = Len(said)
  BY <1>2, <1>3
<1>7. PICK k \in 1 .. count : k = run.next
  BY <1>3, <1>5
<1>8. PICK i \in Nat, n \in Nat : i = base + count + (k - 1) /\ n = Len(run.calls) /\ n = count
  BY <1>3, <1>5
<1>9. PICK t \in ToolCalls : t = run.calls[k]
  BY <1>2, <1>3, <1>5, <1>7 DEF Runs
<1>10. t.tag[1] = m
  BY <1>3, <1>5, <1>6, <1>7, <1>9
<1>11. /\ Below(w, i) /\ (~r.failed => Solid(w, i))
       /\ \A j \in 1 .. count : UsedAt(w, base + (j - 1), run.calls[j])
  BY <1>1, <1>4, <1>5, <1>7, <1>8 DEF AInv, Resulting
<1>12. Orderly(w) /\ (~r.failed => Serial(w)) /\ Booked(w, s, m)
  BY <1>1, <1>4, <1>6
<1>13. PICK j \in Nat : j = base + (k - 1)
  OBVIOUS
<1>14. UsedAt(w, j, t)
  BY <1>9, <1>11, <1>13
<1>15. i - j = Len(s[t.tag[1]].calls)
  <2>1. Len(s[t.tag[1]].calls) = n
    BY <1>3, <1>4, <1>6, <1>8, <1>10
  <2> QED
    BY <1>8, <1>13, <2>1
<1>16. PICK c \in InCall : c = Begin(call) /\ c.ad = ad /\ c.wire = w
  BY <1>1, <1>4, Begun
<1>17. PICK d : d = IF missing THEN [c EXCEPT !.ok = FALSE]
                    ELSE EmitBlock(c, ToolResultBlock(i, t.id, Output(t)))
  OBVIOUS
<1>18. ResultGiven(w, c, d, s, m, i)
  BY <1>11, <1>12, <1>14, <1>15, <1>16, <1>17, ResultHandled
<1>19. /\ d \in InCall /\ d.ad = ad /\ Extends(w, d.wire, s, m, i)
       /\ d.ok => (Solid(w, i) => Solid(d.wire, i + 1))
       /\ \A l, u : UsedAt(w, l, u) => UsedAt(d.wire, l, u)
  BY <1>16, <1>18 DEF ResultGiven
<1>20. PICK v : v = d.wire
  OBVIOUS
<1>21. /\ v \in Seq(WireEvents) /\ Orderly(v) /\ Below(v, i + 1) /\ Booked(v, s, m)
       /\ ~r.failed => Serial(v)
       /\ d.ok /\ ~r.failed => Solid(v, i + 1)
       /\ \A l \in 1 .. count : UsedAt(v, base + (l - 1), run.calls[l])
  BY <1>11, <1>12, <1>19, <1>20 DEF Extends
<1>22. PICK x : x = IF d.ok /\ k = count THEN WithIndex(d, base + 2 * count) ELSE d
  OBVIOUS
<1>23. x = sendResult(Begin(call), k, missing)
  BY <1>5, <1>8, <1>9, <1>16, <1>17, <1>22 DEF sendResult, resultIndex, WithIndex
<1>24. /\ x.wire = v /\ x.ok = d.ok /\ x.ad \in Adapters
       /\ x.ad.toolBase = base /\ x.ad.toolCallCount = count /\ x.ad.rounds = ad.rounds
       /\ x.ok /\ k = count => x.ad.blockIndex = base + 2 * count
  <2>1. CASE d.ok /\ k = count
    <3>1. base + 2 * count \in Nat /\ x = WithIndex(d, base + 2 * count)
      BY <1>22, <2>1
    <3>2. Moved(d, base + 2 * count, x)
      BY <1>19, <3>1, IndexMoved
    <3> QED
      BY <1>5, <1>19, <1>20, <3>2 DEF Moved, InCall
  <2>2. CASE ~(d.ok /\ k = count)
    <3>1. x = d
      BY <1>22, <2>2
    <3> QED
      BY <1>2, <1>5, <1>19, <1>20, <2>2, <3>1
  <2> QED
    BY <2>1, <2>2
<1>25. PICK b \in BOOLEAN : b = (r.failed \/ ~d.ok)
  BY <1>19 DEF InCall, Runs
<1>26. /\ ad' = x.ad /\ wire' = v /\ said' = s
       /\ run' = IF k < n THEN [r EXCEPT !.next = k + 1, !.failed = b]
                 ELSE [r EXCEPT !.phase = IF b THEN "aborted" ELSE "round", !.failed = b]
  BY <1>4, <1>7, <1>8, <1>23, <1>24, <1>25 DEF OnToolResult
<1>27. ASSUME run' \in Runs
       PROVE  ATypes'
  BY <1>2, <1>4, <1>5, <1>21, <1>24, <1>26, <1>27 DEF ATypes
<1>28. (~b => d.ok /\ ~r.failed) /\ (~b => Serial(v) /\ Solid(v, i + 1))
  BY <1>19, <1>21, <1>25 DEF InCall, Runs
<1>29. CASE k < n
  <2>1. /\ run' \in Runs /\ run'.phase = "results" /\ run'.next = k + 1 /\ run'.failed = b
        /\ run'.calls = run.calls
    <3>1. run' = [r EXCEPT !.next = k + 1, !.failed = b] /\ k + 1 \in Nat
      BY <1>26, <1>29
    <3> QED
      BY <1>1, <1>4, <3>1 DEF Runs
  <2>2. k + 1 \in 1 .. count /\ i + 1 = base + count + ((k + 1) - 1)
    BY <1>8, <1>29
  <2>3. Tooling'
    BY <1>3, <1>4, <1>5, <1>24, <1>26, <2>1, <2>2 DEF Tooling
  <2>4. Resulting'
    BY <1>21, <1>24, <1>26, <1>28, <2>1, <2>2 DEF Resulting
  <2>5. Booked(wire', said', NamedUpTo')
    BY <1>4, <1>6, <1>21, <1>26, <2>1 DEF NamedUpTo
  <2>6. Orderly(wire') /\ (~run'.failed => Serial(wire'))
    BY <1>21, <1>26, <1>28, <2>1
  <2> QED
    BY <1>27, <2>1, <2>3, <2>4, <2>5, <2>6 DEF AInv, Resting, Streaming, Calling
<1>30. CASE ~(k < n)
  <2>1. /\ run' \in Runs /\ run'.failed = b /\ run'.phase = IF b THEN "aborted" ELSE "round"
    <3>1. run' = [r EXCEPT !.phase = IF b THEN "aborted" ELSE "round", !.failed = b]
      BY <1>26, <1>30
    <3> QED
      BY <3>1 DEF Runs, Phases
  <2>2. Booked(wire', said', Len(said'))
    BY <1>4, <1>6, <1>21, <1>26
  <2>3. Orderly(wire') /\ (~run'.failed => Serial(wire'))
    BY <1>21, <1>26, <1>28, <2>1
  <2>4. CASE b
    BY <1>27, <2>1, <2>2, <2>3, <2>4, GivenUp
  <2>5. CASE ~b
    <3>1. k = count /\ i + 1 = base + 2 * count
      BY <1>8, <1>30
    <3>2. ad'.blockIndex = i + 1
      BY <1>24, <1>26, <1>28, <2>5, <3>1
    <3>3. Between(wire', ad'.blockIndex)
      BY <1>21, <1>26, <1>28, <2>5, <3>2 DEF Between
    <3>4. Booked(wire', said', NamedUpTo')
      BY <2>1, <2>2, <2>5 DEF NamedUpTo
    <3>5. Resting' /\ Streaming' /\ Tooling' /\ Calling' /\ Resulting'
      BY <2>1, <2>5, <3>3 DEF Resting, Streaming, Tooling, Calling, Resulting
    <3> QED
      BY <1>27, <2>1, <2>3, <3>4, <3>5 DEF AInv
  <2> QED
    BY <2>4, <2>5
<1> QED
  BY <1>29, <1>30

LEMMA StaysInOrder ==
  AInv /\ [ANext]_avars => AInv'
<1> SUFFICES ASSUME AInv, [ANext]_avars
             PROVE  AInv'
  OBVIOUS
<1>1. ASSUME NEW call \in Calls, Preamble(call)
      PROVE  AInv'
  BY <1>1, PreambleKeeps
<1>2. ASSUME NEW call \in Calls, NEW thinks \in BOOLEAN, NEW speaks \in BOOLEAN,
             OnDelta(call, thinks, speaks)
      PROVE  AInv'
  BY <1>2, OnDeltaKeeps
<1>3. ASSUME NEW call \in Calls, NEW calls \in CallLists, OnAssistantMessage(call, calls)
      PROVE  AInv'
  BY <1>3, OnAssistantMessageKeeps
<1>4. ASSUME NEW call \in Calls, OnToolCallStart(call)
      PROVE  AInv'
  BY <1>4, OnToolCallStartKeeps
<1>5. ASSUME NEW call \in Calls, NEW missing \in BOOLEAN, OnToolResult(call, missing)
      PROVE  AInv'
  BY <1>5, OnToolResultKeeps
<1>6. ASSUME NEW call \in Calls, Epilogue(call)
      PROVE  AInv'
  BY <1>6, EpilogueKeeps
<1>7. CASE OnRoundStart
  BY <1>7, OnRoundStartKeeps
<1>8. CASE ProviderFails \/ Abandon
  BY <1>8, ProviderFailsKeeps
<1>9. CASE UNCHANGED avars
  BY <1>9 DEF avars, AInv, ATypes, Resting, Streaming, Tooling, Calling, Resulting, NamedUpTo
<1> QED
  BY <1>1, <1>2, <1>3, <1>4, <1>5, <1>6, <1>7, <1>8, <1>9 DEF ANext

LEMMA AInvariant ==
  ASpec => []AInv
<1>1. AInit => AInv
  BY StartsInOrder
<1>2. AInv /\ [ANext]_avars => AInv'
  BY StaysInOrder
<1> QED
  BY <1>1, <1>2, PTL DEF ASpec

--------------------------------------------------------------------------------
(* The Adapter and its roundStream keep to the types of their fields, and  *)
(* all that a callback puts on the wire is an event of the protocol, for   *)
(* any limit on rounds, deltas and tools.                                  *)
THEOREM AdapterTypes ==
  ASpec => []ATypeOK
<1>1. ASSUME AInv
      PROVE  ATypeOK
  <2>1. /\ ad \in Adapters /\ ad.toolCallCount <= MaxTools /\ ad.rounds <= MaxRounds
        /\ wire \in Seq(WireEvents) /\ run \in Runs /\ Len(said) <= MaxRounds
    BY <1>1 DEF AInv, ATypes
  <2>2. \A p \in DOMAIN wire : IsWireEvent(wire[p])
    <3> SUFFICES ASSUME NEW p \in DOMAIN wire
                 PROVE  IsWireEvent(wire[p])
      OBVIOUS
    <3>1. PICK e \in WireEvents : e = wire[p]
      BY <2>1
    <3> QED
      BY <3>1, EventShape
  <2>3. /\ ad.blockIndex \in Nat /\ ad.toolBase \in Nat
        /\ ad.toolCallCount \in 0 .. MaxTools /\ ad.rounds \in 0 .. MaxRounds
    BY <2>1, AdapterAssumption DEF Adapters
  <2>4. /\ ad.round.thinking.index \in Nat \cup {-1}
        /\ ad.round.text.index \in Nat \cup {-1}
        /\ ad.round.thinking.started \in BOOLEAN /\ ad.round.text.started \in BOOLEAN
    BY <2>1 DEF Adapters, RoundStreams, Streamers
  <2> QED
    BY <2>1, <2>2, <2>3, <2>4 DEF ATypeOK, Runs, Phases, Round
<1> QED
  BY <1>1, AInvariant, PTL

(* No block index is used twice in a turn and blocks start in the order of *)
(* their indices: over roundStream, the parallel calls of OnToolCallStart  *)
(* and OnToolResult and every failure of a sink, a tool or the provider.   *)
THEOREM BlocksAreNumberedUpwards ==
  ASpec => []IndicesAscend
<1>1. ASSUME AInv
      PROVE  IndicesAscend
  BY <1>1 DEF AInv, Orderly, Ascending, StartsIn, IndicesAscend, Starts
<1> QED
  BY <1>1, AInvariant, PTL

(* Every delta and every stop on the wire belongs to a block that was      *)
(* started before it, is of its kind, and has not been stopped.            *)
THEOREM EveryEventHasItsBlock ==
  ASpec => []NoStrayEvents
<1>1. ASSUME AInv
      PROVE  NoStrayEvents
  BY <1>1 DEF AInv, Orderly, Housed, StartsOf, StopsOf, NoStrayEvents, StartsAt, StopsAt
<1> QED
  BY <1>1, AInvariant, PTL

(* As long as no callback has failed, a block starts only when every block *)
(* before it has been stopped: roundStream.openText closes thinking first, *)
(* finish closes text before the tools.                                    *)
THEOREM BlocksNeverOverlap ==
  ASpec => []OneBlockOpen
<1>1. ASSUME AInv
      PROVE  OneBlockOpen
  BY <1>1 DEF AInv, Serial, StartsIn, StopsOf, OneBlockOpen, Starts, StopsAt
<1> QED
  BY <1>1, AInvariant, PTL

(* A run that finished leaves every index below blockIndex started and     *)
(* stopped exactly once, and none used at or above it.                     *)
THEOREM NumberingHasNoHoles ==
  ASpec => []DenseWhenFinished
<1>1. ASSUME AInv
      PROVE  DenseWhenFinished
  <2> SUFFICES ASSUME run.phase = "finished"
               PROVE  /\ \A i \in 0 .. ad.blockIndex - 1 :
                           \E p, q \in DOMAIN wire : StartsAt(i) = {p} /\ StopsAt(i) = {q}
                      /\ \A p \in Starts : wire[p].index < ad.blockIndex
    BY DEF DenseWhenFinished
  <2>1. Below(wire, ad.blockIndex) /\ Solid(wire, ad.blockIndex)
    BY <1>1 DEF AInv, Resting, Between
  <2>2. \A i : StartsAt(i) = StartsOf(wire, i) /\ StopsAt(i) = StopsOf(wire, i)
    BY DEF StartsAt, StartsOf, StopsAt, StopsOf
  <2>3. \A i \in 0 .. ad.blockIndex - 1 :
          \E p, q \in DOMAIN wire : StartsAt(i) = {p} /\ StopsAt(i) = {q}
    BY <2>1, <2>2 DEF Solid
  <2>4. \A p \in Starts : wire[p].index < ad.blockIndex
    BY <2>1 DEF Below, IsBlock, Starts
  <2> QED
    BY <2>3, <2>4
<1> QED
  BY <1>1, AInvariant, PTL

(* Every tool_result on the wire follows the complete tool_use of its      *)
(* call, exactly as many indices above it as the round has calls, also     *)
(* when OnToolResult failed for other calls of the round.                  *)
THEOREM ResultsFollowTheirUse ==
  ASpec => []ResultAnswersUse
<1>1. ASSUME AInv
      PROVE  ResultAnswersUse
  BY <1>1 DEF AInv, Booked, Answering, StartsIn, StopsOf, ResultAnswersUse, Starts, StopsAt
<1> QED
  BY <1>1, AInvariant, PTL
================================================================================
