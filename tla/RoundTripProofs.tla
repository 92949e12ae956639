---------------------------- MODULE RoundTripProofs ----------------------------
(***************************************************************************)
(* Theorems about RoundTrip: what Reassemble makes of an Adapter's turn,   *)
(* for any number of rounds, deltas and parallel tools, whatever fails and *)
(* whatever the transport loses.                                           *)
(***************************************************************************)
EXTENDS RoundTrip, AdapterProofs, JoinProofs, FiniteSetTheorems

(* Reassemble one event of the wire w after another, of those at P.        *)
Step(w, P, s, p) == IF p \in P THEN handleEvent(s, w[p]) ELSE s

Stepped(it, w, P, n) ==
  [s \in SUBSET (1 .. n) |->
     IF s = {} THEN NewReassembler ELSE Step(w, P, it[s \ {Max(s)}], Max(s))]

LEMMA ReadTable ==
  ASSUME NEW w, NEW P, NEW n \in Nat
  PROVE  \E it : it = Stepped(it, w, P, n)
<1> DEFINE Tab(it, m) ==
             /\ it = [s \in SUBSET (1 .. m) |-> it[s]]
             /\ \A s \in SUBSET (1 .. m) :
                  it[s] = IF s = {} THEN NewReassembler
                          ELSE Step(w, P, it[s \ {Max(s)}], Max(s))
           S == {m \in Nat : \E it : Tab(it, m)}
<1>1. 0 \in S
  <2> DEFINE it == [s \in SUBSET (1 .. 0) |-> NewReassembler]
  <2>1. Tab(it, 0)
    <3> HIDE DEF it
    <3>1. \A s \in SUBSET (1 .. 0) : s = {} /\ it[s] = NewReassembler
      BY DEF it
    <3>2. it = [s \in SUBSET (1 .. 0) |-> it[s]]
      BY DEF it
    <3> QED
      BY <3>1, <3>2
  <2> QED
    BY <2>1
<1>2. ASSUME NEW m \in S
      PROVE  m + 1 \in S
  <2>1. m \in Nat /\ m + 1 \in Nat
    OBVIOUS
  <2>2. PICK it : Tab(it, m)
    OBVIOUS
  <2> DEFINE k == m + 1
             jt == [s \in SUBSET (1 .. k) |->
                      IF k \in s THEN Step(w, P, it[s \ {k}], k) ELSE it[s]]
  <2>3. ASSUME NEW s \in SUBSET (1 .. k)
        PROVE  /\ s \ {k} \in SUBSET (1 .. m)
               /\ k \notin s => s \in SUBSET (1 .. m)
               /\ k \in s => Max(s) = k
    <3>1. s \ {k} \in SUBSET (1 .. m) /\ (k \notin s => s \in SUBSET (1 .. m))
      BY <2>1
    <3>2. ASSUME k \in s
          PROVE  Max(s) = k
      <4>1. s \subseteq 0 .. k /\ s # {} /\ k \in Nat
        BY <2>1, <3>2
      <4>2. Max(s) \in s /\ k <= Max(s)
        BY <3>2, <4>1, MaxOf
      <4>3. Max(s) \in 0 .. k
        BY <4>1, <4>2
      <4> QED
        BY <4>1, <4>2, <4>3
    <3> QED
      BY <3>1, <3>2
  <2>4. ASSUME NEW s \in SUBSET (1 .. k)
        PROVE  jt[s] = IF s = {} THEN NewReassembler
                       ELSE Step(w, P, jt[s \ {Max(s)}], Max(s))
    <3>1. CASE k \in s
      <4>1. jt[s] = Step(w, P, it[s \ {k}], k)
        BY <3>1
      <4>2. s \ {k} \in SUBSET (1 .. k) /\ k \notin s \ {k}
        OBVIOUS
      <4>3. jt[s \ {k}] = it[s \ {k}]
        BY <4>2
      <4>4. Max(s) = k /\ s # {}
        BY <2>3, <3>1
      <4> QED
        BY <4>1, <4>3, <4>4
    <3>2. CASE k \notin s
      <4>1. s \in SUBSET (1 .. m) /\ jt[s] = it[s]
        BY <2>3, <3>2
      <4>2. it[s] = IF s = {} THEN NewReassembler
                    ELSE Step(w, P, it[s \ {Max(s)}], Max(s))
        BY <2>2, <4>1
      <4>3. s \ {Max(s)} \in SUBSET (1 .. k) /\ k \notin s \ {Max(s)}
        BY <3>2
      <4>4. jt[s \ {Max(s)}] = it[s \ {Max(s)}]
        BY <4>3
      <4> QED
        BY <4>1, <4>2, <4>4
    <3> QED
      BY <3>1, <3>2
  <2>5. jt = [s \in SUBSET (1 .. k) |-> jt[s]]
    OBVIOUS
  <2> HIDE DEF jt
  <2>6. Tab(jt, k)
    BY <2>4, <2>5
  <2> QED
    BY <2>1, <2>6
<1>3. S = Nat
  <2>1. S \subseteq Nat
    OBVIOUS
  <2> HIDE DEF S
  <2> QED
    BY <1>1, <1>2, <2>1, SetInduction
<1>4. PICK it : Tab(it, n)
  BY <1>3
<1> QED
  BY <1>4 DEF Stepped

(* The states the reader goes through.                                     *)
IsRun(h, w, P) ==
  /\ h = [i \in 0 .. Len(w) |-> h[i]]
  /\ h[0] = NewReassembler
  /\ \A i \in 1 .. Len(w) : h[i] = Step(w, P, h[i - 1], i)

(* The loop, whose fold is TLA+'s choice of such a table.                  *)
Loop(P) ==
  FoldLeftDomain(LAMBDA s, p : IF p \in P THEN handleEvent(s, wire[p]) ELSE s,
                 NewReassembler, wire)

LEMMA LoopIs ==
  ASSUME NEW P, NEW n \in Nat, DOMAIN wire = 1 .. n
  PROVE  \E f : f = Stepped(f, wire, P, n) /\ Loop(P) = f[1 .. n]
<1> DEFINE g == [i \in 1 .. n |-> i]
           Read(it) == [s \in SUBSET (1 .. n) |->
                          IF s = {} THEN NewReassembler
                          ELSE IF g[Max(s)] \in P
                                 THEN handleEvent(it[s \ {Max(s)}], wire[g[Max(s)]])
                                 ELSE it[s \ {Max(s)}]]
<1>1. Loop(P) = (CHOOSE it : it = Read(it))[1 .. n]
  BY DEF Loop, FoldLeftDomain, FoldLeft, MapThenFoldSet
<1>2. ASSUME NEW it
      PROVE  Read(it) = Stepped(it, wire, P, n)
  <2>1. ASSUME NEW s \in SUBSET (1 .. n), s # {}
        PROVE  g[Max(s)] = Max(s)
    <3>1. s \subseteq 0 .. n
      OBVIOUS
    <3>2. Max(s) \in 1 .. n
      BY <2>1, <3>1, MaxOf
    <3> QED
      BY <3>2
  <2> HIDE DEF g
  <2>2. ASSUME NEW s \in SUBSET (1 .. n)
        PROVE  (IF s = {} THEN NewReassembler
                ELSE IF g[Max(s)] \in P
                       THEN handleEvent(it[s \ {Max(s)}], wire[g[Max(s)]])
                       ELSE it[s \ {Max(s)}])
               = (IF s = {} THEN NewReassembler ELSE Step(wire, P, it[s \ {Max(s)}], Max(s)))
    BY <2>1 DEF Step
  <2> QED
    BY <2>2 DEF Stepped
<1> HIDE DEF Read
<1>3. PICK it : it = Read(it)
  BY <1>2, ReadTable
<1>4. PICK f : f = (CHOOSE z : z = Read(z))
  OBVIOUS
<1>5. f = Read(f)
  BY <1>3, <1>4
<1> QED
  BY <1>1, <1>2, <1>4, <1>5

LEMMA LoopRuns ==
  ASSUME NEW P, NEW n \in Nat, n = Len(wire), DOMAIN wire = 1 .. n
  PROVE  \E h : IsRun(h, wire, P) /\ Loop(P) = h[n]
<1>1. PICK f : f = Stepped(f, wire, P, n) /\ Loop(P) = f[1 .. n]
  BY LoopIs
<1>2. \A s \in SUBSET (1 .. n) :
        f[s] = IF s = {} THEN NewReassembler ELSE Step(wire, P, f[s \ {Max(s)}], Max(s))
  <2>1. PICK g : g = Stepped(f, wire, P, n)
    OBVIOUS
  <2>2. \A s \in SUBSET (1 .. n) :
          g[s] = IF s = {} THEN NewReassembler ELSE Step(wire, P, f[s \ {Max(s)}], Max(s))
    BY <2>1 DEF Stepped
  <2>3. g = f
    BY <1>1, <2>1
  <2> QED
    BY <2>2, <2>3, Zenon
<1>3. f[1 .. 0] = NewReassembler
  <2>1. 1 .. 0 = {} /\ {} \in SUBSET (1 .. n)
    OBVIOUS
  <2> QED
    BY <1>2, <2>1
<1>4. ASSUME NEW i \in 1 .. n
      PROVE  f[1 .. i] = Step(wire, P, f[1 .. i - 1], i)
  <2>1. BeginStep(n, i)
    BY BeginSteps
  <2> QED
    BY <1>2, <2>1 DEF BeginStep
<1> DEFINE h == [i \in 0 .. n |-> f[1 .. i]]
<1>5. /\ h = [i \in 0 .. n |-> h[i]] /\ h[0] = NewReassembler /\ h[n] = Loop(P)
      /\ \A i \in 1 .. n : h[i] = Step(wire, P, h[i - 1], i)
  BY <1>1, <1>3, <1>4
<1> HIDE DEF h
<1> QED
  BY <1>5 DEF IsRun

--------------------------------------------------------------------------------
(* What is on the wire: the deltas of a kind carry their numbers, upwards, *)
(* from S and up to n.                                                     *)
Speaks(e, f) == IsDelta(e) /\ e.block = f

Numbered(w, f, S, n) ==
  /\ \A p \in DOMAIN w : Speaks(w[p], f) => \E k \in S : k <= n /\ w[p].text = <<k>>
  /\ \A p, q \in DOMAIN w :
       p < q /\ Speaks(w[p], f) /\ Speaks(w[q], f) => w[p].text[1] < w[q].text[1]

IsTool(e) == e.block \in {"tool_use", "tool_result"}

(* Tool deltas carry tags.                                                 *)
Tagged(w) == \A p \in DOMAIN w : IsDelta(w[p]) /\ IsTool(w[p]) => w[p].text \in Seq(Tags)

(* Where ids are unique: a tool delta comes right behind its start and     *)
(* carries its id or nothing, a call's id is its name, and no two uses     *)
(* share one.                                                              *)
Behind(w) ==
  \A p \in DOMAIN w :
    IsDelta(w[p]) /\ IsTool(w[p]) =>
      /\ p - 1 \in DOMAIN w /\ IsStart(w[p - 1])
      /\ w[p - 1].index = w[p].index /\ w[p - 1].block = w[p].block
      /\ w[p].text \in {<<>>, <<w[p - 1].id>>}

IsUse(e) == IsStart(e) /\ e.block = "tool_use"

Distinct(w) ==
  /\ \A p \in DOMAIN w : IsUse(w[p]) => w[p].name = w[p].id
  /\ \A p, q \in DOMAIN w : p # q /\ IsUse(w[p]) /\ IsUse(w[q]) => w[p].id # w[q].id

Tooled(w) == Tagged(w) /\ (UniqueIDs => Behind(w) /\ Distinct(w))

Heeded(w, T, n, X, m) ==
  Numbered(w, "thinking", T, n) /\ Numbered(w, "text", X, m) /\ Tooled(w)

LEMMA NumberedQuiet ==
  ASSUME NEW w \in Seq(WireEvents), NEW e \in WireEvents, NEW v, v = Append(w, e),
         NEW f, NEW S, NEW n, Numbered(w, f, S, n), ~Speaks(e, f)
  PROVE  Numbered(v, f, S, n)
<1>1. PICK m : m = Len(w) + 1
  OBVIOUS
<1>2. /\ v \in Seq(WireEvents) /\ DOMAIN v = DOMAIN w \cup {m}
      /\ DOMAIN w \subseteq Nat /\ m \in Nat /\ m \notin DOMAIN w
      /\ v[m] = e /\ \A p \in DOMAIN w : v[p] = w[p] /\ p < m
  BY <1>1, Extended
<1>3. \A p \in DOMAIN v : Speaks(v[p], f) => p \in DOMAIN w /\ v[p] = w[p]
  BY <1>2
<1> QED
  BY <1>3 DEF Numbered

LEMMA NumberedMore ==
  ASSUME NEW w, NEW f, NEW S, NEW n \in Nat, Numbered(w, f, S, n),
         NEW R, S \subseteq R, R \subseteq Nat, NEW m \in Nat, n <= m
  PROVE  Numbered(w, f, R, m)
<1>1. \A p \in DOMAIN w : Speaks(w[p], f) => \E k \in R : k <= m /\ w[p].text = <<k>>
  <2> SUFFICES ASSUME NEW p \in DOMAIN w, Speaks(w[p], f)
               PROVE  \E k \in R : k <= m /\ w[p].text = <<k>>
    OBVIOUS
  <2>1. PICK k \in S : k <= n /\ w[p].text = <<k>>
    BY DEF Numbered
  <2>2. k \in R /\ k \in Nat
    OBVIOUS
  <2>3. k <= m
    BY <2>1, <2>2
  <2> QED
    BY <2>1, <2>2, <2>3
<1> QED
  BY <1>1 DEF Numbered

LEMMA NumberedNext ==
  ASSUME NEW w \in Seq(WireEvents), NEW e \in WireEvents, NEW v, v = Append(w, e),
         NEW f, NEW S, S \subseteq Nat, NEW n \in Nat, Numbered(w, f, S, n),
         NEW R, S \subseteq R, R \subseteq Nat, NEW k \in R, n < k,
         Speaks(e, f), e.text = <<k>>
  PROVE  Numbered(v, f, R, k)
<1>1. PICK m : m = Len(w) + 1
  OBVIOUS
<1>2. /\ v \in Seq(WireEvents) /\ DOMAIN v = DOMAIN w \cup {m}
      /\ DOMAIN w \subseteq Nat /\ m \in Nat /\ m \notin DOMAIN w
      /\ v[m] = e /\ \A p \in DOMAIN w : v[p] = w[p] /\ p < m
  BY <1>1, Extended
<1>3. ASSUME NEW p \in DOMAIN w, Speaks(w[p], f)
      PROVE  \E j \in R : j < k /\ w[p].text = <<j>> /\ w[p].text[1] = j
  <2>1. PICK j \in S : j <= n /\ w[p].text = <<j>>
    BY <1>3 DEF Numbered
  <2>2. j \in R /\ j < k
    BY <2>1
  <2>3. w[p].text[1] = j
    BY <2>1
  <2> QED
    BY <2>1, <2>2, <2>3
<1>4. ASSUME NEW p \in DOMAIN v, Speaks(v[p], f)
      PROVE  \E j \in R : j <= k /\ v[p].text = <<j>>
  <2>1. CASE p = m
    BY <1>2, <2>1
  <2>2. CASE p # m
    <3>1. p \in DOMAIN w /\ v[p] = w[p]
      BY <1>2, <2>2
    <3>2. PICK j \in R : j < k /\ w[p].text = <<j>>
      BY <1>3, <1>4, <3>1
    <3> QED
      BY <3>1, <3>2
  <2> QED
    BY <2>1, <2>2
<1>5. ASSUME NEW p \in DOMAIN v, NEW q \in DOMAIN v, p < q, Speaks(v[p], f), Speaks(v[q], f)
      PROVE  v[p].text[1] < v[q].text[1]
  <2>1. CASE q = m
    <3>1. p \in DOMAIN w /\ v[p] = w[p]
      BY <1>2, <1>5, <2>1
    <3>2. PICK j \in R : j < k /\ w[p].text[1] = j
      BY <1>3, <1>5, <3>1
    <3>3. v[q].text[1] = k
      BY <1>2, <2>1
    <3> QED
      BY <3>1, <3>2, <3>3
  <2>2. CASE q # m
    <3>1. p \in DOMAIN w /\ v[p] = w[p] /\ q \in DOMAIN w /\ v[q] = w[q]
      BY <1>2, <1>5, <2>2
    <3> QED
      BY <1>5, <3>1 DEF Numbered
  <2> QED
    BY <2>1, <2>2
<1> QED
  BY <1>4, <1>5 DEF Numbered

(* Events of no tool.                                                      *)
LEMMA TooledQuiet ==
  ASSUME NEW w \in Seq(WireEvents), NEW e \in WireEvents, NEW v, v = Append(w, e),
         Tooled(w), IsDelta(e) => ~IsTool(e), ~IsUse(e)
  PROVE  Tooled(v)
<1>1. PICK m : m = Len(w) + 1
  OBVIOUS
<1>2. /\ v \in Seq(WireEvents) /\ DOMAIN v = DOMAIN w \cup {m}
      /\ DOMAIN w \subseteq Nat /\ m \in Nat /\ m \notin DOMAIN w
      /\ v[m] = e /\ \A p \in DOMAIN w : v[p] = w[p] /\ p < m
  BY <1>1, Extended
<1>3. \A p \in DOMAIN v : IsDelta(v[p]) /\ IsTool(v[p]) => p \in DOMAIN w /\ v[p] = w[p]
  BY <1>2
<1>4. Tagged(v)
  BY <1>3 DEF Tooled, Tagged
<1>5. Behind(w) => Behind(v)
  <2> SUFFICES ASSUME Behind(w), NEW p \in DOMAIN v, IsDelta(v[p]), IsTool(v[p])
               PROVE  /\ p - 1 \in DOMAIN v /\ IsStart(v[p - 1])
                      /\ v[p - 1].index = v[p].index /\ v[p - 1].block = v[p].block
                      /\ v[p].text \in {<<>>, <<v[p - 1].id>>}
    BY DEF Behind
  <2>1. p \in DOMAIN w /\ v[p] = w[p]
    BY <1>3
  <2>2. p - 1 \in DOMAIN w /\ v[p - 1] = w[p - 1]
    BY <1>2, <2>1 DEF Behind
  <2> QED
    BY <1>2, <2>1, <2>2 DEF Behind
<1>6. Distinct(w) => Distinct(v)
  <2>1. \A p \in DOMAIN v : IsUse(v[p]) => p \in DOMAIN w /\ v[p] = w[p]
    BY <1>2
  <2> QED
    BY <2>1 DEF Distinct
<1> QED
  BY <1>4, <1>5, <1>6 DEF Tooled

LEMMA HeededQuiet ==
  ASSUME NEW w \in Seq(WireEvents), NEW e \in WireEvents, NEW v, v = Append(w, e),
         NEW T, NEW n, NEW X, NEW m, Heeded(w, T, n, X, m), ~IsDelta(e), ~IsUse(e)
  PROVE  Heeded(v, T, n, X, m)
BY NumberedQuiet, TooledQuiet DEF Heeded, Speaks

--------------------------------------------------------------------------------
(* What the calls of a TextStreamer put on the wire, whether or not they   *)
(* come to their end, and how they leave the streamer if they do.          *)
Opening(c, f) ==
  IF c.ad.round[f].started THEN c.wire
  ELSE Append(c.wire, BlockStart(c.ad.round[f].index, f))

Said(c, f, x) == Append(Opening(c, f), BlockDelta(c.ad.round[f].index, f, x))

Other(f) == IF f = "text" THEN "thinking" ELSE "text"

WroteOn(c, f, x, d) ==
  /\ c.ad.round[f].index \in Nat
  /\ d.wire \in {c.wire, Opening(c, f), Said(c, f, x)}
  /\ d.ok => /\ d.wire = Said(c, f, x)
             /\ d.ad.round[f].started /\ d.ad.round[f].index = c.ad.round[f].index
             /\ d.ad.round[Other(f)] = c.ad.round[Other(f)]

LEMMA WritesOn ==
  ASSUME NEW c, NEW s, NEW m, Fine(c, s, m), NEW f \in {"thinking", "text"}, NEW x \in Seq(Nat),
         c.ok, x # EmptyText, c.ad.round.opened <=> f = "text",
         NEW d, d = Write(c, f, x)
  PROVE  WroteOn(c, f, x, d)
<1>1. c \in InCall /\ c.wire \in Seq(WireEvents)
  BY DEF Fine, InCall
<1>2. BlockAt(c.wire, c.ad.round[f], f)
  BY <1>1, MidwayAt DEF Fine
<1>3. PICK i \in Nat : i = c.ad.round[f].index
  BY <1>2 DEF BlockAt
<1>4. PICK e1 \in WireEvents, e2 \in WireEvents : e1 = BlockStart(i, f) /\ e2 = BlockDelta(i, f, x)
  BY BlockEvents
<1>5. PICK g : g = WithText(c, f, x)
  OBVIOUS
<1>6. /\ g \in InCall /\ g.wire = c.wire /\ g.ok
      /\ g.ad.round[f].index = i /\ g.ad.round[f].started = c.ad.round[f].started
      /\ g.ad.round[Other(f)] = c.ad.round[Other(f)]
  <2>1. /\ Streamed(c, g, f) /\ g.ad.round[f].index = i
        /\ g.ad.round[f].started = c.ad.round[f].started
    BY <1>1, <1>3, <1>5, TextAdded
  <2> QED
    BY <2>1 DEF Streamed, Other
<1>7. PICK o : o = IF c.ad.round[f].started THEN g ELSE Emit(g, e1)
  OBVIOUS
<1>8. /\ o \in InCall /\ o.ad = g.ad
      /\ o.wire \in {c.wire, Opening(c, f)} /\ (o.ok => o.wire = Opening(c, f))
  <2>1. CASE c.ad.round[f].started
    BY <1>6, <1>7, <2>1 DEF Opening
  <2>2. CASE ~c.ad.round[f].started
    <3>1. o = Emit(g, e1) /\ Opening(c, f) = Append(g.wire, e1)
      BY <1>3, <1>4, <1>6, <1>7, <2>2 DEF Opening
    <3> QED
      BY <1>6, <3>1, Emitted
  <2> QED
    BY <2>1, <2>2
<1>9. CASE ~o.ok
  <2>1. d = Emit(o, e2)
    <3>1. CASE c.ad.round[f].started
      BY <1>6, <1>7, <1>9, <3>1
    <3>2. CASE ~c.ad.round[f].started
      BY <1>3, <1>4, <1>5, <1>7, <1>9, <3>2 DEF Write, WithText
    <3> QED
      BY <3>1, <3>2
  <2>2. d = o
    BY <1>9, <2>1 DEF Emit
  <2> QED
    BY <1>3, <1>8, <1>9, <2>2 DEF WroteOn
<1>10. CASE o.ok
  <2>1. PICK h : h = WithStart(o, f)
    OBVIOUS
  <2>2. /\ h \in InCall /\ h.wire = Opening(c, f) /\ h.ad.round[f].started
        /\ h.ad.round[f].index = i /\ h.ad.round[Other(f)] = c.ad.round[Other(f)]
    <3>1. Streamed(o, h, f) /\ h.ad.round[f].index = o.ad.round[f].index /\ h.ad.round[f].started
      <4>1. o \in InCall
        BY <1>8
      <4> QED
        BY <2>1, <4>1, BlockBegun
    <3> QED
      BY <1>6, <1>8, <1>10, <3>1 DEF Streamed, Other
  <2>3. d = Emit(h, e2)
    <3>1. CASE c.ad.round[f].started
      <4>1. o = g
        BY ONLY <1>7, <3>1
      <4> QED
        BY <1>3, <1>4, <1>5, <1>6, <2>1, <3>1, <4>1, Zenon DEF Write, WithText, WithStart
    <3>2. CASE ~c.ad.round[f].started
      BY <1>3, <1>4, <1>5, <1>7, <1>10, <2>1, <3>2 DEF Write, WithText, WithStart
    <3> QED
      BY <3>1, <3>2
  <2>4. /\ d.ad = h.ad /\ (d.ok => d.wire = Append(h.wire, e2))
        /\ d.wire = h.wire \/ d.wire = Append(h.wire, e2)
    BY <2>2, <2>3, Emitted
  <2>5. Append(h.wire, e2) = Said(c, f, x)
    BY <1>3, <1>4, <2>2 DEF Said
  <2> QED
    BY <1>3, <2>2, <2>4, <2>5 DEF WroteOn
<1> QED
  BY <1>8, <1>9, <1>10 DEF InCall

Stopped(c, f) == Append(c.wire, BlockStop(c.ad.round[f].index))

ClosedOn(c, f, d) ==
  IF c.ad.round[f].started
    THEN /\ c.ad.round[f].index \in Nat
         /\ d.wire \in {c.wire, Stopped(c, f)}
         /\ d.ok => d.wire = Stopped(c, f)
    ELSE d = c

LEMMA ClosesOn ==
  ASSUME NEW c, NEW s, NEW m, Fine(c, s, m), NEW f \in {"thinking", "text"},
         c.ok, c.ad.round.opened <=> f = "text",
         NEW d, d = Close(c, f)
  PROVE  ClosedOn(c, f, d)
<1>1. c \in InCall /\ c.wire \in Seq(WireEvents)
  BY DEF Fine, InCall
<1>2. CASE ~c.ad.round[f].started
  BY <1>2 DEF Close, ClosedOn
<1>3. CASE c.ad.round[f].started
  <2>1. BlockAt(c.wire, c.ad.round[f], f)
    BY <1>1, MidwayAt DEF Fine
  <2>2. PICK i \in Nat : i = c.ad.round[f].index
    BY <2>1 DEF BlockAt
  <2>3. PICK e \in WireEvents : e = BlockStop(i)
    BY StopEvent
  <2>4. PICK o : o = Emit(c, e)
    OBVIOUS
  <2>5. /\ o \in InCall /\ o.ad = c.ad /\ (o.ok => o.wire = Append(c.wire, e))
        /\ o.wire = c.wire \/ o.wire = Append(c.wire, e)
    BY <1>1, <2>4, Emitted
  <2>6. Append(c.wire, e) = Stopped(c, f)
    BY <2>2, <2>3 DEF Stopped
  <2>8. CASE ~o.ok
    <3>1. d = o
      BY <1>3, <2>2, <2>3, <2>4, <2>8, Zenon DEF Close
    <3> QED
      BY <1>3, <2>2, <2>5, <2>6, <2>8, <3>1 DEF ClosedOn
  <2>9. CASE o.ok
    <3>1. d = WithStop(o, f)
      BY <1>3, <2>2, <2>3, <2>4, <2>9 DEF Close, WithStop
    <3>2. Streamed(o, d, f)
      <4>1. o.ad.round[f].index \in Nat
        BY <2>2, <2>5
      <4> QED
        BY <2>5, <3>1, <4>1, BlockEnded
    <3>3. d.wire = o.wire
      BY <3>2 DEF Streamed
    <3> QED
      BY ONLY <1>3, <2>2, <2>5, <2>6, <2>9, <3>3 DEF ClosedOn
  <2> QED
    BY <2>5, <2>8, <2>9 DEF InCall
<1> QED
  BY <1>2, <1>3

(* openText, when text has not been opened yet.                            *)
LEMMA OpensOn ==
  ASSUME NEW c, NEW s, NEW m, Fine(c, s, m), c.ok, ~c.ad.round.opened,
         NEW d, d = openText(c)
  PROVE  /\ IF c.ad.round.thinking.started
              THEN /\ c.ad.round.thinking.index \in Nat
                   /\ d.wire \in {c.wire, Stopped(c, "thinking")}
                   /\ d.ok => d.wire = Stopped(c, "thinking")
              ELSE d.wire = c.wire
         /\ d.ok => d.ad.round.opened /\ ~d.ad.round.text.started
<1>1. PICK g : g = Close(c, "thinking")
  OBVIOUS
<1>2. ClosedOn(c, "thinking", g)
  BY <1>1, ClosesOn
<1>3. Fine(g, s, m)
  BY <1>1, Closed
<1>4. CASE ~g.ok
  <2>1. d = g
    BY <1>1, <1>4 DEF openText
  <2> QED
    BY <1>2, <1>4, <2>1 DEF ClosedOn
<1>5. CASE g.ok
  <2>1. g \in InCall /\ g.ad.round.thinking \in Streamers
    BY <1>3, StreamerType DEF Fine
  <2>2. PICK x \in Streamers : x = NewStreamer(g.ad.round.thinking.index)
    <3>1. g.ad.round.thinking.index \in Nat \cup {-1}
      BY <2>1 DEF Streamers
    <3>2. NewStreamer(g.ad.round.thinking.index) \in Streamers
      BY <3>1 DEF NewStreamer, Streamers, EmptyText
    <3> QED
      BY <3>2
  <2>3. d = WithOpened(g, x)
    BY <1>1, <1>5, <2>2 DEF openText, WithOpened
  <2>4. d.wire = g.wire /\ d.ad.round.opened /\ d.ad.round.text = x
    BY <2>1, <2>3, TextPut
  <2>5. ~x.started
    BY <2>2 DEF NewStreamer
  <2> QED
    BY <1>2, <1>5, <2>4, <2>5 DEF ClosedOn
<1> QED
  BY <1>3, <1>4, <1>5 DEF Fine, InCall

LEMMA WroteNumbers ==
  ASSUME NEW c \in InCall, NEW d, NEW f \in {"thinking", "text"}, NEW g \in {"thinking", "text"},
         f # g, NEW S, S \subseteq Nat, NEW n \in Nat, Numbered(c.wire, f, S, n),
         NEW X, NEW m, Numbered(c.wire, g, X, m), Tooled(c.wire),
         NEW R, S \subseteq R, R \subseteq Nat, NEW k \in R, n < k,
         WroteOn(c, f, <<k>>, d)
  PROVE  Numbered(d.wire, f, R, k) /\ Numbered(d.wire, g, X, m) /\ Tooled(d.wire)
<1>1. PICK w \in Seq(WireEvents) : w = c.wire
  BY DEF InCall
<1>2. PICK i \in Nat : i = c.ad.round[f].index
  BY DEF WroteOn
<1>3. k \in Nat /\ n <= k /\ <<k>> \in Seq(Nat)
  OBVIOUS
<1>4. PICK e1 \in WireEvents, e2 \in WireEvents :
        e1 = BlockStart(i, f) /\ e2 = BlockDelta(i, f, <<k>>)
  BY <1>3, BlockEvents
<1>5. /\ IsStart(e1) /\ e1.block = f /\ ~IsDelta(e1)
      /\ IsDelta(e2) /\ ~IsStart(e2) /\ e2.block = f /\ e2.text = <<k>>
  BY <1>4 DEF BlockStart, BlockDelta, IsStart, IsDelta
<1>6. PICK u : u = Opening(c, f)
  OBVIOUS
<1>7. u = w \/ u = Append(w, e1)
  BY <1>1, <1>2, <1>4, <1>6 DEF Opening
<1>8. u \in Seq(WireEvents) /\ Numbered(u, f, S, n) /\ Numbered(u, g, X, m) /\ Tooled(u)
  <2>1. CASE u = w
    BY <1>1, <2>1
  <2>2. CASE u = Append(w, e1)
    <3>1. ~Speaks(e1, f) /\ ~Speaks(e1, g) /\ ~IsUse(e1)
      BY <1>5 DEF Speaks, IsUse
    <3>2. Numbered(u, f, S, n) /\ Numbered(u, g, X, m)
      BY <1>1, <2>2, <3>1, NumberedQuiet
    <3>3. Tooled(u)
      BY <1>1, <1>5, <2>2, <3>1, TooledQuiet
    <3> QED
      BY <2>2, <3>2, <3>3
  <2> QED
    BY <1>7, <2>1, <2>2
<1>9. PICK v : v = Append(u, e2)
  OBVIOUS
<1>10. Numbered(v, f, R, k) /\ Numbered(v, g, X, m) /\ Tooled(v)
  <2>1. Speaks(e2, f) /\ ~Speaks(e2, g) /\ ~IsUse(e2) /\ ~IsTool(e2)
    BY <1>5 DEF Speaks, IsUse, IsTool
  <2>2. Numbered(v, f, R, k)
    BY <1>5, <1>8, <1>9, <2>1, NumberedNext
  <2>3. Numbered(v, g, X, m)
    BY <1>8, <1>9, <2>1, NumberedQuiet
  <2>4. Tooled(v)
    BY <1>8, <1>9, <2>1, TooledQuiet
  <2> QED
    BY <2>2, <2>3, <2>4
<1>11. d.wire \in {w, u, v}
  BY <1>1, <1>2, <1>4, <1>6, <1>9 DEF WroteOn, Said
<1>12. Numbered(w, f, R, k) /\ Numbered(u, f, R, k)
  BY <1>1, <1>3, <1>8, NumberedMore
<1> QED
  BY <1>1, <1>8, <1>10, <1>11, <1>12

LEMMA StopHeeded ==
  ASSUME NEW w \in Seq(WireEvents), NEW T, NEW n, NEW X, NEW m, Heeded(w, T, n, X, m),
         NEW i \in Nat
  PROVE  Heeded(Append(w, BlockStop(i)), T, n, X, m)
<1>1. PICK e \in WireEvents : e = BlockStop(i)
  BY StopEvent
<1>2. ~IsDelta(e) /\ ~IsUse(e)
  BY <1>1 DEF BlockStop, IsDelta, IsUse, IsStart
<1> QED
  BY <1>1, <1>2, HeededQuiet

LEMMA HeededMore ==
  ASSUME NEW w, NEW T, NEW n \in Nat, NEW X, NEW m \in Nat, Heeded(w, T, n, X, m),
         NEW R, T \subseteq R, R \subseteq Nat, NEW i \in Nat, n <= i,
         NEW Z, X \subseteq Z, Z \subseteq Nat, NEW j \in Nat, m <= j
  PROVE  Heeded(w, R, i, Z, j)
BY NumberedMore DEF Heeded

(* openText closes at most the thinking block.                             *)
LEMMA OpenHeeded ==
  ASSUME NEW c, NEW s, NEW l, Fine(c, s, l), NEW d, d = openText(c),
         NEW T, NEW n, NEW X, NEW m, Heeded(c.wire, T, n, X, m)
  PROVE  Heeded(d.wire, T, n, X, m)
<1>1. c \in InCall /\ c.wire \in Seq(WireEvents) /\ c.ok \in BOOLEAN /\ c.ad.round.opened \in BOOLEAN
  BY StreamerType DEF Fine
<1>2. CASE ~c.ok \/ c.ad.round.opened
  BY <1>2 DEF openText
<1>3. CASE c.ok /\ ~c.ad.round.opened
  <2>1. IF c.ad.round.thinking.started
          THEN /\ c.ad.round.thinking.index \in Nat
               /\ d.wire \in {c.wire, Stopped(c, "thinking")}
          ELSE d.wire = c.wire
    BY <1>3, OpensOn
  <2>2. CASE d.wire = c.wire
    BY <2>2
  <2>3. CASE d.wire # c.wire
    <3>1. c.ad.round.thinking.index \in Nat /\ d.wire = Stopped(c, "thinking")
      BY <2>1, <2>3
    <3>2. Heeded(Append(c.wire, BlockStop(c.ad.round.thinking.index)), T, n, X, m)
      BY <1>1, <3>1, StopHeeded
    <3> QED
      BY <3>1, <3>2 DEF Stopped
  <2> QED
    BY <2>2, <2>3
<1> QED
  BY <1>1, <1>2, <1>3

LEMMA FinishHeeded ==
  ASSUME NEW c, NEW s, NEW l, Fine(c, s, l), NEW d, d = finish(c),
         NEW T, NEW n, NEW X, NEW m, Heeded(c.wire, T, n, X, m)
  PROVE  Heeded(d.wire, T, n, X, m)
<1>1. PICK g : g = openText(c)
  OBVIOUS
<1>2. Heeded(g.wire, T, n, X, m)
  BY <1>1, OpenHeeded
<1>3. Fine(g, s, l) /\ (g.ok => g.ad.round.opened)
  BY <1>1, TextOpened
<1>4. d = Close(g, "text") /\ g.wire \in Seq(WireEvents) /\ g.ok \in BOOLEAN
  BY <1>1, <1>3 DEF finish, Fine, InCall
<1>5. CASE ~g.ok
  BY <1>2, <1>4, <1>5 DEF Close
<1>6. CASE g.ok
  <2>1. ClosedOn(g, "text", d)
    BY <1>3, <1>4, <1>6, ClosesOn
  <2>2. CASE d.wire = g.wire
    BY <1>2, <2>2
  <2>3. CASE d.wire # g.wire
    <3>1. g.ad.round.text.index \in Nat /\ d.wire = Stopped(g, "text")
      BY <2>1, <2>3 DEF ClosedOn
    <3>2. Heeded(Append(g.wire, BlockStop(g.ad.round.text.index)), T, n, X, m)
      BY <1>2, <1>4, <3>1, StopHeeded
    <3> QED
      BY <3>1, <3>2 DEF Stopped
  <2> QED
    BY <2>2, <2>3
<1> QED
  BY <1>4, <1>5, <1>6

LEMMA WrittenThinking ==
  ASSUME NEW c, NEW s, NEW l, Fine(c, s, l), ~c.ad.round.opened, NEW z \in Seq(Nat),
         NEW d, d = Write(c, "thinking", z)
  PROVE  Fine(d, s, l) /\ d.ad.round.opened = c.ad.round.opened
BY Written

LEMMA WrittenText ==
  ASSUME NEW c, NEW s, NEW l, Fine(c, s, l), c.ad.round.opened, NEW z \in Seq(Nat),
         NEW d, d = Write(c, "text", z)
  PROVE  Fine(d, s, l) /\ d.ad.round.opened = c.ad.round.opened
BY Written

(* OnDelta: delta k, of which x is shown as thinking and y as text.        *)
DeltaDue(c, k, x, y, T, R, X, Z) ==
  /\ k \in Nat \ {0} /\ x \in {<<>>, <<k>>} /\ y \in {<<>>, <<k>>}
  /\ Heeded(c.wire, T, k - 1, X, k - 1)
  /\ T \subseteq R /\ R \subseteq Nat /\ (x = <<k>> /\ ~c.ad.round.opened => k \in R)
  /\ X \subseteq Z /\ Z \subseteq Nat /\ (y = <<k>> => k \in Z)

LEMMA DeltaHeeded ==
  ASSUME NEW c, NEW s, NEW l, Fine(c, s, l), c.ok, NEW k, NEW x, NEW y, NEW d, d = handleDelta(c, x, y),
         NEW T, NEW R, NEW X, NEW Z, DeltaDue(c, k, x, y, T, R, X, Z)
  PROVE  /\ Heeded(d.wire, R, k, Z, k)
         /\ d.ok /\ (c.ad.round.opened \/ y = <<k>>) => d.ad.round.opened
<1>0. PICK n \in Nat : n = k - 1
  BY DEF DeltaDue
<1> USE <1>0
<1>a. /\ k \in Nat /\ n < k /\ x \in {<<>>, <<k>>} /\ y \in {<<>>, <<k>>}
      /\ Heeded(c.wire, T, n, X, n) /\ T \subseteq Nat /\ X \subseteq Nat
      /\ T \subseteq R /\ R \subseteq Nat /\ (x = <<k>> /\ ~c.ad.round.opened => k \in R)
      /\ X \subseteq Z /\ Z \subseteq Nat /\ (y = <<k>> => k \in Z)
  BY DEF DeltaDue
<1> USE <1>a
<1>1. /\ c \in InCall /\ c.wire \in Seq(WireEvents) /\ c.ad.round.opened \in BOOLEAN
      /\ <<k>> \in Seq(Nat) /\ x \in Seq(Nat) /\ y \in Seq(Nat) /\ n <= k /\ <<k>> # <<>>
      /\ n <= n /\ k <= k /\ X \subseteq X /\ R \subseteq R
  <2>1. c \in InCall
    BY DEF Fine
  <2>2. c.wire \in Seq(WireEvents) /\ c.ad.round.opened \in BOOLEAN
    BY <2>1, StreamerType
  <2>3. <<k>> \in Seq(Nat) /\ <<>> \in Seq(Nat) /\ n <= k /\ <<k>> # <<>>
    OBVIOUS
  <2>4. n <= n /\ k <= k /\ X \subseteq X /\ R \subseteq R
    OBVIOUS
  <2> QED
    BY <2>1, <2>2, <2>3, <2>4
<1>2. PICK g : g = IF c.ad.round.opened THEN c ELSE Write(c, "thinking", x)
  OBVIOUS
<1>3. /\ Fine(g, s, l) /\ Heeded(g.wire, R, k, X, n)
      /\ g.ad.round.opened = c.ad.round.opened
  <2>1. CASE c.ad.round.opened \/ x = <<>>
    <3>1. g = c
      BY <1>2, <2>1 DEF Write, EmptyText
    <3>2. Heeded(c.wire, R, k, X, n)
      BY <1>1, HeededMore
    <3> QED
      BY <3>1, <3>2, Zenon
  <2>2. CASE ~c.ad.round.opened /\ x = <<k>>
    <3>1. g = Write(c, "thinking", <<k>>) /\ <<k>> # EmptyText
      BY <1>1, <1>2, <2>2 DEF EmptyText
    <3>2. Fine(g, s, l) /\ g.ad.round.opened = c.ad.round.opened
      <4>1. PICK z \in Seq(Nat) : z = <<k>>
        BY <1>1
      <4>2. g = Write(c, "thinking", z) /\ ~c.ad.round.opened
        BY <2>2, <3>1, <4>1
      <4> QED
        BY <4>2, WrittenThinking
    <3>3. WroteOn(c, "thinking", <<k>>, g)
      <4>1. PICK z \in Seq(Nat) : z = <<k>>
        BY <1>1
      <4>2. c.ok /\ z # EmptyText /\ (c.ad.round.opened <=> "thinking" = "text")
            /\ g = Write(c, "thinking", z) /\ "thinking" \in {"thinking", "text"}
        BY <1>1, <2>2, <3>1, <4>1
      <4>3. WroteOn(c, "thinking", z, g)
        BY ONLY <4>2, Fine(c, s, l), z \in Seq(Nat), WritesOn
      <4> QED
        BY <4>1, <4>3
    <3>4. /\ Numbered(g.wire, "thinking", R, k) /\ Numbered(g.wire, "text", X, n)
          /\ Tooled(g.wire)
      <4>1. /\ Numbered(c.wire, "thinking", T, n) /\ Numbered(c.wire, "text", X, n)
            /\ Tooled(c.wire)
        BY DEF Heeded
      <4>2. c \in InCall /\ k \in R /\ "thinking" # "text"
        BY <1>1, <2>2
      <4> QED
        BY ONLY <3>3, <4>1, <4>2, T \subseteq Nat, T \subseteq R, R \subseteq Nat, n \in Nat, n < k,
                WroteNumbers
    <3> QED
      BY <3>2, <3>4 DEF Heeded
  <2> QED
    BY <1>1, <2>1, <2>2
<1>4. CASE y = <<>>
  <2>1. d = g
    BY <1>2, <1>4 DEF handleDelta, EmptyText
  <2>2. Heeded(g.wire, R, k, Z, k)
    BY <1>1, <1>3, HeededMore
  <2> QED
    BY <1>1, <1>3, <1>4, <2>1, <2>2
<1>5. CASE y = <<k>>
  <2>1. PICK h : h = openText(g)
    OBVIOUS
  <2>2. Fine(h, s, l) /\ (h.ok => h.ad.round.opened)
    BY <1>3, <2>1, TextOpened
  <2>3. Heeded(h.wire, R, k, X, n)
    BY <1>3, <2>1, OpenHeeded
  <2>4. d = Write(h, "text", <<k>>) /\ <<k>> # EmptyText /\ h \in InCall /\ h.ok \in BOOLEAN
    BY <1>1, <1>2, <1>5, <2>1, <2>2 DEF handleDelta, EmptyText, Fine, InCall
  <2>5. CASE ~h.ok
    <3>1. d = h
      BY <2>4, <2>5 DEF Write
    <3>2. Heeded(h.wire, R, k, Z, k)
      BY <1>1, <2>3, HeededMore
    <3> QED
      BY <2>5, <3>1, <3>2
  <2>6. CASE h.ok
    <3>1. d.ad.round.opened = h.ad.round.opened
      <4>1. PICK z \in Seq(Nat) : z = <<k>>
        BY <1>1
      <4>2. d = Write(h, "text", z) /\ h.ad.round.opened
        BY <2>2, <2>4, <2>6, <4>1
      <4> QED
        BY <2>2, <4>2, WrittenText
    <3>2. WroteOn(h, "text", <<k>>, d)
      BY <1>1, <2>2, <2>4, <2>6, WritesOn
    <3>3. /\ Numbered(d.wire, "thinking", R, k) /\ Numbered(d.wire, "text", Z, k)
          /\ Tooled(d.wire)
      BY <1>5, <2>3, <2>4, <3>2, WroteNumbers DEF Heeded
    <3> QED
      BY <2>2, <2>6, <3>1, <3>3 DEF Heeded
  <2> QED
    BY <2>4, <2>5, <2>6
<1> QED
  BY <1>4, <1>5

(* The start of a tool block, and the delta right behind it.               *)
Fresh(w, e) ==
  UniqueIDs /\ IsUse(e) =>
    e.name = e.id /\ \A p \in DOMAIN w : IsUse(w[p]) => w[p].id # e.id

LEMMA TooledStart ==
  ASSUME NEW w \in Seq(WireEvents), NEW e \in WireEvents, NEW v, v = Append(w, e),
         Tooled(w), IsStart(e), Fresh(w, e)
  PROVE  Tooled(v)
<1>1. PICK m : m = Len(w) + 1
  OBVIOUS
<1>2. /\ v \in Seq(WireEvents) /\ DOMAIN v = DOMAIN w \cup {m}
      /\ DOMAIN w \subseteq Nat /\ m \in Nat /\ m \notin DOMAIN w
      /\ v[m] = e /\ \A p \in DOMAIN w : v[p] = w[p] /\ p < m
  BY <1>1, Extended
<1>3. \A p \in DOMAIN v : IsDelta(v[p]) => p \in DOMAIN w /\ v[p] = w[p]
  BY <1>2, EventShape
<1>4. Tagged(v)
  BY <1>3 DEF Tooled, Tagged
<1>5. Behind(w) => Behind(v)
  <2> SUFFICES ASSUME Behind(w), NEW p \in DOMAIN v, IsDelta(v[p]), IsTool(v[p])
               PROVE  /\ p - 1 \in DOMAIN v /\ IsStart(v[p - 1])
                      /\ v[p - 1].index = v[p].index /\ v[p - 1].block = v[p].block
                      /\ v[p].text \in {<<>>, <<v[p - 1].id>>}
    BY DEF Behind
  <2>1. p \in DOMAIN w /\ v[p] = w[p]
    BY <1>3
  <2>2. p - 1 \in DOMAIN w /\ v[p - 1] = w[p - 1]
    BY <1>2, <2>1 DEF Behind
  <2> QED
    BY <1>2, <2>1, <2>2 DEF Behind
<1>6. ASSUME UniqueIDs, Distinct(w)
      PROVE  Distinct(v)
  <2>1. \A p \in DOMAIN v : p # m => p \in DOMAIN w /\ v[p] = w[p]
    BY <1>2
  <2>2. \A p \in DOMAIN v : IsUse(v[p]) => v[p].name = v[p].id
    BY <1>2, <1>6, <2>1 DEF Distinct, Fresh
  <2>3. ASSUME NEW p \in DOMAIN v, NEW q \in DOMAIN v, p # q, IsUse(v[p]), IsUse(v[q])
        PROVE  v[p].id # v[q].id
    <3>1. CASE p = m
      BY <1>2, <1>6, <2>1, <2>3, <3>1 DEF Fresh
    <3>2. CASE q = m
      BY <1>2, <1>6, <2>1, <2>3, <3>2 DEF Fresh
    <3>3. CASE p # m /\ q # m
      BY <1>6, <2>1, <2>3, <3>3 DEF Distinct
    <3> QED
      BY <3>1, <3>2, <3>3
  <2> QED
    BY <2>2, <2>3 DEF Distinct
<1> QED
  BY <1>4, <1>5, <1>6 DEF Tooled

Carries(e1, e2) ==
  /\ e2.index = e1.index /\ e2.block = e1.block /\ e2.text \in Seq(Tags)
  /\ UniqueIDs => e2.text \in {<<>>, <<e1.id>>}

LEMMA TooledDelta ==
  ASSUME NEW u \in Seq(WireEvents), NEW e1 \in WireEvents, NEW w, w = Append(u, e1),
         NEW e \in WireEvents, NEW v, v = Append(w, e),
         Tooled(w), IsStart(e1), IsDelta(e), Carries(e1, e)
  PROVE  Tooled(v)
<1>1. PICK m : m = Len(w) + 1
  OBVIOUS
<1>2. w \in Seq(WireEvents) /\ m - 1 \in DOMAIN w /\ w[m - 1] = e1
  BY <1>1
<1>3. /\ v \in Seq(WireEvents) /\ DOMAIN v = DOMAIN w \cup {m}
      /\ DOMAIN w \subseteq Nat /\ m \in Nat /\ m \notin DOMAIN w
      /\ v[m] = e /\ \A p \in DOMAIN w : v[p] = w[p] /\ p < m
  BY <1>1, <1>2, Extended
<1>4. v[m - 1] = e1 /\ m - 1 \in DOMAIN v /\ ~IsUse(e)
  BY <1>2, <1>3, EventShape DEF IsUse
<1>5. Tagged(v)
  BY <1>3 DEF Tooled, Tagged, Carries
<1>6. ASSUME UniqueIDs, Behind(w)
      PROVE  Behind(v)
  <2> SUFFICES ASSUME NEW p \in DOMAIN v, IsDelta(v[p]), IsTool(v[p])
               PROVE  /\ p - 1 \in DOMAIN v /\ IsStart(v[p - 1])
                      /\ v[p - 1].index = v[p].index /\ v[p - 1].block = v[p].block
                      /\ v[p].text \in {<<>>, <<v[p - 1].id>>}
    BY DEF Behind
  <2>1. CASE p = m
    BY <1>3, <1>4, <1>6, <2>1 DEF Carries
  <2>2. CASE p # m
    <3>1. p \in DOMAIN w /\ v[p] = w[p]
      BY <1>3, <2>2
    <3>2. p - 1 \in DOMAIN w /\ v[p - 1] = w[p - 1]
      BY <1>3, <1>6, <3>1 DEF Behind
    <3> QED
      BY <1>3, <1>6, <3>1, <3>2 DEF Behind
  <2> QED
    BY <2>1, <2>2
<1>7. Distinct(w) => Distinct(v)
  <2>1. \A p \in DOMAIN v : IsUse(v[p]) => p \in DOMAIN w /\ v[p] = w[p]
    BY <1>3, <1>4
  <2> QED
    BY <2>1 DEF Distinct
<1> QED
  BY <1>5, <1>6, <1>7 DEF Tooled

(* A tool block, or the beginning of one.                                  *)
ToolDue(w, e1, e2, e3, v) ==
  /\ \E i \in Nat, kind \in {"tool_use", "tool_result"} : ForBlock(e1, e2, e3, i, kind)
  /\ Fresh(w, e1) /\ Carries(e1, e2)
  /\ v \in {w, Append(w, e1), Append(Append(w, e1), e2), Append(Append(Append(w, e1), e2), e3)}

LEMMA ToolHeeded ==
  ASSUME NEW w \in Seq(WireEvents), NEW e1 \in WireEvents, NEW e2 \in WireEvents,
         NEW e3 \in WireEvents, NEW v, ToolDue(w, e1, e2, e3, v),
         NEW T, NEW n, NEW X, NEW m, Heeded(w, T, n, X, m)
  PROVE  Heeded(v, T, n, X, m)
<1> PICK i \in Nat, kind \in {"tool_use", "tool_result"} : ForBlock(e1, e2, e3, i, kind)
  BY DEF ToolDue
<1> PICK w1, w2, w3 : w1 = Append(w, e1) /\ w2 = Append(w1, e2) /\ w3 = Append(w2, e3)
  OBVIOUS
<1>0. Fresh(w, e1) /\ Carries(e1, e2) /\ v \in {w, w1, w2, w3}
  BY DEF ToolDue
<1> USE <1>0
<1>1. IsStart(e1) /\ IsDelta(e2) /\ IsStop(e3) /\ e2.block = kind
  BY DEF ForBlock
<1>2. ~IsDelta(e1) /\ ~IsUse(e3) /\ ~IsDelta(e3) /\ ~Speaks(e2, "text") /\ ~Speaks(e2, "thinking")
  BY <1>1, EventShape DEF IsUse, Speaks
<1>3. w1 \in Seq(WireEvents) /\ w2 \in Seq(WireEvents)
  OBVIOUS
<1>4. Heeded(w1, T, n, X, m)
  <2>1. Tooled(w1)
    BY <1>1, TooledStart DEF Heeded
  <2>2. ~Speaks(e1, "text") /\ ~Speaks(e1, "thinking")
    BY <1>2 DEF Speaks
  <2>3. Numbered(w1, "text", X, m) /\ Numbered(w1, "thinking", T, n)
    BY <2>2, NumberedQuiet DEF Heeded
  <2> QED
    BY <2>1, <2>3 DEF Heeded
<1>5. Heeded(w2, T, n, X, m)
  <2>1. Tooled(w2)
    BY <1>1, <1>4, TooledDelta DEF Heeded
  <2>2. Numbered(w2, "text", X, m) /\ Numbered(w2, "thinking", T, n)
    BY <1>2, <1>3, <1>4, NumberedQuiet DEF Heeded
  <2> QED
    BY <2>1, <2>2 DEF Heeded
<1>6. Heeded(w3, T, n, X, m)
  BY <1>2, <1>3, <1>5, HeededQuiet
<1> QED
  BY <1>4, <1>5, <1>6

--------------------------------------------------------------------------------
(* The invariant of the writer: every delta on the wire was said, up to    *)
(* the number of the last one heard; the text is opened once the model has *)
(* spoken; and where ids are unique the calls of the round are named by    *)
(* them and those still to be announced are not yet on the wire.           *)
Voiced(q, f) == {k \in Nat : \E i \in DOMAIN q : \E j \in DOMAIN q[i][f] : q[i][f][j] = k}

HeardIn(q) == IF q = <<>> THEN 0 ELSE q[Len(q)].deltas

UsesBefore(w, n, k) ==
  \A p \in DOMAIN w :
    IsUse(w[p]) => w[p].name[1] < n \/ (w[p].name[1] = n /\ w[p].name[2] < k)

Voices(w, q) == Heeded(w, Voiced(q, "thinking"), HeardIn(q), Voiced(q, "text"), HeardIn(q))

Good(a, w, u, q) ==
  /\ Voices(w, q)
  /\ u.phase = "streaming" /\ q[Len(q)].text # <<>> => a.round.opened
  /\ UniqueIDs /\ u.phase \in {"calling", "results"} =>
       \A k \in 1 .. Len(u.calls) : u.calls[k].id = u.calls[k].tag
  /\ UniqueIDs /\ u.phase = "calling" => UsesBefore(w, Len(q), u.next)

GInv == Good(ad, wire, run, said)

LEMMA HeardIs ==
  ASSUME ATypes
  PROVE  Heard = HeardIn(said) /\ HeardIn(said) \in Nat
BY HeardType DEF Heard, HeardIn, Round

LEMMA GivenUpGood ==
  ASSUME NEW a, NEW w, NEW u, NEW q, Voices(w, q), u.phase \notin {"streaming", "calling", "results"}
  PROVE  Good(a, w, u, q)
BY DEF Good

LEMMA GoodStarts ==
  AInit => GInv
<1> SUFFICES ASSUME AInit
             PROVE  GInv
  OBVIOUS
<1>1. wire = <<>> /\ said = <<>> /\ run.phase = "preamble"
  BY DEF AInit
<1>2. DOMAIN wire = {}
  BY <1>1
<1>3. Voices(wire, said)
  BY <1>2 DEF Voices, Heeded, Numbered, Tooled, Tagged, Behind, Distinct
<1> QED
  BY <1>1, <1>3, GivenUpGood DEF GInv

(* What is no delta and no use.                                            *)
LEMMA VoicesQuiet ==
  ASSUME NEW w \in Seq(WireEvents), NEW q, Voices(w, q), NEW e1 \in WireEvents, NEW e2 \in WireEvents,
         ~IsDelta(e1), ~IsUse(e1), ~IsDelta(e2), ~IsUse(e2),
         NEW w1, w1 = Append(w, e1), NEW w2, w2 = Append(w1, e2), NEW v \in {w, w1, w2}
  PROVE  Voices(v, q)
<1>1. w1 \in Seq(WireEvents)
  OBVIOUS
<1>2. Voices(w1, q)
  BY HeededQuiet DEF Voices
<1>3. Voices(w2, q)
  BY <1>1, <1>2, HeededQuiet DEF Voices
<1> QED
  BY <1>2, <1>3

LEMMA PreambleGood ==
  ASSUME AInv, GInv, NEW call \in Calls, Preamble(call)
  PROVE  GInv'
<1>1. ATypes /\ wire \in Seq(WireEvents) /\ run \in Runs /\ Voices(wire, said)
  BY DEF AInv, ATypes, GInv, Good
<1>2. PICK c \in InCall : c = Begin(call) /\ c.ad = ad /\ c.wire = wire
  BY <1>1, Begun
<1>3. PICK e1 \in WireEvents, e2 \in WireEvents : e1 = MessageStart(<<"stream">>) /\ e2 = Ping
  BY DEF MessageStart, Ping, WireEvents
<1>4. ~IsDelta(e1) /\ ~IsUse(e1) /\ ~IsDelta(e2) /\ ~IsUse(e2)
  BY <1>3 DEF MessageStart, Ping, IsDelta, IsUse, IsStart
<1>5. PICK w1, w2 : w1 = Append(wire, e1) /\ w2 = Append(w1, e2)
  OBVIOUS
<1>6. PICK d : d = EmitPair(c, <<e1, e2>>)
  OBVIOUS
<1>7. d.wire \in {wire, w1, w2}
  <2>1. PairPassed(c, e1, e2, d)
    BY <1>6, PairEmitted
  <2> QED
    BY <1>2, <1>5, <2>1 DEF PairPassed
<1>8. Voices(d.wire, said)
  BY <1>1, <1>4, <1>5, <1>7, VoicesQuiet
<1>9. /\ wire' = d.wire /\ said' = said
      /\ run' = IF d.ok THEN [run EXCEPT !.phase = "round"]
                        ELSE [run EXCEPT !.phase = "aborted", !.failed = TRUE]
  BY <1>2, <1>3, <1>6 DEF Preamble, Done, StreamPreamble
<1>10. run'.phase \in {"round", "aborted"}
  BY <1>1, <1>9 DEF Runs
<1> QED
  BY <1>8, <1>9, <1>10, GivenUpGood DEF GInv

LEMMA EpilogueGood ==
  ASSUME AInv, GInv, NEW call \in Calls, Epilogue(call)
  PROVE  GInv'
<1>1. ATypes /\ wire \in Seq(WireEvents) /\ run \in Runs /\ Voices(wire, said)
  BY DEF AInv, ATypes, GInv, Good
<1>2. PICK c \in InCall : c = Begin(call) /\ c.ad = ad /\ c.wire = wire
  BY <1>1, Begun
<1>3. PICK e1 \in WireEvents, e2 \in WireEvents : e1 = MessageDelta("end_turn") /\ e2 = MessageStop
  BY DEF MessageDelta, MessageStop, WireEvents, StopReasons
<1>4. ~IsDelta(e1) /\ ~IsUse(e1) /\ ~IsDelta(e2) /\ ~IsUse(e2)
  BY <1>3 DEF MessageDelta, MessageStop, IsDelta, IsUse, IsStart
<1>5. PICK w1, w2 : w1 = Append(wire, e1) /\ w2 = Append(w1, e2)
  OBVIOUS
<1>6. PICK d : d = EmitPair(c, <<e1, e2>>)
  OBVIOUS
<1>7. d.wire \in {wire, w1, w2}
  <2>1. PairPassed(c, e1, e2, d)
    BY <1>6, PairEmitted
  <2> QED
    BY <1>2, <1>5, <2>1 DEF PairPassed
<1>8. Voices(d.wire, said)
  BY <1>1, <1>4, <1>5, <1>7, VoicesQuiet
<1>9. wire' = d.wire /\ said' = said /\ run'.phase = "over"
  <2>1. wire' = d.wire /\ said' = said /\ run' = [run EXCEPT !.phase = "over", !.failed = @ \/ ~d.ok]
    BY <1>2, <1>3, <1>6 DEF Epilogue, StreamEpilogue
  <2> QED
    BY <1>1, <2>1 DEF Runs
<1> QED
  BY <1>8, <1>9, GivenUpGood DEF GInv

LEMMA ProviderFailsGood ==
  ASSUME AInv, GInv, ProviderFails \/ Abandon
  PROVE  GInv'
<1>1. run \in Runs /\ Voices(wire, said)
  BY DEF AInv, ATypes, GInv, Good
<1>2. wire' = wire /\ said' = said /\ run'.phase \in {"aborted", "over"}
  BY <1>1 DEF ProviderFails, Abandon, Runs
<1> QED
  BY <1>1, <1>2, GivenUpGood DEF GInv

(* A round added, or the last one changed where nothing is said.           *)
LEMMA SameVoices ==
  ASSUME NEW w, NEW q \in Seq(Rounds), NEW z \in Seq(Rounds), Voices(w, q),
         HeardIn(z) = HeardIn(q), \A f \in {"thinking", "text"} : Voiced(z, f) = Voiced(q, f)
  PROVE  Voices(w, z)
BY DEF Voices

LEMMA OnRoundStartGood ==
  ASSUME AInv, GInv, OnRoundStart
  PROVE  GInv'
<1>1. ATypes /\ said \in Seq(Rounds) /\ run \in Runs /\ Voices(wire, said)
  BY DEF AInv, ATypes, GInv, Good
<1>2. PICK q \in Seq(Rounds), h \in Nat : q = said /\ h = Heard /\ h = HeardIn(q)
  BY <1>1, HeardIs
<1>3. PICK x \in Rounds :
        x = [deltas |-> h, thinking |-> EmptyText, text |-> EmptyText, calls |-> <<>>]
  <2>1. [deltas |-> h, thinking |-> EmptyText, text |-> EmptyText, calls |-> <<>>] \in Rounds
    BY DEF Rounds, EmptyText
  <2> QED
    BY <2>1
<1>4. PICK z : z = Append(q, x)
  OBVIOUS
<1>5. /\ z \in Seq(Rounds) /\ DOMAIN z = DOMAIN q \cup {Len(q) + 1} /\ Len(z) = Len(q) + 1
      /\ z[Len(q) + 1] = x /\ \A i \in DOMAIN q : z[i] = q[i] /\ i # Len(q) + 1
  BY <1>4
<1>6. wire' = wire /\ said' = z /\ run'.phase = "streaming"
  BY <1>1, <1>2, <1>3, <1>4 DEF OnRoundStart, Runs
<1>7. HeardIn(z) = HeardIn(q)
  <2>1. z # <<>> /\ x.deltas = h
    BY <1>3, <1>5
  <2> QED
    BY <1>2, <1>5, <2>1 DEF HeardIn
<1>8. ASSUME NEW f \in {"thinking", "text"}
      PROVE  Voiced(z, f) = Voiced(q, f)
  <2>1. DOMAIN x[f] = {}
    BY <1>3 DEF EmptyText
  <2>2. \A k \in Nat : (\E i \in DOMAIN z : \E j \in DOMAIN z[i][f] : z[i][f][j] = k)
                         <=> \E i \in DOMAIN q : \E j \in DOMAIN q[i][f] : q[i][f][j] = k
    BY <1>5, <2>1
  <2> QED
    BY <2>2 DEF Voiced
<1>9. Voices(wire, z)
  BY <1>1, <1>2, <1>5, <1>7, <1>8, SameVoices
<1>10. z[Len(z)].text = <<>>
  BY <1>3, <1>5 DEF EmptyText
<1>11. Good(ad', wire, run', z)
  BY <1>6, <1>9, <1>10 DEF Good
<1> QED
  BY <1>6, <1>11 DEF GInv

(* One delta more.                                                         *)
HeardMore(o, k, x, y, a) ==
  /\ a \in Rounds /\ a.deltas = o.deltas + 1
  /\ \A f \in {"thinking", "text"} : \A j \in DOMAIN o[f] : j \in DOMAIN a[f] /\ a[f][j] = o[f][j]
  /\ y = <<k>> => \E j \in DOMAIN a.text : a.text[j] = k
  /\ x = <<k>> /\ o.text = <<>> => \E j \in DOMAIN a.thinking : a.thinking[j] = k
  /\ a.text # <<>> => o.text # <<>> \/ y = <<k>>

ChunkAdded(p, k, z, s) ==
  /\ \A j \in DOMAIN p : j \in DOMAIN s /\ s[j] = p[j]
  /\ z = <<k>> => \E j \in DOMAIN s : s[j] = k
  /\ s # <<>> => p # <<>> \/ z = <<k>>

LEMMA AddChunk ==
  ASSUME NEW p \in Seq(Nat), NEW k \in Nat, NEW z \in {<<>>, <<k>>}, NEW s, s = p \o z
  PROVE  ChunkAdded(p, k, z, s)
<1>1. CASE z = <<>>
  <2>1. s = p /\ z # <<k>>
    BY <1>1
  <2> QED
    BY <2>1 DEF ChunkAdded
<1>2. CASE z = <<k>>
  <2>1. s = Append(p, k)
    BY <1>2
  <2>2. /\ Len(p) + 1 \in DOMAIN s /\ s[Len(p) + 1] = k
        /\ \A j \in DOMAIN p : j \in DOMAIN s /\ s[j] = p[j]
    BY <2>1
  <2> QED
    BY <1>2, <2>2 DEF ChunkAdded
<1> QED
  BY <1>1, <1>2

LEMMA HearVoices ==
  ASSUME NEW o \in Rounds, NEW k \in Nat, NEW x \in {<<>>, <<k>>}, NEW y \in {<<>>, <<k>>},
         NEW a, a = Hear(o, x, y)
  PROVE  HeardMore(o, k, x, y, a)
<1>1. x \in Seq(Nat) /\ y \in Seq(Nat)
  <2>1. <<k>> \in Seq(Nat) /\ <<>> \in Seq(Nat)
    OBVIOUS
  <2> QED
    BY <2>1
<1>2. a \in Rounds
  BY <1>1, HearType
<1>3. o.text \in Seq(Nat) /\ o.thinking \in Seq(Nat) /\ o.deltas \in Nat
  BY DEF Rounds
<1>4. /\ a.deltas = o.deltas + 1
      /\ a.thinking = IF o.text = EmptyText THEN o.thinking \o x ELSE o.thinking
      /\ a.text = o.text \o y
  BY DEF Hear, Rounds
<1>5. ChunkAdded(o.text, k, y, a.text)
  BY <1>3, <1>4, AddChunk
<1>6. \A j \in DOMAIN o.text : j \in DOMAIN a.text /\ a.text[j] = o.text[j]
  BY <1>5 DEF ChunkAdded
<1>7. CASE o.text = EmptyText
  <2>1. ChunkAdded(o.thinking, k, x, a.thinking)
    <3>1. a.thinking = o.thinking \o x
      BY <1>4, <1>7
    <3> QED
      BY <1>3, <3>1, AddChunk
  <2> QED
    BY <1>2, <1>4, <1>5, <1>6, <2>1 DEF HeardMore, ChunkAdded
<1>8. CASE o.text # EmptyText
  <2>1. a.thinking = o.thinking
    BY <1>4, <1>8
  <2> QED
    BY <1>2, <1>4, <1>5, <1>6, <1>8, <2>1 DEF HeardMore, ChunkAdded, EmptyText
<1> QED
  BY <1>7, <1>8

LEMMA OnDeltaGood ==
  ASSUME AInv, GInv, NEW call \in Calls, NEW thinks \in BOOLEAN, NEW speaks \in BOOLEAN,
         OnDelta(call, thinks, speaks)
  PROVE  GInv'
<1>1. /\ ATypes /\ Orderly(wire) /\ Booked(wire, said, Len(said) - 1) /\ ~run.failed /\ Serial(wire)
      /\ Midway(ad, wire) /\ run.phase = "streaming" /\ Len(said) > 0 /\ Voices(wire, said)
      /\ said[Len(said)].text # <<>> => ad.round.opened
  BY DEF AInv, NamedUpTo, OnDelta, Streaming, GInv, Good
<1>2. PICK q \in Seq(Rounds), w \in Seq(WireEvents), n \in Nat :
        q = said /\ w = wire /\ n = Heard /\ n = HeardIn(q) /\ run \in Runs
  BY <1>1, HeardIs DEF ATypes
<1>3. PICK k \in Nat : k = n + 1
  OBVIOUS
<1>4. PICK x \in {<<>>, <<k>>}, y \in {<<>>, <<k>>} :
        /\ x = IF thinks THEN <<DeltaNumber>> ELSE EmptyText
        /\ y = IF speaks THEN <<DeltaNumber>> ELSE EmptyText
  BY <1>2, <1>3 DEF DeltaNumber, EmptyText
<1>5. PICK c \in InCall : c = Begin(call) /\ c.ad = ad /\ c.wire = w /\ c.ok
  BY <1>1, <1>2, Begun
<1>6. Fine(c, q, Len(q) - 1)
  BY <1>1, <1>2, <1>5 DEF Fine
<1>7. PICK d : d = handleDelta(c, x, y)
  OBVIOUS
<1>8. PICK o \in Rounds : o = q[Len(q)] /\ o.deltas = n
  <2>1. Len(q) > 0 /\ q # <<>>
    BY <1>1, <1>2
  <2> QED
    BY <1>2, <2>1 DEF HeardIn
<1>9. PICK a : a = Hear(o, x, y) /\ HeardMore(o, k, x, y, a)
  BY HearVoices
<1>10. /\ a \in Rounds /\ a.deltas = k
       /\ \A f \in {"thinking", "text"} : \A j \in DOMAIN o[f] : j \in DOMAIN a[f] /\ a[f][j] = o[f][j]
       /\ y = <<k>> => \E j \in DOMAIN a.text : a.text[j] = k
       /\ x = <<k>> /\ o.text = <<>> => \E j \in DOMAIN a.thinking : a.thinking[j] = k
       /\ a.text # <<>> => o.text # <<>> \/ y = <<k>>
  BY <1>3, <1>8, <1>9 DEF HeardMore
<1>11. PICK z : z = [q EXCEPT ![Len(q)] = a]
  OBVIOUS
<1>12. /\ z \in Seq(Rounds) /\ Len(z) = Len(q) /\ z[Len(q)] = a /\ Len(q) \in Nat /\ Len(q) > 0
       /\ \A i \in 1 .. Len(q) - 1 : z[i] = q[i]
  BY <1>1, <1>2, <1>10, <1>11, LastChanged
<1>13. ASSUME NEW f \in {"thinking", "text"}
       PROVE  /\ Voiced(q, f) \subseteq Voiced(z, f)
              /\ (\E j \in DOMAIN a[f] : a[f][j] = k) => k \in Voiced(z, f)
  <2>1. DOMAIN q = 1 .. Len(q) /\ DOMAIN z = 1 .. Len(q) /\ Len(q) \in DOMAIN z
    BY <1>12
  <2>2. ASSUME NEW i \in DOMAIN q, NEW j \in DOMAIN q[i][f]
        PROVE  i \in DOMAIN z /\ j \in DOMAIN z[i][f] /\ z[i][f][j] = q[i][f][j]
    <3>1. CASE i = Len(q)
      BY <1>8, <1>10, <1>12, <2>1, <2>2, <3>1
    <3>2. CASE i # Len(q)
      BY <1>12, <2>1, <2>2, <3>2
    <3> QED
      BY <3>1, <3>2
  <2>3. Voiced(q, f) \subseteq Voiced(z, f)
    BY <2>2 DEF Voiced
  <2> QED
    BY <1>12, <2>1, <2>3 DEF Voiced
<1>14. /\ Heeded(d.wire, Voiced(z, "thinking"), k, Voiced(z, "text"), k)
       /\ d.ok /\ (c.ad.round.opened \/ y = <<k>>) => d.ad.round.opened
  <2>1. Heeded(c.wire, Voiced(q, "thinking"), n, Voiced(q, "text"), n)
    BY <1>1, <1>2, <1>5 DEF Voices
  <2>2. /\ Voiced(q, "thinking") \subseteq Nat /\ Voiced(z, "thinking") \subseteq Nat
        /\ Voiced(q, "text") \subseteq Nat /\ Voiced(z, "text") \subseteq Nat
    BY DEF Voiced
  <2>3. /\ Voiced(q, "thinking") \subseteq Voiced(z, "thinking")
        /\ Voiced(q, "text") \subseteq Voiced(z, "text")
        /\ y = <<k>> => k \in Voiced(z, "text")
    BY <1>10, <1>13
  <2>4. x = <<k>> /\ ~c.ad.round.opened => k \in Voiced(z, "thinking")
    BY <1>1, <1>2, <1>5, <1>8, <1>10, <1>13
  <2>5. PICK T, X, R, Z : /\ T = Voiced(q, "thinking") /\ X = Voiced(q, "text")
                          /\ R = Voiced(z, "thinking") /\ Z = Voiced(z, "text")
    OBVIOUS
  <2>6. DeltaDue(c, k, x, y, T, R, X, Z)
    <3>1. n = k - 1 /\ k \in Nat \ {0}
      BY <1>3
    <3>2. Heeded(c.wire, T, k - 1, X, k - 1)
      BY <2>1, <2>5, <3>1
    <3>3. /\ T \subseteq R /\ R \subseteq Nat /\ (x = <<k>> /\ ~c.ad.round.opened => k \in R)
          /\ X \subseteq Z /\ Z \subseteq Nat /\ (y = <<k>> => k \in Z)
      BY <2>2, <2>3, <2>4, <2>5
    <3> QED
      BY <3>1, <3>2, <3>3 DEF DeltaDue
  <2>7. /\ Heeded(d.wire, R, k, Z, k)
        /\ d.ok /\ (c.ad.round.opened \/ y = <<k>>) => d.ad.round.opened
    <3>1. c.ok
      BY <1>5
    <3> QED
      BY ONLY <1>6, <1>7, <2>6, <3>1, DeltaHeeded
  <2> QED
    BY <2>5, <2>7
<1>15. /\ ad' = d.ad /\ wire' = d.wire /\ said' = z
       /\ run' = IF d.ok THEN run ELSE [run EXCEPT !.phase = "aborted", !.failed = TRUE]
  <2>1. ad' = d.ad /\ wire' = d.wire
        /\ run' = IF d.ok THEN run ELSE [run EXCEPT !.phase = "aborted", !.failed = TRUE]
    BY <1>4, <1>5, <1>7 DEF OnDelta, Done
  <2>2. said' = [said EXCEPT ![Round] = Hear(said[Round], x, y)]
    BY <1>4 DEF OnDelta
  <2>3. said' = z
    BY <1>2, <1>8, <1>9, <1>11, <2>2 DEF Round
  <2> QED
    BY <2>1, <2>3
<1>16. HeardIn(z) = k
  <2>1. z # <<>>
    BY <1>12
  <2> QED
    BY <1>10, <1>12, <2>1 DEF HeardIn
<1>17. Voices(wire', said')
  BY <1>14, <1>15, <1>16 DEF Voices
<1>18. CASE d.ok
  <2>1. z[Len(z)].text # <<>> => d.ad.round.opened
    BY <1>1, <1>2, <1>5, <1>8, <1>10, <1>12, <1>14, <1>18
  <2>2. run'.phase = "streaming"
    BY <1>1, <1>15, <1>18
  <2>3. Good(ad', wire', run', said')
    BY <1>15, <1>17, <2>1, <2>2 DEF Good
  <2> QED
    BY <2>3 DEF GInv
<1>19. CASE ~d.ok
  <2>1. run'.phase = "aborted"
    BY <1>2, <1>15, <1>19 DEF Runs
  <2> QED
    BY <1>17, <2>1, GivenUpGood DEF GInv
<1> QED
  BY <1>18, <1>19

(* Where ids are unique a call's id is its tag.                            *)
LEMMA CallNames ==
  ASSUME ATypes, UniqueIDs, NEW calls \in CallLists, NEW k \in 1 .. Len(calls)
  PROVE  calls[k].id = calls[k].tag
<1>1. PICK n \in 0 .. MaxTools : \E bare \in 0 .. n :
        calls = [j \in 1 .. n |-> [id |-> CallID(j), tag |-> <<Round, j>>, input |-> j # bare]]
  <2> DEFINE lists(n) ==
        {[j \in 1 .. n |-> [id |-> CallID(j), tag |-> <<Round, j>>, input |-> j # bare]] :
           bare \in 0 .. n}
  <2>1. calls \in UNION {lists(n) : n \in 0 .. MaxTools}
    BY DEF CallLists
  <2>2. PICK n \in 0 .. MaxTools : calls \in lists(n)
    <3> HIDE DEF lists
    <3> QED
      BY <2>1
  <2> QED
    BY <2>2
<1>2. PICK bare \in 0 .. n :
        calls = [j \in 1 .. n |-> [id |-> CallID(j), tag |-> <<Round, j>>, input |-> j # bare]]
  BY <1>1
<1>3. k \in DOMAIN calls
  BY CallListType
<1>4. k \in 1 .. n
  BY <1>2, <1>3
<1>5. calls[k] = [id |-> CallID(k), tag |-> <<Round, k>>, input |-> k # bare]
  BY <1>2, <1>4
<1> QED
  BY <1>5 DEF CallID

LEMMA OnAssistantMessageGood ==
  ASSUME AInv, GInv, NEW call \in Calls, NEW calls \in CallLists, OnAssistantMessage(call, calls)
  PROVE  GInv'
<1>1. /\ ATypes /\ Orderly(wire) /\ Booked(wire, said, Len(said) - 1) /\ ~run.failed /\ Serial(wire)
      /\ Midway(ad, wire) /\ run.phase = "streaming" /\ Len(said) > 0 /\ Voices(wire, said)
  BY DEF AInv, NamedUpTo, OnAssistantMessage, Streaming, GInv, Good
<1>2. PICK q \in Seq(Rounds), w \in Seq(WireEvents) : q = said /\ w = wire /\ run \in Runs
  BY <1>1 DEF ATypes
<1>3. calls \in Seq(ToolCalls) /\ <<>> \in Seq(ToolCalls)
  BY <1>1, CallListType
<1>4. PICK c \in InCall : c = Begin(call) /\ c.ad = ad /\ c.wire = w /\ c.ok
  BY <1>1, <1>2, Begun
<1>5. Fine(c, q, Len(q) - 1)
  BY <1>1, <1>2, <1>4 DEF Fine
<1>6. PICK f : f = finish(c)
  OBVIOUS
<1>7. Fine(f, q, Len(q) - 1) /\ Voices(f.wire, q)
  <2>1. Fine(f, q, Len(q) - 1)
    BY <1>5, <1>6, Finished
  <2>2. Voices(c.wire, q)
    BY <1>1, <1>2, <1>4
  <2>3. Voices(f.wire, q)
    BY <1>5, <1>6, <2>2, FinishHeeded DEF Voices
  <2> QED
    BY <2>1, <2>3
<1>8. PICK ran \in Seq(ToolCalls) : ran = IF Len(q) < MaxRounds THEN calls ELSE <<>>
  BY <1>3
<1>9. PICK o \in Rounds : o = q[Len(q)]
  BY <1>1, <1>2
<1>10. PICK a \in Rounds : /\ a = [o EXCEPT !.calls = ran] /\ a.deltas = o.deltas
                           /\ a.thinking = o.thinking /\ a.text = o.text
  <2>1. /\ [o EXCEPT !.calls = ran] \in Rounds /\ [o EXCEPT !.calls = ran].deltas = o.deltas
        /\ [o EXCEPT !.calls = ran].thinking = o.thinking
        /\ [o EXCEPT !.calls = ran].text = o.text
    BY DEF Rounds
  <2> QED
    BY <2>1
<1>11. PICK z : z = [q EXCEPT ![Len(q)] = a]
  OBVIOUS
<1>12. /\ z \in Seq(Rounds) /\ Len(z) = Len(q) /\ z[Len(q)] = a /\ Len(q) \in Nat /\ Len(q) > 0
       /\ \A i \in 1 .. Len(q) - 1 : z[i] = q[i]
  BY <1>1, <1>2, <1>11, LastChanged
<1>13. said' = z
  <2>1. said' = [said EXCEPT ![Round].calls = ran]
    BY <1>2, <1>8 DEF OnAssistantMessage, Round
  <2> QED
    BY <1>2, <1>9, <1>10, <1>11, <2>1 DEF Round
<1>14. Voices(f.wire, z)
  <2>1. HeardIn(z) = HeardIn(q)
    <3>1. z # <<>> /\ q # <<>>
      BY <1>12
    <3> QED
      BY <1>9, <1>10, <1>12, <3>1 DEF HeardIn
  <2>2. ASSUME NEW f0 \in {"thinking", "text"}
        PROVE  Voiced(z, f0) = Voiced(q, f0)
    <3>1. DOMAIN z = 1 .. Len(q) /\ DOMAIN q = 1 .. Len(q)
      BY <1>12
    <3>2. a[f0] = o[f0]
      BY <1>10
    <3>3. ASSUME NEW i \in 1 .. Len(q)
          PROVE  z[i][f0] = q[i][f0]
      <4>1. CASE i = Len(q)
        BY <1>9, <1>12, <3>2, <4>1
      <4>2. CASE i # Len(q)
        <5>1. i \in 1 .. Len(q) - 1
          BY <1>12, <4>2
        <5> QED
          BY <1>12, <5>1
      <4> QED
        BY <4>1, <4>2
    <3> QED
      BY <3>1, <3>3 DEF Voiced
  <2> QED
    BY <1>7, <1>12, <2>1, <2>2, SameVoices
<1>15. PICK d : d = finishRound(c, calls)
  OBVIOUS
<1>16. d.wire = f.wire /\ d.ok = f.ok
  <2>1. CASE ~f.ok
    <3>1. d = f
      BY <1>6, <1>15, <2>1 DEF finishRound
    <3> QED
      BY <3>1
  <2>2. CASE f.ok
    <3>1. f \in InCall
      BY <1>7 DEF Fine
    <3>2. d = [f EXCEPT !.ad.blockIndex    = nextBlockIndex(f.ad.round),
                        !.ad.toolBase      = nextBlockIndex(f.ad.round),
                        !.ad.toolCallCount = Len(calls),
                        !.ad.rounds        = Round]
      BY <1>6, <1>15, <2>2 DEF finishRound
    <3> QED
      BY <3>1, <3>2 DEF InCall
  <2> QED
    BY <2>1, <2>2
<1>17. /\ wire' = f.wire
       /\ run' = IF f.ok THEN [run EXCEPT !.phase = IF calls = <<>> THEN "finished"
                                                    ELSE IF Len(q) < MaxRounds THEN "calling"
                                                    ELSE "aborted",
                                          !.calls = ran, !.next = 1]
                         ELSE [run EXCEPT !.phase = "aborted", !.failed = TRUE]
  <2>1. wire' = d.wire
        /\ run' = IF d.ok THEN [run EXCEPT !.phase = IF calls = <<>> THEN "finished"
                                                     ELSE IF Len(q) < MaxRounds THEN "calling"
                                                     ELSE "aborted",
                                           !.calls = ran, !.next = 1]
                          ELSE [run EXCEPT !.phase = "aborted", !.failed = TRUE]
    BY <1>2, <1>4, <1>8, <1>15 DEF OnAssistantMessage, Done, Round
  <2> QED
    BY <1>16, <2>1
<1>18. /\ run'.phase \in {"finished", "calling", "aborted"}
       /\ run'.phase = "calling" => run'.calls = calls /\ run'.next = 1
  <2>1. CASE f.ok
    <3>1. PICK ph \in {"finished", "calling", "aborted"} :
            ph = IF calls = <<>> THEN "finished"
                 ELSE IF Len(q) < MaxRounds THEN "calling" ELSE "aborted"
      OBVIOUS
    <3>2. run' = [run EXCEPT !.phase = ph, !.calls = ran, !.next = 1]
      BY <1>17, <2>1, <3>1
    <3>3. run'.phase = ph /\ run'.calls = ran /\ run'.next = 1
      BY <1>2, <3>2 DEF Runs
    <3>4. ph = "calling" => ran = calls
      BY <1>8, <3>1
    <3> QED
      BY <3>3, <3>4
  <2>2. CASE ~f.ok
    BY <1>2, <1>17, <2>2 DEF Runs
  <2> QED
    BY <2>1, <2>2
<1>19. CASE run'.phase = "calling"
  <2>1. UniqueIDs => \A k \in 1 .. Len(run'.calls) : run'.calls[k].id = run'.calls[k].tag
    BY <1>1, <1>18, <1>19, CallNames
  <2>2. UsesBefore(f.wire, Len(z), 1)
    <3> SUFFICES ASSUME NEW p \in DOMAIN f.wire, IsUse(f.wire[p])
                 PROVE  f.wire[p].name[1] < Len(z)
      BY DEF UsesBefore
    <3>1. f.wire[p].name[1] \in 1 .. Len(q) - 1
      BY <1>7 DEF Fine, Booked, Named, StartsIn, IsUse
    <3> QED
      BY <1>12, <3>1
  <2>3. Good(ad', wire', run', said')
    BY <1>13, <1>14, <1>17, <1>18, <1>19, <2>1, <2>2 DEF Good
  <2> QED
    BY <2>3 DEF GInv
<1>20. CASE run'.phase # "calling"
  <2>1. run'.phase \notin {"streaming", "calling", "results"}
    BY <1>18, <1>20
  <2>2. Voices(wire', said')
    BY <1>13, <1>14, <1>17
  <2> QED
    BY <2>1, <2>2, GivenUpGood DEF GInv
<1> QED
  BY <1>19, <1>20

LEMMA OnToolCallStartGood ==
  ASSUME AInv, GInv, NEW call \in Calls, OnToolCallStart(call)
  PROVE  GInv'
<1>1. /\ ATypes /\ run.phase = "calling" /\ Len(said) > 0
      /\ Len(run.calls) = ad.toolCallCount /\ run.next \in 1 .. ad.toolCallCount
      /\ \A k \in 1 .. ad.toolCallCount : run.calls[k].tag = <<Len(said), k>>
  BY DEF AInv, OnToolCallStart, Tooling
<1>2. PICK w \in Seq(WireEvents), q \in Seq(Rounds), u \in Runs : w = wire /\ q = said /\ u = run
  BY <1>1 DEF ATypes
<1>3. PICK base \in Nat, count \in Nat : base = ad.toolBase /\ count = ad.toolCallCount
  BY <1>1 DEF ATypes, Adapters
<1>4. PICK m \in Nat : m = Len(q)
  BY <1>2
<1>5. PICK k \in 1 .. count : k = run.next
  BY <1>1, <1>3
<1>6. PICK i \in Nat : i = base + (k - 1)
  OBVIOUS
<1>7. PICK t \in ToolCalls : t = run.calls[k] /\ t.tag = <<m, k>>
  BY <1>1, <1>2, <1>3, <1>4, <1>5 DEF Runs
<1>8. /\ Voices(w, q)
      /\ UniqueIDs => /\ \A j \in 1 .. Len(run.calls) : run.calls[j].id = run.calls[j].tag
                      /\ UsesBefore(w, m, k)
  BY <1>1, <1>2, <1>4, <1>5 DEF GInv, Good
<1>9. UniqueIDs => t.id = t.tag
  BY <1>1, <1>3, <1>5, <1>7, <1>8
<1>10. PICK c \in InCall : c = Begin(call) /\ c.ad = ad /\ c.wire = w
  BY <1>1, <1>2, Begun
<1>11. PICK e1 \in WireEvents, e2 \in WireEvents, e3 \in WireEvents :
         /\ e1 = ToolUseStart(i, t.id, t.tag)
         /\ e2 = ToolInputDelta(i, Input(t))
         /\ e3 = BlockStop(i)
  BY ToolEvents, StopEvent
<1>12. /\ ForUse(e1, t) /\ ForBlock(e1, e2, e3, i, "tool_use")
       /\ e2.text = Input(t) /\ e1.id = t.id /\ e1.name = <<m, k>> /\ e1.block = "tool_use"
  <2>1. ForUse(e1, t) /\ ForBlock(e1, e2, e3, i, "tool_use")
    BY <1>11, ToolEvents
  <2>2. e2.text = Input(t)
    BY <1>11 DEF ToolInputDelta
  <2> QED
    BY <1>7, <2>1, <2>2 DEF ForUse, ForBlock
<1>13. PICK w1, w2, w3 : w1 = Append(w, e1) /\ w2 = Append(w1, e2) /\ w3 = Append(w2, e3)
  OBVIOUS
<1>14. PICK d : d = EmitBlock(c, <<e1, e2, e3>>)
  OBVIOUS
<1>15. d.wire \in {w, w1, w2, w3}
  <2>1. BlockPassed(c, e1, e2, e3, d)
    BY <1>14, BlockEmitted
  <2> QED
    BY <1>10, <1>13, <2>1 DEF BlockPassed
<1>16. Voices(d.wire, q)
  <2>1. Fresh(w, e1)
    <3> SUFFICES ASSUME UniqueIDs
                 PROVE  e1.name = e1.id /\ \A p \in DOMAIN w : IsUse(w[p]) => w[p].id # e1.id
      BY DEF Fresh
    <3>1. e1.name = e1.id
      BY <1>7, <1>9, <1>12
    <3>2. ASSUME NEW p \in DOMAIN w, IsUse(w[p])
          PROVE  w[p].id # e1.id
      <4>1. w[p].name = w[p].id
        BY <1>8, <3>2 DEF Voices, Heeded, Tooled, Distinct
      <4>2. w[p].name[1] < m \/ (w[p].name[1] = m /\ w[p].name[2] < k)
        BY <1>8, <3>2 DEF UsesBefore
      <4>3. w[p].name # <<m, k>>
        BY <4>2
      <4> QED
        BY <1>12, <3>1, <4>1, <4>3
    <3> QED
      BY <3>1, <3>2
  <2>2. Carries(e1, e2)
    <3>1. Input(t) \in {<<>>, <<t.tag>>} /\ t.tag \in Tags
      BY DEF Input, EmptyText, ToolCalls
    <3>2. Input(t) \in Seq(Tags)
      <4>1. <<t.tag>> \in Seq(Tags) /\ <<>> \in Seq(Tags)
        BY <3>1
      <4> QED
        BY <3>1, <4>1
    <3> QED
      BY <1>9, <1>12, <3>1, <3>2 DEF Carries, ForBlock
  <2>3. PICK T, n, X : T = Voiced(q, "thinking") /\ n = HeardIn(q) /\ X = Voiced(q, "text")
    OBVIOUS
  <2>4. Heeded(w, T, n, X, n)
    BY <1>8, <2>3 DEF Voices
  <2>5. Heeded(d.wire, T, n, X, n)
    <3>1. ToolDue(w, e1, e2, e3, d.wire)
      BY <1>12, <1>13, <1>15, <2>1, <2>2 DEF ToolDue
    <3> QED
      BY <2>4, <3>1, ToolHeeded
  <2> QED
    BY <2>3, <2>5 DEF Voices
<1>17. UniqueIDs => UsesBefore(d.wire, m, k + 1)
  <2> SUFFICES ASSUME UniqueIDs, NEW p \in DOMAIN d.wire, IsUse(d.wire[p])
               PROVE  \/ d.wire[p].name[1] < m
                      \/ d.wire[p].name[1] = m /\ d.wire[p].name[2] < k + 1
    BY DEF UsesBefore
  <2>1. d.wire[p] \in {e1, e2, e3} \/ (p \in DOMAIN w /\ d.wire[p] = w[p])
    <3>1. /\ w1 \in Seq(WireEvents) /\ w2 \in Seq(WireEvents)
          /\ \A j \in DOMAIN w1 : w1[j] = e1 \/ (j \in DOMAIN w /\ w1[j] = w[j])
      BY <1>13
    <3>2. \A j \in DOMAIN w2 : w2[j] = e2 \/ (j \in DOMAIN w1 /\ w2[j] = w1[j])
      BY <1>13, <3>1
    <3>3. \A j \in DOMAIN w3 : w3[j] = e3 \/ (j \in DOMAIN w2 /\ w3[j] = w2[j])
      BY <1>13, <3>1
    <3> QED
      BY <1>15, <3>1, <3>2, <3>3
  <2>2. ~IsUse(e2) /\ ~IsUse(e3)
    BY <1>12, EventShape DEF ForBlock, IsUse
  <2>3. CASE d.wire[p] = e1
    BY <1>12, <2>3
  <2>4. CASE p \in DOMAIN w /\ d.wire[p] = w[p]
    <3>1. PICK nm \in Tags : nm = w[p].name
      <4>1. w[p] \in WireEvents
        BY <2>4
      <4> QED
        BY <2>4, <4>1 DEF WireEvents, IsUse, IsStart
    <3>2. nm[1] < m \/ (nm[1] = m /\ nm[2] < k)
      BY <1>8, <2>4, <3>1 DEF UsesBefore
    <3>3. nm[2] \in Nat
      BY DEF Tags
    <3> QED
      BY <2>4, <3>1, <3>2, <3>3
  <2> QED
    BY <2>1, <2>2, <2>3, <2>4
<1>18. /\ wire' = d.wire /\ said' = q
       /\ run' = IF d.ok THEN (IF k = Len(run.calls) THEN [run EXCEPT !.phase = "results", !.next = 1]
                                                     ELSE [run EXCEPT !.next = k + 1])
                         ELSE [run EXCEPT !.phase = "aborted", !.failed = TRUE]
  <2>1. EmitBlock(Begin(call), ToolUseBlock(useIndex(run.next), t.id, t.tag, Input(t))) = d
    BY <1>3, <1>5, <1>6, <1>10, <1>11, <1>14 DEF ToolUseBlock, useIndex
  <2> QED
    BY <1>2, <1>5, <1>7, <2>1 DEF OnToolCallStart, Done
<1>19. CASE ~d.ok
  <2>1. run'.phase = "aborted"
    BY <1>2, <1>18, <1>19 DEF Runs
  <2> QED
    BY <1>16, <1>18, <2>1, GivenUpGood DEF GInv
<1>20. CASE d.ok
  <2>1. run'.phase \in {"results", "calling"} /\ run'.calls = run.calls
        /\ (run'.phase = "calling" => run'.next = k + 1)
    <3>1. CASE k = Len(run.calls)
      BY <1>2, <1>18, <1>20, <3>1 DEF Runs
    <3>2. CASE k # Len(run.calls)
      BY <1>1, <1>2, <1>18, <1>20, <3>2 DEF Runs
    <3> QED
      BY <3>1, <3>2
  <2>2. Good(ad', wire', run', said')
    BY <1>4, <1>8, <1>16, <1>17, <1>18, <2>1 DEF Good
  <2> QED
    BY <2>2 DEF GInv
<1> QED
  BY <1>19, <1>20

LEMMA OnToolResultGood ==
  ASSUME AInv, GInv, NEW call \in Calls, NEW missing \in BOOLEAN, OnToolResult(call, missing)
  PROVE  GInv'
<1>1. /\ ATypes /\ run.phase = "results"
      /\ Len(run.calls) = ad.toolCallCount /\ run.next \in 1 .. ad.toolCallCount
  BY DEF AInv, OnToolResult, Tooling
<1>2. PICK w \in Seq(WireEvents), q \in Seq(Rounds), u \in Runs : w = wire /\ q = said /\ u = run
  BY <1>1 DEF ATypes
<1>3. PICK base \in Nat, count \in Nat : base = ad.toolBase /\ count = ad.toolCallCount
  BY <1>1 DEF ATypes, Adapters
<1>4. PICK k \in 1 .. count : k = run.next
  BY <1>1, <1>3
<1>5. PICK i \in Nat : i = base + count + (k - 1)
  OBVIOUS
<1>6. PICK t \in ToolCalls : t = run.calls[k]
  BY <1>1, <1>2, <1>3, <1>4 DEF Runs
<1>7. /\ Voices(w, q)
      /\ UniqueIDs => \A j \in 1 .. Len(run.calls) : run.calls[j].id = run.calls[j].tag
  BY <1>1, <1>2 DEF GInv, Good
<1>8. UniqueIDs => t.id = t.tag
  BY <1>1, <1>3, <1>4, <1>6, <1>7
<1>9. PICK c \in InCall : c = Begin(call) /\ c.ad = ad /\ c.wire = w
  BY <1>1, <1>2, Begun
<1>10. PICK e1 \in WireEvents, e2 \in WireEvents, e3 \in WireEvents :
         /\ e1 = ToolResultStart(i, t.id)
         /\ e2 = ToolResultDelta(i, Output(t))
         /\ e3 = BlockStop(i)
  BY ToolEvents, StopEvent
<1>11. /\ ForBlock(e1, e2, e3, i, "tool_result")
       /\ e2.text = <<t.tag>> /\ e1.id = t.id /\ e1.block = "tool_result" /\ t.tag \in Tags
  <2>1. ForBlock(e1, e2, e3, i, "tool_result")
    BY <1>10, ToolEvents
  <2>2. e2.text = Output(t) /\ e1.id = t.id
    BY <1>10 DEF ToolResultDelta, ToolResultStart
  <2> QED
    BY <2>1, <2>2 DEF Output, ForBlock, ToolCalls
<1>12. PICK d : d = IF missing THEN [c EXCEPT !.ok = FALSE] ELSE EmitBlock(c, <<e1, e2, e3>>)
  OBVIOUS
<1>13. d \in InCall /\ ToolDue(w, e1, e2, e3, d.wire)
  <2>1. Fresh(w, e1)
    BY <1>11 DEF Fresh, IsUse
  <2>2. Carries(e1, e2)
    <3>1. <<t.tag>> \in Seq(Tags)
      BY <1>11
    <3> QED
      BY <1>8, <1>11, <3>1 DEF Carries, ForBlock
  <2>3. CASE missing
    <3>1. d \in InCall /\ d.wire = w
      BY <1>9, <1>12, <2>3 DEF InCall
    <3> QED
      BY <1>11, <2>1, <2>2, <3>1 DEF ToolDue
  <2>4. CASE ~missing
    <3>1. BlockPassed(c, e1, e2, e3, d)
      BY <1>12, <2>4, BlockEmitted
    <3> QED
      BY <1>9, <1>11, <2>1, <2>2, <3>1 DEF ToolDue, BlockPassed
  <2> QED
    BY <2>3, <2>4
<1>14. Voices(d.wire, q)
  <2>1. PICK T, n, X : T = Voiced(q, "thinking") /\ n = HeardIn(q) /\ X = Voiced(q, "text")
    OBVIOUS
  <2>2. Heeded(w, T, n, X, n)
    BY <1>7, <2>1 DEF Voices
  <2>3. Heeded(d.wire, T, n, X, n)
    BY <1>13, <2>2, ToolHeeded
  <2> QED
    BY <2>1, <2>3 DEF Voices
<1>15. PICK x : x = IF d.ok /\ k = count THEN WithIndex(d, base + 2 * count) ELSE d
  OBVIOUS
<1>16. x = sendResult(Begin(call), k, missing)
  BY <1>3, <1>5, <1>6, <1>9, <1>10, <1>12, <1>15
     DEF sendResult, resultIndex, WithIndex, ToolResultBlock
<1>17. x.wire = d.wire
  <2>1. CASE d.ok /\ k = count
    <3>1. base + 2 * count \in Nat /\ x = WithIndex(d, base + 2 * count)
      BY <1>15, <2>1
    <3>2. Moved(d, base + 2 * count, x)
      BY <1>13, <3>1, IndexMoved
    <3> QED
      BY <3>2 DEF Moved
  <2>2. CASE ~(d.ok /\ k = count)
    BY <1>15, <2>2
  <2> QED
    BY <2>1, <2>2
<1>18. /\ wire' = d.wire /\ said' = q
       /\ \E failed : run' = IF k < Len(run.calls)
                               THEN [run EXCEPT !.next = k + 1, !.failed = failed]
                               ELSE [run EXCEPT !.phase = IF failed THEN "aborted" ELSE "round",
                                                !.failed = failed]
  BY <1>2, <1>4, <1>16, <1>17 DEF OnToolResult
<1>19. run'.phase \in {"results", "aborted", "round"} /\ run'.calls = run.calls
  <2>1. PICK failed : run' = IF k < Len(run.calls)
                               THEN [run EXCEPT !.next = k + 1, !.failed = failed]
                               ELSE [run EXCEPT !.phase = IF failed THEN "aborted" ELSE "round",
                                                !.failed = failed]
    BY <1>18
  <2>2. CASE k < Len(run.calls)
    BY <1>1, <1>2, <2>1, <2>2 DEF Runs
  <2>3. CASE ~(k < Len(run.calls))
    BY <1>1, <1>2, <2>1, <2>3 DEF Runs
  <2> QED
    BY <2>2, <2>3
<1>20. Good(ad', wire', run', said')
  BY <1>7, <1>14, <1>18, <1>19 DEF Good
<1> QED
  BY <1>20 DEF GInv

LEMMA GoodStays ==
  ASSUME AInv, GInv, [ANext]_avars
  PROVE  GInv'
<1>1. CASE UNCHANGED avars
  BY <1>1 DEF GInv, avars
<1>2. ASSUME NEW call \in Calls, Preamble(call)
      PROVE  GInv'
  BY <1>2, PreambleGood
<1>3. ASSUME NEW call \in Calls, NEW thinks \in BOOLEAN, NEW speaks \in BOOLEAN,
             OnDelta(call, thinks, speaks)
      PROVE  GInv'
  BY <1>3, OnDeltaGood
<1>4. ASSUME NEW call \in Calls, NEW calls \in CallLists, OnAssistantMessage(call, calls)
      PROVE  GInv'
  BY <1>4, OnAssistantMessageGood
<1>5. ASSUME NEW call \in Calls, OnToolCallStart(call)
      PROVE  GInv'
  BY <1>5, OnToolCallStartGood
<1>6. ASSUME NEW call \in Calls, NEW missing \in BOOLEAN, OnToolResult(call, missing)
      PROVE  GInv'
  BY <1>6, OnToolResultGood
<1>7. ASSUME NEW call \in Calls, Epilogue(call)
      PROVE  GInv'
  BY <1>7, EpilogueGood
<1>8. CASE OnRoundStart
  BY <1>8, OnRoundStartGood
<1>9. CASE ProviderFails \/ Abandon
  BY <1>9, ProviderFailsGood
<1> QED
  BY <1>1, <1>2, <1>3, <1>4, <1>5, <1>6, <1>7, <1>8, <1>9 DEF ANext

--------------------------------------------------------------------------------
(* The reader's state, of a wire that the Adapter wrote.                   *)
OpenUse    == [name : Tags, id : Tags, params : Seq(Tags)]
OpenAnswer == [id : Tags, text : Seq(Tags)]

DoneCall == [name : Tags, id : Tags, params : Seq(Tags) \cup {EmptyInput}]
DoneExec == [name : Tags, id : Tags, params : Seq(Tags) \cup {EmptyInput}, result : Seq(Tags)]

TurnItem == [kind : {"text", "thinking"}, text : Seq(Nat)] \cup [kind : {"tool"}, exec : DoneExec]

StreamIDs == {<<"stream">>, EmptyText}
Marks     == Nat \cup {NoBlock}
Words     == Seq(Nat)
NameRow   == Seq(Tags)
CallRow   == Seq(DoneCall)
ExecRow   == Seq(DoneExec)
ItemRow   == Seq(TurnItem)

Reader ==
  [stream        : StreamIDs,
   toolNames     : NameRow,
   tools         : CallRow,
   executions    : ExecRow,
   timeline      : ItemRow,
   text          : Words, thinking    : Words,
   error         : BOOLEAN,
   curText       : Words, allText     : Words,
   curThinking   : Words, allThinking : Words,
   inflight      : Blocks(OpenUse),
   results       : Blocks(OpenAnswer),
   thinkingIndex : Marks,
   textIndex     : Marks]

LEMMA ReaderFields ==
  ASSUME NEW s \in Reader
  PROVE  /\ s.toolNames \in Seq(Tags) /\ s.tools \in Seq(DoneCall)
         /\ s.executions \in Seq(DoneExec) /\ s.timeline \in Seq(TurnItem)
         /\ s.curText \in Seq(Nat) /\ s.allText \in Seq(Nat)
         /\ s.curThinking \in Seq(Nat) /\ s.allThinking \in Seq(Nat)
         /\ s.inflight \in Blocks(OpenUse) /\ s.results \in Blocks(OpenAnswer)
         /\ s.thinkingIndex \in Nat \cup {NoBlock} /\ s.textIndex \in Nat \cup {NoBlock}
         /\ NoBlock \in Marks /\ <<>> \in Words
         /\ s.allText \o s.curText \in Seq(Nat) /\ s.allThinking \o s.curThinking \in Seq(Nat)
<1>1. /\ s.toolNames \in Seq(Tags) /\ s.tools \in Seq(DoneCall)
      /\ s.executions \in Seq(DoneExec) /\ s.timeline \in Seq(TurnItem)
  BY DEF Reader, NameRow, CallRow, ExecRow, ItemRow
<1>2. /\ s.curText \in Seq(Nat) /\ s.allText \in Seq(Nat)
      /\ s.curThinking \in Seq(Nat) /\ s.allThinking \in Seq(Nat) /\ <<>> \in Words
  BY DEF Reader, Words
<1>3. /\ s.inflight \in Blocks(OpenUse) /\ s.results \in Blocks(OpenAnswer)
      /\ s.thinkingIndex \in Nat \cup {NoBlock} /\ s.textIndex \in Nat \cup {NoBlock}
      /\ NoBlock \in Marks
  BY DEF Reader, Marks
<1>4. s.allText \o s.curText \in Seq(Nat) /\ s.allThinking \o s.curThinking \in Seq(Nat)
  BY <1>2
<1> QED
  BY <1>1, <1>2, <1>3, <1>4

(* What an event may leave alone: the tools, and what was said.            *)
KeepsTools(s, t) ==
  /\ t.toolNames = s.toolNames /\ t.tools = s.tools /\ t.executions = s.executions
  /\ t.inflight = s.inflight /\ t.results = s.results

KeepsText(s, t) ==
  t.curText = s.curText /\ t.allText = s.allText /\ t.textIndex = s.textIndex

KeepsThinking(s, t) ==
  /\ t.curThinking = s.curThinking /\ t.allThinking = s.allThinking
  /\ t.thinkingIndex = s.thinkingIndex

KeepsTalk(s, t) == KeepsText(s, t) /\ KeepsThinking(s, t)

(* The timeline l once what is said in s is closed.                        *)
Item(kind, x) == [kind |-> kind, text |-> x]

Flushes(s, l) ==
  /\ s.curText = <<>> /\ s.curThinking = <<>> => l = s.timeline
  /\ s.curText # <<>> /\ s.curThinking = <<>> => l = Append(s.timeline, Item("text", s.curText))
  /\ s.curText = <<>> /\ s.curThinking # <<>> =>
       l = Append(s.timeline, Item("thinking", s.curThinking))

ShutsText(s, t) ==
  /\ t \in Reader /\ KeepsTools(s, t) /\ KeepsThinking(s, t)
  /\ t.textIndex = NoBlock /\ t.curText = <<>> /\ t.allText = s.allText \o s.curText
  /\ s.curText = <<>> => t.timeline = s.timeline
  /\ s.curText # <<>> => t.timeline = Append(s.timeline, Item("text", s.curText))

ShutsThinking(s, t) ==
  /\ t \in Reader /\ KeepsTools(s, t) /\ KeepsText(s, t)
  /\ t.thinkingIndex = NoBlock /\ t.curThinking = <<>>
  /\ t.allThinking = s.allThinking \o s.curThinking
  /\ s.curThinking = <<>> => t.timeline = s.timeline
  /\ s.curThinking # <<>> => t.timeline = Append(s.timeline, Item("thinking", s.curThinking))

(* Both closed.                                                            *)
Quiets(s, t) ==
  /\ t.curText = <<>> /\ t.allText = s.allText \o s.curText
  /\ t.curThinking = <<>> /\ t.allThinking = s.allThinking \o s.curThinking
  /\ Flushes(s, t.timeline)

LEMMA ItemType ==
  ASSUME NEW kind \in {"text", "thinking"}, NEW x \in Seq(Nat), NEW l \in Seq(TurnItem)
  PROVE  Append(l, Item(kind, x)) \in Seq(TurnItem)
<1>1. Item(kind, x) \in TurnItem
  BY DEF Item, TurnItem
<1> QED
  BY <1>1

LEMMA TextShut ==
  ASSUME NEW s \in Reader, NEW t, t = closeTextBlock(s)
  PROVE  ShutsText(s, t)
<1>1. /\ s.curText \in Seq(Nat) /\ s.allText \in Seq(Nat) /\ s.timeline \in Seq(TurnItem)
      /\ NoBlock \in Marks /\ <<>> \in Words
      /\ s.allText \o s.curText \in Seq(Nat)
  BY ReaderFields
<1>2. CASE s.curText = <<>>
  <2>1. t = [s EXCEPT !.textIndex = NoBlock]
    BY <1>2 DEF closeTextBlock, EmptyText
  <2>2. /\ t \in Reader /\ KeepsTools(s, t) /\ KeepsThinking(s, t) /\ t.textIndex = NoBlock
        /\ t.curText = s.curText /\ t.allText = s.allText /\ t.timeline = s.timeline
    BY <1>1, <2>1 DEF Reader, KeepsTools, KeepsThinking
  <2>3. s.allText \o <<>> = s.allText
    BY <1>1, ConcatEmptySeq
  <2> QED
    BY <1>2, <2>2, <2>3 DEF ShutsText
<1>3. CASE s.curText # <<>>
  <2>1. PICK l \in ItemRow : l = Append(s.timeline, Item("text", s.curText))
    BY <1>1, ItemType DEF ItemRow
  <2>2. PICK x \in Words : x = s.allText \o s.curText
    BY <1>1 DEF Words
  <2>3. PICK z \in Words : z = <<>>
    BY <1>1
  <2>4. t = [s EXCEPT !.textIndex = NoBlock, !.curText = z, !.allText = x, !.timeline = l]
    BY <1>3, <2>1, <2>2, <2>3 DEF closeTextBlock, EmptyText, Item
  <2>5. NoBlock \in Marks
    BY <1>1
  <2>6. /\ t \in Reader /\ KeepsTools(s, t) /\ KeepsThinking(s, t) /\ t.textIndex = NoBlock
        /\ t.curText = z /\ t.allText = x /\ t.timeline = l
    <3>1. PICK u : u = [s EXCEPT !.textIndex = NoBlock, !.curText = z]
      OBVIOUS
    <3>2. t = [u EXCEPT !.allText = x, !.timeline = l]
      BY <2>4, <3>1
    <3>3. /\ u \in Reader /\ KeepsTools(s, u) /\ KeepsThinking(s, u) /\ u.textIndex = NoBlock
          /\ u.curText = z
      BY <2>5, <3>1 DEF Reader, KeepsTools, KeepsThinking
    <3>4. /\ t \in Reader /\ KeepsTools(u, t) /\ KeepsThinking(u, t)
          /\ t.textIndex = u.textIndex /\ t.curText = u.curText /\ t.allText = x /\ t.timeline = l
      BY <3>2, <3>3 DEF Reader, KeepsTools, KeepsThinking
    <3> QED
      BY <3>3, <3>4 DEF KeepsTools, KeepsThinking
  <2> QED
    BY <1>3, <2>1, <2>2, <2>3, <2>6 DEF ShutsText
<1> QED
  BY <1>2, <1>3

LEMMA ThinkingShut ==
  ASSUME NEW s \in Reader, NEW t, t = closeThinkingBlock(s)
  PROVE  ShutsThinking(s, t)
<1>1. /\ s.curThinking \in Seq(Nat) /\ s.allThinking \in Seq(Nat) /\ s.timeline \in Seq(TurnItem)
      /\ NoBlock \in Marks /\ <<>> \in Words
      /\ s.allThinking \o s.curThinking \in Seq(Nat)
  BY ReaderFields
<1>2. CASE s.curThinking = <<>>
  <2>1. t = [s EXCEPT !.thinkingIndex = NoBlock]
    BY <1>2 DEF closeThinkingBlock, EmptyText
  <2>2. /\ t \in Reader /\ KeepsTools(s, t) /\ KeepsText(s, t) /\ t.thinkingIndex = NoBlock
        /\ t.curThinking = s.curThinking /\ t.allThinking = s.allThinking
        /\ t.timeline = s.timeline
    BY <1>1, <2>1 DEF Reader, KeepsTools, KeepsText
  <2>3. s.allThinking \o <<>> = s.allThinking
    BY <1>1, ConcatEmptySeq
  <2> QED
    BY <1>2, <2>2, <2>3 DEF ShutsThinking
<1>3. CASE s.curThinking # <<>>
  <2>1. PICK l \in ItemRow : l = Append(s.timeline, Item("thinking", s.curThinking))
    BY <1>1, ItemType DEF ItemRow
  <2>2. PICK x \in Words : x = s.allThinking \o s.curThinking
    BY <1>1 DEF Words
  <2>3. PICK z \in Words : z = <<>>
    BY <1>1
  <2>4. t = [s EXCEPT !.thinkingIndex = NoBlock, !.curThinking = z, !.allThinking = x,
                      !.timeline = l]
    BY <1>3, <2>1, <2>2, <2>3 DEF closeThinkingBlock, EmptyText, Item
  <2>5. NoBlock \in Marks
    BY <1>1
  <2>6. /\ t \in Reader /\ KeepsTools(s, t) /\ KeepsText(s, t) /\ t.thinkingIndex = NoBlock
        /\ t.curThinking = z /\ t.allThinking = x /\ t.timeline = l
    <3>1. PICK u : u = [s EXCEPT !.thinkingIndex = NoBlock, !.curThinking = z]
      OBVIOUS
    <3>2. t = [u EXCEPT !.allThinking = x, !.timeline = l]
      BY <2>4, <3>1
    <3>3. /\ u \in Reader /\ KeepsTools(s, u) /\ KeepsText(s, u) /\ u.thinkingIndex = NoBlock
          /\ u.curThinking = z
      BY <2>5, <3>1 DEF Reader, KeepsTools, KeepsText
    <3>4. /\ t \in Reader /\ KeepsTools(u, t) /\ KeepsText(u, t)
          /\ t.thinkingIndex = u.thinkingIndex /\ t.curThinking = u.curThinking
          /\ t.allThinking = x /\ t.timeline = l
      BY <3>2, <3>3 DEF Reader, KeepsTools, KeepsText
    <3> QED
      BY <3>3, <3>4 DEF KeepsTools, KeepsText
  <2> QED
    BY <1>3, <2>1, <2>2, <2>3, <2>6 DEF ShutsThinking
<1> QED
  BY <1>2, <1>3

LEMMA BothShut ==
  ASSUME NEW s \in Reader, NEW t,
         \/ t = closeThinkingBlock(closeTextBlock(s))
         \/ t = closeTextBlock(closeThinkingBlock(s))
  PROVE  /\ t \in Reader /\ KeepsTools(s, t) /\ Quiets(s, t)
         /\ t.textIndex = NoBlock /\ t.thinkingIndex = NoBlock
<1>1. CASE t = closeThinkingBlock(closeTextBlock(s))
  <2>1. PICK u : u = closeTextBlock(s)
    OBVIOUS
  <2>2. ShutsText(s, u)
    BY <2>1, TextShut
  <2>3. u \in Reader
    BY <2>2 DEF ShutsText
  <2>4. ShutsThinking(u, t)
    BY <1>1, <2>1, <2>3, ThinkingShut
  <2>5. KeepsTools(s, t)
    BY <2>2, <2>4 DEF ShutsText, ShutsThinking, KeepsTools
  <2>6. Quiets(s, t)
    BY <2>2, <2>4 DEF ShutsText, ShutsThinking, KeepsText, KeepsThinking, Quiets, Flushes
  <2> QED
    BY <2>2, <2>4, <2>5, <2>6 DEF ShutsText, ShutsThinking, KeepsText, KeepsThinking
<1>2. CASE t = closeTextBlock(closeThinkingBlock(s))
  <2>1. PICK u : u = closeThinkingBlock(s)
    OBVIOUS
  <2>2. ShutsThinking(s, u)
    BY <2>1, ThinkingShut
  <2>3. u \in Reader
    BY <2>2 DEF ShutsThinking
  <2>4. ShutsText(u, t)
    BY <1>2, <2>1, <2>3, TextShut
  <2>5. KeepsTools(s, t)
    BY <2>2, <2>4 DEF ShutsText, ShutsThinking, KeepsTools
  <2>6. Quiets(s, t)
    BY <2>2, <2>4 DEF ShutsText, ShutsThinking, KeepsText, KeepsThinking, Quiets, Flushes
  <2> QED
    BY <2>2, <2>4, <2>5, <2>6 DEF ShutsText, ShutsThinking, KeepsText, KeepsThinking
<1> QED
  BY <1>1, <1>2

(* Go's maps.                                                              *)
LEMMA MapWith ==
  ASSUME NEW V, NEW m \in Blocks(V), NEW i \in Nat, NEW v \in V
  PROVE  /\ With(m, i, v) \in Blocks(V)
         /\ DOMAIN With(m, i, v) = DOMAIN m \cup {i}
         /\ \A j \in DOMAIN m \cup {i} : With(m, i, v)[j] = IF j = i THEN v ELSE m[j]
<1> DEFINE D == DOMAIN m \cup {i}
<1>1. D \in SUBSET Int /\ m \in [DOMAIN m -> V] /\ IsFiniteSet(DOMAIN m)
  BY BlockFacts
<1>2. IsFiniteSet(D)
  BY <1>1, FS_AddElement
<1>3. With(m, i, v) \in [D -> V]
  BY <1>1 DEF With
<1>4. \A j \in D : With(m, i, v)[j] = IF j = i THEN v ELSE m[j]
  BY DEF With
<1> QED
  BY <1>1, <1>2, <1>3, <1>4, BlocksIntro

LEMMA MapWithout ==
  ASSUME NEW V, NEW m \in Blocks(V), NEW i
  PROVE  /\ Without(m, i) \in Blocks(V)
         /\ DOMAIN Without(m, i) = DOMAIN m \ {i}
         /\ \A j \in DOMAIN m \ {i} : Without(m, i)[j] = m[j]
<1> DEFINE D == DOMAIN m \ {i}
<1>1. D \in SUBSET Int /\ m \in [DOMAIN m -> V] /\ IsFiniteSet(DOMAIN m)
  BY BlockFacts
<1>2. IsFiniteSet(D)
  BY <1>1, FS_Subset
<1>3. Without(m, i) \in [D -> V]
  BY <1>1 DEF Without
<1>4. \A j \in D : Without(m, i)[j] = m[j]
  BY DEF Without
<1> QED
  BY <1>1, <1>2, <1>3, <1>4, BlocksIntro

(* The wire's events need no decoding.                                     *)
LEMMA WireDecoded ==
  ASSUME NEW e \in WireEvents, IsBlock(e)
  PROVE  /\ decoded(e) = e /\ e.index \in Nat /\ e.index \in Marks /\ e.index # NoBlock
         /\ IsStart(e) => e.block \in Kinds
         /\ IsStart(e) /\ e.block = "tool_use" => e.id \in Tags /\ e.name \in Tags
         /\ IsStart(e) /\ e.block = "tool_result" => e.id \in Tags
         /\ IsDelta(e) => e.block \in Kinds
<1>1. "index" \in DOMAIN e /\ e.index \in Nat
  BY DEF WireEvents, IsBlock, IsStart, IsDelta, IsStop
<1>2. e.index \in Marks /\ e.index # NoBlock
  BY <1>1 DEF Marks, NoBlock
<1>3. /\ IsStart(e) => e.block \in Kinds
      /\ IsStart(e) /\ e.block = "tool_use" => e.id \in Tags /\ e.name \in Tags
      /\ IsStart(e) /\ e.block = "tool_result" => e.id \in Tags
      /\ IsDelta(e) => e.block \in Kinds
  BY DEF WireEvents, IsStart, IsDelta, Kinds
<1> QED
  BY <1>1, <1>2, <1>3 DEF decoded

(* What the events do.                                                     *)
StartsUse(s, e, t) ==
  /\ t \in Reader /\ Quiets(s, t) /\ t.textIndex = NoBlock /\ t.thinkingIndex = NoBlock
  /\ t.toolNames = Append(s.toolNames, e.name)
  /\ t.inflight = With(s.inflight, e.index, [name |-> e.name, id |-> e.id, params |-> <<>>])
  /\ t.tools = s.tools /\ t.executions = s.executions /\ t.results = s.results

StartsAnswer(s, e, t) ==
  /\ t \in Reader /\ Quiets(s, t) /\ t.textIndex = NoBlock /\ t.thinkingIndex = NoBlock
  /\ t.results = With(s.results, e.index, [id |-> e.id, text |-> <<>>])
  /\ t.toolNames = s.toolNames /\ t.inflight = s.inflight
  /\ t.tools = s.tools /\ t.executions = s.executions

StartsTalk(s, e, t) ==
  /\ t \in Reader /\ Quiets(s, t) /\ KeepsTools(s, t)
  /\ e.block = "text" => t.textIndex = e.index /\ t.thinkingIndex = NoBlock
  /\ e.block = "thinking" => t.textIndex = NoBlock /\ t.thinkingIndex = e.index

LEMMA UseStarted ==
  ASSUME NEW s \in Reader, NEW e \in WireEvents, IsStart(e), e.block = "tool_use",
         NEW t, t = handleEvent(s, e)
  PROVE  StartsUse(s, e, t)
<1>1. /\ decoded(e) = e /\ e.index \in Nat /\ e.id \in Tags /\ e.name \in Tags
  BY WireDecoded DEF IsBlock
<1>2. PICK c : c = closeThinkingBlock(closeTextBlock(s))
  OBVIOUS
<1>3. /\ c \in Reader /\ KeepsTools(s, c) /\ Quiets(s, c)
      /\ c.textIndex = NoBlock /\ c.thinkingIndex = NoBlock
  BY <1>2, BothShut
<1>4. c.inflight \in Blocks(OpenUse) /\ c.toolNames \in Seq(Tags)
  BY <1>3, ReaderFields
<1>5. PICK v \in OpenUse : v = [name |-> e.name, id |-> e.id, params |-> <<>>]
  <2>0. <<>> \in Seq(Tags)
    OBVIOUS
  <2>1. PICK x \in Seq(Tags) : x = <<>>
    BY <2>0
  <2>2. [name |-> e.name, id |-> e.id, params |-> x] \in OpenUse
    BY <1>1 DEF OpenUse
  <2> QED
    BY <2>1, <2>2
<1>6. PICK m \in Blocks(OpenUse) : m = With(c.inflight, e.index, v)
  BY <1>1, <1>4, MapWith
<1>7. PICK n \in NameRow : n = Append(c.toolNames, e.name)
  <2>1. PICK q \in Seq(Tags) : q = c.toolNames
    BY <1>4
  <2>2. Append(q, e.name) \in Seq(Tags)
    BY <1>1
  <2> QED
    BY <2>1, <2>2 DEF NameRow
<1>8. t = [c EXCEPT !.toolNames = n, !.inflight = m]
  BY <1>1, <1>2, <1>5, <1>6, <1>7 DEF handleEvent, onContentBlockStart, IsStart, EmptyText
<1>9. /\ t \in Reader /\ t.toolNames = n /\ t.inflight = m
      /\ t.tools = c.tools /\ t.executions = c.executions /\ t.results = c.results
      /\ t.textIndex = c.textIndex /\ t.thinkingIndex = c.thinkingIndex
  BY <1>3, <1>8 DEF Reader
<1>10. /\ t.curText = c.curText /\ t.allText = c.allText /\ t.timeline = c.timeline
       /\ t.curThinking = c.curThinking /\ t.allThinking = c.allThinking
  BY <1>3, <1>8 DEF Reader
<1>11. Quiets(s, t)
  BY <1>3, <1>10 DEF Quiets
<1> QED
  BY <1>3, <1>5, <1>6, <1>7, <1>9, <1>11 DEF StartsUse, KeepsTools

LEMMA AnswerStarted ==
  ASSUME NEW s \in Reader, NEW e \in WireEvents, IsStart(e), e.block = "tool_result",
         NEW t, t = handleEvent(s, e)
  PROVE  StartsAnswer(s, e, t)
<1>1. /\ decoded(e) = e /\ e.index \in Nat /\ e.id \in Tags
  BY WireDecoded DEF IsBlock
<1>2. PICK c : c = closeThinkingBlock(closeTextBlock(s))
  OBVIOUS
<1>3. /\ c \in Reader /\ KeepsTools(s, c) /\ Quiets(s, c)
      /\ c.textIndex = NoBlock /\ c.thinkingIndex = NoBlock
  BY <1>2, BothShut
<1>4. c.results \in Blocks(OpenAnswer)
  BY <1>3, ReaderFields
<1>5. PICK v \in OpenAnswer : v = [id |-> e.id, text |-> <<>>]
  <2>0. <<>> \in Seq(Tags)
    OBVIOUS
  <2>1. PICK x \in Seq(Tags) : x = <<>>
    BY <2>0
  <2>2. [id |-> e.id, text |-> x] \in OpenAnswer
    BY <1>1 DEF OpenAnswer
  <2> QED
    BY <2>1, <2>2
<1>6. PICK m \in Blocks(OpenAnswer) : m = With(c.results, e.index, v)
  BY <1>1, <1>4, MapWith
<1>7. t = [c EXCEPT !.results = m]
  BY <1>1, <1>2, <1>5, <1>6 DEF handleEvent, onContentBlockStart, IsStart, EmptyText
<1>8. /\ t \in Reader /\ t.toolNames = c.toolNames /\ t.inflight = c.inflight
      /\ t.tools = c.tools /\ t.executions = c.executions /\ t.results = m
      /\ t.textIndex = c.textIndex /\ t.thinkingIndex = c.thinkingIndex
  BY <1>3, <1>7 DEF Reader
<1>9. /\ t.curText = c.curText /\ t.allText = c.allText /\ t.timeline = c.timeline
      /\ t.curThinking = c.curThinking /\ t.allThinking = c.allThinking
  BY <1>3, <1>7 DEF Reader
<1>10. Quiets(s, t)
  BY <1>3, <1>9 DEF Quiets
<1> QED
  BY <1>3, <1>5, <1>6, <1>8, <1>10 DEF StartsAnswer, KeepsTools

LEMMA TalkStarted ==
  ASSUME NEW s \in Reader, NEW e \in WireEvents, IsStart(e), e.block \in {"text", "thinking"},
         NEW t, t = handleEvent(s, e)
  PROVE  StartsTalk(s, e, t)
<1>1. decoded(e) = e /\ e.index \in Marks
  BY WireDecoded DEF IsBlock
<1>2. PICK c : c = IF e.block = "thinking" THEN closeThinkingBlock(closeTextBlock(s))
                                           ELSE closeTextBlock(closeThinkingBlock(s))
  OBVIOUS
<1>3. /\ c \in Reader /\ KeepsTools(s, c) /\ Quiets(s, c)
      /\ c.textIndex = NoBlock /\ c.thinkingIndex = NoBlock
  BY <1>2, BothShut
<1>4. t = IF e.block = "text" THEN [c EXCEPT !.textIndex = e.index]
                              ELSE [c EXCEPT !.thinkingIndex = e.index]
  BY <1>1, <1>2 DEF handleEvent, onContentBlockStart, IsStart
<1>5. /\ t \in Reader
      /\ e.block = "text" => t.textIndex = e.index /\ t.thinkingIndex = c.thinkingIndex
      /\ e.block = "thinking" => t.textIndex = c.textIndex /\ t.thinkingIndex = e.index
  <2>1. CASE e.block = "text"
    BY <1>1, <1>3, <1>4, <2>1 DEF Reader
  <2>2. CASE e.block = "thinking"
    BY <1>1, <1>3, <1>4, <2>2 DEF Reader
  <2> QED
    BY <2>1, <2>2
<1>6. /\ t.curText = c.curText /\ t.allText = c.allText /\ t.timeline = c.timeline
      /\ t.curThinking = c.curThinking /\ t.allThinking = c.allThinking /\ KeepsTools(c, t)
  <2>1. CASE e.block = "text"
    BY <1>3, <1>4, <2>1 DEF Reader, KeepsTools
  <2>2. CASE e.block = "thinking"
    BY <1>3, <1>4, <2>2 DEF Reader, KeepsTools
  <2> QED
    BY <2>1, <2>2
<1>7. Quiets(s, t) /\ KeepsTools(s, t)
  BY <1>3, <1>6 DEF Quiets, KeepsTools
<1> QED
  BY <1>3, <1>5, <1>7 DEF StartsTalk

(* A delta's text is of its kind's.                                        *)
Apt(e) ==
  IsDelta(e) => /\ e.block \in {"text", "thinking"} => e.text \in Seq(Nat)
                /\ e.block \in {"tool_use", "tool_result"} => e.text \in Seq(Tags)

SaysText(s, e, t) ==
  /\ t \in Reader /\ KeepsTools(s, t) /\ KeepsThinking(s, t)
  /\ t.timeline = s.timeline /\ t.textIndex = s.textIndex
  /\ t.allText = s.allText /\ t.curText = s.curText \o e.text

SaysThinking(s, e, t) ==
  IF e.index = s.thinkingIndex
    THEN /\ t \in Reader /\ KeepsTools(s, t) /\ KeepsText(s, t)
         /\ t.timeline = s.timeline /\ t.thinkingIndex = s.thinkingIndex
         /\ t.allThinking = s.allThinking /\ t.curThinking = s.curThinking \o e.text
    ELSE t = s

LEMMA TextSaid ==
  ASSUME NEW s \in Reader, NEW e \in WireEvents, Apt(e), Speaks(e, "text"),
         NEW t, t = handleEvent(s, e)
  PROVE  SaysText(s, e, t)
<1>1. decoded(e) = e
  BY WireDecoded DEF IsBlock, Speaks
<1>2. PICK x \in Words : x = s.curText \o e.text
  <2>1. s.curText \in Seq(Nat) /\ e.text \in Seq(Nat)
    BY ReaderFields DEF Apt, Speaks
  <2>2. s.curText \o e.text \in Seq(Nat)
    BY ONLY <2>1
  <2> QED
    BY ONLY <2>2 DEF Words
<1>3. t = [s EXCEPT !.curText = x]
  BY <1>1, <1>2 DEF handleEvent, onContentBlockDelta, handleTextDelta, Speaks, IsDelta
<1>4. /\ t \in Reader /\ t.curText = x /\ t.allText = s.allText /\ t.textIndex = s.textIndex
      /\ t.timeline = s.timeline
  BY <1>3 DEF Reader
<1>5. KeepsTools(s, t) /\ KeepsThinking(s, t)
  BY <1>3 DEF Reader, KeepsTools, KeepsThinking
<1> QED
  BY <1>2, <1>4, <1>5 DEF SaysText

LEMMA ThinkingSaid ==
  ASSUME NEW s \in Reader, NEW e \in WireEvents, Apt(e), Speaks(e, "thinking"),
         NEW t, t = handleEvent(s, e)
  PROVE  SaysThinking(s, e, t)
<1>1. decoded(e) = e
  BY WireDecoded DEF IsBlock, Speaks
<1>2. PICK x \in Words : x = s.curThinking \o e.text
  <2>1. s.curThinking \in Seq(Nat) /\ e.text \in Seq(Nat)
    BY ReaderFields DEF Apt, Speaks
  <2>2. s.curThinking \o e.text \in Seq(Nat)
    BY ONLY <2>1
  <2> QED
    BY ONLY <2>2 DEF Words
<1>3. t = IF e.index = s.thinkingIndex THEN [s EXCEPT !.curThinking = x] ELSE s
  BY <1>1, <1>2 DEF handleEvent, onContentBlockDelta, handleThinkingDelta, Speaks, IsDelta
<1>4. CASE e.index = s.thinkingIndex
  <2>1. /\ t \in Reader /\ t.curThinking = x /\ t.allThinking = s.allThinking
        /\ t.thinkingIndex = s.thinkingIndex /\ t.timeline = s.timeline
    BY <1>3, <1>4 DEF Reader
  <2>2. KeepsTools(s, t) /\ KeepsText(s, t)
    BY <1>3, <1>4 DEF Reader, KeepsTools, KeepsText
  <2> QED
    BY <1>2, <1>4, <2>1, <2>2 DEF SaysThinking
<1>5. CASE e.index # s.thinkingIndex
  BY <1>3, <1>5 DEF SaysThinking
<1> QED
  BY <1>4, <1>5

(* A change at one index of a map.                                         *)
FilledUse(s, e, t) ==
  /\ t \in Reader /\ KeepsTalk(s, t) /\ t.timeline = s.timeline
  /\ t.toolNames = s.toolNames /\ t.tools = s.tools /\ t.executions = s.executions
  /\ t.results = s.results
  /\ DOMAIN t.inflight = DOMAIN s.inflight
  /\ \A i \in DOMAIN s.inflight : i # e.index => t.inflight[i] = s.inflight[i]
  /\ t.inflight[e.index].name = s.inflight[e.index].name
  /\ t.inflight[e.index].id = s.inflight[e.index].id
  /\ t.inflight[e.index].params = s.inflight[e.index].params \o e.text

FillsUse(s, e, t) ==
  IF e.index \in DOMAIN s.inflight THEN FilledUse(s, e, t) ELSE t = s

FilledAnswer(s, e, t) ==
  /\ t \in Reader /\ KeepsTalk(s, t) /\ t.timeline = s.timeline
  /\ t.toolNames = s.toolNames /\ t.tools = s.tools /\ t.executions = s.executions
  /\ t.inflight = s.inflight
  /\ DOMAIN t.results = DOMAIN s.results
  /\ \A i \in DOMAIN s.results : i # e.index => t.results[i] = s.results[i]
  /\ t.results[e.index].id = s.results[e.index].id
  /\ t.results[e.index].text = s.results[e.index].text \o e.text

FillsAnswer(s, e, t) ==
  IF e.index \in DOMAIN s.results THEN FilledAnswer(s, e, t) ELSE t = s

LEMMA UseFilled ==
  ASSUME NEW s \in Reader, NEW e \in WireEvents, Apt(e), Speaks(e, "tool_use"),
         NEW t, t = handleEvent(s, e)
  PROVE  FillsUse(s, e, t)
<1>1. decoded(e) = e /\ e.text \in Seq(Tags)
  BY WireDecoded DEF IsBlock, Speaks, Apt
<1>2. CASE e.index \notin DOMAIN s.inflight
  BY <1>1, <1>2, SMTT(30) DEF FillsUse, handleEvent, onContentBlockDelta, Speaks, IsDelta
<1>3. CASE e.index \in DOMAIN s.inflight
  <2>1. s.inflight \in Blocks(OpenUse)
    BY ReaderFields
  <2>2. PICK o \in OpenUse : o = s.inflight[e.index]
    BY <1>3, <2>1, BlockFacts
  <2>3. PICK x : x = o.params \o e.text
    OBVIOUS
  <2>4. x \in Seq(Tags)
    <3>1. o.params \in Seq(Tags)
      BY DEF OpenUse
    <3> QED
      BY <1>1, <2>3, <3>1
  <2>5. PICK v \in OpenUse : v = [o EXCEPT !.params = x]
    BY <2>4 DEF OpenUse
  <2>6. v.name = o.name /\ v.id = o.id /\ v.params = x
    BY <2>5 DEF OpenUse
  <2>7. PICK m : m = [s.inflight EXCEPT ![e.index] = v]
    OBVIOUS
  <2>8. /\ m \in Blocks(OpenUse) /\ DOMAIN m = DOMAIN s.inflight /\ m[e.index] = v
        /\ \A i \in DOMAIN s.inflight : i # e.index => m[i] = s.inflight[i]
    <3>1. PICK z \in Blocks(OpenUse) : z = s.inflight
      BY <2>1
    <3> QED
      BY <1>3, <2>7, <3>1, BlocksExcept
  <2>9. t = [s EXCEPT !.inflight = m]
    <3>1. t = [s EXCEPT !.inflight[e.index].params = @ \o e.text]
      BY <1>1, <1>3 DEF handleEvent, onContentBlockDelta, Speaks, IsDelta
    <3> QED
      BY <2>2, <2>3, <2>5, <2>7, <3>1
  <2>10. /\ t \in Reader /\ t.inflight = m /\ t.timeline = s.timeline /\ t.tools = s.tools
         /\ t.toolNames = s.toolNames /\ t.executions = s.executions /\ t.results = s.results
    BY <2>8, <2>9 DEF Reader
  <2>11. KeepsTalk(s, t)
    BY <2>9 DEF Reader, KeepsTalk, KeepsText, KeepsThinking
  <2> QED
    BY <1>3, <2>2, <2>3, <2>6, <2>8, <2>10, <2>11 DEF FillsUse, FilledUse
<1> QED
  BY <1>2, <1>3

LEMMA AnswerFilled ==
  ASSUME NEW s \in Reader, NEW e \in WireEvents, Apt(e), Speaks(e, "tool_result"),
         NEW t, t = handleEvent(s, e)
  PROVE  FillsAnswer(s, e, t)
<1>1. decoded(e) = e /\ e.text \in Seq(Tags)
  BY WireDecoded DEF IsBlock, Speaks, Apt
<1>2. CASE e.index \notin DOMAIN s.results
  BY <1>1, <1>2, SMTT(30) DEF FillsAnswer, handleEvent, onContentBlockDelta, Speaks, IsDelta
<1>3. CASE e.index \in DOMAIN s.results
  <2>1. s.results \in Blocks(OpenAnswer)
    BY ReaderFields
  <2>2. PICK o \in OpenAnswer : o = s.results[e.index]
    BY <1>3, <2>1, BlockFacts
  <2>3. PICK x : x = o.text \o e.text
    OBVIOUS
  <2>4. x \in Seq(Tags)
    <3>1. o.text \in Seq(Tags)
      BY DEF OpenAnswer
    <3> QED
      BY <1>1, <2>3, <3>1
  <2>5. PICK v \in OpenAnswer : v = [o EXCEPT !.text = x]
    BY <2>4 DEF OpenAnswer
  <2>6. v.id = o.id /\ v.text = x
    BY <2>5 DEF OpenAnswer
  <2>7. PICK m : m = [s.results EXCEPT ![e.index] = v]
    OBVIOUS
  <2>8. /\ m \in Blocks(OpenAnswer) /\ DOMAIN m = DOMAIN s.results /\ m[e.index] = v
        /\ \A i \in DOMAIN s.results : i # e.index => m[i] = s.results[i]
    <3>1. PICK z \in Blocks(OpenAnswer) : z = s.results
      BY <2>1
    <3> QED
      BY <1>3, <2>7, <3>1, BlocksExcept
  <2>9. t = [s EXCEPT !.results = m]
    <3>1. t = [s EXCEPT !.results[e.index].text = @ \o e.text]
      BY <1>1, <1>3 DEF handleEvent, onContentBlockDelta, Speaks, IsDelta
    <3> QED
      BY <2>2, <2>3, <2>5, <2>7, <3>1
  <2>10. /\ t \in Reader /\ t.results = m /\ t.timeline = s.timeline /\ t.tools = s.tools
         /\ t.toolNames = s.toolNames /\ t.executions = s.executions /\ t.inflight = s.inflight
    BY <2>8, <2>9 DEF Reader
  <2>11. KeepsTalk(s, t)
    BY <2>9 DEF Reader, KeepsTalk, KeepsText, KeepsThinking
  <2> QED
    BY <1>3, <2>2, <2>3, <2>6, <2>8, <2>10, <2>11 DEF FillsAnswer, FilledAnswer
<1> QED
  BY <1>2, <1>3

(* The first call that a result answers.                                   *)
Answers(tools, res, x) ==
  \E k \in DOMAIN tools :
    /\ tools[k].id = res.id
    /\ x = [name |-> tools[k].name, id |-> res.id, params |-> tools[k].params,
            result |-> res.text]

LEMMA CallFound ==
  ASSUME NEW tools \in Seq(DoneCall), NEW res \in OpenAnswer,
         \E k \in DOMAIN tools : tools[k].id = res.id
  PROVE  execution(tools, res) \in DoneExec /\ Answers(tools, res, execution(tools, res))
<1> DEFINE matches == {i \in DOMAIN tools : tools[i].id = res.id}
<1>1. matches \subseteq Nat /\ matches # {}
  OBVIOUS
<1>2. \E i \in matches : \A j \in matches : i <= j
  BY <1>1, LeastOf
<1>3. PICK k : k = CHOOSE i \in matches : \A j \in matches : i <= j
  OBVIOUS
<1>4. k \in DOMAIN tools /\ tools[k].id = res.id
  BY <1>2, <1>3
<1>5. execution(tools, res) = [name |-> tools[k].name, id |-> res.id,
                               params |-> tools[k].params, result |-> res.text]
  BY <1>3 DEF execution
<1>6. PICK d \in DoneCall : d = tools[k]
  BY <1>4
<1>7. execution(tools, res) \in DoneExec
  BY <1>5, <1>6 DEF DoneCall, DoneExec, OpenAnswer
<1> QED
  BY <1>4, <1>5, <1>7 DEF Answers

LEMMA CallType ==
  ASSUME NEW o \in OpenUse
  PROVE  /\ called(o) \in DoneCall /\ called(o).name = o.name /\ called(o).id = o.id
         /\ called(o).params \in {o.params, EmptyInput}
<1>1. PICK p \in Seq(Tags) \cup {EmptyInput} : p = IF o.params = EmptyText THEN EmptyInput ELSE o.params
  BY DEF OpenUse
<1>2. called(o) = [name |-> o.name, id |-> o.id, params |-> p]
  BY <1>1 DEF called
<1>3. called(o) \in DoneCall
  BY <1>2 DEF DoneCall, OpenUse
<1> QED
  BY <1>1, <1>2, <1>3

(* The end of a block.                                                     *)
StopsUse(s, e, t) ==
  /\ t \in Reader /\ KeepsTalk(s, t) /\ t.timeline = s.timeline
  /\ t.toolNames = s.toolNames /\ t.executions = s.executions /\ t.results = s.results
  /\ t.inflight = Without(s.inflight, e.index)
  /\ t.tools = Append(s.tools, called(s.inflight[e.index]))

LEMMA UseStopped ==
  ASSUME NEW s \in Reader, NEW e \in WireEvents, IsStop(e), e.index \in DOMAIN s.inflight,
         NEW t, t = handleEvent(s, e)
  PROVE  StopsUse(s, e, t)
<1>1. decoded(e) = e
  BY WireDecoded DEF IsBlock
<1>2. s.inflight \in Blocks(OpenUse) /\ s.tools \in Seq(DoneCall)
  BY ReaderFields
<1>3. PICK o \in OpenUse : o = s.inflight[e.index]
  BY <1>2, BlockFacts
<1>4. PICK c \in DoneCall : c = called(o)
  BY CallType
<1>5. PICK q \in CallRow : q = Append(s.tools, c)
  <2>1. PICK z \in Seq(DoneCall) : z = s.tools
    BY <1>2
  <2>2. Append(z, c) \in Seq(DoneCall)
    OBVIOUS
  <2> QED
    BY <2>1, <2>2 DEF CallRow
<1>6. PICK m \in Blocks(OpenUse) : m = Without(s.inflight, e.index)
  BY <1>2, MapWithout
<1>7. PICK u : u = [s EXCEPT !.tools = q]
  OBVIOUS
<1>8. u \in Reader /\ u.inflight = s.inflight
  BY <1>7 DEF Reader
<1>9. t = [u EXCEPT !.inflight = m]
  BY <1>1, <1>3, <1>4, <1>5, <1>6, <1>7, <1>8
     DEF handleEvent, onContentBlockStop, IsStop, finalizeTool
<1>10. /\ t \in Reader /\ t.inflight = m /\ t.tools = q /\ t.timeline = s.timeline
       /\ t.toolNames = s.toolNames /\ t.executions = s.executions /\ t.results = s.results
  BY <1>7, <1>8, <1>9 DEF Reader
<1>11. KeepsTalk(s, t)
  BY <1>7, <1>8, <1>9 DEF Reader, KeepsTalk, KeepsText, KeepsThinking
<1> QED
  BY <1>3, <1>4, <1>5, <1>6, <1>10, <1>11 DEF StopsUse

Matched(s, res) == \E k \in DOMAIN s.tools : s.tools[k].id = res.id

ToolMark(x) == [kind |-> "tool", exec |-> x]

StopsAnswer(s, e, t) ==
  /\ t \in Reader /\ KeepsTalk(s, t)
  /\ t.toolNames = s.toolNames /\ t.tools = s.tools /\ t.inflight = s.inflight
  /\ t.results = Without(s.results, e.index)
  /\ IF Matched(s, s.results[e.index])
       THEN \E x \in DoneExec :
              /\ Answers(s.tools, s.results[e.index], x)
              /\ t.executions = Append(s.executions, x)
              /\ t.timeline = Append(s.timeline, ToolMark(x))
       ELSE t.executions = s.executions /\ t.timeline = s.timeline

LEMMA AnswerStopped ==
  ASSUME NEW s \in Reader, NEW e \in WireEvents, IsStop(e),
         e.index \notin DOMAIN s.inflight, e.index \in DOMAIN s.results,
         NEW t, t = handleEvent(s, e)
  PROVE  StopsAnswer(s, e, t)
<1>1. decoded(e) = e
  BY WireDecoded DEF IsBlock
<1>2. s.results \in Blocks(OpenAnswer)
  BY ReaderFields
<1>3. PICK o \in OpenAnswer : o = s.results[e.index]
  BY <1>2, BlockFacts
<1>4. PICK m \in Blocks(OpenAnswer) : m = Without(s.results, e.index)
  BY <1>2, MapWithout
<1>5. PICK u : u = finalizeResult(s, o)
  OBVIOUS
<1>6. u.results = s.results => t = [u EXCEPT !.results = m]
  BY <1>1, <1>3, <1>4, <1>5 DEF handleEvent, onContentBlockStop, IsStop
<1>7. CASE ~Matched(s, o)
  <2>1. u = s
    BY <1>5, <1>7 DEF finalizeResult, Matched
  <2>2. /\ t \in Reader /\ t.inflight = s.inflight /\ t.tools = s.tools /\ t.timeline = s.timeline
        /\ t.toolNames = s.toolNames /\ t.executions = s.executions /\ t.results = m
    BY <1>6, <2>1 DEF Reader
  <2>3. KeepsTalk(s, t)
    BY <1>6, <2>1 DEF Reader, KeepsTalk, KeepsText, KeepsThinking
  <2> QED
    BY <1>3, <1>4, <1>7, <2>2, <2>3 DEF StopsAnswer
<1>8. CASE Matched(s, o)
  <2>1. s.tools \in Seq(DoneCall) /\ s.executions \in Seq(DoneExec) /\ s.timeline \in Seq(TurnItem)
    BY ReaderFields
  <2>2. PICK x \in DoneExec : x = execution(s.tools, o) /\ Answers(s.tools, o, x)
    BY <1>8, <2>1, CallFound DEF Matched
  <2>3. PICK q \in ExecRow : q = Append(s.executions, x)
    <3>1. PICK z \in Seq(DoneExec) : z = s.executions
      BY <2>1
    <3>2. Append(z, x) \in Seq(DoneExec)
      OBVIOUS
    <3> QED
      BY <3>1, <3>2 DEF ExecRow
  <2>4. PICK l \in ItemRow : l = Append(s.timeline, ToolMark(x))
    <3>1. PICK z \in Seq(TurnItem) : z = s.timeline
      BY <2>1
    <3>2. ToolMark(x) \in TurnItem
      BY DEF TurnItem, ToolMark
    <3>3. Append(z, ToolMark(x)) \in Seq(TurnItem)
      BY <3>2
    <3> QED
      BY <3>1, <3>3 DEF ItemRow
  <2>5. u = [s EXCEPT !.executions = q, !.timeline = l]
    BY <1>5, <1>8, <2>2, <2>3, <2>4 DEF finalizeResult, Matched, ToolItem, ToolMark
  <2>6. /\ u \in Reader /\ u.results = s.results /\ u.executions = q /\ u.timeline = l
        /\ u.toolNames = s.toolNames /\ u.tools = s.tools /\ u.inflight = s.inflight
    BY <2>5 DEF Reader
  <2>7. KeepsTalk(s, u)
    BY <2>5 DEF Reader, KeepsTalk, KeepsText, KeepsThinking
  <2>8. /\ t \in Reader /\ t.results = m /\ t.executions = q /\ t.timeline = l
        /\ t.toolNames = s.toolNames /\ t.tools = s.tools /\ t.inflight = s.inflight
    BY <1>6, <2>6 DEF Reader
  <2>9. KeepsTalk(u, t)
    BY <1>6, <2>6 DEF Reader, KeepsTalk, KeepsText, KeepsThinking
  <2>10. KeepsTalk(s, t)
    BY <2>7, <2>9 DEF KeepsTalk, KeepsText, KeepsThinking
  <2> QED
    BY <1>3, <1>4, <1>8, <2>2, <2>3, <2>4, <2>8, <2>10 DEF StopsAnswer
<1> QED
  BY <1>7, <1>8

StopsTalk(s, e, t) ==
  IF e.index = s.textIndex THEN ShutsText(s, t)
  ELSE IF e.index = s.thinkingIndex THEN ShutsThinking(s, t) ELSE t = s

LEMMA TalkStopped ==
  ASSUME NEW s \in Reader, NEW e \in WireEvents, IsStop(e),
         e.index \notin DOMAIN s.inflight, e.index \notin DOMAIN s.results,
         NEW t, t = handleEvent(s, e)
  PROVE  StopsTalk(s, e, t)
<1>1. decoded(e) = e
  BY WireDecoded DEF IsBlock
<1>2. t = IF e.index = s.textIndex THEN closeTextBlock(s)
          ELSE IF e.index = s.thinkingIndex THEN closeThinkingBlock(s) ELSE s
  BY <1>1 DEF handleEvent, onContentBlockStop, IsStop
<1> QED
  BY <1>2, TextShut, ThinkingShut DEF StopsTalk

(* What belongs to no block.                                               *)
Idles(s, t) == t \in Reader /\ KeepsTalk(s, t) /\ KeepsTools(s, t) /\ t.timeline = s.timeline

LEMMA Idle ==
  ASSUME NEW s \in Reader, NEW e \in WireEvents, ~IsBlock(e), NEW t, t = handleEvent(s, e)
  PROVE  Idles(s, t)
<1>1. CASE e.type = "message_start"
  <2>1. PICK x \in StreamIDs : x = e.stream
    BY <1>1 DEF WireEvents, StreamIDs
  <2>2. t = [s EXCEPT !.stream = x]
    BY <1>1, <2>1 DEF handleEvent
  <2>3. t \in Reader /\ t.timeline = s.timeline /\ KeepsTools(s, t)
    BY <2>2 DEF Reader, KeepsTools
  <2>4. KeepsTalk(s, t)
    BY <2>2 DEF Reader, KeepsTalk, KeepsText, KeepsThinking
  <2> QED
    BY <2>3, <2>4 DEF Idles
<1>2. CASE e.type # "message_start"
  <2>1. t = s
    BY <1>2 DEF handleEvent, IsBlock, IsStart, IsDelta, IsStop
  <2> QED
    BY <2>1 DEF Idles, KeepsTools, KeepsTalk, KeepsText, KeepsThinking
<1> QED
  BY <1>1, <1>2

(* Everything said so far, closed or not.                                  *)
FullText(s)     == s.allText \o s.curText
FullThinking(s) == s.allThinking \o s.curThinking

Told(s, e, t) ==
  /\ FullText(t) = IF Speaks(e, "text") THEN FullText(s) \o e.text ELSE FullText(s)
  /\ \/ FullThinking(t) = FullThinking(s)
     \/ Speaks(e, "thinking") /\ FullThinking(t) = FullThinking(s) \o e.text

LEMMA QuietsTold ==
  ASSUME NEW s \in Reader, NEW t \in Reader, Quiets(s, t)
  PROVE  FullText(t) = FullText(s) /\ FullThinking(t) = FullThinking(s)
<1>1. s.allText \o s.curText \in Seq(Nat) /\ s.allThinking \o s.curThinking \in Seq(Nat)
  BY ReaderFields
<1>2. PICK x \in Seq(Nat), y \in Seq(Nat) : x = FullText(s) /\ y = FullThinking(s)
  BY <1>1 DEF FullText, FullThinking
<1>3. x \o <<>> = x /\ y \o <<>> = y
  BY <1>2
<1> QED
  BY <1>2, <1>3 DEF Quiets, FullText, FullThinking

LEMMA ShutsTold ==
  ASSUME NEW s \in Reader, NEW t \in Reader, ShutsText(s, t) \/ ShutsThinking(s, t)
  PROVE  FullText(t) = FullText(s) /\ FullThinking(t) = FullThinking(s)
<1>1. s.allText \o s.curText \in Seq(Nat) /\ s.allThinking \o s.curThinking \in Seq(Nat)
  BY ReaderFields
<1>2. PICK x \in Seq(Nat), y \in Seq(Nat) : x = FullText(s) /\ y = FullThinking(s)
  BY <1>1 DEF FullText, FullThinking
<1>3. x \o <<>> = x /\ y \o <<>> = y
  BY <1>2
<1> QED
  BY <1>2, <1>3 DEF ShutsText, ShutsThinking, KeepsText, KeepsThinking, FullText, FullThinking

(* Every event of a wire.                                                  *)
LEMMA EventCases ==
  ASSUME NEW e \in WireEvents
  PROVE  \/ ~IsBlock(e)
         \/ IsStart(e) /\ e.block \in {"text", "thinking"}
         \/ IsStart(e) /\ e.block = "tool_use"
         \/ IsStart(e) /\ e.block = "tool_result"
         \/ Speaks(e, "text") \/ Speaks(e, "thinking")
         \/ Speaks(e, "tool_use") \/ Speaks(e, "tool_result")
         \/ IsStop(e)
<1>1. IsStart(e) => e.block \in Kinds
  BY WireDecoded DEF IsBlock
<1>2. IsDelta(e) => e.block \in Kinds
  BY WireDecoded DEF IsBlock
<1> QED
  BY <1>1, <1>2 DEF IsBlock, Speaks, Kinds

LEMMA EventTold ==
  ASSUME NEW s \in Reader, NEW e \in WireEvents, Apt(e), NEW t, t = handleEvent(s, e)
  PROVE  t \in Reader /\ Told(s, e, t)
<1>0. /\ IsStart(e) => ~Speaks(e, "text") /\ ~Speaks(e, "thinking")
      /\ IsStop(e) => ~Speaks(e, "text") /\ ~Speaks(e, "thinking")
      /\ ~IsBlock(e) => ~Speaks(e, "text") /\ ~Speaks(e, "thinking")
      /\ Speaks(e, "tool_use") \/ Speaks(e, "tool_result")
           => ~Speaks(e, "text") /\ ~Speaks(e, "thinking")
      /\ Speaks(e, "thinking") => ~Speaks(e, "text")
      /\ Speaks(e, "text") => ~Speaks(e, "thinking")
  BY DEF IsStart, IsStop, IsDelta, IsBlock, Speaks
<1> DEFINE Same == FullText(t) = FullText(s) /\ FullThinking(t) = FullThinking(s)
<1>a. Same /\ ~Speaks(e, "text") => Told(s, e, t)
  BY DEF Told
<1>b. KeepsTalk(s, t) => Same
  BY DEF KeepsTalk, KeepsText, KeepsThinking, FullText, FullThinking
<1>c. t = s => t \in Reader /\ Same
  OBVIOUS
<1> HIDE DEF Same
<1>1. CASE ~IsBlock(e)
  BY <1>0, <1>a, <1>b, <1>1, Idle DEF Idles
<1>2. CASE IsStart(e) /\ e.block \in {"text", "thinking"}
  <2>1. t \in Reader /\ Quiets(s, t)
    BY <1>2, TalkStarted DEF StartsTalk
  <2> QED
    BY <1>0, <1>a, <1>2, <2>1, QuietsTold DEF Same
<1>3. CASE IsStart(e) /\ e.block = "tool_use"
  <2>1. t \in Reader /\ Quiets(s, t)
    BY <1>3, UseStarted DEF StartsUse
  <2> QED
    BY <1>0, <1>a, <1>3, <2>1, QuietsTold DEF Same
<1>4. CASE IsStart(e) /\ e.block = "tool_result"
  <2>1. t \in Reader /\ Quiets(s, t)
    BY <1>4, AnswerStarted DEF StartsAnswer
  <2> QED
    BY <1>0, <1>a, <1>4, <2>1, QuietsTold DEF Same
<1>5. CASE Speaks(e, "text")
  <2>1. SaysText(s, e, t)
    BY <1>5, TextSaid
  <2>2. PICK x \in Seq(Nat), y \in Seq(Nat), z \in Seq(Nat) : x = s.allText /\ y = s.curText /\ z = e.text
    BY <1>5, ReaderFields DEF Apt, Speaks
  <2>3. x \o (y \o z) = (x \o y) \o z
    OBVIOUS
  <2>4. FullText(t) = FullText(s) \o e.text /\ FullThinking(t) = FullThinking(s)
    BY <2>1, <2>2, <2>3 DEF SaysText, KeepsThinking, FullText, FullThinking
  <2> QED
    BY <1>5, <2>1, <2>4 DEF Told, SaysText
<1>6. CASE Speaks(e, "thinking")
  <2>1. SaysThinking(s, e, t)
    BY <1>6, ThinkingSaid
  <2>2. CASE e.index = s.thinkingIndex
    <3>2. PICK x \in Seq(Nat), y \in Seq(Nat), z \in Seq(Nat) : x = s.allThinking /\ y = s.curThinking /\ z = e.text
      BY <1>6, ReaderFields DEF Apt, Speaks
    <3>3. x \o (y \o z) = (x \o y) \o z
      OBVIOUS
    <3>4. FullThinking(t) = FullThinking(s) \o e.text /\ FullText(t) = FullText(s)
      BY <2>1, <2>2, <3>2, <3>3 DEF SaysThinking, KeepsText, FullText, FullThinking
    <3> QED
      BY <1>0, <1>6, <2>1, <2>2, <3>4 DEF Told, SaysThinking
  <2>3. CASE e.index # s.thinkingIndex
    BY <1>0, <1>a, <1>c, <1>6, <2>1, <2>3 DEF SaysThinking
  <2> QED
    BY <2>2, <2>3
<1>7. CASE Speaks(e, "tool_use")
  BY <1>0, <1>a, <1>b, <1>c, <1>7, UseFilled DEF FillsUse, FilledUse
<1>8. CASE Speaks(e, "tool_result")
  BY <1>0, <1>a, <1>b, <1>c, <1>8, AnswerFilled DEF FillsAnswer, FilledAnswer
<1>9. CASE IsStop(e)
  <2>1. CASE e.index \in DOMAIN s.inflight
    BY <1>0, <1>a, <1>b, <1>9, <2>1, UseStopped DEF StopsUse
  <2>2. CASE e.index \notin DOMAIN s.inflight /\ e.index \in DOMAIN s.results
    BY <1>0, <1>a, <1>b, <1>9, <2>2, AnswerStopped DEF StopsAnswer
  <2>3. CASE e.index \notin DOMAIN s.inflight /\ e.index \notin DOMAIN s.results
    <3>1. StopsTalk(s, e, t)
      BY <1>9, <2>3, TalkStopped
    <3>2. t = s \/ ShutsText(s, t) \/ ShutsThinking(s, t)
      BY <3>1 DEF StopsTalk
    <3>3. t \in Reader
      BY <3>2 DEF ShutsText, ShutsThinking
    <3> QED
      BY <1>0, <1>a, <1>c, <1>9, <3>2, <3>3, ShutsTold DEF Same
  <2> QED
    BY <2>1, <2>2, <2>3
<1> QED
  BY <1>1, <1>2, <1>3, <1>4, <1>5, <1>6, <1>7, <1>8, <1>9, EventCases

--------------------------------------------------------------------------------
(* The end: what finalize makes of a state s.  to and ro are the orders in *)
(* which the calls and the results left open come up, left and execs what  *)
(* becomes of them, l the timeline once what was said is closed.           *)
Order(q, S) ==
  /\ q \in Seq(S)
  /\ \A x \in S : \E k \in DOMAIN q : q[k] = x
  /\ \A i, j \in DOMAIN q : i # j => q[i] # q[j]

LeftCalls(s, to, left) ==
  /\ left \in Seq(DoneCall) /\ Len(left) = Len(to) /\ DOMAIN left = DOMAIN to
  /\ \A k \in DOMAIN to : to[k] \in DOMAIN s.inflight /\ left[k] = called(s.inflight[to[k]])

LeftResults(s, tools, ro, execs) ==
  /\ execs \in Seq(DoneExec) /\ Len(execs) = Len(ro) /\ DOMAIN execs = DOMAIN ro
  /\ \A k \in DOMAIN ro :
       ro[k] \in DOMAIN s.results /\ Answers(tools, s.results[ro[k]], execs[k])

Marked(execs) == [k \in DOMAIN execs |-> ToolMark(execs[k])]

Ends(s, f, to, ro, left, execs, l) ==
  /\ f.text = FullText(s) /\ f.thinking = FullThinking(s) /\ f.toolNames = s.toolNames
  /\ Order(to, DOMAIN s.inflight) /\ LeftCalls(s, to, left)
  /\ f.tools = s.tools \o left
  /\ Order(ro, Answered(s)) /\ LeftResults(s, f.tools, ro, execs)
  /\ f.executions = s.executions \o execs
  /\ l \in Seq(TurnItem) /\ Flushes(s, l) /\ f.timeline = l \o Marked(execs)

LEMMA LeftCallsAre ==
  ASSUME NEW s \in Reader, NEW to, Order(to, DOMAIN s.inflight),
         NEW left, left = [k \in DOMAIN to |-> called(s.inflight[to[k]])]
  PROVE  LeftCalls(s, to, left)
<1>1. s.inflight \in Blocks(OpenUse)
  BY ReaderFields
<1>2. PICK n \in Nat : n = Len(to) /\ DOMAIN to = 1 .. n
  BY DEF Order
<1>3. ASSUME NEW k \in 1 .. n
      PROVE  to[k] \in DOMAIN s.inflight /\ left[k] = called(s.inflight[to[k]]) /\ left[k] \in DoneCall
  <2>1. to[k] \in DOMAIN s.inflight
    BY <1>2, <1>3 DEF Order
  <2>2. PICK o \in OpenUse : o = s.inflight[to[k]]
    BY <1>1, <2>1, BlockFacts
  <2> QED
    BY <1>2, <2>1, <2>2, CallType
<1>4. left = [k \in 1 .. n |-> left[k]]
  BY <1>2
<1>5. left \in Seq(DoneCall) /\ Len(left) = n /\ DOMAIN left = 1 .. n
  BY <1>3, <1>4, MapSeq
<1> QED
  BY <1>2, <1>3, <1>5 DEF LeftCalls

LEMMA LeftResultsAre ==
  ASSUME NEW s \in Reader, NEW to, Order(to, DOMAIN s.inflight),
         NEW left, LeftCalls(s, to, left), NEW tools, tools = s.tools \o left,
         NEW ro, Order(ro, Answered(s)),
         NEW execs, execs = [k \in DOMAIN ro |-> execution(tools, s.results[ro[k]])]
  PROVE  LeftResults(s, tools, ro, execs) /\ tools \in Seq(DoneCall)
<1>1. /\ s.inflight \in Blocks(OpenUse) /\ s.results \in Blocks(OpenAnswer)
      /\ s.tools \in Seq(DoneCall) /\ left \in Seq(DoneCall)
  BY ReaderFields DEF LeftCalls
<1>2. PICK n \in Nat : n = Len(ro) /\ DOMAIN ro = 1 .. n
  BY DEF Order
<1>3. PICK a \in Seq(DoneCall), b \in Seq(DoneCall) : a = s.tools /\ b = left
  BY <1>1
<1>4. /\ a \o b \in Seq(DoneCall) /\ DOMAIN (a \o b) = 1 .. Len(a) + Len(b)
      /\ DOMAIN a = 1 .. Len(a) /\ DOMAIN b = 1 .. Len(b) /\ Len(a) \in Nat /\ Len(b) \in Nat
      /\ \A k \in DOMAIN a : (a \o b)[k] = a[k]
      /\ \A k \in DOMAIN b : (a \o b)[Len(a) + k] = b[k]
  OBVIOUS
<1>5. tools = a \o b
  BY <1>3
<1>6. ASSUME NEW k \in 1 .. n
      PROVE  /\ ro[k] \in DOMAIN s.results /\ Answers(tools, s.results[ro[k]], execs[k])
             /\ execs[k] \in DoneExec
  <2>1. ro[k] \in Answered(s) /\ ro[k] \in DOMAIN s.results
    <3>1. ro[k] \in Answered(s)
      BY <1>2, <1>6 DEF Order
    <3> QED
      BY <3>1 DEF Answered
  <2>2. PICK o \in OpenAnswer : o = s.results[ro[k]]
    BY <1>1, <2>1, BlockFacts
  <2>3. \/ \E j \in DOMAIN s.tools : s.tools[j].id = o.id
        \/ \E i \in DOMAIN s.inflight : s.inflight[i].id = o.id
    BY <2>1, <2>2 DEF Answered
  <2>4. CASE \E j \in DOMAIN s.tools : s.tools[j].id = o.id
    <3>1. PICK j \in DOMAIN a : a[j].id = o.id
      BY <1>3, <2>4
    <3>2. j \in DOMAIN tools /\ tools[j].id = o.id
      BY <1>4, <1>5, <3>1
    <3> QED
      BY <1>2, <1>4, <1>5, <2>1, <2>2, <3>2, CallFound
  <2>5. CASE \E i \in DOMAIN s.inflight : s.inflight[i].id = o.id
    <3>1. PICK i \in DOMAIN s.inflight : s.inflight[i].id = o.id
      BY <2>5
    <3>2. PICK j \in DOMAIN to : to[j] = i
      BY DEF Order
    <3>3. PICK u \in OpenUse : u = s.inflight[i]
      BY <1>1, BlockFacts
    <3>4. j \in DOMAIN b /\ b[j] = called(u)
      BY <1>3, <3>2, <3>3 DEF LeftCalls
    <3>5. b[j].id = o.id
      BY <3>1, <3>3, <3>4, CallType
    <3>6. Len(a) + j \in DOMAIN tools /\ tools[Len(a) + j].id = o.id
      BY <1>4, <1>5, <3>4, <3>5
    <3> QED
      BY <1>2, <1>4, <1>5, <2>1, <2>2, <3>6, CallFound
  <2> QED
    BY <2>3, <2>4, <2>5
<1>7. execs = [k \in 1 .. n |-> execs[k]]
  BY <1>2
<1>8. execs \in Seq(DoneExec) /\ Len(execs) = n /\ DOMAIN execs = 1 .. n
  BY <1>6, <1>7, MapSeq
<1> QED
  BY <1>2, <1>4, <1>5, <1>6, <1>8 DEF LeftResults

LEMMA ReaderEnds ==
  ASSUME NEW s \in Reader, NEW f \in Finalized(s)
  PROVE  \E to, ro, left, execs, l : Ends(s, f, to, ro, left, execs, l)
<1>1. PICK to \in SetToSeqs(DOMAIN s.inflight), ro \in SetToSeqs(Answered(s)) : f = finalize(s, to, ro)
  BY DEF Finalized
<1>2. IsFiniteSet(DOMAIN s.inflight) /\ IsFiniteSet(Answered(s))
  <2>1. IsFiniteSet(DOMAIN s.inflight) /\ IsFiniteSet(DOMAIN s.results)
    BY ReaderFields, BlockFacts
  <2>2. Answered(s) \subseteq DOMAIN s.results
    BY DEF Answered
  <2> QED
    BY <2>1, <2>2, FS_Subset
<1>3. Order(to, DOMAIN s.inflight) /\ Order(ro, Answered(s))
  BY <1>1, <1>2, Orders DEF Order
<1>4. PICK c : c = closeThinkingBlock(closeTextBlock(s))
  OBVIOUS
<1>5. c \in Reader /\ KeepsTools(s, c) /\ Quiets(s, c)
  BY <1>4, BothShut
<1>6. PICK left : left = [k \in DOMAIN to |-> called(s.inflight[to[k]])]
  OBVIOUS
<1>7. LeftCalls(s, to, left)
  BY <1>3, <1>6, LeftCallsAre
<1>8. PICK tools : tools = s.tools \o left
  OBVIOUS
<1>9. PICK execs : execs = [k \in DOMAIN ro |-> execution(tools, s.results[ro[k]])]
  OBVIOUS
<1>10. LeftResults(s, tools, ro, execs)
  BY <1>3, <1>7, <1>8, <1>9, LeftResultsAre
<1>11. PICK q : q = s.executions \o execs
  OBVIOUS
<1>12. PICK l : l = c.timeline
  OBVIOUS
<1>13. l \in Seq(TurnItem) /\ Flushes(s, l)
  BY <1>5, <1>12, ReaderFields DEF Quiets
<1>14. PICK z : z = l \o Marked(execs)
  OBVIOUS
<1>15. Marked(execs) = [k \in DOMAIN ro |-> ToolItem(execs[k])]
  BY <1>10 DEF Marked, LeftResults, ToolMark, ToolItem
<1>16. PICK g : g = flushAll(s, to, ro)
  OBVIOUS
<1>17. g = [c EXCEPT !.tools = tools, !.executions = q, !.timeline = z, !.inflight = <<>>, !.results = <<>>]
  BY <1>4, <1>5, <1>6, <1>8, <1>9, <1>11, <1>12, <1>14, <1>15, <1>16 DEF flushAll, KeepsTools
<1>18. /\ g.allText = c.allText /\ g.allThinking = c.allThinking /\ g.toolNames = c.toolNames
       /\ g.tools = tools /\ g.executions = q /\ g.timeline = z
  BY <1>5, <1>17 DEF Reader
<1>19. f = [g EXCEPT !.text = g.allText, !.thinking = g.allThinking]
  BY <1>1, <1>16 DEF finalize
<1>20. /\ f.text = g.allText /\ f.thinking = g.allThinking /\ f.toolNames = g.toolNames
       /\ f.tools = g.tools /\ f.executions = g.executions /\ f.timeline = g.timeline
  BY <1>5, <1>17, <1>19 DEF Reader
<1>21. Ends(s, f, to, ro, left, execs, l)
  BY <1>3, <1>5, <1>7, <1>8, <1>10, <1>11, <1>13, <1>14, <1>18, <1>20
     DEF Ends, Quiets, KeepsTools, FullText, FullThinking
<1> QED
  BY <1>21

--------------------------------------------------------------------------------
(* What was read of one kind: numbers of deltas that stand on the wire up  *)
(* to position i, upwards.                                                 *)
Woven(x, w, f, i) ==
  /\ x \in Seq(Nat) /\ Increasing(x)
  /\ \A j \in DOMAIN x : \E p \in 1 .. i : Speaks(w[p], f) /\ w[p].text = <<x[j]>>

Follows(s, w, i) ==
  s \in Reader /\ Woven(FullText(s), w, "text", i) /\ Woven(FullThinking(s), w, "thinking", i)

(* The wire of a turn, in the terms of the reader.                         *)
Legible(w) ==
  /\ w \in Seq(WireEvents)
  /\ \E n : Numbered(w, "text", Nat, n)
  /\ \E n : Numbered(w, "thinking", Nat, n)
  /\ Tagged(w)

LEMMA WovenKept ==
  ASSUME NEW x, NEW w, NEW f, NEW i \in Nat, Woven(x, w, f, i)
  PROVE  Woven(x, w, f, i + 1)
<1>1. 1 .. i \subseteq 1 .. i + 1
  OBVIOUS
<1> QED
  BY <1>1 DEF Woven

LEMMA WovenOn ==
  ASSUME NEW x, NEW w \in Seq(WireEvents), NEW f, NEW n, Numbered(w, f, Nat, n),
         NEW i \in Nat, i + 1 \in DOMAIN w, Woven(x, w, f, i), Speaks(w[i + 1], f)
  PROVE  Woven(x \o w[i + 1].text, w, f, i + 1)
<1>1. PICK k \in Nat : w[i + 1].text = <<k>>
  BY DEF Numbered
<1>2. x \in Seq(Nat) /\ Increasing(x)
  BY DEF Woven
<1>3. PICK y : y = x \o <<k>>
  OBVIOUS
<1>4. /\ y \in Seq(Nat) /\ DOMAIN y = 1 .. Len(x) + 1 /\ DOMAIN x = 1 .. Len(x) /\ Len(x) \in Nat
      /\ \A j \in DOMAIN x : y[j] = x[j]
      /\ y[Len(x) + 1] = k
  BY <1>2, <1>3
<1>5. ASSUME NEW j \in DOMAIN x
      PROVE  x[j] \in Nat /\ x[j] < k /\ \E p \in 1 .. i + 1 : Speaks(w[p], f) /\ w[p].text = <<x[j]>>
  <2>1. PICK p \in 1 .. i : Speaks(w[p], f) /\ w[p].text = <<x[j]>>
    BY <1>5 DEF Woven
  <2>2. p < i + 1 /\ p \in 1 .. i + 1 /\ p \in DOMAIN w
    OBVIOUS
  <2>3. w[p].text[1] < w[i + 1].text[1]
    BY <2>1, <2>2 DEF Numbered
  <2>4. x[j] \in Nat
    BY <1>2
  <2>5. w[p].text[1] = x[j] /\ w[i + 1].text[1] = k
    BY <1>1, <2>1
  <2> QED
    BY <2>1, <2>2, <2>3, <2>4, <2>5
<1>6. Increasing(y)
  <2> SUFFICES ASSUME NEW a \in DOMAIN y, NEW b \in DOMAIN y, a < b
               PROVE  y[a] < y[b]
    BY DEF Increasing
  <2>1. a \in DOMAIN x
    BY <1>4
  <2>2. CASE b \in DOMAIN x
    BY <1>2, <1>4, <2>1, <2>2 DEF Increasing
  <2>3. CASE b = Len(x) + 1
    BY <1>4, <1>5, <2>1, <2>3
  <2> QED
    BY <1>4, <2>2, <2>3
<1>7. ASSUME NEW j \in DOMAIN y
      PROVE  \E p \in 1 .. i + 1 : Speaks(w[p], f) /\ w[p].text = <<y[j]>>
  <2>1. CASE j \in DOMAIN x
    BY <1>4, <1>5, <2>1
  <2>2. CASE j = Len(x) + 1
    <3>1. i + 1 \in 1 .. i + 1
      OBVIOUS
    <3> QED
      BY <1>1, <1>4, <2>2, <3>1
  <2> QED
    BY <1>4, <2>1, <2>2
<1> QED
  BY <1>1, <1>3, <1>4, <1>6, <1>7 DEF Woven

LEMMA NewReader == NewReassembler \in Reader
<1>1. PICK a \in Words, n \in NameRow, c \in CallRow, x \in ExecRow, l \in ItemRow :
        a = <<>> /\ n = <<>> /\ c = <<>> /\ x = <<>> /\ l = <<>>
  <2>1. <<>> \in Seq(Nat) /\ <<>> \in Seq(Tags)
    OBVIOUS
  <2>2. <<>> \in Seq(DoneCall)
    OBVIOUS
  <2>3. <<>> \in Seq(DoneExec)
    OBVIOUS
  <2>4. <<>> \in Seq(TurnItem)
    OBVIOUS
  <2> QED
    BY <2>1, <2>2, <2>3, <2>4 DEF Words, NameRow, CallRow, ExecRow, ItemRow
<1>2. PICK u \in Blocks(OpenUse), v \in Blocks(OpenAnswer), z \in StreamIDs : u = <<>> /\ v = <<>> /\ z = <<>>
  BY BlocksEmpty DEF StreamIDs, EmptyText
<1>3. NoBlock \in Marks
  BY DEF Marks
<1>4. NewReassembler =
        [stream |-> z, toolNames |-> n, tools |-> c, executions |-> x, timeline |-> l,
         text |-> a, thinking |-> a, error |-> FALSE, curText |-> a, allText |-> a,
         curThinking |-> a, allThinking |-> a, inflight |-> u, results |-> v,
         thinkingIndex |-> NoBlock, textIndex |-> NoBlock]
  BY <1>1, <1>2 DEF NewReassembler, EmptyText
<1> QED
  BY <1>3, <1>4 DEF Reader

LEMMA NewFollows ==
  ASSUME NEW w
  PROVE  Follows(NewReassembler, w, 0)
<1>1. PICK x \in Seq(Nat) : x = <<>>
  <2>1. <<>> \in Seq(Nat)
    OBVIOUS
  <2> QED
    BY <2>1
<1>2. x \o x = x /\ DOMAIN x = {}
  BY <1>1
<1>3. FullText(NewReassembler) = x /\ FullThinking(NewReassembler) = x
  BY <1>1, <1>2 DEF FullText, FullThinking, NewReassembler, EmptyText
<1> QED
  BY <1>2, <1>3, NewReader DEF Follows, Woven, Increasing

LEMMA AllApt ==
  ASSUME NEW w, Legible(w), NEW p \in DOMAIN w
  PROVE  Apt(w[p])
<1>1. PICK n : Numbered(w, "text", Nat, n)
  BY DEF Legible
<1>2. PICK m : Numbered(w, "thinking", Nat, m)
  BY DEF Legible
<1>3. ASSUME Speaks(w[p], "text") \/ Speaks(w[p], "thinking")
      PROVE  w[p].text \in Seq(Nat)
  <2>1. PICK k \in Nat : w[p].text = <<k>>
    BY <1>1, <1>2, <1>3 DEF Numbered
  <2>2. <<k>> \in Seq(Nat)
    OBVIOUS
  <2> QED
    BY <2>1, <2>2
<1>4. IsDelta(w[p]) /\ IsTool(w[p]) => w[p].text \in Seq(Tags)
  BY DEF Legible, Tagged
<1> QED
  BY <1>3, <1>4 DEF Apt, Speaks, IsTool

LEMMA StepFollows ==
  ASSUME NEW w, Legible(w), NEW P, NEW i \in Nat, i + 1 \in DOMAIN w,
         NEW s, Follows(s, w, i), NEW t, t = Step(w, P, s, i + 1)
  PROVE  Follows(t, w, i + 1)
<1>1. CASE i + 1 \notin P
  <2>1. t = s
    BY <1>1 DEF Step
  <2> QED
    BY <2>1, WovenKept DEF Follows
<1>2. CASE i + 1 \in P
  <2>1. PICK e \in WireEvents : e = w[i + 1]
    BY DEF Legible
  <2>2. t \in Reader /\ Told(s, e, t)
    BY <1>2, <2>1, AllApt, EventTold DEF Step, Follows
  <2>3. Woven(FullText(t), w, "text", i + 1)
    <3>1. CASE Speaks(e, "text")
      <4>1. FullText(t) = FullText(s) \o w[i + 1].text
        BY <2>1, <2>2, <3>1 DEF Told
      <4> QED
        BY <2>1, <3>1, <4>1, WovenOn DEF Follows, Legible
    <3>2. CASE ~Speaks(e, "text")
      <4>1. FullText(t) = FullText(s)
        BY <2>2, <3>2 DEF Told
      <4> QED
        BY <4>1, WovenKept DEF Follows
    <3> QED
      BY <3>1, <3>2
  <2>4. Woven(FullThinking(t), w, "thinking", i + 1)
    <3>1. CASE Speaks(e, "thinking") /\ FullThinking(t) = FullThinking(s) \o e.text
      BY <2>1, <3>1, WovenOn DEF Follows, Legible
    <3>2. CASE FullThinking(t) = FullThinking(s)
      BY <3>2, WovenKept DEF Follows
    <3> QED
      BY <2>2, <3>1, <3>2 DEF Told
  <2> QED
    BY <2>2, <2>3, <2>4 DEF Follows
<1> QED
  BY <1>1, <1>2

LEMMA RunFollows ==
  ASSUME NEW w, Legible(w), NEW P, NEW h, IsRun(h, w, P), NEW i \in 0 .. Len(w)
  PROVE  Follows(h[i], w, i)
<1> DEFINE S == {n \in Nat : n <= Len(w) => Follows(h[n], w, n)}
<1>1. Len(w) \in Nat /\ DOMAIN w = 1 .. Len(w)
  BY DEF Legible
<1>2. 0 \in S
  BY NewFollows DEF IsRun
<1>3. ASSUME NEW n \in S
      PROVE  n + 1 \in S
  <2> SUFFICES ASSUME n + 1 <= Len(w)
               PROVE  Follows(h[n + 1], w, n + 1)
    OBVIOUS
  <2>1. n \in Nat /\ n + 1 \in DOMAIN w /\ n <= Len(w) /\ (n + 1) - 1 = n
    BY <1>1
  <2>2. h[n + 1] = Step(w, P, h[n], n + 1)
    BY <1>1, <2>1 DEF IsRun
  <2>3. Follows(h[n], w, n)
    BY <2>1
  <2> QED
    BY <2>1, <2>2, <2>3, StepFollows
<1>4. S = Nat
  <2>1. S \subseteq Nat
    OBVIOUS
  <2> HIDE DEF S
  <2> QED
    BY <1>2, <1>3, <2>1, SetInduction
<1> QED
  BY <1>1, <1>4

(* The wire of every turn is legible.                                      *)
LEMMA WireLegible ==
  ASSUME AInv, GInv
  PROVE  Legible(wire)
<1>1. wire \in Seq(WireEvents) /\ HeardIn(said) \in Nat
  BY HeardIs DEF AInv, ATypes
<1>2. Heeded(wire, Voiced(said, "thinking"), HeardIn(said), Voiced(said, "text"), HeardIn(said))
  BY DEF GInv, Good, Voices
<1>3. Voiced(said, "thinking") \subseteq Nat /\ Voiced(said, "text") \subseteq Nat
  BY DEF Voiced
<1>4. /\ Numbered(wire, "text", Nat, HeardIn(said)) /\ Numbered(wire, "thinking", Nat, HeardIn(said))
  BY <1>1, <1>2, <1>3, NumberedMore DEF Heeded
<1> QED
  BY <1>1, <1>2, <1>4 DEF Legible, Heeded, Tooled

--------------------------------------------------------------------------------
(* Until the transport ends the reader has read nothing; then it is what   *)
(* the loop makes of the events that were kept, and the writer is done.    *)
ReadBack ==
  \/ loop = "running" /\ r = NewReassembler
  \/ /\ loop = "returned" /\ run.phase = "over"
     /\ \E h : IsRun(h, wire, kept) /\ r \in Finalized(h[Len(wire)])

TurnInv == AInv /\ GInv /\ ReadBack

LEMMA OverIsOver ==
  ASSUME run.phase = "over", ANext
  PROVE  FALSE
<1>1. CASE \E call \in Calls : Preamble(call)
  BY <1>1 DEF Preamble
<1>2. CASE \E call \in Calls, thinks, speaks \in BOOLEAN : OnDelta(call, thinks, speaks)
  BY <1>2 DEF OnDelta
<1>3. CASE \E call \in Calls, calls \in CallLists : OnAssistantMessage(call, calls)
  BY <1>3 DEF OnAssistantMessage
<1>4. CASE \E call \in Calls : OnToolCallStart(call)
  BY <1>4 DEF OnToolCallStart
<1>5. CASE \E call \in Calls, missing \in BOOLEAN : OnToolResult(call, missing)
  BY <1>5 DEF OnToolResult
<1>6. CASE \E call \in Calls : Epilogue(call)
  BY <1>6 DEF Epilogue
<1>7. CASE OnRoundStart
  BY <1>7 DEF OnRoundStart
<1>8. CASE ProviderFails
  BY <1>8 DEF ProviderFails
<1>9. CASE Abandon
  BY <1>9 DEF Abandon
<1> QED
  BY <1>1, <1>2, <1>3, <1>4, <1>5, <1>6, <1>7, <1>8, <1>9 DEF ANext

(* What the reader returns stems from the last state of a run.             *)
LEMMA ReadOff ==
  ASSUME wire \in Seq(WireEvents), NEW P, NEW f \in Reassembled(P)
  PROVE  \E h : IsRun(h, wire, P) /\ f \in Finalized(h[Len(wire)])
<1>1. f \in Finalized(Loop(P))
  BY DEF Reassembled, Loop
<1>2. PICK n \in Nat : n = Len(wire) /\ DOMAIN wire = 1 .. n
  OBVIOUS
<1>3. PICK h : IsRun(h, wire, P) /\ Loop(P) = h[n]
  BY <1>2, LoopRuns
<1> QED
  BY <1>1, <1>2, <1>3

LEMMA TurnStays ==
  ASSUME TurnInv, [Next]_vars
  PROVE  TurnInv'
<1>1. CASE Produce
  <2>1. ANext /\ r' = r /\ loop' = loop
    BY <1>1 DEF Produce, rvars
  <2>2. AInv' /\ GInv'
    BY <2>1, StaysInOrder, GoodStays DEF TurnInv
  <2>3. run.phase # "over"
    BY <2>1, OverIsOver
  <2> QED
    BY <2>1, <2>2, <2>3 DEF TurnInv, ReadBack
<1>2. CASE \E positions \in Deliveries : Carry(positions)
  <2>1. PICK positions \in Deliveries : Carry(positions)
    BY <1>2
  <2>2. UNCHANGED avars
    BY <2>1 DEF Carry
  <2>3. AInv' /\ GInv'
    BY <2>2, StaysInOrder, GoodStays DEF TurnInv
  <2>4. wire' = wire /\ run' = run
    BY <2>2 DEF avars
  <2>5. /\ loop' = "returned" /\ run.phase = "over" /\ kept' = positions
        /\ r' \in Reassembled(positions)
    BY <2>1 DEF Carry
  <2>6. PICK h : IsRun(h, wire, positions) /\ r' \in Finalized(h[Len(wire)])
    BY <2>5, ReadOff DEF TurnInv, AInv, ATypes
  <2>7. IsRun(h, wire', kept') /\ r' \in Finalized(h[Len(wire')])
    BY <2>4, <2>5, <2>6
  <2> QED
    BY <2>3, <2>4, <2>5, <2>7 DEF TurnInv, ReadBack
<1>3. CASE UNCHANGED vars
  <2>1. UNCHANGED avars /\ r' = r /\ loop' = loop /\ kept' = kept
    BY <1>3 DEF vars, rvars
  <2>2. AInv' /\ GInv'
    BY <2>1, StaysInOrder, GoodStays DEF TurnInv
  <2>3. wire' = wire /\ run' = run
    BY <2>1 DEF avars
  <2>4. ReadBack'
    BY <2>1, <2>3 DEF TurnInv, ReadBack
  <2> QED
    BY <2>2, <2>4 DEF TurnInv
<1> QED
  BY <1>1, <1>2, <1>3 DEF Next

LEMMA TurnInvariant ==
  Spec => []TurnInv
<1>1. Init => TurnInv
  BY StartsInOrder, GoodStarts DEF Init, RInit, TurnInv, ReadBack
<1>2. TurnInv /\ [Next]_vars => TurnInv'
  BY TurnStays
<1> QED
  BY <1>1, <1>2, PTL DEF Spec

(* What was voiced is in the joined text.                                  *)
LEMMA SpokenIn ==
  ASSUME said \in Seq(Rounds), NEW f \in {"text", "thinking"}, NEW k \in Voiced(said, f)
  PROVE  k \in ToSet(FlattenSeq([i \in 1 .. Round |-> said[i][f]]))
<1>1. PICK w : w = [i \in 1 .. Round |-> said[i][f]]
  OBVIOUS
<1>2. Round \in Nat /\ DOMAIN said = 1 .. Round
  BY DEF Round
<1>3. ASSUME NEW i \in 1 .. Round
      PROVE  w[i] = said[i][f] /\ w[i] \in Seq(Nat)
  <2>1. said[i] \in Rounds
    BY <1>2
  <2> QED
    BY <1>1, <2>1 DEF Rounds
<1>4. w \in Seq(Seq(Nat)) /\ DOMAIN w = 1 .. Round
  <2>1. w = [i \in 1 .. Round |-> w[i]]
    BY <1>1
  <2> QED
    BY <1>2, <1>3, <2>1, MapSeq
<1>5. PICK i \in 1 .. Round : \E j \in DOMAIN w[i] : w[i][j] = k
  BY <1>2, <1>3 DEF Voiced
<1>6. PICK j \in DOMAIN w[i] : w[i][j] = k
  BY <1>5
<1>7. PICK z : z = FlattenSeq(w)
  OBVIOUS
<1>8. \E m \in DOMAIN z : z[m] = k
  <2>1. i \in DOMAIN w /\ j \in DOMAIN w[i] /\ w \in Seq(Seq(Nat))
    BY <1>4
  <2>2. \E m \in DOMAIN FlattenSeq(w) : FlattenSeq(w)[m] = w[i][j]
    BY ONLY <2>1, FlattenMember
  <2> QED
    BY <1>6, <1>7, <2>2, Zenon
<1> QED
  BY <1>1, <1>7, <1>8 DEF ToSet

(* Whatever fails, is lost or is cut off, what Reassemble returns as text  *)
(* is text the model said, in its order and without repetition, and the    *)
(* same for the thinking: the Adapter puts every delta on the wire once    *)
(* under its own kind, and handleTextDelta and handleThinkingDelta only    *)
(* ever append.                                                            *)
THEOREM NoTextGarbled == Spec => []NoGarbling
<1>1. TurnInv => NoGarbling
  <2> SUFFICES ASSUME TurnInv, Returned
               PROVE  /\ Increasing(r.text) /\ ToSet(r.text) \subseteq ToSet(SaidText)
                      /\ Increasing(r.thinking) /\ ToSet(r.thinking) \subseteq ToSet(SaidThinking)
    BY DEF NoGarbling
  <2>1. PICK h : IsRun(h, wire, kept) /\ r \in Finalized(h[Len(wire)])
    BY DEF TurnInv, ReadBack, Returned
  <2>2. Legible(wire) /\ Len(wire) \in Nat /\ DOMAIN wire = 1 .. Len(wire) /\ said \in Seq(Rounds)
    BY WireLegible DEF TurnInv, AInv, ATypes
  <2>3. PICK s : s = h[Len(wire)] /\ Follows(s, wire, Len(wire))
    BY <2>1, <2>2, RunFollows
  <2>4. r.text = FullText(s) /\ r.thinking = FullThinking(s)
    BY <2>1, <2>3, ReaderEnds DEF Ends, Follows
  <2>5. Voices(wire, said)
    BY DEF TurnInv, GInv, Good
  <2>6. ASSUME NEW f \in {"text", "thinking"}, NEW x, Woven(x, wire, f, Len(wire))
        PROVE  ToSet(x) \subseteq ToSet(FlattenSeq([i \in 1 .. Round |-> said[i][f]]))
    <3> SUFFICES ASSUME NEW j \in DOMAIN x
                 PROVE  x[j] \in ToSet(FlattenSeq([i \in 1 .. Round |-> said[i][f]]))
      BY DEF ToSet
    <3>1. PICK p \in 1 .. Len(wire) : Speaks(wire[p], f) /\ wire[p].text = <<x[j]>>
      BY <2>6 DEF Woven
    <3>2. PICK k \in Voiced(said, f) : wire[p].text = <<k>>
      BY <2>2, <2>5, <3>1 DEF Voices, Heeded, Numbered
    <3>3. x[j] = k
      BY <3>1, <3>2
    <3> QED
      BY <2>2, <3>3, SpokenIn
  <2>7. /\ SaidText = FlattenSeq([i \in 1 .. Round |-> said[i]["text"]])
        /\ SaidThinking = FlattenSeq([i \in 1 .. Round |-> said[i]["thinking"]])
    BY DEF SaidText, SaidThinking, Join
  <2> QED
    BY <2>3, <2>4, <2>6, <2>7 DEF Follows, Woven
<1> QED
  BY <1>1, TurnInvariant, PTL

--------------------------------------------------------------------------------
(* Where ids are unique: the wire's tool blocks tell their calls apart.    *)
IsAnswer(e) == IsStart(e) /\ e.block = "tool_result"

Paired(w) ==
  /\ w \in Seq(WireEvents) /\ Ascending(w) /\ Tagged(w) /\ Behind(w) /\ Distinct(w)
  /\ \A p, q \in DOMAIN w : p # q /\ IsAnswer(w[p]) /\ IsAnswer(w[q]) => w[p].id # w[q].id

LEMMA WirePaired ==
  ASSUME AInv, GInv, UniqueIDs
  PROVE  Paired(wire)
<1>1. wire \in Seq(WireEvents) /\ Ascending(wire) /\ Answering(wire, said)
  BY DEF AInv, ATypes, Orderly, Booked
<1>2. Tagged(wire) /\ Behind(wire) /\ Distinct(wire)
  BY DEF GInv, Good, Voices, Heeded, Tooled
<1>3. ASSUME NEW p \in DOMAIN wire, NEW q \in DOMAIN wire, p # q, IsAnswer(wire[p]), IsAnswer(wire[q]),
             wire[p].id = wire[q].id
      PROVE  FALSE
  <2>1. p \in StartsIn(wire) /\ q \in StartsIn(wire)
    BY <1>3 DEF StartsIn, IsAnswer
  <2>2. PICK a \in StartsIn(wire) :
          /\ wire[a].block = "tool_use" /\ wire[a].id = wire[p].id
          /\ wire[p].index - wire[a].index = Len(said[wire[a].name[1]].calls)
    BY <1>1, <1>3, <2>1 DEF Answering, IsAnswer
  <2>3. PICK b \in StartsIn(wire) :
          /\ wire[b].block = "tool_use" /\ wire[b].id = wire[q].id
          /\ wire[q].index - wire[b].index = Len(said[wire[b].name[1]].calls)
    BY <1>1, <1>3, <2>1 DEF Answering, IsAnswer
  <2>4. a \in DOMAIN wire /\ b \in DOMAIN wire /\ IsUse(wire[a]) /\ IsUse(wire[b])
    BY <2>2, <2>3 DEF StartsIn, IsUse
  <2>5. a = b
    BY <1>2, <1>3, <2>2, <2>3, <2>4 DEF Distinct
  <2>6. wire[p].index \in Nat /\ wire[q].index \in Nat /\ wire[a].index \in Nat
    <3>1. \A x \in DOMAIN wire : wire[x] \in WireEvents
      BY <1>1
    <3> QED
      BY <1>3, <2>4, <3>1, WireDecoded DEF IsBlock, IsAnswer, IsUse
  <2>7. wire[p].index = wire[q].index
    BY <2>2, <2>3, <2>5, <2>6
  <2>8. p \in Nat /\ q \in Nat
    BY <1>1, <1>3
  <2> QED
    BY <1>1, <1>3, <2>1, <2>6, <2>7, <2>8 DEF Ascending
<1> QED
  BY <1>1, <1>2, <1>3 DEF Paired

(* A block in progress stems from its start, and holds nothing or its id.  *)
Stems(id, x, w, j, i, kind) ==
  \E p \in 1 .. i :
    /\ IsStart(w[p]) /\ w[p].block = kind /\ w[p].index = j /\ w[p].id = id
    /\ x \in {<<>>, <<id>>} /\ (x # <<>> => p < i)

UsesStem(s, w, i) ==
  \A j \in DOMAIN s.inflight :
    /\ s.inflight[j].name = s.inflight[j].id
    /\ Stems(s.inflight[j].id, s.inflight[j].params, w, j, i, "tool_use")

AnswersStem(s, w, i) ==
  \A j \in DOMAIN s.results :
    Stems(s.results[j].id, s.results[j].text, w, j, i, "tool_result")

(* Calls and executions carry only their own, and no call is executed      *)
(* twice: an execution's result is not open any more.                      *)
Own(x) == x.name = x.id /\ x.params \in {EmptyInput, <<x.id>>}

OwnCalls(q) == \A k \in DOMAIN q : Own(q[k])

OwnExecs(q) == \A k \in DOMAIN q : Own(q[k]) /\ q[k].result \in {<<>>, <<q[k].id>>}

Settled(s, w, i) ==
  \A k \in DOMAIN s.executions :
    \E p \in 1 .. i : /\ IsAnswer(w[p]) /\ w[p].id = s.executions[k].id
                      /\ w[p].index \notin DOMAIN s.results

Apart(q) == \A j, k \in DOMAIN q : j # k => q[j].id # q[k].id

Tally(s, w, i) ==
  /\ s \in Reader
  /\ UsesStem(s, w, i) /\ AnswersStem(s, w, i)
  /\ OwnCalls(s.tools) /\ OwnExecs(s.executions)
  /\ Settled(s, w, i) /\ Apart(s.executions)

LEMMA StemsKept ==
  ASSUME NEW id, NEW x, NEW w, NEW j, NEW i \in Nat, NEW kind, Stems(id, x, w, j, i, kind)
  PROVE  Stems(id, x, w, j, i + 1, kind)
<1>1. PICK p \in 1 .. i :
        /\ IsStart(w[p]) /\ w[p].block = kind /\ w[p].index = j /\ w[p].id = id
        /\ x \in {<<>>, <<id>>} /\ (x # <<>> => p < i)
  BY DEF Stems
<1>2. p \in 1 .. i + 1 /\ p < i + 1
  OBVIOUS
<1> QED
  BY <1>1, <1>2 DEF Stems

LEMMA SettledKept ==
  ASSUME NEW s, NEW w, NEW i \in Nat, Settled(s, w, i), NEW t,
         t.executions = s.executions, DOMAIN t.results \subseteq DOMAIN s.results
  PROVE  Settled(t, w, i + 1)
<1>1. 1 .. i \subseteq 1 .. i + 1
  OBVIOUS
<1> QED
  BY <1>1 DEF Settled

LEMMA TallyKept ==
  ASSUME NEW s, NEW w, NEW i \in Nat, Tally(s, w, i), NEW t \in Reader, KeepsTools(s, t)
  PROVE  Tally(t, w, i + 1)
<1>1. /\ t.inflight = s.inflight /\ t.results = s.results /\ t.tools = s.tools
      /\ t.executions = s.executions
  BY DEF KeepsTools
<1>2. UsesStem(t, w, i + 1)
  BY <1>1, StemsKept DEF Tally, UsesStem
<1>3. AnswersStem(t, w, i + 1)
  BY <1>1, StemsKept DEF Tally, AnswersStem
<1>4. Settled(t, w, i + 1)
  BY <1>1, SettledKept DEF Tally
<1> QED
  BY <1>1, <1>2, <1>3, <1>4 DEF Tally

LEMMA StartTwice ==
  ASSUME NEW w, w \in Seq(WireEvents), Ascending(w), NEW p \in DOMAIN w, NEW q \in DOMAIN w,
         IsStart(w[p]), IsStart(w[q]), w[p].index = w[q].index
  PROVE  p = q
<1>1. p \in StartsIn(w) /\ q \in StartsIn(w) /\ p \in Nat /\ q \in Nat
  BY DEF StartsIn
<1>2. w[p].index \in Nat
  <2>1. w[p] \in WireEvents
    OBVIOUS
  <2> QED
    BY <2>1, WireDecoded DEF IsBlock
<1> QED
  BY <1>1, <1>2 DEF Ascending

LEMMA TallyUse ==
  ASSUME NEW s, NEW w, Paired(w), NEW i \in Nat, i + 1 \in DOMAIN w, Tally(s, w, i),
         NEW e \in WireEvents, e = w[i + 1], IsStart(e), e.block = "tool_use",
         NEW t, StartsUse(s, e, t)
  PROVE  Tally(t, w, i + 1)
<1>1. e.index \in Nat /\ e.id \in Tags /\ e.name \in Tags /\ e.name = e.id
  <2>1. e.name = e.id
    BY DEF Paired, Distinct, IsUse
  <2> QED
    BY <2>1, WireDecoded DEF IsBlock
<1>2. PICK v : v = [name |-> e.name, id |-> e.id, params |-> <<>>]
  OBVIOUS
<1>3. v.name = e.name /\ v.id = e.id /\ v.params = <<>> /\ v \in OpenUse
  <2>1. PICK x \in Seq(Tags) : x = <<>>
    <3>1. <<>> \in Seq(Tags)
      OBVIOUS
    <3> QED
      BY <3>1
  <2>2. [name |-> e.name, id |-> e.id, params |-> x] \in OpenUse
    BY <1>1 DEF OpenUse
  <2> QED
    BY <1>2, <2>1, <2>2
<1>4. s \in Reader /\ s.inflight \in Blocks(OpenUse)
  BY ReaderFields DEF Tally
<1>5. /\ t.results = s.results /\ t.tools = s.tools /\ t.executions = s.executions /\ t \in Reader
      /\ t.inflight = With(s.inflight, e.index, v)
  BY <1>2 DEF StartsUse
<1>6. /\ DOMAIN t.inflight = DOMAIN s.inflight \cup {e.index}
      /\ \A j \in DOMAIN s.inflight \cup {e.index} : t.inflight[j] = IF j = e.index THEN v ELSE s.inflight[j]
  BY <1>5 DEF With
<1>7. UsesStem(t, w, i + 1)
  <2> SUFFICES ASSUME NEW j \in DOMAIN t.inflight
               PROVE  /\ t.inflight[j].name = t.inflight[j].id
                      /\ Stems(t.inflight[j].id, t.inflight[j].params, w, j, i + 1, "tool_use")
    BY DEF UsesStem
  <2>1. CASE j = e.index
    <3>1. i + 1 \in 1 .. i + 1
      OBVIOUS
    <3>2. t.inflight[j] = v
      BY <1>6, <2>1
    <3> QED
      BY <1>1, <1>3, <2>1, <3>1, <3>2 DEF Stems
  <2>2. CASE j # e.index
    <3>1. j \in DOMAIN s.inflight /\ t.inflight[j] = s.inflight[j]
      BY <1>6, <2>2
    <3> QED
      BY <3>1, StemsKept DEF Tally, UsesStem
  <2> QED
    BY <2>1, <2>2
<1>8. AnswersStem(t, w, i + 1)
  BY <1>5, StemsKept DEF Tally, AnswersStem
<1>9. Settled(t, w, i + 1)
  BY <1>5, SettledKept DEF Tally
<1> QED
  BY <1>5, <1>7, <1>8, <1>9 DEF Tally

LEMMA TallyAnswer ==
  ASSUME NEW s, NEW w, Paired(w), NEW i \in Nat, i + 1 \in DOMAIN w, Tally(s, w, i),
         NEW e \in WireEvents, e = w[i + 1], IsStart(e), e.block = "tool_result",
         NEW t, StartsAnswer(s, e, t)
  PROVE  Tally(t, w, i + 1)
<1>1. PICK v : v = [id |-> e.id, text |-> <<>>]
  OBVIOUS
<1>2. v.id = e.id /\ v.text = <<>>
  BY <1>1
<1>3. /\ t.inflight = s.inflight /\ t.tools = s.tools /\ t.executions = s.executions /\ t \in Reader
      /\ t.results = With(s.results, e.index, v)
  BY <1>1 DEF StartsAnswer
<1>4. /\ DOMAIN t.results = DOMAIN s.results \cup {e.index}
      /\ \A j \in DOMAIN s.results \cup {e.index} : t.results[j] = IF j = e.index THEN v ELSE s.results[j]
  BY <1>3 DEF With
<1>5. AnswersStem(t, w, i + 1)
  <2> SUFFICES ASSUME NEW j \in DOMAIN t.results
               PROVE  Stems(t.results[j].id, t.results[j].text, w, j, i + 1, "tool_result")
    BY DEF AnswersStem
  <2>1. CASE j = e.index
    <3>1. i + 1 \in 1 .. i + 1
      OBVIOUS
    <3>2. t.results[j] = v
      BY <1>4, <2>1
    <3> QED
      BY <1>2, <2>1, <3>1, <3>2 DEF Stems
  <2>2. CASE j # e.index
    <3>1. j \in DOMAIN s.results /\ t.results[j] = s.results[j]
      BY <1>4, <2>2
    <3> QED
      BY <3>1, StemsKept DEF Tally, AnswersStem
  <2> QED
    BY <2>1, <2>2
<1>6. UsesStem(t, w, i + 1)
  BY <1>3, StemsKept DEF Tally, UsesStem
<1>7. Settled(t, w, i + 1)
  <2> SUFFICES ASSUME NEW k \in DOMAIN s.executions
               PROVE  \E p \in 1 .. i + 1 : /\ IsAnswer(w[p]) /\ w[p].id = s.executions[k].id
                                            /\ w[p].index \notin DOMAIN t.results
    BY <1>3 DEF Settled
  <2>1. PICK p \in 1 .. i : /\ IsAnswer(w[p]) /\ w[p].id = s.executions[k].id
                            /\ w[p].index \notin DOMAIN s.results
    BY DEF Tally, Settled
  <2>2. p \in DOMAIN w /\ p # i + 1 /\ p \in 1 .. i + 1
    BY DEF Paired
  <2>3. w[p].index # e.index
    BY <2>1, <2>2, StartTwice DEF Paired, IsAnswer
  <2> QED
    BY <1>4, <2>1, <2>2, <2>3
<1> QED
  BY <1>3, <1>5, <1>6, <1>7 DEF Tally

(* A delta of a tool block meets a block that is still empty.              *)
LEMMA StemsFilled ==
  ASSUME NEW w, Paired(w), NEW i \in Nat, i + 1 \in DOMAIN w, NEW kind \in {"tool_use", "tool_result"},
         Speaks(w[i + 1], kind), NEW id, NEW x, Stems(id, x, w, w[i + 1].index, i, kind),
         NEW y, y = x \o w[i + 1].text
  PROVE  Stems(id, y, w, w[i + 1].index, i + 1, kind)
<1>1. PICK p \in 1 .. i :
        /\ IsStart(w[p]) /\ w[p].block = kind /\ w[p].index = w[i + 1].index /\ w[p].id = id
        /\ x \in {<<>>, <<id>>} /\ (x # <<>> => p < i)
  BY DEF Stems
<1>2. /\ i \in DOMAIN w /\ IsStart(w[i]) /\ w[i].index = w[i + 1].index
      /\ w[i + 1].text \in {<<>>, <<w[i].id>>}
  <2>1. IsDelta(w[i + 1]) /\ IsTool(w[i + 1]) /\ (i + 1) - 1 = i
    BY DEF Speaks, IsTool
  <2> QED
    BY <2>1 DEF Paired, Behind
<1>3. p \in DOMAIN w
  BY DEF Paired
<1>4. p = i
  BY <1>1, <1>2, <1>3, StartTwice DEF Paired
<1>5. x = <<>>
  BY <1>1, <1>4
<1>6. y \in {<<>>, <<id>>}
  BY <1>1, <1>2, <1>4, <1>5
<1>7. p \in 1 .. i + 1 /\ p < i + 1
  OBVIOUS
<1> QED
  BY <1>1, <1>6, <1>7 DEF Stems

LEMMA TallyFillsUse ==
  ASSUME NEW s, NEW w, Paired(w), NEW i \in Nat, i + 1 \in DOMAIN w, Tally(s, w, i),
         NEW e \in WireEvents, e = w[i + 1], Speaks(e, "tool_use"),
         NEW t, FillsUse(s, e, t)
  PROVE  Tally(t, w, i + 1)
<1>1. CASE e.index \notin DOMAIN s.inflight
  <2>1. t = s /\ s \in Reader
    BY <1>1 DEF FillsUse, Tally
  <2>2. KeepsTools(s, t)
    BY <2>1 DEF KeepsTools
  <2> QED
    BY <2>1, <2>2, TallyKept
<1>2. CASE e.index \in DOMAIN s.inflight
  <2>0. FilledUse(s, e, t)
    BY ONLY <1>2, FillsUse(s, e, t), Zenon DEF FillsUse
  <2>1. /\ t \in Reader /\ t.tools = s.tools /\ t.executions = s.executions /\ t.results = s.results
        /\ DOMAIN t.inflight = DOMAIN s.inflight
        /\ \A j \in DOMAIN s.inflight : j # e.index => t.inflight[j] = s.inflight[j]
    BY ONLY <2>0, Zenon DEF FilledUse
  <2>2. /\ t.inflight[e.index].name = s.inflight[e.index].name
        /\ t.inflight[e.index].id = s.inflight[e.index].id
        /\ t.inflight[e.index].params = s.inflight[e.index].params \o e.text
    BY ONLY <2>0, Zenon DEF FilledUse
  <2>3. /\ t.inflight[e.index].name = t.inflight[e.index].id
        /\ Stems(t.inflight[e.index].id, t.inflight[e.index].params, w, e.index, i + 1, "tool_use")
    <3>1. /\ s.inflight[e.index].name = s.inflight[e.index].id
          /\ Stems(s.inflight[e.index].id, s.inflight[e.index].params, w, w[i + 1].index, i, "tool_use")
      BY <1>2, Zenon DEF Tally, UsesStem
    <3>2. Stems(s.inflight[e.index].id, t.inflight[e.index].params, w, w[i + 1].index, i + 1, "tool_use")
      BY <2>2, <3>1, StemsFilled
    <3> QED
      BY <2>2, <3>1, <3>2
  <2>4. UsesStem(t, w, i + 1)
    <3> SUFFICES ASSUME NEW j \in DOMAIN s.inflight
                 PROVE  /\ t.inflight[j].name = t.inflight[j].id
                        /\ Stems(t.inflight[j].id, t.inflight[j].params, w, j, i + 1, "tool_use")
      BY <2>1, Zenon DEF UsesStem
    <3>1. CASE j = e.index
      BY <2>3, <3>1
    <3>2. CASE j # e.index
      BY <2>1, <3>2, StemsKept DEF Tally, UsesStem
    <3> QED
      BY <3>1, <3>2
  <2>5. AnswersStem(t, w, i + 1)
    BY <2>1, StemsKept DEF Tally, AnswersStem
  <2>6. Settled(t, w, i + 1)
    BY <2>1, SettledKept DEF Tally
  <2> QED
    BY <2>1, <2>4, <2>5, <2>6 DEF Tally
<1> QED
  BY <1>1, <1>2

LEMMA TallyFillsAnswer ==
  ASSUME NEW s, NEW w, Paired(w), NEW i \in Nat, i + 1 \in DOMAIN w, Tally(s, w, i),
         NEW e \in WireEvents, e = w[i + 1], Speaks(e, "tool_result"),
         NEW t, FillsAnswer(s, e, t)
  PROVE  Tally(t, w, i + 1)
<1>1. CASE e.index \notin DOMAIN s.results
  <2>1. t = s /\ s \in Reader
    BY <1>1 DEF FillsAnswer, Tally
  <2>2. KeepsTools(s, t)
    BY <2>1 DEF KeepsTools
  <2> QED
    BY <2>1, <2>2, TallyKept
<1>2. CASE e.index \in DOMAIN s.results
  <2>0. FilledAnswer(s, e, t)
    BY ONLY <1>2, FillsAnswer(s, e, t), Zenon DEF FillsAnswer
  <2>1. /\ t \in Reader /\ t.tools = s.tools /\ t.executions = s.executions /\ t.inflight = s.inflight
        /\ DOMAIN t.results = DOMAIN s.results
        /\ \A j \in DOMAIN s.results : j # e.index => t.results[j] = s.results[j]
    BY ONLY <2>0, Zenon DEF FilledAnswer
  <2>2. /\ t.results[e.index].id = s.results[e.index].id
        /\ t.results[e.index].text = s.results[e.index].text \o e.text
    BY ONLY <2>0, Zenon DEF FilledAnswer
  <2>3. Stems(t.results[e.index].id, t.results[e.index].text, w, e.index, i + 1, "tool_result")
    <3>1. Stems(s.results[e.index].id, s.results[e.index].text, w, w[i + 1].index, i, "tool_result")
      BY <1>2, Zenon DEF Tally, AnswersStem
    <3>2. Stems(s.results[e.index].id, t.results[e.index].text, w, w[i + 1].index, i + 1, "tool_result")
      BY <2>2, <3>1, StemsFilled
    <3> QED
      BY <2>2, <3>2
  <2>4. AnswersStem(t, w, i + 1)
    <3> SUFFICES ASSUME NEW j \in DOMAIN s.results
                 PROVE  Stems(t.results[j].id, t.results[j].text, w, j, i + 1, "tool_result")
      BY <2>1, Zenon DEF AnswersStem
    <3>1. CASE j = e.index
      BY <2>3, <3>1
    <3>2. CASE j # e.index
      BY <2>1, <3>2, StemsKept DEF Tally, AnswersStem
    <3> QED
      BY <3>1, <3>2
  <2>5. UsesStem(t, w, i + 1)
    BY <2>1, StemsKept DEF Tally, UsesStem
  <2>6. Settled(t, w, i + 1)
    BY <2>1, SettledKept DEF Tally
  <2> QED
    BY <2>1, <2>4, <2>5, <2>6 DEF Tally
<1> QED
  BY <1>1, <1>2

LEMMA CallOwn ==
  ASSUME NEW o \in OpenUse, o.name = o.id, o.params \in {<<>>, <<o.id>>}
  PROVE  Own(called(o))
<1>1. PICK c : c = called(o)
  OBVIOUS
<1>2. /\ c.name = o.name /\ c.id = o.id
      /\ c.params = IF o.params = EmptyText THEN EmptyInput ELSE o.params
  BY <1>1 DEF called
<1> QED
  BY <1>1, <1>2 DEF Own, EmptyText

(* One element more.                                                       *)
LEMMA RowAppend ==
  ASSUME NEW V, NEW q \in Seq(V), NEW x \in V, NEW z, z = Append(q, x)
  PROVE  /\ DOMAIN z = 1 .. Len(q) + 1 /\ DOMAIN q = 1 .. Len(q) /\ Len(q) \in Nat
         /\ \A k \in DOMAIN q : k \in DOMAIN z /\ k # Len(q) + 1 /\ z[k] = q[k]
         /\ \A k \in DOMAIN z : k \in DOMAIN q \/ k = Len(q) + 1
         /\ z[Len(q) + 1] = x
OBVIOUS

LEMMA TallyStopsUse ==
  ASSUME NEW s, NEW w, Paired(w), NEW i \in Nat, i + 1 \in DOMAIN w, Tally(s, w, i),
         NEW e \in WireEvents, e.index \in DOMAIN s.inflight,
         NEW t, StopsUse(s, e, t)
  PROVE  Tally(t, w, i + 1)
<1>1. /\ t \in Reader /\ t.executions = s.executions /\ t.results = s.results
      /\ t.inflight = Without(s.inflight, e.index)
      /\ t.tools = Append(s.tools, called(s.inflight[e.index]))
  BY DEF StopsUse
<1>2. /\ DOMAIN t.inflight \subseteq DOMAIN s.inflight
      /\ \A j \in DOMAIN t.inflight : t.inflight[j] = s.inflight[j]
  BY <1>1 DEF Without
<1>3. UsesStem(t, w, i + 1)
  BY <1>2, StemsKept DEF Tally, UsesStem
<1>4. AnswersStem(t, w, i + 1)
  BY <1>1, StemsKept DEF Tally, AnswersStem
<1>5. Settled(t, w, i + 1)
  BY <1>1, SettledKept DEF Tally
<1>6. s \in Reader /\ s.inflight \in Blocks(OpenUse) /\ s.tools \in Seq(DoneCall)
  BY ReaderFields DEF Tally
<1>7. PICK o \in OpenUse : o = s.inflight[e.index]
  BY <1>6, BlockFacts
<1>8. Own(called(o)) /\ called(o) \in DoneCall
  <2>1. s.inflight[e.index].name = s.inflight[e.index].id
        /\ Stems(o.id, o.params, w, e.index, i, "tool_use")
    BY <1>7 DEF Tally, UsesStem
  <2>2. o.name = o.id /\ o.params \in {<<>>, <<o.id>>}
    BY <1>7, <2>1 DEF Stems
  <2> QED
    BY <2>2, CallOwn, CallType
<1>9. OwnCalls(t.tools)
  <2>1. PICK q \in Seq(DoneCall), x \in DoneCall : q = s.tools /\ x = called(o)
    BY <1>6, <1>8
  <2>0. PICK z : z = t.tools
    OBVIOUS
  <2>2. z = Append(q, x)
    BY <1>1, <1>7, <2>0, <2>1
  <2>3. OwnCalls(q) /\ Own(x)
    BY <1>8, <2>1 DEF Tally
  <2>4. OwnCalls(z)
    BY <2>2, <2>3, RowAppend DEF OwnCalls
  <2> QED
    BY <2>0, <2>4
<1> QED
  BY <1>1, <1>3, <1>4, <1>5, <1>9 DEF Tally

(* The execution that a result with a call becomes.                        *)
LEMMA AnswerOwn ==
  ASSUME NEW tools \in Seq(DoneCall), OwnCalls(tools), NEW res \in OpenAnswer,
         res.text \in {<<>>, <<res.id>>}, NEW x \in DoneExec, Answers(tools, res, x)
  PROVE  Own(x) /\ x.result \in {<<>>, <<x.id>>} /\ x.id = res.id
<1>1. PICK k \in DOMAIN tools :
        /\ tools[k].id = res.id
        /\ x = [name |-> tools[k].name, id |-> res.id, params |-> tools[k].params, result |-> res.text]
  BY DEF Answers
<1>2. x.name = tools[k].name /\ x.id = res.id /\ x.params = tools[k].params /\ x.result = res.text
  BY <1>1
<1>3. Own(tools[k])
  BY DEF OwnCalls
<1> QED
  BY <1>1, <1>2, <1>3 DEF Own

LEMMA TallyStopsAnswer ==
  ASSUME NEW s, NEW w, Paired(w), NEW i \in Nat, i + 1 \in DOMAIN w, Tally(s, w, i),
         NEW e \in WireEvents, e.index \in DOMAIN s.results,
         NEW t, StopsAnswer(s, e, t)
  PROVE  Tally(t, w, i + 1)
<1>1. /\ t \in Reader /\ t.tools = s.tools /\ t.inflight = s.inflight
      /\ t.results = Without(s.results, e.index)
  BY DEF StopsAnswer
<1>2. /\ DOMAIN t.results = DOMAIN s.results \ {e.index}
      /\ \A j \in DOMAIN t.results : t.results[j] = s.results[j]
  BY <1>1 DEF Without
<1>3. UsesStem(t, w, i + 1)
  BY <1>1, StemsKept DEF Tally, UsesStem
<1>4. AnswersStem(t, w, i + 1)
  BY <1>2, StemsKept DEF Tally, AnswersStem
<1>5. CASE ~Matched(s, s.results[e.index])
  <2>1. t.executions = s.executions
    BY <1>5 DEF StopsAnswer
  <2>2. Settled(t, w, i + 1)
    BY <1>2, <2>1, SettledKept DEF Tally
  <2> QED
    BY <1>1, <1>3, <1>4, <2>1, <2>2 DEF Tally
<1>6. CASE Matched(s, s.results[e.index])
  <2>1. /\ s \in Reader /\ s.results \in Blocks(OpenAnswer) /\ s.tools \in Seq(DoneCall)
        /\ s.executions \in Seq(DoneExec)
    BY ReaderFields DEF Tally
  <2>2. PICK o \in OpenAnswer : o = s.results[e.index]
    BY <2>1, BlockFacts
  <2>3. PICK x \in DoneExec : Answers(s.tools, o, x) /\ t.executions = Append(s.executions, x)
    BY <1>6, <2>2 DEF StopsAnswer
  <2>4. PICK p \in 1 .. i :
          /\ IsAnswer(w[p]) /\ w[p].index = e.index /\ w[p].id = o.id /\ o.text \in {<<>>, <<o.id>>}
    BY <2>2 DEF Tally, AnswersStem, Stems, IsAnswer
  <2>5. Own(x) /\ x.result \in {<<>>, <<x.id>>} /\ x.id = o.id
    BY <2>1, <2>3, <2>4, AnswerOwn DEF Tally
  <2>6. PICK q \in Seq(DoneExec) : q = s.executions
    BY <2>1
  <2>z. PICK z : z = t.executions
    OBVIOUS
  <2>7. z = Append(q, x)
    BY <2>3, <2>6, <2>z
  <2>8. OwnExecs(q) /\ Apart(q)
    BY <2>6 DEF Tally
  <2>9. OwnExecs(z)
    BY <2>5, <2>7, <2>8, RowAppend DEF OwnExecs
  <2>10. ASSUME NEW k \in DOMAIN q
         PROVE  \E a \in 1 .. i + 1 : /\ IsAnswer(w[a]) /\ w[a].id = q[k].id
                                      /\ w[a].index \notin DOMAIN s.results /\ q[k].id # x.id
    <3>1. PICK a \in 1 .. i : IsAnswer(w[a]) /\ w[a].id = q[k].id /\ w[a].index \notin DOMAIN s.results
      BY <2>6 DEF Tally, Settled
    <3>2. a # p /\ a \in DOMAIN w /\ p \in DOMAIN w /\ a \in 1 .. i + 1
      BY <2>4, <3>1 DEF Paired
    <3>3. w[a].id # w[p].id
      BY <2>4, <3>1, <3>2 DEF Paired
    <3> QED
      BY <2>4, <2>5, <3>1, <3>2, <3>3
  <2>11. Apart(z)
    <3> SUFFICES ASSUME NEW j \in DOMAIN z, NEW k \in DOMAIN z, j # k
                 PROVE  z[j].id # z[k].id
      BY DEF Apart
    <3>1. j \in DOMAIN q /\ k \in DOMAIN q => z[j].id # z[k].id
      BY <2>7, <2>8, RowAppend DEF Apart
    <3>2. j \in DOMAIN q /\ k = Len(q) + 1 => z[j].id # z[k].id
      BY <2>7, <2>10, RowAppend
    <3>3. j = Len(q) + 1 /\ k \in DOMAIN q => z[j].id # z[k].id
      BY <2>7, <2>10, RowAppend
    <3> QED
      BY <2>7, <3>1, <3>2, <3>3, RowAppend
  <2>12. Settled(t, w, i + 1)
    <3> SUFFICES ASSUME NEW k \in DOMAIN z
                 PROVE  \E a \in 1 .. i + 1 : /\ IsAnswer(w[a]) /\ w[a].id = z[k].id
                                              /\ w[a].index \notin DOMAIN t.results
      BY <2>6, <2>z DEF Settled
    <3>1. CASE k \in DOMAIN q
      BY <1>2, <2>7, <2>10, <3>1, RowAppend
    <3>2. CASE k = Len(q) + 1
      <4>1. z[k] = x /\ p \in 1 .. i + 1
        BY <2>7, <3>2, RowAppend
      <4> QED
        BY <1>2, <2>4, <2>5, <4>1
    <3> QED
      BY <2>7, <3>1, <3>2, RowAppend
  <2> QED
    BY <1>1, <1>3, <1>4, <2>6, <2>z, <2>9, <2>11, <2>12 DEF Tally
<1> QED
  BY <1>5, <1>6

LEMMA EventTally ==
  ASSUME NEW s, NEW w, Paired(w), Legible(w), NEW i \in Nat, i + 1 \in DOMAIN w, Tally(s, w, i),
         NEW e \in WireEvents, e = w[i + 1], NEW t, t = handleEvent(s, e)
  PROVE  Tally(t, w, i + 1)
<1>1. s \in Reader /\ Apt(e)
  BY AllApt DEF Tally
<1>a. t = s => t \in Reader /\ KeepsTools(s, t)
  BY <1>1 DEF KeepsTools
<1>2. CASE ~IsBlock(e)
  BY <1>1, <1>2, Idle, TallyKept DEF Idles
<1>3. CASE IsStart(e) /\ e.block \in {"text", "thinking"}
  BY <1>1, <1>3, TalkStarted, TallyKept DEF StartsTalk
<1>4. CASE IsStart(e) /\ e.block = "tool_use"
  BY <1>1, <1>4, UseStarted, TallyUse
<1>5. CASE IsStart(e) /\ e.block = "tool_result"
  BY <1>1, <1>5, AnswerStarted, TallyAnswer
<1>6. CASE Speaks(e, "text")
  BY <1>1, <1>6, TextSaid, TallyKept DEF SaysText
<1>7. CASE Speaks(e, "thinking")
  <2>1. SaysThinking(s, e, t)
    BY <1>1, <1>7, ThinkingSaid
  <2>2. t \in Reader /\ KeepsTools(s, t)
    BY <1>a, <2>1 DEF SaysThinking
  <2> QED
    BY <2>2, TallyKept
<1>8. CASE Speaks(e, "tool_use")
  BY <1>1, <1>8, UseFilled, TallyFillsUse
<1>9. CASE Speaks(e, "tool_result")
  BY <1>1, <1>9, AnswerFilled, TallyFillsAnswer
<1>10. CASE IsStop(e)
  <2>1. CASE e.index \in DOMAIN s.inflight
    BY <1>1, <1>10, <2>1, UseStopped, TallyStopsUse
  <2>2. CASE e.index \notin DOMAIN s.inflight /\ e.index \in DOMAIN s.results
    BY <1>1, <1>10, <2>2, AnswerStopped, TallyStopsAnswer
  <2>3. CASE e.index \notin DOMAIN s.inflight /\ e.index \notin DOMAIN s.results
    <3>1. StopsTalk(s, e, t)
      BY <1>1, <1>10, <2>3, TalkStopped
    <3>2. t \in Reader /\ KeepsTools(s, t)
      BY <1>a, <3>1 DEF StopsTalk, ShutsText, ShutsThinking
    <3> QED
      BY <3>2, TallyKept
  <2> QED
    BY <2>1, <2>2, <2>3
<1> QED
  BY <1>2, <1>3, <1>4, <1>5, <1>6, <1>7, <1>8, <1>9, <1>10, EventCases

LEMMA RunTally ==
  ASSUME NEW w, Paired(w), Legible(w), NEW P, NEW h, IsRun(h, w, P), NEW i \in 0 .. Len(w)
  PROVE  Tally(h[i], w, i)
<1> DEFINE S == {n \in Nat : n <= Len(w) => Tally(h[n], w, n)}
<1>1. Len(w) \in Nat /\ DOMAIN w = 1 .. Len(w)
  BY DEF Legible
<1>2. 0 \in S
  <2>1. h[0] = NewReassembler
    BY DEF IsRun
  <2>2. PICK s \in Reader : s = NewReassembler
    BY NewReader
  <2>3. DOMAIN s.inflight = {} /\ DOMAIN s.results = {} /\ DOMAIN s.tools = {} /\ DOMAIN s.executions = {}
    BY <2>2 DEF NewReassembler
  <2>4. Tally(s, w, 0)
    BY <2>3 DEF Tally, UsesStem, AnswersStem, OwnCalls, OwnExecs, Settled, Apart
  <2> QED
    BY <2>1, <2>2, <2>4
<1>3. ASSUME NEW n \in S
      PROVE  n + 1 \in S
  <2> SUFFICES ASSUME n + 1 <= Len(w)
               PROVE  Tally(h[n + 1], w, n + 1)
    OBVIOUS
  <2>1. n \in Nat /\ n + 1 \in DOMAIN w /\ n <= Len(w) /\ (n + 1) - 1 = n
    BY <1>1
  <2>2. h[n + 1] = Step(w, P, h[n], n + 1)
    BY <1>1, <2>1 DEF IsRun
  <2>3. PICK s : s = h[n] /\ Tally(s, w, n)
    BY <2>1
  <2>4. CASE n + 1 \in P
    <3>1. PICK e \in WireEvents : e = w[n + 1]
      BY <2>1 DEF Legible
    <3>2. h[n + 1] = handleEvent(s, e)
      BY <2>2, <2>3, <2>4, <3>1 DEF Step
    <3> QED
      BY <2>1, <2>3, <3>1, <3>2, EventTally
  <2>5. CASE n + 1 \notin P
    <3>1. h[n + 1] = s
      BY <2>2, <2>3, <2>5 DEF Step
    <3>2. s \in Reader /\ KeepsTools(s, s)
      BY <2>3 DEF Tally, KeepsTools
    <3> QED
      BY <2>1, <2>3, <3>1, <3>2, TallyKept
  <2> QED
    BY <2>4, <2>5
<1>4. S = Nat
  <2>1. S \subseteq Nat
    OBVIOUS
  <2> HIDE DEF S
  <2> QED
    BY <1>2, <1>3, <2>1, SetInduction
<1> QED
  BY <1>1, <1>4

(* What is left open at the end.                                           *)
LEMMA EndsTally ==
  ASSUME NEW s, NEW w, Paired(w), NEW i \in Nat, i <= Len(w), Tally(s, w, i),
         NEW f, NEW to, NEW ro, NEW left, NEW execs, NEW l, Ends(s, f, to, ro, left, execs, l)
  PROVE  OwnExecs(f.executions) /\ Apart(f.executions)
<1>1. /\ s \in Reader /\ s.inflight \in Blocks(OpenUse) /\ s.results \in Blocks(OpenAnswer)
      /\ s.tools \in Seq(DoneCall) /\ s.executions \in Seq(DoneExec)
  BY ReaderFields DEF Tally
<1>2. LeftCalls(s, to, left) /\ LeftResults(s, f.tools, ro, execs)
  BY DEF Ends
<1>3. PICK a \in Seq(DoneCall), b \in Seq(DoneCall) : a = s.tools /\ b = left
  BY <1>1, <1>2 DEF LeftCalls
<1>4. f.tools = a \o b /\ OwnCalls(a)
  BY <1>3 DEF Ends, Tally
<1>5. OwnCalls(b)
  <2> SUFFICES ASSUME NEW k \in DOMAIN b
               PROVE  Own(b[k])
    BY DEF OwnCalls
  <2>1. to[k] \in DOMAIN s.inflight /\ b[k] = called(s.inflight[to[k]])
    BY <1>2, <1>3 DEF LeftCalls
  <2>2. PICK o \in OpenUse : o = s.inflight[to[k]]
    BY <1>1, <2>1, BlockFacts
  <2>3. s.inflight[to[k]].name = s.inflight[to[k]].id /\ Stems(o.id, o.params, w, to[k], i, "tool_use")
    BY <2>1, <2>2 DEF Tally, UsesStem
  <2>4. o.name = o.id /\ o.params \in {<<>>, <<o.id>>}
    BY <2>2, <2>3 DEF Stems
  <2> QED
    BY <2>1, <2>2, <2>4, CallOwn
<1>6. a \o b \in Seq(DoneCall) /\ OwnCalls(a \o b)
  <2>1. IsConcat(a, b, a \o b, DoneCall)
    BY ConcatElements
  <2>2. ASSUME NEW k \in DOMAIN (a \o b)
        PROVE  Own((a \o b)[k])
    <3>1. CASE k \in DOMAIN a
      BY <1>4, <2>1, <3>1 DEF OwnCalls, IsConcat
    <3>2. CASE k \notin DOMAIN a
      <4>1. k - Len(a) \in DOMAIN b /\ k = Len(a) + (k - Len(a))
        BY ONLY <2>1, <3>2, k \in DOMAIN (a \o b), a \in Seq(DoneCall), b \in Seq(DoneCall)
      <4>2. PICK j \in DOMAIN b : k = Len(a) + j
        BY <4>1
      <4>3. (a \o b)[k] = b[j]
        BY <2>1, <4>2 DEF IsConcat
      <4> QED
        BY <1>5, <4>3 DEF OwnCalls
    <3> QED
      BY <3>1, <3>2
  <2> QED
    BY <2>2 DEF OwnCalls
<1>7. PICK q \in Seq(DoneExec), x \in Seq(DoneExec) : q = s.executions /\ x = execs
  BY <1>1, <1>2 DEF LeftResults
<1>8. ASSUME NEW k \in DOMAIN x
      PROVE  /\ Own(x[k]) /\ x[k].result \in {<<>>, <<x[k].id>>}
             /\ ro[k] \in DOMAIN s.results
             /\ \E p \in 1 .. i : IsAnswer(w[p]) /\ w[p].index = ro[k] /\ w[p].id = x[k].id
  <2>1. k \in DOMAIN ro /\ ro[k] \in DOMAIN s.results /\ Answers(a \o b, s.results[ro[k]], x[k])
    BY <1>2, <1>4, <1>7 DEF LeftResults
  <2>2. PICK o \in OpenAnswer : o = s.results[ro[k]]
    BY <1>1, <2>1, BlockFacts
  <2>3. Stems(o.id, o.text, w, ro[k], i, "tool_result")
    BY <2>1, <2>2 DEF Tally, AnswersStem
  <2>4. PICK p \in 1 .. i : IsAnswer(w[p]) /\ w[p].index = ro[k] /\ w[p].id = o.id
    BY <2>3 DEF Stems, IsAnswer
  <2>5. o.text \in {<<>>, <<o.id>>}
    BY <2>3 DEF Stems
  <2>6. PICK y \in DoneExec : y = x[k]
    OBVIOUS
  <2>7. Own(y) /\ y.result \in {<<>>, <<y.id>>} /\ y.id = o.id
    BY <1>6, <2>1, <2>2, <2>5, <2>6, AnswerOwn
  <2> QED
    BY <2>1, <2>4, <2>6, <2>7
<1>9. \A p \in 1 .. i : p \in DOMAIN w
  BY DEF Paired
<1>10. ASSUME NEW j \in DOMAIN x, NEW k \in DOMAIN x, j # k
       PROVE  x[j].id # x[k].id
  <2>1. PICK c \in 1 .. i : IsAnswer(w[c]) /\ w[c].index = ro[j] /\ w[c].id = x[j].id
    BY <1>8
  <2>2. PICK d \in 1 .. i : IsAnswer(w[d]) /\ w[d].index = ro[k] /\ w[d].id = x[k].id
    BY <1>8
  <2>3. ro[j] # ro[k]
    BY <1>2, <1>7, <1>10 DEF Ends, Order, LeftResults
  <2>4. c # d
    BY <2>1, <2>2, <2>3
  <2> QED
    BY <1>9, <2>1, <2>2, <2>4 DEF Paired
<1>11. ASSUME NEW j \in DOMAIN q, NEW k \in DOMAIN x
       PROVE  q[j].id # x[k].id
  <2>1. PICK c \in 1 .. i : IsAnswer(w[c]) /\ w[c].id = q[j].id /\ w[c].index \notin DOMAIN s.results
    BY <1>7 DEF Tally, Settled
  <2>2. PICK d \in 1 .. i : IsAnswer(w[d]) /\ w[d].index = ro[k] /\ w[d].id = x[k].id
    BY <1>8
  <2>3. c # d
    BY <1>8, <2>1, <2>2
  <2> QED
    BY <1>9, <2>1, <2>2, <2>3 DEF Paired
<1>12. PICK z : z = q \o x
  OBVIOUS
<1>13. f.executions = z
  BY <1>7, <1>12 DEF Ends
<1>14. IsConcat(q, x, z, DoneExec)
  BY <1>12, ConcatElements
<1>15. OwnExecs(q) /\ Apart(q)
  BY <1>7 DEF Tally
<1>16. ASSUME NEW k \in DOMAIN z
       PROVE  \/ k \in DOMAIN q /\ z[k] = q[k]
              \/ \E j \in DOMAIN x : k = Len(q) + j /\ z[k] = x[j]
  <2>1. k \in 1 .. Len(q) + Len(x) /\ Len(q) \in Nat /\ Len(x) \in Nat
        /\ DOMAIN q = 1 .. Len(q) /\ DOMAIN x = 1 .. Len(x)
    BY <1>12
  <2>2. CASE k <= Len(q)
    BY <1>14, <2>1, <2>2 DEF IsConcat
  <2>3. CASE k > Len(q)
    <3>1. PICK j \in DOMAIN x : k = Len(q) + j
      <4>1. k - Len(q) \in DOMAIN x /\ k = Len(q) + (k - Len(q))
        BY <2>1, <2>3
      <4> QED
        BY <4>1
    <3> QED
      BY <1>14, <2>1, <3>1 DEF IsConcat
  <2> QED
    BY <2>1, <2>2, <2>3
<1>17. OwnExecs(z)
  BY <1>8, <1>15, <1>16 DEF OwnExecs
<1>18. Apart(z)
  <2> SUFFICES ASSUME NEW j \in DOMAIN z, NEW k \in DOMAIN z, j # k
               PROVE  z[j].id # z[k].id
    BY DEF Apart
  <2> QED
    BY <1>10, <1>11, <1>15, <1>16 DEF Apart
<1> QED
  BY <1>13, <1>17, <1>18

(* Where a call id never repeats in a turn: whatever fails, is lost or is  *)
(* cut off, and in whatever order flushAll walks the blocks left open, an  *)
(* execution has the input and the result of its own call or none, and no  *)
(* call is executed twice.  (Run roundtrip_reused shows that the theorem   *)
(* needs its premise.)                                                     *)
THEOREM ResultsStayWithTheirCalls ==
  ASSUME UniqueIDs
  PROVE  Spec => []ResultsMatchCalls
<1>1. TurnInv => ResultsMatchCalls
  <2> SUFFICES ASSUME TurnInv
               PROVE  ResultsMatchCalls
    OBVIOUS
  <2>1. CASE r = NewReassembler
    BY <2>1 DEF ResultsMatchCalls, NewReassembler
  <2>2. CASE \E h : IsRun(h, wire, kept) /\ r \in Finalized(h[Len(wire)])
    <3>1. PICK h : IsRun(h, wire, kept) /\ r \in Finalized(h[Len(wire)])
      BY <2>2
    <3>2. Legible(wire) /\ Paired(wire) /\ Len(wire) \in Nat
      BY WireLegible, WirePaired DEF TurnInv, AInv, ATypes
    <3>3. PICK s : s = h[Len(wire)] /\ Tally(s, wire, Len(wire))
      BY <3>1, <3>2, RunTally
    <3>4. PICK to, ro, left, execs, l : Ends(s, r, to, ro, left, execs, l)
      BY <3>1, <3>3, ReaderEnds DEF Tally
    <3>5. OwnExecs(r.executions) /\ Apart(r.executions)
      BY <3>2, <3>3, <3>4, EndsTally
    <3> QED
      BY <3>5 DEF OwnExecs, Own, Apart, ResultsMatchCalls, EmptyText
  <2> QED
    BY <2>1, <2>2 DEF TurnInv, ReadBack
<1> QED
  BY <1>1, TurnInvariant, PTL

--------------------------------------------------------------------------------
(* A turn in which nothing fails.  What the reader returns after a part of *)
(* the wire is a beginning of the timeline of the turn; a beginning of a   *)
(* beginning is one.                                                       *)
Cut(l, T) ==
  /\ Len(l) <= Len(T)
  /\ \A i \in 1 .. Len(l) - 1 : l[i] = T[i]
  /\ Len(l) > 0 => BeginsLike(l[Len(l)], T[Len(l)])

LEMMA PrefixTrans ==
  ASSUME NEW C, NEW x \in Seq(C), NEW y \in Seq(C), NEW z \in Seq(C), IsPrefix(x, y), IsPrefix(y, z)
  PROVE  IsPrefix(x, z)
<1>1. /\ Len(x) \in Nat /\ Len(y) \in Nat /\ Len(z) \in Nat
      /\ Len(x) <= Len(y) /\ Len(y) <= Len(z) /\ Len(x) <= Len(z)
  BY DEF IsPrefix
<1>2. ASSUME NEW k \in 1 .. Len(x)
      PROVE  x[k] = z[k]
  <2>1. x[k] = y[k]
    <3>1. SubSeq(x, 1, Len(x))[k] = SubSeq(y, 1, Len(x))[k]
      BY DEF IsPrefix
    <3> QED
      BY <1>1, <3>1
  <2>2. k \in 1 .. Len(y) /\ SubSeq(y, 1, Len(y))[k] = SubSeq(z, 1, Len(y))[k]
    BY <1>1 DEF IsPrefix
  <2> QED
    BY <1>1, <2>1, <2>2
<1>3. SubSeq(x, 1, Len(x)) = SubSeq(z, 1, Len(x))
  BY <1>1, <1>2
<1> QED
  BY <1>1, <1>3 DEF IsPrefix

LEMMA BeginsTrans ==
  ASSUME NEW a \in TurnItem, NEW b \in TurnItem, NEW c \in TurnItem, BeginsLike(a, b), BeginsLike(b, c)
  PROVE  BeginsLike(a, c)
<1>1. a.kind = b.kind /\ b.kind = c.kind
  BY DEF BeginsLike
<1>2. CASE a.kind = "tool"
  <2>1. /\ a.exec \in DoneExec /\ b.exec \in DoneExec /\ c.exec \in DoneExec
    BY <1>1, <1>2 DEF TurnItem
  <2>2. PICK x \in Seq(Tags), y \in Seq(Tags), z \in Seq(Tags) :
          x = a.exec.result /\ y = b.exec.result /\ z = c.exec.result
    BY <2>1 DEF DoneExec
  <2>3. IsPrefix(x, y) /\ IsPrefix(y, z)
    BY <1>1, <1>2, <2>2 DEF BeginsLike
  <2>4. IsPrefix(x, z)
    BY <2>3, PrefixTrans
  <2> QED
    BY <1>1, <1>2, <2>2, <2>4 DEF BeginsLike
<1>3. CASE a.kind # "tool"
  <2>1. PICK x \in Seq(Nat), y \in Seq(Nat), z \in Seq(Nat) :
          x = a.text /\ y = b.text /\ z = c.text
    BY <1>1, <1>3 DEF TurnItem
  <2>2. IsPrefix(x, y) /\ IsPrefix(y, z)
    BY <1>1, <1>3, <2>1 DEF BeginsLike
  <2>3. IsPrefix(x, z)
    BY <2>2, PrefixTrans
  <2> QED
    BY <1>1, <1>3, <2>1, <2>3 DEF BeginsLike
<1> QED
  BY <1>2, <1>3

LEMMA BeginsSelf ==
  ASSUME NEW a \in TurnItem
  PROVE  BeginsLike(a, a)
<1>1. CASE a.kind = "tool"
  <2>1. a.exec.result \in Seq(Tags)
    BY <1>1 DEF TurnItem, DoneExec
  <2> QED
    BY <1>1, <2>1, PrefixSelf DEF BeginsLike
<1>2. CASE a.kind # "tool"
  <2>1. a.text \in Seq(Nat)
    BY <1>2 DEF TurnItem
  <2> QED
    BY <1>2, <2>1, PrefixSelf DEF BeginsLike
<1> QED
  BY <1>1, <1>2

LEMMA CutTrans ==
  ASSUME NEW a \in Seq(TurnItem), NEW b \in Seq(TurnItem), NEW c \in Seq(TurnItem), Cut(a, b), Cut(b, c)
  PROVE  Cut(a, c)
<1>1. /\ Len(a) \in Nat /\ Len(b) \in Nat /\ Len(c) \in Nat
      /\ Len(a) <= Len(b) /\ Len(b) <= Len(c) /\ Len(a) <= Len(c)
  BY DEF Cut
<1>2. ASSUME NEW i \in 1 .. Len(a) - 1
      PROVE  a[i] = c[i]
  BY <1>1 DEF Cut
<1>3. ASSUME Len(a) > 0
      PROVE  BeginsLike(a[Len(a)], c[Len(a)])
  <2>1. PICK n \in Nat : n = Len(a) /\ n > 0 /\ n <= Len(b) /\ n <= Len(c)
    BY <1>1, <1>3
  <2>2. a[n] \in TurnItem /\ b[n] \in TurnItem /\ c[n] \in TurnItem
    BY <2>1
  <2>3. BeginsLike(a[n], b[n])
    BY <2>1 DEF Cut
  <2>4. CASE n < Len(b)
    <3>1. b[n] = c[n]
      BY <1>1, <2>1, <2>4 DEF Cut
    <3> QED
      BY <2>1, <2>3, <3>1
  <2>5. CASE n = Len(b)
    <3>1. BeginsLike(b[n], c[n])
      BY <1>1, <2>1, <2>5 DEF Cut
    <3> QED
      BY <2>1, <2>2, <2>3, <3>1, BeginsTrans
  <2> QED
    BY <1>1, <2>1, <2>4, <2>5
<1> QED
  BY <1>1, <1>2, <1>3 DEF Cut

LEMMA CutJoin ==
  ASSUME NEW a \in Seq(TurnItem), NEW b \in Seq(TurnItem), NEW c, c = a \o b
  PROVE  Cut(a, c)
<1>1. IsConcat(a, b, c, TurnItem)
  BY ConcatElements
<1>2. Len(a) \in Nat /\ Len(b) \in Nat /\ Len(c) = Len(a) + Len(b)
  OBVIOUS
<1>3. ASSUME Len(a) > 0
      PROVE  BeginsLike(a[Len(a)], c[Len(a)])
  <2>1. a[Len(a)] \in TurnItem /\ c[Len(a)] = a[Len(a)]
    BY <1>1, <1>2, <1>3 DEF IsConcat
  <2> QED
    BY <2>1, BeginsSelf
<1> QED
  BY <1>1, <1>2, <1>3 DEF Cut, IsConcat

(* A last item that is the beginning of the one said.                      *)
LEMMA CutLast ==
  ASSUME NEW a \in Seq(TurnItem), NEW x \in TurnItem, NEW y \in TurnItem, BeginsLike(x, y),
         NEW b \in Seq(TurnItem), NEW l, l = Append(a, x), NEW c, c = Append(a, y) \o b
  PROVE  Cut(l, c)
<1>0. Append(a, y) \in Seq(TurnItem)
  BY ONLY a \in Seq(TurnItem), y \in TurnItem
<1>1. PICK d \in Seq(TurnItem) : d = Append(a, y)
  BY <1>0
<1>2. Cut(d, c)
  BY <1>1, CutJoin
<1>3. /\ Len(a) \in Nat /\ Len(l) = Len(a) + 1 /\ Len(d) = Len(a) + 1
      /\ l[Len(a) + 1] = x /\ d[Len(a) + 1] = y
      /\ \A i \in 1 .. Len(a) : l[i] = d[i]
  BY <1>1
<1>4. Cut(l, d)
  BY <1>3 DEF Cut
<1>5. l \in Seq(TurnItem) /\ c \in Seq(TurnItem)
  BY <1>1
<1> QED
  BY <1>2, <1>4, <1>5, CutTrans

LEMMA SegmentType ==
  ASSUME NEW kind \in {"text", "thinking"}, NEW x \in Seq(Nat)
  PROVE  Segment(kind, x) \in Seq(TurnItem)
<1>1. Item(kind, x) \in TurnItem
  BY DEF Item, TurnItem
<1> QED
  BY <1>1 DEF Segment, EmptyText, Item

LEMMA SegmentIs ==
  ASSUME NEW kind, NEW x, NEW a \in Seq(TurnItem)
  PROVE  /\ x = <<>> => a \o Segment(kind, x) = a
         /\ x # <<>> => a \o Segment(kind, x) = Append(a, Item(kind, x))
BY DEF Segment, EmptyText, Item

LEMMA JoinItems ==
  ASSUME NEW a \in Seq(TurnItem), NEW b \in Seq(TurnItem), NEW c \in Seq(TurnItem)
  PROVE  (a \o b) \o c = a \o (b \o c) /\ a \o b \in Seq(TurnItem)
BY JoinThree

ThreeJoin(a, b, c) == (a \o b) \o c = a \o (b \o c) /\ a \o b \in Seq(TurnItem)

LEMMA JoinInTurn ==
  ASSUME NEW a \in Seq(TurnItem), NEW b \in Seq(TurnItem), NEW c \in Seq(TurnItem)
  PROVE  ThreeJoin(a, b, c)
BY JoinItems DEF ThreeJoin

(* The open run as the last item.                                          *)
LEMMA CutSegment ==
  ASSUME NEW a \in Seq(TurnItem), NEW kind \in {"text", "thinking"}, NEW x \in Seq(Nat),
         NEW y \in Seq(Nat), IsPrefix(x, y), NEW b \in Seq(TurnItem),
         NEW c, c = (a \o Segment(kind, y)) \o b
  PROVE  Cut(a \o Segment(kind, x), c)
<1>1. CASE x = <<>>
  <2>1. PICK g \in Seq(TurnItem) : g = Segment(kind, y)
    BY SegmentType
  <2>2. c = (a \o g) \o b
    BY <2>1
  <2>j. ThreeJoin(a, g, b)
    BY ONLY a \in Seq(TurnItem), g \in Seq(TurnItem), b \in Seq(TurnItem), JoinInTurn
  <2>3. (a \o g) \o b = a \o (g \o b)
    BY ONLY <2>j DEF ThreeJoin
  <2>i. g \o b \in Seq(TurnItem)
    BY ONLY g \in Seq(TurnItem), b \in Seq(TurnItem)
  <2>h. PICK h \in Seq(TurnItem) : h = g \o b
    BY ONLY <2>i
  <2>4. c = a \o h
    BY ONLY <2>2, <2>3, <2>h
  <2>5. Cut(a, c)
    BY ONLY a \in Seq(TurnItem), h \in Seq(TurnItem), <2>4, CutJoin
  <2> QED
    BY <1>1, <2>5, SegmentIs
<1>2. CASE x # <<>>
  <2>1. Len(x) \in Nat /\ Len(y) \in Nat /\ Len(x) <= Len(y) /\ y # <<>>
    BY <1>2 DEF IsPrefix
  <2>2. Item(kind, x) \in TurnItem /\ Item(kind, y) \in TurnItem
    BY DEF Item, TurnItem
  <2>3. BeginsLike(Item(kind, x), Item(kind, y))
    BY DEF BeginsLike, Item
  <2>4. a \o Segment(kind, x) = Append(a, Item(kind, x)) /\ c = Append(a, Item(kind, y)) \o b
    BY <1>2, <2>1, SegmentIs
  <2> QED
    BY <2>2, <2>3, <2>4, CutLast
<1> QED
  BY <1>1, <1>2

(* What the reader has closed so far, and what it has open beside it.      *)
Pages == [names : NameRow, calls : CallRow, execs : ExecRow, items : ItemRow,
          text : Words, thinking : Words]

Keeps(s, p) ==
  /\ s \in Reader /\ p \in Pages
  /\ s.toolNames = p.names /\ s.tools = p.calls /\ s.executions = p.execs
  /\ s.timeline = p.items /\ s.allText = p.text /\ s.allThinking = p.thinking

Toolless(s) == DOMAIN s.inflight = {} /\ DOMAIN s.results = {}

Hushed(s) == s.curText = <<>> /\ s.curThinking = <<>>

Rests(s, p) == Keeps(s, p) /\ Hushed(s) /\ Toolless(s)

Thinks(s, p, y, j) ==
  /\ Keeps(s, p) /\ Toolless(s) /\ s.curText = <<>> /\ s.curThinking = y
  /\ s.thinkingIndex = j /\ s.textIndex = NoBlock

Talks(s, p, y, j) ==
  /\ Keeps(s, p) /\ Toolless(s) /\ s.curText = y /\ s.curThinking = <<>>
  /\ s.textIndex = j

Uses(s, p, j, u) ==
  /\ Keeps(s, p) /\ Hushed(s) /\ DOMAIN s.results = {}
  /\ DOMAIN s.inflight = {j}
  /\ s.inflight[j].name = u.name /\ s.inflight[j].id = u.id /\ s.inflight[j].params = u.params

Gives(s, p, j, id, x) ==
  /\ Keeps(s, p) /\ Hushed(s) /\ DOMAIN s.inflight = {}
  /\ DOMAIN s.results = {j} /\ s.results[j].id = id /\ s.results[j].text = x

(* The page after a block more.                                            *)
Thought(p, y) == [p EXCEPT !.items = @ \o Segment("thinking", y), !.thinking = @ \o y]
Spoken(p, y)  == [p EXCEPT !.items = @ \o Segment("text", y), !.text = @ \o y]
Headed(p, n)  == [p EXCEPT !.names = Append(@, n)]
Ordered(p, c) == [p EXCEPT !.calls = Append(@, c)]
Served(p, x)  == [p EXCEPT !.execs = Append(@, x), !.items = Append(@, ToolMark(x))]

LEMMA PageFields ==
  ASSUME NEW p \in Pages
  PROVE  /\ p.names \in Seq(Tags) /\ p.calls \in Seq(DoneCall) /\ p.execs \in Seq(DoneExec)
         /\ p.items \in Seq(TurnItem) /\ p.text \in Seq(Nat) /\ p.thinking \in Seq(Nat)
BY DEF Pages, NameRow, CallRow, ExecRow, ItemRow, Words

IsThought(p, y, q) ==
  /\ q \in Pages /\ q.names = p.names /\ q.calls = p.calls /\ q.execs = p.execs
  /\ q.text = p.text /\ q.thinking = p.thinking \o y
  /\ q.items = p.items \o Segment("thinking", y)

LEMMA ThoughtPage ==
  ASSUME NEW p \in Pages, NEW y \in Seq(Nat), NEW q, q = Thought(p, y)
  PROVE  IsThought(p, y, q)
<1>1. p.items \o Segment("thinking", y) \in ItemRow
  BY PageFields, SegmentType, JoinItems DEF ItemRow
<1>2. p.thinking \o y \in Words
  BY PageFields DEF Words
<1> QED
  BY <1>1, <1>2 DEF Thought, IsThought, Pages

IsSpoken(p, y, q) ==
  /\ q \in Pages /\ q.names = p.names /\ q.calls = p.calls /\ q.execs = p.execs
  /\ q.text = p.text \o y /\ q.thinking = p.thinking
  /\ q.items = p.items \o Segment("text", y)

LEMMA SpokenPage ==
  ASSUME NEW p \in Pages, NEW y \in Seq(Nat), NEW q, q = Spoken(p, y)
  PROVE  IsSpoken(p, y, q)
<1>1. p.items \o Segment("text", y) \in ItemRow
  BY PageFields, SegmentType, JoinItems DEF ItemRow
<1>2. p.text \o y \in Words
  BY PageFields DEF Words
<1> QED
  BY <1>1, <1>2 DEF Spoken, IsSpoken, Pages

IsHeaded(p, n, q) ==
  /\ q \in Pages /\ q.names = Append(p.names, n) /\ q.calls = p.calls /\ q.execs = p.execs
  /\ q.text = p.text /\ q.thinking = p.thinking /\ q.items = p.items

LEMMA HeadedPage ==
  ASSUME NEW p \in Pages, NEW n \in Tags, NEW q, q = Headed(p, n)
  PROVE  IsHeaded(p, n, q)
<1>1. Append(p.names, n) \in NameRow
  BY PageFields DEF NameRow
<1> QED
  BY <1>1 DEF Headed, IsHeaded, Pages

IsOrdered(p, c, q) ==
  /\ q \in Pages /\ q.names = p.names /\ q.calls = Append(p.calls, c) /\ q.execs = p.execs
  /\ q.text = p.text /\ q.thinking = p.thinking /\ q.items = p.items

LEMMA OrderedPage ==
  ASSUME NEW p \in Pages, NEW c \in DoneCall, NEW q, q = Ordered(p, c)
  PROVE  IsOrdered(p, c, q)
<1>1. Append(p.calls, c) \in CallRow
  BY PageFields DEF CallRow
<1> QED
  BY <1>1 DEF Ordered, IsOrdered, Pages

LEMMA MarkType ==
  ASSUME NEW x \in DoneExec
  PROVE  ToolMark(x) \in TurnItem
BY DEF ToolMark, TurnItem

IsServed(p, x, q) ==
  /\ q \in Pages /\ q.names = p.names /\ q.calls = p.calls /\ q.execs = Append(p.execs, x)
  /\ q.text = p.text /\ q.thinking = p.thinking /\ q.items = Append(p.items, ToolMark(x))

LEMMA ServedPage ==
  ASSUME NEW p \in Pages, NEW x \in DoneExec, NEW q, q = Served(p, x)
  PROVE  IsServed(p, x, q)
<1>1. Append(p.execs, x) \in ExecRow
  BY PageFields DEF ExecRow
<1>2. Append(p.items, ToolMark(x)) \in ItemRow
  BY PageFields, MarkType DEF ItemRow
<1> QED
  BY <1>1, <1>2 DEF Served, IsServed, Pages

(* The events of a text or thinking block, one by one.                     *)
LEMMA TalkStart ==
  ASSUME NEW j \in Nat, NEW f \in {"text", "thinking"}
  PROVE  /\ BlockStart(j, f) \in WireEvents /\ IsStart(BlockStart(j, f))
         /\ BlockStart(j, f).index = j /\ BlockStart(j, f).block = f
BY DEF BlockStart, WireEvents, IsStart

LEMMA TalkDelta ==
  ASSUME NEW j \in Nat, NEW f \in {"text", "thinking"}, NEW x \in Seq(Nat)
  PROVE  /\ BlockDelta(j, f, x) \in WireEvents /\ Speaks(BlockDelta(j, f, x), f)
         /\ Apt(BlockDelta(j, f, x)) /\ BlockDelta(j, f, x).index = j
         /\ BlockDelta(j, f, x).text = x
<1>1. /\ BlockDelta(j, f, x).block = f /\ BlockDelta(j, f, x).text = x
      /\ BlockDelta(j, f, x).index = j
  BY DEF BlockDelta
<1> QED
  BY <1>1, BlockEvents DEF Speaks, Apt

LEMMA ThinkingBegins ==
  ASSUME NEW s, NEW p, Rests(s, p), NEW j \in Nat,
         NEW t, t = handleEvent(s, BlockStart(j, "thinking"))
  PROVE  Thinks(t, p, <<>>, j)
<1>1. PICK e \in WireEvents : e = BlockStart(j, "thinking") /\ IsStart(e) /\ e.index = j /\ e.block = "thinking"
  BY TalkStart
<1>2. s \in Reader
  BY DEF Rests, Keeps
<1>3. StartsTalk(s, e, t)
  BY <1>1, <1>2, TalkStarted
<1>4. s.allText \in Seq(Nat) /\ s.allThinking \in Seq(Nat) /\ s.curText = <<>> /\ s.curThinking = <<>>
  BY <1>2, ReaderFields DEF Rests, Hushed
<1>5. s.allText \o s.curText = s.allText /\ s.allThinking \o s.curThinking = s.allThinking
  BY <1>4
<1>6. /\ t \in Reader /\ KeepsTools(s, t) /\ t.textIndex = NoBlock /\ t.thinkingIndex = j
      /\ t.curText = <<>> /\ t.curThinking = <<>> /\ t.timeline = s.timeline
      /\ t.allText = s.allText /\ t.allThinking = s.allThinking
  BY <1>1, <1>3, <1>4, <1>5 DEF StartsTalk, Quiets, Flushes
<1> QED
  BY <1>6 DEF Rests, Thinks, Keeps, Toolless, KeepsTools

LEMMA TextBegins ==
  ASSUME NEW s, NEW p, Rests(s, p), NEW j \in Nat,
         NEW t, t = handleEvent(s, BlockStart(j, "text"))
  PROVE  Talks(t, p, <<>>, j)
<1>1. PICK e \in WireEvents : e = BlockStart(j, "text") /\ IsStart(e) /\ e.index = j /\ e.block = "text"
  BY TalkStart
<1>2. s \in Reader
  BY DEF Rests, Keeps
<1>3. StartsTalk(s, e, t)
  BY <1>1, <1>2, TalkStarted
<1>4. s.allText \in Seq(Nat) /\ s.allThinking \in Seq(Nat) /\ s.curText = <<>> /\ s.curThinking = <<>>
  BY <1>2, ReaderFields DEF Rests, Hushed
<1>5. s.allText \o s.curText = s.allText /\ s.allThinking \o s.curThinking = s.allThinking
  BY <1>4
<1>6. /\ t \in Reader /\ KeepsTools(s, t) /\ t.textIndex = j
      /\ t.curText = <<>> /\ t.curThinking = <<>> /\ t.timeline = s.timeline
      /\ t.allText = s.allText /\ t.allThinking = s.allThinking
  BY <1>1, <1>3, <1>4, <1>5 DEF StartsTalk, Quiets, Flushes
<1> QED
  BY <1>6 DEF Rests, Talks, Keeps, Toolless, KeepsTools

LEMMA ThinkingGoesOn ==
  ASSUME NEW s, NEW p, NEW y, NEW j \in Nat, Thinks(s, p, y, j), NEW x \in Seq(Nat),
         NEW t, t = handleEvent(s, BlockDelta(j, "thinking", x))
  PROVE  Thinks(t, p, y \o x, j)
<1>1. PICK e \in WireEvents : /\ e = BlockDelta(j, "thinking", x) /\ Speaks(e, "thinking")
                              /\ Apt(e) /\ e.index = j /\ e.text = x
  BY TalkDelta
<1>2. s \in Reader /\ e.index = s.thinkingIndex
  BY <1>1 DEF Thinks, Keeps
<1>3. SaysThinking(s, e, t)
  BY <1>1, <1>2, ThinkingSaid
<1>4. /\ t \in Reader /\ KeepsTools(s, t) /\ KeepsText(s, t)
      /\ t.timeline = s.timeline /\ t.thinkingIndex = s.thinkingIndex
      /\ t.allThinking = s.allThinking /\ t.curThinking = s.curThinking \o x
  BY <1>1, <1>2, <1>3 DEF SaysThinking
<1> QED
  BY <1>4 DEF Thinks, Keeps, Toolless, KeepsTools, KeepsText

LEMMA TextGoesOn ==
  ASSUME NEW s, NEW p, NEW y, NEW j \in Nat, Talks(s, p, y, j), NEW x \in Seq(Nat),
         NEW t, t = handleEvent(s, BlockDelta(j, "text", x))
  PROVE  Talks(t, p, y \o x, j)
<1>1. PICK e \in WireEvents : /\ e = BlockDelta(j, "text", x) /\ Speaks(e, "text")
                              /\ Apt(e) /\ e.index = j /\ e.text = x
  BY TalkDelta
<1>2. s \in Reader
  BY DEF Talks, Keeps
<1>3. SaysText(s, e, t)
  BY <1>1, <1>2, TextSaid
<1>4. /\ t \in Reader /\ KeepsTools(s, t) /\ KeepsThinking(s, t)
      /\ t.timeline = s.timeline /\ t.textIndex = s.textIndex
      /\ t.allText = s.allText /\ t.curText = s.curText \o x
  BY <1>1, <1>3 DEF SaysText
<1> QED
  BY <1>4 DEF Talks, Keeps, Toolless, KeepsTools, KeepsThinking

LEMMA ThinkingEnds ==
  ASSUME NEW s, NEW p, NEW y, NEW j \in Nat, Thinks(s, p, y, j),
         NEW t, t = handleEvent(s, BlockStop(j))
  PROVE  Rests(t, Thought(p, y))
<1>1. PICK e \in WireEvents : e = BlockStop(j) /\ IsStop(e) /\ e.index = j
  BY StopEvent
<1>2. /\ s \in Reader /\ p \in Pages /\ e.index = s.thinkingIndex /\ e.index # s.textIndex
      /\ e.index \notin DOMAIN s.inflight /\ e.index \notin DOMAIN s.results
      /\ s.curThinking = y /\ s.curText = <<>>
  BY <1>1 DEF Thinks, Keeps, Toolless, NoBlock
<1>3. StopsTalk(s, e, t)
  BY <1>1, <1>2, TalkStopped
<1>4. ShutsThinking(s, t)
  BY <1>2, <1>3 DEF StopsTalk
<1>5. y \in Seq(Nat) /\ s.timeline \in Seq(TurnItem)
  BY <1>2, ReaderFields
<1>6. t.timeline = s.timeline \o Segment("thinking", y)
  <2>1. CASE y = <<>>
    BY <1>2, <1>4, <1>5, <2>1, SegmentIs DEF ShutsThinking
  <2>2. CASE y # <<>>
    <3>1. t.timeline = Append(s.timeline, Item("thinking", y))
      BY <1>2, <1>4, <2>2 DEF ShutsThinking
    <3> QED
      BY <1>5, <2>2, <3>1, SegmentIs
  <2> QED
    BY <2>1, <2>2
<1>a. p \in Pages /\ y \in Seq(Nat)
  BY <1>2, <1>5
<1>7. PICK q : q = Thought(p, y)
  OBVIOUS
<1>8. IsThought(p, y, q)
  BY <1>a, <1>7, ThoughtPage
<1>9. /\ t \in Reader /\ KeepsTools(s, t) /\ KeepsText(s, t) /\ t.curThinking = <<>>
      /\ t.allThinking = s.allThinking \o y
  BY <1>2, <1>4 DEF ShutsThinking
<1>10. Keeps(t, q)
  BY <1>6, <1>8, <1>9 DEF IsThought, Thinks, Keeps, KeepsTools, KeepsText
<1>11. Hushed(t) /\ Toolless(t)
  BY <1>9 DEF Thinks, Hushed, Toolless, KeepsTools, KeepsText
<1> QED
  BY <1>7, <1>10, <1>11 DEF Rests

LEMMA TextEnds ==
  ASSUME NEW s, NEW p, NEW y, NEW j \in Nat, Talks(s, p, y, j),
         NEW t, t = handleEvent(s, BlockStop(j))
  PROVE  Rests(t, Spoken(p, y))
<1>1. PICK e \in WireEvents : e = BlockStop(j) /\ IsStop(e) /\ e.index = j
  BY StopEvent
<1>2. /\ s \in Reader /\ p \in Pages /\ e.index = s.textIndex
      /\ e.index \notin DOMAIN s.inflight /\ e.index \notin DOMAIN s.results
      /\ s.curText = y /\ s.curThinking = <<>>
  BY <1>1 DEF Talks, Keeps, Toolless
<1>3. StopsTalk(s, e, t)
  BY <1>1, <1>2, TalkStopped
<1>4. ShutsText(s, t)
  BY <1>2, <1>3 DEF StopsTalk
<1>5. y \in Seq(Nat) /\ s.timeline \in Seq(TurnItem)
  BY <1>2, ReaderFields
<1>6. t.timeline = s.timeline \o Segment("text", y)
  <2>1. CASE y = <<>>
    BY <1>2, <1>4, <1>5, <2>1, SegmentIs DEF ShutsText
  <2>2. CASE y # <<>>
    <3>1. t.timeline = Append(s.timeline, Item("text", y))
      BY <1>2, <1>4, <2>2 DEF ShutsText
    <3> QED
      BY <1>5, <2>2, <3>1, SegmentIs
  <2> QED
    BY <2>1, <2>2
<1>a. p \in Pages /\ y \in Seq(Nat)
  BY <1>2, <1>5
<1>7. PICK q : q = Spoken(p, y)
  OBVIOUS
<1>8. IsSpoken(p, y, q)
  BY <1>a, <1>7, SpokenPage
<1>9. /\ t \in Reader /\ KeepsTools(s, t) /\ KeepsThinking(s, t) /\ t.curText = <<>>
      /\ t.allText = s.allText \o y
  BY <1>2, <1>4 DEF ShutsText
<1>10. Keeps(t, q)
  BY <1>6, <1>8, <1>9 DEF IsSpoken, Talks, Keeps, KeepsTools, KeepsThinking
<1>11. Hushed(t) /\ Toolless(t)
  BY <1>9 DEF Talks, Hushed, Toolless, KeepsTools, KeepsThinking
<1> QED
  BY <1>7, <1>10, <1>11 DEF Rests

(* Events that are no block's leave the reader as it is.                   *)
LEMMA RestGoesOn ==
  ASSUME NEW s, NEW p, Rests(s, p), NEW e \in WireEvents, ~IsBlock(e), NEW t, t = handleEvent(s, e)
  PROVE  Rests(t, p)
<1>1. s \in Reader
  BY DEF Rests, Keeps
<1>2. Idles(s, t)
  BY <1>1, Idle
<1> QED
  BY <1>2 DEF Idles, Rests, Keeps, Hushed, Toolless, KeepsTools, KeepsTalk, KeepsText, KeepsThinking

(* The events of a tool_use and of a tool_result block, one by one.        *)
Drafted(n, id, x) == [name |-> n, id |-> id, params |-> x]

LEMMA UseBegins ==
  ASSUME NEW s, NEW p, Rests(s, p), NEW j \in Nat, NEW n \in Tags, NEW id \in Tags,
         NEW e \in WireEvents, IsStart(e), e.block = "tool_use", e.index = j, e.name = n, e.id = id,
         NEW t, t = handleEvent(s, e)
  PROVE  Uses(t, Headed(p, n), j, Drafted(n, id, <<>>))
<1>2. s \in Reader /\ p \in Pages
  BY DEF Rests, Keeps
<1>3. StartsUse(s, e, t)
  BY <1>2, UseStarted
<1>4. s.allText \in Seq(Nat) /\ s.allThinking \in Seq(Nat) /\ s.curText = <<>> /\ s.curThinking = <<>>
  BY <1>2, ReaderFields DEF Rests, Hushed
<1>5. s.allText \o s.curText = s.allText /\ s.allThinking \o s.curThinking = s.allThinking
  BY <1>4
<1>6. /\ t \in Reader /\ Hushed(t) /\ t.timeline = s.timeline
      /\ t.allText = s.allText /\ t.allThinking = s.allThinking
      /\ t.toolNames = Append(s.toolNames, n)
      /\ t.tools = s.tools /\ t.executions = s.executions /\ t.results = s.results
  BY <1>3, <1>4, <1>5 DEF StartsUse, Quiets, Flushes, Hushed
<1>7. PICK u : u = [name |-> n, id |-> id, params |-> <<>>]
  OBVIOUS
<1>8. t.inflight = With(s.inflight, j, u)
  BY <1>3, <1>7 DEF StartsUse
<1>9. DOMAIN t.inflight = {j} /\ t.inflight[j] = u
  BY <1>8 DEF With, Rests, Toolless
<1>10. PICK q : q = Headed(p, n)
  OBVIOUS
<1>11. IsHeaded(p, n, q)
  BY <1>2, <1>10, HeadedPage
<1>12. Keeps(t, q)
  BY <1>6, <1>11 DEF IsHeaded, Rests, Keeps
<1>13. /\ DOMAIN t.results = {} /\ t.inflight[j].name = n /\ t.inflight[j].id = id
       /\ t.inflight[j].params = <<>>
  BY <1>6, <1>7, <1>9 DEF Rests, Toolless
<1> QED
  BY <1>6, <1>9, <1>10, <1>12, <1>13 DEF Uses, Drafted

LEMMA UseGoesOn ==
  ASSUME NEW s, NEW p, NEW j \in Nat, NEW n, NEW id, NEW y, Uses(s, p, j, Drafted(n, id, y)),
         NEW x \in Seq(Tags),
         NEW e \in WireEvents, IsDelta(e), e.block = "tool_use", e.index = j, e.text = x,
         NEW t, t = handleEvent(s, e)
  PROVE  Uses(t, p, j, Drafted(n, id, y \o x))
<1>1. s \in Reader /\ Apt(e) /\ Speaks(e, "tool_use") /\ e.index \in DOMAIN s.inflight
  BY DEF Uses, Keeps, Apt, Speaks
<1>2. FillsUse(s, e, t)
  BY <1>1, UseFilled
<1>3. FilledUse(s, e, t)
  BY ONLY <1>1, <1>2, Zenon DEF FillsUse
<1>4. /\ t \in Reader /\ KeepsTalk(s, t) /\ t.timeline = s.timeline
      /\ t.toolNames = s.toolNames /\ t.tools = s.tools /\ t.executions = s.executions
      /\ t.results = s.results /\ DOMAIN t.inflight = DOMAIN s.inflight
  BY ONLY <1>3, Zenon DEF FilledUse
<1>5. /\ t.inflight[e.index].name = s.inflight[e.index].name
      /\ t.inflight[e.index].id = s.inflight[e.index].id
      /\ t.inflight[e.index].params = s.inflight[e.index].params \o e.text
  BY ONLY <1>3, Zenon DEF FilledUse
<1>6. /\ s.inflight[j].name = n /\ s.inflight[j].id = id /\ s.inflight[j].params = y
      /\ DOMAIN s.inflight = {j} /\ DOMAIN s.results = {} /\ Keeps(s, p) /\ Hushed(s)
  BY DEF Uses, Drafted
<1>7. /\ t.inflight[j].name = n /\ t.inflight[j].id = id /\ t.inflight[j].params = y \o x
  BY <1>5, <1>6
<1>8. Keeps(t, p) /\ Hushed(t)
  BY <1>4, <1>6 DEF Keeps, Hushed, KeepsTalk, KeepsText, KeepsThinking
<1> QED
  BY <1>4, <1>6, <1>7, <1>8 DEF Uses, Drafted

LEMMA UseEnds ==
  ASSUME NEW s, NEW p, NEW j \in Nat, NEW n, NEW id, NEW y, Uses(s, p, j, Drafted(n, id, y)),
         NEW c, c = [name |-> n, id |-> id, params |-> IF y = <<>> THEN EmptyInput ELSE y],
         NEW t, t = handleEvent(s, BlockStop(j))
  PROVE  Rests(t, Ordered(p, c)) /\ c \in DoneCall
<1>1. PICK e \in WireEvents : e = BlockStop(j) /\ IsStop(e) /\ e.index = j
  BY StopEvent
<1>2. s \in Reader /\ p \in Pages /\ e.index \in DOMAIN s.inflight
  BY <1>1 DEF Uses, Keeps
<1>3. StopsUse(s, e, t)
  BY <1>1, <1>2, UseStopped
<1>4. /\ s.inflight[j].name = n /\ s.inflight[j].id = id /\ s.inflight[j].params = y
      /\ DOMAIN s.inflight = {j} /\ DOMAIN s.results = {} /\ Keeps(s, p) /\ Hushed(s)
  BY DEF Uses, Drafted
<1>5. called(s.inflight[j]) = c
  BY <1>4 DEF called, EmptyText
<1>6. s.inflight[j] \in OpenUse
  BY <1>2, <1>4, ReaderFields, BlockFacts
<1>7. c \in DoneCall
  BY <1>5, <1>6, CallType
<1>8. /\ t \in Reader /\ KeepsTalk(s, t) /\ t.timeline = s.timeline
      /\ t.toolNames = s.toolNames /\ t.executions = s.executions /\ t.results = s.results
      /\ t.inflight = Without(s.inflight, j) /\ t.tools = Append(s.tools, c)
  BY <1>1, <1>3, <1>5 DEF StopsUse
<1>9. DOMAIN t.inflight = {} /\ DOMAIN t.results = {}
  BY <1>4, <1>8 DEF Without
<1>10. PICK q : q = Ordered(p, c)
  OBVIOUS
<1>11. IsOrdered(p, c, q)
  BY <1>2, <1>7, <1>10, OrderedPage
<1>12. Keeps(t, q) /\ Hushed(t)
  BY <1>4, <1>8, <1>11 DEF IsOrdered, Keeps, Hushed, KeepsTalk, KeepsText, KeepsThinking
<1> QED
  BY <1>7, <1>9, <1>10, <1>12 DEF Rests, Toolless

LEMMA AnswerBegins ==
  ASSUME NEW s, NEW p, Rests(s, p), NEW j \in Nat, NEW id \in Tags,
         NEW e \in WireEvents, IsStart(e), e.block = "tool_result", e.index = j, e.id = id,
         NEW t, t = handleEvent(s, e)
  PROVE  Gives(t, p, j, id, <<>>)
<1>2. s \in Reader /\ p \in Pages
  BY DEF Rests, Keeps
<1>3. StartsAnswer(s, e, t)
  BY <1>2, AnswerStarted
<1>4. s.allText \in Seq(Nat) /\ s.allThinking \in Seq(Nat) /\ s.curText = <<>> /\ s.curThinking = <<>>
  BY <1>2, ReaderFields DEF Rests, Hushed
<1>5. s.allText \o s.curText = s.allText /\ s.allThinking \o s.curThinking = s.allThinking
  BY <1>4
<1>6. /\ t \in Reader /\ Hushed(t) /\ t.timeline = s.timeline
      /\ t.allText = s.allText /\ t.allThinking = s.allThinking
      /\ t.toolNames = s.toolNames /\ t.inflight = s.inflight
      /\ t.tools = s.tools /\ t.executions = s.executions
  BY <1>3, <1>4, <1>5 DEF StartsAnswer, Quiets, Flushes, Hushed
<1>7. PICK u : u = [id |-> id, text |-> <<>>]
  OBVIOUS
<1>8. t.results = With(s.results, j, u)
  BY <1>3, <1>7 DEF StartsAnswer
<1>9. DOMAIN t.results = {j} /\ t.results[j] = u
  BY <1>8 DEF With, Rests, Toolless
<1>12. Keeps(t, p)
  BY <1>6 DEF Rests, Keeps
<1>13. DOMAIN t.inflight = {} /\ t.results[j].id = id /\ t.results[j].text = <<>>
  BY <1>6, <1>7, <1>9 DEF Rests, Toolless
<1> QED
  BY <1>6, <1>9, <1>12, <1>13 DEF Gives

LEMMA AnswerGoesOn ==
  ASSUME NEW s, NEW p, NEW j \in Nat, NEW id, NEW y, Gives(s, p, j, id, y), NEW x \in Seq(Tags),
         NEW e \in WireEvents, IsDelta(e), e.block = "tool_result", e.index = j, e.text = x,
         NEW t, t = handleEvent(s, e)
  PROVE  Gives(t, p, j, id, y \o x)
<1>1. s \in Reader /\ Apt(e) /\ Speaks(e, "tool_result") /\ e.index \in DOMAIN s.results
  BY DEF Gives, Keeps, Apt, Speaks
<1>2. FillsAnswer(s, e, t)
  BY <1>1, AnswerFilled
<1>3. FilledAnswer(s, e, t)
  BY ONLY <1>1, <1>2, Zenon DEF FillsAnswer
<1>4. /\ t \in Reader /\ KeepsTalk(s, t) /\ t.timeline = s.timeline
      /\ t.toolNames = s.toolNames /\ t.tools = s.tools /\ t.executions = s.executions
      /\ t.inflight = s.inflight /\ DOMAIN t.results = DOMAIN s.results
  BY ONLY <1>3, Zenon DEF FilledAnswer
<1>5. /\ t.results[e.index].id = s.results[e.index].id
      /\ t.results[e.index].text = s.results[e.index].text \o e.text
  BY ONLY <1>3, Zenon DEF FilledAnswer
<1>6. /\ s.results[j].id = id /\ s.results[j].text = y
      /\ DOMAIN s.results = {j} /\ DOMAIN s.inflight = {} /\ Keeps(s, p) /\ Hushed(s)
  BY DEF Gives
<1>7. t.results[j].id = id /\ t.results[j].text = y \o x
  BY <1>5, <1>6
<1>8. Keeps(t, p) /\ Hushed(t)
  BY <1>4, <1>6 DEF Keeps, Hushed, KeepsTalk, KeepsText, KeepsThinking
<1> QED
  BY <1>4, <1>6, <1>7, <1>8 DEF Gives

(* The call c is the one a result with this id belongs to.                 *)
OnlyCall(calls, c) ==
  /\ \E k \in DOMAIN calls : calls[k].id = c.id
  /\ \A k \in DOMAIN calls : calls[k].id = c.id => calls[k] = c

Reply(c, y) == [name |-> c.name, id |-> c.id, params |-> c.params, result |-> y]

LEMMA AnswerIs ==
  ASSUME NEW calls, NEW c, OnlyCall(calls, c), NEW res, res.id = c.id,
         NEW x, Answers(calls, res, x)
  PROVE  x = Reply(c, res.text)
<1>1. PICK k \in DOMAIN calls :
        /\ calls[k].id = c.id
        /\ x = [name |-> calls[k].name, id |-> c.id, params |-> calls[k].params,
                result |-> res.text]
  BY DEF Answers
<1>2. calls[k] = c
  BY <1>1 DEF OnlyCall
<1> QED
  BY <1>1, <1>2 DEF Reply

LEMMA AnswerEnds ==
  ASSUME NEW s, NEW p, NEW j \in Nat, NEW c, NEW y, Gives(s, p, j, c.id, y), OnlyCall(p.calls, c),
         NEW t, t = handleEvent(s, BlockStop(j))
  PROVE  Rests(t, Served(p, Reply(c, y))) /\ Reply(c, y) \in DoneExec
<1>1. PICK e \in WireEvents : e = BlockStop(j) /\ IsStop(e) /\ e.index = j
  BY StopEvent
<1>2. /\ s \in Reader /\ p \in Pages /\ e.index \in DOMAIN s.results /\ e.index \notin DOMAIN s.inflight
      /\ s.tools = p.calls
  BY <1>1 DEF Gives, Keeps
<1>3. StopsAnswer(s, e, t)
  BY <1>1, <1>2, AnswerStopped
<1>4. /\ s.results[j].id = c.id /\ s.results[j].text = y
      /\ DOMAIN s.results = {j} /\ DOMAIN s.inflight = {} /\ Keeps(s, p) /\ Hushed(s)
  BY DEF Gives
<1>5. Matched(s, s.results[j])
  BY <1>2, <1>4 DEF Matched, OnlyCall
<1>6. PICK x \in DoneExec : /\ Answers(s.tools, s.results[j], x)
                            /\ t.executions = Append(s.executions, x)
                            /\ t.timeline = Append(s.timeline, ToolMark(x))
  BY <1>1, <1>3, <1>5 DEF StopsAnswer
<1>7. x = Reply(c, y)
  BY <1>2, <1>4, <1>6, AnswerIs
<1>8. /\ t \in Reader /\ KeepsTalk(s, t)
      /\ t.toolNames = s.toolNames /\ t.tools = s.tools /\ t.inflight = s.inflight
      /\ t.results = Without(s.results, j)
  BY <1>1, <1>3 DEF StopsAnswer
<1>9. DOMAIN t.inflight = {} /\ DOMAIN t.results = {}
  BY <1>4, <1>8 DEF Without
<1>10. PICK q : q = Served(p, x)
  OBVIOUS
<1>11. IsServed(p, x, q)
  BY <1>2, <1>10, ServedPage
<1>12. Keeps(t, q) /\ Hushed(t)
  BY <1>4, <1>6, <1>8, <1>11 DEF IsServed, Keeps, Hushed, KeepsTalk, KeepsText, KeepsThinking
<1> QED
  BY <1>7, <1>9, <1>10, <1>12 DEF Rests, Toolless

(* What the reader would return, were the stream to end here.              *)
Glimpse(s, T) ==
  s \in Reader /\ \A f \in Finalized(s) : f.timeline \in Seq(TurnItem) /\ Cut(f.timeline, T)

(* With no result left open the timeline gets the open run, if any.        *)
LEMMA QuietEnd ==
  ASSUME NEW s \in Reader, DOMAIN s.results = {}, NEW f \in Finalized(s)
  PROVE  /\ f.timeline \in Seq(TurnItem) /\ Flushes(s, f.timeline)
         /\ f.text = FullText(s) /\ f.thinking = FullThinking(s)
         /\ f.toolNames = s.toolNames /\ f.executions = s.executions
         /\ DOMAIN s.inflight = {} => f.tools = s.tools
<1>1. PICK to, ro, left, execs, l : Ends(s, f, to, ro, left, execs, l)
  BY ReaderEnds
<1>2. Answered(s) = {}
  BY DEF Answered
<1>3. ro \in Seq({}) /\ execs \in Seq(DoneExec) /\ Len(execs) = Len(ro)
  BY <1>1, <1>2, Zenon DEF Ends, Order, LeftResults
<1>4. execs = <<>>
  BY <1>3
<1>5. Marked(execs) = <<>>
  BY <1>4 DEF Marked
<1>6. l \in Seq(TurnItem) /\ Flushes(s, l) /\ f.timeline = l \o Marked(execs)
  BY <1>1, Zenon DEF Ends
<1>7. f.timeline = l
  BY <1>5, <1>6
<1>8. s.executions \in Seq(DoneExec) /\ s.tools \in Seq(DoneCall)
  BY ReaderFields
<1>9. f.executions = s.executions \o execs
  BY <1>1, Zenon DEF Ends
<1>10. f.executions = s.executions
  BY <1>4, <1>8, <1>9
<1>11. /\ f.text = FullText(s) /\ f.thinking = FullThinking(s) /\ f.toolNames = s.toolNames
       /\ f.tools = s.tools \o left /\ Order(to, DOMAIN s.inflight) /\ LeftCalls(s, to, left)
  BY <1>1, Zenon DEF Ends
<1>12. ASSUME DOMAIN s.inflight = {}
       PROVE  f.tools = s.tools
  <2>1. to \in Seq({}) /\ left \in Seq(DoneCall) /\ Len(left) = Len(to)
    BY <1>11, <1>12 DEF Order, LeftCalls
  <2>2. left = <<>>
    BY <2>1
  <2> QED
    BY <1>8, <1>11, <2>2
<1> QED
  BY <1>6, <1>7, <1>10, <1>11, <1>12

LEMMA RestsGlimpse ==
  ASSUME NEW s, NEW p, Rests(s, p) \/ \E j, u : Uses(s, p, j, u), NEW T, Cut(p.items, T)
  PROVE  Glimpse(s, T)
<1>1. s \in Reader /\ s.timeline = p.items /\ Hushed(s) /\ DOMAIN s.results = {}
  BY DEF Rests, Uses, Keeps, Toolless
<1>2. ASSUME NEW f \in Finalized(s)
      PROVE  f.timeline \in Seq(TurnItem) /\ Cut(f.timeline, T)
  <2>1. f.timeline \in Seq(TurnItem) /\ Flushes(s, f.timeline)
    BY <1>1, QuietEnd
  <2>2. f.timeline = p.items
    BY <1>1, <2>1 DEF Flushes, Hushed
  <2> QED
    BY <2>1, <2>2
<1> QED
  BY <1>1, <1>2 DEF Glimpse

LEMMA ThinksGlimpse ==
  ASSUME NEW s, NEW p, NEW y, NEW j, Thinks(s, p, y, j), NEW T,
         Cut(p.items \o Segment("thinking", y), T)
  PROVE  Glimpse(s, T)
<1>1. /\ s \in Reader /\ s.timeline = p.items /\ s.curText = <<>> /\ s.curThinking = y
      /\ DOMAIN s.results = {} /\ p.items \in Seq(TurnItem)
  BY PageFields DEF Thinks, Keeps, Toolless
<1>2. ASSUME NEW f \in Finalized(s)
      PROVE  f.timeline \in Seq(TurnItem) /\ Cut(f.timeline, T)
  <2>1. f.timeline \in Seq(TurnItem) /\ Flushes(s, f.timeline)
    BY <1>1, QuietEnd
  <2>2. CASE y = <<>>
    <3>1. f.timeline = p.items
      BY <1>1, <2>1, <2>2 DEF Flushes
    <3>2. p.items \o Segment("thinking", y) = p.items
      BY <1>1, <2>2, SegmentIs
    <3> QED
      BY <2>1, <3>1, <3>2
  <2>3. CASE y # <<>>
    <3>1. f.timeline = Append(p.items, Item("thinking", y))
      BY <1>1, <2>1, <2>3 DEF Flushes
    <3>2. p.items \o Segment("thinking", y) = Append(p.items, Item("thinking", y))
      BY <1>1, <2>3, SegmentIs
    <3> QED
      BY <2>1, <3>1, <3>2
  <2> QED
    BY <2>2, <2>3
<1> QED
  BY <1>1, <1>2 DEF Glimpse

LEMMA TalksGlimpse ==
  ASSUME NEW s, NEW p, NEW y, NEW j, Talks(s, p, y, j), NEW T,
         Cut(p.items \o Segment("text", y), T)
  PROVE  Glimpse(s, T)
<1>1. /\ s \in Reader /\ s.timeline = p.items /\ s.curText = y /\ s.curThinking = <<>>
      /\ DOMAIN s.results = {} /\ p.items \in Seq(TurnItem)
  BY PageFields DEF Talks, Keeps, Toolless
<1>2. ASSUME NEW f \in Finalized(s)
      PROVE  f.timeline \in Seq(TurnItem) /\ Cut(f.timeline, T)
  <2>1. f.timeline \in Seq(TurnItem) /\ Flushes(s, f.timeline)
    BY <1>1, QuietEnd
  <2>2. CASE y = <<>>
    <3>1. f.timeline = p.items
      BY <1>1, <2>1, <2>2 DEF Flushes
    <3>2. p.items \o Segment("text", y) = p.items
      BY <1>1, <2>2, SegmentIs
    <3> QED
      BY <2>1, <3>1, <3>2
  <2>3. CASE y # <<>>
    <3>1. f.timeline = Append(p.items, Item("text", y))
      BY <1>1, <2>1, <2>3 DEF Flushes
    <3>2. p.items \o Segment("text", y) = Append(p.items, Item("text", y))
      BY <1>1, <2>3, SegmentIs
    <3> QED
      BY <2>1, <3>1, <3>2
  <2> QED
    BY <2>2, <2>3
<1> QED
  BY <1>1, <1>2 DEF Glimpse

(* The one result left open goes to its call.                              *)
LEMMA GivesGlimpse ==
  ASSUME NEW s, NEW p, NEW j \in Nat, NEW c, NEW y, Gives(s, p, j, c.id, y), OnlyCall(p.calls, c),
         NEW T, Cut(Append(p.items, ToolMark(Reply(c, y))), T)
  PROVE  Glimpse(s, T)
<1>1. /\ s \in Reader /\ s.timeline = p.items /\ s.tools = p.calls /\ Hushed(s)
      /\ DOMAIN s.results = {j} /\ DOMAIN s.inflight = {} /\ s.results[j].id = c.id
      /\ s.results[j].text = y
  BY DEF Gives, Keeps
<1>2. Answered(s) = {j}
  BY <1>1 DEF Answered, OnlyCall
<1>3. ASSUME NEW f \in Finalized(s)
      PROVE  f.timeline \in Seq(TurnItem) /\ Cut(f.timeline, T)
  <2>1. PICK to, ro, left, execs, l : Ends(s, f, to, ro, left, execs, l)
    BY <1>1, ReaderEnds
  <2>2. /\ Order(to, DOMAIN s.inflight) /\ LeftCalls(s, to, left) /\ f.tools = s.tools \o left
        /\ Order(ro, Answered(s)) /\ LeftResults(s, f.tools, ro, execs)
        /\ l \in Seq(TurnItem) /\ Flushes(s, l) /\ f.timeline = l \o Marked(execs)
    BY <2>1, Zenon DEF Ends
  <2>3. f.tools = p.calls
    <3>1. to \in Seq({}) /\ left \in Seq(DoneCall) /\ Len(left) = Len(to)
      BY <1>1, <2>2 DEF Order, LeftCalls
    <3>2. left = <<>> /\ s.tools \in Seq(DoneCall)
      BY <1>1, <3>1, ReaderFields
    <3> QED
      BY <1>1, <2>2, <3>2
  <2>4. l = p.items
    BY <1>1, <2>2 DEF Flushes, Hushed
  <2>5. /\ ro \in Seq({j}) /\ (\E k \in DOMAIN ro : ro[k] = j)
        /\ \A i, k \in DOMAIN ro : i # k => ro[i] # ro[k]
    BY <1>2, <2>2 DEF Order
  <2>6. Len(ro) = 1 /\ ro[1] = j /\ DOMAIN ro = {1}
    <3>1. Len(ro) \in Nat /\ DOMAIN ro = 1 .. Len(ro) /\ Len(ro) # 0
      BY <2>5
    <3>2. \A k \in 1 .. Len(ro) : ro[k] = j
      BY <2>5
    <3>3. ~(1 \in 1 .. Len(ro) /\ 2 \in 1 .. Len(ro))
      BY <2>5, <3>1, <3>2
    <3> QED
      BY <3>1, <3>2, <3>3
  <2>7. execs \in Seq(DoneExec) /\ DOMAIN execs = {1} /\ Len(execs) = 1
        /\ Answers(p.calls, s.results[j], execs[1])
    BY <2>2, <2>3, <2>6 DEF LeftResults
  <2>8. execs[1] = Reply(c, y)
    BY <1>1, <2>7, AnswerIs
  <2>9. Marked(execs) = <<ToolMark(Reply(c, y))>>
    BY <2>7, <2>8 DEF Marked
  <2>10. Reply(c, y) \in DoneExec
    BY <2>7, <2>8
  <2>11. ToolMark(Reply(c, y)) \in TurnItem
    BY <2>10, MarkType
  <2>12. f.timeline = Append(p.items, ToolMark(Reply(c, y))) /\ f.timeline \in Seq(TurnItem)
    BY <2>2, <2>4, <2>9, <2>11
  <2> QED
    BY <2>12
<1> QED
  BY <1>1, <1>3 DEF Glimpse

(* The reader after all of w is s, and at no event of w would it have      *)
(* returned anything but a beginning of T.                                 *)
ClearRun(h, w, T, s) ==
  /\ IsRun(h, w, Nat) /\ h[Len(w)] = s
  /\ \A m \in 0 .. Len(w) : Glimpse(h[m], T)

Clear(w, T, s) == \E h : ClearRun(h, w, T, s)

LEMMA GlimpseMore ==
  ASSUME NEW s, NEW T \in Seq(TurnItem), Glimpse(s, T), NEW R \in Seq(TurnItem), Cut(T, R)
  PROVE  Glimpse(s, R)
<1>1. ASSUME NEW f \in Finalized(s)
      PROVE  f.timeline \in Seq(TurnItem) /\ Cut(f.timeline, R)
  <2>1. PICK l \in Seq(TurnItem) : l = f.timeline
    BY DEF Glimpse
  <2>2. Cut(l, T)
    BY <2>1 DEF Glimpse
  <2> QED
    BY <2>1, <2>2, CutTrans
<1> QED
  BY <1>1 DEF Glimpse

LEMMA ClearMore ==
  ASSUME NEW w, NEW T \in Seq(TurnItem), NEW s, Clear(w, T, s), NEW R \in Seq(TurnItem), Cut(T, R)
  PROVE  Clear(w, R, s)
<1>1. PICK h : ClearRun(h, w, T, s)
  BY DEF Clear
<1>2. \A m \in 0 .. Len(w) : Glimpse(h[m], R)
  BY <1>1, GlimpseMore DEF ClearRun
<1> QED
  BY <1>1, <1>2 DEF Clear, ClearRun

LEMMA ClearNew ==
  ASSUME NEW T, Glimpse(NewReassembler, T)
  PROVE  Clear(<<>>, T, NewReassembler)
<1>1. PICK w : w = <<>> /\ Len(w) = 0
  OBVIOUS
<1>2. PICK h : h = [i \in 0 .. Len(w) |-> NewReassembler]
  OBVIOUS
<1>3. h[0] = NewReassembler /\ h = [i \in 0 .. Len(w) |-> h[i]]
  BY <1>1, <1>2
<1>4. IsRun(h, w, Nat)
  BY <1>1, <1>3 DEF IsRun
<1> QED
  BY <1>1, <1>3, <1>4 DEF Clear, ClearRun

LEMMA ClearOn ==
  ASSUME NEW w \in Seq(WireEvents), NEW T, NEW s, Clear(w, T, s), NEW e \in WireEvents,
         NEW v, v = Append(w, e), NEW t, t = handleEvent(s, e), Glimpse(t, T)
  PROVE  Clear(v, T, t)
<1>1. PICK h : ClearRun(h, w, T, s)
  BY DEF Clear
<1>2. PICK n \in Nat : n = Len(w)
  OBVIOUS
<1>3. /\ Len(v) = n + 1 /\ v[n + 1] = e /\ \A i \in 1 .. n : v[i] = w[i]
  BY <1>2
<1>4. PICK g : g = [i \in 0 .. n + 1 |-> IF i = n + 1 THEN t ELSE h[i]]
  OBVIOUS
<1>5. /\ g[n + 1] = t /\ \A i \in 0 .. n : g[i] = h[i]
      /\ g = [i \in 0 .. n + 1 |-> g[i]]
  BY <1>4
<1>6. /\ h[0] = NewReassembler /\ h[n] = s
      /\ \A i \in 1 .. n : h[i] = Step(w, Nat, h[i - 1], i)
      /\ \A m \in 0 .. n : Glimpse(h[m], T)
  BY <1>1, <1>2 DEF ClearRun, IsRun
<1>7. ASSUME NEW i \in 1 .. n + 1
      PROVE  g[i] = Step(v, Nat, g[i - 1], i)
  <2>1. CASE i = n + 1
    <3>1. i - 1 = n /\ n \in 0 .. n /\ i \in Nat
      BY <2>1
    <3>2. g[i - 1] = s /\ g[i] = t /\ v[i] = e
      BY <1>3, <1>5, <1>6, <2>1, <3>1
    <3> QED
      BY <3>1, <3>2 DEF Step
  <2>2. CASE i # n + 1
    <3>1. i \in 1 .. n /\ i - 1 \in 0 .. n /\ i \in 0 .. n
      BY <2>2
    <3>2. g[i] = h[i] /\ g[i - 1] = h[i - 1] /\ v[i] = w[i]
      BY <1>3, <1>5, <3>1
    <3> QED
      BY <1>6, <3>1, <3>2 DEF Step
  <2> QED
    BY <2>1, <2>2
<1>8. IsRun(g, v, Nat)
  <2>1. g = [i \in 0 .. Len(v) |-> g[i]]
    BY <1>3, <1>5
  <2>2. g[0] = NewReassembler
    <3>1. 0 \in 0 .. n
      OBVIOUS
    <3>2. g[0] = h[0]
      BY <1>5, <3>1
    <3>3. h[0] = NewReassembler
      BY <1>6, Zenon
    <3> QED
      BY <3>2, <3>3
  <2>3. \A i \in 1 .. Len(v) : g[i] = Step(v, Nat, g[i - 1], i)
    <3>1. 1 .. Len(v) = 1 .. n + 1
      BY <1>3
    <3> QED
      BY <1>7, <3>1
  <2> QED
    BY <2>1, <2>2, <2>3, Zenon DEF IsRun
<1>9. ASSUME NEW m \in 0 .. n + 1
      PROVE  Glimpse(g[m], T)
  <2>1. CASE m = n + 1
    BY <1>5, <2>1
  <2>2. CASE m # n + 1
    <3>1. m \in 0 .. n
      BY <2>2
    <3> QED
      BY <1>5, <1>6, <3>1
  <2> QED
    BY <2>1, <2>2
<1> QED
  BY <1>3, <1>5, <1>8, <1>9 DEF Clear, ClearRun

(* What a round comes to, and a turn: a page of its own, and the pages of  *)
(* its rounds one behind the other.                                        *)
CalledOf(t) ==
  [name |-> t.tag, id |-> t.id, params |-> IF t.input THEN Input(t) ELSE EmptyInput]

NamesIn(o) == [k \in DOMAIN o.calls |-> o.calls[k].tag]
CallsIn(o) == [k \in DOMAIN o.calls |-> CalledOf(o.calls[k])]
ExecsIn(o) == [k \in DOMAIN o.calls |-> Execution(o.calls[k])]
MarksIn(o) == [k \in DOMAIN ExecsIn(o) |-> [kind |-> "tool", exec |-> ExecsIn(o)[k]]]

TalkIn(o) == Segment("thinking", o.thinking) \o Segment("text", o.text)

Leaf(o) ==
  [names |-> NamesIn(o), calls |-> CallsIn(o), execs |-> ExecsIn(o),
   items |-> TalkIn(o) \o MarksIn(o), text |-> o.text, thinking |-> o.thinking]

Bound(q, f) == FlattenSeq([i \in 1 .. Len(q) |-> Leaf(q[i])[f]])

PageOf(q) ==
  [names |-> Bound(q, "names"), calls |-> Bound(q, "calls"), execs |-> Bound(q, "execs"),
   items |-> Bound(q, "items"), text |-> Bound(q, "text"), thinking |-> Bound(q, "thinking")]

LEMMA CallMade ==
  ASSUME NEW t \in ToolCalls
  PROVE  t.tag \in Tags /\ CalledOf(t) \in DoneCall /\ Execution(t) \in DoneExec
BY DEF ToolCalls, CalledOf, Execution, DoneCall, DoneExec, Input, Output

LeafRows(o, n) ==
  /\ n = Len(o.calls) /\ n \in Nat /\ DOMAIN o.calls = 1 .. n
  /\ NamesIn(o) \in Seq(Tags) /\ Len(NamesIn(o)) = n
  /\ CallsIn(o) \in Seq(DoneCall) /\ Len(CallsIn(o)) = n
  /\ ExecsIn(o) \in Seq(DoneExec) /\ Len(ExecsIn(o)) = n
  /\ MarksIn(o) \in Seq(TurnItem) /\ Len(MarksIn(o)) = n
  /\ \A k \in 1 .. n :
       /\ o.calls[k] \in ToolCalls
       /\ NamesIn(o)[k] = o.calls[k].tag /\ CallsIn(o)[k] = CalledOf(o.calls[k])
       /\ ExecsIn(o)[k] = Execution(o.calls[k])
       /\ MarksIn(o)[k] = ToolMark(Execution(o.calls[k]))

LEMMA LeafRow ==
  ASSUME NEW o \in Rounds
  PROVE  LeafRows(o, Len(o.calls))
<1>1. o.calls \in Seq(ToolCalls)
  BY DEF Rounds
<1>2. PICK n \in Nat : n = Len(o.calls) /\ DOMAIN o.calls = 1 .. n
  BY <1>1
<1>3. \A k \in 1 .. n : o.calls[k] \in ToolCalls
  BY <1>1, <1>2
<1>n. NamesIn(o) \in Seq(Tags) /\ Len(NamesIn(o)) = n
  <2>1. NamesIn(o) \in [1 .. n -> Tags]
    BY <1>2, <1>3, CallMade DEF NamesIn
  <2> QED
    BY <2>1, IsSeq
<1>c. CallsIn(o) \in Seq(DoneCall) /\ Len(CallsIn(o)) = n
  <2>1. CallsIn(o) \in [1 .. n -> DoneCall]
    BY <1>2, <1>3, CallMade DEF CallsIn
  <2> QED
    BY <2>1, IsSeq
<1>e. ExecsIn(o) \in Seq(DoneExec) /\ Len(ExecsIn(o)) = n /\ DOMAIN ExecsIn(o) = 1 .. n
  <2>1. ExecsIn(o) \in [1 .. n -> DoneExec]
    BY <1>2, <1>3, CallMade DEF ExecsIn
  <2> QED
    BY <2>1, IsSeq
<1>x. \A k \in 1 .. n : NamesIn(o)[k] = o.calls[k].tag /\ CallsIn(o)[k] = CalledOf(o.calls[k])
                        /\ ExecsIn(o)[k] = Execution(o.calls[k])
  BY <1>2 DEF NamesIn, CallsIn, ExecsIn
<1>m. MarksIn(o) \in Seq(TurnItem) /\ Len(MarksIn(o)) = n
      /\ \A k \in 1 .. n : MarksIn(o)[k] = ToolMark(Execution(o.calls[k]))
  <2>1. MarksIn(o) = [k \in 1 .. n |-> ToolMark(ExecsIn(o)[k])]
    BY <1>e DEF MarksIn, ToolMark
  <2>2. \A k \in 1 .. n : ToolMark(ExecsIn(o)[k]) \in TurnItem
    <3>1. \A k \in 1 .. n : ExecsIn(o)[k] \in DoneExec
      BY <1>3, <1>x, CallMade
    <3> QED
      BY <3>1, MarkType
  <2>3. MarksIn(o) \in [1 .. n -> TurnItem]
    BY <2>1, <2>2
  <2> QED
    BY <2>1, <2>3, <1>x, IsSeq
<1> QED
  BY <1>2, <1>3, <1>n, <1>c, <1>e, <1>x, <1>m DEF LeafRows

LEMMA LeafPage ==
  ASSUME NEW o \in Rounds
  PROVE  /\ Leaf(o) \in Pages /\ TalkIn(o) \in Seq(TurnItem)
         /\ o.text \in Seq(Nat) /\ o.thinking \in Seq(Nat)
<1>1. o.text \in Seq(Nat) /\ o.thinking \in Seq(Nat)
  BY DEF Rounds
<1>2. TalkIn(o) \in Seq(TurnItem)
  BY <1>1, SegmentType, JoinItems DEF TalkIn
<1>3. NamesIn(o) \in Seq(Tags) /\ CallsIn(o) \in Seq(DoneCall) /\ ExecsIn(o) \in Seq(DoneExec)
      /\ MarksIn(o) \in Seq(TurnItem)
  BY LeafRow DEF LeafRows
<1>4. TalkIn(o) \o MarksIn(o) \in Seq(TurnItem)
  BY <1>2, <1>3, JoinItems
<1> QED
  BY <1>1, <1>2, <1>3, <1>4 DEF Leaf, Pages, Words, NameRow, CallRow, ExecRow, ItemRow

LEMMA BoundMore ==
  ASSUME NEW z \in Seq(Rounds), NEW o \in Rounds, NEW f, NEW C, \A x \in Rounds : Leaf(x)[f] \in Seq(C)
  PROVE  /\ Bound(<<>>, f) = <<>> /\ Bound(z, f) \in Seq(C)
         /\ Bound(Append(z, o), f) = Bound(z, f) \o Leaf(o)[f]
<1> DEFINE w == [i \in 1 .. Len(z) |-> Leaf(z[i])[f]]
           v == [i \in 1 .. Len(Append(z, o)) |-> Leaf(Append(z, o)[i])[f]]
<1>1. Len(z) \in Nat /\ Len(Append(z, o)) = Len(z) + 1 /\ \A i \in 1 .. Len(z) : z[i] \in Rounds
      /\ \A j \in 1 .. Len(z) : Append(z, o)[j] = z[j]
  OBVIOUS
<1>2. w \in Seq(Seq(C)) /\ Len(w) = Len(z)
  <2>1. w \in [1 .. Len(z) -> Seq(C)]
    BY <1>1
  <2> QED
    BY <2>1, <1>1, IsSeq
<1>3. v \in Seq(Seq(C)) /\ Len(v) = Len(w) + 1
  <2>a. \A i \in 1 .. Len(z) + 1 : Append(z, o)[i] \in Rounds
    OBVIOUS
  <2>1. v \in [1 .. Len(z) + 1 -> Seq(C)]
    BY <1>1, <2>a
  <2> QED
    BY <2>1, <1>1, <1>2, IsSeq
<1>4. v[Len(w) + 1] = Leaf(o)[f] /\ \A i \in 1 .. Len(w) : v[i] = w[i]
  <2>1. Append(z, o)[Len(z) + 1] = o
    OBVIOUS
  <2> QED
    BY <1>1, <1>2, <2>1
<1> HIDE DEF w, v
<1>5. FlattenSeq(v) = FlattenSeq(w) \o v[Len(w) + 1]
  BY <1>2, <1>3, <1>4, FlattenOneMore
<1>6. FlattenSeq(w) \in Seq(C)
  BY <1>2, FlattenType
<1>7. Bound(<<>>, f) = <<>>
  <2>1. [i \in 1 .. Len(<<>>) |-> Leaf(<<>>[i])[f]] = <<>>
    OBVIOUS
  <2> QED
    BY <2>1, FlattenEmpty DEF Bound
<1> QED
  BY <1>4, <1>5, <1>6, <1>7 DEF Bound, w, v

Joins(p, l, b) ==
  /\ b.names = p.names \o l.names /\ b.calls = p.calls \o l.calls /\ b.execs = p.execs \o l.execs
  /\ b.items = p.items \o l.items /\ b.text = p.text \o l.text
  /\ b.thinking = p.thinking \o l.thinking

LEMMA LeafTypes ==
  ASSUME NEW o \in Rounds
  PROVE  /\ Leaf(o)["names"] \in Seq(Tags) /\ Leaf(o)["calls"] \in Seq(DoneCall)
         /\ Leaf(o)["execs"] \in Seq(DoneExec) /\ Leaf(o)["items"] \in Seq(TurnItem)
         /\ Leaf(o)["text"] \in Seq(Nat) /\ Leaf(o)["thinking"] \in Seq(Nat)
<1>1. Leaf(o) \in Pages
  BY LeafPage
<1> QED
  BY <1>1, PageFields

LEMMA PageGrows ==
  ASSUME NEW z \in Seq(Rounds), NEW o \in Rounds
  PROVE  PageOf(z) \in Pages /\ Joins(PageOf(z), Leaf(o), PageOf(Append(z, o)))
<1>1. /\ Bound(z, "names") \in Seq(Tags)
      /\ Bound(Append(z, o), "names") = Bound(z, "names") \o Leaf(o)["names"]
  BY LeafTypes, BoundMore
<1>2. /\ Bound(z, "calls") \in Seq(DoneCall)
      /\ Bound(Append(z, o), "calls") = Bound(z, "calls") \o Leaf(o)["calls"]
  BY LeafTypes, BoundMore
<1>3. /\ Bound(z, "execs") \in Seq(DoneExec)
      /\ Bound(Append(z, o), "execs") = Bound(z, "execs") \o Leaf(o)["execs"]
  BY LeafTypes, BoundMore
<1>4. /\ Bound(z, "items") \in Seq(TurnItem)
      /\ Bound(Append(z, o), "items") = Bound(z, "items") \o Leaf(o)["items"]
  BY LeafTypes, BoundMore
<1>5. /\ Bound(z, "text") \in Seq(Nat)
      /\ Bound(Append(z, o), "text") = Bound(z, "text") \o Leaf(o)["text"]
  BY LeafTypes, BoundMore
<1>6. /\ Bound(z, "thinking") \in Seq(Nat)
      /\ Bound(Append(z, o), "thinking") = Bound(z, "thinking") \o Leaf(o)["thinking"]
  BY LeafTypes, BoundMore
<1>7. PageOf(z) \in Pages
  BY <1>1, <1>2, <1>3, <1>4, <1>5, <1>6 DEF PageOf, Pages, Words, NameRow, CallRow, ExecRow, ItemRow
<1> QED
  BY <1>1, <1>2, <1>3, <1>4, <1>5, <1>6, <1>7 DEF PageOf, Joins

Blank == [names |-> <<>>, calls |-> <<>>, execs |-> <<>>, items |-> <<>>, text |-> <<>>, thinking |-> <<>>]

LEMMA PageStarts == PageOf(<<>>) = Blank /\ Blank \in Pages
<1>0. <<>> \in Seq(Rounds)
  OBVIOUS
<1>o. PICK o \in Rounds : TRUE
  <2>1. [deltas |-> 0, thinking |-> <<>>, text |-> <<>>, calls |-> <<>>] \in Rounds
    BY DEF Rounds
  <2> QED
    BY <2>1
<1>1. Bound(<<>>, "names") = <<>>
  BY <1>0, <1>o, LeafTypes, BoundMore
<1>2. Bound(<<>>, "calls") = <<>>
  BY <1>0, <1>o, LeafTypes, BoundMore
<1>3. Bound(<<>>, "execs") = <<>>
  BY <1>0, <1>o, LeafTypes, BoundMore
<1>4. Bound(<<>>, "items") = <<>>
  BY <1>0, <1>o, LeafTypes, BoundMore
<1>5. Bound(<<>>, "text") = <<>>
  BY <1>0, <1>o, LeafTypes, BoundMore
<1>6. Bound(<<>>, "thinking") = <<>>
  BY <1>0, <1>o, LeafTypes, BoundMore
<1>7. PageOf(<<>>) \in Pages
  BY <1>0, <1>o, PageGrows
<1> QED
  BY <1>1, <1>2, <1>3, <1>4, <1>5, <1>6, <1>7 DEF PageOf, Blank

(* The turn z with what is said in the round o.                            *)
Talk(z, o) == Spoken(Thought(PageOf(z), o.thinking), o.text)

TalkIs(z, o, b) ==
  LET p == PageOf(z)
  IN  /\ p \in Pages /\ b \in Pages
      /\ b.names = p.names /\ b.calls = p.calls /\ b.execs = p.execs
      /\ b.items = p.items \o TalkIn(o) /\ b.text = p.text \o o.text
      /\ b.thinking = p.thinking \o o.thinking

LEMMA TalkPage ==
  ASSUME NEW z \in Seq(Rounds), NEW o \in Rounds
  PROVE  TalkIs(z, o, Talk(z, o))
<1>1. o.text \in Seq(Nat) /\ o.thinking \in Seq(Nat)
  BY LeafPage
<1>2. PICK p \in Pages : p = PageOf(z)
  BY PageGrows
<1>3. PICK t : t = Thought(p, o.thinking)
  OBVIOUS
<1>4. IsThought(p, o.thinking, t)
  BY ONLY p \in Pages, <1>1, <1>3, ThoughtPage
<1>t. t \in Pages
  BY ONLY <1>4 DEF IsThought
<1>5. PICK b : b = Spoken(t, o.text)
  OBVIOUS
<1>6. IsSpoken(t, o.text, b)
  BY ONLY <1>1, <1>t, <1>5, SpokenPage
<1>7. Segment("thinking", o.thinking) \in Seq(TurnItem) /\ Segment("text", o.text) \in Seq(TurnItem)
  BY <1>1, SegmentType
<1>8. p.items \in Seq(TurnItem)
  BY PageFields
<1>9. (p.items \o Segment("thinking", o.thinking)) \o Segment("text", o.text) = p.items \o TalkIn(o)
  BY ONLY <1>7, <1>8, JoinItems DEF TalkIn
<1>a. b.items = p.items \o TalkIn(o)
  BY ONLY <1>4, <1>6, <1>9 DEF IsThought, IsSpoken
<1>b. Talk(z, o) = b
  BY ONLY <1>2, <1>3, <1>5 DEF Talk
<1>c. TalkIs(z, o, b)
  BY ONLY p \in Pages, <1>2, <1>4, <1>6, <1>a DEF TalkIs, IsThought, IsSpoken
<1> QED
  BY ONLY <1>b, <1>c

Upto(a, v, n) == a \o SubSeq(v, 1, n)

(* The turn z and of the round o what is said, the first n calls as they   *)
(* are announced, and the first m as they are answered.                    *)
Mid(z, o, n, m) ==
  [names    |-> Upto(Talk(z, o).names, NamesIn(o), n),
   calls    |-> Upto(Talk(z, o).calls, CallsIn(o), n),
   execs    |-> Upto(Talk(z, o).execs, ExecsIn(o), m),
   items    |-> Upto(Talk(z, o).items, MarksIn(o), m),
   text     |-> Talk(z, o).text,
   thinking |-> Talk(z, o).thinking]

LEMMA SomeOf ==
  ASSUME NEW T, NEW a \in Seq(T), NEW v \in Seq(T), NEW n \in 0 .. Len(v)
  PROVE  /\ SubSeq(v, 1, n) \in Seq(T) /\ Upto(a, v, n) \in Seq(T)
         /\ n = 0 => Upto(a, v, n) = a
         /\ n = Len(v) => Upto(a, v, n) = a \o v
<1>1. SubSeq(v, 1, n) \in Seq(T)
  <2>1. CASE n = Len(v)
    BY <2>1, PrefixEnds
  <2>2. CASE n # Len(v)
    <3>1. n \in Nat /\ n < Len(v)
      BY <2>2
    <3> QED
      BY <3>1, PrefixStep
  <2> QED
    BY <2>1, <2>2
<1>2. SubSeq(v, 1, 0) = <<>> /\ SubSeq(v, 1, Len(v)) = v
  BY PrefixEnds
<1>4. a \o SubSeq(v, 1, n) \in Seq(T) /\ a \o <<>> = a
  BY <1>1
<1> QED
  BY ONLY <1>1, <1>2, <1>4 DEF Upto

LEMMA OneMore ==
  ASSUME NEW T, NEW a \in Seq(T), NEW v \in Seq(T), NEW n \in Nat, n < Len(v), NEW x, x = v[n + 1]
  PROVE  Upto(a, v, n + 1) = Append(Upto(a, v, n), x)
<1>1. SubSeq(v, 1, n) \in Seq(T) /\ v[n + 1] \in T
      /\ SubSeq(v, 1, n + 1) = Append(SubSeq(v, 1, n), v[n + 1])
  BY PrefixStep
<1>2. a \o Append(SubSeq(v, 1, n), v[n + 1]) = Append(a \o SubSeq(v, 1, n), v[n + 1])
  BY ONLY a \in Seq(T), <1>1, JoinAppend
<1> QED
  BY ONLY <1>1, <1>2, x = v[n + 1] DEF Upto

LEMMA AllOf ==
  ASSUME NEW T, NEW a \in Seq(T), NEW v \in Seq(T), NEW n, n = Len(v)
  PROVE  Upto(a, v, n) = a \o v
<1>1. n \in 0 .. Len(v)
  OBVIOUS
<1> QED
  BY <1>1, SomeOf

LEMMA SamePage ==
  ASSUME NEW p \in Pages, NEW q \in Pages, p.names = q.names, p.calls = q.calls, p.execs = q.execs,
         p.items = q.items, p.text = q.text, p.thinking = q.thinking
  PROVE  p = q
BY DEF Pages

Rows(z, o) ==
  /\ Talk(z, o).names \in Seq(Tags) /\ Talk(z, o).calls \in Seq(DoneCall)
  /\ Talk(z, o).execs \in Seq(DoneExec) /\ Talk(z, o).items \in Seq(TurnItem)
  /\ Talk(z, o).text \in Seq(Nat) /\ Talk(z, o).thinking \in Seq(Nat)

LEMMA TalkRows ==
  ASSUME NEW z \in Seq(Rounds), NEW o \in Rounds
  PROVE  Rows(z, o)
<1>1. Talk(z, o) \in Pages
  BY TalkPage DEF TalkIs
<1> QED
  BY <1>1, PageFields DEF Rows

LEMMA MidPage ==
  ASSUME NEW z \in Seq(Rounds), NEW o \in Rounds, NEW n \in 0 .. Len(o.calls), NEW m \in 0 .. Len(o.calls)
  PROVE  Mid(z, o, n, m) \in Pages
<1>1. Rows(z, o) /\ LeafRows(o, Len(o.calls))
  BY TalkRows, LeafRow
<1>2. Upto(Talk(z, o).names, NamesIn(o), n) \in Seq(Tags)
  BY <1>1, SomeOf DEF Rows, LeafRows
<1>3. Upto(Talk(z, o).calls, CallsIn(o), n) \in Seq(DoneCall)
  BY <1>1, SomeOf DEF Rows, LeafRows
<1>4. Upto(Talk(z, o).execs, ExecsIn(o), m) \in Seq(DoneExec)
  BY <1>1, SomeOf DEF Rows, LeafRows
<1>5. Upto(Talk(z, o).items, MarksIn(o), m) \in Seq(TurnItem)
  BY <1>1, SomeOf DEF Rows, LeafRows
<1> QED
  BY <1>1, <1>2, <1>3, <1>4, <1>5 DEF Rows, Mid, Pages, Words, NameRow, CallRow, ExecRow, ItemRow

LEMMA MidStarts ==
  ASSUME NEW z \in Seq(Rounds), NEW o \in Rounds
  PROVE  Mid(z, o, 0, 0) = Talk(z, o)
<1>1. Rows(z, o) /\ LeafRows(o, Len(o.calls))
  BY TalkRows, LeafRow
<1>0. 0 \in 0 .. Len(o.calls)
  BY <1>1 DEF LeafRows
<1>2. Upto(Talk(z, o).names, NamesIn(o), 0) = Talk(z, o).names
  BY <1>0, <1>1, SomeOf DEF Rows, LeafRows
<1>3. Upto(Talk(z, o).calls, CallsIn(o), 0) = Talk(z, o).calls
  BY <1>0, <1>1, SomeOf DEF Rows, LeafRows
<1>4. Upto(Talk(z, o).execs, ExecsIn(o), 0) = Talk(z, o).execs
  BY <1>0, <1>1, SomeOf DEF Rows, LeafRows
<1>5. Upto(Talk(z, o).items, MarksIn(o), 0) = Talk(z, o).items
  BY <1>0, <1>1, SomeOf DEF Rows, LeafRows
<1>6. Talk(z, o) \in Pages
  BY TalkPage DEF TalkIs
<1> QED
  BY <1>2, <1>3, <1>4, <1>5, <1>6 DEF Mid, Pages

LEMMA MidOrdered ==
  ASSUME NEW z \in Seq(Rounds), NEW o \in Rounds, NEW n \in Nat, n < Len(o.calls),
         NEW t, t = o.calls[n + 1]
  PROVE  Ordered(Headed(Mid(z, o, n, 0), t.tag), CalledOf(t)) = Mid(z, o, n + 1, 0)
<1>1. Rows(z, o) /\ LeafRows(o, Len(o.calls))
  BY TalkRows, LeafRow
<1>n. n \in 0 .. Len(o.calls) /\ n + 1 \in 1 .. Len(o.calls) /\ n + 1 \in 0 .. Len(o.calls)
      /\ 0 \in 0 .. Len(o.calls)
  BY <1>1 DEF LeafRows
<1>2. Upto(Talk(z, o).names, NamesIn(o), n + 1) = Append(Upto(Talk(z, o).names, NamesIn(o), n), t.tag)
  <2>1. Talk(z, o).names \in Seq(Tags)
    BY <1>1 DEF Rows
  <2>2. NamesIn(o) \in Seq(Tags) /\ n < Len(NamesIn(o)) /\ t.tag = NamesIn(o)[n + 1]
    BY <1>1, <1>n DEF LeafRows
  <2> QED
    BY ONLY n \in Nat, <2>1, <2>2, OneMore
<1>3. Upto(Talk(z, o).calls, CallsIn(o), n + 1) = Append(Upto(Talk(z, o).calls, CallsIn(o), n), CalledOf(t))
  <2>1. Talk(z, o).calls \in Seq(DoneCall)
    BY <1>1 DEF Rows
  <2>2. CallsIn(o) \in Seq(DoneCall) /\ n < Len(CallsIn(o)) /\ CalledOf(t) = CallsIn(o)[n + 1]
    BY <1>1, <1>n DEF LeafRows
  <2> QED
    BY ONLY n \in Nat, <2>1, <2>2, OneMore
<1>t. t \in ToolCalls
  BY <1>1, <1>n DEF LeafRows
<1>4. t.tag \in Tags /\ CalledOf(t) \in DoneCall
  BY <1>t, CallMade
<1>5. PICK p \in Pages : p = Mid(z, o, n, 0)
  BY <1>n, MidPage
<1>6. PICK h : h = Headed(p, t.tag)
  OBVIOUS
<1>7. IsHeaded(p, t.tag, h)
  BY ONLY p \in Pages, <1>4, <1>6, HeadedPage
<1>h. h \in Pages
  BY ONLY <1>7 DEF IsHeaded
<1>8. PICK b : b = Ordered(h, CalledOf(t))
  OBVIOUS
<1>9. IsOrdered(h, CalledOf(t), b)
  BY ONLY <1>h, <1>4, <1>8, OrderedPage
<1>a. b \in Pages /\ b.names = Append(p.names, t.tag) /\ b.calls = Append(p.calls, CalledOf(t))
      /\ b.execs = p.execs /\ b.items = p.items /\ b.text = p.text /\ b.thinking = p.thinking
  BY ONLY <1>7, <1>9 DEF IsHeaded, IsOrdered
<1>b. PICK q \in Pages : q = Mid(z, o, n + 1, 0)
  BY <1>n, MidPage
<1>c. b.names = q.names /\ b.calls = q.calls /\ b.execs = q.execs /\ b.items = q.items
      /\ b.text = q.text /\ b.thinking = q.thinking
  BY ONLY <1>2, <1>3, <1>5, <1>a, <1>b DEF Mid
<1>d. b = q
  BY ONLY <1>a, <1>b, <1>c, SamePage
<1> QED
  BY ONLY <1>5, <1>6, <1>8, <1>b, <1>d

LEMMA MidServed ==
  ASSUME NEW z \in Seq(Rounds), NEW o \in Rounds, NEW n \in 0 .. Len(o.calls),
         NEW m \in Nat, m < Len(o.calls), NEW x, x = Execution(o.calls[m + 1])
  PROVE  Served(Mid(z, o, n, m), x) = Mid(z, o, n, m + 1)
<1>1. Rows(z, o) /\ LeafRows(o, Len(o.calls))
  BY TalkRows, LeafRow
<1>n. m \in 0 .. Len(o.calls) /\ m + 1 \in 1 .. Len(o.calls) /\ m + 1 \in 0 .. Len(o.calls)
  BY <1>1 DEF LeafRows
<1>2. Upto(Talk(z, o).execs, ExecsIn(o), m + 1) = Append(Upto(Talk(z, o).execs, ExecsIn(o), m), x)
  <2>1. Talk(z, o).execs \in Seq(DoneExec)
    BY <1>1 DEF Rows
  <2>2. ExecsIn(o) \in Seq(DoneExec) /\ m < Len(ExecsIn(o)) /\ x = ExecsIn(o)[m + 1]
    BY <1>1, <1>n DEF LeafRows
  <2> QED
    BY ONLY m \in Nat, <2>1, <2>2, OneMore
<1>3. Upto(Talk(z, o).items, MarksIn(o), m + 1) = Append(Upto(Talk(z, o).items, MarksIn(o), m), ToolMark(x))
  <2>1. Talk(z, o).items \in Seq(TurnItem)
    BY <1>1 DEF Rows
  <2>2. MarksIn(o) \in Seq(TurnItem) /\ m < Len(MarksIn(o)) /\ ToolMark(x) = MarksIn(o)[m + 1]
    BY <1>1, <1>n DEF LeafRows
  <2> QED
    BY ONLY m \in Nat, <2>1, <2>2, OneMore
<1>t. o.calls[m + 1] \in ToolCalls
  BY <1>1, <1>n DEF LeafRows
<1>4. x \in DoneExec
  BY <1>t, CallMade
<1>5. PICK p \in Pages : p = Mid(z, o, n, m)
  BY <1>n, MidPage
<1>8. PICK b : b = Served(p, x)
  OBVIOUS
<1>9. IsServed(p, x, b)
  BY ONLY p \in Pages, <1>4, <1>8, ServedPage
<1>b. PICK q \in Pages : q = Mid(z, o, n, m + 1)
  BY <1>n, MidPage
<1>c. b \in Pages /\ b.names = q.names /\ b.calls = q.calls /\ b.execs = q.execs
      /\ b.items = q.items /\ b.text = q.text /\ b.thinking = q.thinking
  BY ONLY <1>2, <1>3, <1>5, <1>9, <1>b DEF Mid, IsServed
<1>d. b = q
  BY ONLY <1>b, <1>c, SamePage
<1> QED
  BY ONLY <1>5, <1>8, <1>b, <1>d

LEMMA MidEnds ==
  ASSUME NEW z \in Seq(Rounds), NEW o \in Rounds
  PROVE  /\ Mid(z, o, Len(o.calls), Len(o.calls)) = PageOf(Append(z, o))
         /\ PageOf(Append(z, o)).items = Talk(z, o).items \o MarksIn(o)
<1>1. Rows(z, o) /\ LeafRows(o, Len(o.calls)) /\ TalkIs(z, o, Talk(z, o))
  BY TalkRows, LeafRow, TalkPage
<1>n. Len(o.calls) \in 0 .. Len(o.calls)
  BY <1>1 DEF LeafRows
<1>p. PageOf(z) \in Pages /\ Joins(PageOf(z), Leaf(o), PageOf(Append(z, o)))
  BY PageGrows
<1>2. Upto(Talk(z, o).names, NamesIn(o), Len(o.calls)) = PageOf(z).names \o NamesIn(o)
  <2>1. Talk(z, o).names \in Seq(Tags) /\ Talk(z, o).names = PageOf(z).names
    BY <1>1 DEF Rows, TalkIs
  <2>2. NamesIn(o) \in Seq(Tags) /\ Len(o.calls) = Len(NamesIn(o))
    BY <1>1 DEF LeafRows
  <2> QED
    BY ONLY <2>1, <2>2, AllOf
<1>3. Upto(Talk(z, o).calls, CallsIn(o), Len(o.calls)) = PageOf(z).calls \o CallsIn(o)
  <2>1. Talk(z, o).calls \in Seq(DoneCall) /\ Talk(z, o).calls = PageOf(z).calls
    BY <1>1 DEF Rows, TalkIs
  <2>2. CallsIn(o) \in Seq(DoneCall) /\ Len(o.calls) = Len(CallsIn(o))
    BY <1>1 DEF LeafRows
  <2> QED
    BY ONLY <2>1, <2>2, AllOf
<1>4. Upto(Talk(z, o).execs, ExecsIn(o), Len(o.calls)) = PageOf(z).execs \o ExecsIn(o)
  <2>1. Talk(z, o).execs \in Seq(DoneExec) /\ Talk(z, o).execs = PageOf(z).execs
    BY <1>1 DEF Rows, TalkIs
  <2>2. ExecsIn(o) \in Seq(DoneExec) /\ Len(o.calls) = Len(ExecsIn(o))
    BY <1>1 DEF LeafRows
  <2> QED
    BY ONLY <2>1, <2>2, AllOf
<1>5. Upto(Talk(z, o).items, MarksIn(o), Len(o.calls)) = Talk(z, o).items \o MarksIn(o)
  <2>1. Talk(z, o).items \in Seq(TurnItem)
    BY <1>1 DEF Rows, TalkIs
  <2>2. MarksIn(o) \in Seq(TurnItem) /\ Len(o.calls) = Len(MarksIn(o))
    BY <1>1 DEF LeafRows
  <2> QED
    BY ONLY <2>1, <2>2, AllOf
<1>6. Talk(z, o).items \o MarksIn(o) = PageOf(z).items \o (TalkIn(o) \o MarksIn(o))
  <2>1. PageOf(z).items \in Seq(TurnItem)
    BY <1>p, PageFields
  <2>2. TalkIn(o) \in Seq(TurnItem)
    BY LeafPage
  <2>3. MarksIn(o) \in Seq(TurnItem)
    BY <1>1 DEF LeafRows
  <2>4. Talk(z, o).items = PageOf(z).items \o TalkIn(o)
    BY <1>1 DEF TalkIs
  <2> QED
    <3>1. PICK a \in Seq(TurnItem) : a = PageOf(z).items
      BY ONLY <2>1
    <3>2. PICK b \in Seq(TurnItem) : b = TalkIn(o)
      BY ONLY <2>2
    <3>3. PICK c \in Seq(TurnItem) : c = MarksIn(o)
      BY ONLY <2>3
    <3>4. (a \o b) \o c = a \o (b \o c)
      BY ONLY a \in Seq(TurnItem), b \in Seq(TurnItem), c \in Seq(TurnItem), JoinItems
    <3> QED
      BY ONLY <2>4, <3>1, <3>2, <3>3, <3>4
<1>7. PageOf(Append(z, o)).names = PageOf(z).names \o NamesIn(o)
      /\ PageOf(Append(z, o)).calls = PageOf(z).calls \o CallsIn(o)
      /\ PageOf(Append(z, o)).execs = PageOf(z).execs \o ExecsIn(o)
      /\ PageOf(Append(z, o)).items = PageOf(z).items \o (TalkIn(o) \o MarksIn(o))
      /\ PageOf(Append(z, o)).text = PageOf(z).text \o o.text
      /\ PageOf(Append(z, o)).thinking = PageOf(z).thinking \o o.thinking
  BY <1>p DEF Joins, Leaf
<1>8. Talk(z, o).text = PageOf(z).text \o o.text /\ Talk(z, o).thinking = PageOf(z).thinking \o o.thinking
  BY <1>1 DEF TalkIs
<1>9. PageOf(Append(z, o)) \in Pages
  <2>1. Append(z, o) \in Seq(Rounds)
    OBVIOUS
  <2> QED
    BY <2>1, PageGrows
<1>a. PICK p \in Pages : p = PageOf(Append(z, o))
  BY <1>9
<1>b. /\ p.names = Upto(Talk(z, o).names, NamesIn(o), Len(o.calls))
      /\ p.calls = Upto(Talk(z, o).calls, CallsIn(o), Len(o.calls))
      /\ p.execs = Upto(Talk(z, o).execs, ExecsIn(o), Len(o.calls))
      /\ p.items = Upto(Talk(z, o).items, MarksIn(o), Len(o.calls))
      /\ p.text = Talk(z, o).text /\ p.thinking = Talk(z, o).thinking
  BY <1>a, <1>2, <1>3, <1>4, <1>5, <1>6, <1>7, <1>8
<1>c. Mid(z, o, Len(o.calls), Len(o.calls)) = p
  <2>1. PICK q \in Pages : q = Mid(z, o, Len(o.calls), Len(o.calls))
    BY <1>n, MidPage
  <2>2. p.names = q.names /\ p.calls = q.calls /\ p.execs = q.execs /\ p.items = q.items
        /\ p.text = q.text /\ p.thinking = q.thinking
    BY ONLY <1>b, <2>1 DEF Mid
  <2> QED
    BY ONLY p \in Pages, <2>1, <2>2, SamePage
<1> QED
  BY <1>a, <1>c, <1>6, <1>7

(* The items of the turn that ends with o, taken apart.                    *)
ItemsOf(z, o) == PageOf(Append(z, o)).items

ItemParts(z, o, a, b, c, d) ==
  /\ a \in Seq(TurnItem) /\ b \in Seq(TurnItem) /\ c \in Seq(TurnItem) /\ d \in Seq(TurnItem)
  /\ a = PageOf(z).items /\ b = Segment("thinking", o.thinking) /\ c = Segment("text", o.text)
  /\ d = MarksIn(o)
  /\ Thought(PageOf(z), o.thinking).items = a \o b
  /\ Talk(z, o).items = (a \o b) \o c
  /\ ItemsOf(z, o) = ((a \o b) \o c) \o d

LEMMA ItemsApart ==
  ASSUME NEW z \in Seq(Rounds), NEW o \in Rounds
  PROVE  \E a, b, c, d : ItemParts(z, o, a, b, c, d)
<1>1. o.text \in Seq(Nat) /\ o.thinking \in Seq(Nat)
  BY LeafPage
<1>p. PageOf(z) \in Pages
  BY PageGrows
<1>2. PICK p \in Pages : p = PageOf(z)
  BY <1>p
<1>3. PICK t : t = Thought(p, o.thinking)
  OBVIOUS
<1>4. IsThought(p, o.thinking, t)
  BY ONLY p \in Pages, <1>1, <1>3, ThoughtPage
<1>5. PICK s : s = Spoken(t, o.text)
  OBVIOUS
<1>t. t \in Pages
  BY ONLY <1>4 DEF IsThought
<1>6. IsSpoken(t, o.text, s)
  BY ONLY <1>1, <1>t, <1>5, SpokenPage
<1>7. Segment("thinking", o.thinking) \in Seq(TurnItem) /\ Segment("text", o.text) \in Seq(TurnItem)
  BY <1>1, SegmentType
<1>8. MarksIn(o) \in Seq(TurnItem)
  BY LeafRow DEF LeafRows
<1>9. p.items \in Seq(TurnItem)
  BY PageFields
<1>10. ItemsOf(z, o) = Talk(z, o).items \o MarksIn(o)
  BY MidEnds DEF ItemsOf
<1>11. Talk(z, o) = s
  BY ONLY <1>2, <1>3, <1>5 DEF Talk
<1>12. t.items = p.items \o Segment("thinking", o.thinking) /\ s.items = t.items \o Segment("text", o.text)
  BY ONLY <1>4, <1>6 DEF IsThought, IsSpoken
<1>13. ItemParts(z, o, p.items, Segment("thinking", o.thinking), Segment("text", o.text), MarksIn(o))
  BY ONLY <1>2, <1>3, <1>7, <1>8, <1>9, <1>10, <1>11, <1>12 DEF ItemParts
<1> QED
  BY <1>13

FourJoin(a, b, c, d) ==
  /\ a \o b \in Seq(TurnItem) /\ c \o d \in Seq(TurnItem) /\ (a \o b) \o c \in Seq(TurnItem)
  /\ ((a \o b) \o c) \o d = (a \o b) \o (c \o d)

LEMMA JoinFour ==
  ASSUME NEW a \in Seq(TurnItem), NEW b \in Seq(TurnItem), NEW c \in Seq(TurnItem), NEW d \in Seq(TurnItem)
  PROVE  FourJoin(a, b, c, d)
<1>1. a \o b \in Seq(TurnItem) /\ c \o d \in Seq(TurnItem)
  OBVIOUS
<1>2. PICK x \in Seq(TurnItem) : x = a \o b
  BY ONLY <1>1
<1>3. ThreeJoin(x, c, d)
  BY ONLY x \in Seq(TurnItem), c \in Seq(TurnItem), d \in Seq(TurnItem), JoinInTurn
<1> QED
  BY ONLY <1>1, <1>2, <1>3 DEF FourJoin, ThreeJoin

LEMMA CutThinking ==
  ASSUME NEW z \in Seq(Rounds), NEW o \in Rounds, NEW y \in Seq(Nat), IsPrefix(y, o.thinking)
  PROVE  Cut(PageOf(z).items \o Segment("thinking", y), ItemsOf(z, o))
<1>1. PICK a, b, c, d : ItemParts(z, o, a, b, c, d)
  BY ItemsApart
<1>2. a \in Seq(TurnItem) /\ b \in Seq(TurnItem) /\ c \in Seq(TurnItem) /\ d \in Seq(TurnItem)
  BY <1>1 DEF ItemParts
<1>f. FourJoin(a, b, c, d)
  BY ONLY <1>2, JoinFour
<1>3. c \o d \in Seq(TurnItem) /\ ((a \o b) \o c) \o d = (a \o b) \o (c \o d)
  BY ONLY <1>f DEF FourJoin
<1>4. PICK e \in Seq(TurnItem) : e = c \o d
  BY ONLY <1>3
<1>5. o.thinking \in Seq(Nat)
  BY LeafPage
<1>6. ItemsOf(z, o) = (a \o Segment("thinking", o.thinking)) \o e
  BY ONLY <1>1, <1>3, <1>4 DEF ItemParts
<1>7. Cut(a \o Segment("thinking", y), ItemsOf(z, o))
  BY ONLY <1>2, <1>4, <1>5, <1>6, y \in Seq(Nat), IsPrefix(y, o.thinking), CutSegment
<1> QED
  BY ONLY <1>1, <1>7 DEF ItemParts

LEMMA CutText ==
  ASSUME NEW z \in Seq(Rounds), NEW o \in Rounds, NEW y \in Seq(Nat), IsPrefix(y, o.text)
  PROVE  Cut(Thought(PageOf(z), o.thinking).items \o Segment("text", y), ItemsOf(z, o))
<1>1. PICK a, b, c, d : ItemParts(z, o, a, b, c, d)
  BY ItemsApart
<1>2. a \in Seq(TurnItem) /\ b \in Seq(TurnItem) /\ c \in Seq(TurnItem) /\ d \in Seq(TurnItem)
  BY <1>1 DEF ItemParts
<1>f. FourJoin(a, b, c, d)
  BY ONLY <1>2, JoinFour
<1>3. a \o b \in Seq(TurnItem)
  BY ONLY <1>f DEF FourJoin
<1>4. PICK e \in Seq(TurnItem) : e = a \o b
  BY ONLY <1>3
<1>5. o.text \in Seq(Nat)
  BY LeafPage
<1>6. ItemsOf(z, o) = (e \o Segment("text", o.text)) \o d
  BY ONLY <1>1, <1>4 DEF ItemParts
<1>7. Cut(e \o Segment("text", y), ItemsOf(z, o))
  BY ONLY <1>2, <1>4, <1>5, <1>6, y \in Seq(Nat), IsPrefix(y, o.text), CutSegment
<1> QED
  BY ONLY <1>1, <1>4, <1>7 DEF ItemParts

LEMMA ItemsType ==
  ASSUME NEW z \in Seq(Rounds), NEW o \in Rounds
  PROVE  /\ PageOf(z).items \in Seq(TurnItem) /\ ItemsOf(z, o) \in Seq(TurnItem)
         /\ Cut(PageOf(z).items, ItemsOf(z, o))
         /\ Cut(Thought(PageOf(z), o.thinking).items, ItemsOf(z, o))
<1>1. PageOf(z) \in Pages
  BY PageGrows
<1>2. PageOf(Append(z, o)) \in Pages
  <2>1. Append(z, o) \in Seq(Rounds)
    OBVIOUS
  <2> QED
    BY <2>1, PageGrows
<1>3. PageOf(z).items \in Seq(TurnItem) /\ ItemsOf(z, o) \in Seq(TurnItem)
  BY <1>1, <1>2, PageFields DEF ItemsOf
<1>4. <<>> \in Seq(Nat) /\ o.thinking \in Seq(Nat) /\ o.text \in Seq(Nat)
  BY LeafPage
<1>5. IsPrefix(<<>>, o.thinking) /\ IsPrefix(<<>>, o.text)
  BY <1>4 DEF IsPrefix
<1>6. PICK a \in Seq(TurnItem), t \in Seq(TurnItem) :
        a = PageOf(z).items /\ t = Thought(PageOf(z), o.thinking).items
  <2>1. PICK a, b, c, d : ItemParts(z, o, a, b, c, d)
    BY ItemsApart
  <2>2. a \in Seq(TurnItem) /\ b \in Seq(TurnItem) /\ c \in Seq(TurnItem) /\ d \in Seq(TurnItem)
    BY <2>1 DEF ItemParts
  <2>f. FourJoin(a, b, c, d)
    BY ONLY <2>2, JoinFour
  <2>3. a \o b \in Seq(TurnItem)
    BY ONLY <2>f DEF FourJoin
  <2> QED
    BY ONLY <2>1, <2>2, <2>3 DEF ItemParts
<1>7. a \o Segment("thinking", <<>>) = a /\ t \o Segment("text", <<>>) = t
  BY ONLY a \in Seq(TurnItem), t \in Seq(TurnItem), SegmentIs
<1>8. Cut(PageOf(z).items \o Segment("thinking", <<>>), ItemsOf(z, o))
  BY ONLY z \in Seq(Rounds), o \in Rounds, <1>4, <1>5, CutThinking
<1>9. Cut(Thought(PageOf(z), o.thinking).items \o Segment("text", <<>>), ItemsOf(z, o))
  BY ONLY z \in Seq(Rounds), o \in Rounds, <1>4, <1>5, CutText
<1> QED
  BY ONLY <1>3, <1>6, <1>7, <1>8, <1>9

(* A round that is heard on adds to the end.                               *)
Onward(o, x) ==
  /\ o \in Rounds /\ x \in Rounds /\ o.calls = <<>>
  /\ IsPrefix(o.thinking, x.thinking) /\ IsPrefix(o.text, x.text)
  /\ o.text = <<>> \/ x.thinking = o.thinking

LEMMA CutHeard ==
  ASSUME NEW z \in Seq(Rounds), NEW o, NEW x, Onward(o, x)
  PROVE  Cut(ItemsOf(z, o), ItemsOf(z, x))
<1>0. o \in Rounds /\ x \in Rounds
  BY DEF Onward
<1>1. PICK a, b, c, d : ItemParts(z, o, a, b, c, d)
  BY <1>0, ItemsApart
<1>2. a \in Seq(TurnItem) /\ b \in Seq(TurnItem) /\ c \in Seq(TurnItem) /\ d \in Seq(TurnItem)
  BY <1>1 DEF ItemParts
<1>f. FourJoin(a, b, c, d)
  BY ONLY <1>2, JoinFour
<1>3. d = <<>>
  <2>1. Len(MarksIn(o)) = 0
    BY <1>0, LeafRow DEF LeafRows, Onward
  <2> QED
    BY <1>1, <1>2, <2>1 DEF ItemParts
<1>4. (a \o b) \o c \in Seq(TurnItem)
  BY ONLY <1>f DEF FourJoin
<1>5. ItemsOf(z, o) = (a \o b) \o c
  <2>1. PICK e \in Seq(TurnItem) : e = (a \o b) \o c
    BY ONLY <1>4
  <2>2. ItemsOf(z, o) = e \o <<>>
    BY ONLY <1>1, <1>3, <2>1 DEF ItemParts
  <2>3. e \o <<>> = e
    BY ONLY e \in Seq(TurnItem)
  <2> QED
    BY ONLY <2>1, <2>2, <2>3
<1>6. o.thinking \in Seq(Nat) /\ o.text \in Seq(Nat)
  BY <1>0, LeafPage
<1>7. CASE o.text = <<>>
  <2>1. a \o b \in Seq(TurnItem)
    BY ONLY <1>f DEF FourJoin
  <2>2. (a \o b) \o c = a \o b
    <3>1. PICK e \in Seq(TurnItem) : e = a \o b
      BY ONLY <2>1
    <3>2. e \o Segment("text", o.text) = e
      BY ONLY e \in Seq(TurnItem), <1>7, SegmentIs
    <3> QED
      BY ONLY <1>1, <3>1, <3>2 DEF ItemParts
  <2>3. Cut(PageOf(z).items \o Segment("thinking", o.thinking), ItemsOf(z, x))
    BY <1>0, <1>6, CutThinking DEF Onward
  <2> QED
    BY ONLY <1>1, <1>5, <2>2, <2>3 DEF ItemParts
<1>8. CASE x.thinking = o.thinking
  <2>1. Cut(Thought(PageOf(z), x.thinking).items \o Segment("text", o.text), ItemsOf(z, x))
    BY <1>0, <1>6, CutText DEF Onward
  <2> QED
    BY ONLY <1>1, <1>5, <1>8, <2>1 DEF ItemParts
<1> QED
  BY <1>7, <1>8 DEF Onward

(* The calls come behind what is said.                                     *)
LEMMA CutCalls ==
  ASSUME NEW z \in Seq(Rounds), NEW o \in Rounds, NEW x \in Rounds, o.calls = <<>>,
         x.thinking = o.thinking, x.text = o.text
  PROVE  Cut(ItemsOf(z, o), ItemsOf(z, x))
<1>1. o.thinking \in Seq(Nat) /\ o.text \in Seq(Nat)
  BY LeafPage
<1>2. IsPrefix(o.thinking, x.thinking) /\ IsPrefix(o.text, x.text)
  BY <1>1, PrefixSelf
<1>3. Onward(o, x)
  BY <1>2 DEF Onward
<1> QED
  BY <1>3, CutHeard

UptoIs(A, M, m, T, l) ==
  /\ l \in Seq(TurnItem) /\ T \in Seq(TurnItem)
  /\ Len(l) = Len(A) + m /\ Len(T) = Len(A) + Len(M)
  /\ \A i \in 1 .. Len(l) : l[i] = T[i]
  /\ \A i \in 1 .. Len(M) : T[Len(A) + i] = M[i]

LEMMA UptoElements ==
  ASSUME NEW A \in Seq(TurnItem), NEW M \in Seq(TurnItem), NEW m \in 0 .. Len(M), NEW T, T = A \o M,
         NEW l, l = Upto(A, M, m)
  PROVE  UptoIs(A, M, m, T, l)
<1>0. SubSeq(M, 1, m) \in Seq(TurnItem)
  BY SomeOf
<1>1. PICK v \in Seq(TurnItem) : v = SubSeq(M, 1, m)
  BY ONLY <1>0
<1>2. Len(v) = m /\ \A i \in 1 .. m : v[i] = M[i]
  BY <1>1
<1>3. IsConcat(A, v, l, TurnItem) /\ IsConcat(A, M, T, TurnItem)
  BY <1>1, ConcatElements DEF Upto
<1>4. l \in Seq(TurnItem) /\ T \in Seq(TurnItem) /\ Len(A) \in Nat /\ Len(M) \in Nat
      /\ Len(l) = Len(A) + m /\ Len(T) = Len(A) + Len(M)
  BY <1>2, <1>3 DEF IsConcat
<1>5. \A i \in 1 .. Len(A) : l[i] = T[i]
  BY <1>3 DEF IsConcat
<1>6. \A i \in 1 .. m : l[Len(A) + i] = T[Len(A) + i]
  BY <1>2, <1>3 DEF IsConcat
<1>7. ASSUME NEW i \in 1 .. Len(l)
      PROVE  l[i] = T[i]
  <2>1. CASE i <= Len(A)
    BY <2>1, <1>4, <1>5
  <2>2. CASE ~(i <= Len(A))
    <3>1. PICK j \in 1 .. m : i = Len(A) + j
      <4>1. i - Len(A) \in 1 .. m /\ i = Len(A) + (i - Len(A))
        BY <2>2, <1>4
      <4> QED
        BY <4>1
    <3> QED
      BY <3>1, <1>6
  <2> QED
    BY <2>1, <2>2
<1>8. \A i \in 1 .. Len(M) : T[Len(A) + i] = M[i]
  BY <1>3 DEF IsConcat
<1> QED
  BY ONLY <1>4, <1>7, <1>8 DEF UptoIs

LEMMA CutUpto ==
  ASSUME NEW A \in Seq(TurnItem), NEW M \in Seq(TurnItem), NEW m \in 0 .. Len(M)
  PROVE  /\ Cut(Upto(A, M, m), A \o M)
         /\ \A x \in TurnItem :
              m < Len(M) /\ BeginsLike(x, M[m + 1]) => Cut(Append(Upto(A, M, m), x), A \o M)
<1>1. PICK l : l = Upto(A, M, m)
  OBVIOUS
<1>2. PICK T : T = A \o M
  OBVIOUS
<1>3. /\ l \in Seq(TurnItem) /\ T \in Seq(TurnItem)
      /\ Len(l) = Len(A) + m /\ Len(T) = Len(A) + Len(M)
      /\ \A i \in 1 .. Len(l) : l[i] = T[i]
      /\ \A i \in 1 .. Len(M) : T[Len(A) + i] = M[i]
  <2>1. UptoIs(A, M, m, T, l)
    BY <1>1, <1>2, UptoElements
  <2> QED
    BY ONLY <2>1 DEF UptoIs
<1>4. Len(A) \in Nat /\ Len(M) \in Nat
  OBVIOUS
<1>5. Cut(l, T)
  <2>1. Len(l) <= Len(T) /\ Len(l) \in Nat
    BY ONLY <1>3, <1>4, m \in 0 .. Len(M)
  <2>2. Len(l) > 0 => BeginsLike(l[Len(l)], T[Len(l)])
    <3>1. SUFFICES ASSUME Len(l) > 0 PROVE BeginsLike(l[Len(l)], T[Len(l)])
      OBVIOUS
    <3>2. Len(l) \in 1 .. Len(l) /\ l[Len(l)] \in TurnItem
      BY <3>1, <2>1, <1>3
    <3> QED
      BY <3>2, <1>3, BeginsSelf
  <2> QED
    BY <2>1, <2>2, <1>3 DEF Cut
<1>6. ASSUME NEW x \in TurnItem, m < Len(M), BeginsLike(x, M[m + 1])
      PROVE  Cut(Append(l, x), T)
  <2>1. PICK y : y = Append(l, x)
    OBVIOUS
  <2>2. Len(y) = Len(A) + (m + 1) /\ y[Len(y)] = x /\ \A i \in 1 .. Len(y) - 1 : y[i] = l[i]
    <3>1. Len(y) = Len(l) + 1 /\ y[Len(l) + 1] = x /\ \A i \in 1 .. Len(l) : y[i] = l[i]
      BY ONLY <2>1, <1>3, x \in TurnItem
    <3>2. Len(l) + 1 = Len(A) + (m + 1) /\ Len(l) + 1 - 1 = Len(l)
      BY ONLY <1>3, <1>4, m \in 0 .. Len(M)
    <3> QED
      BY ONLY <3>1, <3>2
  <2>3. Len(y) - 1 = Len(l) /\ m + 1 \in 1 .. Len(M) /\ Len(y) <= Len(T)
    BY ONLY <2>2, <1>3, <1>4, <1>6, m \in 0 .. Len(M)
  <2>4. T[Len(y)] = M[m + 1]
    BY ONLY <2>2, <2>3, <1>3
  <2>5. \A i \in 1 .. Len(y) - 1 : y[i] = T[i]
    BY ONLY <2>2, <2>3, <1>3
  <2>6. Cut(y, T)
    BY ONLY <2>2, <2>3, <2>4, <2>5, <1>6 DEF Cut
  <2> QED
    BY ONLY <2>1, <2>6
<1> QED
  BY ONLY <1>1, <1>2, <1>5, <1>6

LEMMA CutMid ==
  ASSUME NEW z \in Seq(Rounds), NEW o \in Rounds, NEW n, NEW m \in 0 .. Len(o.calls)
  PROVE  /\ Cut(Mid(z, o, n, m).items, ItemsOf(z, o))
         /\ \A x \in TurnItem :
              m < Len(o.calls) /\ BeginsLike(x, ToolMark(Execution(o.calls[m + 1]))) =>
                Cut(Append(Mid(z, o, n, m).items, x), ItemsOf(z, o))
<1>1. Talk(z, o).items \in Seq(TurnItem)
  BY TalkRows DEF Rows
<1>2. MarksIn(o) \in Seq(TurnItem) /\ Len(MarksIn(o)) = Len(o.calls)
      /\ (m < Len(o.calls) => MarksIn(o)[m + 1] = ToolMark(Execution(o.calls[m + 1])))
  <2>1. LeafRows(o, Len(o.calls))
    BY LeafRow
  <2>2. Len(o.calls) \in Nat /\ \A k \in 1 .. Len(o.calls) : MarksIn(o)[k] = ToolMark(Execution(o.calls[k]))
    BY ONLY <2>1 DEF LeafRows
  <2>3. m < Len(o.calls) => m + 1 \in 1 .. Len(o.calls)
    BY ONLY <2>2, m \in 0 .. Len(o.calls)
  <2>4. MarksIn(o) \in Seq(TurnItem) /\ Len(MarksIn(o)) = Len(o.calls)
    BY ONLY <2>1 DEF LeafRows
  <2> QED
    BY ONLY <2>2, <2>3, <2>4
<1>3. PICK A \in Seq(TurnItem) : A = Talk(z, o).items
  BY ONLY <1>1
<1>4. PICK M \in Seq(TurnItem) : M = MarksIn(o)
  BY ONLY <1>2
<1>5. ItemsOf(z, o) = A \o M /\ Mid(z, o, n, m).items = Upto(A, M, m)
  BY <1>3, <1>4, MidEnds DEF ItemsOf, Mid
<1>6. /\ Cut(Upto(A, M, m), A \o M)
      /\ \A x \in TurnItem :
           m < Len(M) /\ BeginsLike(x, M[m + 1]) => Cut(Append(Upto(A, M, m), x), A \o M)
  <2>1. m \in 0 .. Len(M)
    BY ONLY m \in 0 .. Len(o.calls), <1>2, <1>4
  <2> QED
    BY ONLY A \in Seq(TurnItem), M \in Seq(TurnItem), <2>1, CutUpto
<1> QED
  BY ONLY <1>2, <1>4, <1>5, <1>6

(* The calls of a turn go by their rounds, and are as many as their names. *)
Labelled(o, n) == \A k \in 1 .. Len(o.calls) : o.calls[k].id = <<n, k>>

Sound(q) ==
  /\ Len(PageOf(q).calls) = Len(PageOf(q).names)
  /\ \A k \in 1 .. Len(PageOf(q).calls) : PageOf(q).calls[k].id[1] \in 1 .. Len(q)

CallsJoin(z, o, a, b, c) ==
  /\ a \in Seq(DoneCall) /\ b \in Seq(DoneCall) /\ IsConcat(a, b, c, DoneCall)
  /\ a = PageOf(z).calls /\ Len(b) = Len(o.calls)
  /\ \A k \in 1 .. Len(b) : b[k] = CalledOf(o.calls[k])
  /\ c = PageOf(Append(z, o)).calls
  /\ \A m : Mid(z, o, Len(o.calls), m).calls = c

LEMMA CallsApart ==
  ASSUME NEW z \in Seq(Rounds), NEW o \in Rounds
  PROVE  \E a, b, c : CallsJoin(z, o, a, b, c)
<1>1. PageOf(z) \in Pages /\ PageOf(Append(z, o)).calls = PageOf(z).calls \o CallsIn(o)
  BY PageGrows DEF Joins, Leaf
<1>2. PageOf(z).calls \in Seq(DoneCall)
  BY <1>1, PageFields
<1>3. CallsIn(o) \in Seq(DoneCall) /\ Len(CallsIn(o)) = Len(o.calls)
      /\ \A k \in 1 .. Len(o.calls) : CallsIn(o)[k] = CalledOf(o.calls[k])
  BY LeafRow DEF LeafRows
<1>4. IsConcat(PageOf(z).calls, CallsIn(o), PageOf(z).calls \o CallsIn(o), DoneCall)
  BY ONLY <1>2, <1>3, ConcatElements
<1>5. \A m : Mid(z, o, Len(o.calls), m).calls = PageOf(Append(z, o)).calls
  <2>1. Mid(z, o, Len(o.calls), Len(o.calls)) = PageOf(Append(z, o))
    BY MidEnds
  <2>2. \A m : Mid(z, o, Len(o.calls), m).calls = Mid(z, o, Len(o.calls), Len(o.calls)).calls
    BY DEF Mid
  <2> QED
    BY ONLY <2>1, <2>2
<1>6. CallsJoin(z, o, PageOf(z).calls, CallsIn(o), PageOf(Append(z, o)).calls)
  BY ONLY <1>1, <1>2, <1>3, <1>4, <1>5 DEF CallsJoin
<1> QED
  BY <1>6

LEMMA CallsLength ==
  ASSUME NEW z, NEW o, NEW a, NEW b, NEW c, CallsJoin(z, o, a, b, c)
  PROVE  Len(c) = Len(a) + Len(b) /\ Len(a) \in Nat /\ Len(b) \in Nat /\ DOMAIN c = 1 .. Len(c)
<1>1. c \in Seq(DoneCall) /\ DOMAIN c = 1 .. Len(a) + Len(b) /\ Len(a) \in Nat /\ Len(b) \in Nat
  BY DEF CallsJoin, IsConcat
<1>2. Len(c) \in Nat /\ DOMAIN c = 1 .. Len(c)
  BY ONLY <1>1
<1> QED
  BY ONLY <1>1, <1>2

LEMMA SoundMore ==
  ASSUME NEW z \in Seq(Rounds), NEW o \in Rounds, Sound(z), Labelled(o, Len(z) + 1)
  PROVE  Sound(Append(z, o))
<1>1. PICK a, b, c : CallsJoin(z, o, a, b, c)
  BY CallsApart
<1>2. Len(z) \in Nat /\ Len(Append(z, o)) = Len(z) + 1
  OBVIOUS
<1>3. Len(c) = Len(a) + Len(b) /\ Len(a) \in Nat /\ Len(b) \in Nat
  BY <1>1, CallsLength
<1>4. Len(PageOf(Append(z, o)).names) = Len(a) + Len(b)
  <2>1. PageOf(z) \in Pages /\ PageOf(Append(z, o)).names = PageOf(z).names \o NamesIn(o)
    BY PageGrows DEF Joins, Leaf
  <2>2. PageOf(z).names \in Seq(Tags)
    BY <2>1, PageFields
  <2>3. NamesIn(o) \in Seq(Tags) /\ Len(NamesIn(o)) = Len(o.calls)
    BY LeafRow DEF LeafRows
  <2>4. Len(PageOf(z).names) = Len(a) /\ Len(NamesIn(o)) = Len(b)
    BY <1>1, <2>3 DEF Sound, CallsJoin
  <2>5. PICK x \in Seq(Tags) : x = PageOf(z).names
    BY ONLY <2>2
  <2>6. PICK y \in Seq(Tags) : y = NamesIn(o)
    BY ONLY <2>3
  <2>7. Len(x \o y) = Len(x) + Len(y)
    BY ONLY x \in Seq(Tags), y \in Seq(Tags)
  <2> QED
    BY ONLY <2>1, <2>4, <2>5, <2>6, <2>7
<1>5. ASSUME NEW k \in 1 .. Len(c)
      PROVE  c[k].id[1] \in 1 .. Len(z) + 1
  <2>1. CASE k <= Len(a)
    <3>1. k \in 1 .. Len(a)
      BY <2>1, <1>3
    <3>2. c[k] = a[k]
      BY <1>1, <3>1 DEF CallsJoin, IsConcat
    <3>3. a[k].id[1] \in 1 .. Len(z)
      BY <1>1, <3>1 DEF Sound, CallsJoin
    <3> QED
      BY ONLY <3>2, <3>3, <1>2
  <2>2. CASE ~(k <= Len(a))
    <3>1. PICK j \in 1 .. Len(b) : k = Len(a) + j
      <4>1. k - Len(a) \in 1 .. Len(b) /\ k = Len(a) + (k - Len(a))
        BY <2>2, <1>3
      <4> QED
        BY <4>1
    <3>2. c[k] = CalledOf(o.calls[j])
      BY <1>1, <3>1 DEF CallsJoin, IsConcat
    <3>3. j \in 1 .. Len(o.calls)
      BY <1>1, <3>1 DEF CallsJoin
    <3>4. c[k].id = <<Len(z) + 1, j>>
      BY <3>2, <3>3 DEF CalledOf, Labelled
    <3> QED
      BY ONLY <3>4, <1>2
  <2> QED
    BY <2>1, <2>2
<1>6. c = PageOf(Append(z, o)).calls
  BY <1>1 DEF CallsJoin
<1> QED
  BY ONLY <1>2, <1>3, <1>4, <1>5, <1>6 DEF Sound

LEMMA SoundCall ==
  ASSUME NEW z \in Seq(Rounds), NEW o \in Rounds, Sound(z), Labelled(o, Len(z) + 1), NEW m,
         NEW k \in 1 .. Len(o.calls)
  PROVE  OnlyCall(Mid(z, o, Len(o.calls), m).calls, CalledOf(o.calls[k]))
<1>1. PICK a, b, c : CallsJoin(z, o, a, b, c)
  BY CallsApart
<1>2. Len(z) \in Nat
  OBVIOUS
<1>3. Len(c) = Len(a) + Len(b) /\ Len(a) \in Nat /\ Len(b) \in Nat /\ DOMAIN c = 1 .. Len(c)
  BY <1>1, CallsLength
<1>4. k \in 1 .. Len(b) /\ CalledOf(o.calls[k]).id = <<Len(z) + 1, k>>
  BY <1>1 DEF CallsJoin, CalledOf, Labelled
<1>5. Len(a) + k \in DOMAIN c /\ c[Len(a) + k] = CalledOf(o.calls[k])
  <2>1. Len(a) + k \in 1 .. Len(c)
    BY ONLY <1>3, <1>4
  <2>2. c[Len(a) + k] = b[k] /\ b[k] = CalledOf(o.calls[k])
    BY <1>1, <1>4 DEF CallsJoin, IsConcat
  <2> QED
    BY <1>3, <2>1, <2>2
<1>6. ASSUME NEW i \in DOMAIN c, c[i].id = CalledOf(o.calls[k]).id
      PROVE  c[i] = CalledOf(o.calls[k])
  <2>1. CASE i <= Len(a)
    <3>1. i \in 1 .. Len(a)
      BY <2>1, <1>3
    <3>2. c[i] = a[i]
      BY <1>1, <3>1 DEF CallsJoin, IsConcat
    <3>3. a[i].id[1] \in 1 .. Len(z)
      BY <1>1, <3>1 DEF Sound, CallsJoin
    <3>4. a[i].id = <<Len(z) + 1, k>>
      BY ONLY <1>4, <1>6, <3>2
    <3>5. Len(z) + 1 \in 1 .. Len(z)
      BY ONLY <3>3, <3>4
    <3> QED
      BY ONLY <3>5, <1>2
  <2>2. CASE ~(i <= Len(a))
    <3>1. PICK j \in 1 .. Len(b) : i = Len(a) + j
      <4>1. i - Len(a) \in 1 .. Len(b) /\ i = Len(a) + (i - Len(a))
        BY <2>2, <1>3
      <4> QED
        BY <4>1
    <3>2. c[i] = CalledOf(o.calls[j])
      BY <1>1, <3>1 DEF CallsJoin, IsConcat
    <3>3. j \in 1 .. Len(o.calls)
      BY <1>1, <3>1 DEF CallsJoin
    <3>4. c[i].id = <<Len(z) + 1, j>>
      BY <3>2, <3>3 DEF CalledOf, Labelled
    <3>5. j = k
      BY ONLY <3>4, <1>4, <1>6
    <3> QED
      BY ONLY <3>2, <3>5
  <2> QED
    BY <2>1, <2>2
<1>7. OnlyCall(c, CalledOf(o.calls[k]))
  BY ONLY <1>5, <1>6 DEF OnlyCall
<1> QED
  BY ONLY <1>1, <1>7 DEF CallsJoin

(* The reader after all of w, which at no event of w would have returned   *)
(* anything but a beginning of T: between blocks, or inside one.           *)
AtRest(w, T, p)          == \E s : Clear(w, T, s) /\ Rests(s, p)
AtThought(w, T, p, y, j) == \E s : Clear(w, T, s) /\ Thinks(s, p, y, j)
AtText(w, T, p, y, j)    == \E s : Clear(w, T, s) /\ Talks(s, p, y, j)

LEMMA AtMore ==
  ASSUME NEW w, NEW T \in Seq(TurnItem), NEW R \in Seq(TurnItem), Cut(T, R), NEW p, NEW y, NEW j
  PROVE  /\ AtRest(w, T, p) => AtRest(w, R, p)
         /\ AtThought(w, T, p, y, j) => AtThought(w, R, p, y, j)
         /\ AtText(w, T, p, y, j) => AtText(w, R, p, y, j)
<1>1. \A s : Clear(w, T, s) => Clear(w, R, s)
  BY ClearMore
<1> QED
  BY ONLY <1>1 DEF AtRest, AtThought, AtText

LEMMA ThoughtStarts ==
  ASSUME NEW w \in Seq(WireEvents), NEW T, NEW p, AtRest(w, T, p), NEW j \in Nat,
         Cut(p.items \o Segment("thinking", <<>>), T),
         NEW v, v = Append(w, BlockStart(j, "thinking"))
  PROVE  AtThought(v, T, p, <<>>, j)
<1>1. PICK s : Clear(w, T, s) /\ Rests(s, p)
  BY DEF AtRest
<1>2. PICK e \in WireEvents : e = BlockStart(j, "thinking")
  BY TalkStart
<1>3. PICK t : t = handleEvent(s, e)
  OBVIOUS
<1>4. Thinks(t, p, <<>>, j)
  BY ONLY j \in Nat, <1>1, <1>2, <1>3, ThinkingBegins
<1>5. Glimpse(t, T)
  BY <1>4, ThinksGlimpse
<1>6. Clear(v, T, t)
  BY <1>1, <1>2, <1>3, <1>5, ClearOn
<1> QED
  BY ONLY <1>4, <1>6 DEF AtThought

LEMMA ThoughtGoesOn ==
  ASSUME NEW w \in Seq(WireEvents), NEW T, NEW p, NEW y, NEW j \in Nat, AtThought(w, T, p, y, j),
         NEW x \in Seq(Nat), Cut(p.items \o Segment("thinking", y \o x), T),
         NEW v, v = Append(w, BlockDelta(j, "thinking", x))
  PROVE  AtThought(v, T, p, y \o x, j)
<1>1. PICK s : Clear(w, T, s) /\ Thinks(s, p, y, j)
  BY DEF AtThought
<1>2. PICK e \in WireEvents : e = BlockDelta(j, "thinking", x)
  BY TalkDelta
<1>3. PICK t : t = handleEvent(s, e)
  OBVIOUS
<1>4. Thinks(t, p, y \o x, j)
  BY ONLY j \in Nat, x \in Seq(Nat), <1>1, <1>2, <1>3, ThinkingGoesOn
<1>5. Glimpse(t, T)
  BY <1>4, ThinksGlimpse
<1>6. Clear(v, T, t)
  BY <1>1, <1>2, <1>3, <1>5, ClearOn
<1> QED
  BY ONLY <1>4, <1>6 DEF AtThought

LEMMA ThoughtStops ==
  ASSUME NEW w \in Seq(WireEvents), NEW T, NEW p, NEW y, NEW j \in Nat, AtThought(w, T, p, y, j),
         Cut(Thought(p, y).items, T), NEW v, v = Append(w, BlockStop(j))
  PROVE  AtRest(v, T, Thought(p, y))
<1>1. PICK s : Clear(w, T, s) /\ Thinks(s, p, y, j)
  BY DEF AtThought
<1>2. PICK e \in WireEvents : e = BlockStop(j)
  BY StopEvent
<1>3. PICK t : t = handleEvent(s, e)
  OBVIOUS
<1>4. Rests(t, Thought(p, y))
  BY ONLY j \in Nat, <1>1, <1>2, <1>3, ThinkingEnds
<1>5. Glimpse(t, T)
  BY <1>4, RestsGlimpse
<1>6. Clear(v, T, t)
  BY <1>1, <1>2, <1>3, <1>5, ClearOn
<1> QED
  BY ONLY <1>4, <1>6 DEF AtRest

LEMMA TextStarts ==
  ASSUME NEW w \in Seq(WireEvents), NEW T, NEW p, AtRest(w, T, p), NEW j \in Nat,
         Cut(p.items \o Segment("text", <<>>), T),
         NEW v, v = Append(w, BlockStart(j, "text"))
  PROVE  AtText(v, T, p, <<>>, j)
<1>1. PICK s : Clear(w, T, s) /\ Rests(s, p)
  BY DEF AtRest
<1>2. PICK e \in WireEvents : e = BlockStart(j, "text")
  BY TalkStart
<1>3. PICK t : t = handleEvent(s, e)
  OBVIOUS
<1>4. Talks(t, p, <<>>, j)
  BY ONLY j \in Nat, <1>1, <1>2, <1>3, TextBegins
<1>5. Glimpse(t, T)
  BY <1>4, TalksGlimpse
<1>6. Clear(v, T, t)
  BY <1>1, <1>2, <1>3, <1>5, ClearOn
<1> QED
  BY ONLY <1>4, <1>6 DEF AtText

LEMMA TextMore ==
  ASSUME NEW w \in Seq(WireEvents), NEW T, NEW p, NEW y, NEW j \in Nat, AtText(w, T, p, y, j),
         NEW x \in Seq(Nat), Cut(p.items \o Segment("text", y \o x), T),
         NEW v, v = Append(w, BlockDelta(j, "text", x))
  PROVE  AtText(v, T, p, y \o x, j)
<1>1. PICK s : Clear(w, T, s) /\ Talks(s, p, y, j)
  BY DEF AtText
<1>2. PICK e \in WireEvents : e = BlockDelta(j, "text", x)
  BY TalkDelta
<1>3. PICK t : t = handleEvent(s, e)
  OBVIOUS
<1>4. Talks(t, p, y \o x, j)
  BY ONLY j \in Nat, x \in Seq(Nat), <1>1, <1>2, <1>3, TextGoesOn
<1>5. Glimpse(t, T)
  BY <1>4, TalksGlimpse
<1>6. Clear(v, T, t)
  BY <1>1, <1>2, <1>3, <1>5, ClearOn
<1> QED
  BY ONLY <1>4, <1>6 DEF AtText

LEMMA TextStops ==
  ASSUME NEW w \in Seq(WireEvents), NEW T, NEW p, NEW y, NEW j \in Nat, AtText(w, T, p, y, j),
         Cut(Spoken(p, y).items, T), NEW v, v = Append(w, BlockStop(j))
  PROVE  AtRest(v, T, Spoken(p, y))
<1>1. PICK s : Clear(w, T, s) /\ Talks(s, p, y, j)
  BY DEF AtText
<1>2. PICK e \in WireEvents : e = BlockStop(j)
  BY StopEvent
<1>3. PICK t : t = handleEvent(s, e)
  OBVIOUS
<1>4. Rests(t, Spoken(p, y))
  BY ONLY j \in Nat, <1>1, <1>2, <1>3, TextEnds
<1>5. Glimpse(t, T)
  BY <1>4, RestsGlimpse
<1>6. Clear(v, T, t)
  BY <1>1, <1>2, <1>3, <1>5, ClearOn
<1> QED
  BY ONLY <1>4, <1>6 DEF AtRest

LEMMA RestStays ==
  ASSUME NEW w \in Seq(WireEvents), NEW T, NEW p, AtRest(w, T, p), Cut(p.items, T),
         NEW e \in WireEvents, ~IsBlock(e), NEW v, v = Append(w, e)
  PROVE  AtRest(v, T, p)
<1>1. PICK s : Clear(w, T, s) /\ Rests(s, p)
  BY DEF AtRest
<1>3. PICK t : t = handleEvent(s, e)
  OBVIOUS
<1>4. Rests(t, p)
  BY <1>1, <1>3, RestGoesOn
<1>5. Glimpse(t, T)
  BY <1>4, RestsGlimpse
<1>6. Clear(v, T, t)
  BY <1>1, <1>3, <1>5, ClearOn
<1> QED
  BY ONLY <1>4, <1>6 DEF AtRest

(* A block of three, for a call and for a result.                          *)
LEMMA UseBlock ==
  ASSUME NEW w \in Seq(WireEvents), NEW T, NEW p, AtRest(w, T, p), Cut(p.items, T),
         NEW j \in Nat, NEW t \in ToolCalls, NEW e1 \in WireEvents, NEW e2 \in WireEvents, NEW e3,
         ForUse(e1, t), ForBlock(e1, e2, e3, j, "tool_use"), e2.text = Input(t), e3 = BlockStop(j),
         NEW v, v = Append(Append(Append(w, e1), e2), e3)
  PROVE  AtRest(v, T, Ordered(Headed(p, t.tag), CalledOf(t)))
<1>0. t.tag \in Tags /\ t.id \in Tags /\ Input(t) \in Seq(Tags) /\ e3 \in WireEvents
  BY StopEvent DEF ToolCalls, Input, EmptyText
<1>e. IsStart(e1) /\ e1.block = "tool_use" /\ e1.index = j /\ e1.name = t.tag /\ e1.id = t.id
      /\ IsDelta(e2) /\ e2.block = "tool_use" /\ e2.index = j
  BY DEF ForUse, ForBlock
<1>1. PICK s : Clear(w, T, s) /\ Rests(s, p)
  BY DEF AtRest
<1>p. p \in Pages
  BY ONLY <1>1 DEF Rests, Keeps
<1>2. PICK s1 : s1 = handleEvent(s, e1)
  OBVIOUS
<1>3. Uses(s1, Headed(p, t.tag), j, Drafted(t.tag, t.id, <<>>))
  BY ONLY <1>0, <1>e, <1>1, <1>2, j \in Nat, e1 \in WireEvents, UseBegins
<1>4. PICK h : h = Headed(p, t.tag)
  OBVIOUS
<1>5. Cut(h.items, T)
  <2>1. IsHeaded(p, t.tag, h)
    BY ONLY <1>p, <1>0, <1>4, HeadedPage
  <2>2. h.items = p.items
    BY ONLY <2>1 DEF IsHeaded
  <2> QED
    BY <2>2
<1>6. Uses(s1, h, j, Drafted(t.tag, t.id, <<>>))
  BY ONLY <1>3, <1>4
<1>7. Glimpse(s1, T)
  BY ONLY <1>5, <1>6, RestsGlimpse
<1>8. PICK w1 : w1 = Append(w, e1)
  OBVIOUS
<1>w. w1 \in Seq(WireEvents)
  BY ONLY <1>8, w \in Seq(WireEvents), e1 \in WireEvents
<1>9. Clear(w1, T, s1)
  BY <1>1, <1>2, <1>7, <1>8, ClearOn
<1>10. PICK s2 : s2 = handleEvent(s1, e2)
  OBVIOUS
<1>11. Uses(s2, h, j, Drafted(t.tag, t.id, <<>> \o Input(t)))
  BY ONLY <1>0, <1>e, <1>6, <1>10, j \in Nat, e2 \in WireEvents, e2.text = Input(t), UseGoesOn
<1>12. Uses(s2, h, j, Drafted(t.tag, t.id, Input(t)))
  <2>1. <<>> \o Input(t) = Input(t)
    BY ONLY <1>0
  <2> QED
    BY ONLY <2>1, <1>11
<1>13. Glimpse(s2, T)
  BY ONLY <1>5, <1>12, RestsGlimpse
<1>14. PICK w2 : w2 = Append(w1, e2)
  OBVIOUS
<1>x. w2 \in Seq(WireEvents)
  BY ONLY <1>14, <1>w, e2 \in WireEvents
<1>15. Clear(w2, T, s2)
  BY <1>w, <1>9, <1>10, <1>13, <1>14, ClearOn
<1>16. PICK s3 : s3 = handleEvent(s2, e3)
  OBVIOUS
<1>17. CalledOf(t) = [name |-> t.tag, id |-> t.id,
                      params |-> IF Input(t) = <<>> THEN EmptyInput ELSE Input(t)]
  BY DEF CalledOf, Input, ToolCalls, EmptyText
<1>18. Rests(s3, Ordered(h, CalledOf(t))) /\ CalledOf(t) \in DoneCall
  BY ONLY <1>12, <1>16, <1>17, j \in Nat, e3 = BlockStop(j), UseEnds
<1>19. PICK b : b = Ordered(h, CalledOf(t))
  OBVIOUS
<1>20. Cut(b.items, T)
  <2>0. h \in Pages
    BY ONLY <1>6 DEF Uses, Keeps
  <2>1. IsOrdered(h, CalledOf(t), b)
    BY ONLY <2>0, <1>18, <1>19, OrderedPage
  <2>2. b.items = h.items
    BY ONLY <2>1 DEF IsOrdered
  <2> QED
    BY ONLY <1>5, <2>2
<1>21. Rests(s3, b)
  BY ONLY <1>18, <1>19
<1>22. Glimpse(s3, T)
  BY ONLY <1>20, <1>21, RestsGlimpse
<1>23. Clear(v, T, s3)
  BY <1>0, <1>x, <1>8, <1>14, <1>15, <1>16, <1>22, ClearOn
<1> QED
  BY ONLY <1>4, <1>19, <1>21, <1>23 DEF AtRest

LEMMA AnswerBlock ==
  ASSUME NEW w \in Seq(WireEvents), NEW T, NEW p, AtRest(w, T, p), NEW c, NEW x \in Seq(Tags),
         OnlyCall(p.calls, c), c.id \in Tags,
         Cut(Append(p.items, ToolMark(Reply(c, <<>>))), T),
         Cut(Append(p.items, ToolMark(Reply(c, x))), T),
         NEW j \in Nat, NEW e1 \in WireEvents, NEW e2 \in WireEvents, NEW e3,
         e1.id = c.id, ForBlock(e1, e2, e3, j, "tool_result"), e2.text = x, e3 = BlockStop(j),
         NEW v, v = Append(Append(Append(w, e1), e2), e3)
  PROVE  AtRest(v, T, Served(p, Reply(c, x)))
<1>0. e3 \in WireEvents
  BY StopEvent
<1>e. IsStart(e1) /\ e1.block = "tool_result" /\ e1.index = j /\ e1.id = c.id
      /\ IsDelta(e2) /\ e2.block = "tool_result" /\ e2.index = j
  BY DEF ForBlock
<1>1. PICK s : Clear(w, T, s) /\ Rests(s, p)
  BY DEF AtRest
<1>p. p \in Pages
  BY ONLY <1>1 DEF Rests, Keeps
<1>2. PICK s1 : s1 = handleEvent(s, e1)
  OBVIOUS
<1>3. Gives(s1, p, j, c.id, <<>>)
  BY ONLY <1>e, <1>1, <1>2, j \in Nat, c.id \in Tags, e1 \in WireEvents, AnswerBegins
<1>7. Glimpse(s1, T)
  BY ONLY <1>3, j \in Nat, OnlyCall(p.calls, c), Cut(Append(p.items, ToolMark(Reply(c, <<>>))), T),
          GivesGlimpse
<1>8. PICK w1 : w1 = Append(w, e1)
  OBVIOUS
<1>w. w1 \in Seq(WireEvents)
  BY ONLY <1>8, w \in Seq(WireEvents), e1 \in WireEvents
<1>9. Clear(w1, T, s1)
  BY <1>1, <1>2, <1>7, <1>8, ClearOn
<1>10. PICK s2 : s2 = handleEvent(s1, e2)
  OBVIOUS
<1>11. Gives(s2, p, j, c.id, <<>> \o x)
  BY ONLY <1>e, <1>3, <1>10, j \in Nat, e2 \in WireEvents, e2.text = x, x \in Seq(Tags), AnswerGoesOn
<1>12. Gives(s2, p, j, c.id, x)
  <2>1. <<>> \o x = x
    BY ONLY x \in Seq(Tags)
  <2> QED
    BY ONLY <2>1, <1>11
<1>13. Glimpse(s2, T)
  BY ONLY <1>12, j \in Nat, OnlyCall(p.calls, c), Cut(Append(p.items, ToolMark(Reply(c, x))), T),
          GivesGlimpse
<1>14. PICK w2 : w2 = Append(w1, e2)
  OBVIOUS
<1>x. w2 \in Seq(WireEvents)
  BY ONLY <1>14, <1>w, e2 \in WireEvents
<1>15. Clear(w2, T, s2)
  BY <1>w, <1>9, <1>10, <1>13, <1>14, ClearOn
<1>16. PICK s3 : s3 = handleEvent(s2, e3)
  OBVIOUS
<1>18. Rests(s3, Served(p, Reply(c, x))) /\ Reply(c, x) \in DoneExec
  BY ONLY <1>12, <1>16, j \in Nat, e3 = BlockStop(j), OnlyCall(p.calls, c), AnswerEnds
<1>19. PICK b : b = Served(p, Reply(c, x))
  OBVIOUS
<1>20. Cut(b.items, T)
  <2>1. IsServed(p, Reply(c, x), b)
    BY ONLY <1>p, <1>18, <1>19, ServedPage
  <2>2. b.items = Append(p.items, ToolMark(Reply(c, x)))
    BY ONLY <2>1 DEF IsServed
  <2> QED
    BY <2>2
<1>21. Rests(s3, b)
  BY ONLY <1>18, <1>19
<1>22. Glimpse(s3, T)
  BY ONLY <1>20, <1>21, RestsGlimpse
<1>23. Clear(v, T, s3)
  BY <1>0, <1>x, <1>8, <1>14, <1>15, <1>16, <1>22, ClearOn
<1> QED
  BY ONLY <1>19, <1>21, <1>23 DEF AtRest

LEMMA NothingSaid ==
  ASSUME NEW p \in Pages
  PROVE  Thought(p, <<>>) = p /\ Spoken(p, <<>>) = p
<1>1. <<>> \in Seq(Nat)
  OBVIOUS
<1>2. p.items \in Seq(TurnItem) /\ p.text \in Seq(Nat) /\ p.thinking \in Seq(Nat)
  BY PageFields
<1>3. /\ p.items \o Segment("thinking", <<>>) = p.items /\ p.items \o Segment("text", <<>>) = p.items
  BY ONLY <1>2, SegmentIs
<1>4. p.text \o <<>> = p.text /\ p.thinking \o <<>> = p.thinking
  BY ONLY <1>2
<1>5. Thought(p, <<>>) = p
  <2>1. PICK b : b = Thought(p, <<>>)
    OBVIOUS
  <2>2. IsThought(p, <<>>, b)
    BY ONLY p \in Pages, <1>1, <2>1, ThoughtPage
  <2>3. b \in Pages /\ b.names = p.names /\ b.calls = p.calls /\ b.execs = p.execs
        /\ b.items = p.items /\ b.text = p.text /\ b.thinking = p.thinking
    BY ONLY <2>2, <1>3, <1>4 DEF IsThought
  <2> QED
    BY ONLY p \in Pages, <2>1, <2>3, SamePage
<1>6. Spoken(p, <<>>) = p
  <2>1. PICK b : b = Spoken(p, <<>>)
    OBVIOUS
  <2>2. IsSpoken(p, <<>>, b)
    BY ONLY p \in Pages, <1>1, <2>1, SpokenPage
  <2>3. b \in Pages /\ b.names = p.names /\ b.calls = p.calls /\ b.execs = p.execs
        /\ b.items = p.items /\ b.text = p.text /\ b.thinking = p.thinking
    BY ONLY <2>2, <1>3, <1>4 DEF IsSpoken
  <2> QED
    BY ONLY p \in Pages, <2>1, <2>3, SamePage
<1> QED
  BY ONLY <1>5, <1>6

(* Where a callback c has left the reader: before the text of a round is   *)
(* open, and once it is.                                                   *)
Musing(c, T, p, y) ==
  IF c.ad.round.thinking.started
    THEN AtThought(c.wire, T, p, y, c.ad.round.thinking.index)
    ELSE y = <<>> /\ AtRest(c.wire, T, p)

Speaking(c, T, p, y) ==
  IF c.ad.round.text.started
    THEN AtText(c.wire, T, p, y, c.ad.round.text.index)
    ELSE y = <<>> /\ AtRest(c.wire, T, p)

LEMMA ThoughtWritten ==
  ASSUME NEW c, NEW s, NEW l, Fine(c, s, l), c.ok, ~c.ad.round.opened, NEW x \in Seq(Nat), x # <<>>,
         NEW T, NEW p, NEW y \in Seq(Nat), Musing(c, T, p, y),
         Cut(p.items \o Segment("thinking", <<>>), T), Cut(p.items \o Segment("thinking", y \o x), T),
         NEW d, d = Write(c, "thinking", x), d.ok
  PROVE  d.ad.round.thinking.started /\ Musing(d, T, p, y \o x)
<1>0. c \in InCall /\ c.wire \in Seq(WireEvents)
  BY StreamerType DEF Fine
<1>1. WroteOn(c, "thinking", x, d)
  BY WritesOn DEF EmptyText
<1>2. PICK j \in Nat : j = c.ad.round.thinking.index
  BY <1>1 DEF WroteOn
<1>3. d.ad.round.thinking.started /\ d.ad.round.thinking.index = j /\ d.wire = Said(c, "thinking", x)
  BY <1>1, <1>2 DEF WroteOn
<1>4. PICK w : w = Opening(c, "thinking")
  OBVIOUS
<1>5. d.wire = Append(w, BlockDelta(j, "thinking", x))
  BY ONLY <1>2, <1>3, <1>4 DEF Said
<1>6. w \in Seq(WireEvents) /\ AtThought(w, T, p, y, j)
  <2>1. CASE c.ad.round.thinking.started
    BY ONLY <2>1, <1>0, <1>2, <1>4, Musing(c, T, p, y) DEF Opening, Musing
  <2>2. CASE ~c.ad.round.thinking.started
    <3>1. w = Append(c.wire, BlockStart(j, "thinking")) /\ y = <<>> /\ AtRest(c.wire, T, p)
      BY ONLY <2>2, <1>2, <1>4, Musing(c, T, p, y) DEF Opening, Musing
    <3>2. w \in Seq(WireEvents)
      <4>1. BlockStart(j, "thinking") \in WireEvents
        BY TalkStart
      <4> QED
        BY ONLY <4>1, <3>1, <1>0
    <3>3. AtThought(w, T, p, <<>>, j)
      BY <1>0, <3>1, ThoughtStarts
    <3> QED
      BY ONLY <3>1, <3>2, <3>3
  <2> QED
    BY <2>1, <2>2
<1>7. AtThought(d.wire, T, p, y \o x, j)
  BY <1>5, <1>6, ThoughtGoesOn
<1> QED
  BY ONLY <1>3, <1>7 DEF Musing

LEMMA TextWritten ==
  ASSUME NEW c, NEW s, NEW l, Fine(c, s, l), c.ok, c.ad.round.opened, NEW x \in Seq(Nat), x # <<>>,
         NEW T, NEW p, NEW y \in Seq(Nat), Speaking(c, T, p, y),
         Cut(p.items \o Segment("text", <<>>), T), Cut(p.items \o Segment("text", y \o x), T),
         NEW d, d = Write(c, "text", x), d.ok
  PROVE  d.ad.round.opened /\ d.ad.round.text.started /\ Speaking(d, T, p, y \o x)
<1>0. c \in InCall /\ c.wire \in Seq(WireEvents)
  BY StreamerType DEF Fine
<1>1. WroteOn(c, "text", x, d)
  BY WritesOn DEF EmptyText
<1>2. PICK j \in Nat : j = c.ad.round.text.index
  BY <1>1 DEF WroteOn
<1>3. d.ad.round.text.started /\ d.ad.round.text.index = j /\ d.wire = Said(c, "text", x)
  BY <1>1, <1>2 DEF WroteOn
<1>o. d.ad.round.opened
  BY WrittenText
<1>4. PICK w : w = Opening(c, "text")
  OBVIOUS
<1>5. d.wire = Append(w, BlockDelta(j, "text", x))
  BY ONLY <1>2, <1>3, <1>4 DEF Said
<1>6. w \in Seq(WireEvents) /\ AtText(w, T, p, y, j)
  <2>1. CASE c.ad.round.text.started
    BY ONLY <2>1, <1>0, <1>2, <1>4, Speaking(c, T, p, y) DEF Opening, Speaking
  <2>2. CASE ~c.ad.round.text.started
    <3>1. w = Append(c.wire, BlockStart(j, "text")) /\ y = <<>> /\ AtRest(c.wire, T, p)
      BY ONLY <2>2, <1>2, <1>4, Speaking(c, T, p, y) DEF Opening, Speaking
    <3>2. w \in Seq(WireEvents)
      <4>1. BlockStart(j, "text") \in WireEvents
        BY TalkStart
      <4> QED
        BY ONLY <4>1, <3>1, <1>0
    <3>3. AtText(w, T, p, <<>>, j)
      BY <1>0, <3>1, TextStarts
    <3> QED
      BY ONLY <3>1, <3>2, <3>3
  <2> QED
    BY <2>1, <2>2
<1>7. AtText(d.wire, T, p, y \o x, j)
  BY <1>5, <1>6, TextMore
<1> QED
  BY ONLY <1>o, <1>3, <1>7 DEF Speaking

LEMMA TextOpens ==
  ASSUME NEW c, NEW s, NEW l, Fine(c, s, l), c.ok, ~c.ad.round.opened,
         NEW T, NEW p \in Pages, NEW y \in Seq(Nat), Musing(c, T, p, y), Cut(Thought(p, y).items, T),
         NEW d, d = openText(c), d.ok
  PROVE  d.ad.round.opened /\ ~d.ad.round.text.started /\ AtRest(d.wire, T, Thought(p, y))
<1>0. c \in InCall /\ c.wire \in Seq(WireEvents)
  BY StreamerType DEF Fine
<1>1. /\ IF c.ad.round.thinking.started
           THEN /\ c.ad.round.thinking.index \in Nat
                /\ d.wire = Stopped(c, "thinking")
           ELSE d.wire = c.wire
      /\ d.ad.round.opened /\ ~d.ad.round.text.started
  BY OpensOn
<1>2. CASE c.ad.round.thinking.started
  <2>1. PICK j \in Nat : j = c.ad.round.thinking.index
    BY <1>1, <1>2
  <2>2. d.wire = Append(c.wire, BlockStop(j)) /\ AtThought(c.wire, T, p, y, j)
    BY <1>1, <1>2, <2>1 DEF Stopped, Musing
  <2>3. AtRest(d.wire, T, Thought(p, y))
    BY <1>0, <2>2, ThoughtStops
  <2> QED
    BY <1>1, <2>3
<1>3. CASE ~c.ad.round.thinking.started
  <2>1. d.wire = c.wire /\ y = <<>> /\ AtRest(c.wire, T, p)
    BY <1>1, <1>3 DEF Musing
  <2>2. Thought(p, <<>>) = p
    BY NothingSaid
  <2> QED
    BY ONLY <1>1, <2>1, <2>2
<1> QED
  BY <1>2, <1>3

(* The reader while the round o, the last one so far, is streamed.         *)
Within(c, T, z, o) ==
  IF c.ad.round.opened
    THEN /\ o.text # <<>> /\ c.ad.round.text.started
         /\ Speaking(c, T, Thought(PageOf(z), o.thinking), o.text)
    ELSE o.text = <<>> /\ Musing(c, T, PageOf(z), o.thinking)

LEMMA WithinMore ==
  ASSUME NEW c, NEW T \in Seq(TurnItem), NEW R \in Seq(TurnItem), Cut(T, R), NEW z, NEW o, Within(c, T, z, o)
  PROVE  Within(c, R, z, o)
<1>1. \A p : AtRest(c.wire, T, p) => AtRest(c.wire, R, p)
  BY AtMore
<1>2. \A p, y, j : AtThought(c.wire, T, p, y, j) => AtThought(c.wire, R, p, y, j)
  BY AtMore
<1>3. \A p, y, j : AtText(c.wire, T, p, y, j) => AtText(c.wire, R, p, y, j)
  BY AtMore
<1>4. \A p, y : Musing(c, T, p, y) => Musing(c, R, p, y)
  BY ONLY <1>1, <1>2 DEF Musing
<1>5. \A p, y : Speaking(c, T, p, y) => Speaking(c, R, p, y)
  BY ONLY <1>1, <1>3 DEF Speaking
<1> QED
  BY ONLY <1>4, <1>5, Within(c, T, z, o) DEF Within

IsHeard(o, x, y, a) ==
  /\ a \in Rounds /\ a.calls = o.calls /\ a.text = o.text \o y
  /\ o.text = <<>> => a.thinking = o.thinking \o x
  /\ o.text # <<>> => a.thinking = o.thinking

LEMMA HearIs ==
  ASSUME NEW o \in Rounds, NEW x \in Seq(Nat), NEW y \in Seq(Nat), NEW a, a = Hear(o, x, y)
  PROVE  IsHeard(o, x, y, a)
<1>1. a \in Rounds
  BY HearType
<1>2. a.calls = o.calls /\ a.text = o.text \o y
      /\ a.thinking = IF o.text = EmptyText THEN o.thinking \o x ELSE o.thinking
  BY DEF Hear, Rounds
<1> QED
  BY ONLY <1>1, <1>2 DEF IsHeard, EmptyText

LEMMA HeardOnward ==
  ASSUME NEW o \in Rounds, o.calls = <<>>, NEW x \in Seq(Nat), NEW y \in Seq(Nat), NEW a, IsHeard(o, x, y, a)
  PROVE  Onward(o, a)
<1>1. o.thinking \in Seq(Nat) /\ o.text \in Seq(Nat)
  BY LeafPage
<1>2. PICK t \in Seq(Nat), u \in Seq(Nat) : t = o.thinking /\ u = o.text
  BY <1>1
<1>3. IsPrefix(t, t) /\ IsPrefix(u, u)
  BY PrefixSelf
<1>4. IsPrefix(t, t \o x)
  BY ONLY <1>3, t \in Seq(Nat), x \in Seq(Nat), PrefixGrows
<1>5. IsPrefix(u, u \o y)
  BY ONLY <1>3, u \in Seq(Nat), y \in Seq(Nat), PrefixGrows
<1>6. IsPrefix(o.text, a.text)
  BY ONLY <1>2, <1>5, IsHeard(o, x, y, a) DEF IsHeard
<1>7. IsPrefix(o.thinking, a.thinking)
  BY ONLY <1>2, <1>3, <1>4, IsHeard(o, x, y, a) DEF IsHeard
<1> QED
  BY ONLY <1>6, <1>7, o \in Rounds, o.calls = <<>>, IsHeard(o, x, y, a) DEF IsHeard, Onward

(* One delta more.                                                         *)
LEMMA DeltaExact ==
  ASSUME NEW c, NEW s, NEW l, Fine(c, s, l), c.ok, NEW x \in Seq(Nat), NEW y \in Seq(Nat),
         NEW z \in Seq(Rounds), NEW o \in Rounds, o.calls = <<>>, NEW a, IsHeard(o, x, y, a),
         NEW T, T = ItemsOf(z, a), Within(c, T, z, o),
         NEW d, d = handleDelta(c, x, y), d.ok
  PROVE  Within(d, T, z, a)
<1>0. c \in InCall /\ c.ad.round.opened \in BOOLEAN
  BY StreamerType DEF Fine
<1>1. /\ a \in Rounds /\ o.thinking \in Seq(Nat) /\ o.text \in Seq(Nat)
      /\ a.thinking \in Seq(Nat) /\ a.text \in Seq(Nat)
  <2>1. a \in Rounds
    BY DEF IsHeard
  <2> QED
    BY <2>1, LeafPage
<1>p. PageOf(z) \in Pages
  BY PageGrows
<1>e. <<>> \in Seq(Nat) /\ IsPrefix(<<>>, a.thinking) /\ IsPrefix(<<>>, a.text)
  BY <1>1 DEF IsPrefix
<1>t. Cut(PageOf(z).items \o Segment("thinking", <<>>), T)
      /\ Cut(PageOf(z).items \o Segment("thinking", a.thinking), T)
  BY <1>1, <1>e, CutThinking, PrefixSelf
<1>x. Cut(Thought(PageOf(z), a.thinking).items \o Segment("text", <<>>), T)
      /\ Cut(Thought(PageOf(z), a.thinking).items \o Segment("text", a.text), T)
  BY <1>1, <1>e, CutText, PrefixSelf
<1>2. CASE c.ad.round.opened
  <2>1. o.text # <<>> /\ c.ad.round.text.started /\ Speaking(c, T, Thought(PageOf(z), o.thinking), o.text)
    BY <1>2 DEF Within
  <2>2. a.thinking = o.thinking /\ a.text = o.text \o y
    BY <2>1 DEF IsHeard
  <2>3. CASE y = <<>>
    <3>1. d = c
      BY <1>2, <2>3 DEF handleDelta, EmptyText
    <3>2. a.text = o.text
      BY <1>1, <2>2, <2>3
    <3> QED
      BY ONLY <1>2, <2>1, <2>2, <3>1, <3>2 DEF Within
  <2>4. CASE y # <<>>
    <3>1. d = Write(c, "text", y)
      BY <1>2, <2>4 DEF handleDelta, openText, EmptyText
    <3>2. Cut(Thought(PageOf(z), o.thinking).items \o Segment("text", <<>>), T)
          /\ Cut(Thought(PageOf(z), o.thinking).items \o Segment("text", o.text \o y), T)
      BY ONLY <1>x, <2>2
    <3>3. d.ad.round.opened /\ d.ad.round.text.started
          /\ Speaking(d, T, Thought(PageOf(z), o.thinking), o.text \o y)
      BY ONLY Fine(c, s, l), c.ok, <1>2, y \in Seq(Nat), <2>4, <1>1, <2>1, <3>1, <3>2, d.ok, TextWritten
    <3>4. a.text # <<>>
      <4>1. PICK u \in Seq(Nat) : u = o.text
        BY ONLY <1>1
      <4>2. u # <<>> /\ a.text = u \o y
        BY ONLY <2>1, <2>2, <4>1
      <4>3. Len(u) > 0 /\ Len(u \o y) = Len(u) + Len(y) /\ Len(y) \in Nat
        BY ONLY <4>2, y \in Seq(Nat)
      <4>4. Len(a.text) > 0
        BY ONLY <4>2, <4>3
      <4> QED
        BY ONLY <4>4
    <3> QED
      BY ONLY <2>2, <3>3, <3>4 DEF Within
  <2> QED
    BY <2>3, <2>4
<1>3. CASE ~c.ad.round.opened
  <2>1. o.text = <<>> /\ Musing(c, T, PageOf(z), o.thinking)
    BY <1>3 DEF Within
  <2>2. a.thinking = o.thinking \o x /\ a.text = y
    BY <2>1 DEF IsHeard
  <2>3. PICK g : g = Write(c, "thinking", x)
    OBVIOUS
  <2>4. Fine(g, s, l) /\ ~g.ad.round.opened
    BY <1>3, <2>3, WrittenThinking
  <2>5. d = IF y = EmptyText THEN g ELSE Write(openText(g), "text", y)
    BY <1>3, <2>3 DEF handleDelta
  <2>6. g.ok
    <3>0. g \in InCall
      BY ONLY <2>4, Zenon DEF Fine
    <3>1. g.ok \in BOOLEAN
      BY ONLY <3>0, SMT DEF InCall
    <3>2. ~g.ok => d = g
      BY <2>5 DEF openText, Write
    <3> QED
      BY <3>1, <3>2
  <2>7. Musing(g, T, PageOf(z), a.thinking)
    <3>1. CASE x = <<>>
      <4>1. g = c
        BY <2>3, <3>1 DEF Write, EmptyText
      <4>2. a.thinking = o.thinking
        BY ONLY <1>1, <2>2, <3>1
      <4> QED
        BY ONLY <2>1, <4>1, <4>2
    <3>2. CASE x # <<>>
      <4>1. Cut(PageOf(z).items \o Segment("thinking", o.thinking \o x), T)
        BY ONLY <1>t, <2>2
      <4>2. Musing(g, T, PageOf(z), o.thinking \o x)
        BY ONLY Fine(c, s, l), c.ok, <1>3, x \in Seq(Nat), <3>2, <1>1, <2>1, <1>t, <4>1, <2>3, <2>6,
                ThoughtWritten
      <4> QED
        BY ONLY <2>2, <4>2
    <3> QED
      BY <3>1, <3>2
  <2>8. CASE y = <<>>
    <3>1. d = g
      BY ONLY <2>5, <2>8 DEF EmptyText
    <3> QED
      BY ONLY <2>2, <2>4, <2>7, <2>8, <3>1 DEF Within
  <2>9. CASE y # <<>>
    <3>1. PICK h : h = openText(g)
      OBVIOUS
    <3>2. d = Write(h, "text", y)
      BY ONLY <2>5, <2>9, <3>1 DEF EmptyText
    <3>3. Fine(h, s, l)
      BY <2>4, <3>1, TextOpened
    <3>4. h.ok
      <4>1. h.ok \in BOOLEAN
        BY <3>3, StreamerType DEF Fine
      <4>2. ~h.ok => d = h
        BY <3>2 DEF Write
      <4> QED
        BY <4>1, <4>2
    <3>5. Cut(Thought(PageOf(z), a.thinking).items, T)
      BY <1>1, ItemsType
    <3>6. h.ad.round.opened /\ ~h.ad.round.text.started
          /\ AtRest(h.wire, T, Thought(PageOf(z), a.thinking))
      BY ONLY <2>4, <2>6, <1>p, <1>1, <2>7, <3>5, <3>1, <3>4, TextOpens
    <3>7. Speaking(h, T, Thought(PageOf(z), a.thinking), <<>>)
      BY ONLY <3>6 DEF Speaking
    <3>8. <<>> \o y = a.text
      BY ONLY <2>2, y \in Seq(Nat)
    <3>9. Cut(Thought(PageOf(z), a.thinking).items \o Segment("text", <<>> \o y), T)
      BY ONLY <1>x, <3>8
    <3>10. d.ad.round.opened /\ d.ad.round.text.started
           /\ Speaking(d, T, Thought(PageOf(z), a.thinking), <<>> \o y)
      BY ONLY <3>3, <3>4, <3>6, y \in Seq(Nat), <2>9, <1>e, <3>7, <1>x, <3>9, <3>2, d.ok, TextWritten
    <3> QED
      BY ONLY <2>2, <2>9, <3>8, <3>10 DEF Within
  <2> QED
    BY <2>8, <2>9
<1> QED
  BY <1>0, <1>2, <1>3

(* The end of the streaming.                                               *)
LEMMA FinishExact ==
  ASSUME NEW c, NEW s, NEW l, Fine(c, s, l), c.ok, NEW z \in Seq(Rounds), NEW o \in Rounds,
         NEW T, Cut(Thought(PageOf(z), o.thinking).items, T), Cut(Talk(z, o).items, T), Within(c, T, z, o),
         NEW d, d = finish(c), d.ok
  PROVE  AtRest(d.wire, T, Talk(z, o))
<1>0. c \in InCall /\ c.ad.round.opened \in BOOLEAN /\ c.wire \in Seq(WireEvents)
  BY StreamerType DEF Fine
<1>1. o.thinking \in Seq(Nat) /\ o.text \in Seq(Nat)
  BY LeafPage
<1>p. PageOf(z) \in Pages
  BY PageGrows
<1>h. PICK h : h = openText(c)
  OBVIOUS
<1>f. Fine(h, s, l) /\ d = Close(h, "text")
  BY <1>h, TextOpened DEF finish
<1>k. h.ok /\ (d.ok => h.ad.round.opened)
  <2>0. h \in InCall
    BY ONLY <1>f, Zenon DEF Fine
  <2>1. h.ok \in BOOLEAN
    BY ONLY <2>0, SMT DEF InCall
  <2>2. ~h.ok => d = h
    BY <1>f DEF Close
  <2>3. h.ok
    BY <2>1, <2>2
  <2> QED
    BY <2>3, <1>h, TextOpened
<1>c. ClosedOn(h, "text", d)
  BY <1>f, <1>k, ClosesOn
<1>2. CASE c.ad.round.opened
  <2>1. c.ad.round.text.started /\ Speaking(c, T, Thought(PageOf(z), o.thinking), o.text)
    BY <1>2 DEF Within
  <2>2. h = c
    BY <1>h, <1>2 DEF openText
  <2>3. PICK j \in Nat : j = c.ad.round.text.index /\ d.wire = Append(c.wire, BlockStop(j))
    BY <1>c, <2>1, <2>2 DEF ClosedOn, Stopped
  <2>4. AtText(c.wire, T, Thought(PageOf(z), o.thinking), o.text, j)
    BY ONLY <2>1, <2>3 DEF Speaking
  <2>5. Cut(Spoken(Thought(PageOf(z), o.thinking), o.text).items, T)
    BY DEF Talk
  <2>6. AtRest(d.wire, T, Spoken(Thought(PageOf(z), o.thinking), o.text))
    BY ONLY <1>0, <2>3, <2>4, <2>5, TextStops
  <2> QED
    BY ONLY <2>6 DEF Talk
<1>3. CASE ~c.ad.round.opened
  <2>1. o.text = <<>> /\ Musing(c, T, PageOf(z), o.thinking)
    BY <1>3 DEF Within
  <2>2. ~h.ad.round.text.started /\ AtRest(h.wire, T, Thought(PageOf(z), o.thinking))
    BY <1>1, <1>3, <1>h, <1>k, <1>p, <2>1, TextOpens
  <2>3. d = h
    BY ONLY <1>c, <2>2 DEF ClosedOn
  <2>4. Talk(z, o) = Thought(PageOf(z), o.thinking)
    <3>1. PICK t : t = Thought(PageOf(z), o.thinking)
      OBVIOUS
    <3>2. IsThought(PageOf(z), o.thinking, t)
      BY ONLY <1>1, <1>p, <3>1, ThoughtPage
    <3>3. t \in Pages
      BY ONLY <3>2 DEF IsThought
    <3>4. Spoken(t, <<>>) = t
      BY ONLY <3>3, NothingSaid
    <3> QED
      BY ONLY <2>1, <3>1, <3>4 DEF Talk
  <2> QED
    BY ONLY <2>2, <2>3, <2>4
<1> QED
  BY <1>0, <1>2, <1>3

(* The last of the rounds, and another one in its place.                   *)
Swapped(q, x, v) == v = [q EXCEPT ![Len(q)] = x]

LEMMA LastReplaced ==
  ASSUME NEW z \in Seq(Rounds), NEW o \in Rounds, NEW q, q = Append(z, o), NEW x \in Rounds,
         NEW v, Swapped(q, x, v)
  PROVE  q[Len(q)] = o /\ v = Append(z, x)
<1>1. q \in Seq(Rounds) /\ Len(q) = Len(z) + 1 /\ q[Len(q)] = o /\ Len(z) \in Nat
      /\ \A i \in 1 .. Len(z) : q[i] = z[i]
  OBVIOUS
<1>3. v \in Seq(Rounds) /\ Len(v) = Len(q) /\ v[Len(q)] = x /\ \A i \in 1 .. Len(q) - 1 : v[i] = q[i]
  <2>1. q \in Seq(Rounds) /\ Len(q) > 0
    BY ONLY <1>1
  <2> QED
    BY ONLY Swapped(q, x, v), <2>1, x \in Rounds, LastChanged DEF Swapped
<1>4. PICK y : y = Append(z, x)
  OBVIOUS
<1>5. y \in Seq(Rounds) /\ Len(y) = Len(z) + 1 /\ y[Len(z) + 1] = x
      /\ \A i \in 1 .. Len(z) : y[i] = z[i]
  BY <1>4
<1>6. ASSUME NEW i \in 1 .. Len(v)
      PROVE  v[i] = y[i]
  <2>1. CASE i = Len(z) + 1
    BY <1>1, <1>3, <1>5, <2>1
  <2>2. CASE i # Len(z) + 1
    <3>1. i \in 1 .. Len(z) /\ i \in 1 .. Len(q) - 1
      BY <1>1, <1>3, <2>2
    <3> QED
      BY <1>1, <1>3, <1>5, <3>1
  <2> QED
    BY <2>1, <2>2
<1>7. v = y
  BY <1>1, <1>3, <1>5, <1>6, SeqEqual
<1> QED
  BY <1>1, <1>4, <1>7

LEMMA PageType ==
  ASSUME NEW q \in Seq(Rounds)
  PROVE  PageOf(q) \in Pages
<1>1. [deltas |-> 0, thinking |-> <<>>, text |-> <<>>, calls |-> <<>>] \in Rounds
  BY DEF Rounds
<1> QED
  BY <1>1, PageGrows

(* What holds of the reader of the whole wire at every step of a turn that *)
(* nothing failed in: while the last round o is streamed, between two of   *)
(* its calls, between two of its results, and between rounds.              *)
Streams(a, w, q) ==
  \E z \in Seq(Rounds), o \in Rounds :
    /\ q = Append(z, o) /\ Sound(z) /\ o.calls = <<>>
    /\ Within([ad |-> a, wire |-> w], ItemsOf(z, o), z, o)

Ordering(w, q, n) ==
  \E z \in Seq(Rounds), o \in Rounds :
    q = Append(z, o) /\ Sound(z) /\ AtRest(w, ItemsOf(z, o), Mid(z, o, n, 0))

Serves(w, q, m) ==
  \E z \in Seq(Rounds), o \in Rounds :
    q = Append(z, o) /\ Sound(z) /\ AtRest(w, ItemsOf(z, o), Mid(z, o, Len(o.calls), m))

Settles(w, q) == Sound(q) /\ AtRest(w, PageOf(q).items, PageOf(q))

Exact(a, w, u, q) ==
  ~u.failed =>
    /\ u.phase = "streaming" => Streams(a, w, q)
    /\ u.phase = "calling" => Ordering(w, q, u.next - 1)
    /\ u.phase = "results" => Serves(w, q, u.next - 1)
    /\ u.phase \notin {"streaming", "calling", "results"} => Settles(w, q)

EInv == Exact(ad, wire, run, said)

LEMMA SameWithin ==
  ASSUME NEW c, NEW d, c.ad = d.ad, c.wire = d.wire, NEW T, NEW z, NEW o, Within(c, T, z, o)
  PROVE  Within(d, T, z, o)
BY DEF Within, Musing, Speaking

LEMMA CutSelf ==
  ASSUME NEW a \in Seq(TurnItem)
  PROVE  Cut(a, a)
<1>1. <<>> \in Seq(TurnItem) /\ a \o <<>> = a
  OBVIOUS
<1> QED
  BY <1>1, CutJoin

LEMMA ExactStarts ==
  AInit => EInv
<1> SUFFICES ASSUME AInit
             PROVE  EInv
  OBVIOUS
<1>1. wire = <<>> /\ said = <<>> /\ run.phase = "preamble"
  BY DEF AInit
<1>2. PageOf(<<>>) = Blank /\ Blank \in Pages
  BY PageStarts
<1>3. Blank.items = <<>> /\ Blank.calls = <<>> /\ Blank.names = <<>>
  BY DEF Blank
<1>4. Sound(<<>>)
  BY <1>2, <1>3 DEF Sound
<1>5. Rests(NewReassembler, Blank)
  <2>1. NewReassembler \in Reader
    BY NewReader
  <2>2. Keeps(NewReassembler, Blank)
    BY <1>2, <2>1 DEF Keeps, Blank, NewReassembler, EmptyText
  <2>3. Hushed(NewReassembler) /\ Toolless(NewReassembler)
    BY DEF Hushed, Toolless, NewReassembler, EmptyText
  <2> QED
    BY <2>2, <2>3 DEF Rests
<1>6. Cut(Blank.items, Blank.items)
  <2>1. <<>> \in Seq(TurnItem)
    OBVIOUS
  <2> QED
    BY <1>3, <2>1, CutSelf
<1>7. Glimpse(NewReassembler, Blank.items)
  BY <1>5, <1>6, RestsGlimpse
<1>8. Clear(<<>>, Blank.items, NewReassembler)
  BY <1>7, ClearNew
<1>9. Settles(<<>>, <<>>)
  BY <1>2, <1>4, <1>5, <1>8 DEF Settles, AtRest
<1> QED
  BY <1>1, <1>9 DEF EInv, Exact

(* Two events outside of blocks.                                           *)
LEMMA QuietPairEmitted ==
  ASSUME NEW c \in InCall, NEW e1 \in WireEvents, NEW e2 \in WireEvents, ~IsBlock(e1), ~IsBlock(e2),
         NEW d, d = EmitPair(c, <<e1, e2>>), d.ok, NEW q \in Seq(Rounds), Settles(c.wire, q)
  PROVE  Settles(d.wire, q)
<1>1. PICK f : f = Emit(c, e1)
  OBVIOUS
<1>2. Passed(c, e1, f)
  BY <1>1, Emits
<1>3. f \in InCall
  BY <1>2 DEF Passed
<1>4. d = Emit(f, e2)
  BY <1>1 DEF EmitPair
<1>5. Passed(f, e2, d)
  BY <1>3, <1>4, Emits
<1>6. d.wire = Append(f.wire, e2) /\ f.wire = Append(c.wire, e1)
  BY <1>2, <1>5 DEF Passed
<1>7. c.wire \in Seq(WireEvents) /\ f.wire \in Seq(WireEvents)
  BY <1>3, StreamerType
<1>8. PICK p : p = PageOf(q) /\ p \in Pages
  <2>1. PageOf(q) \in Pages
    BY PageType
  <2> QED
    BY <2>1
<1>9. Cut(p.items, p.items)
  BY <1>8, PageFields, CutSelf
<1>10. AtRest(c.wire, p.items, p) /\ Sound(q)
  BY <1>8 DEF Settles
<1>11. AtRest(f.wire, p.items, p)
  BY ONLY <1>6, <1>7, <1>9, <1>10, e1 \in WireEvents, ~IsBlock(e1), RestStays
<1>12. AtRest(d.wire, p.items, p)
  BY ONLY <1>6, <1>7, <1>9, <1>11, e2 \in WireEvents, ~IsBlock(e2), RestStays
<1> QED
  BY <1>8, <1>10, <1>12 DEF Settles

LEMMA FailedExact ==
  ASSUME NEW a, NEW w, NEW u, NEW q, u.failed
  PROVE  Exact(a, w, u, q)
BY DEF Exact

LEMMA SettledExact ==
  ASSUME NEW a, NEW w, NEW u, NEW q, u.phase \notin {"streaming", "calling", "results"}, Settles(w, q)
  PROVE  Exact(a, w, u, q)
BY DEF Exact

LEMMA PreambleExact ==
  ASSUME AInv, EInv, NEW call \in Calls, Preamble(call)
  PROVE  EInv'
<1>1. ATypes /\ wire \in Seq(WireEvents) /\ run \in Runs /\ said \in Seq(Rounds)
      /\ ~run.failed /\ run.phase = "preamble"
  BY DEF AInv, ATypes, Resting, Preamble
<1>2. Settles(wire, said)
  BY <1>1 DEF EInv, Exact
<1>3. PICK c \in InCall : c = Begin(call) /\ c.ad = ad /\ c.wire = wire
  BY <1>1, Begun
<1>4. PICK e1 \in WireEvents, e2 \in WireEvents : e1 = MessageStart(<<"stream">>) /\ e2 = Ping
  BY DEF MessageStart, Ping, WireEvents
<1>5. ~IsBlock(e1) /\ ~IsBlock(e2)
  BY <1>4 DEF MessageStart, Ping, IsBlock, IsDelta, IsStart, IsStop
<1>6. PICK d : d = EmitPair(c, <<e1, e2>>)
  OBVIOUS
<1>7. /\ wire' = d.wire /\ said' = said
      /\ run' = IF d.ok THEN [run EXCEPT !.phase = "round"]
                        ELSE [run EXCEPT !.phase = "aborted", !.failed = TRUE]
  BY <1>3, <1>4, <1>6 DEF Preamble, Done, StreamPreamble
<1>8. CASE d.ok
  <2>1. Settles(d.wire, said)
    BY <1>1, <1>2, <1>3, <1>5, <1>6, <1>8, QuietPairEmitted
  <2>2. run'.phase = "round"
    BY <1>1, <1>7, <1>8 DEF Runs
  <2>3. Exact(ad', wire', run', said')
    BY ONLY <1>7, <2>1, <2>2, SettledExact
  <2> QED
    BY <2>3 DEF EInv
<1>9. CASE ~d.ok
  <2>1. run'.failed
    BY <1>1, <1>7, <1>9 DEF Runs
  <2> QED
    BY <2>1, FailedExact DEF EInv
<1> QED
  BY <1>8, <1>9

LEMMA EpilogueExact ==
  ASSUME AInv, EInv, NEW call \in Calls, Epilogue(call)
  PROVE  EInv'
<1>1. ATypes /\ wire \in Seq(WireEvents) /\ run \in Runs /\ said \in Seq(Rounds)
      /\ run.phase \in {"finished", "aborted"} /\ run.failed \in BOOLEAN
  BY DEF AInv, ATypes, Epilogue, Runs
<1>2. ~run.failed => Settles(wire, said)
  BY <1>1 DEF EInv, Exact
<1>3. PICK c \in InCall : c = Begin(call) /\ c.ad = ad /\ c.wire = wire
  BY <1>1, Begun
<1>4. PICK e1 \in WireEvents, e2 \in WireEvents : e1 = MessageDelta("end_turn") /\ e2 = MessageStop
  BY DEF MessageDelta, MessageStop, WireEvents, StopReasons
<1>5. ~IsBlock(e1) /\ ~IsBlock(e2)
  BY <1>4 DEF MessageDelta, MessageStop, IsBlock, IsDelta, IsStart, IsStop
<1>6. PICK d : d = EmitPair(c, <<e1, e2>>)
  OBVIOUS
<1>7. d.ok \in BOOLEAN
  <2>1. PairPassed(c, e1, e2, d)
    BY <1>6, PairEmitted
  <2> QED
    BY <2>1 DEF PairPassed, InCall
<1>8. wire' = d.wire /\ said' = said /\ run' = [run EXCEPT !.phase = "over", !.failed = @ \/ ~d.ok]
  BY <1>3, <1>4, <1>6 DEF Epilogue, StreamEpilogue
<1>9. run'.phase = "over" /\ run'.failed = (run.failed \/ ~d.ok)
  BY <1>1, <1>8 DEF Runs
<1>10. CASE d.ok /\ ~run.failed
  <2>1. Settles(d.wire, said)
    BY <1>1, <1>2, <1>3, <1>5, <1>6, <1>10, QuietPairEmitted
  <2>2. Exact(ad', wire', run', said')
    BY ONLY <1>8, <1>9, <2>1, SettledExact
  <2> QED
    BY <2>2 DEF EInv
<1>11. CASE ~(d.ok /\ ~run.failed)
  <2>1. run'.failed
    BY <1>1, <1>7, <1>9, <1>11
  <2> QED
    BY <2>1, FailedExact DEF EInv
<1> QED
  BY <1>10, <1>11

LEMMA GivenUpExact ==
  ASSUME AInv, EInv, ProviderFails \/ Abandon
  PROVE  EInv'
<1>1. run \in Runs
  BY DEF AInv, ATypes
<1>2. CASE ProviderFails
  <2>1. run'.failed
    BY <1>1, <1>2 DEF ProviderFails, Runs
  <2> QED
    BY <2>1, FailedExact DEF EInv
<1>3. CASE Abandon
  <2>1. wire' = wire /\ said' = said /\ run.phase = "aborted" /\ run'.phase = "over"
        /\ run'.failed = run.failed
    BY <1>1, <1>3 DEF Abandon, Runs
  <2>2. ~run.failed => Settles(wire, said)
    BY <2>1 DEF EInv, Exact
  <2>3. Exact(ad', wire', run', said')
    BY ONLY <2>1, <2>2 DEF Exact
  <2> QED
    BY <2>3 DEF EInv
<1> QED
  BY <1>2, <1>3

LEMMA OnRoundStartExact ==
  ASSUME AInv, EInv, OnRoundStart
  PROVE  EInv'
<1>1. ATypes /\ said \in Seq(Rounds) /\ run \in Runs /\ ad \in Adapters
      /\ ~run.failed /\ run.phase = "round"
  BY DEF AInv, ATypes, Resting, OnRoundStart
<1>2. Settles(wire, said)
  BY <1>1 DEF EInv, Exact
<1>3. PICK z \in Seq(Rounds) : z = said
  BY <1>1
<1>w. PICK w : w = wire
  OBVIOUS
<1>4. PICK o \in Rounds :
        /\ o = [deltas |-> Heard, thinking |-> EmptyText, text |-> EmptyText, calls |-> <<>>]
        /\ o.thinking = <<>> /\ o.text = <<>> /\ o.calls = <<>>
  <2>1. Heard \in Nat
    BY <1>1, HeardType
  <2>2. PICK o : o = [deltas |-> Heard, thinking |-> EmptyText, text |-> EmptyText, calls |-> <<>>]
    OBVIOUS
  <2>3. o \in Rounds /\ o.thinking = <<>> /\ o.text = <<>> /\ o.calls = <<>>
    BY <2>1, <2>2 DEF Round, Rounds, EmptyText
  <2> QED
    BY <2>2, <2>3
<1>5. said' = Append(z, o) /\ wire' = w /\ run'.phase = "streaming" /\ run'.failed = FALSE
  BY <1>1, <1>3, <1>w, <1>4 DEF OnRoundStart, Runs
<1>6. ~ad'.round.opened /\ ~ad'.round.thinking.started
  BY <1>1 DEF OnRoundStart, Adapters, NewRoundStream, NewStreamer
<1>7. AtRest(w, ItemsOf(z, o), PageOf(z))
  <2>1. AtRest(w, PageOf(z).items, PageOf(z))
    BY <1>2, <1>3, <1>w DEF Settles
  <2>2. PageOf(z).items \in Seq(TurnItem) /\ ItemsOf(z, o) \in Seq(TurnItem)
        /\ Cut(PageOf(z).items, ItemsOf(z, o))
    BY ItemsType
  <2> QED
    BY ONLY <2>1, <2>2, AtMore
<1>8. PICK c : c = [ad |-> ad', wire |-> w]
  OBVIOUS
<1>9. Within(c, ItemsOf(z, o), z, o)
  <2>1. c.wire = w /\ ~c.ad.round.opened /\ ~c.ad.round.thinking.started
    BY ONLY <1>6, <1>8
  <2> QED
    BY ONLY <1>4, <1>7, <2>1 DEF Within, Musing
<1>10. Sound(z)
  BY <1>2, <1>3, <1>w DEF Settles
<1>11. Streams(ad', w, Append(z, o))
  BY ONLY <1>4, <1>8, <1>9, <1>10, z \in Seq(Rounds), o \in Rounds DEF Streams
<1>12. Exact(ad', wire', run', said')
  BY ONLY <1>5, <1>11 DEF Exact
<1> QED
  BY <1>12 DEF EInv

(* Streaming: one delta more.                                              *)
LEMMA OnDeltaExact ==
  ASSUME AInv, EInv, NEW call \in Calls, NEW thinks \in BOOLEAN, NEW speaks \in BOOLEAN,
         OnDelta(call, thinks, speaks)
  PROVE  EInv'
<1>1. /\ ATypes /\ Orderly(wire) /\ Booked(wire, said, Len(said) - 1) /\ ~run.failed /\ Serial(wire)
      /\ Midway(ad, wire) /\ run.phase = "streaming" /\ run \in Runs
  BY DEF AInv, ATypes, NamedUpTo, OnDelta, Streaming
<1>2. Streams(ad, wire, said)
  BY <1>1 DEF EInv, Exact
<1>3. PICK z \in Seq(Rounds), o \in Rounds :
        /\ said = Append(z, o) /\ Sound(z) /\ o.calls = <<>>
        /\ Within([ad |-> ad, wire |-> wire], ItemsOf(z, o), z, o)
  BY ONLY <1>2 DEF Streams
<1>4. PICK x \in Seq(Nat), y \in Seq(Nat) :
        /\ x = IF thinks THEN <<DeltaNumber>> ELSE EmptyText
        /\ y = IF speaks THEN <<DeltaNumber>> ELSE EmptyText
  <2>1. DeltaNumber \in Nat
    BY <1>1, HeardType DEF DeltaNumber
  <2>2. <<DeltaNumber>> \in Seq(Nat) /\ EmptyText \in Seq(Nat)
    BY <2>1 DEF EmptyText
  <2> QED
    BY <2>2
<1>5. PICK c \in InCall : c = Begin(call) /\ c.ad = ad /\ c.wire = wire /\ c.ok
  BY <1>1, Begun
<1>6. PICK q : q = said
  OBVIOUS
<1>7. Fine(c, q, Len(q) - 1)
  BY <1>1, <1>5, <1>6 DEF Fine
<1>8. PICK d : d = handleDelta(c, x, y)
  OBVIOUS
<1>9. PICK a : a = Hear(o, x, y)
  OBVIOUS
<1>10. IsHeard(o, x, y, a)
  BY ONLY <1>9, o \in Rounds, x \in Seq(Nat), y \in Seq(Nat), HearIs
<1>11. a \in Rounds /\ a.calls = <<>>
  BY ONLY <1>3, <1>10 DEF IsHeard
<1>12. said' = Append(z, a)
  <2>0. PICK v : Swapped(q, a, v)
    BY DEF Swapped
  <2>1. q[Len(q)] = o /\ v = Append(z, a)
    <3>1. q = Append(z, o) /\ a \in Rounds
      BY ONLY <1>3, <1>6, <1>11
    <3> QED
      BY ONLY <2>0, <3>1, z \in Seq(Rounds), o \in Rounds, LastReplaced
  <2>2. said' = [said EXCEPT ![Round] = Hear(said[Round], x, y)]
    BY <1>4 DEF OnDelta
  <2> QED
    BY ONLY <1>6, <1>9, <2>0, <2>1, <2>2 DEF Round, Swapped
<1>13. ad' = d.ad /\ wire' = d.wire
       /\ run' = IF d.ok THEN run ELSE [run EXCEPT !.phase = "aborted", !.failed = TRUE]
  BY <1>4, <1>5, <1>8 DEF OnDelta, Done
<1>14. CASE d.ok
  <2>1. PICK T : T = ItemsOf(z, a)
    OBVIOUS
  <2>2. Within(c, T, z, o)
    <3>1. ItemsOf(z, o) \in Seq(TurnItem) /\ T \in Seq(TurnItem)
      BY ONLY <1>11, <2>1, z \in Seq(Rounds), o \in Rounds, ItemsType
    <3>2. Onward(o, a)
      BY ONLY <1>3, <1>10, x \in Seq(Nat), y \in Seq(Nat), HeardOnward
    <3>3. Cut(ItemsOf(z, o), T)
      BY ONLY <2>1, <3>2, z \in Seq(Rounds), CutHeard
    <3>4. PICK b : b = [ad |-> ad, wire |-> wire]
      OBVIOUS
    <3>5. Within(b, ItemsOf(z, o), z, o) /\ b.ad = c.ad /\ b.wire = c.wire
      BY ONLY <1>3, <1>5, <3>4
    <3>6. Within(c, ItemsOf(z, o), z, o)
      BY ONLY <3>5, SameWithin
    <3> QED
      BY ONLY <3>1, <3>3, <3>6, WithinMore
  <2>3. Within(d, T, z, a)
    BY ONLY <1>3, <1>5, <1>7, <1>8, <1>10, <1>14, <2>1, <2>2, x \in Seq(Nat), y \in Seq(Nat), DeltaExact
  <2>4. PICK b : b = [ad |-> d.ad, wire |-> d.wire]
    OBVIOUS
  <2>5. Within(b, T, z, a)
    <3>1. b.ad = d.ad /\ b.wire = d.wire
      BY ONLY <2>4
    <3> QED
      BY ONLY <2>3, <3>1, SameWithin
  <2>6. Streams(d.ad, d.wire, Append(z, a))
    BY ONLY <1>3, <1>11, <2>1, <2>4, <2>5 DEF Streams
  <2>7. run' = run
    BY <1>13, <1>14
  <2>8. Exact(ad', wire', run', said')
    BY ONLY <1>1, <1>12, <1>13, <2>6, <2>7 DEF Exact
  <2> QED
    BY <2>8 DEF EInv
<1>15. CASE ~d.ok
  <2>1. run'.failed
    BY <1>1, <1>13, <1>15 DEF Runs
  <2> QED
    BY <2>1, FailedExact DEF EInv
<1> QED
  BY <1>14, <1>15

(* The streaming of a round ends, and the calls of the round are known.    *)
LEMMA StreamEnds ==
  ASSUME NEW c, NEW s, NEW l, Fine(c, s, l), c.ok, NEW z \in Seq(Rounds), NEW o \in Rounds, o.calls = <<>>,
         Within(c, ItemsOf(z, o), z, o),
         NEW x \in Rounds, x.thinking = o.thinking, x.text = o.text,
         NEW d, d = finish(c), d.ok
  PROVE  AtRest(d.wire, ItemsOf(z, x), Mid(z, x, 0, 0))
<1>1. PICK T : T = ItemsOf(z, x)
  OBVIOUS
<1>2. ItemsOf(z, o) \in Seq(TurnItem) /\ T \in Seq(TurnItem) /\ Cut(Thought(PageOf(z), x.thinking).items, T)
  BY <1>1, ItemsType
<1>3. Cut(ItemsOf(z, o), T)
  BY ONLY <1>1, z \in Seq(Rounds), o \in Rounds, o.calls = <<>>, x \in Rounds, x.thinking = o.thinking,
          x.text = o.text, CutCalls
<1>4. Within(c, T, z, o)
  BY ONLY <1>2, <1>3, Within(c, ItemsOf(z, o), z, o), WithinMore
<1>5. Talk(z, o) = Talk(z, x)
  BY ONLY x.thinking = o.thinking, x.text = o.text DEF Talk
<1>6. Mid(z, x, 0, 0) = Talk(z, x)
  BY ONLY z \in Seq(Rounds), x \in Rounds, MidStarts
<1>7. Cut(Mid(z, x, 0, 0).items, T)
  <2>1. 0 \in 0 .. Len(x.calls)
    BY LeafRow DEF LeafRows
  <2> QED
    BY ONLY <1>1, <2>1, z \in Seq(Rounds), x \in Rounds, CutMid
<1>8. Cut(Talk(z, o).items, T) /\ Cut(Thought(PageOf(z), o.thinking).items, T)
  BY ONLY <1>2, <1>5, <1>6, <1>7, x.thinking = o.thinking
<1>9. AtRest(d.wire, T, Talk(z, o))
  BY ONLY Fine(c, s, l), c.ok, z \in Seq(Rounds), o \in Rounds, <1>4, <1>8, d = finish(c), d.ok, FinishExact
<1> QED
  BY ONLY <1>1, <1>5, <1>6, <1>9

LEMMA NoCallsSettle ==
  ASSUME NEW z \in Seq(Rounds), Sound(z), NEW x \in Rounds, x.calls = <<>>, NEW w,
         AtRest(w, ItemsOf(z, x), Mid(z, x, 0, 0))
  PROVE  Settles(w, Append(z, x))
<1>1. Len(x.calls) = 0
  OBVIOUS
<1>2. Mid(z, x, 0, 0) = PageOf(Append(z, x))
  BY <1>1, MidEnds
<1>3. Labelled(x, Len(z) + 1)
  BY <1>1 DEF Labelled
<1>4. Sound(Append(z, x))
  BY <1>3, SoundMore
<1> QED
  BY ONLY <1>2, <1>4, AtRest(w, ItemsOf(z, x), Mid(z, x, 0, 0)) DEF Settles, ItemsOf

LEMMA OnAssistantMessageExact ==
  ASSUME AInv, EInv, NEW call \in Calls, NEW calls \in CallLists, OnAssistantMessage(call, calls)
  PROVE  EInv'
<1>1. /\ ATypes /\ Orderly(wire) /\ Booked(wire, said, Len(said) - 1) /\ ~run.failed /\ Serial(wire)
      /\ Midway(ad, wire) /\ run.phase = "streaming" /\ run \in Runs
  BY DEF AInv, ATypes, NamedUpTo, OnAssistantMessage, Streaming
<1>2. Streams(ad, wire, said)
  BY <1>1 DEF EInv, Exact
<1>3. PICK z \in Seq(Rounds), o \in Rounds :
        /\ said = Append(z, o) /\ Sound(z) /\ o.calls = <<>>
        /\ Within([ad |-> ad, wire |-> wire], ItemsOf(z, o), z, o)
  BY ONLY <1>2 DEF Streams
<1>4. PICK c \in InCall : c = Begin(call) /\ c.ad = ad /\ c.wire = wire /\ c.ok
  BY <1>1, Begun
<1>5. PICK q : q = said
  OBVIOUS
<1>6. Fine(c, q, Len(q) - 1)
  BY <1>1, <1>4, <1>5 DEF Fine
<1>7. PICK f : f = finish(c)
  OBVIOUS
<1>8. calls \in Seq(ToolCalls) /\ <<>> \in Seq(ToolCalls)
  BY <1>1, CallListType
<1>9. PICK ran \in Seq(ToolCalls) : ran = IF Len(q) < MaxRounds THEN calls ELSE <<>>
  BY <1>8
<1>10. PICK x \in Rounds : /\ x = [o EXCEPT !.calls = ran] /\ x.calls = ran
                           /\ x.thinking = o.thinking /\ x.text = o.text
  <2>1. /\ [o EXCEPT !.calls = ran] \in Rounds /\ [o EXCEPT !.calls = ran].calls = ran
        /\ [o EXCEPT !.calls = ran].thinking = o.thinking
        /\ [o EXCEPT !.calls = ran].text = o.text
    BY DEF Rounds
  <2> QED
    BY <2>1
<1>11. said' = Append(z, x)
  <2>0. PICK v : Swapped(q, x, v)
    BY DEF Swapped
  <2>1. q[Len(q)] = o /\ v = Append(z, x)
    <3>1. q = Append(z, o)
      BY ONLY <1>3, <1>5
    <3> QED
      BY ONLY <2>0, <3>1, z \in Seq(Rounds), o \in Rounds, x \in Rounds, LastReplaced
  <2>2. said' = [said EXCEPT ![Round].calls = ran]
    BY <1>5, <1>9 DEF OnAssistantMessage, Round
  <2> QED
    BY ONLY <1>5, <1>10, <2>0, <2>1, <2>2 DEF Round, Swapped
<1>12. PICK d : d = finishRound(c, calls)
  OBVIOUS
<1>13. d.wire = f.wire /\ d.ok = f.ok
  <2>1. CASE ~f.ok
    BY <1>7, <1>12, <2>1 DEF finishRound
  <2>2. CASE f.ok
    <3>1. f \in InCall
      BY <1>6, <1>7, Finished DEF Fine
    <3>2. d = [f EXCEPT !.ad.blockIndex    = nextBlockIndex(f.ad.round),
                        !.ad.toolBase      = nextBlockIndex(f.ad.round),
                        !.ad.toolCallCount = Len(calls),
                        !.ad.rounds        = Round]
      BY <1>7, <1>12, <2>2 DEF finishRound
    <3> QED
      BY <3>1, <3>2 DEF InCall
  <2> QED
    BY <2>1, <2>2
<1>14. PICK ph \in {"finished", "calling", "aborted"} :
         ph = IF calls = <<>> THEN "finished" ELSE IF Len(q) < MaxRounds THEN "calling" ELSE "aborted"
  OBVIOUS
<1>15. wire' = f.wire
       /\ run' = IF f.ok THEN [run EXCEPT !.phase = ph, !.calls = ran, !.next = 1]
                         ELSE [run EXCEPT !.phase = "aborted", !.failed = TRUE]
  <2>1. wire' = d.wire
        /\ run' = IF d.ok THEN [run EXCEPT !.phase = ph, !.calls = ran, !.next = 1]
                          ELSE [run EXCEPT !.phase = "aborted", !.failed = TRUE]
    BY <1>4, <1>5, <1>9, <1>12, <1>14 DEF OnAssistantMessage, Done, Round
  <2> QED
    BY <1>13, <2>1
<1>16. CASE f.ok
  <2>1. Within(c, ItemsOf(z, o), z, o)
    <3>1. PICK b : b = [ad |-> ad, wire |-> wire]
      OBVIOUS
    <3>2. Within(b, ItemsOf(z, o), z, o) /\ b.ad = c.ad /\ b.wire = c.wire
      BY ONLY <1>3, <1>4, <3>1
    <3> QED
      BY ONLY <3>2, SameWithin
  <2>2. AtRest(f.wire, ItemsOf(z, x), Mid(z, x, 0, 0))
    BY ONLY <1>3, <1>4, <1>6, <1>7, <1>10, <1>16, <2>1, StreamEnds
  <2>3. run'.phase = ph /\ run'.next = 1
    BY <1>1, <1>15, <1>16 DEF Runs
  <2>4. CASE ph = "calling"
    <3>1. Ordering(f.wire, Append(z, x), 0)
      BY ONLY <1>3, <2>2, x \in Rounds DEF Ordering
    <3>2. run'.next - 1 = 0
      BY <2>3
    <3>3. Exact(ad', wire', run', said')
      BY ONLY <1>11, <1>15, <2>3, <2>4, <3>1, <3>2 DEF Exact
    <3> QED
      BY <3>3 DEF EInv
  <2>5. CASE ph # "calling"
    <3>1. x.calls = <<>>
      BY <1>9, <1>10, <1>14, <2>5
    <3>2. Settles(f.wire, Append(z, x))
      BY ONLY <1>3, <2>2, <3>1, x \in Rounds, NoCallsSettle
    <3>3. run'.phase \notin {"streaming", "calling", "results"}
      BY <1>14, <2>3, <2>5
    <3>4. Exact(ad', wire', run', said')
      BY ONLY <1>11, <1>15, <3>2, <3>3, SettledExact
    <3> QED
      BY <3>4 DEF EInv
  <2> QED
    BY <2>4, <2>5
<1>17. CASE ~f.ok
  <2>1. run'.failed
    BY <1>1, <1>15, <1>17 DEF Runs
  <2> QED
    BY <2>1, FailedExact DEF EInv
<1> QED
  BY <1>16, <1>17

LEMMA LastOf ==
  ASSUME NEW z \in Seq(Rounds), NEW o \in Rounds, NEW q, q = Append(z, o)
  PROVE  q[Len(q)] = o /\ Len(q) = Len(z) + 1
OBVIOUS

(* A call of the round is on the wire, and known to the reader.            *)
LEMMA CallOrdered ==
  ASSUME NEW z \in Seq(Rounds), NEW o \in Rounds, NEW k \in Nat, k \in 1 .. Len(o.calls), NEW t, t = o.calls[k],
         NEW w \in Seq(WireEvents), AtRest(w, ItemsOf(z, o), Mid(z, o, k - 1, 0)),
         NEW j \in Nat, NEW e1 \in WireEvents, NEW e2 \in WireEvents, NEW e3,
         ForUse(e1, t), ForBlock(e1, e2, e3, j, "tool_use"), e2.text = Input(t), e3 = BlockStop(j),
         NEW v, v = Append(Append(Append(w, e1), e2), e3)
  PROVE  AtRest(v, ItemsOf(z, o), Mid(z, o, k, 0))
<1>1. PICK L \in Nat : L = Len(o.calls) /\ \A i \in 1 .. L : o.calls[i] \in ToolCalls
  BY LeafRow DEF LeafRows
<1>2. PICK n \in Nat : n = k - 1 /\ n < L /\ n + 1 = k /\ 0 \in 0 .. L
  BY <1>1
<1>3. t \in ToolCalls /\ t = o.calls[n + 1]
  BY <1>1, <1>2
<1>4. PICK p, T : p = Mid(z, o, n, 0) /\ T = ItemsOf(z, o)
  OBVIOUS
<1>5. Cut(p.items, T)
  BY ONLY <1>1, <1>2, <1>4, z \in Seq(Rounds), o \in Rounds, CutMid
<1>6. AtRest(w, T, p)
  BY ONLY <1>2, <1>4, AtRest(w, ItemsOf(z, o), Mid(z, o, k - 1, 0))
<1>7. AtRest(v, T, Ordered(Headed(p, t.tag), CalledOf(t)))
  BY ONLY <1>3, <1>5, <1>6, w \in Seq(WireEvents), j \in Nat, e1 \in WireEvents, e2 \in WireEvents,
          ForUse(e1, t), ForBlock(e1, e2, e3, j, "tool_use"), e2.text = Input(t), e3 = BlockStop(j),
          v = Append(Append(Append(w, e1), e2), e3), UseBlock
<1>8. Ordered(Headed(p, t.tag), CalledOf(t)) = Mid(z, o, k, 0)
  BY ONLY <1>1, <1>2, <1>3, <1>4, z \in Seq(Rounds), o \in Rounds, MidOrdered
<1> QED
  BY ONLY <1>4, <1>7, <1>8

LEMMA ReplyIs ==
  ASSUME NEW t \in ToolCalls
  PROVE  /\ Reply(CalledOf(t), Output(t)) = Execution(t) /\ CalledOf(t).id = t.id /\ t.id \in Tags
         /\ Output(t) \in Seq(Tags) /\ Execution(t) \in DoneExec /\ Reply(CalledOf(t), <<>>) \in DoneExec
         /\ BeginsLike(ToolMark(Execution(t)), ToolMark(Execution(t)))
         /\ BeginsLike(ToolMark(Reply(CalledOf(t), <<>>)), ToolMark(Execution(t)))
<1>1. t.tag \in Tags /\ CalledOf(t) \in DoneCall /\ Execution(t) \in DoneExec
  BY CallMade
<1>2. Output(t) = <<t.tag>> /\ Output(t) \in Seq(Tags) /\ <<>> \in Seq(Tags)
  BY <1>1 DEF Output
<1>3. Reply(CalledOf(t), Output(t)) = Execution(t) /\ CalledOf(t).id = t.id /\ t.id \in Tags
  BY DEF Reply, CalledOf, Execution, ToolCalls
<1>4. Reply(CalledOf(t), <<>>) \in DoneExec
  BY <1>1, <1>2 DEF Reply, DoneCall, DoneExec
<1>5. BeginsLike(ToolMark(Execution(t)), ToolMark(Execution(t)))
  BY <1>1, MarkType, BeginsSelf
<1>6. BeginsLike(ToolMark(Reply(CalledOf(t), <<>>)), ToolMark(Execution(t)))
  <2>1. IsPrefix(<<>>, Output(t))
    BY <1>2 DEF IsPrefix
  <2> QED
    BY <2>1 DEF BeginsLike, ToolMark, Reply, CalledOf, Execution
<1> QED
  BY <1>1, <1>2, <1>3, <1>4, <1>5, <1>6

(* A result of the round is on the wire, and with the reader.              *)
LEMMA CallAnswered ==
  ASSUME NEW z \in Seq(Rounds), NEW o \in Rounds, Sound(z), Labelled(o, Len(z) + 1),
         NEW k \in Nat, k \in 1 .. Len(o.calls), NEW t, t = o.calls[k],
         NEW w \in Seq(WireEvents), AtRest(w, ItemsOf(z, o), Mid(z, o, Len(o.calls), k - 1)),
         NEW j \in Nat, NEW e1 \in WireEvents, NEW e2 \in WireEvents, NEW e3,
         e1.id = t.id, ForBlock(e1, e2, e3, j, "tool_result"), e2.text = Output(t), e3 = BlockStop(j),
         NEW v, v = Append(Append(Append(w, e1), e2), e3)
  PROVE  AtRest(v, ItemsOf(z, o), Mid(z, o, Len(o.calls), k))
<1>1. PICK L \in Nat : L = Len(o.calls) /\ \A i \in 1 .. L : o.calls[i] \in ToolCalls
  BY LeafRow DEF LeafRows
<1>2. PICK n \in Nat : n = k - 1 /\ n < L /\ n + 1 = k /\ L \in 0 .. L /\ n \in 0 .. L /\ k \in 1 .. L
  BY <1>1
<1>3. t \in ToolCalls /\ t = o.calls[n + 1]
  BY <1>1, <1>2
<1>4. PICK p, T, c, x : p = Mid(z, o, L, n) /\ T = ItemsOf(z, o) /\ c = CalledOf(t) /\ x = Output(t)
  OBVIOUS
<1>5. /\ Reply(c, x) = Execution(t) /\ c.id = t.id /\ c.id \in Tags /\ x \in Seq(Tags)
      /\ ToolMark(Execution(t)) \in TurnItem /\ ToolMark(Reply(c, <<>>)) \in TurnItem
      /\ BeginsLike(ToolMark(Execution(t)), ToolMark(Execution(t)))
      /\ BeginsLike(ToolMark(Reply(c, <<>>)), ToolMark(Execution(t)))
  BY ONLY <1>3, <1>4, ReplyIs, MarkType
<1>6. ASSUME NEW y \in TurnItem, BeginsLike(y, ToolMark(Execution(t)))
      PROVE  Cut(Append(p.items, y), T)
  BY ONLY <1>1, <1>2, <1>3, <1>4, <1>6, z \in Seq(Rounds), o \in Rounds, CutMid
<1>7. Cut(Append(p.items, ToolMark(Reply(c, <<>>))), T) /\ Cut(Append(p.items, ToolMark(Reply(c, x))), T)
  BY ONLY <1>5, <1>6
<1>8. OnlyCall(p.calls, c)
  BY ONLY <1>1, <1>2, <1>3, <1>4, z \in Seq(Rounds), o \in Rounds, Sound(z), Labelled(o, Len(z) + 1), SoundCall
<1>9. AtRest(w, T, p)
  BY ONLY <1>1, <1>2, <1>4, AtRest(w, ItemsOf(z, o), Mid(z, o, Len(o.calls), k - 1))
<1>10. e1.id = c.id /\ e2.text = x
  BY <1>4, <1>5
<1>11. AtRest(v, T, Served(p, Reply(c, x)))
  BY ONLY <1>5, <1>7, <1>8, <1>9, <1>10, w \in Seq(WireEvents), j \in Nat, e1 \in WireEvents, e2 \in WireEvents,
          ForBlock(e1, e2, e3, j, "tool_result"), e3 = BlockStop(j),
          v = Append(Append(Append(w, e1), e2), e3), AnswerBlock
<1>12. Served(p, Execution(t)) = Mid(z, o, L, k)
  BY ONLY <1>1, <1>2, <1>3, <1>4, z \in Seq(Rounds), o \in Rounds, MidServed
<1> QED
  BY ONLY <1>1, <1>4, <1>5, <1>11, <1>12

(* The last result of the round.                                           *)
LEMMA RoundSettles ==
  ASSUME NEW z \in Seq(Rounds), NEW o \in Rounds, Sound(z), Labelled(o, Len(z) + 1), NEW w,
         AtRest(w, ItemsOf(z, o), Mid(z, o, Len(o.calls), Len(o.calls)))
  PROVE  Settles(w, Append(z, o))
<1>1. Mid(z, o, Len(o.calls), Len(o.calls)) = PageOf(Append(z, o))
  BY MidEnds
<1>2. Sound(Append(z, o))
  BY SoundMore
<1> QED
  BY <1>1, <1>2 DEF Settles, ItemsOf

LEMMA OnToolCallStartExact ==
  ASSUME AInv, EInv, NEW call \in Calls, OnToolCallStart(call)
  PROVE  EInv'
<1>1. /\ ATypes /\ run.phase = "calling" /\ ~run.failed /\ run \in Runs /\ wire \in Seq(WireEvents)
      /\ said[Len(said)].calls = run.calls
      /\ Len(run.calls) = ad.toolCallCount /\ run.next \in 1 .. ad.toolCallCount
  BY DEF AInv, ATypes, OnToolCallStart, Tooling, Calling
<1>2. Ordering(wire, said, run.next - 1)
  BY <1>1 DEF EInv, Exact
<1>3. PICK z \in Seq(Rounds), o \in Rounds :
        /\ said = Append(z, o) /\ Sound(z)
        /\ AtRest(wire, ItemsOf(z, o), Mid(z, o, run.next - 1, 0))
  BY ONLY <1>2 DEF Ordering
<1>4. PICK w \in Seq(WireEvents), u \in Runs : w = wire /\ u = run
  BY <1>1
<1>5. PICK base \in Nat, count \in Nat : base = ad.toolBase /\ count = ad.toolCallCount
  BY <1>1 DEF ATypes, Adapters
<1>6. PICK k \in Nat : k = run.next /\ k \in 1 .. count
  BY <1>1, <1>5
<1>7. o.calls = run.calls /\ Len(o.calls) = count
  <2>1. said[Len(said)] = o
    BY ONLY <1>3, LastOf
  <2> QED
    BY ONLY <1>1, <1>5, <2>1
<1>8. PICK j \in Nat : j = base + (k - 1)
  BY <1>6
<1>9. PICK t \in ToolCalls : t = run.calls[k] /\ t = o.calls[k]
  BY <1>1, <1>4, <1>5, <1>6, <1>7 DEF Runs
<1>10. PICK c \in InCall : c = Begin(call) /\ c.ad = ad /\ c.wire = w
  BY <1>1, <1>4, Begun
<1>11. PICK e1 \in WireEvents, e2 \in WireEvents, e3 \in WireEvents :
         /\ e1 = ToolUseStart(j, t.id, t.tag)
         /\ e2 = ToolInputDelta(j, Input(t))
         /\ e3 = BlockStop(j)
  BY ToolEvents, StopEvent
<1>12. ForUse(e1, t) /\ ForBlock(e1, e2, e3, j, "tool_use") /\ e2.text = Input(t)
  <2>1. ForUse(e1, t) /\ ForBlock(e1, e2, e3, j, "tool_use")
    BY <1>11, ToolEvents
  <2>2. e2.text = Input(t)
    BY <1>11 DEF ToolInputDelta
  <2> QED
    BY <2>1, <2>2
<1>13. PICK d : d = EmitBlock(c, <<e1, e2, e3>>)
  OBVIOUS
<1>14. /\ wire' = d.wire /\ said' = said
       /\ run' = IF d.ok THEN (IF k = count THEN [run EXCEPT !.phase = "results", !.next = 1]
                                            ELSE [run EXCEPT !.next = k + 1])
                         ELSE [run EXCEPT !.phase = "aborted", !.failed = TRUE]
  <2>1. EmitBlock(Begin(call), ToolUseBlock(useIndex(run.next), t.id, t.tag, Input(t))) = d
    BY <1>5, <1>6, <1>8, <1>10, <1>11, <1>13 DEF ToolUseBlock, useIndex
  <2> QED
    BY <1>1, <1>5, <1>6, <1>9, <2>1 DEF OnToolCallStart, Done
<1>15. CASE d.ok
  <2>1. d.wire = Append(Append(Append(w, e1), e2), e3)
    <3>1. BlockPassed(c, e1, e2, e3, d)
      BY <1>13, BlockEmitted
    <3> QED
      BY <1>10, <1>15, <3>1 DEF BlockPassed
  <2>2. AtRest(d.wire, ItemsOf(z, o), Mid(z, o, k, 0))
    <3>1. AtRest(w, ItemsOf(z, o), Mid(z, o, k - 1, 0)) /\ k \in 1 .. Len(o.calls) /\ t = o.calls[k]
      BY ONLY <1>3, <1>4, <1>6, <1>7, <1>9
    <3>2. e3 = BlockStop(j)
      BY ONLY <1>11
    <3> QED
      BY ONLY <1>12, <2>1, <3>1, <3>2, z \in Seq(Rounds), o \in Rounds, k \in Nat, w \in Seq(WireEvents),
              j \in Nat, e1 \in WireEvents, e2 \in WireEvents, CallOrdered
  <2>3. CASE k = count
    <3>1. run'.phase = "results" /\ run'.next = 1
      BY <1>1, <1>14, <1>15, <2>3 DEF Runs
    <3>2. Serves(d.wire, said, 0)
      BY ONLY <1>3, <1>7, <2>2, <2>3 DEF Serves
    <3>3. run'.next - 1 = 0
      BY <3>1
    <3>4. Exact(ad', wire', run', said')
      BY ONLY <1>14, <3>1, <3>2, <3>3 DEF Exact
    <3> QED
      BY <3>4 DEF EInv
  <2>4. CASE k # count
    <3>1. run'.phase = "calling" /\ run'.next = k + 1
      BY <1>1, <1>14, <1>15, <2>4 DEF Runs
    <3>2. Ordering(d.wire, said, k)
      BY ONLY <1>3, <2>2 DEF Ordering
    <3>3. run'.next - 1 = k
      BY <3>1
    <3>4. Exact(ad', wire', run', said')
      BY ONLY <1>14, <3>1, <3>2, <3>3 DEF Exact
    <3> QED
      BY <3>4 DEF EInv
  <2> QED
    BY <2>3, <2>4
<1>16. CASE ~d.ok
  <2>1. run'.failed
    BY <1>1, <1>14, <1>16 DEF Runs
  <2> QED
    BY <2>1, FailedExact DEF EInv
<1> QED
  BY <1>15, <1>16

LEMMA OnToolResultExact ==
  ASSUME UniqueIDs, AInv, GInv, EInv, NEW call \in Calls, NEW missing \in BOOLEAN, OnToolResult(call, missing)
  PROVE  EInv'
<1>1. /\ ATypes /\ run.phase = "results" /\ run \in Runs /\ wire \in Seq(WireEvents)
      /\ run.failed \in BOOLEAN /\ said[Len(said)].calls = run.calls
      /\ Len(run.calls) = ad.toolCallCount /\ run.next \in 1 .. ad.toolCallCount
      /\ \A k \in 1 .. ad.toolCallCount : run.calls[k].tag = <<Len(said), k>>
  BY DEF AInv, ATypes, OnToolResult, Tooling, Runs
<1>2. PICK w \in Seq(WireEvents), u \in Runs : w = wire /\ u = run
  BY <1>1
<1>3. PICK base \in Nat, count \in Nat : base = ad.toolBase /\ count = ad.toolCallCount
  BY <1>1 DEF ATypes, Adapters
<1>4. PICK k \in Nat : k = run.next /\ k \in 1 .. count
  BY <1>1, <1>3
<1>5. PICK j \in Nat : j = base + count + (k - 1)
  BY <1>4
<1>6. PICK t \in ToolCalls : t = run.calls[k]
  BY <1>1, <1>2, <1>3, <1>4 DEF Runs
<1>7. PICK c \in InCall : c = Begin(call) /\ c.ad = ad /\ c.wire = w
  BY <1>1, <1>2, Begun
<1>8. PICK e1 \in WireEvents, e2 \in WireEvents, e3 \in WireEvents :
         /\ e1 = ToolResultStart(j, t.id)
         /\ e2 = ToolResultDelta(j, Output(t))
         /\ e3 = BlockStop(j)
  BY ToolEvents, StopEvent
<1>9. ForBlock(e1, e2, e3, j, "tool_result") /\ e2.text = Output(t) /\ e1.id = t.id
  <2>1. ForBlock(e1, e2, e3, j, "tool_result")
    BY <1>8, ToolEvents
  <2>2. e2.text = Output(t) /\ e1.id = t.id
    BY <1>8 DEF ToolResultDelta, ToolResultStart
  <2> QED
    BY <2>1, <2>2
<1>10. PICK d : d = IF missing THEN [c EXCEPT !.ok = FALSE] ELSE EmitBlock(c, <<e1, e2, e3>>)
  OBVIOUS
<1>11. /\ d \in InCall /\ d.ok \in BOOLEAN
       /\ d.ok => d.wire = Append(Append(Append(w, e1), e2), e3)
  <2>1. CASE missing
    BY <1>7, <1>10, <2>1 DEF InCall
  <2>2. CASE ~missing
    <3>1. BlockPassed(c, e1, e2, e3, d)
      BY <1>10, <2>2, BlockEmitted
    <3> QED
      BY <1>7, <3>1 DEF BlockPassed, InCall
  <2> QED
    BY <2>1, <2>2
<1>12. PICK x : x = IF d.ok /\ k = count THEN WithIndex(d, base + 2 * count) ELSE d
  OBVIOUS
<1>13. x = sendResult(Begin(call), k, missing)
  BY <1>3, <1>5, <1>6, <1>7, <1>8, <1>10, <1>12
     DEF sendResult, resultIndex, WithIndex, ToolResultBlock
<1>14. x.wire = d.wire /\ x.ok = d.ok
  <2>1. CASE d.ok /\ k = count
    <3>1. base + 2 * count \in Nat /\ x = WithIndex(d, base + 2 * count)
      BY <1>12, <2>1
    <3>2. Moved(d, base + 2 * count, x)
      BY <1>11, <3>1, IndexMoved
    <3> QED
      BY <3>2 DEF Moved
  <2>2. CASE ~(d.ok /\ k = count)
    BY <1>12, <2>2
  <2> QED
    BY <2>1, <2>2
<1>15. PICK failed \in BOOLEAN :
         /\ failed = (run.failed \/ ~d.ok) /\ wire' = d.wire /\ said' = said
         /\ run' = IF k < count THEN [run EXCEPT !.next = k + 1, !.failed = failed]
                                ELSE [run EXCEPT !.phase = IF failed THEN "aborted" ELSE "round",
                                                 !.failed = failed]
  <2>1. PICK failed : failed = (run.failed \/ ~x.ok)
    OBVIOUS
  <2>2. failed \in BOOLEAN /\ failed = (run.failed \/ ~d.ok)
    BY <1>1, <1>11, <1>14, <2>1
  <2>3. /\ wire' = d.wire /\ said' = said
        /\ run' = IF k < count THEN [run EXCEPT !.next = k + 1, !.failed = failed]
                               ELSE [run EXCEPT !.phase = IF failed THEN "aborted" ELSE "round",
                                                !.failed = failed]
    BY <1>1, <1>3, <1>4, <1>13, <1>14, <2>1 DEF OnToolResult
  <2> QED
    BY <2>2, <2>3
<1>16. run'.failed = failed
  <2>1. CASE k < count
    BY <1>1, <1>15, <2>1 DEF Runs
  <2>2. CASE ~(k < count)
    BY <1>1, <1>15, <2>2 DEF Runs
  <2> QED
    BY <2>1, <2>2
<1>17. CASE failed
  BY <1>16, <1>17, FailedExact DEF EInv
<1>18. CASE ~failed
  <2>1. ~run.failed /\ d.ok
    BY <1>1, <1>11, <1>15, <1>18
  <2>2. Serves(wire, said, run.next - 1)
    BY <1>1, <2>1 DEF EInv, Exact
  <2>3. PICK z \in Seq(Rounds), o \in Rounds :
          /\ said = Append(z, o) /\ Sound(z)
          /\ AtRest(wire, ItemsOf(z, o), Mid(z, o, Len(o.calls), run.next - 1))
    BY ONLY <2>2 DEF Serves
  <2>4. o.calls = run.calls /\ Len(o.calls) = count /\ Len(said) = Len(z) + 1
    <3>1. said[Len(said)] = o /\ Len(said) = Len(z) + 1
      BY ONLY <2>3, LastOf
    <3> QED
      BY ONLY <1>1, <1>3, <3>1
  <2>5. Labelled(o, Len(z) + 1)
    <3>1. \A i \in 1 .. Len(run.calls) : run.calls[i].id = run.calls[i].tag
      BY <1>1 DEF GInv, Good
    <3>2. \A i \in 1 .. count : run.calls[i].id = <<Len(said), i>>
      BY ONLY <1>1, <1>3, <3>1
    <3> QED
      BY ONLY <2>4, <3>2 DEF Labelled
  <2>6. AtRest(d.wire, ItemsOf(z, o), Mid(z, o, Len(o.calls), k))
    <3>1. AtRest(w, ItemsOf(z, o), Mid(z, o, Len(o.calls), k - 1)) /\ k \in 1 .. Len(o.calls) /\ t = o.calls[k]
      BY ONLY <1>2, <1>4, <1>6, <2>3, <2>4
    <3>2. d.wire = Append(Append(Append(w, e1), e2), e3) /\ e3 = BlockStop(j)
      BY ONLY <1>8, <1>11, <2>1
    <3>3. Sound(z)
      BY ONLY <2>3
    <3> QED
      BY ONLY <1>9, <2>5, <3>1, <3>2, <3>3, z \in Seq(Rounds), o \in Rounds, k \in Nat, w \in Seq(WireEvents),
              j \in Nat, e1 \in WireEvents, e2 \in WireEvents, CallAnswered
  <2>7. CASE k < count
    <3>1. run'.phase = "results" /\ run'.next = k + 1
      BY <1>1, <1>15, <2>7 DEF Runs
    <3>2. Serves(d.wire, said, k)
      BY ONLY <2>3, <2>6 DEF Serves
    <3>3. run'.next - 1 = k
      BY <3>1
    <3>4. Exact(ad', wire', run', said')
      BY ONLY <1>15, <3>1, <3>2, <3>3 DEF Exact
    <3> QED
      BY <3>4 DEF EInv
  <2>8. CASE ~(k < count)
    <3>1. run'.phase = "round"
      BY <1>1, <1>15, <1>18, <2>8 DEF Runs
    <3>2. k = Len(o.calls)
      BY <1>4, <2>4, <2>8
    <3>3. Settles(d.wire, said)
      BY ONLY <2>3, <2>5, <2>6, <3>2, RoundSettles
    <3>4. Exact(ad', wire', run', said')
      BY ONLY <1>15, <3>1, <3>3, SettledExact
    <3> QED
      BY <3>4 DEF EInv
  <2> QED
    BY <2>7, <2>8
<1> QED
  BY <1>17, <1>18

LEMMA ExactStays ==
  ASSUME UniqueIDs, AInv, GInv, EInv, [ANext]_avars
  PROVE  EInv'
<1>1. CASE UNCHANGED avars
  BY <1>1 DEF EInv, avars
<1>2. ASSUME NEW call \in Calls, Preamble(call)
      PROVE  EInv'
  BY <1>2, PreambleExact
<1>3. ASSUME NEW call \in Calls, NEW thinks \in BOOLEAN, NEW speaks \in BOOLEAN,
             OnDelta(call, thinks, speaks)
      PROVE  EInv'
  BY <1>3, OnDeltaExact
<1>4. ASSUME NEW call \in Calls, NEW calls \in CallLists, OnAssistantMessage(call, calls)
      PROVE  EInv'
  BY <1>4, OnAssistantMessageExact
<1>5. ASSUME NEW call \in Calls, OnToolCallStart(call)
      PROVE  EInv'
  BY <1>5, OnToolCallStartExact
<1>6. ASSUME NEW call \in Calls, NEW missing \in BOOLEAN, OnToolResult(call, missing)
      PROVE  EInv'
  BY <1>6, OnToolResultExact
<1>7. ASSUME NEW call \in Calls, Epilogue(call)
      PROVE  EInv'
  BY <1>7, EpilogueExact
<1>8. CASE OnRoundStart
  BY <1>8, OnRoundStartExact
<1>9. CASE ProviderFails \/ Abandon
  BY <1>9, GivenUpExact
<1> QED
  BY <1>1, <1>2, <1>3, <1>4, <1>5, <1>6, <1>7, <1>8, <1>9 DEF ANext

(* What a reader that got a beginning of the wire has read.                *)
LEMMA ReadToHere ==
  ASSUME NEW w, Len(w) \in Nat, NEW n \in 0 .. Len(w), NEW g, IsRun(g, w, Nat), NEW h, IsRun(h, w, 1 .. n)
  PROVE  h[Len(w)] = g[n]
<1> DEFINE S == {i \in Nat : i <= Len(w) => h[i] = g[IF i <= n THEN i ELSE n]}
<1>1. 0 \in S
  BY DEF IsRun
<1>2. ASSUME NEW i \in S
      PROVE  i + 1 \in S
  <2> SUFFICES ASSUME i + 1 <= Len(w)
               PROVE  h[i + 1] = g[IF i + 1 <= n THEN i + 1 ELSE n]
    OBVIOUS
  <2>1. i \in Nat /\ i + 1 \in 1 .. Len(w) /\ (i + 1) - 1 = i /\ i + 1 \in Nat
    OBVIOUS
  <2>2. h[i] = g[IF i <= n THEN i ELSE n]
    BY <2>1
  <2>3. h[i + 1] = Step(w, 1 .. n, h[i], i + 1) /\ g[i + 1] = Step(w, Nat, g[i], i + 1)
    BY <2>1 DEF IsRun
  <2>4. CASE i + 1 <= n
    <3>1. i + 1 \in 1 .. n /\ i <= n
      BY <2>1, <2>4
    <3> QED
      BY <2>1, <2>2, <2>3, <2>4, <3>1 DEF Step
  <2>5. CASE ~(i + 1 <= n)
    <3>1. i + 1 \notin 1 .. n
      BY <2>1, <2>5
    <3>2. h[i + 1] = h[i]
      BY <2>3, <3>1 DEF Step
    <3>3. CASE i = n
      BY <2>1, <2>2, <2>5, <3>2, <3>3
    <3>4. CASE i # n
      <4>1. ~(i <= n)
        BY <2>1, <2>5, <3>4
      <4> QED
        BY <2>2, <2>5, <3>2, <4>1
    <3> QED
      BY <3>3, <3>4
  <2> QED
    BY <2>4, <2>5
<1>3. S = Nat
  <2>1. S \subseteq Nat
    OBVIOUS
  <2> HIDE DEF S
  <2> QED
    BY <1>1, <1>2, <2>1, SetInduction
<1>4. h[Len(w)] = g[IF Len(w) <= n THEN Len(w) ELSE n]
  BY <1>3
<1>5. Len(w) <= n => n = Len(w)
  OBVIOUS
<1> QED
  BY <1>4, <1>5

(* The page of a turn is the turn as the model and the tools made it.      *)
SaidPage(p) ==
  /\ p.text = SaidText /\ p.thinking = SaidThinking
  /\ p.names = Join(LAMBDA i : [k \in DOMAIN said[i].calls |-> said[i].calls[k].tag])
  /\ p.execs = Join(Executions) /\ p.items = SaidTimeline

LEMMA PageSaid ==
  SaidPage(PageOf(said))
<1>1. PageOf(said).text = SaidText /\ PageOf(said).thinking = SaidThinking
  BY DEF PageOf, Bound, Leaf, SaidText, SaidThinking, Join, Round
<1>2. PageOf(said).names = Join(LAMBDA i : [k \in DOMAIN said[i].calls |-> said[i].calls[k].tag])
  BY DEF PageOf, Bound, Leaf, NamesIn, Join, Round
<1>3. PageOf(said).execs = Join(Executions)
  BY DEF PageOf, Bound, Leaf, ExecsIn, Executions, Join, Round
<1>4. PageOf(said).items = SaidTimeline
  BY DEF PageOf, Bound, Leaf, ExecsIn, MarksIn, TalkIn, Executions, SaidTimeline, Join, Round
<1> QED
  BY <1>1, <1>2, <1>3, <1>4 DEF SaidPage

CInv == TurnInv /\ EInv /\ (Returned => kept \subseteq DOMAIN wire)

LEMMA CutInvariant ==
  ASSUME UniqueIDs
  PROVE  Spec => []CInv
<1>1. Init => CInv
  <2>1. Init => TurnInv
    BY StartsInOrder, GoodStarts DEF Init, RInit, TurnInv, ReadBack
  <2> QED
    BY <2>1, ExactStarts DEF Init, RInit, CInv, Returned
<1>2. CInv /\ [Next]_vars => CInv'
  <2> SUFFICES ASSUME CInv, [Next]_vars
               PROVE  CInv'
    OBVIOUS
  <2>1. TurnInv'
    BY TurnStays DEF CInv
  <2>2. AInv /\ GInv /\ EInv /\ ReadBack
    BY DEF CInv, TurnInv
  <2>3. CASE Produce
    <3>1. ANext /\ loop' = loop
      BY <2>3 DEF Produce, rvars
    <3>2. EInv'
      BY <2>2, <3>1, ExactStays
    <3>3. run.phase # "over"
      BY <3>1, OverIsOver
    <3>4. ~Returned'
      BY <2>2, <3>1, <3>3 DEF ReadBack, Returned
    <3> QED
      BY <2>1, <3>2, <3>4 DEF CInv
  <2>4. CASE \E positions \in Deliveries : Carry(positions)
    <3>1. PICK positions \in Deliveries : Carry(positions)
      BY <2>4
    <3>2. UNCHANGED avars /\ kept' = positions
      BY <3>1 DEF Carry
    <3>3. EInv'
      BY <2>2, <3>2, ExactStays
    <3>4. positions \subseteq DOMAIN wire
      <4>1. wire \in Seq(WireEvents)
        BY <2>2 DEF AInv, ATypes
      <4>2. Len(wire) \in Nat /\ DOMAIN wire = 1 .. Len(wire)
        BY <4>1
      <4> QED
        BY <4>2 DEF Deliveries
    <3>5. wire' = wire
      BY <3>2 DEF avars
    <3> QED
      BY <2>1, <3>2, <3>3, <3>4, <3>5 DEF CInv
  <2>5. CASE UNCHANGED vars
    <3>1. UNCHANGED avars /\ loop' = loop /\ kept' = kept
      BY <2>5 DEF vars, rvars
    <3>2. EInv'
      BY <2>2, <3>1, ExactStays
    <3>3. wire' = wire
      BY <3>1 DEF avars
    <3> QED
      BY <2>1, <3>1, <3>2, <3>3 DEF CInv, Returned
  <2> QED
    BY <2>3, <2>4, <2>5 DEF Next
<1> QED
  BY <1>1, <1>2, PTL DEF Spec

(* The reader of a turn that nothing failed in, of which a beginning       *)
(* arrived.                                                                *)
ReadThrough(g, n, p) ==
  /\ n \in 0 .. Len(wire) /\ kept = 1 .. n /\ p = PageOf(said) /\ p \in Pages
  /\ Sound(said) /\ Rests(g[Len(wire)], p) /\ Glimpse(g[n], p.items) /\ r \in Finalized(g[n])

LEMMA WholeRead ==
  ASSUME CInv, Returned, Whole
  PROVE  \E g, n, p : ReadThrough(g, n, p)
<1>1. wire \in Seq(WireEvents) /\ said \in Seq(Rounds) /\ run.phase = "over" /\ ~run.failed
      /\ kept \subseteq DOMAIN wire /\ kept = 1 .. Cardinality(kept)
      /\ \E h : IsRun(h, wire, kept) /\ r \in Finalized(h[Len(wire)])
  BY DEF CInv, TurnInv, AInv, ATypes, ReadBack, Returned, Whole
<1>2. Len(wire) \in Nat /\ DOMAIN wire = 1 .. Len(wire)
  BY <1>1
<1>3. PICK n \in Nat : n = Cardinality(kept)
  <2>1. IsFiniteSet(1 .. Len(wire))
    BY <1>2, FS_Interval
  <2>2. IsFiniteSet(kept)
    BY <1>1, <1>2, <2>1, FS_Subset
  <2> QED
    BY <2>2, FS_CardinalityType
<1>4. kept = 1 .. n /\ n \in 0 .. Len(wire)
  <2>1. kept = 1 .. n
    BY <1>1, <1>3
  <2>2. n = 0 \/ n \in kept
    BY <2>1
  <2> QED
    BY <1>1, <1>2, <2>1, <2>2
<1>5. PICK h : IsRun(h, wire, 1 .. n) /\ r \in Finalized(h[Len(wire)])
  BY <1>1, <1>4
<1>6. PICK p : p = PageOf(said) /\ p \in Pages
  BY <1>1, PageType
<1>7. Sound(said) /\ AtRest(wire, p.items, p)
  <2>1. Settles(wire, said)
    BY <1>1 DEF CInv, EInv, Exact
  <2> QED
    BY <1>6, <2>1 DEF Settles
<1>8. PICK s : Clear(wire, p.items, s) /\ Rests(s, p)
  BY <1>7 DEF AtRest
<1>9. PICK g : ClearRun(g, wire, p.items, s)
  BY <1>8 DEF Clear
<1>10. IsRun(g, wire, Nat) /\ g[Len(wire)] = s /\ Glimpse(g[n], p.items)
  BY <1>4, <1>9 DEF ClearRun
<1>11. h[Len(wire)] = g[n]
  BY ONLY <1>2, <1>4, <1>5, <1>10, ReadToHere
<1>12. ReadThrough(g, n, p)
  BY ONLY <1>4, <1>5, <1>6, <1>7, <1>8, <1>10, <1>11 DEF ReadThrough
<1> QED
  BY <1>12

(* ExactWhenComplete: where a call id never repeats in a turn, a turn that *)
(* nothing failed in and that arrives complete is rebuilt by Reassemble    *)
(* exactly as the Adapter was told it, text, thinking, calls, executions   *)
(* and the order of the timeline, for any number of rounds, deltas and     *)
(* parallel tools.                                                         *)
THEOREM CompleteTurnsAreExact ==
  ASSUME UniqueIDs
  PROVE  Spec => []ExactWhenComplete
<1>1. CInv => ExactWhenComplete
  <2> SUFFICES ASSUME CInv, Returned, Whole, kept = DOMAIN wire
               PROVE  /\ r.text = SaidText
                      /\ r.thinking = SaidThinking
                      /\ r.toolNames = Join(LAMBDA i : [k \in DOMAIN said[i].calls |-> said[i].calls[k].tag])
                      /\ Len(r.tools) = Len(r.toolNames)
                      /\ r.executions = Join(Executions)
                      /\ r.timeline = SaidTimeline
    BY DEF ExactWhenComplete
  <2>1. PICK g, n, p : ReadThrough(g, n, p)
    BY WholeRead
  <2>2. n \in 0 .. Len(wire) /\ kept = 1 .. n /\ p = PageOf(said) /\ p \in Pages
        /\ Sound(said) /\ Rests(g[Len(wire)], p) /\ r \in Finalized(g[n])
    BY <2>1 DEF ReadThrough
  <2>3. n = Len(wire)
    <3>1. wire \in Seq(WireEvents)
      BY DEF CInv, TurnInv, AInv, ATypes
    <3>2. PICK m \in Nat : m = Len(wire) /\ DOMAIN wire = 1 .. m
      BY ONLY <3>1
    <3>3. n \in 0 .. m
      BY ONLY <2>2, <3>2
    <3>4. 1 .. n = 1 .. m
      BY ONLY <2>2, <3>2, kept = DOMAIN wire
    <3>5. m = 0 \/ m \in 1 .. m
      BY ONLY m \in Nat
    <3>6. m = 0 \/ m \in 1 .. n
      BY ONLY <3>4, <3>5
    <3>7. n = m
      BY ONLY <3>3, <3>6, m \in Nat
    <3> QED
      BY ONLY <3>2, <3>7
  <2>4. PICK s : s = g[n] /\ Rests(s, p) /\ r \in Finalized(s)
    BY <2>2, <2>3
  <2>5. /\ s \in Reader /\ DOMAIN s.results = {} /\ DOMAIN s.inflight = {}
        /\ s.curText = <<>> /\ s.curThinking = <<>>
        /\ s.toolNames = p.names /\ s.tools = p.calls /\ s.executions = p.execs
        /\ s.timeline = p.items /\ s.allText = p.text /\ s.allThinking = p.thinking
    BY <2>4 DEF Rests, Keeps, Hushed, Toolless
  <2>6. /\ Flushes(s, r.timeline) /\ r.text = FullText(s) /\ r.thinking = FullThinking(s)
        /\ r.toolNames = s.toolNames /\ r.executions = s.executions /\ r.tools = s.tools
    BY <2>4, <2>5, QuietEnd
  <2>7. r.text = p.text /\ r.thinking = p.thinking
    <3>1. p.text \in Seq(Nat) /\ p.thinking \in Seq(Nat)
      BY <2>2, PageFields
    <3>2. p.text \o <<>> = p.text /\ p.thinking \o <<>> = p.thinking
      BY <3>1
    <3> QED
      BY ONLY <2>5, <2>6, <3>2 DEF FullText, FullThinking
  <2>8. r.timeline = p.items
    BY ONLY <2>5, <2>6 DEF Flushes
  <2>9. Len(r.tools) = Len(r.toolNames)
    BY ONLY <2>2, <2>5, <2>6 DEF Sound
  <2>10. SaidPage(p)
    BY <2>2, PageSaid
  <2> QED
    BY ONLY <2>5, <2>6, <2>7, <2>8, <2>9, <2>10 DEF SaidPage
<1>2. Spec => []CInv
  BY CutInvariant
<1> QED
  BY <1>1, <1>2, PTL

(* CutIsPrefix: where a call id never repeats in a turn, a turn that       *)
(* nothing failed in and that is cut off after any event is rebuilt as a   *)
(* beginning of itself: every timeline item but the last as it was said,   *)
(* the last as it was said or the beginning of it, a tool's result never   *)
(* with another tool's call.                                               *)
THEOREM CutTurnsAreBeginnings ==
  ASSUME UniqueIDs
  PROVE  Spec => []CutIsPrefix
<1>1. CInv => CutIsPrefix
  <2> SUFFICES ASSUME CInv, Returned, Whole
               PROVE  /\ Len(r.timeline) <= Len(SaidTimeline)
                      /\ \A i \in 1 .. Len(r.timeline) - 1 : r.timeline[i] = SaidTimeline[i]
                      /\ r.timeline # <<>> => BeginsLike(Last(r.timeline), SaidTimeline[Len(r.timeline)])
    BY DEF CutIsPrefix
  <2>1. PICK g, n, p : ReadThrough(g, n, p)
    BY WholeRead
  <2>2. p = PageOf(said) /\ Glimpse(g[n], p.items) /\ r \in Finalized(g[n])
    BY <2>1 DEF ReadThrough
  <2>3. r.timeline \in Seq(TurnItem) /\ Cut(r.timeline, p.items)
    BY ONLY <2>2 DEF Glimpse
  <2>4. p.items = SaidTimeline
    BY <2>2, PageSaid DEF SaidPage
  <2>5. r.timeline # <<>> => Len(r.timeline) > 0
    BY ONLY <2>3
  <2> QED
    BY ONLY <2>3, <2>4, <2>5 DEF Cut, Last
<1>2. Spec => []CInv
  BY CutInvariant
<1> QED
  BY <1>1, <1>2, PTL
===============================================================================
