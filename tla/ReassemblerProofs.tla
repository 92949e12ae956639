--------------------------- MODULE ReassemblerProofs ---------------------------
(***************************************************************************)
(* Theorems about AnyFeed: what Reassemble keeps whatever events arrive in *)
(* whatever order, for every set of events and turns of every length.      *)
(***************************************************************************)
EXTENDS AnyFeed, JoinProofs, FiniteSetTheorems

(* What the events can put into the state.                                 *)
Texts   == Seq(Chunks)
Names   == {e.name : e \in Inputs}
CallIDs == {e.id : e \in Inputs}

OpenCall   == [name : Names, id : CallIDs, params : Texts]
OpenResult == [id : CallIDs, text : Texts]

Call == [name : Names, id : CallIDs, params : Texts \cup {EmptyInput}]
Exec == [name : Names, id : CallIDs, params : Texts \cup {EmptyInput}, result : Texts]

Item == [kind : {"text", "thinking"}, text : Texts] \cup [kind : {"tool"}, exec : Exec]

State ==
  [stream        : {e.stream : e \in Inputs} \cup {EmptyText},
   toolNames     : Seq(Names),
   tools         : Seq(Call),
   executions    : Seq(Exec),
   timeline      : Seq(Item),
   text          : Texts, thinking    : Texts,
   error         : BOOLEAN,
   curText       : Texts, allText     : Texts,
   curThinking   : Texts, allThinking : Texts,
   inflight      : Blocks(OpenCall),
   results       : Blocks(OpenResult),
   thinkingIndex : Int,
   textIndex     : Int]

--------------------------------------------------------------------------------
(* What one item more, or a run of executions, adds to what a timeline     *)
(* joins to.                                                               *)
LEMMA ItemTextType ==
  ASSUME NEW q \in Seq(Item), NEW kind \in {"text", "thinking"}
  PROVE  /\ [i \in DOMAIN q |-> IF q[i].kind = kind THEN q[i].text ELSE EmptyText] \in Seq(Texts)
         /\ ItemText(q, kind) \in Texts
<1> DEFINE w == [i \in DOMAIN q |-> IF q[i].kind = kind THEN q[i].text ELSE EmptyText]
<1>1. DOMAIN q = 1 .. Len(q) /\ Len(q) \in Nat /\ \A i \in 1 .. Len(q) : q[i] \in Item
  OBVIOUS
<1>2. ASSUME NEW i \in 1 .. Len(q)
      PROVE  (IF q[i].kind = kind THEN q[i].text ELSE EmptyText) \in Texts
  <2>1. q[i] \in Item
    BY <1>1
  <2>2. q[i].kind = kind => q[i].text \in Texts
    BY <2>1 DEF Item
  <2>3. EmptyText \in Texts
    BY DEF EmptyText, Texts
  <2> QED
    BY <2>2, <2>3
<1>3. w \in Seq(Texts)
  BY <1>1, <1>2
<1> HIDE DEF w
<1>4. FlattenSeq(w) \in Texts
  BY <1>3, FlattenType DEF Texts
<1> QED
  BY <1>3, <1>4 DEF ItemText, w

LEMMA ItemTextAppend ==
  ASSUME NEW q \in Seq(Item), NEW x \in Item, NEW kind \in {"text", "thinking"}
  PROVE  ItemText(Append(q, x), kind)
           = ItemText(q, kind) \o (IF x.kind = kind THEN x.text ELSE EmptyText)
<1> DEFINE piece(y) == IF y.kind = kind THEN y.text ELSE EmptyText
           p == Append(q, x)
           w == [i \in DOMAIN q |-> piece(q[i])]
           v == [i \in DOMAIN p |-> piece(p[i])]
<1>1. /\ p \in Seq(Item) /\ Len(q) \in Nat /\ p[Len(q) + 1] = x
      /\ \A i \in 1 .. Len(q) : p[i] = q[i]
      /\ DOMAIN q = 1 .. Len(q) /\ DOMAIN p = 1 .. Len(q) + 1
  OBVIOUS
<1>2. w \in Seq(Texts) /\ v \in Seq(Texts)
  BY <1>1, ItemTextType
<1> HIDE DEF piece, p
<1>3. /\ Len(w) = Len(q) /\ Len(v) = Len(w) + 1 /\ v[Len(w) + 1] = piece(x)
      /\ \A i \in 1 .. Len(w) : v[i] = w[i]
  BY <1>1, <1>2
<1> HIDE DEF w, v
<1>4. FlattenSeq(v) = FlattenSeq(w) \o piece(x)
  BY <1>2, <1>3, FlattenOneMore DEF Texts
<1>5. ItemText(q, kind) = FlattenSeq(w) /\ ItemText(p, kind) = FlattenSeq(v)
  BY DEF ItemText, w, v, piece
<1>6. ItemText(p, kind) = ItemText(q, kind) \o piece(x)
  BY <1>4, <1>5
<1> QED
  BY <1>6 DEF p, piece

LEMMA ItemTextTools ==
  ASSUME NEW q \in Seq(Item), NEW x \in Seq(Exec), NEW y \in Seq(Item), Len(y) = Len(x),
         \A k \in 1 .. Len(x) : y[k] = ToolItem(x[k]), NEW kind \in {"text", "thinking"}
  PROVE  ItemText(q \o y, kind) = ItemText(q, kind)
<1> DEFINE piece(z) == IF z.kind = kind THEN z.text ELSE EmptyText
           p == q \o y
           w == [i \in DOMAIN q |-> piece(q[i])]
           u == [i \in DOMAIN y |-> piece(y[i])]
           v == [i \in DOMAIN p |-> piece(p[i])]
<1>1. /\ p \in Seq(Item) /\ Len(q) \in Nat /\ Len(y) \in Nat
      /\ \A i \in 1 .. Len(q) : p[i] = q[i]
      /\ \A i \in 1 .. Len(y) : p[Len(q) + i] = y[i]
      /\ DOMAIN q = 1 .. Len(q) /\ DOMAIN p = 1 .. Len(q) + Len(y) /\ DOMAIN y = 1 .. Len(y)
  <2>1. IsConcat(q, y, p, Item)
    BY ConcatElements
  <2> HIDE DEF p
  <2> QED
    BY <2>1 DEF IsConcat
<1>2. w \in Seq(Texts) /\ v \in Seq(Texts) /\ u \in Seq(Texts)
  BY <1>1, ItemTextType
<1>3. ASSUME NEW k \in 1 .. Len(y)
      PROVE  piece(y[k]) = <<>>
  <2>1. y[k] = ToolItem(x[k])
    OBVIOUS
  <2> QED
    BY <2>1 DEF ToolItem, EmptyText
<1> HIDE DEF piece, p
<1>4. /\ Len(w) = Len(q) /\ Len(u) = Len(y) /\ Len(v) = Len(w) + Len(u)
      /\ \A i \in 1 .. Len(w) : v[i] = w[i]
      /\ \A k \in 1 .. Len(u) : v[Len(w) + k] = u[k]
      /\ \A k \in 1 .. Len(u) : u[k] = <<>>
  BY <1>1, <1>2, <1>3
<1> HIDE DEF w, v, u
<1>5. FlattenSeq(v) = FlattenSeq(w) \o FlattenSeq(u)
  BY <1>2, <1>4, FlattenMore DEF Texts
<1>6. FlattenSeq(u) = <<>>
  BY <1>2, <1>4, FlattenBlank DEF Texts
<1>7. FlattenSeq(w) \in Seq(Chunks)
  BY <1>2, FlattenType DEF Texts
<1>8. FlattenSeq(w) \o <<>> = FlattenSeq(w)
  BY <1>7, ConcatEmptySeq
<1> QED
  BY <1>5, <1>6, <1>8 DEF w, v, p, piece, ItemText

LEMMA ItemExecutionsType ==
  ASSUME NEW q \in Seq(Item)
  PROVE  /\ [i \in DOMAIN q |-> IF q[i].kind = "tool" THEN <<q[i].exec>> ELSE <<>>] \in Seq(Seq(Exec))
         /\ ItemExecutions(q) \in Seq(Exec)
<1> DEFINE w == [i \in DOMAIN q |-> IF q[i].kind = "tool" THEN <<q[i].exec>> ELSE <<>>]
<1>1. DOMAIN q = 1 .. Len(q) /\ Len(q) \in Nat /\ \A i \in 1 .. Len(q) : q[i] \in Item
  OBVIOUS
<1>2. ASSUME NEW i \in 1 .. Len(q)
      PROVE  (IF q[i].kind = "tool" THEN <<q[i].exec>> ELSE <<>>) \in Seq(Exec)
  <2>1. q[i] \in Item
    BY <1>1
  <2>2. q[i].kind = "tool" => q[i].exec \in Exec
    BY <2>1 DEF Item
  <2> QED
    BY <2>2
<1>3. w \in Seq(Seq(Exec))
  BY <1>1, <1>2
<1> HIDE DEF w
<1>4. FlattenSeq(w) \in Seq(Exec)
  BY <1>3, FlattenType
<1> QED
  BY <1>3, <1>4 DEF ItemExecutions, w

LEMMA ItemExecutionsAppend ==
  ASSUME NEW q \in Seq(Item), NEW x \in Item
  PROVE  ItemExecutions(Append(q, x))
           = ItemExecutions(q) \o (IF x.kind = "tool" THEN <<x.exec>> ELSE <<>>)
<1> DEFINE piece(y) == IF y.kind = "tool" THEN <<y.exec>> ELSE <<>>
           p == Append(q, x)
           w == [i \in DOMAIN q |-> piece(q[i])]
           v == [i \in DOMAIN p |-> piece(p[i])]
<1>1. /\ p \in Seq(Item) /\ Len(q) \in Nat /\ p[Len(q) + 1] = x
      /\ \A i \in 1 .. Len(q) : p[i] = q[i]
      /\ DOMAIN q = 1 .. Len(q) /\ DOMAIN p = 1 .. Len(q) + 1
  OBVIOUS
<1>2. w \in Seq(Seq(Exec)) /\ v \in Seq(Seq(Exec))
  BY <1>1, ItemExecutionsType
<1> HIDE DEF piece, p
<1>3. /\ Len(w) = Len(q) /\ Len(v) = Len(w) + 1 /\ v[Len(w) + 1] = piece(x)
      /\ \A i \in 1 .. Len(w) : v[i] = w[i]
  BY <1>1, <1>2
<1> HIDE DEF w, v
<1>4. FlattenSeq(v) = FlattenSeq(w) \o piece(x)
  BY <1>2, <1>3, FlattenOneMore
<1>5. ItemExecutions(q) = FlattenSeq(w) /\ ItemExecutions(p) = FlattenSeq(v)
  BY DEF ItemExecutions, w, v, piece
<1>6. ItemExecutions(p) = ItemExecutions(q) \o piece(x)
  BY <1>4, <1>5
<1> QED
  BY <1>6 DEF p, piece

LEMMA ItemExecutionsTools ==
  ASSUME NEW q \in Seq(Item), NEW x \in Seq(Exec), NEW y \in Seq(Item), Len(y) = Len(x),
         \A k \in 1 .. Len(x) : y[k] = ToolItem(x[k])
  PROVE  ItemExecutions(q \o y) = ItemExecutions(q) \o x
<1> DEFINE piece(z) == IF z.kind = "tool" THEN <<z.exec>> ELSE <<>>
           p == q \o y
           w == [i \in DOMAIN q |-> piece(q[i])]
           u == [i \in DOMAIN y |-> piece(y[i])]
           v == [i \in DOMAIN p |-> piece(p[i])]
<1>1. /\ p \in Seq(Item) /\ Len(q) \in Nat /\ Len(y) \in Nat
      /\ \A i \in 1 .. Len(q) : p[i] = q[i]
      /\ \A i \in 1 .. Len(y) : p[Len(q) + i] = y[i]
      /\ DOMAIN q = 1 .. Len(q) /\ DOMAIN p = 1 .. Len(q) + Len(y) /\ DOMAIN y = 1 .. Len(y)
  <2>1. IsConcat(q, y, p, Item)
    BY ConcatElements
  <2> HIDE DEF p
  <2> QED
    BY <2>1 DEF IsConcat
<1>2. w \in Seq(Seq(Exec)) /\ v \in Seq(Seq(Exec)) /\ u \in Seq(Seq(Exec))
  BY <1>1, ItemExecutionsType
<1>3. ASSUME NEW k \in 1 .. Len(y)
      PROVE  piece(y[k]) = <<x[k]>>
  <2>1. y[k] = ToolItem(x[k])
    OBVIOUS
  <2> QED
    BY <2>1 DEF ToolItem
<1> HIDE DEF piece, p
<1>4. /\ Len(w) = Len(q) /\ Len(u) = Len(x) /\ Len(v) = Len(w) + Len(u)
      /\ \A i \in 1 .. Len(w) : v[i] = w[i]
      /\ \A k \in 1 .. Len(u) : v[Len(w) + k] = u[k]
      /\ \A k \in 1 .. Len(x) : u[k] = <<x[k]>>
  BY <1>1, <1>2, <1>3
<1> HIDE DEF w, v, u
<1>5. FlattenSeq(v) = FlattenSeq(w) \o FlattenSeq(u)
  BY <1>2, <1>4, FlattenMore
<1>6. FlattenSeq(u) = x
  BY <1>2, <1>4, FlattenSingles
<1> QED
  BY <1>5, <1>6 DEF w, v, p, piece, ItemExecutions

--------------------------------------------------------------------------------
(* The timeline accounts for the joined parts and for Executions.          *)
Ledger(s) ==
  /\ s.allText = ItemText(s.timeline, "text")
  /\ s.allThinking = ItemText(s.timeline, "thinking")
  /\ s.executions = ItemExecutions(s.timeline)

(* All the text handled so far, closed or open.                            *)
Uttered(s) == s.allText \o s.curText

(* Closing a run leaves the calls and the blocks in progress alone.        *)
SameBlocks(s, t) ==
  /\ t.stream = s.stream /\ t.toolNames = s.toolNames /\ t.error = s.error
  /\ t.tools = s.tools /\ t.executions = s.executions
  /\ t.inflight = s.inflight /\ t.results = s.results
  /\ t.text = s.text /\ t.thinking = s.thinking

LEMMA TextItem ==
  ASSUME NEW q \in Seq(Item), NEW x \in Texts, NEW kind \in {"text", "thinking"},
         NEW other \in {"text", "thinking"}, other # kind
  PROVE  LET p == Append(q, [kind |-> kind, text |-> x])
         IN  /\ p \in Seq(Item)
             /\ ItemText(p, kind) = ItemText(q, kind) \o x
             /\ ItemText(p, other) = ItemText(q, other)
             /\ ItemExecutions(p) = ItemExecutions(q)
<1>1. PICK y \in Item : y = [kind |-> kind, text |-> x]
  BY DEF Item
<1>2. y.kind = kind /\ y.text = x /\ y.kind # other /\ y.kind # "tool"
  BY <1>1
<1>3. ItemText(q, kind) \in Texts /\ ItemText(q, other) \in Texts /\ ItemExecutions(q) \in Seq(Exec)
  BY ItemTextType, ItemExecutionsType
<1>4. ItemText(Append(q, y), kind) = ItemText(q, kind) \o x
  <2>1. ItemText(Append(q, y), kind)
          = ItemText(q, kind) \o (IF y.kind = kind THEN y.text ELSE EmptyText)
    BY ItemTextAppend
  <2> QED
    BY <1>2, <2>1
<1>5. ItemText(Append(q, y), other) = ItemText(q, other)
  <2>1. ItemText(Append(q, y), other)
          = ItemText(q, other) \o (IF y.kind = other THEN y.text ELSE EmptyText)
    BY ItemTextAppend
  <2>2. ItemText(q, other) \o <<>> = ItemText(q, other)
    BY <1>3, ConcatEmptySeq DEF Texts
  <2> QED
    BY <1>2, <2>1, <2>2 DEF EmptyText
<1>6. ItemExecutions(Append(q, y)) = ItemExecutions(q)
  <2>1. ItemExecutions(Append(q, y))
          = ItemExecutions(q) \o (IF y.kind = "tool" THEN <<y.exec>> ELSE <<>>)
    BY ItemExecutionsAppend
  <2>2. ItemExecutions(q) \o <<>> = ItemExecutions(q)
    BY <1>3, ConcatEmptySeq
  <2> QED
    BY <1>2, <2>1, <2>2
<1>7. Append(q, y) \in Seq(Item)
  OBVIOUS
<1> QED
  BY <1>1, <1>4, <1>5, <1>6, <1>7

(* What closing the open text run does.                                    *)
LEMMA CloseText ==
  ASSUME NEW s \in State
  PROVE  LET t == closeTextBlock(s)
         IN  /\ t \in State /\ SameBlocks(s, t)
             /\ t.textIndex = NoBlock /\ t.thinkingIndex = s.thinkingIndex
             /\ t.curText = EmptyText /\ t.curThinking = s.curThinking
             /\ Uttered(t) = Uttered(s)
             /\ Ledger(s) => Ledger(t)
<1> DEFINE t == closeTextBlock(s)
<1>1. /\ s.curText \in Texts /\ s.allText \in Texts /\ s.timeline \in Seq(Item)
      /\ NoBlock \in Int /\ EmptyText \in Texts
      /\ s.allText \o s.curText \in Texts
  BY DEF State, Texts, EmptyText, NoBlock
<1>2. CASE s.curText = EmptyText
  <2>1. t = [s EXCEPT !.textIndex = NoBlock]
    BY <1>2 DEF closeTextBlock
  <2>2. /\ t \in State /\ SameBlocks(s, t)
        /\ t.textIndex = NoBlock /\ t.thinkingIndex = s.thinkingIndex
        /\ t.curText = s.curText /\ t.curThinking = s.curThinking
        /\ t.allText = s.allText /\ t.allThinking = s.allThinking /\ t.timeline = s.timeline
    BY <1>1, <2>1 DEF State, SameBlocks
  <2> HIDE DEF t
  <2>3. t.executions = s.executions
    BY <2>2 DEF SameBlocks
  <2>4. Ledger(s) => Ledger(t)
    BY <2>2, <2>3 DEF Ledger
  <2>5. Uttered(t) = Uttered(s)
    BY <2>2 DEF Uttered
  <2> QED
    BY <1>2, <2>2, <2>4, <2>5 DEF t
<1>3. CASE s.curText # EmptyText
  <2> DEFINE x == [kind |-> "text", text |-> s.curText]
             p == Append(s.timeline, x)
  <2>1. /\ p \in Seq(Item)
        /\ ItemText(p, "text") = ItemText(s.timeline, "text") \o s.curText
        /\ ItemText(p, "thinking") = ItemText(s.timeline, "thinking")
        /\ ItemExecutions(p) = ItemExecutions(s.timeline)
    BY <1>1, TextItem
  <2>2. t = [s EXCEPT !.textIndex = NoBlock, !.curText = EmptyText,
                      !.allText = s.allText \o s.curText, !.timeline = p]
    BY <1>3 DEF closeTextBlock
  <2> HIDE DEF p, t
  <2>3. /\ t \in State /\ SameBlocks(s, t)
        /\ t.textIndex = NoBlock /\ t.thinkingIndex = s.thinkingIndex
        /\ t.curText = EmptyText /\ t.curThinking = s.curThinking
        /\ t.allText = s.allText \o s.curText /\ t.allThinking = s.allThinking
        /\ t.timeline = p
    BY <1>1, <2>1, <2>2 DEF State, SameBlocks
  <2>4. t.executions = s.executions
    BY <2>3 DEF SameBlocks
  <2>5. Ledger(s) => Ledger(t)
    BY <2>1, <2>3, <2>4 DEF Ledger
  <2>6. Uttered(t) = Uttered(s)
    <3>1. (s.allText \o s.curText) \o <<>> = s.allText \o s.curText
      BY <1>1, ConcatEmptySeq DEF Texts
    <3> QED
      BY <2>3, <3>1 DEF Uttered, EmptyText
  <2> QED
    BY <2>3, <2>5, <2>6 DEF t
<1> QED
  BY <1>2, <1>3

(* What closing the open thinking run does.                                *)
LEMMA CloseThinking ==
  ASSUME NEW s \in State
  PROVE  LET t == closeThinkingBlock(s)
         IN  /\ t \in State /\ SameBlocks(s, t)
             /\ t.thinkingIndex = NoBlock /\ t.textIndex = s.textIndex
             /\ t.curThinking = EmptyText /\ t.curText = s.curText
             /\ Uttered(t) = Uttered(s)
             /\ Ledger(s) => Ledger(t)
<1> DEFINE t == closeThinkingBlock(s)
<1>1. /\ s.curThinking \in Texts /\ s.allThinking \in Texts /\ s.timeline \in Seq(Item)
      /\ NoBlock \in Int /\ EmptyText \in Texts
      /\ s.allThinking \o s.curThinking \in Texts
  BY DEF State, Texts, EmptyText, NoBlock
<1>2. CASE s.curThinking = EmptyText
  <2>1. t = [s EXCEPT !.thinkingIndex = NoBlock]
    BY <1>2 DEF closeThinkingBlock
  <2>2. /\ t \in State /\ SameBlocks(s, t)
        /\ t.thinkingIndex = NoBlock /\ t.textIndex = s.textIndex
        /\ t.curText = s.curText /\ t.curThinking = s.curThinking
        /\ t.allText = s.allText /\ t.allThinking = s.allThinking /\ t.timeline = s.timeline
    BY <1>1, <2>1 DEF State, SameBlocks
  <2> HIDE DEF t
  <2>3. t.executions = s.executions
    BY <2>2 DEF SameBlocks
  <2>4. Ledger(s) => Ledger(t)
    BY <2>2, <2>3 DEF Ledger
  <2>5. Uttered(t) = Uttered(s)
    BY <2>2 DEF Uttered
  <2> QED
    BY <1>2, <2>2, <2>4, <2>5 DEF t
<1>3. CASE s.curThinking # EmptyText
  <2> DEFINE x == [kind |-> "thinking", text |-> s.curThinking]
             p == Append(s.timeline, x)
  <2>1. /\ p \in Seq(Item)
        /\ ItemText(p, "thinking") = ItemText(s.timeline, "thinking") \o s.curThinking
        /\ ItemText(p, "text") = ItemText(s.timeline, "text")
        /\ ItemExecutions(p) = ItemExecutions(s.timeline)
    BY <1>1, TextItem
  <2>2. t = [s EXCEPT !.thinkingIndex = NoBlock, !.curThinking = EmptyText,
                      !.allThinking = s.allThinking \o s.curThinking, !.timeline = p]
    BY <1>3 DEF closeThinkingBlock
  <2> HIDE DEF p, t
  <2>3. /\ t \in State /\ SameBlocks(s, t)
        /\ t.thinkingIndex = NoBlock /\ t.textIndex = s.textIndex
        /\ t.curThinking = EmptyText /\ t.curText = s.curText
        /\ t.allThinking = s.allThinking \o s.curThinking /\ t.allText = s.allText
        /\ t.timeline = p
    BY <1>1, <2>1, <2>2 DEF State, SameBlocks
  <2>4. t.executions = s.executions
    BY <2>3 DEF SameBlocks
  <2>5. Ledger(s) => Ledger(t)
    BY <2>1, <2>3, <2>4 DEF Ledger
  <2>6. Uttered(t) = Uttered(s)
    BY <2>3 DEF Uttered
  <2> QED
    BY <2>3, <2>5, <2>6 DEF t
<1> QED
  BY <1>2, <1>3

--------------------------------------------------------------------------------
(* Go's maps of blocks in progress.                                        *)
LEMMA BlocksWith ==
  ASSUME NEW V, NEW m \in Blocks(V), NEW i \in Int, NEW v \in V
  PROVE  /\ With(m, i, v) \in Blocks(V)
         /\ DOMAIN With(m, i, v) = DOMAIN m \cup {i}
         /\ \A j \in DOMAIN m \cup {i} : With(m, i, v)[j] = IF j = i THEN v ELSE m[j]
<1> DEFINE D == DOMAIN m \cup {i}
<1>1. D \in SUBSET Int /\ m \in [DOMAIN m -> V] /\ IsFiniteSet(DOMAIN m)
  BY BlockFacts
<1>2. IsFiniteSet(D)
  BY <1>1, FS_AddElement
<1>3. With(m, i, v) \in [D -> V]
  BY <1>1 DEF With
<1>4. \A j \in D : With(m, i, v)[j] = IF j = i THEN v ELSE m[j]
  BY DEF With
<1> QED
  BY <1>1, <1>2, <1>3, <1>4, BlocksIntro

LEMMA BlocksWithout ==
  ASSUME NEW V, NEW m \in Blocks(V), NEW i
  PROVE  /\ Without(m, i) \in Blocks(V)
         /\ DOMAIN Without(m, i) = DOMAIN m \ {i}
         /\ \A j \in DOMAIN m \ {i} : Without(m, i)[j] = m[j]
<1> DEFINE D == DOMAIN m \ {i}
<1>1. D \in SUBSET Int /\ m \in [DOMAIN m -> V] /\ IsFiniteSet(DOMAIN m)
  BY BlockFacts
<1>2. IsFiniteSet(D)
  BY <1>1, FS_Subset
<1>3. Without(m, i) \in [D -> V]
  BY <1>1 DEF Without
<1>4. \A j \in D : Without(m, i)[j] = m[j]
  BY DEF Without
<1> QED
  BY <1>1, <1>2, <1>3, <1>4, BlocksIntro

(* The fields of an event survive its decoding.                            *)
LEMMA Decoded ==
  ASSUME NEW e \in Inputs
  PROVE  LET d == decoded(e)
         IN  /\ d.index \in Int
             /\ IsStart(e) => d.block = e.block
             /\ IsStart(e) /\ e.block = "tool_use" => d.id = e.id /\ d.name = e.name
             /\ IsStart(e) /\ e.block = "tool_result" => d.id = e.id
             /\ IsDelta(e) => d.block = e.block /\ d.text = e.text /\ e.text \in Texts
<1>1. IsInput(e)
  BY InputAssumption
<1>2. CASE "index" \in DOMAIN e
  BY <1>1, <1>2 DEF IsInput, decoded, Texts
<1>3. CASE "index" \notin DOMAIN e
  <2> DEFINE d == decoded(e)
  <2>1. d = [f \in DOMAIN e \cup {"index"} |-> IF f = "index" THEN 0 ELSE e[f]]
    BY <1>3 DEF decoded
  <2>2. d.index = 0 /\ \A f \in DOMAIN e : d[f] = e[f]
    BY <1>3, <2>1
  <2> HIDE DEF d
  <2>3. IsStart(e) => d.block = e.block
    BY <1>1, <2>2 DEF IsInput
  <2>4. IsStart(e) /\ e.block = "tool_use" => d.id = e.id /\ d.name = e.name
    BY <1>1, <2>2 DEF IsInput
  <2>5. IsStart(e) /\ e.block = "tool_result" => d.id = e.id
    BY <1>1, <2>2 DEF IsInput
  <2>6. IsDelta(e) => d.block = e.block /\ d.text = e.text /\ e.text \in Texts
    BY <1>1, <2>2 DEF IsInput, Texts
  <2> QED
    BY <2>2, <2>3, <2>4, <2>5, <2>6 DEF d
<1> QED
  BY <1>2, <1>3

--------------------------------------------------------------------------------
(* What every step keeps of the reassembler.                               *)
OneRun(s) == ~(s.textIndex # NoBlock /\ s.thinkingIndex # NoBlock)

FromCalls(s) ==
  \A i \in DOMAIN s.executions :
    \E k \in DOMAIN s.tools :
      /\ s.tools[k].id = s.executions[i].id
      /\ s.tools[k].name = s.executions[i].name
      /\ s.tools[k].params = s.executions[i].params

Good(s) == s \in State /\ OneRun(s) /\ Ledger(s) /\ FromCalls(s)

(* Finished and open calls carry an id and name that K has together.       *)
Known(s, K) ==
  /\ \A i \in DOMAIN s.tools : <<s.tools[i].id, s.tools[i].name>> \in K
  /\ \A i \in DOMAIN s.inflight : <<s.inflight[i].id, s.inflight[i].name>> \in K

LEMMA CloseBoth ==
  ASSUME NEW s, Good(s), NEW t,
         \/ t = closeThinkingBlock(closeTextBlock(s))
         \/ t = closeTextBlock(closeThinkingBlock(s))
  PROVE  /\ Good(t) /\ SameBlocks(s, t) /\ Uttered(t) = Uttered(s)
         /\ t.textIndex = NoBlock /\ t.thinkingIndex = NoBlock
         /\ t.curText = EmptyText /\ t.curThinking = EmptyText
<1>1. s \in State /\ Ledger(s) /\ FromCalls(s)
  BY DEF Good
<1>2. /\ t \in State /\ SameBlocks(s, t) /\ Uttered(t) = Uttered(s) /\ Ledger(t)
      /\ t.textIndex = NoBlock /\ t.thinkingIndex = NoBlock
      /\ t.curText = EmptyText /\ t.curThinking = EmptyText
  <2>1. CASE t = closeThinkingBlock(closeTextBlock(s))
    <3>1. PICK u \in State : u = closeTextBlock(s)
      BY <1>1, CloseText
    <3>2. SameBlocks(s, u) /\ u.textIndex = NoBlock /\ u.curText = EmptyText
          /\ Uttered(u) = Uttered(s) /\ Ledger(u)
      BY <1>1, <3>1, CloseText
    <3>3. /\ t \in State /\ SameBlocks(u, t) /\ t.thinkingIndex = NoBlock
          /\ t.textIndex = u.textIndex /\ t.curThinking = EmptyText
          /\ t.curText = u.curText /\ Uttered(t) = Uttered(u) /\ Ledger(t)
      BY <2>1, <3>1, <3>2, CloseThinking
    <3> QED
      BY <3>2, <3>3 DEF SameBlocks
  <2>2. CASE t = closeTextBlock(closeThinkingBlock(s))
    <3>1. PICK u \in State : u = closeThinkingBlock(s)
      BY <1>1, CloseThinking
    <3>2. SameBlocks(s, u) /\ u.thinkingIndex = NoBlock /\ u.curThinking = EmptyText
          /\ Uttered(u) = Uttered(s) /\ Ledger(u)
      BY <1>1, <3>1, CloseThinking
    <3>3. /\ t \in State /\ SameBlocks(u, t) /\ t.textIndex = NoBlock
          /\ t.thinkingIndex = u.thinkingIndex /\ t.curText = EmptyText
          /\ t.curThinking = u.curThinking /\ Uttered(t) = Uttered(u) /\ Ledger(t)
      BY <2>2, <3>1, <3>2, CloseText
    <3> QED
      BY <3>2, <3>3 DEF SameBlocks
  <2> QED
    BY <2>1, <2>2
<1>3. OneRun(t)
  BY <1>2 DEF OneRun
<1>4. FromCalls(t)
  BY <1>1, <1>2 DEF FromCalls, SameBlocks
<1> QED
  BY <1>2, <1>3, <1>4 DEF Good

(* A step that leaves the books alone.                                     *)
SameBooks(s, t) ==
  /\ t.timeline = s.timeline /\ t.allText = s.allText /\ t.allThinking = s.allThinking
  /\ t.tools = s.tools /\ t.executions = s.executions

LEMMA BooksKept ==
  ASSUME NEW s, Good(s), NEW t \in State, OneRun(t), SameBooks(s, t)
  PROVE  Good(t)
BY DEF Good, SameBooks, Ledger, FromCalls

NewCalls(e) ==
  IF IsStart(e) /\ e.block = "tool_use" THEN {<<e.id, e.name>>} ELSE {}

NewText(e) == IF IsTextDelta(e) THEN e.text ELSE EmptyText

LEMMA StartKeeps ==
  ASSUME NEW s, Good(s), NEW K, Known(s, K), NEW e \in Inputs, IsStart(e),
         NEW t, t = onContentBlockStart(s, decoded(e))
  PROVE  Good(t) /\ Known(t, K \cup NewCalls(e)) /\ Uttered(t) = Uttered(s)
<1>1. PICK d : d = decoded(e)
  OBVIOUS
<1>2. /\ d.index \in Int /\ d.block = e.block
      /\ e.block = "tool_use" => d.id = e.id /\ d.name = e.name
      /\ e.block = "tool_result" => d.id = e.id
  BY <1>1, Decoded
<1>3. d.index \in Int /\ EmptyText \in Texts
  BY <1>2 DEF NoBlock, EmptyText, Texts
<1>4. ASSUME NEW c, Good(c), SameBlocks(s, c)
      PROVE  /\ c \in State /\ c.inflight \in Blocks(OpenCall) /\ c.results \in Blocks(OpenResult)
             /\ c.toolNames \in Seq(Names) /\ c.inflight = s.inflight /\ c.tools = s.tools
  BY <1>4 DEF Good, State, SameBlocks
<1>5. CASE e.block = "tool_use"
  <2>1. PICK c : c = closeThinkingBlock(closeTextBlock(s))
    OBVIOUS
  <2>2. /\ Good(c) /\ SameBlocks(s, c) /\ Uttered(c) = Uttered(s)
        /\ c.textIndex = NoBlock /\ c.thinkingIndex = NoBlock
        /\ c.curText = EmptyText /\ c.curThinking = EmptyText
    BY <2>1, CloseBoth
  <2>c. /\ c \in State /\ c.inflight \in Blocks(OpenCall) /\ c.results \in Blocks(OpenResult)
        /\ c.toolNames \in Seq(Names) /\ c.inflight = s.inflight /\ c.tools = s.tools
    BY <1>4, <2>2
  <2>3. PICK v \in OpenCall : v = [name |-> e.name, id |-> e.id, params |-> EmptyText]
    BY <1>3 DEF OpenCall, Names, CallIDs
  <2>4. PICK m \in Blocks(OpenCall) : m = With(c.inflight, d.index, v)
    BY <1>2, <2>c, BlocksWith
  <2>5. /\ DOMAIN m = DOMAIN c.inflight \cup {d.index}
        /\ \A j \in DOMAIN m : m[j] = IF j = d.index THEN v ELSE c.inflight[j]
    BY <2>4 DEF With
  <2>6. PICK n \in Seq(Names) : n = Append(c.toolNames, e.name)
    <3>1. e.name \in Names
      BY DEF Names
    <3>2. PICK k \in Seq(Names) : k = c.toolNames
      BY <2>c
    <3>3. Append(k, e.name) \in Seq(Names)
      BY <3>1, <3>2
    <3> QED
      BY <3>2, <3>3
  <2>7. t = [c EXCEPT !.toolNames = n, !.inflight = m]
    BY <1>1, <1>2, <1>5, <2>1, <2>3, <2>4, <2>6 DEF onContentBlockStart
  <2>8. /\ t \in State /\ SameBooks(c, t) /\ t.curText = c.curText
        /\ t.textIndex = NoBlock /\ t.thinkingIndex = NoBlock /\ t.curThinking = EmptyText
        /\ t.inflight = m
    BY <2>c, <2>2, <2>7 DEF State, SameBooks
  <2>9. OneRun(t)
    BY <2>8 DEF OneRun
  <2>10. Good(t)
    BY <2>2, <2>8, <2>9, BooksKept
  <2>11. Uttered(t) = Uttered(s)
    BY <2>2, <2>8 DEF Uttered, SameBooks
  <2>12. Known(t, K \cup NewCalls(e))
    <3>1. t.tools = s.tools /\ c.inflight = s.inflight
      BY <2>c, <2>8 DEF SameBooks
    <3>2. <<e.id, e.name>> \in K \cup NewCalls(e)
      BY <1>5 DEF NewCalls
    <3>3. ASSUME NEW j \in DOMAIN m
          PROVE  <<m[j].id, m[j].name>> \in K \cup NewCalls(e)
      <4>1. CASE j = d.index
        <5>1. m[j].id = e.id /\ m[j].name = e.name
          BY <2>3, <2>5, <4>1
        <5> QED
          BY <3>2, <5>1
      <4>2. CASE j # d.index
        BY <2>5, <3>1, <4>2 DEF Known
      <4> QED
        BY <4>1, <4>2
    <3> QED
      BY <2>8, <3>1, <3>3 DEF Known
  <2> QED
    BY <2>10, <2>11, <2>12
<1>6. CASE e.block = "tool_result"
  <2>1. PICK c : c = closeThinkingBlock(closeTextBlock(s))
    OBVIOUS
  <2>2. /\ Good(c) /\ SameBlocks(s, c) /\ Uttered(c) = Uttered(s)
        /\ c.textIndex = NoBlock /\ c.thinkingIndex = NoBlock
        /\ c.curText = EmptyText /\ c.curThinking = EmptyText
    BY <2>1, CloseBoth
  <2>c. /\ c \in State /\ c.inflight \in Blocks(OpenCall) /\ c.results \in Blocks(OpenResult)
        /\ c.toolNames \in Seq(Names) /\ c.inflight = s.inflight /\ c.tools = s.tools
    BY <1>4, <2>2
  <2>3. PICK v \in OpenResult : v = [id |-> e.id, text |-> EmptyText]
    BY <1>3 DEF OpenResult, CallIDs
  <2>4. PICK m \in Blocks(OpenResult) : m = With(c.results, d.index, v)
    BY <1>2, <2>c, BlocksWith
  <2>5. t = [c EXCEPT !.results = m]
    BY <1>1, <1>2, <1>6, <2>1, <2>3, <2>4 DEF onContentBlockStart
  <2>6. /\ t \in State /\ SameBooks(c, t) /\ t.curText = c.curText
        /\ t.textIndex = NoBlock /\ t.thinkingIndex = NoBlock /\ t.curThinking = EmptyText
        /\ t.inflight = c.inflight
    BY <2>c, <2>2, <2>5 DEF State, SameBooks
  <2>7. OneRun(t)
    BY <2>6 DEF OneRun
  <2>8. Good(t)
    BY <2>2, <2>6, <2>7, BooksKept
  <2>9. Uttered(t) = Uttered(s)
    BY <2>2, <2>6 DEF Uttered, SameBooks
  <2>10. Known(t, K \cup NewCalls(e))
    BY <2>c, <2>6 DEF Known, SameBooks
  <2> QED
    BY <2>8, <2>9, <2>10
<1>7. CASE e.block \in {"text", "", "thinking"}
  <2>1. PICK c : c = IF e.block = "thinking" THEN closeThinkingBlock(closeTextBlock(s))
                                             ELSE closeTextBlock(closeThinkingBlock(s))
    OBVIOUS
  <2>2. /\ Good(c) /\ SameBlocks(s, c) /\ Uttered(c) = Uttered(s)
        /\ c.textIndex = NoBlock /\ c.thinkingIndex = NoBlock
        /\ c.curText = EmptyText /\ c.curThinking = EmptyText
    BY <2>1, CloseBoth
  <2>c. /\ c \in State /\ c.inflight \in Blocks(OpenCall) /\ c.results \in Blocks(OpenResult)
        /\ c.toolNames \in Seq(Names) /\ c.inflight = s.inflight /\ c.tools = s.tools
    BY <1>4, <2>2
  <2>3. \/ t = [c EXCEPT !.textIndex = d.index]
        \/ t = [c EXCEPT !.thinkingIndex = d.index]
    BY <1>1, <1>2, <1>7, <2>1 DEF onContentBlockStart
  <2>4. /\ t \in State /\ SameBooks(c, t) /\ t.curText = c.curText
        /\ t.textIndex = NoBlock \/ t.thinkingIndex = NoBlock
        /\ t.curThinking = EmptyText /\ t.inflight = c.inflight
    BY <1>3, <2>c, <2>2, <2>3 DEF State, SameBooks
  <2>5. OneRun(t)
    BY <2>4 DEF OneRun
  <2>6. Good(t)
    BY <2>2, <2>4, <2>5, BooksKept
  <2>7. Uttered(t) = Uttered(s)
    BY <2>2, <2>4 DEF Uttered, SameBooks
  <2>8. Known(t, K \cup NewCalls(e))
    BY <2>c, <2>4 DEF Known, SameBooks
  <2> QED
    BY <2>6, <2>7, <2>8
<1>8. CASE e.block \notin {"tool_use", "tool_result", "text", "", "thinking"}
  <2>1. t = s
    BY <1>1, <1>2, <1>8 DEF onContentBlockStart
  <2> QED
    BY <2>1 DEF Known
<1> QED
  BY <1>5, <1>6, <1>7, <1>8

LEMMA DeltaKeeps ==
  ASSUME NEW s, Good(s), NEW K, Known(s, K), NEW e \in Inputs, IsDelta(e),
         NEW t, t = onContentBlockDelta(s, decoded(e))
  PROVE  Good(t) /\ Known(t, K) /\ Uttered(t) = Uttered(s) \o NewText(e)
<1>1. PICK d : d = decoded(e)
  OBVIOUS
<1>2. d.index \in Int /\ d.block = e.block /\ d.text = e.text
  BY <1>1, Decoded
<1>3. PICK x \in Texts : x = e.text
  BY Decoded
<1>4. /\ s \in State /\ s.curText \in Texts /\ s.allText \in Texts /\ s.curThinking \in Texts
      /\ s.inflight \in Blocks(OpenCall) /\ s.results \in Blocks(OpenResult) /\ OneRun(s)
  BY DEF Good, State
<1>5. ASSUME NEW y \in Texts
      PROVE  y \o x \in Texts /\ y \o <<>> = y
  BY <1>3, ConcatEmptySeq DEF Texts
<1>6. Uttered(s) \in Texts
  BY <1>4 DEF Uttered, Texts
<1>7. CASE e.block = "text"
  <2>1. PICK y \in Texts : y = s.curText \o x
    BY <1>4, <1>5
  <2>2. t = [s EXCEPT !.curText = y]
    BY <1>1, <1>2, <1>3, <1>7, <2>1 DEF onContentBlockDelta, handleTextDelta
  <2>3. /\ t \in State /\ SameBooks(s, t) /\ t.curText = y /\ t.inflight = s.inflight
        /\ t.textIndex = s.textIndex /\ t.thinkingIndex = s.thinkingIndex
        /\ t.curThinking = s.curThinking
    BY <1>4, <2>1, <2>2 DEF State, SameBooks
  <2>4. Good(t)
    <3>1. OneRun(t)
      BY <1>4, <2>3 DEF OneRun
    <3> QED
      BY <2>3, <3>1, BooksKept
  <2>5. Uttered(t) = Uttered(s) \o x
    <3>1. PICK a \in Texts : a = s.allText
      BY <1>4
    <3>2. PICK b \in Texts : b = s.curText
      BY <1>4
    <3>3. (a \o b) \o x = a \o (b \o x)
      <4>1. a \in Seq(Chunks) /\ b \in Seq(Chunks) /\ x \in Seq(Chunks)
        BY <1>3, <3>1, <3>2 DEF Texts
      <4> QED
        BY <4>1, ConcatAssociative
    <3> QED
      BY <2>1, <2>3, <3>1, <3>2, <3>3 DEF Uttered, SameBooks
  <2>6. Known(t, K)
    BY <2>3 DEF Known, SameBooks
  <2>7. NewText(e) = x
    BY <1>3, <1>7 DEF NewText, IsTextDelta
  <2> QED
    BY <2>4, <2>5, <2>6, <2>7
<1>8. CASE e.block # "text"
  <2> SUFFICES Good(t) /\ Known(t, K) /\ Uttered(t) = Uttered(s)
    <3>1. NewText(e) = <<>>
      BY <1>8 DEF NewText, IsTextDelta, EmptyText
    <3> QED
      BY <1>5, <1>6, <3>1
  <2>1. CASE t = s
    BY <2>1
  <2>2. CASE e.block = "thinking" /\ t # s
    <3>1. PICK y \in Texts : y = s.curThinking \o x
      BY <1>4, <1>5
    <3>2. t = [s EXCEPT !.curThinking = y] /\ d.index = s.thinkingIndex
      BY <1>1, <1>2, <1>3, <2>2, <3>1 DEF onContentBlockDelta, handleThinkingDelta
    <3>3. /\ t \in State /\ SameBooks(s, t) /\ t.curText = s.curText /\ t.inflight = s.inflight
          /\ t.textIndex = s.textIndex /\ t.thinkingIndex = s.thinkingIndex
      BY <1>4, <3>1, <3>2 DEF State, SameBooks
    <3>4. OneRun(t)
      BY <1>2, <1>4, <3>2, <3>3 DEF OneRun, NoBlock
    <3>5. Good(t)
      BY <3>3, <3>4, BooksKept
    <3> QED
      BY <3>3, <3>5 DEF Known, SameBooks, Uttered
  <2>3. CASE e.block = "tool_use" /\ t # s
    <3>1. /\ d.index \in DOMAIN s.inflight
          /\ t = [s EXCEPT !.inflight[d.index].params = @ \o x]
      BY <1>1, <1>2, <1>3, <2>3 DEF onContentBlockDelta
    <3>2. PICK c \in OpenCall : c = s.inflight[d.index]
      BY <1>4, <3>1, BlockFacts
    <3>3. PICK v \in OpenCall : v = [c EXCEPT !.params = c.params \o x]
      <4>1. c.params \o x \in Texts
        BY <1>5, <3>2 DEF OpenCall
      <4> QED
        BY <3>2, <4>1 DEF OpenCall
    <3>4. v.id = c.id /\ v.name = c.name
      BY <3>2, <3>3 DEF OpenCall
    <3>5. PICK m \in Blocks(OpenCall) : m = [s.inflight EXCEPT ![d.index] = v]
      <4>1. PICK f \in Blocks(OpenCall) : f = s.inflight
        BY <1>4
      <4>2. PICK i \in DOMAIN f : i = d.index
        BY <3>1, <4>1
      <4>3. [f EXCEPT ![i] = v] \in Blocks(OpenCall)
        BY <3>3, <4>1, <4>2, BlocksExcept
      <4> QED
        BY <4>1, <4>2, <4>3
    <3>6. /\ DOMAIN m = DOMAIN s.inflight
          /\ \A j \in DOMAIN m : m[j] = IF j = d.index THEN v ELSE s.inflight[j]
      BY <3>1, <3>5
    <3>7. t = [s EXCEPT !.inflight = m]
      BY <1>4, <3>1, <3>2, <3>3, <3>5
    <3>8. /\ t \in State /\ SameBooks(s, t) /\ t.curText = s.curText /\ t.inflight = m
          /\ t.textIndex = s.textIndex /\ t.thinkingIndex = s.thinkingIndex
          /\ t.curThinking = s.curThinking
      BY <1>4, <3>5, <3>7 DEF State, SameBooks
    <3>9. OneRun(t)
      BY <1>4, <3>8 DEF OneRun
    <3>10. Good(t)
      BY <3>8, <3>9, BooksKept
    <3>11. Known(t, K)
      <4>1. ASSUME NEW j \in DOMAIN m
            PROVE  <<m[j].id, m[j].name>> \in K
        <5>1. m[j].id = s.inflight[j].id /\ m[j].name = s.inflight[j].name
          BY <3>2, <3>4, <3>6
        <5> QED
          BY <3>6, <5>1 DEF Known
      <4> QED
        BY <3>8, <4>1 DEF Known, SameBooks
    <3> QED
      BY <3>8, <3>10, <3>11 DEF Uttered, SameBooks
  <2>4. CASE e.block = "tool_result" /\ t # s
    <3>1. /\ d.index \in DOMAIN s.results
          /\ t = [s EXCEPT !.results[d.index].text = @ \o x]
      BY <1>1, <1>2, <1>3, <2>4 DEF onContentBlockDelta
    <3>2. PICK c \in OpenResult : c = s.results[d.index]
      BY <1>4, <3>1, BlockFacts
    <3>3. PICK v \in OpenResult : v = [c EXCEPT !.text = c.text \o x]
      <4>1. c.text \o x \in Texts
        BY <1>5, <3>2 DEF OpenResult
      <4> QED
        BY <3>2, <4>1 DEF OpenResult
    <3>4. PICK m \in Blocks(OpenResult) : m = [s.results EXCEPT ![d.index] = v]
      <4>1. PICK f \in Blocks(OpenResult) : f = s.results
        BY <1>4
      <4>2. PICK i \in DOMAIN f : i = d.index
        BY <3>1, <4>1
      <4>3. [f EXCEPT ![i] = v] \in Blocks(OpenResult)
        BY <3>3, <4>1, <4>2, BlocksExcept
      <4> QED
        BY <4>1, <4>2, <4>3
    <3>5. t = [s EXCEPT !.results = m]
      BY <1>4, <3>1, <3>2, <3>3, <3>4
    <3>6. /\ t \in State /\ SameBooks(s, t) /\ t.curText = s.curText /\ t.inflight = s.inflight
          /\ t.textIndex = s.textIndex /\ t.thinkingIndex = s.thinkingIndex
          /\ t.curThinking = s.curThinking
      BY <1>4, <3>4, <3>5 DEF State, SameBooks
    <3>7. OneRun(t)
      BY <1>4, <3>6 DEF OneRun
    <3>8. Good(t)
      BY <3>6, <3>7, BooksKept
    <3> QED
      BY <3>6, <3>8 DEF Known, Uttered, SameBooks
  <2>5. CASE e.block \notin {"thinking", "tool_use", "tool_result"}
    <3>1. t = s
      BY <1>1, <1>2, <1>8, <2>5 DEF onContentBlockDelta
    <3> QED
      BY <3>1
  <2> QED
    BY <2>1, <2>2, <2>3, <2>4, <2>5
<1> QED
  BY <1>7, <1>8

--------------------------------------------------------------------------------
(* Finished calls and executions.                                          *)
LEMMA CalledCall ==
  ASSUME NEW c \in OpenCall
  PROVE  called(c) \in Call /\ called(c).id = c.id /\ called(c).name = c.name
BY DEF called, Call, OpenCall

LEMMA ExecutionOf ==
  ASSUME NEW tools \in Seq(Call), NEW res \in OpenResult,
         NEW n \in DOMAIN tools, tools[n].id = res.id
  PROVE  /\ execution(tools, res) \in Exec
         /\ \E k \in DOMAIN tools : /\ tools[k].id = execution(tools, res).id
                                    /\ tools[k].name = execution(tools, res).name
                                    /\ tools[k].params = execution(tools, res).params
<1> DEFINE matches == {i \in DOMAIN tools : tools[i].id = res.id}
           k == CHOOSE i \in matches : \A j \in matches : i <= j
<1>1. n \in matches /\ matches \subseteq Nat /\ matches # {}
  OBVIOUS
<1>2. \E i \in matches : \A j \in matches : i <= j
  <2> HIDE DEF matches
  <2> QED
    BY <1>1, LeastOf
<1>3. k \in matches
  BY <1>2
<1>4. k \in DOMAIN tools /\ tools[k].id = res.id
  BY <1>3
<1>5. execution(tools, res) = [name |-> tools[k].name, id |-> res.id,
                               params |-> tools[k].params, result |-> res.text]
  BY DEF execution
<1> HIDE DEF k, matches
<1>6. tools[k] \in Call
  BY <1>4
<1>7. execution(tools, res) \in Exec
  BY <1>5, <1>6 DEF Call, Exec, OpenResult
<1>8. /\ tools[k].id = execution(tools, res).id
      /\ tools[k].name = execution(tools, res).name
      /\ tools[k].params = execution(tools, res).params
  BY <1>4, <1>5
<1> QED
  BY <1>4, <1>7, <1>8

(* One call more is finished.                                              *)
LEMMA ToolKeeps ==
  ASSUME NEW s, Good(s), NEW K, Known(s, K), NEW c \in OpenCall, <<c.id, c.name>> \in K,
         NEW t, t = finalizeTool(s, c)
  PROVE  Good(t) /\ Known(t, K) /\ Uttered(t) = Uttered(s) /\ t.inflight = s.inflight
<1>1. s \in State /\ s.tools \in Seq(Call) /\ s.executions \in Seq(Exec)
      /\ OneRun(s) /\ Ledger(s) /\ FromCalls(s)
  BY DEF Good, State
<1>2. PICK x \in Call : x = called(c) /\ x.id = c.id /\ x.name = c.name
  BY CalledCall
<1>3. PICK q \in Seq(Call) : q = Append(s.tools, x)
  <2>1. Append(s.tools, x) \in Seq(Call)
    BY <1>1, <1>2
  <2> QED
    BY <2>1
<1>4. t = [s EXCEPT !.tools = q]
  BY <1>2, <1>3 DEF finalizeTool
<1>5. /\ t \in State /\ t.tools = q /\ t.executions = s.executions /\ t.timeline = s.timeline
      /\ t.allText = s.allText /\ t.allThinking = s.allThinking /\ t.inflight = s.inflight
      /\ t.curText = s.curText /\ t.curThinking = s.curThinking
      /\ t.textIndex = s.textIndex /\ t.thinkingIndex = s.thinkingIndex
  BY <1>1, <1>3, <1>4 DEF State
<1>6. /\ DOMAIN q = 1 .. Len(s.tools) + 1 /\ DOMAIN s.tools = 1 .. Len(s.tools)
      /\ Len(s.tools) \in Nat /\ q[Len(s.tools) + 1] = x
      /\ \A i \in 1 .. Len(s.tools) : q[i] = s.tools[i]
  BY <1>1, <1>2, <1>3
<1>7. OneRun(t) /\ Ledger(t) /\ Uttered(t) = Uttered(s)
  BY <1>1, <1>5 DEF OneRun, Ledger, Uttered
<1>8. FromCalls(t)
  <2> SUFFICES ASSUME NEW i \in DOMAIN s.executions
               PROVE  \E k \in DOMAIN q : /\ q[k].id = s.executions[i].id
                                          /\ q[k].name = s.executions[i].name
                                          /\ q[k].params = s.executions[i].params
    BY <1>5 DEF FromCalls
  <2>1. PICK k \in DOMAIN s.tools : /\ s.tools[k].id = s.executions[i].id
                                    /\ s.tools[k].name = s.executions[i].name
                                    /\ s.tools[k].params = s.executions[i].params
    BY <1>1 DEF FromCalls
  <2>2. k \in DOMAIN q /\ q[k] = s.tools[k]
    BY <1>6
  <2> QED
    BY <2>1, <2>2
<1>9. Known(t, K)
  <2>1. ASSUME NEW i \in DOMAIN q
        PROVE  <<q[i].id, q[i].name>> \in K
    <3>1. CASE i = Len(s.tools) + 1
      BY <1>2, <1>6, <3>1
    <3>2. CASE i \in DOMAIN s.tools
      BY <1>6, <3>2 DEF Known
    <3> QED
      BY <1>6, <3>1, <3>2
  <2> QED
    BY <1>5, <2>1 DEF Known
<1> QED
  BY <1>5, <1>7, <1>8, <1>9 DEF Good

(* A result meets its call, or is dropped.                                 *)
LEMMA ResultKeeps ==
  ASSUME NEW s, Good(s), NEW K, Known(s, K), NEW res \in OpenResult,
         NEW t, t = finalizeResult(s, res)
  PROVE  Good(t) /\ Known(t, K) /\ Uttered(t) = Uttered(s) /\ t.results = s.results
<1>1. /\ s \in State /\ s.tools \in Seq(Call) /\ s.executions \in Seq(Exec)
      /\ s.timeline \in Seq(Item) /\ OneRun(s) /\ Ledger(s) /\ FromCalls(s)
  BY DEF Good, State
<1>2. CASE \A i \in DOMAIN s.tools : s.tools[i].id # res.id
  <2>1. t = s
    BY <1>2 DEF finalizeResult
  <2> QED
    BY <2>1
<1>3. ASSUME NEW n \in DOMAIN s.tools, s.tools[n].id = res.id
      PROVE  Good(t) /\ Known(t, K) /\ Uttered(t) = Uttered(s) /\ t.results = s.results
  <2>1. PICK x \in Exec : /\ x = execution(s.tools, res)
                          /\ \E k \in DOMAIN s.tools : /\ s.tools[k].id = x.id
                                                       /\ s.tools[k].name = x.name
                                                       /\ s.tools[k].params = x.params
    <3>1. PICK q \in Seq(Call) : q = s.tools
      BY <1>1
    <3>2. n \in DOMAIN q /\ q[n].id = res.id
      BY <1>3, <3>1
    <3> QED
      BY <3>1, <3>2, ExecutionOf
  <2>2. PICK y \in Item : y = ToolItem(x) /\ y.kind = "tool" /\ y.exec = x
    <3>1. ToolItem(x) \in Item /\ ToolItem(x).kind = "tool" /\ ToolItem(x).exec = x
      BY <2>1 DEF ToolItem, Item
    <3> QED
      BY <3>1
  <2>3. PICK q \in Seq(Exec) : q = Append(s.executions, x)
    <3>1. Append(s.executions, x) \in Seq(Exec)
      BY <1>1, <2>1
    <3> QED
      BY <3>1
  <2>4. PICK p \in Seq(Item) : p = Append(s.timeline, y)
    <3>1. Append(s.timeline, y) \in Seq(Item)
      BY <1>1, <2>2
    <3> QED
      BY <3>1
  <2>5. t = [s EXCEPT !.executions = q, !.timeline = p]
    BY <1>3, <2>1, <2>2, <2>3, <2>4 DEF finalizeResult
  <2>6. /\ t \in State /\ t.tools = s.tools /\ t.executions = q /\ t.timeline = p
        /\ t.allText = s.allText /\ t.allThinking = s.allThinking /\ t.inflight = s.inflight
        /\ t.curText = s.curText /\ t.curThinking = s.curThinking /\ t.results = s.results
        /\ t.textIndex = s.textIndex /\ t.thinkingIndex = s.thinkingIndex
    BY <1>1, <2>3, <2>4, <2>5 DEF State
  <2>7. OneRun(t) /\ Uttered(t) = Uttered(s) /\ Known(t, K)
    BY <1>1, <2>6 DEF OneRun, Uttered, Known
  <2>8. Ledger(t)
    <3>1. PICK z \in Seq(Item) : z = s.timeline
      BY <1>1
    <3>2. ItemText(z, "text") \in Texts /\ ItemText(z, "thinking") \in Texts
      BY <3>1, ItemTextType
    <3>3. ASSUME NEW kind \in {"text", "thinking"}
          PROVE  ItemText(p, kind) = ItemText(z, kind)
      <4>1. ItemText(Append(z, y), kind)
              = ItemText(z, kind) \o (IF y.kind = kind THEN y.text ELSE EmptyText)
        BY <2>2, <3>1, ItemTextAppend
      <4>2. y.kind # kind
        BY <2>2
      <4>3. ItemText(z, kind) \o <<>> = ItemText(z, kind)
        BY <3>2, ConcatEmptySeq DEF Texts
      <4> QED
        BY <2>4, <3>1, <4>1, <4>2, <4>3 DEF EmptyText
    <3>4. ItemExecutions(p) = ItemExecutions(z) \o <<x>>
      <4>1. ItemExecutions(Append(z, y))
              = ItemExecutions(z) \o (IF y.kind = "tool" THEN <<y.exec>> ELSE <<>>)
        BY <2>2, <3>1, ItemExecutionsAppend
      <4> QED
        BY <2>2, <2>4, <3>1, <4>1
    <3>5. s.executions \o <<x>> = q
      BY <1>1, <2>1, <2>3
    <3> QED
      BY <1>1, <2>6, <3>1, <3>3, <3>4, <3>5 DEF Ledger
  <2>9. FromCalls(t)
    <3>1. /\ DOMAIN q = 1 .. Len(s.executions) + 1 /\ DOMAIN s.executions = 1 .. Len(s.executions)
          /\ Len(s.executions) \in Nat /\ q[Len(s.executions) + 1] = x
          /\ \A i \in 1 .. Len(s.executions) : q[i] = s.executions[i]
      BY <1>1, <2>1, <2>3
    <3>2. ASSUME NEW i \in DOMAIN q
          PROVE  \E k \in DOMAIN s.tools : /\ s.tools[k].id = q[i].id
                                           /\ s.tools[k].name = q[i].name
                                           /\ s.tools[k].params = q[i].params
      <4>1. CASE i = Len(s.executions) + 1
        BY <2>1, <3>1, <4>1
      <4>2. CASE i \in DOMAIN s.executions
        <5>1. q[i] = s.executions[i]
          BY <3>1, <4>2
        <5>2. \E k \in DOMAIN s.tools : /\ s.tools[k].id = s.executions[i].id
                                        /\ s.tools[k].name = s.executions[i].name
                                        /\ s.tools[k].params = s.executions[i].params
          BY <1>1, <4>2 DEF FromCalls
        <5> QED
          BY <5>1, <5>2
      <4> QED
        BY <3>1, <4>1, <4>2
    <3> QED
      BY <2>6, <3>2 DEF FromCalls
  <2> QED
    BY <2>6, <2>7, <2>8, <2>9 DEF Good
<1> QED
  BY <1>2, <1>3

LEMMA StopKeeps ==
  ASSUME NEW s, Good(s), NEW K, Known(s, K), NEW e \in Inputs,
         NEW t, t = onContentBlockStop(s, decoded(e))
  PROVE  Good(t) /\ Known(t, K) /\ Uttered(t) = Uttered(s)
<1>1. PICK d : d = decoded(e)
  OBVIOUS
<1>2. PICK i \in Int : i = d.index
  BY <1>1, Decoded
<1>3. /\ s \in State /\ s.inflight \in Blocks(OpenCall) /\ s.results \in Blocks(OpenResult)
      /\ OneRun(s) /\ Ledger(s) /\ FromCalls(s)
  BY DEF Good, State
<1>4. CASE i \in DOMAIN s.inflight
  <2>1. PICK c \in OpenCall : c = s.inflight[i]
    BY <1>3, <1>4, BlockFacts
  <2>2. PICK u : u = finalizeTool(s, c)
    OBVIOUS
  <2>3. <<c.id, c.name>> \in K
    BY <1>4, <2>1 DEF Known
  <2>4. Good(u) /\ Known(u, K) /\ Uttered(u) = Uttered(s) /\ u.inflight = s.inflight
    BY <2>1, <2>2, <2>3, ToolKeeps
  <2>5. PICK f \in Blocks(OpenCall) : f = s.inflight
    BY <1>3
  <2>6. Without(f, i) \in Blocks(OpenCall)
    BY <2>5, BlocksWithout
  <2>7. t = [u EXCEPT !.inflight = Without(f, i)]
    BY <1>1, <1>2, <1>4, <2>1, <2>2, <2>4, <2>5 DEF onContentBlockStop
  <2>8. u \in State /\ OneRun(u)
    BY <2>4 DEF Good
  <2>9. /\ t \in State /\ SameBooks(u, t) /\ t.inflight = Without(f, i)
        /\ t.curText = u.curText /\ t.curThinking = u.curThinking
        /\ t.textIndex = u.textIndex /\ t.thinkingIndex = u.thinkingIndex
    BY <2>6, <2>7, <2>8 DEF State, SameBooks
  <2>10. OneRun(t)
    BY <2>8, <2>9 DEF OneRun
  <2>11. Good(t)
    BY <2>4, <2>9, <2>10, BooksKept
  <2>12. Uttered(t) = Uttered(s)
    BY <2>4, <2>9 DEF Uttered, SameBooks
  <2>13. DOMAIN t.inflight \subseteq DOMAIN u.inflight
         /\ \A j \in DOMAIN t.inflight : t.inflight[j] = u.inflight[j]
    BY <2>4, <2>5, <2>9 DEF Without
  <2>14. t.tools = u.tools
    BY <2>9 DEF SameBooks
  <2>15. Known(t, K)
    BY <2>4, <2>13, <2>14 DEF Known
  <2> QED
    BY <2>11, <2>12, <2>15
<1>5. CASE i \notin DOMAIN s.inflight /\ i \in DOMAIN s.results
  <2>1. PICK c \in OpenResult : c = s.results[i]
    BY <1>3, <1>5, BlockFacts
  <2>2. PICK u : u = finalizeResult(s, c)
    OBVIOUS
  <2>4. Good(u) /\ Known(u, K) /\ Uttered(u) = Uttered(s) /\ u.results = s.results
    BY <2>1, <2>2, ResultKeeps
  <2>5. PICK f \in Blocks(OpenResult) : f = s.results
    BY <1>3
  <2>6. Without(f, i) \in Blocks(OpenResult)
    BY <2>5, BlocksWithout
  <2>7. t = [u EXCEPT !.results = Without(f, i)]
    BY <1>1, <1>2, <1>5, <2>1, <2>2, <2>4, <2>5 DEF onContentBlockStop
  <2>8. u \in State /\ OneRun(u)
    BY <2>4 DEF Good
  <2>9. /\ t \in State /\ SameBooks(u, t) /\ t.inflight = u.inflight
        /\ t.curText = u.curText /\ t.curThinking = u.curThinking
        /\ t.textIndex = u.textIndex /\ t.thinkingIndex = u.thinkingIndex
    BY <2>6, <2>7, <2>8 DEF State, SameBooks
  <2>10. OneRun(t)
    BY <2>8, <2>9 DEF OneRun
  <2>11. Good(t)
    BY <2>4, <2>9, <2>10, BooksKept
  <2> QED
    BY <2>4, <2>9, <2>11 DEF Uttered, SameBooks, Known
<1>6. CASE i \notin DOMAIN s.inflight /\ i \notin DOMAIN s.results
  <2>1. t = closeTextBlock(s) \/ t = closeThinkingBlock(s) \/ t = s
    BY <1>1, <1>2, <1>6 DEF onContentBlockStop
  <2>2. CASE t = s
    BY <2>2
  <2>3. CASE t = closeTextBlock(s)
    <3>1. /\ t \in State /\ SameBlocks(s, t) /\ Uttered(t) = Uttered(s) /\ Ledger(t)
          /\ t.textIndex = NoBlock /\ t.thinkingIndex = s.thinkingIndex
          /\ t.curThinking = s.curThinking
      BY <1>3, <2>3, CloseText
    <3>2. OneRun(t)
      BY <1>3, <3>1 DEF OneRun
    <3>3. FromCalls(t) /\ Known(t, K)
      BY <1>3, <3>1 DEF FromCalls, Known, SameBlocks
    <3> QED
      BY <3>1, <3>2, <3>3 DEF Good
  <2>4. CASE t = closeThinkingBlock(s)
    <3>1. /\ t \in State /\ SameBlocks(s, t) /\ Uttered(t) = Uttered(s) /\ Ledger(t)
          /\ t.thinkingIndex = NoBlock /\ t.curThinking = EmptyText
      BY <1>3, <2>4, CloseThinking
    <3>2. OneRun(t)
      BY <3>1 DEF OneRun
    <3>3. FromCalls(t) /\ Known(t, K)
      BY <1>3, <3>1 DEF FromCalls, Known, SameBlocks
    <3> QED
      BY <3>1, <3>2, <3>3 DEF Good
  <2> QED
    BY <2>1, <2>2, <2>3, <2>4
<1> QED
  BY <1>4, <1>5, <1>6

(* What handling one event does.                                           *)
LEMMA EventKeeps ==
  ASSUME NEW s, Good(s), NEW K, Known(s, K), NEW e \in Inputs,
         NEW t, t = handleEvent(s, e)
  PROVE  Good(t) /\ Known(t, K \cup NewCalls(e)) /\ Uttered(t) = Uttered(s) \o NewText(e)
<1>1. s \in State /\ OneRun(s) /\ s.allText \in Texts /\ s.curText \in Texts
  BY DEF Good, State
<1>2. Uttered(s) \o <<>> = Uttered(s)
  <2>1. Uttered(s) \in Seq(Chunks)
    BY <1>1 DEF Uttered, Texts
  <2> QED
    BY <2>1, ConcatEmptySeq
<1>3. ASSUME NEW L, Known(t, L), L \subseteq K \cup NewCalls(e)
      PROVE  Known(t, K \cup NewCalls(e))
  BY <1>3 DEF Known
<1>4. ~IsDelta(e) => NewText(e) = <<>>
  BY DEF NewText, IsTextDelta, EmptyText
<1>5. CASE IsStart(e)
  <2>1. t = onContentBlockStart(s, decoded(e))
    BY <1>5 DEF handleEvent, IsStart
  <2>2. Good(t) /\ Known(t, K \cup NewCalls(e)) /\ Uttered(t) = Uttered(s)
    BY <1>5, <2>1, StartKeeps
  <2>3. ~IsDelta(e)
    BY <1>5 DEF IsStart, IsDelta
  <2> QED
    BY <1>2, <1>4, <2>2, <2>3
<1>6. CASE IsDelta(e)
  <2>1. t = onContentBlockDelta(s, decoded(e))
    BY <1>6 DEF handleEvent, IsDelta
  <2> QED
    BY <1>3, <1>6, <2>1, DeltaKeeps
<1>7. CASE IsStop(e)
  <2>1. t = onContentBlockStop(s, decoded(e))
    BY <1>7 DEF handleEvent, IsStop
  <2>2. Good(t) /\ Known(t, K) /\ Uttered(t) = Uttered(s)
    BY <2>1, StopKeeps
  <2>3. ~IsDelta(e)
    BY <1>7 DEF IsStop, IsDelta
  <2> QED
    BY <1>2, <1>3, <1>4, <2>2, <2>3
<1>8. CASE e.type = "message_start"
  <2>1. t = [s EXCEPT !.stream = e.stream]
    BY <1>8 DEF handleEvent
  <2>2. /\ t \in State /\ SameBooks(s, t) /\ t.inflight = s.inflight
        /\ t.curText = s.curText /\ t.curThinking = s.curThinking
        /\ t.textIndex = s.textIndex /\ t.thinkingIndex = s.thinkingIndex
    BY <1>1, <2>1 DEF State, SameBooks
  <2>3. OneRun(t)
    BY <1>1, <2>2 DEF OneRun
  <2>4. Good(t)
    BY <2>2, <2>3, BooksKept
  <2>5. ~IsDelta(e)
    BY <1>8 DEF IsDelta
  <2>6. Uttered(t) = Uttered(s) /\ Known(t, K)
    BY <2>2 DEF Uttered, Known, SameBooks
  <2> QED
    BY <1>2, <1>3, <1>4, <2>4, <2>5, <2>6
<1>9. CASE ~IsStart(e) /\ ~IsDelta(e) /\ ~IsStop(e) /\ e.type # "message_start"
  <2>1. t = s
    BY <1>9 DEF handleEvent, IsStart, IsDelta, IsStop
  <2> QED
    BY <1>2, <1>3, <1>4, <1>9, <2>1
<1> QED
  BY <1>5, <1>6, <1>7, <1>8, <1>9

--------------------------------------------------------------------------------
(* What finalize does: runs, calls and results left open are closed, the   *)
(* books stay balanced, and the returned texts are the joined parts.       *)
LEMMA FinalKeeps ==
  ASSUME NEW s, Good(s), NEW K, Known(s, K), NEW f \in Finalized(s)
  PROVE  /\ Good(f) /\ Known(f, K) /\ Uttered(f) = Uttered(s)
         /\ f.curText = EmptyText /\ f.curThinking = EmptyText
         /\ f.text = f.allText /\ f.thinking = f.allThinking
         /\ f.inflight = <<>> /\ f.results = <<>>
<1>1. PICK torder \in SetToSeqs(DOMAIN s.inflight), rorder \in SetToSeqs(Answered(s)) :
        f = finalize(s, torder, rorder)
  BY DEF Finalized
<1>2. /\ s \in State /\ s.inflight \in Blocks(OpenCall) /\ s.results \in Blocks(OpenResult)
  BY DEF Good, State
<1>3. /\ IsFiniteSet(DOMAIN s.inflight) /\ s.inflight \in [DOMAIN s.inflight -> OpenCall]
      /\ IsFiniteSet(DOMAIN s.results) /\ s.results \in [DOMAIN s.results -> OpenResult]
  BY <1>2, BlockFacts
<1>4. IsFiniteSet(Answered(s)) /\ Answered(s) \subseteq DOMAIN s.results
  <2>1. Answered(s) \in SUBSET DOMAIN s.results
    BY DEF Answered
  <2> QED
    BY <1>3, <2>1, FS_Subset
<1>5. /\ torder \in Seq(DOMAIN s.inflight) /\ DOMAIN torder = 1 .. Len(torder) /\ Len(torder) \in Nat
      /\ \A x \in DOMAIN s.inflight : \E k \in DOMAIN torder : torder[k] = x
  BY <1>1, <1>3, Orders
<1>6. /\ rorder \in Seq(Answered(s)) /\ DOMAIN rorder = 1 .. Len(rorder) /\ Len(rorder) \in Nat
  BY <1>1, <1>4, Orders
<1>7. PICK c : c = closeThinkingBlock(closeTextBlock(s))
  OBVIOUS
<1>8. /\ Good(c) /\ SameBlocks(s, c) /\ Uttered(c) = Uttered(s)
      /\ c.textIndex = NoBlock /\ c.thinkingIndex = NoBlock
      /\ c.curText = EmptyText /\ c.curThinking = EmptyText
  BY <1>7, CloseBoth
<1>9. /\ c \in State /\ c.tools \in Seq(Call) /\ c.executions \in Seq(Exec)
      /\ c.timeline \in Seq(Item) /\ c.tools = s.tools /\ c.allText \in Texts
      /\ c.allThinking \in Texts /\ Ledger(c) /\ FromCalls(c)
  BY <1>8 DEF Good, State, SameBlocks
<1> DEFINE left  == [k \in DOMAIN torder |-> called(s.inflight[torder[k]])]
           tools == c.tools \o left
           execs == [k \in DOMAIN rorder |-> execution(tools, s.results[rorder[k]])]
           items == [k \in DOMAIN rorder |-> ToolItem(execs[k])]
<1>10. /\ left \in Seq(Call) /\ Len(left) = Len(torder) /\ DOMAIN left = 1 .. Len(torder)
       /\ \A k \in 1 .. Len(torder) : <<left[k].id, left[k].name>> \in K
       /\ \A x \in DOMAIN s.inflight : \E k \in 1 .. Len(torder) : left[k].id = s.inflight[x].id
  <2>1. ASSUME NEW k \in 1 .. Len(torder)
        PROVE  /\ left[k] \in Call /\ torder[k] \in DOMAIN s.inflight
               /\ left[k].id = s.inflight[torder[k]].id
               /\ left[k].name = s.inflight[torder[k]].name
    <3>1. torder[k] \in DOMAIN s.inflight
      BY <1>5
    <3>2. s.inflight[torder[k]] \in OpenCall
      BY <1>3, <3>1
    <3>3. left[k] = called(s.inflight[torder[k]])
      BY <1>5
    <3> HIDE DEF left
    <3> QED
      BY <3>1, <3>2, <3>3, CalledCall
  <2>2. left = [k \in 1 .. Len(torder) |-> left[k]]
    BY <1>5
  <2> HIDE DEF left
  <2>3. left \in Seq(Call) /\ Len(left) = Len(torder) /\ DOMAIN left = 1 .. Len(torder)
    BY <1>5, <2>1, <2>2, MapSeq
  <2>4. ASSUME NEW k \in 1 .. Len(torder)
        PROVE  <<left[k].id, left[k].name>> \in K
    BY <2>1 DEF Known
  <2>5. ASSUME NEW x \in DOMAIN s.inflight
        PROVE  \E k \in 1 .. Len(torder) : left[k].id = s.inflight[x].id
    <3>1. PICK k \in 1 .. Len(torder) : torder[k] = x
      BY <1>5
    <3> QED
      BY <2>1, <3>1
  <2> QED
    BY <2>3, <2>4, <2>5
<1> HIDE DEF left
<1>11. /\ tools \in Seq(Call) /\ DOMAIN tools = 1 .. Len(c.tools) + Len(left)
       /\ DOMAIN c.tools = 1 .. Len(c.tools) /\ Len(c.tools) \in Nat
       /\ \A k \in 1 .. Len(c.tools) : tools[k] = c.tools[k]
       /\ \A k \in 1 .. Len(left) : tools[Len(c.tools) + k] = left[k]
       /\ Len(left) \in Nat /\ DOMAIN left = 1 .. Len(left)
  <2>1. PICK a \in Seq(Call) : a = c.tools
    BY <1>9
  <2>2. left \in Seq(Call)
    BY <1>10
  <2>3. PICK b : b = a \o left
    OBVIOUS
  <2>4. /\ b \in Seq(Call) /\ DOMAIN b = 1 .. Len(a) + Len(left)
        /\ Len(a) \in Nat /\ Len(left) \in Nat
        /\ DOMAIN a = 1 .. Len(a) /\ DOMAIN left = 1 .. Len(left)
        /\ \A i \in 1 .. Len(a) : b[i] = a[i]
        /\ \A i \in 1 .. Len(left) : b[Len(a) + i] = left[i]
    <3>1. IsConcat(a, left, b, Call)
      BY <2>1, <2>2, <2>3, ConcatElements
    <3> QED
      BY <3>1 DEF IsConcat
  <2> QED
    BY <2>1, <2>3, <2>4
<1> HIDE DEF tools
<1>12. ASSUME NEW k \in 1 .. Len(rorder)
       PROVE  /\ execs[k] \in Exec
              /\ \E n \in DOMAIN tools : /\ tools[n].id = execs[k].id
                                         /\ tools[n].name = execs[k].name
                                         /\ tools[n].params = execs[k].params
  <2>1. PICK i \in DOMAIN s.results : i = rorder[k] /\ i \in Answered(s)
    BY <1>4, <1>6
  <2>2. PICK res \in OpenResult : res = s.results[i]
    BY <1>3, <2>1
  <2>3. \E n \in DOMAIN tools : tools[n].id = res.id
    <3>1. CASE \E m \in DOMAIN s.tools : s.tools[m].id = s.results[i].id
      BY <1>9, <1>11, <2>2, <3>1
    <3>2. ASSUME NEW m \in DOMAIN s.inflight, s.inflight[m].id = s.results[i].id
          PROVE  \E n \in DOMAIN tools : tools[n].id = res.id
      <4>1. PICK j \in 1 .. Len(left) : left[j].id = s.inflight[m].id
        <5>1. \E j \in 1 .. Len(torder) : left[j].id = s.inflight[m].id
          BY <1>10, <3>2
        <5>2. Len(torder) = Len(left)
          BY <1>10
        <5> QED
          BY <5>1, <5>2
      <4>2. Len(c.tools) + j \in DOMAIN tools /\ tools[Len(c.tools) + j] = left[j]
        BY <1>11, <4>1
      <4> QED
        BY <2>2, <3>2, <4>1, <4>2
    <3> QED
      BY <2>1, <3>1, <3>2 DEF Answered
  <2>4. PICK n \in DOMAIN tools : tools[n].id = res.id
    BY <2>3
  <2>5. execs[k] = execution(tools, res)
    BY <1>6, <2>1, <2>2
  <2> HIDE DEF execs
  <2>6. PICK b \in Seq(Call) : b = tools
    BY <1>11
  <2>7. n \in DOMAIN b /\ b[n].id = res.id
    BY <2>4, <2>6
  <2>8. /\ execution(b, res) \in Exec
        /\ \E m \in DOMAIN b : /\ b[m].id = execution(b, res).id
                               /\ b[m].name = execution(b, res).name
                               /\ b[m].params = execution(b, res).params
    BY <2>2, <2>6, <2>7, ExecutionOf
  <2> QED
    BY <2>5, <2>6, <2>8
<1>13. /\ execs = [k \in 1 .. Len(rorder) |-> execs[k]] /\ items = [k \in 1 .. Len(rorder) |-> items[k]]
       /\ \A k \in 1 .. Len(rorder) : items[k] = ToolItem(execs[k])
  BY <1>6
<1> HIDE DEF execs, items
<1>14. execs \in Seq(Exec) /\ Len(execs) = Len(rorder) /\ DOMAIN execs = 1 .. Len(rorder)
  BY <1>6, <1>12, <1>13, MapSeq
<1>15. items \in Seq(Item) /\ Len(items) = Len(rorder)
  <2>1. ASSUME NEW k \in 1 .. Len(rorder)
        PROVE  items[k] \in Item
    BY <1>12, <1>13 DEF ToolItem, Item
  <2> QED
    BY <1>6, <1>13, <2>1, MapSeq
<1>16. PICK q \in Seq(Exec) : q = c.executions \o execs
  <2>1. c.executions \o execs \in Seq(Exec)
    BY <1>9, <1>14
  <2> QED
    BY <2>1
<1>17. PICK p \in Seq(Item) : p = c.timeline \o items
  <2>1. c.timeline \o items \in Seq(Item)
    BY <1>9, <1>15
  <2> QED
    BY <2>1
<1>18. PICK w : w = [c EXCEPT !.tools = tools, !.executions = q, !.timeline = p,
                              !.inflight = <<>>, !.results = <<>>]
  OBVIOUS
<1>19. w = flushAll(s, torder, rorder)
  BY <1>7, <1>16, <1>17, <1>18 DEF flushAll, left, tools, execs, items
<1>20. /\ w \in State /\ w.tools = tools /\ w.executions = q /\ w.timeline = p
       /\ w.inflight = <<>> /\ w.results = <<>> /\ w.allText = c.allText
       /\ w.allThinking = c.allThinking /\ w.curText = c.curText /\ w.curThinking = c.curThinking
       /\ w.textIndex = c.textIndex /\ w.thinkingIndex = c.thinkingIndex
  <2>1. <<>> \in Blocks(OpenCall) /\ <<>> \in Blocks(OpenResult)
    BY BlocksEmpty
  <2> QED
    BY <1>9, <1>11, <1>16, <1>17, <1>18, <2>1 DEF State
<1>21. f = [w EXCEPT !.text = w.allText, !.thinking = w.allThinking]
  BY <1>1, <1>19 DEF finalize
<1>22. /\ f \in State /\ f.tools = tools /\ f.executions = q /\ f.timeline = p
       /\ f.inflight = <<>> /\ f.results = <<>> /\ f.allText = c.allText
       /\ f.allThinking = c.allThinking /\ f.curText = c.curText /\ f.curThinking = c.curThinking
       /\ f.textIndex = c.textIndex /\ f.thinkingIndex = c.thinkingIndex
       /\ f.text = f.allText /\ f.thinking = f.allThinking
  <2>1. w.allText \in Texts /\ w.allThinking \in Texts
    BY <1>9, <1>20
  <2> QED
    BY <1>20, <1>21, <2>1 DEF State
<1>23. OneRun(f) /\ Uttered(f) = Uttered(s)
  BY <1>8, <1>22 DEF OneRun, Uttered
<1>24. Known(f, K)
  <2>1. ASSUME NEW k \in DOMAIN tools
        PROVE  <<tools[k].id, tools[k].name>> \in K
    <3>1. CASE k \in 1 .. Len(c.tools)
      BY <1>9, <1>11, <3>1 DEF Known
    <3>2. CASE k \notin 1 .. Len(c.tools)
      <4>1. PICK j \in 1 .. Len(left) : k = Len(c.tools) + j
        <5>1. k - Len(c.tools) \in 1 .. Len(left) /\ k = Len(c.tools) + (k - Len(c.tools))
          BY <1>11, <3>2
        <5> QED
          BY <5>1
      <4> QED
        BY <1>10, <1>11, <4>1
    <3> QED
      BY <3>1, <3>2
  <2>2. DOMAIN f.inflight = {}
    BY <1>22, BlocksEmpty
  <2> QED
    BY <1>22, <2>1, <2>2 DEF Known
<1>25. Ledger(f)
  <2>1. PICK z \in Seq(Item) : z = c.timeline
    BY <1>9
  <2>2. Len(items) = Len(execs) /\ \A k \in 1 .. Len(execs) : items[k] = ToolItem(execs[k])
    BY <1>13, <1>14, <1>15
  <2>3. ItemText(z \o items, "text") = ItemText(z, "text")
    BY <1>14, <1>15, <2>1, <2>2, ItemTextTools
  <2>4. ItemText(z \o items, "thinking") = ItemText(z, "thinking")
    BY <1>14, <1>15, <2>1, <2>2, ItemTextTools
  <2>5. ItemExecutions(z \o items) = ItemExecutions(z) \o execs
    BY <1>14, <1>15, <2>1, <2>2, ItemExecutionsTools
  <2> QED
    BY <1>9, <1>16, <1>17, <1>22, <2>1, <2>3, <2>4, <2>5 DEF Ledger
<1>26. FromCalls(f)
  <2>1. /\ DOMAIN q = 1 .. Len(c.executions) + Len(execs) /\ Len(c.executions) \in Nat
        /\ DOMAIN c.executions = 1 .. Len(c.executions) /\ Len(execs) \in Nat
        /\ \A i \in 1 .. Len(c.executions) : q[i] = c.executions[i]
        /\ \A k \in 1 .. Len(execs) : q[Len(c.executions) + k] = execs[k]
    <3>1. PICK a \in Seq(Exec) : a = c.executions
      BY <1>9
    <3>2. execs \in Seq(Exec)
      BY <1>14
    <3>3. q = a \o execs
      BY <1>16, <3>1
    <3>4. /\ DOMAIN q = 1 .. Len(a) + Len(execs) /\ Len(a) \in Nat
          /\ DOMAIN a = 1 .. Len(a) /\ Len(execs) \in Nat
          /\ \A i \in 1 .. Len(a) : q[i] = a[i]
          /\ \A k \in 1 .. Len(execs) : q[Len(a) + k] = execs[k]
      <4>1. IsConcat(a, execs, q, Exec)
        BY <3>1, <3>2, <3>3, ConcatElements
      <4> QED
        BY <4>1 DEF IsConcat
    <3> QED
      BY <3>1, <3>4
  <2>2. ASSUME NEW i \in DOMAIN q
        PROVE  \E n \in DOMAIN tools : /\ tools[n].id = q[i].id
                                       /\ tools[n].name = q[i].name
                                       /\ tools[n].params = q[i].params
    <3>1. CASE i \in 1 .. Len(c.executions)
      <4>1. PICK n \in DOMAIN c.tools : /\ c.tools[n].id = c.executions[i].id
                                        /\ c.tools[n].name = c.executions[i].name
                                        /\ c.tools[n].params = c.executions[i].params
        BY <1>9, <2>1, <3>1 DEF FromCalls
      <4>2. n \in DOMAIN tools /\ tools[n] = c.tools[n] /\ q[i] = c.executions[i]
        BY <1>11, <2>1, <3>1, <4>1
      <4> QED
        BY <4>1, <4>2
    <3>2. CASE i \notin 1 .. Len(c.executions)
      <4>1. PICK j \in 1 .. Len(execs) : i = Len(c.executions) + j
        <5>1. i - Len(c.executions) \in 1 .. Len(execs)
              /\ i = Len(c.executions) + (i - Len(c.executions))
          BY <2>1, <3>2
        <5> QED
          BY <5>1
      <4>2. q[i] = execs[j] /\ j \in 1 .. Len(rorder)
        BY <1>14, <2>1, <4>1
      <4> QED
        BY <1>12, <4>2
    <3> QED
      BY <3>1, <3>2
  <2> QED
    BY <1>22, <2>2 DEF FromCalls
<1> QED
  BY <1>8, <1>22, <1>23, <1>24, <1>25, <1>26 DEF Good

--------------------------------------------------------------------------------
(* The events handled so far: what they said, and the calls they started.  *)
Events == Inputs \cup {MessageStop}

Started(q) == UNION {NewCalls(q[i]) : i \in DOMAIN q}

LEMMA NewTextType ==
  ASSUME NEW e \in Events
  PROVE  NewText(e) \in Texts
<1>1. CASE e = MessageStop
  <2>1. ~IsTextDelta(e)
    BY <1>1 DEF IsTextDelta, IsDelta, MessageStop
  <2> QED
    BY <2>1 DEF NewText, Texts, EmptyText
<1>2. CASE e \in Inputs
  <2>1. IsInput(e)
    BY <1>2, InputAssumption
  <2>2. IsTextDelta(e) => e.text \in Seq(Chunks)
    BY <2>1 DEF IsInput, IsTextDelta
  <2> QED
    BY <2>2 DEF NewText, Texts, EmptyText
<1> QED
  BY <1>1, <1>2 DEF Events

LEMMA SpokenAppend ==
  ASSUME NEW q \in Seq(Events), NEW e \in Events
  PROVE  SpokenText(Append(q, e)) = SpokenText(q) \o NewText(e)
<1> DEFINE p == Append(q, e)
           w == [i \in DOMAIN q |-> NewText(q[i])]
           v == [i \in DOMAIN p |-> NewText(p[i])]
<1>1. /\ p \in Seq(Events) /\ Len(q) \in Nat /\ p[Len(q) + 1] = e
      /\ \A i \in 1 .. Len(q) : p[i] = q[i] /\ q[i] \in Events
      /\ DOMAIN q = 1 .. Len(q) /\ DOMAIN p = 1 .. Len(q) + 1
      /\ \A i \in 1 .. Len(q) + 1 : p[i] \in Events
  OBVIOUS
<1> HIDE DEF p
<1>2. w = [i \in 1 .. Len(q) |-> w[i]] /\ v = [i \in 1 .. Len(q) + 1 |-> v[i]]
  BY <1>1
<1>3. /\ \A i \in 1 .. Len(q) : w[i] \in Texts /\ v[i] = w[i]
      /\ \A i \in 1 .. Len(q) + 1 : v[i] \in Texts
      /\ v[Len(q) + 1] = NewText(e)
  BY <1>1, NewTextType
<1> HIDE DEF w, v
<1>4. w \in Seq(Texts) /\ Len(w) = Len(q)
  BY <1>1, <1>2, <1>3, MapSeq
<1>5. v \in Seq(Texts) /\ Len(v) = Len(q) + 1
  BY <1>1, <1>2, <1>3, MapSeq
<1>6. FlattenSeq(v) = FlattenSeq(w) \o NewText(e)
  BY <1>3, <1>4, <1>5, FlattenOneMore DEF Texts
<1>7. SpokenText(q) = FlattenSeq(w) /\ SpokenText(p) = FlattenSeq(v)
  BY DEF SpokenText, NewText, w, v
<1> QED
  BY <1>6, <1>7 DEF p

LEMMA StartedAppend ==
  ASSUME NEW q \in Seq(Events), NEW e \in Events
  PROVE  Started(Append(q, e)) = Started(q) \cup NewCalls(e)
<1>1. PICK p : p = Append(q, e)
  OBVIOUS
<1>2. /\ Len(q) \in Nat /\ p[Len(q) + 1] = e
      /\ DOMAIN q = 1 .. Len(q) /\ DOMAIN p = DOMAIN q \cup {Len(q) + 1}
      /\ \A i \in DOMAIN q : p[i] = q[i]
  BY <1>1
<1>3. Started(p) = Started(q) \cup NewCalls(e)
  BY <1>2 DEF Started
<1> QED
  BY <1>1, <1>3

(* The thinking run that waits, and what one event does to it.             *)
Fed(s, q) == s.curThinking # EmptyText => FedSinceStart(q, s.thinkingIndex)

LEMMA StopOnThinking ==
  ASSUME NEW s \in State, NEW d, NEW t, t = onContentBlockStop(s, d)
  PROVE  \/ t.curThinking = EmptyText
         \/ t.curThinking = s.curThinking /\ t.thinkingIndex = s.thinkingIndex
<1>1. CASE d.index \in DOMAIN s.inflight
  BY <1>1 DEF onContentBlockStop, finalizeTool, State
<1>2. CASE d.index \notin DOMAIN s.inflight /\ d.index \in DOMAIN s.results
  <2>1. PICK u : u = finalizeResult(s, s.results[d.index])
    OBVIOUS
  <2>2. /\ u.curThinking = s.curThinking /\ u.thinkingIndex = s.thinkingIndex
        /\ u = [k \in DOMAIN s |-> u[k]]
    BY <2>1 DEF finalizeResult, State
  <2>3. t = [u EXCEPT !.results = Without(@, d.index)]
    BY <1>2, <2>1 DEF onContentBlockStop
  <2> QED
    BY <2>2, <2>3 DEF State
<1>3. CASE d.index \notin DOMAIN s.inflight /\ d.index \notin DOMAIN s.results
  <2>1. t \in {s, closeTextBlock(s), closeThinkingBlock(s)}
    BY <1>3 DEF onContentBlockStop
  <2> QED
    BY <2>1, CloseText, CloseThinking
<1> QED
  BY <1>1, <1>2, <1>3

LEMMA EventOnThinking ==
  ASSUME NEW s, Good(s), NEW e \in Inputs, NEW t, t = handleEvent(s, e)
  PROVE  \/ t.curThinking = EmptyText
         \/ /\ t.curThinking = s.curThinking /\ t.thinkingIndex = s.thinkingIndex
            /\ ~OpensBlock(e)
         \/ IsDelta(e) /\ e.block = "thinking" /\ decoded(e).index = t.thinkingIndex
<1>1. PICK d : d = decoded(e)
  OBVIOUS
<1>2. s \in State
  BY DEF Good
<1>3. /\ IsStart(e) => d.block = e.block
      /\ IsDelta(e) => d.block = e.block
  BY <1>1, Decoded
<1>4. CASE IsStart(e)
  <2>1. t = onContentBlockStart(s, d)
    BY <1>1, <1>4 DEF handleEvent, IsStart
  <2>2. CASE OpensBlock(e)
    <3>1. ASSUME NEW c, \/ c = closeThinkingBlock(closeTextBlock(s))
                        \/ c = closeTextBlock(closeThinkingBlock(s))
          PROVE  c.curThinking = EmptyText /\ c \in State
      BY <3>1, CloseBoth DEF Good
    <3>2. PICK a : a = closeThinkingBlock(closeTextBlock(s))
      OBVIOUS
    <3>3. PICK b : b = closeTextBlock(closeThinkingBlock(s))
      OBVIOUS
    <3>4. a.curThinking = EmptyText /\ a \in State /\ b.curThinking = EmptyText /\ b \in State
      BY <3>1, <3>2, <3>3
    <3>5. CASE e.block = "tool_use"
      BY <1>3, <1>4, <2>1, <3>2, <3>4, <3>5 DEF onContentBlockStart, State
    <3>6. CASE e.block = "tool_result"
      BY <1>3, <1>4, <2>1, <3>2, <3>4, <3>6 DEF onContentBlockStart, State
    <3>7. CASE e.block \in {"text", ""}
      BY <1>3, <1>4, <2>1, <3>3, <3>4, <3>7 DEF onContentBlockStart, State
    <3>8. CASE e.block = "thinking"
      BY <1>3, <1>4, <2>1, <3>2, <3>4, <3>8 DEF onContentBlockStart, State
    <3> QED
      BY <2>2, <3>5, <3>6, <3>7, <3>8 DEF OpensBlock
  <2>3. CASE ~OpensBlock(e)
    <3>1. t = s
      BY <1>3, <1>4, <2>1, <2>3 DEF onContentBlockStart, OpensBlock
    <3> QED
      BY <2>3, <3>1
  <2> QED
    BY <2>2, <2>3
<1>5. CASE IsDelta(e)
  <2>1. t = onContentBlockDelta(s, d) /\ ~OpensBlock(e)
    BY <1>1, <1>5 DEF handleEvent, IsDelta, IsStart, OpensBlock
  <2>2. CASE e.block = "thinking" /\ d.index = s.thinkingIndex
    <3>1. t.thinkingIndex = s.thinkingIndex
      BY <1>2, <1>3, <1>5, <2>1, <2>2 DEF onContentBlockDelta, handleThinkingDelta, State
    <3> QED
      BY <1>1, <1>5, <2>2, <3>1
  <2>3. CASE ~(e.block = "thinking" /\ d.index = s.thinkingIndex)
    <3>1. t.curThinking = s.curThinking /\ t.thinkingIndex = s.thinkingIndex
      <4>1. CASE e.block = "text"
        BY <1>2, <1>3, <1>5, <2>1, <4>1 DEF onContentBlockDelta, handleTextDelta, State
      <4>2. CASE e.block = "thinking"
        BY <1>3, <1>5, <2>1, <2>3, <4>2 DEF onContentBlockDelta, handleThinkingDelta
      <4>3. CASE e.block \notin {"text", "thinking"}
        BY <1>2, <1>3, <1>5, <2>1, <4>3 DEF onContentBlockDelta, State
      <4> QED
        BY <4>1, <4>2, <4>3
    <3> QED
      BY <2>1, <3>1
  <2> QED
    BY <2>2, <2>3
<1>6. CASE IsStop(e)
  <2>1. t = onContentBlockStop(s, d) /\ ~OpensBlock(e)
    BY <1>1, <1>6 DEF handleEvent, IsStop, IsStart, OpensBlock
  <2> QED
    BY <1>2, <2>1, StopOnThinking
<1>7. CASE ~IsStart(e) /\ ~IsDelta(e) /\ ~IsStop(e)
  <2>1. t.curThinking = s.curThinking /\ t.thinkingIndex = s.thinkingIndex
    BY <1>2, <1>7 DEF handleEvent, IsStart, IsDelta, IsStop, State
  <2> QED
    BY <1>7, <2>1 DEF OpensBlock
<1> QED
  BY <1>4, <1>5, <1>6, <1>7

LEMMA FedKept ==
  ASSUME NEW s, Good(s), NEW q \in Seq(Events), Fed(s, q), NEW e \in Inputs,
         NEW t, t = handleEvent(s, e), NEW p, p = Append(q, e)
  PROVE  Fed(t, p)
<1> SUFFICES ASSUME t.curThinking # EmptyText PROVE FedSinceStart(p, t.thinkingIndex)
  BY DEF Fed
<1>1. /\ Len(q) \in Nat /\ p[Len(q) + 1] = e /\ DOMAIN q = 1 .. Len(q)
      /\ DOMAIN p = 1 .. Len(q) + 1 /\ \A i \in 1 .. Len(q) : p[i] = q[i]
  <2>1. e \in Events
    BY DEF Events
  <2> QED
    BY <2>1
<1>2. CASE IsDelta(e) /\ e.block = "thinking" /\ decoded(e).index = t.thinkingIndex
  BY <1>1, <1>2 DEF FedSinceStart
<1>3. CASE /\ t.curThinking = s.curThinking /\ t.thinkingIndex = s.thinkingIndex
           /\ ~OpensBlock(e)
  <2>1. PICK j \in DOMAIN q :
          /\ IsDelta(q[j]) /\ q[j].block = "thinking" /\ decoded(q[j]).index = s.thinkingIndex
          /\ \A k \in DOMAIN q : k > j => ~OpensBlock(q[k])
    BY <1>3 DEF Fed, FedSinceStart
  <2>2. j \in DOMAIN p /\ p[j] = q[j]
    BY <1>1, <2>1
  <2>3. \A k \in DOMAIN p : k > j => ~OpensBlock(p[k])
    BY <1>1, <1>3, <2>1
  <2> QED
    BY <1>3, <2>1, <2>2, <2>3 DEF FedSinceStart
<1> QED
  BY <1>2, <1>3, EventOnThinking

--------------------------------------------------------------------------------
(* The inductive invariant.                                                *)
Closed(s) ==
  /\ s.curText = EmptyText /\ s.curThinking = EmptyText
  /\ s.text = s.allText /\ s.thinking = s.allThinking
  /\ s.inflight = <<>> /\ s.results = <<>>

RInv ==
  /\ loop \in {"running", "returned"}
  /\ seen \in Seq(Events)
  /\ Good(r)
  /\ Known(r, Started(seen))
  /\ Uttered(r) = SpokenText(seen)
  /\ Fed(r, seen)
  /\ loop = "returned" => Closed(r)

LEMMA StartsGood ==
  /\ Good(NewReassembler)
  /\ Known(NewReassembler, {})
  /\ Uttered(NewReassembler) = <<>>
<1>1. PICK s : s = NewReassembler
  OBVIOUS
<1>2. /\ s.tools = <<>> /\ s.executions = <<>> /\ s.timeline = <<>>
      /\ s.inflight = <<>> /\ s.results = <<>>
      /\ s.allText = <<>> /\ s.curText = <<>>
      /\ s.allThinking = <<>> /\ s.curThinking = <<>>
      /\ s.textIndex = NoBlock /\ s.thinkingIndex = NoBlock
  BY <1>1 DEF NewReassembler, EmptyText
<1>3. s \in State
  <2>1. <<>> \in Blocks(OpenCall) /\ <<>> \in Blocks(OpenResult)
    BY BlocksEmpty
  <2>2. /\ <<>> \in Seq(Names) /\ <<>> \in Seq(Call) /\ <<>> \in Seq(Exec)
        /\ <<>> \in Seq(Item) /\ <<>> \in Texts
    BY DEF Texts
  <2>3. NoBlock \in Int
    BY DEF NoBlock
  <2> QED
    BY <1>1, <2>1, <2>2, <2>3 DEF NewReassembler, State, EmptyText
<1>4. OneRun(s)
  BY <1>2 DEF OneRun, EmptyText
<1>5. Ledger(s)
  <2>1. PICK q \in Seq(Item) : q = <<>>
    <3>1. <<>> \in Seq(Item)
      OBVIOUS
    <3> QED
      BY <3>1
  <2>2. ASSUME NEW kind
        PROVE  ItemText(q, kind) = <<>>
    <3>1. [i \in DOMAIN q |-> IF q[i].kind = kind THEN q[i].text ELSE EmptyText] = <<>>
      BY <2>1
    <3> QED
      BY <3>1, FlattenEmpty DEF ItemText
  <2>3. ItemExecutions(q) = <<>>
    <3>1. [i \in DOMAIN q |-> IF q[i].kind = "tool" THEN <<q[i].exec>> ELSE <<>>] = <<>>
      BY <2>1
    <3> QED
      BY <3>1, FlattenEmpty DEF ItemExecutions
  <2> QED
    BY <1>2, <2>1, <2>2, <2>3 DEF Ledger
<1>6. FromCalls(s) /\ Known(s, {})
  BY <1>2 DEF FromCalls, Known
<1>7. Uttered(s) = <<>>
  BY <1>2 DEF Uttered
<1> QED
  BY <1>1, <1>3, <1>4, <1>5, <1>6, <1>7 DEF Good

LEMMA RInvInit ==
  RInit => RInv
<1> SUFFICES ASSUME RInit PROVE RInv
  OBVIOUS
<1>1. r = NewReassembler /\ loop = "running" /\ seen = <<>>
  BY DEF RInit
<1>2. PICK q \in Seq(Events) : q = <<>>
  <2>1. <<>> \in Seq(Events)
    OBVIOUS
  <2> QED
    BY <2>1
<1>3. SpokenText(q) = <<>>
  <2>1. [i \in DOMAIN q |-> IF IsTextDelta(q[i]) THEN q[i].text ELSE EmptyText] = <<>>
    BY <1>2
  <2> QED
    BY <2>1, FlattenEmpty DEF SpokenText
<1>4. Started(q) = {}
  BY <1>2 DEF Started
<1> QED
  BY <1>1, <1>2, <1>3, <1>4, StartsGood DEF RInv, Fed, NewReassembler

(* finalize, from whatever the loop holds when it ends.                    *)
LEMMA Returns ==
  ASSUME NEW s, Good(s), NEW K, Known(s, K), NEW f \in Finalized(s)
  PROVE  Good(f) /\ Known(f, K) /\ Uttered(f) = Uttered(s) /\ Closed(f)
BY FinalKeeps DEF Closed

LEMMA ErrorKept ==
  ASSUME NEW s, Good(s), NEW K, Known(s, K), NEW err \in BOOLEAN,
         NEW t, t = [s EXCEPT !.error = err]
  PROVE  Good(t) /\ Known(t, K) /\ Uttered(t) = Uttered(s)
<1>1. s \in State /\ OneRun(s)
  BY DEF Good
<1>2. /\ t \in State /\ SameBooks(s, t) /\ t.inflight = s.inflight
      /\ t.textIndex = s.textIndex /\ t.thinkingIndex = s.thinkingIndex
      /\ t.curThinking = s.curThinking /\ t.curText = s.curText
  BY <1>1 DEF State, SameBooks
<1>3. OneRun(t)
  BY <1>1, <1>2 DEF OneRun
<1>4. Good(t)
  BY <1>2, <1>3, BooksKept
<1> QED
  BY <1>2, <1>4 DEF Known, Uttered, SameBooks

LEMMA RInvNext ==
  RInv /\ [Next]_rvars => RInv'
<1> SUFFICES ASSUME RInv, [Next]_rvars PROVE RInv'
  OBVIOUS
<1>1. PICK s : s = r
  OBVIOUS
<1>2. PICK q \in Seq(Events) : q = seen
  BY DEF RInv
<1>3. Good(s) /\ Known(s, Started(q)) /\ Uttered(s) = SpokenText(q) /\ Fed(s, q)
  BY <1>1, <1>2 DEF RInv
<1>4. ASSUME NEW e \in Inputs, Handle(e)
      PROVE  RInv'
  <2>1. PICK t : t = handleEvent(s, e)
    OBVIOUS
  <2>2. e \in Events
    BY DEF Events
  <2>3. Good(t) /\ Known(t, Started(q) \cup NewCalls(e)) /\ Uttered(t) = Uttered(s) \o NewText(e)
    BY <1>3, <2>1, EventKeeps
  <2>4. PICK p \in Seq(Events) : p = Append(q, e)
    <3>1. Append(q, e) \in Seq(Events)
      BY <2>2
    <3> QED
      BY <3>1
  <2>5. Started(p) = Started(q) \cup NewCalls(e) /\ SpokenText(p) = SpokenText(q) \o NewText(e)
    BY <2>2, <2>4, StartedAppend, SpokenAppend
  <2>6. r' = t /\ seen' = p /\ loop' = loop /\ loop = "running"
    BY <1>1, <1>2, <1>4, <2>1, <2>4 DEF Handle
  <2>7. Fed(t, p)
    BY <1>3, <2>1, <2>4, FedKept
  <2> QED
    BY <1>3, <2>3, <2>5, <2>6, <2>7 DEF RInv
<1>5. CASE HandleStop
  <2>1. PICK f \in Finalized(s) : r' = f
    BY <1>1, <1>5 DEF HandleStop
  <2>2. Good(f) /\ Known(f, Started(q)) /\ Uttered(f) = Uttered(s) /\ Closed(f)
    BY <1>3, <2>1, Returns
  <2>3. MessageStop \in Events
    BY DEF Events
  <2>4. PICK p \in Seq(Events) : p = Append(q, MessageStop)
    <3>1. Append(q, MessageStop) \in Seq(Events)
      BY <2>3
    <3> QED
      BY <3>1
  <2>5. NewCalls(MessageStop) = {} /\ NewText(MessageStop) = <<>>
    BY DEF NewCalls, NewText, IsStart, IsTextDelta, IsDelta, MessageStop, EmptyText
  <2>6. Started(p) = Started(q) /\ SpokenText(p) = SpokenText(q) \o <<>>
    BY <2>3, <2>4, <2>5, StartedAppend, SpokenAppend
  <2>7. SpokenText(q) \o <<>> = SpokenText(q)
    <3>1. s.allText \in Texts /\ s.curText \in Texts
      BY <1>3 DEF Good, State
    <3>2. Uttered(s) \in Seq(Chunks)
      BY <3>1 DEF Uttered, Texts
    <3>3. PICK x \in Seq(Chunks) : x = SpokenText(q)
      BY <1>3, <3>2
    <3> QED
      BY <3>3, ConcatEmptySeq
  <2>8. r' = f /\ seen' = p /\ loop' = "returned"
    BY <1>2, <1>5, <2>1, <2>4 DEF HandleStop
  <2>9. Fed(f, p)
    BY <2>2 DEF Fed, Closed
  <2> QED
    BY <1>3, <2>2, <2>6, <2>7, <2>8, <2>9 DEF RInv
<1>6. ASSUME NEW err \in BOOLEAN, SourceEnds(err)
      PROVE  RInv'
  <2>1. PICK t : t = [s EXCEPT !.error = err]
    OBVIOUS
  <2>2. Good(t) /\ Known(t, Started(q)) /\ Uttered(t) = Uttered(s)
    BY <1>3, <2>1, ErrorKept
  <2>3. PICK f \in Finalized(t) : r' = f
    BY <1>1, <1>6, <2>1 DEF SourceEnds
  <2>4. Good(f) /\ Known(f, Started(q)) /\ Uttered(f) = Uttered(t) /\ Closed(f)
    BY <2>2, <2>3, Returns
  <2>5. r' = f /\ seen' = q /\ loop' = "returned"
    BY <1>2, <1>6, <2>3 DEF SourceEnds
  <2>6. Fed(f, q)
    BY <2>4 DEF Fed, Closed
  <2> QED
    BY <1>3, <2>2, <2>4, <2>5, <2>6 DEF RInv
<1>7. CASE UNCHANGED rvars
  BY <1>7 DEF RInv, rvars
<1> QED
  BY <1>4, <1>5, <1>6, <1>7 DEF Next

LEMMA RInvariant ==
  Spec => []RInv
<1> QED
  BY RInvInit, RInvNext, PTL DEF Spec

--------------------------------------------------------------------------------
(* The reassembler's fields keep their types, its timeline holds nothing   *)
(* but well-formed items, and once Reassemble has returned no block is in  *)
(* progress, whatever events it was fed.                                   *)
THEOREM ReassemblerTypes ==
  Spec => []RTypeOK
<1>1. RInv => RTypeOK
  <2> SUFFICES ASSUME RInv PROVE RTypeOK
    OBVIOUS
  <2>1. r \in State /\ loop \in {"running", "returned"} /\ (loop = "returned" => Closed(r))
    BY DEF RInv, Good
  <2>2. /\ r.inflight \in Blocks(OpenCall) /\ r.results \in Blocks(OpenResult)
        /\ r.thinkingIndex \in Int /\ r.textIndex \in Int
        /\ r.error \in BOOLEAN /\ r.timeline \in Seq(Item)
    BY <2>1 DEF State
  <2>3. DOMAIN r.inflight \subseteq Int /\ DOMAIN r.results \subseteq Int
    BY <2>2 DEF Blocks
  <2>4. ASSUME NEW x \in Item
        PROVE  IsTimelineItem(x)
    <3>1. CASE x \in [kind : {"text", "thinking"}, text : Texts]
      BY <3>1 DEF IsTimelineItem
    <3>2. CASE x \in [kind : {"tool"}, exec : Exec]
      BY <3>2 DEF IsTimelineItem, Exec
    <3> QED
      BY <3>1, <3>2 DEF Item
  <2>5. \A i \in DOMAIN r.timeline : r.timeline[i] \in Item
    BY <2>2
  <2> QED
    BY <2>1, <2>2, <2>3, <2>4, <2>5 DEF RTypeOK, Closed
<1> QED
  BY <1>1, RInvariant, PTL

(* Text and thinking are never marked open at once, and thinking that      *)
(* waits was fed at the marked index since the last block started, for     *)
(* every index an event may carry, -1 included.                            *)
THEOREM RunsNeverOverlap ==
  Spec => []OneOpenRun
<1>1. RInv => OneOpenRun
  BY DEF RInv, Good, OneRun, OneOpenRun, Fed
<1> QED
  BY <1>1, RInvariant, PTL

(* Every call Reassemble reports was started by an event it handled, and   *)
(* every execution belongs to a reported call.                             *)
THEOREM NothingIsInvented ==
  Spec => []NothingInvented
<1>1. RInv => NothingInvented
  <2> SUFFICES ASSUME RInv PROVE NothingInvented
    OBVIOUS
  <2>1. Known(r, Started(seen)) /\ FromCalls(r)
    BY DEF RInv, Good
  <2>2. ASSUME NEW i \in DOMAIN r.tools
        PROVE  \E j \in DOMAIN seen :
                 /\ IsStart(seen[j]) /\ seen[j].block = "tool_use"
                 /\ seen[j].id = r.tools[i].id /\ seen[j].name = r.tools[i].name
    <3>1. <<r.tools[i].id, r.tools[i].name>> \in Started(seen)
      BY <2>1 DEF Known
    <3>2. PICK j \in DOMAIN seen : <<r.tools[i].id, r.tools[i].name>> \in NewCalls(seen[j])
      BY <3>1 DEF Started
    <3> QED
      BY <3>2 DEF NewCalls
  <2> QED
    BY <2>1, <2>2 DEF NothingInvented, FromCalls
<1> QED
  BY <1>1, RInvariant, PTL

(* The Text Reassemble returns is every text delta it handled, once and in *)
(* the order of arrival, whatever starts and stops are missing.            *)
THEOREM TextIsConserved ==
  Spec => []TextConserved
<1>1. RInv => TextConserved
  <2> SUFFICES ASSUME RInv, loop = "returned" PROVE r.text = SpokenText(seen)
    BY DEF TextConserved
  <2>1. Closed(r) /\ Uttered(r) = SpokenText(seen) /\ r \in State
    BY DEF RInv, Good
  <2>2. PICK x \in Seq(Chunks) : x = r.allText
    BY <2>1 DEF State, Texts
  <2>3. x \o <<>> = x
    BY <2>2, ConcatEmptySeq
  <2> QED
    BY <2>1, <2>2, <2>3 DEF Closed, Uttered, EmptyText
<1> QED
  BY <1>1, RInvariant, PTL

(* The timeline, Text, Thinking and Executions of a returned turn are one  *)
(* account of it: none has a piece, or an order, that another has not.     *)
THEOREM TimelineIsTheTurn ==
  Spec => []TimelineIsTurn
<1>1. RInv => TimelineIsTurn
  BY DEF RInv, Good, Ledger, Closed, TimelineIsTurn
<1> QED
  BY <1>1, RInvariant, PTL
================================================================================
