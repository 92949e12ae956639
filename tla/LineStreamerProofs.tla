-------------------------- MODULE LineStreamerProofs --------------------------
(***************************************************************************)
(* Proofs about LineStreamer, for any chunks, any transform and any number *)
(* of calls.  The loop of Write is a fold; its steps are taken one by one  *)
(* with the table of JoinProofs.                                           *)
(***************************************************************************)
EXTENDS LineStreamer, JoinProofs, FiniteSetTheorems

Text == Seq(Chars)

(* A LineTransform is a func(string) string.                               *)
TransformsText == \A line \in Text : Transform(line) \in Text

(* rewritten, Complete and Whole with the transform as a parameter.        *)
Marked(marks, line) == IF marks THEN Transform(line) ELSE line

Lines(marks, s) ==
  [i \in DOMAIN s |-> IF s[i] = NL THEN Marked(marks, LineUpTo(s, i)) \o <<NL>> ELSE EmptyText]

Completed(marks, s) == FlattenSeq(Lines(marks, s))

Rest(marks, s) == IF Partial(s) = EmptyText THEN EmptyText ELSE Marked(marks, Partial(s))

LEMMA Parameters ==
  /\ \A line : rewritten(line) = Marked(ls.transform, line)
  /\ \A s : Complete(s) = Completed(ls.transform, s)
  /\ \A s : Trailing(s) = Rest(ls.transform, s)
  /\ \A s : Whole(s) = Completed(ls.transform, s) \o Rest(ls.transform, s)
BY DEF rewritten, Marked, Complete, Completed, Lines, Whole, Trailing, Rest

LEMMA ChunkText ==
  ASSUME NEW chunk \in Chunks
  PROVE  chunk \in Text
BY LineStreamerAssumption DEF Text

(* The position before the line that i is in.                              *)
Cut(s, i) == Max({0} \cup {j \in Ends(s) : j < i})

LEMMA CutBounds ==
  ASSUME NEW s \in Text, NEW i \in 1 .. Len(s) + 1
  PROVE  Cut(s, i) \in 0 .. i - 1
<1> DEFINE S == {0} \cup {j \in Ends(s) : j < i}
<1>1. Len(s) \in Nat /\ DOMAIN s = 1 .. Len(s)
  BY DEF Text
<1>2. i - 1 \in Nat /\ S \subseteq 0 .. i - 1 /\ S # {}
  BY <1>1 DEF Ends
<1> HIDE DEF S
<1>3. Max(S) \in S
  BY <1>2, MaxOf
<1> QED
  BY <1>2, <1>3 DEF S, Cut

LEMMA LineType ==
  ASSUME NEW s \in Text, NEW i \in 1 .. Len(s) + 1
  PROVE  LineUpTo(s, i) \in Text
<1>1. PICK m \in 0 .. i - 1 : m = Cut(s, i)
  BY CutBounds
<1>2. Len(s) \in Nat /\ i - 1 \in 0 .. Len(s) /\ m + 1 \in 1 .. i
  BY DEF Text
<1>3. SubSeq(s, m + 1, i - 1) \in Seq(Chars)
  BY <1>2 DEF Text
<1> QED
  BY <1>1, <1>3 DEF LineUpTo, Cut, Text

LEMMA PartialType ==
  ASSUME NEW s \in Text
  PROVE  Partial(s) \in Text
<1>1. Len(s) + 1 \in 1 .. Len(s) + 1
  BY DEF Text
<1> QED
  BY <1>1, LineType DEF Partial

(* One character more leaves the lines before it alone.                    *)
LEMMA LineKept ==
  ASSUME NEW s \in Text, NEW char \in Chars, NEW i \in 1 .. Len(s) + 1
  PROVE  LineUpTo(Append(s, char), i) = LineUpTo(s, i)
<1> DEFINE t == Append(s, char)
<1>1. /\ Len(s) \in Nat /\ t \in Seq(Chars) /\ Len(t) = Len(s) + 1
      /\ DOMAIN s = 1 .. Len(s) /\ DOMAIN t = 1 .. Len(s) + 1
      /\ \A j \in 1 .. Len(s) : t[j] = s[j]
  BY DEF Text
<1> HIDE DEF t
<1>2. {j \in Ends(t) : j < i} = {j \in Ends(s) : j < i}
  BY <1>1 DEF Ends
<1>3. Cut(t, i) = Cut(s, i)
  BY <1>2 DEF Cut
<1>4. PICK m \in 0 .. i - 1 : m = Cut(s, i)
  BY CutBounds
<1>5. SubSeq(t, m + 1, i - 1) = SubSeq(s, m + 1, i - 1)
  <2>1. PICK n \in 0 .. Len(s) : n = i - 1 /\ m \in 0 .. n /\ n \in 0 .. Len(t)
    BY <1>1, <1>4
  <2> DEFINE a == SubSeq(s, m + 1, n)
             b == SubSeq(t, m + 1, n)
  <2>2. /\ a \in Seq(Chars) /\ Len(a) = n - m
        /\ \A k \in 1 .. n - m : a[k] = s[m + k] /\ m + k \in 1 .. Len(s)
    BY <2>1, SliceElements DEF Text
  <2>3. /\ b \in Seq(Chars) /\ Len(b) = n - m
        /\ \A k \in 1 .. n - m : b[k] = t[m + k]
    BY <1>1, <2>1, SliceElements
  <2> HIDE DEF a, b
  <2>4. \A k \in 1 .. n - m : b[k] = a[k]
    BY <1>1, <2>2, <2>3
  <2>5. b = a
    <3>1. a \in Seq(Chars) /\ b \in Seq(Chars) /\ Len(a) = n - m /\ Len(b) = n - m
      BY <2>2, <2>3
    <3> QED
      BY <2>4, <3>1, SeqEqual
  <2> QED
    BY <2>1, <2>5 DEF a, b
<1> QED
  BY <1>3, <1>4, <1>5 DEF LineUpTo, Cut, t

(* What is held after one character more.                                  *)
LEMMA PartialAfter ==
  ASSUME NEW s \in Text, NEW char \in Chars
  PROVE  Partial(Append(s, char)) =
           IF char = NL THEN EmptyText ELSE Append(Partial(s), char)
<1> DEFINE t == Append(s, char)
<1>1. /\ Len(s) \in Nat /\ t \in Text /\ Len(t) = Len(s) + 1
      /\ DOMAIN s = 1 .. Len(s) /\ DOMAIN t = 1 .. Len(s) + 1
      /\ t[Len(s) + 1] = char
      /\ \A j \in 1 .. Len(s) : t[j] = s[j]
  BY DEF Text
<1> HIDE DEF t
<1>2. PICK n \in Nat : n = Len(s)
  BY <1>1
<1>x. PICK e \in Nat : e = Len(t) + 1 /\ e = n + 2 /\ e - 1 = n + 1
  BY <1>1, <1>2
<1>y. PICK d \in Nat : d = Len(s) + 1 /\ d = n + 1 /\ d - 1 = n
  BY <1>1, <1>2
<1>3. Partial(t) = SubSeq(t, Cut(t, e) + 1, n + 1)
  BY <1>x DEF Partial, LineUpTo, Cut
<1>4. Partial(s) = SubSeq(s, Cut(s, d) + 1, n)
  BY <1>y DEF Partial, LineUpTo, Cut
<1>5. CASE char = NL
  <2> DEFINE S == {0} \cup {j \in Ends(t) : j < e}
  <2>1. d \in S /\ S \subseteq 0 .. d /\ S # {}
    BY <1>1, <1>2, <1>x, <1>y, <1>5 DEF Ends
  <2> HIDE DEF S
  <2>2. Max(S) \in S /\ d <= Max(S)
    BY <2>1, MaxOf
  <2>3. Max(S) \in 0 .. d
    BY <2>1, <2>2
  <2>4. Max(S) = d
    BY <2>2, <2>3
  <2>5. Partial(t) = SubSeq(t, d + 1, n + 1)
    BY <1>3, <2>4 DEF S, Cut
  <2>6. SubSeq(t, d + 1, n + 1) = <<>>
    <3>1. t \in Seq(Chars) /\ d \in 0 .. Len(t) /\ d \in 0 .. d /\ d - d = 0
      BY <1>1, <1>2, <1>y DEF Text
    <3>2. SubSeq(t, d + 1, d) \in Seq(Chars) /\ Len(SubSeq(t, d + 1, d)) = 0
      BY <3>1, SliceElements
    <3>3. SubSeq(t, d + 1, d) = <<>>
      BY <3>2, EmptySeq
    <3> QED
      BY <1>y, <3>3
  <2> QED
    BY <1>5, <2>5, <2>6 DEF t, EmptyText
<1>6. CASE char # NL
  <2>1. {j \in Ends(t) : j < e} = {j \in Ends(s) : j < d}
    BY <1>1, <1>2, <1>x, <1>y, <1>6 DEF Ends
  <2>2. PICK m \in 0 .. n : m = Cut(s, d) /\ m = Cut(t, e)
    <3>1. d \in 1 .. Len(s) + 1
      BY <1>1, <1>y
    <3>2. Cut(s, d) \in 0 .. n
      BY <1>y, <3>1, CutBounds
    <3>3. Cut(t, e) = Cut(s, d)
      BY <2>1 DEF Cut
    <3> QED
      BY <3>2, <3>3
  <2> DEFINE a == SubSeq(s, m + 1, n)
             b == SubSeq(t, m + 1, d)
  <2>3. /\ a \in Seq(Chars) /\ Len(a) = n - m
        /\ \A k \in 1 .. n - m : a[k] = s[m + k] /\ m + k \in 1 .. Len(s)
    <3>1. n \in 0 .. Len(s)
      BY <1>2
    <3> QED
      BY <2>2, <3>1, SliceElements DEF Text
  <2>4. /\ b \in Seq(Chars) /\ Len(b) = d - m
        /\ \A k \in 1 .. d - m : b[k] = t[m + k]
    <3>1. d \in 0 .. Len(t) /\ m \in 0 .. d
      BY <1>1, <1>2, <1>y, <2>2
    <3> QED
      BY <1>1, <3>1, SliceElements DEF Text
  <2> HIDE DEF a, b
  <2>5. b = Append(a, char)
    <3>1. Append(a, char) \in Seq(Chars) /\ Len(Append(a, char)) = d - m
      BY <1>y, <2>2, <2>3
    <3>2. ASSUME NEW k \in 1 .. d - m
          PROVE  b[k] = Append(a, char)[k]
      <4>1. CASE k = d - m
        <5>0. a \in Seq(Chars) /\ Len(a) = n - m
          BY <2>3
        <5>1. m + k = Len(s) + 1 /\ k = Len(a) + 1
          BY <1>y, <2>2, <4>1, <5>0
        <5>2. Append(a, char)[k] = char
          <6>1. Append(a, char)[Len(a) + 1] = char
            BY <5>0
          <6> QED
            BY <5>1, <6>1
        <5>3. t[m + k] = t[Len(s) + 1]
          BY <5>1
        <5>4. b[k] = t[m + k]
          BY <2>4
        <5> QED
          BY <1>1, <5>2, <5>3, <5>4
      <4>2. CASE k \in 1 .. n - m
        <5>1. Append(a, char)[k] = a[k]
          BY <2>3, <4>2
        <5> QED
          BY <1>1, <2>3, <2>4, <4>2, <5>1
      <4>3. k = d - m \/ k \in 1 .. n - m
        BY <1>y, <2>2
      <4> QED
        BY <4>1, <4>2, <4>3
    <3> QED
      BY <2>4, <3>1, <3>2, SeqEqual
  <2> QED
    BY <1>3, <1>4, <1>y, <1>6, <2>2, <2>5 DEF t, a, b
<1> QED
  BY <1>5, <1>6

LEMMA MarkedType ==
  ASSUME TransformsText, NEW marks \in BOOLEAN, NEW line \in Text
  PROVE  /\ Marked(marks, line) \in Text
         /\ Marked(marks, line) \o <<NL>> \in Text
         /\ Marked(marks, line) \o EmptyText = Marked(marks, line)
<1>1. <<NL>> \in Seq(Chars) /\ <<>> \in Seq(Chars)
  BY LineStreamerAssumption
<1>2. Marked(marks, line) \in Seq(Chars)
  BY DEF TransformsText, Marked, Text
<1>3. PICK t \in Seq(Chars) : t = Marked(marks, line)
  BY <1>2
<1>4. t \o <<NL>> \in Seq(Chars) /\ t \o <<>> = t
  BY <1>1, ConcatEmptySeq
<1> QED
  BY <1>3, <1>4 DEF Text, EmptyText

LEMMA LinesType ==
  ASSUME TransformsText, NEW marks \in BOOLEAN, NEW s \in Text
  PROVE  /\ Lines(marks, s) \in Seq(Text) /\ Len(Lines(marks, s)) = Len(s)
         /\ \A i \in 1 .. Len(s) :
              Lines(marks, s)[i] = IF s[i] = NL THEN Marked(marks, LineUpTo(s, i)) \o <<NL>>
                                                ELSE EmptyText
<1> DEFINE w == Lines(marks, s)
           v(i) == IF s[i] = NL THEN Marked(marks, LineUpTo(s, i)) \o <<NL>> ELSE EmptyText
<1>1. Len(s) \in Nat /\ DOMAIN s = 1 .. Len(s)
  BY DEF Text
<1>2. ASSUME NEW i \in 1 .. Len(s)
      PROVE  v(i) \in Text
  <2>1. i \in 1 .. Len(s) + 1
    BY <1>1
  <2>2. LineUpTo(s, i) \in Text
    BY <2>1, LineType
  <2>3. Marked(marks, LineUpTo(s, i)) \o <<NL>> \in Text
    BY <2>2, MarkedType
  <2>4. EmptyText \in Text
    BY DEF EmptyText, Text
  <2> QED
    BY <2>3, <2>4
<1>3. w = [i \in 1 .. Len(s) |-> v(i)]
  BY <1>1 DEF Lines
<1> HIDE DEF v, w
<1>4. w \in Seq(Text) /\ Len(w) = Len(s) /\ \A i \in 1 .. Len(s) : w[i] = v(i)
  BY <1>1, <1>2, <1>3
<1> QED
  BY <1>4 DEF w, v

LEMMA CompletedType ==
  ASSUME TransformsText, NEW marks \in BOOLEAN, NEW s \in Text
  PROVE  Completed(marks, s) \in Text /\ Rest(marks, s) \in Text
<1>1. Completed(marks, s) \in Text
  BY LinesType, FlattenType DEF Completed, Text
<1>2. EmptyText \in Text
  BY DEF EmptyText, Text
<1> QED
  BY <1>1, <1>2, PartialType, MarkedType DEF Rest

(* What is complete after one character more.                              *)
LEMMA CompletedAfter ==
  ASSUME TransformsText, NEW marks \in BOOLEAN, NEW s \in Text, NEW char \in Chars
  PROVE  Completed(marks, Append(s, char)) =
           IF char = NL THEN Completed(marks, s) \o (Marked(marks, Partial(s)) \o <<NL>>)
                        ELSE Completed(marks, s)
<1> DEFINE t == Append(s, char)
           w == Lines(marks, s)
           v == Lines(marks, t)
<1>1. /\ Len(s) \in Nat /\ t \in Text /\ Len(t) = Len(s) + 1 /\ t[Len(s) + 1] = char
      /\ \A j \in 1 .. Len(s) : t[j] = s[j]
  BY DEF Text
<1>2. \A i \in 1 .. Len(s) + 1 : LineUpTo(t, i) = LineUpTo(s, i)
  BY LineKept
<1> HIDE DEF t
<1>3. /\ w \in Seq(Text) /\ Len(w) = Len(s)
      /\ \A i \in 1 .. Len(s) :
           w[i] = IF s[i] = NL THEN Marked(marks, LineUpTo(s, i)) \o <<NL>> ELSE EmptyText
  BY LinesType
<1>4. /\ v \in Seq(Text) /\ Len(v) = Len(t)
      /\ \A i \in 1 .. Len(t) :
           v[i] = IF t[i] = NL THEN Marked(marks, LineUpTo(t, i)) \o <<NL>> ELSE EmptyText
  BY <1>1, LinesType
<1> HIDE DEF w, v
<1>5. ASSUME NEW i \in 1 .. Len(w)
      PROVE  v[i] = w[i]
  <2>1. i \in 1 .. Len(s) /\ i \in 1 .. Len(t) /\ i \in 1 .. Len(s) + 1
    BY <1>1, <1>3
  <2> QED
    BY <1>1, <1>2, <1>3, <1>4, <2>1
<1>6. v[Len(w) + 1] = IF char = NL THEN Marked(marks, Partial(s)) \o <<NL>> ELSE EmptyText
  <2>1. PICK e \in 1 .. Len(t) : e = Len(w) + 1 /\ e = Len(s) + 1 /\ e \in 1 .. Len(s) + 1
    BY <1>1, <1>3
  <2>2. v[e] = IF t[e] = NL THEN Marked(marks, LineUpTo(t, e)) \o <<NL>> ELSE EmptyText
    BY <1>4, <2>1
  <2>3. t[e] = char /\ LineUpTo(t, e) = Partial(s)
    BY <1>1, <1>2, <2>1 DEF Partial
  <2> QED
    BY <2>1, <2>2, <2>3
<1>7. FlattenSeq(v) = FlattenSeq(w) \o v[Len(w) + 1]
  BY <1>1, <1>3, <1>4, <1>5, FlattenOneMore DEF Text
<1>8. FlattenSeq(w) \o EmptyText = FlattenSeq(w)
  <2>1. FlattenSeq(w) \in Seq(Chars)
    BY <1>3, FlattenType DEF Text
  <2> QED
    BY <2>1, ConcatEmptySeq DEF EmptyText
<1> QED
  BY <1>6, <1>7, <1>8 DEF Completed, t, v, w

LEMMA NothingCompleted ==
  ASSUME TransformsText, NEW marks \in BOOLEAN
  PROVE  /\ EmptyText \in Text /\ Completed(marks, EmptyText) = EmptyText
         /\ Partial(EmptyText) = EmptyText
<1>1. EmptyText \in Text /\ Len(EmptyText) = 0
  BY DEF EmptyText, Text
<1>2. Lines(marks, EmptyText) \in Seq(Text) /\ Len(Lines(marks, EmptyText)) = 0
  BY <1>1, LinesType
<1>3. Lines(marks, EmptyText) = <<>>
  BY <1>2, EmptySeq
<1>4. Completed(marks, EmptyText) = EmptyText
  BY <1>3, FlattenEmpty DEF Completed, EmptyText
<1>5. Partial(EmptyText) = EmptyText
  <2>1. 1 \in 1 .. Len(EmptyText) + 1 /\ 1 = Len(EmptyText) + 1
    BY <1>1
  <2>2. Cut(EmptyText, 1) \in 0 .. 1 - 1
    BY <1>1, <2>1, CutBounds
  <2>3. Cut(EmptyText, 1) = 0
    BY <2>2
  <2>4. Partial(EmptyText) = SubSeq(EmptyText, 0 + 1, 1 - 1)
    BY <2>1, <2>3 DEF Partial, LineUpTo, Cut
  <2>5. SubSeq(EmptyText, 1, 0) = <<>>
    BY DEF EmptyText
  <2> QED
    BY <2>4, <2>5 DEF EmptyText
<1> QED
  BY <1>1, <1>4, <1>5

--------------------------------------------------------------------------------
(* The wire.                                                               *)
Event ==
  {BlockStart(i, "text") : i \in Nat} \cup {BlockStop(i) : i \in Nat}
    \cup {BlockDelta(i, "text", t) : i \in Nat, t \in Text}

Piece(e) == IF IsDelta(e) THEN e.text ELSE EmptyText

Pieces(w) == [p \in DOMAIN w |-> Piece(w[p])]

TextOf(w) == FlattenSeq(Pieces(w))

(* The blocks that were stopped.                                           *)
Stops(w) == {q \in 1 .. Len(w) : IsStop(w[q])} \ Repeats(w)

(* BlocksInTurn of any wire.                                               *)
InTurn(w) ==
  \A p \in DOMAIN w \ Repeats(w) :
    /\ w[p].index = StartIndex + Cardinality(StopsBefore(w, p))
    /\ IsStart(w[p]) <=> p = 1 \/ IsStop(w[p - 1])

(* A block is open on the wire.                                            *)
Open(w) == w # <<>> /\ ~IsStop(w[Len(w)])

LEMMA EventFacts ==
  ASSUME NEW e \in Event
  PROVE  e.index \in Nat /\ Piece(e) \in Text
<1>1. CASE e \in {BlockStart(i, "text") : i \in Nat}
  BY <1>1 DEF BlockStart, Piece, IsDelta, EmptyText, Text
<1>2. CASE e \in {BlockStop(i) : i \in Nat}
  BY <1>2 DEF BlockStop, Piece, IsDelta, EmptyText, Text
<1>3. CASE e \in {BlockDelta(i, "text", t) : i \in Nat, t \in Text}
  <2>1. PICK i \in Nat, t \in Text : e = BlockDelta(i, "text", t)
    BY <1>3
  <2> QED
    BY <2>1 DEF BlockDelta, Piece, IsDelta
<1> QED
  BY <1>1, <1>2, <1>3 DEF Event

LEMMA PiecesType ==
  ASSUME NEW w \in Seq(Event)
  PROVE  /\ Pieces(w) \in Seq(Text) /\ Len(Pieces(w)) = Len(w)
         /\ \A p \in 1 .. Len(w) : Pieces(w)[p] = Piece(w[p])
         /\ TextOf(w) \in Text
<1>1. Len(w) \in Nat /\ DOMAIN w = 1 .. Len(w) /\ \A p \in 1 .. Len(w) : w[p] \in Event
  OBVIOUS
<1>2. \A p \in 1 .. Len(w) : Piece(w[p]) \in Text
  BY <1>1, EventFacts
<1>3. Pieces(w) = [p \in 1 .. Len(w) |-> Piece(w[p])]
  BY <1>1 DEF Pieces
<1>4. /\ Pieces(w) \in Seq(Text) /\ Len(Pieces(w)) = Len(w)
      /\ \A p \in 1 .. Len(w) : Pieces(w)[p] = Piece(w[p])
  BY <1>1, <1>2, <1>3
<1>5. TextOf(w) \in Text
  BY <1>4, FlattenType DEF TextOf, Text
<1> QED
  BY <1>4, <1>5

LEMMA TextAppend ==
  ASSUME NEW w \in Seq(Event), NEW e \in Event
  PROVE  /\ Append(w, e) \in Seq(Event)
         /\ TextOf(Append(w, e)) = TextOf(w) \o Piece(e)
         /\ ~IsDelta(e) => TextOf(Append(w, e)) = TextOf(w)
<1> DEFINE v == Append(w, e)
<1>1. /\ v \in Seq(Event) /\ Len(v) = Len(w) + 1 /\ Len(w) \in Nat /\ v[Len(w) + 1] = e
      /\ \A p \in 1 .. Len(w) : v[p] = w[p]
  OBVIOUS
<1> HIDE DEF v
<1>2. /\ Pieces(w) \in Seq(Text) /\ Len(Pieces(w)) = Len(w)
      /\ \A p \in 1 .. Len(w) : Pieces(w)[p] = Piece(w[p])
      /\ TextOf(w) \in Text
  BY PiecesType
<1>3. /\ Pieces(v) \in Seq(Text) /\ Len(Pieces(v)) = Len(v)
      /\ \A p \in 1 .. Len(v) : Pieces(v)[p] = Piece(v[p])
  BY <1>1, PiecesType
<1>4. ASSUME NEW p \in 1 .. Len(Pieces(w))
      PROVE  Pieces(v)[p] = Pieces(w)[p]
  <2>1. p \in 1 .. Len(w) /\ p \in 1 .. Len(v)
    BY <1>1, <1>2
  <2> QED
    BY <1>1, <1>2, <1>3, <2>1
<1>5. Pieces(v)[Len(Pieces(w)) + 1] = Piece(e)
  <2>1. PICK p \in 1 .. Len(v) : p = Len(Pieces(w)) + 1 /\ p = Len(w) + 1
    BY <1>1, <1>2
  <2> QED
    BY <1>1, <1>3, <2>1
<1>6. FlattenSeq(Pieces(v)) = FlattenSeq(Pieces(w)) \o Pieces(v)[Len(Pieces(w)) + 1]
  <2>1. PICK x \in Seq(Seq(Chars)) : x = Pieces(w)
    BY <1>2 DEF Text
  <2>2. PICK y \in Seq(Seq(Chars)) : y = Pieces(v)
    BY <1>3 DEF Text
  <2>3. Len(y) = Len(x) + 1 /\ \A p \in 1 .. Len(x) : y[p] = x[p]
    BY <1>1, <1>2, <1>3, <1>4, <2>1, <2>2
  <2>4. FlattenSeq(y) = FlattenSeq(x) \o y[Len(x) + 1]
    BY <2>3, FlattenOneMore
  <2> QED
    BY <2>1, <2>2, <2>4
<1>7. TextOf(w) \o EmptyText = TextOf(w)
  BY <1>2, ConcatEmptySeq DEF Text, EmptyText
<1> QED
  BY <1>1, <1>5, <1>6, <1>7 DEF TextOf, v, Piece

LEMMA Counted ==
  ASSUME NEW w \in Seq(Event)
  PROVE  /\ IsFiniteSet(Stops(w)) /\ Cardinality(Stops(w)) \in Nat
         /\ IsFiniteSet(Repeats(w)) /\ Cardinality(Repeats(w)) \in Nat
<1>1. IsFiniteSet(1 .. Len(w)) /\ Stops(w) \subseteq 1 .. Len(w) /\ Repeats(w) \subseteq 1 .. Len(w)
  <2>1. IsFiniteSet(1 .. Len(w))
    BY FS_Interval
  <2> QED
    BY <2>1 DEF Stops, Repeats
<1>2. IsFiniteSet(Stops(w)) /\ IsFiniteSet(Repeats(w))
  BY <1>1, FS_Subset
<1> QED
  BY <1>2, FS_CardinalityType

(* The event e repeats the last one on the wire.                           *)
Again(w, e) == w # <<>> /\ ~IsDelta(e) /\ e = w[Len(w)]

(* What one event more does to the repeats, the stops and the events that  *)
(* were already in turn.                                                   *)
LEMMA WireAppend ==
  ASSUME NEW w \in Seq(Event), NEW e \in Event
  PROVE  /\ Repeats(Append(w, e)) = Repeats(w) \cup (IF Again(w, e) THEN {Len(w) + 1} ELSE {})
         /\ Stops(Append(w, e)) =
              Stops(w) \cup (IF IsStop(e) /\ ~Again(w, e) THEN {Len(w) + 1} ELSE {})
         /\ Len(w) + 1 \notin Repeats(w) /\ Len(w) + 1 \notin Stops(w)
         /\ \A p \in 1 .. Len(w) : StopsBefore(Append(w, e), p) = StopsBefore(w, p)
         /\ StopsBefore(Append(w, e), Len(w) + 1) = Stops(w)
         /\ Open(Append(w, e)) <=> ~IsStop(e)
<1> DEFINE v == Append(w, e)
<1>1. /\ v \in Seq(Event) /\ Len(v) = Len(w) + 1 /\ Len(w) \in Nat /\ v[Len(w) + 1] = e
      /\ \A p \in 1 .. Len(w) : v[p] = w[p]
      /\ v # <<>> /\ (w # <<>> <=> Len(w) # 0)
  OBVIOUS
<1> HIDE DEF v
<1>2. PICK n \in Nat : n = Len(w)
  BY <1>1
<1>3. Repeats(v) = Repeats(w) \cup (IF Again(w, e) THEN {n + 1} ELSE {})
  <2>1. ASSUME NEW p \in 2 .. n
        PROVE  p \in Repeats(v) <=> p \in Repeats(w)
    <3>1. p \in 1 .. Len(w) /\ p - 1 \in 1 .. Len(w) /\ p \in 2 .. Len(v) /\ p \in 2 .. Len(w)
      BY <1>1, <1>2
    <3>2. v[p] = w[p] /\ v[p - 1] = w[p - 1]
      BY <1>1, <3>1
    <3> QED
      BY <3>1, <3>2 DEF Repeats
  <2>2. n + 1 \in Repeats(v) <=> Again(w, e)
    <3>1. CASE n = 0
      BY <1>1, <1>2, <3>1 DEF Repeats, Again
    <3>2. CASE n # 0
      <4>1. n + 1 \in 2 .. Len(v) /\ (n + 1) - 1 = n /\ n \in 1 .. Len(w) /\ w # <<>>
        BY <1>1, <1>2, <3>2
      <4>2. v[n + 1] = e /\ v[n] = w[Len(w)]
        BY <1>1, <1>2, <4>1
      <4> QED
        BY <4>1, <4>2 DEF Repeats, Again
    <3> QED
      BY <3>1, <3>2
  <2>3. Repeats(v) \subseteq 2 .. n + 1 /\ Repeats(w) \subseteq 2 .. n
    BY <1>1, <1>2 DEF Repeats
  <2> QED
    BY <1>2, <2>1, <2>2, <2>3
<1>4. n + 1 \notin Repeats(w) /\ n + 1 \notin Stops(w)
  BY <1>2 DEF Repeats, Stops
<1>5. ASSUME NEW p \in 1 .. n + 1
      PROVE  StopsBefore(v, p) = {q \in 1 .. p - 1 : IsStop(w[q])} \ Repeats(w)
  <2>1. \A q \in 1 .. p - 1 : q \in 1 .. n /\ q # n + 1 /\ v[q] = w[q]
    BY <1>1, <1>2
  <2> QED
    BY <1>3, <2>1 DEF StopsBefore
<1>6. \A p \in 1 .. n : StopsBefore(v, p) = StopsBefore(w, p)
  BY <1>2, <1>5 DEF StopsBefore
<1>7. StopsBefore(v, n + 1) = Stops(w)
  <2>1. n + 1 \in 1 .. n + 1 /\ (n + 1) - 1 = n
    OBVIOUS
  <2> QED
    BY <1>2, <1>5, <2>1 DEF Stops
<1>8. Stops(v) = Stops(w) \cup (IF IsStop(e) /\ ~Again(w, e) THEN {n + 1} ELSE {})
  <2>1. {q \in 1 .. Len(v) : IsStop(v[q])} =
          {q \in 1 .. n : IsStop(w[q])} \cup (IF IsStop(e) THEN {n + 1} ELSE {})
    BY <1>1, <1>2
  <2> QED
    BY <1>2, <1>3, <1>4, <2>1 DEF Stops
<1>9. Open(v) <=> ~IsStop(e)
  BY <1>1 DEF Open
<1> QED
  BY <1>2, <1>3, <1>4, <1>6, <1>7, <1>8, <1>9 DEF v

LEMMA TurnAppend ==
  ASSUME NEW w \in Seq(Event), NEW e \in Event, InTurn(w),
         \/ Again(w, e)
         \/ e.index = StartIndex + Cardinality(Stops(w)) /\ (IsStart(e) <=> ~Open(w))
  PROVE  InTurn(Append(w, e))
<1> DEFINE v == Append(w, e)
<1>1. /\ v \in Seq(Event) /\ Len(v) = Len(w) + 1 /\ Len(w) \in Nat /\ v[Len(w) + 1] = e
      /\ \A p \in 1 .. Len(w) : v[p] = w[p]
      /\ DOMAIN w = 1 .. Len(w) /\ DOMAIN v = 1 .. Len(w) + 1 /\ v # <<>>
  OBVIOUS
<1>2. /\ Repeats(v) = Repeats(w) \cup (IF Again(w, e) THEN {Len(w) + 1} ELSE {})
      /\ \A p \in 1 .. Len(w) : StopsBefore(v, p) = StopsBefore(w, p)
      /\ StopsBefore(v, Len(w) + 1) = Stops(w)
  BY WireAppend
<1> HIDE DEF v
<1>3. PICK n \in Nat : n = Len(w)
  BY <1>1
<1>4. ASSUME NEW p \in DOMAIN v \ Repeats(v)
      PROVE  /\ v[p].index = StartIndex + Cardinality(StopsBefore(v, p))
             /\ IsStart(v[p]) <=> p = 1 \/ IsStop(v[p - 1])
  <2>1. CASE p \in 1 .. n
    <3>1. /\ p \in DOMAIN w \ Repeats(w) /\ v[p] = w[p] /\ (p # 1 => v[p - 1] = w[p - 1])
          /\ StopsBefore(v, p) = StopsBefore(w, p)
      BY <1>1, <1>2, <1>3, <2>1
    <3> QED
      BY <3>1 DEF InTurn
  <2>2. CASE p = n + 1
    <3>1. v[p] = e /\ p - 1 = Len(w) /\ ~Again(w, e) /\ StopsBefore(v, p) = Stops(w)
      BY <1>1, <1>2, <1>3, <2>2
    <3>2. Open(w) <=> ~(p = 1 \/ IsStop(v[p - 1]))
      <4>1. CASE p = 1
        <5>1. w = <<>>
          BY <1>1, <3>1, <4>1
        <5> QED
          BY <4>1, <5>1 DEF Open
      <4>2. CASE p # 1
        <5>1. w # <<>> /\ p - 1 \in 1 .. Len(w)
          BY <1>1, <1>3, <2>2, <4>2
        <5>2. v[p - 1] = w[Len(w)]
          BY <1>1, <3>1, <5>1
        <5> QED
          BY <4>2, <5>1, <5>2 DEF Open
      <4> QED
        BY <4>1, <4>2
    <3> QED
      BY <3>1, <3>2
  <2> QED
    BY <1>1, <1>3, <2>1, <2>2
<1> QED
  BY <1>4 DEF InTurn, v

--------------------------------------------------------------------------------
(* A call in progress.                                                     *)
Streamer ==
  [lineBuffer : Text, output : Text, blockIndex : Nat, blockStarted : BOOLEAN,
   publisher : BOOLEAN, transform : BOOLEAN]

Context == [ls : Streamer, wire : Seq(Event), left : Nat, leak : BOOLEAN, ok : BOOLEAN]

(* The streamer stands where the wire says: at the index after the blocks  *)
(* that were stopped, with a block open or not.  Or the wire is ahead of   *)
(* it by a start or a stop that is out though its send failed.             *)
Aligned(s, w) ==
  /\ s.blockIndex = StartIndex + Cardinality(Stops(w))
  /\ s.blockStarted <=> Open(w)

AheadStart(s, w) ==
  /\ w # <<>> /\ w[Len(w)] = BlockStart(s.blockIndex, "text")
  /\ ~s.blockStarted /\ s.blockIndex = StartIndex + Cardinality(Stops(w))

AheadStop(s, w) ==
  /\ w # <<>> /\ w[Len(w)] = BlockStop(s.blockIndex)
  /\ s.blockStarted /\ s.blockIndex + 1 = StartIndex + Cardinality(Stops(w))
  /\ s.lineBuffer = EmptyText

(* Every repeat, and an event ahead, is due to one of k such sends.        *)
InStep(s, w, k) ==
  /\ InTurn(w)
  /\ \/ Aligned(s, w) /\ Cardinality(Repeats(w)) <= k
     \/ (AheadStart(s, w) \/ AheadStop(s, w)) /\ Cardinality(Repeats(w)) + 1 <= k

LEMMA InStepFacts ==
  ASSUME NEW s, NEW w \in Seq(Event), NEW k \in Nat, InStep(s, w, k)
  PROVE  InTurn(w) /\ Cardinality(Repeats(w)) \in Nat /\ Cardinality(Repeats(w)) <= k
<1>1. Cardinality(Repeats(w)) \in Nat
  BY Counted
<1> QED
  BY <1>1 DEF InStep

LEMMA EmitOne ==
  ASSUME NEW c \in Context, NEW e \in Event, c.ok, NEW d, d = Emit(c, e)
  PROVE  /\ d \in Context /\ d.ls = c.ls
         /\ d.ok => d.wire = Append(c.wire, e)
         /\ ~d.ok => \/ Leaked(d) = 0 /\ d.wire = c.wire
                     \/ Leaked(d) = 1 /\ d.wire = Append(c.wire, e)
<1>1. c.left \in Nat /\ c.leak \in BOOLEAN /\ c.wire \in Seq(Event) /\ c.ok = TRUE
  BY DEF Context
<1>2. PICK v \in Seq(Event) : v = Append(c.wire, e)
  <2>1. Append(c.wire, e) \in Seq(Event)
    BY <1>1
  <2> QED
    BY <2>1
<1>3. CASE c.left > 0
  <2>1. d = [c EXCEPT !.wire = v, !.left = c.left - 1]
    BY <1>1, <1>2, <1>3 DEF Emit
  <2>2. c.left - 1 \in Nat
    BY <1>1, <1>3
  <2> QED
    BY <1>1, <1>2, <2>1, <2>2 DEF Context
<1>4. CASE c.left = 0
  <2>1. d = [c EXCEPT !.ok = FALSE, !.wire = IF c.leak THEN v ELSE c.wire]
    BY <1>1, <1>2, <1>4 DEF Emit
  <2>2. d \in Context /\ d.ls = c.ls /\ ~d.ok /\ d.leak = c.leak
        /\ d.wire = IF c.leak THEN v ELSE c.wire
    BY <1>1, <1>2, <2>1 DEF Context
  <2> QED
    BY <1>2, <2>2 DEF Leaked
<1> QED
  BY <1>1, <1>3, <1>4

(* The wire after a start, and after a stop, that is sent where it belongs *)
(* or sent again.                                                          *)
Started(c, e, v) ==
  /\ e \in Event /\ v \in Seq(Event) /\ v # <<>> /\ v[Len(v)] = e
  /\ InTurn(v) /\ Open(v) /\ TextOf(v) = TextOf(c.wire)
  /\ c.ls.blockIndex = StartIndex + Cardinality(Stops(v))
  /\ Cardinality(Repeats(v)) \in Nat /\ Cardinality(Repeats(v)) <= leaks

LEMMA StartAppended ==
  ASSUME NEW c \in Context, leaks \in Nat, ~c.ls.blockStarted, InStep(c.ls, c.wire, leaks),
         NEW e, e = BlockStart(c.ls.blockIndex, "text"), NEW v, v = Append(c.wire, e)
  PROVE  Started(c, e, v)
<1> DEFINE w == c.wire
<1> SUFFICES /\ e \in Event /\ v \in Seq(Event) /\ v # <<>> /\ v[Len(v)] = e
             /\ InTurn(v) /\ Open(v) /\ TextOf(v) = TextOf(c.wire)
             /\ c.ls.blockIndex = StartIndex + Cardinality(Stops(v))
             /\ Cardinality(Repeats(v)) \in Nat /\ Cardinality(Repeats(v)) <= leaks
  BY DEF Started
<1>1. c.ls \in Streamer /\ w \in Seq(Event) /\ c.ls.blockIndex \in Nat
  BY DEF Context, Streamer
<1>2. e \in Event /\ e.index = c.ls.blockIndex /\ IsStart(e) /\ ~IsStop(e) /\ ~IsDelta(e)
  BY <1>1 DEF Event, BlockStart, IsStart, IsStop, IsDelta
<1> HIDE DEF w
<1>3. v \in Seq(Event) /\ v # <<>> /\ v[Len(v)] = e /\ TextOf(v) = TextOf(w)
  <2>1. v \in Seq(Event) /\ v # <<>> /\ v[Len(v)] = e
    BY <1>1, <1>2 DEF w
  <2> QED
    BY <1>1, <1>2, <2>1, TextAppend DEF w
<1>4. /\ Repeats(v) = Repeats(w) \cup (IF Again(w, e) THEN {Len(w) + 1} ELSE {})
      /\ Stops(v) = Stops(w) \cup {} /\ Len(w) + 1 \notin Repeats(w) /\ Open(v)
  BY <1>1, <1>2, WireAppend DEF w
<1>5. /\ Cardinality(Repeats(w)) \in Nat /\ IsFiniteSet(Repeats(w)) /\ InTurn(w)
      /\ InStep(c.ls, w, leaks) /\ Stops(v) = Stops(w)
  BY <1>1, <1>4, Counted DEF InStep, w
<1>6. CASE Aligned(c.ls, w) /\ Cardinality(Repeats(w)) <= leaks
  <2>1. ~Open(w) /\ c.ls.blockIndex = StartIndex + Cardinality(Stops(w))
    BY <1>6 DEF Aligned
  <2>2. ~Again(w, e)
    BY <1>2, <2>1 DEF Again, Open
  <2>3. InTurn(v)
    BY <1>1, <1>2, <1>5, <2>1, TurnAppend DEF w
  <2> QED
    BY <1>2, <1>3, <1>4, <1>5, <1>6, <2>1, <2>2, <2>3 DEF w
<1>7. CASE AheadStart(c.ls, w) /\ Cardinality(Repeats(w)) + 1 <= leaks
  <2>1. Again(w, e) /\ c.ls.blockIndex = StartIndex + Cardinality(Stops(w))
    BY <1>2, <1>7 DEF AheadStart, Again
  <2>2. InTurn(v)
    BY <1>1, <1>2, <1>5, <2>1, TurnAppend DEF w
  <2>3. Cardinality(Repeats(v)) = Cardinality(Repeats(w)) + 1
    BY <1>4, <1>5, <2>1, FS_AddElement
  <2> QED
    BY <1>2, <1>3, <1>4, <1>5, <1>7, <2>1, <2>2, <2>3 DEF w
<1>8. ~AheadStop(c.ls, w)
  BY DEF AheadStop
<1> QED
  BY <1>5, <1>6, <1>7, <1>8 DEF InStep

LEMMA StopAppended ==
  ASSUME NEW c \in Context, leaks \in Nat, c.ls.blockStarted, InStep(c.ls, c.wire, leaks),
         NEW e, e = BlockStop(c.ls.blockIndex), NEW v, v = Append(c.wire, e)
  PROVE  /\ e \in Event /\ v \in Seq(Event) /\ v # <<>> /\ v[Len(v)] = e
         /\ InTurn(v) /\ ~Open(v) /\ TextOf(v) = TextOf(c.wire)
         /\ c.ls.blockIndex + 1 = StartIndex + Cardinality(Stops(v))
         /\ Cardinality(Repeats(v)) \in Nat /\ Cardinality(Repeats(v)) <= leaks
<1> DEFINE w == c.wire
<1>1. c.ls \in Streamer /\ w \in Seq(Event) /\ c.ls.blockIndex \in Nat /\ StartIndex \in Nat
  BY LineStreamerAssumption DEF Context, Streamer
<1>2. e \in Event /\ e.index = c.ls.blockIndex /\ ~IsStart(e) /\ IsStop(e) /\ ~IsDelta(e)
  BY <1>1 DEF Event, BlockStop, IsStart, IsStop, IsDelta
<1> HIDE DEF w
<1>3. v \in Seq(Event) /\ v # <<>> /\ v[Len(v)] = e /\ TextOf(v) = TextOf(w)
  <2>1. v \in Seq(Event) /\ v # <<>> /\ v[Len(v)] = e
    BY <1>1, <1>2 DEF w
  <2> QED
    BY <1>1, <1>2, <2>1, TextAppend DEF w
<1>4. /\ Repeats(v) = Repeats(w) \cup (IF Again(w, e) THEN {Len(w) + 1} ELSE {})
      /\ Stops(v) = Stops(w) \cup (IF ~Again(w, e) THEN {Len(w) + 1} ELSE {})
      /\ Len(w) + 1 \notin Repeats(w) /\ Len(w) + 1 \notin Stops(w) /\ ~Open(v)
  BY <1>1, <1>2, WireAppend DEF w
<1>5. /\ Cardinality(Repeats(w)) \in Nat /\ IsFiniteSet(Repeats(w)) /\ InTurn(w)
      /\ Cardinality(Stops(w)) \in Nat /\ IsFiniteSet(Stops(w)) /\ InStep(c.ls, w, leaks)
  BY <1>1, Counted DEF InStep, w
<1>6. CASE Aligned(c.ls, w) /\ Cardinality(Repeats(w)) <= leaks
  <2>1. Open(w) /\ c.ls.blockIndex = StartIndex + Cardinality(Stops(w))
    BY <1>6 DEF Aligned
  <2>2. ~Again(w, e)
    BY <1>2, <2>1 DEF Again, Open
  <2>3. InTurn(v)
    BY <1>1, <1>2, <1>5, <2>1, TurnAppend DEF w
  <2>4. Cardinality(Stops(v)) = Cardinality(Stops(w)) + 1
    BY <1>4, <1>5, <2>2, FS_AddElement
  <2>5. Repeats(v) = Repeats(w)
    BY <1>4, <2>2
  <2>6. c.ls.blockIndex + 1 = StartIndex + Cardinality(Stops(v))
    BY <1>1, <1>5, <2>1, <2>4
  <2> QED
    BY <1>2, <1>3, <1>4, <1>5, <1>6, <2>3, <2>5, <2>6 DEF w
<1>7. CASE AheadStop(c.ls, w) /\ Cardinality(Repeats(w)) + 1 <= leaks
  <2>1. Again(w, e) /\ c.ls.blockIndex + 1 = StartIndex + Cardinality(Stops(w))
    BY <1>2, <1>7 DEF AheadStop, Again
  <2>2. InTurn(v)
    BY <1>1, <1>2, <1>5, <2>1, TurnAppend DEF w
  <2>3. Cardinality(Repeats(v)) = Cardinality(Repeats(w)) + 1 /\ Stops(v) = Stops(w)
    <3>1. Repeats(v) = Repeats(w) \cup {Len(w) + 1} /\ Stops(v) = Stops(w)
      BY <1>4, <2>1
    <3>2. Cardinality(Repeats(w) \cup {Len(w) + 1}) = Cardinality(Repeats(w)) + 1
      BY <1>4, <1>5, FS_AddElement
    <3> QED
      BY <3>1, <3>2
  <2> QED
    BY <1>2, <1>3, <1>4, <1>5, <1>7, <2>1, <2>2, <2>3 DEF w
<1>8. ~AheadStart(c.ls, w)
  BY DEF AheadStart
<1> QED
  BY <1>5, <1>6, <1>7, <1>8 DEF InStep

(* The block of the streamer is opened.                                    *)
Opened(c, d) ==
  /\ d \in Context
  /\ \/ d.ok /\ d.ls = [c.ls EXCEPT !.blockStarted = TRUE] /\ Aligned(d.ls, d.wire)
     \/ ~d.ok /\ d.ls = c.ls
  /\ InStep(d.ls, d.wire, leaks + Leaked(d))
  /\ TextOf(d.wire) = TextOf(c.wire)

LEMMA BlockOpened ==
  ASSUME NEW c \in Context, c.ok, leaks \in Nat, ~c.ls.blockStarted, InStep(c.ls, c.wire, leaks),
         NEW open, open = Emit(c, BlockStart(c.ls.blockIndex, "text"))
  PROVE  Opened(c, [open EXCEPT !.ls.blockStarted = open.ok])
<1> DEFINE d == [open EXCEPT !.ls.blockStarted = open.ok]
<1>1. c.ls \in Streamer /\ c.wire \in Seq(Event) /\ c.ls.blockIndex \in Nat
  BY DEF Context, Streamer
<1>2. PICK e : e = BlockStart(c.ls.blockIndex, "text")
  OBVIOUS
<1>3. PICK v : v = Append(c.wire, e)
  OBVIOUS
<1>4. /\ e \in Event /\ v \in Seq(Event) /\ v # <<>> /\ v[Len(v)] = e
      /\ InTurn(v) /\ Open(v) /\ TextOf(v) = TextOf(c.wire)
      /\ c.ls.blockIndex = StartIndex + Cardinality(Stops(v))
      /\ Cardinality(Repeats(v)) \in Nat /\ Cardinality(Repeats(v)) <= leaks
  <2>1. Started(c, e, v)
    BY <1>2, <1>3, StartAppended
  <2> QED
    BY <2>1 DEF Started
<1>5. /\ open \in Context /\ open.ls = c.ls
      /\ open.ok => open.wire = v
      /\ ~open.ok => \/ Leaked(open) = 0 /\ open.wire = c.wire
                     \/ Leaked(open) = 1 /\ open.wire = v
  BY <1>2, <1>3, <1>4, EmitOne
<1>6. /\ d.ok = open.ok /\ d.leak = open.leak /\ d.wire = open.wire
      /\ d.ls = [c.ls EXCEPT !.blockStarted = open.ok] /\ d \in Context
  BY <1>1, <1>5 DEF Context, Streamer
<1> SUFFICES Opened(c, d)
  OBVIOUS
<1> HIDE DEF d
<1>7. Leaked(d) = Leaked(open)
  BY <1>6 DEF Leaked
<1>8. CASE open.ok
  <2>1. open.ok = TRUE /\ Leaked(d) = 0
    BY <1>5, <1>7, <1>8 DEF Context, Leaked
  <2>2. d.ls = [c.ls EXCEPT !.blockStarted = TRUE] /\ d.wire = v
    BY <1>5, <1>6, <2>1
  <2>3. d.ls.blockIndex = c.ls.blockIndex /\ d.ls.blockStarted = TRUE
    BY <1>1, <2>2 DEF Streamer
  <2>4. Aligned(d.ls, d.wire)
    BY <1>4, <2>2, <2>3 DEF Aligned
  <2>5. InStep(d.ls, d.wire, leaks + Leaked(d))
    BY <1>4, <2>1, <2>2, <2>4 DEF InStep
  <2>6. d.ok /\ d \in Context /\ TextOf(d.wire) = TextOf(c.wire)
    BY <1>4, <1>6, <1>8, <2>2
  <2> QED
    BY <2>2, <2>4, <2>5, <2>6, Zenon DEF Opened
<1>9. CASE ~open.ok
  <2>1. open.ok = FALSE
    BY <1>5, <1>9 DEF Context
  <2>2. d.ls = c.ls
    <3>1. c.ls.blockStarted = FALSE
      BY <1>1 DEF Streamer
    <3> QED
      BY <1>1, <1>6, <2>1, <3>1 DEF Streamer
  <2>3. CASE Leaked(open) = 0 /\ open.wire = c.wire
    <3>1. InStep(d.ls, d.wire, leaks + Leaked(d))
      <4>1. leaks + Leaked(d) = leaks
        BY <1>7, <2>3
      <4> QED
        BY <1>6, <2>2, <2>3, <4>1
    <3> QED
      BY <1>6, <2>1, <2>2, <2>3, <3>1 DEF Opened
  <2>4. CASE Leaked(open) = 1 /\ open.wire = v
    <3>1. d.wire = v /\ leaks + Leaked(d) = leaks + 1
      BY <1>6, <1>7, <2>4
    <3>2. AheadStart(d.ls, v)
      BY <1>2, <1>4, <2>2 DEF AheadStart
    <3>3. InStep(d.ls, d.wire, leaks + Leaked(d))
      BY <1>4, <3>1, <3>2 DEF InStep
    <3> QED
      BY <1>4, <1>6, <2>1, <2>2, <3>1, <3>3 DEF Opened
  <2> QED
    BY <1>5, <1>9, <2>3, <2>4
<1> QED
  BY <1>8, <1>9

--------------------------------------------------------------------------------
(* A call in progress belongs to this streamer.                            *)
Fit(c) ==
  /\ c \in Context /\ leaks \in Nat
  /\ c.ls.publisher = ls.publisher /\ c.ls.transform = ls.transform
  /\ InStep(c.ls, c.wire, leaks + Leaked(c))
  /\ ~ls.publisher => c.ok /\ c.wire = <<>>

LEMMA FitFacts ==
  ASSUME NEW c, Fit(c)
  PROVE  /\ c \in Context /\ c.ls \in Streamer /\ c.wire \in Seq(Event) /\ c.ok \in BOOLEAN
         /\ c.ls.lineBuffer \in Text /\ c.ls.output \in Text /\ TextOf(c.wire) \in Text
         /\ ls.transform \in BOOLEAN /\ ls.publisher \in BOOLEAN
         /\ Leaked(c) \in {0, 1} /\ (c.ok => Leaked(c) = 0)
         /\ c.ok => InStep(c.ls, c.wire, leaks)
         /\ ~c.ls.publisher => ~c.ls.blockStarted /\ Aligned(c.ls, c.wire)
<1>1. c \in Context /\ c.ls \in Streamer /\ c.wire \in Seq(Event) /\ c.ok \in BOOLEAN
  BY DEF Fit, Context
<1>2. c.ls.lineBuffer \in Text /\ c.ls.output \in Text
  BY <1>1 DEF Streamer
<1>3. ls.transform \in BOOLEAN /\ ls.publisher \in BOOLEAN
  BY <1>1 DEF Fit, Streamer
<1>4. TextOf(c.wire) \in Text
  BY <1>1, PiecesType
<1>5. Leaked(c) \in {0, 1} /\ (c.ok => Leaked(c) = 0)
  BY DEF Leaked
<1>6. c.ok => InStep(c.ls, c.wire, leaks)
  <2>1. ASSUME c.ok PROVE leaks + Leaked(c) = leaks
    BY <1>5, <2>1 DEF Fit
  <2> QED
    BY <2>1 DEF Fit
<1>7. ~c.ls.publisher => ~c.ls.blockStarted /\ Aligned(c.ls, c.wire)
  <2>1. ASSUME ~c.ls.publisher PROVE c.wire = <<>>
    BY <2>1 DEF Fit
  <2>2. ASSUME ~c.ls.publisher PROVE Aligned(c.ls, c.wire)
    BY <2>1, <2>2 DEF Fit, InStep, AheadStart, AheadStop
  <2> QED
    BY <2>1, <2>2 DEF Aligned, Open
<1> QED
  BY <1>1, <1>2, <1>3, <1>4, <1>5, <1>6, <1>7

(* What emitLine does: the text is in the output in any case, on the wire  *)
(* when the call goes on, and possibly when it does not.                   *)
Emitted(c, d, chunk) ==
  /\ d \in Context
  /\ d.ls.lineBuffer = c.ls.lineBuffer
  /\ d.ls.output = c.ls.output \o chunk
  /\ d.ls.publisher = c.ls.publisher /\ d.ls.transform = c.ls.transform
  /\ InStep(d.ls, d.wire, leaks + Leaked(d))
  /\ d.ok => Aligned(d.ls, d.wire)
  /\ ~c.ls.publisher => d.ok /\ d.wire = c.wire
  /\ c.ls.publisher =>
       IF d.ok THEN TextOf(d.wire) = TextOf(c.wire) \o chunk
       ELSE \/ TextOf(d.wire) = TextOf(c.wire)
            \/ Leaked(d) = 1 /\ TextOf(d.wire) = TextOf(c.wire) \o chunk

LEMMA LineEmitted ==
  ASSUME TransformsText, NEW c, Fit(c), c.ok, ~AheadStop(c.ls, c.wire),
         NEW line \in Text, NEW end \in {EmptyText, <<NL>>}
  PROVE  Emitted(c, emitLine(c, line, end), Marked(ls.transform, line) \o end)
<1> DEFINE chunk == rewritten(line) \o end
           added == [c EXCEPT !.ls.output = @ \o chunk]
           open  == IF c.ls.blockStarted THEN added
                    ELSE Emit(added, BlockStart(c.ls.blockIndex, "text"))
           begun == [open EXCEPT !.ls.blockStarted = open.ok]
           ready == IF c.ls.blockStarted THEN added ELSE begun
           e     == BlockDelta(c.ls.blockIndex, "text", chunk)
           sent  == Emit(ready, e)
           d     == emitLine(c, line, end)
<1>0. /\ c \in Context /\ c.ls \in Streamer /\ c.wire \in Seq(Event) /\ c.ls.blockIndex \in Nat
      /\ c.ls.output \in Text /\ leaks \in Nat /\ ls.transform \in BOOLEAN
      /\ c.ls.publisher = ls.publisher /\ InStep(c.ls, c.wire, leaks)
      /\ ~c.ls.publisher => ~c.ls.blockStarted /\ Aligned(c.ls, c.wire)
  BY FitFacts DEF Fit, Streamer
<1>1. chunk \in Text /\ chunk = Marked(ls.transform, line) \o end
  <2>1. rewritten(line) = Marked(ls.transform, line)
    BY Parameters
  <2> QED
    BY <1>0, <2>1, MarkedType
<1>2. d = IF ~ls.publisher THEN added ELSE sent
  BY DEF emitLine
<1> SUFFICES Emitted(c, d, chunk)
  BY <1>1
<1> HIDE DEF chunk, d
<1>3. /\ added \in Context /\ added.ok /\ added.wire = c.wire
      /\ added.ls = [c.ls EXCEPT !.output = c.ls.output \o chunk]
      /\ added.ls.output = c.ls.output \o chunk
      /\ added.ls.lineBuffer = c.ls.lineBuffer /\ added.ls.blockIndex = c.ls.blockIndex
      /\ added.ls.blockStarted = c.ls.blockStarted
      /\ added.ls.publisher = c.ls.publisher /\ added.ls.transform = c.ls.transform
  <2>1. c.ls.output \o chunk \in Text
    BY <1>0, <1>1 DEF Text
  <2> QED
    BY <1>0, <2>1 DEF Context, Streamer
<1>4. /\ InStep(added.ls, added.wire, leaks)
      /\ Aligned(c.ls, c.wire) => Aligned(added.ls, added.wire)
  BY <1>0, <1>3 DEF InStep, Aligned, AheadStart, AheadStop
<1> HIDE DEF added
<1>5. CASE ~ls.publisher
  <2>1. d = added
    BY <1>2, <1>5
  <2>2. leaks + Leaked(d) = leaks /\ Aligned(d.ls, d.wire)
    BY <1>0, <1>3, <1>4, <1>5, <2>1 DEF Leaked
  <2> QED
    BY <1>0, <1>3, <1>4, <1>5, <2>1, <2>2 DEF Emitted
<1>6. CASE ls.publisher
  <2>1. d = sent
    BY <1>2, <1>6
  <2>2. /\ ready \in Context /\ InStep(ready.ls, ready.wire, leaks + Leaked(ready))
        /\ TextOf(ready.wire) = TextOf(c.wire)
        /\ ready.ls.output = c.ls.output \o chunk /\ ready.ls.lineBuffer = c.ls.lineBuffer
        /\ ready.ls.publisher = c.ls.publisher /\ ready.ls.transform = c.ls.transform
        /\ ready.ls.blockIndex = c.ls.blockIndex
        /\ ready.ok => ready.ls.blockStarted /\ Aligned(ready.ls, ready.wire)
    <3>1. CASE c.ls.blockStarted
      <4>1. ready = added
        BY <3>1
      <4>2. Aligned(c.ls, c.wire)
        BY <1>0, <3>1 DEF InStep, AheadStart
      <4>3. leaks + Leaked(added) = leaks
        BY <1>0, <1>3 DEF Leaked
      <4> QED
        BY <1>3, <1>4, <3>1, <4>1, <4>2, <4>3
    <3>2. CASE ~c.ls.blockStarted
      <4>1. ready = begun /\ open = Emit(added, BlockStart(added.ls.blockIndex, "text"))
        BY <1>3, <3>2
      <4> HIDE DEF open
      <4>2. Opened(added, begun)
        BY <1>0, <1>3, <1>4, <3>2, <4>1, BlockOpened
      <4> HIDE DEF begun, ready
      <4>3. \/ begun.ls = [added.ls EXCEPT !.blockStarted = TRUE] /\ Aligned(begun.ls, begun.wire)
            \/ ~begun.ok /\ begun.ls = added.ls
        BY <4>2 DEF Opened
      <4>4. added.ls \in Streamer
        BY <1>3 DEF Context
      <4>5. /\ begun.ls.output = added.ls.output /\ begun.ls.lineBuffer = added.ls.lineBuffer
            /\ begun.ls.publisher = added.ls.publisher /\ begun.ls.transform = added.ls.transform
            /\ begun.ls.blockIndex = added.ls.blockIndex
            /\ begun.ok => begun.ls.blockStarted /\ Aligned(begun.ls, begun.wire)
        BY <4>3, <4>4 DEF Streamer
      <4>6. /\ begun \in Context /\ InStep(begun.ls, begun.wire, leaks + Leaked(begun))
            /\ TextOf(begun.wire) = TextOf(c.wire)
        BY <1>3, <4>2 DEF Opened
      <4> QED
        BY <1>3, <4>1, <4>5, <4>6
    <3> QED
      BY <3>1, <3>2
  <2> HIDE DEF ready
  <2>3. CASE ~ready.ok
    <3>1. sent = ready
      BY <2>3 DEF Emit
    <3> QED
      BY <1>0, <1>1, <1>6, <2>1, <2>2, <2>3, <3>1 DEF Emitted
  <2>4. CASE ready.ok
    <3>1. /\ e \in Event /\ e.index = c.ls.blockIndex /\ IsDelta(e) /\ Piece(e) = chunk
          /\ ~IsStart(e) /\ ~IsStop(e)
      <4>1. e \in Event
        BY <1>0, <1>1 DEF Event
      <4> QED
        BY <4>1 DEF BlockDelta, IsDelta, IsStart, IsStop, Piece
    <3> HIDE DEF e
    <3>2. ready.wire \in Seq(Event)
      BY <2>2 DEF Context
    <3>3. PICK v : v = Append(ready.wire, e)
      OBVIOUS
    <3>4. v \in Seq(Event) /\ TextOf(v) = TextOf(c.wire) \o chunk
      BY <2>2, <3>1, <3>2, <3>3, TextAppend
    <3>5. /\ InTurn(ready.wire) /\ Cardinality(Repeats(ready.wire)) \in Nat
          /\ Cardinality(Repeats(ready.wire)) <= leaks
      <4>1. leaks + Leaked(ready) = leaks
        BY <1>0, <2>4 DEF Leaked
      <4> QED
        BY <1>0, <2>2, <3>2, <4>1, InStepFacts
    <3>6. /\ InTurn(v) /\ Aligned(ready.ls, v) /\ Cardinality(Repeats(v)) \in Nat
          /\ Cardinality(Repeats(v)) <= leaks
      <4>1. /\ e.index = StartIndex + Cardinality(Stops(ready.wire))
            /\ Open(ready.wire) /\ (IsStart(e) <=> ~Open(ready.wire))
        BY <2>2, <2>4, <3>1 DEF Aligned
      <4>2. InTurn(v)
        BY <3>1, <3>2, <3>3, <3>5, <4>1, TurnAppend
      <4>3. ~Again(ready.wire, e)
        BY <3>1 DEF Again
      <4>4. Repeats(v) = Repeats(ready.wire) /\ Stops(v) = Stops(ready.wire) /\ Open(v)
        BY <3>1, <3>2, <3>3, <4>3, WireAppend
      <4>5. Aligned(ready.ls, v)
        BY <2>2, <2>4, <4>4 DEF Aligned
      <4> QED
        BY <3>5, <4>2, <4>4, <4>5
    <3>7. /\ sent \in Context /\ sent.ls = ready.ls
          /\ sent.ok => sent.wire = v
          /\ ~sent.ok => \/ Leaked(sent) = 0 /\ sent.wire = ready.wire
                         \/ Leaked(sent) = 1 /\ sent.wire = v
      BY <2>2, <2>4, <3>1, <3>3, EmitOne
    <3> HIDE DEF sent
    <3>8. sent.wire = v => InStep(sent.ls, sent.wire, leaks + Leaked(sent))
      <4>1. leaks + Leaked(sent) \in Nat /\ leaks <= leaks + Leaked(sent)
        BY <1>0 DEF Leaked
      <4> QED
        BY <1>0, <3>6, <3>7, <4>1 DEF InStep
    <3>9. InStep(sent.ls, sent.wire, leaks + Leaked(sent))
      <4>1. CASE sent.wire = v
        BY <3>8, <4>1
      <4>2. CASE ~sent.ok /\ Leaked(sent) = 0 /\ sent.wire = ready.wire
        <5>1. leaks + Leaked(sent) = leaks + Leaked(ready)
          BY <2>4, <4>2 DEF Leaked
        <5> QED
          BY <2>2, <3>7, <4>2, <5>1
      <4> QED
        BY <3>7, <4>1, <4>2
    <3>10. sent.ok => Aligned(sent.ls, sent.wire)
      BY <3>6, <3>7
    <3>11. IF sent.ok THEN TextOf(sent.wire) = TextOf(c.wire) \o chunk
           ELSE \/ TextOf(sent.wire) = TextOf(c.wire)
                \/ Leaked(sent) = 1 /\ TextOf(sent.wire) = TextOf(c.wire) \o chunk
      BY <2>2, <3>4, <3>7
    <3> QED
      BY <1>0, <1>6, <2>1, <2>2, <3>7, <3>9, <3>10, <3>11 DEF Emitted
  <2> QED
    BY <2>3, <2>4
<1> QED
  BY <1>5, <1>6

--------------------------------------------------------------------------------
(* Write's loop.  A call has handled g since the last Close.               *)
Handled(c, g) ==
  /\ c.ok => /\ c.ls.output = before \o Completed(ls.transform, g)
             /\ c.ls.lineBuffer = Partial(g)
             /\ ls.publisher => TextOf(c.wire) = c.ls.output
  /\ ~c.ok => /\ c.ls.lineBuffer = EmptyText
              /\ IsPrefix(TextOf(c.wire), before \o Completed(ls.transform, g))

(* While a call of Write goes on the wire is not ahead.                    *)
Straight(c) == Fit(c) /\ (c.ok => Aligned(c.ls, c.wire))

LEMMA EmittedFit ==
  ASSUME NEW c, Fit(c), NEW d, NEW chunk, Emitted(c, d, chunk)
  PROVE  Straight(d)
BY DEF Fit, Emitted, Straight

Held(c, t) == [c EXCEPT !.ls.lineBuffer = t]

LEMMA BufferFit ==
  ASSUME NEW c, Fit(c), c.ok, Aligned(c.ls, c.wire), NEW t \in Text, NEW d, d = Held(c, t)
  PROVE  /\ Fit(d) /\ d.ok /\ d.wire = c.wire /\ Aligned(d.ls, d.wire)
         /\ d.ls.lineBuffer = t /\ d.ls.output = c.ls.output
<1>1. c \in Context /\ c.ls \in Streamer /\ c.wire \in Seq(Event) /\ leaks \in Nat
  BY FitFacts DEF Fit
<1>2. /\ d \in Context /\ d.ok /\ d.wire = c.wire
      /\ d.ls = [c.ls EXCEPT !.lineBuffer = t]
  BY <1>1 DEF Context, Streamer, Held
<1>3. /\ d.ls.lineBuffer = t /\ d.ls.output = c.ls.output
      /\ d.ls.blockIndex = c.ls.blockIndex /\ d.ls.blockStarted = c.ls.blockStarted
      /\ d.ls.publisher = c.ls.publisher /\ d.ls.transform = c.ls.transform
  BY <1>1, <1>2 DEF Streamer
<1>4. Aligned(d.ls, d.wire)
  BY <1>2, <1>3 DEF Aligned
<1>5. InStep(d.ls, d.wire, leaks + Leaked(d))
  <2>1. leaks + Leaked(d) = leaks
    BY <1>1, <1>2 DEF Leaked
  <2>2. InTurn(c.wire) /\ Cardinality(Repeats(c.wire)) <= leaks
    BY <1>1, FitFacts, InStepFacts
  <2> QED
    BY <1>2, <1>4, <2>1, <2>2 DEF InStep
<1>6. Fit(d)
  BY <1>1, <1>2, <1>3, <1>5 DEF Fit
<1> QED
  BY <1>2, <1>3, <1>4, <1>6

LEMMA NotAhead ==
  ASSUME NEW s, NEW w, Aligned(s, w)
  PROVE  ~AheadStop(s, w)
<1> SUFFICES ASSUME AheadStop(s, w)
             PROVE  FALSE
  OBVIOUS
<1>1. Open(w) /\ IsStop(w[Len(w)])
  BY DEF Aligned, AheadStop, BlockStop, IsStop
<1> QED
  BY <1>1 DEF Open

LEMMA TakeFit ==
  ASSUME TransformsText, NEW c, Straight(c), NEW char \in Chars
  PROVE  Straight(take(c, char))
<1>0. Fit(c) /\ c.ls.lineBuffer \in Text
  BY FitFacts DEF Straight
<1>1. CASE ~c.ok
  BY <1>1 DEF take
<1>2. CASE c.ok /\ char # NL
  <2>1. take(c, char) = Held(c, Append(c.ls.lineBuffer, char))
    BY <1>2 DEF take, Held
  <2>2. Append(c.ls.lineBuffer, char) \in Text
    BY <1>0 DEF Text
  <2> QED
    BY <1>0, <1>2, <2>1, <2>2, BufferFit DEF Straight
<1>3. CASE c.ok /\ char = NL
  <2> DEFINE b == Held(c, EmptyText)
  <2>1. take(c, char) = emitLine(b, c.ls.lineBuffer, <<NL>>)
    BY <1>3 DEF take, Held
  <2>2. EmptyText \in Text
    BY DEF EmptyText, Text
  <2>3. Fit(b) /\ b.ok /\ Aligned(b.ls, b.wire)
    BY <1>0, <1>3, <2>2, BufferFit DEF Straight
  <2> HIDE DEF b
  <2>4. ~AheadStop(b.ls, b.wire)
    BY <2>3, NotAhead
  <2>5. Emitted(b, emitLine(b, c.ls.lineBuffer, <<NL>>),
                Marked(ls.transform, c.ls.lineBuffer) \o <<NL>>)
    BY <1>0, <2>3, <2>4, LineEmitted
  <2> QED
    BY <2>1, <2>3, <2>5, EmittedFit
<1> QED
  BY <1>1, <1>2, <1>3

LEMMA TakeHandled ==
  ASSUME TransformsText, NEW c, Straight(c), NEW char \in Chars, NEW g \in Text, before \in Text,
         Handled(c, g)
  PROVE  Handled(take(c, char), Append(g, char))
<1> DEFINE marks == ls.transform
           h == Append(g, char)
<1>0. Fit(c) /\ (c.ok => Aligned(c.ls, c.wire))
  BY DEF Straight
<1>1. /\ c \in Context /\ c.ls.lineBuffer \in Text /\ TextOf(c.wire) \in Text
      /\ c.ls.output \in Text /\ marks \in BOOLEAN /\ EmptyText \in Text
  BY <1>0, FitFacts DEF EmptyText, Text
<1>2. h \in Text /\ Completed(marks, g) \in Text /\ Completed(marks, h) \in Text
  <2>1. h \in Text
    BY DEF Text
  <2> HIDE DEF h
  <2> QED
    BY <1>1, <2>1, CompletedType
<1>3. /\ Partial(h) = IF char = NL THEN EmptyText ELSE Append(Partial(g), char)
      /\ Completed(marks, h) =
           IF char = NL THEN Completed(marks, g) \o (Marked(marks, Partial(g)) \o <<NL>>)
                        ELSE Completed(marks, g)
  BY <1>1, PartialAfter, CompletedAfter
<1> HIDE DEF h
<1>4. Marked(marks, Partial(g)) \o <<NL>> \in Text
  BY <1>1, PartialType, MarkedType
<1>5. ASSUME NEW w \in Text, IsPrefix(w, before \o Completed(marks, g))
      PROVE  IsPrefix(w, before \o Completed(marks, h))
  <2>1. CASE char # NL
    BY <1>3, <1>5, <2>1
  <2>2. CASE char = NL
    <3>1. PICK a \in Seq(Chars) : a = before
      BY DEF Text
    <3>2. PICK b \in Seq(Chars) : b = Completed(marks, g)
      BY <1>2 DEF Text
    <3>3. PICK m \in Seq(Chars) : m = Marked(marks, Partial(g)) \o <<NL>>
      BY <1>4 DEF Text
    <3>4. (a \o b) \o m = a \o (b \o m)
      BY JoinThree
    <3>5. w \in Seq(Chars) /\ IsPrefix(w, a \o b) /\ a \o b \in Seq(Chars)
      BY <1>5, <3>1, <3>2 DEF Text
    <3>6. IsPrefix(w, (a \o b) \o m)
      BY <3>5, PrefixGrows
    <3> QED
      BY <1>3, <2>2, <3>1, <3>2, <3>3, <3>4, <3>6
  <2> QED
    BY <2>1, <2>2
<1>6. CASE ~c.ok
  <2>1. take(c, char) = c
    BY <1>6 DEF take
  <2> QED
    BY <1>1, <1>5, <1>6, <2>1 DEF Handled, h
<1>7. CASE c.ok /\ char # NL
  <2>1. PICK d : d = Held(c, Append(c.ls.lineBuffer, char))
    OBVIOUS
  <2>t. take(c, char) = d
    BY <1>7, <2>1 DEF take, Held
  <2>2. Append(c.ls.lineBuffer, char) \in Text
    BY <1>1 DEF Text
  <2>3. /\ (d.ok <=> c.ok) /\ d.wire = c.wire /\ d.ls.output = c.ls.output
        /\ d.ls.lineBuffer = Append(c.ls.lineBuffer, char)
    <3>1. PICK t \in Text : t = Append(c.ls.lineBuffer, char)
      BY <2>2
    <3>2. d = Held(c, t)
      BY <2>1, <3>1
    <3>3. d.ok /\ d.wire = c.wire /\ d.ls.output = c.ls.output /\ d.ls.lineBuffer = t
      BY <1>0, <1>7, <3>2, BufferFit
    <3> QED
      BY <1>7, <3>1, <3>3
  <2>4. Handled(d, h)
    BY <1>3, <1>7, <2>3 DEF Handled
  <2> QED
    BY <2>t, <2>4 DEF h
<1>8. CASE c.ok /\ char = NL
  <2>b. PICK b : b = Held(c, EmptyText)
    OBVIOUS
  <2> DEFINE d == emitLine(b, c.ls.lineBuffer, <<NL>>)
  <2>1. take(c, char) = d
    BY <1>8, <2>b DEF take, Held
  <2>2. /\ Fit(b) /\ b.ok /\ b.wire = c.wire /\ Aligned(b.ls, b.wire)
        /\ b.ls.lineBuffer = EmptyText /\ b.ls.output = c.ls.output
    <3>1. EmptyText \in Text
      BY <1>1
    <3> QED
      BY <1>0, <1>8, <2>b, <3>1, BufferFit
  <2>3. b.ls.publisher = ls.publisher
    BY <2>2 DEF Fit
  <2>4. Emitted(b, d, Marked(marks, c.ls.lineBuffer) \o <<NL>>)
    BY <1>1, <2>2, NotAhead, LineEmitted
  <2> HIDE DEF d
  <2>5. /\ c.ls.output = before \o Completed(marks, g) /\ c.ls.lineBuffer = Partial(g)
        /\ ls.publisher => TextOf(c.wire) = c.ls.output
    BY <1>8 DEF Handled
  <2>6. (before \o Completed(marks, g)) \o (Marked(marks, Partial(g)) \o <<NL>>)
          = before \o Completed(marks, h)
    <3>1. PICK a \in Seq(Chars) : a = before
      BY DEF Text
    <3>2. PICK f \in Seq(Chars) : f = Completed(marks, g)
      BY <1>2 DEF Text
    <3>3. PICK m \in Seq(Chars) : m = Marked(marks, Partial(g)) \o <<NL>>
      BY <1>4 DEF Text
    <3>4. (a \o f) \o m = a \o (f \o m)
      BY JoinThree
    <3>5. Completed(marks, h) = f \o m
      BY <1>3, <1>8, <3>2, <3>3
    <3> QED
      BY <3>1, <3>2, <3>3, <3>4, <3>5
  <2>7. d.ls.output = before \o Completed(marks, h) /\ d.ls.lineBuffer = EmptyText
    BY <2>2, <2>4, <2>5, <2>6 DEF Emitted
  <2>8. CASE d.ok
    <3>1. ls.publisher => TextOf(d.wire) = d.ls.output
      BY <2>2, <2>3, <2>4, <2>5, <2>8 DEF Emitted
    <3>2. Handled(d, h)
      BY <1>3, <1>8, <2>7, <2>8, <3>1 DEF Handled
    <3> QED
      BY <2>1, <3>2 DEF h
  <2>9. CASE ~d.ok
    <3>1. /\ ls.publisher
          /\ \/ TextOf(d.wire) = TextOf(c.wire)
             \/ TextOf(d.wire) = TextOf(c.wire) \o (Marked(marks, c.ls.lineBuffer) \o <<NL>>)
      BY <2>2, <2>3, <2>4, <2>9 DEF Emitted
    <3>2. CASE TextOf(d.wire) = TextOf(c.wire)
      <4>1. IsPrefix(TextOf(c.wire), before \o Completed(marks, g))
        BY <1>1, <2>5, <3>1, PrefixSelf DEF Text
      <4>2. IsPrefix(TextOf(d.wire), before \o Completed(marks, h))
        BY <1>1, <1>5, <3>2, <4>1
      <4> QED
        BY <2>1, <2>7, <2>9, <4>2 DEF Handled, h
    <3>3. CASE TextOf(d.wire) = TextOf(c.wire) \o (Marked(marks, c.ls.lineBuffer) \o <<NL>>)
      <4>1. TextOf(d.wire) = before \o Completed(marks, h)
        BY <2>5, <2>6, <3>1, <3>3
      <4>2. before \o Completed(marks, h) \in Seq(Chars)
        BY <1>2 DEF Text
      <4>3. IsPrefix(TextOf(d.wire), before \o Completed(marks, h))
        BY <4>1, <4>2, PrefixSelf
      <4> QED
        BY <2>1, <2>7, <2>9, <4>3 DEF Handled, h
    <3> QED
      BY <3>1, <3>2, <3>3
  <2> QED
    BY <2>8, <2>9
<1> QED
  BY <1>6, <1>7, <1>8

(* The loop one character at a time.                                       *)
Folded(it, c, w) ==
  [s \in SUBSET DOMAIN w |->
     IF s = {} THEN c ELSE take(it[s \ {Max(s)}], w[Max(s)])]

LEMMA FoldValue ==
  ASSUME NEW c, NEW w
  PROVE  FoldLeft(take, c, w) = (CHOOSE it : it = Folded(it, c, w))[DOMAIN w]
BY DEF FoldLeft, MapThenFoldSet, Folded

LEMMA WriteFold ==
  ASSUME TransformsText, NEW c, Straight(c), NEW w \in Text
  PROVE  \E h \in [0 .. Len(w) -> {d \in Context : Straight(d)}] :
           /\ h[0] = c
           /\ \A i \in 1 .. Len(w) : h[i] = take(h[i - 1], w[i])
           /\ FoldLeft(take, c, w) = h[Len(w)]
<1> DEFINE n == Len(w)
           D == {d \in Context : Straight(d)}
           F == [i \in 1 .. n |-> [d \in D |-> take(d, w[i])]]
<1>1. n \in Nat /\ DOMAIN w = 1 .. n /\ \A i \in 1 .. n : w[i] \in Chars
  BY DEF Text
<1>2. c \in D
  BY FitFacts DEF Straight
<1>3. \A i \in 1 .. n, d \in D : take(d, w[i]) \in D
  <2> TAKE i \in 1 .. n, d \in D
  <2>1. Straight(take(d, w[i]))
    BY <1>1, TakeFit
  <2> QED
    BY <2>1, FitFacts DEF Straight
<1> HIDE DEF n, D
<1>4. F \in [1 .. n -> [D -> D]] /\ \A i \in 1 .. n, d \in D : F[i][d] = take(d, w[i])
  BY <1>3
<1> HIDE DEF F
<1>5. PICK it \in [SUBSET (1 .. n) -> D] : IsTable(it, n, F, c)
  BY <1>1, <1>2, <1>4, FoldTable
<1>6. it = Folded(it, c, w)
  <2>1. ASSUME NEW s \in SUBSET (1 .. n), s # {}
        PROVE  it[s] = take(it[s \ {Max(s)}], w[Max(s)])
    <3>1. s \subseteq 0 .. n
      BY <1>1
    <3>2. Max(s) \in 1 .. n
      BY <1>1, <2>1, <3>1, MaxOf
    <3>3. it[s \ {Max(s)}] \in D
      BY <1>5
    <3>4. it[s] = F[Max(s)][it[s \ {Max(s)}]]
      BY <1>5, <2>1 DEF IsTable
    <3> QED
      BY <1>4, <3>2, <3>3, <3>4
  <2>2. it[{}] = c /\ {} \in SUBSET (1 .. n)
    BY <1>5 DEF IsTable
  <2>3. \A s \in SUBSET (1 .. n) :
          it[s] = IF s = {} THEN c ELSE take(it[s \ {Max(s)}], w[Max(s)])
    BY <2>1, <2>2
  <2>4. it = [s \in SUBSET (1 .. n) |-> it[s]]
    BY <1>5
  <2> QED
    BY <1>1, <2>3, <2>4 DEF Folded
<1>7. PICK f : f = Folded(f, c, w) /\ FoldLeft(take, c, w) = f[DOMAIN w]
  BY <1>6, FoldValue
<1>8. \A s \in SUBSET (1 .. n) :
        f[s] = IF s = {} THEN c ELSE take(f[s \ {Max(s)}], w[Max(s)])
  <2>1. PICK g : g = Folded(f, c, w)
    OBVIOUS
  <2>2. \A s \in SUBSET (1 .. n) :
          g[s] = IF s = {} THEN c ELSE take(f[s \ {Max(s)}], w[Max(s)])
    BY <1>1, <2>1 DEF Folded
  <2>3. g = f
    BY <1>7, <2>1
  <2> QED
    BY <2>2, <2>3, Zenon
<1>9. f[1 .. 0] = c
  <2>1. 1 .. 0 = {} /\ {} \in SUBSET (1 .. n)
    OBVIOUS
  <2> QED
    BY <1>8, <2>1
<1>10. ASSUME NEW i \in 1 .. n
       PROVE  f[1 .. i] = take(f[1 .. i - 1], w[i])
  <2>1. BeginStep(n, i)
    BY <1>1, BeginSteps
  <2> QED
    BY <1>8, <2>1 DEF BeginStep
<1> DEFINE h == [i \in 0 .. n |-> f[1 .. i]]
           S == {i \in Nat : i <= n => f[1 .. i] \in D}
<1>11. S = Nat
  <2>1. 0 \in S
    BY <1>2, <1>9
  <2>2. ASSUME NEW i \in S
        PROVE  i + 1 \in S
    <3>1. i \in Nat /\ i + 1 \in Nat
      OBVIOUS
    <3>2. ASSUME i + 1 <= n
          PROVE  f[1 .. i + 1] \in D
      <4>1. i <= n /\ i + 1 \in 1 .. n /\ (i + 1) - 1 = i
        BY <1>1, <3>1, <3>2
      <4>2. f[1 .. i] \in D
        BY <4>1
      <4>3. f[1 .. i + 1] = take(f[1 .. i], w[i + 1])
        BY <1>10, <4>1
      <4> QED
        BY <1>3, <4>1, <4>2, <4>3
    <3> QED
      BY <3>1, <3>2
  <2>3. S \subseteq Nat
    OBVIOUS
  <2> HIDE DEF S
  <2> QED
    BY <2>1, <2>2, <2>3, SetInduction
<1>12. h \in [0 .. n -> D]
  BY <1>1, <1>11
<1>13. h[0] = c /\ h[n] = FoldLeft(take, c, w)
  BY <1>1, <1>7, <1>9
<1>14. \A i \in 1 .. n : h[i] = take(h[i - 1], w[i])
  BY <1>1, <1>10
<1> HIDE DEF h
<1> QED
  BY <1>12, <1>13, <1>14 DEF n, D

LEMMA WriteHandled ==
  ASSUME TransformsText, NEW c, Straight(c), given \in Text, before \in Text, Handled(c, given), NEW w \in Text,
         NEW d, d = FoldLeft(take, c, w)
  PROVE  Straight(d) /\ Handled(d, given \o w)
<1> DEFINE n == Len(w)
           D == {x \in Context : Straight(x)}
<1>1. PICK h \in [0 .. n -> D] :
        /\ h[0] = c
        /\ \A i \in 1 .. n : h[i] = take(h[i - 1], w[i])
        /\ FoldLeft(take, c, w) = h[n]
  BY WriteFold
<1>2. n \in Nat /\ w \in Seq(Chars) /\ given \in Seq(Chars)
  BY DEF Text
<1> HIDE DEF n
<1> DEFINE upto(i) == given \o SubSeq(w, 1, i)
           S == {i \in Nat : i <= n => Handled(h[i], upto(i))}
<1>3. S = Nat
  <2>1. 0 \in S
    <3>1. upto(0) = given
      <4>1. SubSeq(w, 1, 0) = <<>>
        BY <1>2, PrefixEnds
      <4> QED
        BY <1>2, <4>1, ConcatEmptySeq
    <3> HIDE DEF upto
    <3> QED
      BY <1>1, <3>1
  <2>2. ASSUME NEW i \in S
        PROVE  i + 1 \in S
    <3>1. i \in Nat /\ i + 1 \in Nat
      OBVIOUS
    <3>2. ASSUME i + 1 <= n
          PROVE  Handled(h[i + 1], upto(i + 1))
      <4>1. i <= n /\ i \in 0 .. n /\ i + 1 \in 1 .. n /\ (i + 1) - 1 = i /\ i < n
        BY <1>2, <3>1, <3>2
      <4>2. Straight(h[i]) /\ Handled(h[i], upto(i))
        BY <1>1, <4>1
      <4>3. h[i + 1] = take(h[i], w[i + 1])
        BY <1>1, <4>1
      <4>4. SubSeq(w, 1, i + 1) = Append(SubSeq(w, 1, i), w[i + 1]) /\ SubSeq(w, 1, i) \in Seq(Chars)
            /\ w[i + 1] \in Chars
        BY <1>2, <3>1, <4>1, PrefixStep DEF n
      <4>5. upto(i + 1) = Append(upto(i), w[i + 1]) /\ upto(i) \in Text
        <5>1. PICK a \in Seq(Chars) : a = SubSeq(w, 1, i)
          BY <4>4
        <5>2. given \o Append(a, w[i + 1]) = Append(given \o a, w[i + 1]) /\ given \o a \in Seq(Chars)
          BY <1>2, <4>4, JoinAppend
        <5> QED
          BY <4>4, <5>1, <5>2 DEF Text
      <4> HIDE DEF upto
      <4> QED
        BY <4>2, <4>3, <4>4, <4>5, TakeHandled
    <3> HIDE DEF upto
    <3> QED
      BY <3>1, <3>2
  <2>3. S \subseteq Nat
    OBVIOUS
  <2> HIDE DEF S
  <2> QED
    BY <2>1, <2>2, <2>3, SetInduction
<1>4. n \in S /\ n <= n
  BY <1>2, <1>3
<1>5. Handled(h[n], upto(n))
  BY <1>4
<1>6. upto(n) = given \o w
  BY <1>2, PrefixEnds DEF n
<1>7. Straight(h[n])
  BY <1>1, <1>2
<1> HIDE DEF upto
<1> QED
  BY <1>1, <1>5, <1>6, <1>7

(* Stopping the block says no text.                                        *)
LEMMA BlockStopped ==
  ASSUME NEW c, Fit(c), c.ok => c.ls.lineBuffer = EmptyText, NEW d, d = stopBlock(c)
  PROVE  /\ Fit(d) /\ (d.ok => c.ok) /\ TextOf(d.wire) = TextOf(c.wire)
         /\ d.ls.lineBuffer = c.ls.lineBuffer /\ d.ls.output = c.ls.output
         /\ ~c.ok => d = c
         /\ d.ok /\ Aligned(c.ls, c.wire) => Aligned(d.ls, d.wire)
<1>1. /\ c \in Context /\ c.ls \in Streamer /\ c.wire \in Seq(Event) /\ c.ok \in BOOLEAN
      /\ ~c.ls.publisher => ~c.ls.blockStarted
  BY FitFacts
<1>2. /\ c.ls.blockIndex \in Nat /\ c.ls.publisher = ls.publisher /\ c.ls.transform = ls.transform
      /\ leaks \in Nat
  BY <1>1 DEF Streamer, Fit
<1>3. CASE ~c.ok \/ ~c.ls.blockStarted
  <2>1. d = c
    BY <1>3 DEF stopBlock
  <2> QED
    BY <2>1
<1>4. CASE c.ok /\ c.ls.blockStarted
  <2>0. ls.publisher /\ c.ls.lineBuffer = EmptyText /\ InStep(c.ls, c.wire, leaks)
    BY <1>1, <1>2, <1>4, FitFacts
  <2>e. PICK e : e = BlockStop(c.ls.blockIndex)
    OBVIOUS
  <2>v. PICK v : v = Append(c.wire, e)
    OBVIOUS
  <2>1. /\ e \in Event /\ v \in Seq(Event) /\ v # <<>> /\ v[Len(v)] = e
        /\ InTurn(v) /\ ~Open(v) /\ TextOf(v) = TextOf(c.wire)
        /\ c.ls.blockIndex + 1 = StartIndex + Cardinality(Stops(v))
        /\ Cardinality(Repeats(v)) \in Nat /\ Cardinality(Repeats(v)) <= leaks
    BY <1>1, <1>2, <1>4, <2>0, <2>e, <2>v, StopAppended
  <2>s. PICK stopped : stopped = Emit(c, e)
    OBVIOUS
  <2>2. d = IF ~stopped.ok THEN stopped
            ELSE [stopped EXCEPT !.ls.blockStarted = FALSE, !.ls.blockIndex = @ + 1]
    BY <1>4, <2>0, <2>e, <2>s DEF stopBlock
  <2>3. /\ stopped \in Context /\ stopped.ls = c.ls
        /\ stopped.ok => stopped.wire = v
        /\ ~stopped.ok => \/ Leaked(stopped) = 0 /\ stopped.wire = c.wire
                          \/ Leaked(stopped) = 1 /\ stopped.wire = v
    BY <1>1, <1>4, <2>1, <2>s, <2>v, EmitOne
  <2>4. CASE ~stopped.ok
    <3>1. d = stopped
      BY <2>2, <2>4
    <3>2. TextOf(d.wire) = TextOf(c.wire)
      BY <2>1, <2>3, <2>4, <3>1
    <3>3. InStep(d.ls, d.wire, leaks + Leaked(d))
      <4>1. CASE Leaked(d) = 0 /\ d.wire = c.wire
        <5>1. leaks + Leaked(d) = leaks
          BY <1>2, <4>1
        <5> QED
          BY <2>0, <2>3, <3>1, <4>1, <5>1
      <4>2. CASE Leaked(d) = 1 /\ d.wire = v
        <5>1. AheadStop(d.ls, v)
          BY <1>4, <2>0, <2>1, <2>3, <2>e, <3>1 DEF AheadStop
        <5>2. leaks + Leaked(d) = leaks + 1
          BY <4>2
        <5> QED
          BY <1>2, <2>1, <4>2, <5>1, <5>2 DEF InStep
      <4> QED
        BY <2>3, <2>4, <3>1, <4>1, <4>2
    <3>4. Fit(d)
      BY <1>2, <2>0, <2>3, <3>1, <3>3 DEF Fit
    <3> QED
      BY <1>4, <2>3, <2>4, <3>1, <3>2, <3>4
  <2>5. CASE stopped.ok
    <3>1. d = [stopped EXCEPT !.ls.blockStarted = FALSE, !.ls.blockIndex = @ + 1]
      BY <2>2, <2>5
    <3>2. stopped.ls \in Streamer /\ c.ls.blockIndex + 1 \in Nat
      BY <1>1, <1>2, <2>3
    <3>3. /\ d \in Context /\ d.wire = stopped.wire /\ d.ok = stopped.ok
          /\ d.ls = [c.ls EXCEPT !.blockStarted = FALSE, !.blockIndex = c.ls.blockIndex + 1]
      <4>1. PICK x : x = [c.ls EXCEPT !.blockStarted = FALSE, !.blockIndex = c.ls.blockIndex + 1]
        OBVIOUS
      <4>2. x \in Streamer
        BY <1>1, <3>2, <4>1 DEF Streamer
      <4>3. d = [stopped EXCEPT !.ls = x]
        <5>1. PICK y \in Streamer : y = c.ls /\ y = stopped.ls
          BY <1>1, <2>3
        <5>2. d = [stopped EXCEPT !.ls = [y EXCEPT !.blockStarted = FALSE, !.blockIndex = y.blockIndex + 1]]
          BY <2>3, <3>1, <5>1 DEF Context, Streamer
        <5> QED
          BY <4>1, <5>1, <5>2
      <4>4. d \in Context /\ d.wire = stopped.wire /\ d.ok = stopped.ok /\ d.ls = x
        BY <2>3, <4>2, <4>3 DEF Context
      <4> QED
        BY <4>1, <4>4
    <3>4. /\ d.ls.blockStarted = FALSE /\ d.ls.blockIndex = c.ls.blockIndex + 1
          /\ d.ls.lineBuffer = c.ls.lineBuffer /\ d.ls.output = c.ls.output
          /\ d.ls.publisher = c.ls.publisher /\ d.ls.transform = c.ls.transform
      BY <1>1, <3>3 DEF Streamer
    <3>5. d.wire = v /\ leaks + Leaked(d) = leaks
      BY <1>2, <2>3, <2>5, <3>3 DEF Leaked
    <3>6. Aligned(d.ls, d.wire)
      BY <2>1, <3>4, <3>5 DEF Aligned
    <3>7. InStep(d.ls, d.wire, leaks + Leaked(d))
      BY <2>1, <3>5, <3>6 DEF InStep
    <3>8. Fit(d)
      BY <1>2, <2>0, <3>3, <3>4, <3>7 DEF Fit
    <3> QED
      BY <1>4, <2>1, <3>4, <3>5, <3>6, <3>8
  <2> QED
    BY <2>4, <2>5
<1> QED
  BY <1>1, <1>3, <1>4

(* Close sends the partial line and forgets it, or keeps it.               *)
Flushed(c, d, rest) ==
  /\ d.ok => /\ d.ls.lineBuffer = EmptyText /\ d.ls.output = c.ls.output \o rest
             /\ ls.publisher => TextOf(d.wire) = TextOf(c.wire) \o rest
  /\ ~d.ok => /\ d.ls.lineBuffer = c.ls.lineBuffer
              /\ \/ TextOf(d.wire) = TextOf(c.wire)
                 \/ Leaked(d) = 1 /\ TextOf(d.wire) = TextOf(c.wire) \o rest

LEMMA LineFlushed ==
  ASSUME TransformsText, NEW c, Fit(c), c.ok, NEW d, d = flush(c), NEW rest,
         rest = IF c.ls.lineBuffer = EmptyText THEN EmptyText
                ELSE Marked(ls.transform, c.ls.lineBuffer)
  PROVE  /\ Fit(d) /\ Flushed(c, d, rest)
         /\ d.ok /\ Aligned(c.ls, c.wire) => Aligned(d.ls, d.wire)
         /\ c.ls.lineBuffer = EmptyText => d = c
<1>1. /\ c.ls.lineBuffer \in Text /\ TextOf(c.wire) \in Text /\ c.ls.output \in Text
      /\ ls.transform \in BOOLEAN /\ EmptyText \in Text
  BY FitFacts DEF EmptyText, Text
<1>2. CASE c.ls.lineBuffer = EmptyText
  <2>1. d = c /\ rest = EmptyText
    BY <1>2 DEF flush
  <2>2. c.ls.output \o EmptyText = c.ls.output /\ TextOf(c.wire) \o EmptyText = TextOf(c.wire)
    BY <1>1, ConcatEmptySeq DEF Text, EmptyText
  <2> QED
    BY <1>2, <2>1, <2>2 DEF Flushed
<1>3. CASE c.ls.lineBuffer # EmptyText
  <2> DEFINE line == c.ls.lineBuffer
             sent == emitLine(c, line, EmptyText)
  <2>1. rest = Marked(ls.transform, line)
    BY <1>3
  <2>2. d = IF sent.ok THEN Held(sent, EmptyText) ELSE sent
    BY <1>3 DEF flush, Held
  <2>3. ~AheadStop(c.ls, c.wire) /\ c.ls.publisher = ls.publisher
    BY <1>3 DEF AheadStop, Fit
  <2>4. Emitted(c, sent, Marked(ls.transform, line) \o EmptyText)
    BY <1>1, <2>3, LineEmitted
  <2>5. Emitted(c, sent, rest)
    BY <1>1, <2>1, <2>4, MarkedType
  <2> HIDE DEF sent, line
  <2>6. Fit(sent) /\ (sent.ok => Aligned(sent.ls, sent.wire))
    BY <2>5, EmittedFit DEF Straight
  <2>7. CASE sent.ok
    <3>1. d = Held(sent, EmptyText)
      BY <2>2, <2>7
    <3>2. /\ Fit(d) /\ d.ok /\ d.wire = sent.wire /\ Aligned(d.ls, d.wire)
          /\ d.ls.lineBuffer = EmptyText /\ d.ls.output = sent.ls.output
      <4>1. EmptyText \in Text
        BY <1>1
      <4> QED
        BY <2>6, <2>7, <3>1, <4>1, BufferFit
    <3>3. sent.ls.output = c.ls.output \o rest /\ (ls.publisher => TextOf(sent.wire) = TextOf(c.wire) \o rest)
      BY <2>3, <2>5, <2>7 DEF Emitted
    <3> QED
      BY <1>3, <2>7, <3>2, <3>3 DEF Flushed
  <2>8. CASE ~sent.ok
    <3>1. d = sent
      BY <2>2, <2>8
    <3>2. /\ sent.ls.lineBuffer = c.ls.lineBuffer
          /\ \/ TextOf(sent.wire) = TextOf(c.wire)
             \/ Leaked(sent) = 1 /\ TextOf(sent.wire) = TextOf(c.wire) \o rest
      BY <2>3, <2>5, <2>8 DEF Emitted
    <3> QED
      BY <1>3, <2>6, <2>8, <3>1, <3>2 DEF Flushed
  <2> QED
    BY <2>7, <2>8
<1> QED
  BY <1>2, <1>3

--------------------------------------------------------------------------------
(* A text that comes n times.                                              *)
LEMMA TimesText ==
  ASSUME NEW n \in Nat, NEW t \in Text
  PROVE  /\ Times(n, t) \in Text /\ Times(n + 1, t) = Times(n, t) \o t
         /\ Times(0, t) = EmptyText
<1> DEFINE w == [i \in 1 .. n |-> t]
           v == [i \in 1 .. n + 1 |-> t]
           u == [i \in 1 .. 0 |-> t]
<1>1. /\ w \in Seq(Seq(Chars)) /\ Len(w) = n /\ v \in Seq(Seq(Chars)) /\ Len(v) = Len(w) + 1
      /\ \A i \in 1 .. Len(w) : v[i] = w[i]
      /\ v[Len(w) + 1] = t
  BY DEF Text
<1>2. u \in Seq(Seq(Chars)) /\ Len(u) = 0
  BY DEF Text
<1> HIDE DEF w, v, u
<1>3. FlattenSeq(v) = FlattenSeq(w) \o t /\ FlattenSeq(w) \in Seq(Chars)
  BY <1>1, FlattenOneMore, FlattenType
<1>4. FlattenSeq(u) = <<>>
  <2>1. u = <<>>
    BY <1>2, EmptySeq
  <2> QED
    BY <2>1, FlattenEmpty
<1> QED
  BY <1>3, <1>4 DEF Times, w, v, u, Text, EmptyText

--------------------------------------------------------------------------------
(* The inductive invariant.  After a failure two cases are left: the       *)
(* partial line is still held and was sent by nothing but failed sends, or *)
(* nothing is held, and either the line before it went missing in a Write  *)
(* or the partial line was sent and forgotten.                             *)
LTypeOK ==
  /\ ls \in Streamer /\ wire \in Seq(Event) /\ failed \in BOOLEAN /\ leaks \in Nat
  /\ given \in Text /\ before \in Text

Running ==
  /\ ls.output = before \o Completed(ls.transform, given)
  /\ ls.lineBuffer = Partial(given)
  /\ ls.publisher => TextOf(wire) = ls.output
  /\ Aligned(ls, wire)

Sent(n) ==
  TextOf(wire) = before \o Completed(ls.transform, given) \o Times(n, Rest(ls.transform, given))

Stuck ==
  \/ ls.lineBuffer = Partial(given) /\ \E n \in 0 .. leaks : Sent(n)
  \/ /\ ls.lineBuffer = EmptyText
     /\ \/ IsPrefix(TextOf(wire), before \o Completed(ls.transform, given))
        \/ \E n \in 0 .. leaks + 1 : Sent(n)

LInv ==
  /\ LTypeOK
  /\ InStep(ls, wire, leaks)
  /\ ~ls.publisher => wire = <<>> /\ ~failed
  /\ ~failed => Running
  /\ failed => Stuck

LEMMA InvInit ==
  ASSUME TransformsText
  PROVE  LInit => LInv
<1> SUFFICES ASSUME LInit PROVE LInv
  OBVIOUS
<1>1. EmptyText \in Text /\ StartIndex \in Nat
  BY LineStreamerAssumption DEF EmptyText, Text
<1>2. LTypeOK /\ ls.transform \in BOOLEAN
  <2>1. ls \in Streamer
    BY <1>1 DEF LInit, Streamer
  <2>2. /\ wire \in Seq(Event) /\ failed \in BOOLEAN /\ leaks \in Nat
        /\ given \in Text /\ before \in Text
    <3>1. <<>> \in Seq(Event) /\ 0 \in Nat
      OBVIOUS
    <3> QED
      BY <1>1, <3>1, Zenon DEF LInit
  <2> QED
    BY <2>1, <2>2 DEF LTypeOK, Streamer
<1>3. wire \in Seq(Event) /\ wire = <<>> /\ Len(wire) = 0 /\ leaks = 0
  BY DEF LInit
<1>4. TextOf(wire) = EmptyText
  <2>1. Pieces(wire) \in Seq(Text) /\ Len(Pieces(wire)) = 0
    BY <1>3, PiecesType
  <2>2. Pieces(wire) = <<>>
    BY <2>1, EmptySeq
  <2> QED
    BY <2>2, FlattenEmpty DEF TextOf, EmptyText
<1>5. InStep(ls, wire, leaks) /\ Aligned(ls, wire)
  <2>1. Stops(wire) = {} /\ Repeats(wire) = {}
    BY <1>3 DEF Stops, Repeats
  <2>2. Cardinality(Stops(wire)) = 0 /\ Cardinality(Repeats(wire)) = 0
    BY <2>1, FS_EmptySet
  <2>3. InTurn(wire)
    BY <1>3 DEF InTurn
  <2>4. ~Open(wire)
    BY <1>3 DEF Open
  <2>5. ls.blockIndex = StartIndex /\ ~ls.blockStarted
    BY DEF LInit
  <2>6. Aligned(ls, wire)
    BY <1>1, <2>2, <2>4, <2>5 DEF Aligned
  <2> QED
    BY <1>3, <2>2, <2>3, <2>6 DEF InStep
<1>6. Running
  <2>1. /\ Completed(ls.transform, EmptyText) = EmptyText /\ Partial(EmptyText) = EmptyText
    BY <1>2, NothingCompleted
  <2>2. EmptyText \o EmptyText = EmptyText
    BY DEF EmptyText
  <2>3. ls.output = EmptyText /\ ls.lineBuffer = EmptyText /\ given = EmptyText /\ before = EmptyText
    BY DEF LInit
  <2> QED
    BY <1>4, <1>5, <2>1, <2>2, <2>3 DEF Running
<1> QED
  BY <1>2, <1>3, <1>5, <1>6 DEF LInv, LInit

(* A call begins where the last one left off.                              *)
LEMMA BeginFit ==
  ASSUME LInv, NEW left \in Nat, NEW leak \in BOOLEAN
  PROVE  /\ Fit(Begin(left, leak)) /\ Begin(left, leak).ok
         /\ Begin(left, leak).ls = ls /\ Begin(left, leak).wire = wire
         /\ ~failed => Straight(Begin(left, leak)) /\ Handled(Begin(left, leak), given)
<1> DEFINE c == Begin(left, leak)
<1>1. c.ok = TRUE /\ c.ls = ls /\ c.wire = wire /\ c \in Context
  BY DEF Begin, Context, LInv, LTypeOK
<1> HIDE DEF c
<1>2. Fit(c)
  <2>1. leaks \in Nat /\ leaks + Leaked(c) = leaks
    BY <1>1 DEF LInv, LTypeOK, Leaked
  <2> QED
    BY <1>1, <2>1 DEF Fit, LInv
<1>3. ASSUME ~failed
      PROVE  Straight(c) /\ Handled(c, given)
  <2>1. Running
    BY <1>3 DEF LInv
  <2>2. c.ok
    BY <1>1
  <2> QED
    BY <1>1, <1>2, <2>1, <2>2 DEF Straight, Handled, Running
<1>4. c.ok
  BY <1>1
<1> QED
  BY <1>1, <1>2, <1>3, <1>4 DEF c

LEMMA InvWrite ==
  ASSUME TransformsText, LInv, NEW chunk \in Chunks, NEW left \in Nat, NEW leak \in BOOLEAN,
         Write(chunk, left, leak)
  PROVE  LInv'
<1> DEFINE c == FoldLeft(take, Begin(left, leak), chunk)
<1>1. /\ ls' = c.ls /\ wire' = c.wire /\ (failed' <=> ~c.ok) /\ given' = given \o chunk
      /\ before' = before /\ ~failed /\ failed' \in BOOLEAN /\ leaks' = leaks + Leaked(c)
  BY DEF Write, Returns
<1>2. given \in Text /\ before \in Text /\ chunk \in Text /\ ls \in Streamer /\ leaks \in Nat
  BY ChunkText DEF LInv, LTypeOK
<1>3. Straight(c) /\ Handled(c, given \o chunk)
  BY <1>1, <1>2, BeginFit, WriteHandled
<1> HIDE DEF c
<1>4. /\ c \in Context /\ c.ls \in Streamer /\ c.wire \in Seq(Event) /\ Leaked(c) \in {0, 1}
      /\ TextOf(c.wire) \in Text /\ ls.transform \in BOOLEAN
  BY <1>3, FitFacts DEF Straight
<1>5. given \o chunk \in Text
  BY <1>2 DEF Text
<1>6. LTypeOK'
  BY <1>1, <1>2, <1>4, <1>5 DEF LTypeOK
<1>7. /\ ls'.publisher = ls.publisher /\ ls'.transform = ls.transform
      /\ InStep(c.ls, c.wire, leaks')
      /\ ~ls.publisher => c.ok /\ c.wire = <<>>
  BY <1>1, <1>3 DEF Straight, Fit
<1>8. InStep(ls, wire, leaks)'
  <2>1. InStep(ls', wire', leaks')
    BY <1>1, <1>7
  <2> QED
    BY <2>1 DEF InStep
<1>9. ASSUME ~failed'
      PROVE  Running'
  <2>1. c.ok
    BY <1>1, <1>9
  <2>2. /\ ls'.output = before' \o Completed(ls'.transform, given')
        /\ ls'.lineBuffer = Partial(given')
        /\ ls'.publisher => TextOf(wire') = ls'.output
        /\ Aligned(ls', wire')
    BY <1>1, <1>3, <1>7, <2>1 DEF Handled, Straight
  <2> QED
    BY <2>2 DEF Running
<1>10. ASSUME failed'
       PROVE  Stuck'
  <2>1. ~c.ok
    BY <1>1, <1>10
  <2>2. /\ c.ls.lineBuffer = EmptyText
        /\ IsPrefix(TextOf(c.wire), before \o Completed(ls.transform, given \o chunk))
    BY <1>3, <2>1 DEF Handled
  <2>3. /\ ls'.lineBuffer = EmptyText
        /\ IsPrefix(TextOf(wire'), before' \o Completed(ls'.transform, given'))
    BY <1>1, <1>7, <2>2
  <2> QED
    BY <2>3 DEF Stuck
<1>11. ~ls'.publisher => wire' = <<>> /\ ~failed'
  BY <1>1, <1>7
<1> QED
  BY <1>6, <1>8, <1>9, <1>10, <1>11 DEF LInv

LEMMA InvClose ==
  ASSUME TransformsText, LInv, NEW left \in Nat, NEW leak \in BOOLEAN, Close(left, leak)
  PROVE  LInv'
<1> DEFINE b == Begin(left, leak)
           f == flush(b)
           c == stopBlock(f)
           m == ls.transform
           sofar == before \o Completed(m, given)
           rest == IF ls.lineBuffer = EmptyText THEN EmptyText ELSE Marked(m, ls.lineBuffer)
<1>1. /\ ls' = c.ls /\ wire' = c.wire /\ (failed' <=> failed \/ ~c.ok) /\ failed' \in BOOLEAN
      /\ leaks' = leaks + Leaked(c)
      /\ IF c.ok /\ ~failed THEN before' = before \o Whole(given) /\ given' = EmptyText
         ELSE before' = before /\ given' = given
  BY DEF Close, Returns, LInv, LTypeOK
<1>2. Fit(b) /\ b.ok /\ b.ls = ls /\ b.wire = wire
  BY BeginFit
<1>3. /\ Fit(f) /\ Flushed(b, f, rest) /\ (f.ok => f.ls.lineBuffer = EmptyText)
      /\ f.ok /\ Aligned(ls, wire) => Aligned(f.ls, f.wire)
      /\ ls.lineBuffer = EmptyText => f = b
  <2>1. /\ Fit(f) /\ Flushed(b, f, rest)
        /\ f.ok /\ Aligned(b.ls, b.wire) => Aligned(f.ls, f.wire)
        /\ b.ls.lineBuffer = EmptyText => f = b
    BY <1>2, LineFlushed
  <2> QED
    BY <1>2, <2>1 DEF Flushed
<1>4. /\ Fit(c) /\ (c.ok => f.ok) /\ TextOf(c.wire) = TextOf(f.wire)
      /\ c.ls.lineBuffer = f.ls.lineBuffer /\ c.ls.output = f.ls.output
      /\ ~f.ok => c = f
      /\ c.ok /\ Aligned(f.ls, f.wire) => Aligned(c.ls, c.wire)
  BY <1>3, BlockStopped
<1> HIDE DEF b, f, c
<1>5. /\ given \in Text /\ before \in Text /\ ls \in Streamer /\ failed \in BOOLEAN
      /\ TextOf(wire) \in Text /\ m \in BOOLEAN /\ EmptyText \in Text /\ leaks \in Nat
  BY <1>2, FitFacts DEF LInv, LTypeOK, EmptyText, Text
<1>6. Completed(m, given) \in Text /\ Rest(m, given) \in Text /\ sofar \in Text
  <2>1. Completed(m, given) \in Text /\ Rest(m, given) \in Text
    BY <1>5, CompletedType
  <2> QED
    BY <1>5, <2>1 DEF Text
<1>7. before \o Whole(given) = sofar \o Rest(m, given) /\ before \o Whole(given) \in Text
  <2>1. PICK x \in Seq(Chars) : x = before
    BY <1>5 DEF Text
  <2>2. PICK y \in Seq(Chars) : y = Completed(m, given)
    BY <1>6 DEF Text
  <2>3. PICK z \in Seq(Chars) : z = Rest(m, given)
    BY <1>6 DEF Text
  <2>4. (x \o y) \o z = x \o (y \o z) /\ x \o (y \o z) \in Seq(Chars)
    BY JoinThree
  <2>5. Whole(given) = y \o z
    BY <2>2, <2>3, Parameters
  <2> QED
    BY <2>1, <2>2, <2>3, <2>4, <2>5 DEF Text
<1>9. /\ c \in Context /\ c.ls \in Streamer /\ c.wire \in Seq(Event) /\ TextOf(c.wire) \in Text
      /\ c.ls.publisher = ls.publisher /\ c.ls.transform = m /\ InStep(c.ls, c.wire, leaks')
      /\ ~ls.publisher => c.ok /\ c.wire = <<>>
      /\ Leaked(c) \in {0, 1}
  BY <1>1, <1>4, FitFacts DEF Fit
<1>k. PICK k \in Nat : k = leaks + Leaked(c) /\ leaks <= k /\ k + 1 \in Nat
  BY <1>5, <1>9
<1>l. leaks' = k
  BY <1>1, <1>k
<1>10. before' \in Text /\ given' \in Text
  BY <1>1, <1>5, <1>7
<1>11. LTypeOK'
  BY <1>1, <1>9, <1>10, <1>k, <1>l DEF LTypeOK
<1>12. InStep(ls, wire, leaks)'
  <2>1. InStep(ls', wire', leaks')
    BY <1>1, <1>9
  <2> QED
    BY <2>1 DEF InStep
<1>13. ls'.publisher = ls.publisher /\ ls'.transform = m
  BY <1>1, <1>9
<1>14. ~ls'.publisher => wire' = <<>> /\ ~failed'
  BY <1>1, <1>9, <1>13 DEF LInv
<1> HIDE DEF sofar, rest
<1>15. ls.lineBuffer = Partial(given) => rest = Rest(m, given)
  BY DEF rest, Rest
<1>16. /\ c.ok => /\ c.ls.lineBuffer = EmptyText /\ c.ls.output = ls.output \o rest
                  /\ ls.publisher => TextOf(c.wire) = TextOf(wire) \o rest
       /\ f.ok => c.ls.lineBuffer = EmptyText /\ (ls.publisher => TextOf(c.wire) = TextOf(wire) \o rest)
       /\ ~f.ok => /\ c.ls.lineBuffer = ls.lineBuffer
                   /\ \/ TextOf(c.wire) = TextOf(wire)
                      \/ Leaked(c) = 1 /\ TextOf(c.wire) = TextOf(wire) \o rest
  BY <1>2, <1>3, <1>4 DEF Flushed
<1>17. ASSUME ~failed'
       PROVE  Running'
  <2>1. c.ok /\ ~failed /\ Running
    BY <1>1, <1>17 DEF LInv
  <2>2. before' = before \o Whole(given) /\ given' = EmptyText
    BY <1>1, <2>1
  <2>3. ls'.output = before' /\ ls'.lineBuffer = EmptyText
    BY <1>1, <1>7, <1>15, <1>16, <2>1, <2>2 DEF Running, sofar
  <2>4. ls'.publisher => TextOf(wire') = ls'.output
    BY <1>1, <1>13, <1>16, <2>1 DEF Running
  <2>5. before' \o EmptyText = before'
    BY <1>10, ConcatEmptySeq DEF Text, EmptyText
  <2>6. Completed(m, EmptyText) = EmptyText /\ Partial(EmptyText) = EmptyText
    BY <1>5, NothingCompleted
  <2>7. /\ ls'.output = before' \o Completed(ls'.transform, given')
        /\ ls'.lineBuffer = Partial(given')
    BY <1>13, <2>2, <2>3, <2>5, <2>6
  <2>8. Aligned(ls', wire')
    BY <1>1, <1>3, <1>4, <2>1 DEF Running
  <2> QED
    BY <2>4, <2>7, <2>8 DEF Running
<1>18. ASSUME failed'
       PROVE  Stuck'
  <2> DEFINE At(w, n) == w = sofar \o Times(n, Rest(m, given))
  <2>1. before' = before /\ given' = given /\ ls.publisher
    BY <1>1, <1>9, <1>18 DEF LInv
  <2>2. \A w, n : At(w, n) <=> w = before \o Completed(m, given) \o Times(n, Rest(m, given))
    BY DEF sofar
  <2>3. ASSUME NEW n \in Nat, NEW w, At(w, n)
        PROVE  At(w \o Rest(m, given), n + 1)
    <3>1. PICK x \in Seq(Chars) : x = sofar
      BY <1>6 DEF Text
    <3>2. PICK z \in Seq(Chars) : z = Rest(m, given)
      BY <1>6 DEF Text
    <3>3. PICK y \in Seq(Chars) : y = Times(n, Rest(m, given))
      BY <1>6, TimesText DEF Text
    <3>4. Times(n + 1, Rest(m, given)) = y \o z
      BY <1>6, <3>2, <3>3, TimesText
    <3>5. (x \o y) \o z = x \o (y \o z)
      BY JoinThree
    <3> QED
      BY <2>3, <3>1, <3>2, <3>3, <3>4, <3>5
  <2>4. \/ ls.lineBuffer = Partial(given) /\ \E n \in 0 .. leaks : At(TextOf(wire), n)
        \/ /\ ls.lineBuffer = EmptyText
           /\ \/ IsPrefix(TextOf(wire), sofar)
              \/ \E n \in 0 .. leaks + 1 : At(TextOf(wire), n)
    <3>1. CASE failed
      BY <3>1 DEF LInv, Stuck, Sent, sofar
    <3>2. CASE ~failed
      <4>1. TextOf(wire) = sofar /\ ls.lineBuffer = Partial(given)
        BY <2>1, <3>2 DEF LInv, Running, sofar
      <4>2. sofar \o EmptyText = sofar
        BY <1>6, ConcatEmptySeq DEF Text, EmptyText
      <4>3. At(TextOf(wire), 0)
        BY <1>6, <4>1, <4>2, TimesText
      <4> QED
        BY <1>5, <4>1, <4>3
    <3> QED
      BY <3>1, <3>2
  <2>5. \A n : At(TextOf(c.wire), n) <=> Sent(n)'
    BY <1>1, <1>13, <2>1 DEF Sent, sofar
  <2>6. IsPrefix(TextOf(c.wire), sofar) <=>
          IsPrefix(TextOf(wire'), before' \o Completed(ls'.transform, given'))
    BY <1>1, <1>13, <2>1 DEF sofar
  <2> HIDE DEF At
  <2>7. CASE ls.lineBuffer = Partial(given) /\ \E n \in 0 .. leaks : At(TextOf(wire), n)
    <3>1. PICK n \in 0 .. leaks : At(TextOf(wire), n)
      BY <2>7
    <3>2. n \in Nat /\ n + 1 \in 0 .. leaks + 1 /\ rest = Rest(m, given)
      BY <1>5, <1>15, <2>7, <3>1
    <3>3. At(TextOf(wire) \o rest, n + 1)
      BY <2>3, <3>1, <3>2
    <3>4. CASE f.ok
      <4>1. ls'.lineBuffer = EmptyText /\ At(TextOf(c.wire), n + 1)
        BY <1>1, <1>16, <2>1, <3>3, <3>4
      <4>2. n + 1 \in 0 .. k + 1
        BY <1>5, <1>k, <3>2
      <4> QED
        BY <1>l, <2>5, <4>1, <4>2 DEF Stuck
    <3>5. CASE ~f.ok
      <4>1. ls'.lineBuffer = Partial(given')
        BY <1>1, <1>16, <2>1, <2>7, <3>5
      <4>2. CASE TextOf(c.wire) = TextOf(wire)
        <5>1. n \in 0 .. k /\ At(TextOf(c.wire), n)
          BY <1>5, <1>k, <3>1, <4>2
        <5> QED
          BY <1>l, <2>5, <4>1, <5>1 DEF Stuck
      <4>3. CASE Leaked(c) = 1 /\ TextOf(c.wire) = TextOf(wire) \o rest
        <5>1. n + 1 \in 0 .. k /\ At(TextOf(c.wire), n + 1)
          BY <1>k, <3>2, <3>3, <4>3
        <5> QED
          BY <1>l, <2>5, <4>1, <5>1 DEF Stuck
      <4> QED
        BY <1>16, <3>5, <4>2, <4>3
    <3> QED
      BY <3>4, <3>5
  <2>8. CASE /\ ls.lineBuffer = EmptyText
             /\ \/ IsPrefix(TextOf(wire), sofar)
                \/ \E n \in 0 .. leaks + 1 : At(TextOf(wire), n)
    <3>1. f = b /\ TextOf(c.wire) = TextOf(wire) /\ ls'.lineBuffer = EmptyText
      BY <1>1, <1>2, <1>3, <1>4, <2>8
    <3>2. CASE IsPrefix(TextOf(wire), sofar)
      BY <2>6, <3>1, <3>2 DEF Stuck
    <3>3. CASE \E n \in 0 .. leaks + 1 : At(TextOf(wire), n)
      <4>1. PICK n \in 0 .. leaks + 1 : At(TextOf(wire), n)
        BY <3>3
      <4>2. n \in 0 .. k + 1
        BY <1>5, <1>k, <4>1
      <4> QED
        BY <1>l, <2>5, <3>1, <4>1, <4>2 DEF Stuck
    <3> QED
      BY <2>8, <3>2, <3>3
  <2> QED
    BY <2>4, <2>7, <2>8
<1> QED
  BY <1>11, <1>12, <1>14, <1>17, <1>18 DEF LInv

LEMMA InvStep ==
  ASSUME TransformsText
  PROVE  LInv /\ [LNext]_lvars => LInv'
<1> SUFFICES ASSUME LInv, [LNext]_lvars PROVE LInv'
  OBVIOUS
<1>1. ASSUME NEW leak \in BOOLEAN, NEW left \in 0 .. 3, Close(left, leak)
      PROVE  LInv'
  BY <1>1, InvClose
<1>2. ASSUME NEW leak \in BOOLEAN, NEW chunk \in Chunks, NEW left \in 0 .. Len(chunk) + 1,
             Write(chunk, left, leak)
      PROVE  LInv'
  <2>1. left \in Nat
    BY ChunkText DEF Text
  <2> QED
    BY <1>2, <2>1, InvWrite
<1>3. CASE UNCHANGED lvars
  <2>1. LTypeOK' /\ InStep(ls, wire, leaks)'
    BY <1>3 DEF LInv, LTypeOK, InStep, Aligned, AheadStart, AheadStop, lvars
  <2>2. (Running <=> Running') /\ (Stuck <=> Stuck')
    BY <1>3 DEF Running, Stuck, Sent, Aligned, lvars
  <2> QED
    BY <1>3, <2>1, <2>2 DEF LInv, lvars
<1> QED
  BY <1>1, <1>2, <1>3 DEF LNext

(* What holds of every reachable state of the streamer, whichever sends    *)
(* failed and whichever of those got out: the three properties below are   *)
(* read off it.                                                            *)
THEOREM LineInvariant ==
  ASSUME TransformsText
  PROVE  LSpec => []LInv
<1>1. LInit => LInv
  BY InvInit
<1>2. LInv /\ [LNext]_lvars => LInv'
  BY InvStep
<1> QED
  BY <1>1, <1>2, PTL DEF LSpec

(* For every transform and every way to cut an input into chunks: as long  *)
(* as no call failed, what Write and Close put out is the transformed      *)
(* lines of the whole input, and exactly its partial line is held          *)
(* (LineStreamer.Write, streamer.go).                                      *)
THEOREM ChunkingCannotBeSeen ==
  ASSUME TransformsText
  PROVE  LSpec => []ChunkingInvisible
<1>1. LInv => ChunkingInvisible
  BY Parameters DEF LInv, Running, ChunkingInvisible
<1> QED
  BY <1>1, LineInvariant, PTL

(* For any transform, any chunks and any failures, also of sends whose     *)
(* event got out: no complete line reaches the client twice, out of order  *)
(* or after a missing one, and the partial line at the end comes again at  *)
(* most once for each failed send that got out (LineStreamer.Close,        *)
(* streamer.go).                                                           *)
THEOREM LinesOnTheWireOnce ==
  ASSUME TransformsText
  PROVE  LSpec => []WireOnce
<1>1. WireText = TextOf(wire)
  BY DEF WireText, TextOf, Pieces, Piece
<1>2. ASSUME LInv, ls.publisher
      PROVE  /\ ~failed => WireText = ls.output
             /\ \/ IsPrefix(WireText, before \o Complete(given))
                \/ \E n \in 0 .. leaks + 1 :
                     WireText = before \o Complete(given) \o Times(n, Trailing(given))
  <2>1. /\ before \in Text /\ given \in Text /\ ls.transform \in BOOLEAN /\ leaks \in Nat
    BY <1>2 DEF LInv, LTypeOK, Streamer
  <2>2. Complete(given) = Completed(ls.transform, given) /\ Trailing(given) = Rest(ls.transform, given)
    BY Parameters
  <2>3. CASE ~failed
    <3>1. WireText = ls.output /\ WireText = before \o Complete(given)
      BY <1>1, <1>2, <2>2, <2>3 DEF LInv, Running
    <3>2. before \o Complete(given) \in Seq(Chars)
      BY <2>1, <2>2, CompletedType DEF Text
    <3> QED
      BY <3>1, <3>2, PrefixSelf
  <2>4. CASE failed
    <3>1. Stuck
      BY <1>2, <2>4 DEF LInv
    <3>2. 0 .. leaks \subseteq 0 .. leaks + 1
      BY <2>1
    <3> QED
      BY <1>1, <2>2, <2>4, <3>1, <3>2 DEF Stuck, Sent
  <2> QED
    BY <2>3, <2>4
<1>3. LInv => WireOnce
  BY <1>2 DEF WireOnce
<1> QED
  BY <1>3, LineInvariant, PTL

(* For any transform, any chunks and any failures: the blocks of the       *)
(* streamer follow one another, each at the index after the one that was   *)
(* stopped, and none is started while one is open; a start or stop comes   *)
(* again at most once for each failed send that got out (emitLine and      *)
(* Close, streamer.go).                                                    *)
THEOREM BlocksFollowInTurn ==
  ASSUME TransformsText
  PROVE  LSpec => []BlocksInTurn
<1>1. ASSUME LInv
      PROVE  BlocksInTurn
  <2>1. InTurn(wire) /\ Cardinality(Repeats(wire)) <= leaks
    BY <1>1, InStepFacts DEF LInv, LTypeOK
  <2> QED
    BY <2>1 DEF InTurn, BlocksInTurn
<1> QED
  BY <1>1, LineInvariant, PTL
===============================================================================
