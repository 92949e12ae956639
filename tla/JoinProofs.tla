------------------------------ MODULE JoinProofs ------------------------------
(***************************************************************************)
(* Lemmas about FlattenSeq of SequencesExt, with which texts put together  *)
(* from pieces are written: it distributes over Append and \o.             *)
(***************************************************************************)
EXTENDS SequencesExt, Integers, SequenceTheorems, WellFoundedInduction, FiniteSetTheorems, TLAPS

(* A set of naturals that is not empty has a least element, and one that   *)
(* holds zero and every successor is Nat.                                  *)
LEMMA LeastOf ==
  ASSUME NEW S, S \subseteq Nat, S # {}
  PROVE  \E x \in S : \A y \in S : x <= y
<1>1. IsWellFoundedOn(OpToRel(<, Nat), Nat)
  BY NatLessThanWellFounded
<1>2. PICK x \in S : \A y \in S : ~(<<y, x>> \in OpToRel(<, Nat))
  BY <1>1, WFMin
<1>3. ASSUME NEW y \in S
      PROVE  x <= y
  <2>1. x \in Nat /\ y \in Nat
    BY <1>2
  <2>2. ~(<<y, x>> \in OpToRel(<, Nat))
    BY <1>2
  <2>3. ~(y < x)
    BY <2>1, <2>2 DEF OpToRel
  <2> QED
    BY <2>1, <2>3
<1> QED
  BY <1>3

LEMMA SetInduction ==
  ASSUME NEW S, S \subseteq Nat, 0 \in S, \A n \in S : n + 1 \in S
  PROVE  S = Nat
<1> SUFFICES ASSUME Nat \ S # {}
             PROVE  FALSE
  OBVIOUS
<1>1. PICK x \in Nat \ S : \A y \in Nat \ S : x <= y
  BY LeastOf
<1>2. x \in Nat /\ x \notin S /\ x # 0 /\ x - 1 \in Nat /\ ~(x <= x - 1)
  BY <1>1
<1>3. x - 1 \in S
  BY <1>1, <1>2
<1>4. (x - 1) + 1 \in S
  BY <1>3
<1> QED
  BY <1>2, <1>4

--------------------------------------------------------------------------------
(* The function FlattenSeq computes with, and what it joins.               *)
Flattened(f, w) ==
  [i \in 1 .. Len(w) |-> IF i = 1 THEN w[i] ELSE f[i - 1] \o w[i]]

IsFlat(f, w) == f = Flattened(f, w)

LEMMA FlattenValue ==
  ASSUME NEW w, Len(w) # 0
  PROVE  FlattenSeq(w) = (CHOOSE f : IsFlat(f, w))[Len(w)]
BY DEF FlattenSeq, IsFlat, Flattened

LEMMA FlatSteps ==
  ASSUME NEW w, NEW f
  PROVE  IsFlat(f, w) <=>
           /\ f = [i \in 1 .. Len(w) |-> f[i]]
           /\ \A i \in 1 .. Len(w) : f[i] = IF i = 1 THEN w[i] ELSE f[i - 1] \o w[i]
<1> DEFINE h == Flattened(f, w)
<1>1. /\ h = [i \in 1 .. Len(w) |-> h[i]]
      /\ \A i \in 1 .. Len(w) : h[i] = IF i = 1 THEN w[i] ELSE f[i - 1] \o w[i]
  BY DEF Flattened
<1>2. IsFlat(f, w) <=> f = h
  BY DEF IsFlat
<1> HIDE DEF h
<1>3. ASSUME f = h
      PROVE  /\ f = [i \in 1 .. Len(w) |-> f[i]]
             /\ \A i \in 1 .. Len(w) : f[i] = IF i = 1 THEN w[i] ELSE f[i - 1] \o w[i]
  BY <1>1, <1>3, Zenon
<1>4. ASSUME f = [i \in 1 .. Len(w) |-> f[i]],
             \A i \in 1 .. Len(w) : f[i] = IF i = 1 THEN w[i] ELSE f[i - 1] \o w[i]
      PROVE  f = h
  <2>1. \A i \in 1 .. Len(w) : f[i] = h[i]
    BY <1>1, <1>4, Zenon
  <2>2. [i \in 1 .. Len(w) |-> f[i]] = [i \in 1 .. Len(w) |-> h[i]]
    BY <2>1
  <2> QED
    BY <1>1, <1>4, <2>2, Zenon
<1> QED
  BY <1>2, <1>3, <1>4

LEMMA FlatUnique ==
  ASSUME NEW C, NEW w \in Seq(Seq(C)), NEW f, NEW g, IsFlat(f, w), IsFlat(g, w)
  PROVE  f = g
<1> DEFINE S == {n \in Nat : n + 1 \in 1 .. Len(w) => f[n + 1] = g[n + 1]}
<1>1. /\ Len(w) \in Nat
      /\ \A i \in 1 .. Len(w) : f[i] = IF i = 1 THEN w[i] ELSE f[i - 1] \o w[i]
      /\ \A i \in 1 .. Len(w) : g[i] = IF i = 1 THEN w[i] ELSE g[i - 1] \o w[i]
  BY FlatSteps
<1>2. 0 \in S
  BY <1>1
<1>3. ASSUME NEW n \in S
      PROVE  n + 1 \in S
  <2> SUFFICES ASSUME (n + 1) + 1 \in 1 .. Len(w)
               PROVE  f[(n + 1) + 1] = g[(n + 1) + 1]
    OBVIOUS
  <2>1. n + 1 \in 1 .. Len(w) /\ n \in Nat /\ f[n + 1] = g[n + 1]
    BY <1>1
  <2>2. PICK m \in 1 .. Len(w) : m = (n + 1) + 1 /\ m # 1 /\ m - 1 = n + 1
    BY <2>1
  <2>3. f[m] = f[m - 1] \o w[m] /\ g[m] = g[m - 1] \o w[m]
    BY <1>1, <2>2
  <2> QED
    BY <2>1, <2>2, <2>3
<1>4. S = Nat
  <2>1. S \subseteq Nat
    OBVIOUS
  <2> HIDE DEF S
  <2> QED
    BY <1>2, <1>3, <2>1, SetInduction
<1>5. ASSUME NEW i \in 1 .. Len(w)
      PROVE  f[i] = g[i]
  <2>1. PICK n \in Nat : n + 1 = i
    <3>1. i - 1 \in Nat /\ (i - 1) + 1 = i
      BY <1>1
    <3> QED
      BY <3>1
  <2>2. n \in S
    BY <1>4
  <2> QED
    BY <2>1, <2>2
<1>6. /\ f = [i \in 1 .. Len(w) |-> f[i]]
      /\ g = [i \in 1 .. Len(w) |-> g[i]]
  BY FlatSteps
<1> QED
  BY <1>5, <1>6

LEMMA FlattenIs ==
  ASSUME NEW C, NEW w \in Seq(Seq(C)), Len(w) # 0, NEW f, IsFlat(f, w)
  PROVE  FlattenSeq(w) = f[Len(w)]
<1> DEFINE g == CHOOSE h : IsFlat(h, w)
<1>1. IsFlat(g, w)
  OBVIOUS
<1>2. FlattenSeq(w) = g[Len(w)]
  BY FlattenValue
<1> HIDE DEF g
<1>3. f = g
  BY <1>1, FlatUnique
<1> QED
  BY <1>2, <1>3

(* The function exists, and its values are sequences over C.               *)
LEMMA FlatExists ==
  ASSUME NEW C, NEW w \in Seq(Seq(C)), Len(w) # 0
  PROVE  \E f \in [1 .. Len(w) -> Seq(C)] : IsFlat(f, w)
<1> DEFINE Upto(f, m) ==
             \A i \in 1 .. m : f[i] = IF i = 1 THEN w[i] ELSE f[i - 1] \o w[i]
           S == {n \in Nat : n < Len(w) =>
                               \E f \in [1 .. n + 1 -> Seq(C)] : Upto(f, n + 1)}
<1>1. Len(w) \in Nat /\ \A i \in 1 .. Len(w) : w[i] \in Seq(C)
  OBVIOUS
<1>2. 0 \in S
  <2>1. ASSUME 0 < Len(w)
        PROVE  \E f \in [1 .. 0 + 1 -> Seq(C)] : Upto(f, 0 + 1)
    <3> DEFINE f == [i \in 1 .. 0 + 1 |-> w[1]]
    <3>1. f \in [1 .. 0 + 1 -> Seq(C)] /\ Upto(f, 0 + 1)
      BY <1>1, <2>1
    <3> QED
      BY <3>1
  <2> QED
    BY <2>1
<1>3. ASSUME NEW n \in S
      PROVE  n + 1 \in S
  <2>0. n + 1 \in Nat /\ n \in Nat
    OBVIOUS
  <2> SUFFICES ASSUME n + 1 < Len(w)
               PROVE  \E f \in [1 .. (n + 1) + 1 -> Seq(C)] : Upto(f, (n + 1) + 1)
    <3> HIDE DEF Upto
    <3> QED
      BY <2>0
  <2>1. n \in Nat /\ n < Len(w)
    BY <1>1
  <2>2. PICK f \in [1 .. n + 1 -> Seq(C)] : Upto(f, n + 1)
    BY <2>1
  <2>3. PICK m \in Nat : m = n + 1 /\ m + 1 \in 1 .. Len(w) /\ m # 0
    BY <1>1, <2>1
  <2> DEFINE g == [i \in 1 .. m + 1 |-> IF i <= m THEN f[i] ELSE f[m] \o w[m + 1]]
  <2>4. f[m] \o w[m + 1] \in Seq(C)
    <3>1. f[m] \in Seq(C) /\ w[m + 1] \in Seq(C)
      BY <1>1, <2>2, <2>3
    <3> QED
      BY <3>1
  <2>5. g \in [1 .. m + 1 -> Seq(C)]
    BY <2>2, <2>3, <2>4
  <2>6. Upto(g, m + 1)
    <3> SUFFICES ASSUME NEW i \in 1 .. m + 1
                 PROVE  g[i] = IF i = 1 THEN w[i] ELSE g[i - 1] \o w[i]
      OBVIOUS
    <3>1. CASE i = m + 1
      <4>1. i # 1 /\ i - 1 \in 1 .. m + 1 /\ i - 1 <= m /\ i - 1 = m
        BY <2>3, <3>1
      <4>2. g[i] = f[m] \o w[m + 1] /\ g[i - 1] = f[i - 1]
        <5>1. ~(i <= m)
          BY <2>3, <3>1
        <5> QED
          BY <4>1, <5>1
      <4> QED
        BY <3>1, <4>1, <4>2
    <3>2. CASE i \in 1 .. m
      <4>1. f[i] = IF i = 1 THEN w[i] ELSE f[i - 1] \o w[i]
        BY <2>2, <2>3, <3>2
      <4>2. g[i] = f[i] /\ (i # 1 => g[i - 1] = f[i - 1])
        BY <2>3, <3>2
      <4> QED
        BY <4>1, <4>2
    <3> QED
      BY <2>3, <3>1, <3>2
  <2> HIDE DEF g, Upto
  <2> QED
    BY <2>3, <2>5, <2>6
<1>4. S = Nat
  <2>1. S \subseteq Nat
    OBVIOUS
  <2> HIDE DEF S
  <2> QED
    BY <1>2, <1>3, <2>1, SetInduction
<1>5. PICK n \in Nat : n < Len(w) /\ n + 1 = Len(w)
  <2>1. Len(w) - 1 \in Nat /\ Len(w) - 1 < Len(w) /\ (Len(w) - 1) + 1 = Len(w)
    BY <1>1
  <2> QED
    BY <2>1
<1>6. n \in S
  BY <1>4
<1>7. PICK f \in [1 .. Len(w) -> Seq(C)] : Upto(f, Len(w))
  BY <1>5, <1>6
<1>8. f = [i \in 1 .. Len(w) |-> f[i]]
  OBVIOUS
<1>9. IsFlat(f, w)
  BY <1>7, <1>8, FlatSteps
<1> QED
  BY <1>9

(* FlattenSeq of nothing, and of one more piece.                           *)
LEMMA FlattenEmpty == FlattenSeq(<<>>) = <<>>
BY DEF FlattenSeq

LEMMA FlattenType ==
  ASSUME NEW C, NEW w \in Seq(Seq(C))
  PROVE  FlattenSeq(w) \in Seq(C)
<1>1. CASE Len(w) = 0
  <2>1. w = <<>> /\ <<>> \in Seq(C)
    BY <1>1
  <2> QED
    BY <2>1, FlattenEmpty, Zenon
<1>2. CASE Len(w) # 0
  <2>1. PICK f \in [1 .. Len(w) -> Seq(C)] : IsFlat(f, w)
    BY <1>2, FlatExists
  <2>2. FlattenSeq(w) = f[Len(w)]
    BY <1>2, <2>1, FlattenIs
  <2>3. Len(w) \in 1 .. Len(w)
    BY <1>2
  <2> QED
    BY <2>1, <2>2, <2>3
<1> QED
  BY <1>1, <1>2

LEMMA FlattenAppend ==
  ASSUME NEW C, NEW w \in Seq(Seq(C)), NEW x \in Seq(C)
  PROVE  FlattenSeq(Append(w, x)) = FlattenSeq(w) \o x
<1> DEFINE v == Append(w, x)
<1>1. /\ v \in Seq(Seq(C)) /\ Len(w) \in Nat /\ Len(v) = Len(w) + 1
      /\ v[Len(w) + 1] = x /\ \A i \in 1 .. Len(w) : v[i] = w[i]
  OBVIOUS
<1> HIDE DEF v
<1>2. CASE Len(w) = 0
  <2> DEFINE g == [i \in 1 .. 1 |-> x]
  <2>1. w = <<>> /\ Len(v) = 1 /\ v[1] = x
    BY <1>1, <1>2
  <2>2. g = [i \in 1 .. Len(v) |-> g[i]]
    BY <2>1
  <2>3. \A i \in 1 .. Len(v) : g[i] = IF i = 1 THEN v[i] ELSE g[i - 1] \o v[i]
    BY <2>1
  <2>4. g[1] = x
    OBVIOUS
  <2> HIDE DEF g
  <2>5. IsFlat(g, v)
    BY <2>2, <2>3, FlatSteps
  <2>6. FlattenSeq(v) = x
    <3>1. Len(v) # 0 /\ Len(v) = 1
      BY <2>1
    <3>2. FlattenSeq(v) = g[Len(v)]
      BY <1>1, <2>5, <3>1, FlattenIs
    <3> QED
      BY <2>4, <3>1, <3>2
  <2>7. FlattenSeq(w) \o x = x
    BY <2>1, FlattenEmpty
  <2> QED
    BY <2>6, <2>7 DEF v
<1>3. CASE Len(w) # 0
  <2>1. PICK f \in [1 .. Len(w) -> Seq(C)] : IsFlat(f, w)
    BY <1>3, FlatExists
  <2>2. \A i \in 1 .. Len(w) : f[i] = IF i = 1 THEN w[i] ELSE f[i - 1] \o w[i]
    BY <2>1, FlatSteps
  <2>3. PICK m \in Nat : m = Len(w) /\ m # 0
    BY <1>1, <1>3
  <2> DEFINE g == [i \in 1 .. m + 1 |-> IF i <= m THEN f[i] ELSE f[m] \o x]
  <2>4. g = [i \in 1 .. Len(v) |-> g[i]] /\ g[m + 1] = f[m] \o x
    BY <1>1, <2>3
  <2>5. ASSUME NEW i \in 1 .. Len(v)
        PROVE  g[i] = IF i = 1 THEN v[i] ELSE g[i - 1] \o v[i]
    <3>1. CASE i = m + 1
      <4>1. i # 1 /\ i - 1 \in 1 .. m + 1 /\ i - 1 <= m /\ i - 1 = m
        BY <2>3, <3>1
      <4>2. g[i] = f[m] \o x /\ g[i - 1] = f[m] /\ v[i] = x
        BY <1>1, <2>3, <3>1, <4>1
      <4> QED
        BY <4>1, <4>2
    <3>2. CASE i \in 1 .. m
      <4>1. f[i] = IF i = 1 THEN v[i] ELSE f[i - 1] \o v[i]
        BY <1>1, <2>2, <2>3, <3>2
      <4>2. g[i] = f[i] /\ (i # 1 => g[i - 1] = f[i - 1])
        BY <2>3, <3>2
      <4> QED
        BY <4>1, <4>2
    <3> QED
      BY <1>1, <2>3, <3>1, <3>2
  <2> HIDE DEF g
  <2>6. IsFlat(g, v)
    BY <2>4, <2>5, FlatSteps
  <2>7. FlattenSeq(v) = g[m + 1]
    <3>1. Len(v) # 0 /\ Len(v) = m + 1
      BY <1>1, <2>3
    <3> QED
      BY <1>1, <2>6, <3>1, FlattenIs
  <2>8. FlattenSeq(w) = f[m]
    BY <1>3, <2>1, <2>3, FlattenIs
  <2> QED
    BY <2>4, <2>7, <2>8 DEF v
<1> QED
  BY <1>2, <1>3

(* The prefixes of a sequence, one element at a time.                      *)
LEMMA PrefixStep ==
  ASSUME NEW T, NEW v \in Seq(T), NEW n \in Nat, n < Len(v)
  PROVE  /\ SubSeq(v, 1, n) \in Seq(T) /\ v[n + 1] \in T
         /\ SubSeq(v, 1, n + 1) = Append(SubSeq(v, 1, n), v[n + 1])
<1>1. Len(v) \in Nat /\ n + 1 \in 1 .. Len(v)
  OBVIOUS
<1>2. SubSeq(v, 1, n) \in Seq(T) /\ Len(SubSeq(v, 1, n)) = n
  BY <1>1
<1>3. SubSeq(v, 1, n + 1) \in Seq(T) /\ Len(SubSeq(v, 1, n + 1)) = n + 1
  BY <1>1
<1> DEFINE a == Append(SubSeq(v, 1, n), v[n + 1])
<1>4. a \in Seq(T) /\ Len(a) = n + 1
  BY <1>1, <1>2
<1>5. ASSUME NEW i \in 1 .. n + 1
      PROVE  SubSeq(v, 1, n + 1)[i] = a[i]
  <2>1. SubSeq(v, 1, n + 1)[i] = v[i]
    BY <1>1
  <2>2. a[i] = v[i]
    <3>1. CASE i = n + 1
      BY <1>2, <3>1
    <3>2. CASE i \in 1 .. n
      BY <1>1, <1>2, <3>2
    <3> QED
      BY <3>1, <3>2
  <2> QED
    BY <2>1, <2>2
<1> HIDE DEF a
<1>6. SubSeq(v, 1, n + 1) = a
  BY <1>3, <1>4, <1>5, SeqEqual
<1> QED
  BY <1>1, <1>2, <1>6 DEF a

LEMMA PrefixEnds ==
  ASSUME NEW T, NEW v \in Seq(T)
  PROVE  SubSeq(v, 1, 0) = <<>> /\ SubSeq(v, 1, Len(v)) = v
<1>1. Len(v) \in Nat
  OBVIOUS
<1>2. SubSeq(v, 1, 0) = <<>>
  BY <1>1
<1>3. SubSeq(v, 1, Len(v)) = v
  BY <1>1
<1> QED
  BY <1>2, <1>3

(* The elements of a concatenation.                                        *)
IsConcat(a, b, c, T) ==
  /\ c \in Seq(T) /\ DOMAIN c = 1 .. Len(a) + Len(b)
  /\ Len(a) \in Nat /\ Len(b) \in Nat
  /\ DOMAIN a = 1 .. Len(a) /\ DOMAIN b = 1 .. Len(b)
  /\ \A i \in 1 .. Len(a) : c[i] = a[i]
  /\ \A i \in 1 .. Len(b) : c[Len(a) + i] = b[i]

LEMMA ConcatElements ==
  ASSUME NEW T, NEW a \in Seq(T), NEW b \in Seq(T)
  PROVE  IsConcat(a, b, a \o b, T)
BY DEF IsConcat

LEMMA JoinAppend ==
  ASSUME NEW T, NEW a \in Seq(T), NEW b \in Seq(T), NEW x \in T
  PROVE  a \o Append(b, x) = Append(a \o b, x)
OBVIOUS

LEMMA JoinThree ==
  ASSUME NEW T, NEW a \in Seq(T), NEW b \in Seq(T), NEW c \in Seq(T)
  PROVE  (a \o b) \o c = a \o (b \o c)
BY ConcatAssociative

(* Flattening distributes over concatenation.                              *)
LEMMA FlattenConcat ==
  ASSUME NEW C, NEW w \in Seq(Seq(C)), NEW v \in Seq(Seq(C))
  PROVE  FlattenSeq(w \o v) = FlattenSeq(w) \o FlattenSeq(v)
<1> DEFINE pre(n) == SubSeq(v, 1, n)
           S == {n \in Nat : n <= Len(v) =>
                               FlattenSeq(w \o pre(n)) = FlattenSeq(w) \o FlattenSeq(pre(n))}
<1>1. Len(v) \in Nat /\ FlattenSeq(w) \in Seq(C)
  BY FlattenType
<1>2. 0 \in S
  <2>1. pre(0) = <<>> /\ w \o <<>> = w /\ FlattenSeq(w) \o <<>> = FlattenSeq(w)
    BY <1>1, PrefixEnds, ConcatEmptySeq
  <2> QED
    BY <2>1, FlattenEmpty
<1>3. ASSUME NEW n \in S
      PROVE  n + 1 \in S
  <2>0. n \in Nat /\ n + 1 \in Nat
    OBVIOUS
  <2>1. ASSUME n + 1 <= Len(v)
        PROVE  FlattenSeq(w \o pre(n + 1)) = FlattenSeq(w) \o FlattenSeq(pre(n + 1))
    <3>1. n < Len(v) /\ n <= Len(v)
      BY <1>1, <2>0, <2>1
    <3>2. FlattenSeq(w \o pre(n)) = FlattenSeq(w) \o FlattenSeq(pre(n))
      BY <3>1
    <3>3. PICK x \in Seq(C) : x = v[n + 1] /\ pre(n + 1) = Append(pre(n), x)
      BY <2>0, <3>1, PrefixStep
    <3>4. pre(n) \in Seq(Seq(C))
      BY <2>0, <3>1, PrefixStep
    <3> HIDE DEF pre, S
    <3>5. w \o pre(n) \in Seq(Seq(C)) /\ FlattenSeq(pre(n)) \in Seq(C)
      BY <3>4, FlattenType, ConcatProperties
    <3>6. w \o Append(pre(n), x) = Append(w \o pre(n), x)
      BY <3>4, JoinAppend
    <3>7. FlattenSeq(Append(w \o pre(n), x)) = FlattenSeq(w \o pre(n)) \o x
      BY <3>5, FlattenAppend
    <3>8. FlattenSeq(Append(pre(n), x)) = FlattenSeq(pre(n)) \o x
      BY <3>4, FlattenAppend
    <3>9. (FlattenSeq(w) \o FlattenSeq(pre(n))) \o x = FlattenSeq(w) \o (FlattenSeq(pre(n)) \o x)
      <4>1. PICK a \in Seq(C) : a = FlattenSeq(w)
        BY <1>1
      <4>2. PICK b \in Seq(C) : b = FlattenSeq(pre(n))
        BY <3>5
      <4>3. (a \o b) \o x = a \o (b \o x)
        BY JoinThree
      <4> QED
        BY <4>1, <4>2, <4>3
    <3> QED
      BY <3>2, <3>3, <3>6, <3>7, <3>8, <3>9
  <2> QED
    BY <2>0, <2>1
<1>4. S = Nat
  <2>1. S \subseteq Nat
    OBVIOUS
  <2> HIDE DEF S
  <2> QED
    BY <1>2, <1>3, <2>1, SetInduction
<1>5. Len(v) \in S
  BY <1>1, <1>4
<1>6. FlattenSeq(w \o pre(Len(v))) = FlattenSeq(w) \o FlattenSeq(pre(Len(v)))
  BY <1>1, <1>5
<1> QED
  BY <1>6, PrefixEnds

(* Empty pieces add nothing, and pieces of one element give it back.       *)
LEMMA FlattenBlank ==
  ASSUME NEW C, NEW v \in Seq(Seq(C)), \A k \in 1 .. Len(v) : v[k] = <<>>
  PROVE  FlattenSeq(v) = <<>>
<1> DEFINE pre(n) == SubSeq(v, 1, n)
           S == {n \in Nat : n <= Len(v) => FlattenSeq(pre(n)) = <<>>}
<1>1. Len(v) \in Nat /\ <<>> \in Seq(C) /\ <<>> \o <<>> = <<>>
  OBVIOUS
<1>2. 0 \in S
  BY PrefixEnds, FlattenEmpty
<1>3. ASSUME NEW n \in S
      PROVE  n + 1 \in S
  <2>0. n \in Nat /\ n + 1 \in Nat
    OBVIOUS
  <2>1. ASSUME n + 1 <= Len(v)
        PROVE  FlattenSeq(pre(n + 1)) = <<>>
    <3>1. n < Len(v) /\ n <= Len(v) /\ n + 1 \in 1 .. Len(v)
      BY <1>1, <2>0, <2>1
    <3>2. pre(n) \in Seq(Seq(C)) /\ pre(n + 1) = Append(pre(n), v[n + 1])
      BY <2>0, <3>1, PrefixStep
    <3>3. FlattenSeq(pre(n)) = <<>> /\ v[n + 1] = <<>>
      BY <3>1
    <3> HIDE DEF pre
    <3>4. FlattenSeq(Append(pre(n), <<>>)) = FlattenSeq(pre(n)) \o <<>>
      BY <1>1, <3>2, FlattenAppend
    <3> QED
      BY <1>1, <3>2, <3>3, <3>4
  <2> QED
    BY <2>0, <2>1
<1>4. S = Nat
  <2>1. S \subseteq Nat
    OBVIOUS
  <2> HIDE DEF S
  <2> QED
    BY <1>2, <1>3, <2>1, SetInduction
<1>5. FlattenSeq(pre(Len(v))) = <<>>
  BY <1>1, <1>4
<1> QED
  BY <1>5, PrefixEnds

LEMMA FlattenSingles ==
  ASSUME NEW C, NEW q \in Seq(C), NEW v \in Seq(Seq(C)),
         Len(v) = Len(q), \A k \in 1 .. Len(q) : v[k] = <<q[k]>>
  PROVE  FlattenSeq(v) = q
<1> DEFINE pre(n) == SubSeq(v, 1, n)
           S == {n \in Nat : n <= Len(v) => FlattenSeq(pre(n)) = SubSeq(q, 1, n)}
<1>1. Len(v) \in Nat
  OBVIOUS
<1>2. 0 \in S
  BY PrefixEnds, FlattenEmpty
<1>3. ASSUME NEW n \in S
      PROVE  n + 1 \in S
  <2>0. n \in Nat /\ n + 1 \in Nat
    OBVIOUS
  <2>1. ASSUME n + 1 <= Len(v)
        PROVE  FlattenSeq(pre(n + 1)) = SubSeq(q, 1, n + 1)
    <3>1. n < Len(v) /\ n < Len(q) /\ n <= Len(v) /\ n + 1 \in 1 .. Len(q)
      BY <1>1, <2>0, <2>1
    <3>2. pre(n) \in Seq(Seq(C)) /\ pre(n + 1) = Append(pre(n), v[n + 1])
      BY <2>0, <3>1, PrefixStep
    <3>3. PICK t \in Seq(C) : t = SubSeq(q, 1, n)
      BY <2>0, <3>1, PrefixStep
    <3>4. SubSeq(q, 1, n + 1) = Append(t, q[n + 1]) /\ q[n + 1] \in C
      BY <2>0, <3>1, <3>3, PrefixStep
    <3>5. FlattenSeq(pre(n)) = t /\ v[n + 1] = <<q[n + 1]>>
      BY <3>1, <3>3
    <3>x. v[n + 1] \in Seq(C)
      BY <3>4, <3>5
    <3> HIDE DEF pre
    <3>6. FlattenSeq(Append(pre(n), v[n + 1])) = FlattenSeq(pre(n)) \o v[n + 1]
      BY <3>2, <3>x, FlattenAppend
    <3>7. t \o <<q[n + 1]>> = Append(t, q[n + 1])
      BY <3>4
    <3> QED
      BY <3>2, <3>4, <3>5, <3>6, <3>7
  <2> QED
    BY <2>0, <2>1
<1>4. S = Nat
  <2>1. S \subseteq Nat
    OBVIOUS
  <2> HIDE DEF S
  <2> QED
    BY <1>2, <1>3, <2>1, SetInduction
<1>5. Len(v) \in S
  BY <1>1, <1>4
<1>6. Len(v) <= Len(v)
  BY <1>1
<1>7. FlattenSeq(pre(Len(v))) = SubSeq(q, 1, Len(v))
  <2> HIDE DEF pre
  <2> QED
    BY <1>5, <1>6
<1> QED
  BY <1>7, PrefixEnds

(* The same for sequences of pieces that are only known element by element.*)
LEMMA FlattenOneMore ==
  ASSUME NEW C, NEW w \in Seq(Seq(C)), NEW v \in Seq(Seq(C)),
         Len(v) = Len(w) + 1, \A i \in 1 .. Len(w) : v[i] = w[i]
  PROVE  FlattenSeq(v) = FlattenSeq(w) \o v[Len(w) + 1]
<1>1. PICK x \in Seq(C) : x = v[Len(w) + 1]
  OBVIOUS
<1>2. /\ Append(w, x) \in Seq(Seq(C)) /\ Len(Append(w, x)) = Len(v)
      /\ \A i \in 1 .. Len(v) : Append(w, x)[i] = v[i]
  BY <1>1
<1>3. v = Append(w, x)
  BY <1>2, SeqEqual
<1> QED
  BY <1>1, <1>3, FlattenAppend

LEMMA FlattenMore ==
  ASSUME NEW C, NEW w \in Seq(Seq(C)), NEW u \in Seq(Seq(C)), NEW v \in Seq(Seq(C)),
         Len(v) = Len(w) + Len(u), \A i \in 1 .. Len(w) : v[i] = w[i],
         \A k \in 1 .. Len(u) : v[Len(w) + k] = u[k]
  PROVE  FlattenSeq(v) = FlattenSeq(w) \o FlattenSeq(u)
<1> DEFINE c == w \o u
<1>1. /\ c \in Seq(Seq(C)) /\ Len(c) = Len(w) + Len(u)
      /\ \A i \in 1 .. Len(w) + Len(u) : c[i] = IF i <= Len(w) THEN w[i] ELSE u[i - Len(w)]
      /\ Len(w) \in Nat /\ Len(u) \in Nat
  OBVIOUS
<1> HIDE DEF c
<1>2. ASSUME NEW i \in 1 .. Len(v)
      PROVE  c[i] = v[i]
  <2>1. CASE i <= Len(w)
    <3>1. i \in 1 .. Len(w) /\ i \in 1 .. Len(w) + Len(u)
      BY <1>1, <2>1
    <3>2. c[i] = IF i <= Len(w) THEN w[i] ELSE u[i - Len(w)]
      BY <1>1, <3>1
    <3>3. v[i] = w[i]
      BY <3>1
    <3> QED
      BY <2>1, <3>2, <3>3
  <2>2. CASE ~(i <= Len(w))
    <3>1. PICK k \in 1 .. Len(u) : i = Len(w) + k /\ i - Len(w) = k
      <4>1. i - Len(w) \in 1 .. Len(u) /\ i = Len(w) + (i - Len(w))
        BY <1>1, <2>2
      <4> QED
        BY <4>1
    <3>2. v[i] = u[k]
      BY <3>1
    <3>3. i \in 1 .. Len(w) + Len(u) /\ c[i] = u[i - Len(w)]
      BY <1>1, <2>2
    <3> QED
      BY <3>1, <3>2, <3>3
  <2> QED
    BY <2>1, <2>2
<1>3. v = c
  BY <1>1, <1>2, SeqEqual
<1> QED
  BY <1>3, FlattenConcat DEF c
--------------------------------------------------------------------------------
(* The greatest of some numbers up to n is one of them.                    *)
LEMMA MaxOf ==
  ASSUME NEW n \in Nat, NEW S, S \subseteq 0 .. n, S # {}
  PROVE  Max(S) \in S /\ \A y \in S : y <= Max(S)
<1> DEFINE T == {n - y : y \in S}
<1>0. \A y \in S : y \in Nat /\ n - y \in Nat
  <2>1. \A y \in S : y \in 0 .. n
    OBVIOUS
  <2> QED
    BY <2>1
<1>1. T \subseteq Nat /\ T # {}
  BY <1>0
<1>2. PICK t \in T : \A u \in T : t <= u
  <2> HIDE DEF T
  <2> QED
    BY <1>1, LeastOf
<1>3. PICK x \in S : t = n - x
  BY <1>2
<1>4. ASSUME NEW y \in S
      PROVE  x >= y
  <2>1. n - x <= n - y /\ x \in Nat /\ y \in Nat
    BY <1>0, <1>2, <1>3
  <2> QED
    BY <2>1
<1>5. \E z \in S : \A y \in S : z >= y
  BY <1>4
<1>6. Max(S) \in S /\ \A y \in S : Max(S) >= y
  BY <1>5 DEF Max
<1>7. ASSUME NEW y \in S
      PROVE  y <= Max(S)
  <2>1. Max(S) \in Nat /\ y \in Nat /\ Max(S) >= y
    BY <1>0, <1>6
  <2> QED
    BY <2>1
<1> QED
  BY <1>6, <1>7

(* The table a fold of n steps is computed with: F[i] is the i-th step, a  *)
(* set of positions is folded in order.                                    *)
IsTable(it, n, F, b) ==
  \A s \in SUBSET (1 .. n) :
    it[s] = IF s = {} THEN b ELSE F[Max(s)][it[s \ {Max(s)}]]

LEMMA FoldTable ==
  ASSUME NEW n \in Nat, NEW D, NEW F \in [1 .. n -> [D -> D]], NEW b \in D
  PROVE  \E it \in [SUBSET (1 .. n) -> D] : IsTable(it, n, F, b)
<1> DEFINE S == {m \in Nat : m <= n =>
                   \E it \in [SUBSET (1 .. m) -> D] : IsTable(it, m, F, b)}
<1>1. 0 \in S
  <2> DEFINE it == [s \in SUBSET (1 .. 0) |-> b]
  <2>1. it \in [SUBSET (1 .. 0) -> D] /\ IsTable(it, 0, F, b)
    BY DEF IsTable
  <2> QED
    BY <2>1
<1>2. ASSUME NEW m \in S
      PROVE  m + 1 \in S
  <2>1. m \in Nat /\ m + 1 \in Nat
    OBVIOUS
  <2>2. ASSUME m + 1 <= n
        PROVE  \E it \in [SUBSET (1 .. m + 1) -> D] : IsTable(it, m + 1, F, b)
    <3>1. m <= n /\ m + 1 \in 1 .. n
      BY <2>1, <2>2
    <3>2. PICK it \in [SUBSET (1 .. m) -> D] : IsTable(it, m, F, b)
      BY <3>1
    <3> DEFINE k == m + 1
               jt == [s \in SUBSET (1 .. k) |->
                        IF k \in s THEN F[k][it[s \ {k}]] ELSE it[s]]
    <3>3. ASSUME NEW s \in SUBSET (1 .. k)
          PROVE  /\ s \ {k} \in SUBSET (1 .. m)
                 /\ k \notin s => s \in SUBSET (1 .. m)
                 /\ k \in s => Max(s) = k
      <4>1. s \ {k} \in SUBSET (1 .. m) /\ (k \notin s => s \in SUBSET (1 .. m))
        BY <2>1
      <4>2. ASSUME k \in s
            PROVE  Max(s) = k
        <5>1. s \subseteq 0 .. k /\ s # {} /\ k \in Nat
          BY <2>1, <4>2
        <5>2. Max(s) \in s /\ k <= Max(s)
          BY <4>2, <5>1, MaxOf
        <5>3. Max(s) \in 0 .. k
          BY <5>1, <5>2
        <5> QED
          BY <5>1, <5>2, <5>3
      <4> QED
        BY <4>1, <4>2
    <3>4. jt \in [SUBSET (1 .. k) -> D]
      <4> SUFFICES ASSUME NEW s \in SUBSET (1 .. k)
                   PROVE  (IF k \in s THEN F[k][it[s \ {k}]] ELSE it[s]) \in D
        OBVIOUS
      <4>1. F[k] \in [D -> D]
        BY <3>1
      <4> QED
        BY <3>2, <3>3, <4>1
    <3>5. ASSUME NEW s \in SUBSET (1 .. k)
          PROVE  jt[s] = IF s = {} THEN b ELSE F[Max(s)][jt[s \ {Max(s)}]]
      <4>1. CASE k \in s
        <5>1. jt[s] = F[k][it[s \ {k}]]
          BY <4>1
        <5>2. s \ {k} \in SUBSET (1 .. k) /\ k \notin s \ {k}
          OBVIOUS
        <5>3. jt[s \ {k}] = it[s \ {k}]
          BY <5>2
        <5>4. Max(s) = k /\ s # {}
          BY <3>3, <4>1
        <5> QED
          BY <5>1, <5>3, <5>4
      <4>2. CASE k \notin s
        <5>1. s \in SUBSET (1 .. m) /\ jt[s] = it[s]
          BY <3>3, <4>2
        <5>2. it[s] = IF s = {} THEN b ELSE F[Max(s)][it[s \ {Max(s)}]]
          BY <3>2, <5>1 DEF IsTable
        <5>3. s \ {Max(s)} \in SUBSET (1 .. k) /\ k \notin s \ {Max(s)}
          BY <4>2
        <5>4. jt[s \ {Max(s)}] = it[s \ {Max(s)}]
          BY <5>3
        <5> QED
          BY <5>1, <5>2, <5>4
      <4> QED
        BY <4>1, <4>2
    <3> HIDE DEF jt
    <3>6. IsTable(jt, k, F, b)
      BY <3>5 DEF IsTable
    <3> QED
      BY <3>4, <3>6
  <2> QED
    BY <2>1, <2>2
<1>3. S = Nat
  <2>1. S \subseteq Nat
    OBVIOUS
  <2> HIDE DEF S
  <2> QED
    BY <1>1, <1>2, <2>1, SetInduction
<1>4. n \in S
  BY <1>3
<1>5. n <= n => \E it \in [SUBSET (1 .. n) -> D] : IsTable(it, n, F, b)
  BY <1>4
<1>6. n <= n
  OBVIOUS
<1> QED
  BY <1>5, <1>6

(* The first i of n positions.                                             *)
BeginStep(n, i) ==
  /\ 1 .. i \in SUBSET (1 .. n) /\ 1 .. i # {}
  /\ Max(1 .. i) = i
  /\ (1 .. i) \ {i} = 1 .. i - 1

LEMMA BeginSteps ==
  ASSUME NEW n \in Nat, NEW i \in 1 .. n
  PROVE  BeginStep(n, i)
<1>1. i \in Nat /\ 1 .. i \subseteq 0 .. i /\ i \in 1 .. i
  OBVIOUS
<1>2. Max(1 .. i) \in 1 .. i /\ i <= Max(1 .. i)
  BY <1>1, MaxOf
<1>3. Max(1 .. i) = i
  BY <1>1, <1>2
<1>4. (1 .. i) \ {i} = 1 .. i - 1
  OBVIOUS
<1> QED
  BY <1>1, <1>3, <1>4 DEF BeginStep

(* The beginnings of such a table, step by step.                           *)
LEMMA TableSteps ==
  ASSUME NEW n \in Nat, NEW F, NEW b, NEW it, IsTable(it, n, F, b)
  PROVE  /\ it[1 .. 0] = b
         /\ \A i \in 1 .. n : it[1 .. i] = F[i][it[1 .. i - 1]]
<1>1. it[1 .. 0] = b
  <2>1. 1 .. 0 = {} /\ {} \in SUBSET (1 .. n)
    OBVIOUS
  <2> QED
    BY <2>1 DEF IsTable
<1>2. ASSUME NEW i \in 1 .. n
      PROVE  it[1 .. i] = F[i][it[1 .. i - 1]]
  <2>1. BeginStep(n, i)
    BY BeginSteps
  <2> QED
    BY <2>1 DEF IsTable, BeginStep
<1> QED
  BY <1>1, <1>2
--------------------------------------------------------------------------------
(* A beginning of a text stays one when the text grows.                    *)
LEMMA PrefixGrows ==
  ASSUME NEW C, NEW x \in Seq(C), NEW a \in Seq(C), NEW b \in Seq(C), IsPrefix(x, a)
  PROVE  IsPrefix(x, a \o b)
<1>1. Len(x) \in Nat /\ Len(a) \in Nat /\ Len(b) \in Nat /\ Len(x) <= Len(a)
  BY DEF IsPrefix
<1>2. Len(a \o b) = Len(a) + Len(b) /\ a \o b \in Seq(C)
  OBVIOUS
<1>3. SubSeq(a \o b, 1, Len(x)) = SubSeq(a, 1, Len(x))
  BY <1>1
<1> QED
  BY <1>1, <1>2, <1>3 DEF IsPrefix

LEMMA PrefixSelf ==
  ASSUME NEW C, NEW a \in Seq(C)
  PROVE  IsPrefix(a, a)
BY DEF IsPrefix

(* The elements of a part of a sequence.                                   *)
LEMMA SliceElements ==
  ASSUME NEW C, NEW s \in Seq(C), NEW n \in 0 .. Len(s), NEW m \in 0 .. n
  PROVE  /\ SubSeq(s, m + 1, n) \in Seq(C)
         /\ Len(SubSeq(s, m + 1, n)) = n - m
         /\ \A k \in 1 .. n - m : SubSeq(s, m + 1, n)[k] = s[m + k] /\ m + k \in 1 .. Len(s)
<1>1. Len(s) \in Nat /\ m \in Nat /\ n \in Nat
  OBVIOUS
<1>2. SubSeq(s, m + 1, n) \in Seq(C) /\ Len(SubSeq(s, m + 1, n)) = n - m
  BY <1>1
<1>3. ASSUME NEW k \in 1 .. n - m
      PROVE  SubSeq(s, m + 1, n)[k] = s[m + k] /\ m + k \in 1 .. Len(s)
  BY <1>1
<1> QED
  BY <1>2, <1>3

--------------------------------------------------------------------------------
(* Finite maps from integers, as Go's maps of blocks in progress are.      *)
Blocks(V) == UNION {[D -> V] : D \in {E \in SUBSET Int : IsFiniteSet(E)}}

LEMMA BlockFacts ==
  ASSUME NEW V, NEW m \in Blocks(V)
  PROVE  /\ DOMAIN m \in SUBSET Int /\ IsFiniteSet(DOMAIN m)
         /\ m \in [DOMAIN m -> V]
BY DEF Blocks

LEMMA BlocksIntro ==
  ASSUME NEW V, NEW D \in SUBSET Int, IsFiniteSet(D), NEW m \in [D -> V]
  PROVE  m \in Blocks(V) /\ DOMAIN m = D
BY DEF Blocks

LEMMA BlocksExcept ==
  ASSUME NEW V, NEW m \in Blocks(V), NEW i \in DOMAIN m, NEW v \in V
  PROVE  /\ [m EXCEPT ![i] = v] \in Blocks(V)
         /\ DOMAIN [m EXCEPT ![i] = v] = DOMAIN m
         /\ \A j \in DOMAIN m : [m EXCEPT ![i] = v][j] = IF j = i THEN v ELSE m[j]
<1>1. DOMAIN m \in SUBSET Int /\ m \in [DOMAIN m -> V] /\ IsFiniteSet(DOMAIN m)
  BY BlockFacts
<1>2. [m EXCEPT ![i] = v] \in [DOMAIN m -> V]
  BY <1>1
<1> QED
  BY <1>1, <1>2, BlocksIntro

LEMMA BlocksEmpty ==
  ASSUME NEW V
  PROVE  <<>> \in Blocks(V) /\ DOMAIN <<>> = {}
<1>1. <<>> \in [{} -> V] /\ DOMAIN <<>> = {}
  OBVIOUS
<1> QED
  BY <1>1, FS_EmptySet, BlocksIntro

(* An order of a finite set visits every element once.                     *)
LEMMA Orders ==
  ASSUME NEW S, IsFiniteSet(S), NEW f \in SetToSeqs(S)
  PROVE  /\ f \in Seq(S) /\ DOMAIN f = 1 .. Len(f) /\ Len(f) \in Nat
         /\ \A x \in S : \E k \in DOMAIN f : f[k] = x
         /\ \A i, j \in DOMAIN f : i # j => f[i] # f[j]
<1> DEFINE n == Cardinality(S)
<1>1. n \in Nat
  BY FS_CardinalityType
<1>2. f \in [1 .. n -> S] /\ \A i, j \in 1 .. n : i # j => f[i] # f[j]
  BY DEF SetToSeqs
<1>3. Cardinality(1 .. n) = n
  BY <1>1, FS_Interval
<1> HIDE DEF n
<1>4. f \in Injection(1 .. n, S)
  BY <1>2 DEF Injection, IsInjective
<1>5. f \in Surjection(1 .. n, S)
  BY <1>3, <1>4, FS_Injection DEF n
<1>6. \A x \in S : \E k \in 1 .. n : f[k] = x
  BY <1>5 DEF Surjection
<1>7. f \in Seq(S) /\ DOMAIN f = 1 .. n /\ Len(f) = n
  BY <1>1, <1>2
<1> QED
  BY <1>1, <1>2, <1>6, <1>7

(* A sequence of values computed from another.                             *)
LEMMA MapSeq ==
  ASSUME NEW T, NEW n \in Nat, NEW g, g = [k \in 1 .. n |-> g[k]],
         \A k \in 1 .. n : g[k] \in T
  PROVE  g \in Seq(T) /\ Len(g) = n /\ DOMAIN g = 1 .. n
<1>1. g \in [1 .. n -> T]
  BY Zenon
<1> QED
  BY <1>1

(* Nothing is lost: what is in a piece is in the whole.                    *)
LEMMA FlattenMember ==
  ASSUME NEW C, NEW w \in Seq(Seq(C)), NEW i \in DOMAIN w, NEW j \in DOMAIN w[i]
  PROVE  \E k \in DOMAIN FlattenSeq(w) : FlattenSeq(w)[k] = w[i][j]
<1>1. Len(w) \in Nat /\ DOMAIN w = 1 .. Len(w) /\ Len(w) # 0 /\ i \in 1 .. Len(w)
  OBVIOUS
<1>2. PICK f \in [1 .. Len(w) -> Seq(C)] : IsFlat(f, w)
  BY <1>1, FlatExists
<1>3. \A m \in 1 .. Len(w) : f[m] = IF m = 1 THEN w[m] ELSE f[m - 1] \o w[m]
  BY <1>2, FlatSteps
<1> DEFINE Has(m) == \E k \in DOMAIN f[m] : f[m][k] = w[i][j]
           S == {n \in Nat : i + n \in 1 .. Len(w) => Has(i + n)}
<1>4. 0 \in S
  <2>1. CASE i = 1
    BY <1>1, <1>3, <2>1
  <2>2. CASE i # 1
    <3>1. PICK a \in Seq(C), b \in Seq(C) : a = f[i - 1] /\ b = w[i]
      BY <1>1, <1>2, <2>2
    <3>2. f[i] = a \o b
      BY <1>1, <1>3, <2>2, <3>1
    <3>3. j \in DOMAIN b
      BY <3>1
    <3>5. Len(a) + j \in DOMAIN (a \o b) /\ (a \o b)[Len(a) + j] = b[j]
      BY ONLY <3>3, a \in Seq(C), b \in Seq(C)
    <3>4. Has(i)
      BY <3>1, <3>2, <3>5
    <3> QED
      BY <1>1, <3>4
  <2> QED
    BY <2>1, <2>2
<1>5. ASSUME NEW n \in S
      PROVE  n + 1 \in S
  <2> SUFFICES ASSUME i + (n + 1) \in 1 .. Len(w)
               PROVE  Has(i + (n + 1))
    OBVIOUS
  <2>1. i + n \in 1 .. Len(w) /\ n \in Nat
    BY <1>1
  <2>2. PICK k \in DOMAIN f[i + n] : f[i + n][k] = w[i][j]
    BY <2>1
  <2>3. PICK m \in 1 .. Len(w) : m = i + (n + 1) /\ m # 1 /\ m - 1 = i + n
    BY <1>1, <2>1
  <2>4. PICK a \in Seq(C), b \in Seq(C) : a = f[i + n] /\ b = w[m]
    BY <1>1, <1>2, <2>1
  <2>5. f[m] = a \o b
    <3>1. f[m] = f[m - 1] \o w[m]
      BY <1>3, <2>3
    <3> QED
      BY <2>3, <2>4, <3>1
  <2>6. k \in DOMAIN a
    BY <2>2, <2>4
  <2>7. k \in DOMAIN (a \o b) /\ (a \o b)[k] = a[k]
    BY ONLY <2>6, a \in Seq(C), b \in Seq(C)
  <2> QED
    BY <2>2, <2>3, <2>4, <2>5, <2>7
<1>6. S = Nat
  <2>1. S \subseteq Nat
    OBVIOUS
  <2> HIDE DEF S
  <2> QED
    BY <1>4, <1>5, <2>1, SetInduction
<1>7. Has(Len(w))
  <2>1. Len(w) - i \in Nat /\ i + (Len(w) - i) = Len(w)
    BY <1>1
  <2>2. Len(w) - i \in S
    BY <1>6, <2>1
  <2> QED
    BY <1>1, <2>1, <2>2
<1>8. FlattenSeq(w) = f[Len(w)]
  BY <1>1, <1>2, FlattenIs
<1> QED
  BY <1>7, <1>8
===============================================================================
