---------------------------- MODULE NetdRingProofs ----------------------------
(***************************************************************************)
(* Proofs about NetdRing, for every capacity, every radix, every set of    *)
(* frames and every number of frames offered, when the consumer does not   *)
(* run inside push_frame (PREEMPTIBLE = FALSE: the kernel pushes received  *)
(* frames from the interrupt's bottom half).                               *)
(***************************************************************************)
EXTENDS NetdRing, CommonLemmas, SequenceTheorems, TLAPS

\* The encodings of a sequence of frames.
Enc(a) == [i \in DOMAIN a |-> Encode(a[i])]

\* What was taken, what is in the ring and what is still to be written.
Stream == (Popped \o queue) \o ToPush = FlattenSeq(Enc(accepted))

Shapes ==
    /\ push \in [pc : {"idle", "lo", "hi", "body"}, frame : Seq(Bytes)]
    /\ pop \in [pc : {"idle", "hi", "body"}, lo : Bytes, hi : Bytes]

\* The test of push_frame reserves the room of all three writes, so that
\* none of them is cut short.
RoomKept == Len(queue) + Len(ToPush) <= DATA_CAPACITY

\* The two bytes of the length lose nothing of an accepted frame's length.
TwoByteLengths == \A i \in 1 .. Len(accepted) : Len(accepted[i]) < RADIX * RADIX

IInv == TypeOK /\ Stream /\ Shapes /\ RoomKept /\ TwoByteLengths

-----------------------------------------------------------------------------
(* What FlattenSeq computes: its recursion as an equation, then by induction *)
(* on the index what it makes of Append and of Tail.                         *)

FlatFun(q) == CHOOSE f : f = [i \in 1 .. Len(q) |-> IF i = 1 THEN q[i] ELSE f[i - 1] \o q[i]]

LEMMA FlatUnfold == ASSUME NEW q, Len(q) # 0 PROVE FlattenSeq(q) = FlatFun(q)[Len(q)]
  BY Zenon DEF FlattenSeq, FlatFun

IsFlat(q, f, n) == f = [i \in 1 .. n |-> IF i = 1 THEN q[i] ELSE f[i - 1] \o q[i]]

\* The recursive function FlattenSeq chooses satisfies its defining equation:
\* by induction on n there is a function that does on 1 .. n.
LEMMA FlatIs == 
  ASSUME NEW q, Len(q) \in Nat
  PROVE  \A i \in 1 .. Len(q) : FlatFun(q)[i] = IF i = 1 THEN q[i] ELSE FlatFun(q)[i - 1] \o q[i]
  <1> DEFINE S == {n \in Nat : \E f : IsFlat(q, f, n)}
  <1>1. 0 \in S
    <2>1. PICK f : f = [i \in 1 .. 0 |-> q[i]]
      OBVIOUS
    <2>2. IsFlat(q, f, 0)
      BY <2>1 DEF IsFlat
    <2> QED  BY <2>2
  <1>2. ASSUME NEW n \in Nat, n \in S PROVE n + 1 \in S
    <2>1. PICK f : IsFlat(q, f, n)
      BY <1>2
    <2> DEFINE E(g, i) == IF i = 1 THEN q[i] ELSE g[i - 1] \o q[i]
               g == [i \in 1 .. n + 1 |-> IF i <= n THEN f[i] ELSE E(f, i)]
    <2>2. \A i \in 1 .. n : f[i] = E(f, i)
      BY <2>1 DEF IsFlat
    <2>3. \A i \in 1 .. n + 1 : g[i] = E(g, i)
      <3>1. ASSUME NEW i \in 1 .. n + 1 PROVE g[i] = E(g, i)
        <4>1. i # 1 => i - 1 \in 1 .. n /\ g[i - 1] = f[i - 1]
          OBVIOUS
        <4>2. g[i] = E(f, i)
          BY <2>2
        <4> QED  BY <4>1, <4>2
      <3> QED  BY <3>1
    <2>4. g = [i \in 1 .. n + 1 |-> E(g, i)]
      <3> DEFINE h == [i \in 1 .. n + 1 |-> E(g, i)]
      <3>1. h = [i \in 1 .. n + 1 |-> h[i]] /\ g = [i \in 1 .. n + 1 |-> g[i]]
        OBVIOUS
      <3>2. \A i \in 1 .. n + 1 : h[i] = E(g, i)
        <4> HIDE DEF g, E
        <4> QED  OBVIOUS
      <3> HIDE DEF g, h, E
      <3> QED  BY <2>3, <3>1, <3>2
    <2>5. IsFlat(q, g, n + 1)
      BY <2>4 DEF IsFlat
    <2> HIDE DEF g
    <2> QED  BY <2>5
  <1>3. \A n \in Nat : n \in S
    <2> HIDE DEF S
    <2> QED  BY <1>1, <1>2, SetInduction
  <1>4. PICK f : IsFlat(q, f, Len(q))
    BY <1>3
  <1>5. IsFlat(q, FlatFun(q), Len(q))
    <2>1. FlatFun(q) = CHOOSE h : IsFlat(q, h, Len(q))
      BY Zenon DEF FlatFun, IsFlat
    <2> QED  BY <1>4, <2>1, Zenon
  <1> DEFINE F == FlatFun(q)
             W(i) == IF i = 1 THEN q[i] ELSE F[i - 1] \o q[i]
  <1>6. F = [i \in 1 .. Len(q) |-> W(i)]
    BY <1>5, Zenon DEF IsFlat
  <1>7. \A i \in 1 .. Len(q) : F[i] = W(i)
    <2> HIDE DEF F, W
    <2> QED  BY <1>6
  <1> QED  BY <1>7

LEMMA FlatFirst ==
  ASSUME NEW S, NEW q \in Seq(Seq(S)), Len(q) # 0
  PROVE  FlatFun(q)[1] = q[1] /\ q[1] \in Seq(S) /\ Len(q) \in Nat /\ 1 \in 1 .. Len(q)
  <1>1. Len(q) \in Nat /\ 1 \in 1 .. Len(q)
    OBVIOUS
  <1> QED  BY <1>1, FlatIs, ElementOfSeq

LEMMA FlatStep ==
  ASSUME NEW S, NEW q \in Seq(Seq(S)), NEW i \in Nat, 1 <= i, i + 1 <= Len(q)
  PROVE  FlatFun(q)[i + 1] = FlatFun(q)[i] \o q[i + 1] /\ q[i + 1] \in Seq(S)
  <1>1. Len(q) \in Nat /\ i + 1 \in 1 .. Len(q) /\ i + 1 # 1 /\ (i + 1) - 1 = i
    OBVIOUS
  <1>2. FlatFun(q)[i + 1] = FlatFun(q)[(i + 1) - 1] \o q[i + 1]
    BY <1>1, FlatIs
  <1> QED  BY <1>1, <1>2, ElementOfSeq

\* Induction on the positions of a sequence.
LEMMA RangeInduction ==
  ASSUME NEW n \in Nat, NEW T, n # 0 => 1 \in T,
         \A i \in Nat : 1 <= i /\ i + 1 <= n /\ i \in T => i + 1 \in T
  PROVE  \A i \in 1 .. n : i \in T
  <1> DEFINE R == {i \in Nat : i + 1 <= n => i + 1 \in T}
  <1>1. 0 \in R
    <2>1. 0 + 1 = 1
      OBVIOUS
    <2> QED  BY <2>1
  <1>2. ASSUME NEW j \in Nat, j \in R PROVE j + 1 \in R
    <2>1. PICK i \in Nat : i = j + 1 /\ 1 <= i
      OBVIOUS
    <2>2. i <= n => i \in T
      BY <1>2, <2>1
    <2>3. i + 1 <= n => i + 1 \in T
      BY <2>1, <2>2
    <2> QED  BY <2>1, <2>3
  <1>3. \A i \in Nat : i \in R
    <2> HIDE DEF R
    <2> QED  BY <1>1, <1>2, SetInduction
  <1>4. ASSUME NEW i \in 1 .. n PROVE i \in T
    <2>1. PICK j \in Nat : j + 1 = i
      <3>1. i - 1 \in Nat /\ (i - 1) + 1 = i
        OBVIOUS
      <3> QED  BY <3>1
    <2>2. j \in R
      BY <1>3
    <2> QED  BY <2>1, <2>2
  <1> QED  BY <1>4

LEMMA FlatType ==
  ASSUME NEW S, NEW q \in Seq(Seq(S))
  PROVE  (\A i \in 1 .. Len(q) : FlatFun(q)[i] \in Seq(S)) /\ FlattenSeq(q) \in Seq(S)
  <1> DEFINE T == {i \in Nat : FlatFun(q)[i] \in Seq(S)}
  <1>0. Len(q) \in Nat
    OBVIOUS
  <1>1. ASSUME Len(q) # 0 PROVE 1 \in T
    BY <1>1, FlatFirst
  <1>2. ASSUME NEW i \in Nat, 1 <= i, i + 1 <= Len(q), i \in T PROVE i + 1 \in T
    <2>1. FlatFun(q)[i + 1] = FlatFun(q)[i] \o q[i + 1] /\ q[i + 1] \in Seq(S)
      BY <1>2, FlatStep, Zenon
    <2>2. FlatFun(q)[i] \in Seq(S)
      BY <1>2
    <2>3. FlatFun(q)[i] \o q[i + 1] \in Seq(S)
      BY <2>1, <2>2, ConcatProperties
    <2>4. i + 1 \in Nat /\ FlatFun(q)[i + 1] \in Seq(S)
      BY <2>1, <2>3
    <2> QED  BY <2>4
  <1>3. \A i \in 1 .. Len(q) : i \in T
    <2> HIDE DEF T
    <2> QED  BY <1>0, <1>1, <1>2, RangeInduction
  <1>4. \A i \in 1 .. Len(q) : FlatFun(q)[i] \in Seq(S)
    BY <1>3
  <1>5. CASE Len(q) = 0
    <2>1. FlattenSeq(q) = q
      BY <1>5, Zenon DEF FlattenSeq
    <2>2. q = <<>>
      BY <1>5, EmptySeq
    <2>3. FlattenSeq(q) \in Seq(S)
      BY <2>1, <2>2, EmptySeq
    <2> QED  BY <1>4, <2>3
  <1>6. CASE Len(q) # 0
    <2>1. Len(q) \in 1 .. Len(q)
      BY <1>0, <1>6
    <2>2. FlatFun(q)[Len(q)] \in Seq(S)
      BY <1>4, <2>1
    <2>3. FlattenSeq(q) = FlatFun(q)[Len(q)]
      BY <1>6, FlatUnfold, Zenon
    <2> QED  BY <1>4, <2>2, <2>3
  <1> QED  BY <1>5, <1>6

LEMMA FlatPrefix ==
  ASSUME NEW S, NEW q \in Seq(Seq(S)), NEW r \in Seq(Seq(S)), NEW n \in Nat, n <= Len(q), n <= Len(r),
         \A i \in 1 .. n : q[i] = r[i]
  PROVE  \A i \in 1 .. n : FlatFun(q)[i] = FlatFun(r)[i]
  <1> DEFINE T == {i \in Nat : FlatFun(q)[i] = FlatFun(r)[i]}
  <1>0. Len(q) \in Nat /\ Len(r) \in Nat
    OBVIOUS
  <1>1. ASSUME n # 0 PROVE 1 \in T
    <2>1. Len(q) # 0 /\ Len(r) # 0 /\ 1 \in 1 .. n
      BY <1>0, <1>1
    <2>2. FlatFun(q)[1] = q[1]
      BY <2>1, FlatFirst, Zenon
    <2>3. FlatFun(r)[1] = r[1]
      BY <2>1, FlatFirst, Zenon
    <2>4. q[1] = r[1]
      BY <2>1
    <2> QED  BY <2>2, <2>3, <2>4
  <1>2. ASSUME NEW i \in Nat, 1 <= i, i + 1 <= n, i \in T PROVE i + 1 \in T
    <2>1. i + 1 <= Len(q) /\ i + 1 <= Len(r) /\ i + 1 \in 1 .. n
      BY <1>0, <1>2
    <2>2. FlatFun(q)[i + 1] = FlatFun(q)[i] \o q[i + 1]
      BY <1>2, <2>1, FlatStep, Zenon
    <2>3. FlatFun(r)[i + 1] = FlatFun(r)[i] \o r[i + 1]
      BY <1>2, <2>1, FlatStep, Zenon
    <2>4. FlatFun(q)[i] = FlatFun(r)[i]
      BY <1>2
    <2>5. q[i + 1] = r[i + 1]
      BY <2>1
    <2>6. FlatFun(q)[i + 1] = FlatFun(r)[i + 1]
      BY <2>2, <2>3, <2>4, <2>5, Zenon
    <2> QED  BY <2>6
  <1>3. \A i \in 1 .. n : i \in T
    <2> HIDE DEF T
    <2> QED  BY <1>1, <1>2, RangeInduction
  <1> QED  BY <1>3

LEMMA FlatEmpty == ASSUME NEW q, Len(q) = 0 PROVE FlattenSeq(q) = q
  BY Zenon DEF FlattenSeq

\* Flattening after a push of one more piece.
LEMMA FlatAppend ==
  ASSUME NEW S, NEW q \in Seq(Seq(S)), NEW x \in Seq(S)
  PROVE  FlattenSeq(Append(q, x)) = FlattenSeq(q) \o x
  <1>1. PICK r \in Seq(Seq(S)), n \in Nat : /\ r = Append(q, x) /\ n = Len(q) /\ Len(r) = n + 1
                                            /\ r[n + 1] = x /\ \A i \in 1 .. n : r[i] = q[i]
    <2>1. /\ Append(q, x) \in Seq(Seq(S))
          /\ Len(Append(q, x)) = Len(q) + 1
          /\ \A i \in 1 .. Len(q) : Append(q, x)[i] = q[i]
          /\ Append(q, x)[Len(q) + 1] = x
      OBVIOUS
    <2>2. Len(q) \in Nat
      OBVIOUS
    <2> QED  BY <2>1, <2>2, Zenon
  <1>2. FlattenSeq(r) = FlatFun(r)[n + 1]
    <2>1. Len(r) # 0
      BY <1>1
    <2>2. FlattenSeq(r) = FlatFun(r)[Len(r)]
      BY <2>1, FlatUnfold, Zenon
    <2> QED  BY <1>1, <2>2, Zenon
  <1>3. CASE n = 0
    <2>0. Len(r) # 0 /\ n + 1 = 1 /\ Len(q) = 0
      BY <1>1, <1>3
    <2>1. FlatFun(r)[1] = r[1]
      BY <2>0, FlatFirst, Zenon
    <2>2. FlattenSeq(q) = q /\ q = <<>>
      BY <2>0, FlatEmpty, EmptySeq
    <2>3. <<>> \o x = x
      BY ConcatEmptySeq
    <2>4. r[1] = x
      BY <1>1, <2>0
    <2> QED  BY <1>1, <1>2, <2>0, <2>1, <2>2, <2>3, <2>4, Zenon
  <1>4. CASE n # 0
    <2>0. 1 <= n /\ n + 1 <= Len(r) /\ n <= Len(r) /\ n <= Len(q) /\ n \in 1 .. n /\ Len(q) # 0
      BY <1>1, <1>4
    <2>1. FlatFun(r)[n + 1] = FlatFun(r)[n] \o r[n + 1]
      BY <2>0, FlatStep, Zenon
    <2>2. \A i \in 1 .. n : FlatFun(r)[i] = FlatFun(q)[i]
      BY <1>1, <2>0, FlatPrefix, Zenon
    <2>3. FlattenSeq(q) = FlatFun(q)[Len(q)]
      BY <2>0, FlatUnfold, Zenon
    <2>4. FlatFun(r)[n] = FlatFun(q)[n]
      BY <2>0, <2>2, Zenon
    <2> QED  BY <1>1, <1>2, <2>1, <2>3, <2>4, Zenon
  <1> QED  BY <1>3, <1>4

\* Flattening splits off the first piece.
LEMMA FlatCons ==
  ASSUME NEW S, NEW q \in Seq(Seq(S)), Len(q) # 0
  PROVE  /\ q[1] \in Seq(S) /\ Tail(q) \in Seq(Seq(S)) /\ FlattenSeq(Tail(q)) \in Seq(S)
         /\ FlattenSeq(q) = q[1] \o FlattenSeq(Tail(q))
  <1>1. q[1] \in Seq(S) /\ Len(q) \in Nat /\ q # <<>>
    BY FlatFirst, EmptySeq
  <1>2. PICK r \in Seq(Seq(S)), n \in Nat : /\ r = Tail(q) /\ n = Len(r) /\ Len(q) = n + 1
                                            /\ \A i \in 1 .. n : r[i] = q[i + 1]
    <2>1. /\ Tail(q) \in Seq(Seq(S)) /\ Len(Tail(q)) = Len(q) - 1
          /\ \A i \in 1 .. Len(Tail(q)) : Tail(q)[i] = q[i + 1]
      BY <1>1
    <2>2. Len(q) - 1 \in Nat /\ Len(q) = (Len(q) - 1) + 1
      BY <1>1
    <2> QED  BY <2>1, <2>2
  <1>3. FlattenSeq(r) \in Seq(S) /\ \A i \in 1 .. n : FlatFun(r)[i] \in Seq(S)
    BY <1>2, FlatType, Zenon
  <1>4. FlattenSeq(q) = FlatFun(q)[Len(q)] /\ FlatFun(q)[1] = q[1]
    BY FlatUnfold, FlatFirst, Zenon
  <1>5. CASE n = 0
    <2>1. FlattenSeq(r) = <<>>
      BY <1>2, <1>5, FlatEmpty, EmptySeq
    <2>2. Len(q) = 1
      BY <1>2, <1>5
    <2>3. q[1] \o <<>> = q[1]
      BY <1>1, ConcatEmptySeq
    <2> QED  BY <1>1, <1>2, <1>3, <1>4, <2>1, <2>2, <2>3, Zenon
  <1>6. CASE n # 0
    <2> DEFINE T == {i \in Nat : FlatFun(q)[i + 1] = q[1] \o FlatFun(r)[i]}
    <2>1. 1 \in T
      <3>0. Len(r) # 0 /\ 1 <= 1 /\ 1 + 1 <= Len(q) /\ 1 \in Nat /\ 1 \in 1 .. n
        BY <1>2, <1>6
      <3>1. FlatFun(q)[1 + 1] = FlatFun(q)[1] \o q[1 + 1]
        BY <3>0, FlatStep, Zenon
      <3>2. FlatFun(r)[1] = r[1]
        BY <3>0, FlatFirst, Zenon
      <3>3. r[1] = q[1 + 1]
        BY <1>2, <3>0, Zenon
      <3>4. FlatFun(q)[1 + 1] = q[1] \o FlatFun(r)[1]
        BY <1>4, <3>1, <3>2, <3>3, Zenon
      <3> QED  BY <3>4
    <2>2. ASSUME NEW i \in Nat, 1 <= i, i + 1 <= n, i \in T PROVE i + 1 \in T
      <3>1. PICK k \in Nat : k = i + 1 /\ 1 <= k /\ k + 1 <= Len(q) /\ i + 1 \in 1 .. n /\ i \in 1 .. n /\ i + 1 <= Len(r)
        BY <1>2, <2>2
      <3>2. FlatFun(q)[k] = q[1] \o FlatFun(r)[i]
        BY <2>2, <3>1
      <3>3. FlatFun(q)[k + 1] = FlatFun(q)[k] \o q[k + 1] /\ q[k + 1] \in Seq(S)
        BY <3>1, FlatStep, Zenon
      <3>4. FlatFun(r)[i + 1] = FlatFun(r)[i] \o r[i + 1]
        BY <2>2, <3>1, FlatStep, Zenon
      <3>5. r[i + 1] = q[(i + 1) + 1]
        BY <1>2, <3>1, Zenon
      <3>6. FlatFun(r)[i] \in Seq(S)
        BY <1>3, <3>1
      <3>7. (q[1] \o FlatFun(r)[i]) \o q[k + 1] = q[1] \o (FlatFun(r)[i] \o q[k + 1])
        <4> DEFINE a == q[1]  b == FlatFun(r)[i]  c == q[k + 1]
        <4>1. a \in Seq(S) /\ b \in Seq(S) /\ c \in Seq(S)
          BY <1>1, <3>3, <3>6
        <4> HIDE DEF a, b, c
        <4>2. (a \o b) \o c = a \o (b \o c)
          BY <4>1
        <4> QED  BY <4>2 DEF a, b, c
      <3>8. FlatFun(q)[(i + 1) + 1] = q[1] \o FlatFun(r)[i + 1]
        BY <3>1, <3>2, <3>3, <3>4, <3>5, <3>7, Zenon
      <3>9. i + 1 \in Nat
        OBVIOUS
      <3> QED  BY <3>8, <3>9
    <2>3. \A i \in 1 .. n : i \in T
      <3> HIDE DEF T
      <3> QED  BY <1>6, <2>1, <2>2, RangeInduction
    <2>4. n \in 1 .. n /\ Len(r) # 0
      BY <1>2, <1>6
    <2>5. FlatFun(q)[n + 1] = q[1] \o FlatFun(r)[n]
      BY <2>3, <2>4
    <2>6. FlattenSeq(r) = FlatFun(r)[Len(r)]
      BY <2>4, FlatUnfold, Zenon
    <2> QED  BY <1>1, <1>2, <1>3, <1>4, <2>5, <2>6, Zenon
  <1> QED  BY <1>5, <1>6

-----------------------------------------------------------------------------
(* Sequences of bytes. *)

LEMMA PairIs == ASSUME NEW S, NEW a \in S, NEW b \in S PROVE <<a>> \o <<b>> = <<a, b>>
  <1>1. <<a>> \o <<b>> \in Seq(S) /\ <<a, b>> \in Seq(S)
    OBVIOUS
  <1>2. Len(<<a>> \o <<b>>) = 2 /\ Len(<<a, b>>) = 2
    OBVIOUS
  <1>3. (<<a>> \o <<b>>)[1] = a /\ (<<a>> \o <<b>>)[2] = b
    OBVIOUS
  <1>4. \A i \in 1 .. 2 : i = 1 \/ i = 2
    OBVIOUS
  <1>5. PICK u \in Seq(S), v \in Seq(S) : u = <<a>> \o <<b>> /\ v = <<a, b>>
    BY <1>1, Zenon
  <1>6. Len(u) = Len(v) /\ Len(u) = 2
    BY <1>2, <1>5, Zenon
  <1>7. v[1] = a /\ v[2] = b
    BY <1>5
  <1>8. u[1] = a /\ u[2] = b
    BY <1>3, <1>5, Zenon
  <1>9. \A i \in 1 .. Len(u) : u[i] = v[i]
    BY <1>4, <1>6, <1>7, <1>8, Zenon
  <1>10. u = v
    BY <1>6, <1>9, SeqEqual, Zenon
  <1> QED  BY <1>5, <1>10, Zenon

\* A queue is its first byte and the rest.
LEMMA TakeFirst ==
  ASSUME NEW S, NEW q \in Seq(S), Len(q) >= 1
  PROVE  /\ Head(q) \in S /\ SubSeq(q, 1 + 1, Len(q)) \in Seq(S)
         /\ Len(SubSeq(q, 1 + 1, Len(q))) = Len(q) - 1
         /\ q = <<Head(q)>> \o SubSeq(q, 1 + 1, Len(q))
  <1>1. Head(q) = q[1] /\ 1 + 1 = 2 /\ Len(q) \in Nat /\ 1 \in 1 .. Len(q)
    OBVIOUS
  <1>2. Head(q) \in S
    BY <1>1
  <1>3. SubSeq(q, 2, Len(q)) \in Seq(S) /\ Len(SubSeq(q, 2, Len(q))) = Len(q) - 1
    <2>1. q # <<>>
      BY <1>1
    <2>2. Tail(q) = SubSeq(q, 2, Len(q))
      BY <2>1, TailIsSubSeq, Zenon
    <2>3. Tail(q) \in Seq(S) /\ Len(Tail(q)) = Len(q) - 1
      BY <2>1, HeadTailProperties, Zenon
    <2> QED  BY <2>2, <2>3, Zenon
  <1>4. q = <<q[1]>> \o SubSeq(q, 2, Len(q))
    OBVIOUS
  <1> QED  BY <1>1, <1>2, <1>3, <1>4

\* Encoded streams that agree start with the same length and body.
SameStart(a, b, q, c, d, f, r) == <<a, b>> \o q = (<<c, d>> \o f) \o r

LEMMA SplitFirst ==
  ASSUME NEW a \in Bytes, NEW b \in Bytes, NEW c \in Bytes, NEW d \in Bytes,
         NEW q \in Seq(Bytes), NEW f \in Seq(Bytes), NEW r \in Seq(Bytes),
         SameStart(a, b, q, c, d, f, r)
  PROVE  a = c /\ b = d /\ q = f \o r
  <1> DEFINE u == <<a, b>> \o q
             v == (<<c, d>> \o f) \o r
  <1>1. /\ u \in Seq(Bytes) /\ Len(u) = 2 + Len(q) /\ u[1] = a /\ u[2] = b
        /\ \A i \in 1 .. Len(q) : u[i + 2] = q[i]
    OBVIOUS
  <1>2. /\ v \in Seq(Bytes) /\ Len(v) = 2 + (Len(f) + Len(r)) /\ v[1] = c /\ v[2] = d
        /\ \A i \in 1 .. Len(f) + Len(r) : v[i + 2] = (f \o r)[i]
    OBVIOUS
  <1>3. a = c /\ b = d
    <2> HIDE DEF u, v
    <2>1. u = v
      BY DEF u, v, SameStart
    <2> QED  BY <1>1, <1>2, <2>1, Zenon
  <1>4. PICK w \in Seq(Bytes) : w = f \o r /\ Len(w) = Len(f) + Len(r)
    <2>1. f \o r \in Seq(Bytes) /\ Len(f \o r) = Len(f) + Len(r)
      OBVIOUS
    <2> QED  BY <2>1, Zenon
  <1>5. Len(q) = Len(w) /\ \A i \in 1 .. Len(q) : q[i] = w[i]
    <2>1. u = v
      BY DEF u, v, SameStart
    <2>2. Len(q) \in Nat /\ Len(f) \in Nat /\ Len(r) \in Nat
      OBVIOUS
    <2> HIDE DEF u, v
    <2>3. Len(q) = Len(f) + Len(r)
      BY <1>1, <1>2, <2>1, <2>2
    <2> QED  BY <1>1, <1>2, <1>4, <2>1, <2>3
  <1>6. q = w
    BY <1>5, SeqEqual, Zenon
  <1> QED  BY <1>3, <1>4, <1>6

\* A pop of Len(f) bytes splits f \o r at f.
LEMMA TakePrefix ==
  ASSUME NEW S, NEW f \in Seq(S), NEW r \in Seq(S)
  PROVE  /\ SubSeq(f \o r, 1, Len(f)) = f
         /\ SubSeq(f \o r, Len(f) + 1, Len(f \o r)) = r
  <1>1. f \o r \in Seq(S) /\ Len(f \o r) = Len(f) + Len(r) /\ Len(f) \in Nat /\ Len(r) \in Nat
    OBVIOUS
  <1>2. SubSeq(f \o r, 1, Len(f)) = f
    BY <1>1
  <1>3. SubSeq(f \o r, Len(f) + 1, Len(f) + Len(r)) = r
    BY <1>1
  <1> QED  BY <1>1, <1>2, <1>3

-----------------------------------------------------------------------------
(* The two bytes of a length. *)

\* pop_frame_len puts together what push_frame took apart.
LEMMA LengthBytes ==
  ASSUME NEW n \in Nat, n < RADIX * RADIX
  PROVE  /\ n % RADIX \in Bytes /\ (n \div RADIX) % RADIX \in Bytes
         /\ (n % RADIX) + RADIX * ((n \div RADIX) % RADIX) = n
  <1>0. RADIX \in Nat \ {0} /\ Bytes = 0 .. RADIX - 1
    BY RadixAssumption
  <1>1. PICK a \in Int, b \in 0 .. RADIX - 1 : a = n \div RADIX /\ b = n % RADIX /\ n = RADIX * a + b
    BY <1>0, DivMod
  <1>2. a >= 0
    <2>1. CASE a < 0
      <3>1. RADIX * a + RADIX <= RADIX * 0
        BY <1>0, <2>1, MulStep
      <3>2. RADIX * a \in Int /\ RADIX * 0 = 0
        BY <1>0
      <3> QED  BY <1>0, <1>1, <3>1, <3>2
    <2> QED  BY <2>1
  <1>3. a < RADIX
    <2>1. CASE RADIX < a
      <3>1. RADIX * RADIX + RADIX <= RADIX * a
        BY <1>0, <2>1, MulStep
      <3>2. RADIX * a \in Int /\ RADIX * RADIX \in Int
        BY <1>0
      <3> QED  BY <1>0, <1>1, <3>1, <3>2
    <2>2. CASE RADIX = a
      <3>1. RADIX * a \in Int
        BY <1>0
      <3>2. n >= RADIX * a
        BY <1>0, <1>1, <3>1
      <3> QED  BY <2>2, <3>2, <1>0, <3>1
    <2> QED  BY <1>0, <2>1, <2>2
  <1>4. a % RADIX = a
    <2>1. a \in Nat /\ a \in 0 .. RADIX - 1 /\ a = RADIX * 0 + a
      BY <1>0, <1>2, <1>3
    <2> QED  BY <1>0, <2>1, ModUnique
  <1>5. RADIX * a \in Int
    BY <1>0
  <1> QED  BY <1>0, <1>1, <1>2, <1>3, <1>4, <1>5

\* The encoding is a sequence of bytes, two longer than the frame.
LEMMA EncodeType ==
  ASSUME NEW f \in Seq(Bytes)
  PROVE  /\ len_lo(f) \in Bytes /\ len_hi(f) \in Bytes
         /\ Encode(f) \in Seq(Bytes) /\ Len(Encode(f)) = Len(f) + 2
         /\ Encode(f) = <<len_lo(f)>> \o Tail(Encode(f))
         /\ Tail(Encode(f)) = <<len_hi(f)>> \o f
         /\ Tail(Encode(f)) \in Seq(Bytes) /\ Len(Tail(Encode(f))) = Len(f) + 1
  <1>1. PICK a, b : a = len_lo(f) /\ b = len_hi(f)
    OBVIOUS
  <1>2. a \in Bytes /\ b \in Bytes
    <2>0. RADIX \in Nat \ {0} /\ Bytes = 0 .. RADIX - 1 /\ Len(f) \in Nat
      BY RadixAssumption
    <2>1. a \in Bytes
      BY <1>1, <2>0, DivMod DEF len_lo
    <2>2. PICK d \in Int : d = Len(f) \div RADIX
      BY <2>0, DivMod
    <2>3. d % RADIX \in 0 .. RADIX - 1
      BY <2>0
    <2> QED  BY <1>1, <2>0, <2>1, <2>2, <2>3 DEF len_hi
  <1>3. Encode(f) = <<a, b>> \o f
    BY <1>1 DEF Encode
  <1>4. /\ <<a, b>> \o f \in Seq(Bytes) /\ Len(<<a, b>> \o f) = Len(f) + 2
        /\ Tail(<<a, b>> \o f) = <<b>> \o f
        /\ <<a, b>> \o f = <<a>> \o (<<b>> \o f)
        /\ <<b>> \o f \in Seq(Bytes) /\ Len(<<b>> \o f) = Len(f) + 1
    <2>1. <<a, b>> \o f \in Seq(Bytes) /\ Len(<<a, b>> \o f) = Len(f) + 2
      BY <1>2
    <2>2. <<b>> \o f \in Seq(Bytes) /\ Len(<<b>> \o f) = Len(f) + 1
      BY <1>2
    <2>3. <<a, b>> \o f = <<a>> \o (<<b>> \o f)
      <3>0. <<a>> \in Seq(Bytes) /\ <<b>> \in Seq(Bytes)
        BY <1>2
      <3>1. PICK u \in Seq(Bytes), v \in Seq(Bytes) : u = <<a>> /\ v = <<b>>
        BY <3>0, Zenon
      <3>2. u \o v = <<a, b>>
        <4>1. <<a>> \o <<b>> = <<a, b>>
          BY <1>2, PairIs
        <4> QED  BY <3>1, <4>1, Zenon
      <3>3. (u \o v) \o f = u \o (v \o f)
        OBVIOUS
      <3> QED  BY <3>1, <3>2, <3>3, Zenon
    <2>4. Tail(<<a, b>> \o f) = <<b>> \o f
      <3>1. PICK u \in Seq(Bytes), v \in Seq(Bytes) : u = <<a, b>> \o f /\ v = <<b>> \o f
        BY <2>1, <2>2, Zenon
      <3>2. Len(u) = Len(f) + 2 /\ Len(v) = Len(f) + 1 /\ Len(f) \in Nat
        BY <2>1, <2>2, <3>1
      <3>3. \A i \in 1 .. Len(v) : u[i + 1] = v[i]
        BY <1>2, <3>1, <3>2
      <3>4. Tail(u) \in Seq(Bytes) /\ Len(Tail(u)) = Len(v) /\ \A i \in 1 .. Len(v) : Tail(u)[i] = u[i + 1]
        BY <3>2
      <3>5. Tail(u) = v
        BY <3>3, <3>4
      <3> QED  BY <3>1, <3>5, Zenon
    <2> QED  BY <2>1, <2>2, <2>3, <2>4
  <1> QED  BY <1>1, <1>2, <1>3, <1>4, Zenon

-----------------------------------------------------------------------------
(* The encodings of the accepted frames. *)

LEMMA EncType ==
  ASSUME NEW a \in Seq(Frames)
  PROVE  /\ Enc(a) \in Seq(Seq(Bytes)) /\ Len(Enc(a)) = Len(a)
         /\ \A i \in 1 .. Len(a) : a[i] \in Seq(Bytes) /\ Enc(a)[i] = Encode(a[i])
  <1>1. Len(a) \in Nat /\ DOMAIN a = 1 .. Len(a)
    OBVIOUS
  <1>2. \A i \in 1 .. Len(a) : a[i] \in Seq(Bytes)
    BY FrameAssumption
  <1>3. \A i \in 1 .. Len(a) : Encode(a[i]) \in Seq(Bytes)
    BY <1>2, EncodeType
  <1>4. Enc(a) = [i \in 1 .. Len(a) |-> Encode(a[i])]
    BY <1>1 DEF Enc
  <1>5. Enc(a) \in [1 .. Len(a) -> Seq(Bytes)]
    BY <1>3, <1>4
  <1>6. \A i \in 1 .. Len(a) : Enc(a)[i] = Encode(a[i])
    BY <1>4
  <1>7. Enc(a) \in Seq(Seq(Bytes)) /\ Len(Enc(a)) = Len(a)
    BY <1>1, <1>5
  <1> QED  BY <1>2, <1>6, <1>7

LEMMA EncAppend ==
  ASSUME NEW a \in Seq(Frames), NEW f \in Frames
  PROVE  FlattenSeq(Enc(Append(a, f))) = FlattenSeq(Enc(a)) \o Encode(f)
  <1>1. PICK b \in Seq(Frames), n \in Nat : /\ b = Append(a, f) /\ n = Len(a) /\ Len(b) = n + 1
                                            /\ b[n + 1] = f /\ \A i \in 1 .. n : b[i] = a[i]
    <2>1. /\ Append(a, f) \in Seq(Frames) /\ Len(Append(a, f)) = Len(a) + 1
          /\ \A i \in 1 .. Len(a) : Append(a, f)[i] = a[i]
          /\ Append(a, f)[Len(a) + 1] = f /\ Len(a) \in Nat
      OBVIOUS
    <2> QED  BY <2>1, Zenon
  <1>2. f \in Seq(Bytes)
    BY FrameAssumption
  <1>3. PICK x \in Seq(Bytes) : x = Encode(f)
    BY <1>2, EncodeType
  <1>4. PICK ea \in Seq(Seq(Bytes)) : ea = Enc(a) /\ Len(ea) = n /\ \A i \in 1 .. n : ea[i] = Encode(a[i])
    BY <1>1, EncType, Zenon
  <1>5. PICK eb \in Seq(Seq(Bytes)) : eb = Enc(b) /\ Len(eb) = n + 1 /\ \A i \in 1 .. n + 1 : eb[i] = Encode(b[i])
    BY <1>1, EncType, Zenon
  <1>6. PICK ex \in Seq(Seq(Bytes)) : /\ ex = Append(ea, x) /\ Len(ex) = n + 1
                                      /\ ex[n + 1] = x /\ \A i \in 1 .. n : ex[i] = ea[i]
    <2>1. /\ Append(ea, x) \in Seq(Seq(Bytes)) /\ Len(Append(ea, x)) = Len(ea) + 1
          /\ \A i \in 1 .. Len(ea) : Append(ea, x)[i] = ea[i]
          /\ Append(ea, x)[Len(ea) + 1] = x
      OBVIOUS
    <2> QED  BY <1>4, <2>1, Zenon
  <1>7. ASSUME NEW i \in 1 .. n + 1 PROVE eb[i] = ex[i]
    <2>1. CASE i = n + 1
      BY <1>1, <1>3, <1>5, <1>6, <2>1, Zenon
    <2>2. CASE i \in 1 .. n
      BY <1>1, <1>4, <1>5, <1>6, <2>2, Zenon
    <2>3. i = n + 1 \/ i \in 1 .. n
      OBVIOUS
    <2> QED  BY <2>1, <2>2, <2>3
  <1>8. eb = ex
    <2>1. Len(eb) = Len(ex) /\ \A i \in 1 .. Len(eb) : eb[i] = ex[i]
      BY <1>5, <1>6, <1>7, Zenon
    <2> QED  BY <2>1, SeqEqual, Zenon
  <1>9. FlattenSeq(Append(ea, x)) = FlattenSeq(ea) \o x
    BY FlatAppend, Zenon
  <1> QED  BY <1>1, <1>3, <1>4, <1>5, <1>6, <1>8, <1>9, Zenon

LEMMA EncTail ==
  ASSUME NEW a \in Seq(Frames), a # <<>>
  PROVE  /\ a[1] \in Seq(Bytes) /\ Tail(a) \in Seq(Frames)
         /\ FlattenSeq(Enc(Tail(a))) \in Seq(Bytes)
         /\ FlattenSeq(Enc(a)) = Encode(a[1]) \o FlattenSeq(Enc(Tail(a)))
  <1>0. Len(a) \in Nat /\ Len(a) # 0 /\ 1 \in 1 .. Len(a)
    OBVIOUS
  <1>1. PICK b \in Seq(Frames), n \in Nat : /\ b = Tail(a) /\ n = Len(b) /\ Len(a) = n + 1
                                            /\ \A i \in 1 .. n : b[i] = a[i + 1]
    <2>1. /\ Tail(a) \in Seq(Frames) /\ Len(Tail(a)) = Len(a) - 1
          /\ \A i \in 1 .. Len(Tail(a)) : Tail(a)[i] = a[i + 1]
      BY HeadTailProperties, Zenon
    <2>2. Len(Tail(a)) \in Nat /\ Len(a) = Len(Tail(a)) + 1
      BY <1>0, <2>1
    <2> QED  BY <2>1, <2>2, Zenon
  <1>2. PICK ea \in Seq(Seq(Bytes)) : ea = Enc(a) /\ Len(ea) = n + 1 /\ \A i \in 1 .. n + 1 : ea[i] = Encode(a[i])
    BY <1>1, EncType, Zenon
  <1>3. PICK eb \in Seq(Seq(Bytes)) : eb = Enc(b) /\ Len(eb) = n /\ \A i \in 1 .. n : eb[i] = Encode(b[i])
    BY <1>1, EncType, Zenon
  <1>4. ea # <<>> /\ Len(ea) # 0 /\ 1 \in 1 .. n + 1
    BY <1>2
  <1>5. PICK et \in Seq(Seq(Bytes)) : et = Tail(ea) /\ Len(et) = n /\ \A i \in 1 .. n : et[i] = ea[i + 1]
    <2>1. /\ Tail(ea) \in Seq(Seq(Bytes)) /\ Len(Tail(ea)) = Len(ea) - 1
          /\ \A i \in 1 .. Len(Tail(ea)) : Tail(ea)[i] = ea[i + 1]
      BY <1>4, HeadTailProperties, Zenon
    <2>2. Len(Tail(ea)) = n
      BY <1>2, <2>1
    <2> QED  BY <2>1, <2>2, Zenon
  <1>6. ASSUME NEW i \in 1 .. n PROVE et[i] = eb[i]
    <2>1. i + 1 \in 1 .. n + 1
      OBVIOUS
    <2> QED  BY <1>1, <1>2, <1>3, <1>5, <2>1, Zenon
  <1>7. et = eb
    BY <1>3, <1>5, <1>6, SeqEqual, Zenon
  <1>8. /\ FlattenSeq(Tail(ea)) \in Seq(Bytes)
        /\ FlattenSeq(ea) = ea[1] \o FlattenSeq(Tail(ea))
    BY <1>4, FlatCons, Zenon
  <1>9. ea[1] = Encode(a[1]) /\ a[1] \in Seq(Bytes)
    BY <1>0, <1>2, <1>4, EncType, Zenon
  <1> QED  BY <1>1, <1>2, <1>3, <1>5, <1>7, <1>8, <1>9, Zenon

LEMMA PoppedIs == /\ pop.pc = "idle" => Popped = <<>>
                  /\ pop.pc = "hi"   => Popped = <<pop.lo>>
                  /\ pop.pc = "body" => Popped = <<pop.lo, pop.hi>>
  BY DEF Popped

LEMMA ToPushIs == /\ push.pc = "idle" => ToPush = <<>>
                  /\ push.pc = "lo"   => ToPush = Encode(push.frame)
                  /\ push.pc = "hi"   => ToPush = Tail(Encode(push.frame))
                  /\ push.pc = "body" => ToPush = push.frame
  BY DEF ToPush

\* The three parts of the stream are sequences of bytes.
LEMMA Pieces ==
  ASSUME IInv
  PROVE  /\ Popped \in Seq(Bytes) /\ queue \in Seq(Bytes) /\ ToPush \in Seq(Bytes)
         /\ push.frame \in Seq(Bytes)
  <1>1. push.pc \in {"idle", "lo", "hi", "body"} /\ push.frame \in Seq(Bytes)
    BY DEF IInv, Shapes
  <1>2. pop.pc \in {"idle", "hi", "body"} /\ pop.lo \in Bytes /\ pop.hi \in Bytes
    BY DEF IInv, Shapes
  <1>3. queue \in Seq(Bytes)
    BY DEF IInv, TypeOK
  <1>4. Popped \in Seq(Bytes)
    <2>1. <<>> \in Seq(Bytes) /\ <<pop.lo>> \in Seq(Bytes) /\ <<pop.lo, pop.hi>> \in Seq(Bytes)
      BY <1>2
    <2> QED  BY <1>2, <2>1, PoppedIs, Zenon
  <1>5. ToPush \in Seq(Bytes)
    <2>1. <<>> \in Seq(Bytes) /\ Encode(push.frame) \in Seq(Bytes) /\ Tail(Encode(push.frame)) \in Seq(Bytes)
      BY <1>1, EncodeType, EmptySeq, Zenon
    <2> QED  BY <1>1, <2>1, ToPushIs, Zenon
  <1> QED  BY <1>1, <1>3, <1>4, <1>5

-----------------------------------------------------------------------------
(* The inductive invariant. *)

LEMMA InitInv == Init => IInv
  <1> SUFFICES ASSUME Init PROVE IInv
    OBVIOUS
  <1>1. /\ queue = <<>> /\ push = Idle /\ pop = NoLen /\ accepted = <<>>
        /\ frames_dropped = 0 /\ delivered = 0
    BY DEF Init, FifoInit
  <1>2. push.pc = "idle" /\ push.frame = <<>> /\ pop.pc = "idle" /\ pop.lo = 0 /\ pop.hi = 0
    BY <1>1 DEF Idle, NoLen
  <1>3. 0 \in Bytes
    BY RadixAssumption
  <1>4. TypeOK
    BY <1>1, <1>2, <1>3, BoundAssumption DEF TypeOK
  <1>5. Shapes
    BY <1>1, <1>3 DEF Shapes, Idle, NoLen
  <1>6. Popped = <<>> /\ ToPush = <<>>
    BY <1>2, PoppedIs, ToPushIs
  <1>7. RoomKept
    BY <1>1, <1>6, BoundAssumption DEF RoomKept
  <1>8. TwoByteLengths
    BY <1>1 DEF TwoByteLengths
  <1>9. Stream
    <2>1. Enc(<<>>) = <<>>
      BY DEF Enc
    <2>2. FlattenSeq(<<>>) = <<>>
      <3>1. Len(<<>>) = 0
        OBVIOUS
      <3> QED  BY <3>1, FlatEmpty, Zenon
    <2>3. (<<>> \o <<>>) \o <<>> = <<>>
      OBVIOUS
    <2> QED  BY <1>1, <1>6, <2>1, <2>2, <2>3, Zenon DEF Stream
  <1> QED  BY <1>4, <1>5, <1>7, <1>8, <1>9 DEF IInv

\* What an accepted frame's length is worth.
LEMMA FitsTwoBytes ==
  ASSUME NEW n \in Nat, NEW k \in Nat, n <= MAX_FRAME, DATA_CAPACITY - k >= n + 2
  PROVE  n < RADIX * RADIX
  <1>1. PICK R \in Int : R = RADIX * RADIX
    BY RadixAssumption
  <1>2. MAX_FRAME < R \/ DATA_CAPACITY - 2 < R
    BY <1>1, LenAssumption, Zenon
  <1>3. n < R
    BY <1>1, <1>2, BoundAssumption
  <1> QED  BY <1>1, <1>3, Zenon

LEMMA PushBeginInv ==
  ASSUME IInv, NEW f \in Frames, PushBegin(f)
  PROVE  IInv'
  <1>1. /\ push.pc = "idle" /\ push' = [pc |-> "lo", frame |-> f] /\ accepted' = Append(accepted, f)
        /\ queue' = queue /\ pop' = pop /\ frames_dropped' = frames_dropped /\ delivered' = delivered
    BY DEF PushBegin, ring
  <1>2. f \in Seq(Bytes) /\ Len(f) \in Nat
    BY FrameAssumption
  <1>3. queue \in Seq(Bytes) /\ Len(queue) \in Nat /\ accepted \in Seq(Frames)
    BY DEF IInv, TypeOK
  <1>4. DATA_CAPACITY - Len(queue) >= Len(f) + 2 /\ Len(f) <= MAX_FRAME
    BY DEF PushBegin, Fits
  <1>5. push'.pc = "lo" /\ push'.frame = f
    BY <1>1
  <1>6. TypeOK'
    <2>1. accepted' \in Seq(Frames)
      BY <1>1, <1>3
    <2> QED  BY <1>1, <1>5, <2>1 DEF IInv, TypeOK
  <1>7. Shapes'
    BY <1>1, <1>2 DEF IInv, Shapes
  <1>8. Popped' = Popped /\ ToPush' = Encode(f) /\ ToPush = <<>>
    <2>1. ToPush' = Encode(push'.frame)
      BY <1>5 DEF ToPush, Encode, len_lo, len_hi
    <2> QED  BY <1>1, <1>5, <2>1, ToPushIs DEF Popped
  <1>9. RoomKept'
    <2>1. Len(Encode(f)) = Len(f) + 2
      BY <1>2, EncodeType
    <2> QED  BY <1>1, <1>2, <1>3, <1>4, <1>8, <2>1, BoundAssumption DEF RoomKept
  <1>10. TwoByteLengths'
    <2>1. Len(f) < RADIX * RADIX
      BY <1>2, <1>3, <1>4, FitsTwoBytes
    <2>2. PICK n \in Nat : /\ n = Len(accepted) /\ Len(accepted') = n + 1 /\ accepted'[n + 1] = f
                           /\ \A i \in 1 .. n : accepted'[i] = accepted[i]
      BY <1>1, <1>3
    <2>3. ASSUME NEW i \in 1 .. Len(accepted') PROVE Len(accepted'[i]) < RADIX * RADIX
      <3>1. i = n + 1 \/ i \in 1 .. n
        BY <2>2
      <3>2. CASE i = n + 1
        BY <2>1, <2>2, <3>2, Zenon
      <3>3. CASE i \in 1 .. n
        BY <2>2, <3>3, Zenon DEF IInv, TwoByteLengths
      <3> QED  BY <3>1, <3>2, <3>3
    <2> QED  BY <2>3 DEF TwoByteLengths
  <1>11. Stream'
    <2>1. PICK p \in Seq(Bytes), q \in Seq(Bytes), e \in Seq(Bytes) : p = Popped /\ q = queue /\ e = Encode(f)
      BY <1>2, Pieces, EncodeType, Zenon
    <2>2. ((p \o q) \o <<>>) \o e = (p \o q) \o e
      OBVIOUS
    <2>3. (p \o q) \o <<>> = FlattenSeq(Enc(accepted))
      BY <1>8, <2>1, Zenon DEF IInv, Stream
    <2>4. FlattenSeq(Enc(Append(accepted, f))) = FlattenSeq(Enc(accepted)) \o Encode(f)
      BY <1>3, EncAppend, Zenon
    <2>5. (p \o q) \o e = FlattenSeq(Enc(Append(accepted, f)))
      BY <2>1, <2>2, <2>3, <2>4, Zenon
    <2>6. (Popped' \o queue') \o ToPush' = (p \o q) \o e
      BY <1>1, <1>8, <2>1, Zenon
    <2>7. FlattenSeq(Enc(accepted')) = FlattenSeq(Enc(Append(accepted, f)))
      BY <1>1, Zenon
    <2>8. (Popped' \o queue') \o ToPush' = FlattenSeq(Enc(accepted'))
      BY <2>5, <2>6, <2>7, Zenon
    <2> QED  BY <2>8, Zenon DEF Stream, Enc, FlattenSeq, Encode, len_lo, len_hi
  <1> QED  BY <1>6, <1>7, <1>9, <1>10, <1>11 DEF IInv

LEMMA PushDropInv ==
  ASSUME IInv, NEW f \in Frames, PushDrop(f)
  PROVE  IInv'
  <1>1. /\ push' = push /\ accepted' = accepted /\ queue' = queue /\ pop' = pop
        /\ frames_dropped' = frames_dropped + 1 /\ delivered' = delivered
    BY DEF PushDrop, ring
  <1>2. TypeOK'
    BY <1>1 DEF IInv, TypeOK
  <1>3. Popped' = Popped /\ ToPush' = ToPush
    BY <1>1 DEF Popped, ToPush, Encode, len_lo, len_hi
  <1>4. Stream'
    <2>1. FlattenSeq(Enc(accepted)) = FlattenSeq(Enc(accepted'))
      BY <1>1, Zenon
    <2>2. (Popped' \o queue') \o ToPush' = FlattenSeq(Enc(accepted'))
      BY <1>1, <1>3, <2>1, Zenon DEF IInv, Stream
    <2> QED  BY <2>2, Zenon DEF Stream, Enc, FlattenSeq, Encode, len_lo, len_hi
  <1>5. Shapes' /\ RoomKept' /\ TwoByteLengths'
    BY <1>1, <1>3 DEF IInv, Shapes, RoomKept, TwoByteLengths
  <1> QED  BY <1>2, <1>4, <1>5 DEF IInv

\* What the three writes of push_frame have in common: a block moves from
\* what is to be written to the ring.
LEMMA WriteInv ==
  ASSUME IInv, NEW s \in Seq(Bytes), NEW t \in Seq(Bytes), ToPush = s \o t, ToPush' = t,
         inp' = s, queue' = queue \o s,
         push' \in [pc : {"idle", "lo", "hi", "body"}, frame : Seq(Bytes)],
         UNCHANGED <<pop, accepted, frames_dropped, delivered>>
  PROVE  IInv'
  <1>1. queue \in Seq(Bytes) /\ Len(queue) \in Nat /\ Len(s) \in Nat /\ Len(t) \in Nat
    BY DEF IInv, TypeOK
  <1>2. Len(s \o t) = Len(s) + Len(t) /\ queue' \in Seq(Bytes) /\ Len(queue') = Len(queue) + Len(s)
    BY <1>1
  <1>3. Len(queue) + (Len(s) + Len(t)) <= DATA_CAPACITY
    BY <1>2 DEF IInv, RoomKept
  <1>4. Len(queue') + Len(t) <= DATA_CAPACITY /\ Len(queue') <= DATA_CAPACITY
    BY <1>1, <1>2, <1>3, BoundAssumption
  <1>5. TypeOK'
    BY <1>2, <1>4 DEF IInv, TypeOK
  <1>6. Shapes' /\ TwoByteLengths'
    BY DEF IInv, Shapes, TwoByteLengths
  <1>7. RoomKept'
    BY <1>4 DEF RoomKept
  <1>8. Stream'
    <2>1. PICK p \in Seq(Bytes), q \in Seq(Bytes) : p = Popped /\ q = queue
      BY Pieces, Zenon
    <2>2. (p \o q) \o (s \o t) = (p \o (q \o s)) \o t
      <3>0. p \o q \in Seq(Bytes)
        OBVIOUS
      <3>1. PICK w \in Seq(Bytes) : w = p \o q
        BY <3>0, Zenon
      <3>2. w \o (s \o t) = (w \o s) \o t
        OBVIOUS
      <3>3. (p \o q) \o s = p \o (q \o s)
        OBVIOUS
      <3> QED  BY <3>1, <3>2, <3>3, Zenon
    <2>3. Popped' = Popped
      BY DEF Popped
    <2>4. (Popped' \o queue') \o ToPush' = FlattenSeq(Enc(accepted))
      BY <2>1, <2>2, <2>3, Zenon DEF IInv, Stream
    <2>5. FlattenSeq(Enc(accepted)) = FlattenSeq(Enc(accepted'))
      BY Zenon
    <2>6. (Popped' \o queue') \o ToPush' = FlattenSeq(Enc(accepted'))
      BY <2>4, <2>5, Zenon
    <2> QED  BY <2>6, Zenon DEF Stream, Enc, FlattenSeq, Encode, len_lo, len_hi
  <1> QED  BY <1>5, <1>6, <1>7, <1>8 DEF IInv

LEMMA PushLoInv ==
  ASSUME IInv, PushLo
  PROVE  IInv'
  <1>1. PICK f \in Seq(Bytes) : f = push.frame
    BY Pieces, Zenon
  <1>2. /\ push.pc = "lo" /\ push' = [push EXCEPT !.pc = "hi"]
        /\ inp' = <<len_lo(f)>> /\ queue' = queue \o <<len_lo(f)>>
        /\ UNCHANGED <<pop, accepted, frames_dropped, delivered>>
    BY <1>1, Zenon DEF PushLo, Put
  <1>3. /\ push' \in [pc : {"idle", "lo", "hi", "body"}, frame : Seq(Bytes)]
        /\ push'.pc = "hi" /\ push'.frame = f
    BY <1>1, <1>2 DEF IInv, Shapes
  <1>4. PICK s \in Seq(Bytes), t \in Seq(Bytes) : s = <<len_lo(f)>> /\ t = Tail(Encode(f)) /\ Encode(f) = s \o t
    <2>1. len_lo(f) \in Bytes /\ Tail(Encode(f)) \in Seq(Bytes) /\ Encode(f) = <<len_lo(f)>> \o Tail(Encode(f))
      BY EncodeType, Zenon
    <2>2. <<len_lo(f)>> \in Seq(Bytes)
      BY <2>1
    <2> QED  BY <2>1, <2>2, Zenon
  <1>5. ToPush = s \o t
    BY <1>1, <1>2, <1>4, ToPushIs, Zenon
  <1>6. ToPush' = t
    <2>1. ToPush' = Tail(Encode(push'.frame))
      BY <1>3 DEF ToPush, Encode, len_lo, len_hi
    <2> QED  BY <1>3, <1>4, <2>1, Zenon
  <1>7. inp' = s /\ queue' = queue \o s
    BY <1>2, <1>4, Zenon
  <1> QED  BY <1>2, <1>3, <1>5, <1>6, <1>7, WriteInv, Zenon

LEMMA PushHiInv ==
  ASSUME IInv, PushHi
  PROVE  IInv'
  <1>1. PICK f \in Seq(Bytes) : f = push.frame
    BY Pieces, Zenon
  <1>2. /\ push.pc = "hi" /\ push' = [push EXCEPT !.pc = "body"]
        /\ inp' = <<len_hi(f)>> /\ queue' = queue \o <<len_hi(f)>>
        /\ UNCHANGED <<pop, accepted, frames_dropped, delivered>>
    BY <1>1, Zenon DEF PushHi, Put
  <1>3. /\ push' \in [pc : {"idle", "lo", "hi", "body"}, frame : Seq(Bytes)]
        /\ push'.pc = "body" /\ push'.frame = f
    BY <1>1, <1>2 DEF IInv, Shapes
  <1>4. PICK s \in Seq(Bytes) : s = <<len_hi(f)>> /\ Tail(Encode(f)) = s \o f
    <2>1. len_hi(f) \in Bytes /\ Tail(Encode(f)) = <<len_hi(f)>> \o f
      BY EncodeType, Zenon
    <2>2. <<len_hi(f)>> \in Seq(Bytes)
      BY <2>1
    <2> QED  BY <2>1, <2>2, Zenon
  <1>5. ToPush = s \o f
    BY <1>1, <1>2, <1>4, ToPushIs, Zenon
  <1>6. ToPush' = f
    BY <1>3 DEF ToPush
  <1>7. inp' = s /\ queue' = queue \o s
    BY <1>2, <1>4, Zenon
  <1> QED  BY <1>2, <1>3, <1>5, <1>6, <1>7, WriteInv, Zenon

LEMMA PushBodyInv ==
  ASSUME IInv, PushBody
  PROVE  IInv'
  <1>1. PICK f \in Seq(Bytes) : f = push.frame
    BY Pieces, Zenon
  <1>2. push.pc = "body" /\ push' = Idle /\ UNCHANGED <<pop, accepted, frames_dropped, delivered>>
    BY DEF PushBody
  <1>3. ToPush = f
    BY <1>1, <1>2, ToPushIs
  <1>4. inp' = f /\ queue' = queue \o f
    <2> DEFINE room == DATA_CAPACITY - Len(queue)
               n    == IF Len(push.frame) < room THEN Len(push.frame) ELSE room
    <2>1. Len(f) \in Nat /\ Len(queue) \in Nat /\ Len(queue) + Len(f) <= DATA_CAPACITY
      BY <1>3, Pieces DEF IInv, RoomKept
    <2>2. n = Len(f)
      BY <1>1, <2>1, BoundAssumption
    <2>3. Put(SubSeq(push.frame, 1, n))
      BY DEF PushBody
    <2>4. SubSeq(f, 1, Len(f)) = f
      BY SubSeqFull, Zenon
    <2> HIDE DEF n
    <2>5. Put(f)
      BY <1>1, <2>2, <2>3, <2>4, Zenon
    <2> QED  BY <2>5 DEF Put
  <1>5. push' \in [pc : {"idle", "lo", "hi", "body"}, frame : Seq(Bytes)] /\ push'.pc = "idle"
    BY <1>2 DEF Idle
  <1>6. PICK t \in Seq(Bytes) : t = <<>> /\ f = f \o t
    <2>1. <<>> \in Seq(Bytes) /\ f = f \o <<>>
      OBVIOUS
    <2> QED  BY <2>1, Zenon
  <1>7. ToPush' = t
    BY <1>5, <1>6 DEF ToPush
  <1>8. ToPush = f \o t
    BY <1>3, <1>6, Zenon
  <1> QED  BY <1>2, <1>4, <1>5, <1>7, <1>8, WriteInv, Zenon

\* What the two pops of pop_frame_len have in common.
LEMMA ReadInv ==
  ASSUME IInv, Len(queue) >= 1, Get(1),
         pop' \in [pc : {"idle", "hi", "body"}, lo : Bytes, hi : Bytes],
         Popped' = Popped \o <<Head(queue)>>,
         UNCHANGED <<push, accepted, frames_dropped, delivered>>
  PROVE  IInv'
  <1>1. PICK q \in Seq(Bytes) : q = queue /\ Len(q) >= 1 /\ Len(q) \in Nat
    BY Pieces
  <1>2. PICK r \in Seq(Bytes) : r = SubSeq(q, 1 + 1, Len(q)) /\ Len(r) = Len(q) - 1 /\ q = <<Head(q)>> \o r /\ Head(q) \in Bytes
    BY <1>1, TakeFirst, Zenon
  <1>3. queue' = r
    BY <1>1, <1>2, Zenon DEF Get
  <1>4. TypeOK'
    <2>1. Len(r) <= DATA_CAPACITY
      BY <1>1, <1>2, BoundAssumption DEF IInv, TypeOK
    <2> QED  BY <1>3, <2>1 DEF IInv, TypeOK
  <1>5. Shapes' /\ TwoByteLengths'
    BY DEF IInv, Shapes, TwoByteLengths
  <1>6. ToPush' = ToPush
    BY DEF ToPush, Encode, len_lo, len_hi
  <1>7. RoomKept'
    <2>1. Len(ToPush) \in Nat
      BY Pieces
    <2> QED  BY <1>1, <1>2, <1>3, <1>6, <2>1, BoundAssumption DEF IInv, RoomKept
  <1>8. Stream'
    <2>1. PICK p \in Seq(Bytes), t \in Seq(Bytes), h \in Seq(Bytes) : p = Popped /\ t = ToPush /\ h = <<Head(q)>>
      <3>1. <<Head(q)>> \in Seq(Bytes)
        BY <1>2
      <3> QED  BY <3>1, Pieces, Zenon
    <2>2. (p \o (h \o r)) \o t = ((p \o h) \o r) \o t
      OBVIOUS
    <2>3. Popped' = p \o h
      BY <1>1, <2>1, Zenon
    <2>4. (p \o (h \o r)) \o t = FlattenSeq(Enc(accepted))
      BY <1>1, <1>2, <2>1, Zenon DEF IInv, Stream
    <2>5. FlattenSeq(Enc(accepted)) = FlattenSeq(Enc(accepted'))
      BY Zenon
    <2>6. (Popped' \o queue') \o ToPush' = FlattenSeq(Enc(accepted'))
      BY <1>3, <1>6, <2>1, <2>2, <2>3, <2>4, <2>5, Zenon
    <2> QED  BY <2>6, Zenon DEF Stream, Enc, FlattenSeq, Encode, len_lo, len_hi
  <1> QED  BY <1>4, <1>5, <1>7, <1>8 DEF IInv

LEMMA PopLoInv ==
  ASSUME IInv, PopLo
  PROVE  IInv'
  <1>1. /\ pop.pc = "idle" /\ Len(queue) >= 2 /\ Get(1) /\ pop' = [pop EXCEPT !.pc = "hi", !.lo = Head(queue)]
        /\ UNCHANGED <<push, accepted, frames_dropped, delivered>>
    BY DEF PopLo
  <1>2. Len(queue) >= 1 /\ Head(queue) \in Bytes
    BY <1>1 DEF IInv, TypeOK
  <1>3. /\ pop' \in [pc : {"idle", "hi", "body"}, lo : Bytes, hi : Bytes]
        /\ pop'.pc = "hi" /\ pop'.lo = Head(queue)
    BY <1>1, <1>2 DEF IInv, Shapes
  <1>4. Popped = <<>>
    BY <1>1, PoppedIs
  <1>5. Popped' = <<pop'.lo>>
    BY <1>3 DEF Popped
  <1>6. <<>> \o <<Head(queue)>> = <<Head(queue)>>
    OBVIOUS
  <1>7. Popped' = Popped \o <<Head(queue)>>
    BY <1>3, <1>4, <1>5, <1>6, Zenon
  <1> QED  BY <1>1, <1>2, <1>3, <1>7, ReadInv, Zenon

LEMMA PopHiInv ==
  ASSUME IInv, PopHi
  PROVE  IInv'
  <1>1. /\ pop.pc = "hi" /\ Get(1) /\ pop' = [pop EXCEPT !.pc = "body", !.hi = Head(queue)]
        /\ UNCHANGED <<push, accepted, frames_dropped, delivered>>
    BY DEF PopHi
  <1>2. Len(queue) >= 1 /\ Head(queue) \in Bytes /\ pop.lo \in Bytes
    BY <1>1 DEF IInv, TypeOK, Get
  <1>3. /\ pop' \in [pc : {"idle", "hi", "body"}, lo : Bytes, hi : Bytes]
        /\ pop'.pc = "body" /\ pop'.hi = Head(queue) /\ pop'.lo = pop.lo
    BY <1>1, <1>2 DEF IInv, Shapes
  <1>4. Popped = <<pop.lo>>
    BY <1>1, PoppedIs
  <1>5. Popped' = <<pop'.lo, pop'.hi>>
    BY <1>3 DEF Popped
  <1>6. <<pop.lo>> \o <<Head(queue)>> = <<pop.lo, Head(queue)>>
    BY <1>2, PairIs, Zenon
  <1>7. Popped' = Popped \o <<Head(queue)>>
    BY <1>3, <1>4, <1>5, <1>6, Zenon
  <1> QED  BY <1>1, <1>2, <1>3, <1>7, ReadInv, Zenon

\* With push_frame at rest, the length the consumer read is that of the oldest
\* accepted frame, and the ring holds the whole frame first.
LEMMA WholeFrame ==
  ASSUME IInv, push.pc = "idle", pop.pc = "body"
  PROVE  /\ accepted # <<>> /\ accepted[1] \in Seq(Bytes) /\ Tail(accepted) \in Seq(Frames)
         /\ FrameLen = Len(accepted[1])
         /\ FlattenSeq(Enc(Tail(accepted))) \in Seq(Bytes)
         /\ queue = accepted[1] \o FlattenSeq(Enc(Tail(accepted)))
  <1>1. PICK q \in Seq(Bytes), a \in Bytes, b \in Bytes : q = queue /\ a = pop.lo /\ b = pop.hi
    BY Zenon DEF IInv, TypeOK
  <1>2. accepted \in Seq(Frames)
    BY DEF IInv, TypeOK
  <1>3. <<a, b>> \o q = FlattenSeq(Enc(accepted))
    <2>1. Popped = <<a, b>> /\ ToPush = <<>>
      BY <1>1, PoppedIs, ToPushIs
    <2>2. (<<a, b>> \o q) \o <<>> = FlattenSeq(Enc(accepted))
      BY <1>1, <2>1, Zenon DEF IInv, Stream
    <2>3. (<<a, b>> \o q) \o <<>> = <<a, b>> \o q
      OBVIOUS
    <2> QED  BY <2>2, <2>3, Zenon
  <1>4. accepted # <<>>
    <2>1. ASSUME accepted = <<>> PROVE FALSE
      <3>1. Enc(<<>>) = <<>>
        BY DEF Enc
      <3>2. FlattenSeq(<<>>) = <<>>
        <4>1. Len(<<>>) = 0
          OBVIOUS
        <4> QED  BY <4>1, FlatEmpty, Zenon
      <3>3. <<a, b>> \o q = <<>>
        BY <1>3, <2>1, <3>1, <3>2, Zenon
      <3>4. Len(<<a, b>> \o q) = 2 + Len(q) /\ Len(q) \in Nat
        OBVIOUS
      <3>5. Len(<<>>) = 0
        OBVIOUS
      <3>6. 0 = 2 + Len(q)
        BY <3>3, <3>4, <3>5, Zenon
      <3> QED  BY <3>4, <3>6
    <2> QED  BY <2>1
  <1>5. PICK f \in Seq(Bytes), r \in Seq(Bytes) :
            /\ f = accepted[1] /\ r = FlattenSeq(Enc(Tail(accepted)))
            /\ FlattenSeq(Enc(accepted)) = Encode(f) \o r
    BY <1>2, <1>4, EncTail, Zenon
  <1>6. PICK c \in Bytes, d \in Bytes : c = len_lo(f) /\ d = len_hi(f) /\ Encode(f) = <<c, d>> \o f
    BY EncodeType, Zenon DEF Encode
  <1>7. SameStart(a, b, q, c, d, f, r)
    BY <1>3, <1>5, <1>6, Zenon DEF SameStart
  <1>8. a = c /\ b = d /\ q = f \o r
    BY <1>7, SplitFirst, Zenon
  <1>9. FrameLen = Len(f)
    <2>1. Len(f) \in Nat /\ 1 \in 1 .. Len(accepted)
      BY <1>2, <1>4
    <2>2. Len(f) < RADIX * RADIX
      BY <1>5, <2>1, Zenon DEF IInv, TwoByteLengths
    <2>3. (Len(f) % RADIX) + RADIX * ((Len(f) \div RADIX) % RADIX) = Len(f)
      BY <2>1, <2>2, LengthBytes, Zenon
    <2> QED  BY <1>1, <1>6, <1>8, <2>3, Zenon DEF FrameLen, len_lo, len_hi
  <1>10. Tail(accepted) \in Seq(Frames)
    BY <1>2, <1>4
  <1> QED  BY <1>1, <1>4, <1>5, <1>8, <1>9, <1>10, Zenon

\* pop_frame takes exactly that frame.
LEMMA PopFrameTakes ==
  ASSUME PREEMPTIBLE = FALSE, IInv, pop_frame
  PROVE  /\ push.pc = "idle" /\ accepted # <<>>
         /\ out' = accepted[1]
         /\ queue' = FlattenSeq(Enc(Tail(accepted))) /\ queue' \in Seq(Bytes)
         /\ Len(queue') <= Len(queue)
  <1>1. push.pc = "idle" /\ pop.pc = "body"
    BY DEF pop_frame, Runs
  <1>2. PICK f \in Seq(Bytes), r \in Seq(Bytes), q \in Seq(Bytes), m \in Nat :
            /\ accepted # <<>> /\ f = accepted[1] /\ r = FlattenSeq(Enc(Tail(accepted)))
            /\ FrameLen = Len(f) /\ queue = f \o r /\ q = queue /\ m = Len(f)
    <2>1. /\ accepted # <<>> /\ accepted[1] \in Seq(Bytes) /\ FrameLen = Len(accepted[1])
          /\ FlattenSeq(Enc(Tail(accepted))) \in Seq(Bytes)
          /\ queue = accepted[1] \o FlattenSeq(Enc(Tail(accepted)))
      BY <1>1, WholeFrame, Zenon
    <2>2. queue \in Seq(Bytes)
      BY Pieces
    <2>3. Len(accepted[1]) \in Nat
      BY <2>1
    <2> QED  BY <2>1, <2>2, <2>3, Zenon
  <1>3. Len(q) = m + Len(r) /\ Len(r) \in Nat /\ Len(q) \in Nat
    BY <1>2
  <1>4. Get(m)
    <2> DEFINE n == IF FrameLen < Len(queue) THEN FrameLen ELSE Len(queue)
    <2>1. n = m
      BY <1>2, <1>3
    <2>2. Get(n)
      BY DEF pop_frame
    <2> HIDE DEF n
    <2> QED  BY <2>1, <2>2, Zenon
  <1>5. SubSeq(q, 1, m) = f /\ SubSeq(q, m + 1, Len(q)) = r
    BY <1>2, TakePrefix, Zenon
  <1>6. out' = f /\ queue' = r
    BY <1>2, <1>4, <1>5, Zenon DEF Get
  <1> QED  BY <1>1, <1>2, <1>3, <1>6

LEMMA pop_frameInv ==
  ASSUME PREEMPTIBLE = FALSE, IInv, pop_frame
  PROVE  IInv'
  <1>1. /\ push.pc = "idle" /\ accepted # <<>>
        /\ queue' = FlattenSeq(Enc(Tail(accepted))) /\ queue' \in Seq(Bytes)
        /\ Len(queue') <= Len(queue) /\ Len(queue) \in Nat /\ Len(queue') \in Nat
    <2>1. /\ push.pc = "idle" /\ accepted # <<>>
          /\ queue' = FlattenSeq(Enc(Tail(accepted))) /\ queue' \in Seq(Bytes)
          /\ Len(queue') <= Len(queue)
      BY PopFrameTakes, Zenon
    <2>2. queue \in Seq(Bytes)
      BY Pieces, Zenon
    <2> QED  BY <2>1, <2>2
  <1>2. /\ pop' = NoLen /\ accepted' = Tail(accepted) /\ delivered' = delivered + 1
        /\ push' = push /\ frames_dropped' = frames_dropped
    BY DEF pop_frame
  <1>3. 0 \in Bytes
    BY RadixAssumption
  <1>4. pop'.pc = "idle" /\ pop'.lo = 0 /\ pop'.hi = 0
    BY <1>2 DEF NoLen
  <1>5. accepted \in Seq(Frames) /\ accepted' \in Seq(Frames)
    BY <1>1, <1>2 DEF IInv, TypeOK
  <1>6. TypeOK'
    <2>1. Len(queue') <= DATA_CAPACITY
      BY <1>1, BoundAssumption DEF IInv, TypeOK
    <2> QED  BY <1>1, <1>2, <1>3, <1>4, <1>5, <2>1 DEF IInv, TypeOK
  <1>7. Shapes'
    BY <1>2, <1>3 DEF IInv, Shapes, NoLen
  <1>8. Popped' = <<>> /\ ToPush' = <<>>
    BY <1>1, <1>2, <1>4 DEF Popped, ToPush
  <1>9. RoomKept'
    <2>1. Len(<<>>) = 0
      OBVIOUS
    <2> QED  BY <1>1, <1>8, <2>1, BoundAssumption DEF IInv, TypeOK, RoomKept
  <1>10. TwoByteLengths'
    <2>1. PICK n \in Nat : /\ n = Len(accepted') /\ Len(accepted) = n + 1
                           /\ \A i \in 1 .. n : accepted'[i] = accepted[i + 1]
      <3>1. /\ Tail(accepted) \in Seq(Frames) /\ Len(Tail(accepted)) = Len(accepted) - 1
            /\ \A i \in 1 .. Len(Tail(accepted)) : Tail(accepted)[i] = accepted[i + 1]
        BY <1>1, <1>5, HeadTailProperties, Zenon
      <3>2. Len(Tail(accepted)) \in Nat /\ Len(accepted) = Len(Tail(accepted)) + 1
        BY <1>5, <3>1
      <3> QED  BY <1>2, <3>1, <3>2, Zenon
    <2>2. ASSUME NEW i \in 1 .. n PROVE Len(accepted'[i]) < RADIX * RADIX
      <3>1. i + 1 \in 1 .. Len(accepted)
        BY <2>1
      <3> QED  BY <2>1, <3>1, Zenon DEF IInv, TwoByteLengths
    <2> QED  BY <2>1, <2>2 DEF TwoByteLengths
  <1>11. Stream'
    <2>1. PICK q \in Seq(Bytes) : q = queue'
      BY <1>1
    <2>2. (<<>> \o q) \o <<>> = q
      OBVIOUS
    <2>3. (Popped' \o queue') \o ToPush' = FlattenSeq(Enc(accepted'))
      BY <1>1, <1>2, <1>8, <2>1, <2>2, Zenon
    <2> QED  BY <2>3, Zenon DEF Stream, Enc, FlattenSeq, Encode, len_lo, len_hi
  <1> QED  BY <1>6, <1>7, <1>9, <1>10, <1>11 DEF IInv

LEMMA StutterInv ==
  ASSUME IInv, UNCHANGED vars
  PROVE  IInv'
  <1>1. /\ push' = push /\ accepted' = accepted /\ queue' = queue /\ pop' = pop
        /\ frames_dropped' = frames_dropped /\ delivered' = delivered
    BY DEF vars, ring
  <1>2. TypeOK'
    BY <1>1 DEF IInv, TypeOK
  <1>3. Popped' = Popped /\ ToPush' = ToPush
    BY <1>1 DEF Popped, ToPush, Encode, len_lo, len_hi
  <1>4. Stream'
    <2>1. FlattenSeq(Enc(accepted)) = FlattenSeq(Enc(accepted'))
      BY <1>1, Zenon
    <2>2. (Popped' \o queue') \o ToPush' = FlattenSeq(Enc(accepted'))
      BY <1>1, <1>3, <2>1, Zenon DEF IInv, Stream
    <2> QED  BY <2>2, Zenon DEF Stream, Enc, FlattenSeq, Encode, len_lo, len_hi
  <1>5. Shapes' /\ RoomKept' /\ TwoByteLengths'
    BY <1>1, <1>3 DEF IInv, Shapes, RoomKept, TwoByteLengths
  <1> QED  BY <1>2, <1>4, <1>5 DEF IInv

\* Every reachable state satisfies the inductive invariant.
THEOREM Inductive == ASSUME PREEMPTIBLE = FALSE PROVE Spec => []IInv
  <1>1. ASSUME IInv, [Next]_vars PROVE IInv'
    <2>1. ASSUME NEW f \in Frames, PushBegin(f) PROVE IInv'
      BY <1>1, <2>1, PushBeginInv
    <2>2. ASSUME NEW f \in Frames, PushDrop(f) PROVE IInv'
      BY <1>1, <2>2, PushDropInv
    <2>3. CASE PushLo
      BY <1>1, <2>3, PushLoInv
    <2>4. CASE PushHi
      BY <1>1, <2>4, PushHiInv
    <2>5. CASE PushBody
      BY <1>1, <2>5, PushBodyInv
    <2>6. CASE PopLo
      BY <1>1, <2>6, PopLoInv
    <2>7. CASE PopHi
      BY <1>1, <2>7, PopHiInv
    <2>8. CASE pop_frame
      BY <1>1, <2>8, pop_frameInv
    <2>9. CASE UNCHANGED vars
      BY <1>1, <2>9, StutterInv
    <2> QED  BY <1>1, <2>1, <2>2, <2>3, <2>4, <2>5, <2>6, <2>7, <2>8, <2>9
             DEF Next, push_frame, pop_frame_len
  <1> QED  BY <1>1, InitInv, PTL DEF Spec

\* push_frame and pop_frame keep the ring framed: what the consumer has taken,
\* what lies in the ring and what push_frame has still to write are always the
\* encodings of the accepted frames, in order.
THEOREM Framed == ASSUME PREEMPTIBLE = FALSE PROVE Spec => []StreamFramed
  <1>1. IInv => StreamFramed
    BY Zenon DEF IInv, StreamFramed, Stream, Enc
  <1> QED  BY <1>1, Inductive, PTL

\* A frame pop_frame returns is the oldest frame push_frame accepted, whole.
THEOREM Returned == ASSUME PREEMPTIBLE = FALSE PROVE Spec => ReturnsFrames
  <1>1. ASSUME IInv, [Next]_vars PROVE [delivered' # delivered => out' = Head(accepted)]_vars
    <2>1. CASE pop_frame
      <3>1. accepted # <<>> /\ out' = accepted[1] /\ accepted \in Seq(Frames)
        BY <1>1, <2>1, PopFrameTakes DEF IInv, TypeOK
      <3>2. Head(accepted) = accepted[1]
        BY <3>1
      <3> QED  BY <3>1, <3>2
    <2>2. CASE delivered' = delivered
      BY <2>2
    <2>3. pop_frame \/ delivered' = delivered
      BY <1>1 DEF Next, push_frame, pop_frame_len, PushBegin, PushDrop, PushLo, PushHi, PushBody,
                  PopLo, PopHi, vars
    <2> QED  BY <2>1, <2>2, <2>3
  <1> QED  BY <1>1, Inductive, PTL DEF Spec, ReturnsFrames
===============================================================================
