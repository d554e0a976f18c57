------------------------ MODULE FiberSchedulerProofs ------------------------
(***************************************************************************)
(* FiberScheduler, for any number of fibers, bitmap groups and slab slots: *)
(* the four-phase search is exact, and the fiber table, the bitmap, the    *)
(* slab and GS:[48] agree at every step.                                   *)
(*                                                                         *)
(* The search is arithmetic on the two-level bitmap alone.  The agreement  *)
(* is an invariant of the whole scheduler.  It is proved for kernels whose *)
(* threads leave sched_yield to fiber 0 (Disciplined): then at most two    *)
(* frames run and a saved stack holds one.  Threads that yield themselves  *)
(* stack dispatches without bound; that case is model-checked.             *)
(***************************************************************************)
EXTENDS FiberScheduler, CommonLemmas, SequenceTheorems, TLAPS

-----------------------------------------------------------------------------
(* Fiber numbers, groups and bits. *)

\* The least element of a set of naturals.
LEMMA MinFacts ==
  ASSUME NEW S \in SUBSET Nat, S # {}
  PROVE  Min(S) \in S /\ \A y \in S : Min(S) <= y
  <1>1. \E x \in S : \A y \in S : x <= y
    BY LeastNat
  <1> QED  BY <1>1 DEF Min

\* How to recognise it.
LEMMA MinIs ==
  ASSUME NEW S \in SUBSET Nat, NEW x \in S, \A y \in S : x <= y
  PROVE  Min(S) = x
  <1>1. Min(S) \in S /\ Min(S) <= x
    BY MinFacts
  <1>2. x <= Min(S) /\ Min(S) \in Nat /\ x \in Nat
    BY <1>1
  <1> QED  BY <1>1, <1>2

\* Fiber, group and bit numbers are naturals.
LEMMA SizeFacts ==
  /\ MAX_FIBERS \in Nat \ {0} /\ GROUP_BITS \in Nat \ {0} /\ L2_GROUPS \in Nat \ {0}
  /\ 0 \in Fibers /\ Fibers \subseteq Nat /\ Groups \subseteq Nat /\ Bits \subseteq Nat
  /\ 0 \in Groups /\ 0 \in Bits
  BY SizeAssumption DEF Fibers, Groups, Bits

\* A group and a bit make a fiber number,
LEMMA IdParts ==
  ASSUME NEW g \in Groups, NEW b \in Bits
  PROVE  Group(Id(g, b)) = g /\ Bit(Id(g, b)) = b /\ Id(g, b) \in Nat
  <1>1. GROUP_BITS * g \in Nat /\ g * GROUP_BITS = GROUP_BITS * g
    BY SizeFacts
  <1>2. PICK a \in Nat : a = g * GROUP_BITS + b /\ a = GROUP_BITS * g + b
    BY <1>1, SizeFacts
  <1>3. b \in 0 .. GROUP_BITS - 1 /\ g \in Int
    BY SizeFacts DEF Bits
  <1>4. a % GROUP_BITS = b /\ a \div GROUP_BITS = g
    BY <1>2, <1>3, SizeFacts, ModUnique, DivUnique
  <1> QED  BY <1>2, <1>4 DEF Id, Group, Bit

\* and a fiber number splits into them.
LEMMA FiberParts ==
  ASSUME NEW f \in Fibers
  PROVE  Group(f) \in Groups /\ Bit(f) \in Bits /\ Id(Group(f), Bit(f)) = f
  <1>1. f \in Nat /\ f < MAX_FIBERS
    BY SizeFacts DEF Fibers
  <1>2. PICK g \in Int, b \in 0 .. GROUP_BITS - 1 :
            g = f \div GROUP_BITS /\ b = f % GROUP_BITS /\ f = GROUP_BITS * g + b
    BY <1>1, SizeFacts, DivMod
  <1>3. GROUP_BITS * g \in Int /\ g * GROUP_BITS = GROUP_BITS * g
    BY <1>2, SizeFacts
  <1>4. g >= 0
    <2>1. ASSUME g < 0 PROVE FALSE
      <3>1. GROUP_BITS * g + GROUP_BITS <= GROUP_BITS * 0 /\ GROUP_BITS * 0 = 0
        BY <1>2, <2>1, SizeFacts, MulStep
      <3> QED  BY <1>1, <1>2, <1>3, <3>1, SizeFacts
    <2> QED  BY <1>2, <2>1
  <1>5. g < L2_GROUPS
    <2>1. ASSUME L2_GROUPS < g PROVE FALSE
      <3>1. GROUP_BITS * L2_GROUPS + GROUP_BITS <= GROUP_BITS * g /\ GROUP_BITS * L2_GROUPS \in Nat
        BY <1>2, <2>1, SizeFacts, MulStep
      <3> QED  BY <1>1, <1>2, <1>3, <3>1, SizeAssumption
    <2>2. ASSUME L2_GROUPS = g PROVE FALSE
      <3>1. GROUP_BITS * L2_GROUPS = GROUP_BITS * g /\ GROUP_BITS * L2_GROUPS \in Nat
        BY <2>2, SizeFacts
      <3> QED  BY <1>1, <1>2, <1>3, <3>1, SizeAssumption
    <2> QED  BY <1>2, <2>1, <2>2, SizeFacts
  <1>6. Group(f) = g /\ Bit(f) = b
    BY <1>2 DEF Group, Bit
  <1>7. Id(g, b) = f
    BY <1>2, <1>3 DEF Id
  <1> QED  BY <1>2, <1>4, <1>5, <1>6, <1>7, SizeFacts DEF Groups, Bits

\* Fibers are ordered by group, then by bit.
LEMMA IdOrder ==
  ASSUME NEW g \in Groups, NEW b \in Bits, NEW h \in Groups, NEW c \in Bits
  PROVE  Id(g, b) < Id(h, c) <=> g < h \/ (g = h /\ b < c)
  <1> DEFINE G == GROUP_BITS * g
             H == GROUP_BITS * h
  <1>1. /\ G \in Nat /\ H \in Nat /\ Id(g, b) = G + b /\ Id(h, c) = H + c
        /\ b \in 0 .. GROUP_BITS - 1 /\ c \in 0 .. GROUP_BITS - 1 /\ g \in Nat /\ h \in Nat
    BY SizeFacts DEF Id, Bits
  <1>2. /\ g < h => G + GROUP_BITS <= H
        /\ h < g => H + GROUP_BITS <= G
        /\ g = h => G = H
    BY SizeFacts, MulStep
  <1> HIDE DEF G, H
  <1> QED  BY <1>1, <1>2, SizeFacts

\* The same, for fibers.
LEMMA FiberOrder ==
  ASSUME NEW f \in Fibers, NEW h \in Fibers
  PROVE  f < h <=> Group(f) < Group(h) \/ (Group(f) = Group(h) /\ Bit(f) < Bit(h))
  <1>1. /\ Group(f) \in Groups /\ Bit(f) \in Bits /\ Id(Group(f), Bit(f)) = f
        /\ Group(h) \in Groups /\ Bit(h) \in Bits /\ Id(Group(h), Bit(h)) = h
    BY FiberParts
  <1>2. Id(Group(f), Bit(f)) < Id(Group(h), Bit(h))
            <=> Group(f) < Group(h) \/ (Group(f) = Group(h) /\ Bit(f) < Bit(h))
    BY <1>1, IdOrder
  <1> QED  BY <1>1, <1>2

-----------------------------------------------------------------------------
(* The four-phase search. *)

\* The two levels of the bitmap agree and name fibers.
BitmapOK == /\ l1_summary = {g \in Groups : l2_details[g] # {}}
            /\ l2_details \in [Groups -> SUBSET Bits]
            /\ \A g \in Groups : \A b \in l2_details[g] : Id(g, b) \in Fibers

\* A set bit is a listed fiber,
LEMMA InBitmap ==
  ASSUME BitmapOK, NEW g \in Groups, NEW b \in l2_details[g]
  PROVE  Id(g, b) \in Listed /\ Group(Id(g, b)) = g /\ Bit(Id(g, b)) = b
  <1>1. b \in Bits /\ Id(g, b) \in Fibers
    BY DEF BitmapOK
  <1> QED  BY <1>1, IdParts DEF Listed

\* and a listed fiber is a set bit.
LEMMA ListedParts ==
  ASSUME BitmapOK, NEW h \in Listed
  PROVE  /\ h \in Fibers /\ Group(h) \in l1_summary /\ Bit(h) \in l2_details[Group(h)]
         /\ h \in Nat /\ Group(h) \in Nat /\ Bit(h) \in Nat
  <1>1. h \in Fibers /\ Bit(h) \in l2_details[Group(h)]
    BY DEF Listed
  <1> QED  BY <1>1, FiberParts, SizeFacts DEF BitmapOK

\* The fiber the search takes from a group is the first of that group.
LEMMA GroupFirst ==
  ASSUME BitmapOK, NEW k \in l1_summary
  PROVE  \E r \in Listed : /\ r = Id(k, Min(l2_details[k])) /\ Group(r) = k
                           /\ \A h \in Listed : Group(h) >= k => r <= h
  <1>1. k \in Groups /\ k \in Nat /\ l2_details[k] # {} /\ l2_details[k] \in SUBSET Nat
    BY SizeFacts DEF BitmapOK
  <1>2. PICK b \in l2_details[k] : b = Min(l2_details[k]) /\ \A c \in l2_details[k] : b <= c
    BY <1>1, MinFacts
  <1>3. PICK r \in Listed : r = Id(k, b) /\ Group(r) = k /\ Bit(r) = b
    BY <1>1, InBitmap
  <1>4. ASSUME NEW h \in Listed, Group(h) >= k PROVE r <= h
    <2>1. /\ h \in Fibers /\ h \in Nat /\ r \in Fibers /\ r \in Nat
          /\ Group(h) \in Nat /\ Bit(h) \in Nat /\ Bit(h) \in l2_details[Group(h)] /\ b \in Nat
      BY <1>1, ListedParts
    <2>2. Group(h) = k => b <= Bit(h)
      BY <1>2, <2>1
    <2>3. ~(h < r)
      BY <1>1, <1>3, <1>4, <2>1, <2>2, FiberOrder
    <2> QED  BY <2>1, <2>3
  <1> QED  BY <1>2, <1>3, <1>4

\* The search over two words equals the search over the set it represents.
LEMMA SearchExact ==
  ASSUME BitmapOK, NEW f \in Fibers
  PROVE  FindNext(f, l1_summary, l2_details) = CyclicSuccessor(f)
  <1> DEFINE g        == Group(f)
             above    == {b \in l2_details[g] : b > Bit(f)}
             l1_above == {h \in l1_summary : h > g}
             l1_below == {h \in l1_summary : h < g}
             below    == {b \in l2_details[g] : b < Bit(f)}
             after    == {h \in Listed : h > f}
             other    == Listed \ {f}
             F        == FindNext(f, l1_summary, l2_details)
             C        == CyclicSuccessor(f)
  <1>1. /\ g \in Groups /\ g \in Nat /\ Bit(f) \in Bits /\ Bit(f) \in Nat /\ f \in Nat
    BY FiberParts, SizeFacts
  <1>2. /\ above \in SUBSET Nat /\ below \in SUBSET Nat
        /\ l1_above \in SUBSET Nat /\ l1_below \in SUBSET Nat
        /\ after \in SUBSET Nat /\ other \in SUBSET Nat
    BY <1>1, SizeFacts, ListedParts DEF BitmapOK
  <1>3. \A h \in l1_summary : h \in Groups /\ h \in Nat /\ l2_details[h] # {} /\ l2_details[h] \in SUBSET Nat
    BY SizeFacts DEF BitmapOK
  <1>c. C = IF after # {} THEN Min(after) ELSE IF other # {} THEN Min(other) ELSE f
    BY DEF CyclicSuccessor
  \* The least fiber of a group is the least number with the group's least bit.
  <1>4. CASE above # {}
    <2>1. PICK b \in above : b = Min(above) /\ \A c \in above : b <= c
      BY <1>2, <1>4, MinFacts
    <2>2. F = Id(g, b)
      BY <1>4, <2>1 DEF FindNext
    <2>3. Id(g, b) \in Listed /\ Group(Id(g, b)) = g /\ Bit(Id(g, b)) = b
      BY <1>1, InBitmap
    <2>4. PICK r \in Listed : r = Id(g, b) /\ Group(r) = g /\ Bit(r) = b
      BY <2>3
    <2>5. r > f
      BY <1>1, <2>4, FiberOrder, ListedParts
    <2>6. ASSUME NEW h \in after PROVE r <= h
      <3>1. h \in Listed /\ h > f /\ h \in Fibers /\ r \in Fibers /\ h \in Nat /\ r \in Nat
        BY <2>4, ListedParts
      <3>2. g < Group(h) \/ (g = Group(h) /\ Bit(f) < Bit(h))
        BY <3>1, FiberOrder
      <3>3. CASE g = Group(h) /\ Bit(f) < Bit(h)
        <4>1. Bit(h) \in above
          BY <3>1, <3>3, ListedParts
        <4>2. b <= Bit(h) /\ b \in Nat /\ Bit(h) \in Nat
          BY <1>2, <2>1, <4>1
        <4>3. ~(h < r)
          BY <2>4, <3>1, <3>3, <4>2, FiberOrder
        <4> QED  BY <3>1, <4>3
      <3>4. CASE g < Group(h)
        BY <2>4, <3>1, <3>4, FiberOrder
      <3> QED  BY <3>2, <3>3, <3>4
    <2>7. Min(after) = r
      <3>1. r \in after
        BY <2>4, <2>5
      <3> HIDE DEF after
      <3> QED  BY <1>2, <2>6, <3>1, MinIs
    <2>8. after # {}
      BY <2>4, <2>5
    <2>9. C = r
      BY <1>c, <2>7, <2>8, Zenon
    <2> QED  BY <2>2, <2>4, <2>9
  <1>5. CASE above = {} /\ l1_above # {}
    <2>1. PICK k \in l1_above : k = Min(l1_above) /\ \A c \in l1_above : k <= c
      BY <1>2, <1>5, MinFacts
    <2>2. F = Id(k, Min(l2_details[k]))
      BY <1>5, <2>1 DEF FindNext
    <2>3. PICK r \in Listed : /\ r = Id(k, Min(l2_details[k])) /\ Group(r) = k
                              /\ \A h \in Listed : Group(h) >= k => r <= h
      BY <2>1, GroupFirst
    <2>4. r > f
      BY <1>1, <2>1, <2>3, FiberOrder, ListedParts
    <2>5. ASSUME NEW h \in after PROVE r <= h
      <3>1. h \in Listed /\ h > f /\ h \in Fibers /\ Group(h) \in l1_summary
        BY ListedParts
      <3>2. g < Group(h)
        <4>1. g < Group(h) \/ (g = Group(h) /\ Bit(f) < Bit(h))
          BY <3>1, FiberOrder
        <4> QED  BY <1>1, <1>5, <3>1, <4>1, ListedParts
      <3>3. Group(h) >= k
        BY <2>1, <3>1, <3>2, <1>3
      <3> QED  BY <2>3, <3>1, <3>3
    <2>6. r \in after
      BY <2>3, <2>4
    <2>7. Min(after) = r
      <3> HIDE DEF after
      <3> QED  BY <1>2, <2>5, <2>6, MinIs
    <2>8. C = r
      BY <1>c, <2>6, <2>7, Zenon
    <2> QED  BY <2>2, <2>3, <2>8
  <1>6. ASSUME above = {}, l1_above = {} PROVE after = {}
    <2>1. ASSUME NEW h \in after PROVE FALSE
      <3>1. h \in Listed /\ h > f /\ h \in Fibers /\ Group(h) \in l1_summary
        BY ListedParts
      <3>2. g < Group(h) \/ (g = Group(h) /\ Bit(f) < Bit(h))
        BY <3>1, FiberOrder
      <3> QED  BY <1>1, <1>6, <3>1, <3>2, ListedParts
    <2> QED  BY <2>1
  <1>7. ASSUME l1_above = {}, NEW h \in Listed PROVE Group(h) = g \/ Group(h) \in l1_below
    BY <1>1, <1>7, ListedParts
  <1>8. CASE above = {} /\ l1_above = {} /\ l1_below # {}
    <2>1. PICK k \in l1_below : k = Min(l1_below) /\ \A c \in l1_below : k <= c
      BY <1>2, <1>8, MinFacts
    <2>2. F = Id(k, Min(l2_details[k]))
      BY <1>8, <2>1 DEF FindNext
    <2>3. PICK r \in Listed : /\ r = Id(k, Min(l2_details[k])) /\ Group(r) = k
                              /\ \A h \in Listed : Group(h) >= k => r <= h
      BY <2>1, GroupFirst
    <2>4. r \in other
      BY <1>1, <2>1, <2>3
    <2>5. ASSUME NEW h \in other PROVE r <= h
      <3>1. h \in Listed /\ (Group(h) = g \/ Group(h) \in l1_below)
        BY <1>7, <1>8
      <3>2. Group(h) >= k
        BY <1>1, <1>3, <2>1, <3>1
      <3> QED  BY <2>3, <3>1, <3>2
    <2>6. Min(other) = r
      <3> HIDE DEF other
      <3> QED  BY <1>2, <2>4, <2>5, MinIs
    <2>7. C = r
      BY <1>c, <1>6, <1>8, <2>4, <2>6, Zenon
    <2> QED  BY <2>2, <2>3, <2>7
  <1>9. CASE above = {} /\ l1_above = {} /\ l1_below = {} /\ below # {}
    <2>1. PICK b \in below : b = Min(below) /\ \A c \in below : b <= c
      BY <1>2, <1>9, MinFacts
    <2>2. F = Id(g, b)
      BY <1>9, <2>1 DEF FindNext
    <2>3. Id(g, b) \in Listed /\ Group(Id(g, b)) = g /\ Bit(Id(g, b)) = b
      BY <1>1, InBitmap
    <2>4. PICK r \in Listed : r = Id(g, b) /\ Group(r) = g /\ Bit(r) = b
      BY <2>3
    <2>5. r \in other
      BY <1>1, <2>1, <2>4
    <2>6. ASSUME NEW h \in other PROVE r <= h
      <3>1. h \in Listed /\ h # f /\ Group(h) = g /\ Bit(h) \in l2_details[g] /\ h \in Fibers /\ h \in Nat
        BY <1>7, <1>9, ListedParts
      <3>2. Bit(h) # Bit(f)
        BY <3>1, FiberParts
      <3>3. Bit(h) \in below
        BY <1>1, <1>9, <3>1, <3>2, ListedParts
      <3>4. b <= Bit(h) /\ b \in Nat /\ Bit(h) \in Nat
        BY <1>2, <2>1, <3>3
      <3>5. r \in Fibers /\ r \in Nat
        BY <2>4, ListedParts
      <3>6. ~(h < r)
        BY <1>1, <2>4, <3>1, <3>4, <3>5, FiberOrder
      <3> QED  BY <3>1, <3>5, <3>6
    <2>7. Min(other) = r
      <3> HIDE DEF other
      <3> QED  BY <1>2, <2>5, <2>6, MinIs
    <2>8. C = r
      BY <1>c, <1>6, <1>9, <2>5, <2>7, Zenon
    <2> QED  BY <2>2, <2>4, <2>8
  <1>10. CASE above = {} /\ l1_above = {} /\ l1_below = {} /\ below = {}
    <2>1. F = f
      BY <1>10 DEF FindNext
    <2>2. ASSUME NEW h \in other PROVE FALSE
      <3>1. h \in Listed /\ h # f /\ Group(h) = g /\ Bit(h) \in l2_details[g] /\ h \in Fibers
        BY <1>7, <1>10, ListedParts
      <3>2. Bit(h) # Bit(f)
        BY <3>1, FiberParts
      <3> QED  BY <1>1, <1>10, <3>1, <3>2, ListedParts
    <2>3. other = {}
      BY <2>2
    <2>4. C = f
      BY <1>c, <1>6, <1>10, <2>3, Zenon
    <2> QED  BY <2>1, <2>4
  <1> QED  BY <1>4, <1>5, <1>8, <1>9, <1>10

-----------------------------------------------------------------------------
(* Sequences of one and two frames. *)

\* A single frame.
LEMMA Solo ==
  ASSUME NEW S, NEW x \in S
  PROVE  <<x>> \in Seq(S) /\ Len(<<x>>) = 1 /\ <<x>>[1] = x
  OBVIOUS

\* Return to the first frame.
LEMMA Cut ==
  ASSUME NEW S, NEW q \in Seq(S), NEW x \in S, NEW n, n = 1
  PROVE  /\ Append(SubSeq(q, 1, n - 1), x) \in Seq(S)
         /\ Len(Append(SubSeq(q, 1, n - 1), x)) = 1
         /\ Append(SubSeq(q, 1, n - 1), x)[1] = x
  <1>1. PICK m \in Int : m = n - 1 /\ m < 1
    OBVIOUS
  <1>2. SubSeq(q, 1, m) = <<>>
    BY <1>1, SubSeqEmpty
  <1>3. <<>> \in Seq(S) /\ Len(<<>>) = 0
    BY EmptySeq
  <1>4. PICK r \in Seq(S) : r = <<>> /\ Len(r) = 0
    BY <1>3
  <1>5. Append(r, x) \in Seq(S) /\ Len(Append(r, x)) = 1 /\ Append(r, x)[1] = x
    BY <1>4, AppendProperties
  <1> QED  BY <1>1, <1>2, <1>4, <1>5

\* A saved frame on top of the first.
LEMMA Joined ==
  ASSUME NEW S, NEW q \in Seq(S), NEW r \in Seq(S), Len(q) = 1, Len(r) = 1
  PROVE  q \o r \in Seq(S) /\ Len(q \o r) = 2 /\ (q \o r)[1] = q[1] /\ (q \o r)[2] = r[1]
  <1>1. /\ q \o r \in Seq(S) /\ Len(q \o r) = Len(q) + Len(r)
        /\ \A i \in 1 .. Len(q) + Len(r) : (q \o r)[i] = IF i <= Len(q) THEN q[i] ELSE r[i - Len(q)]
    BY ConcatProperties
  <1>2. 2 - Len(q) = 1
    OBVIOUS
  <1> QED  BY <1>1, <1>2

\* A call from the first frame.
LEMMA Pushed ==
  ASSUME NEW S, NEW q \in Seq(S), NEW x \in S, Len(q) = 1
  PROVE  /\ Append(q, x) \in Seq(S) /\ Len(Append(q, x)) = 2
         /\ Append(q, x)[1] = q[1] /\ Append(q, x)[2] = x
  <1>1. Append(q, x) = q \o <<x>>
    BY AppendIsConcat
  <1>2. <<x>> \in Seq(S) /\ Len(<<x>>) = 1 /\ <<x>>[1] = x
    BY Solo
  <1>3. PICK r \in Seq(S) : r = <<x>> /\ Len(r) = 1 /\ r[1] = x
    BY <1>2
  <1>4. q \o r \in Seq(S) /\ Len(q \o r) = 2 /\ (q \o r)[1] = q[1] /\ (q \o r)[2] = r[1]
    BY <1>3, Joined
  <1>5. Append(q, x) = q \o r
    BY <1>1, <1>3
  <1> QED  BY <1>3, <1>4, <1>5, Zenon

\* What is above the first of two frames.
LEMMA Upper ==
  ASSUME NEW S, NEW q \in Seq(S), Len(q) = 2, NEW n, n = 1, NEW m, m = 2
  PROVE  /\ SubSeq(q, n + 1, m) \in Seq(S) /\ Len(SubSeq(q, n + 1, m)) = 1
         /\ SubSeq(q, n + 1, m)[1] = q[2]
  <1>1. \A i \in 2 .. 2 : q[i] \in S
    BY ElementOfSeq
  <1>2. /\ SubSeq(q, 2, 2) \in Seq(S)
        /\ Len(SubSeq(q, 2, 2)) = IF 2 <= 2 THEN 2 - 2 + 1 ELSE 0
        /\ \A i \in 1 .. 2 - 2 + 1 : SubSeq(q, 2, 2)[i] = q[2 + i - 1]
    BY <1>1, SubSeqProperties
  <1>3. n + 1 = 2 /\ m = 2
    OBVIOUS
  <1> QED  BY <1>2, <1>3

\* The innermost frame changes.
LEMMA Topped ==
  ASSUME NEW S, NEW q \in Seq(S), NEW x \in S, NEW n \in {1, 2}, Len(q) = n
  PROVE  /\ [q EXCEPT ![n] = x] \in Seq(S) /\ Len([q EXCEPT ![n] = x]) = n
         /\ [q EXCEPT ![n] = x][n] = x
         /\ n = 2 => [q EXCEPT ![n] = x][1] = q[1]
  <1>1. n \in 1 .. Len(q)
    OBVIOUS
  <1>2. /\ [q EXCEPT ![n] = x] \in Seq(S)
        /\ Len([q EXCEPT ![n] = x]) = Len(q)
        /\ \A j \in 1 .. Len(q) : [q EXCEPT ![n] = x][j] = IF j = n THEN x ELSE q[j]
    BY <1>1, ExceptSeq
  <1> QED  BY <1>1, <1>2

-----------------------------------------------------------------------------
(* The inductive invariant. *)

\* Inside fiber_exit, still listed.
Mid == {"exit", "exit_clear"}

\* Only fiber 0 calls sched_yield, and it does not spawn while a preempted
\* thread is inside fiber_exit.
Disciplined == \A w \in Workloads : "sched_yield" \notin w /\ (SPAWN_RACE => "fiber_exit" \notin w)

Boot   == frames[1]         \* fiber 0
Dual   == Len(frames) = 2   \* a step function runs
Called == frames[2]
Thread == Dual /\ Called.stack # KSTACK

\* The first fiber fiber 0 would choose.
Least(f) == f \in Listed \ {0} /\ \A h \in Listed \ {0} : f <= h

\* A saved or running activation of a thread.
ThreadOK(a) ==
    /\ a.stack \in Slots /\ a.fiber # 0 /\ a.cur = a.fiber
    /\ a.pc \in {"body", "exit", "exit_clear", "switch"}
    /\ a.pc = "body" => /\ fibers[a.fiber].active /\ fibers[a.fiber].step_fn = "thread"
                        /\ fibers[a.fiber].stack_base = a.stack
    /\ a.pc \in Mid => /\ ~ fibers[a.fiber].active /\ fibers[a.fiber].step_fn = "thread"
                       /\ pending_reclaim = a.stack /\ "fiber_exit" \in workload
                       /\ Least(a.fiber)
    /\ a.pc = "exit_clear" => a.word = l2_details[Group(a.fiber)]

\* Fiber 0's frame.  While it waits for its choice to run, or takes a finished
\* fiber out of the bitmap, what it remembers (next, word) is still true; GS:[48]
\* is set exactly while a thread runs above it.
BootOK ==
    /\ Len(frames) \in {1, 2}
    /\ Boot.fiber = 0 /\ Boot.stack = KSTACK /\ Boot.cur = 0
    /\ Boot.pc \in {"body", "chosen", "done", "clear"}
    /\ fault = "none" => current = IF Boot.pc = "body" THEN 0 ELSE Boot.next
    /\ Boot.pc # "body" => Boot.next # 0
    /\ Boot.pc = "chosen" /\ ~ Dual => Least(Boot.next)
    /\ Boot.pc \in {"done", "clear"} => Boot.next \in Listed /\ ~ fibers[Boot.next].active
    /\ Boot.pc = "clear" => Boot.word = l2_details[Group(Boot.next)]
    /\ sched_rsp = IF Thread THEN 1 ELSE 0

\* The step function fiber 0 called.  A running thread has nothing saved on its stack.
CalledOK ==
    Dual => /\ Boot.pc = "chosen" /\ Called.fiber = Boot.next
            /\ Called.pc # "switch" => Least(Called.fiber)
            /\ Called.pc = "switch" => Called.fiber \notin Listed
            /\ IF Thread THEN ThreadOK(Called) /\ Len(parked[Called.stack]) = 0
               ELSE /\ Called.pc = "body" /\ fibers[Called.fiber].active
                    /\ fibers[Called.fiber].step_fn = "async"

\* Preempted threads.  One that was interrupted inside fiber_exit is the lowest
\* listed fiber, so fiber 0's next choice is that one and nobody clears another bit
\* before its own store.  One that finished fiber_exit is never resumed: a fiber
\* that reuses its table entry has its context elsewhere.
ParkedOK ==
    \A s \in Slots :
        /\ Len(parked[s]) \in {0, 1}
        /\ Len(parked[s]) = 1 =>
             /\ parked[s][1].stack = s /\ ThreadOK(parked[s][1])
             /\ parked[s][1].pc \in Mid =>
                    ~ Dual /\ Boot.pc \in {"body", "chosen"}
             /\ LET f == parked[s][1].fiber IN
                parked[s][1].pc = "switch" /\ f \in Listed /\ fibers[f].step_fn = "thread"
                    => fibers[f].ctx_ptr # s

\* Fiber f is being taken out of the bitmap.
Goes(f) == \/ Boot.pc \in {"done", "clear"} /\ f = Boot.next
           \/ Dual /\ Called.pc \in Mid /\ f = Called.fiber
           \/ \E s \in Slots : Len(parked[s]) = 1 /\ parked[s][1].pc \in Mid /\ f = parked[s][1].fiber

\* The table against the bitmap, and one slot per active fiber.
TableOK ==
    /\ \A f \in Fibers : f \in Listed <=> fibers[f].active \/ Goes(f)
    /\ \A f \in Fibers :
         IF f # 0 /\ fibers[f].active
         THEN \/ /\ fibers[f].step_fn = "thread" /\ fibers[f].task_frame = NULL
                 /\ fibers[f].stack_base \in Slots
              \/ /\ fibers[f].step_fn = "async" /\ fibers[f].stack_base = NULL
                 /\ fibers[f].task_frame \in Slots
         ELSE fibers[f].task_frame = NULL /\ fibers[f].stack_base = NULL
    /\ fibers[0].active /\ fibers[0].step_fn = "null"

\* The table against the slab.
Owner(s) == {f \in Fibers : fibers[f].task_frame = s \/ fibers[f].stack_base = s}
SlabOK ==
    /\ \A f, h \in Fibers : \A s \in Slots : f \in Owner(s) /\ h \in Owner(s) => f = h
    /\ pending_reclaim \in Slots => Owner(pending_reclaim) = {}
    /\ pending_reclaim \in Slots \cup {NULL}
    /\ inuse = {s \in Slots : s = pending_reclaim \/ Owner(s) # {}}

CountOK == count = Cardinality(Listed)

IInv == /\ TypeOK /\ BitmapOK /\ BootOK /\ CalledOK /\ ParkedOK
        /\ TableOK /\ SlabOK /\ CountOK /\ GuardsOnlyStacks

-----------------------------------------------------------------------------
(* Bitmap updates and the count of fibers. *)

\* Listed depends on the second level only.
LEMMA Still ==
  ASSUME UNCHANGED l2_details
  PROVE  Listed' = Listed /\ \A f : Least(f)' <=> Least(f)
  BY DEF Listed, Least

\* Listed is finite.
LEMMA ListedIs == Listed \subseteq Fibers /\ IsFiniteSet(Listed) /\ Listed \subseteq Nat
  <1>1. Listed \subseteq Fibers
    BY DEF Listed
  <1>2. IsFiniteSet(Fibers)
    BY FS_Interval, SizeFacts DEF Fibers
  <1>3. Listed \subseteq Nat
    BY <1>1, SizeFacts
  <1> QED  BY <1>1, <1>2, <1>3, FS_Subset

\* bitmap_set lists a fiber.
LEMMA SetBit ==
  ASSUME BitmapOK, NEW f \in Fibers, bitmap_set(f)
  PROVE  BitmapOK' /\ Listed' = Listed \cup {f}
  <1>1. Group(f) \in Groups /\ Bit(f) \in Bits /\ Id(Group(f), Bit(f)) = f
    BY FiberParts
  <1>2. l2_details' \in [Groups -> SUBSET Bits]
    BY <1>1 DEF BitmapOK, bitmap_set
  <1>3. \A g \in Groups : l2_details'[g] = IF g = Group(f) THEN l2_details[g] \cup {Bit(f)} ELSE l2_details[g]
    BY <1>1 DEF BitmapOK, bitmap_set
  <1>4. l1_summary' = {g \in Groups : l2_details'[g] # {}}
    <2>1. l1_summary' = l1_summary \cup {Group(f)}
      BY DEF bitmap_set
    <2> QED  BY <1>1, <1>3, <2>1 DEF BitmapOK
  <1>5. \A g \in Groups : \A b \in l2_details'[g] : Id(g, b) \in Fibers
    BY <1>1, <1>3 DEF BitmapOK
  <1>6. \A h \in Fibers : Bit(h) \in l2_details'[Group(h)] <=> h = f \/ Bit(h) \in l2_details[Group(h)]
    <2>1. ASSUME NEW h \in Fibers
          PROVE  Bit(h) \in l2_details'[Group(h)] <=> h = f \/ Bit(h) \in l2_details[Group(h)]
      <3>1. Group(h) \in Groups /\ Bit(h) \in Bits /\ Id(Group(h), Bit(h)) = h
        BY FiberParts
      <3>2. Group(h) = Group(f) /\ Bit(h) = Bit(f) => h = f
        BY <1>1, <3>1
      <3> QED  BY <1>1, <1>3, <3>1, <3>2
    <2> QED  BY <2>1
  <1> QED  BY <1>2, <1>4, <1>5, <1>6 DEF BitmapOK, Listed

\* bitmap_clear with a word that is still current unlists it.
LEMMA ClearBit ==
  ASSUME BitmapOK, NEW f \in Fibers, NEW w, w = l2_details[Group(f)], bitmap_clear(f, w)
  PROVE  BitmapOK' /\ Listed' = Listed \ {f}
  <1>1. Group(f) \in Groups /\ Bit(f) \in Bits /\ Id(Group(f), Bit(f)) = f
    BY FiberParts
  <1>2. l2_details' \in [Groups -> SUBSET Bits]
    BY <1>1 DEF BitmapOK, bitmap_clear
  <1>3. \A g \in Groups : l2_details'[g] = IF g = Group(f) THEN l2_details[g] \ {Bit(f)} ELSE l2_details[g]
    BY <1>1 DEF BitmapOK, bitmap_clear
  <1>4. l1_summary' = {g \in Groups : l2_details'[g] # {}}
    <2>1. l1_summary' = IF l2_details'[Group(f)] = {} THEN l1_summary \ {Group(f)} ELSE l1_summary
      BY <1>1, <1>3 DEF bitmap_clear
    <2>2. l1_summary = {g \in Groups : l2_details[g] # {}}
      BY DEF BitmapOK
    <2> QED  BY <1>1, <1>3, <2>1, <2>2
  <1>5. \A g \in Groups : \A b \in l2_details'[g] : Id(g, b) \in Fibers
    BY <1>1, <1>3 DEF BitmapOK
  <1>6. \A h \in Fibers : Bit(h) \in l2_details'[Group(h)] <=> h # f /\ Bit(h) \in l2_details[Group(h)]
    <2>1. ASSUME NEW h \in Fibers
          PROVE  Bit(h) \in l2_details'[Group(h)] <=> h # f /\ Bit(h) \in l2_details[Group(h)]
      <3>1. Group(h) \in Groups /\ Bit(h) \in Bits /\ Id(Group(h), Bit(h)) = h
        BY FiberParts
      <3>2. Group(h) = Group(f) /\ Bit(h) = Bit(f) => h = f
        BY <1>1, <3>1
      <3> QED  BY <1>1, <1>3, <3>1, <3>2
    <2> QED  BY <2>1
  <1> QED  BY <1>2, <1>4, <1>5, <1>6 DEF BitmapOK, Listed

\* One more fiber.
LEMMA CountUp ==
  ASSUME NEW f, f \notin Listed, Listed' = Listed \cup {f}, CountOK, count' = count + 1
  PROVE  CountOK'
  <1>1. Cardinality(Listed \cup {f}) = Cardinality(Listed) + 1
    BY ListedIs, FS_AddElement
  <1> QED  BY <1>1 DEF CountOK

\* One fiber less.
LEMMA CountDown ==
  ASSUME NEW f, f \in Listed, Listed' = Listed \ {f}, CountOK, count' = count - 1
  PROVE  CountOK' /\ count' \in Nat
  <1>1. Cardinality(Listed \ {f}) = Cardinality(Listed) - 1
    BY ListedIs, FS_RemoveElement
  <1>2. CountOK'
    BY <1>1 DEF CountOK
  <1>3. IsFiniteSet(Listed \ {f})
    BY ListedIs, FS_RemoveElement
  <1>4. Cardinality(Listed \ {f}) \in Nat
    BY <1>3, FS_CardinalityType
  <1> QED  BY <1>1, <1>2, <1>4 DEF CountOK

\* spawn takes a fiber that is not listed.
LEMMA FreeSlot ==
  ASSUME BitmapOK, FreeSlots # {}
  PROVE  Min(FreeSlots) \in Fibers \ Listed
  <1>1. FreeSlots \in SUBSET Nat /\ FreeSlots \subseteq Fibers
    BY SizeFacts DEF FreeSlots
  <1>2. PICK f \in FreeSlots : f = Min(FreeSlots)
    BY <1>1, MinFacts
  <1>3. PICK g \in Groups : l2_details[g] # Bits /\ f = Id(g, Min(Bits \ l2_details[g]))
    BY DEF FreeSlots
  <1>4. Bits \ l2_details[g] # {} /\ Bits \ l2_details[g] \in SUBSET Nat
    BY <1>3, SizeFacts DEF BitmapOK
  <1>5. PICK b \in Bits \ l2_details[g] : b = Min(Bits \ l2_details[g])
    BY <1>4, MinFacts
  <1>6. Group(f) = g /\ Bit(f) = b
    BY <1>3, <1>5, IdParts
  <1>7. f \notin Listed
    BY <1>5, <1>6 DEF Listed
  <1> QED  BY <1>1, <1>2, <1>7

-----------------------------------------------------------------------------
(* The slab, the initial state, steps that change little. *)

\* pop_stack always has a slot for the fiber being spawned.
LEMMA SlabSuffices ==
  ASSUME IInv, NEW f \in Fibers \ Listed, f # 0
  PROVE  inuse # Slots
  <1>1. ASSUME NEW s \in inuse, s # pending_reclaim
        PROVE  \E h \in Fibers \ {f, 0} : h \in Owner(s)
    <2>1. PICK h \in Fibers : h \in Owner(s)
      BY <1>1 DEF IInv, SlabOK, Owner
    <2>2. s \in Slots /\ s # NULL
      BY <1>1, AddrAssumption DEF IInv, TypeOK
    <2>3. h # 0 /\ fibers[h].active
      BY <2>1, <2>2 DEF IInv, TableOK, Owner
    <2>4. h \in Listed
      BY <2>1, <2>3 DEF IInv, TableOK
    <2> QED  BY <2>1, <2>3, <2>4
  <1> DEFINE T == Fibers \ {f}
             m == [s \in inuse |-> IF s = pending_reclaim THEN 0
                                   ELSE CHOOSE h \in Fibers \ {f, 0} : h \in Owner(s)]
  <1>2. \A s \in inuse : s # pending_reclaim => m[s] \in Fibers \ {f, 0} /\ m[s] \in Owner(s)
    BY <1>1
  <1>3. \A s \in inuse : s = pending_reclaim => m[s] = 0
    OBVIOUS
  <1>4. m \in [inuse -> T]
    BY <1>2, <1>3, SizeFacts
  <1>5. \A s, t \in inuse : m[s] = m[t] => s = t
    <2>1. ASSUME NEW s \in inuse, NEW t \in inuse, m[s] = m[t], s # pending_reclaim, t # pending_reclaim
          PROVE  s = t
      <3>1. PICK h \in Fibers \ {f, 0} : h \in Owner(s) /\ h \in Owner(t)
        BY <1>2, <2>1
      <3>2. s \in Slots /\ t \in Slots /\ s # NULL /\ t # NULL
        BY AddrAssumption DEF IInv, TypeOK
      <3> QED  BY <3>1, <3>2 DEF Owner, IInv, TableOK
    <2>2. ASSUME NEW s \in inuse, NEW t \in inuse, m[s] = m[t], s = pending_reclaim
          PROVE  s = t
      BY <1>2, <1>3, <2>2
    <2>3. ASSUME NEW s \in inuse, NEW t \in inuse, m[s] = m[t], t = pending_reclaim
          PROVE  s = t
      BY <1>2, <1>3, <2>3
    <2> QED  BY <2>1, <2>2, <2>3
  <1>6. m \in Injection(inuse, T)
    <2> HIDE DEF m, T
    <2> QED  BY <1>4, <1>5 DEF Injection, IsInjective
  <1>7. IsFiniteSet(Fibers) /\ Cardinality(Fibers) = MAX_FIBERS
    BY FS_Interval, SizeFacts DEF Fibers
  <1>8. IsFiniteSet(T) /\ Cardinality(T) = MAX_FIBERS - 1
    BY <1>7, FS_RemoveElement
  <1>9. Cardinality(inuse) <= MAX_FIBERS - 1
    <2> HIDE DEF m, T
    <2> QED  BY <1>6, <1>8, FS_Injection
  <1>10. Cardinality(Slots) >= MAX_FIBERS /\ Cardinality(Slots) \in Nat /\ MAX_FIBERS \in Nat
    BY SlabAssumption, SizeFacts, FS_CardinalityType
  <1> QED  BY <1>9, <1>10

\* The initial state.
LEMMA Start ==
  ASSUME Init
  PROVE  IInv
  <1>1. /\ frames = <<Activation(0, KSTACK)>> /\ Len(frames) = 1 /\ frames[1] = Activation(0, KSTACK)
        /\ Activation(0, KSTACK) \in Frame /\ frames \in Seq(Frame)
    <2>1. Activation(0, KSTACK) \in Frame
      BY SizeFacts DEF Frame, Activation
    <2> QED  BY <2>1, Solo DEF Init
  <1>2. \A s \in Slots : parked[s] = <<>> /\ Len(parked[s]) = 0 /\ parked[s] \in Seq(Frame)
    BY EmptySeq DEF Init
  <1>3. \A f \in Fibers : fibers[f] = [active |-> f = 0, step_fn |-> "null", task_frame |-> NULL,
            stack_base |-> NULL, stack_ptr |-> NULL, ctx_ptr |-> NULL]
    BY DEF Init, NoFiber
  <1>a. \A f \in Fibers : /\ fibers[f].task_frame = NULL /\ fibers[f].stack_base = NULL
                          /\ fibers[f].step_fn = "null"
    BY DEF Init, NoFiber
  <1>b. \A f \in Fibers : fibers[f].active = (f = 0)
    BY DEF Init, NoFiber
  <1>4. BitmapOK /\ Listed = {0}
    <2>1. l2_details \in [Groups -> SUBSET Bits]
      BY SizeFacts DEF Init
    <2>2. \A g \in Groups : l2_details[g] = IF g = 0 THEN {0} ELSE {}
      BY DEF Init
    <2>3. Id(0, 0) = 0
      BY SizeFacts DEF Id
    <2>4. l1_summary = {g \in Groups : l2_details[g] # {}}
      BY <2>2, SizeFacts DEF Init
    <2>5. \A g \in Groups : \A b \in l2_details[g] : Id(g, b) \in Fibers
      BY <2>2, <2>3, SizeFacts
    <2>6. ASSUME NEW f \in Fibers PROVE f \in Listed <=> f = 0
      <3>1. Group(f) \in Groups /\ Bit(f) \in Bits /\ Id(Group(f), Bit(f)) = f
        BY FiberParts
      <3>2. Group(0) = 0 /\ Bit(0) = 0
        BY <2>3, IdParts, SizeFacts
      <3> QED  BY <2>2, <2>3, <3>1, <3>2 DEF Listed
    <2> QED  BY <2>1, <2>4, <2>5, <2>6, SizeFacts DEF BitmapOK, Listed
  <1>5. TypeOK
    <2>1. fibers \in [Fibers -> Fiber]
      BY <1>3 DEF Init, Fiber, Addrs
    <2>2. parked \in [Slots -> Seq(Frame)]
      BY <1>2 DEF Init
    <2>3. l1_summary \in SUBSET Groups /\ l2_details \in [Groups -> SUBSET Bits]
      BY <1>4 DEF BitmapOK
    <2> QED  BY <1>1, <2>1, <2>2, <2>3, SizeFacts DEF TypeOK, Init, Addrs
  <1>6. BootOK
    BY <1>1 DEF BootOK, Boot, Dual, Thread, Init, Activation
  <1>7. CalledOK /\ ParkedOK
    BY <1>1, <1>2 DEF CalledOK, ParkedOK, Dual
  <1>8. TableOK
    <2>1. \A f \in Fibers : ~ Goes(f)
      BY <1>1, <1>2 DEF Goes, Boot, Dual, Activation
    <2> QED  BY <1>a, <1>b, <1>4, <2>1, SizeFacts DEF TableOK
  <1>9. SlabOK
    <2>1. \A s \in Slots : Owner(s) = {}
      BY <1>a, AddrAssumption DEF Owner
    <2> QED  BY <2>1, AddrAssumption DEF SlabOK, Init
  <1>10. CountOK
    BY <1>4, FS_Singleton DEF CountOK, Init
  <1>11. GuardsOnlyStacks
    BY DEF GuardsOnlyStacks, Init
  <1> QED  BY <1>4, <1>5, <1>6, <1>7, <1>8, <1>9, <1>10, <1>11 DEF IInv

\* A step that leaves tables, frames and memory alone.
LEMMA Idle ==
  ASSUME IInv, UNCHANGED <<workload, fibers, count, bitmap, pending_reclaim, memory, sched_rsp, saved_rsp, frames>>,
         current' \in Fibers, fault = "none", fault' = "none" => current' = current,
         yield_pending' \in BOOLEAN, if_flag' \in BOOLEAN,
         fault' \in {"none", "null_step", "wild_ctx", "null_stack", "wild_switch"}
  PROVE  IInv'
  <1> USE DEF bitmap, memory
  <1>1. Listed' = Listed /\ \A f : Least(f)' <=> Least(f)
    BY Still
  <1>2. TypeOK'
    BY DEF IInv, TypeOK
  <1>3. BitmapOK'
    BY DEF IInv, BitmapOK
  <1>4. BootOK'
    BY <1>1 DEF IInv, BootOK, Boot, Dual, Thread, Called
  <1>5. \A a : ThreadOK(a)' <=> ThreadOK(a)
    BY <1>1 DEF ThreadOK
  <1>6. CalledOK'
    BY <1>1, <1>5 DEF IInv, CalledOK, Boot, Dual, Thread, Called
  <1>7. ParkedOK'
    BY <1>1, <1>5 DEF IInv, ParkedOK, Boot, Dual
  <1>8. TableOK'
    BY <1>1 DEF IInv, TableOK, Goes, Boot, Dual, Called
  <1>9. SlabOK'
    BY DEF IInv, SlabOK, Owner
  <1>10. CountOK' /\ GuardsOnlyStacks'
    BY <1>1 DEF IInv, CountOK, GuardsOnlyStacks
  <1> QED  BY <1>2, <1>3, <1>4, <1>6, <1>7, <1>8, <1>9, <1>10 DEF IInv

\* The search stays among the fibers.
LEMMA Successor ==
  ASSUME NEW f \in Fibers
  PROVE  CyclicSuccessor(f) \in Fibers
  <1> DEFINE after == {h \in Listed : h > f}
             other == Listed \ {f}
  <1>1. /\ after \in SUBSET Nat /\ other \in SUBSET Nat
        /\ after \subseteq Fibers /\ other \subseteq Fibers
    BY ListedIs
  <1>2. after # {} => Min(after) \in after
    BY <1>1, MinFacts
  <1>3. other # {} => Min(other) \in other
    BY <1>1, MinFacts
  <1>4. CyclicSuccessor(f) = IF after # {} THEN Min(after) ELSE IF other # {} THEN Min(other) ELSE f
    BY DEF CyclicSuccessor
  <1> HIDE DEF after, other
  <1> QED  BY <1>1, <1>2, <1>3, <1>4

\* Fiber 0 chooses the lowest other fiber.
LEMMA FirstChoice ==
  ASSUME CyclicSuccessor(0) # 0
  PROVE  Least(CyclicSuccessor(0))
  <1> DEFINE after == {h \in Listed : h > 0}
             other == Listed \ {0}
  <1>0. \A h \in Listed : h \in Nat /\ (h > 0 <=> h # 0)
    BY ListedIs
  <1>1. after = other /\ other \in SUBSET Nat
    BY <1>0
  <1>2. CyclicSuccessor(0) = IF after # {} THEN Min(after) ELSE IF other # {} THEN Min(other) ELSE 0
    BY DEF CyclicSuccessor
  <1>3. other # {}
    BY <1>1, <1>2, Zenon
  <1>4. Min(other) \in other /\ \A h \in other : Min(other) <= h
    BY <1>1, <1>3, MinFacts
  <1>5. CyclicSuccessor(0) = Min(other)
    BY <1>1, <1>2, <1>3, Zenon
  <1> QED  BY <1>4, <1>5 DEF Least

\* There is one lowest fiber.
LEMMA LeastUnique ==
  ASSUME NEW f, NEW h, Least(f), Least(h)
  PROVE  f = h
  <1>1. f \in Nat /\ h \in Nat /\ f <= h /\ h <= f
    BY ListedIs DEF Least
  <1> QED  BY <1>1

\* What a step that touches neither the tables nor the slab keeps.
LEMMA Quiet ==
  ASSUME IInv,
         UNCHANGED <<workload, fibers, count, bitmap, yield_pending, pending_reclaim, inuse, guarded,
                     saved_rsp, fault>>,
         current' \in Fibers, frames' \in Seq(Frame), parked' \in [Slots -> Seq(Frame)],
         sched_rsp' \in Nat, if_flag' \in BOOLEAN
  PROVE  /\ TypeOK' /\ BitmapOK' /\ SlabOK' /\ CountOK' /\ GuardsOnlyStacks'
         /\ Listed' = Listed /\ (\A f : Least(f)' <=> Least(f))
         /\ \A a : ThreadOK(a)' <=> ThreadOK(a)
  <1> USE DEF bitmap
  <1>1. Listed' = Listed /\ \A f : Least(f)' <=> Least(f)
    BY Still
  <1>2. TypeOK'
    BY DEF IInv, TypeOK
  <1>3. BitmapOK'
    BY DEF IInv, BitmapOK
  <1>4. \A a : ThreadOK(a)' <=> ThreadOK(a)
    BY <1>1 DEF ThreadOK
  <1>5. SlabOK'
    BY DEF IInv, SlabOK, Owner
  <1>6. CountOK' /\ GuardsOnlyStacks'
    BY <1>1 DEF IInv, CountOK, GuardsOnlyStacks
  <1> QED  BY <1>1, <1>2, <1>3, <1>4, <1>5, <1>6

LEMMA KeptStart == ASSUME IInv, start \/ timer_isr PROVE IInv'
  BY Idle DEF start, timer_isr, At, IInv, TypeOK

LEMMA KeptFault ==
  ASSUME IInv, DispatchNull \/ DispatchWild \/ ThreadReturnLost
  PROVE  IInv'
  BY Idle DEF DispatchNull, DispatchWild, ThreadReturnLost, At, IInv, TypeOK

\* The frames by name.
LEMMA TopIs ==
  ASSUME IInv
  PROVE  /\ frames \in Seq(Frame) /\ Boot \in Frame /\ Len(frames) \in {1, 2}
         /\ Len(frames) = 2 => Called \in Frame /\ Top = Called /\ Depth = 2
         /\ Len(frames) = 1 => Top = Boot /\ Depth = 1
         /\ Dual <=> Len(frames) = 2
  BY DEF IInv, TypeOK, BootOK, Boot, Called, Top, Depth, Dual

LEMMA KeptExitSwitch ==
  ASSUME IInv, ExitSwitch
  PROVE  IInv'
  <1>1. Top.cur \in Fibers
    BY TopIs DEF Frame
  <1>2. FindNext(Top.cur, l1_summary, l2_details) = CyclicSuccessor(Top.cur)
    BY <1>1, SearchExact DEF IInv
  <1>3. current' \in Fibers
    BY <1>1, <1>2, Successor DEF ExitSwitch
  <1> QED  BY <1>3, Idle DEF ExitSwitch, At, IInv, TypeOK

LEMMA KeptChoose ==
  ASSUME IInv, Disciplined, Choose
  PROVE  IInv'
  <1>1. Len(frames) = 1 /\ Boot.pc = "body" /\ fault = "none" /\ ~ Dual
    <2>1. "sched_yield" \notin workload
      BY DEF IInv, TypeOK, Disciplined
    <2> QED  BY <2>1, TopIs DEF Choose, OnBoot, At, Depth
  <1>2. current = 0
    BY <1>1 DEF IInv, BootOK
  <1>3. FindNext(0, l1_summary, l2_details) = CyclicSuccessor(0)
    BY SearchExact, SizeFacts DEF IInv
  <1>4. PICK n \in Fibers : n = CyclicSuccessor(0) /\ n # 0 /\ Least(n)
    BY <1>2, <1>3, FirstChoice, Successor, SizeFacts DEF Choose
  <1>5. PICK a \in Frame : a = [Boot EXCEPT !.pc = "chosen", !.cur = 0, !.next = n]
    BY TopIs, <1>4, SizeFacts DEF Frame
  <1>6. frames' = [frames EXCEPT ![1] = a] /\ current' = n
    BY <1>1, <1>2, <1>3, <1>4, <1>5, TopIs DEF Choose, SetTop
  <1>7. Len(frames') = 1 /\ frames'[1] = a /\ frames' \in Seq(Frame)
    BY <1>1, <1>6, TopIs, Topped
  <1>8. a.fiber = 0 /\ a.stack = KSTACK /\ a.pc = "chosen" /\ a.cur = 0 /\ a.next = n
    BY <1>5, TopIs DEF IInv, BootOK, Frame
  <1>u. UNCHANGED <<workload, fibers, count, bitmap, yield_pending, pending_reclaim, inuse, guarded,
                    parked, sched_rsp, saved_rsp, if_flag, fault>>
    BY DEF Choose, memory
  <1>9. /\ TypeOK' /\ BitmapOK' /\ SlabOK' /\ CountOK' /\ GuardsOnlyStacks'
        /\ Listed' = Listed /\ (\A f : Least(f)' <=> Least(f))
        /\ \A x : ThreadOK(x)' <=> ThreadOK(x)
    BY <1>6, <1>7, <1>u, Quiet DEF IInv, TypeOK
  <1>10. BootOK'
    <2>1. sched_rsp' = 0
      BY <1>1, <1>u DEF IInv, BootOK, Thread, Dual
    <2>2. Least(n)'
      BY <1>4, <1>9
    <2> QED  BY <1>1, <1>4, <1>6, <1>7, <1>8, <2>1, <2>2 DEF BootOK, Boot, Dual, Thread
  <1>11. CalledOK'
    <2>1. ~ Dual'
      BY <1>7 DEF Dual
    <2> QED  BY <2>1 DEF CalledOK
  <1>12. ParkedOK'
    BY <1>1, <1>7, <1>8, <1>9, <1>u DEF IInv, ParkedOK, Boot, Dual
  <1>13. TableOK'
    <2>1. \A f : Goes(f)' <=> Goes(f)
      BY <1>1, <1>7, <1>8, <1>u DEF Goes, Boot, Dual
    <2> QED  BY <2>1, <1>9, <1>u DEF IInv, TableOK
  <1> QED  BY <1>9, <1>10, <1>11, <1>12, <1>13 DEF IInv

-----------------------------------------------------------------------------
(* Dispatching. *)

LEMMA KeptClearLoad ==
  ASSUME IInv, ClearLoad
  PROVE  IInv'
  <1>1. Len(frames) = 1 /\ Boot.pc = "done" /\ ~ Dual /\ fault = "none"
    BY TopIs DEF ClearLoad, At, IInv, CalledOK, ThreadOK, Thread, Dual
  <1>2. Boot.next \in Listed /\ Boot.next \in Fibers /\ Boot.next # 0 /\ current = Boot.next /\ sched_rsp = 0
    BY <1>1, TopIs, ListedIs DEF IInv, BootOK, Thread
  <1>3. l2_details[Group(Boot.next)] \in SUBSET Bits
    BY <1>2, FiberParts DEF IInv, BitmapOK
  <1>4. PICK a \in Frame : a = [Boot EXCEPT !.pc = "clear", !.word = l2_details[Group(Boot.next)]]
    BY TopIs, <1>3 DEF Frame
  <1>5. frames' = [frames EXCEPT ![1] = a]
    BY <1>1, <1>4, TopIs DEF ClearLoad, SetTop
  <1>6. Len(frames') = 1 /\ frames'[1] = a /\ frames' \in Seq(Frame)
    BY <1>1, <1>5, TopIs, Topped
  <1>7. /\ a.fiber = 0 /\ a.stack = KSTACK /\ a.pc = "clear" /\ a.cur = 0 /\ a.next = Boot.next
        /\ a.word = l2_details[Group(a.next)]
    BY <1>4, TopIs DEF IInv, BootOK, Frame
  <1>u. UNCHANGED <<workload, fibers, current, count, bitmap, yield_pending, pending_reclaim, inuse, guarded,
                    parked, sched_rsp, saved_rsp, if_flag, fault>> /\ l2_details' = l2_details
    BY DEF ClearLoad, memory, bitmap
  <1>9. /\ TypeOK' /\ BitmapOK' /\ SlabOK' /\ CountOK' /\ GuardsOnlyStacks'
        /\ Listed' = Listed /\ (\A f : Least(f)' <=> Least(f))
        /\ \A x : ThreadOK(x)' <=> ThreadOK(x)
    BY <1>6, <1>u, Quiet DEF IInv, TypeOK
  <1>10. BootOK'
    <2>1. ~ fibers'[a.next].active
      BY <1>1, <1>7, <1>u DEF IInv, BootOK
    <2>2. ~ Dual'
      BY <1>6 DEF Dual
    <2> QED  BY <1>2, <1>6, <1>7, <1>9, <1>u, <2>1, <2>2 DEF BootOK, Boot, Thread
  <1>11. CalledOK'
    <2>1. ~ Dual'
      BY <1>6 DEF Dual
    <2> QED  BY <2>1 DEF CalledOK
  <1>12. ParkedOK'
    BY <1>1, <1>6, <1>7, <1>9, <1>u DEF IInv, ParkedOK, Boot, Dual
  <1>13. TableOK'
    <2>1. \A f : Goes(f)' <=> Goes(f)
      BY <1>1, <1>6, <1>7, <1>u DEF Goes, Boot, Dual
    <2> QED  BY <2>1, <1>9, <1>u DEF IInv, TableOK
  <1> QED  BY <1>9, <1>10, <1>11, <1>12, <1>13 DEF IInv

LEMMA KeptDispatchAsync ==
  ASSUME IInv, DispatchAsync
  PROVE  IInv'
  <1>1. Len(frames) = 1 /\ Boot.pc = "chosen" /\ ~ Dual /\ fault = "none"
    BY TopIs DEF DispatchAsync, At, IInv, CalledOK, ThreadOK, Thread, Dual
  <1>2. Least(Boot.next) /\ Boot.next \in Fibers /\ Boot.next # 0 /\ current = Boot.next /\ sched_rsp = 0
    BY <1>1, TopIs DEF IInv, BootOK, Thread, Frame
  <1>3. fibers[Boot.next].step_fn = "async"
    BY <1>1, TopIs DEF DispatchAsync, Target
  <1>4. PICK a \in Frame : a = Activation(Boot.next, KSTACK)
    BY <1>2 DEF Frame, Activation
  <1>5. frames' = Append(frames, a)
    BY <1>1, <1>4, TopIs DEF DispatchAsync, IInv, BootOK
  <1>6. Len(frames') = 2 /\ frames'[1] = Boot /\ frames'[2] = a /\ frames' \in Seq(Frame)
    BY <1>1, <1>5, TopIs, Pushed DEF Boot
  <1>7. a.fiber = Boot.next /\ a.stack = KSTACK /\ a.pc = "body"
    BY <1>4 DEF Activation
  <1>u. UNCHANGED <<workload, fibers, current, count, bitmap, yield_pending, pending_reclaim, inuse, guarded,
                    parked, sched_rsp, saved_rsp, if_flag, fault>>
    BY DEF DispatchAsync, memory
  <1>8. Dual' /\ ~ Thread' /\ Boot' = Boot /\ Called' = a
    BY <1>6, <1>7 DEF Dual, Thread, Boot, Called
  <1>9. /\ TypeOK' /\ BitmapOK' /\ SlabOK' /\ CountOK' /\ GuardsOnlyStacks'
        /\ Listed' = Listed /\ (\A f : Least(f)' <=> Least(f))
        /\ \A x : ThreadOK(x)' <=> ThreadOK(x)
    BY <1>6, <1>u, Quiet DEF IInv, TypeOK
  <1>10. BootOK'
    BY <1>1, <1>2, <1>6, <1>8, <1>u DEF IInv, BootOK
  \* No saved activation is inside fiber_exit: it would be the chosen fiber.
  <1>a. \A s \in Slots : Len(parked[s]) = 1 => parked[s][1].pc \notin Mid
    <2>1. ASSUME NEW s \in Slots, Len(parked[s]) = 1, parked[s][1].pc \in Mid PROVE FALSE
      <3>1. ThreadOK(parked[s][1])
        BY <2>1 DEF IInv, ParkedOK
      <3>2. Least(parked[s][1].fiber) /\ fibers[parked[s][1].fiber].step_fn = "thread"
        BY <2>1, <3>1 DEF ThreadOK
      <3>3. parked[s][1].fiber = Boot.next
        BY <1>2, <3>2, LeastUnique
      <3> QED  BY <1>3, <3>2, <3>3
    <2> QED  BY <2>1
  <1>b. \A f : ~ Goes(f) /\ ~ Goes(f)'
    BY <1>1, <1>7, <1>8, <1>a, <1>u DEF Goes, Mid
  <1>11. CalledOK'
    <2>1. fibers[Boot.next].active
      BY <1>2, <1>b, ListedIs DEF IInv, TableOK, Least
    <2> QED  BY <1>1, <1>2, <1>3, <1>7, <1>8, <1>9, <1>u, <2>1 DEF CalledOK
  <1>12. ParkedOK'
    BY <1>9, <1>a, <1>u DEF IInv, ParkedOK
  <1>13. TableOK'
    BY <1>b, <1>9, <1>u DEF IInv, TableOK
  <1> QED  BY <1>9, <1>10, <1>11, <1>12, <1>13 DEF IInv

LEMMA KeptExitClearLoad ==
  ASSUME IInv, ExitClearLoad
  PROVE  IInv'
  <1>1. Len(frames) = 2 /\ Called.pc = "exit" /\ Dual /\ fault = "none" /\ Thread
    BY TopIs DEF ExitClearLoad, At, IInv, BootOK, CalledOK
  <1>2. Called.cur = Called.fiber /\ Called.fiber \in Fibers /\ Called \in Frame /\ ThreadOK(Called)
    BY <1>1, TopIs DEF IInv, CalledOK, ThreadOK, Frame
  <1>3. l2_details[Group(Called.fiber)] \in SUBSET Bits
    BY <1>2, FiberParts DEF IInv, BitmapOK
  <1>4. PICK a \in Frame : a = [Called EXCEPT !.pc = "exit_clear", !.word = l2_details[Group(Called.fiber)]]
    BY <1>2, <1>3 DEF Frame
  <1>5. frames' = [frames EXCEPT ![2] = a]
    BY <1>1, <1>2, <1>4, TopIs DEF ExitClearLoad, SetTop
  <1>6. Len(frames') = 2 /\ frames'[1] = Boot /\ frames'[2] = a /\ frames' \in Seq(Frame)
    BY <1>1, <1>5, TopIs, Topped DEF Boot
  <1>7. /\ a.fiber = Called.fiber /\ a.stack = Called.stack /\ a.pc = "exit_clear" /\ a.cur = a.fiber
        /\ a.word = l2_details[Group(a.fiber)]
    BY <1>2, <1>4 DEF Frame
  <1>u. UNCHANGED <<workload, fibers, current, count, bitmap, yield_pending, pending_reclaim, inuse, guarded,
                    parked, sched_rsp, saved_rsp, if_flag, fault>> /\ l2_details' = l2_details
    BY DEF ExitClearLoad, memory, bitmap
  <1>8. Dual' /\ Boot' = Boot /\ Called' = a /\ Thread'
    BY <1>1, <1>6, <1>7 DEF Dual, Thread, Boot, Called
  <1>9. /\ TypeOK' /\ BitmapOK' /\ SlabOK' /\ CountOK' /\ GuardsOnlyStacks'
        /\ Listed' = Listed /\ (\A f : Least(f)' <=> Least(f))
        /\ \A x : ThreadOK(x)' <=> ThreadOK(x)
    BY <1>6, <1>u, Quiet DEF IInv, TypeOK
  <1>10. BootOK'
    BY <1>1, <1>6, <1>8, <1>9, <1>u DEF IInv, BootOK, CalledOK
  <1>11. CalledOK'
    <2>1. ThreadOK(a)
      BY <1>1, <1>2, <1>7 DEF ThreadOK, Mid
    <2>2. ThreadOK(a)'
      BY <1>9, <2>1
    <2> QED  BY <1>1, <1>7, <1>8, <1>9, <1>u, <2>2 DEF IInv, CalledOK
  <1>12. ParkedOK'
    BY <1>1, <1>8, <1>9, <1>u DEF IInv, ParkedOK
  <1>13. TableOK'
    <2>1. \A f : Goes(f)' <=> Goes(f)
      BY <1>1, <1>7, <1>8, <1>u DEF Goes, Mid
    <2> QED  BY <2>1, <1>9, <1>u DEF IInv, TableOK
  <1> QED  BY <1>9, <1>10, <1>11, <1>12, <1>13 DEF IInv

LEMMA KeptDispatchThread ==
  ASSUME IInv, DispatchThread
  PROVE  IInv'
  <1>1. Len(frames) = 1 /\ Boot.pc = "chosen" /\ ~ Dual /\ fault = "none"
    BY TopIs DEF DispatchThread, At, IInv, CalledOK, ThreadOK, Thread, Dual
  <1>2. Least(Boot.next) /\ Boot.next \in Fibers /\ Boot.next # 0 /\ current = Boot.next /\ sched_rsp = 0
    BY <1>1, TopIs DEF IInv, BootOK, Thread, Frame
  <1>3. PICK c \in Slots : /\ c = fibers[Boot.next].ctx_ptr /\ parked[c] # <<>>
                           /\ parked[c][1].fiber = Boot.next
    BY <1>1, TopIs DEF DispatchThread, Target, OwnContext, SavedOn
  <1>4. fibers[Boot.next].step_fn = "thread"
    BY <1>1, TopIs DEF DispatchThread, Target
  <1>5. PICK p \in Seq(Frame) : p = parked[c] /\ Len(p) = 1
    <2>1. parked[c] \in Seq(Frame) /\ Len(parked[c]) \in {0, 1}
      BY DEF IInv, TypeOK, ParkedOK
    <2>2. Len(parked[c]) # 0
      BY <1>3, <2>1, EmptySeq
    <2> QED  BY <2>1, <2>2
  <1>6. PICK a \in Frame : a = p[1]
    BY <1>5, ElementOfSeq
  <1>7. /\ a.stack = c /\ a.fiber = Boot.next /\ ThreadOK(a)
        /\ a.pc # "switch"
    <2>1. /\ a.stack = c /\ ThreadOK(a)
          /\ a.pc = "switch" /\ a.fiber \in Listed /\ fibers[a.fiber].step_fn = "thread"
                => fibers[a.fiber].ctx_ptr # c
      BY <1>5, <1>6 DEF IInv, ParkedOK
    <2> QED  BY <1>2, <1>3, <1>4, <1>5, <1>6, <2>1 DEF Least
  <1>8. frames' = frames \o p /\ sched_rsp' = 1
    BY <1>1, <1>3, <1>5, TopIs DEF DispatchThread, Target
  <1>9. Len(frames') = 2 /\ frames'[1] = Boot /\ frames'[2] = a /\ frames' \in Seq(Frame)
    BY <1>1, <1>5, <1>6, <1>8, TopIs, Joined DEF Boot
  <1>10. Dual' /\ Boot' = Boot /\ Called' = a /\ Thread'
    BY <1>7, <1>9, AddrAssumption DEF Dual, Thread, Boot, Called
  <1>11. \A s \in Slots : parked'[s] = IF s = c THEN <<>> ELSE parked[s]
    BY <1>1, <1>3, TopIs DEF DispatchThread, Target, IInv, TypeOK
  <1>12. parked' \in [Slots -> Seq(Frame)] /\ Len(parked'[c]) = 0
    <2>1. <<>> \in Seq(Frame) /\ Len(<<>>) = 0
      BY EmptySeq
    <2>2. parked' = [parked EXCEPT ![c] = <<>>]
      BY <1>1, <1>3, TopIs DEF DispatchThread, Target
    <2>3. parked \in [Slots -> Seq(Frame)]
      BY DEF IInv, TypeOK
    <2> QED  BY <1>11, <2>1, <2>2, <2>3
  <1>u. UNCHANGED <<workload, fibers, current, count, bitmap, yield_pending, pending_reclaim, inuse, guarded,
                    saved_rsp, fault>> /\ if_flag' = TRUE
    BY DEF DispatchThread
  <1>13. /\ TypeOK' /\ BitmapOK' /\ SlabOK' /\ CountOK' /\ GuardsOnlyStacks'
         /\ Listed' = Listed /\ (\A f : Least(f)' <=> Least(f))
         /\ \A x : ThreadOK(x)' <=> ThreadOK(x)
    BY <1>8, <1>9, <1>12, <1>u, Quiet DEF IInv, TypeOK
  <1>14. BootOK'
    BY <1>1, <1>8, <1>9, <1>10, <1>13, <1>u DEF IInv, BootOK
  <1>15. CalledOK'
    BY <1>1, <1>2, <1>7, <1>10, <1>12, <1>13 DEF CalledOK
  \* A saved activation inside fiber_exit is the chosen fiber's.
  <1>16. ASSUME NEW s \in Slots, Len(parked[s]) = 1, parked[s][1].pc \in Mid
         PROVE  s = c
    <2>1. parked[s][1].stack = s /\ ThreadOK(parked[s][1])
      BY <1>16 DEF IInv, ParkedOK
    <2>2. Least(parked[s][1].fiber) /\ ~ fibers[parked[s][1].fiber].active /\ pending_reclaim = s
      BY <1>16, <2>1 DEF ThreadOK
    <2>3. parked[s][1].fiber = Boot.next
      BY <1>2, <2>2, LeastUnique
    <2>4. a.pc \in Mid
      BY <1>7, <2>2, <2>3 DEF ThreadOK, Mid
    <2>5. pending_reclaim = c
      BY <1>7, <2>4 DEF ThreadOK
    <2> QED  BY <2>2, <2>5
  <1>17. \A s \in Slots : Len(parked'[s]) = 1 => parked'[s] = parked[s] /\ parked'[s][1].pc \notin Mid
    <2>1. ASSUME NEW s \in Slots, Len(parked'[s]) = 1
          PROVE  parked'[s] = parked[s] /\ parked'[s][1].pc \notin Mid
      <3>1. s # c
        <4>1. Len(parked'[c]) = 0
          BY <1>12
        <4>2. s = c => Len(parked'[s]) = Len(parked'[c])
          BY Zenon
        <4>3. 0 # 1
          OBVIOUS
        <4> QED  BY <2>1, <4>1, <4>2, <4>3
      <3>2. parked'[s] = parked[s]
        BY <1>11, <3>1
      <3> QED  BY <1>16, <2>1, <3>1, <3>2
    <2> QED  BY <2>1
  <1>18. ParkedOK'
    <2>1. \A s \in Slots : Len(parked'[s]) \in {0, 1}
      BY <1>11, <1>12 DEF IInv, ParkedOK
    <2> QED  BY <1>13, <1>17, <1>u, <2>1 DEF IInv, ParkedOK
  <1>19. TableOK'
    <2>1. ASSUME NEW f PROVE Goes(f)' <=> Goes(f)
      <3>1. Goes(f)' <=> a.pc \in Mid /\ f = a.fiber
        BY <1>1, <1>10, <1>17 DEF Goes
      <3>2. Goes(f) <=> \E s \in Slots : Len(parked[s]) = 1 /\ parked[s][1].pc \in Mid /\ f = parked[s][1].fiber
        BY <1>1 DEF Goes
      <3> QED  BY <1>3, <1>5, <1>6, <1>16, <3>1, <3>2
    <2> QED  BY <2>1, <1>13, <1>u DEF IInv, TableOK
  <1> QED  BY <1>13, <1>14, <1>15, <1>18, <1>19 DEF IInv

-----------------------------------------------------------------------------
(* A step function returns PENDING. *)

\* What a step that returns PENDING to fiber 0, with rsp in GS:[56], leaves behind.
Returned(rsp) ==
    /\ TypeOK' /\ BitmapOK' /\ SlabOK' /\ CountOK' /\ GuardsOnlyStacks' /\ BootOK' /\ CalledOK'
    /\ Listed' = Listed /\ ~ Dual' /\ Boot'.pc = "body"
    /\ \A a : a.fiber \in Fibers => (ThreadOK(a)' <=> ThreadOK(a))
    /\ \A f \in Fibers : /\ fibers'[f].active = fibers[f].active
                         /\ fibers'[f].step_fn = fibers[f].step_fn
                         /\ fibers'[f].task_frame = fibers[f].task_frame
                         /\ fibers'[f].stack_base = fibers[f].stack_base
                         /\ fibers'[f].ctx_ptr = IF f = Boot.next /\ rsp # NULL THEN rsp ELSE fibers[f].ctx_ptr

\* A step function that returned PENDING to fiber 0.
LEMMA Suspended ==
  ASSUME IInv, NEW n, n = 1, NEW rsp \in Addrs, Suspend(n, rsp), fault = "none",
         UNCHANGED <<yield_pending, pending_reclaim, fault>>,
         parked' \in [Slots -> Seq(Frame)], sched_rsp' = 0, saved_rsp' \in Addrs, if_flag' \in BOOLEAN
  PROVE  Returned(rsp)
  <1>1. Boot \in Frame /\ Boot.fiber = 0 /\ Boot.stack = KSTACK /\ Boot.cur = 0 /\ Boot.next \in Fibers
    BY TopIs DEF IInv, BootOK, Frame
  <1>2. frames[n] = Boot
    BY DEF Boot
  <1>3. PICK b \in Frame : b = Activation(0, KSTACK)
    BY SizeFacts DEF Activation, Frame
  <1>4. Len(frames') = 1 /\ frames'[1] = b /\ frames' \in Seq(Frame)
    <2>1. frames' = Append(SubSeq(frames, 1, n - 1), b)
      BY <1>1, <1>2, <1>3 DEF Suspend
    <2>2. frames \in Seq(Frame)
      BY TopIs
    <2> QED  BY <2>1, <2>2, Cut
  <1>5. current' = 0
    BY <1>1, <1>2 DEF Suspend
  <1>6. fibers \in [Fibers -> Fiber]
    BY DEF IInv, TypeOK
  <1>7. fibers' = [fibers EXCEPT ![Boot.next] =
            IF rsp # NULL THEN [fibers[Boot.next] EXCEPT !.stack_ptr = rsp, !.ctx_ptr = rsp] ELSE fibers[Boot.next]]
    BY <1>2 DEF Suspend
  <1>8. fibers' \in [Fibers -> Fiber]
    <2>1. fibers[Boot.next] \in Fiber
      BY <1>1, <1>6
    <2>2. [fibers[Boot.next] EXCEPT !.stack_ptr = rsp, !.ctx_ptr = rsp] \in Fiber
      BY <2>1 DEF Fiber
    <2> QED  BY <1>6, <1>7, <2>1, <2>2
  <1>9. \A f \in Fibers : f # Boot.next => fibers'[f] = fibers[f]
    BY <1>1, <1>6, <1>7
  <1>10. fibers'[Boot.next] = IF rsp # NULL THEN [fibers[Boot.next] EXCEPT !.stack_ptr = rsp, !.ctx_ptr = rsp]
                              ELSE fibers[Boot.next]
    BY <1>1, <1>6, <1>7
  <1>11. \A f \in Fibers : /\ fibers'[f].active = fibers[f].active
                           /\ fibers'[f].step_fn = fibers[f].step_fn
                           /\ fibers'[f].task_frame = fibers[f].task_frame
                           /\ fibers'[f].stack_base = fibers[f].stack_base
                           /\ fibers'[f].ctx_ptr = IF f = Boot.next /\ rsp # NULL THEN rsp ELSE fibers[f].ctx_ptr
    <2>1. fibers[Boot.next] \in Fiber
      BY <1>1, <1>6
    <2> QED  BY <1>9, <1>10, <2>1 DEF Fiber
  <1>u. UNCHANGED <<workload, count, l1_summary, l2_details, inuse, guarded, yield_pending, pending_reclaim, fault>>
    BY DEF Suspend, bitmap
  <1>12. Listed' = Listed /\ (\A f : Least(f)' <=> Least(f))
    BY <1>u, Still
  <1>13. TypeOK'
    BY <1>4, <1>5, <1>8, <1>u, SizeFacts DEF IInv, TypeOK
  <1>14. BitmapOK'
    BY <1>u DEF IInv, BitmapOK
  <1>15. SlabOK'
    <2>1. \A s : Owner(s)' = Owner(s)
      BY <1>11 DEF Owner
    <2> QED  BY <2>1, <1>u DEF IInv, SlabOK
  <1>16. CountOK' /\ GuardsOnlyStacks'
    BY <1>11, <1>12, <1>u DEF IInv, CountOK, GuardsOnlyStacks
  <1>17. ~ Dual' /\ Boot' = b /\ b.pc = "body"
    BY <1>3, <1>4 DEF Dual, Boot, Activation
  <1>18. BootOK'
    BY <1>3, <1>4, <1>5, <1>17 DEF BootOK, Thread, Activation
  <1>19. CalledOK'
    BY <1>17 DEF CalledOK
  <1>20. ASSUME NEW a, a.fiber \in Fibers PROVE ThreadOK(a)' <=> ThreadOK(a)
    BY <1>11, <1>12, <1>20, <1>u DEF ThreadOK
  <1> QED  BY <1>11, <1>12, <1>13, <1>14, <1>15, <1>16, <1>17, <1>18, <1>19, <1>20 DEF Returned

\* A saved frame is a frame.
LEMMA SavedIn ==
  ASSUME TypeOK, NEW s \in Slots, Len(parked[s]) = 1
  PROVE  parked[s][1] \in Frame /\ parked[s][1].fiber \in Fibers
  <1>1. parked[s] \in Seq(Frame)
    BY DEF TypeOK
  <1>2. parked[s][1] \in Frame
    BY <1>1, ElementOfSeq
  <1> QED  BY <1>2 DEF Frame

LEMMA KeptAsyncPending ==
  ASSUME IInv, AsyncPending
  PROVE  IInv'
  <1>1. Len(frames) = 2 /\ Dual /\ ~ Thread /\ fault = "none" /\ sched_rsp = 0
    <2>1. Len(frames) = 2 /\ Dual /\ fault = "none"
      BY TopIs DEF AsyncPending, InAsync, At
    <2>2. Depth = 2 /\ Top = Called
      BY <2>1, TopIs
    <2>3. Called.stack = Boot.stack
      BY <2>2 DEF AsyncPending, InAsync, Boot
    <2> QED  BY <2>1, <2>3 DEF IInv, BootOK, Thread
  <1>2. /\ Called.pc = "body" /\ fibers[Boot.next].step_fn = "async" /\ Boot.pc = "chosen"
        /\ Boot.next \in Fibers
    BY <1>1, TopIs DEF IInv, CalledOK, Frame
  <1>3. PICK n : n = Depth - 1 /\ n = 1
    BY <1>1, TopIs
  <1>4. Suspend(n, saved_rsp)
    BY <1>3 DEF AsyncPending
  <1>u. UNCHANGED <<workload, yield_pending, pending_reclaim, sched_rsp, saved_rsp, if_flag, parked, fault>>
    BY DEF AsyncPending
  <1>t. /\ saved_rsp \in Addrs /\ parked' \in [Slots -> Seq(Frame)] /\ sched_rsp' = 0
        /\ saved_rsp' \in Addrs /\ if_flag' \in BOOLEAN
    BY <1>1, <1>u DEF IInv, TypeOK
  <1>5. Returned(saved_rsp)
    BY <1>1, <1>3, <1>4, <1>u, <1>t, Suspended
  <1>6. ParkedOK'
    <2>1. ASSUME NEW s \in Slots, Len(parked[s]) = 1
          PROVE  /\ parked'[s][1].stack = s /\ ThreadOK(parked[s][1])' /\ parked'[s][1].pc \notin Mid
                 /\ parked'[s][1].pc = "switch" /\ parked'[s][1].fiber \in Listed'
                        /\ fibers'[parked'[s][1].fiber].step_fn = "thread"
                    => fibers'[parked'[s][1].fiber].ctx_ptr # s
      <3>1. parked[s][1].fiber \in Fibers
        BY <2>1, SavedIn DEF IInv
      <3>2. PICK a : a = parked[s][1]
        OBVIOUS
      <3>3. /\ a.stack = s /\ ThreadOK(a) /\ a.pc \notin Mid
            /\ a.pc = "switch" /\ a.fiber \in Listed /\ fibers[a.fiber].step_fn = "thread"
                    => fibers[a.fiber].ctx_ptr # s
        BY <1>1, <2>1, <3>2 DEF IInv, ParkedOK
      <3>4. parked'[s][1] = a /\ a.fiber \in Fibers
        BY <1>u, <3>1, <3>2
      <3>5. ThreadOK(a)'
        BY <1>5, <3>3, <3>4 DEF Returned
      <3>6. ThreadOK(parked[s][1])'
        BY <3>4, <3>5, Zenon
      <3> QED  BY <1>2, <1>5, <3>3, <3>4, <3>6 DEF Returned
    <2>2. \A s \in Slots : Len(parked'[s]) \in {0, 1}
      BY <1>u DEF IInv, ParkedOK
    <2> QED  BY <1>u, <2>1, <2>2 DEF ParkedOK
  <1>7. TableOK'
    <2>1. \A f : ~ Goes(f)' /\ ~ Goes(f)
      <3>1. \A s \in Slots : Len(parked[s]) = 1 => parked[s][1].pc \notin Mid
        BY <1>1 DEF IInv, ParkedOK
      <3> QED  BY <1>1, <1>2, <1>5, <1>u, <3>1 DEF Goes, Mid, Returned
    <2> QED  BY <1>5, <2>1, SizeFacts DEF IInv, TableOK, Returned
  <1> QED  BY <1>5, <1>6, <1>7 DEF IInv, Returned

LEMMA KeptTimerInStub ==
  ASSUME IInv, TimerInStub
  PROVE  IInv'
  <1>1. Len(frames) = 1 /\ Boot.pc = "chosen" /\ ~ Dual /\ fault = "none" /\ Top = Boot /\ Depth = 1
    BY TopIs DEF TimerInStub, At, IInv, CalledOK, ThreadOK, Thread, Dual
  <1>2. Boot.stack = KSTACK /\ Boot.next \in Fibers /\ KSTACK \in Addrs /\ KSTACK # NULL /\ KSTACK \notin Slots
    BY TopIs, AddrAssumption DEF IInv, BootOK, Frame, Addrs
  <1>3. PICK n : n = Depth /\ n = 1
    BY <1>1
  <1>4. Suspend(n, KSTACK)
    BY <1>1, <1>2, <1>3 DEF TimerInStub
  <1>u. UNCHANGED <<yield_pending, pending_reclaim, parked, fault>>
    BY DEF TimerInStub
  <1>t. /\ parked' \in [Slots -> Seq(Frame)] /\ sched_rsp' = 0
        /\ saved_rsp' \in Addrs /\ if_flag' \in BOOLEAN
    BY <1>1, <1>2, <1>u DEF IInv, TypeOK, TimerInStub
  <1>5. Returned(KSTACK)
    BY <1>1, <1>2, <1>3, <1>4, <1>u, <1>t, Suspended
  <1>6. ParkedOK'
    <2>1. ASSUME NEW s \in Slots, Len(parked[s]) = 1
          PROVE  /\ parked'[s][1].stack = s /\ ThreadOK(parked[s][1])'
                 /\ parked'[s][1].pc = "switch" /\ parked'[s][1].fiber \in Listed'
                        /\ fibers'[parked'[s][1].fiber].step_fn = "thread"
                    => fibers'[parked'[s][1].fiber].ctx_ptr # s
      <3>1. parked[s][1].fiber \in Fibers
        BY <2>1, SavedIn DEF IInv
      <3>2. PICK a : a = parked[s][1]
        OBVIOUS
      <3>3. /\ a.stack = s /\ ThreadOK(a)
            /\ a.pc = "switch" /\ a.fiber \in Listed /\ fibers[a.fiber].step_fn = "thread"
                    => fibers[a.fiber].ctx_ptr # s
        BY <2>1, <3>2 DEF IInv, ParkedOK
      <3>4. parked'[s][1] = a /\ a.fiber \in Fibers
        BY <1>u, <3>1, <3>2
      <3>5. ThreadOK(a)'
        BY <1>5, <3>3, <3>4 DEF Returned
      <3>6. ThreadOK(parked[s][1])'
        BY <3>4, <3>5, Zenon
      <3> QED  BY <1>2, <1>5, <3>3, <3>4, <3>6 DEF Returned
    <2>2. \A s \in Slots : Len(parked'[s]) \in {0, 1}
      BY <1>u DEF IInv, ParkedOK
    <2> QED  BY <1>5, <1>u, <2>1, <2>2 DEF ParkedOK, Returned
  <1>7. TableOK'
    <2>1. \A f : Goes(f)' <=> Goes(f)
      BY <1>1, <1>5, <1>u DEF Goes, Returned
    <2> QED  BY <1>5, <2>1, SizeFacts DEF IInv, TableOK, Returned
  <1> QED  BY <1>5, <1>6, <1>7 DEF IInv, Returned

LEMMA KeptTimerPreempt ==
  ASSUME IInv, TimerPreempt
  PROVE  IInv'
  <1>1. Len(frames) = 2 /\ Dual /\ Thread /\ fault = "none" /\ sched_rsp = 1 /\ Top = Called /\ Depth = 2
    <2>1. sched_rsp = 1 /\ Thread /\ fault = "none"
      BY DEF TimerPreempt, IInv, BootOK
    <2> QED  BY <2>1, TopIs DEF Thread, Dual
  <1>2. PICK c \in Frame : c = Called
    BY <1>1, TopIs
  <1>3. /\ ThreadOK(c) /\ c.fiber = Boot.next /\ Boot.pc = "chosen"
        /\ c.pc = "switch" => c.fiber \notin Listed
        /\ Boot.next \in Fibers /\ c.stack \in Slots
    BY <1>1, <1>2, TopIs DEF IInv, CalledOK, ThreadOK, Frame
  <1>4. PICK n : n = sched_rsp /\ n = 1
    BY <1>1
  <1>5. c.stack \in Addrs /\ c.stack # NULL
    BY <1>3, AddrAssumption DEF Addrs
  <1>6. Suspend(n, c.stack)
    BY <1>1, <1>2, <1>4 DEF TimerPreempt
  <1>u. UNCHANGED <<yield_pending, pending_reclaim, fault>>
    BY DEF TimerPreempt
  <1>7. PICK q \in Seq(Frame) : q = SubSeq(frames, n + 1, Depth) /\ Len(q) = 1 /\ q[1] = c
    <2>1. /\ SubSeq(frames, n + 1, Depth) \in Seq(Frame) /\ Len(SubSeq(frames, n + 1, Depth)) = 1
          /\ SubSeq(frames, n + 1, Depth)[1] = frames[2]
      <3>1. frames \in Seq(Frame) /\ Len(frames) = 2 /\ n = 1 /\ Depth = 2
        BY <1>1, <1>4, TopIs
      <3>2. PICK f, m : f = frames /\ m = Depth
        OBVIOUS
      <3>3. f \in Seq(Frame) /\ Len(f) = 2 /\ n = 1 /\ m = 2
        BY <3>1, <3>2
      <3>4. SubSeq(f, n + 1, m) \in Seq(Frame) /\ Len(SubSeq(f, n + 1, m)) = 1 /\ SubSeq(f, n + 1, m)[1] = f[2]
        BY <3>3, Upper
      <3> QED  BY <3>2, <3>4
    <2> QED  BY <1>2, <2>1 DEF Called
  <1>8. parked' = [parked EXCEPT ![c.stack] = q]
    BY <1>1, <1>2, <1>4, <1>7 DEF TimerPreempt
  <1>t. /\ parked' \in [Slots -> Seq(Frame)] /\ sched_rsp' = 0
        /\ saved_rsp' \in Addrs /\ if_flag' \in BOOLEAN
    BY <1>1, <1>2, <1>5, <1>7, <1>8 DEF IInv, TypeOK, TimerPreempt
  <1>9. Returned(c.stack)
    BY <1>1, <1>4, <1>5, <1>6, <1>u, <1>t, Suspended
  <1>10. \A s \in Slots : parked'[s] = IF s = c.stack THEN q ELSE parked[s]
    BY <1>8 DEF IInv, TypeOK
  <1>11. \A s \in Slots : Len(parked[s]) = 1 => parked[s][1].pc \notin Mid
    BY <1>1 DEF IInv, ParkedOK
  <1>12. ParkedOK'
    <2>1. ASSUME NEW s \in Slots, Len(parked'[s]) = 1
          PROVE  /\ parked'[s][1].stack = s /\ ThreadOK(parked[s][1])'
                 /\ parked'[s][1].pc = "switch" /\ parked'[s][1].fiber \in Listed'
                        /\ fibers'[parked'[s][1].fiber].step_fn = "thread"
                    => fibers'[parked'[s][1].fiber].ctx_ptr # s
      <3>1. PICK a : a = parked'[s][1]
        OBVIOUS
      <3>2. CASE s = c.stack
        <4>1. a = c
          BY <1>7, <1>10, <3>1, <3>2
        <4>2. ThreadOK(a)'
          BY <1>3, <1>9, <4>1 DEF Returned
        <4>3. ThreadOK(parked[s][1])'
          BY <3>1, <4>2, Zenon
        <4> QED  BY <1>3, <1>9, <3>1, <3>2, <4>1, <4>3 DEF Returned
      <3>3. CASE s # c.stack
        <4>1. parked'[s] = parked[s] /\ a = parked[s][1] /\ Len(parked[s]) = 1
          BY <1>10, <2>1, <3>1, <3>3
        <4>2. a.fiber \in Fibers
          BY <4>1, SavedIn DEF IInv
        <4>3. /\ a.stack = s /\ ThreadOK(a)
              /\ a.pc = "switch" /\ a.fiber \in Listed /\ fibers[a.fiber].step_fn = "thread"
                    => fibers[a.fiber].ctx_ptr # s
          BY <4>1 DEF IInv, ParkedOK
        <4>4. ThreadOK(a)'
          BY <1>9, <4>2, <4>3 DEF Returned
        <4>5. ThreadOK(parked[s][1])'
          BY <3>1, <4>4, Zenon
        <4> QED  BY <1>9, <3>1, <3>3, <4>2, <4>3, <4>5 DEF Returned
      <3> QED  BY <3>2, <3>3
    <2>2. \A s \in Slots : Len(parked'[s]) \in {0, 1}
      BY <1>7, <1>10 DEF IInv, ParkedOK
    <2> QED  BY <1>9, <2>1, <2>2 DEF ParkedOK, Returned
  <1>13. TableOK'
    <2>1. ASSUME NEW f PROVE Goes(f)' <=> Goes(f)
      <3>1. Goes(f) <=> c.pc \in Mid /\ f = c.fiber
        BY <1>1, <1>2, <1>3, <1>11 DEF Goes
      <3>2. Goes(f)' <=> \E s \in Slots : Len(parked'[s]) = 1 /\ parked'[s][1].pc \in Mid /\ f = parked'[s][1].fiber
        BY <1>9 DEF Goes, Returned
      <3>3. ASSUME NEW s \in Slots, Len(parked'[s]) = 1, parked'[s][1].pc \in Mid
            PROVE  parked'[s][1] = c
        BY <1>7, <1>10, <1>11, <3>3
      <3>4. Len(parked'[c.stack]) = 1 /\ parked'[c.stack][1] = c
        BY <1>3, <1>7, <1>10
      <3> QED  BY <1>3, <3>1, <3>2, <3>3, <3>4
    <2> QED  BY <1>9, <2>1, SizeFacts DEF IInv, TableOK, Returned
  <1> QED  BY <1>9, <1>12, <1>13 DEF IInv, Returned

-----------------------------------------------------------------------------
(* A step function returns READY. *)

\* A step function that returned READY to fiber 0.
LEMMA Reclaimed ==
  ASSUME IInv, NEW n, n = 1, Reclaim(n), Dual, Called.pc = "body", fault = "none",
         UNCHANGED <<yield_pending, pending_reclaim, parked, fault>>,
         sched_rsp' = 0, saved_rsp' \in Addrs, if_flag' \in BOOLEAN
  PROVE  IInv'
  <1>1. /\ Boot \in Frame /\ Boot.fiber = 0 /\ Boot.stack = KSTACK /\ Boot.cur = 0 /\ Boot.next \in Fibers
        /\ Boot.next # 0 /\ Boot.pc = "chosen" /\ Called.fiber = Boot.next /\ Least(Boot.next)
        /\ current = Boot.next /\ fibers[Boot.next].active /\ frames[n] = Boot
    <2>1. /\ Boot.pc = "chosen" /\ Called.fiber = Boot.next /\ Least(Called.fiber)
          /\ fibers[Called.fiber].active
      BY DEF IInv, CalledOK, ThreadOK
    <2> QED  BY <2>1, TopIs DEF IInv, BootOK, Frame, Boot
  <1>2. PICK r : r = Boot.next
    OBVIOUS
  <1>3. PICK b \in Frame : b = [Boot EXCEPT !.pc = "done"]
    BY <1>1 DEF Frame
  <1>4. b.fiber = 0 /\ b.stack = KSTACK /\ b.pc = "done" /\ b.cur = 0 /\ b.next = r
    BY <1>1, <1>2, <1>3 DEF Frame
  <1>5. Len(frames') = 1 /\ frames'[1] = b /\ frames' \in Seq(Frame)
    <2>1. frames' = Append(SubSeq(frames, 1, n - 1), b)
      BY <1>1, <1>3 DEF Reclaim
    <2>2. frames \in Seq(Frame)
      BY TopIs
    <2> QED  BY <2>1, <2>2, Cut
  <1>6. ~ Dual' /\ Boot' = b
    BY <1>5 DEF Dual, Boot
  <1>7. fibers \in [Fibers -> Fiber] /\ fibers[r] \in Fiber /\ r \in Fibers
    BY <1>1, <1>2 DEF IInv, TypeOK
  <1>8. PICK e \in Fiber : /\ fibers' = [fibers EXCEPT ![r] = e]
                           /\ e.active = FALSE /\ e.step_fn = "null" /\ e.task_frame = NULL /\ e.stack_base = NULL
    <2>1. [NoFiber EXCEPT !.stack_ptr = IF fibers[r].stack_base # NULL THEN NULL ELSE fibers[r].stack_ptr] \in Fiber
      BY <1>7 DEF NoFiber, Fiber, Addrs
    <2> QED  BY <1>1, <1>2, <2>1 DEF Reclaim, NoFiber
  <1>9. /\ fibers' \in [Fibers -> Fiber]
        /\ \A f \in Fibers : f # r => fibers'[f] = fibers[f]
        /\ fibers'[r].active = FALSE /\ fibers'[r].step_fn = "null"
        /\ fibers'[r].task_frame = NULL /\ fibers'[r].stack_base = NULL
    BY <1>7, <1>8
  <1>10. PICK d \in Slots : /\ guarded' = guarded \ {d} /\ inuse' = inuse \ {d}
                            /\ \A s \in Slots : r \in Owner(s) <=> s = d
                            /\ fibers[r].stack_base = d \/ d \notin {fibers[f].stack_base : f \in Fibers}
    <2>1. \/ /\ fibers[r].task_frame = NULL /\ fibers[r].stack_base \in Slots
          \/ /\ fibers[r].stack_base = NULL /\ fibers[r].task_frame \in Slots
      BY <1>1, <1>2, <1>7 DEF IInv, TableOK
    <2>2. /\ guarded' = guarded \ ({fibers[r].task_frame, fibers[r].stack_base} \ {NULL})
          /\ inuse' = inuse \ ({fibers[r].task_frame, fibers[r].stack_base} \ {NULL})
      BY <1>1, <1>2 DEF Reclaim, vmm_set_present
    <2>3. CASE fibers[r].task_frame = NULL /\ fibers[r].stack_base \in Slots
      <3>1. PICK d \in Slots : d = fibers[r].stack_base
        BY <2>3
      <3>2. {fibers[r].task_frame, fibers[r].stack_base} \ {NULL} = {d}
        BY <2>3, <3>1, AddrAssumption
      <3>3. \A s \in Slots : r \in Owner(s) <=> s = d
        BY <2>3, <3>1, <1>7, AddrAssumption DEF Owner
      <3> QED  BY <2>2, <3>1, <3>2, <3>3
    <2>4. CASE fibers[r].stack_base = NULL /\ fibers[r].task_frame \in Slots
      <3>1. PICK d \in Slots : d = fibers[r].task_frame
        BY <2>4
      <3>2. {fibers[r].task_frame, fibers[r].stack_base} \ {NULL} = {d}
        BY <2>4, <3>1, AddrAssumption
      <3>3. \A s \in Slots : r \in Owner(s) <=> s = d
        BY <2>4, <3>1, <1>7, AddrAssumption DEF Owner
      <3>4. \A f \in Fibers : fibers[f].stack_base # d
        BY <2>4, <3>1, <3>3, <1>7, AddrAssumption DEF IInv, SlabOK, Owner
      <3> QED  BY <2>2, <3>2, <3>3, <3>4
    <2> QED  BY <2>1, <2>3, <2>4
  <1>u. UNCHANGED <<workload, current, count, l1_summary, l2_details, yield_pending, pending_reclaim, parked, fault>>
    BY DEF Reclaim, bitmap
  <1>11. Listed' = Listed
    BY <1>u, Still
  <1>12. TypeOK'
    <2>1. guarded' \in SUBSET Slots /\ inuse' \in SUBSET Slots
      BY <1>10 DEF IInv, TypeOK
    <2> QED  BY <1>5, <1>9, <1>u, <2>1 DEF IInv, TypeOK
  <1>13. BitmapOK'
    BY <1>u DEF IInv, BitmapOK
  <1>14. CountOK'
    BY <1>11, <1>u DEF IInv, CountOK
  <1>15. BootOK'
    <2>1. r \in Listed'
      BY <1>1, <1>2, <1>11 DEF Least
    <2>2. ~ Thread'
      BY <1>6 DEF Thread
    <2> QED  BY <1>1, <1>2, <1>4, <1>5, <1>6, <1>9, <1>u, <2>1, <2>2 DEF BootOK
  <1>16. CalledOK'
    BY <1>6 DEF CalledOK
  <1>17. ASSUME NEW s \in Slots, Len(parked[s]) = 1
         PROVE  parked[s][1].fiber = r => parked[s][1].pc = "switch"
    <2>1. PICK a : a = parked[s][1]
      OBVIOUS
    <2>2. a.stack = s /\ ThreadOK(a) /\ a.pc \notin Mid
      BY <1>17, <2>1 DEF IInv, ParkedOK
    <2>3. ASSUME a.fiber = r, a.pc = "body" PROVE FALSE
      <3>1. fibers[r].step_fn = "thread" /\ fibers[r].stack_base = s
        BY <2>2, <2>3 DEF ThreadOK
      <3>2. Thread
        BY <1>1, <1>2, <3>1 DEF IInv, CalledOK
      <3>3. ThreadOK(Called) /\ Len(parked[Called.stack]) = 0
        BY <3>2 DEF IInv, CalledOK
      <3>4. Called.stack = s
        BY <1>1, <1>2, <3>1, <3>3 DEF ThreadOK
      <3>5. 0 # 1 /\ Len(parked[s]) = 0
        BY <3>3, <3>4
      <3> QED  BY <1>17, <3>5
    <2> QED  BY <2>1, <2>2, <2>3 DEF ThreadOK, Mid
  <1>18. ParkedOK'
    <2>1. ASSUME NEW s \in Slots, Len(parked[s]) = 1
          PROVE  /\ parked'[s][1].stack = s /\ ThreadOK(parked[s][1])' /\ parked'[s][1].pc \notin Mid
                 /\ parked'[s][1].pc = "switch" /\ parked'[s][1].fiber \in Listed'
                        /\ fibers'[parked'[s][1].fiber].step_fn = "thread"
                    => fibers'[parked'[s][1].fiber].ctx_ptr # s
      <3>1. PICK a : a = parked[s][1]
        OBVIOUS
      <3>2. a.fiber \in Fibers /\ parked'[s][1] = a
        BY <1>u, <2>1, <3>1, SavedIn DEF IInv
      <3>3. /\ a.stack = s /\ ThreadOK(a) /\ a.pc \notin Mid
            /\ a.pc = "switch" /\ a.fiber \in Listed /\ fibers[a.fiber].step_fn = "thread"
                    => fibers[a.fiber].ctx_ptr # s
        BY <2>1, <3>1 DEF IInv, ParkedOK
      <3>4. a.fiber = r => a.pc = "switch"
        BY <1>17, <2>1, <3>1
      <3>5. ThreadOK(a)'
        BY <1>9, <1>u, <3>2, <3>3, <3>4 DEF ThreadOK, Mid
      <3>6. ThreadOK(parked[s][1])'
        BY <3>2, <3>5, Zenon
      <3> QED  BY <1>9, <1>11, <3>2, <3>3, <3>4, <3>6
    <2>2. \A s \in Slots : Len(parked'[s]) \in {0, 1}
      BY <1>u DEF IInv, ParkedOK
    <2> QED  BY <1>u, <2>1, <2>2 DEF ParkedOK
  <1>19. TableOK'
    <2>1. \A s \in Slots : Len(parked[s]) = 1 => parked[s][1].pc \notin Mid
      BY DEF IInv, ParkedOK
    <2>2. \A f : ~ Goes(f)
      BY <1>1, <2>1 DEF Goes, Mid
    <2>3. \A f : Goes(f)' <=> f = r
      BY <1>4, <1>6, <1>u, <2>1 DEF Goes, Mid
    <2>4. \A f \in Fibers : f \in Listed' <=> fibers'[f].active \/ Goes(f)'
      BY <1>1, <1>2, <1>9, <1>11, <2>2, <2>3 DEF IInv, TableOK
    <2>5. \A f \in Fibers :
            IF f # 0 /\ fibers'[f].active
            THEN \/ /\ fibers'[f].step_fn = "thread" /\ fibers'[f].task_frame = NULL
                    /\ fibers'[f].stack_base \in Slots
                 \/ /\ fibers'[f].step_fn = "async" /\ fibers'[f].stack_base = NULL
                    /\ fibers'[f].task_frame \in Slots
            ELSE fibers'[f].task_frame = NULL /\ fibers'[f].stack_base = NULL
      BY <1>9 DEF IInv, TableOK
    <2>6. fibers'[0].active /\ fibers'[0].step_fn = "null"
      BY <1>1, <1>2, <1>9, SizeFacts DEF IInv, TableOK
    <2> QED  BY <2>4, <2>5, <2>6 DEF TableOK
  <1>20. SlabOK'
    <2>1. \A s \in Slots : Owner(s)' = Owner(s) \ {r}
      BY <1>9, AddrAssumption DEF Owner
    <2>2. pending_reclaim \in Slots \cup {NULL} /\ pending_reclaim # d
      BY <1>7, <1>10 DEF IInv, SlabOK
    <2>3. \A f, h \in Fibers : \A s \in Slots : f \in Owner(s)' /\ h \in Owner(s)' => f = h
      BY <2>1 DEF IInv, SlabOK
    <2>4. \A s \in Slots : Owner(s)' # {} <=> Owner(s) # {} /\ s # d
      <3>1. ASSUME NEW s \in Slots PROVE Owner(s)' # {} <=> Owner(s) # {} /\ s # d
        <4>1. \A f, h : f \in Owner(s) /\ h \in Owner(s) => f = h
          BY DEF IInv, SlabOK, Owner
        <4> QED  BY <1>10, <2>1, <3>1, <4>1
      <3> QED  BY <3>1
    <2>5. inuse' = {s \in Slots : s = pending_reclaim \/ Owner(s)' # {}}
      BY <1>10, <2>2, <2>4 DEF IInv, SlabOK
    <2> QED  BY <1>u, <2>1, <2>2, <2>3, <2>5 DEF IInv, SlabOK
  <1>21. GuardsOnlyStacks'
    <2>1. ASSUME NEW s \in guarded' PROVE s \in {fibers'[f].stack_base : f \in Fibers} \cup {pending_reclaim}
      <3>1. s \in guarded /\ s # d
        BY <1>10
      <3>2. CASE s = pending_reclaim
        BY <3>2
      <3>3. ASSUME NEW f \in Fibers, s = fibers[f].stack_base
            PROVE  s \in {fibers'[h].stack_base : h \in Fibers}
        <4>1. f # r
          <5>1. ASSUME f = r PROVE FALSE
            <6>1. s \in Slots /\ r \in Owner(s)
              BY <1>7, <3>1, <3>3, <5>1 DEF Owner, IInv, TypeOK
            <6> QED  BY <1>10, <3>1, <6>1
          <5> QED  BY <5>1
        <4> QED  BY <1>9, <3>3, <4>1
      <3> QED  BY <3>1, <3>2, <3>3 DEF IInv, GuardsOnlyStacks
    <2> QED  BY <1>u, <2>1 DEF GuardsOnlyStacks
  <1> QED  BY <1>12, <1>13, <1>14, <1>15, <1>16, <1>18, <1>19, <1>20, <1>21 DEF IInv

LEMMA KeptAsyncReady ==
  ASSUME IInv, AsyncReady
  PROVE  IInv'
  <1>1. Len(frames) = 2 /\ Dual /\ ~ Thread /\ fault = "none" /\ sched_rsp = 0
    <2>1. Len(frames) = 2 /\ Dual /\ fault = "none"
      BY TopIs DEF AsyncReady, InAsync, At
    <2>2. Depth = 2 /\ Top = Called
      BY <2>1, TopIs
    <2>3. Called.stack = Boot.stack
      BY <2>2 DEF AsyncReady, InAsync, Boot
    <2> QED  BY <2>1, <2>3 DEF IInv, BootOK, Thread
  <1>2. PICK n : n = Depth - 1 /\ n = 1
    BY <1>1, TopIs
  <1>3. Reclaim(n) /\ Called.pc = "body"
    BY <1>1, <1>2, TopIs DEF AsyncReady, At
  <1>4. /\ UNCHANGED <<yield_pending, pending_reclaim, parked, fault>>
        /\ sched_rsp' = 0 /\ saved_rsp' \in Addrs /\ if_flag' \in BOOLEAN
    BY <1>1 DEF AsyncReady, IInv, TypeOK
  <1> QED  BY <1>1, <1>2, <1>3, <1>4, Reclaimed

LEMMA KeptThreadReturn ==
  ASSUME IInv, ThreadReturn
  PROVE  IInv'
  <1>1. Len(frames) = 2 /\ Dual /\ fault = "none" /\ Called.pc = "body" /\ sched_rsp = 1
    BY TopIs DEF ThreadReturn, InThread, At, IInv, BootOK
  <1>2. PICK n : n = sched_rsp /\ n = 1
    BY <1>1
  <1>3. Reclaim(n)
    BY <1>2 DEF ThreadReturn
  <1>4. /\ UNCHANGED <<yield_pending, pending_reclaim, parked, fault>>
        /\ sched_rsp' = 0 /\ saved_rsp' \in Addrs /\ if_flag' \in BOOLEAN
    BY DEF ThreadReturn, Addrs
  <1> QED  BY <1>1, <1>2, <1>3, <1>4, Reclaimed

-----------------------------------------------------------------------------
(* Fibers leave the bitmap. *)

LEMMA KeptClearStore ==
  ASSUME IInv, ClearStore
  PROVE  IInv'
  <1>1. Len(frames) = 1 /\ Boot.pc = "clear" /\ ~ Dual /\ fault = "none" /\ Top = Boot /\ Depth = 1
    BY TopIs DEF ClearStore, At, IInv, CalledOK, ThreadOK, Thread, Dual
  <1>2. PICK r \in Fibers : r = Boot.next
    BY TopIs DEF Frame
  <1>3. /\ r \in Listed /\ r # 0 /\ ~ fibers[r].active /\ sched_rsp = 0
        /\ Boot.cur = 0 /\ Boot.fiber = 0 /\ Boot.stack = KSTACK
        /\ Boot.word = l2_details[Group(r)]
    BY <1>1, <1>2 DEF IInv, BootOK, Thread
  <1>4. PICK b \in Frame : b = Activation(0, KSTACK)
    BY SizeFacts DEF Activation, Frame
  <1>5. frames' = [frames EXCEPT ![1] = b]
    BY <1>1, <1>3, <1>4 DEF ClearStore, SetTop
  <1>6. Len(frames') = 1 /\ frames'[1] = b /\ frames' \in Seq(Frame)
    BY <1>1, <1>5, TopIs, Topped
  <1>7. ~ Dual' /\ Boot' = b /\ b.pc = "body" /\ b.fiber = 0 /\ b.stack = KSTACK /\ b.cur = 0 /\ current' = 0
    <2>1. current' = 0
      BY <1>1, <1>3 DEF ClearStore
    <2> QED  BY <1>4, <1>6, <2>1 DEF Dual, Boot, Activation
  <1>u. UNCHANGED <<workload, fibers, yield_pending, pending_reclaim, inuse, guarded, parked, sched_rsp,
                    saved_rsp, if_flag, fault>>
    BY DEF ClearStore, memory
  <1>8. BitmapOK' /\ Listed' = Listed \ {r}
    <2>1. bitmap_clear(r, Boot.word)
      BY <1>1, <1>2 DEF ClearStore
    <2> QED  BY <1>3, <2>1, ClearBit DEF IInv
  <1>9. CountOK' /\ count' \in Nat
    <2>1. count' = count - 1 /\ CountOK
      BY DEF ClearStore, IInv
    <2> QED  BY <1>3, <1>8, <2>1, CountDown
  <1>10. TypeOK'
    <2>1. l1_summary' \in SUBSET Groups /\ l2_details' \in [Groups -> SUBSET Bits]
      BY <1>8 DEF BitmapOK
    <2> QED  BY <1>6, <1>7, <1>9, <1>u, <2>1, SizeFacts DEF IInv, TypeOK
  <1>11. BootOK'
    BY <1>3, <1>6, <1>7, <1>u DEF BootOK, Thread
  <1>12. CalledOK'
    BY <1>7 DEF CalledOK
  <1>13. \A s \in Slots : Len(parked[s]) = 1 => parked[s][1].pc \notin Mid
    BY <1>1 DEF IInv, ParkedOK
  <1>14. ParkedOK'
    <2>1. ASSUME NEW s \in Slots, Len(parked[s]) = 1
          PROVE  /\ parked'[s][1].stack = s /\ ThreadOK(parked[s][1])' /\ parked'[s][1].pc \notin Mid
                 /\ parked'[s][1].pc = "switch" /\ parked'[s][1].fiber \in Listed'
                        /\ fibers'[parked'[s][1].fiber].step_fn = "thread"
                    => fibers'[parked'[s][1].fiber].ctx_ptr # s
      <3>1. PICK a : a = parked[s][1]
        OBVIOUS
      <3>2. parked'[s][1] = a
        BY <1>u, <3>1
      <3>3. /\ a.stack = s /\ ThreadOK(a) /\ a.pc \notin Mid
            /\ a.pc = "switch" /\ a.fiber \in Listed /\ fibers[a.fiber].step_fn = "thread"
                    => fibers[a.fiber].ctx_ptr # s
        BY <1>13, <2>1, <3>1 DEF IInv, ParkedOK
      <3>4. ThreadOK(a)'
        BY <1>u, <3>3 DEF ThreadOK, Mid
      <3>5. ThreadOK(parked[s][1])'
        BY <3>2, <3>4, Zenon
      <3> QED  BY <1>8, <1>u, <3>2, <3>3, <3>5
    <2>2. \A s \in Slots : Len(parked'[s]) \in {0, 1}
      BY <1>u DEF IInv, ParkedOK
    <2> QED  BY <1>u, <2>1, <2>2 DEF ParkedOK
  <1>15. TableOK'
    <2>1. \A f : Goes(f) <=> f = r
      BY <1>1, <1>2, <1>13 DEF Goes
    <2>2. \A f : ~ Goes(f)'
      BY <1>7, <1>13, <1>u DEF Goes
    <2> QED  BY <1>3, <1>8, <1>u, <2>1, <2>2 DEF IInv, TableOK
  <1>16. SlabOK' /\ GuardsOnlyStacks'
    BY <1>u DEF IInv, SlabOK, Owner, GuardsOnlyStacks
  <1> QED  BY <1>8, <1>9, <1>10, <1>11, <1>12, <1>14, <1>15, <1>16 DEF IInv

LEMMA KeptExitClearStore ==
  ASSUME IInv, ExitClearStore
  PROVE  IInv'
  <1>1. Len(frames) = 2 /\ Called.pc = "exit_clear" /\ Dual /\ fault = "none" /\ Thread /\ Top = Called /\ Depth = 2
    BY TopIs DEF ExitClearStore, At, IInv, BootOK, CalledOK
  <1>2. PICK c \in Frame : c = Called
    BY <1>1, TopIs
  <1>3. PICK r \in Fibers : r = c.fiber
    BY <1>2 DEF Frame
  <1>4. /\ ThreadOK(c) /\ Least(r) /\ Boot.pc = "chosen" /\ Boot.next = r /\ r # 0 /\ ~ fibers[r].active
        /\ c.cur = r /\ c.word = l2_details[Group(r)] /\ r \in Listed /\ Len(parked[c.stack]) = 0
    BY <1>1, <1>2, <1>3 DEF IInv, CalledOK, ThreadOK, Mid, Least
  <1>5. PICK a \in Frame : a = [c EXCEPT !.pc = "switch", !.word = {}]
    BY <1>2 DEF Frame
  <1>6. a.fiber = r /\ a.stack = c.stack /\ a.pc = "switch" /\ a.cur = r
    BY <1>2, <1>3, <1>4, <1>5 DEF Frame
  <1>7. frames' = [frames EXCEPT ![2] = a]
    BY <1>1, <1>2, <1>5 DEF ExitClearStore, SetTop
  <1>8. Len(frames') = 2 /\ frames'[1] = Boot /\ frames'[2] = a /\ frames' \in Seq(Frame)
    BY <1>1, <1>7, TopIs, Topped DEF Boot
  <1>9. Dual' /\ Boot' = Boot /\ Called' = a /\ Thread'
    BY <1>1, <1>2, <1>6, <1>8 DEF Dual, Boot, Called, Thread
  <1>u. UNCHANGED <<workload, fibers, current, yield_pending, pending_reclaim, inuse, guarded, parked, sched_rsp,
                    saved_rsp, if_flag, fault>>
    BY DEF ExitClearStore, memory
  <1>10. BitmapOK' /\ Listed' = Listed \ {r}
    <2>1. bitmap_clear(r, c.word)
      BY <1>1, <1>2, <1>4 DEF ExitClearStore
    <2> QED  BY <1>4, <2>1, ClearBit DEF IInv
  <1>11. CountOK' /\ count' \in Nat
    <2>1. count' = count - 1 /\ CountOK
      BY DEF ExitClearStore, IInv
    <2> QED  BY <1>4, <1>10, <2>1, CountDown
  <1>12. TypeOK'
    <2>1. l1_summary' \in SUBSET Groups /\ l2_details' \in [Groups -> SUBSET Bits]
      BY <1>10 DEF BitmapOK
    <2> QED  BY <1>8, <1>11, <1>u, <2>1 DEF IInv, TypeOK
  <1>13. BootOK'
    BY <1>1, <1>4, <1>8, <1>9, <1>u DEF IInv, BootOK
  <1>14. CalledOK'
    <2>1. ThreadOK(a)'
      BY <1>4, <1>6, <1>u DEF ThreadOK, Mid
    <2> QED  BY <1>4, <1>6, <1>9, <1>10, <1>u, <2>1 DEF CalledOK
  <1>15. \A s \in Slots : Len(parked[s]) = 1 => parked[s][1].pc \notin Mid
    BY <1>1 DEF IInv, ParkedOK
  <1>16. ParkedOK'
    <2>1. ASSUME NEW s \in Slots, Len(parked[s]) = 1
          PROVE  /\ parked'[s][1].stack = s /\ ThreadOK(parked[s][1])' /\ parked'[s][1].pc \notin Mid
                 /\ parked'[s][1].pc = "switch" /\ parked'[s][1].fiber \in Listed'
                        /\ fibers'[parked'[s][1].fiber].step_fn = "thread"
                    => fibers'[parked'[s][1].fiber].ctx_ptr # s
      <3>1. PICK x : x = parked[s][1]
        OBVIOUS
      <3>2. parked'[s][1] = x
        BY <1>u, <3>1
      <3>3. /\ x.stack = s /\ ThreadOK(x) /\ x.pc \notin Mid
            /\ x.pc = "switch" /\ x.fiber \in Listed /\ fibers[x.fiber].step_fn = "thread"
                    => fibers[x.fiber].ctx_ptr # s
        BY <1>15, <2>1, <3>1 DEF IInv, ParkedOK
      <3>4. ThreadOK(x)'
        BY <1>u, <3>3 DEF ThreadOK, Mid
      <3>5. ThreadOK(parked[s][1])'
        BY <3>2, <3>4, Zenon
      <3> QED  BY <1>10, <1>u, <3>2, <3>3, <3>5
    <2>2. \A s \in Slots : Len(parked'[s]) \in {0, 1}
      BY <1>u DEF IInv, ParkedOK
    <2> QED  BY <1>u, <2>1, <2>2 DEF ParkedOK
  <1>17. TableOK'
    <2>1. \A f : Goes(f) <=> f = r
      BY <1>1, <1>2, <1>3, <1>4, <1>15 DEF Goes, Mid
    <2>2. \A f : ~ Goes(f)'
      BY <1>4, <1>6, <1>9, <1>15, <1>u DEF Goes, Mid
    <2> QED  BY <1>4, <1>10, <1>u, <2>1, <2>2 DEF IInv, TableOK
  <1>18. SlabOK' /\ GuardsOnlyStacks'
    BY <1>u DEF IInv, SlabOK, Owner, GuardsOnlyStacks
  <1> QED  BY <1>10, <1>11, <1>12, <1>13, <1>14, <1>16, <1>17, <1>18 DEF IInv

LEMMA KeptExitStage ==
  ASSUME IInv, ExitStage
  PROVE  IInv'
  <1>1. Len(frames) = 2 /\ Called.pc = "body" /\ Dual /\ fault = "none" /\ Top = Called /\ Depth = 2 /\ Thread
    <2>1. Len(frames) = 2 /\ Dual /\ fault = "none" /\ Top = Called /\ Depth = 2
      BY TopIs DEF ExitStage, InThread, At
    <2>2. Called.stack # Boot.stack
      BY <2>1 DEF ExitStage, InThread, Boot
    <2> QED  BY <2>1, <2>2 DEF IInv, BootOK, Thread, ExitStage, At
  <1>2. PICK c \in Frame : c = Called
    BY <1>1, TopIs
  <1>3. PICK r \in Fibers : r = c.fiber
    BY <1>2 DEF Frame
  <1>4. /\ ThreadOK(c) /\ Least(r) /\ Boot.pc = "chosen" /\ Boot.next = r /\ r # 0 /\ current = r
        /\ c.cur = r /\ Len(parked[c.stack]) = 0 /\ "fiber_exit" \in workload
        /\ fibers[r].active /\ fibers[r].step_fn = "thread" /\ fibers[r].stack_base = c.stack
        /\ c.stack \in Slots
    BY <1>1, <1>2, <1>3 DEF IInv, BootOK, CalledOK, ThreadOK, ExitStage
  <1>5. PICK a \in Frame : a = [c EXCEPT !.pc = "exit", !.cur = r]
    BY <1>2 DEF Frame
  <1>6. a.fiber = r /\ a.stack = c.stack /\ a.pc = "exit" /\ a.cur = r
    BY <1>2, <1>3, <1>5 DEF Frame
  <1>7. frames' = [frames EXCEPT ![2] = a]
    BY <1>1, <1>2, <1>4, <1>5 DEF ExitStage, SetTop
  <1>8. Len(frames') = 2 /\ frames'[1] = Boot /\ frames'[2] = a /\ frames' \in Seq(Frame)
    BY <1>1, <1>7, TopIs, Topped DEF Boot
  <1>9. Dual' /\ Boot' = Boot /\ Called' = a /\ Thread'
    BY <1>1, <1>2, <1>6, <1>8 DEF Dual, Boot, Called, Thread
  <1>u. /\ UNCHANGED <<workload, current, count, l1_summary, l2_details, yield_pending, parked, sched_rsp,
                       saved_rsp, if_flag, fault>>
        /\ pending_reclaim' = c.stack
        /\ inuse' = inuse \ {pending_reclaim} /\ guarded' = guarded \ {pending_reclaim}
    BY <1>4 DEF ExitStage, bitmap, vmm_set_present
  <1>10. fibers \in [Fibers -> Fiber] /\ fibers[r] \in Fiber
    BY DEF IInv, TypeOK
  <1>11. PICK e \in Fiber : /\ fibers' = [fibers EXCEPT ![r] = e]
                            /\ e.active = FALSE /\ e.step_fn = "thread" /\ e.stack_base = NULL
                            /\ e.task_frame = NULL /\ e.ctx_ptr = fibers[r].ctx_ptr
    <2>1. fibers[r].task_frame = NULL
      BY <1>4 DEF IInv, TableOK
    <2>2. PICK e : e = [fibers[r] EXCEPT !.active = FALSE, !.stack_ptr = NULL, !.stack_base = NULL]
      OBVIOUS
    <2>3. /\ e \in Fiber /\ e.active = FALSE /\ e.step_fn = "thread" /\ e.stack_base = NULL
          /\ e.task_frame = NULL /\ e.ctx_ptr = fibers[r].ctx_ptr
      BY <1>4, <1>10, <2>1, <2>2 DEF Fiber, Addrs
    <2> QED  BY <1>4, <2>2, <2>3 DEF ExitStage
  <1>12. /\ fibers' \in [Fibers -> Fiber]
         /\ \A f \in Fibers : f # r => fibers'[f] = fibers[f]
         /\ fibers'[r].active = FALSE /\ fibers'[r].step_fn = "thread"
         /\ fibers'[r].task_frame = NULL /\ fibers'[r].stack_base = NULL
         /\ fibers'[r].ctx_ptr = fibers[r].ctx_ptr
    BY <1>10, <1>11
  <1>13. Listed' = Listed /\ (\A f : Least(f)' <=> Least(f))
    BY <1>u, Still
  <1>14. TypeOK'
    <2>1. inuse' \in SUBSET Slots /\ guarded' \in SUBSET Slots /\ pending_reclaim' \in Addrs
      BY <1>4, <1>u DEF IInv, TypeOK, Addrs
    <2> QED  BY <1>8, <1>12, <1>u, <2>1 DEF IInv, TypeOK
  <1>15. BitmapOK' /\ CountOK'
    BY <1>13, <1>u DEF IInv, BitmapOK, CountOK
  <1>16. BootOK'
    BY <1>1, <1>4, <1>8, <1>9, <1>13, <1>u DEF IInv, BootOK
  <1>17. CalledOK'
    <2>1. ThreadOK(a)'
      BY <1>4, <1>6, <1>12, <1>13, <1>u DEF ThreadOK, Mid
    <2>2. Least(r)'
      BY <1>4, <1>13
    <2> QED  BY <1>4, <1>6, <1>9, <1>u, <2>1, <2>2 DEF CalledOK
  <1>18. ASSUME NEW s \in Slots, Len(parked[s]) = 1
         PROVE  /\ parked[s][1].pc \notin Mid
                /\ parked[s][1].fiber = r => parked[s][1].pc = "switch"
    <2>1. PICK x : x = parked[s][1]
      OBVIOUS
    <2>2. x.stack = s /\ ThreadOK(x) /\ x.pc \notin Mid
      BY <1>1, <1>18, <2>1 DEF IInv, ParkedOK
    <2>3. ASSUME x.fiber = r, x.pc = "body" PROVE FALSE
      <3>1. c.stack = s
        BY <1>4, <2>2, <2>3 DEF ThreadOK
      <3>2. 0 # 1 /\ Len(parked[s]) = 0
        BY <1>4, <3>1
      <3> QED  BY <1>18, <3>2
    <2> QED  BY <2>1, <2>2, <2>3 DEF ThreadOK, Mid
  <1>19. ParkedOK'
    <2>1. ASSUME NEW s \in Slots, Len(parked[s]) = 1
          PROVE  /\ parked'[s][1].stack = s /\ ThreadOK(parked[s][1])' /\ parked'[s][1].pc \notin Mid
                 /\ parked'[s][1].pc = "switch" /\ parked'[s][1].fiber \in Listed'
                        /\ fibers'[parked'[s][1].fiber].step_fn = "thread"
                    => fibers'[parked'[s][1].fiber].ctx_ptr # s
      <3>1. PICK x : x = parked[s][1]
        OBVIOUS
      <3>2. x.fiber \in Fibers /\ parked'[s][1] = x
        BY <1>u, <2>1, <3>1, SavedIn DEF IInv
      <3>3. /\ x.stack = s /\ ThreadOK(x)
            /\ x.pc = "switch" /\ x.fiber \in Listed /\ fibers[x.fiber].step_fn = "thread"
                    => fibers[x.fiber].ctx_ptr # s
        BY <2>1, <3>1 DEF IInv, ParkedOK
      <3>4. x.pc \notin Mid /\ (x.fiber = r => x.pc = "switch")
        BY <1>18, <2>1, <3>1
      <3>5. ThreadOK(x)'
        BY <1>12, <1>u, <3>2, <3>3, <3>4 DEF ThreadOK, Mid
      <3>6. ThreadOK(parked[s][1])'
        BY <3>2, <3>5, Zenon
      <3> QED  BY <1>4, <1>12, <1>13, <3>2, <3>3, <3>4, <3>6
    <2>2. \A s \in Slots : Len(parked'[s]) \in {0, 1}
      BY <1>u DEF IInv, ParkedOK
    <2> QED  BY <1>u, <2>1, <2>2 DEF ParkedOK
  <1>20. TableOK'
    <2>1. \A f : ~ Goes(f)
      BY <1>1, <1>4, <1>18 DEF Goes, Mid
    <2>2. \A f : Goes(f)' <=> f = r
      BY <1>4, <1>6, <1>9, <1>18, <1>u DEF Goes, Mid
    <2>3. \A f \in Fibers : f \in Listed' <=> fibers'[f].active \/ Goes(f)'
      BY <1>4, <1>12, <1>13, <2>1, <2>2 DEF IInv, TableOK
    <2>4. \A f \in Fibers :
            IF f # 0 /\ fibers'[f].active
            THEN \/ /\ fibers'[f].step_fn = "thread" /\ fibers'[f].task_frame = NULL
                    /\ fibers'[f].stack_base \in Slots
                 \/ /\ fibers'[f].step_fn = "async" /\ fibers'[f].stack_base = NULL
                    /\ fibers'[f].task_frame \in Slots
            ELSE fibers'[f].task_frame = NULL /\ fibers'[f].stack_base = NULL
      BY <1>12 DEF IInv, TableOK
    <2>5. fibers'[0].active /\ fibers'[0].step_fn = "null"
      BY <1>4, <1>12, SizeFacts DEF IInv, TableOK
    <2> QED  BY <2>3, <2>4, <2>5 DEF TableOK
  <1>21. SlabOK'
    <2>1. \A s \in Slots : Owner(s)' = Owner(s) \ {r}
      BY <1>12, AddrAssumption DEF Owner
    <2>2. r \in Owner(c.stack)
      BY <1>4 DEF Owner
    <2>3. \A s \in Slots : s # c.stack => r \notin Owner(s)
      BY <1>4, AddrAssumption DEF Owner, IInv, TableOK
    <2>4. \A f, h \in Fibers : \A s \in Slots : f \in Owner(s)' /\ h \in Owner(s)' => f = h
      BY <2>1 DEF IInv, SlabOK
    <2>5. Owner(c.stack)' = {}
      <3>1. \A f : f \in Owner(c.stack) => f = r
        BY <1>4, <2>2 DEF IInv, SlabOK, Owner
      <3>2. PICK s \in Slots : s = c.stack
        BY <1>4
      <3>3. Owner(s)' = {}
        BY <2>1, <3>1, <3>2
      <3> QED  BY <3>2, <3>3
    <2>6. pending_reclaim # c.stack
      BY <1>4, <2>2 DEF IInv, SlabOK
    <2>7. pending_reclaim \in Slots => Owner(pending_reclaim) = {}
      BY DEF IInv, SlabOK
    <2>8. \A s \in Slots : s # c.stack => Owner(s)' = Owner(s)
      BY <2>1, <2>3
    <2>9. inuse' = {s \in Slots : s = c.stack \/ Owner(s)' # {}}
      <3>1. \A s \in Slots : s \in inuse <=> s = pending_reclaim \/ Owner(s) # {}
        BY DEF IInv, SlabOK
      <3>2. inuse \subseteq Slots
        BY DEF IInv, TypeOK
      <3> QED  BY <1>4, <1>u, <2>2, <2>6, <2>7, <2>8, <3>1, <3>2
    <2>10. Owner(pending_reclaim)' = {}
      BY <1>u, <2>5
    <2> QED  BY <1>4, <1>u, <2>4, <2>9, <2>10 DEF SlabOK
  <1>22. GuardsOnlyStacks'
    <2>1. ASSUME NEW s \in guarded' PROVE s \in {fibers'[f].stack_base : f \in Fibers} \cup {c.stack}
      <3>1. s \in guarded /\ s # pending_reclaim
        BY <1>u
      <3>2. PICK f \in Fibers : s = fibers[f].stack_base
        BY <3>1 DEF IInv, GuardsOnlyStacks
      <3> QED  BY <1>4, <1>12, <3>2
    <2> QED  BY <1>u, <2>1 DEF GuardsOnlyStacks
  <1> QED  BY <1>14, <1>15, <1>16, <1>17, <1>19, <1>20, <1>21, <1>22 DEF IInv

-----------------------------------------------------------------------------
(* Fibers are spawned. *)

\* A new fiber: e is its entry, base its slot, q what is saved there.
LEMMA Spawned ==
  ASSUME IInv, Disciplined, MaySpawn, NEW f, f = Min(FreeSlots), NEW base \in Popped, 
         NEW e \in Fiber, NEW q \in Seq(Frame), e.active = TRUE,
         \/ /\ e.step_fn = "thread" /\ e.task_frame = NULL /\ e.stack_base = base /\ e.ctx_ptr = base
            /\ Len(q) = 1 /\ q[1] = Activation(f, base)
            /\ guarded' \in {guarded, guarded \cup ({base} \ {NULL})}
         \/ /\ e.step_fn = "async" /\ e.task_frame = base /\ e.stack_base = NULL
            /\ Len(q) = 0 /\ guarded' = guarded,
         fibers' = [fibers EXCEPT ![f] = e], inuse' = inuse \cup ({base} \ {NULL}),
         parked' = [s \in Slots |-> IF s = base THEN q ELSE parked[s]],
         bitmap_set(f), count' = count + 1, if_flag' \in BOOLEAN,
         UNCHANGED <<workload, current, yield_pending, pending_reclaim, sched_rsp, saved_rsp, frames, fault>>
  PROVE  IInv'
  <1>1. Len(frames) = 1 /\ ~ Dual /\ Boot.pc = "body" /\ fault = "none" /\ Boot' = Boot /\ ~ Dual'
    <2>1. Depth = 1 /\ At("body")
      BY DEF MaySpawn, OnBoot
    <2>2. Len(frames) = 1
      BY <2>1, TopIs
    <2> QED  BY <2>1, <2>2, TopIs DEF At, Boot, Dual
  <1>2. f \in Fibers /\ f \notin Listed
    BY FreeSlot DEF IInv, MaySpawn
  <1>3. f # 0 /\ ~ fibers[f].active
    BY <1>2, SizeFacts DEF IInv, TableOK
  <1>4. base \in Slots /\ base \notin inuse /\ base # NULL
    <2>1. inuse # Slots
      BY <1>2, <1>3, SlabSuffices
    <2> QED  BY <2>1, AddrAssumption DEF Popped
  <1>5. base # pending_reclaim /\ Owner(base) = {}
    BY <1>4 DEF IInv, SlabOK
  <1>6. ASSUME NEW s \in Slots, Len(parked[s]) = 1
        PROVE  parked[s][1].pc \notin Mid
    <2>1. PICK a : a = parked[s][1]
      OBVIOUS
    <2>2. ThreadOK(a) /\ "sched_yield" \notin workload
      BY <1>6, <2>1 DEF IInv, ParkedOK, TypeOK, Disciplined
    <2>3. CASE SPAWN_RACE
      <3>1. "fiber_exit" \notin workload
        BY <2>3 DEF IInv, TypeOK, Disciplined
      <3> QED  BY <2>1, <2>2, <3>1 DEF ThreadOK
    <2>4. CASE ~ SPAWN_RACE
      <3>1. \A x \in Range(parked[s]) : x.pc \in {"body", "switch"}
        BY <2>4 DEF MaySpawn
      <3>2. a \in Range(parked[s])
        <4>1. parked[s] \in Seq(Frame)
          BY DEF IInv, TypeOK
        <4>2. 1 \in DOMAIN parked[s]
          BY <1>6, <4>1
        <4> QED  BY <2>1, <4>2 DEF Range
      <3> QED  BY <2>1, <3>1, <3>2 DEF Mid
    <2> QED  BY <2>3, <2>4
  <1>7. /\ fibers' \in [Fibers -> Fiber] /\ fibers'[f] = e
        /\ \A h \in Fibers : h # f => fibers'[h] = fibers[h]
    BY <1>2 DEF IInv, TypeOK
  <1>8. BitmapOK' /\ Listed' = Listed \cup {f}
    BY <1>2, SetBit DEF IInv
  <1>9. CountOK'
    BY <1>2, <1>8, CountUp DEF IInv
  <1>10. \A s \in Slots : parked'[s] = IF s = base THEN q ELSE parked[s]
    OBVIOUS
  <1>11. TypeOK'
    <2>1. l1_summary' \in SUBSET Groups /\ l2_details' \in [Groups -> SUBSET Bits]
      BY <1>8 DEF BitmapOK
    <2>2. inuse' \in SUBSET Slots /\ guarded' \in SUBSET Slots /\ count' \in Nat
      BY <1>4 DEF IInv, TypeOK
    <2>3. parked' \in [Slots -> Seq(Frame)]
      BY DEF IInv, TypeOK
    <2> QED  BY <1>7, <2>1, <2>2, <2>3 DEF IInv, TypeOK
  <1>12. BootOK'
    <2>1. ~ Thread /\ ~ Thread'
      BY <1>1 DEF Thread
    <2> QED  BY <1>1, <2>1 DEF IInv, BootOK
  <1>13. CalledOK'
    BY <1>1 DEF CalledOK
  <1>14. ParkedOK'
    <2>1. ASSUME NEW s \in Slots, Len(parked'[s]) = 1
          PROVE  /\ parked'[s][1].stack = s /\ ThreadOK(parked[s][1])' /\ parked'[s][1].pc \notin Mid
                 /\ parked'[s][1].pc = "switch" /\ parked'[s][1].fiber \in Listed'
                        /\ fibers'[parked'[s][1].fiber].step_fn = "thread"
                    => fibers'[parked'[s][1].fiber].ctx_ptr # s
      <3>1. PICK a : a = parked'[s][1]
        OBVIOUS
      <3>2. CASE s = base
        <4>1. parked'[s] = q
          BY <1>10, <3>2
        <4>2. Len(q) = 1 /\ 0 # 1
          BY <2>1, <4>1
        <4>3. /\ e.step_fn = "thread" /\ e.task_frame = NULL /\ e.stack_base = base /\ e.ctx_ptr = base
              /\ q[1] = Activation(f, base)
          BY <4>2
        <4>4. a.stack = base /\ a.fiber = f /\ a.cur = f /\ a.pc = "body"
          BY <3>1, <4>1, <4>3 DEF Activation
        <4>5. ThreadOK(a)'
          BY <1>3, <1>4, <1>7, <4>3, <4>4 DEF ThreadOK, Mid
        <4>6. ThreadOK(parked[s][1])'
          BY <3>1, <4>5, Zenon
        <4> QED  BY <3>1, <3>2, <4>4, <4>6 DEF Mid
      <3>3. CASE s # base
        <4>1. parked'[s] = parked[s] /\ a = parked[s][1] /\ Len(parked[s]) = 1
          BY <1>10, <2>1, <3>1, <3>3
        <4>2. a.fiber \in Fibers /\ a.pc \notin Mid
          BY <1>6, <4>1, SavedIn DEF IInv
        <4>3. /\ a.stack = s /\ ThreadOK(a)
              /\ a.pc = "switch" /\ a.fiber \in Listed /\ fibers[a.fiber].step_fn = "thread"
                    => fibers[a.fiber].ctx_ptr # s
          BY <4>1 DEF IInv, ParkedOK
        <4>4. a.fiber = f => a.pc = "switch"
          BY <1>3, <4>2, <4>3 DEF ThreadOK, Mid
        <4>5. ThreadOK(a)'
          BY <1>7, <4>2, <4>3, <4>4 DEF ThreadOK, Mid
        <4>6. ThreadOK(parked[s][1])'
          BY <3>1, <4>5, Zenon
        <4>7. e.step_fn = "thread" => e.ctx_ptr # s
          BY <3>3
        <4> QED  BY <1>7, <1>8, <3>1, <4>2, <4>3, <4>6, <4>7
      <3> QED  BY <3>2, <3>3
    <2>2. \A s \in Slots : Len(parked'[s]) \in {0, 1}
      BY <1>10 DEF IInv, ParkedOK
    <2> QED  BY <2>1, <2>2 DEF ParkedOK
  <1>15. TableOK'
    <2>1. \A h : ~ Goes(h)
      BY <1>1, <1>6 DEF Goes
    <2>2. \A h : ~ Goes(h)'
      <3>1. \A s \in Slots : Len(parked'[s]) = 1 => parked'[s][1].pc \notin Mid
        <4>1. ASSUME NEW s \in Slots, Len(parked'[s]) = 1 PROVE parked'[s][1].pc \notin Mid
          <5>1. CASE s # base
            BY <1>6, <1>10, <4>1, <5>1
          <5>2. CASE s = base
            <6>1. parked'[s] = q
              BY <1>10, <5>2
            <6>2. Len(q) = 1 /\ 0 # 1
              BY <4>1, <6>1
            <6> QED  BY <6>1, <6>2 DEF Activation, Mid
          <5> QED  BY <5>1, <5>2
        <4> QED  BY <4>1
      <3> QED  BY <1>1, <3>1 DEF Goes
    <2>3. \A h \in Fibers : h \in Listed' <=> fibers'[h].active \/ Goes(h)'
      BY <1>2, <1>7, <1>8, <2>1, <2>2 DEF IInv, TableOK
    <2>4. \A h \in Fibers :
            IF h # 0 /\ fibers'[h].active
            THEN \/ /\ fibers'[h].step_fn = "thread" /\ fibers'[h].task_frame = NULL
                    /\ fibers'[h].stack_base \in Slots
                 \/ /\ fibers'[h].step_fn = "async" /\ fibers'[h].stack_base = NULL
                    /\ fibers'[h].task_frame \in Slots
            ELSE fibers'[h].task_frame = NULL /\ fibers'[h].stack_base = NULL
      BY <1>3, <1>4, <1>7 DEF IInv, TableOK
    <2>5. fibers'[0].active /\ fibers'[0].step_fn = "null"
      BY <1>3, <1>7, SizeFacts DEF IInv, TableOK
    <2> QED  BY <2>3, <2>4, <2>5 DEF TableOK
  <1>16. SlabOK'
    <2>1. \A s \in Slots : f \notin Owner(s)
      BY <1>2, <1>3, AddrAssumption DEF Owner, IInv, TableOK
    <2>2. \A s \in Slots : s # base => Owner(s)' = Owner(s)
      BY <1>2, <1>4, <1>7, <2>1, AddrAssumption DEF Owner
    <2>3. \A s \in Slots : s = base => Owner(s)' = {f}
      <3>1. ASSUME NEW s \in Slots, s = base PROVE Owner(s)' = {f}
        <4>1. \A h \in Fibers : h # f => ~ (fibers'[h].task_frame = s \/ fibers'[h].stack_base = s)
          BY <1>5, <1>7, <3>1 DEF Owner
        <4>2. fibers'[f].task_frame = s \/ fibers'[f].stack_base = s
          BY <1>7, <3>1
        <4> QED  BY <1>2, <4>1, <4>2 DEF Owner
      <3> QED  BY <3>1
    <2>4. \A h, k \in Fibers : \A s \in Slots : h \in Owner(s)' /\ k \in Owner(s)' => h = k
      BY <2>2, <2>3 DEF IInv, SlabOK
    <2>5. pending_reclaim' \in Slots => Owner(pending_reclaim)' = {}
      <3>1. PICK p : p = pending_reclaim /\ p = pending_reclaim'
        OBVIOUS
      <3>2. p \in Slots => Owner(p)' = {}
        BY <1>5, <2>2, <3>1 DEF IInv, SlabOK
      <3> QED  BY <3>1, <3>2
    <2>6. inuse' = {s \in Slots : s = pending_reclaim' \/ Owner(s)' # {}}
      <3>1. inuse' = inuse \cup {base}
        BY <1>4
      <3>2. \A s \in Slots : s \in inuse <=> s = pending_reclaim \/ Owner(s) # {}
        BY DEF IInv, SlabOK
      <3>3. inuse \subseteq Slots
        BY DEF IInv, TypeOK
      <3>4. \A s \in Slots : Owner(s)' # {} <=> Owner(s) # {} \/ s = base
        BY <1>5, <2>2, <2>3
      <3> QED  BY <1>4, <3>1, <3>2, <3>3, <3>4
    <2> QED  BY <2>4, <2>5, <2>6 DEF IInv, SlabOK
  <1>17. GuardsOnlyStacks'
    <2>1. ASSUME NEW s \in guarded'
          PROVE  s \in {fibers'[h].stack_base : h \in Fibers} \cup {pending_reclaim}
      <3>1. s \in guarded \/ (s = base /\ e.stack_base = base)
        OBVIOUS
      <3>2. CASE s = base /\ e.stack_base = base
        BY <1>2, <1>7, <3>2
      <3>3. CASE s = pending_reclaim
        BY <3>3
      <3>4. ASSUME NEW h \in Fibers, s = fibers[h].stack_base, s \in Slots
            PROVE  s \in {fibers'[k].stack_base : k \in Fibers}
        <4>1. h # f
          BY <1>2, <1>3, <3>4, AddrAssumption DEF IInv, TableOK
        <4> QED  BY <1>7, <3>4, <4>1
      <3>5. guarded \subseteq Slots
        BY DEF IInv, TypeOK
      <3> QED  BY <3>1, <3>2, <3>3, <3>4, <3>5 DEF IInv, GuardsOnlyStacks
    <2> QED  BY <2>1 DEF GuardsOnlyStacks
  <1> QED  BY <1>8, <1>9, <1>11, <1>12, <1>13, <1>14, <1>15, <1>16, <1>17 DEF IInv

\* spawn finds a fiber and a slot.
LEMMA SpawnBase ==
  ASSUME IInv, MaySpawn, NEW base \in Popped
  PROVE  Min(FreeSlots) \in Fibers /\ base \in Slots
  <1>1. Min(FreeSlots) \in Fibers /\ Min(FreeSlots) \notin Listed
    BY FreeSlot DEF IInv, MaySpawn
  <1>2. Min(FreeSlots) # 0
    BY <1>1, SizeFacts DEF IInv, TableOK
  <1>3. inuse # Slots
    BY <1>1, <1>2, SlabSuffices
  <1> QED  BY <1>1, <1>3 DEF Popped

LEMMA KeptSpawn ==
  ASSUME IInv, Disciplined, spawn
  PROVE  IInv'
  <1>1. MaySpawn
    BY DEF spawn
  <1>2. PICK f : f = Min(FreeSlots)
    OBVIOUS
  <1>3. PICK base \in Popped :
         /\ fibers' = [fibers EXCEPT ![f] =
                [active |-> TRUE, step_fn |-> "thread", task_frame |-> NULL,
                 stack_base |-> base, stack_ptr |-> base, ctx_ptr |-> base]]
         /\ inuse'   = inuse \cup ({base} \ {NULL})
         /\ vmm_clear_present(base)
         /\ parked'  = [s \in Slots |-> IF s = base THEN <<Activation(f, s)>> ELSE parked[s]]
         /\ bitmap_set(f)
    BY <1>2 DEF spawn
  <1>4. f \in Fibers /\ base \in Slots
    BY <1>1, <1>2, SpawnBase
  <1>5. PICK e \in Fiber : /\ fibers' = [fibers EXCEPT ![f] = e]
                           /\ e.active = TRUE /\ e.step_fn = "thread" /\ e.task_frame = NULL
                           /\ e.stack_base = base /\ e.ctx_ptr = base
    <2>1. PICK e : e = [active |-> TRUE, step_fn |-> "thread", task_frame |-> NULL,
                        stack_base |-> base, stack_ptr |-> base, ctx_ptr |-> base]
      OBVIOUS
    <2>2. /\ e.active = TRUE /\ e.step_fn = "thread" /\ e.task_frame = NULL
          /\ e.stack_base = base /\ e.ctx_ptr = base
      BY <2>1
    <2>3. e \in Fiber
      BY <1>4, <2>1 DEF Fiber, Addrs
    <2>4. fibers' = [fibers EXCEPT ![f] = e]
      BY <1>3, <2>1, Zenon
    <2> QED  BY <2>2, <2>3, <2>4
  <1>6. PICK q \in Seq(Frame) : q = <<Activation(f, base)>> /\ Len(q) = 1 /\ q[1] = Activation(f, base)
    <2>1. Activation(f, base) \in Frame
      BY <1>4 DEF Activation, Frame
    <2> QED  BY <2>1, Solo
  <1>7. parked' = [s \in Slots |-> IF s = base THEN q ELSE parked[s]]
    BY <1>3, <1>6
  <1>8. /\ count' = count + 1 /\ if_flag' \in BOOLEAN
        /\ UNCHANGED <<workload, current, yield_pending, pending_reclaim, sched_rsp, saved_rsp, frames, fault>>
    BY DEF spawn, IInv, TypeOK
  <1>9. guarded' \in {guarded, guarded \cup ({base} \ {NULL})}
    BY <1>3 DEF vmm_clear_present
  <1>10. \/ /\ e.step_fn = "thread" /\ e.task_frame = NULL /\ e.stack_base = base /\ e.ctx_ptr = base
            /\ Len(q) = 1 /\ q[1] = Activation(f, base)
            /\ guarded' \in {guarded, guarded \cup ({base} \ {NULL})}
         \/ /\ e.step_fn = "async" /\ e.task_frame = base /\ e.stack_base = NULL
            /\ Len(q) = 0 /\ guarded' = guarded
    BY <1>5, <1>6, <1>9, Zenon
  <1>11. bitmap_set(f) /\ inuse' = inuse \cup ({base} \ {NULL})
    BY <1>3
  <1> QED  BY <1>1, <1>2, <1>5, <1>7, <1>8, <1>10, <1>11, Spawned, Zenon

LEMMA KeptSpawnAsync ==
  ASSUME IInv, Disciplined, spawn_async
  PROVE  IInv'
  <1>1. MaySpawn
    BY DEF spawn_async
  <1>2. PICK f : f = Min(FreeSlots)
    OBVIOUS
  <1>3. PICK base \in Popped :
         /\ fibers' = [fibers EXCEPT ![f] =
                [active |-> TRUE, step_fn |-> "async", task_frame |-> base,
                 stack_base |-> NULL, stack_ptr |-> NULL, ctx_ptr |-> base]]
         /\ inuse'   = inuse \cup ({base} \ {NULL})
         /\ parked'  = [s \in Slots |-> IF s = base THEN <<>> ELSE parked[s]]
         /\ bitmap_set(f)
    BY <1>2 DEF spawn_async
  <1>4. f \in Fibers /\ base \in Slots
    BY <1>1, <1>2, SpawnBase
  <1>5. PICK e \in Fiber : /\ fibers' = [fibers EXCEPT ![f] = e]
                           /\ e.active = TRUE /\ e.step_fn = "async" /\ e.task_frame = base
                           /\ e.stack_base = NULL
    <2>1. PICK e : e = [active |-> TRUE, step_fn |-> "async", task_frame |-> base,
                        stack_base |-> NULL, stack_ptr |-> NULL, ctx_ptr |-> base]
      OBVIOUS
    <2>2. /\ e.active = TRUE /\ e.step_fn = "async" /\ e.task_frame = base
          /\ e.stack_base = NULL
      BY <2>1
    <2>3. e \in Fiber
      BY <1>4, <2>1 DEF Fiber, Addrs
    <2>4. fibers' = [fibers EXCEPT ![f] = e]
      BY <1>3, <2>1, Zenon
    <2> QED  BY <2>2, <2>3, <2>4
  <1>6. PICK q \in Seq(Frame) : q = <<>> /\ Len(q) = 0
    BY EmptySeq
  <1>7. parked' = [s \in Slots |-> IF s = base THEN q ELSE parked[s]]
    BY <1>3, <1>6
  <1>8. /\ count' = count + 1 /\ if_flag' \in BOOLEAN /\ guarded' = guarded
        /\ UNCHANGED <<workload, current, yield_pending, pending_reclaim, sched_rsp, saved_rsp, frames, fault>>
    BY DEF spawn_async, IInv, TypeOK
  <1> QED  BY <1>1, <1>2, <1>3, <1>5, <1>6, <1>7, <1>8, Spawned

-----------------------------------------------------------------------------
(* The theorems. *)

\* Every step keeps the invariant.
LEMMA Kept ==
  ASSUME Disciplined, IInv, [Next]_vars
  PROVE  IInv'
  <1>1. CASE spawn \/ spawn_async \/ start \/ timer_isr
    BY <1>1, KeptSpawn, KeptSpawnAsync, KeptStart
  <1>2. CASE Choose \/ Dispatch
    BY <1>2, KeptChoose, KeptFault, KeptDispatchAsync, KeptDispatchThread DEF Dispatch
  <1>3. CASE ClearLoad \/ ClearStore
    BY <1>3, KeptClearLoad, KeptClearStore
  <1>4. CASE AsyncReady \/ AsyncPending
    BY <1>4, KeptAsyncReady, KeptAsyncPending
  <1>5. CASE TimerPreempt \/ TimerInStub
    BY <1>5, KeptTimerPreempt, KeptTimerInStub
  <1>6. CASE ThreadReturn \/ ThreadReturnLost
    BY <1>6, KeptThreadReturn, KeptFault
  <1>7. CASE fiber_exit
    BY <1>7, KeptExitStage, KeptExitClearLoad, KeptExitClearStore, KeptExitSwitch DEF fiber_exit
  <1>8. CASE UNCHANGED vars
    <2> USE DEF vars, bitmap, memory
    <2>1. Listed' = Listed /\ \A f : Least(f)' <=> Least(f)
      BY <1>8, Still
    <2>2. TypeOK' /\ BitmapOK'
      BY <1>8 DEF IInv, TypeOK, BitmapOK
    <2>3. BootOK'
      BY <1>8, <2>1 DEF IInv, BootOK, Boot, Dual, Thread, Called
    <2>4. \A a : ThreadOK(a)' <=> ThreadOK(a)
      BY <1>8, <2>1 DEF ThreadOK
    <2>5. CalledOK'
      BY <1>8, <2>1, <2>4 DEF IInv, CalledOK, Boot, Dual, Thread, Called
    <2>6. ParkedOK'
      BY <1>8, <2>1, <2>4 DEF IInv, ParkedOK, Boot, Dual
    <2>7. TableOK'
      BY <1>8, <2>1 DEF IInv, TableOK, Goes, Boot, Dual, Called
    <2>8. SlabOK'
      BY <1>8 DEF IInv, SlabOK, Owner
    <2>9. CountOK' /\ GuardsOnlyStacks'
      BY <1>8, <2>1 DEF IInv, CountOK, GuardsOnlyStacks
    <2> QED  BY <2>2, <2>3, <2>5, <2>6, <2>7, <2>8, <2>9 DEF IInv
  <1> QED  BY <1>1, <1>2, <1>3, <1>4, <1>5, <1>6, <1>7, <1>8 DEF Next, Yield

(* The inductive invariant holds in every reachable state of the scheduler *)
(* (scheduler.salt, preempt_stub.S) when only fiber 0 calls sched_yield.   *)
THEOREM Inductive ==
  ASSUME Disciplined
  PROVE  Spec => []IInv
  <1>1. Init => IInv
    BY Start
  <1>2. IInv /\ [Next]_vars => IInv'
    BY Kept
  <1> QED  BY <1>1, <1>2, PTL DEF Spec

\* Leaving, read off the frames.
LEMMA LeavingIs ==
  ASSUME IInv, NEW f
  PROVE  f \in Leaving <=> f \in Fibers /\ Goes(f)
  <1>1. \A x : x \in Range(frames) <=> x = Boot \/ (Dual /\ x = Called)
    <2>1. frames \in Seq(Frame) /\ Len(frames) \in {1, 2}
      BY TopIs
    <2>2. DOMAIN frames = 1 .. Len(frames)
      BY <2>1, LenProperties
    <2>3. \A x : x \in Range(frames) <=> \E i \in 1 .. Len(frames) : x = frames[i]
      BY <2>2 DEF Range
    <2> QED  BY <2>1, <2>3 DEF Boot, Called, Dual
  <1>2. ASSUME NEW s \in Slots
        PROVE  \A x : x \in Range(parked[s]) <=> Len(parked[s]) = 1 /\ x = parked[s][1]
    <2>1. parked[s] \in Seq(Frame) /\ Len(parked[s]) \in {0, 1}
      BY DEF IInv, TypeOK, ParkedOK
    <2>2. DOMAIN parked[s] = 1 .. Len(parked[s])
      BY <2>1, LenProperties
    <2>3. \A x : x \in Range(parked[s]) <=> \E i \in 1 .. Len(parked[s]) : x = parked[s][i]
      BY <2>2 DEF Range
    <2> QED  BY <2>1, <2>3
  <1>3. ASSUME NEW x
        PROVE  x \in Activations <=> \/ x = Boot
                                     \/ Dual /\ x = Called
                                     \/ \E s \in Slots : Len(parked[s]) = 1 /\ x = parked[s][1]
    BY <1>1, <1>2 DEF Activations
  <1>4. /\ Boot \in Frame /\ Boot.pc \notin Mid
        /\ Dual => /\ Called \in Frame /\ Called.pc \notin {"done", "clear"}
                   /\ Called.pc \in Mid => Called.cur = Called.fiber
    <2>1. Boot \in Frame /\ Boot.pc \notin Mid
      BY TopIs DEF IInv, BootOK, Mid
    <2>2. Dual => Called \in Frame
      BY TopIs
    <2>3. Dual => Called.pc \notin {"done", "clear"} /\ (Called.pc \in Mid => Called.cur = Called.fiber)
      BY DEF IInv, CalledOK, ThreadOK, Mid
    <2> QED  BY <2>1, <2>2, <2>3
  <1>5. \A s \in Slots : Len(parked[s]) = 1 =>
            /\ parked[s][1] \in Frame /\ parked[s][1].pc \notin {"done", "clear"}
            /\ parked[s][1].cur = parked[s][1].fiber
    <2>1. ASSUME NEW s \in Slots, Len(parked[s]) = 1
          PROVE  /\ parked[s][1] \in Frame /\ parked[s][1].pc \notin {"done", "clear"}
                 /\ parked[s][1].cur = parked[s][1].fiber
      <3>1. ThreadOK(parked[s][1])
        BY <2>1 DEF IInv, ParkedOK
      <3> QED  BY <2>1, <3>1, SavedIn DEF ThreadOK, IInv
    <2> QED  BY <2>1
  <1>6. \A x \in Frame : x.next \in Fibers /\ x.cur \in Fibers
    BY DEF Frame
  <1>7. f \in Leaving <=> \/ \E x \in Activations : x.pc \in {"done", "clear"} /\ f = x.next
                          \/ \E x \in Activations : x.pc \in Mid /\ f = x.cur
    BY DEF Leaving, Mid
  <1>8. (\E x \in Activations : x.pc \in {"done", "clear"} /\ f = x.next)
            <=> Boot.pc \in {"done", "clear"} /\ f = Boot.next
    BY <1>3, <1>4, <1>5
  <1>9. (\E x \in Activations : x.pc \in Mid /\ f = x.cur)
            <=> \/ Dual /\ Called.pc \in Mid /\ f = Called.fiber
                \/ \E s \in Slots : Len(parked[s]) = 1 /\ parked[s][1].pc \in Mid /\ f = parked[s][1].fiber
    BY <1>3, <1>4, <1>5
  <1>10. f \in Leaving => f \in Fibers
    BY <1>3, <1>4, <1>5, <1>6, <1>7
  <1> QED  BY <1>7, <1>8, <1>9, <1>10 DEF Goes

\* The invariant implies the agreement of bitmap, table, slab and GS:[48].
LEMMA Agreement ==
  ASSUME IInv
  PROVE  TablesAgree
  <1>1. BitmapExact
    <2>1. Listed = Active \cup Leaving
      <3>1. \A f : f \in Listed <=> f \in Fibers /\ (fibers[f].active \/ Goes(f))
        BY ListedIs DEF IInv, TableOK
      <3>2. \A f : f \in Active <=> f \in Fibers /\ fibers[f].active
        BY DEF Active
      <3>3. \A f : f \in Leaving <=> f \in Fibers /\ Goes(f)
        BY LeavingIs
      <3> QED  BY <3>1, <3>2, <3>3
    <2> QED  BY <2>1 DEF IInv, BitmapOK, CountOK, BitmapExact
  <1>2. SlotOwners
    <2>1. ASSUME NEW f \in Fibers
          PROVE  /\ \A s : s \in Owned(f) <=> s \in Slots /\ f \in Owner(s)
                 /\ f \in Active \ {0} => \E s : Owned(f) = {s}
                 /\ f \notin Active \ {0} => Owned(f) = {}
      <3>1. CASE f # 0 /\ fibers[f].active
        <4>1. \/ fibers[f].task_frame = NULL /\ fibers[f].stack_base \in Slots
              \/ fibers[f].stack_base = NULL /\ fibers[f].task_frame \in Slots
          BY <3>1 DEF IInv, TableOK
        <4>2. PICK d \in Slots : \/ fibers[f].task_frame = NULL /\ fibers[f].stack_base = d
                                 \/ fibers[f].stack_base = NULL /\ fibers[f].task_frame = d
          BY <4>1
        <4>3. d # NULL /\ NULL \notin Slots
          BY AddrAssumption
        <4>4. Owned(f) = {d}
          BY <4>2, <4>3 DEF Owned
        <4>5. \A s : s \in Slots /\ f \in Owner(s) <=> s = d
          BY <4>2, <4>3 DEF Owner
        <4>6. f \in Active \ {0}
          BY <3>1 DEF Active
        <4> QED  BY <4>4, <4>5, <4>6
      <3>2. CASE ~ (f # 0 /\ fibers[f].active)
        <4>1. fibers[f].task_frame = NULL /\ fibers[f].stack_base = NULL
          BY <3>2 DEF IInv, TableOK
        <4> QED  BY <3>2, <4>1, AddrAssumption DEF Owned, Owner, Active
      <3> QED  BY <3>1, <3>2
    <2>2. \A f \in Fibers : Cardinality(Owned(f)) = IF f \in Active \ {0} THEN 1 ELSE 0
      <3>1. Cardinality({}) = 0 /\ \A s : Cardinality({s}) = 1
        BY FS_EmptySet, FS_Singleton
      <3> QED  BY <2>1, <3>1, Zenon
    <2>3. \A f, h \in Fibers : f # h => Owned(f) \cap Owned(h) = {}
      BY <2>1 DEF IInv, SlabOK
    <2>4. \A f \in Fibers : pending_reclaim \notin Owned(f)
      BY <2>1 DEF IInv, SlabOK
    <2>5. inuse = (UNION {Owned(f) : f \in Fibers}) \cup ({pending_reclaim} \ {NULL})
      <3>1. \A s : s \in inuse <=> s \in Slots /\ (s = pending_reclaim \/ Owner(s) # {})
        BY DEF IInv, SlabOK
      <3>2. pending_reclaim \in Slots \cup {NULL} /\ NULL \notin Slots
        BY AddrAssumption DEF IInv, SlabOK
      <3>3. \A s : s \in UNION {Owned(f) : f \in Fibers} <=> s \in Slots /\ Owner(s) # {}
        <4>1. \A s : \A f \in Owner(s) : f \in Fibers
          BY DEF Owner
        <4>2. \A f \in Fibers : \A s : s \in Owned(f) <=> s \in Slots /\ f \in Owner(s)
          BY <2>1
        <4>3. \A s : s \in UNION {Owned(f) : f \in Fibers} <=> \E f \in Fibers : s \in Owned(f)
          OBVIOUS
        <4>4. \A s : s \in Slots => (Owner(s) # {} <=> \E f \in Fibers : f \in Owner(s))
          BY <4>1
        <4>5. \A s : (\E f \in Fibers : s \in Owned(f)) <=> s \in Slots /\ \E f \in Fibers : f \in Owner(s)
          BY <4>2
        <4> QED  BY <4>3, <4>4, <4>5, Zenon
      <3> DEFINE U == UNION {Owned(f) : f \in Fibers}
      <3>4. \A s : s \in U <=> s \in Slots /\ Owner(s) # {}
        BY <3>3
      <3>5. inuse = U \cup ({pending_reclaim} \ {NULL})
        <4> HIDE DEF U
        <4>1. ASSUME NEW s PROVE s \in inuse <=> s \in U \/ (s = pending_reclaim /\ s # NULL)
          BY <3>1, <3>2, <3>4, Zenon
        <4> QED  BY <4>1
      <3> QED  BY <3>5
    <2> QED  BY <2>2, <2>3, <2>4, <2>5 DEF SlotOwners
  <1>3. SentinelNamesInvoker
    <2>1. ASSUME sched_rsp # 0
          PROVE  sched_rsp = 1 /\ Len(frames) = 2 /\ Top = frames[2] /\ frames[2].stack # frames[1].stack
      <3>1. sched_rsp = 1 /\ Thread
        BY <2>1 DEF IInv, BootOK
      <3>2. Len(frames) = 2 /\ Top = Called
        BY <3>1, TopIs DEF Thread
      <3>3. Called.stack # KSTACK /\ Boot.stack = KSTACK
        BY <3>1 DEF Thread, IInv, BootOK
      <3> QED  BY <3>1, <3>2, <3>3 DEF Called, Boot
    <2> QED  BY <2>1 DEF SentinelNamesInvoker
  <1> QED  BY <1>1, <1>2, <1>3 DEF TablesAgree

(* Every word of the scheduler state keeps its type. *)
THEOREM Typed ==
  ASSUME Disciplined
  PROVE  Spec => []TypeOK
  <1>1. IInv => TypeOK
    BY DEF IInv
  <1> QED  BY <1>1, Inductive, PTL

(* spawn, sched_yield, fiber_exit and the timer keep the bitmap, the fiber *)
(* table, fiber_count, the slab and GS:[48] in agreement, also when a tick *)
(* falls between the load and the store of bitmap_clear.                   *)
THEOREM Agree ==
  ASSUME Disciplined
  PROVE  Spec => []TablesAgree
  <1>1. IInv => TablesAgree
    BY Agreement
  <1> QED  BY <1>1, Inductive, PTL

(* The four-phase bitmap search of sched_yield and fiber_exit returns the  *)
(* cyclic successor, from every fiber and in every reachable state.        *)
THEOREM Cyclic ==
  ASSUME Disciplined
  PROVE  Spec => []SearchIsCyclic
  <1>1. IInv => SearchIsCyclic
    BY SearchExact DEF IInv, SearchIsCyclic
  <1> QED  BY <1>1, Inductive, PTL

(* push_stack never gets a slot whose guard page is unmapped, and no task  *)
(* frame has one.                                                          *)
THEOREM Guarded ==
  ASSUME Disciplined
  PROVE  Spec => []GuardsOnlyStacks
  <1>1. IInv => GuardsOnlyStacks
    BY DEF IInv
  <1> QED  BY <1>1, Inductive, PTL
=============================================================================
