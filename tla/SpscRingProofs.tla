---------------------------- MODULE SpscRingProofs ----------------------------
(***************************************************************************)
(* Proofs about SpscRing, for every capacity, every set of byte values and *)
(* every interleaving of the two sides, as long as the counters stay below *)
(* 2^64 (WordAssumption).                                                  *)
(***************************************************************************)
EXTENDS SpscRing, CommonLemmas, SequenceTheorems, TLAPS

\* Where the byte with counter value n lies.
At(n) == data[n % DATA_CAPACITY]

SpscTypes ==
    /\ header \in [Offsets -> 0 .. WORD - 1]
    /\ data \in [Positions -> Bytes]
    /\ prod \in [pc : {"idle", "copy"}, src : Seq(Bytes), k : Nat]
    /\ cons \in [pc : {"idle", "copy"}, n : Nat, buf : Seq(Bytes)]

CountersOK ==
    /\ cap = DATA_CAPACITY
    /\ tail <= head
    /\ head <= TOTAL
    /\ head - tail <= DATA_CAPACITY

\* A push in progress: its block fits behind what is unread, and the bytes
\* copied so far are in their places.
PushOK ==
    /\ prod.pc = "idle" => prod = NoPush
    /\ prod.pc = "copy" =>
         /\ Len(prod.src) >= 1
         /\ prod.k <= Len(prod.src)
         /\ head + Len(prod.src) <= TOTAL
         /\ head - tail + Len(prod.src) <= DATA_CAPACITY
         /\ \A i \in 0 .. prod.k - 1 : At(head + i) = prod.src[i + 1]

\* A pop in progress: what it takes is unread, and what it copied is still
\* what lies there.
PopOK ==
    /\ cons.pc = "idle" => cons = NoPop
    /\ cons.pc = "copy" =>
         /\ cons.n >= 1
         /\ Len(cons.buf) <= cons.n
         /\ tail + cons.n <= head
         /\ \A i \in 1 .. Len(cons.buf) : cons.buf[i] = At(tail + i - 1)

IInv == SpscTypes /\ CountersOK /\ PushOK /\ PopOK

-----------------------------------------------------------------------------
(* Index and counter arithmetic. *)

\* The two-part copy of the bulk operations visits consecutive remainders.
LEMMA PlaceIsMod ==
  ASSUME cap = DATA_CAPACITY, NEW from \in Nat,
         NEW count \in 0 .. DATA_CAPACITY, NEW k \in 0 .. count - 1
  PROVE  Place(from, count, k) = (from + k) % DATA_CAPACITY
  <1>1. from % DATA_CAPACITY \in 0 .. DATA_CAPACITY - 1
    BY DivMod, CapacityAssumption
  <1>k. k \in 0 .. DATA_CAPACITY
    BY CapacityAssumption
  <1>2. (from + k) % DATA_CAPACITY =
           IF (from % DATA_CAPACITY) + k < DATA_CAPACITY
           THEN (from % DATA_CAPACITY) + k
           ELSE (from % DATA_CAPACITY) + k - DATA_CAPACITY
    BY <1>k, ModShift, CapacityAssumption
  <1> QED  BY <1>1, <1>2, CapacityAssumption DEF Place, Least

\* A counter difference does not wrap while the counters are in order.
LEMMA SubIsMinus ==
  ASSUME NEW a \in Nat, NEW b \in Nat, b <= a, a < WORD
  PROVE  Sub(a, b) = a - b
  <1>1. WORD \in Nat \ {0} /\ a - b \in 0 .. WORD - 1 /\ a - b = WORD * 0 + (a - b)
    BY WordAssumption
  <1> QED  BY <1>1, ModUnique DEF Sub

-----------------------------------------------------------------------------
(* The inductive invariant. *)

LEMMA WordFacts ==
  ASSUME IInv
  PROVE  /\ head \in Nat /\ tail \in Nat /\ head < WORD
         /\ Sub(head, tail) = head - tail
         /\ spsc_free_space = DATA_CAPACITY - (head - tail)
  <1>1. head \in Nat /\ tail \in Nat /\ tail <= head /\ head < WORD
    BY WordAssumption DEF IInv, SpscTypes, CountersOK, Offsets, head, tail, HEAD_OFFSET, TAIL_OFFSET
  <1>2. Sub(head, tail) = head - tail
    BY <1>1, SubIsMinus
  <1>3. head - tail \in Nat /\ head - tail <= DATA_CAPACITY /\ cap = DATA_CAPACITY
    BY <1>1 DEF IInv, CountersOK
  <1>4. DATA_CAPACITY \in Nat /\ DATA_CAPACITY < WORD
    BY CapacityAssumption, WordAssumption
  <1>5. Sub(DATA_CAPACITY, head - tail) = DATA_CAPACITY - (head - tail)
    BY <1>3, <1>4, SubIsMinus
  <1> QED  BY <1>1, <1>2, <1>3, <1>5 DEF spsc_free_space

LEMMA InitInv == Init => IInv
  <1> SUFFICES ASSUME Init PROVE IInv
    OBVIOUS
  <1>1. SpscTypes
    <2>1. header \in [Offsets -> 0 .. WORD - 1]
      <3>1. {0, DATA_CAPACITY} \cup Stray \subseteq 0 .. WORD - 1
        BY WordAssumption, CapacityAssumption, LenAssumption
      <3> QED  BY <3>1 DEF Init
    <2>2. data \in [Positions -> Bytes]
      BY ByteAssumption DEF Init
    <2>3. prod \in [pc : {"idle", "copy"}, src : Seq(Bytes), k : Nat]
      BY DEF Init, NoPush
    <2>4. cons \in [pc : {"idle", "copy"}, n : Nat, buf : Seq(Bytes)]
      BY DEF Init, NoPop
    <2> QED  BY <2>1, <2>2, <2>3, <2>4 DEF SpscTypes
  <1>2. CountersOK
    BY CapacityAssumption, WordAssumption DEF Init, CountersOK
  <1>3. PushOK /\ PopOK
    BY DEF Init, PushOK, PopOK, NoPush, NoPop
  <1> QED  BY <1>1, <1>2, <1>3 DEF IInv

\* Both pushes start alike: with a block that fits behind what is unread.
LEMMA StartPushInv ==
  ASSUME IInv, NEW s \in Seq(Bytes), Len(s) >= 1,
         head - tail + Len(s) <= DATA_CAPACITY, StartPush(s)
  PROVE  IInv'
  <1>1. SpscTypes'
    BY DEF IInv, SpscTypes, StartPush
  <1>2. CountersOK'
    BY DEF IInv, CountersOK, StartPush, head, tail, cap
  <1>3. PushOK'
    BY DEF StartPush, PushOK, head, tail, At
  <1>4. PopOK'
    BY DEF IInv, PopOK, StartPush, head, tail, At
  <1> QED  BY <1>1, <1>2, <1>3, <1>4 DEF IInv

LEMMA StartPopInv ==
  ASSUME IInv, NEW n \in Nat, n >= 1, n <= head - tail, StartPop(n)
  PROVE  IInv'
  <1>1. SpscTypes'
    BY DEF IInv, SpscTypes, StartPop
  <1>2. CountersOK'
    BY DEF IInv, CountersOK, StartPop, head, tail, cap
  <1>3. PushOK'
    BY DEF IInv, PushOK, StartPop, head, tail, At
  <1>4. PopOK'
    BY WordFacts DEF StartPop, PopOK, head, tail, At
  <1> QED  BY <1>1, <1>2, <1>3, <1>4 DEF IInv

LEMMA PushStarts ==
  ASSUME IInv, \/ \E b \in Bytes : spsc_push(b)
               \/ \E src \in Blocks : spsc_push_bulk(src)
  PROVE  IInv'
  <1>1. ASSUME NEW b \in Bytes, spsc_push(b) PROVE IInv'
    <2>0. <<b>> \in Seq(Bytes)
      OBVIOUS
    <2>1. PICK s \in Seq(Bytes) : s = <<b>>
      BY <2>0, Zenon
    <2>2. Len(s) = 1
      BY <2>1
    <2>3. head - tail + Len(s) <= DATA_CAPACITY
      BY <1>1, <2>2, WordFacts, CapacityAssumption DEF spsc_push, IInv, CountersOK
    <2>4. StartPush(s)
      BY <1>1, <2>1, Zenon DEF spsc_push
    <2>5. Len(s) >= 1
      BY <2>2
    <2> QED  BY <2>3, <2>4, <2>5, StartPushInv, Zenon
  <1>2. ASSUME NEW src \in Blocks, spsc_push_bulk(src) PROVE IInv'
    <2> DEFINE count == Least(Len(src), spsc_free_space)
    <2>1. PICK n \in 1 .. MAX_LEN : src \in [1 .. n -> Bytes]
      BY DEF Blocks
    <2>2. src \in Seq(Bytes) /\ Len(src) = n
      BY <2>1, LenAssumption
    <2>3. count \in 1 .. n /\ count <= DATA_CAPACITY - (head - tail)
      BY <1>2, <2>2, WordFacts, LenAssumption, CapacityAssumption DEF spsc_push_bulk, Least
    <2>0. SubSeq(src, 1, count) \in Seq(Bytes) /\ Len(SubSeq(src, 1, count)) = count
      BY <2>2, <2>3
    <2>4. PICK s \in Seq(Bytes) : s = SubSeq(src, 1, count) /\ Len(s) = count
      BY <2>0, Zenon
    <2>5. Len(s) >= 1 /\ head - tail + Len(s) <= DATA_CAPACITY
      BY <2>3, <2>4, WordFacts, CapacityAssumption
    <2>6. StartPush(s)
      BY <1>2, <2>4, Zenon DEF spsc_push_bulk
    <2> QED  BY <2>5, <2>6, StartPushInv, Zenon
  <1> QED  BY <1>1, <1>2

LEMMA PopStarts ==
  ASSUME IInv, spsc_pop \/ \E len \in 1 .. MAX_LEN : spsc_pop_bulk(len)
  PROVE  IInv'
  <1>1. CASE spsc_pop
    <2>1. 1 <= head - tail
      BY <1>1, WordFacts DEF spsc_pop, IInv, CountersOK
    <2> QED  BY <1>1, <2>1, StartPopInv DEF spsc_pop
  <1>2. ASSUME NEW len \in 1 .. MAX_LEN, spsc_pop_bulk(len) PROVE IInv'
    <2> DEFINE count == Least(len, spsc_available)
    <2>1. count \in Nat /\ count >= 1 /\ count <= head - tail
      BY <1>2, WordFacts, LenAssumption DEF spsc_pop_bulk, spsc_available, Least, IInv, CountersOK
    <2> QED  BY <1>2, <2>1, StartPopInv DEF spsc_pop_bulk
  <1> QED  BY <1>1, <1>2


\* Storing the byte of counter value x leaves those less than a turn before it.
LEMMA AtKept ==
  ASSUME SpscTypes, NEW x \in Nat, NEW n \in Nat, n < x, x - n < DATA_CAPACITY,
         NEW v, data' = [data EXCEPT ![x % DATA_CAPACITY] = v]
  PROVE  At(n)' = At(n)
  <1>1. n % DATA_CAPACITY # x % DATA_CAPACITY
    BY ModApart, CapacityAssumption
  <1>2. n % DATA_CAPACITY \in Positions
    BY DivMod, CapacityAssumption DEF Positions
  <1> QED  BY <1>1, <1>2 DEF At, SpscTypes

\* Where a push stores its next byte, in bounds of what is free.
LEMMA CopyInStores ==
  ASSUME IInv, CopyIn
  PROVE  \E x \in Nat :
           /\ x = head + prod.k /\ x - tail < DATA_CAPACITY
           /\ data' = [data EXCEPT ![x % DATA_CAPACITY] = prod.src[prod.k + 1]]
  <1> DEFINE len == Len(prod.src)
  <1>1. /\ prod.k \in Nat /\ len \in Nat /\ prod.k < len
        /\ head - tail + len <= DATA_CAPACITY /\ tail <= head
    BY DEF IInv, CopyIn, PushOK, SpscTypes, CountersOK
  <1>2. head \in Nat /\ tail \in Nat /\ DATA_CAPACITY \in Nat \ {0}
    BY WordFacts, CapacityAssumption
  <1> HIDE DEF len
  <1>3. len \in 0 .. DATA_CAPACITY /\ prod.k \in 0 .. len - 1
    BY <1>1, <1>2
  <1>4. Place(head, len, prod.k) = (head + prod.k) % DATA_CAPACITY
    BY <1>2, <1>3, PlaceIsMod DEF IInv, CountersOK
  <1>5. head + prod.k \in Nat /\ (head + prod.k) - tail < DATA_CAPACITY
    BY <1>1, <1>2
  <1> QED  BY <1>4, <1>5 DEF CopyIn, len

\* It leaves every byte between tail and the byte it stores.
LEMMA CopyInKeeps ==
  ASSUME IInv, CopyIn, NEW n \in Nat, tail <= n, n < head + prod.k
  PROVE  At(n)' = At(n)
  <1>1. PICK x \in Nat :
           /\ x = head + prod.k /\ x - tail < DATA_CAPACITY
           /\ data' = [data EXCEPT ![x % DATA_CAPACITY] = prod.src[prod.k + 1]]
    BY CopyInStores
  <1>2. n < x /\ x - n < DATA_CAPACITY
    BY <1>1, WordFacts, CapacityAssumption
  <1> QED  BY <1>1, <1>2, AtKept DEF IInv

LEMMA CopyInInv == ASSUME IInv, CopyIn PROVE IInv'
  <1> DEFINE len == Len(prod.src)
             v   == prod.src[prod.k + 1]
  <1>1. /\ prod.pc = "copy" /\ prod.k \in Nat /\ len \in Nat /\ prod.k < len
        /\ head - tail + len <= DATA_CAPACITY /\ tail <= head
        /\ prod.src \in Seq(Bytes)
    BY DEF IInv, CopyIn, PushOK, SpscTypes, CountersOK
  <1>2. head \in Nat /\ tail \in Nat /\ DATA_CAPACITY \in Nat \ {0}
    BY WordFacts, CapacityAssumption
  <1> HIDE DEF len, v
  <1>3. PICK x \in Nat : x = head + prod.k /\ data' = [data EXCEPT ![x % DATA_CAPACITY] = v]
    BY CopyInStores DEF v
  <1>4. v \in Bytes
    BY <1>1 DEF len, v
  <1>5. x % DATA_CAPACITY \in Positions
    BY <1>2, DivMod DEF Positions
  <1>6. SpscTypes'
    <2>1. data' \in [Positions -> Bytes]
      BY <1>3, <1>4, <1>5 DEF IInv, SpscTypes
    <2>2. prod' \in [pc : {"idle", "copy"}, src : Seq(Bytes), k : Nat]
      <3>1. prod' = [prod EXCEPT !.k = prod.k + 1]
        BY DEF CopyIn
      <3> QED  BY <1>1, <3>1 DEF IInv, SpscTypes
    <2> QED  BY <2>1, <2>2 DEF IInv, SpscTypes, CopyIn
  <1>7. CountersOK'
    BY DEF IInv, CountersOK, CopyIn, head, tail, cap
  <1>8. ASSUME NEW n \in Nat, n < x, tail <= n PROVE At(n)' = At(n)
    BY <1>3, <1>8, CopyInKeeps
  <1>9. PushOK'
    <2>1. /\ head' = head /\ tail' = tail /\ prod'.pc = "copy" /\ prod'.src = prod.src
          /\ prod'.k = prod.k + 1
      BY <1>1 DEF CopyIn, head, tail, IInv, SpscTypes
    <2>2. ASSUME NEW i \in 0 .. prod.k - 1 PROVE At(head + i)' = prod.src[i + 1]
      <3>1. head + i \in Nat /\ head + i < x /\ tail <= head + i
        BY <1>1, <1>2, <1>3
      <3>2. At(head + i) = prod.src[i + 1]
        BY <1>1 DEF IInv, PushOK
      <3>3. PICK n \in Nat : n = head + i
        BY <3>1
      <3>4. At(n)' = At(n)
        BY <1>8, <3>1, <3>3
      <3> QED  BY <2>1, <3>2, <3>3, <3>4 DEF At
    <2>3. At(x)' = v
      BY <1>3, <1>5, <2>1 DEF At, IInv, SpscTypes
    <2>4. ASSUME NEW i \in 0 .. prod'.k - 1 PROVE At(head + i)' = prod.src[i + 1]
      <3>1. CASE i = prod.k
        BY <1>3, <2>1, <2>3, <3>1 DEF At, v
      <3>2. CASE i # prod.k
        BY <1>1, <2>1, <2>2, <3>2
      <3> QED  BY <3>1, <3>2
    <2> QED  BY <1>1, <2>1, <2>4 DEF PushOK, IInv, len
  <1>10. PopOK'
    <2>1. head' = head /\ tail' = tail /\ cons' = cons
      BY DEF CopyIn, head, tail
    <2>2. ASSUME cons.pc = "copy", NEW i \in 1 .. Len(cons.buf)
          PROVE  cons.buf[i] = At(tail + i - 1)'
      <3>1. tail + cons.n <= head /\ Len(cons.buf) <= cons.n /\ cons.n \in Nat /\ Len(cons.buf) \in Nat
        BY <2>2 DEF IInv, PopOK, SpscTypes
      <3>2. PICK n \in Nat : n = tail + i - 1
        BY <1>2, <3>1
      <3>3. n < x /\ tail <= n
        BY <1>1, <1>2, <1>3, <3>1, <3>2
      <3>4. At(n)' = At(n)
        BY <1>8, <3>3
      <3>5. cons.buf[i] = At(n)
        BY <2>2, <3>2 DEF IInv, PopOK
      <3> QED  BY <2>1, <3>2, <3>4, <3>5 DEF At
    <2> QED  BY <2>1, <2>2 DEF IInv, PopOK
  <1> QED  BY <1>6, <1>7, <1>9, <1>10 DEF IInv

LEMMA CopyOutInv == ASSUME IInv, CopyOut PROVE IInv'
  <1>k. PICK k \in Nat : k = Len(cons.buf)
    BY DEF IInv, SpscTypes
  <1>b. PICK b : b = data[Place(tail, cons.n, k)]
    OBVIOUS
  <1>1. /\ cons.pc = "copy" /\ cons.n \in Nat /\ k < cons.n
        /\ cons.buf \in Seq(Bytes) /\ tail + cons.n <= head
    BY <1>k DEF IInv, CopyOut, PopOK, SpscTypes
  <1>2. head \in Nat /\ tail \in Nat /\ DATA_CAPACITY \in Nat \ {0} /\ head - tail <= DATA_CAPACITY
    BY WordFacts, CapacityAssumption DEF IInv, CountersOK
  <1>3. b = At(tail + k)
    <2>1. cons.n \in 0 .. DATA_CAPACITY /\ k \in 0 .. cons.n - 1
      BY <1>1, <1>2
    <2>2. Place(tail, cons.n, k) = (tail + k) % DATA_CAPACITY
      BY <1>2, <2>1, PlaceIsMod DEF IInv, CountersOK
    <2> QED  BY <1>b, <2>2 DEF At
  <1>4. b \in Bytes
    <2>0. tail + k \in Nat
      BY <1>2
    <2>1. (tail + k) % DATA_CAPACITY \in Positions
      BY <1>2, <2>0, DivMod DEF Positions
    <2> QED  BY <1>3, <2>1 DEF At, IInv, SpscTypes
  <1>5. /\ cons'.pc = "copy" /\ cons'.n = cons.n /\ cons'.buf = Append(cons.buf, b)
        /\ cons' \in [pc : {"idle", "copy"}, n : Nat, buf : Seq(Bytes)]
    <2>1. cons' = [cons EXCEPT !.buf = Append(cons.buf, b)]
      BY <1>b, <1>k DEF CopyOut
    <2>2. Append(cons.buf, b) \in Seq(Bytes)
      BY <1>1, <1>4
    <2> QED  BY <1>1, <2>1, <2>2 DEF IInv, SpscTypes
  <1>6. SpscTypes' /\ CountersOK' /\ PushOK'
    BY <1>5 DEF IInv, SpscTypes, CountersOK, PushOK, CopyOut, head, tail, cap, At
  <1>7. PopOK'
    <2>1. Len(cons'.buf) = k + 1
      BY <1>1, <1>4, <1>5, <1>k
    <2>2. ASSUME NEW i \in 1 .. k + 1 PROVE cons'.buf[i] = At(tail + i - 1)
      <3>1. CASE i = k + 1
        <4>1. cons'.buf[i] = b
          BY <1>1, <1>4, <1>5, <1>k, <3>1
        <4>2. tail + i - 1 = tail + k
          BY <1>2, <3>1
        <4> QED  BY <1>3, <4>1, <4>2
      <3>2. CASE i # k + 1
        <4>1. i \in 1 .. k
          BY <3>2
        <4>2. cons'.buf[i] = cons.buf[i]
          BY <1>1, <1>4, <1>5, <1>k, <4>1
        <4> QED  BY <1>1, <1>k, <4>1, <4>2 DEF IInv, PopOK
      <3> QED  BY <3>1, <3>2
    <2>3. tail' = tail /\ head' = head /\ data' = data
      BY DEF CopyOut, head, tail
    <2> QED  BY <1>1, <1>5, <2>1, <2>2, <2>3 DEF PopOK, IInv, At
  <1> QED  BY <1>6, <1>7 DEF IInv

\* The new value of a counter: no wrap below 2^64.
LEMMA ModSmall ==
  ASSUME NEW a \in Nat, a < WORD PROVE a % WORD = a
  <1>1. WORD \in Nat \ {0} /\ a \in 0 .. WORD - 1 /\ a = WORD * 0 + a
    BY WordAssumption
  <1> QED  BY <1>1, ModUnique


LEMMA PublishHeadSteps ==
  ASSUME IInv, PublishHead
  PROVE  /\ head' = head + Len(prod.src) /\ tail' = tail /\ cap' = cap
         /\ Len(prod.src) \in Nat /\ prod.pc = "copy"
  <1>1. prod.pc = "copy" /\ Len(prod.src) \in Nat /\ head + Len(prod.src) <= TOTAL
    BY DEF PublishHead, IInv, PushOK, SpscTypes
  <1>2. head + Len(prod.src) \in Nat /\ head + Len(prod.src) < WORD
    BY <1>1, WordFacts, WordAssumption, CapacityAssumption
  <1>3. (head + Len(prod.src)) % WORD = head + Len(prod.src)
    BY <1>2, ModSmall
  <1>4. header' = [header EXCEPT ![HEAD_OFFSET] = head + Len(prod.src)]
    BY <1>3 DEF PublishHead, head
  <1> QED  BY <1>1, <1>4 DEF IInv, SpscTypes, head, tail, cap, Offsets, HEAD_OFFSET, TAIL_OFFSET, CAPACITY_OFFSET

LEMMA PublishHeadInv == ASSUME IInv, PublishHead PROVE IInv'
  <1>1. /\ head' = head + Len(prod.src) /\ tail' = tail /\ cap' = cap
        /\ Len(prod.src) \in Nat /\ prod.pc = "copy"
    BY PublishHeadSteps
  <1>2. /\ head + Len(prod.src) <= TOTAL
        /\ head - tail + Len(prod.src) <= DATA_CAPACITY
        /\ head \in Nat /\ tail \in Nat /\ tail <= head /\ cap = DATA_CAPACITY
    BY <1>1, WordFacts DEF IInv, PushOK, CountersOK
  <1>3. CountersOK'
    BY <1>1, <1>2, WordAssumption, CapacityAssumption DEF CountersOK
  <1>4. SpscTypes'
    <2>1. header' \in [Offsets -> 0 .. WORD - 1]
      <3>1. (head + Len(prod.src)) % WORD \in 0 .. WORD - 1
        <4>1. head + Len(prod.src) \in Nat /\ WORD \in Nat \ {0}
          BY <1>1, <1>2, WordAssumption, CapacityAssumption
        <4> QED  BY <4>1, DivMod
      <3> QED  BY <3>1 DEF PublishHead, IInv, SpscTypes, head
    <2>2. prod' \in [pc : {"idle", "copy"}, src : Seq(Bytes), k : Nat]
      BY DEF PublishHead, NoPush
    <2> QED  BY <2>1, <2>2 DEF PublishHead, IInv, SpscTypes
  <1>5. PushOK'
    BY DEF PublishHead, PushOK, NoPush
  <1>6. PopOK'
    <2>1. cons' = cons /\ data' = data
      BY DEF PublishHead
    <2>2. cons.n \in Nat
      BY DEF IInv, SpscTypes
    <2> QED  BY <1>1, <1>2, <2>1, <2>2 DEF PopOK, IInv, At
  <1> QED  BY <1>3, <1>4, <1>5, <1>6 DEF IInv

LEMMA PublishTailSteps ==
  ASSUME IInv, PublishTail
  PROVE  /\ tail' = tail + cons.n /\ head' = head /\ cap' = cap
         /\ cons.n \in Nat /\ cons.n >= 1 /\ tail + cons.n <= head
         /\ cons.pc = "copy" /\ Len(cons.buf) = cons.n
  <1>1. /\ cons.pc = "copy" /\ cons.n \in Nat /\ cons.n >= 1 /\ tail + cons.n <= head
        /\ Len(cons.buf) = cons.n
    BY DEF PublishTail, IInv, PopOK, SpscTypes
  <1>2. tail + cons.n \in Nat /\ tail + cons.n < WORD
    BY <1>1, WordFacts, WordAssumption
  <1>3. (tail + cons.n) % WORD = tail + cons.n
    BY <1>2, ModSmall
  <1>4. header' = [header EXCEPT ![TAIL_OFFSET] = tail + cons.n]
    BY <1>3 DEF PublishTail, tail
  <1> QED  BY <1>1, <1>4 DEF IInv, SpscTypes, head, tail, cap, Offsets, HEAD_OFFSET, TAIL_OFFSET, CAPACITY_OFFSET

LEMMA PublishTailInv == ASSUME IInv, PublishTail PROVE IInv'
  <1>1. /\ tail' = tail + cons.n /\ head' = head /\ cap' = cap
        /\ cons.n \in Nat /\ cons.n >= 1 /\ tail + cons.n <= head
    BY PublishTailSteps
  <1>2. /\ head \in Nat /\ tail \in Nat /\ head < WORD /\ cap = DATA_CAPACITY
        /\ head <= TOTAL /\ head - tail <= DATA_CAPACITY
    BY WordFacts DEF IInv, CountersOK
  <1>3. CountersOK'
    BY <1>1, <1>2, CapacityAssumption, WordAssumption DEF CountersOK
  <1>4. SpscTypes'
    <2>1. header' \in [Offsets -> 0 .. WORD - 1]
      <3>1. (tail + cons.n) % WORD \in 0 .. WORD - 1
        <4>1. tail + cons.n \in Nat /\ WORD \in Nat \ {0}
          BY <1>1, <1>2, WordAssumption, CapacityAssumption
        <4> QED  BY <4>1, DivMod
      <3> QED  BY <3>1 DEF PublishTail, IInv, SpscTypes, tail
    <2>2. cons' \in [pc : {"idle", "copy"}, n : Nat, buf : Seq(Bytes)]
      BY DEF PublishTail, NoPop
    <2> QED  BY <2>1, <2>2 DEF PublishTail, IInv, SpscTypes
  <1>5. PushOK'
    <2>1. prod' = prod /\ data' = data
      BY DEF PublishTail
    <2>2. Len(prod.src) \in Nat
      BY DEF IInv, SpscTypes
    <2> QED  BY <1>1, <1>2, <2>1, <2>2, CapacityAssumption DEF PushOK, IInv, At
  <1>6. PopOK'
    BY DEF PublishTail, PopOK, NoPop
  <1> QED  BY <1>3, <1>4, <1>5, <1>6 DEF IInv

\* No step of either side breaks the invariant.
THEOREM Inductive == Spec => []IInv
  <1>1. IInv /\ [Next]_vars => IInv'
    <2> SUFFICES ASSUME IInv, [Next]_vars PROVE IInv'
      OBVIOUS
    <2>1. CASE Producer
      BY <2>1, PushStarts, CopyInInv, PublishHeadInv DEF Producer
    <2>2. CASE Consumer
      BY <2>2, PopStarts, CopyOutInv, PublishTailInv DEF Consumer
    <2>3. CASE UNCHANGED vars
      BY <2>3 DEF vars, IInv, SpscTypes, CountersOK, PushOK, PopOK, head, tail, cap, At
    <2> QED  BY <2>1, <2>2, <2>3 DEF Next
  <1> QED  BY <1>1, InitInv, PTL DEF Spec

-----------------------------------------------------------------------------
(* What follows from the invariant. *)

LEMMA InvCounters == ASSUME IInv PROVE CountersBounded
  <1>1. /\ prod.pc \in {"idle", "copy"} /\ prod.src \in Seq(Bytes) /\ prod.k \in Nat
        /\ cons.pc \in {"idle", "copy"} /\ cons.buf \in Seq(Bytes) /\ cons.n \in Nat
    BY DEF IInv, SpscTypes
  <1>2. head \in Nat /\ tail \in Nat /\ tail <= head /\ head - tail <= DATA_CAPACITY
    BY WordFacts DEF IInv, CountersOK
  <1>3. prod.k \in 0 .. Len(prod.src) /\ Len(prod.src) <= DATA_CAPACITY
    BY <1>1, <1>2, CapacityAssumption DEF IInv, PushOK, NoPush
  <1>4. cons.n \in 0 .. DATA_CAPACITY /\ Len(cons.buf) <= cons.n
    BY <1>1, <1>2, CapacityAssumption DEF IInv, PopOK, NoPop
  <1>5. TypeOK
    BY <1>1, <1>3, <1>4 DEF TypeOK, IInv, SpscTypes
  <1> QED  BY <1>5 DEF CountersBounded, IInv, CountersOK

(* ipc_shm.salt's header invariant: head never falls behind tail nor runs  *)
(* more than the capacity ahead, although each side tests a counter of the *)
(* other that may move before it acts on the test.                         *)
THEOREM Bounded == Spec => []CountersBounded
  <1>1. IInv => CountersBounded
    BY InvCounters
  <1> QED  BY <1>1, Inductive, PTL


\* The sizes of the two blocks in flight, whatever the two sides are doing.
LEMMA InFlight ==
  ASSUME IInv
  PROVE  /\ head \in Nat /\ tail \in Nat /\ tail <= head /\ cap = DATA_CAPACITY
         /\ Len(prod.src) \in Nat /\ head - tail + Len(prod.src) <= DATA_CAPACITY
         /\ cons.n \in Nat /\ tail + cons.n <= head
         /\ head - tail \in 0 .. DATA_CAPACITY /\ DATA_CAPACITY \in Nat \ {0}
  <1>1. /\ prod.pc \in {"idle", "copy"} /\ prod.src \in Seq(Bytes)
        /\ cons.pc \in {"idle", "copy"} /\ cons.n \in Nat
    BY DEF IInv, SpscTypes
  <1>2. head \in Nat /\ tail \in Nat /\ tail <= head /\ head - tail <= DATA_CAPACITY /\ cap = DATA_CAPACITY
    BY WordFacts DEF IInv, CountersOK
  <1>3. Len(prod.src) \in Nat /\ head - tail + Len(prod.src) <= DATA_CAPACITY
    BY <1>1, <1>2, CapacityAssumption DEF IInv, PushOK, NoPush
  <1>4. cons.n \in Nat /\ tail + cons.n <= head
    BY <1>1, <1>2 DEF IInv, PopOK, NoPop
  <1> QED  BY <1>2, <1>3, <1>4, CapacityAssumption

LEMMA InvApart == ASSUME IInv PROVE WritesApart
  <1> DEFINE len     == Len(prod.src)
             unread  == {Place(tail, head - tail, k) : k \in 0 .. head - tail - 1}
             written == {Place(head, len, k) : k \in 0 .. len - 1}
             taken   == {Place(tail, cons.n, k) : k \in 0 .. cons.n - 1}
  <1>1. /\ head \in Nat /\ tail \in Nat /\ tail <= head /\ cap = DATA_CAPACITY
        /\ len \in Nat /\ head - tail + len <= DATA_CAPACITY
        /\ cons.n \in Nat /\ tail + cons.n <= head
        /\ head - tail \in 0 .. DATA_CAPACITY /\ DATA_CAPACITY \in Nat \ {0}
    BY InFlight
  <1> HIDE DEF len
  <1>2. ASSUME NEW k \in 0 .. head - tail - 1
        PROVE  Place(tail, head - tail, k) = (tail + k) % DATA_CAPACITY
    BY <1>1, PlaceIsMod
  <1>3. ASSUME NEW k \in 0 .. len - 1
        PROVE  Place(head, len, k) = (head + k) % DATA_CAPACITY
    <2>1. len \in 0 .. DATA_CAPACITY
      BY <1>1
    <2> QED  BY <1>1, <2>1, PlaceIsMod
  <1>4. ASSUME NEW k \in 0 .. cons.n - 1
        PROVE  Place(tail, cons.n, k) = (tail + k) % DATA_CAPACITY
    <2>1. cons.n \in 0 .. DATA_CAPACITY
      BY <1>1
    <2> QED  BY <1>1, <2>1, PlaceIsMod
  <1>5. ASSUME NEW i \in 0 .. head - tail - 1, NEW j \in 0 .. len - 1
        PROVE  Place(tail, head - tail, i) # Place(head, len, j)
    <2>1. /\ tail + i \in Nat /\ head + j \in Nat
          /\ tail + i < head + j /\ (head + j) - (tail + i) < DATA_CAPACITY
      BY <1>1
    <2>2. (tail + i) % DATA_CAPACITY # (head + j) % DATA_CAPACITY
      BY <1>1, <2>1, ModApart
    <2> QED  BY <1>2, <1>3, <2>2
  <1>6. unread \cap written = {}
    BY <1>5
  <1>7. taken \subseteq unread
    <2>1. ASSUME NEW k \in 0 .. cons.n - 1 PROVE Place(tail, cons.n, k) \in unread
      <3>1. k \in 0 .. head - tail - 1
        BY <1>1
      <3>2. Place(tail, cons.n, k) = Place(tail, head - tail, k)
        BY <1>2, <1>4, <3>1
      <3> QED  BY <3>1, <3>2
    <2> QED  BY <2>1
  <1> QED  BY <1>6, <1>7 DEF WritesApart, len

(* The byte a push stores never is one the consumer may still read, at the *)
(* end of the data area as anywhere else.                                  *)
THEOREM Apart == Spec => []WritesApart
  <1>1. IInv => WritesApart
    BY InvApart
  <1> QED  BY <1>1, Inductive, PTL

-----------------------------------------------------------------------------
(* The refinement: the queue of ByteFifo is what lies between the counters. *)

Queue == [i \in 1 .. head - tail |-> data[Place(tail, head - tail, i - 1)]]

LEMMA QueueIsAt ==
  ASSUME IInv
  PROVE  /\ Queue = [i \in 1 .. head - tail |-> At(tail + i - 1)]
         /\ Queue \in Seq(Bytes) /\ Len(Queue) = head - tail
  <1>1. /\ head \in Nat /\ tail \in Nat /\ tail <= head /\ cap = DATA_CAPACITY
        /\ head - tail \in 0 .. DATA_CAPACITY /\ DATA_CAPACITY \in Nat \ {0}
    BY InFlight
  <1>2. ASSUME NEW i \in 1 .. head - tail
        PROVE  /\ data[Place(tail, head - tail, i - 1)] = At(tail + i - 1)
               /\ At(tail + i - 1) \in Bytes
    <2>1. i - 1 \in 0 .. head - tail - 1 /\ tail + (i - 1) = tail + i - 1 /\ tail + i - 1 \in Nat
      BY <1>1
    <2>2. Place(tail, head - tail, i - 1) = (tail + (i - 1)) % DATA_CAPACITY
      BY <1>1, <2>1, PlaceIsMod
    <2>3. (tail + i - 1) % DATA_CAPACITY \in Positions
      BY <1>1, <2>1, DivMod DEF Positions
    <2> QED  BY <2>1, <2>2, <2>3 DEF At, IInv, SpscTypes
  <1>3. Queue = [i \in 1 .. head - tail |-> At(tail + i - 1)]
    BY <1>2 DEF Queue
  <1>4. PICK n \in Nat : n = head - tail
    BY <1>1
  <1>5. Queue \in [1 .. n -> Bytes]
    BY <1>2, <1>3, <1>4
  <1>6. Queue \in Seq(Bytes) /\ Len(Queue) = n
    BY <1>5
  <1> QED  BY <1>3, <1>4, <1>6

QueueShape == /\ Queue = [i \in 1 .. head - tail |-> At(tail + i - 1)]
              /\ Queue \in Seq(Bytes) /\ Len(Queue) = head - tail

LEMMA QueueShapes == IInv /\ IInv' => QueueShape /\ QueueShape'
  <1>1. IInv => QueueShape
    BY QueueIsAt DEF QueueShape
  <1>2. IInv' => QueueShape'
    BY <1>1, PTL
  <1> QED  BY <1>1, <1>2

LEMMA PublishHeadFifo ==
  ASSUME IInv, IInv', PublishHead
  PROVE  Queue' = Queue \o prod.src /\ Len(Queue) + Len(prod.src) <= DATA_CAPACITY
  <1> DEFINE s == prod.src
  <1>1. QueueShape /\ QueueShape'
    BY QueueShapes
  <1>2. /\ head' = head + Len(s) /\ tail' = tail /\ Len(s) \in Nat /\ prod.pc = "copy"
        /\ data' = data /\ prod.k = Len(s)
    BY PublishHeadSteps DEF PublishHead
  <1>3. /\ s \in Seq(Bytes) /\ head \in Nat /\ tail \in Nat /\ tail <= head
        /\ head - tail + Len(s) <= DATA_CAPACITY
    BY InFlight DEF IInv, SpscTypes
  <1>4. ASSUME NEW i \in 0 .. Len(s) - 1 PROVE At(head + i) = s[i + 1]
    BY <1>2 DEF IInv, PushOK
  <1> HIDE DEF s
  <1>5. /\ Queue \o s \in Seq(Bytes)
        /\ Len(Queue \o s) = Len(Queue) + Len(s)
        /\ \A i \in 1 .. Len(Queue) + Len(s) :
              (Queue \o s)[i] = IF i <= Len(Queue) THEN Queue[i] ELSE s[i - Len(Queue)]
    BY <1>1, <1>3, ConcatProperties DEF QueueShape
  <1>6. Len(Queue') = Len(Queue \o s)
    BY <1>1, <1>2, <1>3, <1>5 DEF QueueShape
  <1>7. ASSUME NEW i \in 1 .. Len(Queue') PROVE Queue'[i] = (Queue \o s)[i]
    <2>1. i \in 1 .. head - tail + Len(s) /\ Queue'[i] = At(tail + i - 1)
      BY <1>1, <1>2, <1>3 DEF QueueShape, At
    <2>2. CASE i <= head - tail
      <3>1. Queue[i] = At(tail + i - 1)
        BY <1>1, <1>3, <2>1, <2>2 DEF QueueShape
      <3>2. (Queue \o s)[i] = Queue[i]
        BY <1>1, <1>3, <1>5, <2>1, <2>2 DEF QueueShape
      <3> QED  BY <2>1, <3>1, <3>2
    <2>3. CASE ~(i <= head - tail)
      <3>1. PICK j \in 0 .. Len(s) - 1 : j = i - (head - tail) - 1
        BY <1>2, <1>3, <2>1, <2>3
      <3>2. (Queue \o s)[i] = s[j + 1]
        <4>1. i - (head - tail) = j + 1
          BY <1>3, <3>1
        <4>2. (Queue \o s)[i] = s[i - (head - tail)]
          BY <1>1, <1>3, <1>5, <2>1, <2>3 DEF QueueShape
        <4> QED  BY <4>1, <4>2
      <3>3. tail + i - 1 = head + j
        BY <1>3, <3>1
      <3> QED  BY <1>4, <2>1, <3>2, <3>3
    <2> QED  BY <2>2, <2>3
  <1>8. Queue' = Queue \o s
    BY <1>1, <1>5, <1>6, <1>7, SeqEqual DEF QueueShape
  <1> QED  BY <1>1, <1>3, <1>8 DEF QueueShape, s

LEMMA PublishTailFifo ==
  ASSUME IInv, IInv', PublishTail
  PROVE  /\ cons.n <= Len(Queue)
         /\ cons.buf = SubSeq(Queue, 1, cons.n)
         /\ Queue' = SubSeq(Queue, cons.n + 1, Len(Queue))
  <1>1. QueueShape /\ QueueShape'
    BY QueueShapes
  <1>2. /\ tail' = tail + cons.n /\ head' = head /\ data' = data
        /\ cons.n \in Nat /\ cons.n >= 1 /\ tail + cons.n <= head
        /\ cons.pc = "copy" /\ Len(cons.buf) = cons.n
    BY PublishTailSteps DEF PublishTail
  <1>3. head \in Nat /\ tail \in Nat /\ tail <= head /\ cons.buf \in Seq(Bytes)
    BY InFlight DEF IInv, SpscTypes
  <1>4. PICK n \in Nat : n = cons.n
    BY <1>2
  <1>5. PICK l \in Nat : l = head - tail
    BY <1>3
  <1>6. PICK q \in Seq(Bytes) : q = Queue /\ Len(q) = l
    BY <1>1, <1>5 DEF QueueShape
  <1>7. n \in 1 .. l
    BY <1>2, <1>3, <1>4, <1>5
  <1>8. \A i \in 1 .. l : q[i] \in Bytes /\ q[i] = At(tail + i - 1)
    BY <1>1, <1>5, <1>6 DEF QueueShape
  <1>9. cons.buf = SubSeq(q, 1, n)
    <2>1. /\ SubSeq(q, 1, n) \in Seq(Bytes)
          /\ Len(SubSeq(q, 1, n)) = n
          /\ \A i \in 1 .. n : SubSeq(q, 1, n)[i] = q[i]
      <3>1. \A i \in 1 .. n : q[i] \in Bytes
        BY <1>7, <1>8
      <3> QED  BY <1>7, <3>1, SubSeqProperties
    <2>2. \A i \in 1 .. n : cons.buf[i] = At(tail + i - 1)
      BY <1>2, <1>4 DEF IInv, PopOK
    <2> DEFINE t == SubSeq(q, 1, n)
    <2> HIDE DEF t
    <2>4. \A i \in 1 .. n : cons.buf[i] = t[i]
      <3>1. \A i \in 1 .. n : t[i] = q[i]
        BY <2>1 DEF t
      <3> QED  BY <1>7, <1>8, <2>2, <3>1
    <2>3. \A i \in 1 .. Len(cons.buf) : cons.buf[i] = SubSeq(q, 1, n)[i]
      BY <1>2, <1>4, <2>4 DEF t
    <2> QED  BY <1>2, <1>3, <1>4, <2>1, <2>3, SeqEqual
  <1>10. Queue' = SubSeq(q, n + 1, l)
    <2>1. /\ SubSeq(q, n + 1, l) \in Seq(Bytes)
          /\ Len(SubSeq(q, n + 1, l)) = l - n
          /\ \A i \in 1 .. l - n : SubSeq(q, n + 1, l)[i] = q[n + i]
      <3>1. n + 1 \in Int /\ l \in Int /\ \A i \in n + 1 .. l : q[i] \in Bytes
        BY <1>7, <1>8
      <3> DEFINE t == SubSeq(q, n + 1, l)
      <3>2. /\ t \in Seq(Bytes)
            /\ Len(t) = IF n + 1 <= l THEN l - (n + 1) + 1 ELSE 0
            /\ \A i \in 1 .. l - (n + 1) + 1 : t[i] = q[(n + 1) + i - 1]
        BY <3>1, SubSeqProperties
      <3> HIDE DEF t
      <3>3. Len(t) = l - n /\ l - (n + 1) + 1 = l - n
        BY <1>7, <3>2
      <3>4. ASSUME NEW i \in 1 .. l - n PROVE t[i] = q[n + i]
        <4>1. (n + 1) + i - 1 = n + i
          OBVIOUS
        <4> QED  BY <3>2, <3>3, <4>1
      <3> QED  BY <3>2, <3>3, <3>4 DEF t
    <2>2. Len(Queue') = l - n
      <3>1. Len(Queue') = head' - tail'
        BY <1>1 DEF QueueShape
      <3> QED  BY <1>2, <1>3, <1>4, <1>5, <3>1
    <2>3. ASSUME NEW i \in 1 .. l - n PROVE Queue'[i] = q[n + i]
      <3>1. Queue'[i] = data[(tail + n + i - 1) % DATA_CAPACITY]
        BY <1>1, <1>2, <1>3, <1>4, <1>5 DEF QueueShape, At
      <3>2. n + i \in 1 .. l /\ tail + (n + i) - 1 = tail + n + i - 1
        BY <1>3, <1>7
      <3> QED  BY <1>8, <3>1, <3>2 DEF At
    <2>4. \A i \in 1 .. Len(Queue') : Queue'[i] = SubSeq(q, n + 1, l)[i]
      BY <2>1, <2>2, <2>3
    <2> QED  BY <1>1, <2>1, <2>2, <2>4, SeqEqual DEF QueueShape
  <1> QED  BY <1>4, <1>6, <1>7, <1>9, <1>10

LEMMA FifoStep ==
  ASSUME IInv, IInv', [Next]_vars
  PROVE  [Fifo!FifoNext]_<<sent, Queue, received>>
  <1>1. CASE PublishHead
    <2>1. PICK n \in 1 .. DATA_CAPACITY : n = Len(prod.src)
      BY <1>1, InFlight, PublishHeadSteps DEF IInv, PushOK
    <2>2. PICK s \in [1 .. n -> Bytes] : s = prod.src
      BY <2>1 DEF IInv, SpscTypes
    <2>3. Fifo!Put(s)
      BY <1>1, <2>2, PublishHeadFifo DEF Fifo!Put, Queue, PublishHead
    <2> QED  BY <2>3 DEF Fifo!FifoNext
  <1>2. CASE PublishTail
    <2>1. PICK n \in 1 .. DATA_CAPACITY : n = cons.n
      BY <1>2, InFlight, PublishTailSteps
    <2>2. Fifo!Get(n)
      BY <1>2, <2>1, PublishTailFifo DEF Fifo!Get, Queue, PublishTail
    <2> QED  BY <2>2 DEF Fifo!FifoNext
  <1>3. ASSUME UNCHANGED <<header, data, sent, received>>
        PROVE  UNCHANGED <<sent, Queue, received>>
    BY <1>3 DEF Queue, head, tail, cap, Place
  <1>4. CASE CopyIn
    <2>1. QueueShape /\ QueueShape'
      BY QueueShapes
    <2>2. head' = head /\ tail' = tail
      BY <1>4 DEF CopyIn, head, tail
    <2>3. ASSUME NEW i \in 1 .. head - tail PROVE At(tail + i - 1)' = At(tail + i - 1)
      <3>1. head \in Nat /\ tail \in Nat /\ tail <= head /\ prod.k \in Nat
        BY InFlight DEF IInv, SpscTypes
      <3>2. PICK n \in Nat : n = tail + i - 1
        BY <3>1
      <3>3. tail <= n /\ n < head + prod.k
        BY <3>1, <3>2
      <3>4. At(n)' = At(n)
        BY <1>4, <3>3, CopyInKeeps
      <3> QED  BY <2>2, <3>2, <3>4 DEF At
    <2> QED  BY <1>4, <2>1, <2>2, <2>3 DEF QueueShape, CopyIn
  <1>5. CASE UNCHANGED vars \/ CopyOut
    BY <1>3, <1>5 DEF vars, CopyOut
  <1>6. CASE \/ \E b \in Bytes : spsc_push(b)
             \/ \E src \in Blocks : spsc_push_bulk(src)
    BY <1>3, <1>6 DEF spsc_push, spsc_push_bulk, StartPush
  <1>7. CASE spsc_pop \/ \E len \in 1 .. MAX_LEN : spsc_pop_bulk(len)
    BY <1>3, <1>7 DEF spsc_pop, spsc_pop_bulk, StartPop
  <1> QED  BY <1>1, <1>2, <1>4, <1>5, <1>6, <1>7 DEF Next, Producer, Consumer

(* The ring is a queue of bytes: a push appends its whole block at the     *)
(* store of head, a pop takes the oldest bytes at the store of tail, and   *)
(* no other step of either side changes what the queue holds.              *)
THEOREM Refinement == Spec => ImplementsFifo
  <1>1. Init => Fifo!FifoInit
    BY DEF Init, Fifo!FifoInit
  <1>2. IInv /\ IInv' /\ [Next]_vars => [Fifo!FifoNext]_<<sent, Queue, received>>
    BY FifoStep
  <1> QED  BY <1>1, <1>2, Inductive, PTL DEF Spec, ImplementsFifo, Fifo!FifoSpec, Queue

=============================================================================
