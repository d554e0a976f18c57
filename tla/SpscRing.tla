------------------------------- MODULE SpscRing --------------------------------
(***************************************************************************)
(* kernel/lib/ipc_shm.salt: the single-producer single-consumer byte ring  *)
(* in a page two address spaces share.                                     *)
(*                                                                         *)
(* The page has a header (head, capacity, tail) and a cyclic data area.    *)
(* head and tail only grow; an index is a counter modulo the capacity.     *)
(* The producer writes head and the data, the consumer writes tail.  The   *)
(* two run on different cores, so a step is one access to a word or byte   *)
(* the other side can touch.  Loads and stores happen in program order:    *)
(* the header is accessed through assembly routines and x86 stores are not *)
(* reordered.                                                              *)
(***************************************************************************)
EXTENDS Integers, Sequences

CONSTANTS DATA_CAPACITY,    \* bytes of the data area (3968)
          Bytes,            \* byte values
          WORD,             \* 2^64: header words are u64 and wrap
          Stray,            \* what the unused header words may contain
          MAX_LEN,          \* bound: bytes of one call
          TOTAL             \* bound: bytes pushed in the ring's life

ASSUME CapacityAssumption == DATA_CAPACITY \in Nat \ {0}
ASSUME ByteAssumption     == 0 \in Bytes
\* 2^64 bytes do not pass through a ring.
ASSUME WordAssumption     == TOTAL \in Nat /\ WORD \in Nat /\ TOTAL + DATA_CAPACITY < WORD
ASSUME LenAssumption      == MAX_LEN \in Nat \ {0} /\ Stray \subseteq 0 .. WORD - 1

HEAD_OFFSET     == 0
CAPACITY_OFFSET == 8
TAIL_OFFSET     == 64
Offsets         == {0, 8, 16, 64}

VARIABLES header,       \* the words of the header, by offset
          data,         \* the data area
          prod, cons,   \* the call each side is in
          sent,         \* ghost: the block of the last push that returned
          received      \* the bytes the last pop returned

vars == <<header, data, prod, cons, sent, received>>

head == header[HEAD_OFFSET]
tail == header[TAIL_OFFSET]
cap  == header[CAPACITY_OFFSET]

Sub(a, b)  == (a - b) % WORD
Least(a, b) == IF a < b THEN a ELSE b

Positions == 0 .. DATA_CAPACITY - 1

\* src holds the bytes to copy, k counts the bytes copied; n is the number of
\* bytes to read and buf those read.
NoPush == [pc |-> "idle", src |-> <<>>, k |-> 0]
NoPop  == [pc |-> "idle", n |-> 0, buf |-> <<>>]

\* The page after spsc_init.
Init ==
    /\ header \in [Offsets -> {0, DATA_CAPACITY} \cup Stray]
    /\ head = 0 /\ tail = 0 /\ cap = DATA_CAPACITY
    /\ header[16] \in Stray
    /\ data = [i \in Positions |-> 0]
    /\ prod = NoPush
    /\ cons = NoPop
    /\ sent = <<>> /\ received = <<>>

\* Where the k-th byte of a block of count bytes at counter value from lies:
\* up to the end of the data area, then from its beginning.
Place(from, count, k) ==
    LET start_idx == from % cap
        first     == Least(count, cap - start_idx)
    IN  IF k < first THEN start_idx + k ELSE k - first

-----------------------------------------------------------------------------
(* The producer *)

spsc_free_space == Sub(cap, Sub(head, tail))

StartPush(s) == /\ prod.pc = "idle"
                /\ head + Len(s) <= TOTAL
                /\ prod' = [pc |-> "copy", src |-> s, k |-> 0]
                /\ UNCHANGED <<header, data, cons, sent, received>>

\* Mutant of spsc_push: the test for a full ring is off by one.
spsc_push_full(b) ==
    /\ Sub(head, tail) <= cap
    /\ head % cap < DATA_CAPACITY
    /\ StartPush(<<b>>)

\* A full ring refuses the byte; the index test guards a corrupted capacity.
spsc_push(b) ==
    /\ Sub(head, tail) < cap
    /\ head % cap < DATA_CAPACITY
    /\ StartPush(<<b>>)

\* As much of the block as fits.
spsc_push_bulk(src) ==
    LET count == Least(Len(src), spsc_free_space) IN
    /\ count > 0
    /\ StartPush(SubSeq(src, 1, count))

CopyIn ==
    /\ prod.pc = "copy" /\ prod.k < Len(prod.src)
    /\ data' = [data EXCEPT ![Place(head, Len(prod.src), prod.k)] = prod.src[prod.k + 1]]
    /\ prod' = [prod EXCEPT !.k = @ + 1]
    /\ UNCHANGED <<header, cons, sent, received>>

\* Mutant of PublishHead: head is stored before the last byte.
PublishHeadEarly ==
    /\ prod.pc = "copy" /\ prod.k >= Len(prod.src) - 1
    /\ header' = [header EXCEPT ![HEAD_OFFSET] = (@ + Len(prod.src)) % WORD]
    /\ sent' = prod.src
    /\ prod' = NoPush
    /\ UNCHANGED <<data, cons, received>>

PublishHead ==
    /\ prod.pc = "copy" /\ prod.k = Len(prod.src)
    /\ header' = [header EXCEPT ![HEAD_OFFSET] = (@ + Len(prod.src)) % WORD]
    /\ sent' = prod.src
    /\ prod' = NoPush
    /\ UNCHANGED <<data, cons, received>>

-----------------------------------------------------------------------------
(* The consumer *)

spsc_available == Sub(head, tail)

StartPop(n) == /\ cons.pc = "idle"
               /\ cons' = [pc |-> "copy", n |-> n, buf |-> <<>>]
               /\ UNCHANGED <<header, data, prod, sent, received>>

spsc_pop == /\ head # tail
            /\ tail % cap < DATA_CAPACITY
            /\ StartPop(1)

spsc_pop_bulk(len) ==
    LET count == Least(len, spsc_available) IN
    /\ count > 0
    /\ StartPop(count)

CopyOut ==
    /\ cons.pc = "copy" /\ Len(cons.buf) < cons.n
    /\ cons' = [cons EXCEPT !.buf = Append(@, data[Place(tail, cons.n, Len(@))])]
    /\ UNCHANGED <<header, data, prod, sent, received>>

\* Mutant of PublishTail: tail moves one byte too far.
PublishTailOff ==
    /\ cons.pc = "copy" /\ Len(cons.buf) = cons.n
    /\ header' = [header EXCEPT ![TAIL_OFFSET] = (@ + cons.n + 1) % WORD]
    /\ received' = cons.buf
    /\ cons' = NoPop
    /\ UNCHANGED <<data, prod, sent>>

PublishTail ==
    /\ cons.pc = "copy" /\ Len(cons.buf) = cons.n
    /\ header' = [header EXCEPT ![TAIL_OFFSET] = (@ + cons.n) % WORD]
    /\ received' = cons.buf
    /\ cons' = NoPop
    /\ UNCHANGED <<data, prod, sent>>

Blocks == UNION {[1 .. n -> Bytes] : n \in 1 .. MAX_LEN}

Producer == \/ \E b \in Bytes : spsc_push(b)
            \/ \E src \in Blocks : spsc_push_bulk(src)
            \/ CopyIn \/ PublishHead
Consumer == \/ spsc_pop
            \/ \E len \in 1 .. MAX_LEN : spsc_pop_bulk(len)
            \/ CopyOut \/ PublishTail

Next == Producer \/ Consumer

Spec == Init /\ [][Next]_vars

-----------------------------------------------------------------------------
TypeOK ==
    /\ header \in [Offsets -> 0 .. WORD - 1]
    /\ data \in [Positions -> Bytes]
    /\ prod.pc \in {"idle", "copy"} /\ prod.k \in 0 .. Len(prod.src)
    /\ Len(prod.src) <= DATA_CAPACITY /\ \A i \in DOMAIN prod.src : prod.src[i] \in Bytes
    /\ cons.pc \in {"idle", "copy"} /\ cons.n \in 0 .. DATA_CAPACITY
    /\ Len(cons.buf) <= cons.n /\ \A i \in DOMAIN cons.buf : cons.buf[i] \in Bytes

(* The invariant ipc_shm.salt states for its header: the reader never      *)
(* overtakes the writer, the writer never laps the reader, although each   *)
(* decides on a counter of the other that may have moved since.  (And      *)
(* every variable has its type.)                                           *)
CountersBounded == TypeOK /\ head >= tail /\ head - tail <= cap /\ cap = DATA_CAPACITY

(* The bytes a push is writing are none of the bytes a reader may still    *)
(* read: neither those published and not yet popped nor those a pop in     *)
(* progress is copying.                                                    *)
WritesApart ==
    LET unread  == {Place(tail, head - tail, k) : k \in 0 .. head - tail - 1}
        written == {Place(head, Len(prod.src), k) : k \in 0 .. Len(prod.src) - 1}
    IN  /\ unread \cap written = {}
        /\ {Place(tail, cons.n, k) : k \in 0 .. cons.n - 1} \subseteq unread

(* The ring implements a queue of bytes: blocks arrive whole, in order and *)
(* once, wherever they wrap and however the two sides interleave.          *)
Fifo == INSTANCE ByteFifo WITH
            inp   <- sent,
            queue <- [i \in 1 .. head - tail |-> data[Place(tail, head - tail, i - 1)]],
            out   <- received
ImplementsFifo == Fifo!FifoSpec
=============================================================================
