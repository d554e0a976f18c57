------------------------------- MODULE ByteFifo --------------------------------
(***************************************************************************)
(* What a shared-memory ring promises its two sides: a bounded queue of    *)
(* bytes.  A push appends a block at once or not at all, a pop takes the   *)
(* oldest bytes.  SpscRing implements it with two counters and a cyclic    *)
(* data area; NetdRing builds the framing of Ethernet packets on it.       *)
(***************************************************************************)
EXTENDS Naturals, Sequences

CONSTANTS DATA_CAPACITY, Bytes

VARIABLES inp,      \* the block of the last push
          queue,    \* bytes pushed and not yet popped
          out       \* the bytes the last pop returned

FifoInit == inp = <<>> /\ queue = <<>> /\ out = <<>>

Put(s) == /\ Len(queue) + Len(s) <= DATA_CAPACITY
          /\ inp'   = s
          /\ queue' = queue \o s
          /\ UNCHANGED out

Get(n) == /\ n <= Len(queue)
          /\ out'   = SubSeq(queue, 1, n)
          /\ queue' = SubSeq(queue, n + 1, Len(queue))
          /\ UNCHANGED inp

FifoNext == \E n \in 1 .. DATA_CAPACITY :
                \/ Get(n)
                \/ \E s \in [1 .. n -> Bytes] : Put(s)

FifoSpec == FifoInit /\ [][FifoNext]_<<inp, queue, out>>
=============================================================================
