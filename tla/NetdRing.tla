------------------------------- MODULE NetdRing --------------------------------
(***************************************************************************)
(* kernel/net/netd_bridge.salt (RX: the kernel pushes, NetD pops) and      *)
(* netd_tx_bridge.salt (TX: NetD pushes, the kernel drains): Ethernet      *)
(* frames in a shared byte ring, each behind a two-byte length.            *)
(*                                                                         *)
(* push_frame is three pushes and pop_frame_len two pops; each of them is  *)
(* one step of the ring (ByteFifo, which SpscRing implements).  RX pushes  *)
(* from the interrupt's bottom half, which NetD cannot run inside; TX      *)
(* pushes from a process, which the drain can.                             *)
(***************************************************************************)
EXTENDS ByteFifo, Integers, SequencesExt

CONSTANTS RADIX,            \* values of a byte (256)
          MIN_FRAME,        \* shortest and longest frame accepted: 14 and 1514
          MAX_FRAME,        \* for TX; RX has no such test
          PREEMPTIBLE,      \* may the consumer run inside push_frame?
          Frames,           \* frames offered to push_frame
          OFFERED           \* bound: frames offered

ASSUME RadixAssumption == RADIX \in Nat /\ RADIX > 1 /\ Bytes = 0 .. RADIX - 1
ASSUME FrameAssumption == Frames \subseteq Seq(Bytes)
\* A frame that is accepted has a length of two bytes.
ASSUME LenAssumption   == \/ MAX_FRAME < RADIX * RADIX
                          \/ DATA_CAPACITY - 2 < RADIX * RADIX
ASSUME BoundAssumption == /\ DATA_CAPACITY \in Nat
                          /\ MIN_FRAME \in Nat /\ MAX_FRAME \in Nat /\ OFFERED \in Nat
                          /\ PREEMPTIBLE \in BOOLEAN

VARIABLES
    push,               \* push_frame in progress: its frame and next step
    pop,                \* the consumer: its next step, lo, hi
    accepted,           \* ghost: frames push_frame took and no pop_frame returned
    frames_dropped,     \* FRAMES_DROPPED / TX_FRAMES_DROPPED
    delivered           \* ghost: frames pop_frame returned

ring == <<inp, queue, out>>
vars == <<ring, push, pop, accepted, frames_dropped, delivered>>

Idle == [pc |-> "idle", frame |-> <<>>]
NoLen == [pc |-> "idle", lo |-> 0, hi |-> 0]

Init == /\ FifoInit
        /\ push = Idle /\ pop = NoLen
        /\ accepted = <<>> /\ frames_dropped = 0 /\ delivered = 0

len_lo(f) == Len(f) % RADIX
len_hi(f) == (Len(f) \div RADIX) % RADIX
FrameLen  == pop.lo + RADIX * pop.hi

-----------------------------------------------------------------------------
(* push_frame *)

Offers == delivered + frames_dropped + Len(accepted)
Fits(f) == DATA_CAPACITY - Len(queue) >= Len(f) + 2

\* Mutant of PushBegin: the two bytes of the length are not reserved.
PushBeginNoRoom(f) ==
    /\ push.pc = "idle" /\ Offers < OFFERED
    /\ MIN_FRAME <= Len(f) /\ Len(f) <= MAX_FRAME
    /\ DATA_CAPACITY - Len(queue) >= Len(f)
    /\ push' = [pc |-> "lo", frame |-> f]
    /\ accepted' = Append(accepted, f)
    /\ UNCHANGED <<ring, pop, frames_dropped, delivered>>

PushBegin(f) ==
    /\ push.pc = "idle" /\ Offers < OFFERED
    /\ MIN_FRAME <= Len(f) /\ Len(f) <= MAX_FRAME
    /\ Fits(f)
    /\ push' = [pc |-> "lo", frame |-> f]
    /\ accepted' = Append(accepted, f)
    /\ UNCHANGED <<ring, pop, frames_dropped, delivered>>

PushDrop(f) ==
    /\ push.pc = "idle" /\ Offers < OFFERED
    /\ Len(f) < MIN_FRAME \/ MAX_FRAME < Len(f) \/ ~ Fits(f)
    /\ frames_dropped' = frames_dropped + 1
    /\ UNCHANGED <<ring, push, pop, accepted, delivered>>

PushLo == /\ push.pc = "lo"
          /\ Put(<<len_lo(push.frame)>>)
          /\ push' = [push EXCEPT !.pc = "hi"]
          /\ UNCHANGED <<pop, accepted, frames_dropped, delivered>>

PushHi == /\ push.pc = "hi"
          /\ Put(<<len_hi(push.frame)>>)
          /\ push' = [push EXCEPT !.pc = "body"]
          /\ UNCHANGED <<pop, accepted, frames_dropped, delivered>>

PushBody == /\ push.pc = "body"
            /\ LET room == DATA_CAPACITY - Len(queue)
                   n    == IF Len(push.frame) < room THEN Len(push.frame) ELSE room
               IN  Put(SubSeq(push.frame, 1, n))
            /\ push' = Idle
            /\ UNCHANGED <<pop, accepted, frames_dropped, delivered>>

-----------------------------------------------------------------------------
(* The consumer: pop_frame_len, then pop_frame with the length it returned *)

Runs == PREEMPTIBLE \/ push.pc = "idle"

\* Mutant of PopLo: the test of the bytes available is off by one.
PopLoOffByOne == /\ Runs /\ pop.pc = "idle"
                 /\ Len(queue) > 2
                 /\ Get(1)
                 /\ pop' = [pop EXCEPT !.pc = "hi", !.lo = Head(queue)]
                 /\ UNCHANGED <<push, accepted, frames_dropped, delivered>>

PopLo == /\ Runs /\ pop.pc = "idle"
         /\ Len(queue) >= 2
         /\ Get(1)
         /\ pop' = [pop EXCEPT !.pc = "hi", !.lo = Head(queue)]
         /\ UNCHANGED <<push, accepted, frames_dropped, delivered>>

PopHi == /\ Runs /\ pop.pc = "hi"
         /\ Get(1)
         /\ pop' = [pop EXCEPT !.pc = "body", !.hi = Head(queue)]
         /\ UNCHANGED <<push, accepted, frames_dropped, delivered>>

\* Mutant of pop_frame: the frame is not copied to the caller's buffer.
pop_frame_no_copy ==
    LET n == IF FrameLen < Len(queue) THEN FrameLen ELSE Len(queue) IN
    /\ Runs /\ pop.pc = "body"
    /\ queue' = SubSeq(queue, n + 1, Len(queue))
    /\ pop' = NoLen
    /\ accepted' = Tail(accepted)
    /\ delivered' = delivered + 1
    /\ UNCHANGED <<inp, out, push, frames_dropped>>

\* spsc_pop_bulk returns what there is, at most the length asked for.
pop_frame ==
    LET n == IF FrameLen < Len(queue) THEN FrameLen ELSE Len(queue) IN
    /\ Runs /\ pop.pc = "body"
    /\ Get(n)
    /\ pop' = NoLen
    /\ accepted' = Tail(accepted)
    /\ delivered' = delivered + 1
    /\ UNCHANGED <<push, frames_dropped>>

push_frame    == (\E f \in Frames : PushBegin(f) \/ PushDrop(f)) \/ PushLo \/ PushHi \/ PushBody
pop_frame_len == PopLo \/ PopHi

Next == push_frame \/ pop_frame_len \/ pop_frame

Spec == Init /\ [][Next]_vars

(* The consumer polls, and push_frame runs to its end.                      *)
FairSpec == Spec /\ WF_vars(pop_frame_len \/ pop_frame) /\ WF_vars(PushLo \/ PushHi \/ PushBody)

-----------------------------------------------------------------------------
TypeOK ==
    /\ queue \in Seq(Bytes) /\ Len(queue) <= DATA_CAPACITY
    /\ push.pc \in {"idle", "lo", "hi", "body"}
    /\ pop.pc \in {"idle", "hi", "body"} /\ pop.lo \in Bytes /\ pop.hi \in Bytes
    /\ accepted \in Seq(Frames)
    /\ frames_dropped \in Nat /\ delivered \in Nat

(* The bytes of an accepted frame on the ring.                              *)
Encode(f) == <<len_lo(f), len_hi(f)>> \o f

Popped == CASE pop.pc = "idle" -> <<>>
            [] pop.pc = "hi"   -> <<pop.lo>>
            [] pop.pc = "body" -> <<pop.lo, pop.hi>>
ToPush == CASE push.pc = "idle" -> <<>>
            [] push.pc = "lo"   -> Encode(push.frame)
            [] push.pc = "hi"   -> Tail(Encode(push.frame))
            [] push.pc = "body" -> push.frame

(* What the consumer has taken, what is in the ring and what push_frame has *)
(* still to write are together the encodings of the accepted frames, in     *)
(* order: no frame is cut, lost, duplicated or read as another's length.    *)
(* (And every variable has its type.)                                       *)
StreamFramed ==
    TypeOK /\ Popped \o queue \o ToPush
        = FlattenSeq([i \in DOMAIN accepted |-> Encode(accepted[i])])

(* A frame popped is the frame that was pushed.                             *)
ReturnsFrames == [][delivered' # delivered => out' = Head(accepted)]_vars

(* Every accepted frame reaches the consumer.                               *)
AllDelivered == \A n \in 1 .. OFFERED : (delivered + Len(accepted) >= n) ~> (delivered >= n)
=============================================================================
