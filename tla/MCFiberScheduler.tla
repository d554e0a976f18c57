--------------------------- MODULE MCFiberScheduler ---------------------------
(* Instances of FiberScheduler for TLC: a fiber table of three or four slots *)
(* in three words of two bits.                                               *)
EXTENDS FiberScheduler, TLC

CONSTANTS s1, s2, s3, s4

Symmetry == Permutations(Slots)
=============================================================================
