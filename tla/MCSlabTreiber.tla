---------------------------- MODULE MCSlabTreiber -----------------------------
(* Instances of SlabTreiber for TLC. *)
EXTENDS SlabTreiber, TLC

CONSTANTS c1, c2

\* The contexts interrupt one another on the last core.
LastCore == [c \in Ctx |-> NUM_CPUS - 1]

Symmetry == Permutations(Ctx)
=============================================================================
