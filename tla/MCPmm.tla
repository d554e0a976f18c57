-------------------------------- MODULE MCPmm ---------------------------------
(* Instances of Pmm for TLC. *)
EXTENDS Pmm, TLC

CONSTANTS c1, c2, c3

\* Contexts c1 and c2 interrupt one another on core 0; c3 is on core 1.
Placement == [c \in Ctx |-> IF c = c3 THEN 1 ELSE 0]

\* The contexts of one core are interchangeable.
Symmetry == Permutations(Ctx)
=============================================================================
