------------------------------- MODULE AllocPool -------------------------------
(***************************************************************************)
(* What the kernel's allocators promise their callers: the stack slab      *)
(* (kernel/mem/slab.salt, pop_stack and push_stack) and the page allocator *)
(* (kernel/core/pmm.salt, alloc and free) hand out a slot of their region  *)
(* that nobody is using, and take it back from its user.  How free slots   *)
(* are chained, and which core's shard they sit in, is left to SlabTreiber *)
(* and Pmm, which implement this module.                                   *)
(***************************************************************************)
EXTENDS Naturals

CONSTANTS Addrs,        \* every address a caller could be given
          Slots         \* the ones that are slots of the region

VARIABLE uses           \* how many callers each address was given to

PoolInit == uses = [a \in Addrs |-> 0]

Take(s) == /\ uses[s] = 0
           /\ uses' = [uses EXCEPT ![s] = 1]

Give(s) == /\ uses[s] = 1
           /\ uses' = [uses EXCEPT ![s] = 0]

PoolNext == \E s \in Slots : Take(s) \/ Give(s)

PoolSpec == PoolInit /\ [][PoolNext]_uses
=============================================================================
