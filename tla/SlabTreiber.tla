----------------------------- MODULE SlabTreiber ------------------------------
(***************************************************************************)
(* kernel/mem/slab.salt: the per-core lock-free allocator of 16 KB slots   *)
(* that backs every fiber stack and every async task frame.                *)
(*                                                                         *)
(* Each core has a shard: a Treiber stack of recycled slots whose head is  *)
(* a 128-bit (pointer, generation) pair swapped by cmpxchg16b, and a bump  *)
(* counter over the part of the region that was never handed out.  The     *)
(* first word of a free slot is the link to the next one.                  *)
(*                                                                         *)
(* pop_stack and push_stack run with interrupts enabled, so a context can  *)
(* be suspended (timer interrupt, preempted thread) between any two memory *)
(* accesses while another context of the same core runs the same code.     *)
(* One action below is one access to shared memory.  A slot's address is   *)
(* its index in the region; a context is bound to the core CpuOf gives it. *)
(***************************************************************************)
EXTENDS Integers

CONSTANTS Ctx,          \* execution contexts that call the allocator
          NUM_CPUS,     \* cores init_cores partitions the region among
          MAX_SLOTS,    \* slots in the region
          CpuOf,        \* the core each context runs on
          NULL,         \* the null pointer
          INT_MAX,      \* largest value of the i32 counter fresh_count
          FRESH_BOUND,  \* bound: fetch_adds of one core's fresh_count
          GEN_BOUND     \* bound: successful swaps of one core's head

ASSUME CpuAssumption   == NUM_CPUS \in Nat \ {0}
ASSUME SlotAssumption  == MAX_SLOTS \in Nat
ASSUME CpuOfAssumption == CpuOf \in [Ctx -> 0 .. NUM_CPUS - 1]
ASSUME NullAssumption  == NULL \notin Int
ASSUME BoundAssumption == INT_MAX \in Nat /\ FRESH_BOUND \in Nat /\ GEN_BOUND \in Nat
\* The shards' counters are i32: a core's share of the region is counted by one.
ASSUME ShareAssumption == MAX_SLOTS \div NUM_CPUS <= INT_MAX

Cpus == 0 .. NUM_CPUS - 1

\* The region is cut into NUM_CPUS equal shares; what is left over is unused.
SLOTS_PER_CORE == MAX_SLOTS \div NUM_CPUS

core_offset(k) == k * SLOTS_PER_CORE

\* Slot indices of the region, and every index core_offset + fresh_count could
\* compute, the ones under SLAB_BASE or past SLAB_END included.
Slots == 0 .. MAX_SLOTS - 1
Addrs == -(INT_MAX + 1) .. MAX_SLOTS + INT_MAX

\* Signed 32-bit increment.
Inc32(n) == IF n = INT_MAX THEN -(INT_MAX + 1) ELSE n + 1

VARIABLES
    head_ptr, head_gen,     \* SlabCoreState of each core: the 128-bit head ...
    fresh_count,            \* ... and the bump counter
    link,                   \* first word of each slot
    present,                \* slots whose first page is mapped
    pc, cur_ptr, cur_gen, next_ptr, arg,   \* locals of the running call
    owners,                 \* ghost: how many callers hold each slot
    chain                   \* ghost: the slots each core's stack contains

shards == <<head_ptr, head_gen, fresh_count>>
locals == <<cur_ptr, cur_gen, next_ptr, arg>>
vars   == <<shards, link, present, pc, locals, owners, chain>>

Ptrs == Addrs \cup {NULL}

PCs == {"idle", "pop_gen", "pop_loop", "pop_cas",
        "push_gen", "push_link", "push_cas", "fault"}

Init ==
    /\ head_ptr    = [k \in Cpus |-> NULL]
    /\ head_gen    = [k \in Cpus |-> 0]
    /\ fresh_count = [k \in Cpus |-> 0]
    /\ link        = [a \in Addrs |-> NULL]
    /\ present     = Addrs
    /\ pc       = [c \in Ctx |-> "idle"]
    /\ cur_ptr  = [c \in Ctx |-> NULL]
    /\ cur_gen  = [c \in Ctx |-> 0]
    /\ next_ptr = [c \in Ctx |-> NULL]
    /\ arg      = [c \in Ctx |-> NULL]
    /\ owners   = [a \in Addrs |-> 0]
    /\ chain    = [k \in Cpus |-> {}]

Goto(c, from, to) == /\ pc[c] = from
                     /\ pc' = [pc EXCEPT ![c] = to]

\* On return the locals of the call are gone.
Return(c) == /\ cur_ptr'  = [cur_ptr EXCEPT ![c] = NULL]
             /\ cur_gen'  = [cur_gen EXCEPT ![c] = 0]
             /\ next_ptr' = [next_ptr EXCEPT ![c] = NULL]
             /\ arg'      = [arg EXCEPT ![c] = NULL]

\* Mutant of CasMatches: a 64-bit compare-and-swap, without the generation.
CasPtrMatches(c) == head_ptr[CpuOf[c]] = cur_ptr[c]

\* cmpxchg16b: does c's expected pair match its core's head?
CasMatches(c) == /\ head_ptr[CpuOf[c]] = cur_ptr[c]
                 /\ head_gen[CpuOf[c]] = cur_gen[c]

\* A failed cmpxchg16b returns the head it found, read atomically.
ReloadHead(c) == /\ cur_ptr' = [cur_ptr EXCEPT ![c] = head_ptr[CpuOf[c]]]
                 /\ cur_gen' = [cur_gen EXCEPT ![c] = head_gen[CpuOf[c]]]

\* A successful one installs p with the next generation.
SwapHead(c, p) ==
    LET k == CpuOf[c] IN
    /\ head_gen[k] < GEN_BOUND
    /\ head_ptr' = [head_ptr EXCEPT ![k] = p]
    /\ head_gen' = [head_gen EXCEPT ![k] = @ + 1]

-----------------------------------------------------------------------------
(* pop_stack *)

PopReadPtr(c) ==
    /\ Goto(c, "idle", "pop_gen")
    /\ cur_ptr' = [cur_ptr EXCEPT ![c] = head_ptr[CpuOf[c]]]
    /\ UNCHANGED <<shards, link, present, cur_gen, next_ptr, arg, owners, chain>>

PopReadGen(c) ==
    /\ Goto(c, "pop_gen", "pop_loop")
    /\ cur_gen' = [cur_gen EXCEPT ![c] = head_gen[CpuOf[c]]]
    /\ UNCHANGED <<shards, link, present, cur_ptr, next_ptr, arg, owners, chain>>

\* Empty stack: bump allocation, or 0 when the core's share is used up.
PopFresh(c) ==
    LET k    == CpuOf[c]
        idx  == fresh_count[k]
        slot == core_offset(k) + idx
    IN  /\ Goto(c, "pop_loop", "idle")
        /\ cur_ptr[c] = NULL
        /\ idx < FRESH_BOUND
        /\ fresh_count' = [fresh_count EXCEPT ![k] = Inc32(@)]
        /\ owners' = IF idx >= SLOTS_PER_CORE
                     THEN owners
                     ELSE [owners EXCEPT ![slot] = @ + 1]
        /\ Return(c)
        /\ UNCHANGED <<head_ptr, head_gen, link, present, chain>>

\* The link is read through a pointer that may be stale by now: the slot may
\* belong to another caller, with any contents, or have its page unmapped.
PopReadLink(c) ==
    /\ cur_ptr[c] # NULL
    /\ Goto(c, "pop_loop", IF cur_ptr[c] \in present THEN "pop_cas" ELSE "fault")
    /\ next_ptr' = [next_ptr EXCEPT ![c] = link[cur_ptr[c]]]
    /\ UNCHANGED <<shards, link, present, cur_ptr, cur_gen, arg, owners, chain>>

PopCas(c) ==
    /\ CasMatches(c)
    /\ Goto(c, "pop_cas", "idle")
    /\ SwapHead(c, next_ptr[c])
    /\ owners' = [owners EXCEPT ![cur_ptr[c]] = @ + 1]
    /\ chain'  = [chain EXCEPT ![CpuOf[c]] = @ \ {cur_ptr[c]}]
    /\ Return(c)
    /\ UNCHANGED <<fresh_count, link, present>>

PopRetry(c) ==
    /\ ~ CasMatches(c)
    /\ Goto(c, "pop_cas", "pop_loop")
    /\ ReloadHead(c)
    /\ UNCHANGED <<shards, link, present, next_ptr, arg, owners, chain>>

-----------------------------------------------------------------------------
(* push_stack, by a caller that holds s.  Its callers restore the guard    *)
(* page first (vmm_set_present), so the link word can be written.          *)

\* Mutant of PushReadPtr: a slot can be pushed by a caller that gave it up.
PushReadPtrTwice(c, s) ==
    /\ Goto(c, "idle", "push_gen")
    /\ s \in Slots
    /\ owners'  = [owners EXCEPT ![s] = @ - 1]
    /\ arg'     = [arg EXCEPT ![c] = s]
    /\ present' = present \cup {s}
    /\ cur_ptr' = [cur_ptr EXCEPT ![c] = head_ptr[CpuOf[c]]]
    /\ UNCHANGED <<shards, link, cur_gen, next_ptr, chain>>

PushReadPtr(c, s) ==
    /\ Goto(c, "idle", "push_gen")
    /\ s \in Slots              \* the range check; other addresses are ignored
    /\ owners[s] > 0
    /\ owners'  = [owners EXCEPT ![s] = @ - 1]
    /\ arg'     = [arg EXCEPT ![c] = s]
    /\ present' = present \cup {s}
    /\ cur_ptr' = [cur_ptr EXCEPT ![c] = head_ptr[CpuOf[c]]]
    /\ UNCHANGED <<shards, link, cur_gen, next_ptr, chain>>

PushReadGen(c) ==
    /\ Goto(c, "push_gen", "push_link")
    /\ cur_gen' = [cur_gen EXCEPT ![c] = head_gen[CpuOf[c]]]
    /\ UNCHANGED <<shards, link, present, cur_ptr, next_ptr, arg, owners, chain>>

PushLink(c) ==
    /\ Goto(c, "push_link", "push_cas")
    /\ link' = [link EXCEPT ![arg[c]] = cur_ptr[c]]
    /\ UNCHANGED <<shards, present, locals, owners, chain>>

PushCas(c) ==
    /\ CasMatches(c)
    /\ Goto(c, "push_cas", "idle")
    /\ SwapHead(c, arg[c])
    /\ chain' = [chain EXCEPT ![CpuOf[c]] = @ \cup {arg[c]}]
    /\ Return(c)
    /\ UNCHANGED <<fresh_count, link, present, owners>>

\* Mutant of PushRetry: the link is not rewritten for the new head.
PushRetryStaleLink(c) ==
    /\ ~ CasMatches(c)
    /\ Goto(c, "push_cas", "push_cas")
    /\ ReloadHead(c)
    /\ UNCHANGED <<shards, link, present, next_ptr, arg, owners, chain>>

\* Mutant of PushRetry: push_stack gives up when it loses the race.
PushGiveUp(c) ==
    /\ ~ CasMatches(c)
    /\ Goto(c, "push_cas", "idle")
    /\ Return(c)
    /\ UNCHANGED <<shards, link, present, owners, chain>>

PushRetry(c) ==
    /\ ~ CasMatches(c)
    /\ Goto(c, "push_cas", "push_link")
    /\ ReloadHead(c)
    /\ UNCHANGED <<shards, link, present, next_ptr, arg, owners, chain>>

-----------------------------------------------------------------------------
(* What a caller does with the slot it holds. *)

\* A stack or a task frame overwrites the word that held the link, at worst
\* with something that looks like a link.
OwnerWrite(s, v) ==
    /\ owners[s] > 0
    /\ s \in present
    /\ link' = [link EXCEPT ![s] = v]
    /\ UNCHANGED <<shards, present, pc, locals, owners, chain>>

\* spawn turns the lowest page of the stack into a guard page.
OwnerGuard(s) ==
    /\ owners[s] > 0
    /\ present' = present \ {s}
    /\ UNCHANGED <<shards, link, pc, locals, owners, chain>>

pop_stack(c)  == \/ PopReadPtr(c)  \/ PopReadGen(c) \/ PopFresh(c)
                 \/ PopReadLink(c) \/ PopCas(c)     \/ PopRetry(c)
push_stack(c) == \/ \E s \in Addrs : PushReadPtr(c, s)
                 \/ PushReadGen(c) \/ PushLink(c) \/ PushCas(c) \/ PushRetry(c)
Owner         == \E s \in Addrs : OwnerGuard(s) \/ \E v \in Slots \cup {NULL} : OwnerWrite(s, v)

Next == (\E c \in Ctx : pop_stack(c) \/ push_stack(c)) \/ Owner

Spec == Init /\ [][Next]_vars

-----------------------------------------------------------------------------
TypeOK ==
    /\ head_ptr    \in [Cpus -> Ptrs]
    /\ head_gen    \in [Cpus -> Nat]
    /\ fresh_count \in [Cpus -> Int]
    /\ link        \in [Addrs -> Ptrs]
    /\ present     \subseteq Addrs
    /\ pc          \in [Ctx -> PCs]
    /\ cur_ptr     \in [Ctx -> Ptrs]
    /\ cur_gen     \in [Ctx -> Nat]
    /\ next_ptr    \in [Ctx -> Ptrs]
    /\ arg         \in [Ctx -> Ptrs]
    /\ owners      \in [Addrs -> Nat]
    /\ chain       \in [Cpus -> SUBSET Addrs]

-----------------------------------------------------------------------------
Held    == {a \in Addrs : owners[a] > 0}
Pushing == {c \in Ctx : pc[c] \in {"push_gen", "push_link", "push_cas"}}

\* a left the virgin part of some core's share.
Issued(a) == \E k \in Cpus, i \in 0 .. SLOTS_PER_CORE - 1 :
                 i < fresh_count[k] /\ a = core_offset(k) + i

(* Every address a caller holds is a slot of the region: the bump          *)
(* allocation of pop_stack never leaves the core's share of it.            *)
RegionOnly == Held \subseteq Slots

(* A slot has one holder: it is with one caller, or in one push_stack call *)
(* that has not returned, or in one core's stack, never in two of them,    *)
(* although pop_stack follows links that other contexts may have           *)
(* invalidated (ABA) and may tear its read of the head.                    *)
ExclusiveOwnership ==
    /\ \A a \in Addrs : owners[a] <= 1
    /\ \A c \in Pushing : /\ arg[c] \notin Held
                          /\ \A d \in Pushing \ {c} : arg[d] # arg[c]
                          /\ \A k \in Cpus : arg[c] \notin chain[k]
    /\ \A k \in Cpus : /\ chain[k] \cap Held = {}
                       /\ \A m \in Cpus \ {k} : chain[k] \cap chain[m] = {}

(* The links of a core's stack never leave it, never point back at its     *)
(* head, and no two slots share a successor: no cycle can close.           *)
LinksWellFormed ==
    \A k \in Cpus :
        /\ head_ptr[k] \in chain[k] \cup {NULL}
        /\ \A a \in chain[k] :
              /\ link[a] \in chain[k] \cup {NULL}
              /\ link[a] # NULL => link[a] # head_ptr[k]
              /\ \A b \in chain[k] : link[a] = link[b] /\ link[a] # NULL => a = b

(* The 128-bit compare-and-swap can only succeed with a link that is still *)
(* current: the generation refuses every swap based on an earlier life of  *)
(* the slot.  For push_stack, the link written before the swap is the head *)
(* it replaces.                                                            *)
CasSound ==
    \A c \in Ctx :
        /\ cur_gen[c] <= head_gen[CpuOf[c]]
        /\ pc[c] = "pop_cas" =>
              /\ cur_ptr[c] # NULL
              /\ CasMatches(c) => next_ptr[c] = link[cur_ptr[c]]
        /\ pc[c] = "push_cas" => link[arg[c]] = cur_ptr[c]

(* Slots come into circulation only by the bump counter, and none is lost: *)
(* what the counter handed out is with a caller, being pushed, or chained. *)
Conservation ==
    \A a \in Addrs :
        Issued(a) <=> \/ a \in Held
                      \/ \E c \in Pushing : arg[c] = a
                      \/ \E k \in Cpus : a \in chain[k]

(* The slots a core's stack should contain are exactly those a walk of the *)
(* links from the head visits: nothing falls off the list.                 *)
ChainIsList ==
    \A k \in Cpus :
        LET nth[i \in 0 .. MAX_SLOTS] ==
                IF i = 0 THEN head_ptr[k]
                ELSE IF nth[i - 1] = NULL THEN NULL ELSE link[nth[i - 1]]
        IN  {nth[i] : i \in 0 .. MAX_SLOTS} \ {NULL} = chain[k]

(* The allocator implements the pool the scheduler relies on: whatever the *)
(* interleaving, pop_stack returns only slots nobody holds.                *)
Pool == INSTANCE AllocPool WITH uses <- owners
ImplementsPool == Pool!PoolSpec

(* pop_stack follows a link only through a mapped page.                    *)
LinkReadsMapped == \A c \in Ctx : pc[c] # "fault"
=============================================================================
