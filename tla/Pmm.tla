--------------------------------- MODULE Pmm ----------------------------------
(***************************************************************************)
(* kernel/core/pmm.salt: the physical page allocator.                      *)
(*                                                                         *)
(* Each core has a shard: a list of free pages, linked through the first   *)
(* word of each page, and their count.  alloc and free work on the shard   *)
(* of the core they run on, with plain loads and stores inside CLI ... STI;*)
(* alloc on an empty shard takes a page from another core's shard with a   *)
(* compare-and-swap, interrupts enabled.                                   *)
(*                                                                         *)
(* One action is one access to memory another context can reach.  A        *)
(* context is bound to the core CpuOf gives it and is suspended while      *)
(* another context of that core has interrupts disabled; other cores never *)
(* wait.  A page is its index in the range init received.  free's test     *)
(* that the address is page aligned holds for every page alloc returns.    *)
(***************************************************************************)
EXTENDS Integers, FiniteSets

CONSTANTS Ctx,              \* execution contexts that call the allocator
          NUM_CPUS,         \* shards
          CpuOf,            \* the core each context runs on
          NUM_PAGES,        \* pages of the range given to init
          STEAL_THRESHOLD,  \* a shard with no more pages is not stolen from
          NULL

ASSUME CpuAssumption   == NUM_CPUS \in Nat \ {0}
ASSUME PageAssumption  == NUM_PAGES \in Nat /\ STEAL_THRESHOLD \in Nat
ASSUME CpuOfAssumption == IsFiniteSet(Ctx) /\ CpuOf \in [Ctx -> 0 .. NUM_CPUS - 1]
ASSUME NullAssumption  == NULL \notin Int

Cpus  == 0 .. NUM_CPUS - 1
Pages == 0 .. NUM_PAGES - 1
Ptrs  == Pages \cup {NULL}

VARIABLES
    head, count,                        \* PmmCoreState of each core
    link,                               \* first word of each page
    pc, page, next, cnt, victim,        \* locals of the running call
    owners                              \* ghost: how many callers hold each page

shards == <<head, count>>
locals == <<page, next, cnt, victim>>
vars   == <<shards, link, pc, locals, owners>>

\* Between CLI and STI.
CliPCs == {"alloc_next", "alloc_head", "alloc_load", "alloc_store",
           "free_link", "free_head", "free_load", "free_store"}
PCs    == CliPCs \cup {"idle", "scan", "steal_head", "steal_next", "steal_cas", "steal_count"}

\* Pages of shard k as init deals them out, round robin.
Dealt(k) == {p \in Pages : p % NUM_CPUS = k}

\* After init: each page was pushed on its shard in ascending order.
Init ==
    /\ count = [k \in Cpus |-> Cardinality(Dealt(k))]
    /\ head  = [k \in Cpus |-> IF Dealt(k) = {} THEN NULL
                               ELSE CHOOSE p \in Dealt(k) : \A q \in Dealt(k) : q <= p]
    /\ link  = [p \in Pages |-> IF p >= NUM_CPUS THEN p - NUM_CPUS ELSE NULL]
    /\ pc     = [c \in Ctx |-> "idle"]
    /\ page   = [c \in Ctx |-> NULL]
    /\ next   = [c \in Ctx |-> NULL]
    /\ cnt    = [c \in Ctx |-> 0]
    /\ victim = [c \in Ctx |-> 0]
    /\ owners = [p \in Pages |-> 0]

\* Mutant of Runs: CLI and STI left out.
RunsAlways(c) == TRUE

\* c is not suspended in favour of a context that disabled interrupts.
Runs(c) == \A d \in Ctx \ {c} : CpuOf[d] = CpuOf[c] => pc[d] \notin CliPCs

Goto(c, from, to) == /\ Runs(c)
                     /\ pc[c] = from
                     /\ pc' = [pc EXCEPT ![c] = to]

Return(c) == /\ page'   = [page EXCEPT ![c] = NULL]
             /\ next'   = [next EXCEPT ![c] = NULL]
             /\ cnt'    = [cnt EXCEPT ![c] = 0]
             /\ victim' = [victim EXCEPT ![c] = 0]

\* c's caller receives p.
Grant(p) == owners' = [owners EXCEPT ![p] = @ + 1]

-----------------------------------------------------------------------------
(* alloc *)

AllocEmpty(c) ==
    /\ Goto(c, "idle", "scan")
    /\ head[CpuOf[c]] = NULL
    /\ UNCHANGED <<shards, link, locals, owners>>

AllocReadHead(c) ==
    /\ Goto(c, "idle", "alloc_next")
    /\ head[CpuOf[c]] # NULL
    /\ page' = [page EXCEPT ![c] = head[CpuOf[c]]]
    /\ UNCHANGED <<shards, link, next, cnt, victim, owners>>

AllocReadNext(c) ==
    /\ Goto(c, "alloc_next", "alloc_head")
    /\ next' = [next EXCEPT ![c] = link[page[c]]]
    /\ UNCHANGED <<shards, link, page, cnt, victim, owners>>

AllocSetHead(c) ==
    /\ Goto(c, "alloc_head", "alloc_load")
    /\ head' = [head EXCEPT ![CpuOf[c]] = next[c]]
    /\ UNCHANGED <<count, link, locals, owners>>

\* count = count - 1 is a load and a store.
AllocLoadCount(c) ==
    /\ Goto(c, "alloc_load", "alloc_store")
    /\ cnt' = [cnt EXCEPT ![c] = count[CpuOf[c]]]
    /\ UNCHANGED <<shards, link, page, next, victim, owners>>

AllocStoreCount(c) ==
    /\ Goto(c, "alloc_store", "idle")
    /\ count' = [count EXCEPT ![CpuOf[c]] = cnt[c] - 1]
    /\ Grant(page[c])
    /\ Return(c)
    /\ UNCHANGED <<head, link>>

-----------------------------------------------------------------------------
(* free(p), by a caller that holds p *)

FreeReadHead(c, p) ==
    /\ Goto(c, "idle", "free_link")
    /\ owners[p] > 0
    /\ owners' = [owners EXCEPT ![p] = @ - 1]
    /\ page'   = [page EXCEPT ![c] = p]
    /\ next'   = [next EXCEPT ![c] = head[CpuOf[c]]]
    /\ UNCHANGED <<shards, link, cnt, victim>>

FreeSetLink(c) ==
    /\ Goto(c, "free_link", "free_head")
    /\ link' = [link EXCEPT ![page[c]] = next[c]]
    /\ UNCHANGED <<shards, locals, owners>>

\* Mutant of FreeSetHead: the page goes back to the shard init dealt it to.
FreeSetHome(c) ==
    /\ Goto(c, "free_head", "free_load")
    /\ head' = [head EXCEPT ![page[c] % NUM_CPUS] = page[c]]
    /\ UNCHANGED <<count, link, locals, owners>>

FreeSetHead(c) ==
    /\ Goto(c, "free_head", "free_load")
    /\ head' = [head EXCEPT ![CpuOf[c]] = page[c]]
    /\ UNCHANGED <<count, link, locals, owners>>

FreeLoadCount(c) ==
    /\ Goto(c, "free_load", "free_store")
    /\ cnt' = [cnt EXCEPT ![c] = count[CpuOf[c]]]
    /\ UNCHANGED <<shards, link, page, next, victim, owners>>

FreeStoreCount(c) ==
    /\ Goto(c, "free_store", "idle")
    /\ count' = [count EXCEPT ![CpuOf[c]] = cnt[c] + 1]
    /\ Return(c)
    /\ UNCHANGED <<head, link, owners>>

-----------------------------------------------------------------------------
(* steal_from_remote *)

\* No victim left: alloc returns 0.
StealFail(c) ==
    /\ Goto(c, "scan", "idle")
    /\ victim[c] = NUM_CPUS
    /\ Return(c)
    /\ UNCHANGED <<shards, link, owners>>

NextVictim(c) == victim' = [victim EXCEPT ![c] = @ + 1]

StealSkip(c) ==
    /\ Goto(c, "scan", "scan")
    /\ victim[c] < NUM_CPUS
    /\ victim[c] = CpuOf[c] \/ count[victim[c]] <= STEAL_THRESHOLD
    /\ NextVictim(c)
    /\ UNCHANGED <<shards, link, page, next, cnt, owners>>

StealPick(c) ==
    /\ Goto(c, "scan", "steal_head")
    /\ victim[c] < NUM_CPUS
    /\ victim[c] # CpuOf[c] /\ count[victim[c]] > STEAL_THRESHOLD
    /\ UNCHANGED <<shards, link, locals, owners>>

StealNoHead(c) ==
    /\ Goto(c, "steal_head", "scan")
    /\ head[victim[c]] = NULL
    /\ NextVictim(c)
    /\ UNCHANGED <<shards, link, page, next, cnt, owners>>

StealReadHead(c) ==
    /\ Goto(c, "steal_head", "steal_next")
    /\ head[victim[c]] # NULL
    /\ page' = [page EXCEPT ![c] = head[victim[c]]]
    /\ UNCHANGED <<shards, link, next, cnt, victim, owners>>

\* The page may have been handed out since, and hold anything: its first word
\* is read as a link (WriteWord below).
StealReadNext(c) ==
    /\ Goto(c, "steal_next", "steal_cas")
    /\ next' = [next EXCEPT ![c] = link[page[c]]]
    /\ UNCHANGED <<shards, link, page, cnt, victim, owners>>

\* Mutant of StealCas: a plain store instead of the compare-and-swap.
StealStore(c) ==
    /\ Goto(c, "steal_cas", "steal_count")
    /\ head' = [head EXCEPT ![victim[c]] = next[c]]
    /\ UNCHANGED <<count, link, locals, owners>>

StealCas(c) ==
    /\ Goto(c, "steal_cas", "steal_count")
    /\ head[victim[c]] = page[c]
    /\ head' = [head EXCEPT ![victim[c]] = next[c]]
    /\ UNCHANGED <<count, link, locals, owners>>

StealLost(c) ==
    /\ Goto(c, "steal_cas", "scan")
    /\ head[victim[c]] # page[c]
    /\ NextVictim(c)
    /\ page' = [page EXCEPT ![c] = NULL]
    /\ next' = [next EXCEPT ![c] = NULL]
    /\ UNCHANGED <<shards, link, cnt, owners>>

\* Mutant of StealCount: the thief's own count is decremented.
StealCountThief(c) ==
    /\ Goto(c, "steal_count", "idle")
    /\ count' = [count EXCEPT ![CpuOf[c]] = @ - 1]
    /\ Grant(page[c])
    /\ Return(c)
    /\ UNCHANGED <<head, link>>

\* atomic_add_i64
StealCount(c) ==
    /\ Goto(c, "steal_count", "idle")
    /\ count' = [count EXCEPT ![victim[c]] = @ - 1]
    /\ Grant(page[c])
    /\ Return(c)
    /\ UNCHANGED <<head, link>>

-----------------------------------------------------------------------------
\* A caller uses the page it holds.
WriteWord(p, w) ==
    /\ owners[p] > 0
    /\ link' = [link EXCEPT ![p] = w]
    /\ UNCHANGED <<shards, pc, locals, owners>>

alloc(c) == \/ AllocEmpty(c) \/ AllocReadHead(c) \/ AllocReadNext(c)
            \/ AllocSetHead(c) \/ AllocLoadCount(c) \/ AllocStoreCount(c)
free(c)  == \/ \E p \in Pages : FreeReadHead(c, p)
            \/ FreeSetLink(c) \/ FreeSetHead(c) \/ FreeLoadCount(c) \/ FreeStoreCount(c)
steal_from_remote(c) ==
            \/ StealFail(c) \/ StealSkip(c) \/ StealPick(c)
            \/ StealNoHead(c) \/ StealReadHead(c) \/ StealReadNext(c)
            \/ StealCas(c) \/ StealLost(c) \/ StealCount(c)

Next == \/ \E c \in Ctx : alloc(c) \/ free(c) \/ steal_from_remote(c)
        \/ \E p \in Pages, w \in Ptrs : WriteWord(p, w)

Spec == Init /\ [][Next]_vars

-----------------------------------------------------------------------------
TypeOK ==
    /\ head   \in [Cpus -> Ptrs]
    /\ count  \in [Cpus -> Nat]
    /\ link   \in [Pages -> Ptrs]
    /\ pc     \in [Ctx -> PCs]
    /\ page   \in [Ctx -> Ptrs]
    /\ next   \in [Ctx -> Ptrs]
    /\ cnt    \in [Ctx -> Nat]
    /\ victim \in [Ctx -> 0 .. NUM_CPUS]
    /\ owners \in [Pages -> Nat]

\* The pages a walk of shard k's list meets.
FreeList(k) ==
    LET nth[i \in 0 .. NUM_PAGES] ==
            IF i = 0 THEN head[k]
            ELSE IF nth[i - 1] = NULL THEN NULL ELSE link[nth[i - 1]]
    IN  {nth[i] : i \in 0 .. NUM_PAGES} \ {NULL}

\* Pages inside a call: taken from a list and not returned yet, or not yet
\* on one.
InTransit(c) == IF pc[c] \in {"alloc_load", "alloc_store", "steal_count", "free_link", "free_head"}
                THEN {page[c]} ELSE {}

(* Every page is in exactly one place: with one caller, inside one alloc,  *)
(* steal or free, or on one core's list.  So alloc never returns a page    *)
(* that is in use, whoever interrupts or steals, and no page is lost.      *)
OneHolder ==
    /\ \A p \in Pages : owners[p] <= 1
    /\ \A p \in Pages :
          Cardinality({k \in Cpus : p \in FreeList(k)})
          + Cardinality({c \in Ctx : p \in InTransit(c)})
          + owners[p] = 1

(* A shard's count is the length of its list, but for the updates of calls *)
(* that have changed the list and not yet the count (and every variable    *)
(* has its type).                                                          *)
Owing(k, pcs) == {c \in Ctx : pc[c] \in pcs /\ CpuOf[c] = k}
CountExact ==
    TypeOK /\ \A k \in Cpus :
        count[k] = Cardinality(FreeList(k))
                   + Cardinality(Owing(k, {"alloc_load", "alloc_store"}))
                   - Cardinality(Owing(k, {"free_load", "free_store"}))
                   + Cardinality({c \in Ctx : pc[c] = "steal_count" /\ victim[c] = k})

(* A compare-and-swap that can succeed installs the victim's second page.  *)
StealSound ==
    \A c \in Ctx : pc[c] = "steal_cas" /\ head[victim[c]] = page[c] => next[c] = link[page[c]]

(* The allocator implements a pool of pages: alloc returns a page nobody   *)
(* holds.                                                                  *)
Pool == INSTANCE AllocPool WITH Addrs <- Pages, Slots <- Pages, uses <- owners
ImplementsPool == Pool!PoolSpec

(* pmm.salt on two cores that race on one list: "Only atomic CAS on the    *)
(* victim's head pointer ensures correctness".                             *)
NoDoubleAllocation == \A p \in Pages : owners[p] <= 1
=============================================================================
