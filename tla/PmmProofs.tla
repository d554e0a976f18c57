------------------------------- MODULE PmmProofs ------------------------------
(***************************************************************************)
(* Proofs about Pmm, for any number of pages, shards, contexts and any     *)
(* threshold, as long as every context that calls the allocator runs on    *)
(* one core, as in the kernel as it is: its contexts interrupt one another *)
(* and steal, one thief racing another, from the shards of idle cores.     *)
(***************************************************************************)
EXTENDS Pmm, CommonLemmas, FiniteSetTheorems, TLAPS

OneCore == \A c, d \in Ctx : CpuOf[c] = CpuOf[d]

-----------------------------------------------------------------------------
(* The inductive invariant.  It says where each page is: kind[p] tells     *)
(* whether p is on a list, inside a call or with a caller, at[p] which     *)
(* list or whose call, depth[p] how many pages of the list p begins, and   *)
(* len[k] is the length of list k.                                         *)

Transit == {"alloc_load", "alloc_store", "steal_count", "free_link", "free_head"}
Stealing == {"steal_head", "steal_next", "steal_cas", "steal_count"}

Types ==
    /\ head   \in [Cpus -> Ptrs]
    /\ count  \in [Cpus -> Int]
    /\ link   \in [Pages -> Ptrs]
    /\ pc     \in [Ctx -> PCs]
    /\ page   \in [Ctx -> Ptrs]
    /\ next   \in [Ctx -> Ptrs]
    /\ cnt    \in [Ctx -> Int]
    /\ victim \in [Ctx -> 0 .. NUM_CPUS]
    /\ owners \in [Pages -> Nat]

\* CLI: one context at a time has interrupts disabled.
CliOne == \A c, d \in Ctx : pc[c] \in CliPCs /\ pc[d] \in CliPCs => c = d

\* What the locals of a call in progress say about the shards.
Locals ==
    \A c \in Ctx :
        /\ pc[c] \notin {"idle", "scan", "steal_head"} => page[c] \in Pages
        /\ pc[c] \in {"alloc_next", "alloc_head"} => page[c] = head[CpuOf[c]]
        /\ pc[c] = "alloc_head" => next[c] = link[page[c]]
        /\ pc[c] = "free_link" => next[c] = head[CpuOf[c]]
        /\ pc[c] = "free_head" => link[page[c]] = head[CpuOf[c]]
        /\ pc[c] \in Stealing => victim[c] \in Cpus /\ victim[c] # CpuOf[c]
        /\ pc[c] = "steal_cas" /\ head[victim[c]] = page[c] => next[c] = link[page[c]]

OnShard(kind, at, p, k) == kind[p] = "shard" /\ at[p] = k

\* Each shard is a list of len pages, numbered from its end.
Lists(kind, at, depth, len) ==
    /\ \A p \in Pages : kind[p] = "shard" => at[p] \in Cpus /\ depth[p] \in 1 .. len[at[p]]
    /\ \A p, q \in Pages : kind[p] = "shard" /\ OnShard(kind, at, q, at[p])
                              /\ depth[p] = depth[q] => p = q
    /\ \A k \in Cpus : len[k] = 0 => head[k] = NULL
    /\ \A k \in Cpus : len[k] > 0 => /\ head[k] \in Pages
                                     /\ OnShard(kind, at, head[k], k)
                                     /\ depth[head[k]] = len[k]
    /\ \A p \in Pages : kind[p] = "shard" /\ depth[p] = 1 => link[p] = NULL
    /\ \A p \in Pages : kind[p] = "shard" /\ depth[p] > 1 =>
                            /\ link[p] \in Pages
                            /\ OnShard(kind, at, link[p], at[p])
                            /\ depth[link[p]] = depth[p] - 1

\* Which pages are inside a call, and which with a caller.
Holders(kind, at) ==
    /\ \A c \in Ctx : pc[c] \in Transit => kind[page[c]] = "call" /\ at[page[c]] = c
    /\ \A p \in Pages : kind[p] = "call" => /\ at[p] \in Ctx
                                            /\ pc[at[p]] \in Transit
                                            /\ page[at[p]] = p
    /\ \A p \in Pages : owners[p] = IF kind[p] = "user" THEN 1 ELSE 0

\* A page once seen at the head of a victim's list is there still or gone.
Stale(kind, at) ==
    \A c \in Ctx : pc[c] \in {"steal_next", "steal_cas"} /\ OnShard(kind, at, page[c], victim[c])
                        => head[victim[c]] = page[c]

Thieves(k) == {c \in Ctx : pc[c] = "steal_count" /\ victim[c] = k}
InCount    == {"alloc_load", "alloc_store", "free_load", "free_store"}

\* The own shard's count lags behind its list inside a call, another shard's
\* behind the thieves that took a page.
OwnCount(len) ==
    \A c \in Ctx :
        /\ pc[c] \in {"alloc_load", "alloc_store"} => count[CpuOf[c]] = len[CpuOf[c]] + 1
        /\ pc[c] \in {"free_load", "free_store"} => count[CpuOf[c]] = len[CpuOf[c]] - 1
        /\ pc[c] \in {"alloc_store", "free_store"} => cnt[c] = count[CpuOf[c]]
        /\ (\A d \in Ctx : pc[d] \notin InCount) => count[CpuOf[c]] = len[CpuOf[c]]
OtherCount(len) ==
    \A k \in Cpus : (\A c \in Ctx : CpuOf[c] # k)
                        => count[k] = len[k] + Cardinality(Thieves(k))
Counts(len) == OwnCount(len) /\ OtherCount(len)

Inv(kind, at, depth, len) ==
    /\ Lists(kind, at, depth, len)
    /\ Holders(kind, at)
    /\ Stale(kind, at)
    /\ Counts(len)

Kinds == {"shard", "call", "user"}
Full(kind, at, depth, len) ==
    /\ kind \in [Pages -> Kinds]
    /\ at \in [Pages -> Cpus \cup Ctx]
    /\ depth \in [Pages -> Nat]
    /\ len \in [Cpus -> Nat]
    /\ Inv(kind, at, depth, len)

IInv == Types /\ CliOne /\ Locals /\ \E kind, at, depth, len : Full(kind, at, depth, len)

\* Counts and what calls loaded of them are never negative.
Natural == count \in [Cpus -> Nat] /\ cnt \in [Ctx -> Nat]

-----------------------------------------------------------------------------
(* Types, mutual exclusion and the locals. *)

LEMMA CpuFacts ==
  /\ NUM_CPUS \in Nat /\ NUM_PAGES \in Nat /\ NULL \notin Pages
  /\ \A c \in Ctx : CpuOf[c] \in Cpus
  BY CpuAssumption, PageAssumption, NullAssumption, CpuOfAssumption DEF Cpus, Pages

LEMMA TypesNext == ASSUME Types, Locals, Next PROVE Types'
  <1> USE DEF Types, Goto, shards, locals
  <1> USE CpuFacts DEF PCs, CliPCs, Ptrs
  <1>1. ASSUME NEW c \in Ctx, alloc(c) PROVE Types'
    <2>1. CASE AllocEmpty(c) \/ AllocReadHead(c) \/ AllocReadNext(c)
      BY <2>1 DEF AllocEmpty, AllocReadHead, AllocReadNext, Locals
    <2>2. CASE AllocSetHead(c) \/ AllocLoadCount(c)
      BY <2>2 DEF AllocSetHead, AllocLoadCount
    <2>3. CASE AllocStoreCount(c)
      <3>1. page[c] \in Pages
        BY <2>3 DEF AllocStoreCount, Locals
      <3> QED  BY <2>3, <3>1 DEF AllocStoreCount, Grant, Return
    <2> QED  BY <1>1, <2>1, <2>2, <2>3 DEF alloc
  <1>2. ASSUME NEW c \in Ctx, free(c) PROVE Types'
    <2>1. ASSUME NEW p \in Pages, FreeReadHead(c, p) PROVE Types'
      BY <2>1 DEF FreeReadHead
    <2>2. CASE FreeSetLink(c) \/ FreeSetHead(c) \/ FreeLoadCount(c)
      BY <2>2 DEF FreeSetLink, FreeSetHead, FreeLoadCount
    <2>3. CASE FreeStoreCount(c)
      BY <2>3 DEF FreeStoreCount, Return
    <2> QED  BY <1>2, <2>1, <2>2, <2>3 DEF free
  <1>3. ASSUME NEW c \in Ctx, steal_from_remote(c) PROVE Types'
    <2>1. CASE StealFail(c)
      BY <2>1 DEF StealFail, Return
    <2>v. ASSUME victim[c] < NUM_CPUS, NextVictim(c) PROVE victim' \in [Ctx -> 0 .. NUM_CPUS]
      BY <2>v DEF NextVictim
    <2>2. CASE StealSkip(c) \/ StealPick(c)
      BY <2>2, <2>v DEF StealSkip, StealPick
    <2>3. CASE StealNoHead(c) \/ StealReadHead(c)
      <3>1. victim[c] \in Cpus
        BY <2>3 DEF StealNoHead, StealReadHead, Locals, Stealing
      <3>2. victim[c] < NUM_CPUS
        BY <3>1 DEF Cpus
      <3> QED  BY <2>3, <2>v, <3>1, <3>2 DEF StealNoHead, StealReadHead
    <2>4. CASE StealReadNext(c) \/ StealCas(c)
      BY <2>4 DEF StealReadNext, StealCas, Locals
    <2>5. CASE StealLost(c)
      <3>1. victim[c] < NUM_CPUS
        BY <2>5 DEF StealLost, Cpus, Locals, Stealing
      <3> QED  BY <2>5, <2>v, <3>1 DEF StealLost
    <2>6. CASE StealCount(c)
      <3>1. page[c] \in Pages
        BY <2>6 DEF StealCount, Locals
      <3>2. victim[c] \in Cpus
        BY <2>6 DEF StealCount, Locals, Stealing
      <3> QED  BY <2>6, <3>1, <3>2 DEF StealCount, Grant, Return
    <2> QED  BY <1>3, <2>1, <2>2, <2>3, <2>4, <2>5, <2>6 DEF steal_from_remote
  <1>4. ASSUME NEW p \in Pages, NEW w \in Ptrs, WriteWord(p, w) PROVE Types'
    BY <1>4 DEF WriteWord
  <1> QED  BY <1>1, <1>2, <1>3, <1>4 DEF Next

\* While a context runs, no other one of its core is between CLI and STI.
LEMMA Alone ==
  ASSUME OneCore, NEW c \in Ctx, Runs(c)
  PROVE  \A d \in Ctx : d # c => pc[d] \notin CliPCs
  BY DEF OneCore, Runs

LEMMA StepCli ==
  ASSUME OneCore, Types, CliOne, NEW c \in Ctx, NEW x, Runs(c), pc' = [pc EXCEPT ![c] = x]
  PROVE  CliOne'
  BY Alone DEF CliOne, Types

LEMMA StepShape ==
  ASSUME NEW c \in Ctx, alloc(c) \/ free(c) \/ steal_from_remote(c)
  PROVE  Runs(c) /\ \E x : pc' = [pc EXCEPT ![c] = x]
  BY DEF alloc, free, steal_from_remote, AllocEmpty, AllocReadHead, AllocReadNext, AllocSetHead,
         AllocLoadCount, AllocStoreCount, FreeReadHead, FreeSetLink, FreeSetHead, FreeLoadCount,
         FreeStoreCount, StealFail, StealSkip, StealPick, StealNoHead, StealReadHead,
         StealReadNext, StealCas, StealLost, StealCount, Goto

LEMMA CliNext == ASSUME OneCore, Types, CliOne, Next PROVE CliOne'
  <1>1. ASSUME NEW c \in Ctx, alloc(c) \/ free(c) \/ steal_from_remote(c) PROVE CliOne'
    <2>1. Runs(c)
      BY <1>1, StepShape
    <2>2. PICK x : pc' = [pc EXCEPT ![c] = x]
      BY <1>1, StepShape
    <2> QED  BY <2>1, <2>2, StepCli
  <1>2. ASSUME NEW p \in Pages, NEW w \in Ptrs, WriteWord(p, w) PROVE CliOne'
    BY <1>2 DEF WriteWord, CliOne
  <1> QED  BY <1>1, <1>2 DEF Next

LEMMA HeadFacts ==
  ASSUME Types, NEW kind, NEW at, NEW depth, NEW len, Full(kind, at, depth, len),
         NEW k \in Cpus, head[k] # NULL
  PROVE  /\ head[k] \in Pages /\ OnShard(kind, at, head[k], k)
         /\ depth[head[k]] = len[k] /\ len[k] > 0
  BY DEF Types, Full, Inv, Lists

\* Steps that leave the lists alone.
LEMMA LocalsQuiet ==
  ASSUME OneCore, Types, Locals, NEW c \in Ctx,
         \/ AllocEmpty(c) \/ AllocReadHead(c) \/ AllocReadNext(c)
         \/ AllocLoadCount(c) \/ AllocStoreCount(c)
         \/ \E p \in Pages : FreeReadHead(c, p)
         \/ FreeLoadCount(c) \/ FreeStoreCount(c)
         \/ StealFail(c) \/ StealSkip(c) \/ StealPick(c) \/ StealNoHead(c)
         \/ StealReadHead(c) \/ StealReadNext(c) \/ StealLost(c) \/ StealCount(c)
  PROVE  Locals'
  <1> USE DEF Goto, shards, locals, Stealing
  <1> USE CpuFacts DEF Types, Locals, Ptrs
  <1>1. CASE AllocEmpty(c) \/ AllocReadHead(c) \/ AllocReadNext(c) \/ AllocLoadCount(c)
    BY <1>1 DEF AllocEmpty, AllocReadHead, AllocReadNext, AllocLoadCount
  <1>2. CASE AllocStoreCount(c) \/ FreeStoreCount(c) \/ StealFail(c) \/ StealCount(c)
    BY <1>2 DEF AllocStoreCount, FreeStoreCount, StealFail, StealCount, Return
  <1>3. CASE FreeLoadCount(c) \/ \E p \in Pages : FreeReadHead(c, p)
    BY <1>3 DEF FreeLoadCount, FreeReadHead
  <1>4. CASE StealSkip(c) \/ StealNoHead(c)
    BY <1>4 DEF StealSkip, StealNoHead, NextVictim
  <1>6. CASE StealPick(c)
    <2>1. victim[c] \in Cpus
      BY <1>6 DEF StealPick, Cpus
    <2> QED  BY <1>6, <2>1 DEF StealPick
  <1>5. CASE StealReadHead(c) \/ StealReadNext(c) \/ StealLost(c)
    BY <1>5 DEF StealReadHead, StealReadNext, StealLost, NextVictim
  <1> QED  BY <1>1, <1>2, <1>3, <1>4, <1>5, <1>6

\* The own list changes while nobody else is between CLI and STI, and no
\* thief has it as its victim.
LEMMA LocalsOwn ==
  ASSUME OneCore, Types, Locals, NEW c \in Ctx, AllocSetHead(c) \/ FreeSetHead(c)
  PROVE  Locals'
  <1>1. \A d \in Ctx : d # c => pc[d] \notin CliPCs
    BY Alone DEF AllocSetHead, FreeSetHead, Goto
  <1>2. \A d \in Ctx : CpuOf[d] = CpuOf[c] /\ CpuOf[d] \in Cpus
    BY CpuFacts DEF OneCore
  <1> USE DEF Goto, locals, Types, Locals, Stealing
  <1>3. CASE AllocSetHead(c)
    BY <1>1, <1>2, <1>3 DEF AllocSetHead, CliPCs
  <1>4. CASE FreeSetHead(c)
    BY <1>1, <1>2, <1>4 DEF FreeSetHead, CliPCs
  <1> QED  BY <1>3, <1>4

\* The first word of a page that is on no list may change.
LEMMA LocalsLink ==
  ASSUME Types, Locals, NEW kind, NEW at, NEW depth, NEW len, Full(kind, at, depth, len),
         NEW p \in Pages, kind[p] # "shard", NEW w, link' = [link EXCEPT ![p] = w],
         head' = head, NEW d \in Ctx, pc[d] = "steal_cas", head[victim[d]] = page[d],
         page' = page, victim' = victim, next' = next
  PROVE  next'[d] = link'[page'[d]]
  <1>1. page[d] \in Pages /\ victim[d] \in Cpus /\ next[d] = link[page[d]]
    BY DEF Locals, Stealing
  <1>2. kind[page[d]] = "shard"
    BY <1>1, HeadFacts, CpuFacts DEF OnShard
  <1> QED  BY <1>1, <1>2 DEF Types

LEMMA LocalsFreeSetLink ==
  ASSUME OneCore, Types, Locals, NEW kind, NEW at, NEW depth, NEW len, Full(kind, at, depth, len),
         NEW c \in Ctx, FreeSetLink(c)
  PROVE  Locals'
  <1>1. \A d \in Ctx : d # c => pc[d] \notin CliPCs
    BY Alone DEF FreeSetLink, Goto
  <1>2. page[c] \in Pages /\ kind[page[c]] = "call" /\ next[c] = head[CpuOf[c]]
    BY DEF FreeSetLink, Goto, Locals, Full, Inv, Holders, Transit
  <1>3. \A d \in Ctx : pc[d] = "steal_cas" /\ head[victim[d]] = page[d] => next'[d] = link'[page'[d]]
    BY <1>2, LocalsLink DEF FreeSetLink, shards, locals
  <1>4. page' = page /\ victim' = victim /\ next' = next /\ head' = head
    BY DEF FreeSetLink, shards, locals
  <1>5. pc' = [pc EXCEPT ![c] = "free_head"] /\ link'[page[c]] = next[c]
    BY <1>2 DEF FreeSetLink, Goto, Types
  <1>6. pc'[c] = "free_head" /\ \A d \in Ctx : d # c => pc'[d] = pc[d]
    BY <1>5 DEF Types
  <1>7. \A d \in Ctx : d # c => pc[d] \notin {"alloc_next", "alloc_head", "free_link", "free_head"}
    BY <1>1 DEF CliPCs
  <1>8. pc'[c] \notin {"alloc_next", "alloc_head", "free_link", "steal_cas"} \cup Stealing
    BY <1>6 DEF Stealing
  <1> QED  BY <1>2, <1>3, <1>4, <1>5, <1>6, <1>7, <1>8 DEF Locals

LEMMA LocalsWriteWord ==
  ASSUME Types, Locals, NEW kind, NEW at, NEW depth, NEW len, Full(kind, at, depth, len),
         NEW p \in Pages, NEW w, WriteWord(p, w)
  PROVE  Locals'
  <1>1. kind[p] = "user"
    BY DEF WriteWord, Full, Inv, Holders
  <1>2. \A d \in Ctx : pc[d] = "steal_cas" /\ head[victim[d]] = page[d] => next'[d] = link'[page'[d]]
    BY <1>1, LocalsLink DEF WriteWord, shards, locals
  <1>3. ASSUME NEW d \in Ctx, pc[d] = "alloc_head" PROVE page[d] # p
    <2>1. page[d] \in Pages /\ page[d] = head[CpuOf[d]]
      BY <1>3 DEF Locals
    <2> QED  BY <1>1, <2>1, HeadFacts, CpuFacts DEF OnShard
  <1>4. ASSUME NEW d \in Ctx, pc[d] = "free_head" PROVE page[d] # p
    BY <1>1, <1>4 DEF Full, Inv, Holders, Transit
  <1> QED  BY <1>2, <1>3, <1>4 DEF WriteWord, shards, locals, Locals, Types

LEMMA LocalsStealCas ==
  ASSUME OneCore, Types, Locals, NEW kind, NEW at, NEW depth, NEW len, Full(kind, at, depth, len),
         NEW c \in Ctx, StealCas(c)
  PROVE  Locals'
  <1> DEFINE v == victim[c]
  <1>1. /\ pc[c] = "steal_cas" /\ v \in Cpus /\ v # CpuOf[c] /\ page[c] \in Pages
        /\ head[v] = page[c] /\ next[c] = link[page[c]]
    BY DEF StealCas, Goto, Locals, Stealing
  <1>2. OnShard(kind, at, page[c], v) /\ depth[page[c]] = len[v] /\ len[v] \in Nat \ {0}
    BY <1>1, HeadFacts, CpuFacts DEF Full
  <1>3. next[c] # NULL => OnShard(kind, at, next[c], v) /\ next[c] # page[c]
    BY <1>1, <1>2 DEF Full, Inv, Lists, OnShard
  <1>4. head' = [head EXCEPT ![v] = next[c]] /\ pc' = [pc EXCEPT ![c] = "steal_count"]
    BY DEF StealCas, Goto
  <1>5. page' = page /\ victim' = victim /\ next' = next /\ link' = link
    BY DEF StealCas, locals
  <1> HIDE DEF v
  <1>6. ASSUME NEW d \in Ctx, pc'[d] = "steal_cas", head'[victim[d]] = page[d]
        PROVE  next[d] = link[page[d]]
    <2>1. d # c /\ pc[d] = "steal_cas" /\ page[d] \in Pages /\ victim[d] \in Cpus
      BY <1>4, <1>6 DEF Types, Locals, Stealing
    <2>2. victim[d] # v
      <3> SUFFICES ASSUME victim[d] = v PROVE FALSE
        OBVIOUS
      <3>1. next[c] = page[d] /\ next[c] # NULL
        BY <1>1, <1>4, <1>6, <2>1, CpuFacts DEF Types
      <3>2. head[v] = page[d]
        BY <1>3, <2>1, <3>1 DEF Full, Inv, Stale
      <3> QED  BY <1>1, <1>3, <3>1, <3>2
    <2> QED  BY <1>4, <1>6, <2>1, <2>2 DEF Locals, Types
  <1>7. \A d \in Ctx : head'[CpuOf[d]] = head[CpuOf[d]]
    BY <1>1, <1>4, CpuFacts DEF OneCore, Types
  <1> QED  BY <1>1, <1>4, <1>5, <1>6, <1>7 DEF Locals, Types, Stealing

LEMMA LocalsNext ==
  ASSUME OneCore, Types, Locals, NEW kind, NEW at, NEW depth, NEW len, Full(kind, at, depth, len), Next
  PROVE  Locals'
  <1>1. ASSUME NEW c \in Ctx, alloc(c) \/ free(c) \/ steal_from_remote(c) PROVE Locals'
    BY <1>1, LocalsQuiet, LocalsOwn, LocalsFreeSetLink, LocalsStealCas
       DEF alloc, free, steal_from_remote
  <1> QED  BY <1>1, LocalsWriteWord DEF Next

-----------------------------------------------------------------------------
(* Where the pages are.  First the steps that move no page. *)

ReadStep(c) ==
    \/ AllocEmpty(c) \/ AllocReadHead(c) \/ AllocReadNext(c) \/ AllocLoadCount(c)
    \/ FreeLoadCount(c)
    \/ StealFail(c) \/ StealSkip(c) \/ StealPick(c) \/ StealNoHead(c)
    \/ StealReadHead(c) \/ StealReadNext(c) \/ StealLost(c)

LEMMA ThievesKept ==
  ASSUME Types, NEW c \in Ctx, NEW x, pc' = [pc EXCEPT ![c] = x],
         pc[c] # "steal_count", x # "steal_count",
         \A d \in Ctx : d # c => victim'[d] = victim[d]
  PROVE  \A k \in Cpus : Thieves(k)' = Thieves(k)
  BY DEF Thieves, Types

LEMMA ReadHolders ==
  ASSUME Types, Locals, NEW kind, NEW at, Holders(kind, at), NEW c \in Ctx, ReadStep(c)
  PROVE  Holders(kind, at)'
  <1>1. owners' = owners
    BY DEF ReadStep, AllocEmpty, AllocReadHead, AllocReadNext, AllocLoadCount, FreeLoadCount,
           StealFail, StealSkip, StealPick, StealNoHead, StealReadHead, StealReadNext, StealLost
  <1>2. \A d \in Ctx : pc'[d] \in Transit <=> pc[d] \in Transit
    BY DEF ReadStep, AllocEmpty, AllocReadHead, AllocReadNext, AllocLoadCount, FreeLoadCount,
           StealFail, StealSkip, StealPick, StealNoHead, StealReadHead, StealReadNext, StealLost,
           Goto, Types, Transit
  <1>3. \A d \in Ctx : pc[d] \in Transit => page'[d] = page[d]
    BY DEF ReadStep, AllocEmpty, AllocReadHead, AllocReadNext, AllocLoadCount, FreeLoadCount,
           StealFail, StealSkip, StealPick, StealNoHead, StealReadHead, StealReadNext, StealLost,
           Goto, Types, Transit, Return, locals
  <1> QED  BY <1>1, <1>2, <1>3 DEF Holders

LEMMA ReadStale ==
  ASSUME Types, NEW kind, NEW at, Stale(kind, at), NEW c \in Ctx, ReadStep(c)
  PROVE  Stale(kind, at)'
  <1> USE DEF Goto, shards, locals, Types, Stale
  <1>1. CASE AllocEmpty(c) \/ AllocReadHead(c) \/ AllocReadNext(c) \/ AllocLoadCount(c) \/ FreeLoadCount(c)
    BY <1>1 DEF AllocEmpty, AllocReadHead, AllocReadNext, AllocLoadCount, FreeLoadCount
  <1>2. CASE StealFail(c) \/ StealSkip(c) \/ StealPick(c) \/ StealNoHead(c) \/ StealLost(c)
    BY <1>2 DEF StealFail, StealSkip, StealPick, StealNoHead, StealLost, NextVictim, Return
  <1>3. CASE StealReadHead(c) \/ StealReadNext(c)
    BY <1>3 DEF StealReadHead, StealReadNext
  <1> QED  BY <1>1, <1>2, <1>3 DEF ReadStep

LEMMA ReadCounts ==
  ASSUME Types, NEW len, Counts(len), NEW c \in Ctx, ReadStep(c)
  PROVE  Counts(len)'
  <1> USE DEF Goto, shards, locals, Types
  <1>1. count' = count
    BY DEF ReadStep, AllocEmpty, AllocReadHead, AllocReadNext, AllocLoadCount, FreeLoadCount,
           StealFail, StealSkip, StealPick, StealNoHead, StealReadHead, StealReadNext, StealLost
  <1>2. OwnCount(len)'
    <2> USE DEF Counts, OwnCount, InCount
    <2>1. CASE AllocEmpty(c) \/ AllocReadHead(c) \/ AllocReadNext(c)
      BY <2>1 DEF AllocEmpty, AllocReadHead, AllocReadNext
    <2>2. CASE AllocLoadCount(c)
      BY <2>2 DEF AllocLoadCount
    <2>3. CASE FreeLoadCount(c)
      BY <2>3 DEF FreeLoadCount
    <2>4. CASE StealFail(c) \/ StealSkip(c) \/ StealPick(c) \/ StealNoHead(c)
      BY <2>4 DEF StealFail, StealSkip, StealPick, StealNoHead, NextVictim, Return
    <2>5. CASE StealReadHead(c) \/ StealReadNext(c) \/ StealLost(c)
      BY <2>5 DEF StealReadHead, StealReadNext, StealLost, NextVictim
    <2> QED  BY <2>1, <2>2, <2>3, <2>4, <2>5 DEF ReadStep
  <1>3. \A d \in Ctx : d # c => victim'[d] = victim[d]
    BY DEF ReadStep, AllocEmpty, AllocReadHead, AllocReadNext, AllocLoadCount, FreeLoadCount,
           StealFail, StealSkip, StealPick, StealNoHead, StealReadHead, StealReadNext, StealLost,
           NextVictim, Return
  <1>4. pc[c] # "steal_count" /\ \E x : x # "steal_count" /\ pc' = [pc EXCEPT ![c] = x]
    BY DEF ReadStep, AllocEmpty, AllocReadHead, AllocReadNext, AllocLoadCount, FreeLoadCount,
           StealFail, StealSkip, StealPick, StealNoHead, StealReadHead, StealReadNext, StealLost
  <1>5. \A k \in Cpus : Thieves(k)' = Thieves(k)
    BY <1>3, <1>4, ThievesKept
  <1> QED  BY <1>1, <1>2, <1>5 DEF Counts, OtherCount

LEMMA ReadFull ==
  ASSUME Types, Locals, NEW kind, NEW at, NEW depth, NEW len, Full(kind, at, depth, len),
         NEW c \in Ctx, ReadStep(c)
  PROVE  Full(kind, at, depth, len)'
  <1>1. head' = head /\ link' = link
    BY DEF ReadStep, AllocEmpty, AllocReadHead, AllocReadNext, AllocLoadCount, FreeLoadCount,
           StealFail, StealSkip, StealPick, StealNoHead, StealReadHead, StealReadNext, StealLost, shards
  <1>2. Lists(kind, at, depth, len)'
    BY <1>1 DEF Full, Inv, Lists
  <1> QED  BY <1>2, ReadHolders, ReadStale, ReadCounts DEF Full, Inv

LEMMA FreeStoreCountFull ==
  ASSUME OneCore, Types, CliOne, NEW kind, NEW at, NEW depth, NEW len, Full(kind, at, depth, len),
         NEW c \in Ctx, FreeStoreCount(c)
  PROVE  Full(kind, at, depth, len)'
  <1>1. \A d \in Ctx : CpuOf[d] = CpuOf[c] /\ CpuOf[d] \in Cpus
    BY CpuFacts DEF OneCore
  <1>2. \A d \in Ctx : d # c => pc[d] \notin CliPCs
    BY Alone DEF FreeStoreCount, Goto
  <1>3. /\ pc[c] = "free_store" /\ pc' = [pc EXCEPT ![c] = "idle"]
        /\ count' = [count EXCEPT ![CpuOf[c]] = cnt[c] + 1]
        /\ head' = head /\ link' = link /\ owners' = owners
        /\ \A d \in Ctx : d # c => page'[d] = page[d] /\ victim'[d] = victim[d]
    BY DEF FreeStoreCount, Goto, Return, Types
  <1>4. Lists(kind, at, depth, len)'
    BY <1>3 DEF Full, Inv, Lists
  <1>5. Holders(kind, at)' /\ Stale(kind, at)'
    BY <1>3 DEF Full, Inv, Holders, Stale, Transit, Types
  <1>6. count'[CpuOf[c]] = len[CpuOf[c]]
    <2>1. cnt[c] = len[CpuOf[c]] - 1 /\ len[CpuOf[c]] \in Nat
      BY <1>1, <1>3 DEF Full, Inv, Counts, OwnCount
    <2> QED  BY <1>1, <1>3, <2>1 DEF Types
  <1>7. \A d \in Ctx : pc'[d] \notin InCount
    BY <1>2, <1>3 DEF Types, InCount, CliPCs
  <1>8. OwnCount(len)'
    BY <1>1, <1>6, <1>7 DEF OwnCount, InCount
  <1>9. OtherCount(len)'
    <2>1. \A k \in Cpus : Thieves(k)' = Thieves(k)
      BY <1>3, ThievesKept
    <2> QED  BY <1>3, <2>1 DEF Full, Inv, Counts, OtherCount, Types
  <1> QED  BY <1>4, <1>5, <1>8, <1>9 DEF Full, Inv, Counts

\* The first word of a page on no list may change (FreeSetLink, WriteWord).
LEMMA ListsLink ==
  ASSUME Types, NEW kind, NEW at, NEW depth, NEW len, Lists(kind, at, depth, len),
         NEW p \in Pages, kind[p] # "shard", NEW w, link' = [link EXCEPT ![p] = w], head' = head
  PROVE  Lists(kind, at, depth, len)'
  BY DEF Types, Lists

LEMMA FreeSetLinkFull ==
  ASSUME Types, Locals, NEW kind, NEW at, NEW depth, NEW len, Full(kind, at, depth, len),
         NEW c \in Ctx, FreeSetLink(c)
  PROVE  Full(kind, at, depth, len)'
  <1>1. page[c] \in Pages /\ kind[page[c]] # "shard"
    BY DEF FreeSetLink, Goto, Locals, Full, Inv, Holders, Transit
  <1>2. /\ pc[c] = "free_link" /\ pc' = [pc EXCEPT ![c] = "free_head"]
        /\ head' = head /\ count' = count /\ owners' = owners
        /\ page' = page /\ victim' = victim /\ cnt' = cnt
    BY DEF FreeSetLink, Goto, shards, locals
  <1>3. Lists(kind, at, depth, len)'
    BY <1>1, <1>2, ListsLink DEF FreeSetLink, Full, Inv
  <1>4. Holders(kind, at)' /\ Stale(kind, at)'
    BY <1>2 DEF Full, Inv, Holders, Stale, Transit, Types
  <1>5. OwnCount(len)'
    BY <1>2 DEF Full, Inv, Counts, OwnCount, InCount, Types
  <1>6. OtherCount(len)'
    <2>1. \A k \in Cpus : Thieves(k)' = Thieves(k)
      BY <1>2, ThievesKept
    <2> QED  BY <1>2, <2>1 DEF Full, Inv, Counts, OtherCount
  <1> QED  BY <1>3, <1>4, <1>5, <1>6 DEF Full, Inv, Counts

LEMMA WriteWordFull ==
  ASSUME Types, NEW kind, NEW at, NEW depth, NEW len, Full(kind, at, depth, len),
         NEW p \in Pages, NEW w, WriteWord(p, w)
  PROVE  Full(kind, at, depth, len)'
  <1>1. kind[p] # "shard"
    BY DEF WriteWord, Full, Inv, Holders
  <1>2. Lists(kind, at, depth, len)'
    BY <1>1, ListsLink DEF WriteWord, Full, Inv, shards
  <1>3. Holders(kind, at)' /\ Stale(kind, at)' /\ Counts(len)'
    BY DEF WriteWord, shards, locals, Full, Inv, Holders, Stale, Counts, OwnCount, OtherCount, Thieves
  <1> QED  BY <1>2, <1>3 DEF Full, Inv

-----------------------------------------------------------------------------
(* The steps that move a page between a caller and a call. *)

LEMMA ListsRelabel ==
  ASSUME NEW kind, NEW at, NEW depth, NEW len, Full(kind, at, depth, len), NEW kind1, NEW at1,
         NEW p \in Pages, kind[p] # "shard", NEW x \in {"call", "user"}, NEW y,
         kind1 = [kind EXCEPT ![p] = x], at1 = [at EXCEPT ![p] = y], head' = head, link' = link
  PROVE  Lists(kind1, at1, depth, len)'
  <1>1. \A q \in Pages : q # p => kind1[q] = kind[q] /\ at1[q] = at[q]
    BY DEF Full
  <1>2. kind1[p] # "shard"
    BY DEF Full
  <1>3. \A q \in Pages : kind1[q] = "shard" <=> kind[q] = "shard" /\ q # p
    BY <1>1, <1>2
  <1>4. \A q \in Pages : kind[q] = "shard" => q # p
    OBVIOUS
  <1> QED  BY <1>1, <1>2, <1>3, <1>4 DEF Full, Inv, Lists, OnShard

LEMMA FreeReadHeadFull ==
  ASSUME Types, CliOne, NEW kind, NEW at, NEW depth, NEW len, Full(kind, at, depth, len),
         NEW c \in Ctx, NEW p \in Pages, FreeReadHead(c, p)
  PROVE  \E kind1, at1 : Full(kind1, at1, depth, len)'
  <1>1. PICK kind1, at1 : kind1 = [kind EXCEPT ![p] = "call"] /\ at1 = [at EXCEPT ![p] = c]
    OBVIOUS
  <1>2. kind[p] = "user"
    BY DEF FreeReadHead, Full, Inv, Holders
  <1>3. kind1 \in [Pages -> Kinds] /\ at1 \in [Pages -> Cpus \cup Ctx]
    BY <1>1 DEF Full, Kinds
  <1>4. /\ pc[c] = "idle" /\ pc' = [pc EXCEPT ![c] = "free_link"]
        /\ head' = head /\ count' = count /\ link' = link /\ victim' = victim /\ cnt' = cnt
        /\ owners' = [owners EXCEPT ![p] = owners[p] - 1]
        /\ page' = [page EXCEPT ![c] = p]
    BY DEF FreeReadHead, Goto, shards
  <1>5. Lists(kind1, at1, depth, len)'
    BY <1>1, <1>2, <1>4, ListsRelabel
  <1>6. Holders(kind1, at1)'
    BY <1>1, <1>2, <1>4 DEF Full, Inv, Holders, Transit, Types
  <1>7. Stale(kind1, at1)'
    BY <1>1, <1>2, <1>4 DEF Full, Inv, Stale, OnShard, Types
  <1>8. OwnCount(len)'
    BY <1>4 DEF Full, Inv, Counts, OwnCount, InCount, Types
  <1>9. OtherCount(len)'
    <2>1. \A k \in Cpus : Thieves(k)' = Thieves(k)
      BY <1>4, ThievesKept
    <2> QED  BY <1>4, <2>1 DEF Full, Inv, Counts, OtherCount
  <1>10. Full(kind1, at1, depth, len)'
    BY <1>3, <1>5, <1>6, <1>7, <1>8, <1>9 DEF Full, Inv, Counts
  <1> QED  BY <1>10

\* A call returns its page: what both forms of alloc do at their end.
LEMMA GrantHolders ==
  ASSUME Types, Locals, NEW kind, NEW at, NEW depth, NEW len, Full(kind, at, depth, len),
         NEW c \in Ctx, pc[c] \in {"alloc_store", "steal_count"}, pc' = [pc EXCEPT ![c] = "idle"],
         head' = head, link' = link, Grant(page[c]),
         \A d \in Ctx : d # c => page'[d] = page[d] /\ victim'[d] = victim[d]
  PROVE  \E kind1 : /\ kind1 \in [Pages -> Kinds]
                    /\ Lists(kind1, at, depth, len)'
                    /\ Holders(kind1, at)'
                    /\ Stale(kind1, at)'
  <1>1. PICK p \in Pages : p = page[c]
    BY DEF Locals
  <1>2. PICK kind1 : kind1 = [kind EXCEPT ![p] = "user"]
    OBVIOUS
  <1>3. kind[p] = "call" /\ at[p] = c
    BY <1>1 DEF Full, Inv, Holders, Transit
  <1>4. kind1 \in [Pages -> Kinds]
    BY <1>2 DEF Full, Kinds
  <1>5. Lists(kind1, at, depth, len)'
    <2>1. at = [at EXCEPT ![p] = c]
      BY <1>3 DEF Full
    <2> QED  BY <1>2, <1>3, <2>1, ListsRelabel
  <1>6. owners' = [owners EXCEPT ![p] = owners[p] + 1] /\ owners[p] = 0
    BY <1>1, <1>3 DEF Grant, Full, Inv, Holders
  <1>7. Holders(kind1, at)'
    <2>1. ASSUME NEW d \in Ctx, pc'[d] \in Transit PROVE kind1[page'[d]] = "call" /\ at[page'[d]] = d
      <3>1. d # c /\ pc[d] \in Transit /\ page'[d] = page[d]
        BY <2>1 DEF Types, Transit
      <3>2. kind[page[d]] = "call" /\ at[page[d]] = d
        BY <3>1 DEF Full, Inv, Holders
      <3>3. page[d] # p /\ page[d] \in Pages
        BY <1>3, <3>1, <3>2 DEF Locals, Transit
      <3> QED  BY <1>2, <3>1, <3>2, <3>3 DEF Full
    <2>2. ASSUME NEW q \in Pages, kind1[q] = "call"
          PROVE  at[q] \in Ctx /\ pc'[at[q]] \in Transit /\ page'[at[q]] = q
      <3>1. q # p /\ kind[q] = "call"
        BY <1>2, <2>2 DEF Full
      <3>2. at[q] \in Ctx /\ pc[at[q]] \in Transit /\ page[at[q]] = q
        BY <3>1 DEF Full, Inv, Holders
      <3>3. at[q] # c
        BY <1>1, <3>1, <3>2
      <3> QED  BY <3>2, <3>3 DEF Types
    <2>3. \A q \in Pages : owners'[q] = IF kind1[q] = "user" THEN 1 ELSE 0
      BY <1>2, <1>3, <1>6 DEF Full, Inv, Holders, Types
    <2> QED  BY <2>1, <2>2, <2>3 DEF Holders
  <1>8. Stale(kind1, at)'
    BY <1>2, <1>3 DEF Full, Inv, Stale, OnShard, Types
  <1> QED  BY <1>4, <1>5, <1>7, <1>8

LEMMA AllocStoreCountFull ==
  ASSUME OneCore, Types, Locals, NEW kind, NEW at, NEW depth, NEW len, Full(kind, at, depth, len),
         NEW c \in Ctx, AllocStoreCount(c)
  PROVE  \E kind1 : Full(kind1, at, depth, len)'
  <1>1. \A d \in Ctx : CpuOf[d] = CpuOf[c] /\ CpuOf[d] \in Cpus
    BY CpuFacts DEF OneCore
  <1>2. \A d \in Ctx : d # c => pc[d] \notin CliPCs
    BY Alone DEF AllocStoreCount, Goto
  <1>3. /\ pc[c] = "alloc_store" /\ pc' = [pc EXCEPT ![c] = "idle"]
        /\ count' = [count EXCEPT ![CpuOf[c]] = cnt[c] - 1]
        /\ head' = head /\ link' = link /\ Grant(page[c])
        /\ \A d \in Ctx : d # c => page'[d] = page[d] /\ victim'[d] = victim[d]
    BY DEF AllocStoreCount, Goto, Return, Types
  <1>4. PICK kind1 : /\ kind1 \in [Pages -> Kinds]
                     /\ Lists(kind1, at, depth, len)'
                     /\ Holders(kind1, at)'
                     /\ Stale(kind1, at)'
    BY <1>3, GrantHolders
  <1>5. count'[CpuOf[c]] = len[CpuOf[c]]
    <2>1. cnt[c] = len[CpuOf[c]] + 1 /\ len[CpuOf[c]] \in Nat
      BY <1>1, <1>3 DEF Full, Inv, Counts, OwnCount
    <2> QED  BY <1>1, <1>3, <2>1 DEF Types
  <1>6. \A d \in Ctx : pc'[d] \notin InCount
    BY <1>2, <1>3 DEF Types, InCount, CliPCs
  <1>7. OwnCount(len)'
    BY <1>1, <1>5, <1>6 DEF OwnCount, InCount
  <1>8. OtherCount(len)'
    <2>1. \A k \in Cpus : Thieves(k)' = Thieves(k)
      BY <1>3, ThievesKept
    <2> QED  BY <1>3, <2>1 DEF Full, Inv, Counts, OtherCount, Types
  <1> QED  BY <1>4, <1>7, <1>8 DEF Full, Inv, Counts

LEMMA ThievesFinite == \A k \in Cpus : IsFiniteSet(Thieves(k))
  <1>1. \A k \in Cpus : Thieves(k) \subseteq Ctx
    BY DEF Thieves
  <1> QED  BY <1>1, CpuOfAssumption, FS_Subset

LEMMA StealCountFull ==
  ASSUME OneCore, Types, Locals, NEW kind, NEW at, NEW depth, NEW len, Full(kind, at, depth, len),
         NEW c \in Ctx, StealCount(c)
  PROVE  \E kind1 : Full(kind1, at, depth, len)'
  <1>1. PICK v \in Cpus : v = victim[c] /\ \A d \in Ctx : CpuOf[d] # v
    BY DEF StealCount, Goto, Locals, Stealing, OneCore
  <1>2. /\ pc[c] = "steal_count" /\ pc' = [pc EXCEPT ![c] = "idle"]
        /\ count' = [count EXCEPT ![v] = count[v] - 1]
        /\ head' = head /\ link' = link /\ Grant(page[c])
        /\ \A d \in Ctx : d # c => page'[d] = page[d] /\ victim'[d] = victim[d] /\ cnt'[d] = cnt[d]
    BY <1>1 DEF StealCount, Goto, Return, Types
  <1>3. PICK kind1 : /\ kind1 \in [Pages -> Kinds]
                     /\ Lists(kind1, at, depth, len)'
                     /\ Holders(kind1, at)'
                     /\ Stale(kind1, at)'
    BY <1>2, GrantHolders
  <1>4. OwnCount(len)'
    <2>1. \A d \in Ctx : count'[CpuOf[d]] = count[CpuOf[d]]
      BY <1>1, <1>2, CpuFacts DEF Types
    <2> QED  BY <1>2, <2>1 DEF Full, Inv, Counts, OwnCount, InCount, Types
  <1>5. OtherCount(len)'
    <2>1. Thieves(v)' = Thieves(v) \ {c} /\ c \in Thieves(v)
      BY <1>1, <1>2 DEF Thieves, Types
    <2>2. Cardinality(Thieves(v)') = Cardinality(Thieves(v)) - 1
      BY <2>1, ThievesFinite, FS_RemoveElement
    <2>3. Cardinality(Thieves(v)) \in Nat
      BY ThievesFinite, FS_CardinalityType
    <2>4. count'[v] = len[v] + Cardinality(Thieves(v)')
      <3>1. count[v] = len[v] + Cardinality(Thieves(v)) /\ len[v] \in Nat
        BY <1>1 DEF Full, Inv, Counts, OtherCount
      <3>2. count'[v] = count[v] - 1
        BY <1>2 DEF Types
      <3> QED  BY <2>2, <2>3, <3>1, <3>2
    <2>5. ASSUME NEW k \in Cpus, k # v PROVE Thieves(k)' = Thieves(k) /\ count'[k] = count[k]
      BY <1>1, <1>2, <2>5 DEF Thieves, Types
    <2> QED  BY <2>4, <2>5 DEF Full, Inv, Counts, OtherCount
  <1> QED  BY <1>3, <1>4, <1>5 DEF Full, Inv, Counts

-----------------------------------------------------------------------------
(* Taking the head of a list: alloc on its own shard, a thief on another. *)

\* Where the pages are after c took p from list k.
PopMap(kind, at, len, p, k, c, kind1, at1, len1) ==
    /\ kind1 = [kind EXCEPT ![p] = "call"]
    /\ at1 = [at EXCEPT ![p] = c]
    /\ len1 = [len EXCEPT ![k] = len[k] - 1]

LEMMA PopLists ==
  ASSUME Types, NEW kind, NEW at, NEW depth, NEW len, Full(kind, at, depth, len),
         NEW k \in Cpus, NEW p \in Pages, head[k] = p, NEW c \in Ctx,
         head' = [head EXCEPT ![k] = link[p]], link' = link,
         NEW kind1, NEW at1, NEW len1, PopMap(kind, at, len, p, k, c, kind1, at1, len1)
  PROVE  /\ Lists(kind1, at1, depth, len1)'
         /\ kind1 \in [Pages -> Kinds] /\ at1 \in [Pages -> Cpus \cup Ctx] /\ len1 \in [Cpus -> Nat]
         /\ OnShard(kind, at, p, k)
  <1>1. kind[p] = "shard" /\ at[p] = k /\ depth[p] = len[k] /\ len[k] \in Nat \ {0}
    BY HeadFacts, CpuFacts DEF OnShard, Full
  <1>2. kind1 \in [Pages -> Kinds] /\ at1 \in [Pages -> Cpus \cup Ctx] /\ len1 \in [Cpus -> Nat]
    BY <1>1 DEF Full, Kinds, PopMap
  <1>3. kind1[p] = "call" /\ \A q \in Pages : q # p => kind1[q] = kind[q] /\ at1[q] = at[q]
    BY DEF Full, PopMap
  <1>4. len1[k] = len[k] - 1 /\ \A j \in Cpus : j # k => len1[j] = len[j] /\ head'[j] = head[j]
    BY DEF Full, Types, PopMap
  <1>5. ASSUME NEW q \in Pages, kind1[q] = "shard"
        PROVE  /\ q # p /\ kind[q] = "shard" /\ at1[q] = at[q] /\ at[q] \in Cpus
               /\ depth[q] \in 1 .. len1[at[q]]
    <2>1. q # p /\ kind[q] = "shard" /\ at1[q] = at[q]
      BY <1>3, <1>5
    <2>2. at[q] \in Cpus /\ depth[q] \in 1 .. len[at[q]]
      BY <2>1 DEF Full, Inv, Lists
    <2>3. at[q] = k => depth[q] # len[k]
      BY <1>1, <2>1 DEF Full, Inv, Lists, OnShard
    <2> QED  BY <1>1, <1>4, <2>1, <2>2, <2>3
  <1>6. \A q, r \in Pages : kind1[q] = "shard" /\ OnShard(kind1, at1, r, at1[q]) /\ depth[q] = depth[r] => q = r
    BY <1>5 DEF Full, Inv, Lists, OnShard
  <1>7. ASSUME NEW q \in Pages, kind1[q] = "shard", depth[q] > 1
        PROVE  link[q] \in Pages /\ OnShard(kind1, at1, link[q], at1[q]) /\ depth[link[q]] = depth[q] - 1
    <2>1. q # p /\ kind[q] = "shard" /\ at1[q] = at[q] /\ at[q] \in Cpus /\ depth[q] \in 1 .. len1[at[q]]
      BY <1>5, <1>7
    <2>2. link[q] \in Pages /\ OnShard(kind, at, link[q], at[q]) /\ depth[link[q]] = depth[q] - 1
      BY <1>7, <2>1 DEF Full, Inv, Lists
    <2>3. link[q] # p
      BY <1>1, <1>4, <2>1, <2>2 DEF OnShard, Full
    <2> QED  BY <1>3, <2>1, <2>2, <2>3 DEF OnShard
  <1>8. \A q \in Pages : kind1[q] = "shard" /\ depth[q] = 1 => link[q] = NULL
    BY <1>5 DEF Full, Inv, Lists
  <1>9. head'[k] = link[p]
    BY DEF Types
  <1>10. len1[k] = 0 => head'[k] = NULL
    BY <1>1, <1>4, <1>9 DEF Full, Inv, Lists
  <1>11. len1[k] > 0 => head'[k] \in Pages /\ OnShard(kind1, at1, head'[k], k) /\ depth[head'[k]] = len1[k]
    <2> SUFFICES ASSUME len1[k] > 0
                 PROVE  link[p] \in Pages /\ OnShard(kind1, at1, link[p], k) /\ depth[link[p]] = len1[k]
      BY <1>9
    <2>1. link[p] \in Pages /\ OnShard(kind, at, link[p], k) /\ depth[link[p]] = len[k] - 1
      BY <1>1, <1>4 DEF Full, Inv, Lists
    <2>2. link[p] # p
      BY <1>1, <2>1
    <2> QED  BY <1>3, <1>4, <2>1, <2>2 DEF OnShard
  <1>12. ASSUME NEW j \in Cpus, j # k
         PROVE  /\ len1[j] = 0 => head'[j] = NULL
                /\ len1[j] > 0 => head'[j] \in Pages /\ OnShard(kind1, at1, head'[j], j) /\ depth[head'[j]] = len1[j]
    <2>1. len1[j] = len[j] /\ head'[j] = head[j]
      BY <1>4, <1>12
    <2>2. len[j] > 0 => head[j] \in Pages /\ OnShard(kind, at, head[j], j) /\ depth[head[j]] = len[j]
      BY DEF Full, Inv, Lists
    <2>3. len[j] > 0 => head[j] # p
      BY <1>1, <1>12, <2>2 DEF OnShard
    <2> QED  BY <1>3, <2>1, <2>2, <2>3 DEF Full, Inv, Lists, OnShard
  <1>13. Lists(kind1, at1, depth, len1)'
    BY <1>5, <1>6, <1>7, <1>8, <1>10, <1>11, <1>12 DEF Lists
  <1> QED  BY <1>1, <1>2, <1>13 DEF OnShard

LEMMA PopHolders ==
  ASSUME Types, Locals, NEW kind, NEW at, NEW depth, NEW len, Full(kind, at, depth, len),
         NEW k \in Cpus, NEW p \in Pages, head[k] = p, OnShard(kind, at, p, k),
         NEW c \in Ctx, page[c] = p, pc[c] \notin Transit, NEW x \in Transit,
         pc' = [pc EXCEPT ![c] = x], page' = page, victim' = victim, owners' = owners,
         head' = [head EXCEPT ![k] = link[p]],
         NEW kind1, NEW at1,
         kind1 = [kind EXCEPT ![p] = "call"], at1 = [at EXCEPT ![p] = c]
  PROVE  Holders(kind1, at1)' /\ Stale(kind1, at1)'
  <1>1. kind1[p] = "call" /\ at1[p] = c /\ \A q \in Pages : q # p => kind1[q] = kind[q] /\ at1[q] = at[q]
    BY DEF Full
  <1>2. ASSUME NEW d \in Ctx, pc'[d] \in Transit PROVE kind1[page[d]] = "call" /\ at1[page[d]] = d
    <2>1. CASE d = c
      BY <1>1, <2>1
    <2>2. CASE d # c
      <3>1. pc[d] \in Transit /\ page[d] \in Pages
        BY <1>2, <2>2 DEF Types, Locals, Transit
      <3>2. kind[page[d]] = "call" /\ at[page[d]] = d
        BY <3>1 DEF Full, Inv, Holders
      <3> QED  BY <1>1, <3>1, <3>2 DEF OnShard
    <2> QED  BY <2>1, <2>2
  <1>3. ASSUME NEW q \in Pages, kind1[q] = "call"
        PROVE  at1[q] \in Ctx /\ pc'[at1[q]] \in Transit /\ page[at1[q]] = q
    <2>1. CASE q = p
      BY <1>1, <2>1 DEF Types
    <2>2. CASE q # p
      <3>1. at1[q] = at[q] /\ at[q] \in Ctx /\ pc[at[q]] \in Transit /\ page[at[q]] = q
        BY <1>1, <1>3, <2>2 DEF Full, Inv, Holders
      <3> QED  BY <3>1 DEF Types
    <2> QED  BY <2>1, <2>2
  <1>4. \A q \in Pages : owners[q] = IF kind1[q] = "user" THEN 1 ELSE 0
    BY <1>1 DEF Full, Inv, Holders, OnShard
  <1>5. Holders(kind1, at1)'
    BY <1>2, <1>3, <1>4 DEF Holders
  <1>6. ASSUME NEW d \in Ctx, pc'[d] \in {"steal_next", "steal_cas"}, OnShard(kind1, at1, page[d], victim[d])
        PROVE  head'[victim[d]] = page[d]
    <2>1. d # c /\ pc[d] \in {"steal_next", "steal_cas"}
      BY <1>6 DEF Types, Transit
    <2>2. page[d] \in Pages /\ victim[d] \in Cpus
      BY <2>1 DEF Locals, Stealing
    <2>3. page[d] # p /\ OnShard(kind, at, page[d], victim[d])
      BY <1>1, <1>6, <2>2 DEF OnShard
    <2>4. head[victim[d]] = page[d]
      BY <2>1, <2>3 DEF Full, Inv, Stale
    <2> QED  BY <2>2, <2>3, <2>4 DEF Types
  <1> QED  BY <1>5, <1>6 DEF Stale

LEMMA AllocSetHeadFull ==
  ASSUME OneCore, Types, Locals, NEW kind, NEW at, NEW depth, NEW len, Full(kind, at, depth, len),
         NEW c \in Ctx, AllocSetHead(c)
  PROVE  \E kind1, at1, len1 : Full(kind1, at1, depth, len1)'
  <1>1. PICK k \in Cpus : k = CpuOf[c] /\ \A d \in Ctx : CpuOf[d] = k
    BY CpuFacts DEF OneCore
  <1>2. PICK p \in Pages : p = page[c] /\ head[k] = p /\ next[c] = link[p]
    BY <1>1 DEF AllocSetHead, Goto, Locals
  <1>3. PICK kind1, at1, len1 : PopMap(kind, at, len, p, k, c, kind1, at1, len1)
    BY DEF PopMap
  <1>4. /\ pc[c] = "alloc_head" /\ pc' = [pc EXCEPT ![c] = "alloc_load"]
        /\ head' = [head EXCEPT ![k] = link[p]] /\ count' = count /\ link' = link
        /\ page' = page /\ victim' = victim /\ cnt' = cnt /\ owners' = owners
    BY <1>1, <1>2 DEF AllocSetHead, Goto, locals
  <1>5. /\ Lists(kind1, at1, depth, len1)'
        /\ kind1 \in [Pages -> Kinds] /\ at1 \in [Pages -> Cpus \cup Ctx] /\ len1 \in [Cpus -> Nat]
        /\ OnShard(kind, at, p, k)
    BY <1>2, <1>3, <1>4, PopLists
  <1>6. Holders(kind1, at1)' /\ Stale(kind1, at1)'
    <2>1. pc[c] \notin Transit /\ "alloc_load" \in Transit
      BY <1>4 DEF Transit
    <2> QED  BY <1>2, <1>3, <1>4, <1>5, <2>1, PopHolders DEF PopMap
  <1>7. OwnCount(len1)'
    <2>1. \A d \in Ctx : d # c => pc[d] \notin CliPCs
      BY Alone DEF AllocSetHead, Goto
    <2>2. count[k] = len[k]
      <3>1. \A d \in Ctx : pc[d] \notin InCount
        BY <1>4, <2>1 DEF InCount, CliPCs
      <3> QED  BY <1>1, <3>1 DEF Full, Inv, Counts, OwnCount
    <2>3. len1[k] = len[k] - 1 /\ len[k] \in Nat
      BY <1>3 DEF Full, PopMap
    <2>4. \A d \in Ctx : d # c => pc'[d] \notin InCount
      BY <1>4, <2>1 DEF InCount, CliPCs, Types
    <2>5. pc'[c] = "alloc_load"
      BY <1>4 DEF Types
    <2> QED  BY <1>1, <1>4, <2>2, <2>3, <2>4, <2>5 DEF OwnCount, InCount
  <1>8. OtherCount(len1)'
    <2>1. \A j \in Cpus : Thieves(j)' = Thieves(j)
      BY <1>4, ThievesKept
    <2>2. \A j \in Cpus : j # k => len1[j] = len[j]
      BY <1>3 DEF Full, PopMap
    <2> QED  BY <1>1, <1>4, <2>1, <2>2 DEF Full, Inv, Counts, OtherCount
  <1>9. Full(kind1, at1, depth, len1)'
    BY <1>5, <1>6, <1>7, <1>8 DEF Full, Inv, Counts
  <1> QED  BY <1>9

LEMMA StealCasFull ==
  ASSUME OneCore, Types, Locals, NEW kind, NEW at, NEW depth, NEW len, Full(kind, at, depth, len),
         NEW c \in Ctx, StealCas(c)
  PROVE  \E kind1, at1, len1 : Full(kind1, at1, depth, len1)'
  <1>1. PICK v \in Cpus : v = victim[c] /\ \A d \in Ctx : CpuOf[d] # v
    BY DEF StealCas, Goto, Locals, Stealing, OneCore
  <1>2. PICK p \in Pages : p = page[c] /\ head[v] = p /\ next[c] = link[p]
    BY <1>1 DEF StealCas, Goto, Locals
  <1>3. PICK kind1, at1, len1 : PopMap(kind, at, len, p, v, c, kind1, at1, len1)
    BY DEF PopMap
  <1>4. /\ pc[c] = "steal_cas" /\ pc' = [pc EXCEPT ![c] = "steal_count"]
        /\ head' = [head EXCEPT ![v] = link[p]] /\ count' = count /\ link' = link
        /\ page' = page /\ victim' = victim /\ cnt' = cnt /\ owners' = owners
    BY <1>1, <1>2 DEF StealCas, Goto, locals
  <1>5. /\ Lists(kind1, at1, depth, len1)'
        /\ kind1 \in [Pages -> Kinds] /\ at1 \in [Pages -> Cpus \cup Ctx] /\ len1 \in [Cpus -> Nat]
        /\ OnShard(kind, at, p, v)
    BY <1>2, <1>3, <1>4, PopLists
  <1>6. Holders(kind1, at1)' /\ Stale(kind1, at1)'
    <2>1. pc[c] \notin Transit /\ "steal_count" \in Transit
      BY <1>4 DEF Transit
    <2> QED  BY <1>2, <1>3, <1>4, <1>5, <2>1, PopHolders DEF PopMap
  <1>7. \A j \in Cpus : j # v => len1[j] = len[j]
    BY <1>3 DEF Full, PopMap
  <1>8. OwnCount(len1)'
    <2>1. \A d \in Ctx : len1[CpuOf[d]] = len[CpuOf[d]]
      BY <1>1, <1>7, CpuFacts
    <2> QED  BY <1>4, <2>1 DEF Full, Inv, Counts, OwnCount, InCount, Types
  <1>9. OtherCount(len1)'
    <2>1. Thieves(v)' = Thieves(v) \cup {c} /\ c \notin Thieves(v)
      BY <1>1, <1>4 DEF Thieves, Types
    <2>2. Cardinality(Thieves(v)') = Cardinality(Thieves(v)) + 1
      BY <2>1, ThievesFinite, FS_AddElement
    <2>3. Cardinality(Thieves(v)) \in Nat
      BY ThievesFinite, FS_CardinalityType
    <2>4. count'[v] = len1[v] + Cardinality(Thieves(v)')
      <3>1. count[v] = len[v] + Cardinality(Thieves(v)) /\ len[v] \in Nat
        BY <1>1 DEF Full, Inv, Counts, OtherCount
      <3>2. len1[v] = len[v] - 1
        BY <1>3 DEF Full, PopMap
      <3> QED  BY <1>4, <2>2, <2>3, <3>1, <3>2
    <2>5. ASSUME NEW j \in Cpus, j # v PROVE Thieves(j)' = Thieves(j)
      BY <1>1, <1>4, <2>5 DEF Thieves, Types
    <2> QED  BY <1>4, <1>7, <2>4, <2>5 DEF Full, Inv, Counts, OtherCount
  <1>10. Full(kind1, at1, depth, len1)'
    BY <1>5, <1>6, <1>8, <1>9 DEF Full, Inv, Counts
  <1> QED  BY <1>10

-----------------------------------------------------------------------------
(* Putting a page on the own list: the second half of free. *)

\* Where the pages are after p was put on list k.
PushMap(kind, at, depth, len, p, k, kind1, at1, depth1, len1) ==
    /\ kind1 = [kind EXCEPT ![p] = "shard"]
    /\ at1 = [at EXCEPT ![p] = k]
    /\ depth1 = [depth EXCEPT ![p] = len[k] + 1]
    /\ len1 = [len EXCEPT ![k] = len[k] + 1]

LEMMA PushLists ==
  ASSUME Types, NEW kind, NEW at, NEW depth, NEW len, Full(kind, at, depth, len),
         NEW k \in Cpus, NEW p \in Pages, kind[p] = "call", link[p] = head[k],
         head' = [head EXCEPT ![k] = p], link' = link,
         NEW kind1, NEW at1, NEW depth1, NEW len1,
         PushMap(kind, at, depth, len, p, k, kind1, at1, depth1, len1)
  PROVE  /\ Lists(kind1, at1, depth1, len1)'
         /\ kind1 \in [Pages -> Kinds] /\ at1 \in [Pages -> Cpus \cup Ctx]
         /\ depth1 \in [Pages -> Nat] /\ len1 \in [Cpus -> Nat]
  <1>1. /\ kind1 \in [Pages -> Kinds] /\ at1 \in [Pages -> Cpus \cup Ctx]
        /\ depth1 \in [Pages -> Nat] /\ len1 \in [Cpus -> Nat]
    BY DEF Full, Kinds, PushMap
  <1>2. /\ kind1[p] = "shard" /\ at1[p] = k /\ depth1[p] = len[k] + 1
        /\ \A q \in Pages : q # p => kind1[q] = kind[q] /\ at1[q] = at[q] /\ depth1[q] = depth[q]
    BY DEF Full, PushMap
  <1>3. /\ len1[k] = len[k] + 1 /\ len[k] \in Nat /\ head'[k] = p
        /\ \A j \in Cpus : j # k => len1[j] = len[j] /\ head'[j] = head[j]
    BY DEF Full, Types, PushMap
  <1>4. ASSUME NEW q \in Pages, kind1[q] = "shard", q # p
        PROVE  /\ kind[q] = "shard" /\ at1[q] = at[q] /\ at[q] \in Cpus /\ depth1[q] = depth[q]
               /\ depth[q] \in 1 .. len[at[q]]
    BY <1>2, <1>4 DEF Full, Inv, Lists
  <1>5. ASSUME NEW q \in Pages, kind1[q] = "shard" PROVE at1[q] \in Cpus /\ depth1[q] \in 1 .. len1[at1[q]]
    <2>1. CASE q = p
      BY <1>2, <1>3, <2>1
    <2>2. CASE q # p
      <3>1. at1[q] = at[q] /\ at[q] \in Cpus /\ depth1[q] \in 1 .. len[at[q]]
        BY <1>4, <1>5, <2>2
      <3>2. len[at[q]] \in Nat /\ len1[at[q]] \in {len[at[q]], len[at[q]] + 1}
        BY <1>3, <3>1 DEF Full
      <3> QED  BY <3>1, <3>2
    <2> QED  BY <2>1, <2>2
  <1>6. ASSUME NEW q \in Pages, NEW r \in Pages, kind1[q] = "shard", OnShard(kind1, at1, r, at1[q]),
               depth1[q] = depth1[r]
        PROVE  q = r
    <2>1. CASE q # p /\ r # p
      BY <1>4, <1>6, <2>1 DEF Full, Inv, Lists, OnShard
    <2>2. CASE q = p /\ r # p
      <3>1. at[r] = k /\ depth1[r] \in 1 .. len[k] /\ depth1[r] = len[k] + 1
        BY <1>2, <1>4, <1>6, <2>2 DEF OnShard
      <3> QED  BY <1>3, <3>1
    <2>3. CASE q # p /\ r = p
      <3>1. at[q] = k /\ depth1[q] \in 1 .. len[k] /\ depth1[q] = len[k] + 1
        BY <1>2, <1>4, <1>6, <2>3 DEF OnShard
      <3> QED  BY <1>3, <3>1
    <2> QED  BY <2>1, <2>2, <2>3
  <1>7. ASSUME NEW j \in Cpus
        PROVE  /\ len1[j] = 0 => head'[j] = NULL
               /\ len1[j] > 0 => /\ head'[j] \in Pages /\ OnShard(kind1, at1, head'[j], j)
                                 /\ depth1[head'[j]] = len1[j]
    <2>1. CASE j = k
      BY <1>2, <1>3, <2>1 DEF OnShard
    <2>2. CASE j # k
      <3>1. len1[j] = len[j] /\ head'[j] = head[j]
        BY <1>3, <2>2
      <3>2. len[j] > 0 => /\ head[j] \in Pages /\ kind[head[j]] = "shard" /\ at[head[j]] = j
                          /\ depth[head[j]] = len[j]
        BY DEF Full, Inv, Lists, OnShard
      <3>3. len[j] > 0 => head[j] # p
        BY <3>2
      <3> QED  BY <1>2, <3>1, <3>2, <3>3 DEF Full, Inv, Lists, OnShard
    <2> QED  BY <2>1, <2>2
  <1>8. ASSUME NEW q \in Pages, kind1[q] = "shard"
        PROVE  /\ depth1[q] = 1 => link[q] = NULL
               /\ depth1[q] > 1 => /\ link[q] \in Pages /\ OnShard(kind1, at1, link[q], at1[q])
                                   /\ depth1[link[q]] = depth1[q] - 1
    <2>1. CASE q = p
      <3>1. depth1[p] = 1 => link[p] = NULL
        BY <1>2, <1>3 DEF Full, Inv, Lists
      <3>2. depth1[p] > 1 => /\ link[p] \in Pages /\ kind[link[p]] = "shard" /\ at[link[p]] = k
                             /\ depth[link[p]] = len[k]
        BY <1>2, <1>3 DEF Full, Inv, Lists, OnShard
      <3>3. depth1[p] > 1 => link[p] # p
        BY <3>2
      <3> QED  BY <1>2, <1>3, <2>1, <3>1, <3>2, <3>3 DEF OnShard
    <2>2. CASE q # p
      <3>1. kind[q] = "shard" /\ at1[q] = at[q] /\ depth1[q] = depth[q]
        BY <1>4, <1>8, <2>2
      <3>2. depth[q] > 1 => /\ link[q] \in Pages /\ kind[link[q]] = "shard" /\ at[link[q]] = at[q]
                            /\ depth[link[q]] = depth[q] - 1
        BY <3>1 DEF Full, Inv, Lists, OnShard
      <3>3. depth[q] > 1 => link[q] # p
        BY <3>2
      <3> QED  BY <1>2, <3>1, <3>2, <3>3 DEF Full, Inv, Lists, OnShard
    <2> QED  BY <2>1, <2>2
  <1>9. Lists(kind1, at1, depth1, len1)'
    BY <1>5, <1>6, <1>7, <1>8 DEF Lists
  <1> QED  BY <1>1, <1>9

LEMMA FreeSetHeadFull ==
  ASSUME OneCore, Types, Locals, NEW kind, NEW at, NEW depth, NEW len, Full(kind, at, depth, len),
         NEW c \in Ctx, FreeSetHead(c)
  PROVE  \E kind1, at1, depth1, len1 : Full(kind1, at1, depth1, len1)'
  <1>1. PICK k \in Cpus : k = CpuOf[c] /\ \A d \in Ctx : CpuOf[d] = k
    BY CpuFacts DEF OneCore
  <1>2. PICK p \in Pages : p = page[c] /\ link[p] = head[k] /\ kind[p] = "call" /\ at[p] = c
    BY <1>1 DEF FreeSetHead, Goto, Locals, Full, Inv, Holders, Transit
  <1>3. PICK kind1, at1, depth1, len1 : PushMap(kind, at, depth, len, p, k, kind1, at1, depth1, len1)
    BY DEF PushMap
  <1>4. /\ pc[c] = "free_head" /\ pc' = [pc EXCEPT ![c] = "free_load"]
        /\ head' = [head EXCEPT ![k] = p] /\ count' = count /\ link' = link
        /\ page' = page /\ victim' = victim /\ cnt' = cnt /\ owners' = owners
    BY <1>1, <1>2 DEF FreeSetHead, Goto, locals
  <1>5. /\ Lists(kind1, at1, depth1, len1)'
        /\ kind1 \in [Pages -> Kinds] /\ at1 \in [Pages -> Cpus \cup Ctx]
        /\ depth1 \in [Pages -> Nat] /\ len1 \in [Cpus -> Nat]
    BY <1>2, <1>3, <1>4, PushLists
  <1>6. kind1[p] = "shard" /\ at1[p] = k /\ \A q \in Pages : q # p => kind1[q] = kind[q] /\ at1[q] = at[q]
    BY <1>3 DEF Full, PushMap
  <1>7. Holders(kind1, at1)'
    <2>1. ASSUME NEW d \in Ctx, pc'[d] \in Transit PROVE kind1[page[d]] = "call" /\ at1[page[d]] = d
      <3>1. d # c /\ pc[d] \in Transit /\ page[d] \in Pages
        BY <1>4, <2>1 DEF Types, Transit, Locals
      <3>2. kind[page[d]] = "call" /\ at[page[d]] = d
        BY <3>1 DEF Full, Inv, Holders
      <3> QED  BY <1>2, <1>6, <3>1, <3>2
    <2>2. ASSUME NEW q \in Pages, kind1[q] = "call"
          PROVE  at1[q] \in Ctx /\ pc'[at1[q]] \in Transit /\ page[at1[q]] = q
      <3>1. q # p /\ at1[q] = at[q] /\ at[q] \in Ctx /\ pc[at[q]] \in Transit /\ page[at[q]] = q
        BY <1>6, <2>2 DEF Full, Inv, Holders
      <3>2. at[q] # c
        BY <1>2, <3>1
      <3> QED  BY <1>4, <3>1, <3>2 DEF Types
    <2>3. \A q \in Pages : owners[q] = IF kind1[q] = "user" THEN 1 ELSE 0
      BY <1>2, <1>6 DEF Full, Inv, Holders
    <2> QED  BY <1>4, <2>1, <2>2, <2>3 DEF Holders
  <1>8. Stale(kind1, at1)'
    <2>1. ASSUME NEW d \in Ctx, pc'[d] \in {"steal_next", "steal_cas"}, OnShard(kind1, at1, page[d], victim[d])
          PROVE  head'[victim[d]] = page[d]
      <3>1. pc[d] \in {"steal_next", "steal_cas"}
        BY <1>4, <2>1 DEF Types
      <3>2. page[d] \in Pages /\ victim[d] \in Cpus /\ victim[d] # k
        BY <1>1, <3>1 DEF Locals, Stealing
      <3>3. page[d] # p
        BY <1>6, <2>1, <3>2 DEF OnShard
      <3>4. head[victim[d]] = page[d]
        BY <1>6, <2>1, <3>1, <3>2, <3>3 DEF Full, Inv, Stale, OnShard
      <3> QED  BY <1>4, <3>2, <3>4 DEF Types
    <2> QED  BY <1>4, <2>1 DEF Stale
  <1>9. OwnCount(len1)'
    <2>1. \A d \in Ctx : d # c => pc[d] \notin CliPCs
      BY Alone DEF FreeSetHead, Goto
    <2>2. count[k] = len[k]
      <3>1. \A d \in Ctx : pc[d] \notin InCount
        BY <1>4, <2>1 DEF InCount, CliPCs
      <3> QED  BY <1>1, <3>1 DEF Full, Inv, Counts, OwnCount
    <2>3. len1[k] = len[k] + 1 /\ len[k] \in Nat
      BY <1>3 DEF Full, PushMap
    <2>4. \A d \in Ctx : d # c => pc'[d] \notin InCount
      BY <1>4, <2>1 DEF InCount, CliPCs, Types
    <2>5. pc'[c] = "free_load"
      BY <1>4 DEF Types
    <2> QED  BY <1>1, <1>4, <2>2, <2>3, <2>4, <2>5 DEF OwnCount, InCount
  <1>10. OtherCount(len1)'
    <2>1. \A j \in Cpus : Thieves(j)' = Thieves(j)
      BY <1>4, ThievesKept
    <2>2. \A j \in Cpus : j # k => len1[j] = len[j]
      BY <1>3 DEF Full, PushMap
    <2> QED  BY <1>1, <1>4, <2>1, <2>2 DEF Full, Inv, Counts, OtherCount
  <1>11. Full(kind1, at1, depth1, len1)'
    BY <1>5, <1>7, <1>8, <1>9, <1>10 DEF Full, Inv, Counts
  <1> QED  BY <1>11

LEMMA StepInv == ASSUME OneCore, IInv, [Next]_vars PROVE IInv'
  <1>1. PICK kind, at, depth, len : Full(kind, at, depth, len)
    BY DEF IInv
  <1>2. CASE Next
    <2>1. Types' /\ CliOne' /\ Locals'
      BY <1>1, <1>2, TypesNext, CliNext, LocalsNext DEF IInv
    <2>2. ASSUME NEW c \in Ctx, alloc(c) \/ free(c) \/ steal_from_remote(c)
          PROVE  \E k1, a1, d1, l1 : Full(k1, a1, d1, l1)'
      BY <1>1, <2>2, ReadFull, AllocSetHeadFull, AllocStoreCountFull, FreeReadHeadFull, FreeSetLinkFull,
         FreeSetHeadFull, FreeStoreCountFull, StealCasFull, StealCountFull
         DEF IInv, alloc, free, steal_from_remote, ReadStep
    <2>3. ASSUME NEW p \in Pages, NEW w \in Ptrs, WriteWord(p, w)
          PROVE  \E k1, a1, d1, l1 : Full(k1, a1, d1, l1)'
      BY <1>1, <2>3, WriteWordFull DEF IInv
    <2>4. \E k1, a1, d1, l1 : Full(k1, a1, d1, l1)'
      BY <1>2, <2>2, <2>3 DEF Next
    <2> QED  BY <2>1, <2>4 DEF IInv
  <1>3. CASE UNCHANGED vars
    <2>1. Full(kind, at, depth, len)'
      BY <1>1, <1>3 DEF vars, shards, locals, Full, Inv, Lists, Holders, Stale, Counts, OwnCount,
                        OtherCount, Thieves
    <2>2. Types' /\ CliOne' /\ Locals'
      BY <1>3 DEF IInv, vars, shards, locals, Types, CliOne, Locals
    <2> QED  BY <2>1, <2>2 DEF IInv
  <1> QED  BY <1>2, <1>3

LEMMA Cards == Cardinality({}) = 0 /\ \A x : Cardinality({x}) = 1
  BY FS_EmptySet, FS_Singleton, Zenon

-----------------------------------------------------------------------------
(* The lists init builds. *)

DealtDepth == [p \in Pages |-> (p \div NUM_CPUS) + 1]

\* A page of shard k is k plus a whole number of rounds.
LEMMA DealtRounds ==
  ASSUME NEW k \in Cpus, NEW p \in Dealt(k)
  PROVE  /\ p \in Pages /\ p \in Nat
         /\ \E q \in Nat : DealtDepth[p] = q + 1 /\ p = NUM_CPUS * q + k
  <1>1. p \in Pages /\ p \in Nat /\ p % NUM_CPUS = k
    BY PageAssumption DEF Dealt, Pages
  <1>2. PICK q \in Int : q = p \div NUM_CPUS /\ p = NUM_CPUS * q + k
    BY <1>1, DivMod, CpuAssumption
  <1>3. q \in Nat
    <2>1. ASSUME q < 0 PROVE FALSE
      <3>1. NUM_CPUS * q + NUM_CPUS <= NUM_CPUS * 0 /\ NUM_CPUS * 0 = 0 /\ NUM_CPUS * q \in Int
        BY <1>2, <2>1, MulStep, CpuAssumption
      <3> QED  BY <1>1, <1>2, <3>1, CpuAssumption DEF Cpus
    <2> QED  BY <1>2, <2>1
  <1>4. DealtDepth[p] = q + 1
    BY <1>1, <1>2 DEF DealtDepth
  <1> QED  BY <1>1, <1>2, <1>3, <1>4, Zenon

LEMMA DealtMono ==
  ASSUME NEW k \in Cpus, NEW p \in Dealt(k), NEW r \in Dealt(k), DealtDepth[r] < DealtDepth[p]
  PROVE  r < p
  <1>1. PICK a \in Nat : DealtDepth[r] = a + 1 /\ r = NUM_CPUS * a + k
    BY DealtRounds
  <1>4. PICK b \in Nat : DealtDepth[p] = b + 1 /\ p = NUM_CPUS * b + k
    BY DealtRounds
  <1>2. a < b
    BY <1>1, <1>4
  <1>3. NUM_CPUS * a + NUM_CPUS <= NUM_CPUS * b /\ NUM_CPUS * a \in Int /\ NUM_CPUS * b \in Int
    BY <1>2, MulStep, CpuAssumption
  <1> QED  BY <1>1, <1>4, <1>3, CpuAssumption DEF Cpus

\* The page init pushed before p on the same shard.
LEMMA DealtBefore ==
  ASSUME NEW k \in Cpus, NEW p \in Dealt(k)
  PROVE  /\ DealtDepth[p] = 1 => p < NUM_CPUS
         /\ DealtDepth[p] > 1 => /\ p >= NUM_CPUS /\ p - NUM_CPUS \in Dealt(k)
                                 /\ DealtDepth[p - NUM_CPUS] = DealtDepth[p] - 1
  <1>1. PICK q \in Nat : DealtDepth[p] = q + 1 /\ p = NUM_CPUS * q + k
    BY DealtRounds
  <1>4. p \in Pages /\ p \in Nat
    BY DealtRounds
  <1>2. q = 0 => p = k
    BY <1>1, CpuAssumption DEF Cpus
  <1>3. ASSUME q > 0
        PROVE  /\ p >= NUM_CPUS /\ p - NUM_CPUS \in Dealt(k)
               /\ DealtDepth[p - NUM_CPUS] = q
    <2>1. NUM_CPUS * (q - 1) = NUM_CPUS * q - NUM_CPUS /\ NUM_CPUS * q \in Int /\ NUM_CPUS * (q - 1) >= 0
      BY <1>3, CpuAssumption
    <2>2. PICK r : r = p - NUM_CPUS
      OBVIOUS
    <2>3. r \in Pages /\ r \in Nat /\ r = NUM_CPUS * (q - 1) + k
      BY <1>1, <1>4, <2>1, <2>2, CpuAssumption, PageAssumption DEF Cpus, Pages
    <2>4. r % NUM_CPUS = k /\ r \div NUM_CPUS = q - 1
      <3>1. q - 1 \in Int /\ k \in 0 .. NUM_CPUS - 1
        BY DEF Cpus
      <3> QED  BY <2>3, <3>1, ModUnique, DivUnique, CpuAssumption, Zenon
    <2>5. r \in Dealt(k) /\ DealtDepth[r] = q
      BY <1>1, <2>3, <2>4 DEF Dealt, DealtDepth
    <2> QED  BY <1>1, <2>2, <2>3, <2>5, CpuAssumption
  <1> QED  BY <1>1, <1>2, <1>3, CpuAssumption, DealtRounds DEF Cpus

LEMMA InitList ==
  ASSUME Init, NEW k \in Cpus
  PROVE  IsList(Dealt(k), head[k], link, DealtDepth, Cardinality(Dealt(k)), NULL)
  <1> DEFINE D == Dealt(k)
  <1> DEFINE n == IF D = {} THEN 0 ELSE DealtDepth[head[k]]
  <1>1. D \in SUBSET Pages /\ Pages \in SUBSET Nat /\ NULL \notin D
    BY PageAssumption, NullAssumption DEF Dealt, Pages
  <1>2. D # {} => head[k] \in D /\ \A q \in D : q <= head[k]
    <2>1. D # {} => \E p \in D : \A q \in D : q <= p
      <3>1. \A x \in D : x <= NUM_PAGES
        BY <1>1, PageAssumption DEF Pages
      <3>2. D \in SUBSET Nat /\ NUM_PAGES \in Nat
        BY <1>1, PageAssumption
      <3> HIDE DEF D
      <3> QED  BY <3>1, <3>2, GreatestNat
    <2>2. head[k] = IF D = {} THEN NULL ELSE CHOOSE p \in D : \A q \in D : q <= p
      BY DEF Init
    <2> HIDE DEF D
    <2> QED  BY <2>1, <2>2
  <1>3. D = {} => head[k] = NULL
    BY DEF Init
  <1>4. \A p \in D : link[p] = IF p >= NUM_CPUS THEN p - NUM_CPUS ELSE NULL
    BY <1>1 DEF Init
  <1>5. n \in Nat /\ (n = 0 => D = {}) /\ (n > 0 => D # {})
    BY <1>2, DealtRounds
  <1>6. ASSUME NEW p \in D PROVE DealtDepth[p] \in 1 .. n
    <2>1. head[k] \in D /\ p <= head[k] /\ n = DealtDepth[head[k]]
      BY <1>2
    <2>2. ~(DealtDepth[head[k]] < DealtDepth[p])
      <3>1. ASSUME NEW h \in D, p <= h, DealtDepth[h] < DealtDepth[p] PROVE FALSE
        <4>1. h < p /\ h \in Nat /\ p \in Nat
          BY <1>1, <3>1, DealtMono
        <4> QED  BY <3>1, <4>1
      <3> QED  BY <2>1, <3>1
    <2>3. DealtDepth[p] \in Nat \ {0} /\ DealtDepth[head[k]] \in Nat
      <3>1. \A r \in D : DealtDepth[r] \in Nat \ {0}
        BY DealtRounds
      <3> QED  BY <2>1, <3>1
    <2> QED  BY <2>1, <2>2, <2>3
  <1>7. \A p, q \in D : DealtDepth[p] = DealtDepth[q] => p = q
    <2>1. ASSUME NEW p \in D, NEW r \in D, DealtDepth[p] = DealtDepth[r] PROVE p = r
      <3>1. PICK a \in Nat : DealtDepth[p] = a + 1 /\ p = NUM_CPUS * a + k
        BY DealtRounds
      <3>2. PICK b \in Nat : DealtDepth[r] = b + 1 /\ r = NUM_CPUS * b + k
        BY DealtRounds
      <3>4. a + 1 = b + 1
        BY <2>1, <3>1, <3>2, Zenon
      <3>3. a = b
        BY <3>4
      <3> QED  BY <3>1, <3>2, <3>3, Zenon
    <2> QED  BY <2>1
  <1>8. \A p \in D : DealtDepth[p] = 1 => link[p] = NULL
    <2>1. ASSUME NEW p \in D, DealtDepth[p] = 1 PROVE link[p] = NULL
      <3>1. p < NUM_CPUS /\ p \in Nat
        BY <1>1, <2>1, DealtBefore
      <3> QED  BY <1>4, <3>1, CpuAssumption
    <2> QED  BY <2>1
  <1>9. \A p \in D : DealtDepth[p] > 1 => link[p] \in D /\ DealtDepth[link[p]] = DealtDepth[p] - 1
    BY <1>4, DealtBefore
  <1>10. IsList(D, head[k], link, DealtDepth, n, NULL)
    <2>1. n > 0 => head[k] \in D /\ DealtDepth[head[k]] = n
      BY <1>2, <1>5
    <2> HIDE DEF n, D
    <2> QED  BY <1>1, <1>3, <1>5, <1>6, <1>7, <1>8, <1>9, <2>1 DEF IsList
  <1> HIDE DEF n
  <1>11. Cardinality(D) = n
    BY <1>10, ListSize
  <1> QED  BY <1>10, <1>11

LEMMA InitInv == Init => IInv /\ Natural
  <1> SUFFICES ASSUME Init PROVE IInv /\ Natural
    OBVIOUS
  <1>1. \A k \in Cpus : IsList(Dealt(k), head[k], link, DealtDepth, Cardinality(Dealt(k)), NULL)
    BY InitList
  <1>2. \A k \in Cpus : Cardinality(Dealt(k)) \in Nat /\ head[k] \in Ptrs
    <2>1. ASSUME NEW k \in Cpus, NEW D \in SUBSET Pages, NEW n,
                 IsList(D, head[k], link, DealtDepth, n, NULL)
          PROVE  n \in Nat /\ head[k] \in Ptrs
      BY <2>1 DEF IsList, Ptrs
    <2>2. \A k \in Cpus : Dealt(k) \in SUBSET Pages
      BY DEF Dealt
    <2> QED  BY <1>1, <2>1, <2>2
  <1>3. \A p \in Pages : p % NUM_CPUS \in Cpus /\ p \in Dealt(p % NUM_CPUS) /\ DealtDepth[p] \in Nat \ {0}
    <2>1. ASSUME NEW p \in Pages PROVE p % NUM_CPUS \in Cpus /\ p \in Dealt(p % NUM_CPUS)
      BY DivMod, CpuAssumption, PageAssumption DEF Pages, Cpus, Dealt
    <2> QED  BY <1>1, <2>1 DEF IsList
  <1>4. Types /\ Natural
    <2>1. count \in [Cpus -> Nat]
      BY <1>2 DEF Init
    <2>2. head \in [Cpus -> Ptrs]
      <3>1. head = [k \in Cpus |-> head[k]]
        BY DEF Init
      <3> QED  BY <1>2, <3>1
    <2>3. link \in [Pages -> Ptrs]
      BY CpuAssumption, PageAssumption DEF Init, Pages, Ptrs
    <2> QED  BY <2>1, <2>2, <2>3, CpuAssumption DEF Init, Types, Natural, PCs, CliPCs, Ptrs
  <1>5. CliOne /\ Locals
    BY DEF Init, CliOne, CliPCs, Locals, Stealing
  <1> DEFINE kind == [p \in Pages |-> "shard"]
             at   == [p \in Pages |-> p % NUM_CPUS]
             len  == [k \in Cpus |-> Cardinality(Dealt(k))]
  <1>6. /\ kind \in [Pages -> Kinds] /\ at \in [Pages -> Cpus \cup Ctx]
        /\ DealtDepth \in [Pages -> Nat] /\ len \in [Cpus -> Nat]
    BY <1>2, <1>3 DEF Kinds, DealtDepth
  <1>7. \A p \in Pages : kind[p] = "shard" /\ at[p] = p % NUM_CPUS /\ at[p] \in Cpus /\ p \in Dealt(at[p])
    BY <1>3
  <1>8. \A k \in Cpus : len[k] = Cardinality(Dealt(k)) /\ count[k] = len[k]
    BY DEF Init
  <1>9. \A k \in Cpus, p \in Pages : OnShard(kind, at, p, k) <=> p \in Dealt(k)
    BY <1>7 DEF OnShard, Dealt
  <1>10. \A k \in Cpus : IsList(Dealt(k), head[k], link, DealtDepth, len[k], NULL) /\ Dealt(k) \subseteq Pages
    BY <1>1, <1>8 DEF Dealt
  <1> HIDE DEF kind, at, len
  <1>11. Lists(kind, at, DealtDepth, len)
    <2>1. \A p \in Pages : at[p] \in Cpus /\ DealtDepth[p] \in 1 .. len[at[p]]
      BY <1>7, <1>10 DEF IsList
    <2>2. \A p, q \in Pages : OnShard(kind, at, q, at[p]) /\ DealtDepth[p] = DealtDepth[q] => p = q
      BY <1>7, <1>9, <1>10 DEF IsList
    <2>3. \A k \in Cpus : /\ len[k] = 0 => head[k] = NULL
                          /\ len[k] > 0 => /\ head[k] \in Pages /\ OnShard(kind, at, head[k], k)
                                           /\ DealtDepth[head[k]] = len[k]
      BY <1>9, <1>10 DEF IsList
    <2>4. \A p \in Pages : /\ DealtDepth[p] = 1 => link[p] = NULL
                           /\ DealtDepth[p] > 1 => /\ link[p] \in Pages
                                                   /\ OnShard(kind, at, link[p], at[p])
                                                   /\ DealtDepth[link[p]] = DealtDepth[p] - 1
      BY <1>7, <1>9, <1>10 DEF IsList
    <2> QED  BY <2>1, <2>2, <2>3, <2>4 DEF Lists
  <1>12. Holders(kind, at)
    BY <1>7 DEF Init, Holders, Transit
  <1>13. Stale(kind, at)
    BY DEF Init, Stale
  <1>14. OwnCount(len)
    BY <1>8, CpuFacts DEF OwnCount, Init, InCount
  <1>15. OtherCount(len)
    <2>1. ASSUME NEW k \in Cpus PROVE Cardinality(Thieves(k)) = 0
      <3>1. Thieves(k) = {}
        BY DEF Thieves, Init
      <3> QED  BY <3>1, Cards, Zenon
    <2> QED  BY <1>6, <1>8, <2>1 DEF OtherCount
  <1>16. Full(kind, at, DealtDepth, len)
    BY <1>6, <1>11, <1>12, <1>13, <1>14, <1>15 DEF Full, Inv, Counts
  <1> QED  BY <1>4, <1>5, <1>16 DEF IInv

-----------------------------------------------------------------------------
(* The walk of a shard's list. *)

Shard(kind, at, k) == {p \in Pages : OnShard(kind, at, p, k)}

LEMMA ShardIsList ==
  ASSUME NEW kind, NEW at, NEW depth, NEW len, Full(kind, at, depth, len), NEW k \in Cpus
  PROVE  IsList(Shard(kind, at, k), head[k], link, depth, len[k], NULL)
  <1>1. len[k] \in Nat /\ NULL \notin Shard(kind, at, k)
    BY CpuFacts DEF Full, Shard
  <1> QED  BY <1>1 DEF IsList, Full, Inv, Lists, Shard, OnShard

LEMMA ShardSize ==
  ASSUME NEW kind, NEW at, NEW depth, NEW len, Full(kind, at, depth, len), NEW k \in Cpus
  PROVE  /\ Cardinality(Shard(kind, at, k)) = len[k]
         /\ len[k] \in Nat /\ len[k] <= NUM_PAGES
  <1>1. Cardinality(Shard(kind, at, k)) = len[k] /\ len[k] \in Nat
    BY ShardIsList, ListSize DEF Full
  <1>2. IsFiniteSet(Pages) /\ Cardinality(Pages) = NUM_PAGES
    BY FS_Interval, CpuFacts DEF Pages
  <1>3. Shard(kind, at, k) \in SUBSET Pages
    BY DEF Shard
  <1>4. Cardinality(Shard(kind, at, k)) <= Cardinality(Pages)
    BY <1>2, <1>3, FS_Subset
  <1> QED  BY <1>1, <1>2, <1>4

LEMMA WalkMeetsShard ==
  ASSUME NEW kind, NEW at, NEW depth, NEW len, Full(kind, at, depth, len), NEW k \in Cpus
  PROVE  FreeList(k) = Shard(kind, at, k)
  <1>1. FreeList(k) = {WalkFun(head[k], link, NULL, NUM_PAGES)[i] : i \in 0 .. NUM_PAGES} \ {NULL}
    BY Zenon DEF FreeList, WalkFun
  <1>2. NUM_PAGES \in Nat /\ len[k] <= NUM_PAGES
    BY ShardSize, CpuFacts
  <1>3. IsList(Shard(kind, at, k), head[k], link, depth, len[k], NULL)
    BY ShardIsList
  <1> QED  BY <1>1, <1>2, <1>3, ListWalk

-----------------------------------------------------------------------------
(* What the invariant says. *)

LEMMA InvOneHolder == ASSUME IInv PROVE OneHolder
  <1>1. PICK kind, at, depth, len : Full(kind, at, depth, len)
    BY DEF IInv
  <1>2. \A k \in Cpus : FreeList(k) = Shard(kind, at, k)
    BY <1>1, WalkMeetsShard
  <1> DEFINE L(p) == {k \in Cpus : p \in FreeList(k)}
             T(p) == {c \in Ctx : p \in InTransit(c)}
  <1>3. ASSUME NEW p \in Pages
        PROVE  owners[p] <= 1 /\ Cardinality(L(p)) + Cardinality(T(p)) + owners[p] = 1
    <2>1. L(p) = {k \in Cpus : OnShard(kind, at, p, k)}
      BY <1>2 DEF Shard
    <2>2. T(p) = {c \in Ctx : pc[c] \in Transit /\ page[c] = p}
      BY DEF InTransit, Transit
    <2> HIDE DEF L, T
    <2>3. kind[p] \in {"shard", "call", "user"}
      BY <1>1 DEF Full, Kinds
    <2>4. CASE kind[p] = "shard"
      <3>1. L(p) = {at[p]}
        BY <1>1, <2>1, <2>4 DEF Full, Inv, Lists, OnShard
      <3>2. T(p) = {}
        BY <1>1, <2>2, <2>4 DEF Full, Inv, Holders
      <3>3. owners[p] = 0
        BY <1>1, <2>4 DEF Full, Inv, Holders
      <3>4. Cardinality(L(p)) = 1 /\ Cardinality(T(p)) = 0
        BY <3>1, <3>2, Cards, Zenon
      <3> QED  BY <3>3, <3>4
    <2>5. CASE kind[p] = "call"
      <3>1. L(p) = {}
        BY <2>1, <2>5 DEF OnShard
      <3>2. T(p) = {at[p]}
        BY <1>1, <2>2, <2>5 DEF Full, Inv, Holders
      <3>3. owners[p] = 0
        BY <1>1, <2>5 DEF Full, Inv, Holders
      <3>4. Cardinality(L(p)) = 0 /\ Cardinality(T(p)) = 1
        BY <3>1, <3>2, Cards, Zenon
      <3> QED  BY <3>3, <3>4
    <2>6. CASE kind[p] = "user"
      <3>1. L(p) = {}
        BY <2>1, <2>6 DEF OnShard
      <3>2. T(p) = {}
        BY <1>1, <2>2, <2>6 DEF Full, Inv, Holders
      <3>3. owners[p] = 1
        BY <1>1, <2>6 DEF Full, Inv, Holders
      <3>4. Cardinality(L(p)) = 0 /\ Cardinality(T(p)) = 0
        BY <3>1, <3>2, Cards, Zenon
      <3> QED  BY <3>3, <3>4
    <2> QED  BY <2>3, <2>4, <2>5, <2>6
  <1> QED  BY <1>3 DEF OneHolder

LEMMA InvStealSound == ASSUME IInv PROVE StealSound
  BY DEF IInv, Locals, StealSound

\* On the core that calls the allocator at most one call owes its shard an
\* update, and no thief has taken from it.
LEMMA OwnOwing ==
  ASSUME OneCore, IInv, NEW b \in Ctx, NEW len, OwnCount(len), len \in [Cpus -> Nat],
         NEW k \in Cpus, k = CpuOf[b]
  PROVE  /\ count[k] = len[k] + Cardinality(Owing(k, {"alloc_load", "alloc_store"}))
                       - Cardinality(Owing(k, {"free_load", "free_store"}))
                       + Cardinality(Thieves(k))
         /\ count[k] \in Int
  <1>1. \A c \in Ctx : CpuOf[c] = k
    BY DEF OneCore
  <1>2. Thieves(k) = {}
    BY <1>1 DEF Thieves, IInv, Locals, Stealing
  <1>3. count[k] \in Int /\ len[k] \in Nat
    BY DEF IInv, Types
  <1> DEFINE A == Owing(k, {"alloc_load", "alloc_store"})
             F == Owing(k, {"free_load", "free_store"})
  <1> SUFFICES count[k] = len[k] + Cardinality(A) - Cardinality(F) + Cardinality(Thieves(k))
    BY <1>3
  <1> USE <1>3
  <1>4. CASE \E c \in Ctx : pc[c] \in {"alloc_load", "alloc_store"}
    <2>1. PICK c \in Ctx : pc[c] \in {"alloc_load", "alloc_store"}
      BY <1>4
    <2>2. A = {c} /\ F = {}
      BY <1>1, <2>1 DEF IInv, CliOne, CliPCs, Owing
    <2>3. count[k] = len[k] + 1
      BY <1>1, <2>1 DEF OwnCount
    <2>4. Cardinality(A) = 1 /\ Cardinality(F) = 0 /\ Cardinality(Thieves(k)) = 0
      BY <1>2, <2>2, Cards, Zenon
    <2> QED  BY <2>3, <2>4
  <1>5. CASE \E c \in Ctx : pc[c] \in {"free_load", "free_store"}
    <2>1. PICK c \in Ctx : pc[c] \in {"free_load", "free_store"}
      BY <1>5
    <2>2. A = {} /\ F = {c}
      BY <1>1, <2>1 DEF IInv, CliOne, CliPCs, Owing
    <2>3. count[k] = len[k] - 1
      BY <1>1, <2>1 DEF OwnCount
    <2>4. Cardinality(A) = 0 /\ Cardinality(F) = 1 /\ Cardinality(Thieves(k)) = 0
      BY <1>2, <2>2, Cards, Zenon
    <2> QED  BY <2>3, <2>4
  <1>6. CASE \A c \in Ctx : pc[c] \notin InCount
    <2>1. A = {} /\ F = {}
      BY <1>6 DEF InCount, Owing
    <2>2. count[k] = len[k]
      BY <1>1, <1>6 DEF OwnCount
    <2>4. Cardinality(A) = 0 /\ Cardinality(F) = 0 /\ Cardinality(Thieves(k)) = 0
      BY <1>2, <2>1, Cards, Zenon
    <2> QED  BY <2>2, <2>4
  <1> QED  BY <1>4, <1>5, <1>6 DEF InCount

-----------------------------------------------------------------------------
(* No count goes below zero. *)

LEMMA NaturalStep == ASSUME OneCore, IInv, Natural, [Next]_vars PROVE Natural'
  <1>1. PICK kind, at, depth, len : Full(kind, at, depth, len)
    BY DEF IInv
  <1>2. len \in [Cpus -> Nat] /\ OwnCount(len) /\ OtherCount(len)
    BY <1>1 DEF Full, Inv, Counts
  <1> USE CpuFacts DEF Natural, Goto
  <1>3. ASSUME NEW c \in Ctx, AllocStoreCount(c) PROVE Natural'
    <2>1. cnt[c] - 1 \in Nat
      BY <1>2, <1>3 DEF AllocStoreCount, OwnCount
    <2> QED  BY <1>3, <2>1 DEF AllocStoreCount, Return
  <1>4. ASSUME NEW c \in Ctx, FreeStoreCount(c) PROVE Natural'
    BY <1>4 DEF FreeStoreCount, Return
  <1>5. ASSUME NEW c \in Ctx, StealCount(c) PROVE Natural'
    <2>1. PICK v \in Cpus : v = victim[c] /\ v # CpuOf[c] /\ pc[c] = "steal_count"
      BY <1>5 DEF StealCount, IInv, Locals, Stealing
    <2>2. \A d \in Ctx : CpuOf[d] # v
      BY <2>1 DEF OneCore
    <2>3. c \in Thieves(v) /\ IsFiniteSet(Thieves(v))
      BY <2>1, ThievesFinite DEF Thieves
    <2>4. Cardinality(Thieves(v)) \in Nat \ {0}
      BY <2>3, FS_CardinalityType, FS_EmptySet
    <2>5. count[v] - 1 \in Nat
      BY <1>2, <2>2, <2>4 DEF OtherCount
    <2> QED  BY <1>5, <2>1, <2>5 DEF StealCount, Return
  <1>6. ASSUME NEW c \in Ctx, ReadStep(c) PROVE Natural'
    BY <1>6 DEF ReadStep, AllocEmpty, AllocReadHead, AllocReadNext, AllocLoadCount, FreeLoadCount,
                StealFail, StealSkip, StealPick, StealNoHead, StealReadHead, StealReadNext, StealLost,
                shards, locals, Return
  <1>7. ASSUME NEW c \in Ctx,
               \/ AllocSetHead(c) \/ FreeSetLink(c) \/ FreeSetHead(c) \/ StealCas(c)
               \/ \E p \in Pages : FreeReadHead(c, p)
        PROVE  Natural'
    BY <1>7 DEF AllocSetHead, FreeSetLink, FreeSetHead, StealCas, FreeReadHead, shards, locals
  <1>8. CASE \E p \in Pages, w \in Ptrs : WriteWord(p, w)
    BY <1>8 DEF WriteWord, shards, locals
  <1>9. CASE UNCHANGED vars
    BY <1>9 DEF vars, shards, locals
  <1> QED  BY <1>3, <1>4, <1>5, <1>6, <1>7, <1>8, <1>9
           DEF Next, alloc, free, steal_from_remote, ReadStep

LEMMA OtherOwing ==
  ASSUME NEW k \in Cpus, \A c \in Ctx : CpuOf[c] # k, NEW S
  PROVE  Cardinality(Owing(k, S)) = 0
  <1>1. Owing(k, S) = {}
    BY DEF Owing
  <1> QED  BY <1>1, Cards, Zenon

LEMMA InvCountExact == ASSUME OneCore, IInv, Natural PROVE CountExact
  <1>1. PICK kind, at, depth, len : Full(kind, at, depth, len)
    BY DEF IInv
  <1>2. ASSUME NEW k \in Cpus
        PROVE  count[k] = Cardinality(FreeList(k))
                               + Cardinality(Owing(k, {"alloc_load", "alloc_store"}))
                               - Cardinality(Owing(k, {"free_load", "free_store"}))
                               + Cardinality(Thieves(k))
    <2>1. Cardinality(FreeList(k)) = len[k] /\ len[k] \in Nat
      BY <1>1, WalkMeetsShard, ShardSize
    <2>2. CASE \E b \in Ctx : CpuOf[b] = k
      <3>1. PICK b \in Ctx : k = CpuOf[b]
        BY <2>2
      <3>2. len \in [Cpus -> Nat] /\ OwnCount(len)
        BY <1>1 DEF Full, Inv, Counts
      <3> QED  BY <2>1, <3>1, <3>2, OwnOwing
    <2>3. CASE \A b \in Ctx : CpuOf[b] # k
      <3>1. count[k] = len[k] + Cardinality(Thieves(k))
        BY <1>1, <2>3 DEF Full, Inv, Counts, OtherCount
      <3>2. Cardinality(Thieves(k)) \in Nat
        BY ThievesFinite, FS_CardinalityType
      <3>3. /\ Cardinality(Owing(k, {"alloc_load", "alloc_store"})) = 0
            /\ Cardinality(Owing(k, {"free_load", "free_store"})) = 0
        BY <2>3, OtherOwing
      <3> QED  BY <2>1, <3>1, <3>2, <3>3
    <2> QED  BY <2>2, <2>3
  <1>3. TypeOK
    BY DEF IInv, Types, Natural, TypeOK
  <1> QED  BY <1>2, <1>3 DEF CountExact, Thieves

-----------------------------------------------------------------------------
(* The theorems. *)

(* The inductive invariant of alloc, free and steal_from_remote holds in    *)
(* every state of every behaviour.                                          *)
THEOREM Inductive == ASSUME OneCore PROVE Spec => [](IInv /\ Natural)
  <1>1. Init => IInv /\ Natural
    BY InitInv
  <1>2. (IInv /\ Natural) /\ [Next]_vars => (IInv /\ Natural)'
    BY StepInv, NaturalStep
  <1> QED  BY <1>1, <1>2, PTL DEF Spec

(* Every page is with one caller, inside one call or on one shard's list:   *)
(* no interrupt, and no race of two thieves on one victim, makes alloc hand *)
(* out a page in use, or loses one.                                         *)
THEOREM Exclusive == ASSUME OneCore PROVE Spec => []OneHolder
  <1>1. IInv => OneHolder
    BY InvOneHolder
  <1> QED  BY <1>1, Inductive, PTL

(* A shard's count is the length of its list but for the calls that still   *)
(* owe it an update, and never negative.                                    *)
THEOREM Counted == ASSUME OneCore PROVE Spec => []CountExact
  <1>1. IInv /\ Natural => CountExact
    BY InvCountExact
  <1> QED  BY <1>1, Inductive, PTL

(* A steal's compare-and-swap that can succeed installs the link the        *)
(* victim's first page holds now, although it was read with interrupts      *)
(* enabled and from a page another thief may have handed out.               *)
THEOREM StealsSound == ASSUME OneCore PROVE Spec => []StealSound
  <1>1. IInv => StealSound
    BY InvStealSound
  <1> QED  BY <1>1, Inductive, PTL

LEMMA GrantPool ==
  ASSUME IInv, NEW c \in Ctx, pc[c] \in Transit, Grant(page[c]) PROVE Pool!PoolNext
  <1>1. page[c] \in Pages
    BY DEF IInv, Locals, Transit
  <1>2. owners[page[c]] = 0
    BY <1>1 DEF IInv, Full, Inv, Holders
  <1>3. Pool!Take(page[c])
    BY <1>2 DEF Grant, Pool!Take
  <1> QED  BY <1>1, <1>3 DEF Pool!PoolNext

LEMMA FreePool ==
  ASSUME IInv, NEW c \in Ctx, NEW p \in Pages, FreeReadHead(c, p) PROVE Pool!PoolNext
  <1>1. owners[p] = 1
    BY DEF FreeReadHead, IInv, Full, Inv, Holders
  <1>2. Pool!Give(p)
    BY <1>1 DEF FreeReadHead, Pool!Give
  <1> QED  BY <1>2 DEF Pool!PoolNext

(* The page allocator implements the pool of AllocPool: a caller of alloc   *)
(* may reason as if it atomically took a page nobody holds.                 *)
THEOREM Refinement == ASSUME OneCore PROVE Spec => ImplementsPool
  <1>1. Init => Pool!PoolInit
    BY DEF Init, Pool!PoolInit
  <1>2. IInv /\ [Next]_vars => [Pool!PoolNext]_owners
    <2> SUFFICES ASSUME IInv, [Next]_vars PROVE [Pool!PoolNext]_owners
      OBVIOUS
    <2>1. ASSUME NEW c \in Ctx, alloc(c) PROVE [Pool!PoolNext]_owners
      <3>1. CASE AllocStoreCount(c)
        BY <3>1, GrantPool DEF AllocStoreCount, Goto, Transit
      <3>2. CASE ~ AllocStoreCount(c)
        BY <2>1, <3>2 DEF alloc, AllocEmpty, AllocReadHead, AllocReadNext, AllocSetHead, AllocLoadCount
      <3> QED  BY <3>1, <3>2
    <2>2. ASSUME NEW c \in Ctx, free(c) PROVE [Pool!PoolNext]_owners
      <3>1. CASE \E p \in Pages : FreeReadHead(c, p)
        BY <3>1, FreePool
      <3>2. CASE FreeSetLink(c) \/ FreeSetHead(c) \/ FreeLoadCount(c) \/ FreeStoreCount(c)
        BY <3>2 DEF FreeSetLink, FreeSetHead, FreeLoadCount, FreeStoreCount
      <3> QED  BY <2>2, <3>1, <3>2 DEF free
    <2>3. ASSUME NEW c \in Ctx, steal_from_remote(c) PROVE [Pool!PoolNext]_owners
      <3>1. CASE StealCount(c)
        BY <3>1, GrantPool DEF StealCount, Goto, Transit
      <3>2. CASE ~ StealCount(c)
        BY <2>3, <3>2 DEF steal_from_remote, StealFail, StealSkip, StealPick, StealNoHead,
                          StealReadHead, StealReadNext, StealCas, StealLost
      <3> QED  BY <3>1, <3>2
    <2>4. CASE UNCHANGED vars \/ \E p \in Pages, w \in Ptrs : WriteWord(p, w)
      BY <2>4 DEF vars, WriteWord
    <2> QED  BY <2>1, <2>2, <2>3, <2>4 DEF Next
  <1> QED  BY <1>1, <1>2, Inductive, PTL DEF Spec, ImplementsPool, Pool!PoolSpec
=============================================================================
