-------------------------- MODULE SlabTreiberProofs ---------------------------
(***************************************************************************)
(* Proofs about SlabTreiber, for any number of contexts, cores and slots   *)
(* and any interleaving, as long as no core's i32 bump counter wraps.      *)
(***************************************************************************)
EXTENDS SlabTreiber, CommonLemmas, TLAPS

\* The counter of no core is incremented past the largest i32.
NoWrap == FRESH_BOUND <= INT_MAX

FreshOK == \A k \in Cpus : fresh_count[k] \in 0 .. FRESH_BOUND
ArgOK   == \A c \in Pushing : arg[c] \in Slots

IInv == /\ TypeOK
        /\ FreshOK
        /\ ArgOK
        /\ ExclusiveOwnership
        /\ LinksWellFormed
        /\ CasSound
        /\ Conservation

-----------------------------------------------------------------------------
(* The partition of the region among the cores (init_cores). *)

LEMMA ShareFacts == /\ SLOTS_PER_CORE \in Nat
                    /\ NUM_CPUS * SLOTS_PER_CORE <= MAX_SLOTS
  BY CpuAssumption, SlotAssumption DEF SLOTS_PER_CORE

LEMMA TimesMono ==
  ASSUME NEW a \in Nat, NEW b \in Nat, NEW s \in Nat, a <= b
  PROVE  a * s <= b * s
  OBVIOUS

LEMMA OffsetNat ==
  ASSUME NEW k \in Cpus
  PROVE  /\ core_offset(k) \in Nat
         /\ core_offset(k) + SLOTS_PER_CORE = (k + 1) * SLOTS_PER_CORE
  BY ShareFacts, CpuAssumption DEF Cpus, core_offset

\* The shares of two cores do not overlap.
LEMMA ShareOrder ==
  ASSUME NEW a \in Cpus, NEW b \in Cpus, a < b
  PROVE  core_offset(a) + SLOTS_PER_CORE <= core_offset(b)
  <1>1. (a + 1) * SLOTS_PER_CORE <= b * SLOTS_PER_CORE
    BY TimesMono, ShareFacts, CpuAssumption DEF Cpus
  <1> QED  BY <1>1, OffsetNat, ShareFacts DEF core_offset

LEMMA OffsetInRegion ==
  ASSUME NEW k \in Cpus, NEW i \in 0 .. SLOTS_PER_CORE - 1
  PROVE  core_offset(k) + i \in Slots
  <1>1. (k + 1) * SLOTS_PER_CORE <= NUM_CPUS * SLOTS_PER_CORE
    BY TimesMono, ShareFacts, CpuAssumption DEF Cpus
  <1>2. core_offset(k) + SLOTS_PER_CORE <= MAX_SLOTS
    BY <1>1, ShareFacts, OffsetNat, CpuAssumption, SlotAssumption DEF Cpus
  <1> QED  BY <1>2, OffsetNat, ShareFacts, SlotAssumption DEF Slots

LEMMA OffsetInjective ==
  ASSUME NEW k \in Cpus, NEW m \in Cpus,
         NEW i \in 0 .. SLOTS_PER_CORE - 1, NEW j \in 0 .. SLOTS_PER_CORE - 1,
         core_offset(k) + i = core_offset(m) + j
  PROVE  k = m /\ i = j
  <1>1. core_offset(k) \in Nat /\ core_offset(m) \in Nat /\ k \in Nat /\ m \in Nat
    BY OffsetNat, CpuAssumption DEF Cpus
  <1>2. k = m
    BY <1>1, ShareOrder, ShareFacts
  <1> QED  BY <1>1, <1>2, ShareFacts

LEMMA SlotsAreAddrs == /\ Slots \subseteq Addrs
                       /\ NULL \notin Addrs
                       /\ Addrs \subseteq Int
  BY SlotAssumption, BoundAssumption, NullAssumption DEF Slots, Addrs

LEMMA CpuOfType == \A c \in Ctx : CpuOf[c] \in Cpus
  BY CpuOfAssumption DEF Cpus

-----------------------------------------------------------------------------
\* The boot state of the shards satisfies the invariant.
LEMMA InitInv == ASSUME NoWrap PROVE Init => IInv
  <1> SUFFICES ASSUME Init PROVE IInv
    OBVIOUS
  <1> USE DEF Init
  <1>1. TypeOK
    BY SlotsAreAddrs DEF TypeOK, Ptrs, PCs
  <1>2. FreshOK /\ ArgOK
    BY BoundAssumption DEF FreshOK, ArgOK, Pushing
  <1>3. ExclusiveOwnership /\ LinksWellFormed
    BY DEF ExclusiveOwnership, LinksWellFormed, Pushing, Held
  <1>4. CasSound
    <2> SUFFICES ASSUME NEW c \in Ctx
                 PROVE  /\ cur_gen[c] <= head_gen[CpuOf[c]]
                        /\ pc[c] \notin {"pop_cas", "push_cas"}
      BY DEF CasSound
    <2>1. cur_gen[c] = 0 /\ head_gen[CpuOf[c]] = 0 /\ pc[c] = "idle"
      BY CpuOfType
    <2> QED  BY <2>1
  <1>5. Conservation
    BY DEF Conservation, Issued, Held, Pushing
  <1> QED  BY <1>1, <1>2, <1>3, <1>4, <1>5 DEF IInv

-----------------------------------------------------------------------------
(* One lemma per step of the two operations: each preserves IInv. *)

LEMMA PopReadPtrInv ==
  ASSUME NoWrap, IInv, NEW c \in Ctx, PopReadPtr(c) PROVE IInv'
  <1> USE CpuOfType DEF IInv, PopReadPtr, Goto, shards
  <1>1. TypeOK'
    BY DEF TypeOK, PCs
  <1>2. FreshOK' /\ Pushing' = Pushing /\ Held' = Held
    BY DEF FreshOK, TypeOK, Pushing, Held
  <1>3. ArgOK' /\ ExclusiveOwnership' /\ LinksWellFormed'
    BY <1>2 DEF ArgOK, ExclusiveOwnership, LinksWellFormed
  <1>4. CasSound'
    BY DEF CasSound, CasMatches, TypeOK
  <1>5. Conservation'
    BY <1>2 DEF Conservation, Issued
  <1> QED  BY <1>1, <1>2, <1>3, <1>4, <1>5

LEMMA PopReadGenInv ==
  ASSUME NoWrap, IInv, NEW c \in Ctx, PopReadGen(c) PROVE IInv'
  <1> USE CpuOfType DEF IInv, PopReadGen, Goto, shards
  <1>1. TypeOK'
    BY DEF TypeOK, PCs
  <1>2. FreshOK' /\ Pushing' = Pushing /\ Held' = Held
    BY DEF FreshOK, TypeOK, Pushing, Held
  <1>3. ArgOK' /\ ExclusiveOwnership' /\ LinksWellFormed'
    BY <1>2 DEF ArgOK, ExclusiveOwnership, LinksWellFormed
  <1>4. CasSound'
    BY DEF CasSound, CasMatches, TypeOK
  <1>5. Conservation'
    BY <1>2 DEF Conservation, Issued
  <1> QED  BY <1>1, <1>2, <1>3, <1>4, <1>5

LEMMA PopReadLinkInv ==
  ASSUME NoWrap, IInv, NEW c \in Ctx, PopReadLink(c) PROVE IInv'
  <1> USE CpuOfType DEF IInv, PopReadLink, Goto, shards
  <1>1. TypeOK'
    BY DEF TypeOK, PCs, Ptrs
  <1>2. FreshOK' /\ Pushing' = Pushing /\ Held' = Held
    BY DEF FreshOK, TypeOK, Pushing, Held
  <1>3. ArgOK' /\ ExclusiveOwnership' /\ LinksWellFormed'
    BY <1>2 DEF ArgOK, ExclusiveOwnership, LinksWellFormed
  <1>4. CasSound'
    BY DEF CasSound, CasMatches, TypeOK
  <1>5. Conservation'
    BY <1>2 DEF Conservation, Issued
  <1> QED  BY <1>1, <1>2, <1>3, <1>4, <1>5

LEMMA RetryInv ==
  ASSUME NoWrap, IInv, NEW c \in Ctx, PopRetry(c) \/ PushRetry(c) PROVE IInv'
  <1> USE CpuOfType DEF IInv, PopRetry, PushRetry, ReloadHead, Goto, shards
  <1>1. TypeOK'
    BY DEF TypeOK, PCs
  <1>2. FreshOK' /\ Pushing' = Pushing /\ Held' = Held
    BY DEF FreshOK, TypeOK, Pushing, Held
  <1>3. ArgOK' /\ ExclusiveOwnership' /\ LinksWellFormed'
    BY <1>2 DEF ArgOK, ExclusiveOwnership, LinksWellFormed
  <1>4. CasSound'
    BY DEF CasSound, CasMatches, TypeOK
  <1>5. Conservation'
    BY <1>2 DEF Conservation, Issued
  <1> QED  BY <1>1, <1>2, <1>3, <1>4, <1>5

\* The bump counter hands out a slot that was never in circulation.
LEMMA PopFreshInv ==
  ASSUME NoWrap, IInv, NEW c \in Ctx, PopFresh(c) PROVE IInv'
  <1> USE CpuOfType DEF IInv
  <1> DEFINE k    == CpuOf[c]
             idx  == fresh_count[k]
             slot == core_offset(k) + idx
  <1>1. /\ k \in Cpus /\ idx \in Nat /\ idx < FRESH_BOUND
        /\ fresh_count' = [fresh_count EXCEPT ![k] = idx + 1]
        /\ fresh_count'[k] = idx + 1
        /\ \A m \in Cpus \ {k} : fresh_count'[m] = fresh_count[m]
    <2>1. k \in Cpus /\ idx \in Nat
      BY BoundAssumption DEF FreshOK
    <2>2. idx < FRESH_BOUND /\ fresh_count' = [fresh_count EXCEPT ![k] = Inc32(idx)]
      BY DEF PopFresh
    <2>3. Inc32(idx) = idx + 1
      BY <2>1, <2>2, BoundAssumption DEF NoWrap, Inc32
    <2> QED  BY <2>1, <2>2, <2>3 DEF TypeOK
  <1>2. Pushing' = Pushing /\ \A d \in Pushing : arg'[d] = arg[d]
    BY DEF PopFresh, Goto, Pushing, TypeOK, Return
  <1>3. FreshOK' /\ ArgOK'
    BY <1>1, <1>2, BoundAssumption DEF FreshOK, ArgOK, TypeOK
  <1>4. LinksWellFormed'
    BY DEF PopFresh, LinksWellFormed
  <1>5. CasSound'
    BY DEF PopFresh, Goto, Return, CasSound, CasMatches, TypeOK
  <1>6. CASE idx >= SLOTS_PER_CORE
    <2>1. owners' = owners /\ Held' = Held
      BY <1>6 DEF PopFresh, Held
    <2>2. TypeOK'
      <3>1. fresh_count' \in [Cpus -> Int]
        BY <1>1 DEF TypeOK
      <3> QED  BY <2>1, <3>1 DEF PopFresh, Goto, Return, TypeOK, PCs, Ptrs
    <2>3. ExclusiveOwnership'
      BY <1>2, <2>1 DEF PopFresh, ExclusiveOwnership
    <2>4. ASSUME NEW a PROVE Issued(a)' <=> Issued(a)
      BY <1>1, <1>6, ShareFacts, OffsetNat DEF Issued, FreshOK
    <2>5. Conservation'
      BY <1>2, <2>1, <2>4 DEF PopFresh, Conservation
    <2> QED  BY <1>3, <1>4, <1>5, <2>2, <2>3, <2>5
  <1>7. CASE idx < SLOTS_PER_CORE
    <2>1. /\ idx \in 0 .. SLOTS_PER_CORE - 1
          /\ slot \in Slots /\ slot \in Addrs
      <3>1. idx \in 0 .. SLOTS_PER_CORE - 1
        BY <1>1, <1>7, ShareFacts
      <3> HIDE DEF idx, k
      <3>2. core_offset(k) + idx \in Slots
        BY <1>1, <3>1, OffsetInRegion
      <3> QED  BY <3>1, <3>2, SlotsAreAddrs
    <2>2. owners' = [owners EXCEPT ![slot] = owners[slot] + 1]
      BY <1>1, <1>7, ShareFacts DEF PopFresh
    <2>3. ~ Issued(slot)
      BY <1>1, <2>1, OffsetInjective DEF Issued
    <2>4. /\ slot \notin Held
          /\ \A d \in Pushing : arg[d] # slot
          /\ \A m \in Cpus : slot \notin chain[m]
      BY <2>1, <2>3 DEF Conservation
    <2>5. owners[slot] = 0
      BY <2>1, <2>4 DEF Held, TypeOK
    <2>6. TypeOK'
      BY <1>1, <2>1, <2>2 DEF PopFresh, Goto, Return, TypeOK, PCs, Ptrs
    <2>7. Held' = Held \cup {slot}
      BY <2>1, <2>2, <2>5 DEF Held, TypeOK
    <2>8. ExclusiveOwnership'
      <3>1. \A a \in Addrs : owners'[a] <= 1
        BY <2>1, <2>2, <2>5 DEF ExclusiveOwnership, TypeOK
      <3>2. \A d \in Pushing : arg'[d] \notin Held'
        BY <1>2, <2>4, <2>7 DEF ExclusiveOwnership
      <3>3. \A m \in Cpus : chain[m] \cap Held' = {}
        BY <2>4, <2>7 DEF ExclusiveOwnership
      <3> QED  BY <1>2, <3>1, <3>2, <3>3 DEF PopFresh, ExclusiveOwnership
    <2>9. ASSUME NEW a PROVE Issued(a)' <=> Issued(a) \/ a = slot
      BY <1>1, <2>1 DEF Issued, FreshOK
    <2>10. Conservation'
      BY <1>2, <2>7, <2>9 DEF PopFresh, Conservation
    <2> QED  BY <1>3, <1>4, <1>5, <2>6, <2>8, <2>10
  <1> QED  BY <1>1, <1>6, <1>7, ShareFacts

\* A matching generation means the head, and its link, are as they were read.
LEMMA PopCasInv ==
  ASSUME NoWrap, IInv, NEW c \in Ctx, PopCas(c) PROVE IInv'
  <1> USE CpuOfType DEF IInv
  <1> DEFINE k == CpuOf[c]
             p == cur_ptr[c]
  <1>1. /\ k \in Cpus /\ p # NULL /\ head_ptr[k] = p /\ head_gen[k] = cur_gen[c]
        /\ p \in chain[k] /\ p \in Addrs /\ next_ptr[c] = link[p]
    BY DEF PopCas, Goto, CasMatches, CasSound, LinksWellFormed, TypeOK
  <1>2. /\ head_ptr' = [head_ptr EXCEPT ![k] = link[p]]
        /\ head_gen' = [head_gen EXCEPT ![k] = head_gen[k] + 1]
        /\ chain' = [chain EXCEPT ![k] = chain[k] \ {p}]
        /\ owners' = [owners EXCEPT ![p] = owners[p] + 1]
        /\ link' = link /\ fresh_count' = fresh_count
    BY <1>1 DEF PopCas, SwapHead
  <1>3. Pushing' = Pushing /\ \A d \in Pushing : arg'[d] = arg[d]
    BY DEF PopCas, Goto, Pushing, TypeOK, Return
  <1>4. owners[p] = 0 /\ p \notin Held
    BY <1>1 DEF ExclusiveOwnership, Held, TypeOK
  <1>5. TypeOK'
    BY <1>1, <1>2 DEF PopCas, Goto, Return, TypeOK, PCs, Ptrs
  <1>6. FreshOK' /\ ArgOK'
    BY <1>2, <1>3 DEF FreshOK, ArgOK
  <1>7. Held' = Held \cup {p}
    BY <1>1, <1>2, <1>4 DEF Held, TypeOK
  <1>8. /\ chain'[k] = chain[k] \ {p}
        /\ \A m \in Cpus \ {k} : chain'[m] = chain[m]
    BY <1>1, <1>2 DEF TypeOK
  <1>9. ExclusiveOwnership'
    <2>1. \A a \in Addrs : owners'[a] <= 1
      BY <1>1, <1>2, <1>4 DEF ExclusiveOwnership, TypeOK
    <2>2. \A d \in Pushing : /\ arg'[d] \notin Held'
                             /\ \A e \in Pushing \ {d} : arg'[e] # arg'[d]
                             /\ \A m \in Cpus : arg'[d] \notin chain'[m]
      BY <1>1, <1>3, <1>7, <1>8 DEF ExclusiveOwnership
    <2>3. \A m \in Cpus : /\ chain'[m] \cap Held' = {}
                          /\ \A n \in Cpus \ {m} : chain'[m] \cap chain'[n] = {}
      BY <1>1, <1>7, <1>8 DEF ExclusiveOwnership
    <2> QED  BY <1>3, <2>1, <2>2, <2>3 DEF ExclusiveOwnership
  <1>10. LinksWellFormed'
    <2>1. /\ link[p] \in chain'[k] \cup {NULL}
          /\ \A a \in chain'[k] : link[a] \in chain'[k] \cup {NULL}
          /\ \A a \in chain'[k] : link[a] # NULL => link[a] # link[p]
      BY <1>1, <1>8 DEF LinksWellFormed
    <2>2. head_ptr'[k] = link[p] /\ \A m \in Cpus \ {k} : head_ptr'[m] = head_ptr[m]
      BY <1>1, <1>2 DEF TypeOK
    <2> QED  BY <1>2, <1>8, <2>1, <2>2 DEF LinksWellFormed
  <1>11. CasSound'
    <2>1. /\ head_gen'[k] = head_gen[k] + 1
          /\ \A m \in Cpus \ {k} : head_gen'[m] = head_gen[m] /\ head_ptr'[m] = head_ptr[m]
      BY <1>1, <1>2 DEF TypeOK
    <2>2. ASSUME NEW d \in Ctx
          PROVE  /\ cur_gen'[d] <= head_gen'[CpuOf[d]]
                 /\ pc'[d] = "pop_cas" =>
                       /\ cur_ptr'[d] # NULL
                       /\ CasMatches(d)' => next_ptr'[d] = link'[cur_ptr'[d]]
                 /\ pc'[d] = "push_cas" => link'[arg'[d]] = cur_ptr'[d]
      <3>1. CASE d = c
        BY <3>1, <2>1 DEF PopCas, Goto, Return, CasSound, TypeOK
      <3>2. CASE d # c
        <4>1. /\ pc'[d] = pc[d] /\ cur_ptr'[d] = cur_ptr[d] /\ cur_gen'[d] = cur_gen[d]
              /\ next_ptr'[d] = next_ptr[d] /\ arg'[d] = arg[d]
          BY <3>2 DEF PopCas, Goto, Return, TypeOK
        <4>2. cur_gen[d] <= head_gen[CpuOf[d]] /\ cur_gen[d] \in Nat /\ head_gen[k] \in Nat
          BY <1>1 DEF CasSound, TypeOK
        <4>3. CasMatches(d)' => CasMatches(d)
          BY <2>1, <4>1, <4>2 DEF CasMatches
        <4> QED  BY <1>2, <2>1, <4>1, <4>2, <4>3 DEF CasSound
      <3> QED  BY <3>1, <3>2
    <2> QED  BY <2>2 DEF CasSound
  <1>12. Conservation'
    <2>1. ASSUME NEW a PROVE Issued(a)' <=> Issued(a)
      BY <1>2 DEF Issued
    <2> QED  BY <1>1, <1>3, <1>7, <1>8, <2>1 DEF Conservation
  <1> QED  BY <1>5, <1>6, <1>9, <1>10, <1>11, <1>12

\* The slot leaves its holder and is in nobody's hands but this call's.
LEMMA PushReadPtrInv ==
  ASSUME NoWrap, IInv, NEW c \in Ctx, NEW s \in Addrs, PushReadPtr(c, s) PROVE IInv'
  <1> USE CpuOfType, SlotsAreAddrs DEF IInv
  <1>1. /\ s \in Slots /\ s \in Held /\ owners[s] = 1 /\ c \notin Pushing
        /\ owners' = [owners EXCEPT ![s] = owners[s] - 1]
        /\ link' = link /\ chain' = chain /\ fresh_count' = fresh_count
        /\ head_ptr' = head_ptr /\ head_gen' = head_gen
    BY DEF PushReadPtr, Goto, shards, Held, Pushing, ExclusiveOwnership, TypeOK
  <1>2. Held' = Held \ {s}
    BY <1>1 DEF Held, TypeOK
  <1>3. /\ Pushing' = Pushing \cup {c} /\ arg'[c] = s
        /\ \A d \in Pushing : arg'[d] = arg[d]
    BY <1>1 DEF PushReadPtr, Goto, Pushing, TypeOK
  <1>4. TypeOK'
    BY <1>1 DEF PushReadPtr, Goto, TypeOK, PCs, Ptrs
  <1>5. FreshOK' /\ ArgOK'
    BY <1>1, <1>3 DEF FreshOK, ArgOK
  <1>6. ExclusiveOwnership'
    <2>1. \A a \in Addrs : owners'[a] <= 1
      BY <1>1 DEF ExclusiveOwnership, TypeOK
    <2>2. \A d \in Pushing' : /\ arg'[d] \notin Held'
                              /\ \A e \in Pushing' \ {d} : arg'[e] # arg'[d]
                              /\ \A m \in Cpus : arg'[d] \notin chain[m]
      BY <1>1, <1>2, <1>3 DEF ExclusiveOwnership
    <2>3. \A m \in Cpus : chain[m] \cap Held' = {}
      BY <1>2 DEF ExclusiveOwnership
    <2> QED  BY <1>1, <2>1, <2>2, <2>3 DEF ExclusiveOwnership
  <1>7. LinksWellFormed'
    BY <1>1 DEF LinksWellFormed
  <1>8. CasSound'
    BY <1>1 DEF PushReadPtr, Goto, CasSound, CasMatches, TypeOK
  <1>9. Conservation'
    <2>1. ASSUME NEW a PROVE Issued(a)' <=> Issued(a)
      BY <1>1 DEF Issued
    <2> QED  BY <1>1, <1>2, <1>3, <2>1 DEF Conservation
  <1> QED  BY <1>4, <1>5, <1>6, <1>7, <1>8, <1>9

LEMMA PushReadGenInv ==
  ASSUME NoWrap, IInv, NEW c \in Ctx, PushReadGen(c) PROVE IInv'
  <1> USE CpuOfType DEF IInv, PushReadGen, Goto, shards
  <1>1. TypeOK'
    BY DEF TypeOK, PCs
  <1>2. FreshOK' /\ Pushing' = Pushing /\ Held' = Held
    BY DEF FreshOK, TypeOK, Pushing, Held
  <1>3. ArgOK' /\ ExclusiveOwnership' /\ LinksWellFormed'
    BY <1>2 DEF ArgOK, ExclusiveOwnership, LinksWellFormed
  <1>4. CasSound'
    BY DEF CasSound, CasMatches, TypeOK
  <1>5. Conservation'
    BY <1>2 DEF Conservation, Issued
  <1> QED  BY <1>1, <1>2, <1>3, <1>4, <1>5

\* A write to a slot that is in no core's stack disturbs no link that a
\* compare-and-swap could still rely on.
LEMMA LinkWriteInv ==
  ASSUME IInv, NEW s \in Addrs, NEW v \in Ptrs,
         \A k \in Cpus : s \notin chain[k],
         link' = [link EXCEPT ![s] = v],
         UNCHANGED <<head_ptr, head_gen, chain>>
  PROVE  /\ link' \in [Addrs -> Ptrs]
         /\ LinksWellFormed'
         /\ \A d \in Ctx : CasMatches(d) /\ cur_ptr[d] # NULL =>
                link'[cur_ptr[d]] = link[cur_ptr[d]]
  <1> USE CpuOfType DEF IInv
  <1>1. \A k \in Cpus : \A a \in chain[k] : link'[a] = link[a]
    BY DEF TypeOK
  <1>2. LinksWellFormed'
    BY <1>1 DEF LinksWellFormed
  <1>3. \A d \in Ctx : CasMatches(d) /\ cur_ptr[d] # NULL => cur_ptr[d] \in chain[CpuOf[d]]
    BY DEF CasMatches, LinksWellFormed
  <1> QED  BY <1>1, <1>2, <1>3 DEF TypeOK

LEMMA PushLinkInv ==
  ASSUME NoWrap, IInv, NEW c \in Ctx, PushLink(c) PROVE IInv'
  <1> USE CpuOfType, SlotsAreAddrs DEF IInv
  <1>1. /\ c \in Pushing /\ arg[c] \in Addrs /\ cur_ptr[c] \in Ptrs
        /\ \A k \in Cpus : arg[c] \notin chain[k]
    BY DEF PushLink, Goto, Pushing, ArgOK, ExclusiveOwnership, TypeOK
  <1>2. /\ link' = [link EXCEPT ![arg[c]] = cur_ptr[c]]
        /\ UNCHANGED <<head_ptr, head_gen, chain, fresh_count, present,
                       cur_ptr, cur_gen, next_ptr, arg, owners>>
    BY DEF PushLink, shards, locals
  <1>3. /\ link' \in [Addrs -> Ptrs] /\ LinksWellFormed'
        /\ \A d \in Ctx : CasMatches(d) /\ cur_ptr[d] # NULL =>
               link'[cur_ptr[d]] = link[cur_ptr[d]]
    BY <1>1, <1>2, LinkWriteInv
  <1>4. TypeOK'
    BY <1>2, <1>3 DEF PushLink, Goto, TypeOK, PCs
  <1>5. Pushing' = Pushing /\ Held' = Held
    BY <1>2 DEF PushLink, Goto, Pushing, Held, TypeOK
  <1>6. FreshOK' /\ ArgOK' /\ ExclusiveOwnership'
    BY <1>2, <1>5 DEF FreshOK, ArgOK, ExclusiveOwnership
  <1>7. CasSound'
    <2> SUFFICES ASSUME NEW d \in Ctx
                 PROVE  /\ cur_gen'[d] <= head_gen'[CpuOf[d]]
                        /\ pc'[d] = "pop_cas" =>
                             /\ cur_ptr'[d] # NULL
                             /\ CasMatches(d)' => next_ptr'[d] = link'[cur_ptr'[d]]
                        /\ pc'[d] = "push_cas" => link'[arg'[d]] = cur_ptr'[d]
      BY DEF CasSound
    <2>1. CasMatches(d)' <=> CasMatches(d)
      BY <1>2 DEF CasMatches
    <2>2. CASE d = c
      BY <2>2, <1>1, <1>2 DEF PushLink, Goto, CasSound, TypeOK
    <2>3. CASE d # c
      <3>1. pc'[d] = pc[d]
        BY <2>3 DEF PushLink, Goto, TypeOK
      <3>2. pc[d] = "push_cas" => d \in Pushing /\ arg[d] # arg[c]
        BY <2>3, <1>1 DEF ExclusiveOwnership, Pushing
      <3>3. pc[d] = "push_cas" => link'[arg[d]] = link[arg[d]]
        BY <3>2, <1>1, <1>2 DEF ArgOK, TypeOK
      <3> QED  BY <1>2, <1>3, <2>1, <3>1, <3>3 DEF CasSound
    <2> QED  BY <2>2, <2>3
  <1>8. Conservation'
    BY <1>2, <1>5 DEF Conservation, Issued
  <1> QED  BY <1>3, <1>4, <1>6, <1>7, <1>8

LEMMA PushCasInv ==
  ASSUME NoWrap, IInv, NEW c \in Ctx, PushCas(c) PROVE IInv'
  <1> USE CpuOfType, SlotsAreAddrs DEF IInv
  <1> DEFINE k == CpuOf[c]
             s == arg[c]
  <1>1. /\ k \in Cpus /\ c \in Pushing /\ s \in Addrs /\ s # NULL
        /\ link[s] = head_ptr[k] /\ head_gen[k] = cur_gen[c]
        /\ s \notin Held /\ \A m \in Cpus : s \notin chain[m]
    BY DEF PushCas, Goto, CasMatches, CasSound, Pushing, ArgOK, ExclusiveOwnership
  <1>2. /\ head_ptr' = [head_ptr EXCEPT ![k] = s]
        /\ head_gen' = [head_gen EXCEPT ![k] = head_gen[k] + 1]
        /\ chain' = [chain EXCEPT ![k] = chain[k] \cup {s}]
        /\ owners' = owners /\ link' = link /\ fresh_count' = fresh_count
    BY DEF PushCas, SwapHead
  <1>3. Pushing' = Pushing \ {c} /\ \A d \in Pushing \ {c} : arg'[d] = arg[d]
    BY DEF PushCas, Goto, Pushing, TypeOK, Return
  <1>4. Held' = Held
    BY <1>2 DEF Held
  <1>5. TypeOK'
    BY <1>1, <1>2 DEF PushCas, Goto, Return, TypeOK, PCs, Ptrs
  <1>6. FreshOK' /\ ArgOK'
    BY <1>2, <1>3 DEF FreshOK, ArgOK
  <1>7. /\ chain'[k] = chain[k] \cup {s}
        /\ \A m \in Cpus \ {k} : chain'[m] = chain[m]
        /\ head_ptr'[k] = s /\ \A m \in Cpus \ {k} : head_ptr'[m] = head_ptr[m]
        /\ head_gen'[k] = head_gen[k] + 1
        /\ \A m \in Cpus \ {k} : head_gen'[m] = head_gen[m]
    BY <1>1, <1>2 DEF TypeOK
  <1>8. ExclusiveOwnership'
    <2>1. \A d \in Pushing' : /\ arg'[d] \notin Held
                              /\ \A e \in Pushing' \ {d} : arg'[e] # arg'[d]
                              /\ \A m \in Cpus : arg'[d] \notin chain'[m]
      BY <1>1, <1>3, <1>7 DEF ExclusiveOwnership
    <2>2. \A m \in Cpus : /\ chain'[m] \cap Held = {}
                          /\ \A n \in Cpus \ {m} : chain'[m] \cap chain'[n] = {}
      BY <1>1, <1>7 DEF ExclusiveOwnership
    <2> QED  BY <1>2, <1>4, <2>1, <2>2 DEF ExclusiveOwnership
  <1>9. LinksWellFormed'
    <2>1. /\ \A a \in chain[k] : link[a] # s
          /\ \A a \in chain[k] : link[a] # NULL => link[a] # link[s]
      BY <1>1 DEF LinksWellFormed
    <2>2. link[s] \in chain[k] \cup {NULL} /\ link[s] # s
      BY <1>1 DEF LinksWellFormed
    <2> QED  BY <1>2, <1>7, <2>1, <2>2 DEF LinksWellFormed
  <1>10. CasSound'
    <2>1. ASSUME NEW d \in Ctx
          PROVE  /\ cur_gen'[d] <= head_gen'[CpuOf[d]]
                 /\ pc'[d] = "pop_cas" =>
                       /\ cur_ptr'[d] # NULL
                       /\ CasMatches(d)' => next_ptr'[d] = link'[cur_ptr'[d]]
                 /\ pc'[d] = "push_cas" => link'[arg'[d]] = cur_ptr'[d]
      <3>1. CASE d = c
        BY <3>1, <1>7 DEF PushCas, Goto, Return, CasSound, TypeOK
      <3>2. CASE d # c
        <4>1. /\ pc'[d] = pc[d] /\ cur_ptr'[d] = cur_ptr[d] /\ cur_gen'[d] = cur_gen[d]
              /\ next_ptr'[d] = next_ptr[d] /\ arg'[d] = arg[d]
          BY <3>2 DEF PushCas, Goto, Return, TypeOK
        <4>2. cur_gen[d] <= head_gen[CpuOf[d]] /\ cur_gen[d] \in Nat /\ head_gen[k] \in Nat
          BY <1>1 DEF CasSound, TypeOK
        <4>3. CasMatches(d)' => CasMatches(d)
          BY <1>7, <4>1, <4>2 DEF CasMatches
        <4> QED  BY <1>2, <1>7, <4>1, <4>2, <4>3 DEF CasSound
      <3> QED  BY <3>1, <3>2
    <2> QED  BY <2>1 DEF CasSound
  <1>11. Conservation'
    <2>1. ASSUME NEW a PROVE Issued(a)' <=> Issued(a)
      BY <1>2 DEF Issued
    <2> QED  BY <1>1, <1>3, <1>4, <1>7, <2>1 DEF Conservation
  <1> QED  BY <1>5, <1>6, <1>8, <1>9, <1>10, <1>11

LEMMA OwnerWriteInv ==
  ASSUME NoWrap, IInv, NEW s \in Addrs, NEW v \in Slots \cup {NULL}, OwnerWrite(s, v)
  PROVE  IInv'
  <1> USE CpuOfType, SlotsAreAddrs DEF IInv
  <1>1. /\ s \in Held /\ v \in Ptrs
        /\ \A k \in Cpus : s \notin chain[k]
        /\ \A d \in Pushing : arg[d] # s
    BY DEF OwnerWrite, Held, ExclusiveOwnership, Ptrs
  <1>2. /\ link' = [link EXCEPT ![s] = v]
        /\ UNCHANGED <<head_ptr, head_gen, chain, fresh_count, present, pc,
                       cur_ptr, cur_gen, next_ptr, arg, owners>>
    BY DEF OwnerWrite, shards, locals
  <1>3. /\ link' \in [Addrs -> Ptrs] /\ LinksWellFormed'
        /\ \A d \in Ctx : CasMatches(d) /\ cur_ptr[d] # NULL =>
               link'[cur_ptr[d]] = link[cur_ptr[d]]
    BY <1>1, <1>2, LinkWriteInv
  <1>4. TypeOK' /\ Pushing' = Pushing /\ Held' = Held
    BY <1>2, <1>3 DEF TypeOK, Pushing, Held
  <1>5. FreshOK' /\ ArgOK' /\ ExclusiveOwnership'
    BY <1>2, <1>4 DEF FreshOK, ArgOK, ExclusiveOwnership
  <1>6. \A d \in Pushing : link'[arg[d]] = link[arg[d]]
    BY <1>1, <1>2 DEF ArgOK, TypeOK
  <1>7. CasSound'
    BY <1>2, <1>3, <1>6 DEF CasSound, CasMatches, Pushing
  <1>8. Conservation'
    BY <1>2, <1>4 DEF Conservation, Issued
  <1> QED  BY <1>3, <1>4, <1>5, <1>7, <1>8

LEMMA OwnerGuardInv ==
  ASSUME NoWrap, IInv, NEW s \in Addrs, OwnerGuard(s) PROVE IInv'
  <1> USE DEF IInv, OwnerGuard, shards, locals
  <1>1. TypeOK' /\ Pushing' = Pushing /\ Held' = Held
    BY DEF TypeOK, Pushing, Held
  <1>2. FreshOK' /\ ArgOK' /\ ExclusiveOwnership' /\ LinksWellFormed'
    BY <1>1 DEF FreshOK, ArgOK, ExclusiveOwnership, LinksWellFormed
  <1>3. CasSound' /\ Conservation'
    BY <1>1 DEF CasSound, CasMatches, Conservation, Issued
  <1> QED  BY <1>1, <1>2, <1>3

-----------------------------------------------------------------------------
LEMMA NextInv == ASSUME NoWrap, IInv, [Next]_vars PROVE IInv'
  <1>1. CASE UNCHANGED vars
    BY <1>1 DEF vars, shards, locals, IInv, TypeOK, FreshOK, ArgOK, ExclusiveOwnership,
                LinksWellFormed, CasSound, CasMatches, Conservation, Issued, Held, Pushing
  <1>2. ASSUME NEW c \in Ctx, pop_stack(c) PROVE IInv'
    BY <1>2, PopReadPtrInv, PopReadGenInv, PopFreshInv, PopReadLinkInv, PopCasInv, RetryInv
       DEF pop_stack
  <1>3. ASSUME NEW c \in Ctx, push_stack(c) PROVE IInv'
    BY <1>3, PushReadPtrInv, PushReadGenInv, PushLinkInv, PushCasInv, RetryInv
       DEF push_stack
  <1>4. CASE Owner
    BY <1>4, OwnerWriteInv, OwnerGuardInv DEF Owner
  <1> QED  BY <1>1, <1>2, <1>3, <1>4 DEF Next

(* The inductive invariant of pop_stack and push_stack holds in every state *)
(* of every behaviour.                                                      *)
THEOREM Inductive == ASSUME NoWrap PROVE Spec => []IInv
  <1>1. Init => IInv
    BY InitInv
  <1>2. IInv /\ [Next]_vars => IInv'
    BY NextInv
  <1> QED  BY <1>1, <1>2, PTL DEF Spec

(* Type correctness of the allocator: every variable keeps its type, the    *)
(* pointers the code follows included.                                      *)
THEOREM TypeCorrect == ASSUME NoWrap PROVE Spec => []TypeOK
  <1>1. IInv => TypeOK
    BY DEF IInv
  <1> QED  BY <1>1, Inductive, PTL

(* No slot ever has two holders, whatever contexts interrupt one another in *)
(* pop_stack and push_stack (kernel/mem/slab.salt), on any number of cores. *)
THEOREM Exclusive == ASSUME NoWrap PROVE Spec => []ExclusiveOwnership
  <1>1. IInv => ExclusiveOwnership
    BY DEF IInv
  <1> QED  BY <1>1, Inductive, PTL

(* A compare-and-swap of pop_stack or push_stack succeeds only on a link    *)
(* that is current: the generation defeats ABA.                             *)
THEOREM NoAba == ASSUME NoWrap PROVE Spec => []CasSound
  <1>1. IInv => CasSound
    BY DEF IInv
  <1> QED  BY <1>1, Inductive, PTL

(* The links of a core's stack stay inside it and never merge.              *)
THEOREM WellFormed == ASSUME NoWrap PROVE Spec => []LinksWellFormed
  <1>1. IInv => LinksWellFormed
    BY DEF IInv
  <1> QED  BY <1>1, Inductive, PTL

(* A slot that left the virgin region is with a caller, in a push, or       *)
(* chained: none is lost and none appears from nowhere.                     *)
THEOREM Conserved == ASSUME NoWrap PROVE Spec => []Conservation
  <1>1. IInv => Conservation
    BY DEF IInv
  <1> QED  BY <1>1, Inductive, PTL

-----------------------------------------------------------------------------
LEMMA IssuedInRegion == ASSUME NEW a, Issued(a) PROVE a \in Slots
  BY OffsetInRegion DEF Issued

LEMMA InvRegion == ASSUME IInv PROVE RegionOnly
  BY IssuedInRegion DEF IInv, Conservation, RegionOnly, Held

(* pop_stack never hands out an address outside the slab region, as long as *)
(* the i32 bump counter does not wrap.                                      *)
THEOREM InRegion == ASSUME NoWrap PROVE Spec => []RegionOnly
  <1>1. IInv => RegionOnly
    BY InvRegion
  <1> QED  BY <1>1, Inductive, PTL

LEMMA PopFreshPool ==
  ASSUME NoWrap, IInv, NEW c \in Ctx, PopFresh(c) PROVE [Pool!PoolNext]_owners
  <1> DEFINE k    == CpuOf[c]
             idx  == fresh_count[k]
             slot == core_offset(k) + idx
  <1>1. k \in Cpus /\ idx \in Nat
    BY CpuOfType, BoundAssumption DEF IInv, FreshOK
  <1>2. CASE idx >= SLOTS_PER_CORE
    BY <1>2 DEF PopFresh
  <1>3. CASE idx < SLOTS_PER_CORE
    <2>1. idx \in 0 .. SLOTS_PER_CORE - 1
      BY <1>1, <1>3, ShareFacts
    <2>2. slot \in Slots /\ slot \in Addrs /\ ~ Issued(slot)
      <3> HIDE DEF idx, k
      <3>1. slot \in Slots
        BY <1>1, <2>1, OffsetInRegion
      <3>2. ~ Issued(slot)
        <4> USE DEF idx
        <4> QED  BY <1>1, <2>1, OffsetInjective DEF Issued
      <3> QED  BY <3>1, <3>2, SlotsAreAddrs
    <2>3. owners[slot] = 0
      BY <2>2 DEF IInv, Conservation, Held, TypeOK
    <2>4. owners' = [owners EXCEPT ![slot] = owners[slot] + 1]
      BY <1>1, <1>3, ShareFacts DEF PopFresh
    <2>5. Pool!Take(slot)
      BY <2>3, <2>4 DEF Pool!Take
    <2> QED  BY <2>2, <2>5 DEF Pool!PoolNext
  <1> QED  BY <1>1, <1>2, <1>3, ShareFacts

LEMMA PopCasPool ==
  ASSUME IInv, NEW c \in Ctx, PopCas(c) PROVE Pool!PoolNext
  <1> DEFINE p == cur_ptr[c]
  <1>1. /\ p \in chain[CpuOf[c]] /\ p \in Addrs /\ CpuOf[c] \in Cpus
    BY CpuOfType DEF IInv, PopCas, Goto, CasMatches, CasSound, LinksWellFormed, TypeOK
  <1>2. p \in Slots /\ owners[p] = 0
    BY <1>1, IssuedInRegion DEF IInv, Conservation, ExclusiveOwnership, Held, TypeOK
  <1>3. Pool!Take(p)
    BY <1>2 DEF PopCas, Pool!Take
  <1> QED  BY <1>2, <1>3 DEF Pool!PoolNext

LEMMA PushReadPtrPool ==
  ASSUME IInv, NEW c \in Ctx, NEW s \in Addrs, PushReadPtr(c, s) PROVE Pool!PoolNext
  <1>1. s \in Slots /\ owners[s] = 1
    BY DEF PushReadPtr, IInv, ExclusiveOwnership, TypeOK
  <1>2. Pool!Give(s)
    BY <1>1 DEF PushReadPtr, Pool!Give
  <1> QED  BY <1>1, <1>2 DEF Pool!PoolNext

(* The lock-free allocator implements the pool of AllocPool: its callers may *)
(* reason as if pop_stack atomically took a slot nobody holds.              *)
THEOREM Refinement == ASSUME NoWrap PROVE Spec => ImplementsPool
  <1>1. Init => Pool!PoolInit
    BY DEF Init, Pool!PoolInit
  <1>2. IInv /\ [Next]_vars => [Pool!PoolNext]_owners
    <2> SUFFICES ASSUME IInv, [Next]_vars PROVE [Pool!PoolNext]_owners
      OBVIOUS
    <2>1. ASSUME owners' = owners PROVE [Pool!PoolNext]_owners
      BY <2>1
    <2>2. CASE UNCHANGED vars \/ Owner
      BY <2>1, <2>2 DEF vars, Owner, OwnerWrite, OwnerGuard
    <2>3. ASSUME NEW c \in Ctx, pop_stack(c) PROVE [Pool!PoolNext]_owners
      <3>1. CASE PopFresh(c)
        BY <3>1, PopFreshPool
      <3>2. CASE PopCas(c)
        BY <3>2, PopCasPool
      <3>3. CASE PopReadPtr(c) \/ PopReadGen(c) \/ PopReadLink(c) \/ PopRetry(c)
        BY <2>1, <3>3 DEF PopReadPtr, PopReadGen, PopReadLink, PopRetry
      <3> QED  BY <2>3, <3>1, <3>2, <3>3 DEF pop_stack
    <2>4. ASSUME NEW c \in Ctx, push_stack(c) PROVE [Pool!PoolNext]_owners
      <3>1. ASSUME NEW s \in Addrs, PushReadPtr(c, s) PROVE Pool!PoolNext
        BY <3>1, PushReadPtrPool
      <3>2. CASE PushReadGen(c) \/ PushLink(c) \/ PushCas(c) \/ PushRetry(c)
        BY <2>1, <3>2 DEF PushReadGen, PushLink, PushCas, PushRetry
      <3> QED  BY <2>4, <3>1, <3>2 DEF push_stack
    <2> QED  BY <2>2, <2>3, <2>4 DEF Next
  <1> QED  BY <1>1, <1>2, Inductive, PTL DEF Spec, ImplementsPool, Pool!PoolSpec

-----------------------------------------------------------------------------
(* Each core's stack is a list: dp numbers its slots from its end, n[k] is  *)
(* its length.                                                              *)

Numbered(dp, n) ==
    /\ dp \in [Addrs -> Nat] /\ n \in [Cpus -> Nat]
    /\ \A k \in Cpus : IsList(chain[k], head_ptr[k], link, dp, n[k], NULL)

Listed == \E dp, n : Numbered(dp, n)

LEMMA InitListed == Init => Listed
  <1> SUFFICES ASSUME Init PROVE Listed
    OBVIOUS
  <1>1. Numbered([a \in Addrs |-> 0], [k \in Cpus |-> 0])
    BY DEF Init, Numbered, IsList
  <1> QED  BY <1>1 DEF Listed

\* Only slots outside every stack have their link overwritten.
LEMMA LinkListed ==
  ASSUME IInv, NEW dp, NEW n, Numbered(dp, n), chain' = chain, head_ptr' = head_ptr,
         \A k \in Cpus : \A a \in chain[k] : link'[a] = link[a]
  PROVE  Listed'
  <1>1. Numbered(dp, n)'
    BY ListKept DEF Numbered
  <1> QED  BY <1>1 DEF Listed

LEMMA PopCasListed ==
  ASSUME IInv, NEW dp, NEW n, Numbered(dp, n), NEW c \in Ctx, PopCas(c)
  PROVE  Listed'
  <1> USE CpuOfType DEF IInv
  <1>1. PICK k \in Cpus, p \in Addrs :
            k = CpuOf[c] /\ p = cur_ptr[c] /\ p # NULL /\ head_ptr[k] = p /\ next_ptr[c] = link[p]
    BY DEF PopCas, Goto, CasMatches, CasSound, TypeOK, Ptrs
  <1>2. PICK m : m = [n EXCEPT ![k] = n[k] - 1]
    OBVIOUS
  <1>3. /\ chain'[k] = chain[k] \ {p} /\ head_ptr'[k] = link[p] /\ link' = link
        /\ \A j \in Cpus \ {k} : chain'[j] = chain[j] /\ head_ptr'[j] = head_ptr[j]
    BY <1>1 DEF PopCas, SwapHead, TypeOK
  <1>4. IsList(chain[k] \ {p}, link[p], link, dp, n[k] - 1, NULL)
    BY <1>1, ListPop DEF Numbered
  <1>5. n[k] - 1 \in Nat
    BY <1>4 DEF IsList
  <1>6. m \in [Cpus -> Nat] /\ m[k] = n[k] - 1 /\ \A j \in Cpus \ {k} : m[j] = n[j]
    BY <1>2, <1>5 DEF Numbered
  <1>7. ASSUME NEW j \in Cpus PROVE IsList(chain'[j], head_ptr'[j], link', dp, m[j], NULL)
    <2>1. CASE j = k
      BY <1>3, <1>4, <1>6, <2>1, Zenon
    <2>2. CASE j # k
      BY <1>3, <1>6, <2>2 DEF Numbered
    <2> QED  BY <2>1, <2>2
  <1>8. Numbered(dp, m)'
    BY <1>6, <1>7 DEF Numbered
  <1> QED  BY <1>8 DEF Listed

LEMMA PushCasListed ==
  ASSUME IInv, NEW dp, NEW n, Numbered(dp, n), NEW c \in Ctx, PushCas(c)
  PROVE  Listed'
  <1> USE CpuOfType, SlotsAreAddrs DEF IInv
  <1>1. PICK k \in Cpus, s \in Addrs :
            /\ k = CpuOf[c] /\ s = arg[c] /\ s # NULL /\ link[s] = head_ptr[k]
            /\ \A m \in Cpus : s \notin chain[m]
    <2>1. c \in Pushing /\ CpuOf[c] \in Cpus
      BY DEF PushCas, Goto, Pushing
    <2>2. arg[c] \in Addrs /\ arg[c] # NULL /\ \A m \in Cpus : arg[c] \notin chain[m]
      BY <2>1 DEF ArgOK, ExclusiveOwnership
    <2>3. link[arg[c]] = head_ptr[CpuOf[c]]
      BY DEF PushCas, Goto, CasMatches, CasSound
    <2> QED  BY <2>1, <2>2, <2>3
  <1>2. PICK m, dp1 : m = [n EXCEPT ![k] = n[k] + 1] /\ dp1 = [dp EXCEPT ![s] = n[k] + 1]
    OBVIOUS
  <1>3. /\ chain'[k] = chain[k] \cup {s} /\ head_ptr'[k] = s /\ link' = link
        /\ \A j \in Cpus \ {k} : chain'[j] = chain[j] /\ head_ptr'[j] = head_ptr[j]
    BY <1>1 DEF PushCas, SwapHead, TypeOK
  <1>4. /\ m \in [Cpus -> Nat] /\ m[k] = n[k] + 1 /\ \A j \in Cpus \ {k} : m[j] = n[j]
        /\ dp1 \in [Addrs -> Nat] /\ dp1[s] = n[k] + 1
        /\ \A a \in Addrs : a # s => dp1[a] = dp[a]
    BY <1>2 DEF Numbered
  <1>5. \A j \in Cpus : \A a \in chain[j] : dp1[a] = dp[a]
    BY <1>1, <1>4 DEF TypeOK
  <1>6. IsList(chain[k] \cup {s}, s, link, dp1, n[k] + 1, NULL)
    <2>1. IsList(chain[k], head_ptr[k], link, dp, n[k], NULL)
      BY DEF Numbered
    <2>2. (\A p \in chain[k] : dp1[p] = dp[p]) /\ s \notin chain[k]
      BY <1>1, <1>5
    <2> QED  BY <1>1, <1>4, <2>1, <2>2, ListPush
  <1>7. ASSUME NEW j \in Cpus PROVE IsList(chain'[j], head_ptr'[j], link', dp1, m[j], NULL)
    <2>1. CASE j = k
      BY <1>3, <1>4, <1>6, <2>1, Zenon
    <2>2. CASE j # k
      <3>1. IsList(chain[j], head_ptr[j], link, dp, n[j], NULL)
        BY DEF Numbered
      <3>2. IsList(chain[j], head_ptr[j], link, dp1, n[j], NULL)
        BY <1>5, <3>1, ListKept
      <3> QED  BY <1>3, <1>4, <2>2, <3>2
    <2> QED  BY <2>1, <2>2
  <1>8. Numbered(dp1, m)'
    BY <1>4, <1>7 DEF Numbered
  <1> QED  BY <1>8 DEF Listed

LEMMA StepListed == ASSUME IInv, Listed, [Next]_vars PROVE Listed'
  <1>1. PICK dp, n : Numbered(dp, n)
    BY DEF Listed
  <1>2. ASSUME chain' = chain, head_ptr' = head_ptr, link' = link PROVE Listed'
    BY <1>1, <1>2, LinkListed
  <1>3. ASSUME NEW c \in Ctx, PopCas(c) \/ PushCas(c) PROVE Listed'
    BY <1>1, <1>3, PopCasListed, PushCasListed
  <1>4. ASSUME NEW c \in Ctx, PushLink(c) PROVE Listed'
    <2>1. \A k \in Cpus : \A a \in chain[k] : link'[a] = link[a]
      BY <1>4 DEF IInv, PushLink, Goto, Pushing, ExclusiveOwnership, TypeOK
    <2> QED  BY <1>1, <1>4, <2>1, LinkListed DEF PushLink, shards
  <1>5. ASSUME NEW s \in Addrs, NEW v, OwnerWrite(s, v) PROVE Listed'
    <2>1. \A k \in Cpus : \A a \in chain[k] : link'[a] = link[a]
      BY <1>5 DEF IInv, OwnerWrite, Held, ExclusiveOwnership, TypeOK
    <2> QED  BY <1>1, <1>5, <2>1, LinkListed DEF OwnerWrite, shards
  <1>6. ASSUME NEW c \in Ctx,
               \/ PopReadPtr(c) \/ PopReadGen(c) \/ PopFresh(c) \/ PopReadLink(c) \/ PopRetry(c)
               \/ \E s \in Addrs : PushReadPtr(c, s)
               \/ PushReadGen(c) \/ PushRetry(c)
        PROVE  Listed'
    BY <1>2, <1>6 DEF PopReadPtr, PopReadGen, PopFresh, PopReadLink, PopRetry, PushReadPtr,
                      PushReadGen, PushRetry, shards
  <1>7. CASE UNCHANGED vars \/ \E s \in Addrs : OwnerGuard(s)
    BY <1>2, <1>7 DEF vars, OwnerGuard, shards
  <1> QED  BY <1>3, <1>4, <1>5, <1>6, <1>7 DEF Next, pop_stack, push_stack, Owner

LEMMA InvChain == ASSUME IInv, Listed PROVE ChainIsList
  <1>1. PICK dp, n : Numbered(dp, n)
    BY DEF Listed
  <1>2. ASSUME NEW k \in Cpus
        PROVE  {WalkFun(head_ptr[k], link, NULL, MAX_SLOTS)[i] : i \in 0 .. MAX_SLOTS} \ {NULL} = chain[k]
    <2>1. IsList(chain[k], head_ptr[k], link, dp, n[k], NULL) /\ n[k] \in Nat
      BY <1>1 DEF Numbered
    <2>2. Cardinality(chain[k]) = n[k]
      BY <2>1, ListSize
    <2>3. chain[k] \in SUBSET Slots
      BY IssuedInRegion DEF IInv, Conservation, TypeOK
    <2>4. MAX_SLOTS \in Nat /\ IsFiniteSet(Slots) /\ Cardinality(Slots) = MAX_SLOTS
      BY FS_Interval, SlotAssumption DEF Slots
    <2>5. n[k] <= MAX_SLOTS
      BY <2>2, <2>3, <2>4, FS_Subset
    <2> QED  BY <2>1, <2>4, <2>5, ListWalk
  <1> QED  BY <1>2, Zenon DEF ChainIsList, WalkFun

(* A walk of a core's links from its head meets exactly the slots pushed on *)
(* it and not popped: nothing falls off the list, whatever was interrupted. *)
THEOREM Chained == ASSUME NoWrap PROVE Spec => []ChainIsList
  <1>1. Init => Listed
    BY InitListed
  <1>2. IInv /\ Listed /\ [Next]_vars => Listed'
    BY StepListed
  <1>3. IInv /\ Listed => ChainIsList
    BY InvChain
  <1> QED  BY <1>1, <1>2, <1>3, Inductive, PTL DEF Spec
=============================================================================
