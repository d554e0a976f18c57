------------------------ MODULE CompileSessionProofs ------------------------
(***************************************************************************)
(* Proofs about CompileSession, for all builds: what the module loader and *)
(* get_compilation_order hand to the emitter (ModulesReady), whatever the  *)
(* import graph, its missing, unreadable, malformed and cyclic modules,    *)
(* and the order of the HashMap's keys.                                    *)
(*                                                                         *)
(* State is passed as arguments: sr for the files, and for the loader its  *)
(* work wk, control c, activations fr, loading_stack ls, loaded_modules    *)
(* lm, dependency_graph dg and registry rg.                                *)
(***************************************************************************)
EXTENDS CompileSession, CommonLemmas, FiniteSetTheorems, TLAPS

-----------------------------------------------------------------------------
(* The files, as a function of the source tree.                              *)

Res(sr, ns) == \E i \in DOMAIN Candidates(ns) : Candidates(ns)[i] \in DOMAIN sr
PathOf(sr, ns) == Candidates(ns)[SelectInSeq(Candidates(ns), LAMBDA p : p \in DOMAIN sr)]
DepsOf(sr, ns) == Deps(sr[PathOf(sr, ns)])
ImportedIn(sr) == UNION {ToSet(Deps(sr[p])) : p \in DOMAIN sr}
Nss(sr) ==
    ImportedIn(sr) \cup {ParentOf(ns) : ns \in {n \in ImportedIn(sr) : Len(n) > 1 /\ Res(sr, ParentOf(n))}}
IsItem(sr, ns) == ~Res(sr, ns) /\ Len(ns) > 1 /\ Res(sr, ParentOf(ns))
IsModule(sr, ns) == Res(sr, ns) /\ sr[PathOf(sr, ns)].state = "ok"
Ok(sr, ns) == IsModule(sr, ns) \/ IsItem(sr, ns)
Bel(sr, ns) == IF Res(sr, ns) THEN ToSet(DepsOf(sr, ns)) ELSE {ParentOf(ns)}

LEMMA ResIs == ASSUME NEW ns PROVE Resolvable(ns) = Res(source, ns)
  BY DEF Resolvable, Res

LEMMA PathIs == ASSUME NEW ns PROVE FilePath(ns) = PathOf(source, ns)
  BY Zenon DEF FilePath, PathOf

LEMMA NamespacesIs == Namespaces = Nss(source)
  BY ResIs DEF Namespaces, Nss, Imported, ImportedIn

LEMMA SoundIs == ASSUME NEW ns PROVE Sound(ns) <=> Ok(source, ns)
  BY ResIs, PathIs, Zenon DEF Sound, Ok, IsModule, IsItem

LEMMA BelowIs == ASSUME NEW ns PROVE Below(ns) = Bel(source, ns)
  BY ResIs, PathIs, Zenon DEF Below, Bel, DepsOf

\* Files whose imports are sequences.
SourceOK(sr) == \A p \in DOMAIN sr : sr[p].imports \in Seq(ToSet(sr[p].imports))

LEMMA DepsSeq ==
  ASSUME NEW sr, SourceOK(sr), NEW p \in DOMAIN sr
  PROVE  Deps(sr[p]) \in Seq(Nss(sr)) /\ ToSet(Deps(sr[p])) \subseteq Nss(sr)
  <1>1. PICK im : im = sr[p].imports
    OBVIOUS
  <1>2. im \in Seq(ToSet(im))
    BY <1>1 DEF SourceOK
  <1>3. Len(im) \in Nat /\ DOMAIN im = 1 .. Len(im)
    BY <1>2
  <1>4. Deps(sr[p]) = [i \in 1 .. Len(im) |-> im[i].path]
    BY <1>1, <1>3 DEF Deps
  <1>5. ToSet(Deps(sr[p])) \subseteq Nss(sr)
    BY DEF Nss, ImportedIn
  <1>6. PICK d : d = Deps(sr[p])
    OBVIOUS
  <1>7. \A i \in 1 .. Len(im) : d[i] \in Nss(sr)
    BY <1>4, <1>5, <1>6 DEF ToSet
  <1>8. d = [i \in 1 .. Len(im) |-> d[i]]
    BY <1>4, <1>6
  <1>9. d \in Seq(Nss(sr))
    <2> HIDE <1>6
    <2> QED  BY <1>3, <1>7, <1>8
  <1> QED  BY <1>5, <1>6, <1>9

\* resolve_filepath returns a file that exists.
LEMMA PathExists ==
  ASSUME NEW sr, NEW ns, Res(sr, ns)
  PROVE  PathOf(sr, ns) \in DOMAIN sr
  <1>1. PICK c : c = Candidates(ns)
    OBVIOUS
  <1>2. Len(c) \in Nat /\ DOMAIN c = 1 .. Len(c)
    <2>1. PICK lower : lower = [i \in DOMAIN ns |-> Lower[ns[i]]]
      OBVIOUS
    <2>2. CASE ns[1] = "std"
      <3>1. PICK a, b : a = Tail(ns) /\ b = Tail(lower)
        OBVIOUS
      <3>2. c = <<ns, a, b, lower>>
        BY <1>1, <2>1, <2>2, <3>1, Zenon DEF Candidates
      <3> QED  BY <3>2
    <2>3. CASE ns[1] # "std"
      <3>1. c = <<ns, lower>>
        BY <1>1, <2>1, <2>3, Zenon DEF Candidates
      <3> QED  BY <3>1
    <2> QED  BY <2>2, <2>3
  <1> DEFINE I == {i \in 1 .. Len(c) : c[i] \in DOMAIN sr}
  <1>3. I # {} /\ I \subseteq Nat
    BY <1>1, <1>2 DEF Res
  <1>4. PICK x \in I : \A y \in I : x <= y
    BY <1>3, LeastNat
  <1>5. Min(I) \in I
    BY <1>4 DEF Min
  <1>6. PathOf(sr, ns) = c[Min(I)]
    BY <1>1, <1>3 DEF PathOf, SelectInSeq
  <1> QED  BY <1>5, <1>6

LEMMA BelowNamed ==
  ASSUME NEW sr, SourceOK(sr), NEW ns, Res(sr, ns)
  PROVE  DepsOf(sr, ns) \in Seq(Nss(sr)) /\ Bel(sr, ns) = ToSet(DepsOf(sr, ns))
         /\ Bel(sr, ns) \subseteq Nss(sr)
  BY PathExists, DepsSeq DEF DepsOf, Bel

LEMMA ParentNamed ==
  ASSUME NEW sr, NEW ns \in Nss(sr), IsItem(sr, ns)
  PROVE  ParentOf(ns) \in Nss(sr)
  BY DEF IsItem, Nss

-----------------------------------------------------------------------------
(* LoadsWithin: the recursive function exists, and what it contains.         *)

StepW(sr, X) == {ns \in Nss(sr) : Ok(sr, ns) /\ Bel(sr, ns) \subseteq X}
IsPart(sr, f, n) == f = [k \in 0 .. n |-> IF k = 0 THEN {} ELSE StepW(sr, f[k - 1])]
IsWithin(sr, w) == w = [k \in Nat |-> IF k = 0 THEN {} ELSE StepW(sr, w[k - 1])]

LEMMA PartAt ==
  ASSUME NEW sr, NEW f, NEW n \in Nat, IsPart(sr, f, n)
  PROVE  f[0] = {} /\ \A k \in Nat : k + 1 <= n => f[k + 1] = StepW(sr, f[k])
  <1> DEFINE E(k) == IF k = 0 THEN {} ELSE StepW(sr, f[k - 1])
  <1>1. \A k \in 0 .. n : f[k] = E(k)
    <2>1. f = [k \in 0 .. n |-> E(k)]
      BY DEF IsPart
    <2> HIDE DEF E
    <2> QED  BY <2>1
  <1>2. ASSUME NEW k \in Nat, k + 1 <= n PROVE f[k + 1] = StepW(sr, f[k])
    <2>1. k + 1 \in 0 .. n /\ k + 1 # 0 /\ (k + 1) - 1 = k
      BY <1>2
    <2> QED  BY <1>1, <2>1
  <1>3. f[0] = {}
    <2>1. 0 \in 0 .. n
      OBVIOUS
    <2> QED  BY <1>1, <2>1
  <1> QED  BY <1>2, <1>3

LEMMA PartUnique ==
  ASSUME NEW sr, NEW f, NEW n \in Nat, IsPart(sr, f, n), NEW g, NEW m \in Nat, IsPart(sr, g, m),
         NEW k \in Nat, k <= n, k <= m
  PROVE  f[k] = g[k]
  <1> DEFINE S == {j \in Nat : j <= n /\ j <= m => f[j] = g[j]}
  <1>1. 0 \in S
    BY PartAt
  <1>2. ASSUME NEW j \in Nat, j \in S PROVE j + 1 \in S
    <2>1. SUFFICES ASSUME j + 1 <= n, j + 1 <= m PROVE f[j + 1] = g[j + 1]
      OBVIOUS
    <2>2. f[j] = g[j]
      BY <1>2, <2>1
    <2> QED  BY <2>1, <2>2, PartAt
  <1> HIDE DEF S
  <1>3. k \in S
    BY <1>1, <1>2, SetInduction
  <1> QED  BY <1>3 DEF S

LEMMA PartExists == ASSUME NEW sr, NEW n \in Nat PROVE \E f : IsPart(sr, f, n)
  <1> DEFINE S == {j \in Nat : \E f : IsPart(sr, f, j)}
  <1>1. 0 \in S
    <2>1. PICK f : f = [k \in 0 .. 0 |-> {}]
      OBVIOUS
    <2>2. IsPart(sr, f, 0)
      BY <2>1 DEF IsPart
    <2> QED  BY <2>2
  <1>2. ASSUME NEW j \in Nat, j \in S PROVE j + 1 \in S
    <2>1. PICK f : IsPart(sr, f, j)
      BY <1>2
    <2> DEFINE g == [k \in 0 .. j + 1 |-> IF k = 0 THEN {} ELSE StepW(sr, f[k - 1])]
    <2>2. ASSUME NEW k \in 0 .. j + 1
          PROVE  g[k] = IF k = 0 THEN {} ELSE StepW(sr, g[k - 1])
      <3>1. CASE k = 0
        BY <3>1
      <3>2. CASE k = 1
        <4>1. g[1] = StepW(sr, f[0]) /\ g[0] = {} /\ f[0] = {}
          BY <2>1, PartAt
        <4> QED  BY <3>2, <4>1
      <3>3. CASE k > 1
        <4>1. PICK i \in Nat : k = i + 2
          BY <3>3
        <4>2. g[i + 2] = StepW(sr, f[i + 1])
          BY <4>1
        <4>3. g[i + 1] = StepW(sr, f[i])
          BY <4>1
        <4>4. f[i + 1] = StepW(sr, f[i])
          BY <2>1, <4>1, PartAt
        <4>5. (i + 2) - 1 = i + 1 /\ i + 2 # 0
          OBVIOUS
        <4> HIDE DEF g
        <4> QED  BY <4>1, <4>2, <4>3, <4>4, <4>5
      <3> QED  BY <3>1, <3>2, <3>3
    <2>3. IsPart(sr, g, j + 1)
      <3>1. [k \in 0 .. j + 1 |-> g[k]] = [k \in 0 .. j + 1 |-> IF k = 0 THEN {} ELSE StepW(sr, g[k - 1])]
        <4> HIDE DEF g
        <4> QED  BY <2>2
      <3>2. g = [k \in 0 .. j + 1 |-> g[k]]
        OBVIOUS
      <3> HIDE DEF g
      <3> QED  BY <3>1, <3>2 DEF IsPart
    <2> HIDE DEF g
    <2> QED  BY <2>3
  <1> HIDE DEF S
  <1>3. n \in S
    BY <1>1, <1>2, SetInduction
  <1> QED  BY <1>3 DEF S

LEMMA WithinExists == ASSUME NEW sr PROVE \E w : IsWithin(sr, w)
  <1> DEFINE P(n) == CHOOSE f : IsPart(sr, f, n)
  <1>1. \A n \in Nat : IsPart(sr, P(n), n)
    BY PartExists, Zenon
  <1> HIDE DEF P
  <1> DEFINE w == [k \in Nat |-> P(k)[k]]
  <1>2. ASSUME NEW k \in Nat PROVE w[k] = IF k = 0 THEN {} ELSE StepW(sr, w[k - 1])
    <2>1. CASE k = 0
      BY <1>1, <2>1, PartAt
    <2>2. CASE k # 0
      <3>1. PICK i \in Nat : k = i + 1
        BY <2>2
      <3>2. P(i + 1)[i + 1] = StepW(sr, P(i + 1)[i])
        BY <1>1, PartAt
      <3>3. P(i + 1)[i] = P(i)[i]
        BY <1>1, PartUnique
      <3>4. w[i + 1] = P(i + 1)[i + 1] /\ w[i] = P(i)[i] /\ (i + 1) - 1 = i /\ i + 1 # 0
        OBVIOUS
      <3> HIDE DEF w
      <3> QED  BY <3>1, <3>2, <3>3, <3>4
    <2> QED  BY <2>1, <2>2
  <1>3. w = [k \in Nat |-> w[k]]
    OBVIOUS
  <1> HIDE DEF w
  <1>4. IsWithin(sr, w)
    BY <1>2, <1>3 DEF IsWithin
  <1> QED  BY <1>4

Within(sr) == CHOOSE w : IsWithin(sr, w)

LEMMA WithinStep ==
  ASSUME NEW sr
  PROVE  /\ Within(sr)[0] = {}
         /\ \A k \in Nat : Within(sr)[k + 1] = StepW(sr, Within(sr)[k])
  <1>1. PICK w : w = Within(sr)
    OBVIOUS
  <1>2. IsWithin(sr, w)
    BY <1>1, WithinExists, Zenon DEF Within
  <1> DEFINE E(k) == IF k = 0 THEN {} ELSE StepW(sr, w[k - 1])
  <1>3. \A k \in Nat : w[k] = E(k)
    <2>1. w = [k \in Nat |-> E(k)]
      BY <1>2 DEF IsWithin
    <2> HIDE DEF E
    <2> QED  BY <2>1
  <1>4. ASSUME NEW k \in Nat PROVE w[k + 1] = StepW(sr, w[k])
    <2>1. k + 1 \in Nat /\ k + 1 # 0 /\ (k + 1) - 1 = k
      OBVIOUS
    <2> QED  BY <1>3, <2>1
  <1> QED  BY <1>1, <1>3, <1>4

LEMMA WithinIs == \A k \in Nat : LoadsWithin[k] = Within(source)[k]
  <1> DEFINE Is(w) == w = [k \in Nat |-> IF k = 0 THEN {}
                             ELSE {ns \in Namespaces : Sound(ns) /\ Below(ns) \subseteq w[k - 1]}]
  <1>1. \A X : StepW(source, X) = {ns \in Namespaces : Sound(ns) /\ Below(ns) \subseteq X}
    BY NamespacesIs, SoundIs, BelowIs, Zenon DEF StepW
  <1>2. ASSUME NEW w PROVE IsWithin(source, w) <=> Is(w)
    BY <1>1, Zenon DEF IsWithin
  <1>3. LoadsWithin = CHOOSE w : Is(w)
    BY Zenon DEF LoadsWithin
  <1> HIDE DEF Is
  <1>4. Is(LoadsWithin)
    BY <1>2, <1>3, WithinExists, Zenon
  <1>5. PICK v : v = LoadsWithin
    OBVIOUS
  <1>6. IsWithin(source, v)
    BY <1>2, <1>4, <1>5
  <1> DEFINE E(k) == IF k = 0 THEN {} ELSE StepW(source, v[k - 1])
  <1>7. \A k \in Nat : v[k] = E(k)
    <2>1. v = [k \in Nat |-> E(k)]
      BY <1>6 DEF IsWithin
    <2> HIDE DEF E
    <2> QED  BY <2>1
  <1> DEFINE S == {k \in Nat : v[k] = Within(source)[k]}
  <1>8. 0 \in S
    BY <1>7, WithinStep
  <1>9. ASSUME NEW k \in Nat, k \in S PROVE k + 1 \in S
    <2>1. k + 1 \in Nat /\ k + 1 # 0 /\ (k + 1) - 1 = k
      OBVIOUS
    <2> QED  BY <1>7, <1>9, <2>1, WithinStep
  <1> HIDE DEF S
  <1>10. \A k \in Nat : k \in S
    BY <1>8, <1>9, SetInduction
  <1> QED  BY <1>5, <1>10 DEF S

-----------------------------------------------------------------------------
(* A namespace that loads, and one that cannot.                              *)

Live(sr, ns, k) == k \in Nat /\ ns \in Within(sr)[k]
Dead(sr, ns) == \A k \in Nat : ~Live(sr, ns, k)
\* Whatever a loads within, b, which a needs d activations further, has room.
Leads(sr, a, b, d) == \A k \in Nat : Live(sr, a, k) => Live(sr, b, k - d)

LEMMA LiveStep ==
  ASSUME NEW sr, NEW ns, NEW k \in Nat
  PROVE  Live(sr, ns, k + 1) <=>
            ns \in Nss(sr) /\ Ok(sr, ns) /\ \A m \in Bel(sr, ns) : Live(sr, m, k)
  <1>1. Within(sr)[k + 1] = StepW(sr, Within(sr)[k])
    BY WithinStep
  <1>2. k + 1 \in Nat
    OBVIOUS
  <1>3. ns \in StepW(sr, Within(sr)[k]) <=>
            ns \in Nss(sr) /\ Ok(sr, ns) /\ \A m \in Bel(sr, ns) : m \in Within(sr)[k]
    BY DEF StepW
  <1> QED  BY <1>1, <1>2, <1>3 DEF Live

LEMMA NotLiveZero == ASSUME NEW sr, NEW ns PROVE ~Live(sr, ns, 0)
  BY WithinStep DEF Live

LEMMA LivePos ==
  ASSUME NEW sr, NEW ns, NEW k, Live(sr, ns, k)
  PROVE  k \in Nat /\ k >= 1 /\ \E j \in Nat : k = j + 1
  <1>1. k \in Nat
    BY DEF Live
  <1>2. k # 0
    BY NotLiveZero
  <1>3. k - 1 \in Nat /\ k = (k - 1) + 1
    BY <1>1, <1>2
  <1> QED  BY <1>1, <1>2, <1>3

LEMMA LiveMore ==
  ASSUME NEW sr, NEW ns, NEW j \in Nat, NEW k \in Nat, j <= k, Live(sr, ns, j)
  PROVE  Live(sr, ns, k)
  <1> DEFINE S == {i \in Nat : \A n : Live(sr, n, i) => Live(sr, n, i + 1)}
  <1>1. 0 \in S
    BY NotLiveZero
  <1>2. ASSUME NEW i \in Nat, i \in S PROVE i + 1 \in S
    <2>1. ASSUME NEW n, Live(sr, n, i + 1) PROVE Live(sr, n, (i + 1) + 1)
      <3>1. n \in Nss(sr) /\ Ok(sr, n) /\ \A m \in Bel(sr, n) : Live(sr, m, i)
        BY <2>1, LiveStep
      <3>2. \A m \in Bel(sr, n) : Live(sr, m, i + 1)
        BY <1>2, <3>1
      <3>3. i + 1 \in Nat
        OBVIOUS
      <3> QED  BY <3>1, <3>2, <3>3, LiveStep
    <2> QED  BY <2>1
  <1> HIDE DEF S
  <1>3. \A i \in Nat : i \in S
    BY <1>1, <1>2, SetInduction
  <1> DEFINE T == {d \in Nat : Live(sr, ns, j + d)}
  <1>4. 0 \in T
    OBVIOUS
  <1>5. ASSUME NEW d \in Nat, d \in T PROVE d + 1 \in T
    <2>1. j + d \in S /\ j + d \in Nat /\ (j + d) + 1 = j + (d + 1)
      BY <1>3
    <2>2. Live(sr, ns, (j + d) + 1)
      BY <1>5, <2>1 DEF S
    <2> QED  BY <2>1, <2>2
  <1> HIDE DEF T
  <1>6. k - j \in T
    BY <1>4, <1>5, SetInduction
  <1>7. j + (k - j) = k
    OBVIOUS
  <1> QED  BY <1>6, <1>7 DEF T

LEMMA UnsoundDead == ASSUME NEW sr, NEW ns, ~Ok(sr, ns) PROVE Dead(sr, ns)
  <1>1. ASSUME NEW k \in Nat, Live(sr, ns, k) PROVE FALSE
    <2>1. PICK j \in Nat : k = j + 1
      BY <1>1, LivePos
    <2> QED  BY <1>1, <2>1, LiveStep
  <1> QED  BY <1>1 DEF Dead

LEMMA LeadsSelf == ASSUME NEW sr, NEW a PROVE Leads(sr, a, a, 0)
  BY DEF Leads

LEMMA LeadsBelow ==
  ASSUME NEW sr, NEW a, NEW b \in Bel(sr, a) PROVE Leads(sr, a, b, 1)
  <1>1. ASSUME NEW k \in Nat, Live(sr, a, k) PROVE Live(sr, b, k - 1)
    <2>1. PICK j \in Nat : k = j + 1
      BY <1>1, LivePos
    <2>2. Live(sr, b, j)
      BY <1>1, <2>1, LiveStep
    <2> QED  BY <2>1, <2>2
  <1> QED  BY <1>1 DEF Leads

LEMMA LeadsOn ==
  ASSUME NEW sr, NEW a, NEW b, NEW c, NEW d \in Nat, NEW e \in Nat,
         Leads(sr, a, b, d), Leads(sr, b, c, e)
  PROVE  Leads(sr, a, c, d + e)
  <1>1. ASSUME NEW k \in Nat, Live(sr, a, k) PROVE Live(sr, c, k - (d + e))
    <2>1. Live(sr, b, k - d) /\ k - d \in Nat
      BY <1>1 DEF Leads, Live
    <2>2. Live(sr, c, (k - d) - e)
      BY <2>1 DEF Leads
    <2>3. (k - d) - e = k - (d + e)
      OBVIOUS
    <2> QED  BY <2>2, <2>3
  <1> QED  BY <1>1 DEF Leads

\* What leads to a dead namespace is dead.
LEMMA LeadsDead ==
  ASSUME NEW sr, NEW a, NEW b, NEW d, Leads(sr, a, b, d), Dead(sr, b) PROVE Dead(sr, a)
  BY DEF Dead, Leads, Live

\* A namespace that imports its way back to itself is dead.
LEMMA CyclicDead ==
  ASSUME NEW sr, NEW a, NEW d \in Nat, d >= 1, Leads(sr, a, a, d) PROVE Dead(sr, a)
  <1> SUFFICES ASSUME ~Dead(sr, a) PROVE FALSE
    OBVIOUS
  <1> DEFINE T == {k \in Nat : Live(sr, a, k)}
  <1>1. T # {} /\ T \in SUBSET Nat
    BY DEF Dead
  <1>2. PICK k \in T : \A j \in T : k <= j
    BY <1>1, LeastNat
  <1>3. Live(sr, a, k - d) /\ k - d \in Nat
    BY <1>2 DEF Leads, Live
  <1> QED  BY <1>2, <1>3

-----------------------------------------------------------------------------
(* The loader's invariant.                                                   *)

Frms(sr) == [kind : {"item", "module"}, ns : Nss(sr), deps : Seq(Nss(sr))]
Ctls(sr) == {Idle, ReturnOk, ReturnErr} \cup {CallOf(n) : n \in Nss(sr)}

Typed(sr, wk, c, fr, ls, lm) ==
    /\ c \in Ctls(sr) /\ wk \in Seq(Nss(sr)) /\ fr \in Seq(Frms(sr)) /\ ls \in Seq(Nss(sr))
    /\ Len(fr) <= Len(ls) /\ IsFiniteSet(lm)
    /\ c = Idle => fr = <<>>

\* What loaded is whole.
Graph(sr, lm, dg, rg) ==
    /\ \A n \in DOMAIN dg : IsModule(sr, n) /\ dg[n] = DepsOf(sr, n)
    /\ \A n \in DOMAIN rg : n \in DOMAIN dg /\ n \in lm /\ rg[n] = PathOf(sr, n)
    /\ \A n \in lm : /\ Ok(sr, n) /\ Bel(sr, n) \subseteq lm
                     /\ Res(sr, n) => n \in DOMAIN rg
                     /\ Live(sr, n, Cardinality(lm))

\* What the module of an activation needs is loaded, still to come, or what
\* the activation waits for; unless an error is on its way back to it.
FrameOK(sr, f, dg) ==
    /\ f.kind = "module" => IsModule(sr, f.ns) /\ f.ns \in DOMAIN dg
    /\ f.kind = "item" => IsItem(sr, f.ns) /\ f.deps = <<>>
    /\ ToSet(f.deps) \subseteq Bel(sr, f.ns)
Callee(c) == IF c.op = "call" THEN {c.ns} ELSE {}
Waits(c, fr, i) == IF i < Len(fr) THEN {fr[i + 1].ns} ELSE Callee(c)
FramesOK(sr, c, fr, lm, dg) ==
    \A i \in 1 .. Len(fr) :
        /\ FrameOK(sr, fr[i], dg)
        /\ i < Len(fr) \/ c # ReturnErr =>
             Bel(sr, fr[i].ns) \subseteq lm \cup ToSet(fr[i].deps) \cup Waits(c, fr, i)

\* Each activation leads to the ones it nests.
Chain(sr, c, fr) ==
    /\ \A j \in 1 .. Len(fr) : \A i \in 1 .. j : Leads(sr, fr[i].ns, fr[j].ns, j - i)
    /\ c.op = "call" => \A i \in 1 .. Len(fr) : Leads(sr, fr[i].ns, c.ns, Len(fr) + 1 - i)

\* loading_stack: dead namespaces, then the activations'; while an error that
\* left its own namespace there is on its way back, the activations are one
\* lower, and all dead.
Aligned(sr, fr, ls, L) ==
    /\ \A i \in 1 .. Len(fr) : ls[L + i] = fr[i].ns
    /\ \A j \in 1 .. L : Dead(sr, ls[j])
Shifted(sr, c, fr, ls, L) ==
    /\ c = ReturnErr /\ L >= 1
    /\ \A i \in 1 .. Len(fr) : ls[L - 1 + i] = fr[i].ns /\ Dead(sr, fr[i].ns)
    /\ \A j \in 1 .. L - 1 : Dead(sr, ls[j])
    /\ Dead(sr, ls[Len(ls)])
Stack(sr, c, fr, ls) ==
    Aligned(sr, fr, ls, Len(ls) - Len(fr)) \/ Shifted(sr, c, fr, ls, Len(ls) - Len(fr))

\* The unit's import being loaded, and the room loading_stack leaves it.
Cur(c, fr) == IF fr # <<>> THEN {fr[1].ns} ELSE Callee(c)
Room(fr, ls) == MAX_RECURSION_DEPTH + 1 - (Len(ls) - Len(fr))
Served(sr, im, wk, c, fr, ls, lm) ==
    /\ \A n \in im : Live(sr, n, Room(fr, ls)) => n \in lm \cup ToSet(wk) \cup Cur(c, fr)
    /\ c = ReturnErr => \A n \in Cur(c, fr) : ~Live(sr, n, Room(fr, ls))

LoaderInv(sr, im, wk, c, fr, ls, lm, dg, rg) ==
    /\ Typed(sr, wk, c, fr, ls, lm) /\ Graph(sr, lm, dg, rg) /\ FramesOK(sr, c, fr, lm, dg)
    /\ Chain(sr, c, fr) /\ Stack(sr, c, fr, ls) /\ Served(sr, im, wk, c, fr, ls, lm)

-----------------------------------------------------------------------------
(* Records and sequences.                                                    *)

LEMMA CtlConst ==
  /\ Idle.op = "idle" /\ ReturnOk.op = "return" /\ ReturnErr.op = "return"
  /\ Idle # ReturnErr /\ Idle # ReturnOk /\ ReturnOk # ReturnErr
  /\ Callee(Idle) = {} /\ Callee(ReturnOk) = {} /\ Callee(ReturnErr) = {}
  <1>1. Idle.op = "idle" /\ ReturnOk.op = "return" /\ ReturnErr.op = "return"
    BY DEF Idle, ReturnOk, ReturnErr
  <1>2. ReturnOk.ok = TRUE /\ ReturnErr.ok = FALSE
    BY DEF ReturnOk, ReturnErr
  <1> QED  BY <1>1, <1>2 DEF Callee

LEMMA CallConst ==
  ASSUME NEW n
  PROVE  /\ CallOf(n).op = "call" /\ CallOf(n).ns = n /\ Callee(CallOf(n)) = {n}
         /\ CallOf(n) # Idle /\ CallOf(n) # ReturnOk /\ CallOf(n) # ReturnErr
  <1>1. CallOf(n).op = "call" /\ CallOf(n).ns = n
    BY DEF CallOf
  <1> QED  BY <1>1, CtlConst DEF Callee

LEMMA CtlCases ==
  ASSUME NEW sr, NEW c \in Ctls(sr)
  PROVE  /\ c.op = "call" => c.ns \in Nss(sr) /\ c = CallOf(c.ns)
         /\ c.op = "return" /\ c.ok => c = ReturnOk
         /\ c.op = "return" /\ ~c.ok => c = ReturnErr
  <1>1. CASE c = Idle
    BY <1>1, CtlConst
  <1>2. CASE c = ReturnOk
    BY <1>2, CtlConst DEF ReturnOk
  <1>3. CASE c = ReturnErr
    BY <1>3, CtlConst DEF ReturnErr
  <1>4. CASE \E n \in Nss(sr) : c = CallOf(n)
    BY <1>4, CallConst
  <1> QED  BY <1>1, <1>2, <1>3, <1>4 DEF Ctls

LEMMA AppendFacts ==
  ASSUME NEW S, NEW w \in Seq(S), NEW x \in S
  PROVE  /\ Append(w, x) \in Seq(S) /\ Len(Append(w, x)) = Len(w) + 1
         /\ Append(w, x)[Len(w) + 1] = x
         /\ \A i \in 1 .. Len(w) : Append(w, x)[i] = w[i]
         /\ Append(w, x) # <<>>
  OBVIOUS

LEMMA FrontLong ==
  ASSUME NEW S, NEW w \in Seq(S), Len(w) > 1
  PROVE  /\ Front(w) \in Seq(S) /\ Len(Front(w)) = Len(w) - 1
         /\ \A i \in 1 .. Len(w) - 1 : Front(w)[i] = w[i]
  BY DEF Front

LEMMA FrontFacts ==
  ASSUME NEW S, NEW w \in Seq(S), w # <<>>
  PROVE  /\ Front(w) \in Seq(S) /\ Len(Front(w)) = Len(w) - 1 /\ Len(w) >= 1
         /\ \A i \in 1 .. Len(w) - 1 : Front(w)[i] = w[i]
  <1>1. Len(w) \in Nat /\ Len(w) >= 1
    OBVIOUS
  <1>2. CASE Len(w) = 1
    <2>1. Front(w) = <<>>
      BY <1>2 DEF Front
    <2> QED  BY <1>2, <2>1
  <1>3. CASE Len(w) > 1
    BY <1>1, <1>3, FrontLong
  <1>4. Len(w) = 1 \/ Len(w) > 1
    BY <1>1
  <1> QED  BY <1>2, <1>3, <1>4, Zenon

LEMMA TailFacts ==
  ASSUME NEW S, NEW w \in Seq(S), w # <<>>
  PROVE  /\ Tail(w) \in Seq(S) /\ Head(w) \in S
         /\ ToSet(w) = {Head(w)} \cup ToSet(Tail(w))
  <1>1. Len(w) >= 1 /\ Tail(w) \in Seq(S) /\ Head(w) \in S /\ Len(Tail(w)) = Len(w) - 1
        /\ Head(w) = w[1]
    OBVIOUS
  <1>2. \A i \in 1 .. Len(w) - 1 : Tail(w)[i] = w[i + 1]
    OBVIOUS
  <1>3. DOMAIN w = 1 .. Len(w) /\ DOMAIN Tail(w) = 1 .. Len(w) - 1
    BY <1>1
  <1>4. ASSUME NEW i \in 1 .. Len(w) PROVE w[i] \in {Head(w)} \cup ToSet(Tail(w))
    <2>1. CASE i = 1
      BY <1>1, <2>1
    <2>2. CASE i > 1
      <3>1. i - 1 \in 1 .. Len(w) - 1 /\ (i - 1) + 1 = i
        BY <2>2
      <3>2. Tail(w)[i - 1] = w[i]
        BY <1>2, <3>1
      <3> QED  BY <1>3, <3>1, <3>2 DEF ToSet
    <2> QED  BY <2>1, <2>2
  <1>5. ASSUME NEW i \in 1 .. Len(w) - 1 PROVE Tail(w)[i] \in ToSet(w)
    <2>1. i + 1 \in 1 .. Len(w)
      BY <1>1
    <2> QED  BY <1>2, <1>3, <2>1 DEF ToSet
  <1>6. Head(w) \in ToSet(w)
    BY <1>1, <1>3 DEF ToSet
  <1> QED  BY <1>1, <1>3, <1>4, <1>5, <1>6 DEF ToSet

\* v is w with x for its last element.
LastSet(S, w, x, v) ==
    /\ v \in Seq(S) /\ Len(v) = Len(w) /\ v[Len(w)] = x /\ v # <<>>
    /\ \A i \in 1 .. Len(w) : i # Len(w) => v[i] = w[i]

LEMMA SetLast ==
  ASSUME NEW S, NEW w \in Seq(S), w # <<>>, NEW x \in S
  PROVE  LastSet(S, w, x, [w EXCEPT ![Len(w)] = x])
  <1> DEFINE v == [w EXCEPT ![Len(w)] = x]
  <1>1. Len(w) \in Nat /\ Len(w) >= 1 /\ DOMAIN w = 1 .. Len(w)
    OBVIOUS
  <1>2. Len(w) \in DOMAIN w
    BY <1>1
  <1>3. DOMAIN v = 1 .. Len(w) /\ v = [i \in 1 .. Len(w) |-> v[i]]
    BY <1>1
  <1>4. v[Len(w)] = x /\ \A i \in 1 .. Len(w) : i # Len(w) => v[i] = w[i]
    <2>1. v[Len(w)] = x
      BY <1>2, Zenon
    <2>2. \A i \in DOMAIN w : i # Len(w) => v[i] = w[i]
      BY Zenon
    <2> QED  BY <1>1, <2>1, <2>2
  <1>5. \A i \in 1 .. Len(w) : v[i] \in S
    BY <1>4
  <1>6. v \in Seq(S) /\ Len(v) = Len(w)
    BY <1>1, <1>3, <1>5
  <1>7. v # <<>>
    BY <1>1, <1>6
  <1> HIDE DEF v
  <1>8. LastSet(S, w, x, v)
    BY <1>4, <1>6, <1>7 DEF LastSet
  <1> QED  BY <1>8 DEF v

LEMMA EmptySet == ToSet(<<>>) = {}
  BY DEF ToSet

-----------------------------------------------------------------------------
(* load_module up to its first recursive call or return.                     *)

\* A call with no room, or of a namespace that cannot load, fails.
LEMMA CallErr ==
  ASSUME NEW sr, NEW im, NEW wk, NEW c, NEW fr, NEW ls, NEW lm, NEW dg, NEW rg,
         LoaderInv(sr, im, wk, c, fr, ls, lm, dg, rg), c.op = "call",
         ~Live(sr, c.ns, MAX_RECURSION_DEPTH + 1 - Len(ls))
  PROVE  LoaderInv(sr, im, wk, ReturnErr, fr, ls, lm, dg, rg)
  <1>1. /\ c.ns \in Nss(sr) /\ c = CallOf(c.ns) /\ c # ReturnErr /\ Callee(c) = {c.ns}
        /\ fr \in Seq(Frms(sr)) /\ Len(fr) \in Nat
    BY CtlCases, CallConst DEF LoaderInv, Typed
  <1>2. Typed(sr, wk, ReturnErr, fr, ls, lm)
    BY CtlConst DEF LoaderInv, Typed, Ctls
  <1>3. FramesOK(sr, ReturnErr, fr, lm, dg)
    BY <1>1, CtlConst DEF LoaderInv, FramesOK, Waits
  <1>4. Chain(sr, ReturnErr, fr)
    BY CtlConst DEF LoaderInv, Chain
  <1>5. Aligned(sr, fr, ls, Len(ls) - Len(fr))
    BY <1>1 DEF LoaderInv, Stack, Shifted
  <1>6. ASSUME NEW n \in Cur(c, fr) PROVE ~Live(sr, n, Room(fr, ls))
    <2>1. CASE fr = <<>>
      <3>1. n = c.ns
        BY <1>1, <1>6, <2>1 DEF Cur
      <3>2. Room(fr, ls) = MAX_RECURSION_DEPTH + 1 - Len(ls)
        BY <2>1, DepthAssumption DEF Room, LoaderInv, Typed
      <3> QED  BY <3>1, <3>2
    <2>2. CASE fr # <<>>
      <3>1. n = fr[1].ns /\ 1 \in 1 .. Len(fr)
        BY <1>1, <1>6, <2>2 DEF Cur
      <3>2. Leads(sr, n, c.ns, Len(fr) + 1 - 1)
        BY <3>1 DEF LoaderInv, Chain
      <3>3. Room(fr, ls) - (Len(fr) + 1 - 1) = MAX_RECURSION_DEPTH + 1 - Len(ls)
        BY <1>1, DepthAssumption DEF Room, LoaderInv, Typed
      <3> QED  BY <3>2, <3>3 DEF Leads, Live
    <2> QED  BY <2>1, <2>2
  <1>7. Cur(ReturnErr, fr) \subseteq Cur(c, fr)
    BY CtlConst DEF Cur
  <1>8. Served(sr, im, wk, ReturnErr, fr, ls, lm)
    BY <1>6, <1>7 DEF LoaderInv, Served
  <1> QED  BY <1>2, <1>3, <1>4, <1>5, <1>8 DEF LoaderInv, Stack

\* A call of a loaded namespace succeeds.
LEMMA CallOk ==
  ASSUME NEW sr, NEW im, NEW wk, NEW c, NEW fr, NEW ls, NEW lm, NEW dg, NEW rg,
         LoaderInv(sr, im, wk, c, fr, ls, lm, dg, rg), c.op = "call", c.ns \in lm
  PROVE  LoaderInv(sr, im, wk, ReturnOk, fr, ls, lm, dg, rg)
  <1>1. /\ c.ns \in Nss(sr) /\ c = CallOf(c.ns) /\ c # ReturnErr /\ Callee(c) = {c.ns}
        /\ fr \in Seq(Frms(sr)) /\ Len(fr) \in Nat
    BY CtlCases, CallConst DEF LoaderInv, Typed
  <1>2. Typed(sr, wk, ReturnOk, fr, ls, lm)
    BY CtlConst DEF LoaderInv, Typed, Ctls
  <1>3. FramesOK(sr, ReturnOk, fr, lm, dg)
    <2>1. ASSUME NEW i \in 1 .. Len(fr)
          PROVE  Bel(sr, fr[i].ns) \subseteq lm \cup ToSet(fr[i].deps) \cup Waits(ReturnOk, fr, i)
      <3>1. Bel(sr, fr[i].ns) \subseteq lm \cup ToSet(fr[i].deps) \cup Waits(c, fr, i)
        BY <1>1 DEF LoaderInv, FramesOK
      <3>2. Waits(c, fr, i) \subseteq lm \cup Waits(ReturnOk, fr, i)
        BY <1>1 DEF Waits
      <3> QED  BY <3>1, <3>2
    <2> QED  BY <2>1 DEF LoaderInv, FramesOK
  <1>4. Chain(sr, ReturnOk, fr)
    BY CtlConst DEF LoaderInv, Chain
  <1>5. Aligned(sr, fr, ls, Len(ls) - Len(fr))
    BY <1>1 DEF LoaderInv, Stack, Shifted
  <1>7. Cur(c, fr) \subseteq Cur(ReturnOk, fr) \cup lm
    BY <1>1 DEF Cur
  <1>8. Served(sr, im, wk, ReturnOk, fr, ls, lm)
    BY <1>7, CtlConst DEF LoaderInv, Served
  <1> QED  BY <1>2, <1>3, <1>4, <1>5, <1>8 DEF LoaderInv, Stack

\* The activations that wait for a dead namespace are dead.
LEMMA AllDead ==
  ASSUME NEW sr, NEW c, NEW fr, Chain(sr, c, fr), c.op = "call", Dead(sr, c.ns)
  PROVE  \A i \in 1 .. Len(fr) : Dead(sr, fr[i].ns)
  BY LeadsDead DEF Chain

\* A call that fails and leaves its namespace in loading_stack.
LEMMA CallLeak ==
  ASSUME NEW sr, NEW im, NEW wk, NEW c, NEW fr, NEW ls, NEW lm, NEW dg, NEW rg,
         LoaderInv(sr, im, wk, c, fr, ls, lm, dg, rg), c.op = "call", Dead(sr, c.ns)
  PROVE  LoaderInv(sr, im, wk, ReturnErr, fr, Append(ls, c.ns), lm, dg, rg)
  <1>1. /\ c.ns \in Nss(sr) /\ c = CallOf(c.ns) /\ c # ReturnErr /\ Callee(c) = {c.ns}
        /\ fr \in Seq(Frms(sr)) /\ Len(fr) \in Nat /\ ls \in Seq(Nss(sr)) /\ Len(ls) \in Nat
        /\ Len(fr) <= Len(ls)
    BY CtlCases, CallConst DEF LoaderInv, Typed
  <1>2. LoaderInv(sr, im, wk, ReturnErr, fr, ls, lm, dg, rg)
    BY CallErr DEF Dead, Live
  <1>3. PICK ls1 : ls1 = Append(ls, c.ns)
    OBVIOUS
  <1>4. /\ ls1 \in Seq(Nss(sr)) /\ Len(ls1) = Len(ls) + 1 /\ ls1[Len(ls) + 1] = c.ns
        /\ \A i \in 1 .. Len(ls) : ls1[i] = ls[i]
    BY <1>1, <1>3, AppendFacts
  <1>5. Typed(sr, wk, ReturnErr, fr, ls1, lm)
    BY <1>1, <1>2, <1>4 DEF LoaderInv, Typed
  <1>6. Aligned(sr, fr, ls, Len(ls) - Len(fr))
    BY <1>1 DEF LoaderInv, Stack, Shifted
  <1>7. Shifted(sr, ReturnErr, fr, ls1, Len(ls1) - Len(fr))
    <2>1. PICK L \in Nat : L = Len(ls) - Len(fr)
      BY <1>1
    <2>2. \A i \in 1 .. Len(fr) : Dead(sr, fr[i].ns)
      BY AllDead DEF LoaderInv
    <2>3. ASSUME NEW i \in 1 .. Len(fr) PROVE ls1[(L + 1) - 1 + i] = fr[i].ns
      <3>1. L + i \in 1 .. Len(ls) /\ (L + 1) - 1 + i = L + i
        BY <1>1, <2>1
      <3> QED  BY <1>4, <1>6, <2>1, <3>1 DEF Aligned
    <2>4. ASSUME NEW j \in 1 .. (L + 1) - 1 PROVE Dead(sr, ls1[j])
      <3>1. j \in 1 .. L /\ j \in 1 .. Len(ls)
        BY <1>1, <2>1
      <3> QED  BY <1>4, <1>6, <2>1, <3>1 DEF Aligned
    <2>5. Len(ls1) - Len(fr) = L + 1 /\ L + 1 >= 1
      BY <1>1, <1>4, <2>1
    <2> QED  BY <1>4, <2>2, <2>3, <2>4, <2>5 DEF Shifted
  <1>8. ASSUME NEW n, Live(sr, n, Room(fr, ls1)) PROVE Live(sr, n, Room(fr, ls))
    <2>1. Room(fr, ls1) \in Nat /\ Room(fr, ls) = Room(fr, ls1) + 1
      BY <1>1, <1>4, <1>8, DepthAssumption DEF Room, Live
    <2> QED  BY <1>8, <2>1, LiveMore
  <1>9. Served(sr, im, wk, ReturnErr, fr, ls1, lm)
    BY <1>2, <1>8 DEF LoaderInv, Served
  <1> QED  BY <1>2, <1>3, <1>5, <1>7, <1>9 DEF LoaderInv, Stack

\* The depth guard and the cycle check refuse nothing that could load here.
LEMMA RefusedRight ==
  ASSUME NEW sr, NEW im, NEW wk, NEW c, NEW fr, NEW ls, NEW lm, NEW dg, NEW rg,
         LoaderInv(sr, im, wk, c, fr, ls, lm, dg, rg), c.op = "call",
         Len(ls) > MAX_RECURSION_DEPTH \/ Contains(ls, c.ns)
  PROVE  ~Live(sr, c.ns, MAX_RECURSION_DEPTH + 1 - Len(ls))
  <1>1. /\ c = CallOf(c.ns) /\ c # ReturnErr /\ Len(fr) \in Nat /\ Len(ls) \in Nat
        /\ Len(fr) <= Len(ls)
    BY CtlCases, CallConst DEF LoaderInv, Typed
  <1>2. CASE Len(ls) > MAX_RECURSION_DEPTH
    <2>1. ASSUME Live(sr, c.ns, MAX_RECURSION_DEPTH + 1 - Len(ls)) PROVE FALSE
      <3>1. MAX_RECURSION_DEPTH + 1 - Len(ls) >= 1
        BY <2>1, LivePos
      <3> QED  BY <1>1, <1>2, <3>1, DepthAssumption
    <2> QED  BY <2>1
  <1>3. CASE Contains(ls, c.ns)
    <2>1. PICK j \in 1 .. Len(ls) : ls[j] = c.ns
      BY <1>3 DEF Contains
    <2>6. Len(ls) - Len(fr) \in Nat
      BY <1>1
    <2>2. PICK L \in Nat : L = Len(ls) - Len(fr)
      BY <2>6, Zenon
    <2>3. Aligned(sr, fr, ls, L)
      BY <1>1, <2>2 DEF LoaderInv, Stack, Shifted
    <2>4. CASE j <= L
      BY <2>1, <2>3, <2>4 DEF Aligned, Dead, Live
    <2>5. CASE j > L
      <3>1. PICK i \in 1 .. Len(fr) : j = L + i
        <4>1. j - L \in 1 .. Len(fr) /\ j = L + (j - L)
          BY <1>1, <2>2, <2>5
        <4> QED  BY <4>1
      <3>2. fr[i].ns = c.ns
        BY <2>1, <2>3, <3>1 DEF Aligned
      <3>3. Leads(sr, c.ns, c.ns, Len(fr) + 1 - i)
        BY <3>2 DEF LoaderInv, Chain
      <3>4. Len(fr) + 1 - i \in Nat /\ Len(fr) + 1 - i >= 1
        BY <1>1
      <3>5. Dead(sr, c.ns)
        BY <3>3, <3>4, CyclicDead
      <3> QED  BY <3>5 DEF Dead, Live
    <2> QED  BY <1>1, <2>2, <2>4, <2>5
  <1> QED  BY <1>2, <1>3

\* A call that goes on to what the namespace needs.
LEMMA Push ==
  ASSUME NEW sr, NEW im, NEW wk, NEW c, NEW fr, NEW ls, NEW lm, NEW dg, NEW rg,
         LoaderInv(sr, im, wk, c, fr, ls, lm, dg, rg), c.op = "call",
         NEW f \in Frms(sr), f.ns = c.ns, NEW c1 \in Ctls(sr), c1 # ReturnErr, c1 # Idle,
         NEW dg1, Graph(sr, lm, dg1, rg), DOMAIN dg \subseteq DOMAIN dg1, FrameOK(sr, f, dg1),
         Bel(sr, c.ns) \subseteq ToSet(f.deps) \cup Callee(c1), Callee(c1) \subseteq Bel(sr, c.ns)
  PROVE  LoaderInv(sr, im, wk, c1, Append(fr, f), Append(ls, c.ns), lm, dg1, rg)
  <1>1. /\ c.ns \in Nss(sr) /\ c = CallOf(c.ns) /\ c # ReturnErr /\ Callee(c) = {c.ns}
        /\ fr \in Seq(Frms(sr)) /\ Len(fr) \in Nat /\ ls \in Seq(Nss(sr)) /\ Len(ls) \in Nat
        /\ Len(fr) <= Len(ls)
    BY CtlCases, CallConst DEF LoaderInv, Typed
  <1>2. PICK ls1, fr1 : ls1 = Append(ls, c.ns) /\ fr1 = Append(fr, f)
    OBVIOUS
  <1>3. /\ ls1 \in Seq(Nss(sr)) /\ Len(ls1) = Len(ls) + 1 /\ ls1[Len(ls) + 1] = c.ns
        /\ \A i \in 1 .. Len(ls) : ls1[i] = ls[i]
    BY <1>1, <1>2, AppendFacts
  <1>4. /\ fr1 \in Seq(Frms(sr)) /\ Len(fr1) = Len(fr) + 1 /\ fr1[Len(fr) + 1] = f
        /\ \A i \in 1 .. Len(fr) : fr1[i] = fr[i]
        /\ fr1 # <<>>
    BY <1>1, <1>2, AppendFacts
  <1>5. Typed(sr, wk, c1, fr1, ls1, lm)
    BY <1>1, <1>3, <1>4 DEF LoaderInv, Typed
  <1>6. FramesOK(sr, c1, fr1, lm, dg1)
    <2>1. ASSUME NEW i \in 1 .. Len(fr)
          PROVE  /\ FrameOK(sr, fr1[i], dg1)
                 /\ Bel(sr, fr1[i].ns) \subseteq lm \cup ToSet(fr1[i].deps) \cup Waits(c1, fr1, i)
      <3>1. /\ FrameOK(sr, fr[i], dg)
            /\ Bel(sr, fr[i].ns) \subseteq lm \cup ToSet(fr[i].deps) \cup Waits(c, fr, i)
        BY <1>1 DEF LoaderInv, FramesOK
      <3>2. FrameOK(sr, fr1[i], dg1)
        BY <1>4, <3>1 DEF FrameOK
      <3>3. Waits(c1, fr1, i) = {fr1[i + 1].ns}
        BY <1>1, <1>4 DEF Waits
      <3>4. Waits(c, fr, i) = {fr1[i + 1].ns}
        <4>1. CASE i < Len(fr)
          <5>1. i + 1 \in 1 .. Len(fr)
            BY <1>1, <4>1
          <5> QED  BY <1>4, <4>1, <5>1 DEF Waits
        <4>2. CASE i = Len(fr)
          BY <1>1, <1>4, <4>2 DEF Waits
        <4> QED  BY <1>1, <4>1, <4>2
      <3> QED  BY <1>4, <3>1, <3>2, <3>3, <3>4
    <2>2. /\ FrameOK(sr, fr1[Len(fr) + 1], dg1)
          /\ Bel(sr, fr1[Len(fr) + 1].ns)
               \subseteq lm \cup ToSet(fr1[Len(fr) + 1].deps) \cup Waits(c1, fr1, Len(fr) + 1)
      <3>1. Waits(c1, fr1, Len(fr) + 1) = Callee(c1)
        BY <1>1, <1>4 DEF Waits
      <3> QED  BY <1>4, <3>1
    <2>3. \A i \in 1 .. Len(fr1) : i \in 1 .. Len(fr) \/ i = Len(fr) + 1
      BY <1>1, <1>4
    <2> QED  BY <2>1, <2>2, <2>3 DEF FramesOK
  <1>7. Chain(sr, c1, fr1)
    <2>1. ASSUME NEW j \in 1 .. Len(fr1), NEW i \in 1 .. j PROVE Leads(sr, fr1[i].ns, fr1[j].ns, j - i)
      <3>1. CASE j \in 1 .. Len(fr)
        <4>1. i \in 1 .. Len(fr)
          BY <1>1, <2>1, <3>1
        <4> QED  BY <1>4, <2>1, <3>1, <4>1 DEF LoaderInv, Chain
      <3>2. CASE j = Len(fr) + 1 /\ i \in 1 .. Len(fr)
        BY <1>4, <3>2 DEF LoaderInv, Chain
      <3>3. CASE j = Len(fr) + 1 /\ i = j
        <4>1. j - i = 0
          BY <3>3
        <4> QED  BY <3>3, <4>1, LeadsSelf
      <3> QED  BY <1>1, <1>4, <2>1, <3>1, <3>2, <3>3
    <2>2. ASSUME c1.op = "call", NEW i \in 1 .. Len(fr1)
          PROVE  Leads(sr, fr1[i].ns, c1.ns, Len(fr1) + 1 - i)
      <3>1. Leads(sr, fr1[i].ns, c.ns, Len(fr1) - i) /\ Len(fr1) - i \in Nat
        <4>1. Len(fr1) \in 1 .. Len(fr1) /\ i \in 1 .. Len(fr1) /\ Len(fr1) - i \in Nat
          BY <1>1, <1>4, <2>2
        <4>2. fr1[Len(fr1)].ns = c.ns
          BY <1>4
        <4> QED  BY <2>1, <4>1, <4>2
      <3>2. Leads(sr, c.ns, c1.ns, 1)
        <4>1. c1.ns \in Bel(sr, c.ns)
          BY <2>2 DEF Callee
        <4> QED  BY <4>1, LeadsBelow
      <3>3. (Len(fr1) - i) + 1 = Len(fr1) + 1 - i
        BY <1>1, <1>4, <2>2
      <3>4. Leads(sr, fr1[i].ns, c1.ns, (Len(fr1) - i) + 1)
        BY <3>1, <3>2, LeadsOn
      <3> QED  BY <3>3, <3>4
    <2> QED  BY <2>1, <2>2 DEF Chain
  <1>8. PICK L \in Nat : L = Len(ls) - Len(fr) /\ L = Len(ls1) - Len(fr1)
    BY <1>1, <1>3, <1>4
  <1>9. Aligned(sr, fr1, ls1, L)
    <2>1. Aligned(sr, fr, ls, L)
      BY <1>1, <1>8 DEF LoaderInv, Stack, Shifted
    <2>2. ASSUME NEW i \in 1 .. Len(fr1) PROVE ls1[L + i] = fr1[i].ns
      <3>1. CASE i \in 1 .. Len(fr)
        <4>1. L + i \in 1 .. Len(ls)
          BY <1>1, <1>8, <3>1
        <4> QED  BY <1>3, <1>4, <2>1, <3>1, <4>1 DEF Aligned
      <3>2. CASE i = Len(fr) + 1
        <4>1. L + i = Len(ls) + 1
          BY <1>1, <1>8, <3>2
        <4> QED  BY <1>3, <1>4, <3>2, <4>1
      <3> QED  BY <1>1, <1>4, <2>2, <3>1, <3>2
    <2>3. ASSUME NEW j \in 1 .. L PROVE Dead(sr, ls1[j])
      <3>1. j \in 1 .. Len(ls)
        BY <1>1, <1>8, <2>3
      <3> QED  BY <1>3, <2>1, <2>3, <3>1 DEF Aligned
    <2> QED  BY <2>2, <2>3 DEF Aligned
  <1>10. Served(sr, im, wk, c1, fr1, ls1, lm)
    <2>1. Room(fr1, ls1) = Room(fr, ls)
      BY <1>8 DEF Room
    <2>2. Cur(c, fr) = Cur(c1, fr1)
      <3>1. CASE fr = <<>>
        BY <1>1, <1>4, <3>1 DEF Cur
      <3>2. CASE fr # <<>>
        <4>1. 1 \in 1 .. Len(fr)
          BY <1>1, <3>2
        <4> QED  BY <1>4, <3>2, <4>1 DEF Cur
      <3> QED  BY <3>1, <3>2
    <2> QED  BY <2>1, <2>2 DEF LoaderInv, Served
  <1> QED  BY <1>2, <1>5, <1>6, <1>7, <1>8, <1>9, <1>10 DEF LoaderInv, Stack

-----------------------------------------------------------------------------
(* load_module after a recursive call returned.                              *)

\* What the innermost activation does next: its next dependency.
LEMMA NextDep ==
  ASSUME NEW sr, NEW im, NEW wk, NEW fr, NEW ls, NEW lm, NEW dg, NEW rg,
         LoaderInv(sr, im, wk, ReturnOk, fr, ls, lm, dg, rg), fr # <<>>,
         fr[Len(fr)].deps # <<>>,
         NEW top1, top1 = [fr[Len(fr)] EXCEPT !.deps = Tail(fr[Len(fr)].deps)],
         NEW fr1, fr1 = [fr EXCEPT ![Len(fr)] = top1]
  PROVE  LoaderInv(sr, im, wk, CallOf(Head(fr[Len(fr)].deps)), fr1, ls, lm, dg, rg)
  <1>1. /\ fr \in Seq(Frms(sr)) /\ Len(fr) \in Nat /\ Len(fr) >= 1 /\ ls \in Seq(Nss(sr))
        /\ Len(fr) \in 1 .. Len(fr)
    BY DEF LoaderInv, Typed
  <1>2. PICK top : top = fr[Len(fr)]
    OBVIOUS
  <1>3. top \in Frms(sr) /\ top.deps \in Seq(Nss(sr)) /\ top.deps # <<>>
    <2>1. top \in Frms(sr)
      BY <1>1, <1>2
    <2>2. top.deps \in Seq(Nss(sr))
      BY <2>1 DEF Frms
    <2> QED  BY <1>2, <2>1, <2>2
  <1>4. PICK d : d = Head(top.deps)
    OBVIOUS
  <1>5. d \in Nss(sr) /\ Tail(top.deps) \in Seq(Nss(sr)) /\ ToSet(top.deps) = {d} \cup ToSet(Tail(top.deps))
    BY <1>3, <1>4, TailFacts
  <1>6. top1 = [top EXCEPT !.deps = Tail(top.deps)]
    BY <1>2
  <1>7. /\ top1 \in Frms(sr) /\ top1.ns = top.ns /\ top1.kind = top.kind
        /\ top1.deps = Tail(top.deps)
    BY <1>3, <1>5, <1>6 DEF Frms
  <1>9. /\ fr1 \in Seq(Frms(sr)) /\ Len(fr1) = Len(fr) /\ fr1[Len(fr)] = top1 /\ fr1 # <<>>
        /\ \A i \in 1 .. Len(fr) : i # Len(fr) => fr1[i] = fr[i]
    <2>1. top1 \in Frms(sr) /\ fr \in Seq(Frms(sr))
      BY <1>1, <1>7
    <2>2. LastSet(Frms(sr), fr, top1, fr1)
      BY <2>1, SetLast, Zenon
    <2> QED  BY <2>2 DEF LastSet
  <1>10. \A i \in 1 .. Len(fr) : fr1[i].ns = fr[i].ns
    BY <1>2, <1>7, <1>9
  <1>11. PICK c1 : c1 = CallOf(d)
    OBVIOUS
  <1>12. c1.op = "call" /\ c1.ns = d /\ Callee(c1) = {d} /\ c1 # ReturnErr /\ c1 # Idle /\ c1 \in Ctls(sr)
    BY <1>5, <1>11, CallConst DEF Ctls
  <1>13. Typed(sr, wk, c1, fr1, ls, lm)
    BY <1>9, <1>12 DEF LoaderInv, Typed
  <1>14. d \in Bel(sr, top.ns) /\ top.kind = "module"
    <2>1. FrameOK(sr, top, dg)
      BY <1>1, <1>2 DEF LoaderInv, FramesOK
    <2> QED  BY <1>3, <1>5, <2>1 DEF FrameOK, Frms
  <1>15. FramesOK(sr, c1, fr1, lm, dg)
    <2>1. ASSUME NEW i \in 1 .. Len(fr)
          PROVE  /\ FrameOK(sr, fr1[i], dg)
                 /\ Bel(sr, fr1[i].ns) \subseteq lm \cup ToSet(fr1[i].deps) \cup Waits(c1, fr1, i)
      <3>1. /\ FrameOK(sr, fr[i], dg)
            /\ Bel(sr, fr[i].ns) \subseteq lm \cup ToSet(fr[i].deps) \cup Waits(ReturnOk, fr, i)
        BY CtlConst DEF LoaderInv, FramesOK
      <3>2. CASE i # Len(fr)
        <4>1. i + 1 \in 1 .. Len(fr) /\ i < Len(fr)
          BY <1>1, <2>1, <3>2
        <4>2. Waits(c1, fr1, i) = Waits(ReturnOk, fr, i)
          BY <1>9, <1>10, <4>1 DEF Waits
        <4> QED  BY <1>9, <3>1, <3>2, <4>2
      <3>3. CASE i = Len(fr)
        <4>1. Waits(c1, fr1, i) = {d} /\ Waits(ReturnOk, fr, i) = {}
          <5>1. ~(i < Len(fr)) /\ ~(i < Len(fr1))
            BY <1>1, <1>9, <3>3
          <5> QED  BY <1>12, <5>1, CtlConst DEF Waits
        <4>2. fr[i] = top /\ fr1[i] = top1
          BY <1>2, <1>9, <3>3
        <4>3. FrameOK(sr, top1, dg)
          BY <1>5, <1>7, <1>14, <3>1, <4>2 DEF FrameOK
        <4> QED  BY <1>5, <1>7, <3>1, <4>1, <4>2, <4>3
      <3> QED  BY <3>2, <3>3
    <2> QED  BY <1>9, <2>1 DEF FramesOK
  <1>16. Chain(sr, c1, fr1)
    <2>1. ASSUME NEW j \in 1 .. Len(fr1), NEW i \in 1 .. j PROVE Leads(sr, fr1[i].ns, fr1[j].ns, j - i)
      <3>1. j \in 1 .. Len(fr) /\ i \in 1 .. Len(fr)
        BY <1>1, <1>9, <2>1
      <3> QED  BY <1>10, <2>1, <3>1 DEF LoaderInv, Chain
    <2>2. ASSUME NEW i \in 1 .. Len(fr1) PROVE Leads(sr, fr1[i].ns, c1.ns, Len(fr1) + 1 - i)
      <3>1. Leads(sr, fr1[i].ns, top.ns, Len(fr1) - i) /\ Len(fr1) - i \in Nat
        <4>1. Len(fr1) \in 1 .. Len(fr1) /\ Len(fr1) - i \in Nat /\ i \in 1 .. Len(fr1)
          BY <1>1, <1>9, <2>2
        <4>2. fr1[Len(fr1)].ns = top.ns
          BY <1>7, <1>9
        <4> QED  BY <2>1, <4>1, <4>2
      <3>2. Leads(sr, top.ns, d, 1)
        BY <1>14, LeadsBelow
      <3>3. (Len(fr1) - i) + 1 = Len(fr1) + 1 - i
        BY <1>1, <1>9, <2>2
      <3>4. Leads(sr, fr1[i].ns, d, (Len(fr1) - i) + 1)
        BY <3>1, <3>2, LeadsOn
      <3> QED  BY <1>12, <3>3, <3>4
    <2> QED  BY <2>1, <2>2 DEF Chain
  <1>17. Stack(sr, c1, fr1, ls)
    <2>1. Aligned(sr, fr, ls, Len(ls) - Len(fr))
      BY CtlConst DEF LoaderInv, Stack, Shifted
    <2> QED  BY <1>9, <1>10, <2>1 DEF Stack, Aligned
  <1>18. Served(sr, im, wk, c1, fr1, ls, lm)
    <2>1. Room(fr1, ls) = Room(fr, ls)
      BY <1>9 DEF Room
    <2>2. Cur(c1, fr1) = Cur(ReturnOk, fr)
      <3>1. 1 \in 1 .. Len(fr)
        BY <1>1
      <3> QED  BY <1>9, <1>10, <3>1 DEF Cur
    <2> QED  BY <1>12, <2>1, <2>2 DEF LoaderInv, Served
  <1> QED  BY <1>2, <1>4, <1>11, <1>13, <1>15, <1>16, <1>17, <1>18 DEF LoaderInv

\* The registry names the files of loaded modules.
Registers(sr, lm, dg, rg) ==
    \A n \in DOMAIN rg : n \in DOMAIN dg /\ n \in lm /\ rg[n] = PathOf(sr, n)

\* A namespace all of whose needs are loaded has loaded.
LEMMA LoadedMore ==
  ASSUME NEW sr, NEW lm, NEW dg, NEW rg, Graph(sr, lm, dg, rg), IsFiniteSet(lm),
         NEW ns \in Nss(sr), Ok(sr, ns), Bel(sr, ns) \subseteq lm,
         NEW rg1, DOMAIN rg \subseteq DOMAIN rg1, Res(sr, ns) => ns \in DOMAIN rg1,
         Registers(sr, lm \cup {ns}, dg, rg1)
  PROVE  IsFiniteSet(lm \cup {ns}) /\ Graph(sr, lm \cup {ns}, dg, rg1)
  <1>1. PICK lm1 : lm1 = lm \cup {ns}
    OBVIOUS
  <1>2. IsFiniteSet(lm1) /\ Cardinality(lm) \in Nat /\ Cardinality(lm1) \in Nat
        /\ Cardinality(lm1) = IF ns \in lm THEN Cardinality(lm) ELSE Cardinality(lm) + 1
    BY <1>1, FS_AddElement, FS_CardinalityType
  <1>3. ASSUME NEW n \in lm1
        PROVE  /\ Ok(sr, n) /\ Bel(sr, n) \subseteq lm1
               /\ Res(sr, n) => n \in DOMAIN rg1
    BY <1>1 DEF Graph
  <1>4. ASSUME NEW n \in lm1 PROVE Live(sr, n, Cardinality(lm1))
    <2>1. CASE n \in lm
      <3>1. Live(sr, n, Cardinality(lm))
        BY <2>1 DEF Graph
      <3>2. Cardinality(lm) <= Cardinality(lm1)
        BY <1>2
      <3> QED  BY <1>2, <3>1, <3>2, LiveMore
    <2>2. CASE n \notin lm
      <3>1. n = ns /\ Cardinality(lm1) = Cardinality(lm) + 1
        BY <1>1, <1>2, <1>4, <2>2
      <3>2. \A m \in Bel(sr, ns) : Live(sr, m, Cardinality(lm))
        BY DEF Graph
      <3>3. Live(sr, ns, Cardinality(lm) + 1)
        BY <1>2, <3>2, LiveStep
      <3> QED  BY <3>1, <3>3
    <2> QED  BY <2>1, <2>2
  <1>5. Graph(sr, lm1, dg, rg1)
    BY <1>1, <1>3, <1>4 DEF Graph, Registers
  <1> QED  BY <1>1, <1>2, <1>5

\* What a pop does to the stacks.
Popped(sr, wk, c, fr, ls, lm, fr1, ls1) ==
    /\ fr1 \in Seq(Frms(sr)) /\ ls1 \in Seq(Nss(sr)) /\ Len(fr1) = Len(fr) - 1
    /\ Len(fr) \in Nat /\ Len(fr) >= 1
    /\ \A i \in 1 .. Len(fr1) : fr1[i] = fr[i]
    /\ Chain(sr, c, fr1) /\ Stack(sr, c, fr1, ls1) /\ Room(fr1, ls1) = Room(fr, ls)
    /\ Typed(sr, wk, c, fr1, ls1, lm)

LEMMA PopParts ==
  ASSUME NEW sr, NEW im, NEW wk, NEW c, NEW fr, NEW ls, NEW lm, NEW dg, NEW rg,
         LoaderInv(sr, im, wk, c, fr, ls, lm, dg, rg), c = ReturnOk \/ c = ReturnErr, fr # <<>>
  PROVE  Popped(sr, wk, c, fr, ls, lm, Front(fr), Front(ls))
  <1>0. PICK fr1, ls1 : fr1 = Front(fr) /\ ls1 = Front(ls)
    OBVIOUS
  <1>1. /\ fr \in Seq(Frms(sr)) /\ Len(fr) \in Nat /\ Len(fr) >= 1 /\ ls \in Seq(Nss(sr))
        /\ Len(ls) \in Nat /\ Len(fr) <= Len(ls)
    BY DEF LoaderInv, Typed
  <1>2. ls # <<>>
    BY <1>1
  <1>3. /\ fr1 \in Seq(Frms(sr)) /\ Len(fr1) = Len(fr) - 1
        /\ \A i \in 1 .. Len(fr1) : fr1[i] = fr[i]
    BY <1>0, <1>1, FrontFacts
  <1>4. /\ ls1 \in Seq(Nss(sr)) /\ Len(ls1) = Len(ls) - 1
        /\ \A i \in 1 .. Len(ls) - 1 : ls1[i] = ls[i]
    BY <1>0, <1>1, <1>2, FrontFacts
  <1>5. Room(fr1, ls1) = Room(fr, ls)
    <2>1. Len(ls1) - Len(fr1) = Len(ls) - Len(fr)
      BY <1>1, <1>3, <1>4
    <2> QED  BY <2>1 DEF Room
  <1>6. Typed(sr, wk, c, fr1, ls1, lm)
    <2>1. c # Idle
      BY CtlConst
    <2> QED  BY <1>1, <1>3, <1>4, <2>1 DEF LoaderInv, Typed
  <1>7. Chain(sr, c, fr1)
    <2>1. ASSUME NEW j \in 1 .. Len(fr1), NEW i \in 1 .. j PROVE Leads(sr, fr1[i].ns, fr1[j].ns, j - i)
      <3>1. j \in 1 .. Len(fr) /\ i \in 1 .. Len(fr1)
        BY <1>1, <1>3, <2>1
      <3> QED  BY <1>3, <2>1, <3>1 DEF LoaderInv, Chain
    <2>2. c.op # "call"
      BY CtlConst
    <2> QED  BY <2>1, <2>2 DEF Chain
  <1>8. Stack(sr, c, fr1, ls1)
    <2>1. PICK L \in Nat : L = Len(ls) - Len(fr) /\ L = Len(ls1) - Len(fr1)
      <3>1. Len(ls) - Len(fr) \in Nat /\ Len(ls) - Len(fr) = Len(ls1) - Len(fr1)
        BY <1>1, <1>3, <1>4
      <3> QED  BY <3>1, Zenon
    <2>2. CASE Aligned(sr, fr, ls, L)
      <3>1. ASSUME NEW i \in 1 .. Len(fr1) PROVE ls1[L + i] = fr1[i].ns
        <4>1. L + i \in 1 .. Len(ls) - 1 /\ i \in 1 .. Len(fr)
          BY <1>1, <1>3, <2>1, <3>1
        <4> QED  BY <1>3, <1>4, <2>2, <4>1 DEF Aligned
      <3>2. ASSUME NEW j \in 1 .. L PROVE Dead(sr, ls1[j])
        <4>1. j \in 1 .. Len(ls) - 1
          BY <1>1, <2>1, <3>2
        <4> QED  BY <1>4, <2>2, <4>1 DEF Aligned
      <3> QED  BY <2>1, <3>1, <3>2 DEF Stack, Aligned
    <2>3. CASE Shifted(sr, c, fr, ls, L)
      <3>1. ASSUME NEW i \in 1 .. Len(fr1) PROVE ls1[L - 1 + i] = fr1[i].ns /\ Dead(sr, fr1[i].ns)
        <4>1. L - 1 + i \in 1 .. Len(ls) - 1 /\ i \in 1 .. Len(fr)
          BY <1>1, <1>3, <2>1, <2>3, <3>1 DEF Shifted
        <4> QED  BY <1>3, <1>4, <2>3, <4>1 DEF Shifted
      <3>2. ASSUME NEW j \in 1 .. L - 1 PROVE Dead(sr, ls1[j])
        <4>1. j \in 1 .. Len(ls) - 1
          BY <1>1, <2>1, <3>2
        <4> QED  BY <1>4, <2>3, <4>1 DEF Shifted
      <3>3. Dead(sr, ls1[Len(ls1)])
        <4>1. Len(ls1) = L - 1 + Len(fr) /\ Len(fr) \in 1 .. Len(fr) /\ Len(ls1) \in 1 .. Len(ls) - 1
          BY <1>1, <1>4, <2>1, <2>3 DEF Shifted
        <4>2. ls1[Len(ls1)] = ls[L - 1 + Len(fr)]
          BY <1>4, <4>1
        <4> QED  BY <2>3, <4>1, <4>2 DEF Shifted
      <3>4. Shifted(sr, c, fr1, ls1, L)
        BY <2>3, <3>1, <3>2, <3>3 DEF Shifted
      <3> QED  BY <2>1, <3>4 DEF Stack
    <2> QED  BY <2>1, <2>2, <2>3 DEF LoaderInv, Stack
  <1>9. Popped(sr, wk, c, fr, ls, lm, fr1, ls1)
    BY <1>1, <1>3, <1>4, <1>5, <1>6, <1>7, <1>8 DEF Popped
  <1> QED  BY <1>0, <1>9

\* An activation ends well.
LEMMA PopOk ==
  ASSUME NEW sr, NEW im, NEW wk, NEW fr, NEW ls, NEW lm, NEW dg, NEW rg,
         LoaderInv(sr, im, wk, ReturnOk, fr, ls, lm, dg, rg), fr # <<>>,
         fr[Len(fr)].deps = <<>>, NEW ns, ns = fr[Len(fr)].ns,
         NEW rg1, DOMAIN rg \subseteq DOMAIN rg1, Res(sr, ns) => ns \in DOMAIN rg1,
         Registers(sr, lm \cup {ns}, dg, rg1)
  PROVE  LoaderInv(sr, im, wk, ReturnOk, Front(fr), Front(ls), lm \cup {ns}, dg, rg1)
  <1>1. PICK fr1, ls1 : fr1 = Front(fr) /\ ls1 = Front(ls)
    OBVIOUS
  <1>2. /\ fr1 \in Seq(Frms(sr)) /\ ls1 \in Seq(Nss(sr)) /\ Len(fr1) = Len(fr) - 1
        /\ Len(fr) \in Nat /\ Len(fr) >= 1
        /\ \A i \in 1 .. Len(fr1) : fr1[i] = fr[i]
        /\ Chain(sr, ReturnOk, fr1) /\ Stack(sr, ReturnOk, fr1, ls1) /\ Room(fr1, ls1) = Room(fr, ls)
        /\ Typed(sr, wk, ReturnOk, fr1, ls1, lm)
    <2>1. ReturnOk = ReturnOk \/ ReturnErr = ReturnOk
      OBVIOUS
    <2>2. Popped(sr, wk, ReturnOk, fr, ls, lm, fr1, ls1)
      BY <1>1, <2>1, PopParts, Zenon
    <2> QED  BY <2>2 DEF Popped
  <1>3. /\ FrameOK(sr, fr[Len(fr)], dg) /\ Len(fr) \in 1 .. Len(fr) /\ fr[Len(fr)] \in Frms(sr)
        /\ Bel(sr, ns) \subseteq lm \cup ToSet(fr[Len(fr)].deps) \cup Waits(ReturnOk, fr, Len(fr))
    BY <1>2, CtlConst DEF LoaderInv, FramesOK, Typed
  <1>4. Bel(sr, ns) \subseteq lm
    <2>1. Waits(ReturnOk, fr, Len(fr)) = {}
      BY <1>2, CtlConst DEF Waits
    <2> QED  BY <1>3, <2>1, EmptySet
  <1>5. ns \in Nss(sr) /\ Ok(sr, ns)
    BY <1>3 DEF FrameOK, Frms, Ok
  <1>6. PICK lm1 : lm1 = lm \cup {ns}
    OBVIOUS
  <1>7. IsFiniteSet(lm1) /\ Graph(sr, lm1, dg, rg1)
    <2>1. Graph(sr, lm, dg, rg) /\ IsFiniteSet(lm)
      BY DEF LoaderInv, Typed
    <2>2. IsFiniteSet(lm \cup {ns}) /\ Graph(sr, lm \cup {ns}, dg, rg1)
      BY <1>4, <1>5, <2>1, LoadedMore, Zenon
    <2> QED  BY <1>6, <2>2, Zenon
  <1>8. Typed(sr, wk, ReturnOk, fr1, ls1, lm1)
    BY <1>2, <1>7 DEF Typed
  <1>9. FramesOK(sr, ReturnOk, fr1, lm1, dg)
    <2>1. ASSUME NEW i \in 1 .. Len(fr1)
          PROVE  /\ FrameOK(sr, fr1[i], dg)
                 /\ Bel(sr, fr1[i].ns) \subseteq lm1 \cup ToSet(fr1[i].deps) \cup Waits(ReturnOk, fr1, i)
      <3>1. i \in 1 .. Len(fr) /\ i < Len(fr) /\ fr1[i] = fr[i]
        BY <1>2, <2>1
      <3>2. /\ FrameOK(sr, fr[i], dg)
            /\ Bel(sr, fr[i].ns) \subseteq lm \cup ToSet(fr[i].deps) \cup Waits(ReturnOk, fr, i)
        BY <3>1 DEF LoaderInv, FramesOK
      <3>3. Waits(ReturnOk, fr, i) = {fr[i + 1].ns}
        BY <3>1 DEF Waits
      <3>4. CASE i < Len(fr1)
        <4>1. i + 1 \in 1 .. Len(fr1)
          BY <1>2, <2>1, <3>4
        <4>2. Waits(ReturnOk, fr1, i) = {fr[i + 1].ns}
          BY <1>2, <3>4, <4>1 DEF Waits
        <4> QED  BY <1>6, <3>1, <3>2, <3>3, <4>2
      <3>5. CASE i = Len(fr1)
        <4>1. i + 1 = Len(fr)
          BY <1>2, <3>5
        <4>2. fr[i + 1].ns = ns
          BY <4>1
        <4> QED  BY <1>6, <3>1, <3>2, <3>3, <4>2
      <3> QED  BY <1>2, <2>1, <3>4, <3>5
    <2> QED  BY <2>1 DEF FramesOK
  <1>10. Cur(ReturnOk, fr) \subseteq lm1 \cup Cur(ReturnOk, fr1)
    <2>1. CASE Len(fr) = 1
      BY <1>6, <2>1 DEF Cur
    <2>2. CASE Len(fr) > 1
      <3>1. 1 \in 1 .. Len(fr1) /\ fr1 # <<>>
        BY <1>2, <2>2
      <3> QED  BY <1>2, <3>1 DEF Cur
    <2> QED  BY <1>2, <2>1, <2>2
  <1>11. Served(sr, im, wk, ReturnOk, fr1, ls1, lm1)
    BY <1>2, <1>6, <1>10, CtlConst DEF LoaderInv, Served
  <1> QED  BY <1>1, <1>2, <1>6, <1>7, <1>8, <1>9, <1>11 DEF LoaderInv

\* An activation passes an error on.
LEMMA PopErr ==
  ASSUME NEW sr, NEW im, NEW wk, NEW fr, NEW ls, NEW lm, NEW dg, NEW rg,
         LoaderInv(sr, im, wk, ReturnErr, fr, ls, lm, dg, rg), fr # <<>>
  PROVE  LoaderInv(sr, im, wk, ReturnErr, Front(fr), Front(ls), lm, dg, rg)
  <1>1. PICK fr1, ls1 : fr1 = Front(fr) /\ ls1 = Front(ls)
    OBVIOUS
  <1>2. /\ fr1 \in Seq(Frms(sr)) /\ ls1 \in Seq(Nss(sr)) /\ Len(fr1) = Len(fr) - 1
        /\ Len(fr) \in Nat /\ Len(fr) >= 1
        /\ \A i \in 1 .. Len(fr1) : fr1[i] = fr[i]
        /\ Chain(sr, ReturnErr, fr1) /\ Stack(sr, ReturnErr, fr1, ls1) /\ Room(fr1, ls1) = Room(fr, ls)
        /\ Typed(sr, wk, ReturnErr, fr1, ls1, lm)
    <2>1. ReturnOk = ReturnErr \/ ReturnErr = ReturnErr
      OBVIOUS
    <2>2. Popped(sr, wk, ReturnErr, fr, ls, lm, fr1, ls1)
      BY <1>1, <2>1, PopParts, Zenon
    <2> QED  BY <2>2 DEF Popped
  <1>3. FramesOK(sr, ReturnErr, fr1, lm, dg)
    <2>1. ASSUME NEW i \in 1 .. Len(fr1)
          PROVE  /\ FrameOK(sr, fr1[i], dg)
                 /\ i < Len(fr1) =>
                      Bel(sr, fr1[i].ns) \subseteq lm \cup ToSet(fr1[i].deps) \cup Waits(ReturnErr, fr1, i)
      <3>1. i \in 1 .. Len(fr) /\ i < Len(fr) /\ fr1[i] = fr[i]
        BY <1>2, <2>1
      <3>2. /\ FrameOK(sr, fr[i], dg)
            /\ Bel(sr, fr[i].ns) \subseteq lm \cup ToSet(fr[i].deps) \cup Waits(ReturnErr, fr, i)
        BY <3>1 DEF LoaderInv, FramesOK
      <3>3. Waits(ReturnErr, fr, i) = {fr[i + 1].ns}
        BY <3>1 DEF Waits
      <3>4. ASSUME i < Len(fr1) PROVE Waits(ReturnErr, fr1, i) = {fr[i + 1].ns}
        <4>1. i + 1 \in 1 .. Len(fr1)
          BY <1>2, <2>1, <3>4
        <4> QED  BY <1>2, <3>4, <4>1 DEF Waits
      <3> QED  BY <3>1, <3>2, <3>3, <3>4
    <2> QED  BY <2>1 DEF FramesOK
  <1>4. Cur(ReturnErr, fr1) \subseteq Cur(ReturnErr, fr)
    <2>1. CASE Len(fr) = 1
      <3>1. fr1 = <<>>
        BY <1>2, <2>1
      <3> QED  BY <3>1, CtlConst DEF Cur
    <2>2. CASE Len(fr) > 1
      <3>1. 1 \in 1 .. Len(fr1) /\ fr1 # <<>>
        BY <1>2, <2>2
      <3> QED  BY <1>2, <3>1 DEF Cur
    <2> QED  BY <1>2, <2>1, <2>2
  <1>5. Served(sr, im, wk, ReturnErr, fr1, ls1, lm)
    BY <1>2, <1>4 DEF LoaderInv, Served
  <1> QED  BY <1>1, <1>2, <1>3, <1>5 DEF LoaderInv
-----------------------------------------------------------------------------
(* The imports of the unit, one after the other.                             *)

LEMMA StartImport ==
  ASSUME NEW sr, NEW im, NEW wk, NEW fr, NEW ls, NEW lm, NEW dg, NEW rg,
         LoaderInv(sr, im, wk, Idle, fr, ls, lm, dg, rg), wk # <<>>
  PROVE  LoaderInv(sr, im, Tail(wk), CallOf(Head(wk)), fr, ls, lm, dg, rg)
  <1>1. fr = <<>> /\ wk \in Seq(Nss(sr)) /\ Len(fr) = 0
    BY DEF LoaderInv, Typed
  <1>2. PICK w1, h : w1 = Tail(wk) /\ h = Head(wk)
    OBVIOUS
  <1>3. w1 \in Seq(Nss(sr)) /\ h \in Nss(sr) /\ ToSet(wk) = {h} \cup ToSet(w1)
    BY <1>1, <1>2, TailFacts
  <1>4. PICK c1 : c1 = CallOf(h)
    OBVIOUS
  <1>5. c1 \in Ctls(sr) /\ c1 # Idle /\ c1 # ReturnErr /\ Callee(c1) = {h}
    BY <1>3, <1>4, CallConst DEF Ctls
  <1>6. Typed(sr, w1, c1, fr, ls, lm)
    BY <1>3, <1>5 DEF LoaderInv, Typed
  <1>7. FramesOK(sr, c1, fr, lm, dg) /\ Chain(sr, c1, fr)
    BY <1>1 DEF FramesOK, Chain
  <1>8. Stack(sr, c1, fr, ls)
    BY CtlConst DEF LoaderInv, Stack, Shifted
  <1>9. Cur(c1, fr) = {h} /\ Cur(Idle, fr) = {}
    BY <1>1, <1>5, CtlConst DEF Cur
  <1>10. Served(sr, im, w1, c1, fr, ls, lm)
    BY <1>3, <1>5, <1>9 DEF LoaderInv, Served
  <1> QED  BY <1>2, <1>4, <1>6, <1>7, <1>8, <1>10 DEF LoaderInv

LEMMA EndImport ==
  ASSUME NEW sr, NEW im, NEW wk, NEW c, NEW ls, NEW lm, NEW dg, NEW rg,
         LoaderInv(sr, im, wk, c, <<>>, ls, lm, dg, rg), c = ReturnOk \/ c = ReturnErr
  PROVE  LoaderInv(sr, im, wk, Idle, <<>>, ls, lm, dg, rg)
  <1>1. PICK fr : fr = <<>>
    OBVIOUS
  <1>2. Len(fr) = 0 /\ Len(ls) \in Nat /\ Len(ls) - Len(fr) = Len(ls)
    BY <1>1 DEF LoaderInv, Typed
  <1>3. Typed(sr, wk, Idle, fr, ls, lm)
    BY <1>1 DEF LoaderInv, Typed, Ctls
  <1>4. FramesOK(sr, Idle, fr, lm, dg) /\ Chain(sr, Idle, fr)
    BY <1>2, CtlConst DEF FramesOK, Chain
  <1>5. Stack(sr, Idle, fr, ls)
    <2>1. CASE Aligned(sr, fr, ls, Len(ls))
      BY <1>2, <2>1 DEF Stack
    <2>2. CASE Shifted(sr, c, fr, ls, Len(ls))
      <3>1. ASSUME NEW j \in 1 .. Len(ls) PROVE Dead(sr, ls[j])
        <4>1. Len(ls) \in Nat
          BY <1>2
        <4>2. j = Len(ls) \/ j \in 1 .. Len(ls) - 1
          BY <3>1, <4>1
        <4> QED  BY <2>2, <4>2 DEF Shifted
      <3>2. Aligned(sr, fr, ls, Len(ls))
        BY <1>2, <3>1 DEF Aligned
      <3> QED  BY <1>2, <3>2 DEF Stack
    <2>3. Stack(sr, c, fr, ls)
      BY <1>1 DEF LoaderInv
    <2> QED  BY <1>2, <2>1, <2>2, <2>3 DEF Stack
  <1>6. Cur(c, fr) = {} /\ Cur(Idle, fr) = {}
    BY <1>1, CtlConst DEF Cur
  <1>7. Served(sr, im, wk, c, fr, ls, lm)
    BY <1>1 DEF LoaderInv
  <1>8. Served(sr, im, wk, Idle, fr, ls, lm)
    BY <1>6, <1>7, CtlConst DEF Served
  <1> QED  BY <1>1, <1>3, <1>4, <1>5, <1>8 DEF LoaderInv

LEMMA StartLoader ==
  ASSUME NEW sr, SourceOK(sr), NEW p \in DOMAIN sr
  PROVE  LoaderInv(sr, ToSet(Deps(sr[p])), Deps(sr[p]), Idle, <<>>, <<>>, {}, <<>>, <<>>)
  <1>1. PICK wk, fr, ls, dg : wk = Deps(sr[p]) /\ fr = <<>> /\ ls = <<>> /\ dg = <<>>
    OBVIOUS
  <1>2. wk \in Seq(Nss(sr))
    BY <1>1, DepsSeq
  <1>3. Len(fr) = 0 /\ Len(ls) = 0 /\ DOMAIN dg = {} /\ Len(ls) - Len(fr) = 0
        /\ fr \in Seq(Frms(sr)) /\ ls \in Seq(Nss(sr))
    BY <1>1
  <1>4. Typed(sr, wk, Idle, fr, ls, {})
    BY <1>1, <1>2, <1>3, FS_EmptySet DEF Typed, Ctls
  <1>5. Graph(sr, {}, dg, dg)
    BY <1>3 DEF Graph
  <1>6. FramesOK(sr, Idle, fr, {}, dg) /\ Chain(sr, Idle, fr) /\ Stack(sr, Idle, fr, ls)
    BY <1>3, CtlConst DEF FramesOK, Chain, Stack, Aligned
  <1>7. Served(sr, ToSet(wk), wk, Idle, fr, ls, {})
    BY CtlConst DEF Served
  <1>8. LoaderInv(sr, ToSet(wk), wk, Idle, fr, ls, {}, dg, dg)
    BY <1>4, <1>5, <1>6, <1>7 DEF LoaderInv
  <1> QED  BY <1>1, <1>8

-----------------------------------------------------------------------------
(* Every action of the loader keeps the invariant.                           *)

Inv(im) ==
    LoaderInv(source, im, work, ctl, frames, loading_stack, loaded_modules,
              dependency_graph, registry)

LEMMA LastIs ==
  ASSUME NEW S, NEW w \in Seq(S), w # <<>> PROVE Last(w) = w[Len(w)]
  BY DEF Last

LEMMA CallSteps ==
  ASSUME NEW im, Inv(im), source' = source,
         LoadImport \/ AlreadyLoaded \/ RecursionGuard \/ Unresolved \/ ParseError
  PROVE  Inv(im)'
  <1> DEFINE To(w, c, l) == LoaderInv(source, im, w, c, frames, l, loaded_modules,
                                      dependency_graph, registry)
  <1>1. To(work, ctl, loading_stack)
    BY DEF Inv
  <1>2. ASSUME NEW w, NEW c, NEW l, To(w, c, l), work' = w, ctl' = c, loading_stack' = l,
               UNCHANGED <<frames, loaded_modules, dependency_graph, registry>>
        PROVE  Inv(im)'
    BY <1>2 DEF Inv
  <1>3. CASE LoadImport
    <2>1. To(Tail(work), CallOf(Head(work)), loading_stack)
      BY <1>1, <1>3, StartImport DEF LoadImport
    <2> QED  BY <1>2, <1>3, <2>1 DEF LoadImport
  <1>4. CASE AlreadyLoaded
    <2>1. To(work, ReturnOk, loading_stack)
      BY <1>1, <1>4, CallOk DEF AlreadyLoaded
    <2> QED  BY <1>2, <1>4, <2>1 DEF AlreadyLoaded
  <1>5. CASE RecursionGuard
    <2>1. ~Live(source, ctl.ns, MAX_RECURSION_DEPTH + 1 - Len(loading_stack))
      BY <1>1, <1>5, RefusedRight DEF RecursionGuard, Refused
    <2>2. To(work, ReturnErr, loading_stack)
      BY <1>1, <1>5, <2>1, CallErr DEF RecursionGuard
    <2> QED  BY <1>2, <1>5, <2>2 DEF RecursionGuard
  <1>6. CASE Unresolved
    <2>1. ~Ok(source, ctl.ns)
      <3>1. source[FilePath(ctl.ns)].state = "unreadable" => source[FilePath(ctl.ns)].state # "ok"
        OBVIOUS
      <3>2. ~Sound(ctl.ns)
        BY <1>6, <3>1, Zenon DEF Unresolved, Sound
      <3> QED  BY <3>2, SoundIs
    <2>2. Dead(source, ctl.ns)
      BY <2>1, UnsoundDead
    <2>3. To(work, ReturnErr, Append(loading_stack, ctl.ns))
      BY <1>1, <1>6, <2>2, CallLeak DEF Unresolved, Accepted
    <2> QED  BY <1>2, <1>6, <2>3 DEF Unresolved
  <1>7. CASE ParseError
    <2>1. ~Ok(source, ctl.ns)
      <3>1. source[FilePath(ctl.ns)].state = "malformed" => source[FilePath(ctl.ns)].state # "ok"
        OBVIOUS
      <3>2. ~Sound(ctl.ns)
        BY <1>7, <3>1, Zenon DEF ParseError, Sound
      <3> QED  BY <3>2, SoundIs
    <2>2. ~Live(source, ctl.ns, MAX_RECURSION_DEPTH + 1 - Len(loading_stack))
      BY <2>1, UnsoundDead DEF Dead, Live
    <2>3. To(work, ReturnErr, loading_stack)
      BY <1>1, <1>7, <2>2, CallErr DEF ParseError, Accepted
    <2> QED  BY <1>2, <1>7, <2>3 DEF ParseError
  <1> QED  BY <1>3, <1>4, <1>5, <1>6, <1>7

LEMMA PushSteps ==
  ASSUME NEW im, Inv(im), source' = source, SourceOK(source), ItemImport \/ EnterModule
  PROVE  Inv(im)'
  <1> DEFINE Now == LoaderInv(source, im, work, ctl, frames, loading_stack, loaded_modules,
                              dependency_graph, registry)
             To(c, f, dg) == LoaderInv(source, im, work, c, Append(frames, f),
                                       Append(loading_stack, ctl.ns), loaded_modules, dg, registry)
  <1>1. Now
    BY DEF Inv
  <1>2. ASSUME NEW c, NEW f, NEW dg, To(c, f, dg), ctl' = c, frames' = Append(frames, f),
               loading_stack' = Append(loading_stack, ctl.ns), dependency_graph' = dg,
               UNCHANGED <<work, loaded_modules, registry>>
        PROVE  Inv(im)'
    BY <1>2 DEF Inv
  <1>3. ctl.op = "call"
    BY DEF ItemImport, EnterModule, Accepted
  <1>4. ctl.ns \in Nss(source) /\ Graph(source, loaded_modules, dependency_graph, registry)
    BY <1>1, <1>3, CtlCases DEF LoaderInv, Typed
  <1>5. CASE ItemImport
    <2>1. PICK f : f = [kind |-> "item", ns |-> ctl.ns, deps |-> <<>>]
      OBVIOUS
    <2>2. f.ns = ctl.ns /\ f.kind = "item" /\ f.deps = <<>> /\ f \in Frms(source)
      BY <1>4, <2>1 DEF Frms
    <2>3. IsItem(source, ctl.ns)
      BY <1>5, ResIs, Zenon DEF ItemImport, IsItem
    <2>4. PICK par : par = ParentOf(ctl.ns)
      OBVIOUS
    <2>5. par \in Nss(source) /\ Bel(source, ctl.ns) = {par}
      BY <1>4, <2>3, <2>4, ParentNamed DEF Bel, IsItem
    <2>6. PICK c1 : c1 = CallOf(par)
      OBVIOUS
    <2>7. c1 \in Ctls(source) /\ c1 # ReturnErr /\ c1 # Idle /\ Callee(c1) = {par}
      BY <2>5, <2>6, CallConst DEF Ctls
    <2>8. FrameOK(source, f, dependency_graph)
      BY <2>2, <2>3, EmptySet DEF FrameOK
    <2>9. To(c1, f, dependency_graph)
      <3>1. Bel(source, ctl.ns) \subseteq ToSet(f.deps) \cup Callee(c1) /\ Callee(c1) \subseteq Bel(source, ctl.ns)
        BY <2>5, <2>7
      <3>2. DOMAIN dependency_graph \subseteq DOMAIN dependency_graph
        OBVIOUS
      <3> QED  BY <1>1, <1>3, <1>4, <2>2, <2>7, <2>8, <3>1, <3>2, Push, Zenon
    <2>10. /\ ctl' = c1 /\ frames' = Append(frames, f) /\ loading_stack' = Append(loading_stack, ctl.ns)
           /\ dependency_graph' = dependency_graph /\ UNCHANGED <<work, loaded_modules, registry>>
      BY <1>5, <2>1, <2>4, <2>6 DEF ItemImport
    <2> QED  BY <1>2, <2>9, <2>10
  <1>6. CASE EnterModule
    <2>1. PICK deps : deps = DepsOf(source, ctl.ns)
      OBVIOUS
    <2>2. PICK f : f = [kind |-> "module", ns |-> ctl.ns, deps |-> deps]
      OBVIOUS
    <2>3. PICK dg : dg = [n \in DOMAIN dependency_graph \cup {ctl.ns} |->
                            IF n = ctl.ns THEN deps ELSE dependency_graph[n]]
      OBVIOUS
    <2>4. IsModule(source, ctl.ns)
      BY <1>6, ResIs, PathIs, Zenon DEF EnterModule, IsModule
    <2>5. /\ ctl' = ReturnOk /\ frames' = Append(frames, f) /\ loading_stack' = Append(loading_stack, ctl.ns)
          /\ dependency_graph' = dg /\ UNCHANGED <<work, loaded_modules, registry>>
      BY <1>6, <2>1, <2>2, <2>3, PathIs, Zenon DEF EnterModule, DepsOf
    <2>6. deps \in Seq(Nss(source)) /\ Bel(source, ctl.ns) = ToSet(deps)
      BY <2>1, <2>4, BelowNamed DEF IsModule
    <2>7. f.ns = ctl.ns /\ f.kind = "module" /\ f.deps = deps /\ f \in Frms(source)
      BY <1>4, <2>2, <2>6 DEF Frms
    <2>8. DOMAIN dg = DOMAIN dependency_graph \cup {ctl.ns} /\ dg[ctl.ns] = deps
          /\ \A n \in DOMAIN dependency_graph : n # ctl.ns => dg[n] = dependency_graph[n]
      BY <2>3
    <2>9. Graph(source, loaded_modules, dg, registry)
      BY <1>4, <2>1, <2>4, <2>8 DEF Graph
    <2>10. FrameOK(source, f, dg)
      BY <2>4, <2>6, <2>7, <2>8 DEF FrameOK
    <2>11. ReturnOk \in Ctls(source) /\ ReturnOk # ReturnErr /\ ReturnOk # Idle
      BY CtlConst DEF Ctls
    <2>12. Bel(source, ctl.ns) \subseteq ToSet(f.deps) \cup Callee(ReturnOk)
           /\ Callee(ReturnOk) \subseteq Bel(source, ctl.ns) /\ DOMAIN dependency_graph \subseteq DOMAIN dg
      BY <2>6, <2>7, <2>8, CtlConst
    <2>13. To(ReturnOk, f, dg)
      BY <1>1, <1>3, <2>7, <2>9, <2>10, <2>11, <2>12, Push, Zenon
    <2> QED  BY <1>2, <2>5, <2>13
  <1> QED  BY <1>5, <1>6

LEMMA ReturnSteps ==
  ASSUME NEW im, Inv(im), source' = source,
         NextDependency \/ FinishModule \/ FinishItem \/ DependencyFailed \/ ImportReturned
  PROVE  Inv(im)'
  <1> DEFINE Now(c) == LoaderInv(source, im, work, c, frames, loading_stack, loaded_modules,
                                 dependency_graph, registry)
             To(c, fr, ls, lm, rg) == LoaderInv(source, im, work, c, fr, ls, lm, dependency_graph, rg)
  <1>1. Now(ctl)
    BY DEF Inv
  <1>2. ASSUME NEW c, NEW fr, NEW ls, NEW lm, NEW rg, To(c, fr, ls, lm, rg), ctl' = c,
               frames' = fr, loading_stack' = ls, loaded_modules' = lm, registry' = rg,
               UNCHANGED <<work, dependency_graph>>
        PROVE  Inv(im)'
    BY <1>2 DEF Inv
  <1>3. ctl \in Ctls(source) /\ frames \in Seq(Frms(source))
    BY <1>1 DEF LoaderInv, Typed
  <1>4. ctl.op = "return" /\ (ctl.ok => ctl = ReturnOk) /\ (~ctl.ok => ctl = ReturnErr)
    <2>1. ctl.op = "return"
      BY DEF NextDependency, FinishModule, FinishItem, DependencyFailed, ImportReturned, Returned
    <2> QED  BY <1>3, <2>1, CtlCases
  <1>5. CASE ImportReturned
    <2>1. frames = <<>> /\ (ctl = ReturnOk \/ ctl = ReturnErr)
      BY <1>4, <1>5 DEF ImportReturned
    <2>2. To(ctl, <<>>, loading_stack, loaded_modules, registry)
      BY <1>1, <2>1
    <2>3. To(Idle, <<>>, loading_stack, loaded_modules, registry)
      BY <2>1, <2>2, EndImport
    <2> QED  BY <1>2, <1>5, <2>3 DEF ImportReturned
  <1>6. SUFFICES ASSUME frames # <<>>, ~ImportReturned PROVE Inv(im)'
    BY <1>5 DEF NextDependency, FinishModule, FinishItem, DependencyFailed, ImportReturned, Returned
  <1>7. Last(frames) = frames[Len(frames)] /\ Len(frames) \in 1 .. Len(frames)
    BY <1>3, <1>6, LastIs
  <1>8. PICK ns : ns = frames[Len(frames)].ns
    OBVIOUS
  <1>9. FrameOK(source, frames[Len(frames)], dependency_graph)
    BY <1>1, <1>7 DEF LoaderInv, FramesOK
  <1>10. Graph(source, loaded_modules, dependency_graph, registry)
    BY <1>1 DEF LoaderInv
  <1>11. CASE NextDependency
    <2>1. PICK top1 : top1 = [frames[Len(frames)] EXCEPT !.deps = Tail(frames[Len(frames)].deps)]
      OBVIOUS
    <2>2. PICK fr1 : fr1 = [frames EXCEPT ![Len(frames)] = top1]
      OBVIOUS
    <2>3. ctl = ReturnOk /\ frames[Len(frames)].deps # <<>>
      BY <1>4, <1>7, <1>11 DEF NextDependency
    <2>4. To(CallOf(Head(frames[Len(frames)].deps)), fr1, loading_stack, loaded_modules, registry)
      BY <1>1, <1>6, <2>1, <2>2, <2>3, NextDep, Zenon
    <2>5. frames' = fr1
      BY <1>11, <2>1, <2>2, Zenon DEF NextDependency
    <2> QED  BY <1>2, <1>7, <1>11, <2>4, <2>5 DEF NextDependency
  <1>12. CASE FinishModule
    <2>1. PICK rg1 : rg1 = [n \in DOMAIN registry \cup {ns} |->
                              IF n = ns THEN PathOf(source, ns) ELSE registry[n]]
      OBVIOUS
    <2>2. ctl = ReturnOk /\ frames[Len(frames)].deps = <<>> /\ frames[Len(frames)].kind = "module"
      BY <1>4, <1>7, <1>12 DEF FinishModule
    <2>3. DOMAIN rg1 = DOMAIN registry \cup {ns} /\ rg1[ns] = PathOf(source, ns)
          /\ \A n \in DOMAIN registry : n # ns => rg1[n] = registry[n]
      BY <2>1
    <2>4. ns \in DOMAIN dependency_graph
      BY <1>8, <1>9, <2>2 DEF FrameOK
    <2>5. Registers(source, loaded_modules \cup {ns}, dependency_graph, rg1)
      BY <1>10, <2>3, <2>4 DEF Graph, Registers
    <2>6. DOMAIN registry \subseteq DOMAIN rg1 /\ (Res(source, ns) => ns \in DOMAIN rg1)
      BY <2>3
    <2>7. To(ReturnOk, Front(frames), Front(loading_stack), loaded_modules \cup {ns}, rg1)
      BY <1>1, <1>6, <1>8, <2>2, <2>5, <2>6, PopOk, Zenon
    <2>8. /\ registry' = rg1 /\ loaded_modules' = loaded_modules \cup {ns} /\ ctl' = ReturnOk
          /\ frames' = Front(frames) /\ loading_stack' = Front(loading_stack)
          /\ UNCHANGED <<work, dependency_graph>>
      BY <1>7, <1>8, <1>12, <2>1, <2>2, PathIs, Zenon DEF FinishModule, PopFrame
    <2> QED  BY <1>2, <2>7, <2>8
  <1>13. CASE FinishItem /\ ctl.ok
    <2>1. frames[Len(frames)].kind = "item" /\ ctl = ReturnOk
      BY <1>4, <1>7, <1>13 DEF FinishItem
    <2>2. frames[Len(frames)].deps = <<>> /\ ~Res(source, ns)
      BY <1>8, <1>9, <2>1 DEF FrameOK, IsItem
    <2>3. Registers(source, loaded_modules \cup {ns}, dependency_graph, registry)
      BY <1>10 DEF Graph, Registers
    <2>4. To(ReturnOk, Front(frames), Front(loading_stack), loaded_modules \cup {ns}, registry)
      <3>1. DOMAIN registry \subseteq DOMAIN registry /\ (Res(source, ns) => ns \in DOMAIN registry)
        BY <2>2
      <3> QED  BY <1>1, <1>6, <1>8, <2>1, <2>2, <2>3, <3>1, PopOk, Zenon
    <2>5. /\ registry' = registry /\ loaded_modules' = loaded_modules \cup {ns} /\ ctl' = ReturnOk
          /\ frames' = Front(frames) /\ loading_stack' = Front(loading_stack)
          /\ UNCHANGED <<work, dependency_graph>>
      BY <1>7, <1>8, <1>13, <2>1 DEF FinishItem, PopFrame
    <2> QED  BY <1>2, <2>4, <2>5
  <1>14. CASE (FinishItem /\ ~ctl.ok) \/ DependencyFailed
    <2>1. ctl = ReturnErr
      BY <1>4, <1>14 DEF DependencyFailed
    <2>2. To(ReturnErr, Front(frames), Front(loading_stack), loaded_modules, registry)
      BY <1>1, <1>6, <2>1, PopErr
    <2>3. /\ registry' = registry /\ loaded_modules' = loaded_modules /\ ctl' = ReturnErr
          /\ frames' = Front(frames) /\ loading_stack' = Front(loading_stack)
          /\ UNCHANGED <<work, dependency_graph>>
      BY <1>14, <2>1 DEF FinishItem, DependencyFailed, PopFrame
    <2> QED  BY <1>2, <2>2, <2>3
  <1> QED  BY <1>6, <1>11, <1>12, <1>13, <1>14

LEMMA LoaderStep ==
  ASSUME NEW im, Inv(im), source' = source, SourceOK(source), LoaderNext
  PROVE  Inv(im)'
  BY CallSteps, PushSteps, ReturnSteps DEF LoaderNext

-----------------------------------------------------------------------------
(* get_compilation_order.                                                    *)

Edges(dg, n) == IF n \in DOMAIN dg THEN dg[n] ELSE <<>>
Acts(N) == [node : N, deps : Seq(N)]
Sorts(N) == [ok : BOOLEAN, keys : SUBSET N, visits : Seq(Acts(N)), order : Seq(N)]
InVisits(v, n) == \E i \in 1 .. Len(v) : v[i].node = n
InOrder(o, n) == \E i \in 1 .. Len(o) : o[i] = n

\* Nothing is listed twice, or before an edge of its own.
ListOK(dg, o) ==
    /\ \A i, j \in 1 .. Len(o) : o[i] = o[j] => i = j
    /\ \A i \in 1 .. Len(o) : \A d \in ToSet(Edges(dg, o[i])) : \E j \in 1 .. i - 1 : o[j] = d
\* The marked nodes are the activations, not yet listed; the edges of each are
\* listed, to come, or visited now (X: about to be).
VisitsOK(dg, v, o, X) ==
    /\ \A i \in 1 .. Len(v) : ~InOrder(o, v[i].node)
    /\ \A i, j \in 1 .. Len(v) : v[i].node = v[j].node => i = j
    /\ \A i \in 1 .. Len(v) : \A d \in ToSet(Edges(dg, v[i].node)) :
         InOrder(o, d) \/ d \in ToSet(v[i].deps) \/ IF i < Len(v) THEN d = v[i + 1].node ELSE d \in X
\* No key is forgotten.
KeysOK(dg, ks, v, o, X) ==
    \A n \in DOMAIN dg : n \in ks \/ InOrder(o, n) \/ InVisits(v, n) \/ n \in X
SortOK(dg, s, X) ==
    s.ok => ListOK(dg, s.order) /\ VisitsOK(dg, s.visits, s.order, X) /\ KeysOK(dg, s.keys, s.visits, s.order, X)

\* topological_visit of a node up to its first recursive call.
LEMMA VisitRight ==
  ASSUME NEW N, NEW s \in Sorts(N), NEW x \in N, s.ok, SortOK(dependency_graph, s, {x}),
         \A n \in DOMAIN dependency_graph : dependency_graph[n] \in Seq(N)
  PROVE  Visit(s, x) \in Sorts(N) /\ SortOK(dependency_graph, Visit(s, x), {})
  <1>1. PICK v, o, dg : v = s.visits /\ o = s.order /\ dg = dependency_graph
    OBVIOUS
  <1>2. /\ v \in Seq(Acts(N)) /\ o \in Seq(N) /\ Len(v) \in Nat /\ Len(o) \in Nat
        /\ DOMAIN v = 1 .. Len(v) /\ DOMAIN o = 1 .. Len(o)
    BY <1>1 DEF Sorts
  <1>3. ListOK(dg, o) /\ VisitsOK(dg, v, o, {x}) /\ KeysOK(dg, s.keys, v, o, {x})
    BY <1>1 DEF SortOK
  <1>4. CASE InVisits(v, x)
    <2>1. Visit(s, x) = [s EXCEPT !.ok = FALSE]
      BY <1>1, <1>2, <1>4, Zenon DEF Visit, InVisits
    <2>2. [s EXCEPT !.ok = FALSE] \in Sorts(N) /\ [s EXCEPT !.ok = FALSE].ok = FALSE
      BY DEF Sorts
    <2> QED  BY <2>1, <2>2 DEF SortOK
  <1>5. CASE ~InVisits(v, x) /\ InOrder(o, x)
    <2>1. Visit(s, x) = s
      BY <1>1, <1>2, <1>5 DEF Visit, InVisits, InOrder, Contains
    <2>2. VisitsOK(dg, v, o, {})
      BY <1>3, <1>5 DEF VisitsOK
    <2>3. KeysOK(dg, s.keys, v, o, {})
      BY <1>3, <1>5 DEF KeysOK
    <2> QED  BY <1>1, <1>3, <2>1, <2>2, <2>3 DEF SortOK
  <1>6. CASE ~InVisits(v, x) /\ ~InOrder(o, x)
    <2>1. PICK a : a = [node |-> x, deps |-> Edges(dg, x)]
      OBVIOUS
    <2>2. a.node = x /\ a.deps = Edges(dg, x) /\ a \in Acts(N)
      <3>1. Edges(dg, x) \in Seq(N)
        BY <1>1 DEF Edges
      <3> QED  BY <2>1, <3>1 DEF Acts
    <2>3. PICK v1 : v1 = Append(v, a)
      OBVIOUS
    <2>4. /\ v1 \in Seq(Acts(N)) /\ Len(v1) = Len(v) + 1 /\ v1[Len(v) + 1] = a
          /\ \A i \in 1 .. Len(v) : v1[i] = v[i]
      BY <1>2, <2>2, <2>3, AppendFacts
    <2>5. Visit(s, x) = [s EXCEPT !.visits = v1]
      <3>1. ~Contains(o, x)
        BY <1>2, <1>6 DEF InOrder, Contains
      <3>2. a = [node |-> x, deps |-> EdgesOf(x)]
        BY <1>1, <2>1 DEF EdgesOf, Edges
      <3>3. ~\E i \in DOMAIN s.visits : s.visits[i].node = x
        BY <1>1, <1>2, <1>6 DEF InVisits
      <3> QED  BY <1>1, <2>3, <3>1, <3>2, <3>3, Zenon DEF Visit
    <2>6. PICK t : t = [s EXCEPT !.visits = v1]
      OBVIOUS
    <2>7. t \in Sorts(N) /\ t.visits = v1 /\ t.order = o /\ t.keys = s.keys
      BY <1>1, <2>4, <2>6 DEF Sorts
    <2>8. \A i \in 1 .. Len(v1) : i \in 1 .. Len(v) \/ i = Len(v) + 1
      BY <1>2, <2>4
    <2>9. VisitsOK(dg, v1, o, {})
      <3>1. ASSUME NEW i \in 1 .. Len(v1) PROVE ~InOrder(o, v1[i].node)
        BY <1>3, <1>6, <2>2, <2>4, <2>8 DEF VisitsOK
      <3>2. ASSUME NEW i \in 1 .. Len(v1), NEW j \in 1 .. Len(v1), v1[i].node = v1[j].node PROVE i = j
        <4>1. CASE i \in 1 .. Len(v) /\ j \in 1 .. Len(v)
          BY <1>3, <2>4, <3>2, <4>1 DEF VisitsOK
        <4>2. CASE i = Len(v) + 1 /\ j = Len(v) + 1
          BY <4>2
        <4>3. ~(i = Len(v) + 1 /\ j \in 1 .. Len(v))
          BY <1>6, <2>2, <2>4, <3>2 DEF InVisits
        <4>4. ~(j = Len(v) + 1 /\ i \in 1 .. Len(v))
          BY <1>6, <2>2, <2>4, <3>2 DEF InVisits
        <4> QED  BY <2>8, <4>1, <4>2, <4>3, <4>4
      <3>3. ASSUME NEW i \in 1 .. Len(v1), NEW d \in ToSet(Edges(dg, v1[i].node))
            PROVE  InOrder(o, d) \/ d \in ToSet(v1[i].deps)
                   \/ IF i < Len(v1) THEN d = v1[i + 1].node ELSE d \in {}
        <4>1. CASE i \in 1 .. Len(v)
          <5>1. v1[i] = v[i] /\ i < Len(v1)
            BY <1>2, <2>4, <4>1
          <5>2. InOrder(o, d) \/ d \in ToSet(v[i].deps) \/ IF i < Len(v) THEN d = v[i + 1].node ELSE d = x
            BY <1>3, <3>3, <4>1, <5>1 DEF VisitsOK
          <5>3. CASE i < Len(v)
            <6>1. i + 1 \in 1 .. Len(v)
              BY <1>2, <4>1, <5>3
            <6> QED  BY <2>4, <5>1, <5>2, <5>3, <6>1
          <5>4. CASE i = Len(v)
            BY <1>2, <2>2, <2>4, <5>1, <5>2, <5>4
          <5>5. i < Len(v) \/ i = Len(v)
            <6>1. Len(v) \in Nat
              BY <1>2
            <6> QED  BY <4>1, <6>1
          <5> QED  BY <5>3, <5>4, <5>5
        <4>2. CASE i = Len(v) + 1
          BY <2>2, <2>4, <3>3, <4>2
        <4> QED  BY <2>8, <4>1, <4>2
      <3> QED  BY <3>1, <3>2, <3>3 DEF VisitsOK
    <2>10. KeysOK(dg, s.keys, v1, o, {})
      <3>1. ASSUME NEW n, InVisits(v, n) \/ n = x PROVE InVisits(v1, n)
        <4>1. CASE n = x
          <5>1. Len(v) + 1 \in 1 .. Len(v1)
            BY <1>2, <2>4
          <5> QED  BY <2>2, <2>4, <4>1, <5>1 DEF InVisits
        <4>2. CASE InVisits(v, n)
          <5>1. PICK i \in 1 .. Len(v) : v[i].node = n
            BY <4>2 DEF InVisits
          <5>2. i \in 1 .. Len(v1) /\ v1[i].node = n
            BY <1>2, <2>4, <5>1
          <5> QED  BY <5>2 DEF InVisits
        <4> QED  BY <3>1, <4>1, <4>2
      <3> QED  BY <1>3, <3>1 DEF KeysOK
    <2>11. SortOK(dg, t, {})
      BY <1>3, <2>7, <2>9, <2>10 DEF SortOK
    <2> QED  BY <1>1, <2>5, <2>6, <2>7, <2>11
  <1> QED  BY <1>4, <1>5, <1>6

Sorting(N) == sort \in Sorts(N) /\ SortOK(dependency_graph, sort, {})

LEMMA SortParts ==
  ASSUME NEW N, Sorting(N)
  PROVE  /\ sort.visits \in Seq(Acts(N)) /\ sort.order \in Seq(N) /\ sort.keys \in SUBSET N
         /\ sort.ok => /\ ListOK(dependency_graph, sort.order)
                       /\ VisitsOK(dependency_graph, sort.visits, sort.order, {})
                       /\ KeysOK(dependency_graph, sort.keys, sort.visits, sort.order, {})
  BY DEF Sorting, Sorts, SortOK

LEMMA SortStart ==
  ASSUME NEW N, DOMAIN dependency_graph \subseteq N, StartSort, UNCHANGED dependency_graph
  PROVE  Sorting(N)'
  <1>1. PICK e : e = <<>>
    OBVIOUS
  <1>2. sort' = [ok |-> TRUE, keys |-> DOMAIN dependency_graph, visits |-> e, order |-> e]
    BY <1>1 DEF StartSort, Unsorted
  <1>3. e \in Seq(N) /\ e \in Seq(Acts(N)) /\ Len(e) = 0
    BY <1>1
  <1>4. sort' \in Sorts(N) /\ sort'.visits = e /\ sort'.order = e /\ sort'.keys = DOMAIN dependency_graph
    BY <1>2, <1>3 DEF Sorts
  <1>5. ListOK(dependency_graph, e) /\ VisitsOK(dependency_graph, e, e, {})
        /\ KeysOK(dependency_graph, DOMAIN dependency_graph, e, e, {})
    BY <1>3 DEF ListOK, VisitsOK, KeysOK
  <1>6. SortOK(dependency_graph, sort', {})
    BY <1>4, <1>5 DEF SortOK
  <1> QED  BY <1>4, <1>6 DEF Sorting

LEMMA SortStep ==
  ASSUME NEW N, Sorting(N), SortNext, UNCHANGED dependency_graph,
         DOMAIN dependency_graph \subseteq N,
         \A n \in DOMAIN dependency_graph : dependency_graph[n] \in Seq(N)
  PROVE  Sorting(N)'
  <1>1. PICK v, o, dg : v = sort.visits /\ o = sort.order /\ dg = dependency_graph
    OBVIOUS
  <1>2. /\ v \in Seq(Acts(N)) /\ o \in Seq(N) /\ Len(v) \in Nat /\ Len(o) \in Nat
        /\ sort.keys \in SUBSET N /\ sort \in Sorts(N) /\ sort.ok
    BY <1>1, SortParts DEF Sorting, SortNext, SortKey, SortEdge, SortReturn
  <1>3. ListOK(dg, o) /\ VisitsOK(dg, v, o, {}) /\ KeysOK(dg, sort.keys, v, o, {})
    BY <1>1, <1>2, SortParts
  <1>4. CASE SortKey
    <2>1. PICK k \in sort.keys : sort' = Visit([sort EXCEPT !.keys = @ \ {k}], k)
      BY <1>4 DEF SortKey
    <2>2. v = <<>> /\ Len(v) = 0
      BY <1>1, <1>4 DEF SortKey
    <2>3. PICK s : s = [sort EXCEPT !.keys = sort.keys \ {k}]
      OBVIOUS
    <2>4. s \in Sorts(N) /\ s.ok /\ s.visits = v /\ s.order = o /\ s.keys = sort.keys \ {k}
      BY <1>1, <1>2, <2>3 DEF Sorts
    <2>5. VisitsOK(dg, v, o, {k}) /\ KeysOK(dg, sort.keys \ {k}, v, o, {k})
      BY <1>3, <2>2 DEF VisitsOK, KeysOK
    <2>6. SortOK(dependency_graph, s, {k}) /\ k \in N
      BY <1>1, <1>2, <1>3, <2>1, <2>4, <2>5 DEF SortOK
    <2>7. Visit(s, k) \in Sorts(N) /\ SortOK(dependency_graph, Visit(s, k), {})
      BY <2>4, <2>6, VisitRight
    <2>8. sort' = Visit(s, k)
      BY <2>1, <2>3
    <2> QED  BY <2>7, <2>8 DEF Sorting
  <1>5. CASE SortEdge
    <2>1. v # <<>> /\ Len(v) >= 1 /\ Len(v) \in 1 .. Len(v) /\ Last(v) = v[Len(v)]
      BY <1>1, <1>2, <1>5, LastIs DEF SortEdge
    <2>2. PICK top, d : top = v[Len(v)] /\ d = Head(top.deps)
      OBVIOUS
    <2>3. top \in Acts(N) /\ top.deps \in Seq(N) /\ top.deps # <<>>
      <3>1. top \in Acts(N)
        BY <1>2, <2>1, <2>2
      <3>2. top.deps \in Seq(N)
        BY <3>1 DEF Acts
      <3> QED  BY <1>1, <1>5, <2>1, <2>2, <3>1, <3>2 DEF SortEdge
    <2>4. d \in N /\ Tail(top.deps) \in Seq(N) /\ ToSet(top.deps) = {d} \cup ToSet(Tail(top.deps))
      BY <2>2, <2>3, TailFacts
    <2>5. PICK top1 : top1 = [top EXCEPT !.deps = Tail(top.deps)]
      OBVIOUS
    <2>6. top1 \in Acts(N) /\ top1.node = top.node /\ top1.deps = Tail(top.deps)
      BY <2>3, <2>4, <2>5 DEF Acts
    <2>7. PICK v1 : v1 = [v EXCEPT ![Len(v)] = top1]
      OBVIOUS
    <2>8. /\ v1 \in Seq(Acts(N)) /\ Len(v1) = Len(v) /\ v1[Len(v)] = top1
          /\ \A i \in 1 .. Len(v) : i # Len(v) => v1[i] = v[i]
      <3>1. LastSet(Acts(N), v, top1, v1)
        BY <1>2, <2>1, <2>6, <2>7, SetLast, Zenon
      <3> QED  BY <3>1 DEF LastSet
    <2>9. \A i \in 1 .. Len(v) : v1[i].node = v[i].node
      BY <2>2, <2>6, <2>8
    <2>10. PICK s : s = [sort EXCEPT !.visits = v1]
      OBVIOUS
    <2>11. s \in Sorts(N) /\ s.ok /\ s.visits = v1 /\ s.order = o /\ s.keys = sort.keys
      BY <1>1, <1>2, <2>8, <2>10 DEF Sorts
    <2>12. sort' = Visit(s, d)
      <3>1. sort' = Visit([sort EXCEPT !.visits = [sort.visits EXCEPT ![Len(sort.visits)] =
                       [sort.visits[Len(sort.visits)] EXCEPT !.deps = Tail(sort.visits[Len(sort.visits)].deps)]]],
                     Head(Last(sort.visits).deps))
        BY <1>5, Zenon DEF SortEdge
      <3> QED  BY <1>1, <2>1, <2>2, <2>5, <2>7, <2>10, <3>1, Zenon
    <2>13. VisitsOK(dg, v1, o, {d})
      <3>1. ASSUME NEW i \in 1 .. Len(v1), NEW e \in ToSet(Edges(dg, v1[i].node))
            PROVE  InOrder(o, e) \/ e \in ToSet(v1[i].deps)
                   \/ IF i < Len(v1) THEN e = v1[i + 1].node ELSE e \in {d}
        <4>1. i \in 1 .. Len(v) /\ v1[i].node = v[i].node
          BY <2>8, <2>9
        <4>2. InOrder(o, e) \/ e \in ToSet(v[i].deps) \/ IF i < Len(v) THEN e = v[i + 1].node ELSE e \in {}
          BY <1>3, <3>1, <4>1 DEF VisitsOK
        <4>3. CASE i # Len(v)
          <5>1. i < Len(v) /\ i + 1 \in 1 .. Len(v) /\ v1[i] = v[i]
            BY <1>2, <2>8, <4>1, <4>3
          <5>2. v1[i + 1].node = v[i + 1].node
            BY <2>9, <5>1
          <5> QED  BY <2>8, <4>2, <5>1, <5>2
        <4>4. CASE i = Len(v)
          <5>1. ~(i < Len(v)) /\ ~(i < Len(v1)) /\ v[i] = top /\ v1[i] = top1
            BY <1>2, <2>2, <2>8, <4>4
          <5> QED  BY <2>4, <2>6, <4>2, <5>1
        <4> QED  BY <4>3, <4>4
      <3>2. \A i \in 1 .. Len(v1) : ~InOrder(o, v1[i].node)
        BY <1>3, <2>8, <2>9 DEF VisitsOK
      <3>3. \A i, j \in 1 .. Len(v1) : v1[i].node = v1[j].node => i = j
        BY <1>3, <2>8, <2>9 DEF VisitsOK
      <3> QED  BY <3>1, <3>2, <3>3 DEF VisitsOK
    <2>14. KeysOK(dg, sort.keys, v1, o, {d})
      <3>1. \A n : InVisits(v, n) => InVisits(v1, n)
        BY <2>8, <2>9 DEF InVisits
      <3> QED  BY <1>3, <3>1 DEF KeysOK
    <2>15. SortOK(dependency_graph, s, {d})
      BY <1>1, <1>3, <2>11, <2>13, <2>14 DEF SortOK
    <2>16. Visit(s, d) \in Sorts(N) /\ SortOK(dependency_graph, Visit(s, d), {})
      BY <2>4, <2>11, <2>15, VisitRight
    <2> QED  BY <2>12, <2>16 DEF Sorting
  <1>6. CASE SortReturn
    <2>1. v # <<>> /\ Len(v) >= 1 /\ Len(v) \in 1 .. Len(v) /\ Last(v) = v[Len(v)]
      BY <1>1, <1>2, <1>6, LastIs DEF SortReturn
    <2>2. PICK n : n = v[Len(v)].node
      OBVIOUS
    <2>3. n \in N /\ v[Len(v)].deps = <<>>
      <3>1. v[Len(v)] \in Acts(N)
        BY <1>2, <2>1
      <3> QED  BY <1>1, <1>6, <2>1, <2>2, <3>1 DEF Acts, SortReturn
    <2>4. PICK v1, o1 : v1 = Front(v) /\ o1 = Append(o, n)
      OBVIOUS
    <2>5. v1 \in Seq(Acts(N)) /\ Len(v1) = Len(v) - 1 /\ \A i \in 1 .. Len(v) - 1 : v1[i] = v[i]
      BY <1>2, <2>1, <2>4, FrontFacts
    <2>6. /\ o1 \in Seq(N) /\ Len(o1) = Len(o) + 1 /\ o1[Len(o) + 1] = n
          /\ \A i \in 1 .. Len(o) : o1[i] = o[i]
      BY <1>2, <2>3, <2>4, AppendFacts
    <2>7. sort' = [sort EXCEPT !.order = o1, !.visits = v1]
      BY <1>1, <1>6, <2>1, <2>2, <2>4 DEF SortReturn
    <2>8. sort' \in Sorts(N) /\ sort'.visits = v1 /\ sort'.order = o1 /\ sort'.keys = sort.keys
      BY <1>2, <2>5, <2>6, <2>7 DEF Sorts
    <2>9. ~InOrder(o, n)
      BY <1>3, <2>1, <2>2 DEF VisitsOK
    <2>10. \A d \in ToSet(Edges(dg, n)) : InOrder(o, d)
      <3>1. ~(Len(v) < Len(v))
        BY <1>2
      <3> QED  BY <1>3, <2>1, <2>2, <2>3, <3>1, EmptySet DEF VisitsOK
    <2>11. \A i \in 1 .. Len(o1) : i \in 1 .. Len(o) \/ i = Len(o) + 1
      BY <1>2, <2>6
    <2>12. \A m : InOrder(o1, m) <=> InOrder(o, m) \/ m = n
      <3>1. ASSUME NEW m, InOrder(o1, m) PROVE InOrder(o, m) \/ m = n
        BY <2>6, <2>11, <3>1 DEF InOrder
      <3>2. ASSUME NEW m, InOrder(o, m) PROVE InOrder(o1, m)
        <4>1. PICK i \in 1 .. Len(o) : o[i] = m
          BY <3>2 DEF InOrder
        <4>2. i \in 1 .. Len(o1) /\ o1[i] = m
          BY <1>2, <2>6, <4>1
        <4> QED  BY <4>2 DEF InOrder
      <3>3. InOrder(o1, n)
        <4>1. Len(o) + 1 \in 1 .. Len(o1)
          BY <1>2, <2>6
        <4> QED  BY <2>6, <4>1 DEF InOrder
      <3> QED  BY <3>1, <3>2, <3>3
    <2>13. ListOK(dg, o1)
      <3>1. ASSUME NEW i \in 1 .. Len(o1), NEW j \in 1 .. Len(o1), o1[i] = o1[j] PROVE i = j
        <4>1. CASE i \in 1 .. Len(o) /\ j \in 1 .. Len(o)
          BY <1>3, <2>6, <3>1, <4>1 DEF ListOK
        <4>2. CASE i = Len(o) + 1 /\ j = Len(o) + 1
          BY <4>2
        <4>3. ~(i = Len(o) + 1 /\ j \in 1 .. Len(o)) /\ ~(j = Len(o) + 1 /\ i \in 1 .. Len(o))
          BY <2>6, <2>9, <3>1 DEF InOrder
        <4> QED  BY <2>11, <4>1, <4>2, <4>3
      <3>2. ASSUME NEW i \in 1 .. Len(o1), NEW d \in ToSet(Edges(dg, o1[i]))
            PROVE  \E j \in 1 .. i - 1 : o1[j] = d
        <4>1. CASE i \in 1 .. Len(o)
          <5>1. PICK j \in 1 .. i - 1 : o[j] = d
            BY <1>3, <2>6, <3>2, <4>1 DEF ListOK
          <5>2. j \in 1 .. Len(o)
            BY <1>2, <4>1, <5>1
          <5> QED  BY <2>6, <5>1, <5>2
        <4>2. CASE i = Len(o) + 1
          <5>1. PICK j \in 1 .. Len(o) : o[j] = d
            BY <2>6, <2>10, <3>2, <4>2 DEF InOrder
          <5>2. j \in 1 .. i - 1
            BY <1>2, <4>2, <5>1
          <5> QED  BY <2>6, <5>1, <5>2
        <4> QED  BY <2>11, <4>1, <4>2
      <3> QED  BY <3>1, <3>2 DEF ListOK
    <2>14. VisitsOK(dg, v1, o1, {})
      <3>1. ASSUME NEW i \in 1 .. Len(v1)
            PROVE  i \in 1 .. Len(v) /\ i < Len(v) /\ v1[i] = v[i] /\ i \in 1 .. Len(v) - 1
        BY <1>2, <2>5
      <3>2. ASSUME NEW i \in 1 .. Len(v1) PROVE ~InOrder(o1, v1[i].node)
        <4>1. ~InOrder(o, v[i].node)
          BY <1>3, <3>1 DEF VisitsOK
        <4>2. v[i].node # n
          BY <1>2, <1>3, <2>1, <2>2, <3>1 DEF VisitsOK
        <4> QED  BY <2>12, <3>1, <4>1, <4>2
      <3>3. ASSUME NEW i \in 1 .. Len(v1), NEW j \in 1 .. Len(v1), v1[i].node = v1[j].node PROVE i = j
        <4>1. v[i].node = v[j].node
          BY <3>1, <3>3
        <4> QED  BY <1>3, <3>1, <4>1 DEF VisitsOK
      <3>4. ASSUME NEW i \in 1 .. Len(v1), NEW d \in ToSet(Edges(dg, v1[i].node))
            PROVE  InOrder(o1, d) \/ d \in ToSet(v1[i].deps)
                   \/ IF i < Len(v1) THEN d = v1[i + 1].node ELSE d \in {}
        <4>1. InOrder(o, d) \/ d \in ToSet(v[i].deps) \/ d = v[i + 1].node
          BY <1>3, <3>1, <3>4 DEF VisitsOK
        <4>2. CASE i < Len(v1)
          <5>1. i + 1 \in 1 .. Len(v1)
            BY <1>2, <2>5, <3>4, <4>2
          <5>2. v1[i + 1] = v[i + 1]
            BY <3>1, <5>1
          <5> QED  BY <2>12, <3>1, <4>1, <4>2, <5>2
        <4>3. CASE i = Len(v1)
          <5>1. i + 1 = Len(v)
            BY <1>2, <2>5, <4>3
          <5> QED  BY <2>2, <2>12, <3>1, <4>1, <5>1
        <4> QED  BY <1>2, <2>5, <3>4, <4>2, <4>3
      <3> QED  BY <3>2, <3>3, <3>4 DEF VisitsOK
    <2>15. KeysOK(dg, sort.keys, v1, o1, {})
      <3>1. ASSUME NEW m, InVisits(v, m) PROVE InVisits(v1, m) \/ m = n
        <4>1. PICK i \in 1 .. Len(v) : v[i].node = m
          BY <3>1 DEF InVisits
        <4>2. CASE i = Len(v)
          BY <2>2, <4>1, <4>2
        <4>3. CASE i # Len(v)
          <5>1. i \in 1 .. Len(v1) /\ v1[i] = v[i]
            BY <1>2, <2>5, <4>1, <4>3
          <5> QED  BY <4>1, <5>1 DEF InVisits
        <4> QED  BY <4>2, <4>3
      <3> QED  BY <1>3, <2>12, <3>1 DEF KeysOK
    <2>16. SortOK(dependency_graph, sort', {})
      BY <1>1, <2>8, <2>13, <2>14, <2>15 DEF SortOK
    <2> QED  BY <2>8, <2>16 DEF Sorting
  <1> QED  BY <1>4, <1>5, <1>6 DEF SortNext


-----------------------------------------------------------------------------
(* The session.                                                              *)

Units ==
    /\ SourceOK(source) /\ build.units \in Seq(DOMAIN source) /\ Len(build.units) \in Nat
    /\ unit \in 1 .. Len(build.units)
    /\ phase \in {"load", "order", "emit", "failed", "linked"}
    /\ \E S : objects \in Seq(S)
    /\ Len(objects) = IF phase = "linked" THEN unit ELSE unit - 1

Phases ==
    /\ phase \notin {"emit", "failed"} => ~Emitting /\ queue = <<>>
    /\ phase \in {"order", "emit", "linked"} => LoaderDone

Nodes == DOMAIN dependency_graph \cup Nss(source)

IInv ==
    /\ Units /\ Phases
    /\ Inv(ToSet(Deps(Root)))
    /\ phase = "order" => Sorting(Nodes)

\* What the loader's invariant says of the registry and of the unit's imports.
LEMMA InvRegistry ==
  ASSUME NEW im, Inv(im), SourceOK(source) PROVE RegistryClosed
  <1>1. Graph(source, loaded_modules, dependency_graph, registry)
    BY DEF Inv, LoaderInv
  <1> SUFFICES ASSUME NEW ns \in DOMAIN registry, NEW d \in ToSet(Deps(source[registry[ns]]))
               PROVE  d \in loaded_modules /\ (d \in DOMAIN registry \/ ParentOf(d) \in DOMAIN registry)
    BY DEF RegistryClosed
  <1>2. ns \in loaded_modules /\ registry[ns] = PathOf(source, ns) /\ Res(source, ns)
    BY <1>1 DEF Graph, IsModule
  <1>3. d \in Bel(source, ns)
    BY <1>2 DEF Bel, DepsOf
  <1>4. d \in loaded_modules
    BY <1>1, <1>2, <1>3 DEF Graph
  <1>5. CASE Res(source, d)
    BY <1>1, <1>4, <1>5 DEF Graph
  <1>6. CASE ~Res(source, d)
    <2>1. IsItem(source, d)
      BY <1>1, <1>4, <1>6 DEF Graph, Ok, IsModule
    <2>2. ParentOf(d) \in Bel(source, d)
      BY <1>6 DEF Bel
    <2>3. ParentOf(d) \in loaded_modules /\ Res(source, ParentOf(d))
      BY <1>1, <1>4, <2>1, <2>2 DEF Graph, IsItem
    <2> QED  BY <1>1, <1>4, <2>3 DEF Graph
  <1> QED  BY <1>4, <1>5, <1>6

LEMMA InvLoads ==
  ASSUME NEW imports, Inv(ToSet(imports)) PROVE LoadsWhatItCan(imports)
  <1> SUFFICES ASSUME LoaderDone, NEW ns \in ToSet(imports)
               PROVE  /\ ns \in loaded_modules => ns \in LoadsWithin[Cardinality(loaded_modules)]
                      /\ /\ Leaked <= MAX_RECURSION_DEPTH
                         /\ ns \in LoadsWithin[MAX_RECURSION_DEPTH + 1 - Leaked]
                         => ns \in loaded_modules
    BY DEF LoadsWhatItCan
  <1>1. ctl = Idle /\ work = <<>> /\ frames = <<>> /\ Len(loading_stack) \in Nat /\ Len(frames) = 0
    BY DEF LoaderDone, Inv, LoaderInv, Typed
  <1>2. ASSUME ns \in loaded_modules PROVE ns \in LoadsWithin[Cardinality(loaded_modules)]
    <2>1. Live(source, ns, Cardinality(loaded_modules))
      BY <1>2 DEF Inv, LoaderInv, Graph
    <2> QED  BY <2>1, WithinIs DEF Live
  <1>3. ASSUME Leaked <= MAX_RECURSION_DEPTH, ns \in LoadsWithin[MAX_RECURSION_DEPTH + 1 - Leaked]
        PROVE  ns \in loaded_modules
    <2>1. PICK k : k = MAX_RECURSION_DEPTH + 1 - Leaked
      OBVIOUS
    <2>2. k \in Nat
      BY <1>1, <1>3, <2>1, DepthAssumption DEF Leaked
    <2>3. Live(source, ns, k)
      BY <1>3, <2>1, <2>2, WithinIs DEF Live
    <2>4. k = Room(frames, loading_stack)
      BY <2>1 DEF Room, Leaked
    <2>5. ToSet(work) = {} /\ Cur(ctl, frames) = {}
      BY <1>1, EmptySet, CtlConst DEF Cur
    <2> QED  BY <2>3, <2>4, <2>5 DEF Inv, LoaderInv, Served
  <1> QED  BY <1>2, <1>3

LEMMA InvEdges ==
  ASSUME NEW im, Inv(im), SourceOK(source)
  PROVE  /\ \A n \in DOMAIN dependency_graph : dependency_graph[n] \in Seq(Nodes)
         /\ DOMAIN dependency_graph \subseteq Nodes
  <1>1. ASSUME NEW n \in DOMAIN dependency_graph PROVE dependency_graph[n] \in Seq(Nodes)
    <2>1. Res(source, n) /\ dependency_graph[n] = DepsOf(source, n)
      BY DEF Inv, LoaderInv, Graph, IsModule
    <2>2. dependency_graph[n] \in Seq(Nss(source))
      BY <2>1, BelowNamed
    <2> QED  BY <2>2 DEF Nodes
  <1> QED  BY <1>1 DEF Nodes

LEMMA SortedRight ==
  ASSUME NEW im, NEW N, Inv(im), SourceOK(source), Sorting(N) PROVE ImportsComeFirst
  <1> DEFINE o == sort.order
  <1> SUFFICES ASSUME SortDone
               PROVE  /\ DOMAIN registry \subseteq ToSet(o)
                      /\ \A i, j \in DOMAIN o : o[i] = o[j] => i = j
                      /\ \A i \in DOMAIN o : o[i] \in DOMAIN registry =>
                           \A d \in ToSet(Deps(source[registry[o[i]]])) :
                             \E j \in 1 .. i - 1 : o[j] = d
    BY Zenon DEF ImportsComeFirst
  <1>2. /\ o \in Seq(N) /\ DOMAIN o = 1 .. Len(o) /\ ListOK(dependency_graph, o)
        /\ KeysOK(dependency_graph, {}, <<>>, o, {})
    BY SortParts DEF SortDone
  <1>3. Graph(source, loaded_modules, dependency_graph, registry)
    BY DEF Inv, LoaderInv
  <1>4. ASSUME NEW n \in DOMAIN registry PROVE n \in ToSet(o)
    <2>1. InOrder(o, n)
      BY <1>2, <1>3 DEF Graph, KeysOK, InVisits
    <2> QED  BY <1>2, <2>1 DEF InOrder, ToSet
  <1>5. ASSUME NEW i \in DOMAIN o, o[i] \in DOMAIN registry,
               NEW d \in ToSet(Deps(source[registry[o[i]]]))
        PROVE  \E j \in 1 .. i - 1 : o[j] = d
    <2>1. Edges(dependency_graph, o[i]) = Deps(source[registry[o[i]]])
      BY <1>3, <1>5 DEF Graph, Edges, DepsOf
    <2> QED  BY <1>2, <1>5, <2>1 DEF ListOK
  <1> QED  BY <1>2, <1>4, <1>5 DEF ListOK

LEMMA IInvReady == IInv => ModulesReady
  <1> SUFFICES ASSUME IInv PROVE ModulesReady
    OBVIOUS
  <1>1. TypeOK
    BY DEF IInv, Units, Phases, TypeOK
  <1>2. RegistryClosed
    BY InvRegistry DEF IInv, Units
  <1>3. ImportsLoad
    BY InvLoads DEF IInv, ImportsLoad
  <1>4. OrderOfImports
    BY SortedRight DEF IInv, Units, OrderOfImports
  <1> QED  BY <1>1, <1>2, <1>3, <1>4 DEF ModulesReady

LEMMA IInvInit == Init => IInv
  <1> SUFFICES ASSUME Init PROVE IInv
    OBVIOUS
  <1>1. PICK b \in Builds :
          /\ source = b.source /\ build = [mode |-> b.mode, units |-> b.units]
          /\ unit = 1 /\ phase = "load" /\ queue = <<>> /\ current = IdleBody /\ objects = <<>>
          /\ LoaderInit(Deps(b.source[b.units[1]]))
    BY DEF Init
  <1>2. /\ b.units \in Seq(DOMAIN b.source) /\ b.units # <<>>
        /\ \A p \in DOMAIN b.source : b.source[p].imports \in Seq(ToSet(b.source[p].imports))
    BY BuildsAssumption
  <1>3. build.units = b.units
    BY <1>1
  <1>4. /\ SourceOK(source) /\ build.units \in Seq(DOMAIN source) /\ Len(build.units) \in Nat
        /\ Len(build.units) >= 1
    BY <1>1, <1>2, <1>3 DEF SourceOK
  <1>5. Units
    <2>1. objects \in Seq({}) /\ Len(objects) = 0
      BY <1>1
    <2>2. unit \in 1 .. Len(build.units) /\ unit - 1 = 0
      BY <1>1, <1>4
    <2> QED  BY <1>1, <1>4, <2>1, <2>2 DEF Units
  <1>6. Phases
    BY <1>1 DEF Phases, Emitting, IdleBody
  <1>7. Root = source[build.units[1]] /\ build.units[1] \in DOMAIN source
    BY <1>1, <1>4 DEF Root, UnitPath
  <1>8. Inv(ToSet(Deps(Root)))
    <2>1. work = Deps(Root)
      BY <1>1, <1>3, <1>7 DEF LoaderInit
    <2> QED  BY <1>1, <1>4, <1>7, <2>1, StartLoader DEF Inv, LoaderInit
  <1> QED  BY <1>1, <1>5, <1>6, <1>8 DEF IInv

\* The steps that leave the loader alone.
LEMMA InvSame ==
  ASSUME NEW im, Inv(im), UNCHANGED <<source, loaderVars>> PROVE Inv(im)'
  BY DEF Inv, loaderVars

LEMMA RootSame == UNCHANGED <<source, build, unit>> => Root' = Root
  BY DEF Root, UnitPath

LEMMA IInvNext == IInv /\ [Next]_vars => IInv'
  <1> SUFFICES ASSUME IInv, [Next]_vars PROVE IInv'
    OBVIOUS
  <1>1. Units /\ Phases /\ Inv(ToSet(Deps(Root))) /\ (phase = "order" => Sorting(Nodes)) /\ SourceOK(source)
    BY DEF IInv, Units
  <1>2. ASSUME UNCHANGED <<source, build, unit, objects, loaderVars>>,
               phase' \in {"load", "order", "emit", "failed"}, phase # "linked",
               phase' \notin {"emit", "failed"} => ~Emitting' /\ queue' = <<>>,
               phase' \in {"order", "emit", "linked"} => LoaderDone,
               phase' = "order" => Sorting(Nodes)'
        PROVE  IInv'
    <2>1. Units'
      BY <1>1, <1>2 DEF Units
    <2>2. Phases'
      BY <1>2 DEF Phases, LoaderDone, loaderVars
    <2>3. Inv(ToSet(Deps(Root)))'
      <3>1. Root' = Root
        BY <1>2, RootSame
      <3>2. PICK im : im = ToSet(Deps(Root))
        OBVIOUS
      <3>3. Inv(im)'
        BY <1>1, <1>2, <3>2, InvSame
      <3>4. ToSet(Deps(Root))' = im
        BY <3>1, <3>2 DEF Deps
      <3> QED  BY <3>3, <3>4 DEF Inv
    <2> QED  BY <1>2, <2>1, <2>2, <2>3 DEF IInv
  <1>3. CASE Load
    <2>1. phase = "load" /\ LoaderNext /\ UNCHANGED <<source, build, unit, phase, objects, queue, current>>
      BY <1>3 DEF Load, sessionVars
    <2>2. PICK im : im = ToSet(Deps(Root))
      OBVIOUS
    <2>3. Inv(im)'
      BY <1>1, <2>1, <2>2, LoaderStep
    <2>4. ToSet(Deps(Root))' = im
      BY <2>1, <2>2, RootSame DEF Deps
    <2>5. Inv(ToSet(Deps(Root)))'
      BY <2>3, <2>4 DEF Inv
    <2>6. Units'
      BY <1>1, <2>1 DEF Units
    <2>7. Phases'
      BY <1>1, <2>1 DEF Phases, Emitting
    <2> QED  BY <2>1, <2>5, <2>6, <2>7 DEF IInv
  <1>4. PICK N : N = Nodes
    OBVIOUS
  <1>5. /\ \A n \in DOMAIN dependency_graph : dependency_graph[n] \in Seq(N)
        /\ DOMAIN dependency_graph \subseteq N
    BY <1>1, <1>4, InvEdges
  <1>6. UNCHANGED <<source, loaderVars>> => Nodes' = N /\ UNCHANGED dependency_graph
    BY <1>4 DEF Nodes, Nss, ImportedIn, Res, loaderVars
  <1>7. CASE OrderStart
    <2>1. /\ UNCHANGED <<source, build, unit, objects, loaderVars, queue, current>>
          /\ phase = "load" /\ phase' = "order" /\ LoaderDone /\ StartSort
      BY <1>7 DEF OrderStart
    <2>2. Sorting(N)'
      BY <1>5, <1>6, <2>1, SortStart
    <2>3. Sorting(Nodes)'
      BY <1>6, <2>1, <2>2 DEF Sorting
    <2> QED  BY <1>1, <1>2, <2>1, <2>3 DEF Phases, Emitting
  <1>8. CASE Order
    <2>1. /\ UNCHANGED <<source, build, unit, objects, loaderVars, queue, current, phase>>
          /\ phase = "order" /\ SortNext
      BY <1>8 DEF Order, sessionVars
    <2>2. Sorting(N)
      BY <1>1, <1>4, <2>1
    <2>3. Sorting(N)'
      BY <1>5, <1>6, <2>1, <2>2, SortStep
    <2>4. Sorting(Nodes)'
      BY <1>6, <2>1, <2>3 DEF Sorting
    <2> QED  BY <1>1, <1>2, <2>1, <2>4 DEF Phases, Emitting
  <1>9. CASE CannotStart \/ Undefined
    <2>1. /\ UNCHANGED <<source, build, unit, objects, loaderVars>>
          /\ phase \in {"order", "emit"} /\ phase' = "failed"
      BY <1>9 DEF CannotStart, Undefined, Fail
    <2> QED  BY <1>2, <2>1
  <1>10. CASE Register
    <2>1. /\ UNCHANGED <<source, build, unit, objects, loaderVars>>
          /\ phase = "order" /\ phase' = "emit"
      BY <1>10 DEF Register
    <2> QED  BY <1>1, <1>2, <2>1 DEF Phases
  <1>11. CASE Hydrate \/ EmitCall \/ EmitRef \/ EmitPrint \/ FinishBody
    <2>1. /\ UNCHANGED <<source, build, unit, objects, loaderVars>>
          /\ phase = "emit" /\ phase' = "emit"
      BY <1>11 DEF Hydrate, EmitCall, EmitRef, EmitPrint, FinishBody
    <2> QED  BY <1>1, <1>2, <2>1 DEF Phases
  <1>12. CASE Assemble
    <2>1. /\ phase = "emit" /\ ~Emitting /\ queue = <<>> /\ UNCHANGED <<source, build>>
          /\ objects' = Append(objects, Object)
      BY <1>12 DEF Assemble
    <2>2. (\E S : objects' \in Seq(S)) /\ Len(objects') = Len(objects) + 1
      <3>1. PICK S : objects \in Seq(S)
        BY <1>1 DEF Units
      <3>2. PICK x : x = Object
        OBVIOUS
      <3>3. objects \in Seq(S \cup {x}) /\ x \in S \cup {x}
        BY <3>1
      <3>4. Append(objects, x) \in Seq(S \cup {x}) /\ Len(Append(objects, x)) = Len(objects) + 1
        BY <3>3, AppendFacts
      <3> QED  BY <2>1, <3>2, <3>4
    <2>3. Len(objects) = unit - 1 /\ unit \in Nat /\ Len(build.units) \in Nat
      BY <1>1, <2>1 DEF Units
    <2>4. CASE unit < Len(build.units)
      <3>1. StartUnit(unit + 1)
        BY <1>12, <2>4 DEF Assemble
      <3>2. unit' = unit + 1 /\ phase' = "load" /\ queue' = <<>> /\ current' = IdleBody
        BY <3>1 DEF StartUnit
      <3>3. Len(objects') = unit' - 1 /\ unit' \in 1 .. Len(build.units)
        BY <2>2, <2>3, <2>4, <3>2
      <3>4. Units'
        BY <1>1, <2>1, <2>2, <3>2, <3>3 DEF Units
      <3>5. Phases'
        BY <3>2 DEF Phases, Emitting, IdleBody
      <3>6. PICK p : p = build.units[unit + 1]
        OBVIOUS
      <3>7. p \in DOMAIN source
        BY <1>1, <3>2, <3>3, <3>6 DEF Units
      <3>8. Root' = source[p]
        BY <2>1, <3>2, <3>6 DEF Root, UnitPath
      <3>9. /\ work' = Deps(source[p]) /\ ctl' = Idle /\ frames' = <<>> /\ loading_stack' = <<>>
            /\ loaded_modules' = {} /\ dependency_graph' = <<>> /\ registry' = <<>>
        BY <3>1, <3>6 DEF StartUnit
      <3>10. PICK wk : wk = Deps(source[p])
        OBVIOUS
      <3>11. LoaderInv(source, ToSet(wk), wk, Idle, <<>>, <<>>, {}, <<>>, <<>>)
        BY <1>1, <3>7, <3>10, StartLoader
      <3>12. Inv(ToSet(wk))'
        BY <2>1, <3>9, <3>10, <3>11, Zenon DEF Inv
      <3>13. ToSet(Deps(Root))' = ToSet(wk)
        BY <3>8, <3>10 DEF Deps
      <3>14. Inv(ToSet(Deps(Root)))'
        BY <3>12, <3>13 DEF Inv
      <3> QED  BY <3>2, <3>4, <3>5, <3>14 DEF IInv
    <2>5. CASE ~(unit < Len(build.units))
      <3>1. phase' = "linked" /\ UNCHANGED <<loaderVars, unit, queue, current>>
        BY <1>12, <2>5 DEF Assemble
      <3>2. Len(objects') = unit
        BY <2>2, <2>3
      <3>3. Units'
        BY <1>1, <2>1, <2>2, <3>1, <3>2 DEF Units
      <3>4. Phases'
        BY <1>1, <2>1, <3>1 DEF Phases, Emitting, LoaderDone, loaderVars
      <3>5. PICK im : im = ToSet(Deps(Root))
        OBVIOUS
      <3>6. Inv(im)'
        BY <1>1, <2>1, <3>1, <3>5, InvSame
      <3>7. ToSet(Deps(Root))' = im
        BY <2>1, <3>1, <3>5, RootSame DEF Deps
      <3>8. Inv(ToSet(Deps(Root)))'
        BY <3>6, <3>7 DEF Inv
      <3> QED  BY <3>1, <3>3, <3>4, <3>8 DEF IInv
    <2> QED  BY <2>4, <2>5
  <1>13. CASE UNCHANGED vars
    <2>1. UNCHANGED <<source, build, loaderVars, sort, sessionVars>>
      BY <1>13 DEF vars
    <2>2. UNCHANGED <<unit, phase, objects, queue, current>>
      BY <2>1 DEF sessionVars
    <2>3. Units'
      BY <1>1, <2>1, <2>2 DEF Units
    <2>4. Phases'
      BY <1>1, <2>1, <2>2 DEF Phases, Emitting, LoaderDone, loaderVars
    <2>5. PICK im : im = ToSet(Deps(Root))
      OBVIOUS
    <2>6. Inv(im)'
      BY <1>1, <2>1, <2>5, InvSame
    <2>7. ToSet(Deps(Root))' = im
      BY <2>1, <2>2, <2>5, RootSame DEF Deps
    <2>8. Inv(ToSet(Deps(Root)))'
      BY <2>6, <2>7 DEF Inv
    <2>9. phase = "order" => Sorting(Nodes)'
      BY <1>1, <1>4, <1>6, <2>1 DEF Sorting
    <2> QED  BY <2>2, <2>3, <2>4, <2>8, <2>9 DEF IInv
  <1> QED  BY <1>3, <1>7, <1>8, <1>9, <1>10, <1>11, <1>12, <1>13 DEF Next, Done

-----------------------------------------------------------------------------
(* The result.                                                               *)

\* For every build: what a unit's loader hands to the emitter is complete,
\* whole and in order (ModulesReady), whatever modules are missing, unreadable,
\* malformed or cyclic, whatever they leave in loading_stack, and whatever
\* order get_compilation_order takes the keys of the graph in.
THEOREM SessionModulesReady == Spec => []ModulesReady
  <1>1. Init => IInv
    BY IInvInit
  <1>2. IInv /\ [Next]_vars => IInv'
    BY IInvNext
  <1>3. IInv => ModulesReady
    BY IInvReady
  <1> QED  BY <1>1, <1>2, <1>3, PTL DEF Spec

=============================================================================
