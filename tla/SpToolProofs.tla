---------------------------- MODULE SpToolProofs ----------------------------
(***************************************************************************)
(* Proofs about SpTool, for all manifests, directories, names, outcomes    *)
(* and numbers of edits, with one terminal and sources that change only    *)
(* between commands: two commands at once share /tmp/salt_build with no    *)
(* lock, and a build in one terminal may find the sources edited under it. *)
(*                                                                         *)
(* Most of the state is passed as an argument (dp for the manifests, sr    *)
(* for the sources, cs for what compiled...), so that a lemma speaks of    *)
(* the state before and after a step alike.                                *)
(***************************************************************************)
EXTENDS SpTool, CommonLemmas, FiniteSetTheorems, TLAPS

-----------------------------------------------------------------------------
(* What a project needs, as a function of the manifests alone.              *)

ClosedIn(dp, S) ==
    \A e \in S : \A n \in DOMAIN dp[e] : dp[e][n].dir \in Dirs => dp[e][n].dir \in S
Reach(dp, d) == {e \in Dirs : \A S \in SUBSET Dirs : d \in S /\ ClosedIn(dp, S) => e \in S}
Clash(dp, d) ==
    \E e, f \in Reach(dp, d) : \E n \in DOMAIN dp[e] \cap DOMAIN dp[f] : dp[e][n] # dp[f][n]

LEMMA NeededIs == ASSUME NEW d PROVE Needed(d) = Reach(deps, d)
  BY DEF Needed, Closed, Reach, ClosedIn

LEMMA NeededIsNext == ASSUME NEW d PROVE Needed(d)' = Reach(deps', d)
  BY DEF Needed, Closed, Reach, ClosedIn

LEMMA ClashIs == ASSUME NEW d PROVE NameClash(d) = Clash(deps, d)
  BY NeededIs DEF NameClash, Clash

LEMMA ClashIsNext == ASSUME NEW d PROVE NameClash(d)' = Clash(deps', d)
  BY NeededIsNext DEF NameClash, Clash

LEMMA ReachSelf == ASSUME NEW dp, NEW d \in Dirs PROVE d \in Reach(dp, d)
  BY DEF Reach

LEMMA ReachDirs == ASSUME NEW dp, NEW d PROVE Reach(dp, d) \subseteq Dirs
  BY DEF Reach

LEMMA ReachDep ==
  ASSUME NEW dp, NEW d, NEW e \in Reach(dp, d), NEW n \in DOMAIN dp[e], dp[e][n].dir \in Dirs
  PROVE  dp[e][n].dir \in Reach(dp, d)
  BY DEF Reach, ClosedIn

LEMMA ReachTrans ==
  ASSUME NEW dp, NEW d, NEW e \in Reach(dp, d), NEW f \in Reach(dp, e)
  PROVE  f \in Reach(dp, d)
  BY DEF Reach

LEMMA ReachLeast ==
  ASSUME NEW dp, NEW d, NEW S \in SUBSET Dirs, d \in S, ClosedIn(dp, S)
  PROVE  Reach(dp, d) \subseteq S
  BY DEF Reach

-----------------------------------------------------------------------------
(* The resolver, as a function of the manifests and of what the command      *)
(* holds: p has the fields of a command.                                     *)

ManifestsOK(dp) == DOMAIN dp = Dirs /\ \A d \in Dirs : DOMAIN dp[d] \subseteq Names

Frames(dp) == [name : Names \cup {""}, dir : Dirs, man : {dp[e] : e \in Dirs}, left : SUBSET Names]

\* A name taken from a manifest has been seen, and it led to this directory.
FrameInv(dp, p, f) ==
    /\ f.man = dp[f.dir] /\ f.left \subseteq DOMAIN f.man
    /\ DOMAIN f.man \ f.left \subseteq p.seen

CalledBy(dp, p, f) ==
    \E e \in Reach(dp, p.dir) : f.name \in DOMAIN dp[e] /\ dp[e][f.name].dir = f.dir

StackInv(dp, p) ==
    /\ p.dir \in Dirs
    /\ p.stack \in Seq(Frames(dp)) /\ Len(p.stack) >= 1
    /\ p.stack[1].dir = p.dir
    /\ \A i \in 1 .. Len(p.stack) : FrameInv(dp, p, p.stack[i])
    /\ \A i \in 2 .. Len(p.stack) : CalledBy(dp, p, p.stack[i])
    /\ \A k \in 1 .. Len(p.stack) : \A i \in 1 .. k :
        p.stack[k].dir \in Reach(dp, p.stack[i].dir)

RootsInv(dp, p) ==
    /\ p.roots \in Seq(Dirs) /\ Len(p.roots) >= 1
    /\ p.roots[1] = p.dir
    /\ \A j \in 1 .. Len(p.roots) : p.roots[j] \in Reach(dp, p.dir)
    /\ \A j \in 2 .. Len(p.roots) : DOMAIN dp[p.roots[j]] \subseteq p.seen

\* Every name seen has its frame or its search root.
SeenInv(p) ==
    /\ p.seen \subseteq Names
    /\ Len(p.roots) + Len(p.stack) = Cardinality(p.seen) + 2

\* Where no name stands for two directories, the directory a seen name stands
\* for is being gone through or is a search root,
OnStack(stack, n) == \E i \in 2 .. Len(stack) : stack[i].name = n
Found(roots, e) == \E j \in 2 .. Len(roots) : roots[j] = e
NamesLead(dp, p) ==
    \A e \in Reach(dp, p.dir) : \A n \in DOMAIN dp[e] \cap p.seen :
        OnStack(p.stack, n) \/ Found(p.roots, dp[e][n].dir)

\* and a search root comes after what it needs, unless they need each other.
Ordered(dp, roots) ==
    \A j \in 2 .. Len(roots) : \A n \in DOMAIN dp[roots[j]] :
        \/ roots[j] \in Reach(dp, dp[roots[j]][n].dir)
        \/ \E i \in 2 .. j - 1 : roots[i] = dp[roots[j]][n].dir

ClashFree(dp, p) == ~Clash(dp, p.dir) => NamesLead(dp, p) /\ Ordered(dp, p.roots)

Resolving(dp, p) == StackInv(dp, p) /\ RootsInv(dp, p) /\ SeenInv(p) /\ ClashFree(dp, p)

\* What resolve returns.
Covered(dp, p) ==
    /\ p.roots \in Seq(Dirs)
    /\ \A j \in 1 .. Len(p.roots) : p.roots[j] \in Reach(dp, p.dir)
    /\ ~Clash(dp, p.dir) => \A e \in Reach(dp, p.dir) : \E j \in 1 .. Len(p.roots) : p.roots[j] = e

Resolved(dp, p) ==
    /\ Covered(dp, p)
    /\ Len(p.roots) \in 1 .. Cardinality(Names) + 1
    /\ p.roots[1] = p.dir
    /\ ~Clash(dp, p.dir) => Ordered(dp, p.roots)

\* What resolve_single does to what the command holds.
IsTaken(p, q, n, s) ==
    /\ s \in Nat \ {0} /\ s = Len(p.stack)
    /\ n \in p.stack[s].left
    /\ \A i \in 1 .. s : /\ q.stack[i].name = p.stack[i].name /\ q.stack[i].dir = p.stack[i].dir
                         /\ q.stack[i].man = p.stack[i].man
                         /\ q.stack[i].left = IF i = s THEN p.stack[i].left \ {n} ELSE p.stack[i].left

KeepsNames(p, q, X) ==
    /\ q.dir = p.dir /\ q.roots = p.roots /\ q.seen = p.seen \cup X
    /\ \A n : OnStack(p.stack, n) => OnStack(q.stack, n)
    /\ \A n \in X : OnStack(q.stack, n)

LEMMA NamesKept ==
  ASSUME NEW dp, NEW p, NEW q, NEW X, KeepsNames(p, q, X), ClashFree(dp, p)
  PROVE  ClashFree(dp, q)
  <1>1. ASSUME NamesLead(dp, p), NEW e \in Reach(dp, p.dir), NEW n \in DOMAIN dp[e], n \in q.seen
        PROVE  OnStack(q.stack, n) \/ Found(q.roots, dp[e][n].dir)
    <2>1. CASE n \in X
      BY <2>1 DEF KeepsNames
    <2>2. CASE n \in p.seen
      BY <1>1, <2>2 DEF NamesLead, KeepsNames
    <2> QED  BY <1>1, <2>1, <2>2 DEF KeepsNames
  <1>2. NamesLead(dp, p) => NamesLead(dp, q)
    BY <1>1 DEF NamesLead, KeepsNames
  <1> QED  BY <1>2 DEF ClashFree, KeepsNames

LEMMA AppendFacts ==
  ASSUME NEW S, NEW w \in Seq(S), NEW x \in S
  PROVE  /\ Append(w, x) \in Seq(S) /\ Len(Append(w, x)) = Len(w) + 1
         /\ Append(w, x)[Len(w) + 1] = x
         /\ \A i \in 1 .. Len(w) : Append(w, x)[i] = w[i]
  OBVIOUS

LEMMA FrameTaken ==
  ASSUME NEW dp, NEW p, NEW q, NEW n, NEW s, StackInv(dp, p), IsTaken(p, q, n, s),
         p.seen \subseteq q.seen, n \in q.seen, q.dir = p.dir
  PROVE  /\ \A i \in 1 .. s : FrameInv(dp, q, q.stack[i])
         /\ \A i \in 2 .. s : CalledBy(dp, q, q.stack[i])
         /\ \A k \in 1 .. s : \A i \in 1 .. k : q.stack[k].dir \in Reach(dp, q.stack[i].dir)
         /\ q.stack[1].dir = q.dir
  <1>1. s \in Nat \ {0} /\ s = Len(p.stack)
    BY DEF IsTaken
  <1>2. ASSUME NEW i \in 1 .. s PROVE FrameInv(dp, q, q.stack[i])
    <2>1. FrameInv(dp, p, p.stack[i])
      BY <1>1, <1>2 DEF StackInv
    <2>2. /\ q.stack[i].dir = p.stack[i].dir /\ q.stack[i].man = p.stack[i].man
          /\ q.stack[i].left = p.stack[i].left \/ q.stack[i].left = p.stack[i].left \ {n}
      BY <1>2 DEF IsTaken
    <2> QED  BY <2>1, <2>2 DEF FrameInv
  <1>3. ASSUME NEW i \in 2 .. s PROVE CalledBy(dp, q, q.stack[i])
    <2>1. CalledBy(dp, p, p.stack[i])
      BY <1>1, <1>3 DEF StackInv
    <2>3. i \in 1 .. s
      BY <1>1, <1>3
    <2>2. q.stack[i].dir = p.stack[i].dir /\ q.stack[i].name = p.stack[i].name
      BY <2>3 DEF IsTaken
    <2> QED  BY <2>1, <2>2 DEF CalledBy
  <1>4. ASSUME NEW k \in 1 .. s, NEW i \in 1 .. k PROVE q.stack[k].dir \in Reach(dp, q.stack[i].dir)
    <2>1. i \in 1 .. s
      BY <1>1, <1>4
    <2> QED  BY <1>1, <1>4, <2>1 DEF IsTaken, StackInv
  <1>6. 1 \in 1 .. s
    BY <1>1
  <1>5. q.stack[1].dir = q.dir
    BY <1>6 DEF IsTaken, StackInv
  <1> QED  BY <1>2, <1>3, <1>4, <1>5

LEMMA TakenIs ==
  ASSUME NEW dp, NEW p, StackInv(dp, p), NEW n \in p.stack[Len(p.stack)].left,
         NEW q, q.stack = Taken(p.stack, n)
  PROVE  /\ q.stack \in Seq(Frames(dp)) /\ Len(q.stack) = Len(p.stack)
         /\ IsTaken(p, q, n, Len(p.stack))
  <1>1. PICK s : s = Len(p.stack)
    OBVIOUS
  <1>2. PICK st : st = p.stack
    OBVIOUS
  <1>3. s \in Nat \ {0} /\ st \in Seq(Frames(dp)) /\ Len(st) = s
    BY <1>1, <1>2 DEF StackInv
  <1>4. q.stack = [st EXCEPT ![s] = [st[s] EXCEPT !.left = @ \ {n}]]
    BY <1>1, <1>2 DEF Taken
  <1>5. \A i \in 1 .. s : st[i] \in Frames(dp)
    BY <1>3
  <1>10. PICK f \in Frames(dp) : f = st[s]
    BY <1>3, <1>5
  <1>11. PICK g : g = [f EXCEPT !.left = @ \ {n}]
    OBVIOUS
  <1>6. /\ g \in Frames(dp)
        /\ g.name = f.name /\ g.dir = f.dir /\ g.man = f.man /\ g.left = f.left \ {n}
    BY <1>11 DEF Frames
  <1>12. q.stack = [st EXCEPT ![s] = g]
    BY <1>4, <1>10, <1>11
  <1>7. q.stack \in Seq(Frames(dp)) /\ Len(q.stack) = s
    BY <1>3, <1>12, <1>6
  <1>8. \A i \in 1 .. s : q.stack[i] = IF i = s THEN g ELSE st[i]
    BY <1>3, <1>12
  <1>9. IsTaken(p, q, n, s)
    BY <1>1, <1>2, <1>3, <1>6, <1>8, <1>10 DEF IsTaken
  <1> QED  BY <1>1, <1>7, <1>9

\* A name seen before: nothing but the frame's list changes.
LEMMA SkipStep ==
  ASSUME NEW dp, NEW p, Resolving(dp, p), NEW n \in p.stack[Len(p.stack)].left, n \in p.seen,
         NEW q, q.stack = Taken(p.stack, n), q.dir = p.dir, q.seen = p.seen, q.roots = p.roots
  PROVE  Resolving(dp, q)
  <1>1. StackInv(dp, p) /\ RootsInv(dp, p) /\ SeenInv(p) /\ ClashFree(dp, p)
    BY DEF Resolving
  <1>2. /\ q.stack \in Seq(Frames(dp)) /\ Len(q.stack) = Len(p.stack)
        /\ IsTaken(p, q, n, Len(p.stack))
    BY <1>1, TakenIs
  <1>3. StackInv(dp, q)
    BY <1>1, <1>2, FrameTaken DEF StackInv
  <1>4. RootsInv(dp, q) /\ SeenInv(q)
    BY <1>1, <1>2 DEF RootsInv, SeenInv
  <1>5. ASSUME NEW m, OnStack(p.stack, m) PROVE OnStack(q.stack, m)
    <2>1. PICK i \in 2 .. Len(p.stack) : p.stack[i].name = m
      BY <1>5 DEF OnStack
    <2>2. i \in 1 .. Len(p.stack)
      BY <2>1
    <2>3. q.stack[i].name = m
      BY <1>2, <2>1, <2>2 DEF IsTaken
    <2> QED  BY <1>2, <2>3 DEF OnStack
  <1>6. ClashFree(dp, q)
    <2>1. KeepsNames(p, q, {})
      BY <1>5 DEF KeepsNames
    <2> QED  BY <1>1, <2>1, NamesKept
  <1> QED  BY <1>3, <1>4, <1>6 DEF Resolving

\* A dependency that can be resolved: its manifest is gone through next.
FrameOf(dp, n, g) == [name |-> n, dir |-> g, man |-> dp[g], left |-> DOMAIN dp[g]]

Entered(dp, p, q, n, g) ==
    /\ n \in p.stack[Len(p.stack)].left /\ n \notin p.seen
    /\ g \in Dirs /\ g = p.stack[Len(p.stack)].man[n].dir
    /\ q.stack = Append(Taken(p.stack, n), FrameOf(dp, n, g))
    /\ q.dir = p.dir /\ q.seen = p.seen \cup {n} /\ q.roots = p.roots

LEMMA EnterStep ==
  ASSUME NEW dp, ManifestsOK(dp), NEW p, Resolving(dp, p), IsFiniteSet(Names),
         NEW n, NEW g, NEW q, Entered(dp, p, q, n, g)
  PROVE  Resolving(dp, q)
  <1>1. StackInv(dp, p) /\ RootsInv(dp, p) /\ SeenInv(p) /\ ClashFree(dp, p)
    BY DEF Resolving
  <1>0. PICK s, top : s = Len(p.stack) /\ top = p.stack[s]
    OBVIOUS
  <1>f. PICK f : /\ f = FrameOf(dp, n, g) /\ f.name = n /\ f.dir = g /\ f.man = dp[g]
                 /\ f.left = DOMAIN dp[g]
    <2>1. PICK a, b : a = dp[g] /\ b = DOMAIN dp[g]
      OBVIOUS
    <2>2. FrameOf(dp, n, g) = [name |-> n, dir |-> g, man |-> a, left |-> b]
      BY <2>1 DEF FrameOf
    <2> QED  BY <2>1, <2>2
  <1>q. /\ g \in Dirs /\ n \notin p.seen
        /\ q.dir = p.dir /\ q.seen = p.seen \cup {n} /\ q.roots = p.roots
    BY DEF Entered
  <1>2. PICK u : u.stack = Taken(p.stack, n)
    <2>1. [stack |-> Taken(p.stack, n)].stack = Taken(p.stack, n)
      OBVIOUS
    <2> QED  BY <2>1
  <1>3. /\ u.stack \in Seq(Frames(dp)) /\ Len(u.stack) = s /\ s \in Nat \ {0}
        /\ IsTaken(p, u, n, s)
    <2>1. IsTaken(p, u, n, s) /\ u.stack \in Seq(Frames(dp)) /\ Len(u.stack) = s
      BY <1>0, <1>1, <1>2, TakenIs DEF Entered
    <2> QED  BY <2>1 DEF IsTaken
  <1>4. top \in Frames(dp) /\ top.man = dp[top.dir] /\ n \in DOMAIN dp[top.dir]
        /\ g = dp[top.dir][n].dir /\ top.dir \in Dirs /\ n \in Names
    <2>1. s \in 1 .. s /\ p.stack \in Seq(Frames(dp))
      BY <1>1, <1>3 DEF StackInv
    <2>2. top \in Frames(dp)
      BY <1>0, <2>1
    <2>3. FrameInv(dp, p, top)
      BY <1>0, <1>1, <2>1 DEF StackInv
    <2>4. n \in top.left /\ g = top.man[n].dir
      BY <1>0 DEF Entered
    <2> QED  BY <2>2, <2>3, <2>4 DEF Frames, FrameInv, ManifestsOK
  <1>5. f \in Frames(dp)
    BY <1>4, <1>f, <1>q DEF Frames, ManifestsOK, FrameOf
  <1>6. /\ q.stack \in Seq(Frames(dp)) /\ Len(q.stack) = s + 1
        /\ q.stack[s + 1] = f /\ \A i \in 1 .. s : q.stack[i] = u.stack[i]
    <2>1. PICK w \in Seq(Frames(dp)) : w = u.stack
      BY <1>3
    <2>2. q.stack = Append(w, f) /\ Len(w) = s
      BY <2>1, <1>2, <1>3, <1>f DEF Entered
    <2>3. /\ Append(w, f) \in Seq(Frames(dp)) /\ Len(Append(w, f)) = Len(w) + 1
          /\ Append(w, f)[Len(w) + 1] = f
          /\ \A i \in 1 .. Len(w) : Append(w, f)[i] = w[i]
      BY <2>1, <1>5, AppendFacts
    <2> QED  BY <2>1, <2>2, <2>3, Zenon
  <1>7. IsTaken(p, q, n, s)
    BY <1>3, <1>6 DEF IsTaken
  <1>8. /\ \A i \in 1 .. s : FrameInv(dp, q, q.stack[i])
        /\ \A i \in 2 .. s : CalledBy(dp, q, q.stack[i])
        /\ \A k \in 1 .. s : \A i \in 1 .. k : q.stack[k].dir \in Reach(dp, q.stack[i].dir)
        /\ q.stack[1].dir = q.dir
    BY <1>1, <1>7, <1>q, FrameTaken
  <1>9. FrameInv(dp, q, f)
    BY <1>f DEF FrameInv
  <1>10. s \in 1 .. s /\ 1 \in 1 .. s
    BY <1>3
  <1>11. q.stack[s].dir = top.dir
    BY <1>0, <1>7, <1>10 DEF IsTaken
  <1>12. top.dir \in Reach(dp, p.dir)
    BY <1>8, <1>10, <1>11, <1>q
  <1>13. CalledBy(dp, q, f)
    BY <1>4, <1>12, <1>f, <1>q DEF CalledBy
  <1>14. g \in Reach(dp, top.dir)
    BY <1>4, <1>q, ReachSelf, ReachDep
  <1>15. \A i \in 1 .. s : g \in Reach(dp, q.stack[i].dir)
    <2> SUFFICES ASSUME NEW i \in 1 .. s PROVE g \in Reach(dp, q.stack[i].dir)
      OBVIOUS
    <2>1. top.dir \in Reach(dp, q.stack[i].dir)
      BY <1>8, <1>10, <1>11
    <2> QED  BY <2>1, <1>14, ReachTrans
  <1>16. g \in Reach(dp, g)
    BY <1>q, ReachSelf
  <1>17. StackInv(dp, q)
    <2>1. \A i \in 1 .. s + 1 : i \in 1 .. s \/ i = s + 1
      BY <1>3
    <2>2. \A i \in 2 .. s + 1 : i \in 2 .. s \/ i = s + 1
      BY <1>3
    <2>3. \A i \in 1 .. s + 1 : FrameInv(dp, q, q.stack[i])
      BY <1>6, <1>8, <1>9, <2>1
    <2>4. \A i \in 2 .. s + 1 : CalledBy(dp, q, q.stack[i])
      BY <1>6, <1>8, <1>13, <2>2
    <2>5. ASSUME NEW k \in 1 .. s + 1, NEW i \in 1 .. k
          PROVE  q.stack[k].dir \in Reach(dp, q.stack[i].dir)
      <3>1. CASE k \in 1 .. s
        BY <3>1, <1>8
      <3>2. CASE k = s + 1
        <4>1. i \in 1 .. s \/ i = s + 1
          BY <3>2, <1>3
        <4> QED  BY <3>2, <4>1, <1>f, <1>6, <1>15, <1>16
      <3> QED  BY <3>1, <3>2, <2>1
    <2>6. q.dir \in Dirs
      BY <1>1, <1>q DEF StackInv
    <2>7. Len(q.stack) >= 1
      BY <1>3, <1>6
    <2> QED  BY <1>6, <1>8, <2>3, <2>4, <2>5, <2>6, <2>7, Zenon DEF StackInv
  <1>18. RootsInv(dp, q)
    BY <1>1, <1>q DEF RootsInv
  <1>19. SeenInv(q)
    <2>1. IsFiniteSet(p.seen) /\ p.seen \subseteq Names
      BY <1>1, FS_Subset DEF SeenInv
    <2>2. Cardinality(p.seen \cup {n}) = Cardinality(p.seen) + 1 /\ Cardinality(p.seen) \in Nat
      BY <2>1, <1>q, FS_AddElement, FS_CardinalityType, Zenon
    <2>3. Len(p.roots) \in Nat
      BY <1>1 DEF RootsInv
    <2>4. Len(p.roots) + s = Cardinality(p.seen) + 2
      BY <1>0, <1>1 DEF SeenInv
    <2>5. PICK a \in Nat, b \in Nat, c \in Nat :
             a = Len(p.roots) /\ b = s /\ c = Cardinality(p.seen)
      BY <1>3, <2>2, <2>3
    <2>9. a + b = c + 2
      BY <2>4, <2>5, Zenon
    <2>6. a + (b + 1) = (c + 1) + 2
      BY <2>9
    <2>7. Len(q.roots) = a /\ Len(q.stack) = b + 1 /\ Cardinality(q.seen) = c + 1
      BY <2>2, <2>5, <1>6, <1>q
    <2>8. q.seen \subseteq Names
      BY <2>1, <1>4, <1>q
    <2> QED  BY <2>6, <2>7, <2>8 DEF SeenInv
  <1>20. ClashFree(dp, q)
    <2>1. ASSUME NEW m, OnStack(p.stack, m) PROVE OnStack(q.stack, m)
      <3>1. PICK i \in 2 .. s : p.stack[i].name = m
        BY <1>0, <2>1 DEF OnStack
      <3>2. i \in 1 .. s /\ i \in 2 .. s + 1
        BY <3>1, <1>3
      <3>3. q.stack[i].name = m
        BY <1>7, <3>1, <3>2 DEF IsTaken
      <3> QED  BY <1>6, <3>2, <3>3 DEF OnStack
    <2>2. OnStack(q.stack, n)
      <3>1. s + 1 \in 2 .. s + 1
        BY <1>3
      <3>2. q.stack[s + 1].name = n
        BY <1>6, <1>f
      <3> QED  BY <3>1, <3>2, <1>6 DEF OnStack
    <2>3. KeepsNames(p, q, {n})
      BY <2>1, <2>2, <1>q DEF KeepsNames
    <2> QED  BY <1>1, <2>3, NamesKept
  <1> QED  BY <1>17, <1>18, <1>19, <1>20 DEF Resolving

LEMMA FrontFacts ==
  ASSUME NEW S, NEW w \in Seq(S), Len(w) > 1
  PROVE  /\ Front(w) \in Seq(S) /\ Len(Front(w)) = Len(w) - 1
         /\ \A i \in 1 .. Len(w) - 1 : Front(w)[i] = w[i]
  BY DEF Front

\* A directory on the stack is the one its name stands for, if only one is.
LEMMA StackDir ==
  ASSUME NEW dp, NEW p, StackInv(dp, p), ~Clash(dp, p.dir), NEW i \in 2 .. Len(p.stack),
         NEW e \in Reach(dp, p.dir), p.stack[i].name \in DOMAIN dp[e]
  PROVE  dp[e][p.stack[i].name].dir = p.stack[i].dir
  <1>1. CalledBy(dp, p, p.stack[i])
    BY DEF StackInv
  <1>2. PICK f \in Reach(dp, p.dir) : p.stack[i].name \in DOMAIN dp[f]
                                      /\ dp[f][p.stack[i].name].dir = p.stack[i].dir
    BY <1>1 DEF CalledBy
  <1>3. dp[e][p.stack[i].name] = dp[f][p.stack[i].name]
    BY <1>2 DEF Clash
  <1> QED  BY <1>2, <1>3

\* A manifest gone through: its directory becomes a search root.
Left(p, q) ==
    /\ Len(p.stack) > 1 /\ p.stack[Len(p.stack)].left = {}
    /\ q.stack = Front(p.stack) /\ q.roots = Append(p.roots, p.stack[Len(p.stack)].dir)
    /\ q.dir = p.dir /\ q.seen = p.seen

LEMMA LeaveStep ==
  ASSUME NEW dp, ManifestsOK(dp), NEW p, Resolving(dp, p), NEW q, Left(p, q)
  PROVE  Resolving(dp, q)
  <1>1. StackInv(dp, p) /\ RootsInv(dp, p) /\ SeenInv(p) /\ ClashFree(dp, p)
    BY DEF Resolving
  <1>2. PICK s, top : s = Len(p.stack) /\ top = p.stack[s]
    OBVIOUS
  <1>3. s \in Nat /\ s > 1 /\ p.stack \in Seq(Frames(dp))
    BY <1>1, <1>2 DEF StackInv, Left
  <1>4. q.dir = p.dir /\ q.seen = p.seen /\ top.left = {}
    BY <1>2 DEF Left
  <1>5. /\ q.stack \in Seq(Frames(dp)) /\ Len(q.stack) = s - 1
        /\ \A i \in 1 .. s - 1 : q.stack[i] = p.stack[i]
    <2>1. PICK w \in Seq(Frames(dp)) : w = p.stack /\ Len(w) = s
      BY <1>2, <1>3
    <2>2. q.stack = Front(w)
      BY <2>1 DEF Left
    <2>3. Len(w) > 1
      BY <1>3, <2>1
    <2>4. /\ Front(w) \in Seq(Frames(dp)) /\ Len(Front(w)) = Len(w) - 1
          /\ \A i \in 1 .. Len(w) - 1 : Front(w)[i] = w[i]
      BY <2>3, FrontFacts
    <2> QED  BY <2>1, <2>2, <2>4, Zenon
  <1>6. PICK r \in Nat : r = Len(p.roots) /\ r >= 1
    BY <1>1 DEF RootsInv
  <1>7. s \in 1 .. s /\ 1 \in 1 .. s /\ s \in 2 .. s
    BY <1>3
  <1>8. top \in Frames(dp) /\ top.dir \in Dirs
    <2>1. top \in Frames(dp)
      BY <1>2, <1>3, <1>7
    <2> QED  BY <2>1 DEF Frames
  <1>9. FrameInv(dp, p, top) /\ top.dir \in Reach(dp, p.dir)
    BY <1>1, <1>2, <1>7 DEF StackInv
  <1>10. /\ q.roots \in Seq(Dirs) /\ Len(q.roots) = r + 1 /\ q.roots[r + 1] = top.dir
         /\ \A j \in 1 .. r : q.roots[j] = p.roots[j]
    <2>1. PICK w \in Seq(Dirs) : w = p.roots /\ Len(w) = r
      BY <1>1, <1>6 DEF RootsInv
    <2>2. q.roots = Append(w, top.dir)
      BY <2>1, <1>2 DEF Left
    <2>3. /\ Append(w, top.dir) \in Seq(Dirs) /\ Len(Append(w, top.dir)) = Len(w) + 1
          /\ Append(w, top.dir)[Len(w) + 1] = top.dir
          /\ \A i \in 1 .. Len(w) : Append(w, top.dir)[i] = w[i]
      BY <1>8, AppendFacts
    <2> QED  BY <2>1, <2>2, <2>3, Zenon
  <1>11. StackInv(dp, q)
    <2>1. \A i \in 1 .. s - 1 : i \in 1 .. s
      BY <1>3
    <2>2. \A i \in 2 .. s - 1 : i \in 2 .. s /\ i \in 1 .. s - 1
      BY <1>3
    <2>3. \A i \in 1 .. s - 1 : FrameInv(dp, q, q.stack[i])
      BY <1>1, <1>2, <1>4, <1>5, <2>1 DEF StackInv, FrameInv
    <2>4. ASSUME NEW i \in 2 .. s - 1 PROVE CalledBy(dp, q, q.stack[i])
      <3>1. CalledBy(dp, p, p.stack[i])
        BY <1>1, <1>2, <2>2 DEF StackInv
      <3> QED  BY <1>4, <1>5, <2>2, <3>1 DEF CalledBy
    <2>5. ASSUME NEW k \in 1 .. s - 1, NEW i \in 1 .. k
          PROVE  q.stack[k].dir \in Reach(dp, q.stack[i].dir)
      <3>1. i \in 1 .. s - 1 /\ k \in 1 .. s
        BY <1>3
      <3> QED  BY <1>1, <1>2, <1>5, <3>1 DEF StackInv
    <2>6. 1 \in 1 .. s - 1 /\ Len(q.stack) >= 1
      BY <1>3, <1>5
    <2>7. q.stack[1].dir = q.dir /\ q.dir \in Dirs
      BY <1>1, <1>4, <1>5, <2>6 DEF StackInv
    <2> QED  BY <1>5, <2>3, <2>4, <2>5, <2>6, <2>7, Zenon DEF StackInv
  <1>12. RootsInv(dp, q)
    <2>1. \A j \in 1 .. r + 1 : j \in 1 .. r \/ j = r + 1
      BY <1>6
    <2>2. \A j \in 2 .. r + 1 : (j \in 1 .. r /\ j \in 2 .. r) \/ j = r + 1
      BY <1>6
    <2>3. \A j \in 1 .. r + 1 : q.roots[j] \in Reach(dp, q.dir)
      BY <1>1, <1>4, <1>6, <1>9, <1>10, <2>1 DEF RootsInv
    <2>4. DOMAIN dp[top.dir] \subseteq q.seen
      BY <1>4, <1>9 DEF FrameInv
    <2>5. \A j \in 2 .. r + 1 : DOMAIN dp[q.roots[j]] \subseteq q.seen
      BY <1>1, <1>4, <1>6, <1>10, <2>2, <2>4 DEF RootsInv
    <2>6. 1 \in 1 .. r /\ Len(q.roots) >= 1
      BY <1>6, <1>10
    <2>7. q.roots[1] = q.dir
      BY <1>1, <1>4, <1>10, <2>6 DEF RootsInv
    <2> QED  BY <1>10, <2>3, <2>5, <2>6, <2>7, Zenon DEF RootsInv
  <1>13. SeenInv(q)
    <2>1. PICK c : c = Cardinality(p.seen)
      OBVIOUS
    <2>2. r + s = c + 2
      BY <1>1, <1>2, <1>6, <2>1, Zenon DEF SeenInv
    <2>3. (r + 1) + (s - 1) = c + 2
      BY <1>3, <1>6, <2>2
    <2> QED  BY <1>1, <1>4, <1>5, <1>10, <2>1, <2>3, Zenon DEF SeenInv
  <1>14. ASSUME ~Clash(dp, p.dir) PROVE NamesLead(dp, q) /\ Ordered(dp, q.roots)
    <2>1. NamesLead(dp, p) /\ Ordered(dp, p.roots)
      BY <1>1, <1>14 DEF ClashFree
    <2>2. ASSUME NEW e, Found(p.roots, e) PROVE Found(q.roots, e)
      <3>1. PICK j \in 2 .. r : p.roots[j] = e
        BY <1>6, <2>2 DEF Found
      <3>2. j \in 1 .. r /\ j \in 2 .. r + 1
        BY <1>6, <3>1
      <3>3. q.roots[j] = e
        BY <1>10, <3>1, <3>2
      <3> QED  BY <1>10, <3>2, <3>3 DEF Found
    <2>3. Found(q.roots, top.dir)
      <3>1. r + 1 \in 2 .. r + 1
        BY <1>6
      <3> QED  BY <1>10, <3>1 DEF Found
    <2>4. ASSUME NEW e \in Reach(dp, p.dir), NEW n \in DOMAIN dp[e], n \in p.seen
          PROVE  OnStack(q.stack, n) \/ Found(q.roots, dp[e][n].dir)
      <3>1. CASE Found(p.roots, dp[e][n].dir)
        BY <3>1, <2>2
      <3>2. CASE OnStack(p.stack, n)
        <4>1. PICK i \in 2 .. s : p.stack[i].name = n
          BY <1>2, <3>2 DEF OnStack
        <4>2. CASE i = s
          <5>1. dp[e][n].dir = top.dir
            BY <1>1, <1>2, <1>7, <1>14, <2>4, <4>1, <4>2, StackDir
          <5> QED  BY <5>1, <2>3
        <4>3. CASE i # s
          <5>1. i \in 2 .. s - 1 /\ i \in 1 .. s - 1
            BY <1>3, <4>1, <4>3
          <5>2. q.stack[i].name = n
            BY <1>5, <4>1, <5>1
          <5> QED  BY <1>5, <5>1, <5>2 DEF OnStack
        <4> QED  BY <4>2, <4>3
      <3> QED  BY <2>1, <2>4, <3>1, <3>2 DEF NamesLead
    <2>5. NamesLead(dp, q)
      BY <1>4, <2>4 DEF NamesLead
    <2>6. ASSUME NEW j \in 2 .. r + 1, NEW n \in DOMAIN dp[q.roots[j]]
          PROVE  \/ q.roots[j] \in Reach(dp, dp[q.roots[j]][n].dir)
                 \/ \E i \in 2 .. j - 1 : q.roots[i] = dp[q.roots[j]][n].dir
      <3>1. CASE j = r + 1
        <4>1. q.roots[j] = top.dir /\ n \in p.seen /\ n \in DOMAIN dp[top.dir]
          BY <1>4, <1>9, <1>10, <2>6, <3>1 DEF FrameInv
        <4>2. CASE OnStack(p.stack, n)
          <5>1. PICK i \in 2 .. s : p.stack[i].name = n
            BY <1>2, <4>2 DEF OnStack
          <5>2. dp[top.dir][n].dir = p.stack[i].dir
            BY <1>1, <1>2, <1>9, <1>14, <4>1, <5>1, StackDir
          <5>3. i \in 1 .. s
            BY <1>3, <5>1
          <5>4. top.dir \in Reach(dp, p.stack[i].dir)
            BY <1>1, <1>2, <1>7, <5>3 DEF StackInv
          <5> QED  BY <4>1, <5>2, <5>4
        <4>3. CASE Found(p.roots, dp[top.dir][n].dir)
          <5>1. PICK i \in 2 .. r : p.roots[i] = dp[top.dir][n].dir
            BY <1>6, <4>3 DEF Found
          <5>2. i \in 1 .. r /\ i \in 2 .. j - 1
            BY <1>6, <3>1, <5>1
          <5>3. q.roots[i] = dp[q.roots[j]][n].dir
            BY <1>10, <4>1, <5>1, <5>2
          <5> QED  BY <5>2, <5>3
        <4> QED  BY <1>9, <2>1, <4>1, <4>2, <4>3 DEF NamesLead
      <3>2. CASE j \in 2 .. r
        <4>1. j \in 1 .. r
          BY <1>6, <3>2
        <4>2. q.roots[j] = p.roots[j]
          BY <1>10, <4>1
        <4>3. \/ p.roots[j] \in Reach(dp, dp[p.roots[j]][n].dir)
              \/ \E i \in 2 .. j - 1 : p.roots[i] = dp[p.roots[j]][n].dir
          BY <1>6, <2>1, <2>6, <3>2, <4>2 DEF Ordered
        <4>4. \A i \in 2 .. j - 1 : i \in 1 .. r
          BY <1>6, <4>1
        <4>5. \A i \in 2 .. j - 1 : q.roots[i] = p.roots[i]
          BY <1>10, <4>4
        <4> QED  BY <4>2, <4>3, <4>5
      <3> QED  BY <1>6, <3>1, <3>2
    <2>7. Ordered(dp, q.roots)
      BY <1>10, <2>6, Zenon DEF Ordered
    <2> QED  BY <2>5, <2>7
  <1>15. ClashFree(dp, q)
    BY <1>4, <1>14 DEF ClashFree
  <1> QED  BY <1>11, <1>12, <1>13, <1>15 DEF Resolving

\* The project's own manifest gone through: every directory it needs is found.
LEMMA EndStep ==
  ASSUME NEW dp, ManifestsOK(dp), NEW p, Resolving(dp, p), IsFiniteSet(Names),
         Len(p.stack) = 1, p.stack[1].left = {}
  PROVE  Resolved(dp, p)
  <1>1. StackInv(dp, p) /\ RootsInv(dp, p) /\ SeenInv(p) /\ ClashFree(dp, p)
    BY DEF Resolving
  <1>2. PICK r \in Nat : r = Len(p.roots) /\ r >= 1
    BY <1>1 DEF RootsInv
  <1>3. /\ p.roots \in Seq(Dirs) /\ p.roots[1] = p.dir
        /\ \A j \in 1 .. r : p.roots[j] \in Reach(dp, p.dir)
        /\ \A j \in 2 .. r : DOMAIN dp[p.roots[j]] \subseteq p.seen
    BY <1>1, <1>2 DEF RootsInv
  <1>4. DOMAIN dp[p.dir] \subseteq p.seen /\ p.dir \in Dirs
    <2>1. 1 \in 1 .. Len(p.stack)
      OBVIOUS
    <2>2. FrameInv(dp, p, p.stack[1]) /\ p.stack[1].dir = p.dir /\ p.dir \in Dirs
      BY <1>1, <2>1 DEF StackInv
    <2> QED  BY <2>2 DEF FrameInv
  <1>5. Len(p.roots) \in 1 .. Cardinality(Names) + 1
    <2>1. /\ Cardinality(p.seen) \in Nat /\ Cardinality(Names) \in Nat
          /\ Cardinality(p.seen) <= Cardinality(Names)
      BY <1>1, FS_Subset, FS_CardinalityType DEF SeenInv
    <2>2. PICK a \in Nat, b \in Nat : a = Cardinality(p.seen) /\ b = Cardinality(Names) /\ a <= b
      BY <2>1
    <2>3. r + 1 = a + 2
      BY <1>1, <1>2, <2>2, Zenon DEF SeenInv
    <2>4. r \in 1 .. b + 1
      BY <1>2, <2>2, <2>3
    <2> QED  BY <1>2, <2>2, <2>4
  <1>6. ASSUME ~Clash(dp, p.dir), NEW e \in Reach(dp, p.dir)
        PROVE  \E j \in 1 .. r : p.roots[j] = e
    <2> DEFINE S == {f \in Dirs : \E j \in 1 .. r : p.roots[j] = f}
    <2>1. NamesLead(dp, p)
      BY <1>1, <1>6 DEF ClashFree
    <2>2. p.dir \in S
      BY <1>2, <1>3, <1>4
    <2>3. ASSUME NEW f \in S, NEW n \in DOMAIN dp[f], dp[f][n].dir \in Dirs
          PROVE  dp[f][n].dir \in S
      <3>1. PICK j \in 1 .. r : p.roots[j] = f
        BY <2>3
      <3>2. j = 1 \/ j \in 2 .. r
        BY <1>2, <3>1
      <3>3. f \in Reach(dp, p.dir) /\ n \in p.seen
        BY <1>3, <1>4, <2>3, <3>1, <3>2
      <3>4. ~OnStack(p.stack, n)
        BY DEF OnStack
      <3>5. Found(p.roots, dp[f][n].dir)
        BY <2>1, <2>3, <3>3, <3>4 DEF NamesLead
      <3>6. PICK i \in 2 .. r : p.roots[i] = dp[f][n].dir
        BY <1>2, <3>5 DEF Found
      <3>7. i \in 1 .. r
        BY <1>2, <3>6
      <3> QED  BY <2>3, <3>6, <3>7
    <2>4. ClosedIn(dp, S) /\ S \in SUBSET Dirs
      BY <2>3 DEF ClosedIn
    <2>5. e \in S
      <3> HIDE DEF S
      <3> QED  BY <1>6, <2>2, <2>4, ReachLeast
    <2> QED  BY <2>5
  <1>7. ~Clash(dp, p.dir) => Ordered(dp, p.roots)
    BY <1>1 DEF ClashFree
  <1>8. Covered(dp, p)
    BY <1>2, <1>3, <1>6 DEF Covered
  <1> QED  BY <1>3, <1>5, <1>7, <1>8 DEF Resolved

LEMMA SingletonFacts ==
  ASSUME NEW S, NEW x \in S
  PROVE  <<x>> \in Seq(S) /\ Len(<<x>>) = 1 /\ <<x>>[1] = x
  OBVIOUS

\* The resolution begins with the project's manifest.
Begun(dp, q, d) ==
    /\ q.dir = d /\ q.seen = {} /\ q.roots = <<d>> /\ q.stack = <<FrameOf(dp, "", d)>>

LEMMA BeginStep ==
  ASSUME NEW dp, ManifestsOK(dp), NEW q, NEW d \in Dirs, Begun(dp, q, d)
  PROVE  Resolving(dp, q)
  <1>1. PICK f : /\ f = FrameOf(dp, "", d) /\ f.dir = d /\ f.man = dp[d] /\ f.left = DOMAIN dp[d]
                 /\ f \in Frames(dp)
    <2>1. PICK a, b : a = dp[d] /\ b = DOMAIN dp[d]
      OBVIOUS
    <2>2. FrameOf(dp, "", d) = [name |-> "", dir |-> d, man |-> a, left |-> b]
      BY <2>1 DEF FrameOf
    <2>3. a \in {dp[e] : e \in Dirs} /\ b \in SUBSET Names
      BY <2>1 DEF ManifestsOK
    <2>4. [name |-> "", dir |-> d, man |-> a, left |-> b] \in Frames(dp)
      BY <2>3 DEF Frames
    <2> QED  BY <2>1, <2>2, <2>4
  <1>2. /\ q.stack \in Seq(Frames(dp)) /\ Len(q.stack) = 1 /\ q.stack[1] = f
        /\ q.roots \in Seq(Dirs) /\ Len(q.roots) = 1 /\ q.roots[1] = d
        /\ q.dir = d /\ q.seen = {}
    <2>1. q.stack = <<f>> /\ q.roots = <<d>> /\ q.dir = d /\ q.seen = {}
      BY <1>1, Zenon DEF Begun
    <2>2. <<f>> \in Seq(Frames(dp)) /\ Len(<<f>>) = 1 /\ <<f>>[1] = f
      BY <1>1, SingletonFacts
    <2>3. <<d>> \in Seq(Dirs) /\ Len(<<d>>) = 1 /\ <<d>>[1] = d
      BY SingletonFacts
    <2> QED  BY <2>1, <2>2, <2>3, Zenon
  <1>3. FrameInv(dp, q, f) /\ d \in Reach(dp, d)
    BY <1>1, ReachSelf DEF FrameInv
  <1>4. \A i \in 1 .. 1 : i = 1
    OBVIOUS
  <1>5. \A i \in 2 .. 1 : FALSE
    OBVIOUS
  <1>10. 1 >= 1 /\ 1 + 1 = 0 + 2
    OBVIOUS
  <1>6. StackInv(dp, q)
    <2>1. \A k \in 1 .. 1 : \A i \in 1 .. k : k = 1 /\ i = 1
      BY <1>4
    <2>2. \A i \in 1 .. 1 : FrameInv(dp, q, q.stack[i])
      BY <1>2, <1>3, <1>4
    <2>3. \A k \in 1 .. 1 : \A i \in 1 .. k : q.stack[k].dir \in Reach(dp, q.stack[i].dir)
      BY <1>1, <1>2, <1>3, <2>1
    <2> QED  BY <1>1, <1>2, <1>5, <1>10, <2>2, <2>3, Zenon DEF StackInv
  <1>7. RootsInv(dp, q)
    <2>1. \A j \in 1 .. 1 : q.roots[j] \in Reach(dp, d)
      BY <1>2, <1>3, <1>4
    <2> QED  BY <1>2, <1>5, <1>10, <2>1, Zenon DEF RootsInv
  <1>8. SeenInv(q)
    <2>1. Cardinality(q.seen) = 0
      BY <1>2, FS_EmptySet
    <2> QED  BY <1>2, <1>10, <2>1, Zenon DEF SeenInv
  <1>9. ClashFree(dp, q)
    BY <1>2, <1>5, Zenon DEF ClashFree, NamesLead, Ordered
  <1> QED  BY <1>6, <1>7, <1>8, <1>9 DEF Resolving

-----------------------------------------------------------------------------
(* The cache and the script, again as functions of the state they read.      *)

BinaryOf(dp, sr, d) == [of |-> "binary", dir |-> d, sources |-> [e \in Reach(dp, d) |-> sr[e]]]
KeyOf(sr, d, release, roots) ==
    [own |-> <<d, sr[d]>>, profile |-> release,
     roots |-> [i \in DOMAIN roots |-> <<roots[i], sr[roots[i]]>>]]
LinksIn(sr, d) == Outcome(d, sr[d]) # "nolink"
CompiledIn(dp, sr, cs, d) ==
    \E c \in cs :
        /\ c[1] = "main" /\ c[2].dir = d
        /\ \A e \in Reach(dp, d) : e \in DOMAIN c[2].sources /\ c[2].sources[e] = sr[e]

LEMMA BinaryIs == ASSUME NEW d PROVE Binary(d) = BinaryOf(deps, src, d)
  BY NeededIs, Zenon DEF Binary, SourcesOf, BinaryOf

LEMMA BinaryIsNext == ASSUME NEW d PROVE Binary(d)' = BinaryOf(deps', src', d)
  BY NeededIsNext DEF Binary, SourcesOf, BinaryOf

LEMMA CompiledIs == ASSUME NEW d PROVE CompiledAsIs(d) <=> CompiledIn(deps, src, compiled, d)
  BY NeededIs DEF CompiledAsIs, CompiledIn

LEMMA BinaryFields ==
  ASSUME NEW dp, NEW sr, NEW d
  PROVE  BinaryOf(dp, sr, d).of = "binary" /\ BinaryOf(dp, sr, d).dir = d
         /\ BinaryOf(dp, sr, d).sources = [e \in Reach(dp, d) |-> sr[e]]
  <1>1. PICK f : f = [e \in Reach(dp, d) |-> sr[e]]
    OBVIOUS
  <1>2. BinaryOf(dp, sr, d) = [of |-> "binary", dir |-> d, sources |-> f]
    BY <1>1 DEF BinaryOf
  <1> QED  BY <1>1, <1>2

\* What a build has just compiled, it has compiled.
LEMMA FreshCompiled ==
  ASSUME NEW dp, NEW sr, NEW cs, NEW d, NEW b, b = BinaryOf(dp, sr, d), <<"main", b>> \in cs
  PROVE  CompiledIn(dp, sr, cs, d)
  <1>2. PICK c : c = <<"main", b>> /\ c \in cs
    OBVIOUS
  <1>3. c[1] = "main" /\ c[2] = b
    BY <1>2
  <1>4. b.dir = d /\ b.sources = [e \in Reach(dp, d) |-> sr[e]]
    BY BinaryFields
  <1> QED  BY <1>2, <1>3, <1>4 DEF CompiledIn

\* A key in the cache stands for sources that compiled.
KeyOK(cs, k) ==
    Outcome(k.own[1], k.own[2]) # "nolink" =>
        \E c \in cs :
            /\ c[1] = "main" /\ c[2].dir = k.own[1]
            /\ \A j \in DOMAIN k.roots :
                k.roots[j][1] \in DOMAIN c[2].sources /\ c[2].sources[k.roots[j][1]] = k.roots[j][2]

LEMMA KeyFields ==
  ASSUME NEW sr, NEW d, NEW release, NEW roots, NEW k, k = KeyOf(sr, d, release, roots)
  PROVE  /\ k.own[1] = d /\ k.own[2] = sr[d] /\ DOMAIN k.roots = DOMAIN roots
         /\ \A j \in DOMAIN roots : k.roots[j][1] = roots[j] /\ k.roots[j][2] = sr[roots[j]]
  <1>1. PICK f : f = [i \in DOMAIN roots |-> <<roots[i], sr[roots[i]]>>]
    OBVIOUS
  <1>2. PICK o : o = <<d, sr[d]>>
    OBVIOUS
  <1>3. k = [own |-> o, profile |-> release, roots |-> f]
    BY <1>1, <1>2 DEF KeyOf
  <1>4. k.own = o /\ k.roots = f
    BY <1>3
  <1>5. o[1] = d /\ o[2] = sr[d]
    BY <1>2
  <1>6. DOMAIN f = DOMAIN roots
    BY <1>1
  <1>7. ASSUME NEW j \in DOMAIN roots PROVE f[j][1] = roots[j] /\ f[j][2] = sr[roots[j]]
    <2>1. PICK a, b : a = roots[j] /\ b = sr[roots[j]]
      OBVIOUS
    <2>2. f[j] = <<a, b>>
      BY <1>1, <2>1
    <2> QED  BY <2>1, <2>2
  <1> QED  BY <1>4, <1>5, <1>6, <1>7

LEMMA KeyStored ==
  ASSUME NEW dp, NEW sr, NEW cs, NEW p, NEW k, Covered(dp, p),
         k = KeyOf(sr, p.dir, p.release, p.roots),
         LinksIn(sr, p.dir) => <<"main", BinaryOf(dp, sr, p.dir)>> \in cs
  PROVE  KeyOK(cs, k)
  <1>1. /\ k.own[1] = p.dir /\ k.own[2] = sr[p.dir] /\ DOMAIN k.roots = DOMAIN p.roots
        /\ \A j \in DOMAIN p.roots : k.roots[j][1] = p.roots[j] /\ k.roots[j][2] = sr[p.roots[j]]
    BY KeyFields
  <1>2. SUFFICES ASSUME LinksIn(sr, p.dir)
                 PROVE  \E c \in cs : /\ c[1] = "main" /\ c[2].dir = p.dir
                            /\ \A j \in DOMAIN p.roots :
                                p.roots[j] \in DOMAIN c[2].sources
                                /\ c[2].sources[p.roots[j]] = sr[p.roots[j]]
    BY <1>1 DEF KeyOK, LinksIn
  <1>5. CompiledIn(dp, sr, cs, p.dir)
    BY <1>2, FreshCompiled, Zenon
  <1>3. PICK c \in cs : /\ c[1] = "main" /\ c[2].dir = p.dir
                        /\ \A e \in Reach(dp, p.dir) : e \in DOMAIN c[2].sources /\ c[2].sources[e] = sr[e]
    BY <1>5 DEF CompiledIn
  <1>4. \A j \in DOMAIN p.roots : p.roots[j] \in Reach(dp, p.dir)
    BY DEF Covered
  <1> QED  BY <1>3, <1>4

BuildClaim(dp, sr, cs, d) == ~Clash(dp, d) /\ LinksIn(sr, d) => CompiledIn(dp, sr, cs, d)

LEMMA KeyHit ==
  ASSUME NEW dp, NEW sr, NEW cs, NEW p, NEW k, Covered(dp, p),
         k = KeyOf(sr, p.dir, p.release, p.roots), KeyOK(cs, k)
  PROVE  BuildClaim(dp, sr, cs, p.dir)
  <1>1. /\ k.own[1] = p.dir /\ k.own[2] = sr[p.dir] /\ DOMAIN k.roots = DOMAIN p.roots
        /\ \A j \in DOMAIN p.roots : k.roots[j][1] = p.roots[j] /\ k.roots[j][2] = sr[p.roots[j]]
    BY KeyFields
  <1>2. SUFFICES ASSUME ~Clash(dp, p.dir), LinksIn(sr, p.dir) PROVE CompiledIn(dp, sr, cs, p.dir)
    BY DEF BuildClaim
  <1>3. PICK c \in cs :
          /\ c[1] = "main" /\ c[2].dir = p.dir
          /\ \A j \in DOMAIN p.roots : p.roots[j] \in DOMAIN c[2].sources
                                       /\ c[2].sources[p.roots[j]] = sr[p.roots[j]]
    BY <1>1, <1>2 DEF KeyOK, LinksIn
  <1>4. \A e \in Reach(dp, p.dir) : \E j \in DOMAIN p.roots : p.roots[j] = e
    <2>1. DOMAIN p.roots = 1 .. Len(p.roots)
      BY DEF Covered
    <2> QED  BY <1>2, <2>1 DEF Covered
  <1> QED  BY <1>3, <1>4 DEF CompiledIn

LEMMA MoreCompiled ==
  ASSUME NEW cs, NEW cs1, cs \subseteq cs1, NEW k, KeyOK(cs, k) PROVE KeyOK(cs1, k)
  BY DEF KeyOK

-----------------------------------------------------------------------------
(* The inductive invariant.                                                  *)

CommandFields ==
    {"pc", "cmd", "dir", "release", "stem", "stack", "seen", "roots", "key", "hit", "ok"}
Pcs == {"idle", "start", "resolve", "key", "lookup", "front", "link", "exec", "copy", "store",
        "exec_target", "verify", "done"}

\* Which command is where.
PlaceInv(p) ==
    /\ DOMAIN p = CommandFields /\ p.pc \in Pcs
    /\ p.pc # "idle" => p.dir \in Dirs
    /\ p.stem = IF p.cmd = "test" THEN "test_smoke" ELSE "main"
    /\ p.pc = "start" => p.seen = {}
    /\ p.pc = "resolve" => p.cmd \in {"build", "run", "check", "fetch"}
    /\ p.pc \in {"key", "lookup", "copy", "store", "exec_target"} => p.cmd \in {"build", "run"}
    /\ p.pc \in {"front", "link", "exec"} => p.cmd \in {"build", "run", "test"}
    /\ p.pc = "verify" => p.cmd = "check"

\* The key still describes the sources, and the roots what is needed.
KeyInv(dp, sr, p) ==
    p.cmd # "test" /\ p.pc \in {"lookup", "front", "link", "exec", "copy", "store"} =>
        Covered(dp, p) /\ p.key = KeyOf(sr, p.dir, p.release, p.roots)

\* What the script has left in the scratch directory, and the copy in target/.
ScriptInv(dp, sr, sc, tg, cs, p) ==
    /\ p.pc = "link" => sc[p.stem].mlir = BinaryOf(dp, sr, p.dir)
    /\ p.pc \in {"exec", "copy"} /\ LinksIn(sr, p.dir) => sc[p.stem].bin = BinaryOf(dp, sr, p.dir)
    /\ p.pc \in {"copy", "store"} /\ LinksIn(sr, p.dir) =>
          <<"main", BinaryOf(dp, sr, p.dir)>> \in cs
    /\ p.pc = "store" \/ (p.pc = "exec_target" /\ ~p.hit) =>
          (LinksIn(sr, p.dir) => tg[p.dir][Profile(p.release)] = BinaryOf(dp, sr, p.dir))
    /\ p.pc = "exec_target" => BuildClaim(dp, sr, cs, p.dir)

\* What a command that ended well has shown.
DoneInv(dp, sr, cs, p) ==
    p.pc = "done" /\ p.ok =>
        /\ p.cmd \in {"build", "run"} => BuildClaim(dp, sr, cs, p.dir)
        /\ p.cmd = "test" /\ LinksIn(sr, p.dir) => <<"test_smoke", BinaryOf(dp, sr, p.dir)>> \in cs

CommandInv(dp, sr, sc, tg, cs, p) ==
    /\ PlaceInv(p)
    /\ p.pc = "resolve" => Resolving(dp, p)
    /\ p.pc \in {"key", "verify"} => Resolved(dp, p)
    /\ KeyInv(dp, sr, p) /\ ScriptInv(dp, sr, sc, tg, cs, p) /\ DoneInv(dp, sr, cs, p)

TargetsOK(tg) ==
    DOMAIN tg = Dirs /\ \A d \in Dirs : DOMAIN tg[d] = Profiles /\
                            \A p \in Profiles : tg[d][p].of \in {"none", "partial", "binary"}
ScratchOK(sc) ==
    DOMAIN sc = Stems /\ \A s \in Stems :
        /\ DOMAIN sc[s] = {"mlir", "bin"}
        /\ sc[s].mlir.of \in {"none", "binary"} /\ sc[s].bin.of \in {"none", "binary"}
SourcesOK(sr) == DOMAIN sr = Dirs /\ \A d \in Dirs : sr[d] \in Versions[d]
CacheOK(ca, cs) == \A k \in DOMAIN ca : KeyOK(cs, k)

FilesInv ==
    /\ present \in [Dirs -> {"none", "bin", "lib"}]
    /\ ManifestsOK(deps) /\ SourcesOK(src) /\ TargetsOK(target) /\ ScratchOK(scratch)
    /\ edits \in 0 .. MaxEdits

IInv(t) ==
    /\ FilesInv /\ CacheOK(cache, compiled)
    /\ DOMAIN proc = {t}
    /\ CommandInv(deps, src, scratch, target, compiled, proc[t])
    /\ RunAfterCompileIsCurrent

-----------------------------------------------------------------------------
(* What the steps do to the command.                                         *)

SameArgs(p, q) == /\ q.cmd = p.cmd /\ q.dir = p.dir /\ q.release = p.release /\ q.stem = p.stem
SameLocals(p, q) ==
    /\ q.stack = p.stack /\ q.seen = p.seen /\ q.roots = p.roots /\ q.key = p.key /\ q.hit = p.hit

LEMMA GotoIs ==
  ASSUME NEW t, DOMAIN proc = {t}, DOMAIN proc[t] = CommandFields, NEW pc, Goto(t, pc)
  PROVE  /\ DOMAIN proc' = {t} /\ DOMAIN proc'[t] = CommandFields /\ proc'[t].pc = pc
         /\ SameArgs(proc[t], proc'[t]) /\ SameLocals(proc[t], proc'[t])
  BY DEF Goto, CommandFields, SameArgs, SameLocals

LEMMA FinishIs ==
  ASSUME NEW t, DOMAIN proc = {t}, DOMAIN proc[t] = CommandFields, NEW ok, Finish(t, ok)
  PROVE  /\ DOMAIN proc' = {t} /\ DOMAIN proc'[t] = CommandFields /\ proc'[t].pc = "done"
         /\ proc'[t].ok = ok /\ SameArgs(proc[t], proc'[t])
  BY DEF Finish, CommandFields, SameArgs

\* A command that ends badly, or is none that builds or tests, claims nothing.
LEMMA EndedInv ==
  ASSUME NEW dp, NEW sr, NEW sc, NEW tg, NEW cs, NEW p, NEW q, PlaceInv(p), p.pc # "idle",
         DOMAIN q = CommandFields, q.pc = "done", SameArgs(p, q), DoneInv(dp, sr, cs, q)
  PROVE  CommandInv(dp, sr, sc, tg, cs, q)
  BY DEF CommandInv, PlaceInv, KeyInv, ScriptInv, SameArgs, Pcs

\* Steps that touch no file.
LEMMA QuietStep ==
  ASSUME NEW t, IInv(t), UNCHANGED <<files, ran, compiled, edits>>, DOMAIN proc' = {t},
         CommandInv(deps, src, scratch, target, compiled, proc'[t])
  PROVE  IInv(t)'
  BY DEF IInv, files, FilesInv, RunAfterCompileIsCurrent

LEMMA FinishStep ==
  ASSUME NEW t, IInv(t), UNCHANGED <<files, ran, compiled, edits>>, proc[t].pc # "idle",
         NEW ok, Finish(t, ok),
         ok => proc[t].cmd \notin {"build", "run", "test"}
  PROVE  IInv(t)'
  <1>1. PICK p, q : p = proc[t] /\ q = proc'[t]
    OBVIOUS
  <1>2. PlaceInv(p) /\ DOMAIN p = CommandFields /\ DOMAIN proc = {t}
    BY <1>1 DEF IInv, CommandInv, PlaceInv
  <1>3. DOMAIN proc' = {t} /\ DOMAIN q = CommandFields /\ q.pc = "done" /\ q.ok = ok /\ SameArgs(p, q)
    BY <1>1, <1>2, FinishIs
  <1>4. DoneInv(deps, src, compiled, q)
    BY <1>1, <1>3 DEF DoneInv, SameArgs
  <1>5. CommandInv(deps, src, scratch, target, compiled, q)
    BY <1>1, <1>2, <1>3, <1>4, EndedInv
  <1> QED  BY <1>1, <1>3, <1>5, QuietStep

-----------------------------------------------------------------------------
(* One lemma per action.                                                     *)

LEMMA LoadInv ==
  ASSUME NEW t, IInv(t), Load(t) PROVE IInv(t)'
  <1>1. PICK p, q : p = proc[t] /\ q = proc'[t]
    OBVIOUS
  <1>2. /\ p.pc = "start" /\ p.cmd \in {"build", "run", "check", "fetch"}
        /\ UNCHANGED <<files, ran, compiled, edits>>
    BY <1>1 DEF Load
  <1>3. PlaceInv(p) /\ DOMAIN p = CommandFields /\ DOMAIN proc = {t} /\ p.dir \in Dirs
        /\ ManifestsOK(deps)
    BY <1>1, <1>2 DEF IInv, CommandInv, PlaceInv, FilesInv
  <1>4. CASE Finish(t, FALSE) \/ (Finish(t, TRUE) /\ p.cmd = "fetch")
    BY <1>1, <1>2, <1>4, FinishStep
  <1>5. CASE proc' = [proc EXCEPT ![t].pc = "resolve", ![t].roots = <<p.dir>>,
                                  ![t].stack = <<Frame("", p.dir)>>]
    <2>1. PICK ro, st : ro = <<p.dir>> /\ st = <<Frame("", p.dir)>>
      OBVIOUS
    <2>2. proc' = [proc EXCEPT ![t].pc = "resolve", ![t].roots = ro, ![t].stack = st]
      BY <1>5, <2>1
    <2>3. /\ DOMAIN proc' = {t} /\ DOMAIN q = CommandFields /\ q.pc = "resolve" /\ q.roots = ro
          /\ q.stack = st /\ q.seen = p.seen /\ SameArgs(p, q)
      BY <1>1, <1>3, <2>2 DEF CommandFields, SameArgs
    <2>4. Frame("", p.dir) = FrameOf(deps, "", p.dir)
      BY DEF Frame, FrameOf
    <2>5. Begun(deps, q, p.dir)
      BY <1>2, <1>3, <2>1, <2>3, <2>4, Zenon DEF Begun, SameArgs, PlaceInv
    <2>6. Resolving(deps, q)
      BY <1>3, <2>5, BeginStep
    <2>7. CommandInv(deps, src, scratch, target, compiled, q)
      BY <1>2, <1>3, <2>3, <2>6 DEF CommandInv, PlaceInv, KeyInv, ScriptInv, DoneInv, SameArgs, Pcs
    <2> QED  BY <1>1, <1>2, <2>3, <2>7, QuietStep
  <1> QED  BY <1>1, <1>4, <1>5 DEF Load

LEMMA ResolveSingleInv ==
  ASSUME NEW t, IInv(t), NEW n, ResolveSingle(t, n) PROVE IInv(t)'
  <1>1. PICK p, q : p = proc[t] /\ q = proc'[t]
    OBVIOUS
  <1>2. p.pc = "resolve" /\ n \in Last(p.stack).left /\ UNCHANGED <<files, ran, compiled, edits>>
    BY <1>1 DEF ResolveSingle
  <1>3. /\ PlaceInv(p) /\ DOMAIN p = CommandFields /\ DOMAIN proc = {t} /\ ManifestsOK(deps)
        /\ Resolving(deps, p)
    BY <1>1, <1>2 DEF IInv, CommandInv, PlaceInv, FilesInv
  <1>4. Last(p.stack) = p.stack[Len(p.stack)]
    BY DEF Last
  <1>5. ASSUME DOMAIN proc' = {t}, DOMAIN q = CommandFields, q.pc = "resolve", SameArgs(p, q),
               Resolving(deps, q)
        PROVE  IInv(t)'
    <2>1. CommandInv(deps, src, scratch, target, compiled, q)
      BY <1>2, <1>3, <1>5 DEF CommandInv, PlaceInv, KeyInv, ScriptInv, DoneInv, SameArgs, Pcs
    <2> QED  BY <1>1, <1>2, <1>5, <2>1, QuietStep
  <1>6. CASE n \in p.seen /\ proc' = [proc EXCEPT ![t].stack = Taken(@, n)]
    <2>1. PICK st : st = Taken(p.stack, n)
      OBVIOUS
    <2>2. proc' = [proc EXCEPT ![t].stack = st]
      BY <1>1, <1>6, <2>1
    <2>3. /\ DOMAIN proc' = {t} /\ DOMAIN q = CommandFields /\ q.pc = "resolve" /\ q.roots = p.roots
          /\ q.stack = st /\ q.seen = p.seen /\ SameArgs(p, q)
      BY <1>1, <1>2, <1>3, <2>2 DEF CommandFields, SameArgs
    <2>4. Resolving(deps, q)
      BY <1>2, <1>3, <1>4, <1>6, <2>1, <2>3, SkipStep DEF SameArgs
    <2> QED  BY <1>5, <2>3, <2>4
  <1>7. CASE Finish(t, FALSE)
    BY <1>1, <1>2, <1>7, FinishStep
  <1>8. ASSUME NEW g, g = Last(p.stack).man[n].dir, g \in Dirs, n \notin p.seen,
               proc' = [proc EXCEPT ![t].seen = @ \cup {n}, ![t].stack = Append(Taken(@, n), Frame(n, g))]
        PROVE  IInv(t)'
    <2>1. PICK st, se : st = Append(Taken(p.stack, n), Frame(n, g)) /\ se = p.seen \cup {n}
      OBVIOUS
    <2>2. proc' = [proc EXCEPT ![t].seen = se, ![t].stack = st]
      BY <1>1, <1>8, <2>1
    <2>3. /\ DOMAIN proc' = {t} /\ DOMAIN q = CommandFields /\ q.pc = "resolve" /\ q.roots = p.roots
          /\ q.stack = st /\ q.seen = se /\ SameArgs(p, q)
      BY <1>1, <1>2, <1>3, <2>2 DEF CommandFields, SameArgs
    <2>4. Frame(n, g) = FrameOf(deps, n, g)
      BY DEF Frame, FrameOf
    <2>5. Entered(deps, p, q, n, g)
      BY <1>2, <1>4, <1>8, <2>1, <2>3, <2>4 DEF Entered, SameArgs
    <2>6. Resolving(deps, q)
      BY <1>3, <2>5, EnterStep, NamesAssumption
    <2> QED  BY <1>5, <2>3, <2>6
  <1> QED  BY <1>1, <1>6, <1>7, <1>8 DEF ResolveSingle

LEMMA ResolveReturnInv ==
  ASSUME NEW t, IInv(t), ResolveReturn(t) PROVE IInv(t)'
  <1>1. PICK p, q : p = proc[t] /\ q = proc'[t]
    OBVIOUS
  <1>2. p.pc = "resolve" /\ Last(p.stack).left = {} /\ UNCHANGED <<files, ran, compiled, edits>>
    BY <1>1 DEF ResolveReturn
  <1>3. /\ PlaceInv(p) /\ DOMAIN p = CommandFields /\ DOMAIN proc = {t} /\ ManifestsOK(deps)
        /\ Resolving(deps, p)
    BY <1>1, <1>2 DEF IInv, CommandInv, PlaceInv, FilesInv
  <1>4. Last(p.stack) = p.stack[Len(p.stack)]
    BY DEF Last
  <1>5. CASE Len(p.stack) > 1 /\ proc' = [proc EXCEPT ![t].roots = Append(@, Last(p.stack).dir),
                                                     ![t].stack = Front(@)]
    <2>1. PICK ro, st : ro = Append(p.roots, Last(p.stack).dir) /\ st = Front(p.stack)
      OBVIOUS
    <2>2. proc' = [proc EXCEPT ![t].roots = ro, ![t].stack = st]
      BY <1>1, <1>5, <2>1
    <2>3. /\ DOMAIN proc' = {t} /\ DOMAIN q = CommandFields /\ q.pc = "resolve" /\ q.roots = ro
          /\ q.stack = st /\ q.seen = p.seen /\ SameArgs(p, q)
      BY <1>1, <1>2, <1>3, <2>2 DEF CommandFields, SameArgs
    <2>4. Left(p, q)
      BY <1>2, <1>4, <1>5, <2>1, <2>3 DEF Left, SameArgs
    <2>5. Resolving(deps, q)
      BY <1>3, <2>4, LeaveStep
    <2>6. CommandInv(deps, src, scratch, target, compiled, q)
      BY <1>2, <1>3, <2>3, <2>5 DEF CommandInv, PlaceInv, KeyInv, ScriptInv, DoneInv, SameArgs, Pcs
    <2> QED  BY <1>1, <1>2, <2>3, <2>6, QuietStep
  <1>6. CASE Finish(t, TRUE) /\ p.cmd = "fetch"
    BY <1>1, <1>2, <1>6, FinishStep
  <1>7. ASSUME NEW pc, pc = IF p.cmd = "check" THEN "verify" ELSE "key", p.cmd # "fetch",
               ~(Len(p.stack) > 1),
               proc' = [proc EXCEPT ![t].pc = pc, ![t].stack = <<>>, ![t].seen = {}]
        PROVE  IInv(t)'
    <2>1. PICK st : st = <<>>
      OBVIOUS
    <2>2. proc' = [proc EXCEPT ![t].pc = pc, ![t].stack = st, ![t].seen = {}]
      BY <1>7, <2>1
    <2>3. /\ DOMAIN proc' = {t} /\ DOMAIN q = CommandFields /\ q.pc = pc /\ q.roots = p.roots
          /\ SameArgs(p, q)
      BY <1>1, <1>3, <2>2 DEF CommandFields, SameArgs
    <2>4. Len(p.stack) = 1
      <3>1. StackInv(deps, p)
        BY <1>3 DEF Resolving
      <3>2. PICK l : l = Len(p.stack)
        OBVIOUS
      <3>3. l \in Nat /\ l >= 1
        BY <3>1, <3>2 DEF StackInv
      <3>4. ~(l > 1)
        BY <1>7, <3>2, Zenon
      <3>5. l = 1
        BY <3>3, <3>4
      <3> QED  BY <3>2, <3>5, Zenon
    <2>5. Resolved(deps, p)
      BY <1>2, <1>3, <1>4, <2>4, EndStep, NamesAssumption
    <2>6. Resolved(deps, q)
      BY <2>3, <2>5 DEF Resolved, Covered, SameArgs
    <2>7. CommandInv(deps, src, scratch, target, compiled, q)
      BY <1>2, <1>3, <1>7, <2>3, <2>6
         DEF CommandInv, PlaceInv, KeyInv, ScriptInv, DoneInv, SameArgs, Pcs
    <2> QED  BY <1>1, <1>2, <2>3, <2>7, QuietStep
  <1> QED  BY <1>1, <1>5, <1>6, <1>7 DEF ResolveReturn

LEMMA BuildKeyInv ==
  ASSUME NEW t, IInv(t), BuildKey(t) PROVE IInv(t)'
  <1>1. PICK p, q : p = proc[t] /\ q = proc'[t]
    OBVIOUS
  <1>2. PICK k : k = ComputeKey(p.dir, p.release, p.roots)
    OBVIOUS
  <1>3. /\ p.pc = "key" /\ UNCHANGED <<files, ran, compiled, edits>>
        /\ proc' = [proc EXCEPT ![t].key = k, ![t].pc = "lookup"]
    BY <1>1, <1>2 DEF BuildKey
  <1>4. PlaceInv(p) /\ DOMAIN p = CommandFields /\ DOMAIN proc = {t} /\ Resolved(deps, p)
    BY <1>1, <1>3 DEF IInv, CommandInv, PlaceInv
  <1>5. k = KeyOf(src, p.dir, p.release, p.roots)
    BY <1>2 DEF ComputeKey, KeyOf
  <1>6. /\ DOMAIN proc' = {t} /\ DOMAIN q = CommandFields /\ q.pc = "lookup" /\ q.key = k
        /\ q.roots = p.roots /\ SameArgs(p, q)
    BY <1>1, <1>3, <1>4 DEF CommandFields, SameArgs
  <1>7. KeyInv(deps, src, q)
    BY <1>4, <1>5, <1>6 DEF KeyInv, Resolved, Covered, SameArgs
  <1>8. CommandInv(deps, src, scratch, target, compiled, q)
    BY <1>3, <1>4, <1>6, <1>7 DEF CommandInv, PlaceInv, ScriptInv, DoneInv, SameArgs, Pcs
  <1> QED  BY <1>1, <1>3, <1>6, <1>8, QuietStep

\* A build that ends well: its claim holds, and so does what sp run needs.
LEMMA AfterBuildIs ==
  ASSUME NEW t, DOMAIN proc = {t}, PlaceInv(proc[t]), proc[t].pc \in {"lookup", "store"},
         NEW hit \in BOOLEAN, AfterBuild(t, hit),
         NEW dp, NEW sr, NEW sc, NEW tg, NEW cs, BuildClaim(dp, sr, cs, proc[t].dir),
         ~hit /\ LinksIn(sr, proc[t].dir) =>
            tg[proc[t].dir][Profile(proc[t].release)] = BinaryOf(dp, sr, proc[t].dir)
  PROVE  DOMAIN proc' = {t} /\ CommandInv(dp, sr, sc, tg, cs, proc'[t])
  <1>1. PICK p, q : p = proc[t] /\ q = proc'[t]
    OBVIOUS
  <1>2. DOMAIN p = CommandFields /\ p.cmd \in {"build", "run"} /\ p.dir \in Dirs
    BY <1>1 DEF PlaceInv
  <1>3. CASE proc' = [proc EXCEPT ![t].hit = hit, ![t].pc = "exec_target"] /\ p.cmd = "run"
    <2>1. /\ DOMAIN proc' = {t} /\ DOMAIN q = CommandFields /\ q.pc = "exec_target" /\ q.hit = hit
          /\ SameArgs(p, q)
      BY <1>1, <1>2, <1>3 DEF CommandFields, SameArgs
    <2>2. PlaceInv(q)
      BY <1>1, <1>2, <2>1 DEF PlaceInv, SameArgs, Pcs
    <2>3. ScriptInv(dp, sr, sc, tg, cs, q)
      BY <1>1, <2>1 DEF ScriptInv, SameArgs
    <2> QED  BY <1>1, <2>1, <2>2, <2>3 DEF CommandInv, KeyInv, DoneInv
  <1>4. CASE Finish(t, TRUE)
    <2>1. /\ DOMAIN proc' = {t} /\ DOMAIN q = CommandFields /\ q.pc = "done" /\ SameArgs(p, q)
      BY <1>1, <1>2, <1>4, FinishIs
    <2>2. DoneInv(dp, sr, cs, q)
      BY <1>1, <1>2, <2>1 DEF DoneInv, SameArgs
    <2>3. CommandInv(dp, sr, sc, tg, cs, q)
      BY <1>1, <2>1, <2>2, EndedInv
    <2> QED  BY <1>1, <2>1, <2>3
  <1> QED  BY <1>1, <1>3, <1>4 DEF AfterBuild

LEMMA BuildLookupInv ==
  ASSUME NEW t, IInv(t), BuildLookup(t) PROVE IInv(t)'
  <1>1. PICK p, q : p = proc[t] /\ q = proc'[t]
    OBVIOUS
  <1>2. p.pc = "lookup" /\ UNCHANGED <<files, ran, compiled, edits>>
    BY <1>1 DEF BuildLookup
  <1>3. /\ PlaceInv(p) /\ DOMAIN p = CommandFields /\ DOMAIN proc = {t} /\ CacheOK(cache, compiled)
        /\ Covered(deps, p) /\ p.key = KeyOf(src, p.dir, p.release, p.roots)
        /\ p.cmd \in {"build", "run"}
    BY <1>1, <1>2 DEF IInv, CommandInv, PlaceInv, KeyInv
  <1>4. CASE Lookup(p.key) /\ AfterBuild(t, TRUE)
    <2>1. KeyOK(compiled, p.key)
      BY <1>3, <1>4 DEF Lookup, CacheOK
    <2>2. BuildClaim(deps, src, compiled, p.dir)
      BY <1>3, <2>1, KeyHit
    <2>3. DOMAIN proc' = {t} /\ CommandInv(deps, src, scratch, target, compiled, proc'[t])
      BY <1>1, <1>2, <1>3, <1>4, <2>2, AfterBuildIs
    <2> QED  BY <1>2, <2>3, QuietStep
  <1>5. CASE Goto(t, "front")
    <2>1. /\ DOMAIN proc' = {t} /\ DOMAIN q = CommandFields /\ q.pc = "front"
          /\ SameArgs(p, q) /\ SameLocals(p, q)
      BY <1>1, <1>3, <1>5, GotoIs
    <2>2. KeyInv(deps, src, q)
      BY <1>3, <2>1 DEF KeyInv, Covered, SameArgs, SameLocals
    <2>3. CommandInv(deps, src, scratch, target, compiled, q)
      BY <1>2, <1>3, <2>1, <2>2 DEF CommandInv, PlaceInv, ScriptInv, DoneInv, SameArgs, Pcs
    <2> QED  BY <1>1, <1>2, <2>1, <2>3, QuietStep
  <1> QED  BY <1>1, <1>4, <1>5 DEF BuildLookup

LEMMA VerifyInv ==
  ASSUME NEW t, IInv(t), Verify(t) PROVE IInv(t)'
  <1>1. PICK ok : Finish(t, ok)
    BY DEF Verify
  <1>2. proc[t].pc = "verify" /\ UNCHANGED <<files, ran, compiled, edits>>
    BY DEF Verify
  <1>3. proc[t].cmd \notin {"build", "run", "test"}
    BY <1>2 DEF IInv, CommandInv, PlaceInv
  <1> QED  BY <1>1, <1>2, <1>3, FinishStep

LEMMA TestStartInv ==
  ASSUME NEW t, IInv(t), TestStart(t) PROVE IInv(t)'
  <1>1. PICK p, q : p = proc[t] /\ q = proc'[t]
    OBVIOUS
  <1>2. p.pc = "start" /\ p.cmd = "test" /\ UNCHANGED <<files, ran, compiled, edits>>
    BY <1>1 DEF TestStart
  <1>3. CASE Finish(t, FALSE)
    BY <1>1, <1>2, <1>3, FinishStep
  <1>4. CASE Goto(t, "front")
    <2>1. PlaceInv(p) /\ DOMAIN p = CommandFields /\ DOMAIN proc = {t}
      BY <1>1 DEF IInv, CommandInv, PlaceInv
    <2>2. DOMAIN proc' = {t} /\ DOMAIN q = CommandFields /\ q.pc = "front" /\ SameArgs(p, q)
      BY <1>1, <1>4, <2>1, GotoIs
    <2>3. CommandInv(deps, src, scratch, target, compiled, q)
      BY <1>2, <2>1, <2>2 DEF CommandInv, PlaceInv, KeyInv, ScriptInv, DoneInv, SameArgs, Pcs
    <2> QED  BY <1>1, <1>2, <2>2, <2>3, QuietStep
  <1> QED  BY <1>3, <1>4 DEF TestStart

LEMMA ScriptFrontInv ==
  ASSUME NEW t, IInv(t), ScriptFront(t) PROVE IInv(t)'
  <1>1. PICK p, q : p = proc[t] /\ q = proc'[t]
    OBVIOUS
  <1>2. p.pc = "front" /\ UNCHANGED <<present, deps, src, target, cache, ran, compiled, edits>>
    BY <1>1 DEF ScriptFront
  <1>3. /\ PlaceInv(p) /\ DOMAIN p = CommandFields /\ DOMAIN proc = {t} /\ p.stem \in Stems
        /\ KeyInv(deps, src, p) /\ FilesInv /\ ScratchOK(scratch)
    BY <1>1, <1>2 DEF IInv, CommandInv, PlaceInv, FilesInv, Stems
  <1>4. ASSUME ScratchOK(scratch'), DOMAIN proc' = {t},
               CommandInv(deps, src, scratch', target, compiled, q)
        PROVE  IInv(t)'
    BY <1>1, <1>2, <1>4 DEF IInv, FilesInv, RunAfterCompileIsCurrent
  <1>5. CASE Finish(t, FALSE) /\ (UNCHANGED scratch \/ scratch' = [scratch EXCEPT ![p.stem].mlir = None])
    <2>1. /\ DOMAIN proc' = {t} /\ DOMAIN q = CommandFields /\ q.pc = "done" /\ q.ok = FALSE
          /\ SameArgs(p, q)
      BY <1>1, <1>3, <1>5, FinishIs
    <2>2. DoneInv(deps, src, compiled, q)
      BY <2>1 DEF DoneInv
    <2>3. CommandInv(deps, src, scratch', target, compiled, q)
      BY <1>2, <1>3, <2>1, <2>2, EndedInv
    <2>4. ScratchOK(scratch')
      BY <1>3, <1>5 DEF ScratchOK, None
    <2> QED  BY <1>4, <2>1, <2>3, <2>4
  <1>6. CASE Goto(t, "link") /\ scratch' = [scratch EXCEPT ![p.stem].mlir = Binary(p.dir)]
    <2>1. /\ DOMAIN proc' = {t} /\ DOMAIN q = CommandFields /\ q.pc = "link"
          /\ SameArgs(p, q) /\ SameLocals(p, q)
      BY <1>1, <1>3, <1>6, GotoIs
    <2>2. PICK b : b = BinaryOf(deps, src, p.dir)
      OBVIOUS
    <2>8. b.of = "binary"
      BY <2>2 DEF BinaryOf
    <2>3. scratch' = [scratch EXCEPT ![p.stem].mlir = b]
      BY <1>6, <2>2, BinaryIs
    <2>4. ScratchOK(scratch') /\ scratch'[p.stem].mlir = b
      BY <1>3, <2>8, <2>3 DEF ScratchOK
    <2>5. KeyInv(deps, src, q)
      BY <1>2, <1>3, <2>1 DEF KeyInv, Covered, SameArgs, SameLocals
    <2>6. ScriptInv(deps, src, scratch', target, compiled, q)
      BY <2>1, <2>2, <2>4 DEF ScriptInv, SameArgs
    <2>7. CommandInv(deps, src, scratch', target, compiled, q)
      BY <1>2, <1>3, <2>1, <2>5, <2>6 DEF CommandInv, PlaceInv, DoneInv, SameArgs, Pcs
    <2> QED  BY <1>4, <2>1, <2>4, <2>7
  <1> QED  BY <1>1, <1>5, <1>6 DEF ScriptFront

LEMMA ScriptLinkInv ==
  ASSUME NEW t, IInv(t), ScriptLink(t) PROVE IInv(t)'
  <1>1. PICK p, q : p = proc[t] /\ q = proc'[t]
    OBVIOUS
  <1>2. /\ p.pc = "link" /\ UNCHANGED <<present, deps, src, target, cache, ran, compiled, edits>>
        /\ Goto(t, "exec")
    BY <1>1 DEF ScriptLink
  <1>3. /\ PlaceInv(p) /\ DOMAIN p = CommandFields /\ DOMAIN proc = {t} /\ p.stem \in Stems
        /\ KeyInv(deps, src, p) /\ FilesInv /\ ScratchOK(scratch) /\ p.dir \in Dirs
        /\ scratch[p.stem].mlir = BinaryOf(deps, src, p.dir)
    BY <1>1, <1>2 DEF IInv, CommandInv, PlaceInv, FilesInv, Stems, ScriptInv
  <1>4. /\ DOMAIN proc' = {t} /\ DOMAIN q = CommandFields /\ q.pc = "exec"
        /\ SameArgs(p, q) /\ SameLocals(p, q)
    BY <1>1, <1>2, <1>3, GotoIs
  <1>5. PICK b : b = BinaryOf(deps, src, p.dir) /\ b.of = "binary" /\ BinaryOutcome(b) = Outcome(p.dir, src[p.dir])
    <2>1. PICK b : b = BinaryOf(deps, src, p.dir) /\ b.of = "binary" /\ b.dir = p.dir
                   /\ b.sources = [e \in Reach(deps, p.dir) |-> src[e]]
      BY BinaryFields
    <2>2. b.sources[p.dir] = src[p.dir]
      BY <1>3, <2>1, ReachSelf
    <2> QED  BY <2>1, <2>2 DEF BinaryOutcome
  <1>6. \/ LinksIn(src, p.dir) /\ scratch' = [scratch EXCEPT ![p.stem].bin = b]
        \/ ~LinksIn(src, p.dir) /\ scratch' = scratch
    BY <1>1, <1>3, <1>5 DEF ScriptLink, LinksIn
  <1>7. ScratchOK(scratch') /\ (LinksIn(src, p.dir) => scratch'[p.stem].bin = b)
    BY <1>3, <1>5, <1>6 DEF ScratchOK
  <1>8. KeyInv(deps, src, q)
    BY <1>2, <1>3, <1>4 DEF KeyInv, Covered, SameArgs, SameLocals
  <1>9. ScriptInv(deps, src, scratch', target, compiled, q)
    BY <1>4, <1>5, <1>7 DEF ScriptInv, SameArgs
  <1>10. CommandInv(deps, src, scratch', target, compiled, q)
    BY <1>2, <1>3, <1>4, <1>8, <1>9 DEF CommandInv, PlaceInv, DoneInv, SameArgs, Pcs
  <1> QED  BY <1>1, <1>2, <1>4, <1>7, <1>10 DEF IInv, FilesInv, RunAfterCompileIsCurrent

LEMMA ScriptExecInv ==
  ASSUME NEW t, IInv(t), ScriptExec(t) PROVE IInv(t)'
  <1>1. PICK p, q : p = proc[t] /\ q = proc'[t]
    OBVIOUS
  <1>2. PICK b : b = scratch[p.stem].bin
    OBVIOUS
  <1>3. PICK good \in BOOLEAN : good = (b # None /\ BinaryOutcome(b) = "ok")
    OBVIOUS
  <1>4. /\ p.pc = "exec" /\ UNCHANGED <<files, ran, edits>>
        /\ IF good /\ p.cmd \in {"build", "run"} THEN Goto(t, "copy") ELSE Finish(t, good)
        /\ compiled' = IF good THEN compiled \cup {<<p.stem, b>>} ELSE compiled
    BY <1>1, <1>2, <1>3 DEF ScriptExec
  <1>5. /\ PlaceInv(p) /\ DOMAIN p = CommandFields /\ DOMAIN proc = {t}
        /\ KeyInv(deps, src, p) /\ p.stem = IF p.cmd = "test" THEN "test_smoke" ELSE "main"
        /\ LinksIn(src, p.dir) => b = BinaryOf(deps, src, p.dir)
        /\ p.cmd \in {"build", "run", "test"}
    BY <1>1, <1>2, <1>4 DEF IInv, CommandInv, PlaceInv, ScriptInv
  <1>6. compiled \subseteq compiled' /\ (good => <<p.stem, b>> \in compiled')
    BY <1>4
  <1>7. CacheOK(cache', compiled')
    <2>1. CacheOK(cache, compiled) /\ cache' = cache
      BY <1>4 DEF IInv, files
    <2> QED  BY <1>6, <2>1, MoreCompiled DEF CacheOK
  <1>8. ASSUME DOMAIN proc' = {t}, CommandInv(deps, src, scratch, target, compiled', q) PROVE IInv(t)'
    BY <1>1, <1>4, <1>7, <1>8 DEF IInv, FilesInv, RunAfterCompileIsCurrent, files
  <1>9. CASE good /\ p.cmd \in {"build", "run"} /\ Goto(t, "copy")
    <2>1. /\ DOMAIN proc' = {t} /\ DOMAIN q = CommandFields /\ q.pc = "copy"
          /\ SameArgs(p, q) /\ SameLocals(p, q)
      BY <1>1, <1>5, <1>9, GotoIs
    <2>2. KeyInv(deps, src, q)
      BY <1>4, <1>5, <2>1 DEF KeyInv, Covered, SameArgs, SameLocals
    <2>3. p.stem = "main"
      BY <1>5, <1>9
    <2>4. LinksIn(src, p.dir) => <<"main", BinaryOf(deps, src, p.dir)>> \in compiled'
      BY <1>5, <1>6, <1>9, <2>3
    <2>5. ScriptInv(deps, src, scratch, target, compiled', q)
      BY <1>2, <1>5, <2>1, <2>4 DEF ScriptInv, SameArgs
    <2>6. CommandInv(deps, src, scratch, target, compiled', q)
      BY <1>4, <1>5, <1>9, <2>1, <2>2, <2>5 DEF CommandInv, PlaceInv, DoneInv, SameArgs, Pcs
    <2> QED  BY <1>8, <2>1, <2>6
  <1>10. CASE Finish(t, good) /\ ~(good /\ p.cmd \in {"build", "run"})
    <2>1. /\ DOMAIN proc' = {t} /\ DOMAIN q = CommandFields /\ q.pc = "done" /\ q.ok = good
          /\ SameArgs(p, q)
      BY <1>1, <1>5, <1>10, FinishIs
    <2>2. DoneInv(deps, src, compiled', q)
      BY <1>5, <1>6, <1>10, <2>1 DEF DoneInv, SameArgs
    <2>3. CommandInv(deps, src, scratch, target, compiled', q)
      BY <1>4, <1>5, <2>1, <2>2, EndedInv
    <2> QED  BY <1>8, <2>1, <2>3
  <1> QED  BY <1>4, <1>9, <1>10

LEMMA CopyToTargetInv ==
  ASSUME NEW t, IInv(t), CopyToTarget(t) PROVE IInv(t)'
  <1>1. PICK p, q : p = proc[t] /\ q = proc'[t]
    OBVIOUS
  <1>2. PICK b : b = scratch[p.stem].bin
    OBVIOUS
  <1>3. PICK pr : pr = Profile(p.release) /\ pr \in Profiles
    BY DEF Profile, Profiles
  <1>4. /\ p.pc = "copy" /\ Goto(t, "store") /\ target' = [target EXCEPT ![p.dir][pr] = b]
        /\ UNCHANGED <<present, deps, src, scratch, cache, ran, compiled, edits>>
    BY <1>1, <1>2, <1>3 DEF CopyToTarget
  <1>5. /\ PlaceInv(p) /\ DOMAIN p = CommandFields /\ DOMAIN proc = {t} /\ p.dir \in Dirs
        /\ p.stem \in Stems /\ KeyInv(deps, src, p) /\ ScratchOK(scratch) /\ TargetsOK(target)
        /\ LinksIn(src, p.dir) => b = BinaryOf(deps, src, p.dir)
        /\ LinksIn(src, p.dir) => <<"main", BinaryOf(deps, src, p.dir)>> \in compiled
    BY <1>1, <1>2, <1>4 DEF IInv, CommandInv, PlaceInv, ScriptInv, FilesInv, Stems
  <1>6. b.of \in {"none", "partial", "binary"}
    BY <1>2, <1>5 DEF ScratchOK
  <1>7. TargetsOK(target') /\ target'[p.dir][pr] = b
    <2>1. PICK d, tg, tg1 : d = p.dir /\ tg = target /\ tg1 = target'
      OBVIOUS
    <2>2. d \in Dirs /\ TargetsOK(tg) /\ tg1 = [tg EXCEPT ![d][pr] = b] /\ pr \in Profiles
      BY <1>3, <1>4, <1>5, <2>1
    <2>3. TargetsOK(tg1) /\ tg1[d][pr] = b
      BY <1>6, <2>2 DEF TargetsOK
    <2> QED  BY <2>1, <2>3
  <1>8. /\ DOMAIN proc' = {t} /\ DOMAIN q = CommandFields /\ q.pc = "store"
        /\ SameArgs(p, q) /\ SameLocals(p, q)
    BY <1>1, <1>4, <1>5, GotoIs
  <1>9. KeyInv(deps, src, q)
    BY <1>4, <1>5, <1>8 DEF KeyInv, Covered, SameArgs, SameLocals
  <1>10. ScriptInv(deps, src, scratch, target', compiled, q)
    BY <1>3, <1>5, <1>7, <1>8 DEF ScriptInv, SameArgs
  <1>11. CommandInv(deps, src, scratch, target', compiled, q)
    BY <1>4, <1>5, <1>8, <1>9, <1>10 DEF CommandInv, PlaceInv, DoneInv, SameArgs, Pcs
  <1> QED  BY <1>1, <1>4, <1>7, <1>8, <1>11 DEF IInv, FilesInv, RunAfterCompileIsCurrent

\* The key is stored, by the build or by half a copy of one that was killed.
LEMMA CachePut ==
  ASSUME NEW ca, NEW cs, CacheOK(ca, cs), NEW k, KeyOK(cs, k), NEW v, NEW ca1,
         ca1 = [x \in DOMAIN ca \cup {k} |-> IF x = k THEN v ELSE ca[x]]
  PROVE  CacheOK(ca1, cs)
  <1>1. DOMAIN ca1 = DOMAIN ca \cup {k}
    OBVIOUS
  <1> QED  BY <1>1 DEF CacheOK

LEMMA StoreKey ==
  ASSUME NEW t, IInv(t), proc[t].pc = "store"
  PROVE  KeyOK(compiled, proc[t].key)
  <1>1. PICK p : p = proc[t]
    OBVIOUS
  <1>2. /\ Covered(deps, p) /\ p.key = KeyOf(src, p.dir, p.release, p.roots)
        /\ LinksIn(src, p.dir) => <<"main", BinaryOf(deps, src, p.dir)>> \in compiled
    BY <1>1 DEF IInv, CommandInv, PlaceInv, ScriptInv, KeyInv
  <1> QED  BY <1>1, <1>2, KeyStored

LEMMA StoreInCacheInv ==
  ASSUME NEW t, IInv(t), StoreInCache(t) PROVE IInv(t)'
  <1>1. PICK p : p = proc[t]
    OBVIOUS
  <1>2. PICK out : out = target[p.dir][Profile(p.release)]
    OBVIOUS
  <1>3. /\ p.pc = "store" /\ AfterBuild(t, FALSE)
        /\ UNCHANGED <<present, deps, src, target, scratch, ran, compiled, edits>>
        /\ cache' = IF out = None THEN cache
                    ELSE [k \in DOMAIN cache \cup {p.key} |-> IF k = p.key THEN out ELSE cache[k]]
    BY <1>1, <1>2 DEF StoreInCache
  <1>4. /\ PlaceInv(p) /\ DOMAIN proc = {t} /\ CacheOK(cache, compiled) /\ KeyOK(compiled, p.key)
        /\ LinksIn(src, p.dir) => out = BinaryOf(deps, src, p.dir)
        /\ LinksIn(src, p.dir) => <<"main", BinaryOf(deps, src, p.dir)>> \in compiled
    BY <1>1, <1>2, <1>3, StoreKey DEF IInv, CommandInv, ScriptInv
  <1>5. CacheOK(cache', compiled)
    BY <1>3, <1>4, CachePut
  <1>6. BuildClaim(deps, src, compiled, p.dir)
    BY <1>4, FreshCompiled DEF BuildClaim
  <1>7. DOMAIN proc' = {t} /\ CommandInv(deps, src, scratch, target, compiled, proc'[t])
    BY <1>1, <1>2, <1>3, <1>4, <1>6, AfterBuildIs
  <1> QED  BY <1>3, <1>5, <1>7 DEF IInv, FilesInv, RunAfterCompileIsCurrent

LEMMA ExecTargetInv ==
  ASSUME NEW t, IInv(t), ExecTarget(t) PROVE IInv(t)'
  <1>1. PICK p, q : p = proc[t] /\ q = proc'[t]
    OBVIOUS
  <1>2. PICK b, so : b = target[p.dir][Profile(p.release)] /\ so = SourcesOf(p.dir)
    OBVIOUS
  <1>3. PICK ok : ok = (b.of = "binary" /\ BinaryOutcome(b) = "ok")
    OBVIOUS
  <1>4. /\ p.pc = "exec_target" /\ Finish(t, ok) /\ UNCHANGED <<files, compiled, edits>>
        /\ ran' = [of |-> "run", dir |-> p.dir, bin |-> b, sources |-> so, hit |-> p.hit]
    BY <1>1, <1>2, <1>3 DEF ExecTarget
  <1>5. /\ PlaceInv(p) /\ DOMAIN p = CommandFields /\ DOMAIN proc = {t} /\ p.dir \in Dirs
        /\ BuildClaim(deps, src, compiled, p.dir) /\ p.cmd \in {"build", "run"}
        /\ ~p.hit /\ LinksIn(src, p.dir) => b = BinaryOf(deps, src, p.dir)
    BY <1>1, <1>2, <1>4 DEF IInv, CommandInv, PlaceInv, ScriptInv
  <1>6. so = [e \in Reach(deps, p.dir) |-> src[e]]
    BY <1>2, NeededIs, Zenon DEF SourcesOf
  <1>7. so[p.dir] = src[p.dir]
    BY <1>5, <1>6, ReachSelf
  <1>8. RunAfterCompileIsCurrent'
    <2>1. ran'.dir = p.dir /\ ran'.bin = b /\ ran'.sources = so /\ ran'.hit = p.hit
      BY <1>4
    <2>2. SUFFICES ASSUME ~p.hit, LinksIn(src, p.dir)
                   PROVE  b.of = "binary" /\ b.dir = p.dir /\ b.sources = so
      BY <1>7, <2>1 DEF RunAfterCompileIsCurrent, LinksIn
    <2>3. b = [of |-> "binary", dir |-> p.dir, sources |-> so]
      BY <1>5, <1>6, <2>2 DEF BinaryOf
    <2> QED  BY <2>3
  <1>9. /\ DOMAIN proc' = {t} /\ DOMAIN q = CommandFields /\ q.pc = "done" /\ q.ok = ok
        /\ SameArgs(p, q)
    BY <1>1, <1>4, <1>5, FinishIs
  <1>10. DoneInv(deps, src, compiled, q)
    BY <1>5, <1>9 DEF DoneInv, SameArgs
  <1>11. CommandInv(deps, src, scratch, target, compiled, q)
    BY <1>4, <1>5, <1>9, <1>10, EndedInv
  <1> QED  BY <1>1, <1>4, <1>8, <1>9, <1>11 DEF IInv, FilesInv, files

LEMMA CleanInv ==
  ASSUME NEW t, IInv(t), Clean(t) PROVE IInv(t)'
  <1>1. PICK p, q : p = proc[t] /\ q = proc'[t]
    OBVIOUS
  <1>2. /\ p.pc = "start" /\ p.cmd = "clean" /\ Finish(t, TRUE)
        /\ target' = [target EXCEPT ![p.dir] = [x \in Profiles |-> None]]
        /\ UNCHANGED <<present, deps, src, scratch, cache, ran, compiled, edits>>
    BY <1>1 DEF Clean
  <1>3. /\ PlaceInv(p) /\ DOMAIN p = CommandFields /\ DOMAIN proc = {t} /\ TargetsOK(target)
    BY <1>1 DEF IInv, CommandInv, PlaceInv, FilesInv
  <1>4. TargetsOK(target')
    BY <1>2, <1>3 DEF TargetsOK, None
  <1>5. DOMAIN proc' = {t} /\ DOMAIN q = CommandFields /\ q.pc = "done" /\ SameArgs(p, q)
    BY <1>1, <1>2, <1>3, FinishIs
  <1>6. DoneInv(deps, src, compiled, q)
    BY <1>2, <1>5 DEF DoneInv, SameArgs
  <1>7. CommandInv(deps, src, scratch, target', compiled, q)
    BY <1>2, <1>3, <1>5, <1>6, EndedInv
  <1> QED  BY <1>1, <1>2, <1>4, <1>5, <1>7 DEF IInv, FilesInv, RunAfterCompileIsCurrent

LEMMA NewInv ==
  ASSUME NEW t, IInv(t), NEW lib \in BOOLEAN, New(t, lib) PROVE IInv(t)'
  <1>1. PICK p, q : p = proc[t] /\ q = proc'[t]
    OBVIOUS
  <1>2. /\ p.pc = "start" /\ p.cmd = "new" /\ (Finish(t, TRUE) \/ Finish(t, FALSE))
        /\ UNCHANGED <<target, scratch, cache, ran, compiled, edits>>
    BY <1>1 DEF New
  <1>3. \/ UNCHANGED <<present, deps, src>>
        \/ /\ present' = [present EXCEPT ![p.dir] = IF lib THEN "lib" ELSE "bin"]
           /\ deps' = [deps EXCEPT ![p.dir] = [n \in {} |-> Registry]]
           /\ src' = [src EXCEPT ![p.dir] = 1]
    BY <1>1 DEF New
  <1>4. /\ PlaceInv(p) /\ DOMAIN p = CommandFields /\ DOMAIN proc = {t} /\ FilesInv /\ p.dir \in Dirs
    BY <1>1, <1>2 DEF IInv, CommandInv, PlaceInv
  <1>5. present' \in [Dirs -> {"none", "bin", "lib"}]
    BY <1>3, <1>4 DEF FilesInv
  <1>6. ManifestsOK(deps')
    <2>1. PICK m : m = [n \in {} |-> Registry]
      OBVIOUS
    <2>2. DOMAIN m = {}
      BY <2>1
    <2>3. deps' = deps \/ deps' = [deps EXCEPT ![p.dir] = m]
      BY <1>3, <2>1
    <2> QED  BY <1>4, <2>2, <2>3 DEF FilesInv, ManifestsOK
  <1>7. SourcesOK(src')
    BY <1>3, <1>4, DirsAssumption DEF FilesInv, SourcesOK
  <1>8. DOMAIN proc' = {t} /\ DOMAIN q = CommandFields /\ q.pc = "done" /\ SameArgs(p, q)
    BY <1>1, <1>2, <1>4, FinishIs
  <1>9. DoneInv(deps', src', compiled, q)
    BY <1>2, <1>8 DEF DoneInv, SameArgs
  <1>10. CommandInv(deps', src', scratch, target, compiled, q)
    BY <1>2, <1>4, <1>8, <1>9, EndedInv
  <1> QED  BY <1>1, <1>2, <1>4, <1>5, <1>6, <1>7, <1>8, <1>10 DEF IInv, FilesInv, RunAfterCompileIsCurrent

LEMMA AddInv ==
  ASSUME NEW t, IInv(t), NEW n \in Names, Add(t, n) PROVE IInv(t)'
  <1>1. PICK p, q : p = proc[t] /\ q = proc'[t]
    OBVIOUS
  <1>2. /\ p.pc = "start" /\ p.cmd = "add" /\ (Finish(t, TRUE) \/ Finish(t, FALSE))
        /\ UNCHANGED <<present, src, target, scratch, cache, ran, compiled, edits>>
    BY <1>1 DEF Add
  <1>3. /\ PlaceInv(p) /\ DOMAIN p = CommandFields /\ DOMAIN proc = {t} /\ FilesInv /\ p.dir \in Dirs
    BY <1>1, <1>2 DEF IInv, CommandInv, PlaceInv
  <1>4. ManifestsOK(deps')
    <2>1. PICK m : m = [x \in DOMAIN deps[p.dir] \cup {n} |-> IF x = n THEN Registry ELSE deps[p.dir][x]]
      OBVIOUS
    <2>2. DOMAIN m = DOMAIN deps[p.dir] \cup {n}
      BY <2>1
    <2>3. deps' = deps \/ deps' = [deps EXCEPT ![p.dir] = m]
      BY <1>1, <2>1 DEF Add
    <2> QED  BY <1>3, <2>2, <2>3 DEF FilesInv, ManifestsOK
  <1>5. DOMAIN proc' = {t} /\ DOMAIN q = CommandFields /\ q.pc = "done" /\ SameArgs(p, q)
    BY <1>1, <1>2, <1>3, FinishIs
  <1>6. DoneInv(deps', src, compiled, q)
    BY <1>2, <1>5 DEF DoneInv, SameArgs
  <1>7. CommandInv(deps', src, scratch, target, compiled, q)
    BY <1>2, <1>3, <1>5, <1>6, EndedInv
  <1> QED  BY <1>1, <1>2, <1>3, <1>4, <1>5, <1>7 DEF IInv, FilesInv, RunAfterCompileIsCurrent

\* A command that has not begun, and no command.
LEMMA FreshCommand ==
  ASSUME NEW pc \in {"idle", "start"}, NEW cmd, NEW d, pc = "start" => d \in Dirs, NEW release,
         NEW q, q = Command(pc, cmd, d, release),
         NEW dp, NEW sr, NEW sc, NEW tg, NEW cs
  PROVE  CommandInv(dp, sr, sc, tg, cs, q)
  <1>1. /\ DOMAIN q = CommandFields /\ q.pc = pc /\ q.cmd = cmd /\ q.dir = d /\ q.seen = {}
        /\ q.stem = IF cmd = "test" THEN "test_smoke" ELSE "main"
    BY DEF Command, CommandFields
  <1> QED  BY <1>1 DEF CommandInv, PlaceInv, KeyInv, ScriptInv, DoneInv, Pcs

LEMMA StartInv ==
  ASSUME NEW t, IInv(t), NEW i \in Invocations, Start(t, i[1], i[2], i[3]) PROVE IInv(t)'
  <1>1. PICK cmd, d, release : cmd = i[1] /\ d = i[2] /\ release = i[3]
    OBVIOUS
  <1>2. /\ edits' = (IF cmd \in {"clean", "add"} THEN edits + 1 ELSE edits) /\ edits' <= MaxEdits
        /\ proc' = [proc EXCEPT ![t] = Command("start", cmd, d, release)]
        /\ ran' = None /\ UNCHANGED <<files, compiled>>
    BY <1>1 DEF Start
  <1>3. d \in Dirs
    BY <1>1, DirsAssumption
  <1>4. PICK q : q = Command("start", cmd, d, release)
    OBVIOUS
  <1>5. CommandInv(deps, src, scratch, target, compiled, q)
    BY <1>3, <1>4, FreshCommand
  <1>6. DOMAIN proc' = {t} /\ proc'[t] = q
    BY <1>2, <1>4 DEF IInv
  <1>7. edits' \in 0 .. MaxEdits
    BY <1>2, BoundAssumption DEF IInv, FilesInv
  <1>8. RunAfterCompileIsCurrent'
    BY <1>2 DEF RunAfterCompileIsCurrent
  <1> QED  BY <1>2, <1>5, <1>6, <1>7, <1>8 DEF IInv, FilesInv, files

LEMMA IdleInv ==
  ASSUME NEW dp, NEW sr, NEW sc, NEW tg, NEW cs
  PROVE  CommandInv(dp, sr, sc, tg, cs, Idle)
  BY FreshCommand DEF Idle

LEMMA EditInv ==
  ASSUME NEW t, Terminals = {t}, EditAnytime = FALSE, IInv(t),
         NEW d \in Dirs, NEW v \in Versions[d], Edit(d, v)
  PROVE  IInv(t)'
  <1>1. /\ edits < MaxEdits /\ NobodyBusy /\ edits' = edits + 1 /\ ran' = None
        /\ src' = [src EXCEPT ![d] = v]
        /\ proc' = [u \in Terminals |-> IF proc[u].pc = "done" THEN Idle ELSE proc[u]]
        /\ UNCHANGED <<present, deps, target, scratch, cache, compiled>>
    BY DEF Edit
  <1>2. PICK p, q : p = proc[t] /\ q = proc'[t]
    OBVIOUS
  <1>3. p.pc \in {"idle", "done"} /\ DOMAIN proc' = {t} /\ q = IF p.pc = "done" THEN Idle ELSE p
    BY <1>1, <1>2 DEF NobodyBusy
  <1>4. CommandInv(deps, src', scratch, target, compiled, q)
    <2>1. CASE p.pc = "done"
      BY <1>3, <2>1, IdleInv
    <2>2. CASE p.pc = "idle"
      <3>1. PlaceInv(p) /\ q = p
        BY <1>2, <1>3, <2>2 DEF IInv, CommandInv
      <3> QED  BY <2>2, <3>1 DEF CommandInv, KeyInv, ScriptInv, DoneInv
    <2> QED  BY <1>3, <2>1, <2>2
  <1>5. SourcesOK(src')
    BY <1>1 DEF IInv, FilesInv, SourcesOK
  <1>6. edits' \in 0 .. MaxEdits
    BY <1>1, BoundAssumption DEF IInv, FilesInv
  <1>7. RunAfterCompileIsCurrent'
    BY <1>1 DEF RunAfterCompileIsCurrent
  <1> QED  BY <1>1, <1>2, <1>3, <1>4, <1>5, <1>6, <1>7 DEF IInv, FilesInv

LEMMA RemoveProjectInv ==
  ASSUME NEW t, Terminals = {t}, IInv(t), NEW d \in Dirs, RemoveProject(d) PROVE IInv(t)'
  <1>1. /\ edits < MaxEdits /\ edits' = edits + 1 /\ ran' = None
        /\ present' = [present EXCEPT ![d] = "none"]
        /\ target' = [target EXCEPT ![d] = [p \in Profiles |-> None]]
        /\ proc' = [u \in Terminals |-> Idle]
        /\ UNCHANGED <<deps, src, scratch, cache, compiled>>
    BY DEF RemoveProject
  <1>2. DOMAIN proc' = {t} /\ proc'[t] = Idle
    BY <1>1
  <1>3. CommandInv(deps, src, scratch, target', compiled, proc'[t])
    BY <1>2, IdleInv
  <1>4. TargetsOK(target')
    BY <1>1 DEF IInv, FilesInv, TargetsOK, None
  <1>5. edits' \in 0 .. MaxEdits
    BY <1>1, BoundAssumption DEF IInv, FilesInv
  <1>6. RunAfterCompileIsCurrent'
    BY <1>1 DEF RunAfterCompileIsCurrent
  <1>7. present' \in [Dirs -> {"none", "bin", "lib"}]
    BY <1>1 DEF IInv, FilesInv
  <1> QED  BY <1>1, <1>2, <1>3, <1>4, <1>5, <1>6, <1>7 DEF IInv, FilesInv

LEMMA KillInv ==
  ASSUME NEW t, IInv(t), Kill(t) PROVE IInv(t)'
  <1>1. PICK p : p = proc[t]
    OBVIOUS
  <1>2. PICK pr : pr = Profile(p.release) /\ pr \in Profiles
    BY DEF Profile, Profiles
  <1>3. /\ p.pc \notin {"idle", "done"} /\ edits < MaxEdits /\ edits' = edits + 1
        /\ target' = (IF p.pc = "copy" THEN [target EXCEPT ![p.dir][pr] = Partial] ELSE target)
        /\ cache' = (IF p.pc = "store"
                     THEN [k \in DOMAIN cache \cup {p.key} |-> IF k = p.key THEN Partial ELSE cache[k]]
                     ELSE cache)
        /\ proc' = [proc EXCEPT ![t] = Idle]
        /\ UNCHANGED <<present, deps, src, scratch, ran, compiled>>
    BY <1>1, <1>2 DEF Kill
  <1>4. DOMAIN proc' = {t} /\ proc'[t] = Idle
    BY <1>3 DEF IInv
  <1>5. CommandInv(deps, src, scratch, target', compiled, proc'[t])
    BY <1>4, IdleInv
  <1>6. TargetsOK(target')
    <2>1. TargetsOK(target) /\ p.dir \in Dirs
      BY <1>1, <1>3 DEF IInv, FilesInv, CommandInv, PlaceInv
    <2>2. Partial.of = "partial"
      BY DEF Partial
    <2> QED  BY <1>2, <1>3, <2>1, <2>2 DEF TargetsOK
  <1>7. CacheOK(cache', compiled)
    <2>1. CacheOK(cache, compiled)
      BY DEF IInv
    <2>2. CASE p.pc = "store"
      <3>1. KeyOK(compiled, p.key)
        BY <1>1, <2>2, StoreKey
      <3> QED  BY <1>3, <2>1, <2>2, <3>1, CachePut
    <2>3. CASE p.pc # "store"
      BY <1>3, <2>1, <2>3
    <2> QED  BY <2>2, <2>3
  <1>8. edits' \in 0 .. MaxEdits
    BY <1>3, BoundAssumption DEF IInv, FilesInv
  <1> QED  BY <1>3, <1>4, <1>5, <1>6, <1>7, <1>8 DEF IInv, FilesInv, RunAfterCompileIsCurrent

LEMMA InitInv ==
  ASSUME NEW t, Terminals = {t}, Init PROVE IInv(t)
  <1>1. DOMAIN proc = {t} /\ proc[t] = Idle
    BY DEF Init
  <1>2. CommandInv(deps, src, scratch, target, compiled, proc[t])
    BY <1>1, IdleInv
  <1>3. present \in [Dirs -> {"none", "bin", "lib"}] /\ edits \in 0 .. MaxEdits
    BY BoundAssumption DEF Init
  <1>4. ManifestsOK(deps)
    BY NamesAssumption DEF Init, ManifestsOK
  <1>5. SourcesOK(src)
    BY DirsAssumption DEF Init, SourcesOK
  <1>6. TargetsOK(target)
    BY DEF Init, TargetsOK, None
  <1>7. ScratchOK(scratch)
    BY DEF Init, ScratchOK, None
  <1>8. CacheOK(cache, compiled)
    BY DEF Init, CacheOK
  <1>9. RunAfterCompileIsCurrent
    BY DEF Init, RunAfterCompileIsCurrent
  <1> QED  BY <1>1, <1>2, <1>3, <1>4, <1>5, <1>6, <1>7, <1>8, <1>9 DEF IInv, FilesInv

LEMMA StutterInv ==
  ASSUME NEW t, IInv(t), UNCHANGED vars PROVE IInv(t)'
  BY DEF vars, IInv, FilesInv, RunAfterCompileIsCurrent

\* The invariant above is inductive, with one terminal and sources that change
\* only between commands.
THEOREM Inductive ==
  ASSUME NEW t, Terminals = {t}, EditAnytime = FALSE PROVE Spec => []IInv(t)
  <1>1. ASSUME IInv(t), [Next]_vars PROVE IInv(t)'
    <2>1. ASSUME NEW i \in Invocations, Start(t, i[1], i[2], i[3]) PROVE IInv(t)'
      BY <1>1, <2>1, StartInv
    <2>2. CASE Load(t)
      BY <1>1, <2>2, LoadInv
    <2>3. ASSUME NEW n \in Names, ResolveSingle(t, n) PROVE IInv(t)'
      BY <1>1, <2>3, ResolveSingleInv
    <2>4. CASE ResolveReturn(t)
      BY <1>1, <2>4, ResolveReturnInv
    <2>5. CASE BuildKey(t)
      BY <1>1, <2>5, BuildKeyInv
    <2>6. CASE BuildLookup(t)
      BY <1>1, <2>6, BuildLookupInv
    <2>7. CASE ScriptFront(t)
      BY <1>1, <2>7, ScriptFrontInv
    <2>8. CASE ScriptLink(t)
      BY <1>1, <2>8, ScriptLinkInv
    <2>9. CASE ScriptExec(t)
      BY <1>1, <2>9, ScriptExecInv
    <2>10. CASE CopyToTarget(t)
      BY <1>1, <2>10, CopyToTargetInv
    <2>11. CASE StoreInCache(t)
      BY <1>1, <2>11, StoreInCacheInv
    <2>12. CASE ExecTarget(t)
      BY <1>1, <2>12, ExecTargetInv
    <2>13. CASE Verify(t)
      BY <1>1, <2>13, VerifyInv
    <2>14. CASE TestStart(t)
      BY <1>1, <2>14, TestStartInv
    <2>15. CASE Clean(t)
      BY <1>1, <2>15, CleanInv
    <2>16. ASSUME NEW lib \in BOOLEAN, New(t, lib) PROVE IInv(t)'
      BY <1>1, <2>16, NewInv
    <2>17. ASSUME NEW n \in Names, Add(t, n) PROVE IInv(t)'
      BY <1>1, <2>17, AddInv
    <2>18. CASE Kill(t)
      BY <1>1, <2>18, KillInv
    <2>19. ASSUME NEW d \in Dirs, NEW v \in Versions[d], Edit(d, v) PROVE IInv(t)'
      BY <1>1, <2>19, EditInv
    <2>20. ASSUME NEW d \in Dirs, RemoveProject(d) PROVE IInv(t)'
      BY <1>1, <2>20, RemoveProjectInv
    <2>21. CASE UNCHANGED vars
      BY <1>1, <2>21, StutterInv
    <2> QED  BY <1>1, <2>1, <2>2, <2>3, <2>4, <2>5, <2>6, <2>7, <2>8, <2>9, <2>10, <2>11, <2>12,
                <2>13, <2>14, <2>15, <2>16, <2>17, <2>18, <2>19, <2>20, <2>21 DEF Next
  <1> QED  BY <1>1, InitInv, PTL DEF Spec

\* resolve, whatever the HashMap order: each dependency is found once, after
\* what it needs unless they need each other, and every directory the project
\* needs is a search root unless a name it goes by was taken first.
THEOREM Roots ==
  ASSUME NEW t, Terminals = {t}, EditAnytime = FALSE PROVE Spec => []RootsComplete
  <1>1. ASSUME IInv(t) PROVE RootsComplete
    <2>1. PICK p, d : p = proc[t] /\ d = p.dir
      OBVIOUS
    <2>2. TypeOK
      BY <1>1 DEF IInv, TypeOK, FilesInv, SourcesOK, TargetsOK, CommandInv, PlaceInv, Pcs
    <2>3. ASSUME p.pc \in {"key", "verify"}
          PROVE  /\ Len(Tail(p.roots)) <= Cardinality(Names)
                 /\ ~NameClash(d) => Needed(d) \subseteq ToSet(p.roots)
                 /\ ~NameClash(d) =>
                      \A e \in Needed(d) \ {d} : \A n \in DOMAIN deps[e] :
                        e \notin Needed(deps[e][n].dir) => Before(Tail(p.roots), deps[e][n].dir, e)
      <3>1. Resolved(deps, p)
        BY <1>1, <2>1, <2>3 DEF IInv, CommandInv
      <3>2. PICK w \in Seq(Dirs) : w = p.roots
        BY <3>1 DEF Resolved, Covered
      <3>3. PICK r \in Nat, c \in Nat : r = Len(w) /\ c = Cardinality(Names)
        BY NamesAssumption, FS_CardinalityType
      <3>4. r \in 1 .. c + 1 /\ w[1] = d /\ (~Clash(deps, d) => Ordered(deps, w))
        BY <2>1, <3>1, <3>2, <3>3 DEF Resolved
      <3>5. ~Clash(deps, d) => \A e \in Reach(deps, d) : \E j \in 1 .. r : w[j] = e
        BY <2>1, <3>1, <3>2, <3>3 DEF Resolved, Covered
      <3>6. /\ Len(Tail(w)) = r - 1 /\ \A i \in 1 .. r - 1 : Tail(w)[i] = w[i + 1]
            /\ DOMAIN Tail(w) = 1 .. r - 1
        BY <3>3, <3>4
      <3>7. Len(Tail(w)) <= Cardinality(Names)
        BY <3>3, <3>4, <3>6
      <3>8. ToSet(w) = {w[i] : i \in 1 .. r}
        BY <3>2, <3>3 DEF ToSet
      <3>9. ~Clash(deps, d) => Reach(deps, d) \subseteq ToSet(w)
        BY <3>5, <3>8
      <3>10. ASSUME ~Clash(deps, d), NEW e \in Reach(deps, d) \ {d}, NEW n \in DOMAIN deps[e],
                    NEW f, f = deps[e][n].dir, e \notin Reach(deps, f)
             PROVE  Before(Tail(w), f, e)
        <4>1. PICK j \in 1 .. r : w[j] = e
          BY <3>5, <3>10
        <4>2. j \in 2 .. r
          BY <3>3, <3>4, <3>10, <4>1
        <4>3. PICK i \in 2 .. j - 1 : w[i] = f
          BY <3>3, <3>4, <3>10, <4>1, <4>2 DEF Ordered
        <4>4. i - 1 \in 1 .. r - 1 /\ j - 1 \in 1 .. r - 1 /\ i - 1 < j - 1
              /\ (i - 1) + 1 = i /\ (j - 1) + 1 = j
          BY <3>3, <4>2, <4>3
        <4>5. Tail(w)[i - 1] = f /\ Tail(w)[j - 1] = e
          BY <3>6, <4>1, <4>3, <4>4
        <4> QED  BY <3>6, <4>4, <4>5 DEF Before
      <3> QED  BY <3>2, <3>7, <3>9, <3>10, NeededIs, ClashIs
    <2> QED  BY <2>1, <2>2, <2>3 DEF RootsComplete
  <1> QED  BY <1>1, Inductive, PTL

\* A build that reports success is a build of sources that once compiled,
\* linked and ran, by cmd_build itself or as a cache hit.
THEOREM Built ==
  ASSUME NEW t, Terminals = {t}, EditAnytime = FALSE PROVE Spec => []BuildOkMeansCompiled
  <1>1. ASSUME IInv(t) PROVE BuildOkMeansCompiled
    <2>1. DoneInv(deps, src, compiled, proc[t])
      BY <1>1 DEF IInv, CommandInv
    <2> QED  BY <2>1, ClashIs, CompiledIs DEF BuildOkMeansCompiled, DoneInv, BuildClaim, Links, LinksIn
  <1> QED  BY <1>1, Inductive, PTL

\* sp run after a build that compiled executes what was just compiled.
THEOREM RunCurrent ==
  ASSUME NEW t, Terminals = {t}, EditAnytime = FALSE PROVE Spec => []RunAfterCompileIsCurrent
  <1>1. IInv(t) => RunAfterCompileIsCurrent
    BY DEF IInv
  <1> QED  BY <1>1, Inductive, PTL

\* sp test judges the project it was asked to, though all of them share one
\* scratch binary.
THEOREM TestOwn ==
  ASSUME NEW t, Terminals = {t}, EditAnytime = FALSE PROVE Spec => []TestJudgesOwn
  <1>1. ASSUME IInv(t) PROVE TestJudgesOwn
    <2>1. DoneInv(deps, src, compiled, proc[t])
      BY <1>1 DEF IInv, CommandInv
    <2> QED  BY <2>1, BinaryIs DEF TestJudgesOwn, DoneInv, Links, LinksIn
  <1> QED  BY <1>1, Inductive, PTL
=============================================================================
