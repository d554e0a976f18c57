----------------------------- MODULE CommonLemmas -----------------------------
(***************************************************************************)
(* Facts that several proofs need: induction over the naturals, stated     *)
(* about sets so that it can be cited for one set at a time, remainders,   *)
(* and lists linked through their nodes.                                   *)
(***************************************************************************)
EXTENDS Integers, FiniteSetTheorems, WellFoundedInduction, TLAPS

\* A non-empty set of naturals has a least element.
LEMMA LeastNat ==
  ASSUME NEW T \in SUBSET Nat, T # {}
  PROVE  \E x \in T : \A y \in T : x <= y
  <1> DEFINE R == OpToRel(<, Nat)
  <1>1. IsWellFoundedOn(R, Nat)
    BY NatLessThanWellFounded
  <1> HIDE DEF R
  <1>2. PICK x \in T : \A y \in T : ~(<<y, x>> \in R)
    BY <1>1, WFMin
  <1>3. ASSUME NEW y \in T PROVE x <= y
    <2>1. y < x => <<y, x>> \in R
      BY DEF R, OpToRel
    <2> QED  BY <1>2, <2>1
  <1> QED  BY <1>3

\* A bounded non-empty set of naturals has a greatest element.
LEMMA GreatestNat ==
  ASSUME NEW T \in SUBSET Nat, T # {}, NEW b \in Nat, \A x \in T : x <= b
  PROVE  \E x \in T : \A y \in T : y <= x
  <1> DEFINE U == {n \in Nat : b - n \in T}
  <1>1. \A x \in T : b - x \in U
    OBVIOUS
  <1>2. PICK n \in U : \A m \in U : n <= m
    <2>1. U \in SUBSET Nat /\ U # {}
      BY <1>1
    <2> HIDE DEF U
    <2> QED  BY <2>1, LeastNat
  <1>3. b - n \in T /\ \A y \in T : y <= b - n
    BY <1>1, <1>2
  <1> QED  BY <1>3

\* A set that contains 0 and n + 1 with each n contains the naturals.
LEMMA SetInduction ==
  ASSUME NEW S, 0 \in S, \A n \in Nat : n \in S => n + 1 \in S
  PROVE  \A n \in Nat : n \in S
  <1> SUFFICES ASSUME Nat \ S # {} PROVE FALSE
    OBVIOUS
  <1>1. PICK x \in Nat \ S : \A y \in Nat \ S : x <= y
    BY LeastNat
  <1>2. x # 0
    BY <1>1
  <1>3. x - 1 \in Nat /\ x - 1 \in S
    BY <1>1, <1>2
  <1> QED  BY <1>1, <1>3

-----------------------------------------------------------------------------
(* Remainders. *)

LEMMA DivMod ==
  ASSUME NEW c \in Nat \ {0}, NEW a \in Nat
  PROVE  /\ a % c \in 0 .. c - 1
         /\ a \div c \in Int
         /\ a = c * (a \div c) + (a % c)
  BY SMT

LEMMA MulStep ==
  ASSUME NEW c \in Nat \ {0}, NEW p \in Int, NEW q \in Int, p < q
  PROVE  c * p + c <= c * q
  <1>1. c * (q - p - 1) >= 0
    OBVIOUS
  <1>2. c * (q - p - 1) = c * q - c * p - c
    OBVIOUS
  <1>3. c * q \in Int /\ c * p \in Int
    OBVIOUS
  <1> QED  BY <1>1, <1>2, <1>3

LEMMA ModUnique ==
  ASSUME NEW c \in Nat \ {0}, NEW a \in Nat, NEW q \in Int, NEW r \in 0 .. c - 1,
         a = c * q + r
  PROVE  a % c = r
  <1>1. PICK q0 \in Int, r0 \in 0 .. c - 1 : r0 = a % c /\ a = c * q0 + r0
    BY DivMod
  <1>2. c * q0 \in Int /\ c * q \in Int
    BY <1>1
  <1>3. ~(q0 < q)
    BY <1>1, <1>2, MulStep
  <1>4. ~(q < q0)
    BY <1>1, <1>2, MulStep
  <1> QED  BY <1>1, <1>2, <1>3, <1>4

LEMMA DivUnique ==
  ASSUME NEW c \in Nat \ {0}, NEW a \in Nat, NEW q \in Int, NEW r \in 0 .. c - 1,
         a = c * q + r
  PROVE  a \div c = q
  <1>1. PICK q0 \in Int, r0 \in 0 .. c - 1 : q0 = a \div c /\ a = c * q0 + r0
    BY DivMod
  <1>2. c * q0 \in Int /\ c * q \in Int
    BY <1>1
  <1>3. ~(q0 < q)
    BY <1>1, <1>2, MulStep
  <1>4. ~(q < q0)
    BY <1>1, <1>2, MulStep
  <1> QED  BY <1>1, <1>3, <1>4

\* The remainder of a + k in terms of that of a, for a step of at most one turn.
LEMMA ModShift ==
  ASSUME NEW c \in Nat \ {0}, NEW a \in Nat, NEW k \in 0 .. c
  PROVE  (a + k) % c = IF (a % c) + k < c THEN (a % c) + k ELSE (a % c) + k - c
  <1>1. PICK q \in Int, r \in 0 .. c - 1 : r = a % c /\ a = c * q + r
    BY DivMod
  <1>2. c * q \in Int /\ c * (q + 1) = c * q + c
    BY <1>1
  <1>3. CASE r + k < c
    <2>1. a + k = c * q + (r + k) /\ r + k \in 0 .. c - 1
      BY <1>1, <1>2, <1>3
    <2> QED  BY <2>1, <1>1, <1>3, ModUnique
  <1>4. CASE ~(r + k < c)
    <2>1. a + k = c * (q + 1) + (r + k - c) /\ r + k - c \in 0 .. c - 1
      BY <1>1, <1>2, <1>4
    <2>2. a + k \in Nat /\ q + 1 \in Int
      OBVIOUS
    <2>3. (a + k) % c = r + k - c
      BY <2>1, <2>2, ModUnique
    <2> QED  BY <2>3, <1>1, <1>4
  <1> QED  BY <1>3, <1>4

\* Two counter values less than a turn apart have different remainders.
LEMMA ModApart ==
  ASSUME NEW c \in Nat \ {0}, NEW a \in Nat, NEW b \in Nat, a < b, b - a < c
  PROVE  a % c # b % c
  <1>1. a % c \in 0 .. c - 1
    BY DivMod
  <1>2. b = a + (b - a) /\ b - a \in 0 .. c
    OBVIOUS
  <1>3. (a + (b - a)) % c = IF (a % c) + (b - a) < c THEN (a % c) + (b - a)
                                                    ELSE (a % c) + (b - a) - c
    BY <1>2, ModShift
  <1> QED  BY <1>1, <1>2, <1>3

-----------------------------------------------------------------------------
(* Linked lists.  D is the set of nodes of the list that begins at hd and  *)
(* goes on through lk until nl; dp numbers its n nodes from its end.       *)

IsList(D, hd, lk, dp, n, nl) ==
    /\ n \in Nat /\ nl \notin D
    /\ \A p \in D : dp[p] \in 1 .. n
    /\ \A p, q \in D : dp[p] = dp[q] => p = q
    /\ n = 0 => hd = nl
    /\ n > 0 => hd \in D /\ dp[hd] = n
    /\ \A p \in D : dp[p] = 1 => lk[p] = nl
    /\ \A p \in D : dp[p] > 1 => lk[p] \in D /\ dp[lk[p]] = dp[p] - 1

\* Nothing off the list matters.
LEMMA ListKept ==
  ASSUME NEW D, NEW hd, NEW lk, NEW dp, NEW n, NEW nl, IsList(D, hd, lk, dp, n, nl),
         NEW lk1, NEW dp1, \A p \in D : lk1[p] = lk[p] /\ dp1[p] = dp[p]
  PROVE  IsList(D, hd, lk1, dp1, n, nl)
  BY DEF IsList

LEMMA ListPop ==
  ASSUME NEW D, NEW hd, NEW lk, NEW dp, NEW n, NEW nl, IsList(D, hd, lk, dp, n, nl), hd # nl
  PROVE  IsList(D \ {hd}, lk[hd], lk, dp, n - 1, nl)
  <1>1. n \in Nat \ {0} /\ hd \in D /\ dp[hd] = n
    BY DEF IsList
  <1>2. \A p \in D \ {hd} : dp[p] \in 1 .. n - 1
    BY <1>1 DEF IsList
  <1>3. \A p \in D \ {hd} : dp[p] > 1 => lk[p] \in D \ {hd} /\ dp[lk[p]] = dp[p] - 1
    BY <1>1, <1>2 DEF IsList
  <1>4. n - 1 > 0 => lk[hd] \in D \ {hd} /\ dp[lk[hd]] = n - 1
    BY <1>1 DEF IsList
  <1>5. n - 1 = 0 => lk[hd] = nl
    BY <1>1 DEF IsList
  <1> QED  BY <1>1, <1>2, <1>3, <1>4, <1>5 DEF IsList

LEMMA ListPush ==
  ASSUME NEW D, NEW hd, NEW lk, NEW dp, NEW n, NEW nl, IsList(D, hd, lk, dp, n, nl),
         NEW a, a # nl, a \notin D, lk[a] = hd,
         NEW dp1, \A p \in D : dp1[p] = dp[p], dp1[a] = n + 1
  PROVE  IsList(D \cup {a}, a, lk, dp1, n + 1, nl)
  <1>1. n \in Nat /\ nl \notin D \cup {a}
    BY DEF IsList
  <1>2. \A p \in D : dp1[p] \in 1 .. n
    BY DEF IsList
  <1>3. \A p \in D \cup {a} : dp1[p] \in 1 .. n + 1
    BY <1>1, <1>2
  <1>4. \A p, q \in D \cup {a} : dp1[p] = dp1[q] => p = q
    BY <1>1, <1>2 DEF IsList
  <1>5. \A p \in D \cup {a} : dp1[p] = 1 => lk[p] = nl
    BY <1>1, <1>2 DEF IsList
  <1>6. \A p \in D \cup {a} : dp1[p] > 1 => lk[p] \in D \cup {a} /\ dp1[lk[p]] = dp1[p] - 1
    BY <1>1, <1>2 DEF IsList
  <1> QED  BY <1>1, <1>3, <1>4, <1>5, <1>6 DEF IsList

\* There is a node at every depth.
LEMMA ListDepths ==
  ASSUME NEW D, NEW hd, NEW lk, NEW dp, NEW n, NEW nl, IsList(D, hd, lk, dp, n, nl)
  PROVE  \A i \in 0 .. n - 1 : \E p \in D : dp[p] = n - i
  <1> DEFINE S == {i \in Nat : i < n => \E p \in D : dp[p] = n - i}
  <1>1. 0 \in S
    BY DEF IsList
  <1>2. ASSUME NEW i \in Nat, i \in S PROVE i + 1 \in S
    <2>1. CASE i + 1 < n
      <3>1. n \in Nat
        BY DEF IsList
      <3>2. PICK p \in D : dp[p] = n - i
        BY <1>2, <2>1, <3>1
      <3>3. lk[p] \in D /\ dp[lk[p]] = n - (i + 1)
        BY <2>1, <3>1, <3>2 DEF IsList
      <3> QED  BY <3>3
    <2>2. CASE ~(i + 1 < n)
      BY <2>2
    <2> QED  BY <2>1, <2>2
  <1> HIDE DEF S
  <1>3. \A i \in Nat : i \in S
    BY <1>1, <1>2, SetInduction
  <1>4. n \in Nat
    BY DEF IsList
  <1> QED  BY <1>3, <1>4 DEF S

LEMMA ListSize ==
  ASSUME NEW D, NEW hd, NEW lk, NEW dp, NEW n, NEW nl, IsList(D, hd, lk, dp, n, nl)
  PROVE  IsFiniteSet(D) /\ Cardinality(D) = n
  <1> DEFINE f == [p \in D |-> dp[p]]
  <1>1. n \in Nat /\ f \in [D -> 1 .. n]
    BY DEF IsList
  <1>2. \A p, q \in D : f[p] = f[q] => p = q
    BY DEF IsList
  <1>3. \A j \in 1 .. n : \E p \in D : f[p] = j
    <2>1. ASSUME NEW j \in 1 .. n PROVE \E p \in D : f[p] = j
      <3>1. n - j \in 0 .. n - 1 /\ n - (n - j) = j
        BY <1>1
      <3> QED  BY <3>1, ListDepths
    <2> QED  BY <2>1
  <1> HIDE DEF f
  <1>4. f \in Injection(D, 1 .. n) /\ f \in Surjection(D, 1 .. n)
    BY <1>1, <1>2, <1>3 DEF Injection, Surjection, IsInjective
  <1>5. IsFiniteSet(1 .. n) /\ Cardinality(1 .. n) = n
    BY <1>1, FS_Interval
  <1> QED  BY <1>4, <1>5, FS_Injection

\* The nodes a walk along the links meets, step by step.
WalkFun(hd, lk, nl, N) ==
    CHOOSE f : f = [i \in 0 .. N |-> IF i = 0 THEN hd ELSE IF f[i - 1] = nl THEN nl ELSE lk[f[i - 1]]]

\* A walk meets the nodes of the list, and only them.
LEMMA ListWalk ==
  ASSUME NEW D, NEW hd, NEW lk, NEW dp, NEW n, NEW nl, IsList(D, hd, lk, dp, n, nl),
         NEW N \in Nat, n <= N
  PROVE  {WalkFun(hd, lk, nl, N)[i] : i \in 0 .. N} \ {nl} = D
  <1> DEFINE nth == WalkFun(hd, lk, nl, N)
  <1> DEFINE Is(f) == f = [i \in 0 .. N |-> IF i = 0 THEN hd ELSE IF f[i - 1] = nl THEN nl
                                                                 ELSE lk[f[i - 1]]]
             At(i) == CHOOSE p \in D : dp[p] = n - i
             g == [i \in 0 .. N |-> IF i < n THEN At(i) ELSE nl]
  <1>1. n \in Nat /\ nl \notin D
    BY DEF IsList
  <1>2. \A i \in 0 .. n - 1 : At(i) \in D /\ dp[At(i)] = n - i
    BY ListDepths
  <1> HIDE DEF At
  <1>3. \A i \in 0 .. N : (i < n => g[i] \in D /\ dp[g[i]] = n - i) /\ (i >= n => g[i] = nl)
    BY <1>1, <1>2
  <1> HIDE DEF g
  <1>4. ASSUME NEW i \in 0 .. N
        PROVE  g[i] = IF i = 0 THEN hd ELSE IF g[i - 1] = nl THEN nl ELSE lk[g[i - 1]]
    <2>1. CASE i = 0
      BY <1>1, <1>3, <2>1 DEF IsList
    <2>2. CASE i > 0 /\ i < n
      <3>1. i - 1 \in 0 .. N /\ i - 1 < n /\ g[i - 1] \in D /\ dp[g[i - 1]] = n - (i - 1)
        BY <1>1, <1>3, <2>2
      <3>2. g[i] \in D /\ dp[g[i]] = n - i
        BY <1>3, <2>2
      <3>3. lk[g[i - 1]] \in D /\ dp[lk[g[i - 1]]] = n - i
        <4>1. \A a \in D : dp[a] = n - (i - 1) => lk[a] \in D /\ dp[lk[a]] = n - i
          BY <1>1, <2>2 DEF IsList
        <4> QED  BY <3>1, <4>1
      <3>4. g[i] = lk[g[i - 1]]
        BY <3>2, <3>3 DEF IsList
      <3>5. g[i - 1] # nl
        BY <1>1, <3>1
      <3> QED  BY <2>2, <3>4, <3>5
    <2>3. CASE i > 0 /\ i = n
      <3>1. i - 1 \in 0 .. N /\ i - 1 < n /\ g[i - 1] \in D /\ dp[g[i - 1]] = 1
        BY <1>1, <1>3, <2>3
      <3> QED  BY <1>1, <1>3, <2>3, <3>1 DEF IsList
    <2>4. CASE i > 0 /\ i > n
      BY <1>1, <1>3, <2>4
    <2> QED  BY <1>1, <2>1, <2>2, <2>3, <2>4
  <1>5. Is(g)
    BY <1>4 DEF g
  <1>6. Is(nth)
    <2> HIDE DEF Is
    <2>1. nth = CHOOSE f : Is(f)
      BY Zenon DEF Is, WalkFun
    <2> QED  BY <1>5, <2>1, Zenon
  <1> HIDE DEF nth
  <1> DEFINE W(i) == IF i = 0 THEN hd ELSE IF nth[i - 1] = nl THEN nl ELSE lk[nth[i - 1]]
  <1>w. \A i \in 0 .. N : nth[i] = W(i)
    <2>1. nth = [i \in 0 .. N |-> W(i)]
      BY <1>6
    <2> HIDE DEF W
    <2> QED  BY <2>1
  <1>7. \A i \in Nat : i \in {j \in Nat : j <= N => nth[j] = g[j]}
    <2> DEFINE S == {j \in Nat : j <= N => nth[j] = g[j]}
    <2>1. 0 \in S
      <3>1. 0 \in 0 .. N
        OBVIOUS
      <3> QED  BY <1>4, <1>w, <3>1
    <2>2. ASSUME NEW j \in Nat, j \in S PROVE j + 1 \in S
      <3>1. CASE j + 1 <= N
        <4>1. nth[j] = g[j] /\ j + 1 \in 0 .. N /\ (j + 1) - 1 = j /\ j + 1 # 0
          BY <2>2, <3>1
        <4>2. nth[j + 1] = IF nth[j] = nl THEN nl ELSE lk[nth[j]]
          BY <1>w, <4>1
        <4>3. g[j + 1] = IF g[j] = nl THEN nl ELSE lk[g[j]]
          BY <1>4, <4>1
        <4> QED  BY <4>1, <4>2, <4>3
      <3> QED  BY <3>1
    <2> HIDE DEF S
    <2>3. \A i \in Nat : i \in S
      BY <2>1, <2>2, SetInduction
    <2> QED  BY <2>3 DEF S
  <1>8. \A i \in 0 .. N : nth[i] = g[i]
    BY <1>7
  <1>9. ASSUME NEW p \in D PROVE \E i \in 0 .. N : nth[i] = p
    <2>1. n - dp[p] \in 0 .. N /\ n - dp[p] < n /\ n - (n - dp[p]) = dp[p]
      BY <1>1 DEF IsList
    <2>2. g[n - dp[p]] \in D /\ dp[g[n - dp[p]]] = dp[p]
      BY <1>3, <2>1
    <2> QED  BY <1>8, <2>1, <2>2 DEF IsList
  <1>10. \A i \in 0 .. N : nth[i] \in D \cup {nl}
    BY <1>1, <1>3, <1>8
  <1>11. {nth[i] : i \in 0 .. N} \ {nl} = D
    BY <1>1, <1>9, <1>10
  <1> QED  BY <1>11 DEF nth
=============================================================================
