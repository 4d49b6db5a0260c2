------------------------------ MODULE DataLemmas -------------------------------
(* Facts that the proofs about several components share: what the operators on *)
(* versioned items return for histories without gaps, sums over finite sets,   *)
(* and the first members of a set of numbers.                                  *)
EXTENDS VersionedItems, Integers, FiniteSets, FiniteSetsExt, FiniteSetTheorems,
        WellFoundedInduction, TLAPS

\* get_current_version of a history without gaps is its length.
LEMMA CurrentVersionIsLength ==
    ASSUME NEW s, NEW n \in Nat, DOMAIN s = 1 .. n
    PROVE  CurrentVersion(s) = n
<1>1. CASE n = 0
  BY <1>1 DEF CurrentVersion
<1>2. CASE n # 0
  <2>1. n \in DOMAIN s /\ \A u \in DOMAIN s : u <= n
    BY <1>2
  <2>2. \A v \in DOMAIN s : (\A u \in DOMAIN s : u <= v) => v = n
    BY <2>1
  <2>3. (CHOOSE v \in DOMAIN s : \A u \in DOMAIN s : u <= v) = n
    BY <2>1, <2>2
  <2>. QED  BY <1>2, <2>1, <2>3 DEF CurrentVersion
<1>. QED  BY <1>1, <1>2

\* A stale or paged read of a history without gaps is one of its prefixes.
LEMMA ViewIsPrefix ==
    ASSUME NEW n \in Nat, NEW s, DOMAIN s = 1 .. n, NEW k \in Nat
    PROVE  View(s, k) = [v \in 1 .. (IF k <= n THEN k ELSE n) |-> s[v]]
<1>1. {u \in DOMAIN s : u <= k} = 1 .. (IF k <= n THEN k ELSE n)
  OBVIOUS
<1>. QED  BY <1>1 DEF View

\* The last version that a stale read of a history returns.
LEMMA VersionOfView ==
    ASSUME NEW n \in Nat, NEW s, DOMAIN s = 1 .. n, NEW k \in Nat
    PROVE  LET b == CurrentVersion(View(s, k)) IN
           b \in Nat /\ b <= n /\ View(s, k) = View(s, b)
<1> DEFINE b == IF k <= n THEN k ELSE n
<1>1. b \in Nat /\ b <= n
  OBVIOUS
<1>2. View(s, k) = [v \in 1 .. b |-> s[v]]
  <2>1. View(s, k) = [v \in 1 .. (IF k <= n THEN k ELSE n) |-> s[v]]
    BY ONLY n \in Nat, DOMAIN s = 1 .. n, k \in Nat, ViewIsPrefix, ZenonT(30)
  <2>. QED  BY <2>1, ZenonT(30)
<1>3. View(s, b) = [v \in 1 .. b |-> s[v]]
  <2> HIDE DEF b
  <2>1. (IF b <= n THEN b ELSE n) = b
    BY <1>1
  <2>2. View(s, b) = [v \in 1 .. (IF b <= n THEN b ELSE n) |-> s[v]]
    BY <1>1, ViewIsPrefix, Zenon
  <2>. QED  BY <2>1, <2>2, Zenon
<1>4. CurrentVersion(View(s, k)) = b
  <2> DEFINE h == [v \in 1 .. b |-> s[v]]
  <2>1. DOMAIN h = 1 .. b
    OBVIOUS
  <2>2. CurrentVersion(h) = b
    <3> HIDE DEF h, b
    <3>. QED  BY <2>1, <1>1, CurrentVersionIsLength
  <2>. QED  BY <2>2, <1>2
<1>. QED  BY <1>1, <1>2, <1>3, <1>4

\* A put at a version that was read, plus one, leaves no gap.
LEMMA PutLeavesNoGap ==
    ASSUME NEW n \in Nat, NEW s, DOMAIN s = 1 .. n, NEW b \in Nat, b <= n, NEW e
    PROVE  LET h == WithItem(s, b + 1, e) IN
           /\ DOMAIN h = 1 .. CurrentVersion(h)
           /\ CurrentVersion(h) \in Nat /\ n <= CurrentVersion(h)
           /\ h[b + 1] = e
           /\ \A v \in DOMAIN h : v = b + 1 \/ (v \in DOMAIN s /\ h[v] = s[v])
<1> DEFINE h == WithItem(s, b + 1, e)
           m == IF b = n THEN n + 1 ELSE n
<1>1. m \in Nat /\ n <= m
  OBVIOUS
<1>2. DOMAIN h = 1 .. m
  BY DEF WithItem
<1>3. CurrentVersion(h) = m
  <2> HIDE DEF h, m
  <2>. QED  BY <1>1, <1>2, CurrentVersionIsLength
<1>4. h[b + 1] = e
  BY DEF WithItem
<1>5. \A v \in DOMAIN h : v = b + 1 \/ (v \in DOMAIN s /\ h[v] = s[v])
  BY DEF WithItem
<1> HIDE DEF h, m
<1>. QED  BY <1>1, <1>2, <1>3, <1>4, <1>5 DEF h

--------------------------------------------------------------------------------
(* Sums over finite sets.  MapThenSumSet is a function that is defined by      *)
(* recursion on the subsets of a set; what it returns is shown by induction on *)
(* their sizes.                                                                *)

\* A set of numbers with 0 and the successors of its members has all of them.
LEMMA Induction ==
    ASSUME NEW Q \in SUBSET Nat, 0 \in Q, \A n \in Q : n + 1 \in Q
    PROVE  Q = Nat
<1> DEFINE T == Nat \ Q
<1> SUFFICES ASSUME T # {} PROVE FALSE
  OBVIOUS
<1>1. PICK m \in T : \A k \in T : ~ (<<k, m>> \in OpToRel(<, Nat))
  BY NatLessThanWellFounded, WFMin
<1>2. \A k \in T : ~ (k < m)
  BY <1>1 DEF OpToRel
<1>3. m \in Nat /\ m # 0 /\ m \notin Q
  OBVIOUS
<1>6. m - 1 \in Nat /\ m - 1 < m /\ (m - 1) + 1 = m
  BY <1>3
<1>4. m - 1 \in Q
  BY <1>2, <1>6
<1>5. (m - 1) + 1 \in Q
  BY <1>4
<1>. QED  BY <1>3, <1>5, <1>6

\* g sums f over the subsets of S, one member after the other.
Picked(s) == CHOOSE x \in s : TRUE
SumsOver(f, S, g) ==
    g = [s \in SUBSET S |-> IF s = {} THEN 0 ELSE f[Picked(s)] + g[s \ {Picked(s)}]]

\* A nonempty finite set has one member less without the one that is picked.
LEMMA PickedIs ==
    ASSUME NEW S, IsFiniteSet(S), NEW s \in SUBSET S
    PROVE  /\ IsFiniteSet(s) /\ Cardinality(s) \in Nat /\ (Cardinality(s) = 0 <=> s = {})
           /\ s # {} => /\ Picked(s) \in s /\ s \ {Picked(s)} \in SUBSET S
                        /\ Cardinality(s \ {Picked(s)}) = Cardinality(s) - 1
<1>1. IsFiniteSet(s)
  BY FS_Subset
<1>2. Cardinality(s) \in Nat /\ (Cardinality(s) = 0 <=> s = {})
  BY <1>1, FS_CardinalityType, FS_EmptySet
<1>3. s # {} => Picked(s) \in s
  BY DEF Picked
<1>4. s # {} => Cardinality(s \ {Picked(s)}) = Cardinality(s) - 1
  BY <1>1, <1>3, FS_RemoveElement
<1>. QED  BY <1>1, <1>2, <1>3, <1>4

\* There is such a function for every finite set.
LEMMA SumsExist == ASSUME NEW S, IsFiniteSet(S), NEW f PROVE \E g : SumsOver(f, S, g)
<1> DEFINE Fits(g, s) == g[s] = IF s = {} THEN 0 ELSE f[Picked(s)] + g[s \ {Picked(s)}]
           FitsTo(g, n) == \A s \in SUBSET S : Cardinality(s) <= n => Fits(g, s)
           IsFun(g) == g = [s \in SUBSET S |-> g[s]]
           Q == {n \in Nat : \E g : IsFun(g) /\ FitsTo(g, n)}
<1>1. 0 \in Q
  <2> DEFINE z == [s \in SUBSET S |-> 0]
  <2>1. IsFun(z)
    OBVIOUS
  <2>2. ASSUME NEW s \in SUBSET S, Cardinality(s) <= 0 PROVE Fits(z, s)
    <3>1. Cardinality(s) \in Nat /\ (Cardinality(s) = 0 <=> s = {})
      BY PickedIs
    <3>2. s = {}
      BY <2>2, <3>1
    <3>. QED  BY <3>2
  <2>3. IsFun(z) /\ FitsTo(z, 0)
    BY <2>1, <2>2
  <2>. QED  BY <2>3
<1>2. ASSUME NEW n \in Q PROVE n + 1 \in Q
  <2>1. PICK g : IsFun(g) /\ FitsTo(g, n)
    OBVIOUS
  <2> DEFINE h == [s \in SUBSET S |-> IF Cardinality(s) <= n THEN g[s] ELSE f[Picked(s)] + g[s \ {Picked(s)}]]
  <2>2. IsFun(h)
    OBVIOUS
  <2>3. ASSUME NEW s \in SUBSET S, Cardinality(s) <= n + 1 PROVE Fits(h, s)
    <3>1. /\ IsFiniteSet(s) /\ Cardinality(s) \in Nat /\ (Cardinality(s) = 0 <=> s = {}) /\ n \in Nat
          /\ s # {} => /\ Picked(s) \in s /\ s \ {Picked(s)} \in SUBSET S
                       /\ Cardinality(s \ {Picked(s)}) = Cardinality(s) - 1
      BY PickedIs
    <3>2. CASE s = {}
      <4>1. Cardinality(s) <= n
        BY <3>1, <3>2
      <4>2. Fits(g, s)
        BY <2>1, <4>1
      <4>3. h[s] = g[s]
        BY <4>1
      <4> HIDE DEF h
      <4>. QED  BY <3>2, <4>2, <4>3
    <3>3. CASE s # {}
      <4>1. h[s \ {Picked(s)}] = g[s \ {Picked(s)}]
        BY <2>3, <3>1, <3>3
      <4>2. h[s] = f[Picked(s)] + g[s \ {Picked(s)}]
        <5>1. CASE Cardinality(s) <= n
          <6>1. Fits(g, s) /\ h[s] = g[s]
            BY <2>1, <5>1
          <6>. QED  BY <3>3, <6>1
        <5>2. CASE ~ (Cardinality(s) <= n)
          BY <5>2
        <5>. QED  BY <5>1, <5>2
      <4> HIDE DEF h
      <4>. QED  BY <3>3, <4>1, <4>2
    <3>. QED  BY <3>2, <3>3
  <2> HIDE DEF h, IsFun, Fits
  <2>4. n + 1 \in Nat /\ IsFun(h) /\ FitsTo(h, n + 1)
    BY <2>2, <2>3
  <2>. QED  BY <2>4
<1> HIDE DEF Q
<1>3. Q \in SUBSET Nat
  BY DEF Q
<1>4. Q = Nat
  BY <1>1, <1>2, <1>3, Induction
<1>5. Cardinality(S) \in Q
  BY <1>4, FS_CardinalityType
<1>6. PICK g : IsFun(g) /\ FitsTo(g, Cardinality(S))
  BY <1>5 DEF Q
<1>7. ASSUME NEW s \in SUBSET S PROVE Fits(g, s)
  <2>1. Cardinality(s) <= Cardinality(S)
    BY FS_Subset
  <2>. QED  BY <1>6, <2>1
<1>8. SumsOver(f, S, g)
  BY <1>6, <1>7 DEF SumsOver
<1>. QED  BY <1>8

\* Two such functions agree where both are defined.
LEMMA SumsAgree ==
    ASSUME NEW S, IsFiniteSet(S), NEW f, NEW g, SumsOver(f, S, g),
           NEW T, IsFiniteSet(T), NEW e, NEW h, SumsOver(e, T, h),
           \A x \in S \cap T : e[x] = f[x]
    PROVE  \A s \in SUBSET (S \cap T) : g[s] = h[s]
<1> DEFINE Q == {n \in Nat : \A s \in SUBSET (S \cap T) : Cardinality(s) <= n => g[s] = h[s]}
<1>1. ASSUME NEW s \in SUBSET (S \cap T)
      PROVE  /\ Cardinality(s) \in Nat /\ (Cardinality(s) = 0 <=> s = {})
             /\ s # {} => /\ Picked(s) \in S \cap T /\ s \ {Picked(s)} \in SUBSET (S \cap T)
                          /\ Cardinality(s \ {Picked(s)}) = Cardinality(s) - 1
             /\ g[s] = (IF s = {} THEN 0 ELSE f[Picked(s)] + g[s \ {Picked(s)}])
             /\ h[s] = (IF s = {} THEN 0 ELSE e[Picked(s)] + h[s \ {Picked(s)}])
  <2>1. s \in SUBSET S /\ s \in SUBSET T
    OBVIOUS
  <2>2. g[s] = IF s = {} THEN 0 ELSE f[Picked(s)] + g[s \ {Picked(s)}]
    BY <2>1 DEF SumsOver
  <2>3. h[s] = IF s = {} THEN 0 ELSE e[Picked(s)] + h[s \ {Picked(s)}]
    BY <2>1 DEF SumsOver
  <2>. QED  BY <2>1, <2>2, <2>3, PickedIs
<1>2. 0 \in Q
  <2>1. ASSUME NEW s \in SUBSET (S \cap T), Cardinality(s) <= 0 PROVE g[s] = h[s]
    <3>1. Cardinality(s) \in Nat /\ (Cardinality(s) = 0 <=> s = {})
      BY <1>1
    <3>2. s = {}
      BY <2>1, <3>1
    <3>3. g[s] = 0 /\ h[s] = 0
      BY <1>1, <3>2
    <3>. QED  BY <3>3
  <2>. QED  BY <2>1
<1>3. ASSUME NEW n \in Q PROVE n + 1 \in Q
  <2>1. ASSUME NEW s \in SUBSET (S \cap T), Cardinality(s) <= n + 1 PROVE g[s] = h[s]
    <3>1. CASE s = {}
      BY <1>1, <3>1
    <3>2. CASE s # {}
      <4> DEFINE c == Picked(s)
      <4>1. /\ Cardinality(s) \in Nat /\ c \in S \cap T /\ s \ {c} \in SUBSET (S \cap T)
            /\ Cardinality(s \ {c}) = Cardinality(s) - 1
            /\ g[s] = f[c] + g[s \ {c}] /\ h[s] = e[c] + h[s \ {c}]
        BY <1>1, <3>2
      <4> HIDE DEF c
      <4>2. Cardinality(s \ {c}) <= n
        BY <2>1, <4>1
      <4>3. g[s \ {c}] = h[s \ {c}] /\ e[c] = f[c]
        BY <4>1, <4>2
      <4>. QED  BY <4>1, <4>3
    <3>. QED  BY <3>1, <3>2
  <2>. QED  BY <2>1
<1> HIDE DEF Q
<1>4. Q \in SUBSET Nat
  BY DEF Q
<1>5. Q = Nat
  BY <1>2, <1>3, <1>4, Induction
<1>6. ASSUME NEW s \in SUBSET (S \cap T) PROVE g[s] = h[s]
  <2>1. Cardinality(s) \in Nat
    BY <1>1
  <2>2. Cardinality(s) \in Q /\ Cardinality(s) <= Cardinality(s)
    BY <1>5, <2>1
  <2>. QED  BY <2>2 DEF Q
<1>. QED  BY <1>6

\* What is summed is a number, whichever member is taken first.
LEMMA SumsAdd ==
    ASSUME NEW S, IsFiniteSet(S), NEW f, NEW g, SumsOver(f, S, g), \A x \in S : f[x] \in Int
    PROVE  \A s \in SUBSET S : g[s] \in Int /\ \A x \in s : g[s] = f[x] + g[s \ {x}]
<1> DEFINE Q == {n \in Nat : \A s \in SUBSET S : Cardinality(s) <= n =>
                                 g[s] \in Int /\ \A x \in s : g[s] = f[x] + g[s \ {x}]}
<1>1. ASSUME NEW s \in SUBSET S
      PROVE  /\ IsFiniteSet(s) /\ Cardinality(s) \in Nat /\ (Cardinality(s) = 0 <=> s = {})
             /\ s # {} => /\ Picked(s) \in s /\ s \ {Picked(s)} \in SUBSET S
                          /\ Cardinality(s \ {Picked(s)}) = Cardinality(s) - 1
             /\ g[s] = IF s = {} THEN 0 ELSE f[Picked(s)] + g[s \ {Picked(s)}]
  <2>1. g[s] = IF s = {} THEN 0 ELSE f[Picked(s)] + g[s \ {Picked(s)}]
    BY DEF SumsOver
  <2>. QED  BY <2>1, PickedIs
<1>2. 0 \in Q
  <2>1. ASSUME NEW s \in SUBSET S, Cardinality(s) <= 0
        PROVE  g[s] \in Int /\ \A x \in s : g[s] = f[x] + g[s \ {x}]
    <3>1. Cardinality(s) \in Nat /\ (Cardinality(s) = 0 <=> s = {})
      BY <1>1
    <3>2. s = {}
      BY <2>1, <3>1
    <3>3. g[s] = 0
      BY <1>1, <3>2
    <3>. QED  BY <3>2, <3>3
  <2>. QED  BY <2>1
<1>3. ASSUME NEW n \in Q PROVE n + 1 \in Q
  <2>1. ASSUME NEW s \in SUBSET S, Cardinality(s) <= n + 1, s # {}
        PROVE  g[s] \in Int /\ \A x \in s : g[s] = f[x] + g[s \ {x}]
    <3> DEFINE c == Picked(s)
               r == s \ {c}
    <3>1. /\ c \in s /\ r \in SUBSET S /\ Cardinality(r) <= n /\ g[s] = f[c] + g[r]
      BY <1>1, <2>1
    <3>2. g[r] \in Int /\ \A x \in r : g[r] = f[x] + g[r \ {x}]
      BY <3>1
    <3>3. g[s] \in Int
      BY <3>1, <3>2
    <3>4. ASSUME NEW x \in s, x # c PROVE g[s] = f[x] + g[s \ {x}]
      <4>1. x \in r /\ g[r] = f[x] + g[r \ {x}]
        BY <3>2, <3>4
      <4>2. s \ {x} \in SUBSET S /\ Cardinality(s \ {x}) <= n
        <5>1. IsFiniteSet(s) /\ Cardinality(s) \in Nat
          BY <1>1
        <5>2. Cardinality(s \ {x}) = Cardinality(s) - 1
          BY <5>1, FS_RemoveElement
        <5>. QED  BY <2>1, <5>1, <5>2
      <4>3. c \in s \ {x} /\ g[s \ {x}] = f[c] + g[(s \ {x}) \ {c}]
        BY <3>1, <3>4, <4>2
      <4>4. (s \ {x}) \ {c} = r \ {x} /\ r \ {x} \in SUBSET S
        OBVIOUS
      <4>5. g[r \ {x}] \in Int
        <5>1. IsFiniteSet(r) /\ Cardinality(r) \in Nat /\ Cardinality(r \ {x}) \in Nat
          BY <1>1, <3>1, <4>4
        <5>2. Cardinality(r \ {x}) <= Cardinality(r)
          BY <5>1, FS_Subset
        <5>3. Cardinality(r \ {x}) <= n
          BY <3>1, <5>1, <5>2
        <5>. QED  BY <4>4, <5>3
      <4>6. f[x] \in Int /\ f[c] \in Int
        BY <3>1
      <4>7. g[s \ {x}] = f[c] + g[r \ {x}]
        BY <4>3, <4>4
      <4> HIDE DEF c, r
      <4>. QED  BY <3>1, <4>1, <4>5, <4>6, <4>7
    <3>. QED  BY <3>1, <3>3, <3>4
  <2>2. ASSUME NEW s \in SUBSET S, s = {}
        PROVE  g[s] \in Int /\ \A x \in s : g[s] = f[x] + g[s \ {x}]
    <3>1. g[s] = 0
      BY <1>1, <2>2
    <3>. QED  BY <2>2, <3>1
  <2>. QED  BY <2>1, <2>2
<1> HIDE DEF Q
<1>4. Q \in SUBSET Nat
  BY DEF Q
<1>5. Q = Nat
  BY <1>2, <1>3, <1>4, Induction
<1>6. ASSUME NEW s \in SUBSET S
      PROVE  g[s] \in Int /\ \A x \in s : g[s] = f[x] + g[s \ {x}]
  <2>1. Cardinality(s) \in Nat
    BY <1>1
  <2>2. Cardinality(s) \in Q /\ Cardinality(s) <= Cardinality(s)
    BY <1>5, <2>1
  <2>. QED  BY <2>2 DEF Q
<1>. QED  BY <1>6

\* The sum of f over a finite set.
Total(f, S) == (CHOOSE g : SumsOver(f, S, g))[S]

\* It is what any function that sums f over a larger set returns.
LEMMA TotalIs ==
    ASSUME NEW T, IsFiniteSet(T), NEW f, NEW g, SumsOver(f, T, g), NEW S \in SUBSET T
    PROVE  g[S] = Total(f, S)
<1> DEFINE h == CHOOSE h : SumsOver(f, S, h)
<1>1. IsFiniteSet(S)
  BY FS_Subset
<1>2. SumsOver(f, S, h)
  BY <1>1, SumsExist
<1>3. S \cap T = S
  OBVIOUS
<1>4. Total(f, S) = h[S]
  BY DEF Total
<1> HIDE DEF h
<1>5. \A s \in SUBSET (S \cap T) : h[s] = g[s]
  BY <1>1, <1>2, SumsAgree
<1>. QED  BY <1>3, <1>4, <1>5

\* Only the values on the set matter.
LEMMA TotalSame ==
    ASSUME NEW S, IsFiniteSet(S), NEW f, NEW e, \A x \in S : f[x] = e[x]
    PROVE  Total(f, S) = Total(e, S)
<1>1. PICK g : SumsOver(f, S, g)
  BY SumsExist
<1>2. PICK h : SumsOver(e, S, h)
  BY SumsExist
<1>3. S \cap S = S /\ \A x \in S \cap S : e[x] = f[x]
  OBVIOUS
<1>4. \A s \in SUBSET (S \cap S) : g[s] = h[s]
  BY <1>1, <1>2, <1>3, SumsAgree
<1>5. g[S] = h[S]
  BY <1>3, <1>4
<1>. QED  BY <1>1, <1>2, <1>5, TotalIs

\* A sum of nothing is 0, and a member adds its value.
LEMMA TotalAdd ==
    ASSUME NEW S, IsFiniteSet(S), NEW f, \A x \in S : f[x] \in Int
    PROVE  /\ Total(f, S) \in Int
           /\ Total(f, {}) = 0
           /\ \A x \in S : Total(f, S) = f[x] + Total(f, S \ {x})
<1>1. PICK g : SumsOver(f, S, g)
  BY SumsExist
<1>2. \A s \in SUBSET S : g[s] = Total(f, s)
  BY <1>1, TotalIs
<1>3. \A s \in SUBSET S : g[s] \in Int /\ \A x \in s : g[s] = f[x] + g[s \ {x}]
  BY <1>1, SumsAdd
<1>4. g[{}] = 0
  BY <1>1 DEF SumsOver
<1>5. S \in SUBSET S /\ {} \in SUBSET S /\ \A x \in S : S \ {x} \in SUBSET S
  OBVIOUS
<1>. QED  BY <1>2, <1>3, <1>4, <1>5

--------------------------------------------------------------------------------
(* The first members of a set of numbers.                                      *)
Below(S, x) == {y \in S : y < x}
Firsts(n, S) == {x \in S : Cardinality(Below(S, x)) < n}

\* The sizes of a set and of its subsets.
LEMMA SubsetSize ==
    ASSUME NEW S, IsFiniteSet(S), NEW T \in SUBSET S
    PROVE  /\ IsFiniteSet(T) /\ Cardinality(T) \in Nat /\ Cardinality(S) \in Nat
           /\ Cardinality(T) <= Cardinality(S)
           /\ T # S => Cardinality(T) < Cardinality(S)
<1>1. IsFiniteSet(T) /\ Cardinality(T) <= Cardinality(S) /\ (Cardinality(S) = Cardinality(T) => S = T)
  BY FS_Subset
<1>2. Cardinality(T) \in Nat /\ Cardinality(S) \in Nat
  BY <1>1, FS_CardinalityType
<1>. QED  BY <1>1, <1>2

\* A set of numbers has a least one.
LEMMA LeastIs ==
    ASSUME NEW S \in SUBSET Nat, S # {}
    PROVE  \E m \in S : \A y \in S : m <= y
<1>1. PICK m \in S : \A y \in S : ~ (<<y, m>> \in OpToRel(<, Nat))
  BY NatLessThanWellFounded, WFMin
<1>2. \A y \in S : ~ (y < m)
  BY <1>1 DEF OpToRel
<1>. QED  BY <1>2

\* A finite one has a greatest: above it are fewest.
LEMMA GreatestIs ==
    ASSUME NEW S \in SUBSET Nat, IsFiniteSet(S), S # {}
    PROVE  \E m \in S : \A y \in S : m >= y
<1> DEFINE above(x) == {y \in S : y > x}
           sizes == {Cardinality(above(x)) : x \in S}
<1>1. \A x \in S : above(x) \in SUBSET S /\ IsFiniteSet(above(x)) /\ Cardinality(above(x)) \in Nat
  BY FS_Subset, FS_CardinalityType
<1>2. PICK least \in sizes : \A n \in sizes : least <= n
  <2>1. sizes \in SUBSET Nat /\ sizes # {}
    BY <1>1
  <2> HIDE DEF sizes
  <2>. QED  BY <2>1, LeastIs
<1>3. PICK m \in S : least = Cardinality(above(m))
  OBVIOUS
<1>4. ASSUME NEW y \in S, ~ (m >= y) PROVE FALSE
  <2>1. above(y) \in SUBSET above(m) /\ y \in above(m) /\ y \notin above(y)
    <3>1. y \in Nat /\ m \in Nat /\ y > m /\ ~ (y > y)
      BY <1>4
    <3>2. \A z \in S : z > y => z > m
      <4> TAKE z \in S
      <4>1. z \in Nat
        OBVIOUS
      <4>. QED  BY <3>1, <4>1
    <3>. QED  BY <3>1, <3>2
  <2>2. Cardinality(above(y)) \in sizes
    OBVIOUS
  <2> HIDE DEF above, sizes
  <2>3. Cardinality(above(y)) < Cardinality(above(m))
    BY <1>1, <2>1, SubsetSize
  <2>. QED  BY <1>1, <1>2, <1>3, <2>2, <2>3
<1>. QED  BY <1>4

\* The first n members of a set are below the others; they are n, or all.
LEMMA FirstsAre ==
    ASSUME NEW S \in SUBSET Nat, IsFiniteSet(S), NEW n \in Nat
    PROVE  /\ Firsts(n, S) \in SUBSET S /\ IsFiniteSet(Firsts(n, S))
           /\ \A x \in S : x \notin Firsts(n, S) => \A r \in Firsts(n, S) : r < x
           /\ Firsts(n, S) # S => Cardinality(Firsts(n, S)) = n
           /\ Cardinality(S) <= n => Firsts(n, S) = S
<1> DEFINE F == Firsts(n, S)
<1>1. F \in SUBSET S /\ F \in SUBSET Nat /\ \A x \in S : x \in F <=> Cardinality(Below(S, x)) < n
  BY DEF Firsts
<1>2. \A x \in S : Below(S, x) \in SUBSET S /\ IsFiniteSet(Below(S, x)) /\ Cardinality(Below(S, x)) \in Nat
  <2> TAKE x \in S
  <2>1. Below(S, x) \in SUBSET S
    BY DEF Below
  <2>. QED  BY <2>1, SubsetSize
<1>3. IsFiniteSet(F) /\ Cardinality(F) \in Nat /\ Cardinality(S) \in Nat
      /\ Cardinality(F) <= Cardinality(S) /\ (F # S => Cardinality(F) < Cardinality(S))
  <2> HIDE DEF F
  <2>. QED  BY <1>1, SubsetSize
<1> HIDE DEF F
<1>4. ASSUME NEW x \in S, x \notin F, NEW r \in F PROVE r < x
  <2> SUFFICES ASSUME x < r PROVE FALSE
    BY <1>1, <1>4
  <2>1. r \in S /\ Below(S, x) \in SUBSET Below(S, r)
    <3>1. r \in S /\ r \in Nat /\ x \in Nat
      BY <1>1, <1>4
    <3>2. \A y \in S : y < x => y < r
      <4> TAKE y \in S
      <4>1. y \in Nat
        OBVIOUS
      <4>. QED  BY <3>1, <4>1
    <3>. QED  BY <3>1, <3>2 DEF Below
  <2>2. Cardinality(Below(S, x)) <= Cardinality(Below(S, r))
    BY <1>2, <2>1, SubsetSize
  <2>. QED  BY <1>1, <1>2, <1>4, <2>1, <2>2
<1>5. Cardinality(F) <= n
  <2> SUFFICES ASSUME Cardinality(F) > n PROVE FALSE
    BY <1>3
  <2>1. F # {}
    BY <1>3, FS_EmptySet
  <2>2. PICK r \in F : \A y \in F : r >= y
    BY <1>1, <1>3, <2>1, GreatestIs
  <2>3. r \in S /\ F \ {r} \in SUBSET Below(S, r)
    BY <1>1, <2>2 DEF Below
  <2>4. Cardinality(F \ {r}) = Cardinality(F) - 1
    BY <1>3, FS_RemoveElement
  <2>5. Cardinality(F \ {r}) <= Cardinality(Below(S, r))
    BY <1>2, <2>3, SubsetSize
  <2>. QED  BY <1>1, <1>2, <1>3, <2>3, <2>4, <2>5
<1>6. ASSUME F # S PROVE Cardinality(F) = n
  <2>1. PICK x \in S \ F : \A y \in S \ F : x <= y
    <3>1. S \ F \in SUBSET Nat /\ S \ F # {}
      BY <1>1, <1>6
    <3>. QED  BY <3>1, LeastIs
  <2>2. Below(S, x) \in SUBSET F
    <3>1. \A y \in S : y < x => y \in F
      <4> SUFFICES ASSUME NEW y \in S, y < x, y \notin F PROVE FALSE
        OBVIOUS
      <4>1. y \in Nat /\ x \in Nat /\ x <= y
        BY <2>1
      <4>. QED  BY <4>1
    <3>. QED  BY <3>1 DEF Below
  <2>3. Cardinality(Below(S, x)) <= Cardinality(F) /\ ~ (Cardinality(Below(S, x)) < n)
    BY <1>1, <1>3, <2>1, <2>2, SubsetSize
  <2>. QED  BY <1>2, <1>3, <1>5, <2>1, <2>3
<1>7. Cardinality(S) <= n => F = S
  BY <1>3, <1>6
<1>. QED  BY <1>1, <1>3, <1>4, <1>6, <1>7 DEF F
================================================================================
