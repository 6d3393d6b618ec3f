----------------------------- MODULE FiniteSums -----------------------------
(***************************************************************************)
(* Sums over finite sets, for any number of elements: what taking one out  *)
(* leaves, what part of a set adds up to, and which values a sum depends   *)
(* on.  The ledger of TaskQueue and the bytes of MemStore are such sums.   *)
(* Induction is on a set of natural numbers, which needs no predicate as a *)
(* parameter.                                                              *)
(***************************************************************************)
EXTENDS Integers, FiniteSets, FiniteSetsExt, FiniteSetTheorems, WellFoundedInduction, TLAPS

\* A non-empty set of natural numbers has a least element.
LEMMA LeastExists ==
  ASSUME NEW S \in SUBSET Nat, S # {}
  PROVE  \E m \in S : \A k \in S : m <= k
<1>1. PICK m \in S : \A k \in S : <<k, m>> \notin OpToRel(<, Nat)
  BY WFMin, NatLessThanWellFounded, Zenon
<1>2. \A k \in S : ~(k < m)
  BY <1>1, Zenon DEF OpToRel
<1> QED BY <1>2

\* Induction on the natural numbers, of a property given as a set.
LEMMA Induction ==
  ASSUME NEW S, 0 \in S, \A n \in Nat : n \in S => n + 1 \in S
  PROVE  Nat \subseteq S
<1> DEFINE T == Nat \ S
<1> SUFFICES ASSUME T # {} PROVE FALSE
  OBVIOUS
<1>1. PICK m \in T : \A k \in T : m <= k
  BY LeastExists
<1>2. m # 0 /\ m - 1 \in Nat /\ m - 1 \notin T
  BY <1>1
<1> QED BY <1>2

\* Taking one element from a finite set leaves one less.
LEMMA OneLess ==
  ASSUME NEW s, IsFiniteSet(s), NEW x \in s
  PROVE  /\ IsFiniteSet(s \ {x})
         /\ Cardinality(s \ {x}) \in Nat
         /\ Cardinality(s) = Cardinality(s \ {x}) + 1
<1>1. IsFiniteSet(s \ {x}) /\ Cardinality(s \ {x}) \in Nat
  BY FS_RemoveElement, FS_CardinalityType
<1>2. Cardinality((s \ {x}) \cup {x}) = Cardinality(s \ {x}) + 1
  BY <1>1, FS_AddElement
<1>3. (s \ {x}) \cup {x} = s
  OBVIOUS
<1> QED BY <1>1, <1>2, <1>3

AnyOf(s) == CHOOSE x \in s : TRUE
FoldStep(f, g, s) == IF s = {} THEN 0 ELSE f[AnyOf(s)] + g[s \ {AnyOf(s)}]
Fold(f, H) == CHOOSE g : g = [s \in SUBSET H |-> FoldStep(f, g, s)]
SumOf(f, H) == MapThenSumSet(LAMBDA t : f[t], H)

LEMMA SumIsFold ==
  ASSUME NEW f, NEW H
  PROVE  SumOf(f, H) = Fold(f, H)[H]
BY Zenon DEF SumOf, MapThenSumSet, MapThenFoldSet, FoldStep, Fold, AnyOf

LEMMA FoldExists ==
  ASSUME NEW f, NEW H, IsFiniteSet(H)
  PROVE  Fold(f, H) = [s \in SUBSET H |-> FoldStep(f, Fold(f, H), s)]
<1> DEFINE Good(n) == \E g : /\ g = [s \in SUBSET H |-> g[s]]
                             /\ \A s \in SUBSET H : Cardinality(s) <= n => g[s] = FoldStep(f, g, s)
           S == {n \in Nat : Good(n)}
<1>1. \A s \in SUBSET H : IsFiniteSet(s) /\ Cardinality(s) \in Nat /\ Cardinality(s) <= Cardinality(H)
  BY FS_Subset, FS_CardinalityType
<1>2. Cardinality(H) \in Nat
  BY FS_CardinalityType
<1>4. 0 \in S
  <2> DEFINE g == [s \in SUBSET H |-> 0]
  <2>1. \A s \in SUBSET H : Cardinality(s) <= 0 => s = {}
    BY <1>1, FS_EmptySet
  <2>2. \A s \in SUBSET H : Cardinality(s) <= 0 => g[s] = FoldStep(f, g, s)
    BY <2>1 DEF FoldStep
  <2>3. g = [s \in SUBSET H |-> g[s]]
    OBVIOUS
  <2> HIDE DEF g
  <2> QED BY <2>2, <2>3
<1>5. ASSUME NEW n \in Nat, n \in S PROVE n + 1 \in S
  <2>1. PICK g : /\ g = [s \in SUBSET H |-> g[s]]
                 /\ \A s \in SUBSET H : Cardinality(s) <= n => g[s] = FoldStep(f, g, s)
    BY <1>5
  <2> DEFINE k == [s \in SUBSET H |-> IF Cardinality(s) = n + 1
                                      THEN FoldStep(f, g, s) ELSE g[s]]
  <2>2. /\ k = [s \in SUBSET H |-> k[s]]
        /\ \A s \in SUBSET H :
             k[s] = IF Cardinality(s) = n + 1 THEN FoldStep(f, g, s) ELSE g[s]
    OBVIOUS
  <2> HIDE DEF k
  <2>3. ASSUME NEW s \in SUBSET H, Cardinality(s) <= n + 1
        PROVE  k[s] = FoldStep(f, k, s)
    <3>1. k[s] = FoldStep(f, g, s)
      <4>1. CASE Cardinality(s) = n + 1
        BY <2>2, <4>1
      <4>2. CASE Cardinality(s) # n + 1
        <5>1. Cardinality(s) <= n
          BY <1>1, <2>3, <4>2
        <5> QED BY <2>1, <2>2, <4>2, <5>1
      <4> QED BY <4>1, <4>2
    <3>2. CASE s = {}
      BY <3>1, <3>2 DEF FoldStep
    <3>3. CASE s # {}
      <4>1. AnyOf(s) \in s
        BY <3>3 DEF AnyOf
      <4>2. /\ Cardinality(s) = Cardinality(s \ {AnyOf(s)}) + 1
            /\ Cardinality(s \ {AnyOf(s)}) \in Nat
        BY <1>1, <4>1, OneLess
      <4>3. s \ {AnyOf(s)} \in SUBSET H /\ Cardinality(s \ {AnyOf(s)}) # n + 1
        BY <2>3, <4>2
      <4>4. k[s \ {AnyOf(s)}] = g[s \ {AnyOf(s)}]
        BY <2>2, <4>3
      <4> QED BY <3>1, <3>3, <4>4 DEF FoldStep
    <3> QED BY <3>2, <3>3
  <2>4. Good(n + 1)
    BY <2>2, <2>3
  <2>5. n + 1 \in Nat
    OBVIOUS
  <2> HIDE DEF Good
  <2> QED BY <2>4, <2>5
<1>6. Good(Cardinality(H))
  <2> HIDE DEF S, Good
  <2>1. Nat \subseteq S
    BY <1>4, <1>5, Induction
  <2> QED BY <1>2, <2>1 DEF S
<1>7. \E g : g = [s \in SUBSET H |-> FoldStep(f, g, s)]
  <2>1. PICK g : /\ g = [s \in SUBSET H |-> g[s]]
                 /\ \A s \in SUBSET H : Cardinality(s) <= Cardinality(H) => g[s] = FoldStep(f, g, s)
    BY <1>6
  <2>2. \A s \in SUBSET H : g[s] = FoldStep(f, g, s)
    BY <1>1, <2>1
  <2>3. [s \in SUBSET H |-> g[s]] = [s \in SUBSET H |-> FoldStep(f, g, s)]
    BY <2>2
  <2> QED BY <2>1, <2>3
<1> QED BY <1>7, Zenon DEF Fold

\* A sum is found by taking the elements out in the order AnyOf does.
LEMMA SumUnfolds ==
  ASSUME NEW U, NEW f \in [U -> Nat]
  PROVE  /\ SumOf(f, {}) = 0
         /\ \A s \in SUBSET U :
              IsFiniteSet(s) /\ s # {}
                => SumOf(f, s) = f[AnyOf(s)] + SumOf(f, s \ {AnyOf(s)})
<1> DEFINE Agree(n) == \A H, K \in SUBSET U :
             IsFiniteSet(H) /\ IsFiniteSet(K) =>
               \A s \in SUBSET (H \cap K) :
                  Cardinality(s) = n => Fold(f, H)[s] = Fold(f, K)[s]
           S == {n \in Nat : Agree(n)}
<1>1. \A H : IsFiniteSet(H) =>
        \A s \in SUBSET H : Fold(f, H)[s] = FoldStep(f, Fold(f, H), s)
  <2>0. ASSUME NEW H, IsFiniteSet(H)
        PROVE  Fold(f, H) = [s \in SUBSET H |-> FoldStep(f, Fold(f, H), s)]
    BY <2>0, FoldExists, ZenonT(60)
  <2>1. ASSUME NEW H, IsFiniteSet(H), NEW s \in SUBSET H
        PROVE  Fold(f, H)[s] = FoldStep(f, Fold(f, H), s)
    <3> DEFINE g == Fold(f, H)
    <3>1. g = [w \in SUBSET H |-> FoldStep(f, g, w)]
      BY <2>0, <2>1, Zenon
    <3> HIDE DEF g
    <3>2. g[s] = FoldStep(f, g, s)
      BY <3>1
    <3> QED BY <3>2 DEF g
  <2> QED BY <2>1
<1>2. 0 \in S
  <2>1. ASSUME NEW H \in SUBSET U, NEW K \in SUBSET U, IsFiniteSet(H), IsFiniteSet(K),
               NEW s \in SUBSET (H \cap K), Cardinality(s) = 0
        PROVE  Fold(f, H)[s] = Fold(f, K)[s]
    <3>1. s = {}
      BY <2>1, FS_Subset, FS_EmptySet
    <3>2. s \in SUBSET H /\ s \in SUBSET K
      OBVIOUS
    <3> QED BY <1>1, <2>1, <3>1, <3>2 DEF FoldStep
  <2> QED BY <2>1
<1>3. ASSUME NEW n \in Nat, n \in S PROVE n + 1 \in S
  <2>1. ASSUME NEW H \in SUBSET U, NEW K \in SUBSET U, IsFiniteSet(H), IsFiniteSet(K),
               NEW s \in SUBSET (H \cap K), Cardinality(s) = n + 1
        PROVE  Fold(f, H)[s] = Fold(f, K)[s]
    <3>1. IsFiniteSet(s)
      BY <2>1, FS_Subset
    <3>2. s # {}
      BY <2>1, FS_EmptySet
    <3> DEFINE x == AnyOf(s)
    <3>3. x \in s
      BY <3>2 DEF AnyOf
    <3> HIDE DEF x
    <3>4. Cardinality(s) = Cardinality(s \ {x}) + 1 /\ Cardinality(s \ {x}) \in Nat
      BY <3>1, <3>3, OneLess
    <3>5. Cardinality(s \ {x}) = n
      BY <2>1, <3>4
    <3>6. Fold(f, H)[s \ {x}] = Fold(f, K)[s \ {x}]
      <4>1. s \ {x} \in SUBSET (H \cap K)
        OBVIOUS
      <4> QED BY <1>3, <2>1, <3>5, <4>1
    <3>7. s \in SUBSET H /\ s \in SUBSET K
      OBVIOUS
    <3> QED BY <1>1, <2>1, <3>6, <3>7 DEF FoldStep, x
  <2>2. Agree(n + 1)
    BY <2>1
  <2> HIDE DEF Agree
  <2> QED BY <2>2
<1>4. Nat \subseteq S
  <2> HIDE DEF S
  <2> QED BY <1>2, <1>3, Induction
<1>5. SumOf(f, {}) = 0
  <2>1. IsFiniteSet({})
    BY FS_EmptySet
  <2> QED BY <1>1, <2>1, SumIsFold DEF FoldStep
<1>6. ASSUME NEW s \in SUBSET U, IsFiniteSet(s), s # {}
      PROVE  SumOf(f, s) = f[AnyOf(s)] + SumOf(f, s \ {AnyOf(s)})
  <2> DEFINE x == AnyOf(s)
             w == s \ {x}
  <2>1. /\ w \in SUBSET U /\ w \in SUBSET (s \cap w) /\ s \in SUBSET s
        /\ IsFiniteSet(w) /\ Cardinality(w) \in Nat
    BY <1>6, FS_RemoveElement, FS_CardinalityType
  <2>2. Fold(f, s)[s] = f[x] + Fold(f, s)[w]
    BY <1>1, <1>6, <2>1 DEF FoldStep
  <2> HIDE DEF w, x
  <2>3. Fold(f, s)[w] = Fold(f, w)[w]
    BY <1>4, <1>6, <2>1
  <2>4. SumOf(f, s) = f[x] + SumOf(f, w)
    BY <2>2, <2>3, SumIsFold
  <2> QED BY <2>4 DEF w, x
<1> QED BY <1>5, <1>6

LEMMA SumTaken ==
  ASSUME NEW U, NEW f \in [U -> Nat]
  PROVE  /\ SumOf(f, {}) = 0
         /\ \A s \in SUBSET U : IsFiniteSet(s) =>
              /\ SumOf(f, s) \in Nat
              /\ \A x \in s : SumOf(f, s) = f[x] + SumOf(f, s \ {x})
<1> DEFINE Good(s) == /\ SumOf(f, s) \in Nat
                      /\ \A x \in s : SumOf(f, s) = f[x] + SumOf(f, s \ {x})
           S == {n \in Nat : \A s \in SUBSET U :
                               IsFiniteSet(s) /\ Cardinality(s) <= n => Good(s)}
<1>1. SumOf(f, {}) = 0
  BY SumUnfolds
<1>2. 0 \in S
  <2>1. \A s \in SUBSET U : IsFiniteSet(s) /\ Cardinality(s) <= 0 => s = {}
    BY FS_EmptySet, FS_CardinalityType
  <2>2. Good({})
    BY <1>1
  <2> HIDE DEF Good
  <2> QED BY <2>1, <2>2
<1>3. ASSUME NEW n \in Nat, n \in S PROVE n + 1 \in S
  <2>1. ASSUME NEW s \in SUBSET U, IsFiniteSet(s), Cardinality(s) = n + 1
        PROVE  Good(s)
    <3> DEFINE y == AnyOf(s)
    <3>1. s # {}
      BY <2>1, FS_EmptySet
    <3>2. y \in s
      BY <3>1 DEF AnyOf
    <3>3. SumOf(f, s) = f[y] + SumOf(f, s \ {y})
      BY <2>1, <3>1, SumUnfolds
    <3> HIDE DEF y
    <3>4. \A x \in s : /\ IsFiniteSet(s \ {x}) /\ s \ {x} \in SUBSET U
                       /\ Cardinality(s \ {x}) = n
      <4>1. ASSUME NEW x \in s
            PROVE  IsFiniteSet(s \ {x}) /\ Cardinality(s \ {x}) = n
        <5>1. /\ IsFiniteSet(s \ {x}) /\ Cardinality(s \ {x}) \in Nat
              /\ Cardinality(s) = Cardinality(s \ {x}) + 1
          BY <2>1, OneLess
        <5> QED BY <2>1, <5>1
      <4> QED BY <4>1
    <3>5. \A x \in s : Good(s \ {x})
      BY <1>3, <3>4
    <3>6. SumOf(f, s) \in Nat
      BY <3>2, <3>3, <3>5
    <3>7. ASSUME NEW x \in s
          PROVE  SumOf(f, s) = f[x] + SumOf(f, s \ {x})
      <4>1. CASE x = y
        BY <3>3, <4>1
      <4>2. CASE x # y
        <5> DEFINE p == SumOf(f, s \ {y})
                   q == SumOf(f, s \ {x})
                   w == SumOf(f, (s \ {y}) \ {x})
        <5>1. p \in Nat /\ q \in Nat
          BY <3>2, <3>5
        <5>2. p = f[x] + w
          BY <3>2, <3>5, <4>2
        <5>3. q = f[y] + SumOf(f, (s \ {x}) \ {y})
          BY <3>2, <3>5, <4>2
        <5>4. (s \ {x}) \ {y} = (s \ {y}) \ {x}
          OBVIOUS
        <5>5. q = f[y] + w
          BY <5>3, <5>4
        <5>6. w \in Nat
          <6>1. /\ IsFiniteSet((s \ {y}) \ {x}) /\ (s \ {y}) \ {x} \in SUBSET U
                /\ Cardinality((s \ {y}) \ {x}) <= n
            <7>1. x \in s \ {y} /\ IsFiniteSet(s \ {y}) /\ Cardinality(s \ {y}) = n
              BY <3>2, <3>4, <4>2
            <7>2. /\ IsFiniteSet((s \ {y}) \ {x})
                  /\ Cardinality((s \ {y}) \ {x}) \in Nat
                  /\ Cardinality(s \ {y}) = Cardinality((s \ {y}) \ {x}) + 1
              BY <7>1, OneLess
            <7> QED BY <7>1, <7>2
          <6>2. Good((s \ {y}) \ {x})
            <7> HIDE DEF Good
            <7> QED BY <1>3, <6>1
          <6> QED BY <6>2
        <5>7. f[x] \in Nat /\ f[y] \in Nat
          BY <3>2
        <5>8. SumOf(f, s) = f[y] + p
          BY <3>3
        <5> HIDE DEF p, q, w
        <5>9. SumOf(f, s) = f[x] + q
          BY <5>1, <5>2, <5>5, <5>6, <5>7, <5>8
        <5> QED BY <5>9 DEF q
      <4> QED BY <4>1, <4>2
    <3> QED BY <3>6, <3>7
  <2>2. ASSUME NEW s \in SUBSET U, IsFiniteSet(s), Cardinality(s) <= n + 1
        PROVE  Good(s)
    <3> HIDE DEF Good
    <3>1. Cardinality(s) \in Nat
      BY <2>2, FS_CardinalityType
    <3>2. CASE Cardinality(s) <= n
      BY <1>3, <2>2, <3>2
    <3>3. CASE Cardinality(s) = n + 1
      BY <2>1, <2>2, <3>3
    <3> QED BY <2>2, <3>1, <3>2, <3>3
  <2> HIDE DEF Good
  <2> QED BY <2>2
<1>4. Nat \subseteq S
  <2> HIDE DEF S
  <2> QED BY <1>2, <1>3, Induction
<1>5. ASSUME NEW s \in SUBSET U, IsFiniteSet(s)
      PROVE  Good(s)
  <2>1. Cardinality(s) \in Nat
    BY <1>5, FS_CardinalityType
  <2> HIDE DEF Good
  <2> QED BY <1>4, <1>5, <2>1
<1> QED BY <1>1, <1>5

\* Values that are not summed do not matter.
LEMMA SumAgrees ==
  ASSUME NEW U, NEW f \in [U -> Nat], NEW V, NEW g \in [V -> Nat],
         NEW s \in SUBSET (U \cap V), IsFiniteSet(s), \A x \in s : f[x] = g[x]
  PROVE  SumOf(f, s) = SumOf(g, s)
<1> DEFINE Good(n) == \A w \in SUBSET s : Cardinality(w) = n => SumOf(f, w) = SumOf(g, w)
           S == {n \in Nat : Good(n)}
<1>1. \A w \in SUBSET s : IsFiniteSet(w) /\ Cardinality(w) \in Nat /\ w \in SUBSET U /\ w \in SUBSET V
  BY FS_Subset, FS_CardinalityType
<1>2. 0 \in S
  <2>1. \A w \in SUBSET s : Cardinality(w) = 0 => w = {}
    BY <1>1, FS_EmptySet
  <2>2. SumOf(f, {}) = 0 /\ SumOf(g, {}) = 0
    BY SumTaken
  <2> QED BY <2>1, <2>2
<1>3. ASSUME NEW n \in Nat, n \in S PROVE n + 1 \in S
  <2>1. ASSUME NEW w \in SUBSET s, Cardinality(w) = n + 1
        PROVE  SumOf(f, w) = SumOf(g, w)
    <3>1. w # {}
      BY <2>1, FS_EmptySet
    <3>2. PICK x \in w : TRUE
      BY <3>1
    <3>3. w \ {x} \in SUBSET s /\ Cardinality(w \ {x}) = n
      <4>1. Cardinality(w) = Cardinality(w \ {x}) + 1 /\ Cardinality(w \ {x}) \in Nat
        BY <1>1, OneLess
      <4> QED BY <2>1, <4>1
    <3>4. SumOf(f, w \ {x}) = SumOf(g, w \ {x})
      BY <1>3, <3>3
    <3>5. SumOf(f, w) = f[x] + SumOf(f, w \ {x}) /\ SumOf(g, w) = g[x] + SumOf(g, w \ {x})
      BY <1>1, SumTaken
    <3> QED BY <3>4, <3>5
  <2> QED BY <2>1
<1>4. Nat \subseteq S
  <2> HIDE DEF S
  <2> QED BY <1>2, <1>3, Induction
<1>5. Cardinality(s) \in Nat
  BY FS_CardinalityType
<1> QED BY <1>4, <1>5

\* A part adds up to no more than the whole.
LEMMA SumOfPart ==
  ASSUME NEW U, NEW f \in [U -> Nat], NEW s \in SUBSET U, IsFiniteSet(s), NEW t \in SUBSET s
  PROVE  SumOf(f, t) <= SumOf(f, s) /\ SumOf(f, t) \in Nat /\ SumOf(f, s) \in Nat
<1> DEFINE Good(n) == \A w \in SUBSET s :
             t \subseteq w /\ Cardinality(w) = n => SumOf(f, t) <= SumOf(f, w)
           S == {n \in Nat : Good(n)}
<1>1. \A w \in SUBSET s : /\ IsFiniteSet(w) /\ Cardinality(w) \in Nat /\ w \in SUBSET U
                          /\ SumOf(f, w) \in Nat
  BY FS_Subset, FS_CardinalityType, SumTaken
<1>2. 0 \in S
  <2>1. \A w \in SUBSET s : t \subseteq w /\ Cardinality(w) = 0 => w = t
    BY <1>1, FS_EmptySet
  <2> QED BY <1>1, <2>1
<1>3. ASSUME NEW n \in Nat, n \in S PROVE n + 1 \in S
  <2>1. ASSUME NEW w \in SUBSET s, t \subseteq w, Cardinality(w) = n + 1
        PROVE  SumOf(f, t) <= SumOf(f, w)
    <3>1. CASE w = t
      BY <1>1, <3>1
    <3>2. CASE w # t
      <4>1. PICK x \in w : x \notin t
        BY <2>1, <3>2
      <4>2. w \ {x} \in SUBSET s /\ t \subseteq w \ {x} /\ Cardinality(w \ {x}) = n
        <5>1. Cardinality(w) = Cardinality(w \ {x}) + 1 /\ Cardinality(w \ {x}) \in Nat
          BY <1>1, OneLess
        <5> QED BY <2>1, <4>1, <5>1
      <4>3. SumOf(f, t) <= SumOf(f, w \ {x})
        BY <1>3, <4>2
      <4>4. SumOf(f, w) = f[x] + SumOf(f, w \ {x}) /\ f[x] \in Nat
        BY <1>1, SumTaken
      <4> QED BY <1>1, <4>2, <4>3, <4>4
    <3> QED BY <3>1, <3>2
  <2> QED BY <2>1
<1>4. Nat \subseteq S
  <2> HIDE DEF S
  <2> QED BY <1>2, <1>3, Induction
<1>5. Cardinality(s) \in Nat
  BY <1>1
<1>6. SumOf(f, t) <= SumOf(f, s)
  BY <1>4, <1>5
<1> QED BY <1>1, <1>6

\* One value changes.
LEMMA SumOneChanged ==
  ASSUME NEW U, IsFiniteSet(U), NEW f \in [U -> Nat], NEW g \in [U -> Nat], NEW i \in U,
         \A j \in U \ {i} : g[j] = f[j]
  PROVE  SumOf(g, U) + f[i] = SumOf(f, U) + g[i]
<1>1. IsFiniteSet(U \ {i}) /\ U \ {i} \in SUBSET (U \cap U)
  BY FS_RemoveElement
<1>2. SumOf(f, U \ {i}) = SumOf(g, U \ {i})
  BY <1>1, SumAgrees
<1>3. /\ SumOf(f, U) = f[i] + SumOf(f, U \ {i}) /\ SumOf(g, U) = g[i] + SumOf(g, U \ {i})
      /\ SumOf(f, U \ {i}) \in Nat
  BY <1>1, SumTaken
<1> QED BY <1>2, <1>3

\* No value exceeds b.
LEMMA SumBounded ==
  ASSUME NEW U, NEW f \in [U -> Nat], NEW b \in Nat, \A x \in U : f[x] <= b,
         NEW s \in SUBSET U, IsFiniteSet(s)
  PROVE  SumOf(f, s) <= Cardinality(s) * b
<1> DEFINE Good(n) == \A w \in SUBSET s : Cardinality(w) = n => SumOf(f, w) <= n * b
           S == {n \in Nat : Good(n)}
<1>1. \A w \in SUBSET s : /\ IsFiniteSet(w) /\ Cardinality(w) \in Nat /\ w \in SUBSET U
                          /\ SumOf(f, w) \in Nat
  BY FS_Subset, FS_CardinalityType, SumTaken
<1>2. 0 \in S
  <2>1. \A w \in SUBSET s : Cardinality(w) = 0 => w = {}
    BY <1>1, FS_EmptySet
  <2>2. SumOf(f, {}) = 0
    BY SumTaken
  <2>3. 0 * b = 0
    OBVIOUS
  <2>4. 0 <= 0 * b
    BY <2>3
  <2>5. Good(0)
    BY <2>1, <2>2, <2>4
  <2> HIDE DEF Good
  <2> QED BY <2>5
<1>3. ASSUME NEW n \in Nat, n \in S PROVE n + 1 \in S
  <2>1. ASSUME NEW w \in SUBSET s, Cardinality(w) = n + 1
        PROVE  SumOf(f, w) <= (n + 1) * b
    <3>1. w # {}
      BY <2>1, FS_EmptySet
    <3>2. PICK x \in w : TRUE
      BY <3>1
    <3>3. w \ {x} \in SUBSET s /\ Cardinality(w \ {x}) = n
      <4>1. Cardinality(w) = Cardinality(w \ {x}) + 1 /\ Cardinality(w \ {x}) \in Nat
        BY <1>1, OneLess
      <4> QED BY <2>1, <4>1
    <3>4. SumOf(f, w \ {x}) <= n * b /\ SumOf(f, w \ {x}) \in Nat
      BY <1>1, <1>3, <3>3
    <3>5. SumOf(f, w) = f[x] + SumOf(f, w \ {x}) /\ f[x] \in Nat /\ f[x] <= b
      BY <1>1, SumTaken
    <3> DEFINE p == n * b
               q == (n + 1) * b
    <3>6. q = p + b /\ p \in Nat
      OBVIOUS
    <3> HIDE DEF p, q
    <3>7. SumOf(f, w \ {x}) <= p
      BY <3>4 DEF p
    <3>8. SumOf(f, w) <= q
      BY <3>4, <3>5, <3>6, <3>7
    <3> QED BY <3>8 DEF q
  <2> QED BY <2>1
<1>4. Nat \subseteq S
  <2> HIDE DEF S
  <2> QED BY <1>2, <1>3, Induction
<1>5. Cardinality(s) \in Nat
  BY <1>1
<1> QED BY <1>4, <1>5
=============================================================================
