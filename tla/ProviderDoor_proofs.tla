------------------------- MODULE ProviderDoor_proofs -------------------------
(***************************************************************************)
(* Proofs about ProviderDoor, for any number of calls, chairs and prices.  *)
(* They begin with sums of naturals over finite sets.  The money of the    *)
(* model is added up with SumFunctionOnSet, a fold whose function TLA+     *)
(* defines by recursion on the set.  The first lemmas say what the fold    *)
(* computes for every set: it is 0 on the empty set, grows by an element's *)
(* weight, looks at nothing else, and splits over disjoint sets.  They     *)
(* rest on induction over Nat, stated of a set of numbers and derived from *)
(* the order being well founded.                                           *)
(***************************************************************************)
EXTENDS ProviderDoor, TLAPS, FiniteSetTheorems, SequenceTheorems, WellFoundedInduction

-----------------------------------------------------------------------------
(* Induction *)

\* A set of naturals that holds 0 and is closed under successor holds them all.
LEMMA SetInduction ==
    ASSUME NEW S, 0 \in S, \A k \in Nat : k \in S => k + 1 \in S
    PROVE  Nat \subseteq S
<1> DEFINE T == Nat \ S
           R == OpToRel(<, Nat)
<1>1. SUFFICES ASSUME T # {} PROVE FALSE
    OBVIOUS
<1>2. IsWellFoundedOn(R, Nat)
    BY NatLessThanWellFounded
<1>3. T \subseteq Nat
    OBVIOUS
<1>4. PICK x \in T : \A y \in T : ~(<<y, x>> \in R)
  <2> HIDE DEF T, R
  <2> QED BY <1>1, <1>2, <1>3, WFMin
<1>5. x \in Nat /\ x \notin S /\ x # 0
    BY <1>4
<1>6. x - 1 \in Nat /\ x - 1 \notin S
    BY <1>5
<1>7. <<x - 1, x>> \in R
    BY <1>5, <1>6 DEF OpToRel
<1>8. QED
    BY <1>4, <1>6, <1>7

-----------------------------------------------------------------------------
(* The fold's recursion *)

\* The element the fold takes next.
Element(s) == CHOOSE x \in s : TRUE
\* The fold's own function: what it gives a set from what it gives a smaller one.
PartialSums(w, D) == CHOOSE f : f = [s \in SUBSET D |->
    IF s = {} THEN 0 ELSE w[Element(s)] + f[s \ {Element(s)}]]

\* The sum of D is the fold's function at D.
LEMMA SumUnfolds ==
    ASSUME NEW w, NEW D
    PROVE  SumFunctionOnSet(w, D) = PartialSums(w, D)[D]
BY DEF SumFunctionOnSet, FoldFunctionOnSet, MapThenFoldSet, PartialSums, Element

\* The cardinality of a set and of the set without one of its elements.
LEMMA OneLess ==
    ASSUME NEW s, IsFiniteSet(s), NEW x \in s
    PROVE  /\ IsFiniteSet(s \ {x})
           /\ Cardinality(s) \in Nat \ {0}
           /\ Cardinality(s \ {x}) = Cardinality(s) - 1
BY FS_RemoveElement, FS_CardinalityType, FS_EmptySet

\* f adds up w over the subsets of D, one element after another.
Follows(f, w, D) == \A s \in SUBSET D :
    f[s] = IF s = {} THEN 0 ELSE w[Element(s)] + f[s \ {Element(s)}]

\* The subsets of a finite set, and what is left of one without the element taken.
LEMMA Subsets ==
    ASSUME NEW D, IsFiniteSet(D)
    PROVE  /\ \A s \in SUBSET D : IsFiniteSet(s) /\ Cardinality(s) \in Nat
           /\ \A s \in SUBSET D : Cardinality(s) <= Cardinality(D)
           /\ \A s \in SUBSET D : Cardinality(s) <= 0 => s = {}
           /\ \A s \in SUBSET D : \A x \in s :
                 s \ {x} \in SUBSET D /\ Cardinality(s \ {x}) = Cardinality(s) - 1
           /\ \A s \in SUBSET D : s # {} => Element(s) \in s
<1>1. \A s \in SUBSET D : IsFiniteSet(s) /\ Cardinality(s) \in Nat
    BY FS_Subset, FS_CardinalityType
<1>2. \A s \in SUBSET D : \A x \in s :
          s \ {x} \in SUBSET D /\ Cardinality(s \ {x}) = Cardinality(s) - 1
    BY <1>1, FS_RemoveElement
<1>3. \A s \in SUBSET D : Cardinality(s) <= Cardinality(D)
    BY FS_Subset
<1>4. \A s \in SUBSET D : Cardinality(s) <= 0 => s = {}
    BY <1>1, FS_EmptySet
<1>5. \A s \in SUBSET D : s # {} => Element(s) \in s
    BY DEF Element
<1>6. QED
    BY <1>1, <1>2, <1>3, <1>4, <1>5

\* The recursion has a solution, so the fold's function is one.
LEMMA SumsFollow ==
    ASSUME NEW w, NEW D, IsFiniteSet(D), \A x \in D : w[x] \in Nat
    PROVE  Follows(PartialSums(w, D), w, D)
<1> DEFINE Body(f) == [s \in SUBSET D |->
                IF s = {} THEN 0 ELSE w[Element(s)] + f[s \ {Element(s)}]]
           Good == {k \in Nat : \E f \in [SUBSET D -> Nat] :
               \A s \in SUBSET D : Cardinality(s) <= k => f[s] = Body(f)[s]}
<1>1. \A s \in SUBSET D : s # {} =>
          /\ Element(s) \in s /\ w[Element(s)] \in Nat
          /\ s \ {Element(s)} \in SUBSET D
          /\ Cardinality(s \ {Element(s)}) = Cardinality(s) - 1
    BY Subsets
<1>2. 0 \in Good
  <2>1. \A s \in SUBSET D : Cardinality(s) <= 0 => s = {}
      BY Subsets
  <2> DEFINE f == [s \in SUBSET D |-> 0]
  <2>2. f \in [SUBSET D -> Nat]
      OBVIOUS
  <2>3. \A s \in SUBSET D : Cardinality(s) <= 0 => f[s] = Body(f)[s]
      BY <2>1
  <2>4. QED
      BY <2>2, <2>3
<1>3. ASSUME NEW k \in Nat, k \in Good
      PROVE  k + 1 \in Good
  <2>1. PICK f \in [SUBSET D -> Nat] :
            \A s \in SUBSET D : Cardinality(s) <= k => f[s] = Body(f)[s]
      BY <1>3
  <2> DEFINE g == [s \in SUBSET D |-> IF Cardinality(s) <= k THEN f[s] ELSE Body(f)[s]]
  <2>2. g \in [SUBSET D -> Nat]
    <3>1. \A s \in SUBSET D : s # {} => f[s \ {Element(s)}] \in Nat /\ w[Element(s)] \in Nat
        BY <1>1
    <3>2. \A s \in SUBSET D : Body(f)[s] \in Nat
        BY <3>1
    <3>3. QED
        BY <3>2
  <2>3. ASSUME NEW s \in SUBSET D, Cardinality(s) <= k + 1
        PROVE  g[s] = Body(g)[s]
    <3>1. CASE s = {}
      <4>1. Cardinality(s) <= k
          BY <3>1, FS_EmptySet
      <4>2. QED
          BY <2>1, <3>1, <4>1
    <3>2. CASE s # {}
      <4>1. Cardinality(s \ {Element(s)}) <= k /\ s \ {Element(s)} \in SUBSET D
          BY <1>1, <2>3, <3>2, Subsets
      <4>2. g[s \ {Element(s)}] = f[s \ {Element(s)}]
          BY <4>1
      <4>3. Body(g)[s] = Body(f)[s]
          BY <3>2, <4>2
      <4>4. g[s] = Body(f)[s]
          BY <2>1
      <4>5. QED
          BY <4>3, <4>4
    <3>3. QED
        BY <3>1, <3>2
  <2>4. \E h \in [SUBSET D -> Nat] :
            \A s \in SUBSET D : Cardinality(s) <= k + 1 => h[s] = Body(h)[s]
    <3> HIDE DEF g, Body
    <3>1. QED
        BY <2>2, <2>3
  <2>5. QED
    <3> HIDE DEF Body
    <3>1. QED
        BY <2>4
<1>4. Cardinality(D) \in Good
  <2> HIDE DEF Good
  <2>1. \A k \in Nat : k \in Good => k + 1 \in Good
      BY <1>3
  <2>2. Nat \subseteq Good
      BY <1>2, <2>1, SetInduction
  <2>3. QED
      BY <2>2, FS_CardinalityType
<1>5. PICK f \in [SUBSET D -> Nat] :
          \A s \in SUBSET D : Cardinality(s) <= Cardinality(D) => f[s] = Body(f)[s]
    BY <1>4
<1>6. \A s \in SUBSET D : f[s] = Body(f)[s]
    BY <1>5, Subsets
<1>7. f = Body(f)
    BY <1>6
<1>8. PartialSums(w, D) = Body(PartialSums(w, D))
    BY <1>7 DEF PartialSums
<1>9. QED
    BY <1>8 DEF Follows

\* The sum of a set does not depend on the order its elements are taken in.
LEMMA AnyOrder ==
    ASSUME NEW w, NEW D, IsFiniteSet(D), \A x \in D : w[x] \in Nat,
           NEW f, Follows(f, w, D)
    PROVE  \A s \in SUBSET D : /\ f[s] \in Nat
                               /\ \A y \in s : f[s] = w[y] + f[s \ {y}]
<1> DEFINE Holds(s) == f[s] \in Nat /\ \A y \in s : f[s] = w[y] + f[s \ {y}]
           Good == {k \in Nat : \A s \in SUBSET D : Cardinality(s) <= k => Holds(s)}
<1>0. Holds({})
  <2>1. f[{}] = 0
      BY DEF Follows
  <2>2. QED
      BY <2>1
<1>1. 0 \in Good
  <2>1. \A s \in SUBSET D : Cardinality(s) <= 0 => s = {}
      BY Subsets
  <2>2. QED
      BY <1>0, <2>1
<1>2. ASSUME NEW k \in Nat, k \in Good
      PROVE  k + 1 \in Good
  <2>1. ASSUME NEW s \in SUBSET D, Cardinality(s) <= k
        PROVE  Holds(s)
      BY <1>2, <2>1
  <2> HIDE DEF Good
  <2>2. ASSUME NEW s \in SUBSET D, Cardinality(s) <= k + 1, s # {}
        PROVE  Holds(s)
    <3> DEFINE x == Element(s)
    <3>1. x \in s /\ w[x] \in Nat
        BY <2>2, Subsets
    <3>2. f[s] = w[x] + f[s \ {x}]
        BY <2>2 DEF Follows
    <3>0. \A y \in s : /\ s \ {y} \in SUBSET D
                       /\ Cardinality(s \ {y}) \in Nat /\ Cardinality(s \ {y}) <= k
        BY <2>2, Subsets
    <3>3. \A y \in s : Holds(s \ {y})
        BY <2>1, <3>0
    <3> HIDE DEF x
    <3>4. f[s] \in Nat
      <4>1. f[s \ {x}] \in Nat
          BY <3>1, <3>3
      <4>2. QED
          BY <3>1, <3>2, <4>1
    <3>5. ASSUME NEW y \in s, y # x
          PROVE  f[s] = w[y] + f[s \ {y}]
      <4>1. y \in s \ {x} /\ x \in s \ {y}
          BY <3>1, <3>5
      <4>2. f[s \ {x}] = w[y] + f[(s \ {x}) \ {y}]
          BY <3>1, <3>3, <4>1
      <4>3. f[s \ {y}] = w[x] + f[(s \ {y}) \ {x}]
          BY <3>3, <4>1
      <4>4. (s \ {x}) \ {y} = (s \ {y}) \ {x}
          OBVIOUS
      <4>5. f[(s \ {x}) \ {y}] \in Nat
        <5>1. (s \ {x}) \ {y} \in SUBSET D /\ Cardinality((s \ {x}) \ {y}) <= k
          <6>1. /\ Cardinality(s \ {x}) \in Nat /\ Cardinality(s \ {x}) <= k
                /\ s \ {x} \in SUBSET D
              BY <3>0, <3>1
          <6>2. Cardinality((s \ {x}) \ {y}) = Cardinality(s \ {x}) - 1
              BY <4>1, <6>1, Subsets
          <6>3. QED
              BY <6>1, <6>2
        <5>2. QED
            BY <2>1, <5>1
      <4>6. w[y] \in Nat /\ w[x] \in Nat
          BY <3>1
      <4> DEFINE a == w[x]  b == w[y]  r == f[(s \ {x}) \ {y}]
      <4>7. f[s] = a + (b + r) /\ f[s \ {y}] = a + r
          BY <3>2, <4>2, <4>3, <4>4
      <4>8. a \in Nat /\ b \in Nat /\ r \in Nat
          BY <4>5, <4>6
      <4>9. f[s] = b + f[s \ {y}]
        <5> HIDE DEF a, b, r
        <5> QED BY <4>7, <4>8
      <4>10. QED
          BY <4>9
    <3>6. QED
        BY <3>2, <3>4, <3>5
  <2>3. \A s \in SUBSET D : Cardinality(s) <= k + 1 => Holds(s)
      BY <1>0, <2>2
  <2>4. QED
    <3> HIDE DEF Holds
    <3>1. QED
        BY <2>3 DEF Good
<1>3. Cardinality(D) \in Good
  <2> HIDE DEF Good
  <2>1. \A k \in Nat : k \in Good => k + 1 \in Good
      BY <1>2
  <2>2. Nat \subseteq Good
      BY <1>1, <2>1, SetInduction
  <2>3. QED
      BY <2>2, FS_CardinalityType
<1>4. QED
    BY <1>3, Subsets

\* Sums agree where what they add up agrees.
LEMMA SameSum ==
    ASSUME NEW w, NEW D, IsFiniteSet(D), \A x \in D : w[x] \in Nat,
           NEW v, NEW E, IsFiniteSet(E), \A x \in E : v[x] \in Nat,
           NEW f, Follows(f, w, D), NEW g, Follows(g, v, E)
    PROVE  \A s \in SUBSET (D \cap E) : (\A x \in s : w[x] = v[x]) => f[s] = g[s]
<1> DEFINE C == D \cap E
           Good == {k \in Nat : \A s \in SUBSET C :
                      Cardinality(s) <= k /\ (\A x \in s : w[x] = v[x]) => f[s] = g[s]}
<1>0. IsFiniteSet(C)
    BY FS_Subset
<1>1. 0 \in Good
  <2>1. \A s \in SUBSET C : Cardinality(s) <= 0 => s = {}
      BY <1>0, Subsets
  <2>2. f[{}] = 0 /\ g[{}] = 0
      BY DEF Follows
  <2>3. QED
      BY <2>1, <2>2
<1>2. ASSUME NEW k \in Nat, k \in Good
      PROVE  k + 1 \in Good
  <2>1. ASSUME NEW s \in SUBSET C, Cardinality(s) <= k + 1, \A x \in s : w[x] = v[x],
               s # {}
        PROVE  f[s] = g[s]
    <3> DEFINE x == Element(s)
    <3>1. x \in s /\ s \ {x} \in SUBSET C /\ Cardinality(s \ {x}) <= k
        BY <1>0, <2>1, Subsets
    <3>2. f[s] = w[x] + f[s \ {x}] /\ g[s] = v[x] + g[s \ {x}]
        BY <2>1 DEF Follows
    <3> HIDE DEF x
    <3>3. f[s \ {x}] = g[s \ {x}] /\ w[x] = v[x]
        BY <1>2, <2>1, <3>1
    <3>4. QED
        BY <3>2, <3>3
  <2>2. f[{}] = g[{}]
      BY DEF Follows
  <2>3. \A s \in SUBSET C :
            Cardinality(s) <= k + 1 /\ (\A x \in s : w[x] = v[x]) => f[s] = g[s]
      BY <2>1, <2>2
  <2>4. QED
      BY <2>3
<1>3. Cardinality(C) \in Good
  <2> HIDE DEF Good
  <2>1. \A k \in Nat : k \in Good => k + 1 \in Good
      BY <1>2
  <2>2. Nat \subseteq Good
      BY <1>1, <2>1, SetInduction
  <2>3. QED
      BY <1>0, <2>2, FS_CardinalityType
<1>4. QED
    BY <1>0, <1>3, Subsets

-----------------------------------------------------------------------------
(* What the fold computes *)

\* The sum over nothing is 0, and a sum of naturals is one.
LEMMA SumType ==
    ASSUME NEW w, NEW D, IsFiniteSet(D), \A x \in D : w[x] \in Nat
    PROVE  /\ SumFunctionOnSet(w, D) \in Nat
           /\ SumFunctionOnSet(w, {}) = 0
<1>1. Follows(PartialSums(w, D), w, D) /\ Follows(PartialSums(w, {}), w, {})
    BY SumsFollow, FS_EmptySet
<1>2. PartialSums(w, D)[D] \in Nat
    BY <1>1, AnyOrder
<1>3. PartialSums(w, {})[{}] = 0
    BY <1>1 DEF Follows
<1>4. QED
    BY <1>2, <1>3, SumUnfolds

\* What one more element adds.
LEMMA SumAdd ==
    ASSUME NEW w, NEW D, IsFiniteSet(D), NEW x, x \notin D,
           \A y \in D \cup {x} : w[y] \in Nat
    PROVE  SumFunctionOnSet(w, D \cup {x}) = w[x] + SumFunctionOnSet(w, D)
<1> DEFINE E == D \cup {x}
<1>1. IsFiniteSet(E)
    BY FS_AddElement
<1>2. Follows(PartialSums(w, D), w, D) /\ Follows(PartialSums(w, E), w, E)
    BY <1>1, SumsFollow
<1>3. PartialSums(w, E)[E] = w[x] + PartialSums(w, E)[E \ {x}]
  <2>1. \A y \in E : w[y] \in Nat
      OBVIOUS
  <2>2. x \in E /\ E \in SUBSET E
      OBVIOUS
  <2> HIDE DEF E
  <2>3. QED
      BY <1>1, <1>2, <2>1, <2>2, AnyOrder
<1>4. E \ {x} = D /\ D \in SUBSET (D \cap E)
    OBVIOUS
<1>5. PartialSums(w, E)[D] = PartialSums(w, D)[D]
  <2> HIDE DEF E
  <2> QED BY <1>1, <1>2, <1>4, SameSum
<1>6. QED
    BY <1>3, <1>4, <1>5, SumUnfolds

\* A sum looks at the elements it adds up, and at nothing else.
LEMMA SumCongruence ==
    ASSUME NEW w, NEW v, NEW D, IsFiniteSet(D),
           \A x \in D : w[x] \in Nat /\ v[x] = w[x]
    PROVE  SumFunctionOnSet(v, D) = SumFunctionOnSet(w, D)
<1>1. Follows(PartialSums(w, D), w, D) /\ Follows(PartialSums(v, D), v, D)
    BY SumsFollow
<1>2. PartialSums(v, D)[D] = PartialSums(w, D)[D]
    BY <1>1, SameSum, D \in SUBSET (D \cap D)
<1>3. QED
    BY <1>2, SumUnfolds

\* Sums of sets with nothing in common add up.
LEMMA SumDisjoint ==
    ASSUME NEW w, NEW C, NEW D, IsFiniteSet(C), IsFiniteSet(D), C \cap D = {},
           \A x \in C \cup D : w[x] \in Nat
    PROVE  SumFunctionOnSet(w, C \cup D) = SumFunctionOnSet(w, C) + SumFunctionOnSet(w, D)
<1> DEFINE Sum(s) == SumFunctionOnSet(w, s)
           Good == {k \in Nat : \A s \in SUBSET D :
                      Cardinality(s) <= k => Sum(C \cup s) = Sum(C) + Sum(s)}
<1>0. \A s \in SUBSET D : /\ IsFiniteSet(s) /\ IsFiniteSet(C \cup s)
                          /\ Sum(s) \in Nat /\ Sum(C \cup s) \in Nat
  <2>1. \A s \in SUBSET D : IsFiniteSet(s) /\ IsFiniteSet(C \cup s)
      BY FS_Subset, FS_Union
  <2>2. QED
      BY <2>1, SumType
<1>00. Sum({}) = 0 /\ Sum(C) \in Nat
    BY SumType
<1> HIDE DEF Sum
<1>1. 0 \in Good
  <2>1. \A s \in SUBSET D : Cardinality(s) <= 0 => s = {}
      BY Subsets
  <2>2. Sum(C \cup {}) = Sum(C) + Sum({})
      BY <1>00
  <2>3. QED
      BY <2>1, <2>2
<1>2. ASSUME NEW k \in Nat, k \in Good
      PROVE  k + 1 \in Good
  <2>1. ASSUME NEW s \in SUBSET D, Cardinality(s) <= k + 1, s # {}
        PROVE  Sum(C \cup s) = Sum(C) + Sum(s)
    <3>1. PICK x \in s : TRUE
        BY <2>1
    <3> DEFINE t == s \ {x}
    <3>2. t \in SUBSET D /\ Cardinality(t) <= k /\ x \in D
        BY <2>1, Subsets
    <3>3. x \notin t /\ x \notin C \cup t /\ s = t \cup {x} /\ C \cup s = (C \cup t) \cup {x}
        BY <3>1, <3>2
    <3> HIDE DEF t
    <3>4. Sum(C \cup t) = Sum(C) + Sum(t)
        BY <1>2, <3>2
    <3>5. Sum(t \cup {x}) = w[x] + Sum(t)
        BY <1>0, <3>2, <3>3, SumAdd DEF Sum
    <3>6. Sum((C \cup t) \cup {x}) = w[x] + Sum(C \cup t)
        BY <1>0, <3>2, <3>3, SumAdd DEF Sum
    <3>7. w[x] \in Nat /\ Sum(t) \in Nat
        BY <1>0, <3>2
    <3>8. Sum(C \cup s) = w[x] + Sum(C \cup t) /\ Sum(s) = w[x] + Sum(t)
        BY <3>3, <3>5, <3>6, Zenon
    <3>9. \A a, b, c \in Nat : a + (b + c) = b + (a + c)
        OBVIOUS
    <3>10. w[x] + (Sum(C) + Sum(t)) = Sum(C) + (w[x] + Sum(t))
        BY <1>00, <3>7, <3>9
    <3>11. QED
        BY <3>4, <3>8, <3>10, Zenon
  <2>2. Sum(C \cup {}) = Sum(C) + Sum({})
      BY <1>00
  <2>3. \A s \in SUBSET D : Cardinality(s) <= k + 1 => Sum(C \cup s) = Sum(C) + Sum(s)
      BY <2>1, <2>2
  <2>4. QED
      BY <2>3
<1>3. Cardinality(D) \in Good
  <2> HIDE DEF Good
  <2>1. \A k \in Nat : k \in Good => k + 1 \in Good
      BY <1>2
  <2>2. Nat \subseteq Good
      BY <1>1, <2>1, SetInduction
  <2>3. QED
      BY <2>2, FS_CardinalityType
<1>4. QED
    BY <1>3, Subsets DEF Sum

\* Of two sets, one in the other, the larger has the larger sum.
LEMMA SumMonotonic ==
    ASSUME NEW w, NEW C, NEW D, C \subseteq D, IsFiniteSet(D), \A x \in D : w[x] \in Nat
    PROVE  SumFunctionOnSet(w, C) <= SumFunctionOnSet(w, D)
<1>1. IsFiniteSet(C) /\ IsFiniteSet(D \ C) /\ C \cup (D \ C) = D
    BY FS_Subset
<1>2. SumFunctionOnSet(w, D) = SumFunctionOnSet(w, C) + SumFunctionOnSet(w, D \ C)
    BY <1>1, SumDisjoint
<1>3. SumFunctionOnSet(w, C) \in Nat /\ SumFunctionOnSet(w, D \ C) \in Nat
    BY <1>1, SumType
<1>4. QED
    BY <1>2, <1>3

\* Induction on finite sets, stated of a set of sets: one that holds {} and, with a
\* subset of D, that subset and one element more, holds D.
LEMMA SubsetInduction ==
    ASSUME NEW D, IsFiniteSet(D), NEW P, {} \in P,
           \A s \in SUBSET D : \A x \in D \ s : s \in P => s \cup {x} \in P
    PROVE  D \in P
<1> DEFINE Good == {k \in Nat : \A s \in SUBSET D : Cardinality(s) <= k => s \in P}
<1>1. 0 \in Good
    BY Subsets
<1>2. ASSUME NEW k \in Nat, k \in Good
      PROVE  k + 1 \in Good
  <2>1. ASSUME NEW s \in SUBSET D, Cardinality(s) <= k + 1, s # {}
        PROVE  s \in P
    <3>1. PICK x \in s : TRUE
        BY <2>1
    <3>2. s \ {x} \in SUBSET D /\ Cardinality(s \ {x}) <= k
        BY <2>1, Subsets
    <3>3. s \ {x} \in P
        BY <1>2, <3>2
    <3>4. (s \ {x}) \cup {x} \in P
        BY <3>2, <3>3
    <3>5. (s \ {x}) \cup {x} = s
        OBVIOUS
    <3>6. QED
        BY <3>4, <3>5
  <2>2. QED
      BY <2>1
<1>3. Cardinality(D) \in Good
  <2> HIDE DEF Good
  <2>1. \A k \in Nat : k \in Good => k + 1 \in Good
      BY <1>2
  <2>2. Nat \subseteq Good
      BY <1>1, <2>1, SetInduction
  <2>3. QED
      BY <2>2, FS_CardinalityType
<1>4. QED
    BY <1>3, Subsets

\* What is smaller element by element has the smaller sum.
LEMMA SumPointwise ==
    ASSUME NEW v, NEW w, NEW D, IsFiniteSet(D),
           \A x \in D : v[x] \in Nat /\ w[x] \in Nat /\ v[x] <= w[x]
    PROVE  SumFunctionOnSet(v, D) <= SumFunctionOnSet(w, D)
<1> DEFINE V(s) == SumFunctionOnSet(v, s)
           W(s) == SumFunctionOnSet(w, s)
           P == {s \in SUBSET D : V(s) <= W(s)}
<1>1. \A s \in SUBSET D : V(s) \in Nat /\ W(s) \in Nat
  <2>1. \A s \in SUBSET D : IsFiniteSet(s)
      BY FS_Subset
  <2>2. QED
      BY <2>1, SumType
<1>2. {} \in P
  <2>1. V({}) = 0 /\ W({}) = 0
      BY SumType
  <2>2. QED
      BY <2>1
<1>3. ASSUME NEW s \in SUBSET D, NEW x \in D \ s, s \in P
      PROVE  s \cup {x} \in P
  <2>1. V(s \cup {x}) = v[x] + V(s) /\ W(s \cup {x}) = w[x] + W(s)
    <3>1. IsFiniteSet(s)
        BY FS_Subset
    <3>2. QED
        BY <3>1, SumAdd
  <2>2. V(s) <= W(s) /\ v[x] <= w[x] /\ v[x] \in Nat /\ w[x] \in Nat
      BY <1>3
  <2> HIDE DEF V, W
  <2>3. V(s \cup {x}) <= W(s \cup {x})
      BY <1>1, <2>1, <2>2
  <2>4. QED
      BY <2>3
<1>4. D \in P
  <2> HIDE DEF P
  <2>1. QED
      BY <1>2, <1>3, SubsetInduction
<1>5. QED
    BY <1>4

\* The sum over a union of sets with nothing in common is the sum of their sums.
LEMMA SumUnion ==
    ASSUME NEW w, NEW D, IsFiniteSet(D), \A x \in D : w[x] \in Nat,
           NEW I, IsFiniteSet(I), NEW R \in [I -> SUBSET D],
           \A a, b \in I : a # b => R[a] \cap R[b] = {},
           NEW v, \A x \in I : v[x] = SumFunctionOnSet(w, R[x])
    PROVE  SumFunctionOnSet(w, UNION {R[x] : x \in I}) = SumFunctionOnSet(v, I)
<1> DEFINE U(s) == UNION {R[x] : x \in s}
           W(s) == SumFunctionOnSet(w, s)
           V(s) == SumFunctionOnSet(v, s)
           P == {s \in SUBSET I : W(U(s)) = V(s)}
<1>1. \A s \in SUBSET D : IsFiniteSet(s) /\ W(s) \in Nat
  <2>1. \A s \in SUBSET D : IsFiniteSet(s)
      BY FS_Subset
  <2>2. QED
      BY <2>1, SumType
<1>2. {} \in P
  <2>1. W({}) = 0 /\ V({}) = 0
      BY FS_EmptySet, SumType
  <2>2. U({}) = {}
      OBVIOUS
  <2>3. QED
      BY <2>1, <2>2
<1>3. ASSUME NEW s \in SUBSET I, NEW x \in I \ s, s \in P
      PROVE  s \cup {x} \in P
  <2>1. U(s \cup {x}) = U(s) \cup R[x] /\ U(s) \in SUBSET D /\ R[x] \in SUBSET D
      OBVIOUS
  <2>2. U(s) \cap R[x] = {}
      BY <1>3
  <2>3. W(U(s)) = V(s) /\ v[x] = W(R[x])
      BY <1>3
  <2>4. V(s \cup {x}) = v[x] + V(s)
    <3>1. IsFiniteSet(s)
        BY FS_Subset
    <3>2. \A y \in s \cup {x} : v[y] \in Nat
        BY <1>1
    <3>3. QED
        BY <3>1, <3>2, SumAdd
  <2> HIDE DEF U
  <2>5. W(U(s) \cup R[x]) = W(U(s)) + W(R[x])
      BY <1>1, <2>1, <2>2, SumDisjoint
  <2>6. W(U(s)) \in Nat /\ W(R[x]) \in Nat
      BY <1>1, <2>1
  <2>7. W(U(s \cup {x})) = W(U(s)) + W(R[x])
      BY <2>1, <2>5, Zenon
  <2> HIDE DEF W, V
  <2>8. W(U(s \cup {x})) = V(s \cup {x})
      BY <2>3, <2>4, <2>6, <2>7
  <2>9. QED
      BY <2>8 DEF V, W
<1>4. I \in P
  <2> HIDE DEF P
  <2>1. QED
      BY <1>2, <1>3, SubsetInduction
<1>5. QED
    BY <1>4

\* A sum of zeros is zero.
LEMMA SumZero ==
    ASSUME NEW w, NEW D, IsFiniteSet(D), \A x \in D : w[x] = 0
    PROVE  SumFunctionOnSet(w, D) = 0
<1> DEFINE P == {s \in SUBSET D : SumFunctionOnSet(w, s) = 0}
<1>1. {} \in P
    BY FS_EmptySet, SumType
<1>2. ASSUME NEW s \in SUBSET D, NEW x \in D \ s, s \in P
      PROVE  s \cup {x} \in P
  <2>1. SumFunctionOnSet(w, s \cup {x}) = w[x] + SumFunctionOnSet(w, s)
    <3>1. IsFiniteSet(s)
        BY FS_Subset
    <3>2. QED
        BY <3>1, SumAdd
  <2>2. QED
      BY <1>2, <2>1
<1>3. D \in P
  <2> HIDE DEF P
  <2>1. QED
      BY <1>1, <1>2, SubsetInduction
<1>4. QED
    BY <1>3

-----------------------------------------------------------------------------
(* Lemmas on the operators the actions are built from *)

\* The cost of a call is a natural number, whatever is unpriced or unreported.
LEMMA CostIsNat ==
    ASSUME NEW c \in Calls, NEW u \in Usages \cup {NoUsage}
    PROVE  cost_usd(RequestOf[c], u) \in Nat
<1> DEFINE r == RequestOf[c]
<1>1. r \in Request
    BY RequestAssumption
<1>2. Rate(r.in_price) \in Nat /\ Rate(r.out_price) \in Nat
    BY <1>1 DEF Request, Price, Rate
<1>3. CASE u = NoUsage
    BY <1>3 DEF cost_usd
<1>4. CASE u # NoUsage
  <2>1. u.in \in Nat /\ u.out \in Nat
      BY <1>4, UsageAssumption DEF Usage
  <2>2. \A m, n \in Nat : m * n \in Nat
      OBVIOUS
  <2>3. QED
      BY <1>2, <1>4, <2>1, <2>2 DEF cost_usd
<1>5. QED
    BY <1>3, <1>4

\* A set of calls is finite and its cardinality a natural number.
LEMMA CallSetsAreFinite ==
    ASSUME NEW S \in SUBSET Calls
    PROVE  IsFiniteSet(S) /\ Cardinality(S) \in Nat
BY CallsAssumption, FS_Subset, FS_CardinalityType

\* A fuse that refuses is a fuse.
LEMMA DueFuseType ==
    ASSUME TypeOK
    PROVE  DueFuse \in Fuses \cup {NoTrip}
BY DEF TypeOK, DueFuse, Fuses, NoTrip

\* A trip keeps the breaker well typed.
LEMMA TripType ==
    ASSUME TypeOK, NEW fuse \in Fuses, NEW spend \in Nat, Trip(fuse, spend)
    PROVE  /\ tripped' \in Fuses \cup {NoTrip}
           /\ spend_at_trip' \in Nat
           /\ settled_after_trip' \in Nat
BY DEF TypeOK, Trip, breaker

\* Handing chairs over takes no chair that is not free.
LEMMA HandOverType ==
    ASSUME NEW free \in Nat, NEW most \in Nat, most <= free, NEW W, HandOver(free, most, W)
    PROVE  /\ W \subseteq In("waiting") /\ W \in SUBSET Calls
           /\ Cardinality(W) \in Nat
           /\ value' = free - Cardinality(W)
           /\ value' \in Nat
<1>1. W \subseteq In("waiting") /\ W \in SUBSET Calls /\ Cardinality(W) <= most
    BY DEF HandOver, Woken, In
<1>2. Cardinality(W) \in Nat
    BY <1>1, CallSetsAreFinite
<1>3. value' = free - Cardinality(W)
    BY DEF HandOver
<1>4. QED
    BY <1>1, <1>2, <1>3

\* A call that leaves the queue leaves a queue of calls.
LEMMA LeaveQueueType ==
    ASSUME waiters \in Seq(Calls), NEW c \in Calls, LeaveQueue(c)
    PROVE  waiters' \in Seq(Calls)
<1>1. PICK i \in DOMAIN waiters :
          waiters' = SubSeq(waiters, 1, i - 1) \o SubSeq(waiters, i + 1, Len(waiters))
    BY DEF LeaveQueue
<1>2. i \in 1..Len(waiters) /\ Len(waiters) \in Nat
    BY <1>1, LenProperties
<1>3. \A k \in 1..Len(waiters) : waiters[k] \in Calls
    BY ElementOfSeq
<1>4. SubSeq(waiters, 1, i - 1) \in Seq(Calls)
    BY <1>2, <1>3, SubSeqProperties
<1>5. SubSeq(waiters, i + 1, Len(waiters)) \in Seq(Calls)
    BY <1>2, <1>3, SubSeqProperties
<1>6. QED
    BY <1>1, <1>4, <1>5, ConcatProperties

\* A move keeps every call in a stage.
LEMMA MoveType ==
    ASSUME TypeOK, NEW c \in Calls, NEW stage \in Stages, NEW W, Move(c, stage, W)
    PROVE  pc' \in [Calls -> Stages]
BY DEF TypeOK, Move, Stages

\* A refusal keeps the books well typed.
LEMMA RefuseType ==
    ASSUME TypeOK, NEW c \in Calls, Refuse(c)
    PROVE  /\ frame' \in [Calls -> Frame] /\ calls_admitted' \in Nat
           /\ observed_spend' \in Nat /\ tripped' \in Fuses \cup {NoTrip}
           /\ spend_at_trip' \in Nat /\ settled_after_trip' \in Nat
           /\ deadline_passed' \in BOOLEAN /\ calls' \in Seq(Row)
<1>1. DueFuse \in Fuses
    BY DueFuseType DEF Refuse
<1>2. /\ tripped' \in Fuses \cup {NoTrip}
      /\ spend_at_trip' \in Nat /\ settled_after_trip' \in Nat
    BY <1>1, TripType DEF Refuse, TypeOK
<1>3. [call |-> c, status |-> "refused", cost |-> 0, calls_before |-> calls_admitted,
       spend_before |-> observed_spend] \in Row
    BY DEF TypeOK, Row
<1>4. calls' \in Seq(Row)
    BY <1>3 DEF TypeOK, Refuse
<1>5. QED
    BY <1>2, <1>4 DEF TypeOK, Refuse

\* So does an admission.
LEMMA AdmitType ==
    ASSUME TypeOK, NEW c \in Calls, Admit(c)
    PROVE  /\ frame' \in [Calls -> Frame] /\ calls_admitted' \in Nat
           /\ observed_spend' \in Nat /\ tripped' \in Fuses \cup {NoTrip}
           /\ spend_at_trip' \in Nat /\ settled_after_trip' \in Nat
           /\ deadline_passed' \in BOOLEAN /\ calls' \in Seq(Row)
BY DEF TypeOK, Admit, breaker, Frame

\* And a settlement.
LEMMA BookType ==
    ASSUME TypeOK, NEW c \in Calls, NEW u \in Usages \cup {NoUsage},
           NEW failed \in BOOLEAN, Book(c, u, failed)
    PROVE  /\ frame' \in [Calls -> Frame] /\ calls_admitted' \in Nat
           /\ observed_spend' \in Nat /\ tripped' \in Fuses \cup {NoTrip}
           /\ spend_at_trip' \in Nat /\ settled_after_trip' \in Nat
           /\ deadline_passed' \in BOOLEAN /\ calls' \in Seq(Row)
<1> DEFINE cost == cost_usd(RequestOf[c], u)
<1>1. cost \in Nat
    BY CostIsNat
<1> HIDE DEF cost
<1>2. observed_spend' = observed_spend + cost /\ observed_spend' \in Nat
    BY <1>1 DEF TypeOK, Book, cost
<1>3. frame[c] \in Frame
    BY DEF TypeOK
<1>4. calls' \in Seq(Row)
  <2>1. [call |-> c, status |-> IF failed THEN "failed" ELSE "completed", cost |-> cost,
         calls_before |-> frame[c].calls_before,
         spend_before |-> frame[c].spend_before] \in Row
      BY <1>1, <1>3 DEF Row, Frame
  <2>2. LogSettled(c, cost, failed)
      BY DEF Book, cost
  <2>3. QED
      BY <2>1, <2>2 DEF LogSettled, TypeOK
<1>5. /\ tripped' \in Fuses \cup {NoTrip}
      /\ spend_at_trip' \in Nat /\ settled_after_trip' \in Nat
  <2>1. BreakerAtSettle(observed_spend + cost)
      BY DEF Book, cost
  <2>2. QED
      BY <1>1, <2>1 DEF BreakerAtSettle, Trip, breaker, TypeOK, Fuses, NoTrip
<1>6. QED
    BY <1>2, <1>4, <1>5 DEF Book, TypeOK

-----------------------------------------------------------------------------
(* Type correctness *)

\* Every step keeps the variables in their types; in particular no chair is taken
\* that is not free.
LEMMA TypeStep == TypeOK /\ [Next]_vars => TypeOK'
<1> SUFFICES ASSUME TypeOK, [Next]_vars PROVE TypeOK'
    OBVIOUS
<1>0. /\ value \in Nat /\ waiters \in Seq(Calls)
      /\ "done" \in Stages /\ "inflight" \in Stages /\ "waiting" \in Stages
      /\ "withdrawn" \in Stages /\ "revoked" \in Stages
    BY DEF TypeOK, Stages
<1>1. CASE DeadlinePasses
    BY <1>1 DEF DeadlinePasses, TypeOK, room, breaker
<1>2. CASE CheckTime
  <2>1. /\ tripped' \in Fuses \cup {NoTrip}
        /\ spend_at_trip' \in Nat /\ settled_after_trip' \in Nat
      BY <1>2, TripType DEF CheckTime, TypeOK, Fuses
  <2>2. QED
      BY <1>2, <2>1 DEF CheckTime, TypeOK, room
<1>3. ASSUME NEW c \in Calls, RefuseOnArrival(c)
      PROVE  TypeOK'
    BY <1>0, <1>3, RefuseType, MoveType DEF RefuseOnArrival, TypeOK, room
<1>4. ASSUME NEW c \in Calls, FailWithoutKey(c)
      PROVE  TypeOK'
  <2>1. pc' \in [Calls -> Stages]
      BY <1>0, <1>4, MoveType DEF FailWithoutKey
  <2>2. QED
      BY <1>4, <2>1 DEF FailWithoutKey, TypeOK, room, breaker
<1>5. ASSUME NEW c \in Calls, AdmitOnArrival(c)
      PROVE  TypeOK'
  <2>1. pc' \in [Calls -> Stages]
      BY <1>0, <1>5, MoveType DEF AdmitOnArrival
  <2>2. value' \in Nat
      BY <1>0, <1>5 DEF AdmitOnArrival, Locked
  <2>3. QED
      BY <1>0, <1>5, <2>1, <2>2, AdmitType DEF AdmitOnArrival, TypeOK
<1>6. ASSUME NEW c \in Calls, Wait(c)
      PROVE  TypeOK'
  <2>1. pc' \in [Calls -> Stages]
      BY <1>0, <1>6, MoveType DEF Wait
  <2>2. waiters' \in Seq(Calls)
      BY <1>0, <1>6 DEF Wait
  <2>3. QED
      BY <1>6, <2>1, <2>2 DEF Wait, TypeOK, breaker
<1>7. ASSUME NEW c \in Calls, CancelQueued(c)
      PROVE  TypeOK'
  <2>1. pc' \in [Calls -> Stages]
      BY <1>0, <1>7, MoveType DEF CancelQueued
  <2>2. QED
      BY <1>7, <2>1 DEF CancelQueued, TypeOK, room, breaker
<1>8. ASSUME NEW c \in Calls, NEW W, AdmitAfterWait(c, W)
      PROVE  TypeOK'
  <2>1. value' \in Nat
    <3>1. HandOver(value, value, W) /\ value <= value
        BY <1>0, <1>8 DEF AdmitAfterWait
    <3>2. QED
        BY <1>0, <3>1, HandOverType
  <2>2. pc' \in [Calls -> Stages]
      BY <1>0, <1>8, MoveType DEF AdmitAfterWait
  <2>3. QED
      BY <1>0, <1>8, <2>1, <2>2, AdmitType, LeaveQueueType DEF AdmitAfterWait, TypeOK
<1>9. ASSUME NEW c \in Calls, NEW W, RefuseAfterWait(c, W)
      PROVE  TypeOK'
  <2>1. value' \in Nat
      BY <1>0, <1>9, HandOverType DEF RefuseAfterWait
  <2>2. pc' \in [Calls -> Stages]
      BY <1>0, <1>9, MoveType DEF RefuseAfterWait
  <2>3. QED
      BY <1>0, <1>9, <2>1, <2>2, RefuseType, LeaveQueueType DEF RefuseAfterWait, TypeOK
<1>10. ASSUME NEW c \in Calls, NEW W, LeaveCancelled(c, W)
       PROVE  TypeOK'
  <2>1. value' \in Nat
    <3>1. PICK free \in {value, value + 1} : HandOver(free, free, W)
        BY <1>10 DEF LeaveCancelled
    <3>2. free \in Nat /\ free <= free
        BY <1>0
    <3>3. QED
        BY <3>1, <3>2, HandOverType
  <2>2. pc' \in [Calls -> Stages]
      BY <1>0, <1>10, MoveType DEF LeaveCancelled
  <2>3. waiters' \in Seq(Calls)
      BY <1>0, <1>10, LeaveQueueType DEF LeaveCancelled
  <2>4. QED
      BY <1>10, <2>1, <2>2, <2>3 DEF LeaveCancelled, TypeOK, breaker
<1>11. ASSUME NEW c \in Calls, NEW u \in Usages \cup {NoUsage}, NEW raised \in BOOLEAN,
              NEW W, Settle(c, u, raised, W)
       PROVE  TypeOK'
  <2>1. value' \in Nat
    <3>1. 1 <= value + 1 /\ value + 1 \in Nat
        BY <1>0
    <3>2. QED
        BY <1>11, <3>1, HandOverType DEF Settle
  <2>2. pc' \in [Calls -> Stages]
      BY <1>0, <1>11, MoveType DEF Settle
  <2>3. PICK failed \in BOOLEAN : Book(c, u, failed)
      BY <1>11 DEF Settle, Unmeterable, Accounted
  <2>4. QED
      BY <1>0, <1>11, <2>1, <2>2, <2>3, BookType DEF Settle, TypeOK
<1>12. CASE UNCHANGED vars
    BY <1>12 DEF vars, TypeOK
<1>13. QED
    BY <1>1, <1>2, <1>3, <1>4, <1>5, <1>6, <1>7, <1>8, <1>9, <1>10, <1>11, <1>12 DEF Next

LEMMA TypeInit == Init => TypeOK
<1> SUFFICES ASSUME Init PROVE TypeOK
    OBVIOUS
<1>1. waiters \in Seq(Calls) /\ calls \in Seq(Row)
    BY DEF Init
<1>2. pc \in [Calls -> Stages] /\ frame \in [Calls -> Frame]
    BY DEF Init, Stages, Frame
<1>3. /\ value \in Nat /\ calls_admitted \in Nat /\ observed_spend \in Nat
      /\ spend_at_trip \in Nat /\ settled_after_trip \in Nat
    BY LimitAssumption DEF Init
<1>4. tripped \in Fuses \cup {NoTrip} /\ deadline_passed \in BOOLEAN
    BY DEF Init
<1>5. QED
    BY <1>1, <1>2, <1>3, <1>4 DEF TypeOK

\* Type correctness of the door.
THEOREM DoorTypes == Spec => []TypeOK
<1>1. QED
    BY TypeInit, TypeStep, PTL DEF Spec

-----------------------------------------------------------------------------
(* Chairs *)

Seats == {"woken", "revoked", "inflight"}

\* Who owns a chair, who waits and who is in flight after a move.
LEMMA MoveEffect ==
    ASSUME TypeOK, NEW c \in Calls, NEW stage \in Stages,
           NEW W \in SUBSET In("waiting"), c \notin W, Move(c, stage, W)
    PROVE  /\ Seated' = (IF stage \in Seats THEN Seated \cup {c} ELSE Seated \ {c}) \cup W
           /\ In("inflight")' = IF stage = "inflight" THEN In("inflight") \cup {c}
                                ELSE In("inflight") \ {c}
           /\ In("waiting")' = IF stage = "waiting" THEN (In("waiting") \cup {c}) \ W
                               ELSE (In("waiting") \ {c}) \ W
           /\ W \subseteq In("woken")'
<1>1. \A d \in Calls :
          pc'[d] = IF d = c THEN stage ELSE IF d \in W THEN "woken" ELSE pc[d]
    BY DEF Move
<1>2. \A d \in W : d \in Calls /\ pc[d] = "waiting" /\ d # c
    BY DEF In
<1>3. Seated' = (IF stage \in Seats THEN Seated \cup {c} ELSE Seated \ {c}) \cup W
    BY <1>1, <1>2 DEF Seated, Seats
<1>4. In("inflight")' = IF stage = "inflight" THEN In("inflight") \cup {c}
                        ELSE In("inflight") \ {c}
    BY <1>1, <1>2 DEF In
<1>5. In("waiting")' = IF stage = "waiting" THEN (In("waiting") \cup {c}) \ W
                       ELSE (In("waiting") \ {c}) \ W
    BY <1>1, <1>2 DEF In
<1>6. W \subseteq In("woken")'
    BY <1>1, <1>2 DEF In
<1>7. QED
    BY <1>3, <1>4, <1>5, <1>6

\* The balance of one move: the chair c gives up or takes, and those handed to W.
LEMMA ChairBalance ==
    ASSUME TypeOK, ChairsConserved, NEW c \in Calls, NEW stage \in Stages \ {"waiting"},
           NEW W \in SUBSET In("waiting"), c \notin W, Move(c, stage, W),
           value' = value - Cardinality(W)
                  + (IF c \in Seated THEN 1 ELSE 0) - (IF stage \in Seats THEN 1 ELSE 0)
    PROVE  ChairsConserved'
<1> DEFINE S == IF stage \in Seats THEN Seated \cup {c} ELSE Seated \ {c}
<1>1. Seated' = S \cup W
    BY MoveEffect
<1>2. S \cap W = {}
    BY DEF Seated, In
<1>3. /\ IsFiniteSet(Seated) /\ Cardinality(Seated) \in Nat
      /\ IsFiniteSet(W) /\ Cardinality(W) \in Nat
    BY CallSetsAreFinite DEF Seated, In
<1>4. /\ IsFiniteSet(S) /\ Cardinality(S) \in Nat
      /\ Cardinality(S) = Cardinality(Seated) - (IF c \in Seated THEN 1 ELSE 0)
                                              + (IF stage \in Seats THEN 1 ELSE 0)
  <2>1. CASE stage \in Seats
    <3>1. /\ IsFiniteSet(Seated \cup {c})
          /\ Cardinality(Seated \cup {c})
               = IF c \in Seated THEN Cardinality(Seated) ELSE Cardinality(Seated) + 1
        BY <1>3, FS_AddElement
    <3>2. QED
        BY <1>3, <2>1, <3>1
  <2>2. CASE stage \notin Seats
    <3>1. /\ IsFiniteSet(Seated \ {c})
          /\ Cardinality(Seated \ {c})
               = IF c \in Seated THEN Cardinality(Seated) - 1 ELSE Cardinality(Seated)
        BY <1>3, FS_RemoveElement
    <3>2. Cardinality(Seated \ {c}) \in Nat
        BY <3>1, FS_CardinalityType
    <3>3. QED
        BY <1>3, <2>2, <3>1, <3>2
  <2>3. QED
      BY <2>1, <2>2
<1> HIDE DEF S
<1>5. Cardinality(S \cup W) = Cardinality(S) + Cardinality(W)
  <2>1. Cardinality({}) = 0
      BY FS_EmptySet
  <2>2. Cardinality(S \cup W) = Cardinality(S) + Cardinality(W) - Cardinality(S \cap W)
      BY <1>3, <1>4, FS_Union
  <2>3. Cardinality(S \cap W) = 0
      BY <1>2, <2>1, Zenon
  <2>4. QED
      BY <1>3, <1>4, <2>2, <2>3
<1>6. value' + Cardinality(Seated') = Concurrency
  <2> DEFINE before == Cardinality(Seated)
             after == Cardinality(S)
             handed == Cardinality(W)
             left == IF c \in Seated THEN 1 ELSE 0
             taken == IF stage \in Seats THEN 1 ELSE 0
  <2>1. /\ value \in Nat /\ before \in Nat /\ handed \in Nat /\ left \in Nat /\ taken \in Nat
        /\ value + before = Concurrency
    BY <1>3 DEF TypeOK, ChairsConserved
  <2>2. value' = value - handed + left - taken /\ after = before - left + taken
    BY <1>4
  <2>3. Cardinality(Seated') = after + handed
    BY <1>1, <1>5
  <2> HIDE DEF before, after, handed, left, taken
  <2>4. QED
    BY <2>1, <2>2, <2>3
<1>7. QED
    BY <1>6 DEF ChairsConserved

\* Steps that leave the stages and the room alone keep the chairs.
LEMMA RoomUnchanged ==
    ASSUME UNCHANGED <<pc, value>>
    PROVE  /\ ChairsConserved => ChairsConserved'
           /\ NoIdleChair => NoIdleChair'
BY DEF ChairsConserved, NoIdleChair, Seated, In

\* After chairs are handed over, an idle one beside a waiter has a woken task.
LEMMA HandOverLeavesNoIdleChair ==
    ASSUME TypeOK, NoIdleChair, NEW c \in Calls, pc[c] # "waiting",
           NEW stage \in Stages \ {"waiting"},
           NEW free \in Nat, NEW most \in Nat, most = free \/ most >= 1, most <= free,
           NEW W, HandOver(free, most, W), Move(c, stage, W)
    PROVE  NoIdleChair'
<1>1. /\ W \in SUBSET In("waiting") /\ Cardinality(W) \in Nat
      /\ value' = free - Cardinality(W) /\ value' \in Nat
    BY HandOverType
<1>2. c \notin W
    BY <1>1 DEF In
<1>3. In("waiting")' = (In("waiting") \ {c}) \ W /\ W \subseteq In("woken")'
    BY <1>1, <1>2, MoveEffect
<1>4. CASE W = In("waiting")
    BY <1>3, <1>4 DEF NoIdleChair
<1>5. CASE W # In("waiting")
  <2>1. Cardinality(W) = most
      BY <1>5 DEF HandOver, Woken
  <2>2. CASE most = free
      BY <1>1, <2>1, <2>2 DEF NoIdleChair
  <2>3. CASE most >= 1
    <3>1. W # {}
        BY <2>1, <2>3, FS_EmptySet
    <3>2. QED
        BY <1>3, <3>1 DEF NoIdleChair
  <2>4. QED
      BY <2>2, <2>3
<1>6. QED
    BY <1>4, <1>5

\* Every step conserves chairs and loses no wakeup.
LEMMA ChairStep ==
    TypeOK /\ ChairsConserved /\ NoIdleChair /\ [Next]_vars
        => ChairsConserved' /\ NoIdleChair'
<1> SUFFICES ASSUME TypeOK, ChairsConserved, NoIdleChair, [Next]_vars
             PROVE  ChairsConserved' /\ NoIdleChair'
    OBVIOUS
<1>0. /\ value \in Nat /\ value + 1 \in Nat /\ Cardinality({}) = 0
      /\ {"done", "inflight", "withdrawn", "revoked"} \subseteq Stages \ {"waiting"}
      /\ {"done", "withdrawn"} \cap Seats = {}
      /\ {"inflight", "revoked"} \subseteq Seats
      /\ \A c \in Calls : pc[c] \in Seats <=> c \in Seated
    BY FS_EmptySet DEF TypeOK, Stages, Seats, Seated
<1>1. CASE DeadlinePasses
    BY <1>1, RoomUnchanged DEF DeadlinePasses, room
<1>2. CASE CheckTime
    BY <1>2, RoomUnchanged DEF CheckTime, room

\* A newcomer that is refused or fails held no chair.
<1>3. ASSUME NEW c \in Calls, pc[c] = "new", Move(c, "done", {}), UNCHANGED room
      PROVE  ChairsConserved' /\ NoIdleChair'
  <2>1. c \notin Seated
      BY <1>3 DEF Seated
  <2>2. value' = value - Cardinality({})
               + (IF c \in Seated THEN 1 ELSE 0) - (IF "done" \in Seats THEN 1 ELSE 0)
      BY <1>0, <1>3, <2>1 DEF room
  <2>3. ChairsConserved'
      BY <1>0, <1>3, <2>2, ChairBalance
  <2>4. NoIdleChair'
      BY <1>3 DEF Move, NoIdleChair, In, room, TypeOK
  <2>5. QED
      BY <2>3, <2>4
<1>4. ASSUME NEW c \in Calls, AdmitOnArrival(c)
      PROVE  ChairsConserved' /\ NoIdleChair'
  <2>1. pc[c] = "new" /\ c \notin Seated /\ Move(c, "inflight", {}) /\ value' = value - 1
      BY <1>4 DEF AdmitOnArrival, Seated
  <2>2. value' = value - Cardinality({})
               + (IF c \in Seated THEN 1 ELSE 0) - (IF "inflight" \in Seats THEN 1 ELSE 0)
      BY <1>0, <2>1
  <2>3. ChairsConserved'
      BY <1>0, <2>1, <2>2, ChairBalance
  <2>4. In("waiting") = {}
      BY <1>4 DEF AdmitOnArrival, Locked
  <2>5. In("waiting")' = {}
      BY <2>1, <2>4 DEF Move, In, TypeOK
  <2>6. QED
      BY <2>3, <2>5 DEF NoIdleChair
<1>5. ASSUME NEW c \in Calls, Wait(c)
      PROVE  ChairsConserved' /\ NoIdleChair'
  <2>1. pc[c] = "new" /\ Move(c, "waiting", {}) /\ value' = value /\ Locked
      BY <1>5 DEF Wait
  <2>2. Seated' = Seated
      BY <2>1 DEF Move, Seated, TypeOK
  <2>3. In("woken")' = In("woken") /\ In("revoked")' = In("revoked")
      BY <2>1 DEF Move, In, TypeOK
  <2>4. value > 0 => In("woken") \cup In("revoked") # {}
      BY <1>0, <2>1 DEF Locked, NoIdleChair
  <2>5. QED
      BY <2>1, <2>2, <2>3, <2>4 DEF ChairsConserved, NoIdleChair
<1>6. ASSUME NEW c \in Calls, CancelQueued(c)
      PROVE  ChairsConserved' /\ NoIdleChair'
  <2>1. /\ value' = value /\ pc[c] \in {"waiting", "woken"}
        /\ Move(c, IF pc[c] = "waiting" THEN "withdrawn" ELSE "revoked", {})
      BY <1>6 DEF CancelQueued, room
  <2>2. Seated' = Seated
      BY <2>1 DEF Move, Seated, TypeOK
  <2>3. In("waiting")' \subseteq In("waiting")
      BY <2>1 DEF Move, In, TypeOK
  <2>4. In("woken") \cup In("revoked") \subseteq In("woken")' \cup In("revoked")'
      BY <2>1 DEF Move, In, TypeOK
  <2>5. QED
      BY <2>1, <2>2, <2>3, <2>4 DEF ChairsConserved, NoIdleChair
<1>7. ASSUME NEW c \in Calls, NEW W, AdmitAfterWait(c, W)
      PROVE  ChairsConserved' /\ NoIdleChair'
  <2>1. /\ pc[c] = "woken" /\ c \in Seated /\ Move(c, "inflight", W)
        /\ HandOver(value, value, W) /\ value <= value
      BY <1>0, <1>7 DEF AdmitAfterWait, Seated
  <2>2. /\ W \in SUBSET In("waiting") /\ c \notin W /\ Cardinality(W) \in Nat
        /\ value' = value - Cardinality(W)
      BY <1>0, <2>1, HandOverType DEF In
  <2>3. value' = value - Cardinality(W)
               + (IF c \in Seated THEN 1 ELSE 0) - (IF "inflight" \in Seats THEN 1 ELSE 0)
      BY <1>0, <2>1, <2>2
  <2>4. ChairsConserved'
      BY <1>0, <2>1, <2>2, <2>3, ChairBalance
  <2>5. NoIdleChair'
      BY <1>0, <2>1, HandOverLeavesNoIdleChair
  <2>6. QED
      BY <2>4, <2>5

\* A call that gives its chair back; up to most chairs pass on to waiters.
<1>8. ASSUME NEW c \in Calls, c \in Seated, NEW W, Move(c, "done", W),
             NEW most \in Nat, most >= 1, most <= value + 1,
             HandOver(value + 1, most, W)
      PROVE  ChairsConserved' /\ NoIdleChair'
  <2>1. /\ W \in SUBSET In("waiting") /\ Cardinality(W) \in Nat
        /\ value' = (value + 1) - Cardinality(W)
      BY <1>0, <1>8, HandOverType
  <2>2. c \notin W /\ pc[c] # "waiting"
      BY <1>8, <2>1 DEF In, Seated
  <2>3. value' = value - Cardinality(W)
               + (IF c \in Seated THEN 1 ELSE 0) - (IF "done" \in Seats THEN 1 ELSE 0)
      BY <1>0, <1>8, <2>1
  <2>4. ChairsConserved'
      BY <1>0, <1>8, <2>1, <2>2, <2>3, ChairBalance
  <2>5. NoIdleChair'
      BY <1>0, <1>8, <2>2, HandOverLeavesNoIdleChair
  <2>6. QED
      BY <2>4, <2>5
<1>9. ASSUME NEW c \in Calls, NEW W, RefuseAfterWait(c, W)
      PROVE  ChairsConserved' /\ NoIdleChair'
  <2>1. /\ c \in Seated /\ Move(c, "done", W) /\ HandOver(value + 1, value + 1, W)
        /\ value + 1 >= 1 /\ value + 1 <= value + 1
      BY <1>0, <1>9 DEF RefuseAfterWait, Seated
  <2>2. QED
      BY <1>0, <1>8, <2>1
<1>10. ASSUME NEW c \in Calls, NEW W, LeaveCancelled(c, W)
       PROVE  ChairsConserved' /\ NoIdleChair'
  <2>1. CASE pc[c] = "revoked"
    <3>1. /\ c \in Seated /\ Move(c, "done", W) /\ HandOver(value + 1, value + 1, W)
          /\ value + 1 >= 1 /\ value + 1 <= value + 1
        BY <1>0, <1>10, <2>1 DEF LeaveCancelled, Seated
    <3>2. QED
        BY <1>0, <1>8, <3>1
  <2>2. CASE pc[c] = "withdrawn"
    <3>1. /\ c \notin Seated /\ Move(c, "done", W) /\ HandOver(value, value, W)
          /\ value <= value
        BY <1>0, <1>10, <2>2 DEF LeaveCancelled, Seated
    <3>2. /\ W \in SUBSET In("waiting") /\ c \notin W /\ Cardinality(W) \in Nat
          /\ value' = value - Cardinality(W)
        BY <1>0, <2>2, <3>1, HandOverType DEF In
    <3>3. value' = value - Cardinality(W)
                 + (IF c \in Seated THEN 1 ELSE 0) - (IF "done" \in Seats THEN 1 ELSE 0)
        BY <1>0, <3>1, <3>2
    <3>4. ChairsConserved'
        BY <1>0, <3>1, <3>2, <3>3, ChairBalance
    <3>5. NoIdleChair'
        BY <1>0, <2>2, <3>1, HandOverLeavesNoIdleChair
    <3>6. QED
        BY <3>4, <3>5
  <2>3. QED
      BY <1>10, <2>1, <2>2 DEF LeaveCancelled
<1>11. ASSUME NEW c \in Calls, NEW u \in Usages \cup {NoUsage}, NEW raised \in BOOLEAN,
              NEW W, Settle(c, u, raised, W)
       PROVE  ChairsConserved' /\ NoIdleChair'
  <2>1. /\ c \in Seated /\ Move(c, "done", W) /\ HandOver(value + 1, 1, W)
        /\ 1 \in Nat /\ 1 >= 1 /\ 1 <= value + 1
      BY <1>0, <1>11 DEF Settle, Seated
  <2>2. QED
      BY <1>0, <1>8, <2>1
<1>12. CASE UNCHANGED vars
    BY <1>12, RoomUnchanged DEF vars
<1>13. ASSUME NEW c \in Calls, RefuseOnArrival(c) \/ FailWithoutKey(c)
       PROVE  ChairsConserved' /\ NoIdleChair'
    BY <1>3, <1>13 DEF RefuseOnArrival, FailWithoutKey
<1>14. QED
    BY <1>1, <1>2, <1>4, <1>5, <1>6, <1>7, <1>9, <1>10, <1>11, <1>12, <1>13 DEF Next

LEMMA ChairInit == Init => ChairsConserved /\ NoIdleChair
<1> SUFFICES ASSUME Init PROVE ChairsConserved /\ NoIdleChair
    OBVIOUS
<1>1. Seated = {} /\ In("waiting") = {} /\ value = Concurrency
    BY DEF Init, Seated, In
<1>2. QED
    BY <1>1, FS_EmptySet, LimitAssumption DEF ChairsConserved, NoIdleChair

\* Chairs are conserved, and none idles beside a waiter without a task to pass it on.
THEOREM DoorChairs == Spec => []RoomSound
<1>1. Init => TypeOK /\ ChairsConserved /\ NoIdleChair
    BY TypeInit, ChairInit
<1>2. TypeOK /\ ChairsConserved /\ NoIdleChair /\ [Next]_vars
         => TypeOK' /\ ChairsConserved' /\ NoIdleChair'
    BY TypeStep, ChairStep
<1>3. QED
    BY <1>1, <1>2, PTL DEF Spec, RoomSound

-----------------------------------------------------------------------------
(* Fuses *)

InFlight == In("inflight")
flying == Cardinality(InFlight)

\* What a step does to the books and to the calls in flight.
Quiet == UNCHANGED <<InFlight, frame, calls_admitted, observed_spend, breaker, calls>>
TimeTrip ==
    /\ tripped = NoTrip /\ Trip("time", observed_spend)
    /\ UNCHANGED <<InFlight, frame, calls_admitted, observed_spend, calls>>
RefusedCall(c) ==
    Refuse(c) /\ UNCHANGED InFlight /\ pc[c] # "done" /\ pc'[c] = "done"
Admission(c) == c \notin InFlight /\ Admit(c) /\ InFlight' = InFlight \cup {c}
Settlement(c, u, failed) ==
    /\ c \in InFlight /\ Book(c, u, failed) /\ InFlight' = InFlight \ {c}
    /\ pc'[c] = "done"

\* Every step is one of five kinds.
LEMMA StepKinds ==
    ASSUME TypeOK, [Next]_vars
    PROVE  \/ Quiet
           \/ TimeTrip
           \/ \E c \in Calls : RefusedCall(c)
           \/ \E c \in Calls : Admission(c)
           \/ \E c \in Calls, u \in Usages \cup {NoUsage}, failed \in BOOLEAN :
                 Settlement(c, u, failed)
<1>0. {"done", "inflight", "waiting", "withdrawn", "revoked"} \subseteq Stages
      /\ {} \in SUBSET In("waiting")
    BY DEF Stages
<1>1. CASE DeadlinePasses
    BY <1>1 DEF DeadlinePasses, Quiet, InFlight, In, breaker
<1>2. CASE CheckTime
    BY <1>2 DEF CheckTime, TimeTrip, InFlight, In
<1>3. ASSUME NEW c \in Calls, RefuseOnArrival(c)
      PROVE  RefusedCall(c)
  <2>1. InFlight' = InFlight
      BY <1>0, <1>3, MoveEffect DEF RefuseOnArrival, InFlight, In
  <2>2. pc[c] # "done" /\ pc'[c] = "done"
      BY <1>3 DEF RefuseOnArrival, Move
  <2>3. QED
      BY <1>3, <2>1, <2>2 DEF RefuseOnArrival, RefusedCall
<1>4. ASSUME NEW c \in Calls, FailWithoutKey(c)
      PROVE  Quiet
    BY <1>0, <1>4, MoveEffect DEF FailWithoutKey, Quiet, InFlight, In
<1>5. ASSUME NEW c \in Calls, AdmitOnArrival(c)
      PROVE  Admission(c)
    BY <1>0, <1>5, MoveEffect DEF AdmitOnArrival, Admission, InFlight, In
<1>6. ASSUME NEW c \in Calls, Wait(c)
      PROVE  Quiet
    BY <1>0, <1>6, MoveEffect DEF Wait, Quiet, InFlight, In
<1>7. ASSUME NEW c \in Calls, CancelQueued(c)
      PROVE  Quiet
    BY <1>7 DEF CancelQueued, Move, Quiet, InFlight, In
<1>8. ASSUME NEW c \in Calls, NEW W \in SUBSET In("waiting"), AdmitAfterWait(c, W)
      PROVE  Admission(c)
  <2>1. c \notin W /\ c \notin InFlight
      BY <1>8 DEF AdmitAfterWait, In, InFlight
  <2>2. InFlight' = InFlight \cup {c}
      BY <1>0, <1>8, <2>1, MoveEffect DEF AdmitAfterWait, InFlight
  <2>3. QED
      BY <1>8, <2>1, <2>2 DEF AdmitAfterWait, Admission
<1>9. ASSUME NEW c \in Calls, NEW W \in SUBSET In("waiting"), RefuseAfterWait(c, W)
      PROVE  RefusedCall(c)
  <2>1. c \notin W /\ c \notin InFlight
      BY <1>9 DEF RefuseAfterWait, In, InFlight
  <2>2. InFlight' = InFlight \ {c}
      BY <1>0, <1>9, <2>1, MoveEffect DEF RefuseAfterWait, InFlight
  <2>3. pc[c] # "done" /\ pc'[c] = "done"
      BY <1>9 DEF RefuseAfterWait, Move
  <2>4. InFlight \ {c} = InFlight
      BY <2>1
  <2>5. QED
      BY <1>9, <2>2, <2>3, <2>4 DEF RefuseAfterWait, RefusedCall
<1>10. ASSUME NEW c \in Calls, NEW W \in SUBSET In("waiting"), LeaveCancelled(c, W)
       PROVE  Quiet
  <2>1. c \notin W /\ c \notin InFlight
      BY <1>10 DEF LeaveCancelled, In, InFlight
  <2>2. InFlight' = InFlight \ {c}
      BY <1>0, <1>10, <2>1, MoveEffect DEF LeaveCancelled, InFlight
  <2>3. QED
      BY <1>10, <2>1, <2>2 DEF LeaveCancelled, Quiet
<1>11. ASSUME NEW c \in Calls, NEW u \in Usages \cup {NoUsage}, NEW raised \in BOOLEAN,
              NEW W \in SUBSET In("waiting"), Settle(c, u, raised, W)
       PROVE  \E failed \in BOOLEAN : Settlement(c, u, failed)
  <2>1. c \notin W /\ c \in InFlight
      BY <1>11 DEF Settle, In, InFlight
  <2>2. InFlight' = InFlight \ {c}
      BY <1>0, <1>11, <2>1, MoveEffect DEF Settle, InFlight
  <2>3. PICK failed \in BOOLEAN : Book(c, u, failed)
      BY <1>11 DEF Settle, Unmeterable, Accounted
  <2>4. pc'[c] = "done"
      BY <1>11 DEF Settle, Move
  <2>5. QED
      BY <2>1, <2>2, <2>3, <2>4 DEF Settlement
<1>12. CASE UNCHANGED vars
    BY <1>12 DEF vars, Quiet, InFlight, In, breaker
<1>13. QED
    BY <1>1, <1>2, <1>3, <1>4, <1>5, <1>6, <1>7, <1>8, <1>9, <1>10, <1>11, <1>12 DEF Next

\* The calls in flight fit the room.
LEMMA InFlightFits ==
    ASSUME TypeOK, ChairsConserved
    PROVE  flying \in Nat /\ flying <= Concurrency /\ IsFiniteSet(InFlight)
<1>1. InFlight \in SUBSET Seated /\ Seated \in SUBSET Calls
    BY DEF InFlight, In, Seated
<1>2. /\ IsFiniteSet(Seated) /\ Cardinality(Seated) \in Nat
      /\ IsFiniteSet(InFlight) /\ flying \in Nat
    BY <1>1, CallSetsAreFinite DEF flying
<1>3. flying <= Cardinality(Seated)
    BY <1>1, <1>2, FS_Subset DEF flying
<1>4. QED
    BY <1>2, <1>3, LimitAssumption DEF ChairsConserved, TypeOK

\* How admissions and settlements count.
LEMMA InFlightCount ==
    ASSUME TypeOK, ChairsConserved, NEW c \in Calls
    PROVE  /\ c \notin InFlight => Cardinality(InFlight \cup {c}) = flying + 1
           /\ c \in InFlight => Cardinality(InFlight \ {c}) = flying - 1
BY InFlightFits, FS_AddElement, FS_RemoveElement DEF flying

\* The count fuse admits at most max_llm_calls calls, and tells the truth.
LEMMA CallLimitStep ==
    TypeOK /\ CallLimitHolds /\ [Next]_vars => CallLimitHolds'
<1> SUFFICES ASSUME TypeOK, CallLimitHolds, [Next]_vars PROVE CallLimitHolds'
    OBVIOUS
<1>0. calls_admitted \in Nat /\ (MaxLlmCalls # NoLimit => MaxLlmCalls \in Nat)
    BY LimitAssumption DEF TypeOK
<1>1. CASE Quiet
    BY <1>1 DEF Quiet, breaker, CallLimitHolds
<1>2. CASE TimeTrip
    BY <1>2 DEF TimeTrip, Trip, CallLimitHolds
<1>3. ASSUME NEW c \in Calls, RefusedCall(c)
      PROVE  CallLimitHolds'
  <2>1. calls_admitted' = calls_admitted /\ Trip(DueFuse, observed_spend)
      BY <1>3 DEF RefusedCall, Refuse
  <2>2. tripped' \in {tripped, DueFuse}
      BY <2>1 DEF Trip, breaker
  <2>3. DueFuse = "llm_calls" => calls_admitted = MaxLlmCalls
      BY <1>0 DEF DueFuse, CallLimitHolds, NoTrip
  <2>4. QED
      BY <2>1, <2>2, <2>3 DEF CallLimitHolds
<1>4. ASSUME NEW c \in Calls, Admission(c)
      PROVE  CallLimitHolds'
  <2>1. DueFuse = NoTrip /\ calls_admitted' = calls_admitted + 1 /\ tripped' = tripped
      BY <1>4 DEF Admission, Admit, breaker
  <2>2. tripped = NoTrip /\ (MaxLlmCalls # NoLimit => calls_admitted < MaxLlmCalls)
      BY <1>0, <2>1 DEF DueFuse, NoTrip, TypeOK, Fuses
  <2>3. QED
      BY <1>0, <2>1, <2>2 DEF CallLimitHolds, NoTrip
<1>5. ASSUME NEW c \in Calls, NEW u, NEW failed, Settlement(c, u, failed)
      PROVE  CallLimitHolds'
  <2>1. calls_admitted' = calls_admitted /\ tripped' \in {tripped, "spend"}
      BY <1>5 DEF Settlement, Book, BreakerAtSettle, Trip, breaker
  <2>2. QED
      BY <2>1 DEF CallLimitHolds
<1>6. QED
    BY <1>1, <1>2, <1>3, <1>4, <1>5, StepKinds

\* The call-count fuse is a hard limit, under any interleaving of the callers.
THEOREM DoorCallLimit == Spec => []CallLimitHolds
<1>1. Init => CallLimitHolds
    BY LimitAssumption DEF Init, CallLimitHolds, NoTrip
<1>2. QED
    BY <1>1, CallLimitStep, DoorTypes, PTL DEF Spec

\* The first trip is final: no later fuse takes it over, nothing is admitted.
THEOREM DoorHaltIsFinal == Spec => HaltIsFinal
<1>1. ASSUME TypeOK, [Next]_vars, tripped # NoTrip
      PROVE  /\ tripped' = tripped /\ spend_at_trip' = spend_at_trip
             /\ calls_admitted' = calls_admitted
  <2>1. CASE Quiet
      BY <2>1 DEF Quiet, breaker
  <2>2. CASE TimeTrip
      BY <1>1, <2>2 DEF TimeTrip
  <2>3. ASSUME NEW c \in Calls, RefusedCall(c)
        PROVE  /\ tripped' = tripped /\ spend_at_trip' = spend_at_trip
               /\ calls_admitted' = calls_admitted
      BY <1>1, <2>3 DEF RefusedCall, Refuse, Trip, breaker
  <2>4. ASSUME NEW c \in Calls
        PROVE  ~Admission(c)
      BY <1>1 DEF Admission, Admit, DueFuse
  <2>5. ASSUME NEW c \in Calls, NEW u, NEW failed, Settlement(c, u, failed)
        PROVE  /\ tripped' = tripped /\ spend_at_trip' = spend_at_trip
               /\ calls_admitted' = calls_admitted
      BY <1>1, <2>5 DEF Settlement, Book, BreakerAtSettle
  <2>6. QED
      BY <1>1, <2>1, <2>2, <2>3, <2>4, <2>5, StepKinds
<1>2. TypeOK /\ [Next]_vars => [tripped # NoTrip =>
             /\ tripped' = tripped /\ spend_at_trip' = spend_at_trip
             /\ calls_admitted' = calls_admitted]_vars
    BY <1>1
<1>3. QED
    BY <1>2, DoorTypes, PTL DEF Spec, HaltIsFinal

\* Multiples of the bound on one call's cost.
LEMMA Multiples ==
    ASSUME NEW m \in Nat, NEW a \in Nat, NEW b \in Nat
    PROVE  /\ m * a \in Nat
           /\ m * (a + 1) = m * a + m
           /\ m * (a - 1) = m * a - m
           /\ a <= b => m * a <= m * b
<1>1. m * a \in Nat /\ m * (a + 1) = m * a + m /\ m * (a - 1) = m * a - m
    OBVIOUS
<1>2. ASSUME a <= b PROVE m * a <= m * b
  <2>1. PICK d \in Nat : b = a + d
      BY <1>2, b - a \in Nat
  <2>2. m * b = m * a + m * d /\ m * d >= 0
      BY <2>1
  <2>3. QED
      BY <2>2
<1>3. QED
    BY <1>1, <1>2

\* A call that settles adds at most what was set aside for it.
LEMMA SettledSum ==
    ASSUME NEW spend \in Nat, NEW cost \in Nat, NEW most \in Nat, NEW aside \in Nat,
           NEW limit \in Nat, NEW roomful \in Nat,
           cost <= most, spend + aside <= limit + roomful
    PROVE  (spend + cost) + (aside - most) <= limit + roomful
OBVIOUS

LEMMA OvershootStep ==
    ASSUME TypeOK, ChairsConserved, TypeOK', ChairsConserved', OvershootBounded, [Next]_vars
    PROVE  OvershootBounded'
<1>0. /\ flying \in Nat /\ flying <= Concurrency /\ flying' \in Nat /\ flying' <= Concurrency
      /\ Concurrency \in Nat /\ MaxCost \in Nat
      /\ SpendLimit # NoLimit => SpendLimit \in Nat
      /\ observed_spend \in Nat /\ settled_after_trip \in Nat
      /\ MaxCost * flying \in Nat /\ MaxCost * Concurrency \in Nat
  <2>1. flying \in Nat /\ flying <= Concurrency
      BY InFlightFits
  <2>2. flying' \in Nat /\ flying' <= Concurrency
    <3>1. InFlight' \in SUBSET Seated' /\ Seated' \in SUBSET Calls
        BY DEF InFlight, In, Seated
    <3>2. /\ IsFiniteSet(Seated') /\ Cardinality(Seated') \in Nat
          /\ IsFiniteSet(InFlight') /\ flying' \in Nat
        BY <3>1, CallsAssumption, FS_Subset, FS_CardinalityType DEF flying
    <3>3. flying' <= Cardinality(Seated')
        BY <3>1, <3>2, FS_Subset DEF flying
    <3>4. QED
        BY <3>2, <3>3, LimitAssumption DEF ChairsConserved, TypeOK
  <2>3. QED
      BY <2>1, <2>2, LimitAssumption, CostAssumption, Multiples DEF TypeOK

\* The calls in flight are the same.
<1>1. ASSUME flying' = flying, observed_spend' = observed_spend,
             UNCHANGED breaker \/ Trip(DueFuse, observed_spend) \/ Trip("time", observed_spend)
      PROVE  OvershootBounded'
  <2>1. CASE UNCHANGED breaker
      BY <1>0, <1>1, <2>1 DEF OvershootBounded, breaker, SpendDue, flying, InFlight
  <2>2. CASE ~UNCHANGED breaker
    <3>1. /\ tripped = NoTrip /\ settled_after_trip' = 0
          /\ tripped' \in {DueFuse, "time"}
        BY <1>1, <2>2 DEF Trip
    <3>2. tripped' = NoTrip => ~SpendDue(observed_spend)
        BY <1>0, <3>1 DEF OvershootBounded
    <3>3. QED
        BY <1>0, <1>1, <3>1, <3>2 DEF OvershootBounded, SpendDue, flying, InFlight
  <2>3. QED
      BY <2>1, <2>2
<1>2. CASE Quiet
    BY <1>1, <1>2 DEF Quiet, flying
<1>3. CASE TimeTrip
    BY <1>1, <1>3 DEF TimeTrip, flying
<1>4. ASSUME NEW c \in Calls, RefusedCall(c)
      PROVE  OvershootBounded'
    BY <1>1, <1>4 DEF RefusedCall, Refuse, flying
<1>5. ASSUME NEW c \in Calls, Admission(c)
      PROVE  OvershootBounded'
  <2>1. /\ DueFuse = NoTrip /\ UNCHANGED <<observed_spend, breaker>>
        /\ c \notin InFlight /\ InFlight' = InFlight \cup {c}
      BY <1>5 DEF Admission, Admit
  <2>2. tripped = NoTrip /\ ~SpendDue(observed_spend)
      BY <2>1 DEF DueFuse, NoTrip, TypeOK, Fuses
  <2>3. SpendLimit # NoLimit => observed_spend <= SpendLimit
      BY <1>0, <2>2 DEF SpendDue
  <2>4. MaxCost * flying' <= MaxCost * Concurrency
      BY <1>0, Multiples
  <2>5. MaxCost * flying' \in Nat
      BY <1>0, Multiples
  <2>6. SpendLimit # NoLimit =>
            observed_spend' + MaxCost * flying' <= SpendLimit + MaxCost * Concurrency
      BY <1>0, <2>1, <2>3, <2>4, <2>5
  <2>7. tripped' = NoTrip /\ settled_after_trip' = 0 /\ ~SpendDue(observed_spend')
      BY <2>1, <2>2 DEF OvershootBounded, breaker, SpendDue
  <2>8. QED
      BY <2>6, <2>7 DEF OvershootBounded, SpendDue, flying, InFlight
<1>6. ASSUME NEW c \in Calls, NEW u \in Usages \cup {NoUsage}, NEW failed,
             Settlement(c, u, failed)
      PROVE  OvershootBounded'
  <2> DEFINE cost == cost_usd(RequestOf[c], u)
  <2>1. cost \in Nat /\ cost <= MaxCost
      BY CostIsNat, CostAssumption
  <2>2. flying' = flying - 1
      BY <1>6, InFlightCount DEF Settlement, flying
  <2>3. observed_spend' = observed_spend + cost /\ BreakerAtSettle(observed_spend + cost)
      BY <1>6 DEF Settlement, Book
  <2>4. MaxCost * flying' = MaxCost * flying - MaxCost
      BY <1>0, <2>2, Multiples
  <2>5. SpendLimit # NoLimit =>
            observed_spend' + MaxCost * flying' <= SpendLimit + MaxCost * Concurrency
    <3>1. SUFFICES ASSUME SpendLimit # NoLimit
                   PROVE  observed_spend' + MaxCost * flying' <= SpendLimit + MaxCost * Concurrency
        OBVIOUS
    <3>2. observed_spend + MaxCost * flying <= SpendLimit + MaxCost * Concurrency
        BY <3>1 DEF OvershootBounded, flying, InFlight
    <3>3. (observed_spend + cost) + (MaxCost * flying - MaxCost)
             <= SpendLimit + MaxCost * Concurrency
        BY <1>0, <2>1, <3>1, <3>2, SettledSum
    <3>4. QED
        BY <2>3, <2>4, <3>3
  <2>6. tripped' = NoTrip => settled_after_trip' = 0 /\ ~SpendDue(observed_spend')
      BY <2>3 DEF BreakerAtSettle, Trip, OvershootBounded, breaker, NoTrip, SpendDue
  <2>7. tripped' # NoTrip => settled_after_trip' + flying' <= Concurrency
    <3>1. CASE tripped # NoTrip
      <4>1. settled_after_trip + flying <= Concurrency
          BY <3>1 DEF OvershootBounded, flying, InFlight
      <4>2. settled_after_trip' = settled_after_trip + 1
          BY <2>3, <3>1 DEF BreakerAtSettle
      <4>3. QED
          BY <1>0, <2>2, <4>1, <4>2
    <3>2. CASE tripped = NoTrip
      <4>1. tripped' # NoTrip => settled_after_trip' = 0
          BY <2>3, <3>2 DEF BreakerAtSettle, Trip, breaker
      <4>2. flying' \in Nat /\ flying' <= Concurrency
          BY <1>0
      <4>3. \A k \in Nat : 0 + k = k
          OBVIOUS
      <4>4. tripped' # NoTrip => settled_after_trip' + flying' = flying'
          BY <4>1, <4>2, <4>3, Zenon
      <4>5. QED
          BY <4>2, <4>4, Zenon
    <3>3. QED
        BY <3>1, <3>2
  <2>8. QED
      BY <2>5, <2>6, <2>7 DEF OvershootBounded, SpendDue, flying, InFlight
<1>7. QED
    BY <1>2, <1>3, <1>4, <1>5, <1>6, StepKinds

LEMMA OvershootInit == Init => OvershootBounded
<1> SUFFICES ASSUME Init PROVE OvershootBounded
    OBVIOUS
<1>1. Cardinality(In("inflight")) = 0
  <2>1. In("inflight") = {}
      BY DEF Init, In
  <2>2. QED
      BY <2>1, FS_EmptySet
<1>2. MaxCost * Concurrency \in Nat /\ MaxCost * 0 = 0
    BY CostAssumption, LimitAssumption
<1>3. QED
    BY <1>1, <1>2, LimitAssumption, CostAssumption
    DEF Init, OvershootBounded, SpendDue

\* Overshoot is bounded by one room of calls, for every price and every limit.
THEOREM DoorOvershoot == Spec => []OvershootBounded
<1>1. TypeOK /\ ChairsConserved /\ TypeOK' /\ ChairsConserved' /\ OvershootBounded
         /\ [Next]_vars => OvershootBounded'
    BY OvershootStep
<1>2. QED
    BY <1>1, OvershootInit, DoorTypes, DoorChairs, PTL DEF Spec, RoomSound

-----------------------------------------------------------------------------
(* The books *)

\* The counters a call was admitted on are its own, and were within the limits:
\* what AdmittedWithinFuses needs to know of the calls that have no row yet.
CountsAreFresh ==
    /\ \A c \in InFlight : /\ frame[c].calls_before < calls_admitted
                           /\ ~SpendDue(frame[c].spend_before)
    /\ \A c, d \in InFlight : c # d => frame[c].calls_before # frame[d].calls_before
    /\ \A i \in Settled :
          /\ calls[i].calls_before < calls_admitted
          /\ \A c \in InFlight : frame[c].calls_before # calls[i].calls_before
BooksInv == BooksAddUp /\ CountsAreFresh

Costs == [i \in DOMAIN calls |-> calls[i].cost]

\* The log as a set of rows.
LEMMA LogRows ==
    ASSUME TypeOK
    PROVE  /\ Len(calls) \in Nat /\ DOMAIN calls = 1..Len(calls)
           /\ IsFiniteSet(DOMAIN calls)
           /\ \A i \in DOMAIN calls : calls[i] \in Row /\ Costs[i] \in Nat
           /\ IsFiniteSet(Settled) /\ Settled \subseteq DOMAIN calls
<1>1. Len(calls) \in Nat /\ DOMAIN calls = 1..Len(calls)
    BY LenProperties DEF TypeOK
<1>2. IsFiniteSet(DOMAIN calls)
    BY <1>1, FS_Interval
<1>3. \A i \in DOMAIN calls : calls[i] \in Row
    BY <1>1, ElementOfSeq DEF TypeOK
<1>4. \A i \in DOMAIN calls : Costs[i] \in Nat
    BY <1>3 DEF Costs, Row
<1>5. IsFiniteSet(Settled) /\ Settled \subseteq DOMAIN calls
    BY <1>2, FS_Subset DEF Settled
<1>6. QED
    BY <1>1, <1>2, <1>3, <1>4, <1>5

\* One more row: the rows before it, and their costs, are as they were.
LEMMA LogGrows ==
    ASSUME TypeOK, NEW r \in Row, calls' = Append(calls, r), NEW k, k = Len(calls) + 1
    PROVE  /\ DOMAIN calls' = DOMAIN calls \cup {k} /\ k \notin DOMAIN calls
           /\ Len(calls') = k
           /\ \A i \in DOMAIN calls : calls'[i] = calls[i] /\ i < k
           /\ calls'[k] = r
           /\ Settled' = IF r.status = "refused" THEN Settled ELSE Settled \cup {k}
           /\ \A rows \in SUBSET DOMAIN calls :
                 /\ SumFunctionOnSet(Costs', rows) = SumFunctionOnSet(Costs, rows)
                 /\ SumFunctionOnSet(Costs', rows \cup {k})
                       = SumFunctionOnSet(Costs, rows) + r.cost
<1>1. calls \in Seq(Row) /\ Len(calls) \in Nat /\ DOMAIN calls = 1..Len(calls)
    BY LogRows DEF TypeOK
<1>2. /\ calls' \in Seq(Row) /\ Len(calls') = k
      /\ \A i \in DOMAIN calls : calls'[i] = calls[i]
      /\ calls'[k] = r
    BY <1>1, AppendProperties
<1>3. DOMAIN calls' = 1..k
    BY <1>2, LenProperties
<1>4. /\ DOMAIN calls' = DOMAIN calls \cup {k} /\ k \notin DOMAIN calls
      /\ \A i \in DOMAIN calls : i < k
    BY <1>1, <1>3
<1>5. Settled' = IF r.status = "refused" THEN Settled ELSE Settled \cup {k}
    BY <1>2, <1>4 DEF Settled
<1>6. ASSUME NEW rows \in SUBSET DOMAIN calls
      PROVE  /\ SumFunctionOnSet(Costs', rows) = SumFunctionOnSet(Costs, rows)
             /\ SumFunctionOnSet(Costs', rows \cup {k})
                   = SumFunctionOnSet(Costs, rows) + r.cost
  <2>1. IsFiniteSet(rows) /\ k \notin rows
      BY <1>4, LogRows, FS_Subset
  <2>2. \A i \in rows : Costs[i] \in Nat /\ Costs'[i] = Costs[i]
      BY <1>2, <1>4, LogRows DEF Costs
  <2>3. Costs'[k] = r.cost /\ r.cost \in Nat
      BY <1>2, <1>4 DEF Costs, Row
  <2>4. SumFunctionOnSet(Costs', rows) = SumFunctionOnSet(Costs, rows)
      BY <2>1, <2>2, SumCongruence
  <2>5. SumFunctionOnSet(Costs', rows \cup {k}) = Costs'[k] + SumFunctionOnSet(Costs', rows)
    <3>1. \A i \in rows \cup {k} : Costs'[i] \in Nat
        BY <2>2, <2>3
    <3>2. QED
        BY <2>1, <3>1, SumAdd
  <2>6. SumFunctionOnSet(Costs, rows) \in Nat
      BY <2>1, <2>2, SumType
  <2>7. QED
      BY <2>3, <2>4, <2>5, <2>6
<1>7. QED
    BY <1>2, <1>4, <1>5, <1>6

\* A call that has left the door does not come back.
LEMMA DoneStays ==
    ASSUME TypeOK, [Next]_vars, NEW d \in Calls, pc[d] = "done"
    PROVE  pc'[d] = "done"
<1>1. ASSUME NEW c \in Calls, pc[c] # "done", NEW stage, NEW W \in SUBSET In("waiting"),
             Move(c, stage, W)
      PROVE  pc'[d] = "done"
    BY <1>1 DEF Move, In
<1>2. {} \in SUBSET In("waiting")
    OBVIOUS
<1>3. ASSUME NEW c \in Calls,
             \/ RefuseOnArrival(c) \/ FailWithoutKey(c) \/ AdmitOnArrival(c) \/ Wait(c)
             \/ CancelQueued(c)
      PROVE  pc'[d] = "done"
    BY <1>1, <1>2, <1>3
    DEF RefuseOnArrival, FailWithoutKey, AdmitOnArrival, Wait, CancelQueued
<1>4. ASSUME NEW c \in Calls, NEW W \in SUBSET In("waiting"),
             AdmitAfterWait(c, W) \/ RefuseAfterWait(c, W) \/ LeaveCancelled(c, W)
      PROVE  pc'[d] = "done"
    BY <1>1, <1>4 DEF AdmitAfterWait, RefuseAfterWait, LeaveCancelled
<1>5. ASSUME NEW c \in Calls, NEW W \in SUBSET In("waiting"), NEW u, NEW raised,
             Settle(c, u, raised, W)
      PROVE  pc'[d] = "done"
    BY <1>1, <1>5 DEF Settle
<1>6. CASE DeadlinePasses \/ CheckTime \/ UNCHANGED vars
    BY <1>6 DEF DeadlinePasses, CheckTime, vars
<1>7. QED
    BY <1>3, <1>4, <1>5, <1>6 DEF Next

\* A step that books nothing keeps the books.
LEMMA QuietBooks ==
    ASSUME TypeOK, BooksInv, [Next]_vars, Quiet \/ TimeTrip
    PROVE  BooksInv'
<1>1. /\ UNCHANGED <<InFlight, frame, calls_admitted, observed_spend, calls>>
      /\ Settled' = Settled /\ \A rows : CostOf(rows)' = CostOf(rows)
    BY DEF Quiet, TimeTrip, Settled, CostOf
<1>2. AdmittedWithinFuses'
    BY <1>1 DEF BooksInv, BooksAddUp, AdmittedWithinFuses, SpendDue
<1>3. CountsAreFresh'
    BY <1>1 DEF BooksInv, CountsAreFresh, SpendDue
<1>4. EveryDollarLogged'
  <2>1. \A i \in DOMAIN calls : calls[i].call \in Calls
      BY LogRows DEF Row
  <2>2. \A i \in DOMAIN calls : pc'[calls[i].call] = "done"
      BY <2>1, DoneStays DEF BooksInv, BooksAddUp, EveryDollarLogged
  <2>3. observed_spend' = CostOf(DOMAIN calls)'
      BY <1>1 DEF BooksInv, BooksAddUp, EveryDollarLogged, CostOf
  <2>4. QED
      BY <1>1, <2>2, <2>3 DEF BooksInv, BooksAddUp, EveryDollarLogged, InFlight
<1>5. HaltStoryAddsUp'
  <2>1. CASE Quiet
      BY <1>1, <2>1 DEF Quiet, breaker, BooksInv, BooksAddUp, HaltStoryAddsUp, CostOf
  <2>2. CASE TimeTrip
    <3> DEFINE k == Len(calls)
               late == {i \in Settled : i > k}
    <3>1. k \in 0..Len(calls) /\ late = {}
        BY LogRows
    <3>2. Cardinality(late) = 0 /\ CostOf(late) = 0
        BY <3>1, FS_EmptySet, SumType, LogRows DEF CostOf, Costs
    <3>3. observed_spend' - spend_at_trip' = 0 /\ settled_after_trip' = 0
        BY <2>2 DEF TimeTrip, Trip, TypeOK
    <3>4. QED
        BY <1>1, <3>1, <3>2, <3>3 DEF HaltStoryAddsUp, CostOf
  <2>3. QED
      BY <2>1, <2>2
<1>6. QED
    BY <1>2, <1>3, <1>4, <1>5 DEF BooksInv, BooksAddUp

\* A call that is logged has one row: it was not done before.
LEMMA OneRow ==
    ASSUME TypeOK, EveryDollarLogged, [Next]_vars,
           NEW c \in Calls, pc[c] # "done", pc'[c] = "done",
           NEW r \in Row, r.call = c, calls' = Append(calls, r)
    PROVE  /\ \A i \in DOMAIN calls' : pc'[calls'[i].call] = "done"
           /\ \A i, j \in DOMAIN calls' : calls'[i].call = calls'[j].call => i = j
<1> DEFINE k == Len(calls) + 1
<1>1. /\ DOMAIN calls' = DOMAIN calls \cup {k} /\ k \notin DOMAIN calls /\ calls'[k] = r
      /\ \A i \in DOMAIN calls : calls'[i] = calls[i]
    BY LogGrows
<1>2. \A i \in DOMAIN calls : calls[i].call \in Calls /\ pc[calls[i].call] = "done"
    BY LogRows DEF Row, EveryDollarLogged
<1>3. \A i \in DOMAIN calls : pc'[calls[i].call] = "done"
    BY <1>2, DoneStays
<1>4. \A i \in DOMAIN calls : calls[i].call # c
    BY <1>2
<1>5. QED
    BY <1>1, <1>3, <1>4 DEF EveryDollarLogged

\* A refusal adds a row that costs nothing and admits nothing.
LEMMA RefusedBooks ==
    ASSUME TypeOK, BooksInv, [Next]_vars, NEW c \in Calls, RefusedCall(c)
    PROVE  BooksInv'
<1> DEFINE k == Len(calls) + 1
           r == [call |-> c, status |-> "refused", cost |-> 0,
                 calls_before |-> calls_admitted, spend_before |-> observed_spend]
<1>1. /\ UNCHANGED <<InFlight, frame, calls_admitted, observed_spend>>
      /\ calls' = Append(calls, r) /\ pc[c] # "done" /\ pc'[c] = "done"
      /\ Trip(DueFuse, observed_spend)
    BY DEF RefusedCall, Refuse
<1>2. r \in Row /\ r.call = c /\ r.status = "refused" /\ r.cost = 0
    BY DEF Row, TypeOK
<1> HIDE DEF r
<1>3. /\ DOMAIN calls' = DOMAIN calls \cup {k} /\ k \notin DOMAIN calls /\ Len(calls') = k
      /\ \A i \in DOMAIN calls : calls'[i] = calls[i] /\ i < k
      /\ calls'[k] = r /\ Settled' = Settled
      /\ \A rows \in SUBSET DOMAIN calls :
            /\ SumFunctionOnSet(Costs', rows) = SumFunctionOnSet(Costs, rows)
            /\ SumFunctionOnSet(Costs', rows \cup {k}) = SumFunctionOnSet(Costs, rows) + 0
    BY <1>1, <1>2, LogGrows
<1>4. AdmittedWithinFuses'
    BY <1>1, <1>2, <1>3 DEF BooksInv, BooksAddUp, AdmittedWithinFuses, SpendDue
<1>5. CountsAreFresh'
    BY <1>1, <1>3, LogRows DEF BooksInv, CountsAreFresh, SpendDue
<1>6. EveryDollarLogged'
  <2>1. observed_spend' = CostOf(DOMAIN calls)'
    <3>1. SumFunctionOnSet(Costs', DOMAIN calls') = SumFunctionOnSet(Costs, DOMAIN calls) + 0
        BY <1>3
    <3>2. SumFunctionOnSet(Costs, DOMAIN calls) = observed_spend
        BY DEF BooksInv, BooksAddUp, EveryDollarLogged, CostOf, Costs
    <3>3. CostOf(DOMAIN calls)' = SumFunctionOnSet(Costs', DOMAIN calls')
        BY DEF CostOf, Costs
    <3>4. observed_spend + 0 = observed_spend
        BY DEF TypeOK
    <3>5. QED
        BY <1>1, <3>1, <3>2, <3>3, <3>4, Zenon
  <2>2. /\ \A i \in DOMAIN calls' : pc'[calls'[i].call] = "done"
        /\ \A i, j \in DOMAIN calls' : calls'[i].call = calls'[j].call => i = j
      BY <1>1, <1>2, OneRow DEF BooksInv, BooksAddUp
  <2>3. QED
      BY <1>1, <1>3, <2>1, <2>2 DEF BooksInv, BooksAddUp, EveryDollarLogged, InFlight
<1>7. HaltStoryAddsUp'
  <2>1. CASE tripped # NoTrip
    <3>1. UNCHANGED breaker
        BY <1>1, <2>1 DEF Trip
    <3>2. PICK m \in 0..Len(calls) :
              LET late == {i \in Settled : i > m}
              IN  /\ Cardinality(late) = settled_after_trip
                  /\ observed_spend - spend_at_trip = CostOf(late)
        BY <2>1 DEF BooksInv, BooksAddUp, HaltStoryAddsUp
    <3> DEFINE late == {i \in Settled : i > m}
    <3>3. late \in SUBSET DOMAIN calls
        BY DEF Settled
    <3>4. CostOf(late) = SumFunctionOnSet(Costs, late)
        BY DEF CostOf, Costs
    <3>5. \A rows : CostOf(rows)' = SumFunctionOnSet(Costs', rows)
        BY DEF CostOf, Costs
    <3>6. m \in 0..Len(calls')
        BY <1>3, LogRows
    <3>7. observed_spend' - spend_at_trip' = SumFunctionOnSet(Costs', late)
        BY <1>1, <1>3, <3>1, <3>2, <3>3, <3>4 DEF breaker
    <3>8. {i \in Settled' : i > m} = late /\ Cardinality(late) = settled_after_trip'
        BY <1>3, <3>1, <3>2 DEF breaker
    <3> HIDE DEF late
    <3>9. QED
        BY <3>5, <3>6, <3>7, <3>8 DEF HaltStoryAddsUp
  <2>2. CASE tripped = NoTrip
    <3>1. observed_spend' - spend_at_trip' = 0 /\ settled_after_trip' = 0
        BY <1>1, <2>2 DEF Trip, TypeOK
    <3>2. k \in 0..Len(calls') /\ {i \in Settled' : i > k} = {}
        BY <1>3, LogRows
    <3>3. SumFunctionOnSet(Costs', {}) = 0 /\ Cardinality({}) = 0
      <4>1. SumFunctionOnSet(Costs, {}) = 0
          BY LogRows, SumType
      <4>2. QED
          BY <1>3, <4>1, FS_EmptySet
    <3>4. \A rows : CostOf(rows)' = SumFunctionOnSet(Costs', rows)
        BY DEF CostOf, Costs
    <3>5. QED
        BY <3>1, <3>2, <3>3, <3>4 DEF HaltStoryAddsUp
  <2>3. QED
      BY <2>1, <2>2
<1>8. QED
    BY <1>4, <1>5, <1>6, <1>7 DEF BooksInv, BooksAddUp

\* An admission takes the next count, within the limits.
LEMMA AdmittedBooks ==
    ASSUME TypeOK, ChairsConserved, BooksInv, [Next]_vars, NEW c \in Calls, Admission(c)
    PROVE  BooksInv'
<1>1. /\ c \notin InFlight /\ InFlight' = InFlight \cup {c}
      /\ calls_admitted' = calls_admitted + 1
      /\ frame' = [frame EXCEPT ![c] = [calls_before |-> calls_admitted,
                                        spend_before |-> observed_spend]]
      /\ UNCHANGED <<observed_spend, breaker, calls>> /\ DueFuse = NoTrip
    BY DEF Admission, Admit
<1>2. Settled' = Settled /\ \A rows : CostOf(rows)' = CostOf(rows)
    BY <1>1 DEF Settled, CostOf
<1>3. ~SpendDue(observed_spend)
    BY <1>1 DEF DueFuse, NoTrip, TypeOK, Fuses
<1>4. AdmittedWithinFuses' /\ HaltStoryAddsUp'
    BY <1>1, <1>2
    DEF BooksInv, BooksAddUp, AdmittedWithinFuses, HaltStoryAddsUp, SpendDue, breaker
<1>5. CountsAreFresh'
  <2>1. /\ frame'[c].calls_before = calls_admitted /\ frame'[c].spend_before = observed_spend
        /\ \A d \in InFlight : d # c /\ frame'[d] = frame[d]
      BY <1>1 DEF TypeOK, InFlight, In
  <2>2. /\ calls_admitted \in Nat
        /\ \A d \in InFlight : frame[d].calls_before \in Nat
        /\ \A i \in Settled : calls[i].calls_before \in Nat
      BY LogRows DEF TypeOK, Frame, Row, InFlight, In
  <2>3. /\ \A d \in InFlight : frame[d].calls_before < calls_admitted'
        /\ \A i \in Settled : calls[i].calls_before < calls_admitted'
        /\ \A d \in InFlight : frame[d].calls_before # calls_admitted
        /\ \A i \in Settled : calls[i].calls_before # calls_admitted
      BY <1>1, <2>2 DEF BooksInv, CountsAreFresh
  <2>4. calls_admitted < calls_admitted'
      BY <1>1, <2>2
  <2>5. QED
      BY <1>1, <1>2, <1>3, <2>1, <2>3, <2>4 DEF BooksInv, CountsAreFresh, SpendDue
<1>6. EveryDollarLogged'
  <2>1. \A i \in DOMAIN calls : calls[i].call \in Calls
      BY LogRows DEF Row
  <2>2. \A i \in DOMAIN calls : pc'[calls[i].call] = "done"
      BY <2>1, DoneStays DEF BooksInv, BooksAddUp, EveryDollarLogged
  <2>3. calls_admitted' = Cardinality(Settled)' + Cardinality(InFlight')
    <3>1. Cardinality(InFlight') = flying + 1
        BY <1>1, InFlightCount
    <3>2. flying \in Nat /\ Cardinality(Settled) \in Nat
        BY InFlightFits, LogRows, FS_CardinalityType
    <3>3. calls_admitted = Cardinality(Settled) + flying
        BY DEF BooksInv, BooksAddUp, EveryDollarLogged, flying, InFlight
    <3>4. QED
        BY <1>1, <1>2, <3>1, <3>2, <3>3
  <2>4. QED
      BY <1>1, <1>2, <2>2, <2>3 DEF BooksInv, BooksAddUp, EveryDollarLogged, InFlight, CostOf
<1>7. QED
    BY <1>4, <1>5, <1>6 DEF BooksInv, BooksAddUp

\* A settlement books its row and its cost together.
LEMMA SettledBooks ==
    ASSUME TypeOK, ChairsConserved, CallLimitHolds, BooksInv, [Next]_vars,
           NEW c \in Calls, NEW u \in Usages \cup {NoUsage}, NEW failed \in BOOLEAN,
           Settlement(c, u, failed)
    PROVE  BooksInv'
<1> DEFINE k == Len(calls) + 1
           cost == cost_usd(RequestOf[c], u)
           r == [call |-> c, status |-> IF failed THEN "failed" ELSE "completed",
                 cost |-> cost, calls_before |-> frame[c].calls_before,
                 spend_before |-> frame[c].spend_before]
<1>1. cost \in Nat /\ observed_spend \in Nat /\ frame[c] \in Frame
    BY CostIsNat DEF TypeOK
<1>2. /\ c \in InFlight /\ InFlight' = InFlight \ {c} /\ pc'[c] = "done"
      /\ UNCHANGED <<frame, calls_admitted>>
      /\ calls' = Append(calls, r) /\ observed_spend' = observed_spend + cost
      /\ BreakerAtSettle(observed_spend + cost)
    BY DEF Settlement, Book, LogSettled
<1>3. /\ r \in Row /\ r.call = c /\ r.status # "refused" /\ r.cost = cost
      /\ r.calls_before = frame[c].calls_before /\ r.spend_before = frame[c].spend_before
    BY <1>1 DEF Row, Frame
<1> HIDE DEF r, cost
<1>4. /\ DOMAIN calls' = DOMAIN calls \cup {k} /\ k \notin DOMAIN calls /\ Len(calls') = k
      /\ \A i \in DOMAIN calls : calls'[i] = calls[i] /\ i < k
      /\ calls'[k] = r /\ Settled' = Settled \cup {k}
      /\ \A rows \in SUBSET DOMAIN calls :
            /\ SumFunctionOnSet(Costs', rows) = SumFunctionOnSet(Costs, rows)
            /\ SumFunctionOnSet(Costs', rows \cup {k}) = SumFunctionOnSet(Costs, rows) + cost
  <2>1. /\ DOMAIN calls' = DOMAIN calls \cup {k} /\ k \notin DOMAIN calls /\ Len(calls') = k
        /\ \A i \in DOMAIN calls : calls'[i] = calls[i] /\ i < k
        /\ calls'[k] = r
        /\ Settled' = IF r.status = "refused" THEN Settled ELSE Settled \cup {k}
        /\ \A rows \in SUBSET DOMAIN calls :
              /\ SumFunctionOnSet(Costs', rows) = SumFunctionOnSet(Costs, rows)
              /\ SumFunctionOnSet(Costs', rows \cup {k})
                    = SumFunctionOnSet(Costs, rows) + r.cost
      BY <1>2, <1>3, LogGrows
  <2> HIDE DEF k
  <2>2. QED
      BY <1>3, <2>1
<1>5. \A rows : /\ CostOf(rows) = SumFunctionOnSet(Costs, rows)
                /\ CostOf(rows)' = SumFunctionOnSet(Costs', rows)
    BY DEF CostOf, Costs
<1>6. /\ Settled \subseteq DOMAIN calls /\ k \notin Settled
      /\ \A i \in Settled : calls'[i] = calls[i]
      /\ k \in Nat /\ k >= 0 /\ Len(calls) \in Nat
    BY <1>4, LogRows
<1>7. AdmittedWithinFuses'
  <2>1. /\ frame[c].calls_before < calls_admitted /\ ~SpendDue(frame[c].spend_before)
        /\ \A i \in Settled : calls[i].calls_before # frame[c].calls_before
      BY <1>2 DEF BooksInv, CountsAreFresh
  <2>2. MaxLlmCalls # NoLimit => frame[c].calls_before < MaxLlmCalls
      BY <1>1, <2>1, LimitAssumption DEF CallLimitHolds, TypeOK, Frame
  <2>3. \A i \in DOMAIN calls' : i \in DOMAIN calls \/ i = k
      BY <1>4
  <2>4. \A i \in DOMAIN calls : calls'[i].status # "refused" => i \in Settled
      BY <1>4 DEF Settled
  <2>5. \A i, j \in Settled : i # j => calls[i].calls_before # calls[j].calls_before
      BY DEF BooksInv, BooksAddUp, AdmittedWithinFuses, Settled
  <2>6. \A i \in Settled : /\ MaxLlmCalls # NoLimit => calls[i].calls_before < MaxLlmCalls
                           /\ ~SpendDue(calls[i].spend_before)
      BY DEF BooksInv, BooksAddUp, AdmittedWithinFuses, Settled
  <2> HIDE DEF k
  <2>7. ASSUME NEW i \in DOMAIN calls', calls'[i].status # "refused"
        PROVE  /\ MaxLlmCalls # NoLimit => calls'[i].calls_before < MaxLlmCalls
               /\ ~SpendDue(calls'[i].spend_before)
      BY <1>3, <1>4, <1>6, <2>1, <2>2, <2>3, <2>4, <2>6, <2>7
  <2>8. ASSUME NEW i \in DOMAIN calls', calls'[i].status # "refused",
               NEW j \in DOMAIN calls', j # i, calls'[j].status # "refused"
        PROVE  calls'[j].calls_before # calls'[i].calls_before
      BY <1>3, <1>4, <1>6, <2>1, <2>3, <2>4, <2>5, <2>8
  <2>9. QED
      BY <2>7, <2>8 DEF AdmittedWithinFuses, SpendDue
<1>8. CountsAreFresh'
  <2>1. \A d \in InFlight : d # c => frame[d].calls_before # frame[c].calls_before
      BY <1>2 DEF BooksInv, CountsAreFresh
  <2>2. frame[c].calls_before < calls_admitted
      BY <1>2 DEF BooksInv, CountsAreFresh
  <2>3. \A i \in Settled' : i \in Settled \/ i = k
      BY <1>4
  <2> HIDE DEF k
  <2>4. \A i \in Settled' :
            /\ calls'[i].calls_before < calls_admitted
            /\ \A d \in InFlight' : frame[d].calls_before # calls'[i].calls_before
      BY <1>2, <1>3, <1>4, <1>6, <2>1, <2>2, <2>3 DEF BooksInv, CountsAreFresh
  <2>5. QED
      BY <1>2, <2>4 DEF BooksInv, CountsAreFresh, SpendDue
<1>9. EveryDollarLogged'
  <2>1. observed_spend' = CostOf(DOMAIN calls)'
    <3>1. CostOf(DOMAIN calls)' = SumFunctionOnSet(Costs', DOMAIN calls \cup {k})
        BY <1>4, <1>5
    <3>2. observed_spend = SumFunctionOnSet(Costs, DOMAIN calls)
        BY <1>5 DEF BooksInv, BooksAddUp, EveryDollarLogged
    <3>3. QED
        BY <1>2, <1>4, <3>1, <3>2
  <2>2. /\ \A i \in DOMAIN calls' : pc'[calls'[i].call] = "done"
        /\ \A i, j \in DOMAIN calls' : calls'[i].call = calls'[j].call => i = j
    <3>1. pc[c] # "done"
        BY <1>2 DEF InFlight, In
    <3>2. QED
        BY <1>2, <1>3, <3>1, OneRow DEF BooksInv, BooksAddUp
  <2>3. calls_admitted' = Cardinality(Settled') + Cardinality(InFlight')
    <3>1. Cardinality(InFlight') = flying - 1 /\ flying \in Nat
        BY <1>2, InFlightCount, InFlightFits
    <3>2. Cardinality(Settled') = Cardinality(Settled) + 1 /\ Cardinality(Settled) \in Nat
        BY <1>4, <1>6, LogRows, FS_AddElement, FS_CardinalityType
    <3>3. calls_admitted = Cardinality(Settled) + flying
        BY DEF BooksInv, BooksAddUp, EveryDollarLogged, flying, InFlight
    <3>4. QED
        BY <1>2, <3>1, <3>2, <3>3
  <2>4. QED
      BY <2>1, <2>2, <2>3 DEF EveryDollarLogged, InFlight
<1>10. HaltStoryAddsUp'
  <2>1. CASE tripped # NoTrip
    <3>1. /\ settled_after_trip' = settled_after_trip + 1
          /\ spend_at_trip' = spend_at_trip /\ spend_at_trip \in Nat
        BY <1>2, <2>1 DEF BreakerAtSettle, TypeOK
    <3>2. PICK m \in 0..Len(calls) :
              LET late == {i \in Settled : i > m}
              IN  /\ Cardinality(late) = settled_after_trip
                  /\ observed_spend - spend_at_trip = CostOf(late)
        BY <2>1 DEF BooksInv, BooksAddUp, HaltStoryAddsUp
    <3> DEFINE late == {i \in Settled : i > m}
    <3>3. /\ late \in SUBSET DOMAIN calls /\ k \notin late
          /\ IsFiniteSet(late) /\ Cardinality(late) \in Nat
        BY <1>6, LogRows, FS_Subset, FS_CardinalityType
    <3>4. {i \in Settled' : i > m} = late \cup {k}
        BY <1>4, <1>6
    <3>5. Cardinality(late) = settled_after_trip
          /\ observed_spend - spend_at_trip = SumFunctionOnSet(Costs, late)
        BY <1>5, <3>2
    <3> HIDE DEF late, k
    <3>6. Cardinality(late \cup {k}) = settled_after_trip'
        BY <3>1, <3>3, <3>5, FS_AddElement
    <3>7. SumFunctionOnSet(Costs', late \cup {k}) = SumFunctionOnSet(Costs, late) + cost
        BY <1>4, <3>3
    <3>8. observed_spend' - spend_at_trip' = SumFunctionOnSet(Costs, late) + cost
      <4> HIDE DEF Costs
      <4>1. QED
          BY <1>1, <1>2, <3>1, <3>5
    <3>9. m \in 0..Len(calls')
        BY <1>4, <1>6 DEF k
    <3>10. QED
        BY <1>5, <3>4, <3>6, <3>7, <3>8, <3>9 DEF HaltStoryAddsUp
  <2>2. CASE tripped = NoTrip
    <3>1. tripped' # NoTrip => observed_spend' - spend_at_trip' = 0 /\ settled_after_trip' = 0
        BY <1>1, <1>2, <2>2 DEF BreakerAtSettle, Trip, breaker
    <3>2. k \in 0..Len(calls')
        BY <1>4, <1>6
    <3>3. {i \in Settled' : i > k} = {}
        BY <1>4, <1>6, LogRows
    <3>4. CostOf({})' = 0 /\ Cardinality({}) = 0
      <4>1. SumFunctionOnSet(Costs, {}) = 0
          BY LogRows, SumType
      <4>2. SumFunctionOnSet(Costs', {}) = 0
          BY <1>4, <4>1
      <4>3. QED
          BY <1>5, <4>2, FS_EmptySet
    <3> HIDE DEF k
    <3>5. QED
        BY <3>1, <3>2, <3>3, <3>4 DEF HaltStoryAddsUp
  <2>3. QED
      BY <2>1, <2>2
<1>11. QED
    BY <1>7, <1>8, <1>9, <1>10 DEF BooksInv, BooksAddUp

LEMMA BooksInit == Init => BooksInv
<1> SUFFICES ASSUME Init PROVE BooksInv
    OBVIOUS
<1>1. calls = <<>> /\ DOMAIN calls = {} /\ Settled = {} /\ InFlight = {}
    BY DEF Init, Settled, InFlight, In
<1>2. TypeOK
    BY TypeInit
<1>3. CostOf({}) = 0 /\ Cardinality({}) = 0
    BY <1>2, LogRows, SumType, FS_EmptySet DEF CostOf, Costs
<1>4. AdmittedWithinFuses /\ CountsAreFresh
    BY <1>1 DEF AdmittedWithinFuses, CountsAreFresh
<1>5. EveryDollarLogged
  <2>1. observed_spend = CostOf(DOMAIN calls)
      BY <1>1, <1>3 DEF Init
  <2>2. calls_admitted = Cardinality(Settled) + Cardinality(InFlight)
      BY <1>1, <1>3 DEF Init
  <2>3. QED
      BY <1>1, <2>1, <2>2 DEF EveryDollarLogged, InFlight
<1>6. HaltStoryAddsUp
    BY DEF Init, HaltStoryAddsUp
<1>7. QED
    BY <1>4, <1>5, <1>6 DEF BooksInv, BooksAddUp

LEMMA BooksStep ==
    TypeOK /\ ChairsConserved /\ CallLimitHolds /\ BooksInv /\ [Next]_vars => BooksInv'
BY StepKinds, QuietBooks, RefusedBooks, AdmittedBooks, SettledBooks

\* The log is a complete account of the run's money and of its fuses: for any number
\* of calls at any prices, in any order, whatever is refused, raised or cancelled.
THEOREM DoorBooks == Spec => []BooksAddUp
<1>1. BooksInv => BooksAddUp
    BY DEF BooksInv
<1>2. QED
    BY <1>1, BooksInit, BooksStep, DoorTypes, DoorChairs, DoorCallLimit, PTL
    DEF Spec, RoomSound

-----------------------------------------------------------------------------
(* The queue *)

Queued == In("waiting") \cup In("woken") \cup In("withdrawn") \cup In("revoked")
Handed == In("woken") \cup In("revoked")
InQueue(c) == \E i \in DOMAIN waiters : waiters[i] = c

\* The queue holds the queued calls, each once, and a chair is handed to nobody
\* before those that wait longer: what NoOvertaking needs to know of the room.
QueueInv ==
    /\ \A i \in DOMAIN waiters : waiters[i] \in Queued
    /\ \A c \in Queued : InQueue(c)
    /\ \A i, j \in DOMAIN waiters : waiters[i] = waiters[j] => i = j
    /\ \A c \in Handed, d \in In("waiting") : Ahead(c, d)

\* A call that leaves takes its place with it; the others keep their order.
LEMMA Departure ==
    ASSUME waiters \in Seq(Calls), NEW c \in Calls, LeaveQueue(c), QueueInv
    PROVE  /\ \A j \in DOMAIN waiters' : waiters'[j] # c /\ InQueue(waiters'[j])
           /\ \A i, j \in DOMAIN waiters' : waiters'[i] = waiters'[j] => i = j
           /\ \A d \in Calls : d # c /\ InQueue(d) => \E j \in DOMAIN waiters' : waiters'[j] = d
           /\ \A d, e \in Calls : d # c /\ e # c /\ Ahead(d, e) =>
                 \E i, j \in DOMAIN waiters' : i < j /\ waiters'[i] = d /\ waiters'[j] = e
<1> DEFINE len == Len(waiters)
<1>1. PICK i \in DOMAIN waiters :
          /\ waiters[i] = c
          /\ waiters' = SubSeq(waiters, 1, i - 1) \o SubSeq(waiters, i + 1, len)
    BY DEF LeaveQueue
<1>2. DOMAIN waiters = 1..len /\ len \in Nat /\ i \in 1..len
    BY <1>1, LenProperties
<1> DEFINE head == SubSeq(waiters, 1, i - 1)
           tail == SubSeq(waiters, i + 1, len)
<1>3. /\ head \in Seq(Calls) /\ Len(head) = i - 1
      /\ \A j \in 1..(i - 1) : head[j] = waiters[j]
  <2>1. \A j \in 1..(i - 1) : waiters[j] \in Calls
      BY <1>2, ElementOfSeq
  <2>2. /\ head \in Seq(Calls) /\ Len(head) = IF 1 <= i - 1 THEN (i - 1) - 1 + 1 ELSE 0
        /\ \A j \in 1..((i - 1) - 1 + 1) : head[j] = waiters[1 + j - 1]
      BY <1>2, <2>1, SubSeqProperties
  <2> HIDE DEF head
  <2>3. QED
      BY <1>2, <2>2
<1>4. /\ tail \in Seq(Calls) /\ Len(tail) = len - i
      /\ \A j \in 1..(len - i) : tail[j] = waiters[j + i]
  <2>1. \A j \in (i + 1)..len : waiters[j] \in Calls
      BY <1>2, ElementOfSeq
  <2>2. /\ tail \in Seq(Calls) /\ Len(tail) = IF i + 1 <= len THEN len - (i + 1) + 1 ELSE 0
        /\ \A j \in 1..(len - (i + 1) + 1) : tail[j] = waiters[(i + 1) + j - 1]
      BY <1>2, <2>1, SubSeqProperties
  <2> HIDE DEF tail, len
  <2>3. i \in Nat /\ len \in Nat /\ i <= len
      BY <1>2
  <2>4. len - (i + 1) + 1 = len - i /\ Len(tail) = len - i
      BY <2>2, <2>3
  <2>5. ASSUME NEW j \in 1..(len - i)
        PROVE  tail[j] = waiters[j + i]
    <3>1. (i + 1) + j - 1 = j + i /\ j \in 1..(len - (i + 1) + 1)
        BY <2>3, <2>4
    <3>2. tail[j] = waiters[(i + 1) + j - 1]
        BY <2>2, <3>1
    <3>3. QED
        BY <3>1, <3>2
  <2>6. QED
      BY <2>2, <2>4, <2>5
<1>5. /\ waiters' \in Seq(Calls) /\ Len(waiters') = len - 1
      /\ \A j \in 1..(len - 1) : waiters'[j] = IF j < i THEN waiters[j] ELSE waiters[j + 1]
  <2> HIDE DEF head, tail
  <2>1. /\ head \o tail \in Seq(Calls) /\ Len(head \o tail) = Len(head) + Len(tail)
        /\ \A j \in 1..(Len(head) + Len(tail)) :
              (head \o tail)[j] = IF j <= Len(head) THEN head[j] ELSE tail[j - Len(head)]
      BY <1>3, <1>4, ConcatProperties
  <2>2. waiters' = head \o tail
      BY <1>1 DEF head, tail
  <2> HIDE DEF len
  <2>3. i \in Nat /\ len \in Nat /\ 1 <= i /\ i <= len /\ Len(head) + Len(tail) = len - 1
      BY <1>2, <1>3, <1>4
  <2>4. ASSUME NEW j \in 1..(len - 1)
        PROVE  waiters'[j] = IF j < i THEN waiters[j] ELSE waiters[j + 1]
    <3>1. waiters'[j] = IF j <= i - 1 THEN head[j] ELSE tail[j - (i - 1)]
        BY <1>3, <2>1, <2>2, <2>3
    <3>2. CASE j < i
      <4>1. j \in 1..(i - 1) /\ j <= i - 1
          BY <2>3, <3>2
      <4>2. QED
          BY <1>3, <3>1, <3>2, <4>1
    <3>3. CASE ~(j < i)
      <4>1. /\ j - (i - 1) \in 1..(len - i) /\ ~(j <= i - 1)
            /\ (j - (i - 1)) + i = j + 1
          BY <2>3, <3>3
      <4>2. QED
          BY <1>4, <3>1, <3>3, <4>1
    <3>4. QED
        BY <3>2, <3>3
  <2>5. QED
      BY <2>1, <2>2, <2>3, <2>4
<1>6. DOMAIN waiters' = 1..(len - 1)
    BY <1>5, LenProperties
<1> HIDE DEF len, head, tail
\* Where each place of the shorter queue comes from, and where the others go.
<1>7. \A j \in DOMAIN waiters' : \E k \in DOMAIN waiters : k # i /\ waiters'[j] = waiters[k]
    BY <1>2, <1>5, <1>6
<1>8. \A j \in DOMAIN waiters : waiters[j] = c => j = i
    BY <1>1 DEF QueueInv
<1>9. \A k \in DOMAIN waiters : k # i =>
          /\ k < i => k \in DOMAIN waiters' /\ waiters'[k] = waiters[k]
          /\ k > i => k - 1 \in DOMAIN waiters' /\ waiters'[k - 1] = waiters[k]
    BY <1>2, <1>5, <1>6
<1>10. \A j \in DOMAIN waiters' : waiters'[j] # c /\ InQueue(waiters'[j])
    BY <1>7, <1>8 DEF InQueue
<1>11. \A j, k \in DOMAIN waiters' : waiters'[j] = waiters'[k] => j = k
  <2> SUFFICES ASSUME NEW j \in DOMAIN waiters', NEW k \in DOMAIN waiters',
                      waiters'[j] = waiters'[k]
               PROVE  j = k
      OBVIOUS
  <2>1. \A x, y \in DOMAIN waiters : waiters[x] = waiters[y] => x = y
      BY DEF QueueInv
  <2> DEFINE From(x) == IF x < i THEN x ELSE x + 1
  <2>2. \A x \in DOMAIN waiters' : From(x) \in DOMAIN waiters /\ waiters'[x] = waiters[From(x)]
      BY <1>2, <1>5, <1>6
  <2>3. From(j) = From(k)
    <3> HIDE DEF From
    <3>1. QED
        BY <2>1, <2>2
  <2>4. j \in Int /\ k \in Int /\ i \in Int
      BY <1>2, <1>6
  <2>5. QED
      BY <2>3, <2>4
<1>12. ASSUME NEW d \in Calls, d # c, InQueue(d)
       PROVE  \E j \in DOMAIN waiters' : waiters'[j] = d
  <2>1. PICK k \in DOMAIN waiters : waiters[k] = d
      BY <1>12 DEF InQueue
  <2>2. k # i
      BY <1>1, <1>12, <2>1
  <2>3. QED
      BY <1>2, <1>9, <2>1, <2>2
<1>13. ASSUME NEW d \in Calls, NEW e \in Calls, d # c, e # c, Ahead(d, e)
       PROVE  \E j, k \in DOMAIN waiters' : j < k /\ waiters'[j] = d /\ waiters'[k] = e
  <2>1. PICK x, y \in DOMAIN waiters : x < y /\ waiters[x] = d /\ waiters[y] = e
      BY <1>13 DEF Ahead
  <2>2. x # i /\ y # i
      BY <1>1, <1>13, <2>1
  <2>3. PICK p \in DOMAIN waiters' : waiters'[p] = d /\ p = IF x < i THEN x ELSE x - 1
      BY <1>2, <1>9, <2>1, <2>2
  <2>4. PICK q \in DOMAIN waiters' : waiters'[q] = e /\ q = IF y < i THEN y ELSE y - 1
      BY <1>2, <1>9, <2>1, <2>2
  <2>5. p < q
      BY <1>2, <2>1, <2>2, <2>3, <2>4
  <2>6. QED
      BY <2>3, <2>4, <2>5
<1>14. QED
    BY <1>10, <1>11, <1>12, <1>13

\* A call that was not queued moves, the oldest waiters get chairs: the queue stands.
LEMMA QueueStands ==
    ASSUME TypeOK, QueueInv, UNCHANGED waiters, NEW c \in Calls, c \notin Queued,
           NEW stage \in {"new", "inflight", "done"}, NEW W \in SUBSET In("waiting"),
           \A a \in W : \A d \in In("waiting") \ W : Ahead(a, d), Move(c, stage, W)
    PROVE  QueueInv'
<1>1. \A d \in Calls :
          pc'[d] = IF d = c THEN stage ELSE IF d \in W THEN "woken" ELSE pc[d]
    BY DEF Move
<1>2. /\ Queued' = Queued /\ In("waiting")' = In("waiting") \ W /\ Handed' = Handed \cup W
  <2>1. \A d \in W : d # c /\ pc[d] = "waiting"
      BY DEF Queued, In
  <2>2. pc[c] \notin {"waiting", "woken", "withdrawn", "revoked"}
      BY DEF Queued, In
  <2>3. QED
      BY <1>1, <2>1, <2>2 DEF Queued, Handed, In
<1>3. \A a \in Handed', d \in In("waiting")' : Ahead(a, d)
    BY <1>2 DEF QueueInv
<1>4. \A d, e : Ahead(d, e)' <=> Ahead(d, e)
    BY DEF Ahead
<1>5. \A d : InQueue(d)' <=> InQueue(d)
    BY DEF InQueue
<1>6. QED
    BY <1>2, <1>3, <1>4, <1>5 DEF QueueInv

\* A queued call leaves for good, the oldest waiters get chairs.
LEMMA QueueShrinks ==
    ASSUME TypeOK, QueueInv, NEW c \in Calls, pc[c] # "waiting", LeaveQueue(c),
           NEW stage \in {"inflight", "done"}, NEW W \in SUBSET In("waiting"),
           \A a \in W : \A d \in In("waiting") \ W : Ahead(a, d), Move(c, stage, W)
    PROVE  QueueInv'
<1>1. \A d \in Calls :
          pc'[d] = IF d = c THEN stage ELSE IF d \in W THEN "woken" ELSE pc[d]
    BY DEF Move
<1>2. /\ Queued' = Queued \ {c} /\ In("waiting")' = In("waiting") \ W
      /\ Handed' = (Handed \ {c}) \cup W
  <2>1. \A d \in W : d # c /\ pc[d] = "waiting"
      BY DEF In
  <2>2. QED
      BY <1>1, <2>1 DEF Queued, Handed, In
<1>3. /\ \A j \in DOMAIN waiters' : waiters'[j] # c /\ InQueue(waiters'[j])
      /\ \A i, j \in DOMAIN waiters' : waiters'[i] = waiters'[j] => i = j
      /\ \A d \in Calls : d # c /\ InQueue(d) => \E j \in DOMAIN waiters' : waiters'[j] = d
      /\ \A d, e \in Calls : d # c /\ e # c /\ Ahead(d, e) =>
            \E i, j \in DOMAIN waiters' : i < j /\ waiters'[i] = d /\ waiters'[j] = e
    BY Departure DEF TypeOK
<1>4. \A j \in DOMAIN waiters' : waiters'[j] \in Queued'
    BY <1>2, <1>3 DEF QueueInv, InQueue
<1>5. Queued \subseteq Calls /\ Handed \subseteq Calls /\ In("waiting") \subseteq Calls
    BY DEF Queued, Handed, In
<1>6. \A d \in Queued' : InQueue(d)'
    BY <1>2, <1>3, <1>5 DEF QueueInv, InQueue
<1>7. \A a \in Handed', d \in In("waiting")' : Ahead(a, d)'
  <2> SUFFICES ASSUME NEW a \in Handed', NEW d \in In("waiting")'
               PROVE  Ahead(a, d)'
      OBVIOUS
  <2>1. a \in Calls /\ d \in Calls /\ a # c /\ d # c /\ Ahead(a, d)
      BY <1>2, <1>5 DEF QueueInv, In
  <2>2. QED
      BY <1>3, <2>1 DEF Ahead
<1>8. QED
    BY <1>3, <1>4, <1>6, <1>7 DEF QueueInv

\* Of those that were handed a chair none waits shorter than one that was not.
LEMMA OldestFirst ==
    ASSUME NEW free, NEW most, NEW W, HandOver(free, most, W)
    PROVE  /\ W \in SUBSET In("waiting")
           /\ \A a \in W : \A d \in In("waiting") \ W : Ahead(a, d)
BY DEF HandOver, Woken

LEMMA QueueStep == TypeOK /\ QueueInv /\ [Next]_vars => QueueInv'
<1> SUFFICES ASSUME TypeOK, QueueInv, [Next]_vars PROVE QueueInv'
    OBVIOUS
<1>0. ASSUME UNCHANGED <<pc, waiters>>
      PROVE  QueueInv'
    BY <1>0 DEF QueueInv, Queued, Handed, InQueue, Ahead, In
<1>1. CASE DeadlinePasses \/ CheckTime \/ UNCHANGED vars
    BY <1>0, <1>1 DEF DeadlinePasses, CheckTime, room, vars
<1>2. ASSUME NEW c \in Calls, RefuseOnArrival(c) \/ FailWithoutKey(c) \/ AdmitOnArrival(c)
      PROVE  QueueInv'
  <2>1. PICK stage \in {"new", "inflight", "done"} : Move(c, stage, {})
      BY <1>2 DEF RefuseOnArrival, FailWithoutKey, AdmitOnArrival
  <2>2. c \notin Queued /\ UNCHANGED waiters
      BY <1>2 DEF RefuseOnArrival, FailWithoutKey, AdmitOnArrival, Queued, In, room
  <2>3. QED
      BY <2>1, <2>2, QueueStands
<1>3. ASSUME NEW c \in Calls, Wait(c)
      PROVE  QueueInv'
  <2> DEFINE k == Len(waiters) + 1
  <2>1. /\ DOMAIN waiters = 1..Len(waiters) /\ Len(waiters) \in Nat
        /\ DOMAIN waiters' = 1..k /\ waiters'[k] = c
        /\ \A i \in DOMAIN waiters : waiters'[i] = waiters[i]
    <3>1. waiters \in Seq(Calls) /\ waiters' = Append(waiters, c)
        BY <1>3 DEF TypeOK, Wait
    <3>2. QED
        BY <3>1, AppendProperties, LenProperties
  <2>2. \A i \in DOMAIN waiters' : i \in DOMAIN waiters \/ i = k
      BY <2>1
  <2>3. \A i \in DOMAIN waiters : i \in DOMAIN waiters' /\ i < k
      BY <2>1
  <2>4. k \in DOMAIN waiters'
      BY <2>1
  <2> HIDE DEF k
  <2>5. /\ pc[c] = "new"
        /\ \A d \in Calls : pc'[d] = IF d = c THEN "waiting" ELSE pc[d]
      BY <1>3 DEF Wait, Move
  <2>6. /\ Queued' = Queued \cup {c} /\ c \notin Queued /\ Handed' = Handed
        /\ In("waiting")' = In("waiting") \cup {c} /\ Handed \subseteq Queued
      BY <2>5 DEF Queued, Handed, In
  <2>7. \A i \in DOMAIN waiters' : waiters'[i] \in Queued'
      BY <2>1, <2>2, <2>6 DEF QueueInv
  <2>8. \A d \in Queued' : InQueue(d)'
      BY <2>1, <2>3, <2>4, <2>6 DEF QueueInv, InQueue
  <2>9. \A i, j \in DOMAIN waiters' : waiters'[i] = waiters'[j] => i = j
    <3>1. \A i \in DOMAIN waiters : waiters[i] # c
        BY <2>6 DEF QueueInv
    <3>2. QED
        BY <2>1, <2>2, <3>1 DEF QueueInv
  <2>10. ASSUME NEW a \in Handed', NEW d \in In("waiting")'
         PROVE  Ahead(a, d)'
    <3>1. CASE d \in In("waiting")
      <4>1. PICK i, j \in DOMAIN waiters : i < j /\ waiters[i] = a /\ waiters[j] = d
          BY <2>6, <2>10, <3>1 DEF QueueInv, Ahead
      <4>2. i \in DOMAIN waiters' /\ j \in DOMAIN waiters'
          BY <2>3
      <4>3. QED
          BY <2>1, <4>1, <4>2 DEF Ahead
    <3>2. CASE d = c
      <4>1. PICK i \in DOMAIN waiters : waiters[i] = a
          BY <2>6, <2>10 DEF QueueInv, InQueue
      <4>2. i \in DOMAIN waiters' /\ i < k
          BY <2>3
      <4>3. QED
          BY <2>1, <2>4, <3>2, <4>1, <4>2 DEF Ahead
    <3>3. QED
        BY <2>6, <3>1, <3>2
  <2>11. QED
      BY <2>7, <2>8, <2>9, <2>10 DEF QueueInv
<1>4. ASSUME NEW c \in Calls, CancelQueued(c)
      PROVE  QueueInv'
  <2>1. /\ UNCHANGED waiters /\ pc[c] \in {"waiting", "woken"}
        /\ \A d \in Calls : pc'[d] = IF d # c THEN pc[d]
                                     ELSE IF pc[c] = "waiting" THEN "withdrawn" ELSE "revoked"
      BY <1>4 DEF CancelQueued, Move, room
  <2>2. Queued' = Queued /\ Handed' \subseteq Handed /\ In("waiting")' \subseteq In("waiting")
      BY <2>1 DEF Queued, Handed, In
  <2>3. \A d, e : Ahead(d, e)' <=> Ahead(d, e)
      BY <2>1 DEF Ahead
  <2>4. \A d : InQueue(d)' <=> InQueue(d)
      BY <2>1 DEF InQueue
  <2>5. QED
      BY <2>1, <2>2, <2>3, <2>4 DEF QueueInv
<1>5. ASSUME NEW c \in Calls, NEW W,
             AdmitAfterWait(c, W) \/ RefuseAfterWait(c, W) \/ LeaveCancelled(c, W)
      PROVE  QueueInv'
  <2>1. pc[c] # "waiting" /\ LeaveQueue(c)
      BY <1>5 DEF AdmitAfterWait, RefuseAfterWait, LeaveCancelled
  <2>2. PICK stage \in {"inflight", "done"} : Move(c, stage, W)
      BY <1>5 DEF AdmitAfterWait, RefuseAfterWait, LeaveCancelled
  <2>3. \E free, most : HandOver(free, most, W)
      BY <1>5 DEF AdmitAfterWait, RefuseAfterWait, LeaveCancelled
  <2>4. QED
      BY <2>1, <2>2, <2>3, OldestFirst, QueueShrinks
<1>6. ASSUME NEW c \in Calls, NEW u, NEW raised, NEW W, Settle(c, u, raised, W)
      PROVE  QueueInv'
  <2>1. UNCHANGED waiters /\ Move(c, "done", W) /\ HandOver(value + 1, 1, W)
      BY <1>6 DEF Settle
  <2>2. c \notin Queued
      BY <1>6 DEF Settle, Queued, In
  <2>3. QED
      BY <2>1, <2>2, OldestFirst, QueueStands
<1>7. QED
    BY <1>1, <1>2, <1>3, <1>4, <1>5, <1>6 DEF Next

\* A call that is admitted passes no call that waits longer, whoever else is woken,
\* refused or cancelled meanwhile.
THEOREM DoorIsFair == Spec => NoOvertaking
<1>1. Init => QueueInv
    BY DEF Init, QueueInv, Queued, Handed, In
<1>2. ASSUME TypeOK, QueueInv, [Next]_vars, NEW c \in Calls, NEW d \in Calls,
             pc[c] # "inflight", pc'[c] = "inflight", pc[d] = "waiting", c # d
      PROVE  Ahead(c, d)
  <2>1. ASSUME NEW e \in Calls, NEW stage, NEW W, Move(e, stage, W)
        PROVE  stage = "inflight" /\ e = c
      BY <1>2, <2>1 DEF Move
  <2>2. ASSUME NEW e \in Calls, RefuseOnArrival(e) \/ FailWithoutKey(e) \/ Wait(e)
        PROVE  FALSE
      BY <2>1, <2>2 DEF RefuseOnArrival, FailWithoutKey, Wait
  <2>3. ASSUME NEW e \in Calls, CancelQueued(e)
        PROVE  FALSE
    <3>1. PICK stage \in {"withdrawn", "revoked"} : Move(e, stage, {})
        BY <2>3 DEF CancelQueued
    <3>2. QED
        BY <2>1, <3>1
  <2>4. ASSUME NEW e \in Calls, AdmitOnArrival(e)
        PROVE  FALSE
      BY <1>2, <2>4 DEF AdmitOnArrival, Locked, In
  <2>5. ASSUME NEW e \in Calls, NEW W, AdmitAfterWait(e, W)
        PROVE  Ahead(c, d)
    <3>1. c = e /\ pc[e] = "woken"
        BY <2>1, <2>5 DEF AdmitAfterWait
    <3>2. QED
        BY <1>2, <3>1 DEF QueueInv, Handed, In
  <2>6. ASSUME NEW e \in Calls, NEW W, RefuseAfterWait(e, W) \/ LeaveCancelled(e, W)
        PROVE  FALSE
      BY <2>1, <2>6 DEF RefuseAfterWait, LeaveCancelled
  <2>7. ASSUME NEW e \in Calls, NEW u, NEW raised, NEW W, Settle(e, u, raised, W)
        PROVE  FALSE
      BY <2>1, <2>7 DEF Settle
  <2>8. CASE DeadlinePasses \/ CheckTime \/ UNCHANGED vars
      BY <1>2, <2>8 DEF DeadlinePasses, CheckTime, vars
  <2>9. QED
      BY <1>2, <2>2, <2>3, <2>4, <2>5, <2>6, <2>7, <2>8 DEF Next
<1>3. TypeOK /\ QueueInv /\ [Next]_vars =>
          [\A c, d \in Calls :
              /\ pc[c] # "inflight" /\ pc'[c] = "inflight"
              /\ pc[d] = "waiting" /\ c # d
              => Ahead(c, d)]_vars
    BY <1>2
<1>4. QED
    BY <1>1, <1>3, QueueStep, DoorTypes, PTL DEF Spec, NoOvertaking

-----------------------------------------------------------------------------
(* The door implements the metered run. *)

\* Each kind of step is one step of the meter, or none.
LEMMA MeterStep ==
    ASSUME TypeOK, ChairsConserved, TypeOK', ChairsConserved', [Next]_vars
    PROVE  [Meter!Next]_(Meter!meter)
<1>1. CASE Quiet
    BY <1>1 DEF Quiet, breaker, Meter!meter, InFlight
<1>2. CASE TimeTrip
  <2>1. tripped' # NoTrip /\ UNCHANGED <<InFlight, calls_admitted, observed_spend>>
      BY <1>2 DEF TimeTrip, Trip, NoTrip
  <2>2. Meter!Halt
      BY <2>1 DEF Meter!Halt, InFlight
  <2>3. QED
      BY <2>2 DEF Meter!Next
<1>3. ASSUME NEW c \in Calls, RefusedCall(c)
      PROVE  Meter!Halt
  <2>1. /\ DueFuse # NoTrip /\ Trip(DueFuse, observed_spend)
        /\ UNCHANGED <<InFlight, calls_admitted, observed_spend>>
      BY <1>3 DEF RefusedCall, Refuse
  <2>2. tripped' # NoTrip
      BY <2>1 DEF Trip, breaker
  <2>3. QED
      BY <2>1, <2>2 DEF Meter!Halt, InFlight
<1>4. ASSUME NEW c \in Calls, Admission(c)
      PROVE  Meter!Admit(c)
  <2>1. /\ DueFuse = NoTrip /\ calls_admitted' = calls_admitted + 1
        /\ UNCHANGED <<observed_spend, breaker>>
        /\ c \notin InFlight /\ InFlight' = InFlight \cup {c}
      BY <1>4 DEF Admission, Admit
  <2>2. /\ tripped = NoTrip /\ ~SpendDue(observed_spend)
        /\ MaxLlmCalls # NoLimit => calls_admitted < MaxLlmCalls
      BY <2>1, LimitAssumption DEF DueFuse, NoTrip, TypeOK, Fuses
  <2>3. flying \in Nat /\ flying < Concurrency
    <3>1. InFlight' \in SUBSET Seated' /\ Seated' \in SUBSET Calls
        BY DEF InFlight, In, Seated
    <3>2. /\ IsFiniteSet(Seated') /\ Cardinality(Seated') \in Nat
          /\ IsFiniteSet(InFlight') /\ Cardinality(InFlight') \in Nat
        BY <3>1, CallsAssumption, FS_Subset, FS_CardinalityType
    <3>3. Cardinality(InFlight') <= Cardinality(Seated')
        BY <3>1, <3>2, FS_Subset
    <3>4. Cardinality(InFlight') = flying + 1 /\ flying \in Nat
        BY <2>1, InFlightCount, InFlightFits
    <3>5. QED
        BY <3>2, <3>3, <3>4, LimitAssumption DEF ChairsConserved, TypeOK
  <2>4. Meter!Cardinality(InFlight) = flying
      BY DEF flying, Cardinality, Meter!Cardinality
  <2>5. QED
      BY <2>1, <2>2, <2>3, <2>4 DEF Meter!Admit, Meter!Exceeded, SpendDue, InFlight, flying, breaker
<1>5. ASSUME NEW c \in Calls, NEW u \in Usages \cup {NoUsage}, NEW failed,
             Settlement(c, u, failed)
      PROVE  Meter!Settle(c)
  <2> DEFINE cost == cost_usd(RequestOf[c], u)
  <2>1. cost \in Nat /\ observed_spend \in Nat
      BY CostIsNat DEF TypeOK
  <2>2. /\ c \in InFlight /\ InFlight' = InFlight \ {c}
        /\ observed_spend' = observed_spend + cost
        /\ BreakerAtSettle(observed_spend + cost) /\ calls_admitted' = calls_admitted
      BY <1>5 DEF Settlement, Book
  <2>3. (tripped' # NoTrip) = (tripped # NoTrip \/ SpendDue(observed_spend'))
      BY <2>2 DEF BreakerAtSettle, Trip, breaker, NoTrip
  <2>4. observed_spend' \in Nat /\ observed_spend' >= observed_spend
      BY <2>1, <2>2
  <2>5. QED
      BY <2>2, <2>3, <2>4 DEF Meter!Settle, Meter!Exceeded, SpendDue, InFlight
<1>6. QED
    BY <1>1, <1>2, <1>3, <1>4, <1>5, StepKinds DEF Meter!Next

\* The door implements the metered run, under any interleaving of its callers.
THEOREM DoorIsMetered == Spec => MeterSpec
<1>1. Init => Meter!Init
    BY DEF Init, Meter!Init, In, NoTrip
<1>2. TypeOK /\ ChairsConserved /\ TypeOK' /\ ChairsConserved' /\ [Next]_vars
         => [Meter!Next]_(Meter!meter)
    BY MeterStep
<1>3. QED
    BY <1>1, <1>2, DoorTypes, DoorChairs, PTL DEF Spec, RoomSound, MeterSpec, Meter!Spec

=============================================================================
