---------------------------- MODULE TotalsProofs ----------------------------
(***************************************************************************)
(* The laws of Total: its type, what one element contributes, what an      *)
(* update, a pointwise sum and a partition do to it.                       *)
(*                                                                         *)
(* The laws over all finite sets are proved by taking a smallest           *)
(* counterexample, with the well-foundedness of < on Nat.                  *)
(***************************************************************************)
EXTENDS Totals, FiniteSetTheorems, WellFoundedInduction, TLAPS

\* The units of a finite set are finitely many.
LEMMA UnitsFinite ==
    ASSUME NEW S, IsFiniteSet(S), NEW f, \A i \in S : f[i] \in Nat
    PROVE  IsFiniteSet(Units(f, S))
<1> DEFINE B(i) == {i} \X (1 .. f[i])
           T == {B(i) : i \in S}
           g == [i \in S |-> B(i)]
<1>1. \A i \in S : IsFiniteSet(B(i))
  <2> TAKE i \in S
  <2>1. IsFiniteSet({i})
    BY FS_Singleton
  <2>2. IsFiniteSet(1 .. f[i])
    BY FS_Interval
  <2> QED
    BY <2>1, <2>2, FS_Product
<1>2. g \in Surjection(S, T)
  BY DEF Surjection
<1>3. IsFiniteSet(T)
  BY <1>2, FS_Surjection
<1>4. IsFiniteSet(UNION T)
  BY <1>1, <1>3, FS_UNION
<1> QED
  BY <1>4 DEF Units
\* A total is a natural number.
LEMMA TotalType ==
    ASSUME NEW S, IsFiniteSet(S), NEW f, \A i \in S : f[i] \in Nat
    PROVE  Total(f, S) \in Nat
BY UnitsFinite, FS_CardinalityType DEF Total

\* Nothing adds up to nothing.
LEMMA TotalEmpty ==
    ASSUME NEW f
    PROVE  Total(f, {}) = 0
<1>1. Units(f, {}) = {}
  BY DEF Units
<1> QED
  BY <1>1, FS_EmptySet DEF Total

\* A total depends on the values at the elements of the set only.
LEMMA TotalCong ==
    ASSUME NEW S, NEW f, NEW g, \A i \in S : f[i] = g[i]
    PROVE  Total(f, S) = Total(g, S)
<1>1. Units(f, S) = Units(g, S)
  BY DEF Units
<1> QED
  BY <1>1 DEF Total

\* The total over one element.
LEMMA TotalSingleton ==
    ASSUME NEW i, NEW f, f[i] \in Nat
    PROVE  Total(f, {i}) = f[i]
<1>1. Units(f, {i}) = {i} \X (1 .. f[i])
  BY DEF Units
<1>2. /\ IsFiniteSet({i})
      /\ Cardinality({i}) = 1
  BY FS_Singleton
<1>3. /\ IsFiniteSet(1 .. f[i])
      /\ Cardinality(1 .. f[i]) = f[i]
  BY FS_Interval
<1>4. Cardinality({i} \X (1 .. f[i])) = Cardinality({i}) * Cardinality(1 .. f[i])
  BY <1>2, <1>3, FS_Product, Zenon
<1>5. Cardinality({i}) * Cardinality(1 .. f[i]) = f[i]
  BY <1>2, <1>3
<1> QED
  BY <1>1, <1>4, <1>5, Zenon DEF Total

\* Totals over disjoint sets add up.
LEMMA TotalUnion ==
    ASSUME NEW A, NEW B, IsFiniteSet(A), IsFiniteSet(B), A \cap B = {},
           NEW f, \A i \in A \cup B : f[i] \in Nat
    PROVE  Total(f, A \cup B) = Total(f, A) + Total(f, B)
<1>1. Units(f, A \cup B) = Units(f, A) \cup Units(f, B)
  BY DEF Units
<1>2. Units(f, A) \cap Units(f, B) = {}
  BY DEF Units
<1>3. IsFiniteSet(Units(f, A)) /\ IsFiniteSet(Units(f, B))
  BY UnitsFinite
<1>4. /\ Cardinality(Units(f, A)) \in Nat
      /\ Cardinality(Units(f, B)) \in Nat
  BY <1>3, FS_CardinalityType
<1>5. Cardinality({}) = 0
  BY FS_EmptySet
<1>6. Cardinality(Units(f, A) \cup Units(f, B))
        = Cardinality(Units(f, A)) + Cardinality(Units(f, B))
          - Cardinality(Units(f, A) \cap Units(f, B))
  BY <1>3, FS_Union, Zenon
<1>7. Cardinality(Units(f, A) \cap Units(f, B)) = 0
  BY <1>2, <1>5, Zenon
<1> DEFINE a == Cardinality(Units(f, A))
           b == Cardinality(Units(f, B))
<1>8. a + b - 0 = a + b
  <2> HIDE DEF a, b
  <2>1. a \in Nat /\ b \in Nat
    BY <1>4 DEF a, b
  <2> QED
    BY <2>1
<1> QED
  BY <1>1, <1>6, <1>7, <1>8, Zenon DEF Total

\* What one element contributes.
LEMMA TotalSplit ==
    ASSUME NEW S, IsFiniteSet(S), NEW i \in S, NEW f, \A j \in S : f[j] \in Nat
    PROVE  Total(f, S) = Total(f, S \ {i}) + f[i]
<1>1. S = (S \ {i}) \cup {i} /\ (S \ {i}) \cap {i} = {}
  OBVIOUS
<1>2. IsFiniteSet(S \ {i}) /\ IsFiniteSet({i})
  BY FS_RemoveElement, FS_Singleton
<1>3. \A j \in (S \ {i}) \cup {i} : f[j] \in Nat
  OBVIOUS
<1>4. Total(f, (S \ {i}) \cup {i}) = Total(f, S \ {i}) + Total(f, {i})
  BY <1>1, <1>2, <1>3, TotalUnion
<1> QED
  BY <1>1, <1>4, TotalSingleton

\* What a change at one element does to a total.
LEMMA TotalUpdate ==
    ASSUME NEW S, IsFiniteSet(S), NEW f \in [S -> Nat], NEW g \in [S -> Nat],
           NEW i \in S, \A j \in S \ {i} : g[j] = f[j]
    PROVE  /\ Total(g, S) = Total(f, S) - f[i] + g[i]
           /\ Total(f, S) \in Nat
           /\ Total(g, S) \in Nat
           /\ f[i] <= Total(f, S)
<1>1. Total(g, S) = Total(g, S \ {i}) + g[i]
  BY TotalSplit
<1>2. Total(f, S) = Total(f, S \ {i}) + f[i]
  BY TotalSplit
<1>3. Total(g, S \ {i}) = Total(f, S \ {i})
  BY TotalCong
<1>4. Total(f, S \ {i}) \in Nat
  BY TotalType, FS_RemoveElement
<1> QED
  BY <1>1, <1>2, <1>3, <1>4

-----------------------------------------------------------------------------
(* Laws over all subsets of a finite set, by a smallest counterexample.    *)

\* A nonempty set of natural numbers has a least element.
LEMMA LeastNatural ==
    ASSUME NEW T, T \subseteq Nat, T # {}
    PROVE  \E n \in T : \A m \in T : n <= m
<1>1. PICK n \in T : \A m \in T : ~ (<<m, n>> \in OpToRel(<, Nat))
  BY NatLessThanWellFounded, WFMin, Zenon
<1>2. \A m \in T : ~ (m < n)
  BY <1>1 DEF OpToRel
<1> QED
  BY <1>2

\* A family of subsets that has the empty set, and has every set it has
\* without one of the set's elements, has every finite set.
LEMMA SubsetInduction ==
    ASSUME NEW S, IsFiniteSet(S), NEW G \in SUBSET (SUBSET S),
           {} \in G,
           \A T \in SUBSET S : \A x \in T : T \ {x} \in G => T \in G
    PROVE  S \in G
<1> DEFINE Bad == {n \in Nat : \E T \in SUBSET S : T \notin G /\ Cardinality(T) = n}
<1> SUFFICES ASSUME S \notin G
             PROVE  FALSE
  OBVIOUS
<1>1. Cardinality(S) \in Bad
  BY FS_CardinalityType
<1>2. PICK n \in Bad : \A m \in Bad : n <= m
  <2> HIDE DEF Bad
  <2>1. Bad # {}
    BY <1>1
  <2>2. Bad \subseteq Nat
    BY DEF Bad
  <2> QED
    BY <2>1, <2>2, LeastNatural
<1>3. PICK T \in SUBSET S : T \notin G /\ Cardinality(T) = n
  BY <1>2
<1>4. PICK x : x \in T
  <2>1. T # {}
    BY <1>3, Zenon
  <2> QED
    BY <2>1
<1>5. T \ {x} \notin G
  BY <1>3, <1>4
<1>6. IsFiniteSet(T)
  BY FS_Subset
<1>7. Cardinality(T \ {x}) = n - 1
  BY <1>3, <1>4, <1>6, FS_RemoveElement
<1>8. Cardinality(T \ {x}) \in Nat
  BY <1>6, FS_RemoveElement, FS_CardinalityType
<1>9. n - 1 \in Bad
  BY <1>5, <1>7, <1>8
<1>10. n \in Nat /\ n <= n - 1
  BY <1>2, <1>9
<1> QED
  BY <1>10

\* The total of a pointwise sum is the sum of the totals.
LEMMA TotalPlus ==
    ASSUME NEW S, IsFiniteSet(S), NEW f, NEW g, NEW h,
           \A i \in S : f[i] \in Nat /\ g[i] \in Nat /\ h[i] = f[i] + g[i]
    PROVE  Total(h, S) = Total(f, S) + Total(g, S)
<1> DEFINE G == {T \in SUBSET S : Total(h, T) = Total(f, T) + Total(g, T)}
<1>1. {} \in G
  BY TotalEmpty
<1>2. ASSUME NEW T \in SUBSET S, NEW x \in T, T \ {x} \in G
      PROVE  T \in G
  <2>1. IsFiniteSet(T) /\ IsFiniteSet(T \ {x})
    BY FS_Subset, FS_RemoveElement
  <2>2. \A i \in T : f[i] \in Nat /\ g[i] \in Nat /\ h[i] \in Nat
    OBVIOUS
  <2>3. /\ Total(f, T) = Total(f, T \ {x}) + f[x]
        /\ Total(g, T) = Total(g, T \ {x}) + g[x]
        /\ Total(h, T) = Total(h, T \ {x}) + h[x]
    BY <2>1, <2>2, TotalSplit
  <2>4. Total(f, T \ {x}) \in Nat /\ Total(g, T \ {x}) \in Nat
    BY <2>1, <2>2, TotalType
  <2>5. Total(h, T \ {x}) = Total(f, T \ {x}) + Total(g, T \ {x})
    BY <1>2
  <2>6. h[x] = f[x] + g[x] /\ f[x] \in Nat /\ g[x] \in Nat
    OBVIOUS
  <2> QED
    BY <2>3, <2>4, <2>5, <2>6
<1>3. S \in G
  <2> HIDE DEF G
  <2>1. G \in SUBSET (SUBSET S)
    BY DEF G
  <2>2. \A T \in SUBSET S : \A x \in T : T \ {x} \in G => T \in G
    BY <1>2
  <2> QED
    BY <1>1, <2>1, <2>2, SubsetInduction
<1> QED
  BY <1>3

\* When every element of R has an owner in S, adding up what each owner owns
\* gives the total over R.
LEMMA TotalPartition ==
    ASSUME NEW S, IsFiniteSet(S), NEW R, IsFiniteSet(R),
           NEW owner, \A i \in R : owner[i] \in S,
           NEW f, \A i \in R : f[i] \in Nat,
           NEW part,
           \A a \in S : part[a] \in SUBSET R
                         /\ \A i \in R : i \in part[a] <=> owner[i] = a,
           NEW g, \A a \in S : g[a] = Total(f, part[a])
    PROVE  /\ \A a \in S : g[a] \in Nat
           /\ Total(g, S) = Total(f, R)
<1> DEFINE Own(T) == {i \in R : owner[i] \in T}
           G == {T \in SUBSET S : Total(g, T) = Total(f, Own(T))}
<1>1. \A T : IsFiniteSet(Own(T)) /\ \A i \in Own(T) : f[i] \in Nat
  BY FS_Subset
<1>2. \A a \in S : g[a] = Total(f, Own({a}))
  <2> TAKE a \in S
  <2>1. part[a] = Own({a})
    OBVIOUS
  <2> QED
    BY <2>1
<1>3. \A a \in S : g[a] \in Nat
  <2> TAKE a \in S
  <2> DEFINE A == Own({a})
  <2>1. IsFiniteSet(A) /\ \A i \in A : f[i] \in Nat
    BY <1>1
  <2>2. g[a] = Total(f, A)
    BY <1>2
  <2> HIDE DEF A
  <2>3. Total(f, A) \in Nat
    BY <2>1, TotalType
  <2> QED
    BY <2>2, <2>3
<1>4. {} \in G
  <2>1. Own({}) = {}
    OBVIOUS
  <2> QED
    BY <2>1, TotalEmpty
<1>5. ASSUME NEW T \in SUBSET S, NEW x \in T, T \ {x} \in G
      PROVE  T \in G
  <2>1. IsFiniteSet(T)
    BY FS_Subset
  <2>2. Total(g, T) = Total(g, T \ {x}) + g[x]
    BY <1>3, <2>1, TotalSplit
  <2>3. /\ Own(T) = Own(T \ {x}) \cup Own({x})
        /\ Own(T \ {x}) \cap Own({x}) = {}
    OBVIOUS
  <2>4. Total(g, T \ {x}) = Total(f, Own(T \ {x}))
    BY <1>5
  <2>5. g[x] = Total(f, Own({x}))
    BY <1>2
  <2>6. Total(f, Own(T)) = Total(f, Own(T \ {x})) + Total(f, Own({x}))
    <3> DEFINE A == Own(T \ {x})
               B == Own({x})
    <3>1. /\ \A i \in A \cup B : f[i] \in Nat
          /\ IsFiniteSet(A)
          /\ IsFiniteSet(B)
          /\ A \cap B = {}
          /\ Own(T) = A \cup B
      BY <1>1, <2>3
    <3> HIDE DEF A, B, Own
    <3>2. Total(f, A \cup B) = Total(f, A) + Total(f, B)
      BY <3>1, TotalUnion
    <3> QED
      BY <3>1, <3>2 DEF A, B
  <2> HIDE DEF Own
  <2> QED
    BY <2>2, <2>4, <2>5, <2>6
<1>6. S \in G
  <2> HIDE DEF G
  <2>1. G \in SUBSET (SUBSET S)
    BY DEF G
  <2>2. \A T \in SUBSET S : \A x \in T : T \ {x} \in G => T \in G
    BY <1>5
  <2> QED
    BY <1>4, <2>1, <2>2, SubsetInduction
<1>7. Own(S) = R
  OBVIOUS
<1> QED
  BY <1>3, <1>6, <1>7

\* A total over a subset is at most the total over the set.
LEMMA TotalSubset ==
    ASSUME NEW S, IsFiniteSet(S), NEW T \in SUBSET S, NEW f, \A i \in S : f[i] \in Nat
    PROVE  /\ Total(f, T) \in Nat
           /\ Total(f, S) \in Nat
           /\ Total(f, T) <= Total(f, S)
           /\ Total(f, S \ T) = Total(f, S) - Total(f, T)
<1>1. IsFiniteSet(T) /\ IsFiniteSet(S \ T)
  BY FS_Subset
<1>2. T \cup (S \ T) = S /\ T \cap (S \ T) = {}
  OBVIOUS
<1>3. \A i \in T \cup (S \ T) : f[i] \in Nat
  BY <1>2
<1>4. Total(f, T \cup (S \ T)) = Total(f, T) + Total(f, S \ T)
  BY <1>1, <1>2, <1>3, TotalUnion
<1>5. Total(f, T) \in Nat /\ Total(f, S \ T) \in Nat /\ Total(f, S) \in Nat
  BY <1>1, TotalType
<1> QED
  BY <1>2, <1>4, <1>5
=============================================================================
