----------------------------- MODULE FiniteSums -----------------------------
(***************************************************************************)
(* Sums over finite sets, for the proofs.  The sum of w[x] over T is the      *)
(* number of units of T, of which x has w[x], so that facts about sums are    *)
(* facts about the cardinality of unions, subsets and products and need no    *)
(* induction.                                                                *)
(***************************************************************************)
EXTENDS Integers, FiniteSets, FiniteSetsExt, FiniteSetTheorems, WellFoundedInduction, TLAPS

-----------------------------------------------------------------------------
(* The greatest of finitely many numbers *)

LEMMA LeastNumber ==
  ASSUME NEW T, T \subseteq Nat, T # {}
  PROVE  \E x \in T : \A y \in T : ~(y < x)
<1>1. PICK x \in T : \A y \in T : << y, x >> \notin OpToRel(<, Nat)
  BY WFMin, NatLessThanWellFounded
<1>2. ASSUME NEW y \in T, y < x PROVE FALSE
  <2>1. << y, x >> \in OpToRel(<, Nat)
    BY <1>2 DEF OpToRel
  <2> QED
    BY <1>1, <2>1
<1> QED
  BY <1>2

\* Of the elements of a finite set, the one with the fewest above it has none.
LEMMA MaxExists ==
  ASSUME NEW S, IsFiniteSet(S), S # {}, S \subseteq Nat
  PROVE  Max(S) \in S /\ \A y \in S : y <= Max(S)
<1> DEFINE Above(x) == {y \in S : y > x}
           Sizes_ == {Cardinality(Above(x)) : x \in S}
<1>1. \A x \in S : IsFiniteSet(Above(x)) /\ Cardinality(Above(x)) \in Nat
  BY FS_Subset, FS_CardinalityType
<1>2. PICK n \in Sizes_ : \A m \in Sizes_ : ~(m < n)
  <2>1. Sizes_ # {} /\ Sizes_ \subseteq Nat
    BY <1>1
  <2> HIDE DEF Sizes_
  <2> QED
    BY <2>1, LeastNumber
<1>3. PICK x \in S : n = Cardinality(Above(x))
  BY <1>2
<1>4. ASSUME NEW y \in S, ~(y <= x) PROVE FALSE
  <2>1. y > x /\ y \in Nat /\ x \in Nat
    BY <1>4
  <2>2. Above(y) \subseteq Above(x) /\ y \in Above(x) /\ y \notin Above(y)
    <3>1. \A z \in S : z \in Nat
      OBVIOUS
    <3>2. \A z \in S : z > y => z > x
      BY <2>1, <3>1
    <3>3. ~(y > y)
      BY <2>1
    <3> QED
      BY <2>1, <3>2, <3>3, Zenon
  <2>3. Above(y) \in SUBSET Above(x) /\ Above(y) # Above(x) /\ IsFiniteSet(Above(x))
    BY <1>1, <2>2
  <2>4. /\ Cardinality(Above(y)) <= Cardinality(Above(x))
        /\ Cardinality(Above(y)) # Cardinality(Above(x))
    <3> HIDE DEF Above
    <3> QED
      BY <2>3, FS_Subset
  <2>5. Cardinality(Above(y)) \in Sizes_ /\ Cardinality(Above(y)) \in Nat /\ n \in Nat
    BY <1>1, <1>3
  <2> HIDE DEF Above, Sizes_
  <2> QED
    BY <1>2, <1>3, <2>4, <2>5
<1>5. \E z \in S : \A y \in S : z >= y
  BY <1>4
<1>6. Max(S) \in S /\ \A y \in S : Max(S) >= y
  BY <1>5 DEF Max
<1> QED
  BY <1>6

-----------------------------------------------------------------------------
(* Sums *)

\* The units of a set whose element x weighs w[x], and how many there are.
Units(T, w) == UNION {{x} \X (1 .. w[x]) : x \in T}
Weight(T, w) == Cardinality(Units(T, w))
Weighable(T, w, m) == IsFiniteSet(T) /\ m \in Nat /\ \A x \in T : w[x] \in 0 .. m

LEMMA UnitIs ==
  ASSUME NEW T, NEW w, NEW u
  PROVE  u \in Units(T, w) <=> \E x \in T : \E i \in 1 .. w[x] : u = << x, i >>
BY DEF Units

LEMMA WeightBound ==
  ASSUME NEW T, NEW w, NEW m, Weighable(T, w, m)
  PROVE  /\ IsFiniteSet(Units(T, w)) /\ Weight(T, w) \in Nat
         /\ Weight(T, w) <= Cardinality(T) * m
<1> USE DEF Weighable
<1>1. Units(T, w) \in SUBSET (T \X (1 .. m))
  <2>1. ASSUME NEW u \in Units(T, w) PROVE u \in T \X (1 .. m)
    <3>1. PICK x \in T : \E i \in 1 .. w[x] : u = << x, i >>
      BY UnitIs
    <3>2. PICK i \in 1 .. w[x] : u = << x, i >>
      BY <3>1
    <3>3. i \in 1 .. m
      <4>1. w[x] \in 0 .. m
        OBVIOUS
      <4> QED
        BY <4>1
    <3> QED
      BY <3>2, <3>3
  <2> QED
    BY <2>1
<1>2. IsFiniteSet(1 .. m) /\ Cardinality(1 .. m) = m
  BY FS_Interval
<1>3. IsFiniteSet(T \X (1 .. m)) /\ Cardinality(T \X (1 .. m)) = Cardinality(T) * m
  BY <1>2, FS_Product
<1> QED
  BY <1>1, <1>3, FS_Subset, FS_CardinalityType DEF Weight

LEMMA WeightEmpty ==
  ASSUME NEW w
  PROVE  Weight({}, w) = 0
<1>1. Units({}, w) = {}
  BY DEF Units
<1> QED
  BY <1>1, FS_EmptySet DEF Weight

LEMMA WeightSame ==
  ASSUME NEW T, NEW v, NEW w, \A x \in T : v[x] = w[x]
  PROVE  Weight(T, v) = Weight(T, w)
<1>1. \A u : u \in Units(T, v) <=> u \in Units(T, w)
  BY UnitIs
<1>2. Units(T, v) = Units(T, w)
  BY <1>1
<1> QED
  BY <1>2 DEF Weight

LEMMA WeightAdd ==
  ASSUME NEW T, NEW w, NEW m, NEW x, Weighable(T, w, m), x \notin T, w[x] \in 0 .. m
  PROVE  Weight(T \union {x}, w) = Weight(T, w) + w[x]
<1> DEFINE n == w[x]
           New == {x} \X (1 .. n)
           Old == Units(T, w)
<1>1. Units(T \union {x}, w) = Old \union New
  BY DEF Units
<1>2. Old \intersect New = {}
  <2>1. \A u \in New : u[1] = x
    OBVIOUS
  <2>2. \A u \in Old : u[1] \in T
    BY UnitIs
  <2> QED
    BY <2>1, <2>2
<1>3. n \in Nat
  BY DEF Weighable
<1>4. IsFiniteSet(New) /\ Cardinality(New) = n
  <2> HIDE DEF n
  <2>1. IsFiniteSet(1 .. n) /\ Cardinality(1 .. n) = n
    BY <1>3, FS_Interval
  <2>2. IsFiniteSet({x}) /\ Cardinality({x}) = 1
    BY FS_Singleton
  <2>3. IsFiniteSet(New) /\ Cardinality(New) = Cardinality({x}) * Cardinality(1 .. n)
    BY <2>1, <2>2, FS_Product, Zenon
  <2> QED
    BY <1>3, <2>1, <2>2, <2>3
<1>5. IsFiniteSet(Old) /\ Cardinality(Old) \in Nat
  BY WeightBound DEF Weight
<1>6. Weight(T, w) = Cardinality(Old) /\ Weight(T \union {x}, w) = Cardinality(Old \union New)
  BY <1>1 DEF Weight
<1> HIDE DEF New, Old, n
<1>7. Cardinality(Old \union New) =
        Cardinality(Old) + Cardinality(New) - Cardinality(Old \intersect New)
  BY <1>4, <1>5, FS_Union
<1>8. Cardinality(Old \intersect New) = 0
  BY <1>2, FS_EmptySet
<1>9. Cardinality(Old \union New) = Cardinality(Old) + n
  BY <1>3, <1>4, <1>5, <1>7, <1>8
<1>10. Weight(T \union {x}, w) = Weight(T, w) + n
  BY <1>6, <1>9, Zenon
<1> QED
  BY <1>10 DEF n

LEMMA WeightRemove ==
  ASSUME NEW T, NEW w, NEW m, NEW x, Weighable(T, w, m), x \in T
  PROVE  /\ Weighable(T \ {x}, w, m)
         /\ Weight(T, w) = Weight(T \ {x}, w) + w[x]
<1>1. Weighable(T \ {x}, w, m) /\ x \notin T \ {x} /\ w[x] \in 0 .. m
  BY FS_RemoveElement DEF Weighable
<1>2. (T \ {x}) \union {x} = T
  OBVIOUS
<1> QED
  BY <1>1, <1>2, WeightAdd

\* What one element adds.
Part(x, T, w) == IF x \in T THEN w[x] ELSE 0

\* Two sets that differ in one element only.
LEMMA OneMoves ==
  ASSUME NEW T, NEW v, NEW U, NEW w, NEW m, NEW t,
         Weighable(T, v, m), Weighable(U, w, m),
         \A x : x # t => (x \in T <=> x \in U),
         \A x \in T : x # t => v[x] = w[x]
  PROVE  /\ Weight(U, w) + Part(t, T, v) = Weight(T, v) + Part(t, U, w)
         /\ Weight(U, w) \in Nat /\ Weight(T, v) \in Nat
<1>0. Weight(U, w) \in Nat /\ Weight(T, v) \in Nat
  BY WeightBound
<1>1. T \ {t} = U \ {t}
  OBVIOUS
<1>2. Weight(T \ {t}, v) = Weight(U \ {t}, w)
  <2>1. \A x \in T \ {t} : v[x] = w[x]
    OBVIOUS
  <2> QED
    BY <1>1, <2>1, WeightSame
<1>3. ASSUME NEW S, NEW z, Weighable(S, z, m)
      PROVE  Weight(S, z) = Weight(S \ {t}, z) + Part(t, S, z) /\ Part(t, S, z) \in Nat
             /\ Weight(S \ {t}, z) \in Nat
  <2>1. CASE t \in S
    <3>1. Part(t, S, z) = z[t] /\ z[t] \in Nat
      BY <1>3, <2>1 DEF Part, Weighable
    <3>2. Weighable(S \ {t}, z, m) /\ Weight(S, z) = Weight(S \ {t}, z) + z[t]
      BY <1>3, <2>1, WeightRemove
    <3> QED
      BY <3>1, <3>2, WeightBound
  <2>2. CASE t \notin S
    <3>1. Part(t, S, z) = 0 /\ S \ {t} = S
      BY <2>2 DEF Part
    <3>2. Weight(S, z) \in Nat
      BY <1>3, WeightBound
    <3> QED
      BY <3>1, <3>2
  <2> QED
    BY <2>1, <2>2
<1>4. /\ Weight(T, v) = Weight(T \ {t}, v) + Part(t, T, v) /\ Part(t, T, v) \in Nat
      /\ Weight(T \ {t}, v) \in Nat
  BY <1>3
<1>5. Weight(U, w) = Weight(U \ {t}, w) + Part(t, U, w) /\ Part(t, U, w) \in Nat
  BY <1>3
<1> QED
  BY <1>0, <1>2, <1>4, <1>5
-----------------------------------------------------------------------------
(* Induction *)

\* What holds of the empty set and is kept when an element is added holds of a
\* finite set: G is the set of the subsets of which it holds.
LEMMA SubsetInduction ==
  ASSUME NEW T, IsFiniteSet(T), NEW G, {} \in G,
         \A S \in SUBSET T : \A x \in T \ S : S \in G => S \union {x} \in G
  PROVE  T \in G
<1> DEFINE Bad == (SUBSET T) \ G
           N == {Cardinality(S) : S \in Bad}
<1>1. SUFFICES ASSUME T \notin G PROVE FALSE
  OBVIOUS
<1>2. \A S \in SUBSET T : IsFiniteSet(S) /\ Cardinality(S) \in Nat
  BY FS_Subset, FS_CardinalityType
<1>3. N \subseteq Nat /\ N # {}
  BY <1>1, <1>2
<1>4. PICK n \in N : \A k \in N : ~(k < n)
  <2> HIDE DEF N
  <2> QED
    BY <1>3, LeastNumber
<1>5. PICK S \in Bad : n = Cardinality(S)
  BY <1>4
<1>6. PICK x \in S : TRUE
  BY <1>5
<1>7. S \ {x} \in SUBSET T /\ x \in T \ (S \ {x}) /\ (S \ {x}) \union {x} = S
  BY <1>6
<1>8. S \ {x} \in Bad
  BY <1>5, <1>7
<1>9. Cardinality(S \ {x}) = Cardinality(S) - 1 /\ Cardinality(S) \in Nat
  BY <1>2, <1>5, <1>6, FS_RemoveElement
<1>10. Cardinality(S \ {x}) \in N
  BY <1>8
<1> HIDE DEF N, Bad
<1> QED
  BY <1>4, <1>5, <1>9, <1>10

LEMMA Bounded ==
  ASSUME NEW T, IsFiniteSet(T), NEW w, \A x \in T : w[x] \in Nat
  PROVE  \E m \in Nat : Weighable(T, w, m)
<1> DEFINE G == {S \in SUBSET T : \E m \in Nat : \A x \in S : w[x] \in 0 .. m}
<1>1. {} \in G
  <2>1. 0 \in Nat /\ \A x \in {} : w[x] \in 0 .. 0
    OBVIOUS
  <2> QED
    BY <2>1
<1>2. ASSUME NEW S \in SUBSET T, NEW x \in T \ S, S \in G PROVE S \union {x} \in G
  <2>1. PICK m \in Nat : \A y \in S : w[y] \in 0 .. m
    BY <1>2
  <2>2. m + w[x] \in Nat /\ \A y \in S \union {x} : w[y] \in 0 .. (m + w[x])
    BY <2>1
  <2> QED
    BY <2>2
<1>3. T \in G
  <2> HIDE DEF G
  <2> QED
    BY <1>1, <1>2, SubsetInduction
<1> QED
  BY <1>3 DEF Weighable

LEMMA WeightNat ==
  ASSUME NEW T, IsFiniteSet(T), NEW w, \A x \in T : w[x] \in Nat
  PROVE  Weight(T, w) \in Nat
BY Bounded, WeightBound

LEMMA WeightStep ==
  ASSUME NEW T, IsFiniteSet(T), NEW x, x \notin T,
         NEW w, \A y \in T \union {x} : w[y] \in Nat
  PROVE  /\ Weight(T \union {x}, w) = Weight(T, w) + w[x]
         /\ Weight(T, w) \in Nat /\ w[x] \in Nat
<1>1. IsFiniteSet(T \union {x})
  BY FS_AddElement
<1>2. PICK m \in Nat : Weighable(T \union {x}, w, m)
  BY <1>1, Bounded
<1>3. Weighable(T, w, m) /\ w[x] \in 0 .. m
  BY <1>2 DEF Weighable
<1> QED
  BY <1>3, WeightAdd, WeightNat

\* The sum of sums.
LEMMA WeightPlus ==
  ASSUME NEW T, IsFiniteSet(T), NEW u, NEW v, NEW w,
         \A x \in T : v[x] \in Nat /\ w[x] \in Nat /\ u[x] = v[x] + w[x]
  PROVE  Weight(T, u) = Weight(T, v) + Weight(T, w)
<1> DEFINE G == {S \in SUBSET T : Weight(S, u) = Weight(S, v) + Weight(S, w)}
<1>1. {} \in G
  BY WeightEmpty
<1>2. ASSUME NEW S \in SUBSET T, NEW x \in T \ S, S \in G PROVE S \union {x} \in G
  <2>1. IsFiniteSet(S) /\ S \union {x} \in SUBSET T
    BY FS_Subset
  <2>2. \A y \in S \union {x} : u[y] \in Nat /\ v[y] \in Nat /\ w[y] \in Nat
    OBVIOUS
  <2>3. Weight(S \union {x}, u) = Weight(S, u) + u[x]
    BY <2>1, <2>2, WeightStep
  <2>4. Weight(S \union {x}, v) = Weight(S, v) + v[x] /\ Weight(S, v) \in Nat
    BY <2>1, <2>2, WeightStep
  <2>5. Weight(S \union {x}, w) = Weight(S, w) + w[x] /\ Weight(S, w) \in Nat
    BY <2>1, <2>2, WeightStep
  <2>6. Weight(S, u) = Weight(S, v) + Weight(S, w)
    BY <1>2
  <2>7. u[x] = v[x] + w[x] /\ v[x] \in Nat /\ w[x] \in Nat
    OBVIOUS
  <2>8. Weight(S \union {x}, u) = Weight(S \union {x}, v) + Weight(S \union {x}, w)
    BY <2>3, <2>4, <2>5, <2>6, <2>7
  <2> QED
    BY <2>1, <2>8
<1>3. T \in G
  <2> HIDE DEF G
  <2> QED
    BY <1>1, <1>2, SubsetInduction
<1> QED
  BY <1>3

\* Parts that are no more than proportional to p share out no more than b.
LEMMA Shares ==
  ASSUME NEW T, IsFiniteSet(T), NEW p, NEW c, NEW b \in Nat,
         \A x \in T : p[x] \in Nat /\ c[x] \in Nat,
         Weight(T, p) # 0,
         \A x \in T : Weight(T, p) * c[x] <= p[x] * b
  PROVE  Weight(T, c) <= b
<1> DEFINE P == Weight(T, p)
           G == {S \in SUBSET T : P * Weight(S, c) <= Weight(S, p) * b}
<1>0. P \in Nat /\ P # 0
  BY WeightNat
<1>1. {} \in G
  <2>1. Weight({}, c) = 0 /\ Weight({}, p) = 0
    BY WeightEmpty
  <2> HIDE DEF P
  <2> QED
    BY <1>0, <2>1
<1>2. ASSUME NEW S \in SUBSET T, NEW x \in T \ S, S \in G PROVE S \union {x} \in G
  <2>1. IsFiniteSet(S) /\ S \union {x} \in SUBSET T
    BY FS_Subset
  <2>2. \A y \in S \union {x} : c[y] \in Nat /\ p[y] \in Nat
    OBVIOUS
  <2>3. Weight(S \union {x}, c) = Weight(S, c) + c[x] /\ Weight(S, c) \in Nat /\ c[x] \in Nat
    BY <2>1, <2>2, WeightStep
  <2>4. Weight(S \union {x}, p) = Weight(S, p) + p[x] /\ Weight(S, p) \in Nat /\ p[x] \in Nat
    BY <2>1, <2>2, WeightStep
  <2>5. P * Weight(S, c) <= Weight(S, p) * b /\ P * c[x] <= p[x] * b
    BY <1>2
  <2>6. \A q, s, t, y, z \in Nat :
          q * s <= y * b /\ q * t <= z * b => q * (s + t) <= (y + z) * b
    OBVIOUS
  <2> HIDE DEF P
  <2>7. P * (Weight(S, c) + c[x]) <= (Weight(S, p) + p[x]) * b
    BY <1>0, <2>3, <2>4, <2>5, <2>6
  <2> QED
    BY <2>1, <2>3, <2>4, <2>7
<1>3. T \in G
  <2> HIDE DEF G
  <2> QED
    BY <1>1, <1>2, SubsetInduction
<1>4. P * Weight(T, c) <= P * b
  BY <1>3
<1>5. Weight(T, c) \in Nat
  BY WeightNat
<1>6. \A q, y, z \in Nat : q # 0 /\ q * y <= q * z => y <= z
  OBVIOUS
<1> HIDE DEF P
<1> QED
  BY <1>0, <1>4, <1>5, <1>6
=============================================================================
