-------------------------- MODULE UpstreamPoolProofs --------------------------
(***************************************************************************)
(* Proofs about UpstreamPool, for every set of environments and addresses, *)
(* pools of any length with any weights, and any number of handlers.       *)
(***************************************************************************)
EXTENDS UpstreamPool, FiniteSetTheorems, SequenceTheorems, TLAPS

-----------------------------------------------------------------------------
(***************************************************************************)
(* Sums.  The sum of a function over a finite set is the size of a set of  *)
(* places, as many for each index as the function says; what a sum does is *)
(* then what a cardinality does.                                           *)
(***************************************************************************)
PlacesOf(w, i) == {i} \X (0..(w[i] - 1))

Places(w, S) == UNION {PlacesOf(w, i) : i \in S}

NatOn(w, S) == \A i \in S : w[i] \in Nat

\* An index has as many places as the function says.
LEMMA PlacesOfOne ==
  ASSUME NEW w, NEW i, w[i] \in Nat
  PROVE  IsFiniteSet(PlacesOf(w, i)) /\ Cardinality(PlacesOf(w, i)) = w[i]
<1>1. IsFiniteSet({i}) /\ Cardinality({i}) = 1
  BY FS_Singleton
<1>2. IsFiniteSet(0..(w[i] - 1)) /\ Cardinality(0..(w[i] - 1)) = w[i]
  BY FS_Interval
<1>3. /\ IsFiniteSet({i} \X (0..(w[i] - 1)))
      /\ Cardinality({i} \X (0..(w[i] - 1))) = 1 * w[i]
  BY <1>1, <1>2, FS_Product
<1> QED
  BY <1>3 DEF PlacesOf

\* The places of a finite set are finitely many.
LEMMA PlacesFinite ==
  ASSUME NEW w, NEW S, IsFiniteSet(S), NatOn(w, S)
  PROVE  IsFiniteSet(Places(w, S))
<1> DEFINE pieces == {PlacesOf(w, i) : i \in S}
           piece  == [i \in S |-> PlacesOf(w, i)]
<1>1. piece \in Surjection(S, pieces)
  BY DEF Surjection
<1>2. IsFiniteSet(pieces)
  BY <1>1, FS_Surjection
<1>3. \A T \in pieces : IsFiniteSet(T)
  BY PlacesOfOne DEF NatOn
<1> HIDE DEF pieces
<1>4. IsFiniteSet(UNION pieces)
  BY <1>2, <1>3, FS_UNION
<1> QED
  BY <1>4 DEF pieces, Places

\* The places of a set are those of one of its members and those of the others.
LEMMA PlacesWithout ==
  ASSUME NEW w, NEW S, IsFiniteSet(S), NatOn(w, S), NEW x \in S
  PROVE  Cardinality(Places(w, S)) = w[x] + Cardinality(Places(w, S \ {x}))
<1>1. /\ IsFiniteSet(PlacesOf(w, x)) /\ Cardinality(PlacesOf(w, x)) = w[x] /\ w[x] \in Nat
  BY PlacesOfOne DEF NatOn
<1>2. IsFiniteSet(Places(w, S \ {x}))
  BY FS_RemoveElement, PlacesFinite DEF NatOn
<1>3. Places(w, S) = PlacesOf(w, x) \cup Places(w, S \ {x})
  BY Zenon DEF Places
<1>4. PlacesOf(w, x) \cap Places(w, S \ {x}) = {}
  BY DEF Places, PlacesOf
<1>5. Cardinality(PlacesOf(w, x) \cap Places(w, S \ {x})) = 0
  BY <1>4, FS_EmptySet
<1>6. Cardinality(Places(w, S \ {x})) \in Nat
  BY <1>2, FS_CardinalityType
<1> DEFINE one  == PlacesOf(w, x)
           rest == Places(w, S \ {x})
<1> HIDE DEF one, rest
<1>7. Cardinality(one \cup rest) = Cardinality(one) + Cardinality(rest) - Cardinality(one \cap rest)
  BY <1>1, <1>2, FS_Union DEF one, rest
<1> QED
  BY <1>1, <1>3, <1>5, <1>6, <1>7 DEF one, rest

\* No index has no place.
LEMMA NoPlaces == ASSUME NEW w PROVE Places(w, {}) = {} /\ Cardinality(Places(w, {})) = 0
BY FS_EmptySet DEF Places

\* What SumFunctionOnSet computes on the way.
PartSums(f, w, S) ==
  f = [s \in SUBSET S |->
         IF s = {} THEN 0
         ELSE w[CHOOSE x \in s : TRUE] + f[s \ {CHOOSE x \in s : TRUE}]]

\* The number of places satisfies the recursion of SumFunctionOnSet.
LEMMA PlacesArePartSums ==
  ASSUME NEW w, NEW S, IsFiniteSet(S), NatOn(w, S)
  PROVE  PartSums([s \in SUBSET S |-> Cardinality(Places(w, s))], w, S)
<1> DEFINE c == [s \in SUBSET S |-> Cardinality(Places(w, s))]
<1>1. ASSUME NEW s \in SUBSET S
      PROVE  c[s] = IF s = {} THEN 0
                    ELSE w[CHOOSE x \in s : TRUE] + c[s \ {CHOOSE x \in s : TRUE}]
  <2> DEFINE e == CHOOSE x \in s : TRUE
  <2>1. CASE s = {}
    BY <2>1, NoPlaces
  <2>2. CASE s # {}
    <3>1. e \in s
      BY <2>2
    <3>2. IsFiniteSet(s) /\ NatOn(w, s)
      BY FS_Subset DEF NatOn
    <3> HIDE DEF e
    <3>3. Cardinality(Places(w, s)) = w[e] + Cardinality(Places(w, s \ {e}))
      BY <3>1, <3>2, PlacesWithout
    <3>4. c[s] = w[e] + c[s \ {e}]
      BY <3>3
    <3> QED
      BY <2>2, <3>4 DEF e
  <2> QED
    BY <2>1, <2>2
<1> QED
  BY <1>1 DEF PartSums

\* Nothing else does: a smallest set on which another solution differed could neither
\* be empty nor have a member to take away.
LEMMA PartSumsUnique ==
  ASSUME NEW w, NEW S, IsFiniteSet(S), NatOn(w, S), NEW f, PartSums(f, w, S)
  PROVE  f[S] = Cardinality(Places(w, S))
<1> DEFINE wrong == {s \in FiniteSubsetsOf(S) : f[s] # Cardinality(Places(w, s))}
<1>1. S \in FiniteSubsetsOf(S)
  BY DEF FiniteSubsetsOf
<1> SUFFICES ASSUME wrong # {} PROVE FALSE
  BY <1>1
<1>2. PICK s \in wrong : \A t \in wrong : <<t, s>> \notin StrictSubsetOrdering(S)
  BY FS_StrictSubsetOrderingWellFounded, WFMin
<1>3. s \in SUBSET S /\ IsFiniteSet(s) /\ f[s] # Cardinality(Places(w, s))
  BY DEF FiniteSubsetsOf
<1>4. s # {}
  BY <1>3, NoPlaces DEF PartSums
<1> DEFINE e == CHOOSE x \in s : TRUE
<1>5. e \in s
  BY <1>4
<1>6. f[s] = w[e] + f[s \ {e}]
  BY <1>3, <1>4 DEF PartSums
<1> HIDE DEF e
<1>7. Cardinality(Places(w, s)) = w[e] + Cardinality(Places(w, s \ {e}))
  BY <1>3, <1>5, PlacesWithout DEF NatOn
<1>8. s \ {e} \in FiniteSubsetsOf(S)
  BY <1>3, FS_RemoveElement DEF FiniteSubsetsOf
<1>9. s \ {e} \in wrong
  BY <1>3, <1>6, <1>7, <1>8
<1>10. <<s \ {e}, s>> \in StrictSubsetOrdering(S)
  BY <1>3, <1>5 DEF StrictSubsetOrdering
<1> QED
  BY <1>2, <1>9, <1>10

\* The sum is the number of places.
LEMMA SumIsPlaces ==
  ASSUME NEW w, NEW S, IsFiniteSet(S), NatOn(w, S)
  PROVE  SumFunctionOnSet(w, S) = Cardinality(Places(w, S))
<1>1. SumFunctionOnSet(w, S) = (CHOOSE f : PartSums(f, w, S))[S]
  BY DEF SumFunctionOnSet, FoldFunctionOnSet, MapThenFoldSet, PartSums
<1>2. \E f : PartSums(f, w, S)
  BY PlacesArePartSums
<1>3. PartSums(CHOOSE f : PartSums(f, w, S), w, S)
  BY <1>2, Zenon
<1> QED
  BY <1>1, <1>3, PartSumsUnique

\* The sum over no index.
LEMMA SumOfNone == ASSUME NEW w PROVE SumFunctionOnSet(w, {}) = 0
BY SumIsPlaces, NoPlaces, FS_EmptySet DEF NatOn

\* A sum is a number.
LEMMA SumType ==
  ASSUME NEW w, NEW S, IsFiniteSet(S), NatOn(w, S)
  PROVE  SumFunctionOnSet(w, S) \in Nat
BY SumIsPlaces, PlacesFinite, FS_CardinalityType

\* A sum is one of its terms and the sum of the others.
LEMMA SumWithout ==
  ASSUME NEW w, NEW S, IsFiniteSet(S), NatOn(w, S), NEW x \in S
  PROVE  /\ SumFunctionOnSet(w, S) = w[x] + SumFunctionOnSet(w, S \ {x})
         /\ SumFunctionOnSet(w, S \ {x}) \in Nat
<1>1. IsFiniteSet(S \ {x}) /\ NatOn(w, S \ {x})
  BY FS_RemoveElement DEF NatOn
<1> QED
  BY <1>1, SumIsPlaces, SumType, PlacesWithout

\* A sum depends on nothing but its terms.
LEMMA SumOfSame ==
  ASSUME NEW v, NEW w, NEW S, IsFiniteSet(S), NatOn(w, S), \A i \in S : v[i] = w[i]
  PROVE  SumFunctionOnSet(v, S) = SumFunctionOnSet(w, S)
<1>1. NatOn(v, S)
  BY DEF NatOn
<1>2. Places(v, S) = Places(w, S)
  BY DEF Places, PlacesOf
<1> QED
  BY <1>1, <1>2, SumIsPlaces

\* Smaller terms, smaller sum.
LEMMA SumMonotone ==
  ASSUME NEW v, NEW w, NEW S, IsFiniteSet(S), NatOn(v, S), NatOn(w, S), \A i \in S : v[i] <= w[i]
  PROVE  SumFunctionOnSet(v, S) <= SumFunctionOnSet(w, S)
<1>1. ASSUME NEW i \in S PROVE PlacesOf(v, i) \subseteq PlacesOf(w, i)
  <2>1. 0..(v[i] - 1) \subseteq 0..(w[i] - 1)
    BY DEF NatOn
  <2> QED
    BY <2>1 DEF PlacesOf
<1>2. Places(v, S) \in SUBSET Places(w, S)
  BY <1>1 DEF Places
<1>3. IsFiniteSet(Places(w, S))
  BY PlacesFinite
<1> QED
  BY <1>2, <1>3, SumIsPlaces, FS_Subset

\* Terms that are not larger and add up to the same are the same.
LEMMA SumTight ==
  ASSUME NEW v, NEW w, NEW S, IsFiniteSet(S), NatOn(v, S), NatOn(w, S), \A i \in S : v[i] <= w[i],
         SumFunctionOnSet(v, S) = SumFunctionOnSet(w, S), NEW x \in S
  PROVE  v[x] = w[x]
<1>1. IsFiniteSet(S \ {x}) /\ NatOn(v, S \ {x}) /\ NatOn(w, S \ {x})
  BY FS_RemoveElement DEF NatOn
<1>2. SumFunctionOnSet(v, S \ {x}) <= SumFunctionOnSet(w, S \ {x})
  BY <1>1, SumMonotone
<1>3. /\ SumFunctionOnSet(v, S) = v[x] + SumFunctionOnSet(v, S \ {x})
      /\ SumFunctionOnSet(v, S \ {x}) \in Nat
      /\ SumFunctionOnSet(w, S) = w[x] + SumFunctionOnSet(w, S \ {x})
      /\ SumFunctionOnSet(w, S \ {x}) \in Nat
  BY SumWithout
<1>4. v[x] \in Nat /\ w[x] \in Nat /\ v[x] <= w[x]
  BY DEF NatOn
<1>5. \A a, b, c, d \in Nat : a <= b /\ c <= d /\ a + c = b + d => a = b
  OBVIOUS
<1>6. v[x] + SumFunctionOnSet(v, S \ {x}) = w[x] + SumFunctionOnSet(w, S \ {x})
  BY <1>3
<1> QED
  BY <1>2, <1>3, <1>4, <1>5, <1>6

\* A sum of nothing but zeros.
LEMMA SumOfZeros ==
  ASSUME NEW w, NEW S, IsFiniteSet(S), \A i \in S : w[i] = 0
  PROVE  SumFunctionOnSet(w, S) = 0
<1>1. \A i \in S : PlacesOf(w, i) = {}
  BY DEF PlacesOf
<1>2. Places(w, S) = {} /\ NatOn(w, S)
  BY <1>1 DEF Places, NatOn
<1> QED
  BY <1>2, SumIsPlaces, FS_EmptySet

\* One more of one term is one more of the sum.
LEMMA SumPlusOne ==
  ASSUME NEW w, NEW S, IsFiniteSet(S), w \in [S -> Nat], NEW x \in S
  PROVE  SumFunctionOnSet([w EXCEPT ![x] = @ + 1], S) = SumFunctionOnSet(w, S) + 1
<1> DEFINE v == [w EXCEPT ![x] = @ + 1]
<1>1. v \in [S -> Nat] /\ v[x] = w[x] + 1 /\ \A i \in S \ {x} : v[i] = w[i]
  OBVIOUS
<1>2. NatOn(v, S) /\ NatOn(w, S) /\ NatOn(w, S \ {x}) /\ w[x] \in Nat /\ IsFiniteSet(S \ {x})
  BY <1>1, FS_RemoveElement DEF NatOn
<1> HIDE DEF v
<1>3. SumFunctionOnSet(v, S \ {x}) = SumFunctionOnSet(w, S \ {x})
  BY <1>1, <1>2, SumOfSame
<1>4. /\ SumFunctionOnSet(v, S) = v[x] + SumFunctionOnSet(v, S \ {x})
      /\ SumFunctionOnSet(w, S) = w[x] + SumFunctionOnSet(w, S \ {x})
      /\ SumFunctionOnSet(w, S \ {x}) \in Nat
  BY <1>2, SumWithout
<1>5. SumFunctionOnSet(v, S) = SumFunctionOnSet(w, S) + 1
  BY <1>1, <1>2, <1>3, <1>4
<1> QED
  BY <1>5 DEF v

-----------------------------------------------------------------------------
(***************************************************************************)
(* The weighted pick.                                                      *)
(***************************************************************************)

\* A set of natural numbers that has a member has a least one, and Min is it.
LEMMA MinOfNats ==
  ASSUME NEW T \in SUBSET Nat, T # {}
  PROVE  Min(T) \in T /\ \A y \in T : Min(T) <= y
<1>1. PICK x \in T : \A y \in T : <<y, x>> \notin OpToRel(<, Nat)
  BY NatLessThanWellFounded, WFMin
<1>2. ASSUME NEW y \in T, y < x PROVE FALSE
  <2>1. <<y, x>> \in {p \in Nat \X Nat : p[1] < p[2]}
    BY <1>2
  <2>2. <<y, x>> \in OpToRel(<, Nat)
    BY <2>1 DEF OpToRel
  <2> QED
    BY <1>1, <2>2
<1>3. \A y \in T : x <= y
  BY <1>2
<1> QED
  BY <1>3 DEF Min

\* A set of numbers up to a bound that has a member has a greatest one.
LEMMA MaxOfNats ==
  ASSUME NEW n \in Nat, NEW T \in SUBSET (1..n), T # {}
  PROVE  \E x \in T : \A y \in T : y <= x
<1> DEFINE bounds == {b \in Nat : \A y \in T : y <= b}
<1>1. n \in bounds
  OBVIOUS
<1>2. Min(bounds) \in bounds /\ \A b \in bounds : Min(bounds) <= b
  BY <1>1, MinOfNats
<1> DEFINE b == Min(bounds)
<1>3. b \in Nat /\ \A y \in T : y <= b
  BY <1>2
<1>4. \A c \in bounds : b <= c
  BY <1>2
<1> HIDE DEF b
<1>5. ASSUME b \notin T PROVE FALSE
  <2>1. \A y \in T : y <= b - 1 /\ y >= 1
    BY <1>3, <1>5
  <2>2. b - 1 \in Nat
    <3>1. PICK y \in T : TRUE
      OBVIOUS
    <3>2. y \in 1..n /\ y <= b - 1
      BY <2>1
    <3> QED
      BY <1>3, <3>2
  <2>3. b - 1 \in bounds
    BY <2>1, <2>2
  <2> QED
    BY <1>3, <1>4, <2>3
<1> QED
  BY <1>3, <1>5

\* The indices up to one of them, and those before it.
UpTo(S, i) == {j \in S : j <= i}

Before(S, i) == {j \in S : j < i}

\* Positive weights.
Weights(w, S) == \A i \in S : w[i] \in Nat \ {0}

\* The index that the loop of pickNode stops at.
Owner(w, S, pos) == Min({j \in S : pos < SumFunctionOnSet(w, UpTo(S, j))})

\* The place pos is one of that index's own.
LEMMA OwnerOwns ==
  ASSUME NEW n \in Nat, NEW S \in SUBSET (1..n), NEW w, Weights(w, S),
         NEW pos \in 0..(SumFunctionOnSet(w, S) - 1)
  PROVE  LET i == Owner(w, S, pos)
         IN  /\ i \in S
             /\ SumFunctionOnSet(w, Before(S, i)) \in Nat
             /\ SumFunctionOnSet(w, Before(S, i)) <= pos
             /\ pos < SumFunctionOnSet(w, Before(S, i)) + w[i]
<1> DEFINE past == {j \in S : pos < SumFunctionOnSet(w, UpTo(S, j))}
           i    == Min(past)
<1>1. IsFiniteSet(S) /\ NatOn(w, S)
  <2>1. IsFiniteSet(1..n)
    BY FS_Interval
  <2> QED
    BY <2>1, FS_Subset DEF Weights, NatOn
<1>2. \A T \in SUBSET S : IsFiniteSet(T) /\ NatOn(w, T) /\ SumFunctionOnSet(w, T) \in Nat
  BY <1>1, FS_Subset, SumType DEF NatOn
<1>3. S # {}
  BY SumOfNone
<1>4. PICK last \in S : \A j \in S : j <= last
  BY <1>3, MaxOfNats
<1>5. UpTo(S, last) = S
  BY <1>4 DEF UpTo
<1>6. last \in past /\ past \in SUBSET Nat /\ pos \in Nat
  <2>1. SumFunctionOnSet(w, S) \in Nat
    BY <1>2
  <2>2. pos \in Nat /\ pos < SumFunctionOnSet(w, S)
    BY <2>1
  <2>3. last \in past
    BY <1>5, <2>2
  <2>4. past \in SUBSET Nat
    <3>1. past \subseteq S
      OBVIOUS
    <3>2. \A j \in S : j \in Nat
      OBVIOUS
    <3> QED
      BY <3>1, <3>2
  <2> QED
    BY <2>2, <2>3, <2>4
<1>7. \A j \in S : j \in past <=> pos < SumFunctionOnSet(w, UpTo(S, j))
  OBVIOUS
<1>8. past \subseteq S
  OBVIOUS
<1> HIDE DEF past
<1>9. i \in past /\ \A j \in past : i <= j
  BY <1>6, MinOfNats
<1> HIDE DEF i
<1>10. i \in S /\ i \in 1..n /\ pos < SumFunctionOnSet(w, UpTo(S, i))
  BY <1>7, <1>8, <1>9
<1>11. \A j \in S : j < i => ~ (pos < SumFunctionOnSet(w, UpTo(S, j)))
  BY <1>7, <1>9, <1>10
<1>12. SumFunctionOnSet(w, UpTo(S, i)) = w[i] + SumFunctionOnSet(w, Before(S, i))
  <2>1. \A j \in S : j \in 1..n
    OBVIOUS
  <2>2. UpTo(S, i) \in SUBSET S /\ i \in UpTo(S, i)
    BY <1>10, <2>1 DEF UpTo
  <2>3. UpTo(S, i) \ {i} = Before(S, i)
    <3>1. \A j \in S : (j <= i /\ j # i) <=> j < i
      BY <1>10, <2>1
    <3> QED
      BY <3>1, Zenon DEF UpTo, Before
  <2> QED
    BY <1>2, <2>2, <2>3, SumWithout
<1>13. SumFunctionOnSet(w, Before(S, i)) \in Nat
  BY <1>2 DEF Before
<1>14. SumFunctionOnSet(w, Before(S, i)) <= pos
  <2>1. CASE Before(S, i) = {}
    BY <2>1, SumOfNone
  <2>2. CASE Before(S, i) # {}
    <3>1. Before(S, i) \in SUBSET (1..n)
      BY DEF Before
    <3>2. PICK m \in Before(S, i) : \A j \in Before(S, i) : j <= m
      BY <2>2, <3>1, MaxOfNats
    <3>3. m \in S /\ m < i /\ \A j \in S : j \in 1..n
      BY <3>2 DEF Before
    <3>4. \A j \in S : j < i => j <= m
      BY <3>2 DEF Before
    <3>5. \A j \in S : j <= m <=> j < i
      BY <1>10, <3>3, <3>4
    <3>6. UpTo(S, m) = Before(S, i)
      BY <3>5, Zenon DEF Before, UpTo
    <3>7. ~ (pos < SumFunctionOnSet(w, Before(S, i)))
      BY <1>11, <3>3, <3>6
    <3> QED
      BY <1>6, <1>13, <3>7
  <2> QED
    BY <2>1, <2>2
<1>15. pos < SumFunctionOnSet(w, Before(S, i)) + w[i]
  BY <1>1, <1>6, <1>10, <1>12, <1>13 DEF NatOn
<1> QED
  BY <1>10, <1>13, <1>14, <1>15 DEF i, past, Owner

\* Numbers less than n apart have different remainders.
LEMMA RemaindersDiffer ==
  ASSUME NEW n \in Nat \ {0}, NEW j \in Nat, NEW k \in Nat, j < k, k < j + n
  PROVE  j % n # k % n
<1>1. j = n * (j \div n) + (j % n) /\ k = n * (k \div n) + (k % n)
  OBVIOUS
<1>2. j \div n \in Int /\ k \div n \in Int /\ j % n \in 0..(n - 1) /\ k % n \in 0..(n - 1)
  OBVIOUS
<1> DEFINE a == j \div n
           b == k \div n
           d == k % n
<1>3. a \in Int /\ b \in Int /\ d \in Int /\ j = n * a + (j % n) /\ k = n * b + d
  BY <1>1, <1>2
<1> HIDE DEF a, b, d
<1> SUFFICES ASSUME j % n = d PROVE FALSE
  BY DEF d
<1>4. n * a \in Int /\ n * b \in Int /\ n * b - n * a = k - j
  BY <1>3
<1>5. n * (b - a) = k - j /\ b - a \in Int
  BY <1>3, <1>4
<1>6. \A c \in Int : c >= 1 => n * c >= n
  OBVIOUS
<1>7. \A c \in Int : c <= 0 => n * c <= 0
  OBVIOUS
<1>8. CASE b - a >= 1
  BY <1>5, <1>6, <1>8
<1>9. CASE b - a <= 0
  BY <1>5, <1>7, <1>9
<1> QED
  BY <1>5, <1>8, <1>9

\* The values of the counter from lo to hi at which i is picked.
PickedAt(w, S, lo, hi, i) == {k \in lo..hi : Owner(w, S, k % SumFunctionOnSet(w, S)) = i}

\* The sum of positive weights over some indices is positive.
LEMMA SumPositive ==
  ASSUME NEW n \in Nat, NEW S \in SUBSET (1..n), S # {}, NEW w, Weights(w, S)
  PROVE  SumFunctionOnSet(w, S) \in Nat \ {0}
<1>1. IsFiniteSet(1..n)
  BY FS_Interval
<1>2. IsFiniteSet(S) /\ NatOn(w, S)
  BY <1>1, FS_Subset DEF Weights, NatOn
<1>3. PICK i \in S : TRUE
  OBVIOUS
<1>4. /\ SumFunctionOnSet(w, S) = w[i] + SumFunctionOnSet(w, S \ {i})
      /\ SumFunctionOnSet(w, S \ {i}) \in Nat /\ w[i] \in Nat \ {0}
  BY <1>2, SumWithout DEF Weights
<1> QED
  BY <1>4

\* Each value of the counter picks one of the candidates.
LEMMA OwnerIsCandidate ==
  ASSUME NEW n \in Nat, NEW S \in SUBSET (1..n), S # {}, NEW w, Weights(w, S), NEW k \in Nat
  PROVE  Owner(w, S, k % SumFunctionOnSet(w, S)) \in S
<1>1. SumFunctionOnSet(w, S) \in Nat \ {0}
  BY SumPositive
<1>2. k % SumFunctionOnSet(w, S) \in 0..(SumFunctionOnSet(w, S) - 1)
  BY <1>1
<1> QED
  BY <1>2, OwnerOwns

\* Within one turn of the counter a candidate is picked no more often than its weight
\* says: the values that pick it have different remainders, which are its places.
LEMMA ShareOfTurn ==
  ASSUME NEW n \in Nat, NEW S \in SUBSET (1..n), NEW w, Weights(w, S),
         NEW lo \in Nat, NEW hi \in Int, hi < lo + SumFunctionOnSet(w, S), NEW i \in S
  PROVE  Cardinality(PickedAt(w, S, lo, hi, i)) <= w[i]
<1> DEFINE sum    == SumFunctionOnSet(w, S)
           first  == SumFunctionOnSet(w, Before(S, i))
           picked == PickedAt(w, S, lo, hi, i)
           place  == [k \in picked |-> k % sum]
<1>1. sum \in Nat \ {0}
  BY SumPositive
<1>2. ASSUME NEW k \in picked
      PROVE  /\ k \in Nat /\ k >= lo /\ k <= hi
             /\ first \in Nat /\ first <= k % sum /\ k % sum < first + w[i]
  <2>1. k \in Nat /\ k >= lo /\ k <= hi /\ Owner(w, S, k % sum) = i
    BY DEF PickedAt
  <2>2. k % sum \in 0..(sum - 1)
    BY <1>1, <2>1
  <2> QED
    BY <2>1, <2>2, OwnerOwns
<1>3. w[i] \in Nat \ {0}
  BY DEF Weights
<1> HIDE DEF sum, first, picked
<1>4. CASE picked = {}
  BY <1>3, <1>4, FS_EmptySet DEF picked
<1>5. CASE picked # {}
  <2>1. first \in Nat
    BY <1>2, <1>5
  <2>2. \A k \in picked : k % sum \in first..(first + w[i] - 1)
    BY <1>1, <1>2, <1>3, <2>1
  <2>3. \A j, k \in picked : j % sum = k % sum => j = k
    <3> SUFFICES ASSUME NEW j \in picked, NEW k \in picked, j < k PROVE j % sum # k % sum
      BY <1>2
    <3>1. j \in Nat /\ k \in Nat /\ k < j + sum
      BY <1>1, <1>2 DEF sum
    <3> QED
      BY <1>1, <3>1, RemaindersDiffer
  <2>4. place \in Injection(picked, first..(first + w[i] - 1))
    BY <2>2, <2>3 DEF Injection, IsInjective
  <2>5. /\ IsFiniteSet(first..(first + w[i] - 1))
        /\ Cardinality(first..(first + w[i] - 1)) = w[i]
    <3> DEFINE last == first + w[i] - 1
    <3>1. last \in Int /\ ~ (first > last) /\ last - first + 1 = w[i] /\ first \in Int
      BY <1>3, <2>1
    <3> HIDE DEF last
    <3>2. IsFiniteSet(first..last) /\ Cardinality(first..last) = w[i]
      BY <3>1, FS_Interval
    <3> QED
      BY <3>2 DEF last
  <2> HIDE DEF place
  <2> QED
    BY <2>4, <2>5, FS_Injection DEF picked
<1> QED
  BY <1>4, <1>5

-----------------------------------------------------------------------------
(***************************************************************************)
(* The history of a turn.                                                  *)
(***************************************************************************)

\* The picks of a turn are those of the last values of the counter, as many as there
\* were picks, and these are no more than a full turn.
Counts(w, S, picks, r) ==
  LET total == SumFunctionOnSet(picks, S)
  IN  /\ picks \in [S -> Nat]
      /\ total <= SumFunctionOnSet(w, S) /\ total <= r + 1
      /\ \A i \in S : picks[i] = Cardinality(PickedAt(w, S, r - total + 1, r, i))

\* Then no candidate has more than its share.
LEMMA CountsBounded ==
  ASSUME NEW n \in Nat, NEW S \in SUBSET (1..n), NEW w, Weights(w, S), NEW picks, NEW r \in Nat,
         Counts(w, S, picks, r), NEW i \in S
  PROVE  picks[i] <= w[i]
<1> DEFINE total == SumFunctionOnSet(picks, S)
<1>1. IsFiniteSet(1..n)
  BY FS_Interval
<1>2. IsFiniteSet(S) /\ NatOn(picks, S)
  BY <1>1, FS_Subset DEF Counts, NatOn
<1>3. total \in Nat
  BY <1>2, SumType
<1>4. SumFunctionOnSet(w, S) \in Nat
  BY SumPositive
<1>5. total <= SumFunctionOnSet(w, S) /\ total <= r + 1
  BY DEF Counts
<1>6. picks[i] = Cardinality(PickedAt(w, S, r - total + 1, r, i))
  BY DEF Counts
<1> DEFINE lo == r - total + 1
<1> HIDE DEF total
<1>7. lo \in Nat /\ r < lo + SumFunctionOnSet(w, S) /\ r \in Int
  BY <1>3, <1>4, <1>5
<1>8. picks[i] = Cardinality(PickedAt(w, S, lo, r, i))
  BY <1>6
<1> HIDE DEF lo
<1>9. Cardinality(PickedAt(w, S, lo, r, i)) <= w[i]
  BY <1>7, ShareOfTurn
<1> QED
  BY <1>8, <1>9

\* One more value of the counter: it is counted where it picks.
LEMMA PickedOneMore ==
  ASSUME NEW w, NEW S, NEW lo \in Int, NEW hi \in Int, lo <= hi + 1, NEW i
  PROVE  Cardinality(PickedAt(w, S, lo, hi + 1, i)) =
           Cardinality(PickedAt(w, S, lo, hi, i))
             + IF i = Owner(w, S, (hi + 1) % SumFunctionOnSet(w, S)) THEN 1 ELSE 0
<1> DEFINE old == PickedAt(w, S, lo, hi, i)
           new == PickedAt(w, S, lo, hi + 1, i)
           at(k) == Owner(w, S, k % SumFunctionOnSet(w, S))
<1>1. IsFiniteSet(lo..hi) /\ old \in SUBSET (lo..hi)
  BY FS_Interval DEF PickedAt
<1>2. IsFiniteSet(old) /\ Cardinality(old) \in Nat
  BY <1>1, FS_Subset, FS_CardinalityType
<1>3. lo..(hi + 1) = (lo..hi) \cup {hi + 1} /\ hi + 1 \notin lo..hi
  OBVIOUS
<1>4. hi + 1 \notin old
  BY <1>1, <1>3
<1>5. new = {k \in lo..(hi + 1) : at(k) = i} /\ old = {k \in lo..hi : at(k) = i}
  BY DEF PickedAt
<1> HIDE DEF old, new, at
<1>6. CASE at(hi + 1) = i
  <2>1. new = old \cup {hi + 1}
    BY <1>3, <1>5, <1>6
  <2> QED
    BY <1>2, <1>4, <1>6, <2>1, FS_AddElement DEF old, new, at
<1>7. CASE at(hi + 1) # i
  <2>1. new = old
    BY <1>3, <1>5, <1>7
  <2> QED
    BY <1>2, <1>7, <2>1 DEF old, new, at
<1> QED
  BY <1>6, <1>7

\* A pick that counts towards the turn.
LEMMA CountsStep ==
  ASSUME NEW n \in Nat, NEW S \in SUBSET (1..n), NEW w, Weights(w, S), NEW picks, NEW r \in Nat,
         Counts(w, S, picks, r), SumFunctionOnSet(picks, S) < SumFunctionOnSet(w, S),
         NEW i \in S, i = Owner(w, S, (r + 1) % SumFunctionOnSet(w, S))
  PROVE  Counts(w, S, [picks EXCEPT ![i] = @ + 1], r + 1)
<1> DEFINE total == SumFunctionOnSet(picks, S)
           new   == [picks EXCEPT ![i] = @ + 1]
           lo    == r - total + 1
<1>1. IsFiniteSet(1..n)
  BY FS_Interval
<1>2. IsFiniteSet(S) /\ picks \in [S -> Nat] /\ NatOn(picks, S)
  BY <1>1, FS_Subset DEF Counts, NatOn
<1>3. total \in Nat
  BY <1>2, SumType
<1>4. SumFunctionOnSet(w, S) \in Nat
  BY SumPositive
<1>5. SumFunctionOnSet(new, S) = total + 1
  BY <1>2, SumPlusOne
<1>6. /\ total <= r + 1
      /\ \A j \in S : picks[j] = Cardinality(PickedAt(w, S, lo, r, j))
  BY DEF Counts
<1>7. total < SumFunctionOnSet(w, S)
  OBVIOUS
<1>8. new \in [S -> Nat] /\ \A j \in S : new[j] = picks[j] + IF j = i THEN 1 ELSE 0
  BY <1>2
<1> HIDE DEF total, new
<1>9. /\ lo \in Int /\ lo <= r + 1 /\ (r + 1) - (total + 1) + 1 = lo
      /\ total + 1 <= SumFunctionOnSet(w, S) /\ total + 1 <= (r + 1) + 1
  BY <1>3, <1>4, <1>6, <1>7
<1> HIDE DEF lo
<1>10. ASSUME NEW j \in S
       PROVE  new[j] = Cardinality(PickedAt(w, S, lo, r + 1, j))
  BY <1>6, <1>8, <1>9, PickedOneMore
<1>11. Counts(w, S, new, r + 1)
  BY <1>5, <1>8, <1>9, <1>10 DEF Counts
<1> QED
  BY <1>11 DEF new

\* The first pick of a turn, wherever the counter stands.
LEMMA CountsFresh ==
  ASSUME NEW n \in Nat, NEW S \in SUBSET (1..n), NEW w, Weights(w, S), NEW r \in Nat,
         NEW i \in S, i = Owner(w, S, r % SumFunctionOnSet(w, S))
  PROVE  Counts(w, S, [[j \in S |-> 0] EXCEPT ![i] = @ + 1], r)
<1> DEFINE zeros == [j \in S |-> 0]
           new   == [zeros EXCEPT ![i] = @ + 1]
<1>1. IsFiniteSet(1..n)
  BY FS_Interval
<1>2. IsFiniteSet(S) /\ zeros \in [S -> Nat] /\ \A j \in S : zeros[j] = 0
  BY <1>1, FS_Subset
<1>3. new \in [S -> Nat] /\ \A j \in S : new[j] = IF j = i THEN 1 ELSE 0
  BY <1>2
<1> HIDE DEF zeros
<1>4. SumFunctionOnSet(new, S) = 1
  <2>1. SumFunctionOnSet(zeros, S) = 0
    BY <1>2, SumOfZeros
  <2>2. SumFunctionOnSet(new, S) = SumFunctionOnSet(zeros, S) + 1
    BY <1>2, SumPlusOne
  <2> QED
    BY <2>1, <2>2
<1>5. SumFunctionOnSet(w, S) \in Nat \ {0}
  BY SumPositive
<1> HIDE DEF new
<1>6. ASSUME NEW j \in S
      PROVE  new[j] = Cardinality(PickedAt(w, S, r, r, j))
  <2>1. r - 1 \in Int /\ (r - 1) + 1 = r /\ r <= (r - 1) + 1
    OBVIOUS
  <2>2. PickedAt(w, S, r, r - 1, j) = {}
    BY DEF PickedAt
  <2>3. Cardinality(PickedAt(w, S, r, r - 1, j)) = 0
    BY <2>2, FS_EmptySet
  <2>4. Cardinality(PickedAt(w, S, r, (r - 1) + 1, j)) =
          Cardinality(PickedAt(w, S, r, r - 1, j))
            + IF j = Owner(w, S, ((r - 1) + 1) % SumFunctionOnSet(w, S)) THEN 1 ELSE 0
    BY <2>1, PickedOneMore
  <2> QED
    BY <1>3, <2>1, <2>3, <2>4
<1>7. r - 1 + 1 = r
  OBVIOUS
<1>8. Counts(w, S, new, r)
  BY <1>3, <1>4, <1>5, <1>6, <1>7 DEF Counts
<1> QED
  BY <1>8 DEF new, zeros

-----------------------------------------------------------------------------
(***************************************************************************)
(* What parsePool makes of the items.                                      *)
(***************************************************************************)

\* What the loop of parsePool has kept after each of the first m items.
KeptOf(f, text, m) ==
  f = [n \in 0..m |->
         IF n = 0 THEN <<>>
         ELSE IF text[n].blank THEN f[n - 1] ELSE Append(f[n - 1], text[n])]

\* The loop has a result, however many items there are: the least number for which it
\* had none would have one, from that of the items before.
LEMMA KeptExists ==
  ASSUME NEW text, NEW L \in Nat
  PROVE  \E f : KeptOf(f, text, L)
<1> DEFINE lacking == {m \in Nat : ~ \E f : KeptOf(f, text, m)}
<1> SUFFICES ASSUME lacking # {} PROVE FALSE
  OBVIOUS
<1> DEFINE m == Min(lacking)
<1>1. m \in lacking /\ \A k \in lacking : m <= k
  BY MinOfNats
<1>2. m \in Nat /\ ~ \E f : KeptOf(f, text, m)
  BY <1>1
<1>3. \A k \in Nat : k < m => \E f : KeptOf(f, text, k)
  BY <1>1, <1>2
<1> HIDE DEF lacking, m
<1>4. CASE m = 0
  <2>1. KeptOf([n \in 0..0 |-> <<>>], text, 0)
    BY DEF KeptOf
  <2> QED
    BY <1>2, <1>4, <2>1
<1>5. CASE m > 0
  <2>1. PICK g : KeptOf(g, text, m - 1)
    BY <1>2, <1>3, <1>5
  <2> DEFINE next(h, n) == IF n = 0 THEN <<>>
                           ELSE IF text[n].blank THEN h[n - 1] ELSE Append(h[n - 1], text[n])
             f == [n \in 0..m |-> next(g, n)]
  <2>2. g = [n \in 0..(m - 1) |-> next(g, n)]
    BY <2>1 DEF KeptOf
  <2>3. ASSUME NEW n \in 0..m PROVE f[n] = next(f, n)
    <3> HIDE DEF next
    <3>1. \A k \in 0..(m - 1) : k \in 0..m
      BY <1>2
    <3>2. \A k \in 0..(m - 1) : f[k] = g[k]
      BY <2>2, <3>1
    <3>3. n # 0 => n - 1 \in 0..(m - 1)
      BY <1>2
    <3>4. f[n] = next(g, n)
      OBVIOUS
    <3>5. n # 0 => f[n - 1] = g[n - 1]
      BY <3>2, <3>3
    <3> HIDE DEF f
    <3> QED
      BY <3>4, <3>5 DEF next
  <2>4. KeptOf(f, text, m)
    BY <2>3 DEF KeptOf
  <2> QED
    BY <1>2, <2>4
<1> QED
  BY <1>2, <1>4, <1>5

\* Only items that are not blank are kept.
LEMMA ItemsType ==
  ASSUME NEW D, NEW text \in Seq(D)
  PROVE  Items(text) \in Seq({item \in D : ~ item.blank})
<1> DEFINE L == Len(text)
           f == CHOOSE g : KeptOf(g, text, L)
           kept == {item \in D : ~ item.blank}
           wrong == {n \in 0..L : f[n] \notin Seq(kept)}
<1>1. L \in Nat
  BY LenProperties
<1>2. Items(text) = f[L]
  BY DEF Items, KeptOf
<1>3. KeptOf(f, text, L)
  BY <1>1, KeptExists, Zenon
<1> HIDE DEF f, L
<1> SUFFICES ASSUME wrong # {} PROVE FALSE
  BY <1>1, <1>2
<1> DEFINE m == Min(wrong)
<1>4. m \in wrong /\ \A n \in wrong : m <= n
  <2>1. wrong \in SUBSET Nat
    BY <1>1
  <2> HIDE DEF wrong
  <2> QED
    BY <2>1, MinOfNats
<1>5. \A n \in 0..L : n \in wrong <=> f[n] \notin Seq(kept)
  OBVIOUS
<1>6. wrong \subseteq 0..L
  OBVIOUS
<1> HIDE DEF wrong, m, kept
<1>7. m \in 0..L /\ f[m] \notin Seq(kept)
  BY <1>4, <1>5, <1>6
<1>8. \A n \in 0..L : n < m => f[n] \in Seq(kept)
  BY <1>1, <1>4, <1>5, <1>7
<1>9. m # 0
  BY <1>1, <1>3, <1>7 DEF KeptOf
<1>10. f[m - 1] \in Seq(kept) /\ m \in 1..L
  BY <1>1, <1>8, <1>9, <1>7
<1>11. f[m] = IF text[m].blank THEN f[m - 1] ELSE Append(f[m - 1], text[m])
  BY <1>3, <1>9, <1>7 DEF KeptOf
<1>12. text[m] \in D
  BY <1>10, ElementOfSeq DEF L
<1>13. ~ text[m].blank => text[m] \in kept
  BY <1>12 DEF kept
<1> QED
  BY <1>10, <1>11, <1>13, <1>7, AppendProperties

ItemType == [blank : BOOLEAN, scheme : STRING, host : Addrs \cup {NoAddr}, weight : Seq(Int)]

NodeType == [mode : {"http-upstream", "socks5-upstream"}, addr : Addrs, weight : 1..MaxInt]

\* A text that parsePool accepts becomes a pool with a node, each with a mode that can
\* be dialled, an address and a positive weight.
LEMMA ParsedPool ==
  ASSUME NEW text \in Seq(ItemType), ~ ParseFails(text)
  PROVE  ParsePool(text) \in Seq(NodeType) /\ ParsePool(text) # <<>>
<1> DEFINE items == Items(text)
           node(item) == [mode |-> ModeOf(item.scheme), addr |-> item.host,
                          weight |-> IF item.weight = <<>> THEN 1 ELSE Head(item.weight)]
<1>1. items \in Seq(ItemType)
  <2>1. items \in Seq({item \in ItemType : ~ item.blank})
    BY ItemsType
  <2> QED
    BY <2>1, SeqMonotonic
<1>2. items # <<>> /\ \A item \in ToSet(items) : ~ ItemBad(item)
  BY DEF ParseFails
<1>3. ParsePool(text) = [i \in DOMAIN items |-> node(items[i])]
  BY DEF ParsePool
<1> HIDE DEF items
<1>4. DOMAIN items = 1..Len(items) /\ Len(items) \in Nat /\ Len(items) # 0
  BY <1>1, <1>2, LenProperties, EmptySeq
<1>5. ASSUME NEW i \in 1..Len(items)
      PROVE  node(items[i]) \in NodeType
  <2> DEFINE item == items[i]
  <2>1. item \in ItemType
    BY <1>1, ElementOfSeq
  <2>2. item \in ToSet(items)
    BY <1>4 DEF ToSet
  <2>3. ~ ItemBad(item)
    BY <1>2, <2>2
  <2> HIDE DEF item
  <2>4. ModeOf(item.scheme) \in {"http-upstream", "socks5-upstream"}
    BY <2>3 DEF ItemBad, ModeOf
  <2>5. item.host \in Addrs
    BY <2>1, <2>3 DEF ItemBad, ItemType
  <2>6. item.weight # <<>> => Head(item.weight) \in 1..MaxInt
    BY <2>3 DEF ItemBad
  <2>7. 1 \in 1..MaxInt
    BY PoolAssumption
  <2>8. node(item) \in NodeType
    BY <2>4, <2>5, <2>6, <2>7 DEF NodeType
  <2> QED
    BY <2>8 DEF item
<1> HIDE DEF node
<1>6. ParsePool(text) \in [1..Len(items) -> NodeType]
  BY <1>3, <1>4, <1>5
<1>7. ParsePool(text) \in Seq(NodeType) /\ Len(ParsePool(text)) = Len(items)
  BY <1>4, <1>6, SeqDef, LenProperties
<1> QED
  BY <1>4, <1>7, EmptySeq

-----------------------------------------------------------------------------
(***************************************************************************)
(* The inductive invariant.                                                *)
(***************************************************************************)
PoolMode == mode = "pool"

\* A process that serves was accepted by Load and parsePool; before that, and when
\* they refused, nothing has begun.
Phases ==
  /\ env \in Envs /\ phase \in {"boot", "serving", "failed"}
  /\ phase = "serving" => mode \in Modes /\ (PoolMode => pool # <<>>)
  /\ phase # "serving" =>
       /\ mode = "unset" /\ pool = <<>> /\ health = <<>> /\ turn = NoTurn
       /\ probe.pc = "idle" /\ \A d \in Dialers : dial[d] = IdleDial

ProbeOK(p, nodes) ==
  /\ p \in [pc : {"idle", "dial", "store"}, i : nodes \cup {0}, ok : BOOLEAN]
  /\ p.pc # "idle" => p.i \in nodes

DialType(nodes) == [pc : {"idle", "load", "pick", "connect", "failed", "noroute"},
                    i : nodes \cup {0}, healthy : SUBSET nodes, node : nodes \cup {0}]

DialOK(q, nodes) ==
  /\ q \in DialType(nodes)
  /\ q.pc = "load" => q.i \in nodes
  /\ q.pc = "pick" => nodes # {}

TurnOK(t, nodes, w, r) ==
  /\ t.cands \in SUBSET nodes
  /\ SumFunctionOnSet(w, t.cands) <= MaxInt => Counts(w, t.cands, t.picks, r)

IndInv ==
  /\ Phases
  /\ pool \in Seq(NodeType) /\ health \in [Nodes -> BOOLEAN]
  /\ rr \in 0..(CounterRange - 1) /\ up \subseteq Addrs \ Portless
  /\ ProbeOK(probe, Nodes)
  /\ RouteAlwaysFound
  /\ dial \in [Dialers -> DialType(Nodes)] /\ \A d \in Dialers : DialOK(dial[d], Nodes)
  /\ TurnOK(turn, Nodes, Weight, rr)

-----------------------------------------------------------------------------
(***************************************************************************)
(* The steps.                                                              *)
(***************************************************************************)

\* The nodes are numbered, and their weights positive.
LEMMA PoolNodes ==
  ASSUME pool \in Seq(NodeType)
  PROVE  /\ Len(pool) \in Nat /\ Nodes = 1..Len(pool)
         /\ (pool = <<>> <=> Nodes = {})
         /\ \A i \in Nodes : pool[i] \in NodeType
         /\ Weights(Weight, Nodes)
<1>1. Len(pool) \in Nat /\ Nodes = 1..Len(pool) /\ (pool = <<>> <=> Len(pool) = 0)
  BY LenProperties, EmptySeq DEF Nodes
<1>2. \A i \in Nodes : pool[i] \in NodeType
  BY <1>1, ElementOfSeq
<1>3. Weights(Weight, Nodes)
  <2>1. \A k \in 1..MaxInt : k \in Nat \ {0} /\ ~ (k <= 0)
    BY PoolAssumption
  <2> QED
    BY <1>2, <2>1 DEF Weights, Weight, NodeType
<1>4. \A n \in Nat : n # 0 => 1 \in 1..n
  OBVIOUS
<1>5. 1..0 = {}
  OBVIOUS
<1>6. Nodes = {} <=> Len(pool) = 0
  BY <1>1, <1>4, <1>5
<1> QED
  BY <1>1, <1>2, <1>3, <1>6

\* A number smaller than the divisor is its own remainder.
LEMMA SmallRemainder ==
  ASSUME NEW n \in Nat \ {0}, NEW j \in 0..(n - 1)
  PROVE  j % n = j
<1> DEFINE q == j \div n
<1>1. j = n * q + (j % n) /\ q \in Int /\ j % n \in 0..(n - 1)
  OBVIOUS
<1> HIDE DEF q
<1>2. (q >= 1 => n * q >= n) /\ (q <= -1 => n * q <= -n) /\ n * q \in Int
  BY <1>1
<1>3. q = 0
  BY <1>1, <1>2
<1> QED
  BY <1>1, <1>3

\* Additions of ints: a result that fits is right, any other is some int.
LEMMA AsIntValue ==
  ASSUME NEW n \in Nat
  PROVE  AsInt(n) \in Int /\ (n <= MaxInt => AsInt(n) = n)
<1> DEFINE b == 2 * (MaxInt + 1)
           a == n + MaxInt + 1
<1>1. MaxInt \in Nat /\ b \in Nat \ {0} /\ a \in Nat /\ (n <= MaxInt => a \in 0..(b - 1))
  BY PoolAssumption
<1>2. AsInt(n) = (a % b) - (MaxInt + 1)
  BY DEF AsInt
<1>3. a - (MaxInt + 1) = n
  BY <1>1
<1> HIDE DEF a, b
<1>4. a % b \in Int
  BY <1>1
<1>5. n <= MaxInt => a % b = a
  BY <1>1, SmallRemainder
<1> QED
  BY <1>1, <1>2, <1>3, <1>4, <1>5

\* A sum over fewer indices is not larger.
LEMMA SumOfPart ==
  ASSUME NEW w, NEW S, IsFiniteSet(S), NatOn(w, S), NEW T \in SUBSET S
  PROVE  SumFunctionOnSet(w, T) <= SumFunctionOnSet(w, S)
<1>1. IsFiniteSet(T) /\ NatOn(w, T)
  BY FS_Subset DEF NatOn
<1>2. Places(w, T) \in SUBSET Places(w, S)
  BY DEF Places
<1>3. IsFiniteSet(Places(w, S))
  BY PlacesFinite
<1> QED
  BY <1>1, <1>2, <1>3, SumIsPlaces, FS_Subset

\* What pickNode computes in ints: some node where its sum is positive, and where the
\* weights fit, the sum and the node that unbounded numbers give.
LEMMA PickWords ==
  ASSUME pool \in Seq(NodeType), NEW S \in SUBSET Nodes, S # {}
  PROVE  /\ Total(S) \in Nat \ {0} /\ Total(S) <= Total(Nodes) /\ Sum(S) \in Int
         /\ \A pos \in 0..(Sum(S) - 1) : NodeAt(S, pos) \in S
         /\ Fits(S) => Sum(S) = Total(S) /\ \A pos : NodeAt(S, pos) = Owner(Weight, S, pos)
<1>1. Len(pool) \in Nat /\ Nodes = 1..Len(pool) /\ Weights(Weight, Nodes)
  BY PoolNodes
<1>2. IsFiniteSet(Nodes) /\ NatOn(Weight, Nodes)
  <2>1. IsFiniteSet(1..Len(pool))
    BY <1>1, FS_Interval
  <2> QED
    BY <1>1, <2>1 DEF NatOn, Weights
<1>3. Weights(Weight, S) /\ S \in SUBSET (1..Len(pool)) /\ IsFiniteSet(S) /\ NatOn(Weight, S)
  BY <1>1, <1>2, FS_Subset DEF Weights, NatOn
<1>4. Total(S) \in Nat \ {0}
  BY <1>1, <1>3, SumPositive DEF Total
<1>5. Total(S) <= Total(Nodes)
  BY <1>2, SumOfPart DEF Total
<1>6. Sum(S) \in Int /\ (Fits(S) => Sum(S) = Total(S))
  BY <1>4, AsIntValue DEF Sum, Fits
<1>7. ASSUME NEW pos \in 0..(Sum(S) - 1)
      PROVE  NodeAt(S, pos) \in S
  <2> DEFINE past == {i \in S : pos < Sum({j \in S : j <= i})}
  <2>1. PICK last \in S : \A j \in S : j <= last
    BY <1>1, <1>3, MaxOfNats
  <2>2. {j \in S : j <= last} = S
    BY <2>1
  <2>3. pos < Sum(S)
    BY <1>6
  <2>4. last \in past
    BY <2>2, <2>3
  <2>5. past \subseteq S
    OBVIOUS
  <2>6. NodeAt(S, pos) = Min(past)
    BY DEF NodeAt
  <2> HIDE DEF past
  <2>7. past \in SUBSET Nat /\ past # {}
    BY <1>3, <2>4, <2>5
  <2> QED
    BY <2>5, <2>6, <2>7, MinOfNats
<1>8. ASSUME Fits(S), NEW pos
      PROVE  NodeAt(S, pos) = Owner(Weight, S, pos)
  <2>1. ASSUME NEW i \in S
        PROVE  Sum({j \in S : j <= i}) = SumFunctionOnSet(Weight, UpTo(S, i))
    <3> DEFINE T == {j \in S : j <= i}
    <3>1. T \in SUBSET S /\ T = UpTo(S, i)
      BY DEF UpTo
    <3> HIDE DEF T
    <3>2. IsFiniteSet(T) /\ NatOn(Weight, T)
      BY <1>3, <3>1, FS_Subset DEF NatOn
    <3>3. Total(T) \in Nat /\ Total(T) <= Total(S)
      BY <1>3, <3>1, <3>2, SumType, SumOfPart DEF Total
    <3>4. Total(T) <= MaxInt
      BY <1>4, <1>8, <3>3, PoolAssumption DEF Fits
    <3>5. Sum(T) = Total(T)
      BY <3>3, <3>4, AsIntValue DEF Sum
    <3> QED
      BY <3>1, <3>5 DEF Total, T
  <2>2. {i \in S : pos < Sum({j \in S : j <= i})}
          = {i \in S : pos < SumFunctionOnSet(Weight, UpTo(S, i))}
    BY <2>1
  <2> QED
    BY <2>2, Zenon DEF NodeAt, Owner
<1> QED
  BY <1>4, <1>5, <1>6, <1>7, <1>8

\* A turn in which nothing was picked yet.
LEMMA NoTurnOK ==
  ASSUME NEW w, NEW r \in Nat, NEW nodes
  PROVE  TurnOK(NoTurn, nodes, w, r)
<1>1. SumFunctionOnSet(<<>>, {}) = 0 /\ SumFunctionOnSet(w, {}) = 0
  BY SumOfNone
<1>2. <<>> \in [{} -> Nat]
  OBVIOUS
<1>3. Counts(w, {}, <<>>, r)
  BY <1>1, <1>2 DEF Counts
<1> QED
  BY <1>3 DEF TurnOK, NoTurn

\* The counter is a natural number.
LEMMA CounterBounds == CounterRange \in Nat \ {0}
BY PoolAssumption

\* A handler that has not begun.
LEMMA IdleDialOK == \A nodes : DialOK(IdleDial, nodes)
BY DEF DialOK, DialType, IdleDial

\* The process starts.
LEMMA BootKeeps ==
  ASSUME IndInv, Boot
  PROVE  IndInv'
<1>1. /\ phase = "boot" /\ env \in Envs /\ pool = <<>> /\ health = <<>> /\ turn = NoTurn
      /\ probe.pc = "idle" /\ \A d \in Dialers : dial[d] = IdleDial
  BY DEF Boot, IndInv, Phases
<1>2. UNCHANGED <<env, rr, up, probe, dial, turn>>
  BY DEF Boot
<1>3. rr \in Nat
  BY CounterBounds DEF IndInv
<1>4. Nodes = {}
  BY <1>1, PoolNodes DEF IndInv
<1>5. probe \in [pc : {"idle", "dial", "store"}, i : {0}, ok : BOOLEAN]
  BY <1>4 DEF IndInv, ProbeOK
<1>6. ASSUME NEW nodes
      PROVE  /\ ProbeOK(probe, nodes)
             /\ dial \in [Dialers -> DialType(nodes)] /\ \A d \in Dialers : DialOK(dial[d], nodes)
  <2>1. ProbeOK(probe, nodes)
    BY <1>1, <1>5 DEF ProbeOK
  <2>2. \A d \in Dialers : DialOK(dial[d], nodes)
    BY <1>1, IdleDialOK
  <2>3. dial \in [Dialers -> DialType(nodes)]
    BY <2>2 DEF DialOK, IndInv
  <2> QED
    BY <2>1, <2>2, <2>3
<1>7. RouteAlwaysFound'
  BY <1>1, <1>2 DEF RouteAlwaysFound, IdleDial, IndInv
<1>8. CASE phase' = "failed" /\ UNCHANGED <<mode, pool, health>>
  <2>1. Phases'
    BY <1>1, <1>2, <1>8 DEF IndInv, Phases
  <2>2. Nodes' = Nodes /\ Weight' = Weight
    BY <1>8 DEF Nodes, Weight
  <2> QED
    BY <1>2, <1>7, <1>8, <2>1, <2>2 DEF IndInv
<1> DEFINE isPool == EqualFold(LoadedMode(env), "pool")
<1>9. CASE /\ phase' = "serving" /\ mode' = LoadedMode(env)
           /\ ~ LoadFails(env) /\ ~ (isPool /\ ParseFails(env.pool))
           /\ pool' = IF isPool THEN ParsePool(env.pool) ELSE <<>>
           /\ health' = [i \in DOMAIN pool' |-> TRUE]
  <2>1. env.pool \in Seq(ItemType)
    BY <1>1, PoolAssumption DEF ItemType
  <2>2. mode' \in Modes /\ (mode' = "pool" => isPool)
    BY <1>9 DEF LoadFails, EqualFold
  <2> HIDE DEF isPool
  <2>3. pool' \in Seq(NodeType) /\ (mode' = "pool" => pool' # <<>>)
    BY <1>9, <2>1, <2>2, ParsedPool
  <2>4. Phases'
    BY <1>1, <1>2, <1>9, <2>2, <2>3 DEF Phases, PoolMode
  <2>5. health' \in [Nodes' -> BOOLEAN]
    BY <1>9 DEF Nodes
  <2>6. TurnOK(turn, Nodes', Weight', rr)
    BY <1>1, <1>3, NoTurnOK
  <2> QED
    BY <1>2, <1>6, <1>7, <2>3, <2>4, <2>5, <2>6 DEF IndInv
<1> QED
  BY <1>8, <1>9 DEF Boot

\* A step of a process that serves, on the pool it has.
LEMMA PoolKept ==
  ASSUME IndInv, UNCHANGED <<env, phase, mode, pool>>,
         health' \in [Nodes -> BOOLEAN], rr' \in 0..(CounterRange - 1),
         up' \subseteq Addrs \ Portless, Fits(Nodes) => \A d \in Dialers : dial'[d].pc # "noroute",
         ProbeOK(probe', Nodes),
         dial' \in [Dialers -> DialType(Nodes)], \A d \in Dialers : DialOK(dial'[d], Nodes),
         TurnOK(turn', Nodes, Weight, rr'),
         phase # "serving" => UNCHANGED <<health, probe, dial, turn>>
  PROVE  IndInv'
<1>1. Nodes' = Nodes /\ Weight' = Weight
  BY DEF Nodes, Weight
<1>2. Phases'
  BY DEF IndInv, Phases, PoolMode
<1>3. RouteAlwaysFound'
  BY <1>1 DEF RouteAlwaysFound, Fits, Total
<1> QED
  BY <1>1, <1>2, <1>3 DEF IndInv

\* A node goes down or comes back.
LEMMA FlipKeeps ==
  ASSUME IndInv, NEW a \in Addrs \ Portless, NodeFlips(a)
  PROVE  IndInv'
<1>1. up' \subseteq Addrs \ Portless
  BY DEF NodeFlips, IndInv
<1>2. UNCHANGED <<env, phase, mode, pool, health, rr, probe, dial, turn>>
  BY DEF NodeFlips
<1> QED
  BY <1>1, <1>2, PoolKept DEF IndInv, RouteAlwaysFound

\* The health checks.
LEMMA ProberKeeps ==
  ASSUME IndInv, Prober
  PROVE  IndInv'
<1>1. Len(pool) \in Nat /\ Nodes = 1..Len(pool)
  BY PoolNodes DEF IndInv
<1>2. UNCHANGED <<env, phase, mode, pool, rr, up, dial, turn>>
  BY DEF Prober, CheckStarts, ProbeNode, StoreHealth
<1>3. ProbeOK(probe, Nodes) /\ health \in [Nodes -> BOOLEAN]
  BY DEF IndInv
<1>4. phase = "serving"
  BY DEF IndInv, Phases, Prober, CheckStarts, ProbeNode, StoreHealth
<1> SUFFICES ProbeOK(probe', Nodes) /\ health' \in [Nodes -> BOOLEAN]
  BY <1>2, <1>4, PoolKept DEF IndInv, RouteAlwaysFound
<1>5. CASE CheckStarts
  <2>1. 1 \in Nodes
    BY <1>1, <1>5 DEF CheckStarts
  <2> QED
    BY <1>3, <1>5, <2>1 DEF CheckStarts, ProbeOK
<1>6. CASE ProbeNode
  <2> DEFINE ok == pool[probe.i].addr \in up
  <2>1. probe' = [probe EXCEPT !.pc = "store", !.ok = ok] /\ health' = health
    BY <1>6 DEF ProbeNode
  <2>2. probe.pc = "dial"
    BY <1>6 DEF ProbeNode
  <2>3. ok \in BOOLEAN
    OBVIOUS
  <2> HIDE DEF ok
  <2> QED
    BY <1>3, <2>1, <2>2, <2>3 DEF ProbeOK
<1>7. CASE StoreHealth
  <2>1. probe.i \in Nodes /\ probe.ok \in BOOLEAN
    BY <1>3, <1>7 DEF StoreHealth, ProbeOK
  <2>2. health' \in [Nodes -> BOOLEAN]
    BY <1>3, <1>7, <2>1 DEF StoreHealth
  <2>3. CASE probe.i < Len(pool)
    <3>1. probe.i + 1 \in Nodes
      BY <1>1, <2>1, <2>3
    <3> QED
      BY <1>7, <2>2, <2>3, <3>1 DEF StoreHealth, ProbeOK
  <2>4. CASE ~ (probe.i < Len(pool))
    BY <1>7, <2>2, <2>4 DEF StoreHealth, ProbeOK
  <2> QED
    BY <2>3, <2>4
<1> QED
  BY <1>5, <1>6, <1>7 DEF Prober

\* What a handler does up to its pick, after it, and when its pick fails.
LEMMA DialKeeps ==
  ASSUME IndInv, NEW d \in Dialers, DialStarts(d) \/ LoadFlag(d) \/ PickFails(d) \/ Connect(d) \/ DialFails(d)
  PROVE  IndInv'
<1>1. Len(pool) \in Nat /\ Nodes = 1..Len(pool) /\ (pool = <<>> <=> Nodes = {})
  BY PoolNodes DEF IndInv
<1>2. UNCHANGED <<env, phase, mode, pool, health, rr, up, probe, turn>>
  BY DEF DialStarts, LoadFlag, PickFails, Connect, DialFails
<1>3. dial \in [Dialers -> DialType(Nodes)] /\ DialOK(dial[d], Nodes)
  BY DEF IndInv
<1>4. phase = "serving" /\ mode \in Modes /\ (PoolMode => pool # <<>>)
  BY DEF IndInv, Phases, IdleDial, DialStarts, LoadFlag, PickFails, Connect, DialFails
<1> SUFFICES ASSUME NEW q, dial' = [dial EXCEPT ![d] = q], DialOK(q, Nodes),
                    Fits(Nodes) => q.pc # "noroute"
             PROVE  IndInv'
  <2>1. CASE DialStarts(d)
    <3>1. CASE PoolMode
      <4>1. 1 \in Nodes
        BY <1>1, <1>4, <3>1
      <4>2. dial' = [dial EXCEPT ![d] = [dial[d] EXCEPT !.pc = "load", !.i = 1]]
        BY <1>3, <1>4, <2>1, <3>1 DEF DialStarts, PoolMode
      <4>3. /\ DialOK([dial[d] EXCEPT !.pc = "load", !.i = 1], Nodes)
            /\ [dial[d] EXCEPT !.pc = "load", !.i = 1].pc # "noroute"
        BY <1>3, <4>1 DEF DialOK, DialType
      <4> QED
        BY <4>2, <4>3
    <3>2. CASE ~ PoolMode
      <4>1. dial' = [dial EXCEPT ![d] = [dial[d] EXCEPT !.pc = "connect"]]
        BY <1>3, <1>4, <2>1, <3>2 DEF DialStarts, PoolMode
      <4>2. DialOK([dial[d] EXCEPT !.pc = "connect"], Nodes)
        BY <1>3 DEF DialOK, DialType
      <4>3. [dial[d] EXCEPT !.pc = "connect"].pc # "noroute"
        BY <1>3 DEF DialOK, DialType
      <4> QED
        BY <4>1, <4>2, <4>3
    <3> QED
      BY <3>1, <3>2
  <2>2. CASE LoadFlag(d)
    <3> DEFINE q    == dial[d]
               seen == IF health[q.i] THEN q.healthy \cup {q.i} ELSE q.healthy
               new  == [q EXCEPT !.healthy = seen,
                                 !.pc = IF q.i < Len(pool) THEN "load" ELSE "pick",
                                 !.i  = IF q.i < Len(pool) THEN q.i + 1 ELSE 0]
    <3>1. dial' = [dial EXCEPT ![d] = new]
      BY <1>3, <2>2 DEF LoadFlag
    <3>2. q.pc = "load" /\ q.i \in Nodes /\ q \in DialType(Nodes)
      BY <1>3, <2>2 DEF LoadFlag, DialOK
    <3>3. seen \in SUBSET Nodes
      BY <3>2 DEF DialType
    <3>4. q.i < Len(pool) => q.i + 1 \in Nodes
      BY <1>1, <3>2
    <3> HIDE DEF seen
    <3>5. DialOK(new, Nodes) /\ new.pc # "noroute"
      BY <3>2, <3>3, <3>4 DEF DialOK, DialType
    <3> QED
      BY <3>1, <3>5
  <2>3. CASE Connect(d)
    <3>1. PICK ok \in IF dial[d].node = 0 THEN BOOLEAN ELSE {pool[dial[d].node].addr \in up} :
            dial' = [dial EXCEPT ![d] = IF ok THEN IdleDial ELSE [IdleDial EXCEPT !.pc = "failed"]]
      BY <2>3 DEF Connect
    <3>2. /\ DialOK(IdleDial, Nodes) /\ DialOK([IdleDial EXCEPT !.pc = "failed"], Nodes)
          /\ IdleDial.pc # "noroute" /\ [IdleDial EXCEPT !.pc = "failed"].pc # "noroute"
      BY DEF DialOK, DialType, IdleDial
    <3> QED
      BY <3>1, <3>2
  <2>4. CASE DialFails(d)
    BY <2>4, IdleDialOK DEF DialFails, IdleDial
  <2>5. CASE PickFails(d)
    <3> DEFINE S   == Candidates(dial[d].healthy)
               new == [dial[d] EXCEPT !.pc = "noroute", !.healthy = {}]
    <3>1. dial' = [dial EXCEPT ![d] = new]
      BY <1>3, <2>5 DEF PickFails
    <3>2. S \in SUBSET Nodes /\ S # {} /\ Sum(S) <= 0
      BY <1>3, <2>5 DEF PickFails, Candidates, DialOK, DialType
    <3>3. DialOK(new, Nodes)
      BY <1>3 DEF DialOK, DialType
    <3> HIDE DEF S, new
    <3>4. /\ Total(S) \in Nat \ {0} /\ Total(S) <= Total(Nodes)
          /\ (Fits(S) => Sum(S) = Total(S))
      BY <3>2, PickWords DEF IndInv
    <3>5. Nodes \in SUBSET Nodes /\ Nodes # {}
      BY <3>2
    <3>6. Total(Nodes) \in Nat \ {0}
      BY <3>5, PickWords DEF IndInv
    <3>7. ~ Fits(Nodes)
      BY <3>2, <3>4, <3>6, PoolAssumption DEF Fits
    <3> QED
      BY <3>1, <3>3, <3>7
  <2> QED
    BY <2>1, <2>2, <2>3, <2>4, <2>5
<1>5. /\ dial' \in [Dialers -> DialType(Nodes)]
      /\ \A e \in Dialers : DialOK(dial'[e], Nodes)
      /\ Fits(Nodes) => \A e \in Dialers : dial'[e].pc # "noroute"
  BY <1>3 DEF DialOK, IndInv, RouteAlwaysFound
<1> QED
  BY <1>2, <1>4, <1>5, PoolKept DEF IndInv

\* The weighted pick, and what it adds to the turn.
LEMMA PickKeeps ==
  ASSUME IndInv, NEW d \in Dialers, Pick(d)
  PROVE  IndInv'
<1> DEFINE S == Candidates(dial[d].healthy)
           i == NodeAt(S, rr' % Sum(S))
           total == SumFunctionOnSet(Weight, S)
<1>1. Len(pool) \in Nat /\ Nodes = 1..Len(pool) /\ Weights(Weight, Nodes)
  BY PoolNodes DEF IndInv
<1>2. /\ dial[d].pc = "pick" /\ Sum(S) > 0 /\ rr' = (rr + 1) % CounterRange
      /\ UNCHANGED <<env, phase, mode, pool, health, up, probe>>
  BY DEF Pick
<1>3. dial \in [Dialers -> DialType(Nodes)] /\ DialOK(dial[d], Nodes)
  BY DEF IndInv
<1>4. phase = "serving"
  BY <1>2 DEF IndInv, Phases, IdleDial
<1>5. S \in SUBSET Nodes /\ S # {}
  BY <1>2, <1>3 DEF Candidates, DialOK, DialType
<1>6. rr \in Nat /\ rr' \in 0..(CounterRange - 1) /\ rr' \in Nat /\ (rr' # 0 => rr' = rr + 1)
  BY <1>2, CounterBounds DEF IndInv
<1>7. /\ dial' = [dial EXCEPT ![d].pc = "connect", ![d].healthy = {}, ![d].node = i]
      /\ Counted(S, i)
  BY DEF Pick
<1>8. Weights(Weight, S) /\ S \in SUBSET (1..Len(pool))
  BY <1>1, <1>5 DEF Weights
<1>9. /\ Sum(S) \in Int /\ Total(S) = total
      /\ \A pos \in 0..(Sum(S) - 1) : NodeAt(S, pos) \in S
      /\ Fits(S) => Sum(S) = total /\ \A pos : NodeAt(S, pos) = Owner(Weight, S, pos)
  <2> HIDE DEF S
  <2> QED
    BY <1>5, PickWords, Zenon DEF IndInv, Total
<1>10. i \in S /\ (Fits(S) => i = Owner(Weight, S, rr' % total))
  <2> HIDE DEF S
  <2>1. rr' % Sum(S) \in 0..(Sum(S) - 1)
    BY <1>2, <1>6, <1>9
  <2> QED
    BY <1>9, <2>1
<1> HIDE DEF S, i
<1>11. /\ dial' = [dial EXCEPT ![d] = [dial[d] EXCEPT !.pc = "connect", !.healthy = {}, !.node = i]]
       /\ DialOK([dial[d] EXCEPT !.pc = "connect", !.healthy = {}, !.node = i], Nodes)
       /\ [dial[d] EXCEPT !.pc = "connect", !.healthy = {}, !.node = i].pc # "noroute"
  <2>1. dial' = [dial EXCEPT ![d] = [dial[d] EXCEPT !.pc = "connect", !.healthy = {}, !.node = i]]
    BY <1>3, <1>7
  <2>2. i \in Nodes
    BY <1>5, <1>10
  <2>3. /\ DialOK([dial[d] EXCEPT !.pc = "connect", !.healthy = {}, !.node = i], Nodes)
        /\ [dial[d] EXCEPT !.pc = "connect", !.healthy = {}, !.node = i].pc # "noroute"
    BY <1>3, <2>2 DEF DialOK, DialType
  <2> QED
    BY <2>1, <2>3
<1>12. /\ dial' \in [Dialers -> DialType(Nodes)]
       /\ \A e \in Dialers : DialOK(dial'[e], Nodes)
       /\ Fits(Nodes) => \A e \in Dialers : dial'[e].pc # "noroute"
  BY <1>3, <1>11 DEF DialOK, IndInv, RouteAlwaysFound
<1>13. TurnOK(turn', Nodes, Weight, rr')
  <2> DEFINE goes == turn.cands = S /\ rr' # 0 /\ SumFunctionOnSet(turn.picks, S) < Total(S)
             old  == IF goes THEN turn.picks ELSE [j \in S |-> 0]
  <2>1. turn' = [cands |-> S, picks |-> [old EXCEPT ![i] = @ + 1]]
    BY <1>7 DEF Counted
  <2>2. turn'.cands = S /\ turn'.picks = [old EXCEPT ![i] = @ + 1]
    BY <2>1
  <2>3. CASE ~ Fits(S)
    BY <1>5, <2>2, <2>3 DEF TurnOK, Fits, Total
  <2>4. CASE Fits(S) /\ goes
    <3>1. Counts(Weight, S, turn.picks, rr)
      BY <2>4 DEF IndInv, TurnOK, Fits, Total
    <3>2. SumFunctionOnSet(turn.picks, S) < SumFunctionOnSet(Weight, S)
      BY <1>9, <2>4
    <3>3. rr' = rr + 1
      BY <1>6, <2>4
    <3>4. i = Owner(Weight, S, (rr + 1) % SumFunctionOnSet(Weight, S))
      BY <1>10, <2>4, <3>3
    <3>5. Counts(Weight, S, [turn.picks EXCEPT ![i] = @ + 1], rr + 1)
      BY <1>1, <1>6, <1>8, <1>10, <3>1, <3>2, <3>4, CountsStep
    <3> QED
      BY <1>5, <2>2, <2>4, <3>3, <3>5 DEF TurnOK
  <2>5. CASE Fits(S) /\ ~ goes
    <3>1. Counts(Weight, S, [[j \in S |-> 0] EXCEPT ![i] = @ + 1], rr')
      BY <1>1, <1>6, <1>8, <1>10, <2>5, CountsFresh
    <3> QED
      BY <1>5, <2>2, <2>5, <3>1 DEF TurnOK
  <2> QED
    BY <2>3, <2>4, <2>5
<1> QED
  BY <1>2, <1>4, <1>6, <1>12, <1>13, PoolKept DEF IndInv

-----------------------------------------------------------------------------
(***************************************************************************)
(* The results.                                                            *)
(***************************************************************************)

\* Before it has read its configuration, the process has no pool and no handler.
THEOREM InitEstablishesInv == Init => IndInv
<1> SUFFICES ASSUME Init PROVE IndInv
  OBVIOUS
<1>1. /\ env \in Envs /\ phase = "boot" /\ mode = "unset" /\ pool = <<>> /\ health = <<>>
      /\ rr = 0 /\ up = Addrs \ Portless /\ probe = [pc |-> "idle", i |-> 0, ok |-> FALSE]
      /\ dial = [d \in Dialers |-> IdleDial] /\ turn = NoTurn
  BY DEF Init
<1>2. Phases
  BY <1>1 DEF Phases
<1>3. pool \in Seq(NodeType)
  BY <1>1
<1>4. Nodes = {}
  BY <1>1, <1>3, PoolNodes
<1>5. health \in [Nodes -> BOOLEAN]
  BY <1>1, <1>4
<1>6. rr \in 0..(CounterRange - 1) /\ rr \in Nat
  BY <1>1, CounterBounds
<1>7. ProbeOK(probe, Nodes)
  BY <1>1 DEF ProbeOK
<1>8. \A d \in Dialers : DialOK(dial[d], Nodes)
  BY <1>1, IdleDialOK
<1>9. dial \in [Dialers -> DialType(Nodes)]
  BY <1>1, <1>8 DEF DialOK
<1>10. TurnOK(turn, Nodes, Weight, rr)
  BY <1>1, <1>6, NoTurnOK
<1>11. RouteAlwaysFound
  BY <1>1 DEF RouteAlwaysFound, IdleDial
<1> QED
  BY <1>1, <1>2, <1>3, <1>5, <1>6, <1>7, <1>8, <1>9, <1>10, <1>11 DEF IndInv

\* IndInv is inductive.
THEOREM NextPreservesInv == IndInv /\ [Next]_vars => IndInv'
<1> SUFFICES ASSUME IndInv, [Next]_vars PROVE IndInv'
  OBVIOUS
<1>1. CASE UNCHANGED vars
  <2>1. UNCHANGED <<env, phase, mode, pool, health, rr, up, probe, dial, turn>>
    BY <1>1 DEF vars
  <2> QED
    BY <2>1, PoolKept DEF IndInv, RouteAlwaysFound
<1>2. CASE Boot
  BY <1>2, BootKeeps
<1>3. CASE Prober
  BY <1>3, ProberKeeps
<1>4. ASSUME NEW a \in Addrs \ Portless, NodeFlips(a) PROVE IndInv'
  BY <1>4, FlipKeeps
<1>5. ASSUME NEW d \in Dialers, DialStarts(d) \/ Dials(d) PROVE IndInv'
  BY <1>5, DialKeeps, PickKeeps DEF Dials
<1> QED
  BY <1>1, <1>2, <1>3, <1>4, <1>5 DEF Next

\* The strengthening holds in every reachable state.
THEOREM InvariantHolds == Spec => []IndInv
BY InitEstablishesInv, NextPreservesInv, PTL DEF Spec

\* Every variable keeps its type: whatever text a pool was read from, its nodes have
\* an address and a positive weight, and what is picked is a node.
THEOREM TypeCorrect == Spec => []TypeOK
<1>1. IndInv => TypeOK
  <2> SUFFICES ASSUME IndInv PROVE TypeOK
    OBVIOUS
  <2>1. dial \in [Dialers -> [pc : {"idle", "load", "pick", "connect", "failed", "noroute"},
                              i : Nodes \cup {0}, healthy : SUBSET Nodes, node : Nodes \cup {0}]]
    BY DEF IndInv, DialType
  <2>2. mode \in Modes \cup {"unset"}
    BY DEF IndInv, Phases
  <2> QED
    BY <2>1, <2>2 DEF IndInv, Phases, TypeOK, NodeType, ProbeOK, TurnOK
<1> QED
  BY InvariantHolds, <1>1, PTL

\* Where the weights of the whole pool fit an int, no handler finds a mode it does not
\* know, an empty pool or weights that add up to nothing, for any environment: no
\* sum over a part of the nodes overflows, and Load has turned the mode that
\* NewRouter took for a pool into the spelling that DialContext compares.
THEOREM RoutesAlwaysFound == Spec => []RouteAlwaysFound
<1>1. IndInv => RouteAlwaysFound
  BY DEF IndInv
<1> QED
  BY InvariantHolds, <1>1, PTL

\* For any pool and any set of candidates whose weights fit an int, no node is picked
\* more often in a turn than its weight says, whichever handlers pick.
THEOREM SharesFollow == Spec => []SharesFollowWeights
<1>1. ASSUME IndInv, Fits(turn.cands), NEW i \in turn.cands
      PROVE  turn.picks[i] <= Weight[i]
  <2>1. Len(pool) \in Nat /\ Nodes = 1..Len(pool) /\ Weights(Weight, Nodes)
    BY <1>1, PoolNodes DEF IndInv
  <2>2. /\ turn.cands \in SUBSET (1..Len(pool)) /\ Counts(Weight, turn.cands, turn.picks, rr)
        /\ rr \in Nat
    BY <1>1, <2>1, CounterBounds DEF IndInv, TurnOK, Fits, Total
  <2>3. Weights(Weight, turn.cands)
    BY <2>1, <2>2 DEF Weights
  <2> QED
    BY <2>1, <2>2, <2>3, CountsBounded
<1>2. IndInv => SharesFollowWeights
  BY <1>1 DEF SharesFollowWeights
<1> QED
  BY InvariantHolds, <1>2, PTL

\* When a turn of the counter is complete, each candidate has had exactly its weight,
\* if the weights fit an int.
FullTurnIsExact ==
  Fits(turn.cands) /\ SumFunctionOnSet(turn.picks, turn.cands) = Total(turn.cands)
    => \A i \in turn.cands : turn.picks[i] = Weight[i]

\* Complete turns are exact: no node is passed over in favour of another.
THEOREM FullTurnsAreExact == Spec => []FullTurnIsExact
<1>1. ASSUME IndInv, SharesFollowWeights, Fits(turn.cands),
             SumFunctionOnSet(turn.picks, turn.cands) = Total(turn.cands), NEW i \in turn.cands
      PROVE  turn.picks[i] = Weight[i]
  <2>1. Len(pool) \in Nat /\ Nodes = 1..Len(pool) /\ Weights(Weight, Nodes)
    BY <1>1, PoolNodes DEF IndInv
  <2>2. turn.cands \in SUBSET (1..Len(pool)) /\ turn.picks \in [turn.cands -> Nat]
    BY <1>1, <2>1 DEF IndInv, TurnOK, Counts, Fits, Total
  <2>3. IsFiniteSet(1..Len(pool))
    BY <2>1, FS_Interval
  <2>4. IsFiniteSet(turn.cands)
    BY <2>2, <2>3, FS_Subset
  <2>5. NatOn(Weight, turn.cands) /\ NatOn(turn.picks, turn.cands)
    BY <2>1, <2>2 DEF NatOn, Weights
  <2>6. SumFunctionOnSet(turn.picks, turn.cands) = SumFunctionOnSet(Weight, turn.cands)
    BY <1>1 DEF Total
  <2> QED
    BY <1>1, <2>4, <2>5, <2>6, SumTight DEF SharesFollowWeights
<1>2. IndInv /\ SharesFollowWeights => FullTurnIsExact
  BY <1>1 DEF FullTurnIsExact
<1> QED
  BY InvariantHolds, SharesFollow, <1>2, PTL

=============================================================================
