----------------------------- MODULE LayoutProofs -----------------------------
(***************************************************************************)
(* Proofs about Layout, for any shards, listed replicas, counts and slots. *)
(* What getNextIndex computes: the ordinal with index others in use below  *)
(* it. What the walk makes of it: the loops add the name with the index    *)
(* they are at, so the result has the names of all indexes up to the       *)
(* count, or there is no result.                                           *)
(***************************************************************************)
EXTENDS Layout, FiniteSetTheorems, WellFoundedInduction, TLAPS

----------------------------------------------------------------------------
(* Ordinals *)

(* A set of natural numbers has a least one. *)
LEMMA LeastNumber ==
  ASSUME NEW T \in SUBSET Nat, T # {}
  PROVE  \E x \in T : \A y \in T : x <= y
<1> DEFINE R == OpToRel(<, Nat)
<1>1. IsWellFoundedOn(R, Nat)
  BY NatLessThanWellFounded
<1>2. \A x, y \in Nat : <<x, y>> \in R <=> x < y
  BY DEF OpToRel
<1> HIDE DEF R
<1>3. PICK x \in T : \A y \in T : <<y, x>> \notin R
  BY <1>1, WFMin
<1>4. x \in Nat /\ \A y \in T : y \in Nat /\ ~(y < x)
  BY <1>2, <1>3
<1> QED BY <1>4

(* A set of natural numbers with a bound has a greatest one. *)
LEMMA GreatestNumber ==
  ASSUME NEW T \in SUBSET Nat, T # {}, NEW n \in Nat, \A x \in T : x <= n
  PROVE  \E x \in T : \A y \in T : y <= x
<1> DEFINE Bounds == {k \in Nat : \A x \in T : x <= k}
<1>1. Bounds \in SUBSET Nat /\ n \in Bounds
  OBVIOUS
<1>2. PICK k \in Bounds : \A b \in Bounds : k <= b
  BY <1>1, LeastNumber
<1>3. ASSUME k \notin T PROVE FALSE
  <2>1. \A x \in T : x \in Nat /\ x < k
    BY <1>3
  <2>2. PICK x \in T : x \in Nat /\ x < k
    BY <2>1
  <2>3. k \in Nat /\ k - 1 \in Nat /\ k > k - 1
    BY <2>2
  <2>4. \A y \in T : y <= k - 1
    BY <2>1, <2>3
  <2>5. k - 1 \in Bounds
    BY <2>3, <2>4
  <2> QED BY <1>2, <2>3, <2>5
<1> QED BY <1>2, <1>3

(* A list of the members of T in ascending order. *)
Ascending(tmp, T) ==
  /\ tmp \in [1..Cardinality(T) -> T]
  /\ \A i, j \in 1..Cardinality(T) : i < j => tmp[i] < tmp[j]

(* The least number goes before the others. *)
LEMMA PutFirst ==
  ASSUME NEW T \in SUBSET Nat, IsFiniteSet(T), NEW m \in T, \A y \in T : m <= y,
         NEW f, Ascending(f, T \ {m})
  PROVE  \E tmp : Ascending(tmp, T)
<1> DEFINE n == Cardinality(T)
           h == [i \in 1..n |-> IF i = 1 THEN m ELSE f[i - 1]]
<1>1. n \in Nat /\ Cardinality(T \ {m}) = n - 1
  BY FS_CardinalityType, FS_RemoveElement
<1>2. /\ f \in [1..(n - 1) -> T \ {m}]
      /\ \A i, j \in 1..(n - 1) : i < j => f[i] < f[j]
  BY <1>1 DEF Ascending
<1> HIDE DEF n
<1>3. \A y \in T : y \in Nat
  OBVIOUS
<1>4. \A i \in 1..n : i \in Nat /\ i >= 1 /\ (i # 1 => i - 1 \in 1..(n - 1))
  BY <1>1
<1>5. ASSUME NEW i \in 1..n, i # 1
      PROVE  h[i] = f[i - 1] /\ f[i - 1] \in T /\ m < f[i - 1]
  <2>1. f[i - 1] \in T /\ f[i - 1] # m
    BY <1>2, <1>4, <1>5
  <2>2. h[i] = f[i - 1]
    BY <1>5
  <2>3. f[i - 1] \in Nat /\ m \in Nat /\ m <= f[i - 1]
    BY <1>3, <2>1
  <2> HIDE DEF h
  <2> QED BY <2>1, <2>2, <2>3
<1>6. \A i \in 1..n : i = 1 => h[i] = m
  OBVIOUS
<1>7. h \in [1..n -> T]
  BY <1>5
<1> HIDE DEF h
<1>8. ASSUME NEW i \in 1..n, NEW j \in 1..n, i < j PROVE h[i] < h[j]
  <2>1. j # 1
    BY <1>4, <1>8
  <2>2. CASE i = 1
    BY <1>5, <1>6, <2>1, <2>2
  <2>3. CASE i # 1
    <3>1. i - 1 \in 1..(n - 1) /\ j - 1 \in 1..(n - 1) /\ i - 1 < j - 1
      BY <1>4, <1>8, <2>1, <2>3
    <3> QED BY <1>2, <1>5, <2>1, <2>3, <3>1
  <2> QED BY <2>2, <2>3
<1> QED BY <1>7, <1>8 DEF Ascending, n

(* Finite sets of numbers can be sorted. *)
LEMMA CanBeSorted ==
  ASSUME NEW S \in SUBSET Nat, IsFiniteSet(S)
  PROVE  \E tmp : Ascending(tmp, S)
<1> DEFINE Unsorted(n) == \E T \in SUBSET Nat : /\ IsFiniteSet(T) /\ Cardinality(T) = n
                                                /\ \A tmp : ~Ascending(tmp, T)
           Bad == {n \in Nat : Unsorted(n)}
<1>1. ASSUME Bad # {} PROVE FALSE
  <2>1. PICK n \in Bad : \A m \in Bad : n <= m
    BY <1>1, LeastNumber
  <2>2. PICK T \in SUBSET Nat : /\ IsFiniteSet(T) /\ Cardinality(T) = n
                                /\ \A tmp : ~Ascending(tmp, T)
    BY <2>1
  <2>3. CASE T = {}
    <3>1. n = 0
      BY <2>2, <2>3, FS_EmptySet
    <3>2. Ascending([i \in 1..0 |-> 0], T)
      BY <2>2, <2>3, <3>1 DEF Ascending
    <3> QED BY <2>2, <3>2
  <2>4. CASE T # {}
    <3>1. PICK m \in T : \A y \in T : m <= y
      BY <2>4, LeastNumber
    <3> DEFINE U == T \ {m}
    <3>2. IsFiniteSet(U) /\ Cardinality(U) = n - 1 /\ U \in SUBSET Nat
      BY <2>2, FS_RemoveElement
    <3>3. n - 1 \in Nat
      BY <3>2, FS_CardinalityType
    <3>4. n - 1 \notin Bad
      BY <2>1, <3>3
    <3>5. PICK f : Ascending(f, U)
      BY <3>2, <3>3, <3>4
    <3> QED BY <2>2, <3>1, <3>5, PutFirst
  <2> QED BY <2>3, <2>4
<1>2. Cardinality(S) \in Nat
  BY FS_CardinalityType
<1>3. ~Unsorted(Cardinality(S))
  BY <1>1, <1>2
<1> HIDE DEF Bad
<1> QED BY <1>3

(* The list of a finite set has all its members, in ascending order. *)
LEMMA ListSorts ==
  ASSUME NEW skip \in SUBSET Nat, IsFiniteSet(skip)
  PROVE  /\ Cardinality(skip) \in Nat /\ Ascending(List(skip), skip)
         /\ \A v \in skip : \E i \in 1..Cardinality(skip) : List(skip)[i] = v
<1> DEFINE n == Cardinality(skip)
           tmp == List(skip)
<1>1. n \in Nat
  BY FS_CardinalityType
<1>2. PICK t : Ascending(t, skip)
  BY CanBeSorted
<1>3. Ascending(tmp, skip)
  BY <1>2 DEF Ascending, List
<1> HIDE DEF tmp
<1>4. \A i \in 1..n : i \in Nat /\ tmp[i] \in skip
  BY <1>1, <1>3 DEF Ascending
<1>5. ASSUME NEW i \in 1..n, NEW j \in 1..n, tmp[i] = tmp[j] PROVE i = j
  <2>1. tmp[i] \in Nat
    BY <1>4
  <2>2. ~(i < j) /\ ~(j < i)
    BY <1>3, <1>5, <2>1 DEF Ascending
  <2> QED BY <1>4, <2>2
<1>6. tmp \in Injection(1..n, skip)
  BY <1>3, <1>5 DEF Ascending, Injection, IsInjective
<1>7. tmp \in Surjection(1..n, skip)
  <2>1. Cardinality(1..n) = n
    BY <1>1, FS_Interval
  <2> QED BY <1>6, <2>1, FS_Injection
<1>8. \A v \in skip : \E i \in 1..n : tmp[i] = v
  BY <1>7 DEF Surjection
<1> QED BY <1>1, <1>3, <1>8 DEF tmp

(* What the loop of getNextIndex adds up: all the numbers below a member   *)
(* but the members before it.                                              *)
LEMMA LoopAddsUp ==
  ASSUME NEW n \in Nat, NEW tmp \in [1..n -> Nat]
  PROVE  \A i \in 1..n : InUseBelow(tmp)[i] = tmp[i] - (i - 1)
<1> DEFINE g == InUseBelow(tmp)
           h == [i \in 1..n |-> tmp[i] - (i - 1)]
           Step(f) == [i \in DOMAIN tmp |->
                         IF i = 1 THEN tmp[1] ELSE f[i - 1] + tmp[i] - tmp[i - 1] - 1]
<1>1. DOMAIN tmp = 1..n /\ \A i \in 1..n : i \in Nat /\ i >= 1 /\ tmp[i] \in Nat
  OBVIOUS
<1>2. h = Step(h)
  <2>1. ASSUME NEW i \in 1..n PROVE h[i] = Step(h)[i]
    <3>1. CASE i = 1
      BY <1>1, <3>1
    <3>2. CASE i # 1
      <4>1. i - 1 \in 1..n
        BY <1>1, <3>2
      <4>2. h[i - 1] = tmp[i - 1] - ((i - 1) - 1)
        BY <4>1
      <4>3. Step(h)[i] = h[i - 1] + tmp[i] - tmp[i - 1] - 1
        BY <1>1, <3>2
      <4>4. tmp[i] \in Nat /\ tmp[i - 1] \in Nat /\ i \in Nat /\ h[i] = tmp[i] - (i - 1)
        BY <1>1, <4>1
      <4> HIDE DEF h, Step
      <4> QED BY <4>2, <4>3, <4>4
    <3> QED BY <3>1, <3>2
  <2> QED BY <1>1, <2>1
<1>3. g = Step(g)
  BY <1>2 DEF InUseBelow
<1>4. \A i \in 1..n : g[i] = IF i = 1 THEN tmp[1] ELSE g[i - 1] + tmp[i] - tmp[i - 1] - 1
  BY <1>1, <1>3
<1> HIDE DEF g, Step, h
<1> DEFINE Bad == {i \in 1..n : g[i] # tmp[i] - (i - 1)}
<1>5. ASSUME Bad # {} PROVE FALSE
  <2>1. Bad \in SUBSET Nat
    BY <1>1
  <2>2. PICK i \in Bad : \A j \in Bad : i <= j
    BY <1>5, <2>1, LeastNumber
  <2>3. i \in 1..n /\ i \in Nat /\ i >= 1 /\ g[i] # tmp[i] - (i - 1) /\ tmp[i] \in Nat
    BY <1>1, <2>2
  <2>4. i # 1
    BY <1>4, <2>3
  <2>5. i - 1 \in 1..n /\ ~(i <= i - 1)
    BY <2>3, <2>4
  <2>6. g[i - 1] = tmp[i - 1] - ((i - 1) - 1) /\ tmp[i - 1] \in Nat
    BY <1>1, <2>2, <2>5
  <2>7. g[i] = g[i - 1] + tmp[i] - tmp[i - 1] - 1
    BY <1>4, <2>3, <2>4
  <2> QED BY <2>3, <2>6, <2>7
<1> QED BY <1>5 DEF g

(* Members that are i places apart are at least that far apart. *)
LEMMA PlacesApart ==
  ASSUME NEW n \in Nat, NEW tmp \in [1..n -> Nat],
         \A i, j \in 1..n : i < j => tmp[i] < tmp[j],
         NEW i \in 1..n, NEW k \in 1..n, i <= k
  PROVE  tmp[i] - i <= tmp[k] - k
<1>1. \A j \in 1..n : j \in Nat /\ j >= 1 /\ tmp[j] \in Nat
  OBVIOUS
<1> DEFINE Bad == {j \in i..n : tmp[j] - j < tmp[i] - i}
<1>2. ASSUME Bad # {} PROVE FALSE
  <2>1. Bad \in SUBSET Nat
    BY <1>1
  <2>2. PICK m \in Bad : \A j \in Bad : m <= j
    BY <1>2, <2>1, LeastNumber
  <2>3. m \in i..n /\ m \in 1..n /\ m # i /\ tmp[m] - m < tmp[i] - i
    BY <1>1, <2>2
  <2>4. m - 1 \in i..n /\ m - 1 \in 1..n /\ m \in Nat /\ i \in Nat /\ ~(m <= m - 1)
    BY <1>1, <2>3
  <2>5. ~(tmp[m - 1] - (m - 1) < tmp[i] - i)
    BY <2>2, <2>4
  <2>6. tmp[m - 1] < tmp[m]
    BY <2>3, <2>4
  <2> QED BY <1>1, <2>3, <2>4, <2>5, <2>6
<1>3. k \in i..n
  BY <1>1
<1>4. k \notin Bad
  BY <1>2
<1>5. ~(tmp[k] - k < tmp[i] - i)
  BY <1>3, <1>4
<1> QED BY <1>1, <1>5

(* The skipped ordinals below an ordinal. *)
Below(v, skip) == {w \in skip : w < v}

(* The next ordinal is not skipped, and index ones in use are below it. *)
LEMMA NextIndexIs ==
  ASSUME NEW skip \in SUBSET Nat, IsFiniteSet(skip), NEW index \in Nat
  PROVE  LET next == NextIndex(index, skip) IN
         /\ next \in Nat \ skip /\ next <= index + Cardinality(skip)
         /\ Cardinality(Below(next, skip)) = next - index
<1> DEFINE n == Cardinality(skip)
           tmp == List(skip)
           g == InUseBelow(tmp)
           passed == {i \in DOMAIN tmp : g[i] <= index}
           last == CHOOSE i \in passed : \A j \in passed : j <= i
           next == NextIndex(index, skip)
<1>1. /\ n \in Nat /\ tmp \in [1..n -> skip]
      /\ \A i, j \in 1..n : i < j => tmp[i] < tmp[j]
      /\ \A v \in skip : \E i \in 1..n : tmp[i] = v
  BY ListSorts DEF Ascending
<1>2. next = IF passed = {} THEN index ELSE tmp[last] + 1 + index - g[last]
  BY DEF NextIndex
<1> HIDE DEF next, tmp, n
<1>3. tmp \in [1..n -> Nat] /\ DOMAIN tmp = 1..n
  BY <1>1
<1>4. \A i \in 1..n : i \in Nat /\ i >= 1 /\ i <= n /\ tmp[i] \in Nat
  BY <1>1, <1>3
<1>5. \A i \in 1..n : g[i] = tmp[i] - (i - 1)
  BY <1>1, <1>3, LoopAddsUp
<1> HIDE DEF g
<1>6. passed \in SUBSET (1..n) /\ \A i \in 1..n : i \in passed <=> tmp[i] - (i - 1) <= index
  BY <1>3, <1>5
<1>7. passed # {} => last \in passed /\ \A j \in passed : j <= last
  <2>1. passed \in SUBSET Nat /\ \A i \in passed : i <= n
    BY <1>4, <1>6
  <2> HIDE DEF passed
  <2> QED BY <1>1, <2>1, GreatestNumber
<1> HIDE DEF passed, last
<1> DEFINE k == IF passed = {} THEN 0 ELSE last
<1>8. k \in 0..n /\ next = index + k
  <2>1. CASE passed = {}
    BY <1>1, <1>2, <2>1
  <2>2. CASE passed # {}
    <3>1. last \in 1..n /\ last \in Nat /\ last <= n /\ g[last] = tmp[last] - (last - 1)
          /\ tmp[last] \in Nat
      BY <1>4, <1>5, <1>6, <1>7, <2>2
    <3> QED BY <1>1, <1>2, <2>2, <3>1
  <2> QED BY <2>1, <2>2
<1>9. ASSUME NEW i \in 1..n PROVE /\ i <= k => tmp[i] < next
                                  /\ i > k => tmp[i] > next
  <2>1. CASE i <= k
    <3> passed # {}
      BY <1>4, <2>1
    <3>1. k \in 1..n /\ k \in passed
      <4>1. k = last /\ last \in passed
        BY <1>7
      <4> HIDE DEF k
      <4> QED BY <1>6, <4>1
    <3>2. tmp[i] - i <= tmp[k] - k
      BY <1>1, <1>3, <2>1, <3>1, PlacesApart
    <3>3. tmp[k] - (k - 1) <= index
      BY <1>6, <3>1
    <3>4. tmp[k] \in Nat /\ k \in Nat /\ tmp[i] \in Nat /\ i \in Nat
      BY <1>4, <3>1
    <3> HIDE DEF k
    <3> QED BY <1>8, <2>1, <3>2, <3>3, <3>4
  <2>2. CASE i > k
    <3>1. ASSUME i \in passed PROVE FALSE
      <4>1. k = last /\ i <= last /\ i \in Nat
        BY <1>4, <1>7, <3>1
      <4>2. k \in Nat
        BY <1>8
      <4> HIDE DEF k
      <4> QED BY <2>2, <4>1, <4>2
    <3>2. ~(tmp[i] - (i - 1) <= index)
      BY <1>6, <3>1
    <3>3. tmp[i] \in Nat /\ i \in Nat /\ k \in Nat
      BY <1>4, <1>8
    <3> HIDE DEF k
    <3> QED BY <1>8, <2>2, <3>2, <3>3
  <2>3. i \in Nat /\ k \in Nat
    BY <1>4, <1>8
  <2> QED BY <2>1, <2>2, <2>3
<1> HIDE DEF k
<1>10. k \in Nat /\ k <= n /\ next \in Nat
  BY <1>1, <1>8
<1>11. next \notin skip
  <2>1. \A i \in 1..n : tmp[i] # next
    BY <1>4, <1>9, <1>10
  <2> QED BY <1>1, <2>1
<1>12. Cardinality(Below(next, skip)) = k
  <2> DEFINE f == [i \in 1..k |-> tmp[i]]
  <2>1. \A i \in 1..k : i \in 1..n /\ i <= k /\ f[i] = tmp[i]
    BY <1>1, <1>10
  <2>2. \A i \in 1..k : f[i] \in Below(next, skip)
    BY <1>1, <1>9, <2>1 DEF Below
  <2>3. f \in [1..k -> Below(next, skip)]
    BY <2>2
  <2> HIDE DEF f
  <2>4. ASSUME NEW i \in 1..k, NEW j \in 1..k, f[i] = f[j] PROVE i = j
    <3>1. /\ i \in 1..n /\ j \in 1..n /\ i \in Nat /\ j \in Nat
          /\ tmp[i] = tmp[j] /\ tmp[i] \in Nat
      BY <1>4, <2>1, <2>4
    <3>2. ~(i < j) /\ ~(j < i)
      BY <1>1, <3>1
    <3> QED BY <3>1, <3>2
  <2>5. ASSUME NEW v \in Below(next, skip) PROVE \E i \in 1..k : f[i] = v
    <3>1. v \in skip /\ v < next
      BY DEF Below
    <3>2. PICK i \in 1..n : tmp[i] = v
      BY <1>1, <3>1
    <3>3. i <= k
      <4>1. tmp[i] \in Nat /\ i \in Nat
        BY <1>4
      <4> QED BY <1>9, <1>10, <3>1, <3>2, <4>1
    <3>4. i \in 1..k
      BY <1>4, <1>10, <3>3
    <3> QED BY <2>1, <3>2, <3>4
  <2>6. f \in Bijection(1..k, Below(next, skip))
    BY <2>3, <2>4, <2>5 DEF Bijection, Injection, IsInjective, Surjection
  <2>7. IsFiniteSet(1..k) /\ Cardinality(1..k) = k
    BY <1>10, FS_Interval
  <2> QED BY <2>6, <2>7, FS_Bijection DEF ExistsBijection
<1>13. next <= index + n
  BY <1>1, <1>8, <1>10
<1> QED BY <1>8, <1>10, <1>11, <1>12, <1>13 DEF next, n

(* One that is not skipped is in use below those after it. *)
LEMMA BelowGrows ==
  ASSUME NEW skip \in SUBSET Nat, IsFiniteSet(skip), NEW v \in Nat \ skip, NEW w \in Nat, v < w
  PROVE  w - Cardinality(Below(w, skip)) > v - Cardinality(Below(v, skip))
<1> DEFINE A == Below(v, skip)
           C == (v + 1)..(w - 1)
<1>1. A \in SUBSET skip /\ Below(w, skip) \in SUBSET skip
  BY DEF Below
<1>2. /\ IsFiniteSet(A) /\ Cardinality(A) \in Nat
      /\ Cardinality(Below(w, skip)) \in Nat
  BY <1>1, FS_Subset, FS_CardinalityType
<1>3. IsFiniteSet(C) /\ Cardinality(C) = w - v - 1
  BY FS_Interval
<1>4. /\ IsFiniteSet(A \cup C)
      /\ Cardinality(A \cup C) = Cardinality(A) + Cardinality(C) - Cardinality(A \cap C)
      /\ Cardinality(A \cap C) \in Nat
  BY <1>2, <1>3, FS_Union, FS_Intersection, FS_CardinalityType
<1>5. Below(w, skip) \in SUBSET (A \cup C)
  <2>1. \A u \in skip : u < w => u < v \/ u \in C
    OBVIOUS
  <2> QED BY <2>1 DEF Below
<1>6. Cardinality(Below(w, skip)) <= Cardinality(A \cup C)
  BY <1>4, <1>5, FS_Subset
<1> HIDE DEF A, C
<1>7. Cardinality(Below(w, skip)) <= Cardinality(A) + (w - v - 1)
  BY <1>2, <1>3, <1>4, <1>6
<1> QED BY <1>2, <1>7 DEF A

(* How many are in use below an ordinal. *)
LEMMA InUseIs ==
  ASSUME NEW skip \in SUBSET Nat, NEW o \in Nat
  PROVE  Cardinality({p \in 0..(o - 1) : p \notin skip}) = o - Cardinality(Below(o, skip))
<1>1. IsFiniteSet(0..(o - 1)) /\ Cardinality(0..(o - 1)) = o
  BY FS_Interval
<1>2. {p \in 0..(o - 1) : p \notin skip} = (0..(o - 1)) \ skip
  OBVIOUS
<1>3. (0..(o - 1)) \cap skip = Below(o, skip)
  <2>1. \A u \in skip : u \in 0..(o - 1) <=> u < o
    OBVIOUS
  <2> QED BY <2>1 DEF Below
<1>4. Cardinality((0..(o - 1)) \ skip)
        = Cardinality(0..(o - 1)) - Cardinality((0..(o - 1)) \cap skip)
  BY <1>1, FS_Difference
<1> QED BY <1>1, <1>2, <1>3, <1>4

(* The lowest n ordinals, by how many are in use below them. *)
LEMMA LowestIs ==
  ASSUME NEW skip \in SUBSET Nat, IsFiniteSet(skip), NEW n \in Nat, NEW o
  PROVE  o \in Lowest(n, skip) <=>
           o \in Nat \ skip /\ o - Cardinality(Below(o, skip)) < n
<1>1. Cardinality(skip) \in Nat
  BY FS_CardinalityType
<1>2. o \in Nat => /\ Cardinality(Below(o, skip)) \in Nat
                   /\ Cardinality(Below(o, skip)) <= Cardinality(skip)
  <2>1. Below(o, skip) \in SUBSET skip
    BY DEF Below
  <2> QED BY <2>1, FS_Subset, FS_CardinalityType
<1>3. o \in Nat => (o \in Lowest(n, skip) <=>
        o \in 0..(n + Cardinality(skip)) /\ o \notin skip
          /\ o - Cardinality(Below(o, skip)) < n)
  BY InUseIs DEF Lowest
<1>4. o \in Lowest(n, skip) => o \in Nat
  BY <1>1 DEF Lowest
<1> QED BY <1>1, <1>2, <1>3, <1>4

(***************************************************************************)
(* The names with the indexes up to n are the lowest n ordinals that are   *)
(* not skipped.                                                            *)
(***************************************************************************)
LEMMA NextIndexesAreLowest ==
  ASSUME NEW skip \in SUBSET Nat, IsFiniteSet(skip), NEW n \in Nat
  PROVE  {NextIndex(i, skip) : i \in 0..(n - 1)} = Lowest(n, skip)
<1>1. ASSUME NEW i \in 0..(n - 1) PROVE NextIndex(i, skip) \in Lowest(n, skip)
  <2> DEFINE next == NextIndex(i, skip)
  <2>1. i \in Nat /\ i < n
    OBVIOUS
  <2>2. next \in Nat \ skip /\ Cardinality(Below(next, skip)) = next - i
    BY <2>1, NextIndexIs
  <2> HIDE DEF next
  <2>3. next - Cardinality(Below(next, skip)) < n
    BY <2>1, <2>2
  <2>4. next \in Lowest(n, skip)
    BY <2>2, <2>3, LowestIs
  <2> QED BY <2>4 DEF next
<1>2. ASSUME NEW o \in Lowest(n, skip) PROVE \E i \in 0..(n - 1) : o = NextIndex(i, skip)
  <2> DEFINE i == o - Cardinality(Below(o, skip))
             next == NextIndex(i, skip)
  <2>1. o \in Nat \ skip /\ i < n
    BY LowestIs
  <2>2. i \in 0..(n - 1)
    <3>1. i = Cardinality({p \in 0..(o - 1) : p \notin skip})
      BY <2>1, InUseIs
    <3>2. IsFiniteSet({p \in 0..(o - 1) : p \notin skip})
      <4>1. IsFiniteSet(0..(o - 1))
        BY <2>1, FS_Interval
      <4> QED BY <4>1, FS_Subset
    <3>3. i \in Nat
      BY <3>1, <3>2, FS_CardinalityType
    <3> HIDE DEF i
    <3> QED BY <2>1, <3>3
  <2>3. next \in Nat \ skip /\ Cardinality(Below(next, skip)) = next - i
    BY <2>2, NextIndexIs
  <2>4. Cardinality(Below(o, skip)) = o - i /\ i \in Nat
    <3>1. IsFiniteSet(Below(o, skip))
      BY FS_Subset DEF Below
    <3>2. Cardinality(Below(o, skip)) \in Nat /\ i \in Nat
      BY <2>2, <3>1, FS_CardinalityType
    <3> QED BY <2>1, <3>2
  <2> HIDE DEF i, next
  <2>5. ~(o < next) /\ ~(next < o)
    BY <2>1, <2>3, <2>4, BelowGrows
  <2>6. o = next
    BY <2>1, <2>3, <2>5
  <2> QED BY <2>2, <2>6 DEF next
<1> QED BY <1>1, <1>2

(* Without one of them, the lowest ordinals are one less. *)
LEMMA LowestWithout ==
  ASSUME NEW skip \in SUBSET Nat, IsFiniteSet(skip), NEW n \in Nat \ {0},
         NEW o \in Lowest(n, skip)
  PROVE  Lowest(n - 1, skip \cup {o}) = Lowest(n, skip) \ {o}
<1> DEFINE more == skip \cup {o}
           InUse(p) == p - Cardinality(Below(p, skip))
<1>1. o \in Nat \ skip /\ InUse(o) < n
  BY LowestIs
<1>2. more \in SUBSET Nat /\ IsFiniteSet(more) /\ n - 1 \in Nat
  BY <1>1, FS_AddElement
<1>3. \A p \in Nat : IsFiniteSet(Below(p, skip)) /\ Cardinality(Below(p, skip)) \in Nat
  BY FS_Subset, FS_CardinalityType DEF Below
<1>4. ASSUME NEW p \in Nat \ more
      PROVE  p \in Lowest(n - 1, more) <=> p \in Lowest(n, skip)
  <2>1. /\ p \in Lowest(n, skip) <=> InUse(p) < n
        /\ p \in Lowest(n - 1, more) <=> p - Cardinality(Below(p, more)) < n - 1
    BY <1>2, LowestIs
  <2>2. CASE p < o
    <3>1. Below(p, more) = Below(p, skip)
      BY <1>1, <2>2 DEF Below
    <3>2. InUse(p) < InUse(o)
      BY <1>1, <2>2, BelowGrows
    <3>3. InUse(p) \in Int /\ InUse(o) \in Int
      BY <1>1, <1>3
    <3> HIDE DEF InUse
    <3>4. InUse(p) < n - 1
      BY <1>1, <3>2, <3>3
    <3> QED BY <2>1, <3>1, <3>3, <3>4 DEF InUse
  <2>3. CASE p > o
    <3>1. Below(p, more) = Below(p, skip) \cup {o} /\ o \notin Below(p, skip)
      BY <1>1, <2>3 DEF Below
    <3>2. Cardinality(Below(p, more)) = Cardinality(Below(p, skip)) + 1
      BY <1>3, <3>1, FS_AddElement
    <3> QED BY <1>3, <2>1, <3>2
  <2> QED BY <1>1, <2>2, <2>3
<1>5. \A p : /\ p \in Lowest(n, skip) => p \in Nat \ skip
             /\ p \in Lowest(n - 1, more) => p \in Nat \ more
  BY <1>2, LowestIs
<1> QED BY <1>4, <1>5

----------------------------------------------------------------------------
(* Counts and slots *)

Specs ==
  [shardsCount : Nat, replicasCount : Nat, slots : SUBSET Slot(Shards, Ordinals),
   given : GivenLayouts, claims : BOOLEAN]

IsSpec(s) == s \in Specs /\ IsFiniteSet(s.slots)

(* The ordinals that a shard skips are finitely many numbers. *)
LEMMA SkipIsFinite ==
  ASSUME NEW s, IsSpec(s), NEW x
  PROVE  /\ Skip(s, x) \in SUBSET Nat /\ IsFiniteSet(Skip(s, x))
         /\ SkipOf(s, x) \in SUBSET Nat /\ IsFiniteSet(SkipOf(s, x))
<1> DEFINE named == {slot \in s.slots : NameContains(slot, x)}
           number == [slot \in named |-> ExtractLastOrdinal(slot)]
<1>1. IsFiniteSet(named) /\ named \in SUBSET Slot(Shards, Ordinals)
  BY FS_Subset DEF IsSpec, Specs
<1>2. Skip(s, x) = {ExtractLastOrdinal(slot) : slot \in named}
  BY DEF Skip, GetDeleteSlotsForShard
<1>3. number \in Surjection(named, Skip(s, x))
  BY <1>2 DEF Surjection
<1>4. IsFiniteSet(Skip(s, x))
  BY <1>1, <1>3, FS_Surjection DEF ExistsSurjection
<1>5. ASSUME NEW slot \in Slot(Shards, Ordinals) PROVE ExtractLastOrdinal(slot) \in Nat
  BY LayoutConstants DEF Slot, ExtractLastOrdinal
<1>6. Skip(s, x) \in SUBSET Nat
  BY <1>1, <1>2, <1>5
<1> QED BY <1>4, <1>6, FS_EmptySet DEF SkipOf, SkippedOrdinals

(* Slots and listed replicas are finitely many, so counts are numbers.     *)
LEMMA Counts ==
  ASSUME NEW s, IsSpec(s), NEW x
  PROVE  /\ IsFiniteSet(Given(s, x)) /\ Cardinality(Given(s, x)) \in Nat
         /\ IsFiniteSet(DOMAIN s.given) /\ Cardinality(DOMAIN s.given) \in Nat
         /\ Cardinality(Skip(s, x)) \in Nat
         /\ ShardsCount(s) \in Nat /\ ReplicasCount(s) \in Nat /\ CountOf(s, x) \in Nat
         /\ Skip(s, x) = {} => Cardinality(Skip(s, x)) = 0
<1>1. IsFiniteSet(Given(s, x)) /\ IsFiniteSet(DOMAIN s.given)
  BY LayoutConstants, FS_EmptySet DEF IsSpec, Specs, Given
<1>2. Cardinality(Given(s, x)) \in Nat /\ Cardinality(DOMAIN s.given) \in Nat
  BY <1>1, FS_CardinalityType
<1>3. IsFiniteSet(Skip(s, x))
  BY SkipIsFinite
<1>4. Cardinality(Skip(s, x)) \in Nat /\ (Skip(s, x) = {} => Cardinality(Skip(s, x)) = 0)
  BY <1>3, FS_CardinalityType, FS_EmptySet
<1>5. ShardsCount(s) \in Nat /\ ReplicasCount(s) \in Nat
  BY <1>2 DEF IsSpec, Specs, ShardsCount, ReplicasCount
<1>6. CountOf(s, x) \in Nat
  BY <1>4, <1>5 DEF CountOf, ShardReplicasCount
<1> QED BY <1>1, <1>2, <1>4, <1>5, <1>6

----------------------------------------------------------------------------
(* What the normalizer computes *)

(* The listed shards, and the names with the indexes behind them.          *)
ShardsOf(s) ==
  DOMAIN s.given \cup Cardinality(DOMAIN s.given)..(ShardsCount(s) - 1)

NamedUpTo(s, x, n) ==
  {NextIndex(i, SkipOf(s, x)) : i \in Cardinality(Given(s, x))..(n - 1)}

ReplicasOf(s, x) ==
  IF Cardinality(Given(s, x)) > CountOf(s, x)
  THEN Given(s, x) \cap NewReplicas(ReplicasCount(s), Skip(s, x))
  ELSE Given(s, x) \cup NamedUpTo(s, x, CountOf(s, x))

HasReplicas(s, x, replicas) ==
  /\ replicas = ReplicasOf(s, x)
  /\ Cardinality(Given(s, x)) <= CountOf(s, x) => Cardinality(replicas) = CountOf(s, x)

IsLayoutOf(s, l) ==
  IsSpec(s) /\ DOMAIN l = ShardsOf(s) /\ \A x \in DOMAIN l : HasReplicas(s, x, l[x])

----------------------------------------------------------------------------
(* The walk *)

(* The shards so far: one more for every index up to their number.         *)
ShardsInv ==
  step = "shards" =>
    /\ DOMAIN layout = {} /\ shard = NoShard /\ IsFiniteSet(todo)
    /\ todo = DOMAIN spec.given
                \cup Cardinality(DOMAIN spec.given)..(Cardinality(todo) - 1)
    /\ todo = DOMAIN spec.given \/ Cardinality(todo) <= ShardsCount(spec)

(* The replicas of the shard that is visited, so far.                      *)
FilledInv ==
  shard # NoShard =>
    /\ step = "replicas" /\ IsFiniteSet(filled)
    /\ filled = Given(spec, shard) \cup NamedUpTo(spec, shard, Cardinality(filled))
    /\ filled = Given(spec, shard) \/ Cardinality(filled) <= CountOf(spec, shard)

(* Every shard is visited, is still to be visited or is done.              *)
WalkInv ==
  step = "replicas" =>
    /\ DOMAIN layout \cup todo \cup (IF shard = NoShard THEN {} ELSE {shard})
         = ShardsOf(spec)
    /\ \A x \in DOMAIN layout : HasReplicas(spec, x, layout[x])

(* The result before is one of a spec with the same listed shards and,     *)
(* with claims, with counts that were not greater.                         *)
PrevInv ==
  DOMAIN prev.layout # {} =>
    /\ IsLayoutOf(prev.spec, prev.layout) /\ prev.spec.given = spec.given
    /\ spec.claims => /\ spec.shardsCount >= prev.spec.shardsCount
                      /\ spec.replicasCount >= prev.spec.replicasCount

LayoutInv ==
  /\ IsSpec(spec) /\ step \in {"shards", "replicas"}
  /\ ShardsInv /\ FilledInv /\ WalkInv /\ PrevInv

(* The normalizer does not touch the spec.                                 *)
LEMMA PrevStays ==
  ASSUME LayoutInv, UNCHANGED <<spec, prev>>
  PROVE  IsSpec(spec)' /\ PrevInv'
BY DEF LayoutInv, PrevInv

(* One more shard, or none when the name is there: the loop goes on.       *)
LEMMA AddShardStep ==
  ASSUME LayoutInv, AddShard PROVE LayoutInv'
<1> DEFINE n == Cardinality(todo)
           g == Cardinality(DOMAIN spec.given)
<1>1. /\ step = "shards" /\ todo' = todo \cup {n} /\ n < ShardsCount(spec)
      /\ UNCHANGED <<spec, layout, prev, step, shard, filled>>
  BY DEF AddShard
<1>2. /\ IsFiniteSet(todo) /\ todo = DOMAIN spec.given \cup g..(n - 1)
      /\ DOMAIN layout = {} /\ shard = NoShard
  BY <1>1 DEF LayoutInv, ShardsInv
<1>3. g \in Nat /\ n \in Nat /\ ShardsCount(spec) \in Nat
  BY <1>2, Counts, FS_CardinalityType DEF LayoutInv
<1>4. g <= n
  BY <1>2, FS_Subset
<1>5. /\ IsFiniteSet(todo')
      /\ Cardinality(todo') = IF n \in todo THEN n ELSE n + 1
  BY <1>1, <1>2, FS_AddElement
<1>6. ShardsInv'
  <2>1. CASE n \in todo
    <3>1. todo' = todo
      BY <1>1, <2>1
    <3> QED BY <1>1, <3>1 DEF LayoutInv, ShardsInv
  <2>2. CASE n \notin todo
    <3>1. g..((n + 1) - 1) = g..(n - 1) \cup {n}
      BY <1>3, <1>4
    <3>2. Cardinality(todo') = n + 1
      BY <1>5, <2>2
    <3>3. todo' = DOMAIN spec'.given
                    \cup Cardinality(DOMAIN spec'.given)..(Cardinality(todo') - 1)
      BY <1>1, <1>2, <3>1, <3>2
    <3>4. Cardinality(todo') <= ShardsCount(spec')
      BY <1>1, <1>3, <3>2
    <3> QED BY <1>1, <1>2, <1>5, <3>3, <3>4 DEF ShardsInv
  <2> QED BY <2>1, <2>2
<1> QED BY <1>1, <1>2, <1>6, PrevStays DEF LayoutInv, FilledInv, WalkInv

(* When the loop has ended, all shards are there.                          *)
LEMMA BeginReplicasStep ==
  ASSUME LayoutInv, BeginReplicas PROVE LayoutInv'
<1> DEFINE n == Cardinality(todo)
           g == Cardinality(DOMAIN spec.given)
<1>1. /\ step = "shards" /\ step' = "replicas" /\ n >= ShardsCount(spec)
      /\ UNCHANGED <<spec, layout, prev, todo, shard, filled>>
  BY DEF BeginReplicas
<1>2. /\ IsFiniteSet(todo) /\ todo = DOMAIN spec.given \cup g..(n - 1)
      /\ todo = DOMAIN spec.given \/ n <= ShardsCount(spec)
      /\ DOMAIN layout = {} /\ shard = NoShard
  BY <1>1 DEF LayoutInv, ShardsInv
<1>3. g \in Nat /\ n \in Nat /\ ShardsCount(spec) \in Nat
  BY <1>2, Counts, FS_CardinalityType DEF LayoutInv
<1>4. todo = ShardsOf(spec)
  <2>1. CASE todo = DOMAIN spec.given
    <3>1. g..(ShardsCount(spec) - 1) = {}
      BY <1>1, <1>3, <2>1
    <3> QED BY <2>1, <3>1 DEF ShardsOf
  <2>2. CASE n <= ShardsCount(spec)
    <3>1. n = ShardsCount(spec)
      BY <1>1, <1>3, <2>2
    <3> QED BY <1>2, <3>1 DEF ShardsOf
  <2> QED BY <1>2, <2>1, <2>2
<1>5. WalkInv'
  BY <1>1, <1>2, <1>4 DEF WalkInv
<1> QED BY <1>1, <1>2, <1>5, PrevStays DEF LayoutInv, ShardsInv, FilledInv

(* A visit starts from the replicas that are listed.                       *)
LEMMA VisitShardStep ==
  ASSUME LayoutInv, NEW x \in Shards, VisitShard(x) PROVE LayoutInv'
<1>1. /\ step = "replicas" /\ x \in todo /\ shard = NoShard
      /\ todo' = todo \ {x} /\ shard' = x /\ filled' = Given(spec, x)
      /\ UNCHANGED <<spec, layout, prev, step>>
  BY DEF VisitShard
<1>2. x # NoShard
  BY LayoutConstants DEF NoShard
<1>3. WalkInv'
  BY <1>1, <1>2 DEF LayoutInv, WalkInv
<1>4. FilledInv'
  <2> DEFINE g == Cardinality(Given(spec, x))
  <2>1. IsFiniteSet(Given(spec, x)) /\ g \in Nat
    BY Counts DEF LayoutInv
  <2>2. g..(g - 1) = {}
    BY <2>1
  <2>3. NamedUpTo(spec, x, g) = {}
    BY <2>2 DEF NamedUpTo
  <2> QED BY <1>1, <2>1, <2>3 DEF FilledInv
<1> QED BY <1>1, <1>3, <1>4, PrevStays DEF LayoutInv, ShardsInv

(* One more replica, or none when the name is there: the loop goes on.     *)
LEMMA AddReplicaStep ==
  ASSUME LayoutInv, AddReplica PROVE LayoutInv'
<1> DEFINE n == Cardinality(filled)
           g == Cardinality(Given(spec, shard))
           new == NextIndex(n, SkipOf(spec, shard))
<1>1. /\ shard # NoShard /\ n < CountOf(spec, shard) /\ filled' = filled \cup {new}
      /\ UNCHANGED <<spec, layout, prev, step, todo, shard>>
  BY DEF AddReplica
<1>2. /\ step = "replicas" /\ IsFiniteSet(filled)
      /\ filled = Given(spec, shard) \cup NamedUpTo(spec, shard, n)
  BY <1>1 DEF LayoutInv, FilledInv
<1>3. g \in Nat /\ n \in Nat /\ CountOf(spec, shard) \in Nat
  BY <1>2, Counts, FS_CardinalityType DEF LayoutInv
<1>4. g <= n
  BY <1>2, FS_Subset
<1>5. IsFiniteSet(filled') /\ Cardinality(filled') = IF new \in filled THEN n ELSE n + 1
  BY <1>1, <1>2, FS_AddElement
<1>6. FilledInv'
  <2>1. CASE new \in filled
    <3>1. filled' = filled
      BY <1>1, <2>1
    <3> QED BY <1>1, <3>1 DEF LayoutInv, FilledInv
  <2>2. CASE new \notin filled
    <3>1. g..((n + 1) - 1) = g..(n - 1) \cup {n}
      BY <1>3, <1>4
    <3>2. NamedUpTo(spec, shard, n + 1) = NamedUpTo(spec, shard, n) \cup {new}
      BY <3>1 DEF NamedUpTo
    <3>3. Cardinality(filled') = n + 1
      BY <1>5, <2>2
    <3>4. filled' = Given(spec, shard)' \cup NamedUpTo(spec, shard, Cardinality(filled))'
      BY <1>1, <1>2, <3>2, <3>3
    <3>5. Cardinality(filled') <= CountOf(spec, shard)'
      BY <1>1, <1>3, <3>3
    <3> QED BY <1>1, <1>2, <1>5, <3>4, <3>5 DEF FilledInv
  <2> QED BY <2>1, <2>2
<1> QED BY <1>1, <1>2, <1>6, PrevStays DEF LayoutInv, ShardsInv, WalkInv

(* When the loop has ended, the shard has the replicas it should.          *)
LEMMA FinishShardStep ==
  ASSUME LayoutInv, FinishShard PROVE LayoutInv'
<1> DEFINE n == Cardinality(filled)
           g == Cardinality(Given(spec, shard))
           c == CountOf(spec, shard)
<1>1. /\ shard # NoShard /\ n >= c /\ layout' = Put(layout, shard, Trimmed(shard, filled))
      /\ shard' = NoShard /\ UNCHANGED <<spec, prev, step, todo>>
  BY DEF FinishShard
<1>2. /\ step = "replicas" /\ IsFiniteSet(filled)
      /\ filled = Given(spec, shard) \cup NamedUpTo(spec, shard, n)
      /\ filled = Given(spec, shard) \/ n <= c
  BY <1>1 DEF LayoutInv, FilledInv
<1>3. g \in Nat /\ n \in Nat /\ c \in Nat
  BY <1>2, Counts, FS_CardinalityType DEF LayoutInv
<1>4. g <= n
  BY <1>2, FS_Subset
<1>5. HasReplicas(spec, shard, Trimmed(shard, filled))
  <2>1. CASE n > c
    <3>1. filled = Given(spec, shard) /\ g > c
      BY <1>2, <1>3, <2>1
    <3>2. Trimmed(shard, filled) = ReplicasOf(spec, shard)
      BY <2>1, <3>1 DEF Trimmed, ReplicasOf
    <3> QED BY <1>3, <3>1, <3>2 DEF HasReplicas
  <2>2. CASE ~(n > c)
    <3>1. n = c /\ ~(g > c)
      BY <1>1, <1>3, <1>4, <2>2
    <3>2. Trimmed(shard, filled) = filled
      BY <2>2 DEF Trimmed
    <3>3. filled = ReplicasOf(spec, shard)
      BY <1>2, <3>1 DEF ReplicasOf
    <3> QED BY <3>1, <3>2, <3>3 DEF HasReplicas
  <2> QED BY <2>1, <2>2
<1>6. WalkInv'
  <2>1. /\ DOMAIN layout' = DOMAIN layout \cup {shard}
        /\ layout'[shard] = Trimmed(shard, filled)
        /\ \A x \in DOMAIN layout : x # shard => layout'[x] = layout[x]
    BY <1>1 DEF Put
  <2>2. DOMAIN layout' \cup todo' = ShardsOf(spec)
    BY <1>1, <1>2, <2>1 DEF LayoutInv, WalkInv
  <2>3. \A x \in DOMAIN layout' : HasReplicas(spec, x, layout'[x])
    BY <1>2, <1>5, <2>1 DEF LayoutInv, WalkInv
  <2> QED BY <1>1, <2>2, <2>3 DEF WalkInv
<1> QED BY <1>1, <1>2, <1>6, PrevStays DEF LayoutInv, ShardsInv, FilledInv

----------------------------------------------------------------------------
(* Edits *)

(* What a webhook that accepts an edit knows of the counts.                *)
LEMMA ClaimedCounts ==
  ASSUME NEW new \in Specs, NEW old \in Specs, new.claims,
         Webhook!ValidateUpdate(Document(new), Document(old))
  PROVE  new.shardsCount >= old.shardsCount /\ new.replicasCount >= old.replicasCount
<1>1. DOMAIN Document(new).claims = {"data"}
  BY DEF Document, Webhook!NewSpec
<1>2. \A s : /\ Document(s).cluster.shards = s.shardsCount
             /\ Document(s).cluster.replicas = s.replicasCount
  BY DEF Document, Webhook!NewSpec
<1>3. /\ Document(new).cluster.shards >= Document(old).cluster.shards
      /\ Document(new).cluster.replicas >= Document(old).cluster.replicas
  BY <1>1 DEF Webhook!ValidateUpdate, Webhook!ScaleInOut
<1> QED BY <1>2, <1>3

(* An edit makes the finished result the one before.                       *)
LEMMA EditStep ==
  ASSUME LayoutInv, NEW new, IsSpec(new), new.given = spec.given, new.claims = spec.claims,
         Edit(new)
  PROVE  LayoutInv'
<1>1. /\ step = "replicas" /\ todo = {} /\ shard = NoShard
      /\ Webhook!ValidateUpdate(Document(new), Document(spec))
      /\ spec' = new /\ prev' = [spec |-> spec, layout |-> layout]
      /\ step' = "shards" /\ todo' = DOMAIN new.given /\ layout' = <<>>
      /\ UNCHANGED <<shard, filled>>
  BY DEF Edit, Normalized
<1>2. IsLayoutOf(spec, layout)
  BY <1>1 DEF LayoutInv, WalkInv, IsLayoutOf
<1>3. PrevInv'
  <2>1. prev'.spec = spec /\ prev'.layout = layout
    BY <1>1
  <2>2. new.claims => /\ new.shardsCount >= spec.shardsCount
                      /\ new.replicasCount >= spec.replicasCount
    BY <1>1, ClaimedCounts DEF LayoutInv, IsSpec
  <2> QED BY <1>1, <1>2, <2>1, <2>2 DEF PrevInv
<1>4. ShardsInv'
  <2> DEFINE g == Cardinality(DOMAIN new.given)
  <2>1. IsFiniteSet(DOMAIN new.given) /\ g \in Nat
    BY Counts
  <2>2. g..(g - 1) = {}
    BY <2>1
  <2>3. DOMAIN <<>> = {}
    OBVIOUS
  <2> QED BY <1>1, <2>1, <2>2, <2>3 DEF ShardsInv
<1> QED BY <1>1, <1>3, <1>4 DEF LayoutInv, FilledInv, WalkInv

(* All that users do are edits of this kind.                               *)
LEMMA UserStep ==
  ASSUME LayoutInv, User PROVE LayoutInv'
<1>1. spec \in Specs /\ IsFiniteSet(spec.slots)
  BY DEF LayoutInv, IsSpec
<1>2. CASE \E n \in 0..MaxReplicas : Scale(n)
  <2>1. PICK n \in 0..MaxReplicas : Scale(n)
    BY <1>2
  <2>2. IsSpec([spec EXCEPT !.replicasCount = n])
    BY <1>1, LayoutConstants DEF IsSpec, Specs
  <2> QED BY <1>1, <2>1, <2>2, EditStep DEF Scale, Specs
<1>3. CASE \E n \in 0..MaxShards : ScaleShards(n)
  <2>1. PICK n \in 0..MaxShards : ScaleShards(n)
    BY <1>3
  <2>2. IsSpec([spec EXCEPT !.shardsCount = n])
    BY <1>1, LayoutConstants DEF IsSpec, Specs
  <2> QED BY <1>1, <2>1, <2>2, EditStep DEF ScaleShards, Specs
<1>4. CASE \E slot \in Slot(Shards, Ordinals) : AddSlot(slot)
  <2>1. PICK slot \in Slot(Shards, Ordinals) : AddSlot(slot)
    BY <1>4
  <2>2. IsFiniteSet(spec.slots \cup {slot})
    BY <1>1, FS_AddElement
  <2>3. IsSpec([spec EXCEPT !.slots = spec.slots \cup {slot}])
    BY <1>1, <2>2 DEF IsSpec, Specs
  <2> QED BY <1>1, <2>1, <2>3, EditStep DEF AddSlot, Specs
<1>5. CASE \E slot \in spec.slots : RemoveSlot(slot)
  <2>1. PICK slot \in spec.slots : RemoveSlot(slot)
    BY <1>5
  <2>2. IsFiniteSet(spec.slots \ {slot})
    BY <1>1, FS_Subset
  <2>3. IsSpec([spec EXCEPT !.slots = spec.slots \ {slot}])
    BY <1>1, <2>2 DEF IsSpec, Specs
  <2> QED BY <1>1, <2>1, <2>3, EditStep DEF RemoveSlot, Specs
<1> QED BY <1>2, <1>3, <1>4, <1>5 DEF User

(* The invariant of the walk holds.                                        *)
LEMMA LayoutInvHolds == Spec => []LayoutInv
<1>1. ASSUME Init PROVE LayoutInv
  <2>1. /\ spec \in Specs /\ spec.slots = {} /\ layout = <<>> /\ prev.layout = <<>>
        /\ step = "shards" /\ todo = DOMAIN spec.given /\ shard = NoShard
    BY <1>1, LayoutConstants DEF Init, Specs
  <2>2. IsSpec(spec)
    BY <2>1, FS_EmptySet DEF IsSpec
  <2> DEFINE g == Cardinality(DOMAIN spec.given)
  <2>3. IsFiniteSet(DOMAIN spec.given) /\ g \in Nat
    BY <2>2, Counts
  <2>4. g..(g - 1) = {}
    BY <2>3
  <2>5. DOMAIN <<>> = {}
    OBVIOUS
  <2> QED BY <2>1, <2>2, <2>3, <2>4, <2>5
          DEF LayoutInv, ShardsInv, FilledInv, WalkInv, PrevInv
<1>2. ASSUME LayoutInv, Next PROVE LayoutInv'
  BY <1>2, AddShardStep, BeginReplicasStep, VisitShardStep, AddReplicaStep,
     FinishShardStep, UserStep
  DEF Next, Normalize
<1>3. ASSUME LayoutInv, UNCHANGED vars PROVE LayoutInv'
  BY <1>3 DEF vars, LayoutInv, ShardsInv, FilledInv, WalkInv, PrevInv
<1> QED BY <1>1, <1>2, <1>3, PTL DEF Spec

----------------------------------------------------------------------------
(* Results *)

(***************************************************************************)
(* Listed replicas and generated ones together are as many as asked for.   *)
(***************************************************************************)
THEOREM ListedCount == Spec => []ListedReplicasCount
<1>1. ASSUME LayoutInv, Normalized PROVE ListedReplicasCount
  <2> SUFFICES ASSUME NEW x \in DOMAIN layout,
                      Cardinality(Given(spec, x)) <= CountOf(spec, x)
               PROVE  /\ Cardinality(layout[x]) = CountOf(spec, x)
                      /\ Given(spec, x) \subseteq layout[x]
    BY DEF ListedReplicasCount
  <2>1. HasReplicas(spec, x, layout[x])
    BY <1>1 DEF LayoutInv, WalkInv, Normalized
  <2>2. ~(Cardinality(Given(spec, x)) > CountOf(spec, x))
    BY <1>1, Counts DEF LayoutInv
  <2> QED BY <2>1, <2>2 DEF HasReplicas, ReplicasOf
<1>2. LayoutInv => ListedReplicasCount
  BY <1>1 DEF ListedReplicasCount
<1> QED BY <1>2, LayoutInvHolds, PTL

(* More replicas with the same slots in effect: all that there were.       *)
LEMMA MoreReplicas ==
  ASSUME NEW new, IsSpec(new), NEW old, IsSpec(old), NEW x,
         new.given = old.given, new.slots = old.slots,
         ReplicasCount(new) >= ReplicasCount(old), InEffect(old, x)
  PROVE  ReplicasOf(old, x) \subseteq ReplicasOf(new, x)
<1> DEFINE k == Cardinality(Skip(old, x))
           G == Given(old, x)
<1>1. Given(new, x) = G /\ Skip(new, x) = Skip(old, x)
  BY DEF Given, Skip
<1>2. /\ k \in Nat /\ Cardinality(G) \in Nat
      /\ ReplicasCount(old) \in Nat /\ ReplicasCount(new) \in Nat
      /\ CountOf(old, x) \in Nat /\ CountOf(new, x) \in Nat
      /\ Skip(old, x) = {} => k = 0
  BY Counts
<1>3. CountOf(old, x) <= CountOf(new, x) /\ SkipOf(new, x) = SkipOf(old, x)
  <2>1. CASE Skip(old, x) = {}
    BY <1>1, <1>2, <2>1 DEF CountOf, SkipOf, ShardReplicasCount, SkippedOrdinals
  <2>2. CASE CountOf(old, x) # ReplicasCount(old)
    <3>1. ReplicasCount(old) > k /\ CountOf(old, x) = ReplicasCount(old) - k /\ k > 0
      BY <1>2, <2>2 DEF CountOf, ShardReplicasCount
    <3>2. CountOf(new, x) = ReplicasCount(new) - k /\ CountOf(new, x) # ReplicasCount(new)
      BY <1>1, <1>2, <3>1 DEF CountOf, ShardReplicasCount
    <3>3. SkipOf(new, x) = Skip(old, x) /\ SkipOf(old, x) = Skip(old, x)
      BY <1>1, <2>2, <3>2 DEF SkipOf, SkippedOrdinals, CountOf
    <3> QED BY <1>2, <3>1, <3>2, <3>3
  <2> QED BY <2>1, <2>2 DEF InEffect
<1>4. \A a \in Nat : a..(CountOf(old, x) - 1) \subseteq a..(CountOf(new, x) - 1)
  BY <1>2, <1>3
<1>5. NamedUpTo(old, x, CountOf(old, x)) \subseteq NamedUpTo(new, x, CountOf(new, x))
  BY <1>1, <1>2, <1>3, <1>4 DEF NamedUpTo
<1>6. NewReplicas(ReplicasCount(old), Skip(old, x))
        \subseteq NewReplicas(ReplicasCount(new), Skip(new, x))
  BY <1>3, <1>4 DEF NewReplicas, SkipOf, CountOf
<1>7. CASE Cardinality(G) > CountOf(new, x)
  BY <1>1, <1>2, <1>3, <1>6, <1>7 DEF ReplicasOf
<1>8. CASE ~(Cardinality(G) > CountOf(new, x))
  BY <1>1, <1>5, <1>8 DEF ReplicasOf
<1> QED BY <1>7, <1>8

(* More shards, in either sense: all that there were.                      *)
LEMMA MoreShards ==
  ASSUME NEW new, IsSpec(new), NEW old, IsSpec(old), new.given = old.given,
         \/ ShardsCount(new) >= ShardsCount(old)
         \/ new.shardsCount >= old.shardsCount
  PROVE  ShardsOf(old) \subseteq ShardsOf(new)
<1> DEFINE g == Cardinality(DOMAIN old.given)
<1>1. /\ g \in Nat /\ ShardsCount(old) \in Nat /\ ShardsCount(new) \in Nat
      /\ (DOMAIN old.given = {} => g = 0)
      /\ old.shardsCount \in Nat /\ new.shardsCount \in Nat
  BY Counts, FS_EmptySet DEF IsSpec, Specs
<1>2. CASE ShardsCount(new) >= ShardsCount(old)
  BY <1>1, <1>2 DEF ShardsOf
<1>3. CASE new.shardsCount >= old.shardsCount /\ ~(ShardsCount(new) >= ShardsCount(old))
  <2>1. ShardsCount(old) = g
    BY <1>1, <1>3 DEF ShardsCount
  <2>2. g..(ShardsCount(old) - 1) = {}
    BY <1>1, <2>1
  <2> QED BY <2>2 DEF ShardsOf
<1> QED BY <1>2, <1>3

(* From one result to the next with counts that do not go down.            *)
LEMMA LayoutKeepsReplicas ==
  ASSUME LayoutInv, Normalized, spec.slots = prev.spec.slots,
         \/ /\ ShardsCount(spec) >= ShardsCount(prev.spec)
            /\ ReplicasCount(spec) >= ReplicasCount(prev.spec)
         \/ spec.claims
  PROVE  KeepsReplicas
<1> SUFFICES ASSUME NEW x \in DOMAIN prev.layout
             PROVE  /\ x \in DOMAIN layout
                    /\ InEffect(prev.spec, x) => prev.layout[x] \subseteq layout[x]
  BY DEF KeepsReplicas
<1>1. /\ IsLayoutOf(prev.spec, prev.layout) /\ prev.spec.given = spec.given
      /\ spec.claims => /\ spec.shardsCount >= prev.spec.shardsCount
                        /\ spec.replicasCount >= prev.spec.replicasCount
  BY DEF LayoutInv, PrevInv
<1>2. IsSpec(spec) /\ IsSpec(prev.spec)
  BY <1>1 DEF LayoutInv, IsLayoutOf
<1>3. /\ DOMAIN layout = ShardsOf(spec)
      /\ \A y \in DOMAIN layout : HasReplicas(spec, y, layout[y])
  BY DEF LayoutInv, WalkInv, Normalized
<1>4. x \in DOMAIN layout
  BY <1>1, <1>2, <1>3, MoreShards DEF IsLayoutOf
<1>5. ReplicasCount(spec) >= ReplicasCount(prev.spec)
  BY <1>1, <1>2 DEF ReplicasCount, IsSpec, Specs
<1> QED BY <1>1, <1>2, <1>3, <1>4, <1>5, MoreReplicas DEF IsLayoutOf, HasReplicas

(***************************************************************************)
(* A scale-out keeps every shard and every replica.                        *)
(***************************************************************************)
THEOREM ScaleOutKeeps == Spec => []ScaleOutKeepsReplicas
<1>1. LayoutInv => ScaleOutKeepsReplicas
  BY LayoutKeepsReplicas DEF ScaleOutKeepsReplicas
<1> QED BY <1>1, LayoutInvHolds, PTL

(***************************************************************************)
(* The webhook and the normalizer together keep the replicas of an         *)
(* installation with claims, whatever counts are written and left out.     *)
(***************************************************************************)
THEOREM ClaimedAreKept == Spec => []ClaimedReplicasAreKept
<1>1. LayoutInv => ClaimedReplicasAreKept
  BY LayoutKeepsReplicas DEF ClaimedReplicasAreKept
<1> QED BY <1>1, LayoutInvHolds, PTL

----------------------------------------------------------------------------
(* Ordinals of a result *)

(* Counts stay within their bounds, and only shards that there can be are  *)
(* added, visited and listed.                                              *)
BoundsInv ==
  /\ spec.shardsCount \in 0..MaxShards /\ spec.replicasCount \in 0..MaxReplicas
  /\ todo \subseteq Shards /\ shard \in Shards \cup {NoShard}
  /\ DOMAIN layout \subseteq Shards

(* The bounds hold. *)
LEMMA BoundsHold == Spec => []BoundsInv
<1>1. Init => BoundsInv
  BY LayoutConstants DEF Init, BoundsInv
<1>2. ASSUME LayoutInv, BoundsInv, AddShard PROVE BoundsInv'
  <2> DEFINE n == Cardinality(todo)
             g == Cardinality(DOMAIN spec.given)
  <2>1. /\ step = "shards" /\ n < ShardsCount(spec) /\ todo' = todo \cup {n}
        /\ UNCHANGED <<spec, layout, shard>>
    BY <1>2 DEF AddShard
  <2>2. IsFiniteSet(todo) /\ DOMAIN spec.given \in SUBSET todo
    BY <1>2, <2>1 DEF LayoutInv, ShardsInv
  <2>3. n \in Nat /\ g \in Nat /\ g <= n /\ (DOMAIN spec.given = {} => g = 0)
    BY <2>2, FS_Subset, FS_CardinalityType, FS_EmptySet
  <2>4. spec.given \in GivenLayouts /\ spec.shardsCount \in 0..MaxShards
    BY <1>2 DEF LayoutInv, IsSpec, Specs, BoundsInv
  <2>5. n \in g..(MaxShards - 1)
    BY <2>1, <2>3, <2>4, LayoutConstants DEF ShardsCount
  <2>6. n \in Shards
    BY <2>4, <2>5, LayoutConstants
  <2> QED BY <1>2, <2>1, <2>6 DEF BoundsInv
<1>3. ASSUME BoundsInv, NEW x \in Shards, VisitShard(x) PROVE BoundsInv'
  BY <1>3 DEF BoundsInv, VisitShard
<1>4. ASSUME BoundsInv, FinishShard PROVE BoundsInv'
  <2>1. DOMAIN layout' = DOMAIN layout \cup {shard} /\ shard \in Shards
    BY <1>4 DEF FinishShard, Put, BoundsInv
  <2> QED BY <1>4, <2>1 DEF BoundsInv, FinishShard
<1>5. ASSUME BoundsInv, BeginReplicas \/ AddReplica PROVE BoundsInv'
  BY <1>5 DEF BoundsInv, BeginReplicas, AddReplica
<1>6. ASSUME LayoutInv, BoundsInv, NEW new, new.given = spec.given, Edit(new),
             new.shardsCount \in 0..MaxShards, new.replicasCount \in 0..MaxReplicas
      PROVE  BoundsInv'
  <2>1. spec.given \in GivenLayouts
    BY <1>6 DEF LayoutInv, IsSpec, Specs
  <2>2. DOMAIN new.given \subseteq Shards /\ DOMAIN <<>> = {}
    BY <1>6, <2>1, LayoutConstants
  <2> QED BY <1>6, <2>2 DEF BoundsInv, Edit
<1>7. ASSUME LayoutInv, BoundsInv, User PROVE BoundsInv'
  <2>1. /\ spec.shardsCount \in 0..MaxShards /\ spec.replicasCount \in 0..MaxReplicas
        /\ spec \in Specs
    BY <1>7 DEF BoundsInv, LayoutInv, IsSpec
  <2>2. /\ \A n : [spec EXCEPT !.replicasCount = n].given = spec.given
        /\ \A n : [spec EXCEPT !.replicasCount = n].shardsCount = spec.shardsCount
        /\ \A n : [spec EXCEPT !.replicasCount = n].replicasCount = n
        /\ \A n : [spec EXCEPT !.shardsCount = n].given = spec.given
        /\ \A n : [spec EXCEPT !.shardsCount = n].shardsCount = n
        /\ \A n : [spec EXCEPT !.shardsCount = n].replicasCount = spec.replicasCount
        /\ \A slots : [spec EXCEPT !.slots = slots].given = spec.given
        /\ \A slots : [spec EXCEPT !.slots = slots].shardsCount = spec.shardsCount
        /\ \A slots : [spec EXCEPT !.slots = slots].replicasCount = spec.replicasCount
    BY <2>1 DEF Specs
  <2>3. ASSUME NEW n \in 0..MaxReplicas, Scale(n) PROVE BoundsInv'
    BY <1>6, <1>7, <2>1, <2>2, <2>3 DEF Scale
  <2>4. ASSUME NEW n \in 0..MaxShards, ScaleShards(n) PROVE BoundsInv'
    BY <1>6, <1>7, <2>1, <2>2, <2>4 DEF ScaleShards
  <2>5. ASSUME NEW slot, AddSlot(slot) \/ RemoveSlot(slot) PROVE BoundsInv'
    BY <1>6, <1>7, <2>1, <2>2, <2>5 DEF AddSlot, RemoveSlot
  <2> QED BY <1>7, <2>3, <2>4, <2>5 DEF User
<1>8. ASSUME BoundsInv, UNCHANGED vars PROVE BoundsInv'
  BY <1>8 DEF BoundsInv, vars
<1>9. LayoutInv /\ BoundsInv /\ [Next]_vars => BoundsInv'
  BY <1>2, <1>3, <1>4, <1>5, <1>7, <1>8 DEF Next, Normalize
<1> QED BY <1>1, <1>9, LayoutInvHolds, PTL DEF Spec

(* A generated replica has an ordinal below the replicasCount. *)
LEMMA GeneratedAreBelow ==
  ASSUME NEW s, IsSpec(s), NEW x, NEW i \in Nat, i < CountOf(s, x)
  PROVE  NextIndex(i, SkipOf(s, x)) \in 0..(ReplicasCount(s) - 1)
<1> DEFINE skip == SkipOf(s, x)
           next == NextIndex(i, skip)
<1>1. skip \in SUBSET Nat /\ IsFiniteSet(skip)
  BY SkipIsFinite
<1>2. next \in Nat /\ next <= i + Cardinality(skip)
  BY <1>1, NextIndexIs
<1>3. /\ CountOf(s, x) \in Nat /\ ReplicasCount(s) \in Nat
      /\ Cardinality(Skip(s, x)) \in Nat
  BY Counts
<1> HIDE DEF next
<1>4. CountOf(s, x) + Cardinality(skip) <= ReplicasCount(s)
  <2>1. CASE CountOf(s, x) = ReplicasCount(s)
    <3>1. skip = {} /\ Cardinality(skip) = 0
      BY <2>1, FS_EmptySet DEF SkipOf, SkippedOrdinals, CountOf
    <3> QED BY <1>3, <2>1, <3>1
  <2>2. CASE CountOf(s, x) # ReplicasCount(s)
    <3>1. skip = Skip(s, x)
      BY <2>2 DEF SkipOf, SkippedOrdinals, CountOf
    <3> QED BY <1>3, <2>2, <3>1 DEF CountOf, ShardReplicasCount
  <2> QED BY <2>1, <2>2
<1>5. Cardinality(skip) \in Nat
  BY <1>1, FS_CardinalityType
<1> HIDE DEF skip
<1>6. next \in 0..(ReplicasCount(s) - 1)
  BY <1>2, <1>3, <1>4, <1>5
<1> QED BY <1>6 DEF next, skip

(***************************************************************************)
(* Every variable has its type, and no generated replica has an ordinal    *)
(* that reaches the replicasCount, whatever is listed and deleted.         *)
(***************************************************************************)
THEOREM LayoutTypeCorrect == Spec => []TypeOK
<1>1. ASSUME LayoutInv, BoundsInv PROVE TypeOK
  <2>1. spec \in Specs /\ step \in {"shards", "replicas"}
    BY <1>1 DEF LayoutInv, IsSpec
  <2>2. ASSUME NEW x \in DOMAIN layout
        PROVE  layout[x] \subseteq Given(spec, x) \cup 0..(ReplicasCount(spec) - 1)
    <3>1. layout[x] = ReplicasOf(spec, x) /\ IsSpec(spec)
      BY <1>1, <2>2 DEF LayoutInv, ShardsInv, WalkInv, HasReplicas
    <3>2. Cardinality(Given(spec, x)) \in Nat /\ CountOf(spec, x) \in Nat
      BY <3>1, Counts
    <3>3. ASSUME NEW i \in Cardinality(Given(spec, x))..(CountOf(spec, x) - 1)
          PROVE  NextIndex(i, SkipOf(spec, x)) \in 0..(ReplicasCount(spec) - 1)
      <4>1. i \in Nat /\ i < CountOf(spec, x)
        BY <3>2
      <4> QED BY <3>1, <4>1, GeneratedAreBelow
    <3> QED BY <3>1, <3>3 DEF ReplicasOf, NamedUpTo
  <2> QED BY <1>1, <2>1, <2>2 DEF TypeOK, BoundsInv, Specs
<1>2. LayoutInv /\ BoundsInv => TypeOK
  BY <1>1
<1> QED BY <1>2, LayoutInvHolds, BoundsHold, PTL

(* A shard with nothing listed has the lowest ordinals. *)
LEMMA ReplicasAreLowest ==
  ASSUME NEW s, IsSpec(s), NEW x, Given(s, x) = {}
  PROVE  ReplicasOf(s, x) = Lowest(CountOf(s, x), SkipOf(s, x))
<1>1. Cardinality(Given(s, x)) = 0 /\ CountOf(s, x) \in Nat
  BY Counts, FS_EmptySet
<1>2. ReplicasOf(s, x) = {NextIndex(i, SkipOf(s, x)) : i \in 0..(CountOf(s, x) - 1)}
  BY <1>1 DEF ReplicasOf, NamedUpTo
<1> QED BY <1>1, <1>2, SkipIsFinite, NextIndexesAreLowest

(***************************************************************************)
(* A shard whose replicas are not listed has the lowest ordinals that are  *)
(* not deleted: getNextIndex skips what it should, for any slots, counts   *)
(* and indexes.                                                            *)
(***************************************************************************)
THEOREM LowestOrdinals == Spec => []LayoutIsLowestOrdinals
<1>1. LayoutInv => LayoutIsLowestOrdinals
  BY ReplicasAreLowest DEF LayoutIsLowestOrdinals, LayoutInv, WalkInv, HasReplicas, Normalized
<1> QED BY <1>1, LayoutInvHolds, PTL

(***************************************************************************)
(* When there is a slot that the spec before had not, it is one slot, all  *)
(* else is as it was, and there was a result.                              *)
(***************************************************************************)
SlotsInv ==
  spec.slots \ prev.spec.slots # {} =>
    /\ IsLayoutOf(prev.spec, prev.layout)
    /\ spec.given = prev.spec.given /\ spec.shardsCount = prev.spec.shardsCount
    /\ spec.replicasCount = prev.spec.replicasCount
    /\ \E slot \in Slot(Shards, Ordinals) : spec.slots = prev.spec.slots \cup {slot}

(* It holds. *)
LEMMA SlotsHold == Spec => []SlotsInv
<1>1. Init => SlotsInv
  BY DEF Init, SlotsInv
<1>2. ASSUME LayoutInv, NEW new, Edit(new),
             new.slots \ spec.slots # {} =>
               /\ new.given = spec.given /\ new.shardsCount = spec.shardsCount
               /\ new.replicasCount = spec.replicasCount
               /\ \E slot \in Slot(Shards, Ordinals) : new.slots = spec.slots \cup {slot}
      PROVE  SlotsInv'
  <2>1. /\ step = "replicas" /\ todo = {} /\ shard = NoShard
        /\ spec' = new /\ prev' = [spec |-> spec, layout |-> layout]
    BY <1>2 DEF Edit, Normalized
  <2>2. IsLayoutOf(spec, layout)
    BY <1>2, <2>1 DEF LayoutInv, WalkInv, IsLayoutOf
  <2>3. prev'.spec = spec /\ prev'.layout = layout
    BY <2>1
  <2> QED BY <1>2, <2>1, <2>2, <2>3 DEF SlotsInv
<1>3. ASSUME LayoutInv, User PROVE SlotsInv'
  <2>1. spec \in Specs
    BY <1>3 DEF LayoutInv, IsSpec
  <2>2. /\ \A n : [spec EXCEPT !.replicasCount = n].slots = spec.slots
        /\ \A n : [spec EXCEPT !.shardsCount = n].slots = spec.slots
        /\ \A slots : [spec EXCEPT !.slots = slots].slots = slots
        /\ \A slots : [spec EXCEPT !.slots = slots].given = spec.given
        /\ \A slots : [spec EXCEPT !.slots = slots].shardsCount = spec.shardsCount
        /\ \A slots : [spec EXCEPT !.slots = slots].replicasCount = spec.replicasCount
    BY <2>1 DEF Specs
  <2>3. ASSUME NEW n, Scale(n) \/ ScaleShards(n) PROVE SlotsInv'
    BY <1>2, <1>3, <2>2, <2>3 DEF Scale, ScaleShards
  <2>4. ASSUME NEW slot \in Slot(Shards, Ordinals), AddSlot(slot) PROVE SlotsInv'
    BY <1>2, <1>3, <2>2, <2>4 DEF AddSlot
  <2>5. ASSUME NEW slot, RemoveSlot(slot) PROVE SlotsInv'
    BY <1>2, <1>3, <2>2, <2>5 DEF RemoveSlot
  <2> QED BY <1>3, <2>3, <2>4, <2>5 DEF User
<1>4. ASSUME SlotsInv, UNCHANGED <<spec, prev>> PROVE SlotsInv'
  BY <1>4 DEF SlotsInv
<1>5. LayoutInv /\ SlotsInv /\ [Next]_vars => SlotsInv'
  BY <1>3, <1>4
  DEF Next, Normalize, AddShard, BeginReplicas, VisitShard, AddReplica, FinishShard, vars
<1> QED BY <1>1, <1>5, LayoutInvHolds, PTL DEF Spec

(* Of at most ten shards no name contains another one. *)
LEMMA NamesOfTenShards ==
  ASSUME Shards \subseteq 0..9, NEW slot \in Slot(Shards, Ordinals), NEW x \in Shards
  PROVE  NameContains(slot, x) <=> slot.shard = x
<1>1. slot.shard \in 0..9 /\ x \in 0..9
  BY DEF Slot
<1>2. slot.shard \div 1 = slot.shard /\ slot.shard \div 10 = 0 /\ slot.shard \div 100 = 0
  BY <1>1
<1> QED BY <1>1, <1>2 DEF NameContains

(* What a new slot does to the ordinals that a shard skips. *)
LEMMA NewSlot ==
  ASSUME Shards \subseteq 0..9, NEW new, IsSpec(new), NEW old, IsSpec(old), NEW x \in Shards,
         NEW slot, new.slots = old.slots \cup {slot}, slot.kind = "replica"
  PROVE  /\ slot.shard = x => Skip(new, x) = Skip(old, x) \cup {slot.ordinal}
         /\ slot.shard # x => Skip(new, x) = Skip(old, x)
<1> DEFINE Named(s) == {t \in s.slots : NameContains(t, x)}
<1>1. slot \in Slot(Shards, Ordinals)
  BY DEF IsSpec, Specs
<1>2. /\ slot.shard = x => Named(new) = Named(old) \cup {slot}
      /\ slot.shard # x => Named(new) = Named(old)
  BY <1>1, NamesOfTenShards
<1>3. ExtractLastOrdinal(slot) = slot.ordinal
  BY DEF ExtractLastOrdinal
<1>4. \A s : Skip(s, x) = {ExtractLastOrdinal(t) : t \in Named(s)}
  BY DEF Skip, GetDeleteSlotsForShard
<1>5. CASE slot.shard = x
  <2>1. {ExtractLastOrdinal(t) : t \in Named(new)}
          = {ExtractLastOrdinal(t) : t \in Named(old)} \cup {slot.ordinal}
    BY <1>2, <1>3, <1>5
  <2> QED BY Zenon, <1>4, <1>5, <2>1
<1>6. CASE slot.shard # x
  BY Zenon, <1>2, <1>4, <1>6
<1> QED BY Zenon, <1>5, <1>6

(* Skipping one more of the replicas that there are takes away that one.   *)
LEMMA OneLess ==
  ASSUME NEW new, IsSpec(new), NEW old, IsSpec(old), NEW x, NEW o,
         ReplicasCount(new) = ReplicasCount(old), Given(new, x) = {}, Given(old, x) = {},
         InEffect(new, x), InEffect(old, x),
         Skip(new, x) = Skip(old, x) \cup {o}, o \in ReplicasOf(old, x)
  PROVE  ReplicasOf(new, x) = ReplicasOf(old, x) \ {o}
<1> DEFINE k == Cardinality(Skip(old, x))
<1>1. /\ Skip(old, x) \in SUBSET Nat /\ IsFiniteSet(Skip(old, x))
      /\ k \in Nat /\ (Skip(old, x) = {} => k = 0)
      /\ ReplicasCount(old) \in Nat \ {0} /\ CountOf(old, x) \in Nat
  BY SkipIsFinite, Counts DEF ReplicasCount, IsSpec, Specs
<1>2. SkipOf(old, x) = Skip(old, x) /\ CountOf(old, x) = ReplicasCount(old) - k
  BY <1>1 DEF InEffect, SkipOf, SkippedOrdinals, CountOf, ShardReplicasCount
<1>3. o \in Lowest(CountOf(old, x), Skip(old, x))
  BY <1>2, ReplicasAreLowest
<1>4. o \notin Skip(old, x)
  BY <1>1, <1>3, LowestIs
<1>5. Cardinality(Skip(new, x)) = k + 1
  BY <1>1, <1>4, FS_AddElement
<1>6. CountOf(new, x) # ReplicasCount(new)
  BY DEF InEffect
<1>7. CountOf(new, x) = CountOf(old, x) - 1 /\ SkipOf(new, x) = Skip(old, x) \cup {o}
  BY <1>1, <1>2, <1>5, <1>6 DEF SkipOf, SkippedOrdinals, CountOf, ShardReplicasCount
<1>8. CountOf(old, x) # 0
  BY <1>7, Counts
<1>9. Lowest(CountOf(old, x) - 1, Skip(old, x) \cup {o})
        = Lowest(CountOf(old, x), Skip(old, x)) \ {o}
  BY <1>1, <1>3, <1>8, LowestWithout
<1> QED BY <1>2, <1>7, <1>9, ReplicasAreLowest

(***************************************************************************)
(* With at most ten shards, a new slot that names an existing replica      *)
(* takes away that replica, and no other one of any shard. (With more the  *)
(* name of one shard is a part of another one's.)                          *)
(***************************************************************************)
THEOREM SlotDeletesOne ==
  ASSUME Shards \subseteq 0..9
  PROVE  Spec => []SlotDeletesItsReplica
<1>1. ASSUME LayoutInv, BoundsInv, SlotsInv, Normalized,
             NEW slot \in spec.slots \ prev.spec.slots,
             \A x \in DOMAIN layout :
               Given(spec, x) = {} /\ InEffect(spec, x) /\ InEffect(prev.spec, x),
             slot.kind = "replica", slot.shard \in DOMAIN layout,
             slot.ordinal \in prev.layout[slot.shard],
             NEW x \in DOMAIN layout
      PROVE  layout[x] = prev.layout[x] \ (IF x = slot.shard THEN {slot.ordinal} ELSE {})
  <2>1. /\ IsSpec(spec) /\ DOMAIN layout = ShardsOf(spec)
        /\ \A y \in DOMAIN layout : layout[y] = ReplicasOf(spec, y)
    BY <1>1 DEF LayoutInv, WalkInv, HasReplicas, Normalized
  <2>2. /\ IsSpec(prev.spec) /\ DOMAIN prev.layout = ShardsOf(prev.spec)
        /\ \A y \in DOMAIN prev.layout : prev.layout[y] = ReplicasOf(prev.spec, y)
        /\ spec.given = prev.spec.given /\ spec.shardsCount = prev.spec.shardsCount
        /\ spec.replicasCount = prev.spec.replicasCount
        /\ spec.slots = prev.spec.slots \cup {slot}
    BY <1>1 DEF SlotsInv, IsLayoutOf, HasReplicas
  <2>3. DOMAIN prev.layout = DOMAIN layout
    BY <2>1, <2>2 DEF ShardsOf, ShardsCount
  <2>4. /\ Given(spec, x) = {} /\ Given(prev.spec, x) = {}
        /\ ReplicasCount(spec) = ReplicasCount(prev.spec)
    BY <1>1, <2>2 DEF Given, ReplicasCount
  <2>5. /\ x \in Shards /\ layout[x] = ReplicasOf(spec, x)
        /\ prev.layout[x] = ReplicasOf(prev.spec, x)
    BY <1>1, <2>1, <2>2, <2>3 DEF BoundsInv
  <2>6. /\ slot.shard = x => Skip(spec, x) = Skip(prev.spec, x) \cup {slot.ordinal}
        /\ slot.shard # x => Skip(spec, x) = Skip(prev.spec, x)
    <3>1. Shards \subseteq 0..9 /\ IsSpec(spec) /\ IsSpec(prev.spec) /\ x \in Shards
          /\ spec.slots = prev.spec.slots \cup {slot} /\ slot.kind = "replica"
      BY <1>1, <2>1, <2>2, <2>5
    <3>2. \A new, old : IsSpec(new) /\ IsSpec(old) /\ new.slots = old.slots \cup {slot} =>
          /\ slot.shard = x => Skip(new, x) = Skip(old, x) \cup {slot.ordinal}
          /\ slot.shard # x => Skip(new, x) = Skip(old, x)
      BY <3>1, NewSlot
    <3> QED BY <3>1, <3>2
  <2>7. CASE slot.shard = x
    BY <1>1, <2>1, <2>2, <2>4, <2>5, <2>6, <2>7, OneLess
  <2>8. CASE slot.shard # x
    <3>1. Skip(spec, x) = Skip(prev.spec, x)
      BY <2>6, <2>8
    <3>2. CountOf(spec, x) = CountOf(prev.spec, x) /\ SkipOf(spec, x) = SkipOf(prev.spec, x)
      BY <2>4, <3>1 DEF CountOf, SkipOf
    <3>3. ReplicasOf(spec, x) = ReplicasOf(prev.spec, x)
      BY <2>1, <2>2, <2>4, <3>2, ReplicasAreLowest
    <3> QED BY <2>5, <2>8, <3>3
  <2> QED BY <2>7, <2>8
<1>2. LayoutInv /\ BoundsInv /\ SlotsInv => SlotDeletesItsReplica
  BY <1>1 DEF SlotDeletesItsReplica
<1> QED BY <1>2, LayoutInvHolds, BoundsHold, SlotsHold, PTL
=============================================================================
