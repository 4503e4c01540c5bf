---------------------------- MODULE PlacesProofs ----------------------------
(***************************************************************************)
(* What At() of a list at some of its places holds: the elements there,    *)
(* all of them, and in the order of the list.                              *)
(***************************************************************************)
EXTENDS Places, FiniteSetTheorems, SequenceTheorems, WellFoundedInduction, TLAPS

\* The places kept are numbered from 1 to the last of them, in order and
\* without a gap.
LEMMA Numbered ==
  ASSUME NEW n \in Nat, NEW kept \in SUBSET (1..n), NEW m, m = Cardinality(kept)
  PROVE  /\ m \in Nat
         /\ \A i \in kept : Rank(i, kept) \in 1..m
         /\ \A i, k \in kept : i < k => Rank(i, kept) < Rank(k, kept)
         /\ \A j \in 1..m : \E i \in kept : Rank(i, kept) = j
<1> DEFINE Upto(i) == {k \in kept : k <= i}
           f == [i \in kept |-> Cardinality(Upto(i))]
<1>1. IsFiniteSet(kept) /\ m \in Nat
  <2>1. IsFiniteSet(1..n)
    BY FS_Interval
  <2>2. IsFiniteSet(kept)
    BY <2>1, FS_Subset
  <2> QED BY <2>2, FS_CardinalityType
<1>2. \A i \in kept : i \in Nat
  OBVIOUS
<1>3. \A i \in kept : IsFiniteSet(Upto(i)) /\ f[i] \in 1..m
  <2> SUFFICES ASSUME NEW i \in kept PROVE IsFiniteSet(Upto(i)) /\ f[i] \in 1..m
    OBVIOUS
  <2>1. IsFiniteSet(Upto(i)) /\ Cardinality(Upto(i)) <= m
    <3>1. Upto(i) \subseteq kept
      BY DEF Upto
    <3> QED BY <1>1, <3>1, FS_Subset
  <2>2. i \in Upto(i)
    BY <1>2
  <2>3. Cardinality(Upto(i)) \in Nat /\ Cardinality(Upto(i)) # 0
    BY <2>1, <2>2, FS_CardinalityType, FS_EmptySet
  <2> QED BY <1>1, <2>1, <2>3
<1>4. \A i, k \in kept : i < k => f[i] < f[k]
  <2> SUFFICES ASSUME NEW i \in kept, NEW k \in kept, i < k PROVE f[i] < f[k]
    OBVIOUS
  <2>1. Upto(i) \subseteq Upto(k) /\ k \in Upto(k) /\ k \notin Upto(i)
    <3>1. i \in Nat /\ k \in Nat /\ k <= k /\ ~(k <= i)
      BY <1>2
    <3>2. \A p \in kept : p <= i => p <= k
      BY <1>2, <3>1
    <3> QED BY <3>1, <3>2
  <2>2. IsFiniteSet(Upto(i)) /\ IsFiniteSet(Upto(k)) /\ f[i] \in Nat /\ f[k] \in Nat
    BY <1>1, <1>3
  <2>3. Cardinality(Upto(i)) <= Cardinality(Upto(k)) /\ Cardinality(Upto(i)) # Cardinality(Upto(k))
    BY <2>1, <2>2, FS_Subset
  <2> QED BY <2>2, <2>3
<1>5. \A j \in 1..m : \E i \in kept : f[i] = j
  <2>1. f \in [kept -> 1..m]
    BY <1>3
  <2>2. \A i, k \in kept : f[i] = f[k] => i = k
    <3> SUFFICES ASSUME NEW i \in kept, NEW k \in kept, i # k PROVE f[i] # f[k]
      OBVIOUS
    <3>1. i < k \/ k < i
      BY <1>2
    <3>2. f[i] \in 1..m /\ f[k] \in 1..m
      BY <1>3
    <3> HIDE DEF f
    <3> QED BY <1>1, <1>4, <3>1, <3>2
  <2> HIDE DEF f
  <2>3. f \in Injection(kept, 1..m)
    BY <2>1, <2>2 DEF Injection, IsInjective
  <2>4. IsFiniteSet(1..m) /\ Cardinality(1..m) = m
    BY <1>1, FS_Interval
  <2>5. f \in Surjection(kept, 1..m)
    BY <1>1, <2>3, <2>4, FS_Injection
  <2> QED BY <2>5 DEF Surjection
<1>6. \A i \in kept : f[i] = Rank(i, kept)
  BY Zenon DEF Rank
<1> HIDE DEF f
<1> QED BY <1>1, <1>3, <1>4, <1>5, <1>6

\* A list holds what is at these places of another, in order: its elements
\* come from the places that nth tells.
Keeps(kept, list, places, nth) ==
  /\ nth \in [1..Len(kept) -> places]
  /\ \A j \in 1..Len(kept) : kept[j] = list[nth[j]]
  /\ \A j, k \in 1..Len(kept) : j < k => nth[j] < nth[k]
  /\ \A i \in places : \E j \in 1..Len(kept) : nth[j] = i

\* That is what At() returns.
LEMMA AtPlaces ==
  ASSUME NEW n \in Nat, NEW kept \in SUBSET (1..n),
         NEW S, NEW list, \A i \in kept : list[i] \in S
  PROVE  At(list, kept) \in Seq(S) /\ \E nth : Keeps(At(list, kept), list, kept, nth)
<1> DEFINE Nth(j) == CHOOSE i \in kept : Rank(i, kept) = j
<1>1. PICK m : m = Cardinality(kept)
  OBVIOUS
<1>2. /\ m \in Nat
      /\ \A i \in kept : Rank(i, kept) \in 1..m
      /\ \A i, k \in kept : i < k => Rank(i, kept) < Rank(k, kept)
      /\ \A j \in 1..m : \E i \in kept : Rank(i, kept) = j
  BY <1>1, Numbered
<1>3. At(list, kept) = [j \in 1..m |-> list[Nth(j)]]
  BY <1>1, Zenon DEF At
<1>4. \A j \in 1..m : Nth(j) \in kept /\ Rank(Nth(j), kept) = j
  BY <1>2
<1> HIDE DEF Nth
<1>5. PICK nth : nth = [j \in 1..m |-> Nth(j)]
  OBVIOUS
<1>6. nth \in [1..m -> kept] /\ \A j \in 1..m : nth[j] = Nth(j) /\ Rank(nth[j], kept) = j
  BY <1>4, <1>5
<1>7. At(list, kept) = [j \in 1..m |-> list[nth[j]]]
  BY <1>3, <1>6
<1>8. /\ At(list, kept) \in Seq(S) /\ Len(At(list, kept)) = m
      /\ \A j \in 1..m : At(list, kept)[j] = list[nth[j]]
  <2>1. \A j \in 1..m : list[nth[j]] \in S
    BY <1>6
  <2>2. ASSUME NEW l, l = [j \in 1..m |-> list[nth[j]]]
        PROVE  l \in Seq(S) /\ Len(l) = m /\ \A j \in 1..m : l[j] = list[nth[j]]
    BY <1>2, <2>1, <2>2
  <2> QED BY <1>7, <2>2, Zenon
<1>9. ASSUME NEW i \in kept, NEW k \in kept, Rank(i, kept) = Rank(k, kept) PROVE i = k
  <2>1. i \in Nat /\ k \in Nat /\ Rank(i, kept) \in Nat
    BY <1>2
  <2>2. ~(i < k) /\ ~(k < i)
    BY <1>2, <1>9, <2>1
  <2> QED BY <2>1, <2>2
<1>10. ASSUME NEW j \in 1..m, NEW k \in 1..m, j < k PROVE nth[j] < nth[k]
  <2>1. nth[j] \in kept /\ nth[k] \in kept /\ Rank(nth[j], kept) = j /\ Rank(nth[k], kept) = k
    BY <1>6
  <2>2. nth[j] \in Nat /\ nth[k] \in Nat
    <3>1. \A i \in kept : i \in Nat
      OBVIOUS
    <3> QED BY <2>1, <3>1
  <2>3. ~(k < j) /\ k # j
    BY <1>2, <1>10
  <2>4. ~(nth[k] < nth[j]) /\ nth[k] # nth[j]
    BY <1>2, <2>1, <2>3
  <2> QED BY <2>2, <2>4
<1>11. ASSUME NEW i \in kept PROVE \E j \in 1..m : nth[j] = i
  <2>1. Rank(i, kept) \in 1..m
    BY <1>2
  <2> QED BY <1>6, <1>9, <2>1
<1>12. Keeps(At(list, kept), list, kept, nth)
  BY <1>6, <1>8, <1>10, <1>11 DEF Keeps
<1> QED BY <1>8, <1>12

\* Each element of the one is at these places of the other, and back.
Draws(kept, list, places) ==
  /\ \A j \in 1..Len(kept) : \E i \in places : kept[j] = list[i]
  /\ \A i \in places : \E j \in 1..Len(kept) : kept[j] = list[i]

\* The order apart, that is what At() returns.
LEMMA AtElements ==
  ASSUME NEW n \in Nat, NEW kept \in SUBSET (1..n),
         NEW S, NEW list, \A i \in kept : list[i] \in S
  PROVE  At(list, kept) \in Seq(S) /\ Draws(At(list, kept), list, kept)
<1>0. PICK at : at = At(list, kept)
  OBVIOUS
<1>1. at \in Seq(S) /\ \E nth : Keeps(At(list, kept), list, kept, nth)
  BY <1>0, AtPlaces
<1>2. PICK nth : Keeps(at, list, kept, nth)
  BY <1>0, <1>1
<1>3. nth \in [1..Len(at) -> kept] /\ \A j \in 1..Len(at) : at[j] = list[nth[j]]
  BY <1>2 DEF Keeps
<1>4. \A i \in kept : \E j \in 1..Len(at) : nth[j] = i
  BY <1>2 DEF Keeps
<1>5. \A j \in 1..Len(at) : nth[j] \in kept
  BY <1>3
<1>6. \A j \in 1..Len(at) : \E i \in kept : at[j] = list[i]
  BY <1>3, <1>5
<1>7. \A i \in kept : \E j \in 1..Len(at) : at[j] = list[i]
  BY <1>3, <1>4
<1> QED BY <1>0, <1>1, <1>6, <1>7 DEF Draws

\* As many as there are places, so no more than the list holds.
LEMMA AtLength ==
  ASSUME NEW n \in Nat, NEW kept \in SUBSET (1..n), NEW list
  PROVE  Len(At(list, kept)) \in Nat /\ Len(At(list, kept)) <= n
<1>1. PICK m : m = Cardinality(kept)
  OBVIOUS
<1>2. m \in Nat /\ m <= n
  <2>1. IsFiniteSet(1..n) /\ Cardinality(1..n) = n
    BY FS_Interval
  <2>2. IsFiniteSet(kept) /\ Cardinality(kept) <= n
    BY <2>1, FS_Subset
  <2> QED BY <1>1, <2>2, FS_CardinalityType
<1> DEFINE nth(j) == CHOOSE i \in kept : Rank(i, kept) = j
<1>3. At(list, kept) = [j \in 1..m |-> list[nth(j)]]
  BY <1>1, Zenon DEF At
<1> HIDE DEF nth
<1>4. Len([j \in 1..m |-> list[nth(j)]]) = m
  BY <1>2
<1> QED BY <1>2, <1>3, <1>4

\* A set of naturals has a least element.
LEMMA HasLeast ==
  ASSUME NEW S \in SUBSET Nat, S # {}
  PROVE  \E x \in S : \A y \in S : x <= y
<1> DEFINE R == {ss \in Nat \X Nat : ss[1] < ss[2]}
<1>1. IsWellFoundedOn(R, Nat)
  BY NatLessThanWellFounded, Zenon DEF OpToRel
<1>2. PICK x \in S : \A y \in S : ~(<<y, x>> \in R)
  BY <1>1, WFMin
<1>3. \A y \in S : x <= y
  <2> SUFFICES ASSUME NEW y \in S PROVE x <= y
    OBVIOUS
  <2>1. x \in Nat /\ y \in Nat
    OBVIOUS
  <2>2. ~(y < x)
    BY <1>2, <2>1
  <2> QED BY <2>1, <2>2
<1> QED BY <1>3

\* Some place of a loop within a loop comes first.
LEMMA FirstPlace ==
  ASSUME NEW P \in SUBSET (Nat \X Nat), P # {}
  PROVE  \E p \in P : \A q \in P : ~Before(q, p)
<1> DEFINE Outer == {p[1] : p \in P}
<1>1. Outer \in SUBSET Nat /\ Outer # {}
  OBVIOUS
<1>2. PICK n \in Outer : \A y \in Outer : n <= y
  BY <1>1, HasLeast
<1> DEFINE Inner == {p[2] : p \in {q \in P : q[1] = n}}
<1>3. Inner \in SUBSET Nat /\ Inner # {}
  OBVIOUS
<1>4. PICK i \in Inner : \A y \in Inner : i <= y
  BY <1>3, HasLeast
<1>5. PICK p \in P : p[1] = n /\ p[2] = i
  OBVIOUS
<1>6. ASSUME NEW q \in P
      PROVE  ~Before(q, p)
  <2>1. q[1] \in Nat /\ q[2] \in Nat /\ n \in Nat /\ i \in Nat
    OBVIOUS
  <2>2. n <= q[1] /\ (q[1] = n => i <= q[2])
    BY <1>2, <1>4
  <2> QED BY <1>5, <2>1, <2>2 DEF Before
<1> QED BY <1>6

\* What the first new ones tell: nothing found at them was found before, and
\* if there are fewer than m, all that was found is among them.
FirstsTell(kept, places, found, m) ==
  /\ kept \subseteq places
  /\ \A p \in kept, q \in places : found[q] = found[p] => ~Before(q, p)
  /\ Cardinality(kept) < m => \A p \in places : \E q \in kept : found[q] = found[p]

\* That is what FirstNew() returns; each is found once.
LEMMA FirstNewTells ==
  ASSUME NEW places \in SUBSET (Nat \X Nat), IsFiniteSet(places), NEW found, NEW m \in Nat
  PROVE  /\ FirstsTell(FirstNew(places, found, m), places, found, m)
         /\ IsFiniteSet(FirstNew(places, found, m))
         /\ \A p, q \in FirstNew(places, found, m) : found[p] = found[q] => p = q
<1> DEFINE new == {p \in places : \A q \in places : Before(q, p) => found[q] # found[p]}
           Upto(p) == {q \in new : Before(q, p)}
           kept == {p \in new : Cardinality(Upto(p)) < m}
<1>1. FirstNew(places, found, m) = kept
  BY DEF FirstNew
<1>2. IsFiniteSet(new) /\ IsFiniteSet(kept)
  BY FS_Subset
<1>3. ASSUME NEW p \in new, NEW q \in new
      PROVE  p = q \/ Before(p, q) \/ Before(q, p)
  <2>1. PICK a \in Nat, b \in Nat : p = <<a, b>>
    OBVIOUS
  <2>2. PICK c \in Nat, d \in Nat : q = <<c, d>>
    OBVIOUS
  <2>3. a < c \/ c < a \/ (a = c /\ (b < d \/ d < b \/ b = d))
    OBVIOUS
  <2> QED BY <2>1, <2>2, <2>3 DEF Before
<1>4. \A p, q \in kept : found[p] = found[q] => p = q
  BY <1>3
<1>5. ASSUME NEW p \in places
      PROVE  \E q \in new : found[q] = found[p]
  <2> DEFINE Same == {q \in places : found[q] = found[p]}
  <2>1. PICK q \in Same : \A o \in Same : ~Before(o, q)
    <3>1. Same \in SUBSET (Nat \X Nat) /\ Same # {}
      OBVIOUS
    <3> QED BY <3>1, FirstPlace
  <2>2. q \in new
    BY <2>1
  <2> QED BY <2>1, <2>2
<1>6. ASSUME Cardinality(kept) < m
      PROVE  new \subseteq kept
  <2> SUFFICES ASSUME new \ kept # {} PROVE FALSE
    OBVIOUS
  <2> DEFINE late == new \ kept
  <2>1. PICK p \in late : \A o \in late : ~Before(o, p)
    <3>1. late \in SUBSET (Nat \X Nat) /\ late # {}
      OBVIOUS
    <3> QED BY <3>1, FirstPlace
  <2>2. Upto(p) \subseteq kept
    BY <2>1
  <2>3. Cardinality(Upto(p)) <= Cardinality(kept)
    BY <1>2, <2>2, FS_Subset
  <2>4. IsFiniteSet(Upto(p)) /\ Cardinality(Upto(p)) \in Nat /\ Cardinality(kept) \in Nat
    BY <1>2, <2>2, FS_Subset, FS_CardinalityType
  <2>5. ~(Cardinality(Upto(p)) < m)
    BY <2>1
  <2> HIDE DEF kept, Upto
  <2> QED BY <1>6, <2>3, <2>4, <2>5
<1>7. \A p \in kept, q \in places : found[q] = found[p] => ~Before(q, p)
  OBVIOUS
<1>8. kept \subseteq places
  OBVIOUS
<1> HIDE DEF kept, new
<1>9. FirstsTell(kept, places, found, m)
  BY <1>5, <1>6, <1>7, <1>8 DEF FirstsTell
<1> QED BY <1>1, <1>2, <1>4, <1>9
\* The greatest of a set of numbers.
Greatest(s) == CHOOSE x \in s : \A y \in s : x >= y

LEMMA GreatestOfFirst ==
  ASSUME NEW n \in Nat, NEW s \in SUBSET (1..n), s # {}
  PROVE  /\ Greatest(s) \in s
         /\ \A y \in s : y <= Greatest(s)
<1> DEFINE Above == {k \in 0..n : \A y \in s : y <= k}
<1>1. n \in Above
  OBVIOUS
<1>2. PICK k \in Above : \A y \in Above : k <= y
  <2>1. Above \in SUBSET Nat /\ Above # {}
    BY <1>1
  <2> QED BY <2>1, HasLeast
<1>3. k \in s
  <2> SUFFICES ASSUME k \notin s PROVE FALSE
    OBVIOUS
  <2>1. k # 0
    <3>1. PICK y \in s : y \in 1..n
      OBVIOUS
    <3> QED BY <3>1
  <2>2. \A y \in s : y <= k - 1
    OBVIOUS
  <2>3. k - 1 \in 0..n
    BY <2>1
  <2>4. k <= k - 1
    BY <1>2, <2>2, <2>3
  <2> QED BY <2>4
<1>4. \E x \in s : \A y \in s : x >= y
  BY <1>3
<1> QED BY <1>4 DEF Greatest

\* A fold takes the elements at the places of a list one after the other: it
\* is a function on sets of places that agrees with itself.
Folds(it, n, first, step) ==
  it = [s \in SUBSET (1..n) |->
          IF s = {} THEN first ELSE step[<<Greatest(s), it[s \ {Greatest(s)}]>>]]

\* There is one whatever the steps are.
LEMMA FoldThereIs ==
  ASSUME NEW n \in Nat, NEW X, NEW first \in X, NEW step \in [(1..n) \X X -> X]
  PROVE  \E it : Folds(it, n, first, step) /\ it \in [SUBSET (1..n) -> X]
<1> DEFINE Upto(k) == \E it : Folds(it, k, first, step) /\ it \in [SUBSET (1..k) -> X]
           Bad == {k \in 0..n : ~Upto(k)}
<1>1. SUFFICES ASSUME Bad # {} PROVE FALSE
  <2>1. n \in 0..n
    OBVIOUS
  <2>2. Upto(n) => \E it : Folds(it, n, first, step) /\ it \in [SUBSET (1..n) -> X]
    OBVIOUS
  <2> HIDE DEF Upto
  <2> QED BY <2>1, <2>2
<1>2. PICK k \in Bad : \A y \in Bad : k <= y
  <2>1. Bad \in SUBSET Nat
    OBVIOUS
  <2> QED BY <1>1, <2>1, HasLeast
<1>3. k # 0
  <2> SUFFICES ASSUME k = 0 PROVE FALSE
    OBVIOUS
  <2> DEFINE it == [s \in SUBSET (1..0) |-> first]
  <2>1. \A s \in SUBSET (1..0) : s = {}
    OBVIOUS
  <2>2. Folds(it, 0, first, step)
    BY <2>1 DEF Folds
  <2>3. it \in [SUBSET (1..0) -> X]
    OBVIOUS
  <2> QED BY <2>2, <2>3
<1>4. k \in 1..n /\ k - 1 \in 0..n /\ k - 1 < k
  BY <1>3
<1>5. PICK small : Folds(small, k - 1, first, step) /\ small \in [SUBSET (1..k - 1) -> X]
  <2>1. Upto(k - 1) => \E it : Folds(it, k - 1, first, step) /\ it \in [SUBSET (1..k - 1) -> X]
    OBVIOUS
  <2> HIDE DEF Upto
  <2>2. k - 1 \notin Bad
    BY <1>2, <1>4
  <2> QED BY <1>4, <2>1, <2>2
<1> DEFINE it == [s \in SUBSET (1..k) |->
                    IF k \in s THEN step[<<k, small[s \ {k}]>>] ELSE small[s]]
<1>6. ASSUME NEW s \in SUBSET (1..k)
      PROVE  /\ k \in s => s \ {k} \in SUBSET (1..k - 1) /\ Greatest(s) = k
             /\ k \notin s => s \in SUBSET (1..k - 1)
  <2>1. \A x \in 1..k : x # k => x \in 1..k - 1
    BY <1>4
  <2>2. ASSUME k \in s PROVE Greatest(s) = k
    <3>1. k \in Nat /\ s # {}
      BY <1>4, <2>2
    <3>2. Greatest(s) \in s /\ k <= Greatest(s)
      BY <2>2, <3>1, GreatestOfFirst
    <3>3. Greatest(s) \in 1..k
      BY <3>2
    <3> QED BY <3>1, <3>2, <3>3
  <2> QED BY <2>1, <2>2
<1>7. it \in [SUBSET (1..k) -> X]
  <2> SUFFICES ASSUME NEW s \in SUBSET (1..k) PROVE it[s] \in X
    OBVIOUS
  <2> QED BY <1>4, <1>5, <1>6
<1>8. \A s \in SUBSET (1..k - 1) : s \in SUBSET (1..k) /\ it[s] = small[s]
  <2> SUFFICES ASSUME NEW s \in SUBSET (1..k - 1) PROVE s \in SUBSET (1..k) /\ k \notin s
    OBVIOUS
  <2> QED BY <1>4
<1>9. ASSUME NEW s \in SUBSET (1..k)
      PROVE  it[s] = IF s = {} THEN first ELSE step[<<Greatest(s), it[s \ {Greatest(s)}]>>]
  <2>1. CASE k \in s
    <3>1. Greatest(s) = k /\ s \ {k} \in SUBSET (1..k - 1) /\ s # {}
      BY <1>6, <2>1
    <3>2. it[s \ {k}] = small[s \ {k}]
      BY <1>8, <3>1
    <3>3. it[s] = step[<<k, small[s \ {k}]>>]
      BY <2>1
    <3> HIDE DEF it
    <3> QED BY <3>1, <3>2, <3>3
  <2>2. CASE k \notin s
    <3>1. s \in SUBSET (1..k - 1) /\ it[s] = small[s]
      BY <1>6, <2>2
    <3>2. small[s] = IF s = {} THEN first ELSE step[<<Greatest(s), small[s \ {Greatest(s)}]>>]
      BY <1>5, <3>1 DEF Folds
    <3>3. s \ {Greatest(s)} \in SUBSET (1..k - 1)
      BY <3>1
    <3>4. it[s \ {Greatest(s)}] = small[s \ {Greatest(s)}]
      BY <1>8, <3>3
    <3> HIDE DEF it
    <3> QED BY <3>1, <3>2, <3>4
  <2> QED BY <2>1, <2>2
<1>10. Folds(it, k, first, step)
  <2>1. it = [s \in SUBSET (1..k) |-> it[s]]
    OBVIOUS
  <2> HIDE DEF it
  <2> QED BY <1>9, <2>1 DEF Folds
<1> QED BY <1>2, <1>7, <1>10

\* What a fold begins with and every step of it keeps, it ends with.
LEMMA FoldKeeps ==
  ASSUME NEW n \in Nat, NEW X, NEW it, it[{}] \in X,
         \A s \in SUBSET (1..n) : s # {} /\ it[s \ {Greatest(s)}] \in X => it[s] \in X
  PROVE  it[1..n] \in X
<1> DEFINE Bad == {k \in 0..n : it[1..k] \notin X}
<1>1. SUFFICES ASSUME Bad # {} PROVE FALSE
  <2>1. n \in 0..n
    OBVIOUS
  <2> QED BY <2>1
<1>2. PICK k \in Bad : \A y \in Bad : k <= y
  <2>1. Bad \in SUBSET Nat
    OBVIOUS
  <2> QED BY <1>1, <2>1, HasLeast
<1>3. k # 0
  <2>1. 1..0 = {}
    OBVIOUS
  <2> QED BY <2>1
<1>4. k \in 1..n /\ k - 1 \in 0..n /\ k - 1 < k
  BY <1>3
<1>5. k - 1 \notin Bad
  BY <1>2, <1>4
<1>6. it[1..k - 1] \in X
  BY <1>4, <1>5
<1>7. 1..k \in SUBSET (1..n) /\ 1..k # {} /\ (1..k) \ {k} = 1..k - 1
  BY <1>4
<1>8. Greatest(1..k) = k
  <2>1. k \in Nat /\ 1..k \in SUBSET (1..k) /\ k \in 1..k
    BY <1>4
  <2>2. Greatest(1..k) \in 1..k /\ k <= Greatest(1..k)
    BY <1>7, <2>1, GreatestOfFirst
  <2>3. Greatest(1..k) \in Nat
    BY <2>2
  <2> QED BY <1>4, <2>2, <2>3
<1>9. it[1..k] \in X
  BY <1>6, <1>7, <1>8
<1> QED BY <1>9

-----------------------------------------------------------------------------
(* Paths.                                                                  *)

\* A path along R, through N.
IsPath(p, R, N) ==
  /\ p \in Seq(N) /\ Len(p) > 0
  /\ \A i \in 1..Len(p) - 1 : <<p[i], p[i + 1]>> \in R

\* No two of the first n are the same.
NoneTwice(p, n) == \A i, j \in 1..n : p[i] = p[j] => i = j

\* A path from one of S to b.
Leads(S, b, R, N) == \E p : IsPath(p, R, N) /\ p[1] \in S /\ p[Len(p)] = b

\* A path without the round from its i-th node to its j-th, which is the same.
Shortcut(p, i, j) == [k \in 1..Len(p) - (j - i) |-> IF k <= i THEN p[k] ELSE p[k + (j - i)]]

LEMMA ShortcutIsPath ==
  ASSUME NEW N, NEW R, NEW p, IsPath(p, R, N),
         NEW i \in 1..Len(p), NEW j \in 1..Len(p), i < j, p[i] = p[j]
  PROVE  LET q == Shortcut(p, i, j)
         IN  /\ IsPath(q, R, N) /\ Len(q) < Len(p)
             /\ q[1] = p[1] /\ q[Len(q)] = p[Len(p)]
<1> DEFINE d == j - i
           n == Len(p) - d
           q == Shortcut(p, i, j)
<1>1. p \in Seq(N) /\ Len(p) \in Nat /\ \A k \in 1..Len(p) : p[k] \in N
  BY DEF IsPath
<1>2. d \in Nat /\ d > 0 /\ n \in Nat /\ n >= i /\ n < Len(p)
  BY <1>1
<1>3. q = [k \in 1..n |-> IF k <= i THEN p[k] ELSE p[k + d]]
  BY DEF Shortcut
<1> HIDE DEF q
<1>4. \A k \in 1..n : (k <= i => k \in 1..Len(p)) /\ (~(k <= i) => k + d \in 1..Len(p))
  BY <1>1, <1>2
<1> HIDE DEF n
<1>5. q \in [1..n -> N]
  BY <1>1, <1>3, <1>4
<1>6. q \in Seq(N) /\ Len(q) = n
  BY <1>2, <1>5
<1>7. \A k \in 1..n : k <= i => q[k] = p[k]
  BY <1>3
<1>8. \A k \in 1..n : k >= i => q[k] = p[k + d]
  BY <1>2, <1>3 DEF d
<1>9. ASSUME NEW k \in 1..n - 1 PROVE <<q[k], q[k + 1]>> \in R
  <2>1. k \in 1..n /\ k + 1 \in 1..n
    BY <1>2
  <2>2. CASE k < i
    <3>1. q[k] = p[k] /\ q[k + 1] = p[k + 1] /\ k \in 1..Len(p) - 1
      BY <1>1, <1>2, <1>7, <2>1, <2>2
    <3> QED BY <3>1 DEF IsPath
  <2>3. CASE k >= i
    <3>1. q[k] = p[k + d] /\ q[k + 1] = p[(k + 1) + d]
      BY <1>8, <2>1, <2>3
    <3>2. k + d \in 1..Len(p) - 1 /\ (k + 1) + d = (k + d) + 1
      BY <1>1, <1>2, <2>3 DEF n
    <3> QED BY <3>1, <3>2 DEF IsPath
  <2> QED BY <2>1, <2>2, <2>3
<1>10. q[1] = p[1]
  BY <1>2, <1>7
<1>11. q[n] = p[Len(p)]
  <2>1. n \in 1..n /\ n + d = Len(p)
    BY <1>1, <1>2 DEF n
  <2> QED BY <1>2, <1>8, <2>1
<1>12. IsPath(q, R, N)
  BY <1>2, <1>6, <1>9 DEF IsPath
<1> QED BY <1>2, <1>6, <1>10, <1>11, <1>12 DEF q

\* There are at most as many different ones as there are.
LEMMA DifferBound ==
  ASSUME NEW N, IsFiniteSet(N), NEW p \in Seq(N), NoneTwice(p, Len(p))
  PROVE  Len(p) <= Cardinality(N)
<1> DEFINE n == Len(p)
<1>1. n \in Nat /\ p \in [1..n -> N]
  OBVIOUS
<1>2. IsFiniteSet(1..n) /\ Cardinality(1..n) = n
  BY <1>1, FS_Interval
<1>3. Cardinality(N) \in Nat
  BY FS_CardinalityType
<1>4. SUFFICES ASSUME Cardinality(N) < Cardinality(1..n) PROVE FALSE
  BY <1>1, <1>2, <1>3
<1>5. \E x, y \in 1..n : x # y /\ p[x] = p[y]
  BY <1>1, <1>2, <1>4, FS_PigeonHole
<1> QED BY <1>5 DEF NoneTwice

\* What a path leads to, one leads to that meets no node twice, and is therefore
\* not longer than there are nodes.
LEMMA SimplePath ==
  ASSUME NEW N, IsFiniteSet(N), NEW R, NEW S, NEW b, Leads(S, b, R, N)
  PROVE  \E p : /\ IsPath(p, R, N) /\ p[1] \in S /\ p[Len(p)] = b
                /\ NoneTwice(p, Len(p)) /\ Len(p) <= Cardinality(N)
<1> DEFINE Good(p) == IsPath(p, R, N) /\ p[1] \in S /\ p[Len(p)] = b
           Lengths == {n \in Nat : \E p : Good(p) /\ Len(p) = n}
<1>1. Lengths # {} /\ Lengths \in SUBSET Nat
  <2>1. PICK p : Good(p)
    BY DEF Leads
  <2>2. Len(p) \in Nat
    BY <2>1 DEF IsPath
  <2> QED BY <2>1, <2>2
<1>2. PICK n \in Lengths : \A m \in Lengths : n <= m
  BY <1>1, HasLeast
<1>3. PICK p : Good(p) /\ Len(p) = n
  BY <1>2
<1>4. ASSUME NEW i \in 1..Len(p), NEW j \in 1..Len(p), i < j, p[i] = p[j] PROVE FALSE
  <2> DEFINE q == Shortcut(p, i, j)
  <2>1. IsPath(q, R, N) /\ Len(q) < Len(p) /\ q[1] = p[1] /\ q[Len(q)] = p[Len(p)]
    BY <1>3, <1>4, ShortcutIsPath
  <2> HIDE DEF q
  <2>2. Len(q) \in Nat
    BY <2>1 DEF IsPath
  <2>3. Len(q) \in Lengths
    BY <1>3, <2>1, <2>2
  <2> QED BY <1>2, <1>3, <2>1, <2>2, <2>3
<1>5. p \in Seq(N) /\ n \in Nat /\ p \in [1..n -> N]
  BY <1>3 DEF IsPath
<1>6. NoneTwice(p, Len(p))
  <2> SUFFICES ASSUME NEW i \in 1..n, NEW j \in 1..n, p[i] = p[j], i # j PROVE FALSE
    BY <1>3 DEF NoneTwice
  <2>1. i < j \/ j < i
    BY <1>5
  <2> QED BY <1>3, <1>4, <2>1
<1>7. n <= Cardinality(N)
  BY <1>3, <1>5, <1>6, DifferBound
<1> QED BY <1>3, <1>6, <1>7

\* A path and a step more.
LEMMA PathAndStep ==
  ASSUME NEW N, NEW R, NEW b \in N, NEW p, IsPath(p, R, N), <<p[Len(p)], b>> \in R
  PROVE  LET q == Append(p, b)
         IN  IsPath(q, R, N) /\ q[1] = p[1] /\ q[Len(q)] = b /\ Len(q) = Len(p) + 1
<1> DEFINE q == Append(p, b)
           n == Len(p)
<1>1. p \in Seq(N) /\ n \in Nat /\ n > 0
  BY DEF IsPath
<1>2. q \in Seq(N) /\ Len(q) = n + 1 /\ q[n + 1] = b /\ \A i \in 1..n : q[i] = p[i]
  BY <1>1
<1> HIDE DEF q
<1>3. ASSUME NEW i \in 1..n PROVE <<q[i], q[i + 1]>> \in R
  <2>1. CASE i = n
    BY <1>1, <1>2, <2>1
  <2>2. CASE i # n
    <3>1. i \in 1..n - 1 /\ i + 1 \in 1..n
      BY <1>1, <2>2
    <3> QED BY <1>2, <3>1 DEF IsPath
  <2> QED BY <2>1, <2>2
<1>4. IsPath(q, R, N)
  BY <1>1, <1>2, <1>3 DEF IsPath
<1>5. q[1] = p[1]
  BY <1>1, <1>2
<1> QED BY <1>2, <1>4, <1>5 DEF q

\* A part of a path is a path.
LEMMA PartOfPath ==
  ASSUME NEW N, NEW R, NEW p, IsPath(p, R, N),
         NEW i \in 1..Len(p), NEW j \in 1..Len(p), i <= j
  PROVE  \E q : /\ IsPath(q, R, N) /\ q[1] = p[i] /\ q[Len(q)] = p[j] /\ Len(q) = j - i + 1
               /\ \A k \in 1..Len(q) : q[k] = p[k + i - 1]
<1> DEFINE q == SubSeq(p, i, j)
           n == j - i + 1
<1>1. p \in Seq(N) /\ Len(p) \in Nat
  BY DEF IsPath
<1>2. n \in Nat /\ n > 0
  OBVIOUS
<1>3. q \in Seq(N) /\ Len(q) = n /\ \A k \in 1..n : q[k] = p[k + i - 1]
  BY <1>1
<1> HIDE DEF q
<1>4. ASSUME NEW k \in 1..n - 1 PROVE <<q[k], q[k + 1]>> \in R
  <2>1. k \in 1..n /\ k + 1 \in 1..n
    BY <1>2
  <2>2. q[k] = p[k + i - 1] /\ q[k + 1] = p[(k + 1) + i - 1]
    BY <1>3, <2>1
  <2>3. k + i - 1 \in 1..Len(p) - 1 /\ (k + 1) + i - 1 = (k + i - 1) + 1
    BY <1>1
  <2> QED BY <2>2, <2>3 DEF IsPath
<1>5. IsPath(q, R, N)
  BY <1>2, <1>3, <1>4 DEF IsPath
<1>6. q[1] = p[i] /\ q[n] = p[j]
  BY <1>2, <1>3
<1> QED BY <1>3, <1>5, <1>6

\* How a path begins, and what is left of it after a step.
LEMMA BeginningOfPath ==
  ASSUME NEW N, NEW R, NEW p, IsPath(p, R, N), NEW m \in 1..Len(p)
  PROVE  \E q : /\ IsPath(q, R, N) /\ q[1] = p[1] /\ q[Len(q)] = p[m] /\ Len(q) = m
               /\ \A k \in 1..m : q[k] = p[k]
<1>1. Len(p) \in Nat
  BY DEF IsPath
<1>2. 1 \in 1..Len(p) /\ 1 <= m
  BY <1>1
<1>3. PICK q : /\ IsPath(q, R, N) /\ q[1] = p[1] /\ q[Len(q)] = p[m] /\ Len(q) = m - 1 + 1
               /\ \A k \in 1..Len(q) : q[k] = p[k + 1 - 1]
  BY <1>2, PartOfPath
<1>4. Len(q) = m
  BY <1>3
<1>5. \A k \in 1..m : k + 1 - 1 = k
  OBVIOUS
<1>6. \A k \in 1..m : q[k] = p[k]
  BY <1>3, <1>4, <1>5
<1> QED BY <1>3, <1>4, <1>6

LEMMA RestOfPath ==
  ASSUME NEW N, NEW R, NEW p, IsPath(p, R, N), NEW j \in 1..Len(p) - 1
  PROVE  \E q : IsPath(q, R, N) /\ q[1] = p[j + 1] /\ q[Len(q)] = p[Len(p)]
<1>1. Len(p) \in Nat
  BY DEF IsPath
<1>2. PICK i : i = j + 1
  OBVIOUS
<1>3. i \in 1..Len(p) /\ Len(p) \in 1..Len(p) /\ i <= Len(p)
  BY <1>1, <1>2
<1>4. \E q : IsPath(q, R, N) /\ q[1] = p[i] /\ q[Len(q)] = p[Len(p)]
  <2>1. \A f \in 1..Len(p), l \in 1..Len(p) : f <= l =>
          \E q : IsPath(q, R, N) /\ q[1] = p[f] /\ q[Len(q)] = p[l]
    BY PartOfPath
  <2> QED BY ONLY <1>3, <2>1, Zenon
<1> QED BY <1>2, <1>4

\* A path after a path.
LEMMA PathAfterPath ==
  ASSUME NEW N, NEW R, NEW p, NEW q, IsPath(p, R, N), IsPath(q, R, N), <<p[Len(p)], q[1]>> \in R
  PROVE  \E r : /\ IsPath(r, R, N) /\ Len(r) = Len(p) + Len(q) /\ r[1] = p[1]
               /\ r[Len(p)] = p[Len(p)] /\ r[Len(r)] = q[Len(q)]
<1> DEFINE r == p \o q
           n == Len(p)
           m == Len(q)
<1>1. p \in Seq(N) /\ q \in Seq(N) /\ n \in Nat /\ m \in Nat /\ n > 0 /\ m > 0
  BY DEF IsPath
<1>2. /\ r \in Seq(N) /\ Len(r) = n + m
      /\ (\A i \in 1..n : r[i] = p[i]) /\ \A i \in 1..m : r[n + i] = q[i]
  BY <1>1
<1> HIDE DEF r
<1>3. ASSUME NEW i \in 1..n + m - 1 PROVE <<r[i], r[i + 1]>> \in R
  <2>1. CASE i < n
    <3>1. i \in 1..n - 1 /\ i \in 1..n /\ i + 1 \in 1..n
      BY <1>1, <2>1
    <3> QED BY <1>2, <3>1 DEF IsPath
  <2>2. CASE i = n
    <3>1. n \in 1..n /\ 1 \in 1..m
      BY <1>1
    <3> QED BY <1>2, <2>2, <3>1
  <2>3. CASE i > n
    <3>1. i - n \in 1..m - 1 /\ i - n \in 1..m /\ (i - n) + 1 \in 1..m
      BY <1>1, <2>3
    <3>2. i = n + (i - n) /\ i + 1 = n + ((i - n) + 1)
      BY <1>1
    <3>3. r[n + (i - n)] = q[i - n] /\ r[n + ((i - n) + 1)] = q[(i - n) + 1]
      <4> HIDE DEF n, m
      <4> QED BY <1>2, <3>1
    <3>4. r[i] = q[i - n] /\ r[i + 1] = q[(i - n) + 1]
      BY <3>2, <3>3, Zenon
    <3> QED BY <3>1, <3>4 DEF IsPath
  <2>4. i < n \/ i = n \/ i > n
    <3> HIDE DEF n, m
    <3> QED BY <1>1
  <2> QED BY <2>1, <2>2, <2>3, <2>4
<1>4. IsPath(r, R, N)
  BY <1>1, <1>2, <1>3 DEF IsPath
<1>5. r[1] = p[1] /\ r[n] = p[n] /\ r[n + m] = q[m]
  <2>1. 1 \in 1..n /\ n \in 1..n /\ m \in 1..m
    BY <1>1
  <2> HIDE DEF n, m
  <2> QED BY <1>2, <2>1
<1> QED BY <1>2, <1>4, <1>5

=============================================================================
