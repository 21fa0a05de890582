---------------------------- MODULE PositionProofs ----------------------------
(* Facts about lists of positions that the proofs of several components share. *)
EXTENDS Positions, Integers, FiniteSetsExt, SequenceTheorems, FiniteSetTheorems, FunctionTheorems, TLAPS

-------------------------------------------------------------------------------
(* The k-th position of a set *)

\* How many members of S are smaller than i.
CountBelow(S, i) == Cardinality({j \in S : j < i})

\* The rank of a member grows with it, and no two have the same.
LEMMA IntRankRises ==
    ASSUME NEW S \in SUBSET Int, IsFiniteSet(S)
    PROVE  /\ \A i \in S : CountBelow(S, i) \in Nat /\ CountBelow(S, i) < Cardinality(S)
           /\ \A i, j \in S : i < j => CountBelow(S, i) < CountBelow(S, j)
           /\ \A i, j \in S : CountBelow(S, i) = CountBelow(S, j) => i = j
<1>1. \A i \in S : IsFiniteSet({j \in S : j < i}) /\ CountBelow(S, i) \in Nat
  <2> TAKE i \in S
  <2> {j \in S : j < i} \in SUBSET S
    OBVIOUS
  <2> QED
    BY FS_Subset, FS_CardinalityType DEF CountBelow
<1>2. ASSUME NEW i \in S, NEW T \in SUBSET S, i \notin T, IsFiniteSet(T)
      PROVE  IsFiniteSet(T \cup {i}) /\ Cardinality(T \cup {i}) = Cardinality(T) + 1
  BY <1>2, FS_AddElement
<1>3. ASSUME NEW i \in S
      PROVE  CountBelow(S, i) < Cardinality(S)
  <2> DEFINE T == {j \in S : j < i}
  <2>1. i \notin T /\ T \in SUBSET S /\ IsFiniteSet(T) /\ T \cup {i} \in SUBSET S
    BY <1>1
  <2>2. Cardinality(T \cup {i}) = Cardinality(T) + 1
    BY <1>2, <2>1
  <2>3. Cardinality(T \cup {i}) <= Cardinality(S)
    BY <2>1, FS_Subset
  <2> QED
    BY <1>1, <2>2, <2>3, FS_CardinalityType DEF CountBelow
<1>4. ASSUME NEW i \in S, NEW j \in S, i < j
      PROVE  CountBelow(S, i) < CountBelow(S, j)
  <2> DEFINE T == {x \in S : x < i}
             U == {x \in S : x < j}
  <2>0. \A x \in S : x \in Int
    OBVIOUS
  <2>1. i \notin T /\ T \in SUBSET S /\ IsFiniteSet(T) /\ T \cup {i} \in SUBSET U /\ IsFiniteSet(U)
    <3>1. IsFiniteSet(T) /\ IsFiniteSet(U)
      BY <1>1
    <3>2. i \in U
      BY <1>4
    <3>3. i \in Int /\ ~ (i < i)
      BY <2>0
    <3>4. ASSUME NEW x \in S, x < i PROVE x < j
      <4>1. x \in Int /\ i \in Int /\ j \in Int
        BY <2>0
      <4> QED
        BY <1>4, <3>4, <4>1
    <3> QED
      BY <3>1, <3>2, <3>3, <3>4
  <2>2. Cardinality(T \cup {i}) = Cardinality(T) + 1
    BY <1>2, <2>1
  <2>3. Cardinality(T \cup {i}) <= Cardinality(U)
    BY <2>1, FS_Subset
  <2>4. CountBelow(S, i) = Cardinality(T) /\ CountBelow(S, j) = Cardinality(U)
    BY DEF CountBelow
  <2>5. CountBelow(S, i) \in Nat /\ CountBelow(S, j) \in Nat
    BY <1>1
  <2> HIDE DEF T, U
  <2> QED
    BY <2>2, <2>3, <2>4, <2>5
<1>5. ASSUME NEW i \in S, NEW j \in S, CountBelow(S, i) = CountBelow(S, j)
      PROVE  i = j
  <2>1. i \in Int /\ j \in Int /\ CountBelow(S, i) \in Nat
    BY <1>1
  <2>2. ~ (i < j) /\ ~ (j < i)
    BY <1>4, <1>5, <2>1
  <2> QED
    BY <2>1, <2>2
<1> QED
  BY <1>1, <1>3, <1>4, <1>5

LEMMA RankRises ==
    ASSUME NEW S \in SUBSET Nat, IsFiniteSet(S)
    PROVE  /\ \A i \in S : CountBelow(S, i) \in Nat /\ CountBelow(S, i) < Cardinality(S)
           /\ \A i, j \in S : i < j => CountBelow(S, i) < CountBelow(S, j)
           /\ \A i, j \in S : CountBelow(S, i) = CountBelow(S, j) => i = j
  BY IntRankRises

\* Nth lists the members of a finite set of positions, each once and in order.
LEMMA IntNthLists ==
    ASSUME NEW S \in SUBSET Int, IsFiniteSet(S)
    PROVE  /\ Cardinality(S) \in Nat
           /\ \A k \in 1..Cardinality(S) : Nth(S, k) \in S /\ CountBelow(S, Nth(S, k)) = k - 1
           /\ \A i \in S : CountBelow(S, i) + 1 \in 1..Cardinality(S) /\ Nth(S, CountBelow(S, i) + 1) = i
           /\ \A k, l \in 1..Cardinality(S) : k < l => Nth(S, k) < Nth(S, l)
<1> DEFINE n == Cardinality(S)
           r == [i \in S |-> CountBelow(S, i)]
<1>1. n \in Nat
  BY FS_CardinalityType
<1>2. r \in Injection(S, 0..(n - 1))
  <2>1. \A i \in S : r[i] \in 0..(n - 1)
    BY <1>1, IntRankRises
  <2>2. \A i, j \in S : r[i] = r[j] => i = j
    BY IntRankRises
  <2> QED
    BY <2>1, <2>2 DEF Injection, IsInjective
<1>3. IsFiniteSet(0..(n - 1)) /\ Cardinality(0..(n - 1)) = n
  <2> HIDE DEF n
  <2>1. 0 \in Int /\ n - 1 \in Int /\ (IF 0 > n - 1 THEN 0 ELSE n - 1 - 0 + 1) = n
    BY <1>1
  <2> QED
    BY <2>1, FS_Interval
<1>4. r \in Surjection(S, 0..(n - 1))
  BY <1>2, <1>3, FS_Injection
<1>5. ASSUME NEW k \in 1..n
      PROVE  Nth(S, k) \in S /\ CountBelow(S, Nth(S, k)) = k - 1
  <2>1. k - 1 \in 0..(n - 1)
    BY <1>1
  <2>2. PICK i \in S : r[i] = k - 1
    BY <1>4, <2>1 DEF Surjection
  <2>3. Cardinality({j \in S : j < i}) = k - 1
    BY <2>2 DEF CountBelow
  <2> QED
    BY <2>3 DEF Nth, CountBelow
<1>6. ASSUME NEW i \in S
      PROVE  CountBelow(S, i) + 1 \in 1..n /\ Nth(S, CountBelow(S, i) + 1) = i
  <2>1. CountBelow(S, i) \in Nat /\ CountBelow(S, i) < n
    BY IntRankRises
  <2>2. CountBelow(S, i) + 1 \in 1..n /\ CountBelow(S, i) + 1 - 1 = CountBelow(S, i)
    BY <1>1, <2>1
  <2>3. Nth(S, CountBelow(S, i) + 1) \in S /\ CountBelow(S, Nth(S, CountBelow(S, i) + 1)) = CountBelow(S, i)
    <3> DEFINE k == CountBelow(S, i) + 1
    <3>1. k \in 1..n /\ k - 1 = CountBelow(S, i)
      BY <2>1, <2>2
    <3> HIDE DEF k
    <3>2. Nth(S, k) \in S /\ CountBelow(S, Nth(S, k)) = k - 1
      BY <1>5, <3>1
    <3>3. Nth(S, k) \in S /\ CountBelow(S, Nth(S, k)) = CountBelow(S, i)
      BY <3>1, <3>2
    <3> QED
      BY <3>3 DEF k
  <2>4. \A x, y \in S : CountBelow(S, x) = CountBelow(S, y) => x = y
    BY IntRankRises
  <2> QED
    BY <2>2, <2>3, <2>4
<1>7. ASSUME NEW k \in 1..n, NEW l \in 1..n, k < l
      PROVE  Nth(S, k) < Nth(S, l)
  <2>1. /\ Nth(S, k) \in S /\ CountBelow(S, Nth(S, k)) = k - 1
        /\ Nth(S, l) \in S /\ CountBelow(S, Nth(S, l)) = l - 1
    BY <1>5
  <2>0. \A x, y \in S : x < y => CountBelow(S, x) < CountBelow(S, y)
    BY IntRankRises
  <2>2. Nth(S, k) # Nth(S, l) /\ ~ (Nth(S, l) < Nth(S, k))
    <3>1. k \in Nat /\ l \in Nat /\ ~ (l - 1 < k - 1) /\ l - 1 # k - 1
      BY <1>1, <1>7
    <3> QED
      BY <2>0, <2>1, <3>1
  <2>3. Nth(S, k) \in Int /\ Nth(S, l) \in Int
    BY <2>1
  <2> QED
    BY <2>2, <2>3
<1> QED
  BY <1>1, <1>5, <1>6, <1>7

LEMMA NthLists ==
    ASSUME NEW S \in SUBSET Nat, IsFiniteSet(S)
    PROVE  /\ Cardinality(S) \in Nat
           /\ \A k \in 1..Cardinality(S) : Nth(S, k) \in S /\ CountBelow(S, Nth(S, k)) = k - 1
           /\ \A i \in S : CountBelow(S, i) + 1 \in 1..Cardinality(S) /\ Nth(S, CountBelow(S, i) + 1) = i
           /\ \A k, l \in 1..Cardinality(S) : k < l => Nth(S, k) < Nth(S, l)
  BY IntNthLists

\* It is the only such list.
LEMMA NthUnique ==
    ASSUME NEW n \in Nat, NEW S \in SUBSET Nat, NEW g \in [1..n -> S],
           \A k, l \in 1..n : k < l => g[k] < g[l],
           \A i \in S : \E k \in 1..n : g[k] = i
    PROVE  IsFiniteSet(S) /\ Cardinality(S) = n /\ \A k \in 1..n : Nth(S, k) = g[k]
<1>1. ASSUME NEW k \in 1..n, NEW l \in 1..n, g[k] = g[l]
      PROVE  k = l
  <2>1. g[k] \in Nat /\ g[l] \in Nat
    OBVIOUS
  <2>2. ~ (k < l) /\ ~ (l < k)
    BY <1>1, <2>1
  <2> QED
    BY <2>2
<1>2. g \in Bijection(1..n, S)
  BY <1>1 DEF Bijection, Injection, Surjection, IsInjective
<1>3. IsFiniteSet(S) /\ Cardinality(S) = n
  BY <1>2, FS_NatBijection, FS_CountingElements DEF ExistsBijection
<1>4. ASSUME NEW k \in 1..n
      PROVE  CountBelow(S, g[k]) = k - 1
  <2> DEFINE T == {i \in S : i < g[k]}
             h == [l \in 1..(k - 1) |-> g[l]]
  <2>1. \A l \in 1..(k - 1) : l \in 1..n /\ g[l] < g[k] /\ g[l] \in S
    BY SMT
  <2>2. h \in [1..(k - 1) -> T]
    BY <2>1
  <2>3. ASSUME NEW i \in T
        PROVE  \E l \in 1..(k - 1) : h[l] = i
    <3>1. PICK l \in 1..n : g[l] = i
      BY <2>3
    <3>2. l < k
      <4>1. g[l] < g[k] /\ g[l] \in Nat /\ g[k] \in Nat
        BY <2>3, <3>1
      <4>2. ~ (k < l) /\ k # l
        BY <4>1
      <4> QED
        BY <4>2
    <3> QED
      BY <3>1, <3>2
  <2>4. \A l, m \in 1..(k - 1) : h[l] = h[m] => l = m
    BY <1>1
  <2>5. h \in Bijection(1..(k - 1), T)
    BY <2>2, <2>3, <2>4 DEF Bijection, Injection, Surjection, IsInjective
  <2>6. k - 1 \in Nat
    OBVIOUS
  <2>7. Cardinality(T) = k - 1
    BY <2>5, <2>6, FS_CountingElements DEF ExistsBijection
  <2> QED
    BY <2>7 DEF CountBelow
<1>5. ASSUME NEW k \in 1..n
      PROVE  Nth(S, k) = g[k]
  <2>1. k \in 1..Cardinality(S)
    BY <1>3
  <2>2. Nth(S, k) \in S /\ CountBelow(S, Nth(S, k)) = k - 1
    BY <1>3, <2>1, NthLists
  <2>3. g[k] \in S /\ CountBelow(S, g[k]) = k - 1
    BY <1>4
  <2>4. \A x, y \in S : CountBelow(S, x) = CountBelow(S, y) => x = y
    BY <1>3, RankRises
  <2> QED
    BY <2>2, <2>3, <2>4
<1> QED
  BY <1>3, <1>5

\* InOrder lists the members of a finite set of numbers, each of them once, the
\* largest at the end.
LEMMA InOrderSorts ==
    ASSUME NEW S \in SUBSET Nat, IsFiniteSet(S)
    PROVE  /\ Cardinality(S) \in Nat
           /\ InOrder(S) \in [1..Cardinality(S) -> S]
           /\ \A k, l \in 1..Cardinality(S) : k < l => InOrder(S)[k] < InOrder(S)[l]
           /\ \A x \in S : \E k \in 1..Cardinality(S) : InOrder(S)[k] = x
           /\ S # {} => /\ Cardinality(S) # 0
                        /\ \A x \in S : x <= InOrder(S)[Cardinality(S)]
<1> DEFINE n == Cardinality(S)
           f == InOrder(S)
<1>1. /\ n \in Nat
      /\ f \in [1..n -> S]
      /\ \A k, l \in 1..n : k < l => f[k] < f[l]
      /\ \A x \in S : \E k \in 1..n : f[k] = x
  BY NthLists DEF InOrder
<1>2. ASSUME S # {}
      PROVE  n # 0 /\ \A x \in S : x <= f[n]
  <2>1. n # 0
    BY <1>2, FS_EmptySet
  <2> HIDE DEF n, f
  <2>2. ASSUME NEW x \in S
        PROVE  x <= f[n]
    <3>1. PICK k \in 1..n : f[k] = x
      BY <1>1
    <3>2. n \in 1..n /\ f[n] \in Nat /\ x \in Nat
      <4>1. n \in 1..n
        BY <1>1, <2>1
      <4>2. f[n] \in S
        BY <1>1, <4>1
      <4> QED
        BY <4>1, <4>2
    <3>3. k < n => f[k] < f[n]
      BY <1>1, <3>2
    <3> QED
      BY <3>1, <3>2, <3>3
  <2> QED
    BY <2>1, <2>2
<1> QED
  BY <1>1, <1>2

\* A nonempty finite set of numbers has a least one.
LEMMA IntMinIsLeast ==
    ASSUME NEW S \in SUBSET Int, IsFiniteSet(S), S # {}
    PROVE  Min(S) \in S /\ \A i \in S : Min(S) <= i
<1>1. 1 \in 1..Cardinality(S)
  <2>1. Cardinality(S) \in Nat /\ Cardinality(S) # 0
    BY FS_CardinalityType, FS_EmptySet
  <2> QED
    BY <2>1
<1>2. Nth(S, 1) \in S
  BY <1>1, IntNthLists
<1>3. ASSUME NEW i \in S
      PROVE  Nth(S, 1) <= i
  <2>1. PICK k \in 1..Cardinality(S) : Nth(S, k) = i
    BY IntNthLists
  <2>2. k # 1 => Nth(S, 1) < i
    <3>1. k # 1 => 1 < k
      BY FS_CardinalityType
    <3> QED
      BY <1>1, <2>1, <3>1, IntNthLists
  <2>3. i \in Int /\ Nth(S, 1) \in Int
    BY <1>2
  <2>4. k = 1 => Nth(S, 1) = i
    BY <2>1
  <2> QED
    BY <2>2, <2>3, <2>4
<1> QED
  BY <1>2, <1>3 DEF Min

LEMMA MinIsLeast ==
    ASSUME NEW S \in SUBSET Nat, IsFiniteSet(S), S # {}
    PROVE  Min(S) \in S /\ \A i \in S : Min(S) <= i
  BY IntMinIsLeast

\* A nonempty finite set of numbers has a largest one.
LEMMA IntMaxIsLargest ==
    ASSUME NEW S \in SUBSET Int, IsFiniteSet(S), S # {}
    PROVE  Max(S) \in S /\ \A i \in S : Max(S) >= i
<1> DEFINE n == Cardinality(S)
           m == Nth(S, n)
<1>1. n \in Nat /\ n \in 1..n
  <2>1. n \in Nat /\ n # 0
    BY FS_CardinalityType, FS_EmptySet
  <2> HIDE DEF n
  <2> QED
    BY <2>1
<1>2. m \in S
  BY <1>1, IntNthLists
<1>3. ASSUME NEW i \in S
      PROVE  m >= i
  <2>1. PICK k \in 1..n : Nth(S, k) = i
    BY IntNthLists
  <2>2. k = n \/ k < n
    <3> HIDE DEF n
    <3> QED
      BY <1>1
  <2>3. k < n => i < m
    BY <1>1, <2>1, IntNthLists
  <2>4. i \in Int /\ m \in Int
    BY <1>2
  <2>5. k = n => m = i
    BY <2>1
  <2> HIDE DEF m, n
  <2> QED
    BY <2>2, <2>3, <2>4, <2>5
<1> HIDE DEF m
<1> QED
  BY <1>2, <1>3 DEF Max

LEMMA MaxIsLargest ==
    ASSUME NEW S \in SUBSET Nat, IsFiniteSet(S), S # {}
    PROVE  Max(S) \in S /\ \A i \in S : Max(S) >= i
  BY IntMaxIsLargest

-------------------------------------------------------------------------------
(* Parts of lists *)

\* What Pick returns is a list of members of es, in their order.
LEMMA PickIsList ==
    ASSUME NEW E, NEW es \in Seq(E), NEW S \in SUBSET DOMAIN es
    PROVE  /\ IsFiniteSet(S) /\ S \in SUBSET Nat
           /\ Pick(es, S) \in Seq(E) /\ Len(Pick(es, S)) = Cardinality(S)
           /\ DOMAIN Pick(es, S) = 1..Cardinality(S)
           /\ \A k \in 1..Cardinality(S) : Nth(S, k) \in S /\ Pick(es, S)[k] = es[Nth(S, k)]
<1>1. Len(es) \in Nat /\ DOMAIN es = 1..Len(es) /\ \A i \in DOMAIN es : es[i] \in E
  BY LenProperties, ElementOfSeq
<1>2. IsFiniteSet(S) /\ S \in SUBSET Nat
  <2>1. IsFiniteSet(1..Len(es))
    BY <1>1, FS_Interval
  <2> QED
    BY <1>1, <2>1, FS_Subset
<1>3. Cardinality(S) \in Nat /\ \A k \in 1..Cardinality(S) : Nth(S, k) \in S
  BY <1>2, NthLists
<1>4. \A k \in 1..Cardinality(S) : es[Nth(S, k)] \in E
  BY <1>1, <1>3
<1>5. Pick(es, S) \in [1..Cardinality(S) -> E]
  BY <1>4 DEF Pick
<1>6. Pick(es, S) \in Seq(E)
  BY <1>3, <1>5, SeqDef
<1>7. DOMAIN Pick(es, S) = 1..Cardinality(S) /\ Len(Pick(es, S)) = Cardinality(S)
  BY <1>3, <1>5, <1>6, LenProperties
<1>8. \A k \in 1..Cardinality(S) : Pick(es, S)[k] = es[Nth(S, k)]
  BY DEF Pick
<1> QED
  BY <1>2, <1>3, <1>6, <1>7, <1>8

\* Members that do not matter may be left out first: what Pick takes from the
\* members at S it takes from the whole list at the positions they came from.
LEMMA PickOfPick ==
    ASSUME NEW E, NEW es \in Seq(E), NEW S \in SUBSET DOMAIN es, NEW U \in SUBSET S,
           NEW F, NEW fs \in Seq(F), Len(fs) = Cardinality(S),
           NEW ds \in Seq(F), Len(ds) = Len(es),
           \A k \in 1..Cardinality(S) : fs[k] = ds[Nth(S, k)]
    PROVE  Pick(fs, {k \in DOMAIN fs : Nth(S, k) \in U}) = Pick(ds, U)
<1> DEFINE T == {k \in DOMAIN fs : Nth(S, k) \in U}
           m == Cardinality(T)
           g == [k \in 1..m |-> Nth(S, Nth(T, k))]
<1>1. /\ IsFiniteSet(S) /\ S \in SUBSET Nat /\ Cardinality(S) \in Nat
      /\ \A k \in 1..Cardinality(S) : Nth(S, k) \in S
  BY PickIsList, NthLists
<1>2. DOMAIN fs = 1..Cardinality(S) /\ DOMAIN ds = DOMAIN es
  BY LenProperties
<1>3. /\ T \in SUBSET DOMAIN fs /\ IsFiniteSet(T) /\ T \in SUBSET Nat /\ m \in Nat
      /\ \A k \in 1..m : Nth(T, k) \in T
      /\ \A k, l \in 1..m : k < l => Nth(T, k) < Nth(T, l)
      /\ \A t \in T : \E k \in 1..m : Nth(T, k) = t
  <2>1. T \in SUBSET DOMAIN fs
    OBVIOUS
  <2>2. IsFiniteSet(T) /\ T \in SUBSET Nat
    BY <2>1, PickIsList
  <2> HIDE DEF T
  <2> QED
    BY <2>1, <2>2, NthLists
<1>4. g \in [1..m -> U]
  BY <1>2, <1>3
<1>5. ASSUME NEW k \in 1..m, NEW l \in 1..m, k < l
      PROVE  g[k] < g[l]
  <2>1. Nth(T, k) \in 1..Cardinality(S) /\ Nth(T, l) \in 1..Cardinality(S) /\ Nth(T, k) < Nth(T, l)
    BY <1>2, <1>3, <1>5
  <2> HIDE DEF T, m
  <2> QED
    BY <1>1, <2>1, NthLists
<1>6. ASSUME NEW i \in U
      PROVE  \E k \in 1..m : g[k] = i
  <2>1. /\ CountBelow(S, i) + 1 \in 1..Cardinality(S)
        /\ Nth(S, CountBelow(S, i) + 1) = i
    BY <1>1, NthLists
  <2>2. CountBelow(S, i) + 1 \in T
    BY <1>2, <2>1
  <2>3. PICK k \in 1..m : Nth(T, k) = CountBelow(S, i) + 1
    BY <1>3, <2>2
  <2> QED
    BY <2>1, <2>3
<1>7. U \in SUBSET DOMAIN ds
  BY <1>2
<1>8. /\ Pick(ds, U) \in Seq(F) /\ Len(Pick(ds, U)) = m
      /\ \A k \in 1..m : Pick(ds, U)[k] = ds[g[k]]
  <2>1. m \in Nat
    BY <1>3
  <2>2. \A k, l \in 1..m : k < l => g[k] < g[l]
    BY <1>5
  <2>3. \A i \in U : \E k \in 1..m : g[k] = i
    BY <1>6
  <2> HIDE DEF g, m
  <2> QED
    <3>1. U \in SUBSET Nat
      BY <1>1
    <3>2. Cardinality(U) = m /\ \A k \in 1..m : Nth(U, k) = g[k]
      BY <1>4, <2>1, <2>2, <2>3, <3>1, NthUnique
    <3>3. /\ Pick(ds, U) \in Seq(F) /\ Len(Pick(ds, U)) = Cardinality(U)
          /\ \A k \in 1..Cardinality(U) : Pick(ds, U)[k] = ds[Nth(U, k)]
      BY <1>7, PickIsList
    <3> QED
      BY <3>2, <3>3
<1>9. \A k \in 1..m : fs[Nth(T, k)] = ds[g[k]]
  BY <1>2, <1>3
<1>10. /\ Pick(fs, T) \in Seq(F) /\ Len(Pick(fs, T)) = m
       /\ \A k \in 1..m : Pick(fs, T)[k] = fs[Nth(T, k)]
  <2> HIDE DEF T
  <2> QED
    BY <1>3, PickIsList
<1>11. \A k \in 1..m : Pick(fs, T)[k] = Pick(ds, U)[k]
  BY <1>8, <1>9, <1>10
<1>12. Pick(fs, T) = Pick(ds, U)
  <2> HIDE DEF T, m, g
  <2> QED
    BY <1>8, <1>10, <1>11, SeqEqual
<1> QED
  BY <1>12

-------------------------------------------------------------------------------
(* Lists of any values *)

LEMMA ListTyped ==
    ASSUME NEW s, IsList(s)
    PROVE  /\ s \in Seq(ToSet(s))
           /\ Len(s) \in Nat /\ DOMAIN s = 1..Len(s)
           /\ DOMAIN s \in SUBSET Nat /\ IsFiniteSet(DOMAIN s)
<1>1. s \in Seq(ToSet(s))
  BY DEF IsList
<1>2. Len(s) \in Nat /\ DOMAIN s = 1..Len(s)
  BY <1>1, LenProperties
<1>3. IsFiniteSet(1..Len(s))
  BY <1>2, FS_Interval
<1> QED
  BY <1>1, <1>2, <1>3

\* A function on the first numbers is a list.
LEMMA FunctionIsList ==
    ASSUME NEW n \in Nat, NEW S, NEW f \in [1..n -> S]
    PROVE  IsList(f) /\ Len(f) = n /\ DOMAIN f = 1..n
<1>1. f \in [1..n -> ToSet(f)]
  BY DEF ToSet
<1>2. f \in Seq(ToSet(f))
  BY <1>1, SeqDef
<1> QED
  BY <1>2, LenProperties DEF IsList

LEMMA AppendList ==
    ASSUME NEW s, IsList(s), NEW x
    PROVE  /\ IsList(Append(s, x))
           /\ Len(Append(s, x)) = Len(s) + 1
           /\ \A i \in 1..Len(s) : Append(s, x)[i] = s[i]
           /\ Append(s, x)[Len(s) + 1] = x
           /\ Last(Append(s, x)) = x
<1> DEFINE S == ToSet(s) \cup {x}
           t == Append(s, x)
<1>1. s \in Seq(S) /\ x \in S
  BY SeqMonotonic, ListTyped
<1>2. /\ t \in Seq(S) /\ Len(t) = Len(s) + 1
      /\ \A i \in 1..Len(s) : t[i] = s[i]
      /\ t[Len(s) + 1] = x
  <2> HIDE DEF S
  <2> QED
    BY <1>1, AppendProperties
<1>3. Len(s) + 1 \in Nat /\ t \in [1..(Len(s) + 1) -> S]
  <2> HIDE DEF S, t
  <2>1. Len(t) \in Nat /\ DOMAIN t = 1..Len(t) /\ \A i \in 1..Len(t) : t[i] \in S
    BY <1>2, LenProperties, ElementOfSeq
  <2> QED
    BY <1>2, <2>1, SeqDef
<1>4. IsList(t)
  <2> HIDE DEF S, t
  <2> QED
    BY <1>3, FunctionIsList
<1>5. Last(t) = x
  BY <1>2 DEF Last
<1> QED
  BY <1>2, <1>4, <1>5
===============================================================================
