---------------------------- MODULE WorkbenchProofs ----------------------------
(***************************************************************************)
(* Proofs about Workbench, from the recursive functions that the calls are *)
(* made of to the promises that last through them.                         *)
(*                                                                         *)
(* BenchInv says that the table is one of texts and that everything the    *)
(* program knows of it is so; every call, seen as a function of the table, *)
(* keeps that (lemmas called ...Sure).  MergeInv says what MergeViolations *)
(* has merged so far.  What clamping, filling, profiles, histograms and    *)
(* the detection of outliers make of a table of texts are lemmas about the *)
(* operators; they rest on SortedSorts, that Sorted is a permutation in    *)
(* ascending order, on RanksBelow and RanksAbove, that it has as many      *)
(* numbers of a kind as the list it sorts, and, for histograms, on         *)
(* RoundedRises, that rounding to a float keeps the order of two quotients.*)
(***************************************************************************)
EXTENDS Workbench, PositionProofs

-------------------------------------------------------------------------------
(* Recursion *)

\* Induction up to n: a set with 0 and the successors of its members below n has
\* all numbers up to n.
LEMMA UpTo ==
    ASSUME NEW n \in Nat, NEW S, 0 \in S, \A k \in 1..n : k - 1 \in S => k \in S
    PROVE  0..n \subseteq S
<1> SUFFICES ASSUME (0..n) \ S # {} PROVE FALSE
  OBVIOUS
<1> DEFINE Bad == (0..n) \ S
<1>1. Bad \in SUBSET Nat /\ IsFiniteSet(Bad) /\ Bad # {}
  <2>1. Bad \in SUBSET Nat /\ \A k \in Bad : k <= n
    OBVIOUS
  <2> HIDE DEF Bad
  <2>2. IsFiniteSet(Bad)
    BY <2>1, FS_BoundedSetOfNaturals
  <2>3. Bad # {}
    BY DEF Bad
  <2> QED
    BY <2>1, <2>2, <2>3
<1>2. PICK m \in Bad : \A k \in Bad : m <= k
  <2> HIDE DEF Bad
  <2> QED
    BY <1>1, MinIsLeast
<1>3. m \in 1..n /\ m - 1 \in 0..n /\ m \notin S
  OBVIOUS
<1>4. m - 1 \notin Bad
  <2> HIDE DEF Bad
  <2> QED
    BY <1>2, <1>3
<1> QED
  BY <1>3, <1>4

\* f is computed from its first member on.
Follows(f, n, S, start, step) ==
    f \in [0..n -> S] /\ f[0] = start /\ \A k \in 1..n : f[k] = step[k][f[k - 1]]

LEMMA Recursion ==
    ASSUME NEW n \in Nat, NEW S, NEW start \in S, NEW step \in [1..n -> [S -> S]]
    PROVE  \E f : Follows(f, n, S, start, step)
<1> DEFINE Good(m, f) == f \in [0..m -> S] /\ \A k \in 0..m : f[k] = IF k = 0 THEN start ELSE step[k][f[k - 1]]
           Done == {m \in 0..n : \E f : Good(m, f)}
<1>1. 0 \in Done
  <2> DEFINE f == [k \in 0..0 |-> start]
  <2>1. \A k \in 0..0 : k = 0
    OBVIOUS
  <2>2. f \in [0..0 -> S] /\ \A k \in 0..0 : f[k] = start
    OBVIOUS
  <2>3. Good(0, f)
    <3> HIDE DEF f
    <3> QED
      BY <2>1, <2>2
  <2>4. 0 \in 0..n
    OBVIOUS
  <2> HIDE DEF Good, f
  <2> QED
    BY <2>3, <2>4
<1>2. ASSUME NEW m \in 1..n, m - 1 \in Done
      PROVE  m \in Done
  <2>1. PICK f : Good(m - 1, f)
    BY <1>2
  <2> DEFINE g == [k \in 0..m |-> IF k = m THEN step[m][f[m - 1]] ELSE f[k]]
  <2>2. m - 1 \in 0..(m - 1) /\ m - 1 \in 0..m /\ m - 1 # m /\ m # 0 /\ m \in 0..n
    OBVIOUS
  <2>3. f[m - 1] \in S
    BY <2>1, <2>2
  <2>4. \A k \in 0..m : k # m => k \in 0..(m - 1) /\ (k # 0 => k - 1 \in 0..m /\ k - 1 # m)
    OBVIOUS
  <2>5. g \in [0..m -> S]
    BY <2>1, <2>3, <2>4
  <2>6. ASSUME NEW k \in 0..m
        PROVE  g[k] = IF k = 0 THEN start ELSE step[k][g[k - 1]]
    <3>1. CASE k = m
      BY <2>2, <3>1
    <3>2. CASE k # m
      BY <2>1, <2>4, <3>2
    <3> QED
      BY <3>1, <3>2
  <2>7. Good(m, g)
    <3> HIDE DEF g
    <3> QED
      BY <2>5, <2>6
  <2> HIDE DEF Good, g
  <2> QED
    BY <2>2, <2>7
<1>3. n \in Done
  <2> HIDE DEF Done
  <2>1. 0..n \subseteq Done
    BY <1>1, <1>2, UpTo
  <2> QED
    BY <2>1
<1>4. PICK f : Good(n, f)
  BY <1>3
<1> QED
  BY <1>4 DEF Follows

\* What SumOf adds up, member by member.
Sums(nums, sum) ==
    /\ sum \in [0..Len(nums) -> Int] /\ sum[0] = 0 /\ SumOf(nums) = sum[Len(nums)]
    /\ \A k \in 1..Len(nums) : sum[k] = sum[k - 1] + nums[k]

LEMMA SumSteps == ASSUME NEW nums \in Seq(Int) PROVE \E sum : Sums(nums, sum)
<1> DEFINE n == Len(nums)
           step == [k \in 1..n |-> [s \in Int |-> s + nums[k]]]
           sum[k \in 0..Len(nums)] == IF k = 0 THEN 0 ELSE sum[k - 1] + nums[k]
<1>1. n \in Nat /\ \A k \in 1..n : nums[k] \in Int
  BY LenProperties, ElementOfSeq
<1>2. step \in [1..n -> [Int -> Int]]
  BY <1>1
<1>3. PICK f : Follows(f, n, Int, 0, step)
  <2> DEFINE zero == 0
  <2>1. n \in Nat /\ zero \in Int
    BY <1>1
  <2> HIDE DEF n, step, sum, zero
  <2>2. \E f : Follows(f, n, Int, zero, step)
    BY <1>2, <2>1, Recursion
  <2> QED
    BY <2>2 DEF zero
<1>4. f = [k \in 0..n |-> IF k = 0 THEN 0 ELSE f[k - 1] + nums[k]]
  <2> HIDE DEF n
  <2>1. ASSUME NEW k \in 1..n
        PROVE  f[k] = f[k - 1] + nums[k]
    <3>1. k - 1 \in 0..n
      BY <1>1
    <3>2. f[k - 1] \in Int
      BY <1>3, <3>1 DEF Follows
    <3>3. step[k][f[k - 1]] = f[k - 1] + nums[k]
      BY <3>2
    <3> QED
      BY <1>3, <3>3 DEF Follows
  <2>2. f = [k \in 0..n |-> f[k]]
    BY <1>3 DEF Follows
  <2>3. \A k \in 0..n : f[k] = IF k = 0 THEN 0 ELSE f[k - 1] + nums[k]
    <3>1. \A k \in 0..n : k # 0 => k \in 1..n
      OBVIOUS
    <3> HIDE DEF step
    <3> QED
      BY <1>3, <2>1, <3>1 DEF Follows
  <2> QED
    BY <2>2, <2>3
<1>5. sum = [k \in 0..n |-> IF k = 0 THEN 0 ELSE sum[k - 1] + nums[k]]
  BY <1>4
<1> HIDE DEF sum, n
<1>6. \A k \in 0..n : sum[k] \in Int
  <2> DEFINE S == {k \in 0..n : sum[k] \in Int}
  <2>1. 0 \in S
    BY <1>1, <1>5
  <2>2. ASSUME NEW k \in 1..n, k - 1 \in S
        PROVE  k \in S
    <3>1. k \in 0..n /\ k # 0 /\ nums[k] \in Int /\ sum[k - 1] \in Int
      BY <1>1, <2>2
    <3>2. sum[k] = sum[k - 1] + nums[k]
      BY <1>5, <3>1
    <3> QED
      BY <3>1, <3>2
  <2>3. 0..n \subseteq S
    <3> HIDE DEF S
    <3> QED
      BY <1>1, <2>1, <2>2, UpTo
  <2> QED
    BY <2>3
<1>7. \A k \in 1..n : k \in 0..n /\ k # 0
  BY <1>1
<1>8. 0 \in 0..n
  BY <1>1
<1>9. SumOf(nums) = sum[n]
  BY DEF SumOf, sum, n
<1>10. sum[0] = 0 /\ \A k \in 1..n : sum[k] = sum[k - 1] + nums[k]
  BY <1>5, <1>7, <1>8
<1>11. sum \in [0..n -> Int]
  BY <1>5, <1>6
<1>12. Sums(nums, sum)
  BY <1>9, <1>10, <1>11 DEF Sums, n
<1> QED
  BY <1>12

LEMMA SumTyped == ASSUME NEW nums \in Seq(Int) PROVE SumOf(nums) \in Int
<1>1. PICK sum : Sums(nums, sum)
  BY SumSteps
<1>2. Len(nums) \in 0..Len(nums)
  BY LenProperties
<1> QED
  BY <1>1, <1>2 DEF Sums

-------------------------------------------------------------------------------
(* Lists of lists *)

\* FlattenSeq gives a list of all the members that the lists have.
LEMMA FlattenIsList ==
    ASSUME NEW E, NEW seqs \in Seq(Seq(E))
    PROVE  /\ FlattenSeq(seqs) \in Seq(E)
           /\ \A x : x \in ToSet(FlattenSeq(seqs)) <=> \E k \in DOMAIN seqs : x \in ToSet(seqs[k])
<1> DEFINE n == Len(seqs)
           L == Seq(E)
           none == << >>
           step == [k \in 1..n |-> [s \in L |-> s \o seqs[k]]]
           flatten[k \in 1..Len(seqs)] == IF k = 1 THEN seqs[k] ELSE flatten[k-1] \o seqs[k]
<1>1. n \in Nat /\ DOMAIN seqs = 1..n /\ none \in L /\ \A k \in 1..n : seqs[k] \in L
  BY LenProperties, ElementOfSeq, EmptySeq
<1>2. \A s, t \in L : s \o t \in L
  BY ConcatProperties
<1>3. step \in [1..n -> [L -> L]]
  <2> HIDE DEF n, L
  <2> QED
    BY <1>1, <1>2
<1>4. PICK f : Follows(f, n, L, none, step)
  <2> HIDE DEF n, L, none, step
  <2> QED
    BY <1>1, <1>3, Recursion
<1>5. \A k \in 1..n : k \in 0..n /\ k - 1 \in 0..n /\ (k # 1 => k - 1 \in 1..n)
  BY <1>1
<1>6. \A k \in 0..n : f[k] \in L
  BY <1>4 DEF Follows
<1>7. \A k \in 1..n : f[k] = f[k - 1] \o seqs[k]
  <2> TAKE k \in 1..n
  <2>1. f[k] = step[k][f[k - 1]] /\ f[k - 1] \in L
    <3> HIDE DEF step, n
    <3> QED
      BY <1>4, <1>5 DEF Follows
  <2> QED
    BY <2>1
<1>8. f[0] = none
  BY <1>4 DEF Follows
<1>9. ASSUME n # 0
      PROVE  flatten = [k \in 1..n |-> f[k]]
  <2> DEFINE g == [k \in 1..n |-> f[k]]
  <2>1. ASSUME NEW k \in 1..n
        PROVE  g[k] = IF k = 1 THEN seqs[k] ELSE g[k - 1] \o seqs[k]
    <3>1. CASE k = 1
      <4>1. f[1] = none \o seqs[1] /\ seqs[1] \in L
        <5>1. 1 \in 1..n /\ 1 - 1 = 0
          BY <3>1
        <5>2. f[1] = f[1 - 1] \o seqs[1] /\ seqs[1] \in L
          <6> HIDE DEF n, L, none
          <6> QED
            BY <1>1, <1>7, <5>1
        <5> HIDE DEF n, L, none
        <5> QED
          BY <1>8, <5>1, <5>2
      <4>2. none \o seqs[1] = seqs[1]
        BY <4>1, ConcatEmptySeq
      <4> QED
        BY <3>1, <4>1, <4>2
    <3>2. CASE k # 1
      <4> HIDE DEF n, L, none
      <4> QED
        BY <1>5, <1>7, <3>2
    <3> QED
      BY <3>1, <3>2
  <2>2. g = [k \in 1..n |-> IF k = 1 THEN seqs[k] ELSE g[k - 1] \o seqs[k]]
    <3>1. g = [k \in 1..n |-> g[k]]
      OBVIOUS
    <3> HIDE DEF g, n
    <3> QED
      BY <2>1, <3>1
  <2>3. flatten = [k \in 1..n |-> IF k = 1 THEN seqs[k] ELSE flatten[k - 1] \o seqs[k]]
    <3> HIDE DEF g
    <3> QED
      BY <2>2
  <2> DEFINE Same == {k \in 0..n : k # 0 => flatten[k] = g[k]}
  <2>4. 0 \in Same
    BY <1>1
  <2>5. ASSUME NEW k \in 1..n, k - 1 \in Same
        PROVE  k \in Same
    <3>1. flatten[k] = IF k = 1 THEN seqs[k] ELSE flatten[k - 1] \o seqs[k]
      <4> HIDE DEF flatten, g
      <4> QED
        BY <2>3
    <3>2. k \in 0..n /\ (k # 1 => k - 1 # 0 /\ k - 1 \in 1..n)
      BY <1>1
    <3>3. flatten[k] = g[k]
      <4> HIDE DEF flatten, g
      <4> QED
        BY <2>1, <2>5, <3>1, <3>2
    <3> HIDE DEF flatten, g
    <3> QED
      BY <3>2, <3>3
  <2>6. 0..n \subseteq Same
    <3> HIDE DEF Same, n
    <3> QED
      BY <1>1, <2>4, <2>5, UpTo
  <2>7. \A k \in 1..n : flatten[k] = f[k]
    <3>1. \A k \in 1..n : k \in 0..n /\ k # 0
      BY <1>1
    <3>2. \A k \in 1..n : flatten[k] = g[k]
      <4> HIDE DEF flatten, g
      <4> QED
        BY <2>6, <3>1
    <3> HIDE DEF flatten
    <3> QED
      BY <3>2
  <2> HIDE DEF flatten
  <2> QED
    BY <2>3, <2>7
<1>10. FlattenSeq(seqs) = f[n]
  <2>1. CASE n = 0
    <3>1. seqs = << >>
      BY <2>1, EmptySeq
    <3> QED
      BY <1>8, <2>1, <3>1 DEF FlattenSeq
  <2>2. CASE n # 0
    <3>1. FlattenSeq(seqs) = flatten[n]
      BY <2>2 DEF FlattenSeq
    <3>2. n \in 1..n
      BY <1>1, <2>2
    <3> HIDE DEF flatten
    <3> QED
      BY <1>9, <2>2, <3>1, <3>2
  <2> QED
    BY <2>1, <2>2
<1> DEFINE Sound == {k \in 0..n : \A x : x \in ToSet(f[k]) <=> \E l \in 1..k : x \in ToSet(seqs[l])}
<1>11. 0 \in Sound
  <2>1. ToSet(none) = {}
    BY DEF ToSet
  <2> HIDE DEF none
  <2> QED
    BY <1>1, <1>8, <2>1
<1>12. ASSUME NEW k \in 1..n, k - 1 \in Sound
       PROVE  k \in Sound
  <2>1. f[k - 1] \in Seq(E) /\ seqs[k] \in Seq(E) /\ f[k] = f[k - 1] \o seqs[k] /\ f[k] \in Seq(E)
    <3>1. f[k - 1] \in L /\ seqs[k] \in L /\ f[k] = f[k - 1] \o seqs[k] /\ f[k] \in L
      <4> HIDE DEF L, n
      <4> QED
        BY <1>1, <1>5, <1>6, <1>7
    <3> QED
      BY <3>1
  <2>2. ASSUME NEW s \in Seq(E), NEW t \in Seq(E), NEW x
        PROVE  x \in ToSet(s \o t) <=> x \in ToSet(s) \/ x \in ToSet(t)
    <3>1. /\ Len(s) \in Nat /\ DOMAIN s = 1..Len(s) /\ Len(t) \in Nat /\ DOMAIN t = 1..Len(t)
          /\ s \o t \in Seq(E)
      BY LenProperties, ConcatProperties
    <3>2. DOMAIN (s \o t) = 1..(Len(s) + Len(t))
      BY <3>1, ConcatProperties, LenProperties
    <3>3. \A h \in 1..(Len(s) + Len(t)) : (s \o t)[h] = IF h <= Len(s) THEN s[h] ELSE t[h - Len(s)]
      BY ConcatProperties
    <3>4. ASSUME x \in ToSet(s \o t) PROVE x \in ToSet(s) \/ x \in ToSet(t)
      <4>1. PICK h \in 1..(Len(s) + Len(t)) : x = (s \o t)[h]
        BY <3>2, <3>4 DEF ToSet
      <4>2. CASE h <= Len(s)
        <5>1. h \in 1..Len(s) /\ x = s[h]
          BY <3>1, <3>3, <4>1, <4>2
        <5> QED
          BY <3>1, <5>1 DEF ToSet
      <4>3. CASE ~ (h <= Len(s))
        <5>1. h - Len(s) \in 1..Len(t) /\ x = t[h - Len(s)]
          BY <3>1, <3>3, <4>1, <4>3
        <5> QED
          BY <3>1, <5>1 DEF ToSet
      <4> QED
        BY <4>2, <4>3
    <3>5. ASSUME x \in ToSet(s) PROVE x \in ToSet(s \o t)
      <4>1. PICK h \in 1..Len(s) : x = s[h]
        BY <3>1, <3>5 DEF ToSet
      <4>2. h \in 1..(Len(s) + Len(t)) /\ h <= Len(s)
        BY <3>1
      <4>3. x = (s \o t)[h]
        BY <3>3, <4>1, <4>2
      <4> QED
        BY <3>2, <4>2, <4>3 DEF ToSet
    <3>6. ASSUME x \in ToSet(t) PROVE x \in ToSet(s \o t)
      <4>1. PICK h \in 1..Len(t) : x = t[h]
        BY <3>1, <3>6 DEF ToSet
      <4>2. h + Len(s) \in 1..(Len(s) + Len(t)) /\ ~ (h + Len(s) <= Len(s)) /\ h + Len(s) - Len(s) = h
        BY <3>1
      <4>3. x = (s \o t)[h + Len(s)]
        BY <3>3, <4>1, <4>2
      <4> QED
        BY <3>2, <4>2, <4>3 DEF ToSet
    <3> QED
      BY <3>4, <3>5, <3>6
  <2>3. \A x : x \in ToSet(f[k]) <=> x \in ToSet(f[k - 1]) \/ x \in ToSet(seqs[k])
    BY <2>1, <2>2
  <2>4. \A x : x \in ToSet(f[k - 1]) <=> \E l \in 1..(k - 1) : x \in ToSet(seqs[l])
    BY <1>12
  <2>5. k \in 0..n /\ \A l : l \in 1..k <=> l \in 1..(k - 1) \/ l = k
    BY <1>1
  <2> QED
    BY <2>3, <2>4, <2>5
<1>13. n \in Sound
  <2>1. n \in 0..n
    BY <1>1
  <2>2. 0..n \subseteq Sound
    <3> HIDE DEF Sound, n
    <3> QED
      BY <1>1, <1>11, <1>12, UpTo
  <2> QED
    BY <2>1, <2>2
<1>14. n \in 0..n /\ f[n] \in Seq(E)
  BY <1>1, <1>6
<1> QED
  <2> HIDE DEF n
  <2> QED
    BY <1>1, <1>10, <1>13, <1>14

-------------------------------------------------------------------------------
(* Texts *)

Atoms(A) == \A a \in A : a[1] \in Forms \cup {"NaN"} => a[2] \in Int

\* A text is a list of atoms.
LEMMA TextAtoms ==
    ASSUME NEW c, IsText(c)
    PROVE  /\ c \in Seq(ToSet(c)) /\ Atoms(ToSet(c)) /\ Len(c) \in Nat /\ DOMAIN c = 1..Len(c)
           /\ \A h \in 1..Len(c) : c[h] \in ToSet(c)
<1>1. IsList(c)
  BY DEF IsText
<1>2. c \in Seq(ToSet(c)) /\ Len(c) \in Nat /\ DOMAIN c = 1..Len(c)
  BY <1>1, ListTyped
<1>3. Atoms(ToSet(c))
  BY DEF IsText, Atoms, ToSet
<1> QED
  BY <1>2, <1>3 DEF ToSet

LEMMA TextOfAtoms ==
    ASSUME NEW A, Atoms(A), NEW c \in Seq(A)
    PROVE  IsText(c)
<1>1. Len(c) \in Nat /\ c \in [1..Len(c) -> A] /\ DOMAIN c = 1..Len(c)
  BY LenProperties
<1>2. IsList(c)
  BY <1>1, FunctionIsList
<1> QED
  BY <1>1, <1>2 DEF IsText, Atoms

LEMMA EmptyText == IsText(Empty)
<1>1. Atoms({}) /\ Empty \in Seq({})
  BY EmptySeq DEF Empty, Atoms
<1> QED
  BY <1>1, TextOfAtoms

LEMMA AtomText ==
    ASSUME NEW a, a[1] \in Forms \cup {"NaN"} => a[2] \in Int
    PROVE  IsText(<<a>>) /\ <<a>> # Empty
<1>1. Atoms({a}) /\ <<a>> \in Seq({a})
  BY DEF Atoms
<1>2. IsText(<<a>>)
  BY <1>1, TextOfAtoms
<1> QED
  BY <1>2 DEF Empty

LEMMA NumeralText ==
    ASSUME NEW form, NEW n \in Int
    PROVE  IsText(<<Numeral(form, n)>>) /\ <<Numeral(form, n)>> # Empty
<1>1. Numeral(form, n)[2] \in Int
  BY DEF Numeral
<1> HIDE DEF Numeral
<1> QED
  BY <1>1, AtomText

LEMMA NaNText == IsText(<<NaNAtom>>) /\ <<NaNAtom>> # Empty
<1>1. NaNAtom[2] \in Int
  BY DEF NaNAtom
<1> QED
  BY <1>1, AtomText

LEMMA NumberOf ==
    ASSUME NEW c, IsText(c), ParsesFloat(c)
    PROVE  FloatOf(c) \in Int
<1>1. 1 \in DOMAIN c
  BY TextAtoms DEF ParsesFloat
<1>2. c[1][2] \in Int
  BY <1>1 DEF IsText, ParsesFloat
<1> QED
  BY <1>2 DEF FloatOf, NaN

\* What SubSeq cuts out of a text is one.
LEMMA PartText ==
    ASSUME NEW c, IsText(c), NEW m \in Int, NEW n \in Int, m >= 1, n <= Len(c)
    PROVE  IsText(SubSeq(c, m, n))
<1>1. \A h \in m..n : c[h] \in ToSet(c)
  <2>1. Len(c) \in Nat
    BY TextAtoms
  <2>2. \A h \in m..n : h \in 1..Len(c)
    BY <2>1
  <2> QED
    BY <2>2, TextAtoms
<1>2. SubSeq(c, m, n) \in Seq(ToSet(c))
  BY <1>1, SubSeqProperties
<1> QED
  BY <1>2, TextAtoms, TextOfAtoms

LEMMA TrimText == ASSUME NEW c, IsText(c) PROVE IsText(TrimSpace(c))
<1> DEFINE ink == {h \in DOMAIN c : c[h] # Blank}
<1>1. CASE ink = {}
  BY <1>1, EmptyText DEF TrimSpace
<1>2. CASE ink # {}
  <2>1. Len(c) \in Nat /\ DOMAIN c = 1..Len(c) /\ IsFiniteSet(DOMAIN c)
    BY ListTyped DEF IsText
  <2>2. ink \in SUBSET DOMAIN c
    OBVIOUS
  <2>3. ink \in SUBSET Nat /\ IsFiniteSet(ink)
    <3> HIDE DEF ink
    <3> QED
      BY <2>1, <2>2, FS_Subset
  <2>4. Min(ink) \in ink /\ Max(ink) \in ink
    <3> HIDE DEF ink
    <3> QED
      BY <1>2, <2>3, MinIsLeast, MaxIsLargest
  <2>5. Min(ink) \in Int /\ Max(ink) \in Int /\ Min(ink) >= 1 /\ Max(ink) <= Len(c)
    <3> HIDE DEF ink
    <3> QED
      BY <2>1, <2>2, <2>4
  <2>6. IsText(SubSeq(c, Min(ink), Max(ink)))
    <3> HIDE DEF ink
    <3> QED
      BY <2>5, PartText
  <2> QED
    BY <1>2, <2>6 DEF TrimSpace
<1> QED
  BY <1>1, <1>2

\* Changing the case leaves no text empty.
LEMMA RecaseText ==
    ASSUME NEW c, IsText(c), NEW letters, \A x \in DOMAIN letters : letters[x] \notin Forms \cup {"NaN"}
    PROVE  IsText(Recase(c, letters)) /\ (c # Empty => Recase(c, letters) # Empty)
<1> DEFINE d == Recase(c, letters)
<1>1. Len(c) \in Nat /\ DOMAIN c = 1..Len(c)
  BY TextAtoms
<1>2. d = [h \in 1..Len(c) |-> IF c[h][1] \in DOMAIN letters THEN Letter(letters[c[h][1]]) ELSE c[h]]
  BY <1>1 DEF Recase
<1>3. IsList(d) /\ DOMAIN d = 1..Len(c)
  <2>1. d \in [1..Len(c) -> {d[h] : h \in 1..Len(c)}]
    BY <1>2
  <2> HIDE DEF d
  <2> QED
    BY <1>1, <2>1, FunctionIsList
<1>4. \A h \in DOMAIN d : d[h][1] \in Forms \cup {"NaN"} => d[h][2] \in Int
  <2> SUFFICES ASSUME NEW h \in 1..Len(c), d[h][1] \in Forms \cup {"NaN"}
               PROVE  d[h][2] \in Int
    BY <1>3
  <2>1. CASE c[h][1] \in DOMAIN letters
    <3>1. d[h][1] = letters[c[h][1]]
      BY <1>2, <2>1 DEF Letter
    <3> QED
      BY <2>1, <3>1
  <2>2. CASE c[h][1] \notin DOMAIN letters
    <3>1. d[h] = c[h]
      BY <1>2, <2>2
    <3> QED
      BY <1>1, <3>1 DEF IsText
  <2> QED
    BY <2>1, <2>2
<1>5. IsText(d)
  BY <1>3, <1>4 DEF IsText
<1>6. c # Empty => d # Empty
  <2> SUFFICES ASSUME c # Empty, d = Empty PROVE FALSE
    OBVIOUS
  <2>1. Len(c) = 0
    <3>1. 1..Len(c) = {}
      BY <1>3 DEF Empty
    <3>2. 1 \notin 1..Len(c)
      BY <3>1
    <3> QED
      BY <1>1, <3>2
  <2>2. c = << >>
    BY <2>1, TextAtoms, EmptySeq
  <2> QED
    BY <2>2 DEF Empty
<1> QED
  BY <1>5, <1>6

LEMMA LettersOnly ==
    /\ \A x \in DOMAIN Lower : Lower[x] \notin Forms \cup {"NaN"}
    /\ \A x \in DOMAIN Upper : Upper[x] \notin Forms \cup {"NaN"}
<1>1. \A x \in DOMAIN Lower : Lower[x] \in {"x", "y"}
  BY DEF Lower
<1>2. \A x \in DOMAIN Upper : Upper[x] \in {"X", "Y"}
  BY DEF Upper
<1> QED
  BY <1>1, <1>2 DEF Forms

\* Of two numbers.
LEMMA PairExtremes ==
    ASSUME NEW a \in Int, NEW b \in Int
    PROVE  /\ Min({a, b}) \in {a, b} /\ Min({a, b}) <= a /\ Min({a, b}) <= b
           /\ Max({a, b}) \in {a, b} /\ Max({a, b}) >= a /\ Max({a, b}) >= b
<1> DEFINE P == {a, b}
<1>1. IsFiniteSet(P)
  <2>1. IsFiniteSet({a})
    BY FS_Singleton
  <2>2. IsFiniteSet({a} \cup {b})
    BY <2>1, FS_AddElement
  <2>3. P = {a} \cup {b}
    OBVIOUS
  <2> HIDE DEF P
  <2> QED
    BY <2>2, <2>3
<1>2. P \in SUBSET Int /\ P # {} /\ a \in P /\ b \in P
  OBVIOUS
<1>3. Min(P) \in P /\ (\A k \in P : Min(P) <= k) /\ Max(P) \in P /\ \A k \in P : Max(P) >= k
  <2> HIDE DEF P
  <2> QED
    BY <1>1, <1>2, IntMinIsLeast, IntMaxIsLargest
<1>4. Min(P) <= a /\ Min(P) <= b /\ Max(P) >= a /\ Max(P) >= b
  <2> HIDE DEF P
  <2> QED
    BY <1>2, <1>3
<1> QED
  BY <1>3, <1>4

\* Texts put together give a text.
LEMMA FlattenText ==
    ASSUME NEW n \in Nat, NEW texts, DOMAIN texts = 1..n, texts = [k \in 1..n |-> texts[k]],
           \A k \in 1..n : IsText(texts[k])
    PROVE  IsText(FlattenSeq(texts))
<1> DEFINE A == UNION {ToSet(texts[k]) : k \in 1..n}
<1>1. \A k \in 1..n : texts[k] \in Seq(A)
  <2> TAKE k \in 1..n
  <2>1. texts[k] \in Seq(ToSet(texts[k])) /\ ToSet(texts[k]) \subseteq A
    BY TextAtoms
  <2> HIDE DEF A
  <2> QED
    BY <2>1, SeqMonotonic
<1>2. Atoms(A)
  <2>1. \A k \in 1..n : Atoms(ToSet(texts[k]))
    BY TextAtoms
  <2> QED
    BY <2>1 DEF Atoms
<1>3. texts \in Seq(Seq(A))
  <2> HIDE DEF A
  <2>1. texts \in [1..n -> Seq(A)]
    BY <1>1
  <2> QED
    BY <2>1, SeqDef
<1> HIDE DEF A
<1>4. FlattenSeq(texts) \in Seq(A)
  BY <1>3, FlattenIsList
<1> QED
  BY <1>2, <1>4, TextOfAtoms

LEMMA ReplacedText ==
    ASSUME NEW c, IsText(c), NEW old, NEW new, IsText(new)
    PROVE  IsText(Replaced(c, old, new))
<1> DEFINE texts == [l \in DOMAIN c |-> IF c[l] = old THEN new ELSE <<c[l]>>]
<1>1. Len(c) \in Nat /\ DOMAIN c = 1..Len(c)
  BY TextAtoms
<1>2. ASSUME NEW l \in 1..Len(c)
      PROVE  IsText(texts[l])
  <2>1. IsText(<<c[l]>>)
    <3>1. c[l][1] \in Forms \cup {"NaN"} => c[l][2] \in Int
      BY <1>1 DEF IsText
    <3> QED
      BY <3>1, AtomText
  <2> QED
    BY <1>1, <2>1
<1>3. DOMAIN texts = 1..Len(c) /\ texts = [l \in 1..Len(c) |-> texts[l]]
  BY <1>1
<1>4. IsText(FlattenSeq(texts))
  <2> HIDE DEF texts
  <2> QED
    BY <1>1, <1>2, <1>3, FlattenText
<1> QED
  BY <1>4 DEF Replaced

LEMMA ConcatText ==
    ASSUME NEW c, IsText(c), NEW d, IsText(d)
    PROVE  IsText(c \o d)
<1> DEFINE A == ToSet(c) \cup ToSet(d)
<1>1. c \in Seq(ToSet(c)) /\ d \in Seq(ToSet(d)) /\ Atoms(ToSet(c)) /\ Atoms(ToSet(d))
  BY TextAtoms
<1>2. ToSet(c) \subseteq A /\ ToSet(d) \subseteq A /\ Atoms(A)
  BY <1>1 DEF Atoms
<1> HIDE DEF A
<1>3. c \in Seq(A) /\ d \in Seq(A)
  BY <1>1, <1>2, SeqMonotonic
<1>4. c \o d \in Seq(A)
  BY <1>3, ConcatProperties
<1> QED
  BY <1>2, <1>4, TextOfAtoms

LEMMA JoinText ==
    ASSUME NEW n \in Nat, NEW texts, DOMAIN texts = 1..n,
           \A k \in 1..n : IsText(texts[k]), NEW sep, IsText(sep)
    PROVE  IsText(Join(texts, sep))
<1> DEFINE parts == [j \in DOMAIN texts |-> IF j = 1 THEN texts[j] ELSE sep \o texts[j]]
<1>1. \A k \in 1..n : IsText(parts[k])
  <2> TAKE k \in 1..n
  <2>1. IsText(sep \o texts[k])
    BY ConcatText
  <2> QED
    BY <2>1
<1>2. DOMAIN parts = 1..n /\ parts = [k \in 1..n |-> parts[k]]
  OBVIOUS
<1>3. IsText(FlattenSeq(parts))
  <2> HIDE DEF parts
  <2> QED
    BY <1>1, <1>2, FlattenText
<1> QED
  BY <1>3 DEF Join

LEMMA IntText == ASSUME NEW c, IsText(c) PROVE IsText(ToIntStr(c))
<1> DEFINE s == TrimSpace(c)
<1>1. IsText(s)
  BY TrimText
<1>2. CASE ParsesFloat(s)
  <2>1. FloatOf(s) \in Int
    <3> HIDE DEF s
    <3> QED
      BY <1>1, <1>2, NumberOf
  <2>2. \A n \in Int : Truncated(n) \in Int
    BY DEF Truncated, One
  <2>3. LeastInt \in Int
    BY DEF LeastInt, One
  <2> DEFINE m == IF FloatOf(s) = NaN THEN LeastInt ELSE Truncated(FloatOf(s))
  <2>4. m \in Int
    <3> HIDE DEF s
    <3> QED
      BY <2>1, <2>2, <2>3
  <2>5. IsText(<<Numeral("plain", m)>>)
    <3> HIDE DEF m
    <3> QED
      BY <2>4, NumeralText
  <2> QED
    BY <1>2, <2>5 DEF ToIntStr
<1>3. CASE ~ ParsesFloat(s)
  BY <1>1, <1>3 DEF ToIntStr
<1> QED
  BY <1>2, <1>3

LEMMA FloatText == ASSUME NEW c, IsText(c) PROVE IsText(ToFloatStr(c))
<1> DEFINE s == TrimSpace(c)
<1>1. IsText(s)
  BY TrimText
<1>2. CASE ParsesFloat(s) /\ s # <<NaNAtom>>
  <2>1. FloatOf(s) \in Int
    <3> HIDE DEF s
    <3> QED
      BY <1>1, <1>2, NumberOf
  <2>2. IsText(<<Numeral("plain", FloatOf(s))>>)
    <3> HIDE DEF s
    <3> QED
      BY <2>1, NumeralText
  <2> QED
    BY <1>2, <2>2 DEF ToFloatStr
<1>3. CASE ~ (ParsesFloat(s) /\ s # <<NaNAtom>>)
  BY <1>1, <1>3 DEF ToFloatStr
<1> QED
  BY <1>2, <1>3

LEMMA SubstrText ==
    ASSUME NEW c, IsText(c), NEW op, op.start \in Int, op.end \in Int
    PROVE  IsText(Substr(c, op))
<1>1. Len(c) \in Nat
  BY TextAtoms
<1>2. SubstrStart(c, op) \in Int /\ SubstrStart(c, op) >= 0
  <2> DEFINE m == Max({op.start, 0})
  <2>1. m \in Int /\ m >= 0
    BY PairExtremes
  <2> HIDE DEF m
  <2>2. Min({m, Len(c)}) \in {m, Len(c)}
    <3> DEFINE len == Len(c)
    <3>1. len \in Int
      BY <1>1
    <3> HIDE DEF len
    <3>2. /\ Min({m, len}) \in {m, len} /\ Min({m, len}) <= m /\ Min({m, len}) <= len
          /\ Max({m, len}) \in {m, len} /\ Max({m, len}) >= m /\ Max({m, len}) >= len
      BY <2>1, <3>1, PairExtremes
    <3> QED
      BY <3>2 DEF len
  <2>3. SubstrStart(c, op) = Min({m, Len(c)})
    BY DEF SubstrStart, m
  <2> QED
    BY <1>1, <2>1, <2>2, <2>3
<1>3. SubstrEnd(c, op) \in Int /\ SubstrEnd(c, op) <= Len(c)
  BY <1>1 DEF SubstrEnd
<1> DEFINE start == SubstrStart(c, op) + 1
           end == SubstrEnd(c, op)
<1>4. start \in Int /\ start >= 1 /\ end \in Int /\ end <= Len(c)
  BY <1>1, <1>2, <1>3
<1>5. IsText(SubSeq(c, start, end))
  <2> HIDE DEF start, end
  <2> QED
    BY <1>4, PartText
<1> QED
  BY <1>5 DEF Substr

LEMMA FormatText ==
    ASSUME NEW a \in Int, NEW b \in Nat \ {0}
    PROVE  IsText(FormatNum(a, b)) /\ FormatNum(a, b) # Empty
<1>1. a \div b \in Int
  OBVIOUS
<1>2. Rounded(a, b, Grain) \in Int
  <2>1. 2 * b * Grain \in Nat \ {0} /\ 2 * a + b * Grain \in Int
    BY DEF Grain
  <2>2. (2 * a + b * Grain) \div (2 * b * Grain) \in Int
    BY <2>1
  <2> QED
    BY <2>2 DEF Rounded, Grain
<1>3. FormatNum(a, b) \in {<<Numeral("plain", a \div b)>>, <<Numeral("d4", Rounded(a, b, Grain))>>}
  BY DEF FormatNum
<1> HIDE DEF Rounded, FormatNum, Numeral
<1> QED
  BY <1>1, <1>2, <1>3, NumeralText

-------------------------------------------------------------------------------
(* Columns and their numbers *)

LEMMA ColumnIsFirst ==
    ASSUME NEW t, IsList(t.header), NEW name, HasColumn(t, name)
    PROVE  /\ ColumnOf(t, name) \in DOMAIN t.header /\ ColumnOf(t, name) \in Nat
           /\ t.header[ColumnOf(t, name)] = name
           /\ \A k \in DOMAIN t.header : t.header[k] = name => ColumnOf(t, name) <= k
<1> DEFINE S == {k \in DOMAIN t.header : t.header[k] = name}
<1>1. DOMAIN t.header \in SUBSET Nat /\ IsFiniteSet(DOMAIN t.header)
  BY ListTyped
<1>2. S # {} /\ S \in SUBSET DOMAIN t.header
  BY DEF HasColumn
<1>3. S \in SUBSET Nat /\ IsFiniteSet(S)
  <2> HIDE DEF S
  <2> QED
    BY <1>1, <1>2, FS_Subset
<1>4. Min(S) \in S /\ \A k \in S : Min(S) <= k
  <2> HIDE DEF S
  <2> QED
    BY <1>2, <1>3, MinIsLeast
<1>5. ColumnOf(t, name) = Min(S)
  BY DEF ColumnOf
<1>6. ColumnOf(t, name) \in S /\ \A k \in S : ColumnOf(t, name) <= k
  <2> HIDE DEF S
  <2> QED
    BY <1>4, <1>5
<1> QED
  BY <1>1, <1>6

LEMMA RowsTyped ==
    ASSUME NEW t, IsTextTable(t)
    PROVE  /\ Len(t.rows) \in Nat /\ DOMAIN t.rows = 1..Len(t.rows)
           /\ DOMAIN t.rows \in SUBSET Nat /\ IsFiniteSet(DOMAIN t.rows)
           /\ IsList(t.header) /\ IsList(t.rows) /\ \A r \in DOMAIN t.rows : IsList(t.rows[r])
  BY ListTyped DEF IsTextTable, IsTable

LEMMA CellText ==
    ASSUME NEW t, IsTextTable(t), NEW r \in DOMAIN t.rows, NEW k
    PROVE  IsText(CellAt(t.rows[r], k))
  BY EmptyText DEF IsTextTable, CellAt

LEMMA NumsTyped ==
    ASSUME NEW t, IsTextTable(t), NEW name, ~ CollectFails(t, name)
    PROVE  /\ CollectNums(t, name) \in Seq(Int)
           /\ Len(CollectNums(t, name)) = Cardinality(Filled(t, name))
           /\ DOMAIN CollectNums(t, name) = 1..Len(CollectNums(t, name))
           /\ Filled(t, name) \in SUBSET DOMAIN t.rows /\ IsFiniteSet(Filled(t, name))
           /\ \A k \in 1..Len(CollectNums(t, name)) :
                /\ InOrder(Filled(t, name))[k] \in Filled(t, name)
                /\ CollectNums(t, name)[k] = FloatOf(Value(t, name, InOrder(Filled(t, name))[k]))
           /\ \A r \in Filled(t, name) : \E k \in 1..Len(CollectNums(t, name)) :
                InOrder(Filled(t, name))[k] = r
<1> DEFINE S == Filled(t, name)
           n == Cardinality(S)
           nums == CollectNums(t, name)
<1>1. S \in SUBSET DOMAIN t.rows
  BY DEF Filled
<1>2. S \in SUBSET Nat /\ IsFiniteSet(S)
  <2> HIDE DEF S
  <2>1. DOMAIN t.rows \in SUBSET Nat /\ IsFiniteSet(DOMAIN t.rows)
    BY RowsTyped
  <2> QED
    BY <1>1, <2>1, FS_Subset
<1>3. n \in Nat /\ InOrder(S) \in [1..n -> S] /\ \A x \in S : \E k \in 1..n : InOrder(S)[k] = x
  <2> HIDE DEF S
  <2> QED
    BY <1>2, InOrderSorts
<1>4. \A r \in S : FloatOf(Value(t, name, r)) \in Int
  <2> TAKE r \in S
  <2>1. r \in DOMAIN t.rows /\ ParsesFloat(Value(t, name, r))
    BY <1>1 DEF CollectFails
  <2>2. IsText(Value(t, name, r))
    BY <2>1, CellText DEF Value
  <2> QED
    BY <2>1, <2>2, NumberOf
<1>5. nums = [k \in 1..n |-> FloatOf(Value(t, name, InOrder(S)[k]))]
  BY <1>3 DEF CollectNums
<1>6. nums \in [1..n -> Int]
  <2> HIDE DEF S, nums, n
  <2> QED
    BY <1>3, <1>4, <1>5
<1>7. nums \in Seq(Int) /\ Len(nums) = n /\ DOMAIN nums = 1..n
  <2> HIDE DEF nums, n
  <2>1. nums \in Seq(Int)
    BY <1>3, <1>6, SeqDef
  <2> QED
    BY <1>3, <1>6, <2>1, FunctionIsList
<1>8. \A k \in 1..n : InOrder(S)[k] \in S /\ nums[k] = FloatOf(Value(t, name, InOrder(S)[k]))
  <2> HIDE DEF S, nums, n
  <2> QED
    BY <1>3, <1>5
<1>9. /\ nums \in Seq(Int) /\ Len(nums) = n /\ DOMAIN nums = 1..Len(nums)
      /\ S \in SUBSET DOMAIN t.rows /\ IsFiniteSet(S)
      /\ \A k \in 1..Len(nums) : InOrder(S)[k] \in S /\ nums[k] = FloatOf(Value(t, name, InOrder(S)[k]))
      /\ \A r \in S : \E k \in 1..Len(nums) : InOrder(S)[k] = r
  <2> HIDE DEF n, nums, S
  <2> QED
    BY <1>1, <1>2, <1>3, <1>7, <1>8
<1> QED
  BY <1>9

\* s has the numbers of a list, in ascending order.
Sorts(nums, s, from) ==
    /\ from \in Bijection(1..Len(nums), 1..Len(nums))
    /\ s = [k \in 1..Len(nums) |-> nums[from[k]]]
    /\ \A k, l \in 1..Len(nums) : k <= l => s[k] <= s[l]

LEMMA SortedSorts ==
    ASSUME NEW nums \in Seq(Int)
    PROVE  \E from : Sorts(nums, Sorted(nums), from)
<1> DEFINE n == Len(nums)
           D == DOMAIN nums
           Before(l) == {j \in D : nums[j] < nums[l] \/ (nums[j] = nums[l] /\ j < l)}
           place == [l \in D |-> Cardinality(Before(l))]
<1>1. n \in Nat /\ D = 1..n /\ IsFiniteSet(D) /\ Cardinality(D) = n /\ \A l \in D : nums[l] \in Int
  <2>1. n \in Nat /\ D = 1..n /\ \A l \in 1..n : nums[l] \in Int
    BY LenProperties, ElementOfSeq
  <2>2. IsFiniteSet(1..n) /\ Cardinality(1..n) = n
    <3> HIDE DEF n
    <3>1. 1 \in Int /\ n \in Int /\ (IF 1 > n THEN 0 ELSE n - 1 + 1) = n
      BY <2>1
    <3> QED
      BY <3>1, FS_Interval
  <2> QED
    BY <2>1, <2>2
<1>2. \A l \in D : /\ Before(l) \in SUBSET D /\ IsFiniteSet(Before(l))
                   /\ place[l] \in Nat /\ place[l] < n
  <2> TAKE l \in D
  <2>1. Before(l) \in SUBSET (D \ {l})
    BY <1>1
  <2>2. IsFiniteSet(D \ {l}) /\ Cardinality(D \ {l}) = n - 1
    <3> HIDE DEF D, n
    <3> QED
      BY <1>1, FS_RemoveElement
  <2>3. IsFiniteSet(Before(l)) /\ Cardinality(Before(l)) <= n - 1 /\ Cardinality(Before(l)) \in Nat
    <3> HIDE DEF D, n, Before
    <3> QED
      BY <2>1, <2>2, FS_Subset, FS_CardinalityType
  <2> HIDE DEF Before, n
  <2> QED
    BY <1>1, <2>1, <2>3
<1>3. ASSUME NEW l \in D, NEW m \in D, l \in Before(m)
      PROVE  place[l] < place[m]
  <2>1. Before(l) \in SUBSET (Before(m) \ {l})
    <3>1. nums[l] \in Int /\ nums[m] \in Int /\ l \in Int /\ m \in Int
      BY <1>1
    <3>2. \A j \in Before(l) : nums[j] \in Int /\ j \in Int
      BY <1>1
    <3> QED
      BY <1>3, <3>1, <3>2
  <2>2. IsFiniteSet(Before(m)) /\ IsFiniteSet(Before(m) \ {l}) /\ place[m] \in Nat
        /\ Cardinality(Before(m) \ {l}) = place[m] - 1
    <3>1. IsFiniteSet(Before(m)) /\ place[m] \in Nat /\ place[m] = Cardinality(Before(m))
      <4> HIDE DEF Before, n, D
      <4> QED
        BY <1>2
    <3> HIDE DEF Before, n, D, place
    <3> QED
      BY <1>3, <3>1, FS_RemoveElement
  <2>3. Cardinality(Before(l)) <= place[m] - 1
    <3> HIDE DEF Before, n, D, place
    <3> QED
      BY <2>1, <2>2, FS_Subset
  <2>4. place[l] = Cardinality(Before(l)) /\ place[l] \in Nat
    <3> HIDE DEF Before, n, D
    <3> QED
      BY <1>2
  <2> HIDE DEF Before, n, D, place
  <2> QED
    BY <2>2, <2>3, <2>4
<1>4. \A l, m \in D : place[l] = place[m] => l = m
  <2> TAKE l, m \in D
  <2>1. l = m \/ l \in Before(m) \/ m \in Before(l)
    <3>1. nums[l] \in Int /\ nums[m] \in Int /\ l \in Int /\ m \in Int
      BY <1>1
    <3> QED
      BY <3>1
  <2>2. place[l] \in Nat /\ place[m] \in Nat
    <3> HIDE DEF place, Before, D, n
    <3> QED
      BY <1>2
  <2> HIDE DEF place, Before, D, n
  <2> QED
    BY <1>3, <2>1, <2>2
<1>5. place \in Injection(D, 0..(n - 1))
  <2>1. \A l \in D : place[l] \in 0..(n - 1)
    <3> HIDE DEF Before, n, place, D
    <3> QED
      BY <1>1, <1>2
  <2>2. place \in [D -> 0..(n - 1)]
    <3> HIDE DEF Before
    <3> QED
      BY <2>1
  <2> HIDE DEF Before, n, place, D
  <2> QED
    BY <1>4, <2>2 DEF Injection, IsInjective
<1>6. IsFiniteSet(0..(n - 1)) /\ Cardinality(0..(n - 1)) = n
  <2> HIDE DEF n
  <2>1. 0 \in Int /\ n - 1 \in Int /\ (IF 0 > n - 1 THEN 0 ELSE n - 1 - 0 + 1) = n
    BY <1>1
  <2> QED
    BY <2>1, FS_Interval
<1>7. place \in Surjection(D, 0..(n - 1))
  <2> HIDE DEF place, Before, D, n
  <2> QED
    BY <1>1, <1>5, <1>6, FS_Injection
<1>8. \A l \in D : Place(nums, l) = place[l]
  BY DEF Place
<1> DEFINE from == [k \in 1..n |-> CHOOSE l \in D : Place(nums, l) = k - 1]
<1>9. ASSUME NEW k \in 1..n
      PROVE  from[k] \in D /\ place[from[k]] = k - 1
  <2>1. k - 1 \in 0..(n - 1)
    <3> HIDE DEF n
    <3> QED
      BY <1>1
  <2>2. PICK spot \in D : place[spot] = k - 1
    <3> HIDE DEF place, Before, D, n
    <3> QED
      BY <1>7, <2>1 DEF Surjection
  <2>3. \E m \in D : Place(nums, m) = k - 1
    <3> HIDE DEF place
    <3> QED
      BY <1>8, <2>2
  <2>4. from[k] \in D /\ Place(nums, from[k]) = k - 1
    <3> HIDE DEF n
    <3>1. from[k] = CHOOSE l \in D : Place(nums, l) = k - 1
      OBVIOUS
    <3> QED
      BY <2>3, <3>1
  <2> HIDE DEF from, place
  <2> QED
    BY <1>8, <2>4
<1>10. Sorted(nums) = [k \in 1..n |-> nums[from[k]]]
  BY <1>1 DEF Sorted
<1> HIDE DEF from
<1>11. from \in Bijection(1..n, 1..n)
  <2>1. from = [k \in 1..n |-> from[k]]
    BY DEF from
  <2> HIDE DEF place, n, D, Before
  <2>2. from \in [1..n -> 1..n]
    BY <1>1, <1>9, <2>1
  <2>3. ASSUME NEW k \in 1..n, NEW l \in 1..n, from[k] = from[l] PROVE k = l
    <3>1. place[from[k]] = k - 1 /\ place[from[l]] = l - 1
      BY <1>9
    <3>2. k \in Int /\ l \in Int
      BY <1>1
    <3> QED
      BY <2>3, <3>1, <3>2
  <2>4. ASSUME NEW l \in 1..n PROVE \E k \in 1..n : from[k] = l
    <3>1. l \in D /\ place[l] \in Nat /\ place[l] < n
      BY <1>1, <1>2, <2>4
    <3> DEFINE k == place[l] + 1
    <3>2. k \in 1..n /\ k - 1 = place[l]
      BY <1>1, <3>1
    <3> HIDE DEF k
    <3>3. from[k] \in D /\ place[from[k]] = k - 1
      BY <1>9, <3>2
    <3> QED
      BY <1>4, <3>1, <3>2, <3>3
  <2> QED
    BY <2>2, <2>3, <2>4, Fun_IsBij
<1>12. ASSUME NEW k \in 1..n, NEW l \in 1..n, k <= l
       PROVE  nums[from[k]] <= nums[from[l]]
  <2>1. /\ from[k] \in D /\ place[from[k]] = k - 1 /\ nums[from[k]] \in Int
        /\ from[l] \in D /\ place[from[l]] = l - 1 /\ nums[from[l]] \in Int
    <3> HIDE DEF place, n, D, Before
    <3> QED
      BY <1>1, <1>9
  <2>2. ~ (place[from[l]] < place[from[k]])
    <3> HIDE DEF place, D, Before
    <3>1. k \in Int /\ l \in Int
      BY <1>1
    <3> QED
      BY <1>12, <2>1, <3>1
  <2>3. from[l] \notin Before(from[k])
    <3> HIDE DEF place, D, Before, n
    <3> QED
      BY <1>3, <2>1, <2>2
  <2>4. ~ (nums[from[l]] < nums[from[k]])
    <3> HIDE DEF place, n
    <3> QED
      BY <2>1, <2>3
  <2> QED
    BY <2>1, <2>4
<1>13. Sorts(nums, Sorted(nums), from)
  <2> DEFINE s == Sorted(nums)
  <2>1. s = [k \in 1..n |-> nums[from[k]]]
    BY <1>10
  <2> HIDE DEF s, place, D, Before
  <2> QED
    BY <1>11, <1>12, <2>1 DEF Sorts, s
<1> QED
  BY <1>13

\* Every place of a sorted list is that of a member.
LEMMA SortedTyped ==
    ASSUME NEW nums \in Seq(Int)
    PROVE  Sorted(nums) \in Seq(Int) /\ Len(Sorted(nums)) = Len(nums)
<1> DEFINE n == Len(nums)
<1>1. n \in Nat /\ \A l \in 1..n : nums[l] \in Int
  BY LenProperties, ElementOfSeq
<1>2. PICK from : Sorts(nums, Sorted(nums), from)
  BY SortedSorts
<1>3. from \in [1..n -> 1..n] /\ Sorted(nums) = [k \in 1..n |-> nums[from[k]]]
  BY <1>2 DEF Sorts, Bijection, Injection
<1> HIDE DEF n
<1>4. Sorted(nums) \in [1..n -> Int]
  BY <1>1, <1>3
<1>5. Sorted(nums) \in Seq(Int)
  BY <1>1, <1>4, SeqDef
<1> QED
  BY <1>1, <1>4, <1>5, FunctionIsList DEF n

LEMMA MeanIsText ==
    ASSUME NEW nums \in Seq(Int), nums # << >>
    PROVE  IsText(MeanText(nums)) /\ MeanText(nums) # Empty
<1>1. Len(nums) \in Nat \ {0} /\ SumOf(nums) \in Int
  BY EmptySeq, SumTyped
<1>2. IsText(FormatNum(SumOf(nums), Len(nums))) /\ FormatNum(SumOf(nums), Len(nums)) # Empty
  BY <1>1, FormatText
<1> QED
  BY <1>2, NaNText DEF MeanText

LEMMA MedianIsText ==
    ASSUME NEW nums \in Seq(Int), nums # << >>
    PROVE  IsText(MedianText(nums)) /\ MedianText(nums) # Empty
<1> DEFINE n == Len(nums)
           s == Sorted(nums)
           sum == IF n % 2 = 1 THEN 2 * s[n \div 2 + 1] ELSE s[n \div 2] + s[n \div 2 + 1]
<1>1. n \in Nat \ {0} /\ s \in Seq(Int) /\ Len(s) = n
  BY EmptySeq, SortedTyped
<1>2. n \div 2 + 1 \in 1..n \/ n = 1
  <2> HIDE DEF n
  <2> QED
    BY <1>1
<1>3. n \div 2 + 1 \in 1..n /\ (n % 2 # 1 => n \div 2 \in 1..n)
  <2> HIDE DEF n
  <2> QED
    BY <1>1
<1>4. \A k \in 1..n : s[k] \in Int
  <2> HIDE DEF s
  <2> QED
    BY <1>1, ElementOfSeq
<1>5. sum \in Int
  <2> HIDE DEF n, s
  <2> QED
    BY <1>3, <1>4
<1>6. IsText(FormatNum(sum, 2)) /\ FormatNum(sum, 2) # Empty
  <2> HIDE DEF sum
  <2> QED
    BY <1>5, FormatText
<1>7. MedianText(nums) \in {<<NaNAtom>>, FormatNum(sum, 2)}
  BY DEF MedianText
<1> HIDE DEF sum
<1> QED
  BY <1>6, <1>7, NaNText

-------------------------------------------------------------------------------
(* Tables *)

IsTextRow(row) == IsList(row) /\ \A j \in DOMAIN row : IsText(row[j])

LEMMA TextRows ==
    ASSUME NEW t, IsTextTable(t), NEW r \in DOMAIN t.rows
    PROVE  IsTextRow(t.rows[r])
  BY DEF IsTextTable, IsTable, IsTextRow

LEMMA TableMade ==
    ASSUME NEW header, IsList(header), NEW n \in Nat, NEW rows, DOMAIN rows = 1..n,
           rows = [r \in 1..n |-> rows[r]], \A r \in 1..n : IsTextRow(rows[r])
    PROVE  IsTextTable([header |-> header, rows |-> rows])
<1>1. IsList(rows)
  <2>1. rows \in [1..n -> ToSet(rows)]
    BY DEF ToSet
  <2> QED
    BY <2>1, FunctionIsList
<1> DEFINE t == [header |-> header, rows |-> rows]
<1>2. t = [header |-> t.header, rows |-> t.rows] /\ t.header = header /\ t.rows = rows
  OBVIOUS
<1>3. \A r \in 1..n : IsList(rows[r]) /\ \A j \in DOMAIN rows[r] : IsText(rows[r][j]) /\ IsList(rows[r][j])
  BY DEF IsTextRow, IsText
<1> HIDE DEF t
<1>4. IsTextTable(t)
  BY <1>1, <1>2, <1>3 DEF IsTextTable, IsTable
<1> QED
  BY <1>4 DEF t

LEMMA RowMade ==
    ASSUME NEW n \in Nat, NEW row, DOMAIN row = 1..n, row = [j \in 1..n |-> row[j]],
           \A j \in 1..n : IsText(row[j])
    PROVE  IsTextRow(row)
<1>1. row \in [1..n -> ToSet(row)]
  BY DEF ToSet
<1>2. IsList(row)
  BY <1>1, FunctionIsList
<1> QED
  BY <1>2 DEF IsTextRow

\* u is t with cells of column k changed.
Rewrites(t, u, k) ==
    /\ u = [header |-> t.header, rows |-> u.rows]
    /\ u.rows = [r \in DOMAIN t.rows |-> u.rows[r]]
    /\ \A r \in DOMAIN t.rows :
         \/ u.rows[r] = t.rows[r]
         \/ k \in DOMAIN t.rows[r] /\ \E x : IsText(x) /\ u.rows[r] = [t.rows[r] EXCEPT ![k] = x]

LEMMA RewrittenTable ==
    ASSUME NEW t, IsTextTable(t), NEW u, NEW k, Rewrites(t, u, k)
    PROVE  /\ IsTextTable(u) /\ u.header = t.header /\ DOMAIN u.rows = DOMAIN t.rows
           /\ Aligned(t) => Aligned(u)
           /\ \A r \in DOMAIN t.rows : /\ DOMAIN u.rows[r] = DOMAIN t.rows[r]
                                       /\ \A j : j # k => CellAt(u.rows[r], j) = CellAt(t.rows[r], j)
<1> DEFINE n == Len(t.rows)
<1>1. n \in Nat /\ DOMAIN t.rows = 1..n /\ IsList(t.header)
  BY RowsTyped
<1>2. u = [header |-> t.header, rows |-> u.rows] /\ DOMAIN u.rows = 1..n
      /\ u.rows = [r \in 1..n |-> u.rows[r]]
  BY <1>1 DEF Rewrites
<1>3. ASSUME NEW r \in 1..n
      PROVE  /\ IsTextRow(u.rows[r]) /\ DOMAIN u.rows[r] = DOMAIN t.rows[r]
             /\ Len(u.rows[r]) = Len(t.rows[r])
             /\ \A j : j # k => CellAt(u.rows[r], j) = CellAt(t.rows[r], j)
  <2> DEFINE row == t.rows[r]
             new == u.rows[r]
  <2>1. IsTextRow(row)
    BY <1>1, TextRows
  <2>2. Len(row) \in Nat /\ DOMAIN row = 1..Len(row) /\ row = [j \in 1..Len(row) |-> row[j]]
    <3>1. IsList(row)
      BY <2>1 DEF IsTextRow
    <3>2. row \in Seq(ToSet(row)) /\ Len(row) \in Nat /\ DOMAIN row = 1..Len(row)
      <4> HIDE DEF row
      <4> QED
        BY <3>1, ListTyped
    <3>3. row \in [1..Len(row) -> ToSet(row)]
      <4> HIDE DEF row
      <4> QED
        BY <3>2, LenProperties
    <3> HIDE DEF row
    <3> QED
      BY <3>2, <3>3
  <2>3. CASE new = row
    BY <2>1, <2>3
  <2>4. CASE k \in DOMAIN row /\ \E x : IsText(x) /\ new = [row EXCEPT ![k] = x]
    <3>1. PICK x : IsText(x) /\ new = [row EXCEPT ![k] = x]
      BY <2>4
    <3> HIDE DEF row, new
    <3>2. DOMAIN new = 1..Len(row) /\ new = [j \in 1..Len(row) |-> IF j = k THEN x ELSE row[j]]
      BY <2>2, <2>4, <3>1
    <3>3. \A j \in 1..Len(row) : IsText(new[j])
      BY <2>1, <2>2, <3>1, <3>2 DEF IsTextRow
    <3>4. new = [j \in 1..Len(row) |-> new[j]]
      BY <3>2
    <3>5. IsTextRow(new)
      BY <2>2, <3>2, <3>3, <3>4, RowMade
    <3>6. DOMAIN new = DOMAIN row /\ Len(new) = Len(row)
      <4>1. new \in [1..Len(row) -> ToSet(new)]
        BY <3>2, <3>4 DEF ToSet
      <4>2. Len(new) = Len(row)
        BY <2>2, <4>1, FunctionIsList
      <4> QED
        BY <2>2, <3>2, <4>2
    <3>7. \A j : j # k => CellAt(new, j) = CellAt(row, j)
      BY <2>2, <3>2 DEF CellAt
    <3> QED
      BY <3>5, <3>6, <3>7 DEF new, row
  <2> QED
    BY <1>1, <2>3, <2>4 DEF Rewrites
<1>4. IsTextTable([header |-> t.header, rows |-> u.rows])
  <2> HIDE DEF n
  <2> QED
    BY <1>1, <1>2, <1>3, TableMade
<1>5. u.header = t.header /\ IsTextTable(u)
  BY <1>2, <1>4
<1>6. Aligned(t) => Aligned(u)
  BY <1>1, <1>2, <1>3, <1>5 DEF Aligned
<1> QED
  BY <1>1, <1>2, <1>3, <1>5, <1>6

-------------------------------------------------------------------------------
(* Promises *)

PromiseKinds == {"notnull", "unique"}

Met(t, p) == HasColumn(t, p.column) /\ \A r \in DOMAIN t.rows : ~ Violates(t, p, r)

LEMMA MetMeans ==
    ASSUME NEW t, NEW p, p.kind \in PromiseKinds
    PROVE  Met(t, p) <=>
             /\ HasColumn(t, p.column)
             /\ p.kind = "notnull" => \A r \in DOMAIN t.rows : Value(t, p.column, r) # Empty
             /\ p.kind = "unique" => \A q, r \in DOMAIN t.rows :
                  q # r => Value(t, p.column, q) # Value(t, p.column, r)
<1>1. CASE p.kind = "notnull"
  BY <1>1 DEF Met, Violates
<1>2. CASE p.kind = "unique"
  BY <1>2 DEF Met, Violates, Repeated
<1> QED
  BY <1>1, <1>2 DEF PromiseKinds

\* A promise is kept by a table whose rows have the values of different rows of one
\* that keeps it.
LEMMA Inherited ==
    ASSUME NEW t, NEW u, NEW p, p.kind \in PromiseKinds, Met(t, p), HasColumn(u, p.column),
           NEW g \in [DOMAIN u.rows -> DOMAIN t.rows],
           \A q, r \in DOMAIN u.rows : q # r => g[q] # g[r],
           \A r \in DOMAIN u.rows : Value(u, p.column, r) = Value(t, p.column, g[r])
    PROVE  Met(u, p)
<1>1. /\ p.kind = "notnull" => \A r \in DOMAIN t.rows : Value(t, p.column, r) # Empty
      /\ p.kind = "unique" => \A q, r \in DOMAIN t.rows :
           q # r => Value(t, p.column, q) # Value(t, p.column, r)
  BY MetMeans
<1>2. /\ p.kind = "notnull" => \A r \in DOMAIN u.rows : Value(u, p.column, r) # Empty
      /\ p.kind = "unique" => \A q, r \in DOMAIN u.rows :
           q # r => Value(u, p.column, q) # Value(u, p.column, r)
  BY <1>1
<1> QED
  BY <1>2, MetMeans

LEMMA SameInherited ==
    ASSUME NEW t, NEW u, NEW p, p.kind \in PromiseKinds, Met(t, p), HasColumn(u, p.column),
           DOMAIN u.rows = DOMAIN t.rows,
           \A r \in DOMAIN u.rows : Value(u, p.column, r) = Value(t, p.column, r)
    PROVE  Met(u, p)
<1>1. /\ p.kind = "notnull" => \A r \in DOMAIN t.rows : Value(t, p.column, r) # Empty
      /\ p.kind = "unique" => \A q, r \in DOMAIN t.rows :
           q # r => Value(t, p.column, q) # Value(t, p.column, r)
  BY MetMeans
<1>2. /\ p.kind = "notnull" => \A r \in DOMAIN u.rows : Value(u, p.column, r) # Empty
      /\ p.kind = "unique" => \A q, r \in DOMAIN u.rows :
           q # r => Value(u, p.column, q) # Value(u, p.column, r)
  BY <1>1
<1> QED
  BY <1>2, MetMeans

\* Everything that a program knows of a table is so.
Sure(t, known) ==
    /\ known.aligned => Aligned(t)
    /\ \A p \in known.promised : p.kind \in PromiseKinds /\ Met(t, p)

\* Changing one column leaves the promises about the others, and that of no empty
\* cell if cells that were not empty are not.
LEMMA RewriteKeeps ==
    ASSUME NEW t, IsTextTable(t), NEW u, NEW name, HasColumn(t, name),
           Rewrites(t, u, ColumnOf(t, name)),
           NEW p, p.kind \in PromiseKinds, Met(t, p),
           \/ p.column # name
           \/ /\ p.kind = "notnull"
              /\ \A r \in DOMAIN t.rows : Value(t, name, r) # Empty => Value(u, name, r) # Empty
    PROVE  Met(u, p)
<1>1. /\ u.header = t.header /\ DOMAIN u.rows = DOMAIN t.rows
      /\ \A r \in DOMAIN t.rows : \A j : j # ColumnOf(t, name) => CellAt(u.rows[r], j) = CellAt(t.rows[r], j)
  BY RewrittenTable
<1>2. \A n : (HasColumn(u, n) <=> HasColumn(t, n)) /\ ColumnOf(u, n) = ColumnOf(t, n)
  BY <1>1 DEF HasColumn, ColumnOf
<1>3. HasColumn(t, p.column)
  BY DEF Met
<1>4. CASE p.column # name
  <2>1. ColumnOf(t, p.column) # ColumnOf(t, name)
    <3>1. t.header[ColumnOf(t, p.column)] = p.column /\ t.header[ColumnOf(t, name)] = name
      BY <1>3, ColumnIsFirst, RowsTyped
    <3> QED
      BY <1>4, <3>1
  <2>2. \A r \in DOMAIN u.rows : Value(u, p.column, r) = Value(t, p.column, r)
    BY <1>1, <1>2, <2>1 DEF Value
  <2> QED
    BY <1>1, <1>2, <1>3, <2>2, SameInherited
<1>5. CASE p.column = name /\ p.kind = "notnull"
           /\ \A r \in DOMAIN t.rows : Value(t, name, r) # Empty => Value(u, name, r) # Empty
  <2>1. \A r \in DOMAIN t.rows : Value(t, p.column, r) # Empty
    BY <1>5, MetMeans
  <2>2. \A r \in DOMAIN u.rows : Value(u, p.column, r) # Empty
    BY <1>1, <1>5, <2>1
  <2> QED
    BY <1>2, <1>3, <1>5, <2>2, MetMeans
<1> QED
  BY <1>4, <1>5

-------------------------------------------------------------------------------
(* Operations on the cells of a column *)

\* t with the cells that a list has for the rows that reach column k.
WithCells(t, k, cells) ==
    [header |-> t.header,
     rows   |-> [r \in DOMAIN t.rows |->
                   IF k \in DOMAIN t.rows[r] THEN [t.rows[r] EXCEPT ![k] = cells[r]] ELSE t.rows[r]]]

LEMMA CellsChanged ==
    ASSUME NEW t, IsTextTable(t), NEW k, NEW cells,
           \A r \in DOMAIN t.rows : k \in DOMAIN t.rows[r] => IsText(cells[r])
    PROVE  /\ Rewrites(t, WithCells(t, k, cells), k)
           /\ \A r \in DOMAIN t.rows :
                CellAt(WithCells(t, k, cells).rows[r], k)
                  = IF k \in DOMAIN t.rows[r] THEN cells[r] ELSE Empty
<1> DEFINE u == WithCells(t, k, cells)
<1>1. u.header = t.header /\ u = [header |-> t.header, rows |-> u.rows]
      /\ u.rows = [r \in DOMAIN t.rows |-> IF k \in DOMAIN t.rows[r]
                     THEN [t.rows[r] EXCEPT ![k] = cells[r]] ELSE t.rows[r]]
  BY DEF WithCells
<1> HIDE DEF u
<1>2. u.rows = [r \in DOMAIN t.rows |-> u.rows[r]]
  BY <1>1
<1>3. ASSUME NEW r \in DOMAIN t.rows
      PROVE  /\ \/ u.rows[r] = t.rows[r]
                \/ /\ k \in DOMAIN t.rows[r]
                   /\ \E x : IsText(x) /\ u.rows[r] = [t.rows[r] EXCEPT ![k] = x]
             /\ CellAt(u.rows[r], k) = IF k \in DOMAIN t.rows[r] THEN cells[r] ELSE Empty
  <2> DEFINE row == t.rows[r]
  <2>1. CASE k \in DOMAIN row
    <3>1. u.rows[r] = [row EXCEPT ![k] = cells[r]] /\ IsText(cells[r])
      BY <1>1, <2>1
    <3>2. k \in DOMAIN u.rows[r] /\ u.rows[r][k] = cells[r]
      BY <2>1, <3>1
    <3> QED
      BY <2>1, <3>1, <3>2 DEF CellAt
  <2>2. CASE k \notin DOMAIN row
    <3>1. u.rows[r] = row
      BY <1>1, <2>2
    <3> QED
      BY <2>2, <3>1 DEF CellAt
  <2> QED
    BY <2>1, <2>2
<1>4. Rewrites(t, u, k)
  BY <1>1, <1>2, <1>3 DEF Rewrites
<1> QED
  BY <1>3, <1>4 DEF u

OpTyped(op) ==
    /\ op.kind = "substr" => op.start \in Int /\ op.end \in Int
    /\ op.kind = "replace" => IsText(op.new)
    /\ op.kind \in {"concat", "select"} => IsList(op.columns)
    /\ op.kind = "concat" => IsText(op.sep)

LEMMA CellOfText ==
    ASSUME NEW op, op.kind \in CellKinds, OpTyped(op), NEW c, IsText(c)
    PROVE  /\ IsText(CellOf(op, c))
           /\ op.kind \in {"to_lower", "to_upper"} /\ c # Empty => CellOf(op, c) # Empty
<1>1. /\ IsText(Recase(c, Lower)) /\ (c # Empty => Recase(c, Lower) # Empty)
      /\ IsText(Recase(c, Upper)) /\ (c # Empty => Recase(c, Upper) # Empty)
  <2>1. \A x \in DOMAIN Lower : Lower[x] \notin Forms \cup {"NaN"}
    BY LettersOnly
  <2>2. \A x \in DOMAIN Upper : Upper[x] \notin Forms \cup {"NaN"}
    BY LettersOnly
  <2>3. IsText(Recase(c, Lower)) /\ (c # Empty => Recase(c, Lower) # Empty)
    BY <2>1, RecaseText
  <2>4. IsText(Recase(c, Upper)) /\ (c # Empty => Recase(c, Upper) # Empty)
    BY <2>2, RecaseText
  <2> QED
    BY <2>3, <2>4
<1>2. IsText(ToIntStr(c)) /\ IsText(ToFloatStr(c)) /\ IsText(TrimSpace(c))
  BY IntText, FloatText, TrimText
<1>3. op.kind = "substr" => IsText(Substr(c, op))
  BY SubstrText DEF OpTyped
<1>4. op.kind = "replace" => IsText(Replaced(c, op.old, op.new))
  BY ReplacedText DEF OpTyped
<1> QED
  BY <1>1, <1>2, <1>3, <1>4 DEF CellOf, CellKinds

LEMMA CellOpChanges ==
    ASSUME NEW t, IsTextTable(t), NEW op, op.kind \in CellKinds
    PROVE  Transformed(t, op) = WithCells(t, ColumnOf(t, op.column),
             [r \in DOMAIN t.rows |-> CellOf(op, CellAt(t.rows[r], ColumnOf(t, op.column)))])
<1> DEFINE k == ColumnOf(t, op.column)
           cells == [r \in DOMAIN t.rows |-> CellOf(op, CellAt(t.rows[r], k))]
           u == Transformed(t, op)
<1>1. u = [header |-> t.header, rows |-> [r \in DOMAIN t.rows |->
             IF k \in DOMAIN t.rows[r] THEN [t.rows[r] EXCEPT ![k] = CellOf(op, t.rows[r][k])] ELSE t.rows[r]]]
  BY DEF Transformed, OnColumn, CellKinds
<1>2. \A r \in DOMAIN t.rows : k \in DOMAIN t.rows[r] => cells[r] = CellOf(op, t.rows[r][k])
  BY DEF CellAt
<1> HIDE DEF k, cells, u
<1>3. u = WithCells(t, k, cells)
  BY <1>1, <1>2 DEF WithCells
<1> QED
  BY <1>3 DEF k, cells, u

-------------------------------------------------------------------------------
(* What is known after an operation *)

LEMMA SureAfter ==
    ASSUME NEW u, NEW known, NEW op,
           known.aligned \/ op.kind = "select" => Aligned(u),
           \A p \in known.promised :
              Survives(p, op, known.aligned) => p.kind \in PromiseKinds /\ Met(u, p),
           \A p \in Established(op) : p.kind \in PromiseKinds /\ Met(u, p)
    PROVE  Sure(u, AfterOp(known, op))
  BY DEF Sure, AfterOp

LEMMA CellOpSure ==
    ASSUME NEW t, IsTextTable(t), NEW op, op.kind \in CellKinds, OpTyped(op),
           HasColumn(t, op.column), NEW known, Sure(t, known)
    PROVE  IsTextTable(Transformed(t, op)) /\ Sure(Transformed(t, op), AfterOp(known, op))
<1> DEFINE u == Transformed(t, op)
           k == ColumnOf(t, op.column)
           cells == [r \in DOMAIN t.rows |-> CellOf(op, CellAt(t.rows[r], k))]
<1>1. u = WithCells(t, k, cells)
  BY CellOpChanges
<1>2. \A r \in DOMAIN t.rows :
        /\ IsText(cells[r])
        /\ op.kind \in {"to_lower", "to_upper"} /\ CellAt(t.rows[r], k) # Empty => cells[r] # Empty
  <2> TAKE r \in DOMAIN t.rows
  <2> DEFINE c == CellAt(t.rows[r], k)
  <2>1. IsText(c)
    <3> HIDE DEF k
    <3> QED
      BY CellText
  <2>2. IsText(CellOf(op, c)) /\ (op.kind \in {"to_lower", "to_upper"} /\ c # Empty => CellOf(op, c) # Empty)
    <3> HIDE DEF c
    <3> QED
      BY <2>1, CellOfText
  <2> QED
    BY <2>2
<1> HIDE DEF u, cells
<1>3. Rewrites(t, WithCells(t, k, cells), k)
      /\ \A r \in DOMAIN t.rows : CellAt(WithCells(t, k, cells).rows[r], k)
           = IF k \in DOMAIN t.rows[r] THEN cells[r] ELSE Empty
  <2> HIDE DEF k
  <2> QED
    BY <1>2, CellsChanged
<1>4. Rewrites(t, u, k)
  BY <1>1, <1>3
<1>5. IsTextTable(u) /\ (Aligned(t) => Aligned(u)) /\ u.header = t.header
  <2> HIDE DEF k
  <2> QED
    BY <1>4, RewrittenTable
<1>6. op.kind \in {"to_lower", "to_upper"} =>
        \A r \in DOMAIN t.rows : Value(t, op.column, r) # Empty => Value(u, op.column, r) # Empty
  <2>1. ColumnOf(u, op.column) = k
    BY <1>5 DEF ColumnOf
  <2>2. \A r \in DOMAIN t.rows : CellAt(t.rows[r], k) # Empty => k \in DOMAIN t.rows[r]
    BY DEF CellAt
  <2>3. \A r \in DOMAIN t.rows : CellAt(u.rows[r], k) = IF k \in DOMAIN t.rows[r] THEN cells[r] ELSE Empty
    BY <1>1, <1>3
  <2> QED
    BY <1>2, <2>1, <2>2, <2>3 DEF Value
<1>7. ASSUME NEW p \in known.promised, Survives(p, op, known.aligned)
      PROVE  p.kind \in PromiseKinds /\ Met(u, p)
  <2>1. p.kind \in PromiseKinds /\ Met(t, p)
    BY DEF Sure
  <2>2. p.column # op.column \/ (op.kind \in {"to_lower", "to_upper"} /\ p.column = op.column /\ p.kind = "notnull")
    BY <1>7 DEF Survives, CellKinds
  <2> QED
    BY <1>4, <1>6, <2>1, <2>2, RewriteKeeps
<1>8. Established(op) = {} /\ op.kind # "select"
  BY DEF Established, CellKinds
<1>9. known.aligned \/ op.kind = "select" => Aligned(u)
  BY <1>5, <1>8 DEF Sure
<1>10. Sure(u, AfterOp(known, op))
  BY <1>7, <1>8, <1>9, SureAfter
<1> QED
  BY <1>5, <1>10 DEF u

LEMMA RenameSure ==
    ASSUME NEW t, IsTextTable(t), NEW op, op.kind = "rename",
           HasColumn(t, op.column), NEW known, Sure(t, known)
    PROVE  IsTextTable(Transformed(t, op)) /\ Sure(Transformed(t, op), AfterOp(known, op))
<1> DEFINE k == ColumnOf(t, op.column)
           header == [t.header EXCEPT ![k] = op.newName]
           u == Transformed(t, op)
           n == Len(t.header)
           m == Len(t.rows)
<1>1. u = [header |-> header, rows |-> t.rows]
  BY DEF Transformed, Rename, CellKinds
<1>2. k \in DOMAIN t.header /\ t.header[k] = op.column
  BY ColumnIsFirst, RowsTyped
<1>3. n \in Nat /\ DOMAIN t.header = 1..n /\ t.header \in [1..n -> ToSet(t.header)]
  <2>1. IsList(t.header)
    BY RowsTyped
  <2> QED
    BY <2>1, ListTyped, LenProperties
<1>4. header = [l \in 1..n |-> IF l = k THEN op.newName ELSE t.header[l]]
  <2> HIDE DEF k, n
  <2> QED
    BY <1>2, <1>3
<1>5. IsList(header) /\ Len(header) = n /\ DOMAIN header = 1..n
  <2>1. header \in [1..n -> ToSet(header)]
    <3> HIDE DEF n, k
    <3> QED
      BY <1>4 DEF ToSet
  <2> HIDE DEF header, n
  <2> QED
    BY <1>3, <2>1, FunctionIsList
<1>6. m \in Nat /\ DOMAIN t.rows = 1..m /\ t.rows = [r \in 1..m |-> t.rows[r]]
  <2>1. IsList(t.rows) /\ m \in Nat /\ DOMAIN t.rows = 1..m
    BY RowsTyped
  <2>2. t.rows \in [1..m -> ToSet(t.rows)]
    BY <2>1, ListTyped, LenProperties
  <2> HIDE DEF m
  <2> QED
    BY <2>1, <2>2
<1>7. IsTextTable([header |-> header, rows |-> t.rows])
  <2> HIDE DEF header, m
  <2>1. \A r \in 1..m : IsTextRow(t.rows[r])
    BY <1>6, TextRows
  <2> DEFINE rows == t.rows
  <2>2. DOMAIN rows = 1..m /\ rows = [r \in 1..m |-> rows[r]] /\ \A r \in 1..m : IsTextRow(rows[r])
    BY <1>6, <2>1
  <2> HIDE DEF rows
  <2>3. IsTextTable([header |-> header, rows |-> rows])
    BY <1>5, <1>6, <2>2, TableMade
  <2> QED
    BY <2>3 DEF rows
<1>8. IsTextTable(u) /\ u.header = header /\ u.rows = t.rows
  BY <1>1, <1>7
<1> HIDE DEF u, m
<1>9. Aligned(t) => Aligned(u)
  <2> HIDE DEF header
  <2> QED
    BY <1>5, <1>8 DEF Aligned
<1>10. ASSUME NEW p \in known.promised, Survives(p, op, known.aligned)
       PROVE  p.kind \in PromiseKinds /\ Met(u, p)
  <2>1. p.kind \in PromiseKinds /\ Met(t, p)
    BY DEF Sure
  <2>2. p.column \notin {op.column, op.newName}
    BY <1>10 DEF Survives
  <2>3. \A l \in 1..n : header[l] = p.column <=> t.header[l] = p.column
    <3> HIDE DEF header, k, n
    <3> QED
      BY <1>2, <1>4, <2>2
  <2>4. {l \in DOMAIN header : header[l] = p.column} = {l \in DOMAIN t.header : t.header[l] = p.column}
    <3> HIDE DEF header, n
    <3> QED
      BY <1>3, <1>5, <2>3
  <2>5. ColumnOf(u, p.column) = ColumnOf(t, p.column) /\ (HasColumn(u, p.column) <=> HasColumn(t, p.column))
    <3> HIDE DEF header, n
    <3>1. ColumnOf(u, p.column) = ColumnOf(t, p.column)
      BY <1>8, <2>4 DEF ColumnOf
    <3>2. HasColumn(u, p.column) <=> HasColumn(t, p.column)
      BY <1>3, <1>5, <1>8, <2>3 DEF HasColumn
    <3> QED
      BY <3>1, <3>2
  <2>6. \A r \in DOMAIN u.rows : Value(u, p.column, r) = Value(t, p.column, r)
    BY <1>8, <2>5 DEF Value
  <2>7. HasColumn(u, p.column) /\ DOMAIN u.rows = DOMAIN t.rows
    BY <1>8, <2>1, <2>5 DEF Met
  <2> QED
    BY <2>1, <2>6, <2>7, SameInherited
<1>11. Established(op) = {} /\ op.kind # "select"
  BY DEF Established
<1>12. known.aligned \/ op.kind = "select" => Aligned(u)
  BY <1>9, <1>11 DEF Sure
<1>13. Sure(u, AfterOp(known, op))
  BY <1>10, <1>11, <1>12, SureAfter
<1> QED
  BY <1>8, <1>13 DEF u

\* A table with some of the rows has what they had, in the order they were in.
LEMMA KeptRowsTable ==
    ASSUME NEW t, IsTextTable(t), NEW S \in SUBSET DOMAIN t.rows
    PROVE  /\ IsTextTable(Kept(t, S)) /\ Kept(t, S).header = t.header
           /\ Aligned(t) => Aligned(Kept(t, S))
           /\ DOMAIN Kept(t, S).rows = 1..Cardinality(S)
           /\ \A r \in DOMAIN Kept(t, S).rows :
                Nth(S, r) \in S /\ Nth(S, r) \in DOMAIN t.rows /\ Kept(t, S).rows[r] = t.rows[Nth(S, r)]
           /\ \A q, r \in DOMAIN Kept(t, S).rows : q # r => Nth(S, q) # Nth(S, r)
<1> DEFINE E == ToSet(t.rows)
           n == Cardinality(S)
           rows == Pick(t.rows, S)
           u == Kept(t, S)
<1>1. u = [header |-> t.header, rows |-> rows]
  BY DEF Kept
<1>2. IsList(t.rows) /\ t.rows \in Seq(E) /\ IsList(t.header)
  BY RowsTyped, ListTyped
<1>3. /\ IsFiniteSet(S) /\ S \in SUBSET Nat
      /\ rows \in Seq(E) /\ Len(rows) = n
      /\ DOMAIN rows = 1..n
      /\ \A k \in 1..n : Nth(S, k) \in S /\ rows[k] = t.rows[Nth(S, k)]
  <2> HIDE DEF E
  <2> QED
    BY <1>2, PickIsList
<1>4. n \in Nat /\ \A k, l \in 1..n : k < l => Nth(S, k) < Nth(S, l)
  BY <1>3, NthLists
<1>5. \A k, l \in 1..n : k # l => Nth(S, k) # Nth(S, l)
  <2> SUFFICES ASSUME NEW k \in 1..n, NEW l \in 1..n, k # l PROVE Nth(S, k) # Nth(S, l)
    OBVIOUS
  <2>1. Nth(S, k) \in Nat /\ Nth(S, l) \in Nat
    <3> HIDE DEF n
    <3> QED
      BY <1>3
  <2>2. k < l \/ l < k
    <3> HIDE DEF n
    <3> QED
      BY <1>4
  <2> HIDE DEF n
  <2> QED
    BY <1>4, <2>1, <2>2
<1>6. \A k \in 1..n : IsTextRow(rows[k])
  <2> HIDE DEF n, rows
  <2> QED
    BY <1>3, TextRows
<1>7. rows = [k \in 1..n |-> rows[k]]
  <2>1. rows \in [1..n -> E]
    <3> HIDE DEF rows, n, E
    <3> QED
      BY <1>3, LenProperties
  <2> HIDE DEF rows, n, E
  <2> QED
    BY <2>1
<1>8. IsTextTable([header |-> t.header, rows |-> rows])
  <2> HIDE DEF rows, n, E
  <2> QED
    BY <1>2, <1>3, <1>4, <1>6, <1>7, TableMade
<1>9. u.header = t.header /\ u.rows = rows /\ IsTextTable(u)
  <2> HIDE DEF rows
  <2> QED
    BY <1>1, <1>8
<1> HIDE DEF u, rows, n
<1>10. Aligned(t) => Aligned(u)
  BY <1>3, <1>9 DEF Aligned
<1>11. /\ IsTextTable(u) /\ u.header = t.header
       /\ Aligned(t) => Aligned(u)
       /\ DOMAIN u.rows = 1..n
       /\ \A r \in DOMAIN u.rows : Nth(S, r) \in S /\ Nth(S, r) \in DOMAIN t.rows /\ u.rows[r] = t.rows[Nth(S, r)]
       /\ \A q, r \in DOMAIN u.rows : q # r => Nth(S, q) # Nth(S, r)
  BY <1>3, <1>5, <1>9, <1>10
<1> QED
  BY <1>11 DEF u, n

LEMMA KeptValues ==
    ASSUME NEW t, IsTextTable(t), NEW S \in SUBSET DOMAIN t.rows
    PROVE  /\ \A name : HasColumn(Kept(t, S), name) <=> HasColumn(t, name)
           /\ \A name : \A r \in DOMAIN Kept(t, S).rows :
                Value(Kept(t, S), name, r) = Value(t, name, Nth(S, r))
<1> DEFINE u == Kept(t, S)
<1>1. u.header = t.header /\ \A r \in DOMAIN u.rows : u.rows[r] = t.rows[Nth(S, r)]
  BY KeptRowsTable
<1> HIDE DEF u
<1>2. \A name : (HasColumn(u, name) <=> HasColumn(t, name)) /\ ColumnOf(u, name) = ColumnOf(t, name)
  BY <1>1 DEF HasColumn, ColumnOf
<1>3. /\ \A name : HasColumn(u, name) <=> HasColumn(t, name)
      /\ \A name : \A r \in DOMAIN u.rows : Value(u, name, r) = Value(t, name, Nth(S, r))
  BY <1>1, <1>2 DEF Value
<1> QED
  BY <1>3 DEF u

LEMMA KeptKeeps ==
    ASSUME NEW t, IsTextTable(t), NEW S \in SUBSET DOMAIN t.rows,
           NEW p, p.kind \in PromiseKinds, Met(t, p)
    PROVE  Met(Kept(t, S), p)
<1> DEFINE u == Kept(t, S)
           g == [r \in DOMAIN u.rows |-> Nth(S, r)]
<1>1. /\ \A r \in DOMAIN u.rows : Nth(S, r) \in DOMAIN t.rows
      /\ \A q, r \in DOMAIN u.rows : q # r => Nth(S, q) # Nth(S, r)
  BY KeptRowsTable
<1>2. HasColumn(u, p.column) /\ \A r \in DOMAIN u.rows : Value(u, p.column, r) = Value(t, p.column, Nth(S, r))
  BY KeptValues DEF Met
<1> HIDE DEF u
<1>3. g \in [DOMAIN u.rows -> DOMAIN t.rows] /\ \A q, r \in DOMAIN u.rows : q # r => g[q] # g[r]
  BY <1>1
<1>4. \A r \in DOMAIN u.rows : Value(u, p.column, r) = Value(t, p.column, g[r])
  BY <1>2
<1> HIDE DEF g
<1>5. Met(u, p)
  BY <1>2, <1>3, <1>4, Inherited
<1> QED
  BY <1>5 DEF u

LEMMA FilterSure ==
    ASSUME NEW t, IsTextTable(t), NEW op, op.kind = "filter",
           HasColumn(t, op.column), NEW known, Sure(t, known)
    PROVE  IsTextTable(Transformed(t, op)) /\ Sure(Transformed(t, op), AfterOp(known, op))
<1> DEFINE S == {r \in DOMAIN t.rows : Holds(op.predicate, Value(t, op.column, r))}
           u == Kept(t, S)
           p == [column |-> op.column, kind |-> "notnull"]
<1>1. Transformed(t, op) = u
  BY DEF Transformed, Filter, CellKinds
<1>2. S \in SUBSET DOMAIN t.rows
  OBVIOUS
<1>3. /\ IsTextTable(u) /\ (Aligned(t) => Aligned(u))
      /\ \A r \in DOMAIN u.rows : Nth(S, r) \in S
      /\ (HasColumn(u, op.column) <=> HasColumn(t, op.column))
      /\ \A r \in DOMAIN u.rows : Value(u, op.column, r) = Value(t, op.column, Nth(S, r))
  <2> HIDE DEF S
  <2> QED
    BY <1>2, KeptRowsTable, KeptValues
<1>4. ASSUME ~ Holds(op.predicate, Empty)
      PROVE  p.kind \in PromiseKinds /\ Met(u, p)
  <2> HIDE DEF u
  <2>1. \A r \in DOMAIN u.rows : Value(u, op.column, r) # Empty
    BY <1>3, <1>4
  <2>2. p.kind = "notnull" /\ p.column = op.column /\ p.kind \in PromiseKinds
    BY DEF PromiseKinds
  <2> HIDE DEF p
  <2> QED
    BY <1>3, <2>1, <2>2, MetMeans
<1>5. \A x \in Established(op) : x.kind \in PromiseKinds /\ Met(u, x)
  <2>1. Established(op) = IF ~ Holds(op.predicate, Empty) THEN {p} ELSE {}
    BY DEF Established
  <2> HIDE DEF p, u
  <2> QED
    BY <1>4, <2>1
<1>6. \A x \in known.promised : x.kind \in PromiseKinds /\ Met(u, x)
  <2>1. \A x \in known.promised : x.kind \in PromiseKinds /\ Met(t, x)
    BY DEF Sure
  <2> HIDE DEF S
  <2> QED
    BY <1>2, <2>1, KeptKeeps
<1>7. known.aligned \/ op.kind = "select" => Aligned(u)
  BY <1>3 DEF Sure
<1>8. Sure(u, AfterOp(known, op))
  <2> HIDE DEF u
  <2> QED
    BY <1>5, <1>6, <1>7, SureAfter
<1> QED
  BY <1>1, <1>3, <1>8

LEMMA DedupSure ==
    ASSUME NEW t, IsTextTable(t), NEW op, op.kind = "dedup",
           HasColumn(t, op.column), NEW known, Sure(t, known)
    PROVE  IsTextTable(Transformed(t, op)) /\ Sure(Transformed(t, op), AfterOp(known, op))
<1> DEFINE S == {r \in DOMAIN t.rows :
                   \A q \in 1..(r - 1) : Value(t, op.column, q) # Value(t, op.column, r)}
           u == Kept(t, S)
           p == [column |-> op.column, kind |-> "unique"]
<1>1. Transformed(t, op) = u
  BY DEF Transformed, Dedup, CellKinds
<1>2. S \in SUBSET DOMAIN t.rows
  OBVIOUS
<1>3. /\ IsTextTable(u) /\ (Aligned(t) => Aligned(u))
      /\ \A r \in DOMAIN u.rows : Nth(S, r) \in S
      /\ \A q, r \in DOMAIN u.rows : q # r => Nth(S, q) # Nth(S, r)
      /\ (HasColumn(u, op.column) <=> HasColumn(t, op.column))
      /\ \A r \in DOMAIN u.rows : Value(u, op.column, r) = Value(t, op.column, Nth(S, r))
  <2> HIDE DEF S
  <2> QED
    BY <1>2, KeptRowsTable, KeptValues
<1>4. \A q, r \in S : q # r => Value(t, op.column, q) # Value(t, op.column, r)
  <2> SUFFICES ASSUME NEW q \in S, NEW r \in S, q < r
               PROVE  Value(t, op.column, q) # Value(t, op.column, r)
    <3>1. \A x \in S : x \in Nat
      BY RowsTyped
    <3> HIDE DEF S
    <3>2. \A x, y \in S : x # y => x < y \/ y < x
      BY <3>1
    <3> QED
      BY <3>2
  <2>1. q \in 1..(r - 1)
    BY RowsTyped
  <2> QED
    BY <2>1
<1>5. p.kind \in PromiseKinds /\ Met(u, p)
  <2> HIDE DEF u, S
  <2>1. \A q, r \in DOMAIN u.rows : q # r => Value(u, op.column, q) # Value(u, op.column, r)
    BY <1>3, <1>4
  <2>2. p.kind = "unique" /\ p.column = op.column /\ p.kind \in PromiseKinds
    BY DEF PromiseKinds
  <2> HIDE DEF p
  <2> QED
    BY <1>3, <2>1, <2>2, MetMeans
<1>6. Established(op) = {p}
  BY DEF Established
<1>7. \A x \in known.promised : x.kind \in PromiseKinds /\ Met(u, x)
  <2>1. \A x \in known.promised : x.kind \in PromiseKinds /\ Met(t, x)
    BY DEF Sure
  <2> HIDE DEF S
  <2> QED
    BY <1>2, <2>1, KeptKeeps
<1>8. known.aligned \/ op.kind = "select" => Aligned(u)
  BY <1>3 DEF Sure
<1>9. Sure(u, AfterOp(known, op))
  <2> HIDE DEF u, p
  <2> QED
    BY <1>5, <1>6, <1>7, <1>8, SureAfter
<1> QED
  BY <1>1, <1>3, <1>9

LEMMA AppendRow ==
    ASSUME NEW row, IsTextRow(row), NEW x, IsText(x)
    PROVE  /\ IsTextRow(Append(row, x)) /\ Len(Append(row, x)) = Len(row) + 1
           /\ \A j \in DOMAIN row : CellAt(Append(row, x), j) = CellAt(row, j)
<1> DEFINE new == Append(row, x)
           n == Len(row)
<1>1. IsList(row) /\ n \in Nat /\ DOMAIN row = 1..n
  BY ListTyped DEF IsTextRow
<1>2. /\ IsList(new) /\ Len(new) = n + 1 /\ new[n + 1] = x
      /\ \A j \in 1..n : new[j] = row[j]
  BY <1>1, AppendList
<1>3. DOMAIN new = 1..(n + 1)
  <2> HIDE DEF new
  <2> QED
    BY <1>2, ListTyped
<1> HIDE DEF new, n
<1>4. \A j \in 1..(n + 1) : j = n + 1 \/ j \in 1..n
  BY <1>1
<1>5. \A j \in 1..n : j \in 1..(n + 1)
  BY <1>1
<1>6. \A j \in DOMAIN new : IsText(new[j])
  BY <1>1, <1>2, <1>3, <1>4 DEF IsTextRow
<1>7. IsTextRow(new)
  BY <1>2, <1>6 DEF IsTextRow
<1>8. \A j \in DOMAIN row : CellAt(new, j) = CellAt(row, j)
  BY <1>1, <1>2, <1>3, <1>5 DEF CellAt
<1> QED
  BY <1>2, <1>7, <1>8 DEF new, n

LEMMA ConcatSure ==
    ASSUME NEW t, IsTextTable(t), NEW op, op.kind = "concat", OpTyped(op),
           NEW known, Sure(t, known)
    PROVE  IsTextTable(Transformed(t, op)) /\ Sure(Transformed(t, op), AfterOp(known, op))
<1> DEFINE u == Transformed(t, op)
           joined(row) == Join([j \in DOMAIN op.columns |->
                                  CellAt(row, ColumnOf(t, op.columns[j]))], op.sep)
           header == Append(t.header, NewName(op))
           rows == [r \in DOMAIN t.rows |-> Append(t.rows[r], joined(t.rows[r]))]
           n == Len(t.rows)
<1>1. u = [header |-> header, rows |-> rows]
  BY DEF Transformed, Concat, CellKinds
<1>2. n \in Nat /\ DOMAIN t.rows = 1..n /\ IsList(t.header)
  BY RowsTyped
<1>3. ASSUME NEW r \in 1..n
      PROVE  IsText(joined(t.rows[r]))
  <2> DEFINE texts == [j \in DOMAIN op.columns |-> CellAt(t.rows[r], ColumnOf(t, op.columns[j]))]
             m == Len(op.columns)
  <2>1. m \in Nat /\ DOMAIN op.columns = 1..m
    BY ListTyped DEF OpTyped
  <2>2. \A k : IsText(CellAt(t.rows[r], k))
    BY <1>2, CellText
  <2>3. DOMAIN texts = 1..m /\ \A j \in 1..m : IsText(texts[j])
    BY <2>1, <2>2
  <2>4. IsText(op.sep)
    BY DEF OpTyped
  <2>5. IsText(Join(texts, op.sep))
    <3> HIDE DEF texts, m
    <3> QED
      BY <2>1, <2>3, <2>4, JoinText
  <2> QED
    BY <2>5
<1> HIDE DEF joined
<1>4. ASSUME NEW r \in 1..n
      PROVE  /\ IsTextRow(rows[r]) /\ Len(rows[r]) = Len(t.rows[r]) + 1
             /\ \A j \in DOMAIN t.rows[r] : CellAt(rows[r], j) = CellAt(t.rows[r], j)
  <2>1. rows[r] = Append(t.rows[r], joined(t.rows[r]))
    BY <1>2
  <2>2. IsTextRow(t.rows[r]) /\ IsText(joined(t.rows[r]))
    BY <1>2, <1>3, TextRows
  <2> DEFINE row == t.rows[r]
             x == joined(t.rows[r])
  <2>3. IsTextRow(row) /\ IsText(x)
    BY <2>2
  <2> HIDE DEF row, x
  <2>4. /\ IsTextRow(Append(row, x)) /\ Len(Append(row, x)) = Len(row) + 1
        /\ \A j \in DOMAIN row : CellAt(Append(row, x), j) = CellAt(row, j)
    BY <2>3, AppendRow
  <2> QED
    BY <2>1, <2>4 DEF row, x
<1>5. DOMAIN rows = 1..n /\ rows = [r \in 1..n |-> rows[r]]
  BY <1>2
<1>6. IsList(header) /\ Len(header) = Len(t.header) + 1
      /\ \A k \in 1..Len(t.header) : header[k] = t.header[k]
  BY <1>2, AppendList
<1>7. /\ Len(t.header) \in Nat /\ DOMAIN t.header = 1..Len(t.header)
      /\ Len(header) \in Nat /\ DOMAIN header = 1..Len(header)
  <2> HIDE DEF header
  <2> QED
    BY <1>2, <1>6, ListTyped
<1>8. IsTextTable([header |-> header, rows |-> rows])
  <2> HIDE DEF header, rows, n
  <2> QED
    BY <1>2, <1>4, <1>5, <1>6, TableMade
<1>9. u.header = header /\ u.rows = rows /\ IsTextTable(u)
  <2> HIDE DEF header, rows
  <2> QED
    BY <1>1, <1>8
<1> HIDE DEF u, header, rows, n
<1>10. ASSUME Aligned(t)
       PROVE  Aligned(u) /\ \A r \in DOMAIN t.rows : DOMAIN t.rows[r] = DOMAIN t.header
  <2>1. \A r \in DOMAIN t.rows : Len(t.rows[r]) = Len(t.header)
    BY <1>10 DEF Aligned
  <2>2. \A r \in DOMAIN t.rows : DOMAIN t.rows[r] = 1..Len(t.rows[r])
    BY RowsTyped, ListTyped
  <2>3. Aligned(u)
    BY <1>2, <1>4, <1>5, <1>6, <1>9, <2>1 DEF Aligned
  <2> QED
    BY <1>7, <2>1, <2>2, <2>3
<1>11. ASSUME NEW p \in known.promised, Survives(p, op, known.aligned)
       PROVE  p.kind \in PromiseKinds /\ Met(u, p)
  <2> DEFINE k == ColumnOf(t, p.column)
  <2>1. p.kind \in PromiseKinds /\ Met(t, p)
    BY DEF Sure
  <2>2. HasColumn(t, p.column)
    BY <2>1 DEF Met
  <2>3. k \in 1..Len(t.header) /\ t.header[k] = p.column /\ k \in Nat
        /\ \A l \in 1..Len(t.header) : t.header[l] = p.column => k <= l
    BY <1>2, <1>7, <2>2, ColumnIsFirst
  <2>4. HasColumn(u, p.column)
    <3>1. k \in DOMAIN header /\ header[k] = p.column
      <4> HIDE DEF k
      <4> QED
        BY <1>6, <1>7, <2>3
    <3> QED
      BY <1>9, <3>1 DEF HasColumn
  <2>5. ColumnOf(u, p.column) = k
    <3> DEFINE l == ColumnOf(u, p.column)
    <3>1. l \in DOMAIN header /\ header[l] = p.column /\ l \in Nat
          /\ \A x \in DOMAIN header : header[x] = p.column => l <= x
      <4>1. IsList(u.header)
        BY <1>6, <1>9
      <4> QED
        BY <1>9, <2>4, <4>1, ColumnIsFirst
    <3> HIDE DEF l, k
    <3>2. l <= k
      BY <1>6, <1>7, <2>3, <3>1
    <3>3. l \in 1..Len(t.header)
      BY <1>7, <2>3, <3>1, <3>2
    <3>4. k <= l
      BY <1>6, <2>3, <3>1, <3>3
    <3> QED
      BY <2>3, <3>1, <3>2, <3>4 DEF k, l
  <2>6. \A r \in DOMAIN t.rows : k \in DOMAIN t.rows[r]
    <3>1. known.aligned \/ p.kind = "notnull"
      BY <1>11 DEF Survives, CellKinds
    <3>2. CASE known.aligned
      <4>1. \A r \in DOMAIN t.rows : DOMAIN t.rows[r] = DOMAIN t.header
        BY <1>10, <3>2 DEF Sure
      <4> QED
        BY <1>7, <2>3, <4>1
    <3>3. CASE p.kind = "notnull"
      <4>1. \A r \in DOMAIN t.rows : Value(t, p.column, r) # Empty
        BY <2>1, <3>3, MetMeans
      <4> QED
        BY <4>1 DEF Value, CellAt
    <3> QED
      BY <3>1, <3>2, <3>3
  <2>7. \A r \in DOMAIN u.rows : Value(u, p.column, r) = Value(t, p.column, r)
    <3> HIDE DEF k
    <3>1. \A r \in 1..n : CellAt(rows[r], k) = CellAt(t.rows[r], k)
      BY <1>2, <1>4, <2>6
    <3> QED
      BY <1>5, <1>9, <2>5, <3>1 DEF Value, k
  <2>8. DOMAIN u.rows = DOMAIN t.rows
    BY <1>2, <1>5, <1>9
  <2> QED
    BY <2>1, <2>4, <2>7, <2>8, SameInherited
<1>12. Established(op) = {} /\ op.kind # "select"
  BY DEF Established
<1>13. known.aligned \/ op.kind = "select" => Aligned(u)
  BY <1>10, <1>12 DEF Sure
<1>14. Sure(u, AfterOp(known, op))
  BY <1>11, <1>12, <1>13, SureAfter
<1> QED
  BY <1>9, <1>14 DEF u

LEMMA SelectSure ==
    ASSUME NEW t, IsTextTable(t), NEW op, op.kind = "select", OpTyped(op),
           NEW known, Sure(t, known)
    PROVE  IsTextTable(Transformed(t, op)) /\ Sure(Transformed(t, op), AfterOp(known, op))
<1> DEFINE u == Transformed(t, op)
           header == op.columns
           rows == [r \in DOMAIN t.rows |-> [l \in DOMAIN header |-> Value(t, header[l], r)]]
           n == Len(t.rows)
           m == Len(header)
<1>1. u = [header |-> header, rows |-> rows]
  BY DEF Transformed, Select, CellKinds
<1>2. n \in Nat /\ DOMAIN t.rows = 1..n
  BY RowsTyped
<1>3. IsList(header) /\ m \in Nat /\ DOMAIN header = 1..m
  BY ListTyped DEF OpTyped
<1>4. ASSUME NEW r \in 1..n
      PROVE  /\ IsTextRow(rows[r]) /\ Len(rows[r]) = m
             /\ rows[r] = [l \in 1..m |-> Value(t, header[l], r)]
  <2> DEFINE row == [l \in 1..m |-> Value(t, header[l], r)]
  <2>1. rows[r] = row
    BY <1>2, <1>3
  <2>2. \A l \in 1..m : IsText(row[l])
    BY <1>2, CellText DEF Value
  <2>3. DOMAIN row = 1..m /\ row = [l \in 1..m |-> row[l]] /\ row \in [1..m -> ToSet(row)]
    BY DEF ToSet
  <2>4. IsTextRow(row) /\ Len(row) = m
    <3> HIDE DEF row, m
    <3> QED
      BY <1>3, <2>2, <2>3, RowMade, FunctionIsList
  <2> QED
    BY <2>1, <2>4
<1>5. DOMAIN rows = 1..n /\ rows = [r \in 1..n |-> rows[r]]
  BY <1>2
<1>6. IsTextTable([header |-> header, rows |-> rows])
  <2> HIDE DEF header, rows, n
  <2> QED
    BY <1>2, <1>3, <1>4, <1>5, TableMade
<1>7. u.header = header /\ u.rows = rows /\ IsTextTable(u)
  <2> HIDE DEF header, rows
  <2> QED
    BY <1>1, <1>6
<1> HIDE DEF u, rows, n
<1>8. Aligned(u)
  BY <1>4, <1>5, <1>7 DEF Aligned
<1>9. ASSUME NEW p \in known.promised, Survives(p, op, known.aligned)
      PROVE  p.kind \in PromiseKinds /\ Met(u, p)
  <2> DEFINE k == ColumnOf(u, p.column)
  <2>1. p.kind \in PromiseKinds /\ Met(t, p)
    BY DEF Sure
  <2>2. p.column \in ToSet(header)
    BY <1>9 DEF Survives, CellKinds
  <2>3. HasColumn(u, p.column)
    BY <1>7, <2>2 DEF HasColumn, ToSet
  <2>4. k \in 1..m /\ header[k] = p.column
    <3>1. IsList(u.header)
      BY <1>3, <1>7
    <3> HIDE DEF header
    <3> QED
      BY <1>3, <1>7, <2>3, <3>1, ColumnIsFirst
  <2>5. \A r \in 1..n : CellAt(rows[r], k) = Value(t, p.column, r)
    <3> HIDE DEF header, m, k
    <3> TAKE r \in 1..n
    <3>1. rows[r] = [l \in 1..m |-> Value(t, header[l], r)]
      BY <1>4
    <3>2. k \in DOMAIN rows[r] /\ rows[r][k] = Value(t, header[k], r)
      BY <2>4, <3>1
    <3> QED
      BY <2>4, <3>2 DEF CellAt
  <2>6. \A r \in DOMAIN u.rows : Value(u, p.column, r) = Value(t, p.column, r)
    BY <1>5, <1>7, <2>5 DEF Value
  <2>7. DOMAIN u.rows = DOMAIN t.rows
    BY <1>2, <1>5, <1>7
  <2> QED
    BY <2>1, <2>3, <2>6, <2>7, SameInherited
<1>10. Established(op) = {}
  BY DEF Established
<1>11. Sure(u, AfterOp(known, op))
  BY <1>8, <1>9, <1>10, SureAfter
<1> QED
  BY <1>7, <1>11 DEF u

\* An operation that succeeds gives a table of which what it makes known is true.
LEMMA OperationSure ==
    ASSUME NEW t, IsTextTable(t), NEW op, OpTyped(op), ~ OpFails(t, op),
           NEW known, Sure(t, known)
    PROVE  IsTextTable(Transformed(t, op)) /\ Sure(Transformed(t, op), AfterOp(known, op))
<1>1. op.kind \in ColumnKinds \cup {"concat", "select"}
  BY DEF OpFails
<1>2. CASE op.kind \in ColumnKinds
  <2>1. HasColumn(t, op.column)
    BY <1>2 DEF OpFails
  <2>2. op.kind \in CellKinds \/ op.kind = "rename" \/ op.kind = "filter" \/ op.kind = "dedup"
    BY <1>2 DEF ColumnKinds
  <2> QED
    BY <2>1, <2>2, CellOpSure, RenameSure, FilterSure, DedupSure
<1> QED
  BY <1>1, <1>2, ConcatSure, SelectSure

-------------------------------------------------------------------------------
(* Chains of operations *)

\* The outcome of a call: a failure, or a table of which what is known is true.
Good(result, known) ==
    \/ result.status \in {"error", "panic"}
    \/ result.status = "ok" /\ IsTextTable(result.table) /\ Sure(result.table, known)

\* The outcomes, and what is known, after each of the first n operations.
Outcomes(t, ops, n, f) ==
    f = [k \in 0..n |-> IF k = 0 THEN Returned(t) ELSE ApplyOne(f[k - 1], ops[k])]
Learned(before, ops, n, f) ==
    f = [k \in 0..n |-> IF k = 0 THEN before ELSE AfterOp(f[k - 1], ops[k])]

LEMMA AppliedInOrder ==
    ASSUME NEW t, NEW ops, NEW n \in Nat
    PROVE  \E f : Outcomes(t, ops, n, f)
<1> DEFINE Is(m, f) == f = [k \in 0..m |-> IF k = 0 THEN Returned(t) ELSE ApplyOne(f[k - 1], ops[k])]
           Done == {m \in 0..n : \E f : Is(m, f)}
<1>1. 0 \in Done
  <2> DEFINE f == [k \in 0..0 |-> Returned(t)]
  <2>1. Is(0, f) /\ 0 \in 0..n
    <3>1. \A k \in 0..0 : k = 0
      OBVIOUS
    <3> QED
      BY <3>1
  <2> HIDE DEF Is, f
  <2> QED
    BY <2>1
<1>2. ASSUME NEW m \in 1..n, m - 1 \in Done
      PROVE  m \in Done
  <2>1. PICK f : Is(m - 1, f)
    BY <1>2
  <2> DEFINE g == [k \in 0..m |-> IF k = m THEN ApplyOne(f[m - 1], ops[m]) ELSE f[k]]
  <2>2. m - 1 \in 0..m /\ m - 1 # m /\ m # 0 /\ m \in 0..n
        /\ \A k \in 0..m : k # m => k \in 0..(m - 1) /\ (k # 0 => k - 1 \in 0..m /\ k - 1 # m)
    OBVIOUS
  <2>3. ASSUME NEW k \in 0..m
        PROVE  g[k] = IF k = 0 THEN Returned(t) ELSE ApplyOne(g[k - 1], ops[k])
    <3>1. CASE k = m
      BY <2>2, <3>1
    <3>2. CASE k # m
      BY <2>1, <2>2, <3>2
    <3> QED
      BY <3>1, <3>2
  <2>4. g = [k \in 0..m |-> g[k]]
    OBVIOUS
  <2>5. Is(m, g)
    <3> HIDE DEF g
    <3> QED
      BY <2>3, <2>4
  <2> HIDE DEF Is, g
  <2> QED
    BY <2>2, <2>5
<1>3. n \in Done
  <2> HIDE DEF Done
  <2>1. 0..n \subseteq Done
    BY <1>1, <1>2, UpTo
  <2> QED
    BY <2>1
<1> QED
  BY <1>3 DEF Outcomes

LEMMA KnownInOrder ==
    ASSUME NEW before, NEW ops, NEW n \in Nat
    PROVE  \E f : Learned(before, ops, n, f)
<1> DEFINE Is(m, f) == f = [k \in 0..m |-> IF k = 0 THEN before ELSE AfterOp(f[k - 1], ops[k])]
           Done == {m \in 0..n : \E f : Is(m, f)}
<1>1. 0 \in Done
  <2> DEFINE f == [k \in 0..0 |-> before]
  <2>1. Is(0, f) /\ 0 \in 0..n
    <3>1. \A k \in 0..0 : k = 0
      OBVIOUS
    <3> QED
      BY <3>1
  <2> HIDE DEF Is, f
  <2> QED
    BY <2>1
<1>2. ASSUME NEW m \in 1..n, m - 1 \in Done
      PROVE  m \in Done
  <2>1. PICK f : Is(m - 1, f)
    BY <1>2
  <2> DEFINE g == [k \in 0..m |-> IF k = m THEN AfterOp(f[m - 1], ops[m]) ELSE f[k]]
  <2>2. m - 1 \in 0..m /\ m - 1 # m /\ m # 0 /\ m \in 0..n
        /\ \A k \in 0..m : k # m => k \in 0..(m - 1) /\ (k # 0 => k - 1 \in 0..m /\ k - 1 # m)
    OBVIOUS
  <2>3. ASSUME NEW k \in 0..m
        PROVE  g[k] = IF k = 0 THEN before ELSE AfterOp(g[k - 1], ops[k])
    <3>1. CASE k = m
      BY <2>2, <3>1
    <3>2. CASE k # m
      BY <2>1, <2>2, <3>2
    <3> QED
      BY <3>1, <3>2
  <2>4. g = [k \in 0..m |-> g[k]]
    OBVIOUS
  <2>5. Is(m, g)
    <3> HIDE DEF g
    <3> QED
      BY <2>3, <2>4
  <2> HIDE DEF Is, g
  <2> QED
    BY <2>2, <2>5
<1>3. n \in Done
  <2> HIDE DEF Done
  <2>1. 0..n \subseteq Done
    BY <1>1, <1>2, UpTo
  <2> QED
    BY <2>1
<1> QED
  BY <1>3 DEF Learned

LEMMA OneSure ==
    ASSUME NEW so_far, NEW known, Good(so_far, known), NEW op, OpTyped(op)
    PROVE  Good(ApplyOne(so_far, op), AfterOp(known, op))
<1>1. CASE so_far.status # "ok"
  BY <1>1 DEF Good, ApplyOne
<1>2. CASE so_far.status = "ok"
  <2> DEFINE t == so_far.table
  <2>1. IsTextTable(t) /\ Sure(t, known)
    BY <1>2 DEF Good
  <2>2. CASE OpFails(t, op)
    BY <1>2, <2>2 DEF Good, ApplyOne, Failed
  <2>3. CASE ~ OpFails(t, op) /\ OpPanics(t, op)
    BY <1>2, <2>3 DEF Good, ApplyOne, Failed
  <2>4. CASE ~ OpFails(t, op) /\ ~ OpPanics(t, op)
    <3>1. ApplyOne(so_far, op) = Returned(Transformed(t, op))
      BY <1>2, <2>4 DEF ApplyOne
    <3>2. IsTextTable(Transformed(t, op)) /\ Sure(Transformed(t, op), AfterOp(known, op))
      <4> HIDE DEF t
      <4> QED
        BY <2>1, <2>4, OperationSure
    <3> HIDE DEF t
    <3> QED
      BY <3>1, <3>2 DEF Good, Returned
  <2> QED
    BY <2>2, <2>3, <2>4
<1> QED
  BY <1>1, <1>2

LEMMA ApplySure ==
    ASSUME NEW t, IsTextTable(t), NEW before, Sure(t, before),
           NEW ops, IsList(ops), \A k \in DOMAIN ops : OpTyped(ops[k])
    PROVE  Good(Apply(t, ops), AfterOps(before, ops))
<1> DEFINE n == Len(ops)
           after[k \in 0..Len(ops)] == IF k = 0 THEN Returned(t) ELSE ApplyOne(after[k - 1], ops[k])
           known[k \in 0..Len(ops)] == IF k = 0 THEN before ELSE AfterOp(known[k - 1], ops[k])
           Sound == {k \in 0..n : Good(after[k], known[k])}
<1>1. n \in Nat /\ DOMAIN ops = 1..n
  BY ListTyped
<1>2. after = [k \in 0..n |-> IF k = 0 THEN Returned(t) ELSE ApplyOne(after[k - 1], ops[k])]
  <2>1. \E f : Outcomes(t, ops, n, f)
    <3> HIDE DEF n
    <3> QED
      BY <1>1, AppliedInOrder
  <2> QED
    BY <2>1 DEF Outcomes
<1>3. known = [k \in 0..n |-> IF k = 0 THEN before ELSE AfterOp(known[k - 1], ops[k])]
  <2>1. \E f : Learned(before, ops, n, f)
    <3> HIDE DEF n
    <3> QED
      BY <1>1, KnownInOrder
  <2> QED
    BY <2>1 DEF Learned
<1> HIDE DEF after, known
<1>4. 0 \in Sound
  <2>1. after[0] = Returned(t) /\ known[0] = before
    <3> HIDE DEF n
    <3> QED
      BY <1>1, <1>2, <1>3
  <2> QED
    BY <1>1, <2>1 DEF Good, Returned
<1>5. ASSUME NEW k \in 1..n, k - 1 \in Sound
      PROVE  k \in Sound
  <2>1. k \in 0..n /\ k # 0 /\ OpTyped(ops[k]) /\ Good(after[k - 1], known[k - 1])
    BY <1>1, <1>5
  <2>2. after[k] = ApplyOne(after[k - 1], ops[k]) /\ known[k] = AfterOp(known[k - 1], ops[k])
    <3> HIDE DEF n
    <3> QED
      BY <1>2, <1>3, <2>1
  <2>3. Good(ApplyOne(after[k - 1], ops[k]), AfterOp(known[k - 1], ops[k]))
    <3> DEFINE a == after[k - 1]
               b == known[k - 1]
               op == ops[k]
    <3>1. Good(a, b) /\ OpTyped(op)
      BY <2>1
    <3> HIDE DEF a, b, op
    <3>2. Good(ApplyOne(a, op), AfterOp(b, op))
      BY <3>1, OneSure
    <3> QED
      BY <3>2 DEF a, b, op
  <2> QED
    BY <2>1, <2>2, <2>3
<1>6. 0..n \subseteq Sound
  <2> HIDE DEF Sound, n
  <2> QED
    BY <1>1, <1>4, <1>5, UpTo
<1>7. Good(after[n], known[n])
  BY <1>1, <1>6
<1>8. Apply(t, ops) = after[n] /\ AfterOps(before, ops) = known[n]
  BY DEF Apply, AfterOps, after, known
<1> QED
  BY <1>7, <1>8

-------------------------------------------------------------------------------
(* Fills *)

ConfigTyped(cfg) == cfg.strategy = "constant" => IsText(cfg.constant)

LEMMA FillTextTyped ==
    ASSUME NEW t, IsTextTable(t), NEW cfg, ConfigTyped(cfg), ~ FillFails(t, cfg), NEW r \in DOMAIN t.rows
    PROVE  IsText(FillText(t, cfg, r))
<1> DEFINE nums == CollectNums(t, cfg.column)
<1>1. cfg.strategy = "constant" => IsText(cfg.constant)
  BY DEF ConfigTyped
<1>2. ASSUME cfg.strategy \in {"mean", "median"}
      PROVE  nums # << >> => IsText(MeanText(nums)) /\ IsText(MedianText(nums))
  <2>1. ~ CollectFails(t, cfg.column)
    BY <1>2 DEF FillFails
  <2>2. nums \in Seq(Int)
    BY <2>1, NumsTyped
  <2> HIDE DEF nums
  <2> QED
    BY <2>2, MeanIsText, MedianIsText
<1>3. \A forward \in BOOLEAN : IsText(Carried(t, cfg.column, r, forward))
  <2> TAKE forward \in BOOLEAN
  <2> DEFINE F == Filled(t, cfg.column)
             before == {q \in F : q < r}
             after == {q \in F : q > r}
  <2>1. F \in SUBSET DOMAIN t.rows /\ DOMAIN t.rows \in SUBSET Nat /\ IsFiniteSet(DOMAIN t.rows)
    BY RowsTyped DEF Filled
  <2>2. before \in SUBSET DOMAIN t.rows /\ after \in SUBSET DOMAIN t.rows
    BY <2>1
  <2>3. /\ before \in SUBSET Nat /\ IsFiniteSet(before)
        /\ after \in SUBSET Nat /\ IsFiniteSet(after)
    <3> HIDE DEF before, after
    <3> QED
      BY <2>1, <2>2, FS_Subset
  <2>4. (before # {} => Max(before) \in before) /\ (after # {} => Min(after) \in after)
    <3> HIDE DEF before, after
    <3> QED
      BY <2>3, MaxIsLargest, MinIsLeast
  <2>5. \A q \in DOMAIN t.rows : IsText(Value(t, cfg.column, q))
    BY CellText DEF Value
  <2>6. \/ Carried(t, cfg.column, r, forward) = Empty
        \/ before # {} /\ Carried(t, cfg.column, r, forward) = Value(t, cfg.column, Max(before))
        \/ after # {} /\ Carried(t, cfg.column, r, forward) = Value(t, cfg.column, Min(after))
    BY DEF Carried
  <2> HIDE DEF before, after, F
  <2> QED
    BY <2>2, <2>4, <2>5, <2>6, EmptyText
<1>4. IsText(Carried(t, cfg.column, r, TRUE)) /\ IsText(Carried(t, cfg.column, r, FALSE))
  BY <1>3
<1> HIDE DEF nums
<1>5. FillText(t, cfg, r) =
        CASE cfg.strategy = "constant" -> cfg.constant
          [] cfg.strategy = "mean"     -> IF nums = <<>> THEN Empty ELSE MeanText(nums)
          [] cfg.strategy = "median"   -> IF nums = <<>> THEN Empty ELSE MedianText(nums)
          [] cfg.strategy = "forward"  -> Carried(t, cfg.column, r, TRUE)
          [] cfg.strategy = "backward" -> Carried(t, cfg.column, r, FALSE)
          [] OTHER                     -> Empty
  BY DEF FillText, nums
<1>6. CASE cfg.strategy = "constant"
  BY <1>1, <1>5, <1>6
<1>7. CASE cfg.strategy = "mean"
  BY <1>2, <1>5, <1>7, EmptyText
<1>8. CASE cfg.strategy = "median"
  BY <1>2, <1>5, <1>8, EmptyText
<1>9. CASE cfg.strategy = "forward"
  BY <1>4, <1>5, <1>9
<1>10. CASE cfg.strategy = "backward"
  BY <1>4, <1>5, <1>10
<1>11. CASE cfg.strategy \notin {"constant", "mean", "median", "forward", "backward"}
  BY <1>5, <1>11, EmptyText
<1> QED
  BY <1>6, <1>7, <1>8, <1>9, <1>10, <1>11

\* A fill changes no row that has a value in the column.
LEMMA FillChanges ==
    ASSUME NEW t, IsTextTable(t), NEW cfg, ConfigTyped(cfg), ~ FillFails(t, cfg)
    PROVE  /\ Rewrites(t, FillColumn(t, cfg), ColumnOf(t, cfg.column))
           /\ \A r \in DOMAIN t.rows :
                FillColumn(t, cfg).rows[r] =
                  IF r \in Reaching(t, cfg.column) \ Filled(t, cfg.column)
                  THEN [t.rows[r] EXCEPT ![ColumnOf(t, cfg.column)] = FillText(t, cfg, r)]
                  ELSE t.rows[r]
<1> DEFINE k == ColumnOf(t, cfg.column)
           u == FillColumn(t, cfg)
           S == Reaching(t, cfg.column) \ Filled(t, cfg.column)
           rows == [r \in DOMAIN t.rows |->
                      IF r \in S THEN [t.rows[r] EXCEPT ![k] = FillText(t, cfg, r)] ELSE t.rows[r]]
<1>1. u = [header |-> t.header, rows |-> rows]
  BY DEF FillColumn
<1>2. u = [header |-> t.header, rows |-> u.rows] /\ u.rows = [r \in DOMAIN t.rows |-> u.rows[r]]
      /\ \A r \in DOMAIN t.rows : u.rows[r] =
           IF r \in S THEN [t.rows[r] EXCEPT ![k] = FillText(t, cfg, r)] ELSE t.rows[r]
  <2> HIDE DEF u, S, k
  <2> QED
    BY <1>1
<1>3. \A r \in S : k \in DOMAIN t.rows[r]
  BY DEF Reaching
<1>4. \A r \in DOMAIN t.rows : IsText(FillText(t, cfg, r))
  BY FillTextTyped
<1>5. Rewrites(t, u, k)
  <2> HIDE DEF u, S, k, rows
  <2> QED
    BY <1>2, <1>3, <1>4 DEF Rewrites
<1> QED
  BY <1>2, <1>5

\* Rewriting cells of a column, none of them to the empty text.
LEMMA RewriteSure ==
    ASSUME NEW t, IsTextTable(t), NEW u, NEW name, HasColumn(t, name),
           Rewrites(t, u, ColumnOf(t, name)),
           \A r \in DOMAIN t.rows :
              CellAt(t.rows[r], ColumnOf(t, name)) # Empty => CellAt(u.rows[r], ColumnOf(t, name)) # Empty,
           NEW known, Sure(t, known),
           \A p \in known.promised : p.column # name \/ p.kind = "notnull"
    PROVE  IsTextTable(u) /\ Sure(u, known)
<1>1. IsTextTable(u) /\ (Aligned(t) => Aligned(u)) /\ u.header = t.header
  BY RewrittenTable
<1>2. \A r \in DOMAIN t.rows : Value(t, name, r) # Empty => Value(u, name, r) # Empty
  <2>1. ColumnOf(u, name) = ColumnOf(t, name)
    BY <1>1 DEF ColumnOf
  <2> QED
    BY <2>1 DEF Value
<1>3. ASSUME NEW p \in known.promised
      PROVE  p.kind \in PromiseKinds /\ Met(u, p)
  <2>1. p.kind \in PromiseKinds /\ Met(t, p)
    BY DEF Sure
  <2> QED
    BY <1>2, <2>1, RewriteKeeps
<1>4. Sure(u, known)
  BY <1>1, <1>3 DEF Sure
<1> QED
  BY <1>1, <1>4

LEMMA FillSure ==
    ASSUME NEW t, IsTextTable(t), NEW cfg, ConfigTyped(cfg), ~ FillFails(t, cfg),
           NEW known, Sure(t, known), \A p \in known.promised : p.column # cfg.column \/ p.kind = "notnull"
    PROVE  IsTextTable(FillColumn(t, cfg)) /\ Sure(FillColumn(t, cfg), known)
<1> DEFINE u == FillColumn(t, cfg)
           name == cfg.column
           k == ColumnOf(t, name)
<1>1. HasColumn(t, name)
  BY DEF FillFails
<1>2. /\ Rewrites(t, u, k)
      /\ \A r \in DOMAIN t.rows : r \notin Reaching(t, name) \ Filled(t, name) => u.rows[r] = t.rows[r]
  BY FillChanges
<1> HIDE DEF u
<1>3. \A r \in DOMAIN t.rows : CellAt(t.rows[r], k) # Empty => CellAt(u.rows[r], k) # Empty
  BY <1>2 DEF Filled, Value
<1>4. IsTextTable(u) /\ Sure(u, known)
  <2> HIDE DEF name
  <2> QED
    BY <1>1, <1>2, <1>3, RewriteSure DEF name
<1> QED
  BY <1>4 DEF u

LEMMA OneFillSure ==
    ASSUME NEW so_far, NEW known, Good(so_far, known), NEW cfg, ConfigTyped(cfg),
           \A p \in known.promised : p.column # cfg.column \/ p.kind = "notnull"
    PROVE  Good(FillOne(so_far, cfg), known)
<1>1. CASE so_far.status # "ok"
  BY <1>1 DEF Good, FillOne
<1>2. CASE so_far.status = "ok"
  <2> DEFINE t == so_far.table
  <2>1. IsTextTable(t) /\ Sure(t, known)
    BY <1>2 DEF Good
  <2>2. CASE FillFails(t, cfg)
    BY <1>2, <2>2 DEF Good, FillOne, Failed
  <2>3. CASE ~ FillFails(t, cfg)
    <3>1. FillOne(so_far, cfg) = Returned(FillColumn(t, cfg))
      BY <1>2, <2>3 DEF FillOne
    <3>2. IsTextTable(FillColumn(t, cfg)) /\ Sure(FillColumn(t, cfg), known)
      <4> HIDE DEF t
      <4> QED
        BY <2>1, <2>3, FillSure
    <3> HIDE DEF t
    <3> QED
      BY <3>1, <3>2 DEF Good, Returned
  <2> QED
    BY <2>2, <2>3
<1> QED
  BY <1>1, <1>2

\* The outcomes after each of the first n fills.
FillOutcomes(t, configs, n, f) ==
    f = [k \in 0..n |-> IF k = 0 THEN Returned(t) ELSE FillOne(f[k - 1], configs[k])]

LEMMA FilledInOrder ==
    ASSUME NEW t, NEW configs, NEW n \in Nat
    PROVE  \E f : FillOutcomes(t, configs, n, f)
<1> DEFINE Is(m, f) == f = [k \in 0..m |-> IF k = 0 THEN Returned(t) ELSE FillOne(f[k - 1], configs[k])]
           Done == {m \in 0..n : \E f : Is(m, f)}
<1>1. 0 \in Done
  <2> DEFINE f == [k \in 0..0 |-> Returned(t)]
  <2>1. Is(0, f) /\ 0 \in 0..n
    <3>1. \A k \in 0..0 : k = 0
      OBVIOUS
    <3> QED
      BY <3>1
  <2> HIDE DEF Is, f
  <2> QED
    BY <2>1
<1>2. ASSUME NEW m \in 1..n, m - 1 \in Done
      PROVE  m \in Done
  <2>1. PICK f : Is(m - 1, f)
    BY <1>2
  <2> DEFINE g == [k \in 0..m |-> IF k = m THEN FillOne(f[m - 1], configs[m]) ELSE f[k]]
  <2>2. m - 1 \in 0..m /\ m - 1 # m /\ m # 0 /\ m \in 0..n
        /\ \A k \in 0..m : k # m => k \in 0..(m - 1) /\ (k # 0 => k - 1 \in 0..m /\ k - 1 # m)
    OBVIOUS
  <2>3. ASSUME NEW k \in 0..m
        PROVE  g[k] = IF k = 0 THEN Returned(t) ELSE FillOne(g[k - 1], configs[k])
    <3>1. CASE k = m
      BY <2>2, <3>1
    <3>2. CASE k # m
      BY <2>1, <2>2, <3>2
    <3> QED
      BY <3>1, <3>2
  <2>4. g = [k \in 0..m |-> g[k]]
    OBVIOUS
  <2>5. Is(m, g)
    <3> HIDE DEF g
    <3> QED
      BY <2>3, <2>4
  <2> HIDE DEF Is, g
  <2> QED
    BY <2>2, <2>5
<1>3. n \in Done
  <2> HIDE DEF Done
  <2>1. 0..n \subseteq Done
    BY <1>1, <1>2, UpTo
  <2> QED
    BY <2>1
<1> QED
  BY <1>3 DEF FillOutcomes

LEMMA ApplyFillSure ==
    ASSUME NEW t, IsTextTable(t), NEW known, Sure(t, known),
           NEW configs, IsList(configs),
           \A k \in DOMAIN configs : ConfigTyped(configs[k]) /\
              \A p \in known.promised : p.column # configs[k].column \/ p.kind = "notnull"
    PROVE  Good(ApplyFill(t, configs), known)
<1> DEFINE n == Len(configs)
           after[k \in 0..Len(configs)] ==
             IF k = 0 THEN Returned(t) ELSE FillOne(after[k - 1], configs[k])
           Sound == {k \in 0..n : Good(after[k], known)}
<1>1. n \in Nat /\ DOMAIN configs = 1..n
  BY ListTyped
<1>2. after = [k \in 0..n |-> IF k = 0 THEN Returned(t) ELSE FillOne(after[k - 1], configs[k])]
  <2>1. \E f : FillOutcomes(t, configs, n, f)
    <3> HIDE DEF n
    <3> QED
      BY <1>1, FilledInOrder
  <2> QED
    BY <2>1 DEF FillOutcomes
<1> HIDE DEF after
<1>3. 0 \in Sound
  <2>1. after[0] = Returned(t)
    <3> HIDE DEF n
    <3> QED
      BY <1>1, <1>2
  <2> QED
    BY <1>1, <2>1 DEF Good, Returned
<1>4. ASSUME NEW k \in 1..n, k - 1 \in Sound
      PROVE  k \in Sound
  <2>1. k \in 0..n /\ k # 0 /\ k \in DOMAIN configs /\ Good(after[k - 1], known)
    BY <1>1, <1>4
  <2>2. after[k] = FillOne(after[k - 1], configs[k])
    <3> HIDE DEF n
    <3> QED
      BY <1>2, <2>1
  <2>3. Good(FillOne(after[k - 1], configs[k]), known)
    <3> DEFINE a == after[k - 1]
               cfg == configs[k]
    <3>1. Good(a, known) /\ ConfigTyped(cfg)
          /\ \A p \in known.promised : p.column # cfg.column \/ p.kind = "notnull"
      BY <2>1
    <3> HIDE DEF a, cfg
    <3>2. Good(FillOne(a, cfg), known)
      BY <3>1, OneFillSure
    <3> QED
      BY <3>2 DEF a, cfg
  <2> QED
    BY <2>1, <2>2, <2>3
<1>5. 0..n \subseteq Sound
  <2> HIDE DEF Sound, n
  <2> QED
    BY <1>1, <1>3, <1>4, UpTo
<1>6. Good(after[n], known)
  BY <1>1, <1>5
<1>7. ApplyFill(t, configs) = after[n]
  BY DEF ApplyFill, after
<1> QED
  BY <1>6, <1>7

-------------------------------------------------------------------------------
(* ClampValues, NormalizeColumn and FilterStage *)

Clamped(t, name, min, max) ==
    WithCells(t, ColumnOf(t, name),
              [r \in DOMAIN t.rows |-> ClampCell(CellAt(t.rows[r], ColumnOf(t, name)), min, max)])

LEMMA ClampChanges ==
    ASSUME NEW t, NEW name, HasColumn(t, name), NEW min, NEW max
    PROVE  ClampValues(t, name, min, max) = Returned(Clamped(t, name, min, max))
<1> DEFINE k == ColumnOf(t, name)
           cells == [r \in DOMAIN t.rows |-> ClampCell(CellAt(t.rows[r], k), min, max)]
           u == OnColumn(t, name, LAMBDA c : ClampCell(c, min, max))
<1>1. u = [header |-> t.header, rows |-> [r \in DOMAIN t.rows |->
             IF k \in DOMAIN t.rows[r] THEN [t.rows[r] EXCEPT ![k] = ClampCell(t.rows[r][k], min, max)]
             ELSE t.rows[r]]]
  BY DEF OnColumn
<1>2. \A r \in DOMAIN t.rows : k \in DOMAIN t.rows[r] => cells[r] = ClampCell(t.rows[r][k], min, max)
  BY DEF CellAt
<1>3. u = WithCells(t, k, cells)
  <2> HIDE DEF k, cells, u
  <2> QED
    BY <1>1, <1>2 DEF WithCells
<1>4. ClampValues(t, name, min, max) = Returned(u)
  BY DEF ClampValues
<1> QED
  BY <1>3, <1>4 DEF Clamped

LEMMA ClampCellText ==
    ASSUME NEW c, IsText(c), NEW min \in Int, NEW max \in Int
    PROVE  IsText(ClampCell(c, min, max)) /\ (c # Empty => ClampCell(c, min, max) # Empty)
<1>1. /\ IsText(FormatNum(min, 1)) /\ FormatNum(min, 1) # Empty
      /\ IsText(FormatNum(max, 1)) /\ FormatNum(max, 1) # Empty
  <2> DEFINE one == 1
  <2>1. one \in Nat \ {0}
    OBVIOUS
  <2> HIDE DEF one
  <2>2. /\ IsText(FormatNum(min, one)) /\ FormatNum(min, one) # Empty
        /\ IsText(FormatNum(max, one)) /\ FormatNum(max, one) # Empty
    BY <2>1, FormatText
  <2> QED
    BY <2>2 DEF one
<1>2. ClampCell(c, min, max) \in {c, FormatNum(min, 1), FormatNum(max, 1)}
  BY DEF ClampCell
<1> QED
  BY <1>1, <1>2

LEMMA ClampSure ==
    ASSUME NEW t, IsTextTable(t), NEW name, NEW min \in Int, NEW max \in Int,
           NEW known, Sure(t, known), \A p \in known.promised : p.column # name \/ p.kind = "notnull"
    PROVE  Good(ClampValues(t, name, min, max), known)
<1>1. CASE ~ HasColumn(t, name)
  BY <1>1 DEF ClampValues, Failed, Good
<1>2. CASE HasColumn(t, name)
  <2> DEFINE k == ColumnOf(t, name)
             cells == [r \in DOMAIN t.rows |-> ClampCell(CellAt(t.rows[r], k), min, max)]
             u == WithCells(t, k, cells)
  <2>1. \A r \in DOMAIN t.rows : IsText(cells[r]) /\ (CellAt(t.rows[r], k) # Empty => cells[r] # Empty)
    <3> TAKE r \in DOMAIN t.rows
    <3>1. IsText(CellAt(t.rows[r], k))
      BY CellText
    <3>2. IsText(ClampCell(CellAt(t.rows[r], k), min, max))
          /\ (CellAt(t.rows[r], k) # Empty => ClampCell(CellAt(t.rows[r], k), min, max) # Empty)
      <4> DEFINE c == CellAt(t.rows[r], k)
      <4> HIDE DEF c
      <4> QED
        BY <3>1, ClampCellText DEF c
    <3> QED
      BY <3>2
  <2>2. ClampValues(t, name, min, max) = Returned(u)
    BY <1>2, ClampChanges DEF Clamped
  <2> HIDE DEF cells
  <2>3. /\ Rewrites(t, u, k)
        /\ \A r \in DOMAIN t.rows : CellAt(u.rows[r], k) = IF k \in DOMAIN t.rows[r] THEN cells[r] ELSE Empty
    <3> HIDE DEF k
    <3> QED
      BY <2>1, CellsChanged
  <2> HIDE DEF u
  <2>4. \A r \in DOMAIN t.rows : CellAt(t.rows[r], k) # Empty => CellAt(u.rows[r], k) # Empty
    BY <2>1, <2>3 DEF CellAt
  <2>5. IsTextTable(u) /\ Sure(u, known)
    BY <1>2, <2>3, <2>4, RewriteSure
  <2> QED
    BY <2>2, <2>5 DEF Returned, Good
<1> QED
  BY <1>1, <1>2

\* The extremes of a list whose first number is not NaN.
LEMMA Extremes ==
    ASSUME NEW nums \in Seq(Int), nums # << >>, Head(nums) # NaN
    PROVE  /\ Low(nums) \in ToSet(nums) \ {NaN} /\ High(nums) \in ToSet(nums) \ {NaN}
           /\ Low(nums) \in Int /\ High(nums) \in Int
           /\ \A n \in ToSet(nums) : n # NaN => Low(nums) <= n /\ n <= High(nums)
<1> DEFINE S == ToSet(nums) \ {NaN}
           n == Len(nums)
<1>1. n \in Nat \ {0} /\ DOMAIN nums = 1..n /\ nums \in [1..n -> Int] /\ \A k \in 1..n : nums[k] \in Int
  BY LenProperties, EmptySeq, ElementOfSeq
<1>2. ToSet(nums) \in SUBSET Int /\ nums[1] \in ToSet(nums) /\ Head(nums) = nums[1]
  <2>1. 1 \in 1..n
    <3> HIDE DEF n
    <3> QED
      BY <1>1
  <2>2. ToSet(nums) \in SUBSET Int /\ nums[1] \in ToSet(nums)
    <3> HIDE DEF n
    <3> QED
      BY <1>1, <2>1 DEF ToSet
  <2>3. Head(nums) = nums[1]
    OBVIOUS
  <2> QED
    BY <2>2, <2>3
<1>3. IsFiniteSet(ToSet(nums))
  <2>1. IsFiniteSet(1..n)
    <3> HIDE DEF n
    <3>1. 1 \in Int /\ n \in Int
      BY <1>1
    <3> QED
      BY <3>1, FS_Interval
  <2>2. nums \in Surjection(1..n, ToSet(nums))
    <3> HIDE DEF n
    <3> QED
      BY <1>1 DEF Surjection, ToSet
  <2> HIDE DEF n
  <2> QED
    BY <2>1, <2>2, FS_Surjection
<1>4. S \in SUBSET Int /\ IsFiniteSet(S) /\ S # {}
  <2>1. S \in SUBSET ToSet(nums)
    OBVIOUS
  <2>2. IsFiniteSet(S)
    <3> HIDE DEF S
    <3> QED
      BY <1>3, <2>1, FS_Subset
  <2> QED
    BY <1>2, <2>2
<1>5. Min(S) \in S /\ (\A m \in S : Min(S) <= m) /\ Max(S) \in S /\ \A m \in S : Max(S) >= m
  <2> HIDE DEF S
  <2> QED
    BY <1>4, IntMinIsLeast, IntMaxIsLargest
<1>6. \A m \in S : Min(S) <= m /\ m <= Max(S)
  <2> HIDE DEF S
  <2> QED
    BY <1>4, <1>5
<1> QED
  BY <1>4, <1>5, <1>6 DEF Low, High

Normalized(t, name, nums) ==
    WithCells(t, ColumnOf(t, name),
              [r \in DOMAIN t.rows |-> NormalizeCell(CellAt(t.rows[r], ColumnOf(t, name)), nums)])

LEMMA NormalizeChanges ==
    ASSUME NEW t, NEW name, HasColumn(t, name), ~ CollectFails(t, name),
           NEW nums, nums = CollectNums(t, name),
           nums # <<>>, Head(nums) = NaN \/ Low(nums) # High(nums)
    PROVE  NormalizeColumn(t, name) = Returned(Normalized(t, name, nums))
<1> DEFINE k == ColumnOf(t, name)
           cells == [r \in DOMAIN t.rows |-> NormalizeCell(CellAt(t.rows[r], k), nums)]
           u == OnColumn(t, name, LAMBDA c : NormalizeCell(c, nums))
<1>1. u = [header |-> t.header, rows |-> [r \in DOMAIN t.rows |->
             IF k \in DOMAIN t.rows[r] THEN [t.rows[r] EXCEPT ![k] = NormalizeCell(t.rows[r][k], nums)]
             ELSE t.rows[r]]]
  BY DEF OnColumn
<1>2. \A r \in DOMAIN t.rows : k \in DOMAIN t.rows[r] => cells[r] = NormalizeCell(t.rows[r][k], nums)
  BY DEF CellAt
<1>3. u = WithCells(t, k, cells)
  <2> HIDE DEF k, cells, u
  <2> QED
    BY <1>1, <1>2 DEF WithCells
<1>4. NormalizeColumn(t, name) = Returned(u)
  BY DEF NormalizeColumn
<1> QED
  BY <1>3, <1>4 DEF Normalized

LEMMA RoundedInt ==
    ASSUME NEW a \in Int, NEW b \in Nat \ {0}, NEW grain \in Nat \ {0}
    PROVE  Rounded(a, b, grain) \in Int
<1>1. b * grain \in Nat \ {0} /\ 2 * a \in Int
  OBVIOUS
<1>2. 2 * b * grain \in Nat \ {0} /\ 2 * a + b * grain \in Int
  BY <1>1
<1>3. (2 * a + b * grain) \div (2 * b * grain) \in Int
  <2> DEFINE x == 2 * a + b * grain
             y == 2 * b * grain
  <2>1. x \in Int /\ y \in Nat \ {0}
    BY <1>2
  <2> HIDE DEF x, y
  <2>2. x \div y \in Int
    BY <2>1
  <2> QED
    BY <2>2 DEF x, y
<1> DEFINE q == (2 * a + b * grain) \div (2 * b * grain)
<1>4. q \in Int
  BY <1>3
<1>5. Rounded(a, b, grain) = q * grain
  BY DEF Rounded
<1> HIDE DEF q
<1> QED
  BY <1>4, <1>5

LEMMA NormalizeCellText ==
    ASSUME NEW nums \in Seq(Int), nums # <<>>, Head(nums) = NaN \/ Low(nums) # High(nums),
           NEW c, IsText(c), c # Empty => ParsesFloat(c)
    PROVE  IsText(NormalizeCell(c, nums)) /\ (c # Empty => NormalizeCell(c, nums) # Empty)
<1>1. CASE c = Empty
  BY <1>1 DEF NormalizeCell
<1>2. CASE c # Empty /\ (Head(nums) = NaN \/ FloatOf(c) = NaN)
  BY <1>2, NaNText DEF NormalizeCell
<1>3. CASE c # Empty /\ ~ (Head(nums) = NaN \/ FloatOf(c) = NaN)
  <2> DEFINE a == (FloatOf(c) - Low(nums)) * One
             b == High(nums) - Low(nums)
             m == Rounded(a, b, Fine)
  <2>1. /\ Low(nums) \in Int /\ High(nums) \in Int /\ Low(nums) \in ToSet(nums) \ {NaN}
        /\ \A n \in ToSet(nums) : n # NaN => Low(nums) <= n /\ n <= High(nums)
    BY <1>3, Extremes
  <2>2. Low(nums) < High(nums)
    BY <1>3, <2>1
  <2>3. FloatOf(c) \in Int
    BY <1>3, NumberOf
  <2>4. a \in Int /\ b \in Nat \ {0} /\ Fine \in Nat \ {0}
    BY <2>1, <2>2, <2>3 DEF One, Fine
  <2>5. m \in Int
    <3> HIDE DEF a, b
    <3> QED
      BY <2>4, RoundedInt
  <2>6. NormalizeCell(c, nums) = <<Numeral("d6", m)>>
    BY <1>3 DEF NormalizeCell
  <2>7. IsText(<<Numeral("d6", m)>>) /\ <<Numeral("d6", m)>> # Empty
    <3> HIDE DEF m
    <3> QED
      BY <2>5, NumeralText
  <2> QED
    BY <2>6, <2>7
<1> QED
  BY <1>1, <1>2, <1>3

LEMMA NormalizeSure ==
    ASSUME NEW t, IsTextTable(t), NEW name,
           NEW known, Sure(t, known), \A p \in known.promised : p.column # name \/ p.kind = "notnull"
    PROVE  Good(NormalizeColumn(t, name), known)
<1> DEFINE nums == CollectNums(t, name)
<1>1. CASE ~ HasColumn(t, name) \/ CollectFails(t, name)
  BY <1>1 DEF NormalizeColumn, Failed, Good
<1>2. CASE HasColumn(t, name) /\ ~ CollectFails(t, name)
           /\ (nums = <<>> \/ (Head(nums) # NaN /\ Low(nums) = High(nums)))
  <2>1. NormalizeColumn(t, name) = Returned(t)
    BY <1>2 DEF NormalizeColumn
  <2> QED
    BY <2>1 DEF Returned, Good
<1>3. CASE HasColumn(t, name) /\ ~ CollectFails(t, name)
           /\ nums # <<>> /\ (Head(nums) = NaN \/ Low(nums) # High(nums))
  <2> DEFINE k == ColumnOf(t, name)
             cells == [r \in DOMAIN t.rows |-> NormalizeCell(CellAt(t.rows[r], k), nums)]
             u == WithCells(t, k, cells)
  <2>1. nums \in Seq(Int)
    BY <1>3, NumsTyped
  <2>2. NormalizeColumn(t, name) = Returned(Normalized(t, name, nums))
    <3> DEFINE ns == nums
    <3>1. ns = CollectNums(t, name) /\ ns # <<>> /\ (Head(ns) = NaN \/ Low(ns) # High(ns))
      BY <1>3
    <3> HIDE DEF ns
    <3>2. NormalizeColumn(t, name) = Returned(Normalized(t, name, ns))
      BY <1>3, <3>1, NormalizeChanges
    <3> QED
      BY <3>2 DEF ns
  <2> HIDE DEF nums
  <2>3. \A r \in DOMAIN t.rows : IsText(cells[r]) /\ (CellAt(t.rows[r], k) # Empty => cells[r] # Empty)
    <3> TAKE r \in DOMAIN t.rows
    <3> DEFINE c == CellAt(t.rows[r], k)
    <3>1. IsText(c)
      BY CellText
    <3>2. c # Empty => ParsesFloat(c)
      BY <1>3 DEF CollectFails, Filled, Value
    <3>3. IsText(NormalizeCell(c, nums)) /\ (c # Empty => NormalizeCell(c, nums) # Empty)
      <4> HIDE DEF c
      <4> QED
        BY <1>3, <2>1, <3>1, <3>2, NormalizeCellText
    <3> QED
      BY <3>3
  <2>4. NormalizeColumn(t, name) = Returned(u)
    BY <2>2 DEF Normalized
  <2> HIDE DEF cells
  <2>5. /\ Rewrites(t, u, k)
        /\ \A r \in DOMAIN t.rows : CellAt(u.rows[r], k) = IF k \in DOMAIN t.rows[r] THEN cells[r] ELSE Empty
    <3> HIDE DEF k
    <3> QED
      BY <2>3, CellsChanged
  <2> HIDE DEF u
  <2>6. \A r \in DOMAIN t.rows : CellAt(t.rows[r], k) # Empty => CellAt(u.rows[r], k) # Empty
    BY <2>3, <2>5 DEF CellAt
  <2>7. IsTextTable(u) /\ Sure(u, known)
    BY <1>3, <2>5, <2>6, RewriteSure
  <2> QED
    BY <2>4, <2>7 DEF Returned, Good
<1> QED
  BY <1>1, <1>2, <1>3

LEMMA FilterStageSure ==
    ASSUME NEW t, IsTextTable(t), NEW name, NEW known, Sure(t, known)
    PROVE  Good(FilterStage(t, name),
                [aligned |-> known.aligned,
                 promised |-> known.promised \cup {[column |-> name, kind |-> "notnull"]}])
<1> DEFINE S == Filled(t, name)
           u == Kept(t, S)
           p == [column |-> name, kind |-> "notnull"]
           after == [aligned |-> known.aligned, promised |-> known.promised \cup {p}]
<1>1. CASE ~ HasColumn(t, name)
  BY <1>1 DEF FilterStage, Failed, Good
<1>2. CASE HasColumn(t, name)
  <2>1. S \in SUBSET DOMAIN t.rows
    BY DEF Filled
  <2>2. /\ IsTextTable(u) /\ (Aligned(t) => Aligned(u))
        /\ \A r \in DOMAIN u.rows : Nth(S, r) \in S
        /\ (HasColumn(u, name) <=> HasColumn(t, name))
        /\ \A r \in DOMAIN u.rows : Value(u, name, r) = Value(t, name, Nth(S, r))
    <3> HIDE DEF S
    <3> QED
      BY <2>1, KeptRowsTable, KeptValues
  <2>3. \A r \in S : Value(t, name, r) # Empty
    BY DEF Filled
  <2>4. p.kind \in PromiseKinds /\ Met(u, p)
    <3>1. p.kind = "notnull" /\ p.column = name /\ p.kind \in PromiseKinds
      BY DEF PromiseKinds
    <3>2. \A r \in DOMAIN u.rows : Value(u, name, r) # Empty
      <4> HIDE DEF S, u
      <4> QED
        BY <2>2, <2>3
    <3> HIDE DEF p, u
    <3> QED
      BY <1>2, <2>2, <3>1, <3>2, MetMeans
  <2>5. \A x \in known.promised : x.kind \in PromiseKinds /\ Met(u, x)
    <3>1. \A x \in known.promised : x.kind \in PromiseKinds /\ Met(t, x)
      BY DEF Sure
    <3> HIDE DEF S
    <3> QED
      BY <2>1, <3>1, KeptKeeps
  <2>6. known.aligned => Aligned(u)
    BY <2>2 DEF Sure
  <2>7. Sure(u, after)
    <3> HIDE DEF u, p
    <3> QED
      BY <2>4, <2>5, <2>6 DEF Sure
  <2>8. FilterStage(t, name) = Returned(u)
    BY <1>2 DEF FilterStage
  <2> HIDE DEF u
  <2> QED
    BY <2>2, <2>7, <2>8 DEF Returned, Good
<1> QED
  BY <1>1, <1>2

-------------------------------------------------------------------------------
(* Loads *)

LEMMA ValueText ==
    ASSUME NEW v, v.is = "null" \/ (v.is = "text" /\ IsText(v.text)) \/ (v.is = "number" /\ v.number \in Int)
    PROVE  IsText(ValueToString(v))
<1>1. CASE v.is = "null"
  BY <1>1, EmptyText DEF ValueToString
<1>2. CASE v.is = "text" /\ IsText(v.text)
  BY <1>2 DEF ValueToString
<1>3. CASE v.is = "number" /\ v.number \in Int
  <2>1. ValueToString(v) = <<Numeral("plain", v.number)>>
    BY <1>3 DEF ValueToString
  <2>2. IsText(<<Numeral("plain", v.number)>>)
    BY <1>3, NumeralText
  <2> QED
    BY <2>1, <2>2
<1> QED
  BY <1>1, <1>2, <1>3

LEMMA JsonTables ==
    ASSUME NEW records \in JsonInputs, NEW t \in ParseJSON(records)
    PROVE  IsTextTable(t) /\ Aligned(t)
<1> DEFINE n == Len(records)
           keys == UNION {DOMAIN records[r] : r \in DOMAIN records}
           m == Cardinality(keys)
           text(r, key) == IF key \in DOMAIN records[r] THEN ValueToString(records[r][key]) ELSE Empty
<1>1. PICK order \in KeyOrders(records) :
        t = [header |-> order,
             rows |-> [r \in DOMAIN records |-> [l \in DOMAIN order |-> text(r, order[l])]]]
  BY DEF ParseJSON
<1>2. n \in Nat /\ DOMAIN records = 1..n /\ IsFiniteSet(DOMAIN records)
  BY ListTyped, JsonAssumption
<1>3. \A r \in 1..n : IsFiniteSet(DOMAIN records[r])
  BY <1>2, JsonAssumption
<1>4. \A r \in 1..n : \A key : IsText(text(r, key))
  <2> SUFFICES ASSUME NEW r \in 1..n, NEW key \in DOMAIN records[r]
               PROVE  IsText(ValueToString(records[r][key]))
    BY EmptyText
  <2> DEFINE v == records[r][key]
  <2>1. v.is = "null" \/ (v.is = "text" /\ IsText(v.text)) \/ (v.is = "number" /\ v.number \in Int)
    BY <1>2, JsonAssumption
  <2> HIDE DEF v
  <2>2. IsText(ValueToString(v))
    BY <2>1, ValueText
  <2> QED
    BY <2>2 DEF v
<1>5. m \in Nat
  <2> DEFINE K == {DOMAIN records[r] : r \in DOMAIN records}
             f == [r \in DOMAIN records |-> DOMAIN records[r]]
  <2>1. f \in Surjection(DOMAIN records, K)
    BY DEF Surjection
  <2>2. IsFiniteSet(K)
    <3> HIDE DEF K, f
    <3> QED
      BY <1>2, <2>1, FS_Surjection
  <2>3. \A T \in K : IsFiniteSet(T)
    BY <1>2, <1>3
  <2>4. IsFiniteSet(UNION K)
    <3> HIDE DEF K
    <3> QED
      BY <2>2, <2>3, FS_UNION
  <2>5. IsFiniteSet(keys)
    BY <2>4
  <2> HIDE DEF keys
  <2> QED
    BY <2>5, FS_CardinalityType
<1>6. order \in [1..m -> keys]
  BY <1>1 DEF KeyOrders, SetToSeqs
<1>7. IsList(order) /\ Len(order) = m /\ DOMAIN order = 1..m
  <2> HIDE DEF keys, m
  <2> QED
    BY <1>5, <1>6, FunctionIsList
<1> DEFINE rows == [r \in 1..n |-> [l \in 1..m |-> text(r, order[l])]]
<1>8. t = [header |-> order, rows |-> rows]
  <2> HIDE DEF n, m, text
  <2> QED
    BY <1>1, <1>2, <1>7
<1>9. ASSUME NEW r \in 1..n
      PROVE  IsTextRow(rows[r]) /\ Len(rows[r]) = m
  <2> DEFINE row == [l \in 1..m |-> text(r, order[l])]
  <2>1. \A l \in 1..m : IsText(row[l])
    <3> HIDE DEF text, m, n
    <3> QED
      BY <1>4
  <2>2. DOMAIN row = 1..m /\ row = [l \in 1..m |-> row[l]] /\ row \in [1..m -> ToSet(row)]
    BY DEF ToSet
  <2>3. IsTextRow(row) /\ Len(row) = m
    <3> HIDE DEF row, m
    <3> QED
      BY <1>5, <2>1, <2>2, RowMade, FunctionIsList
  <2>4. rows[r] = row
    <3> HIDE DEF text, m, n
    <3> QED
      OBVIOUS
  <2> HIDE DEF row, rows, m
  <2> QED
    BY <2>3, <2>4
<1>10. DOMAIN rows = 1..n /\ rows = [r \in 1..n |-> rows[r]]
  OBVIOUS
<1> HIDE DEF rows, m, n
<1>11. IsTextTable([header |-> order, rows |-> rows])
  BY <1>2, <1>7, <1>9, <1>10, TableMade
<1>12. IsTextTable(t) /\ t.header = order /\ t.rows = rows
  BY <1>8, <1>11
<1> QED
  BY <1>7, <1>9, <1>10, <1>12 DEF Aligned

LEMMA FieldText ==
    ASSUME NEW line, IsText(line), NEW widths \in Seq(Nat), NEW l \in DOMAIN widths
    PROVE  IsText(Field(line, widths, l))
<1> DEFINE n == Len(widths)
           end[j \in 0..Len(widths)] == IF j = 0 THEN 0 ELSE end[j - 1] + widths[j]
           step == [j \in 1..n |-> [s \in Nat |-> s + widths[j]]]
           zero == 0
<1>1. n \in Nat /\ DOMAIN widths = 1..n /\ \A j \in 1..n : widths[j] \in Nat
  BY LenProperties, ElementOfSeq
<1>2. step \in [1..n -> [Nat -> Nat]] /\ zero \in Nat
  BY <1>1
<1>3. PICK f : Follows(f, n, Nat, zero, step)
  <2> HIDE DEF n, step, zero
  <2>1. \E f : Follows(f, n, Nat, zero, step)
    BY <1>1, <1>2, Recursion
  <2> QED
    BY <2>1
<1>4. f \in [0..n -> Nat] /\ f[0] = 0 /\ \A j \in 1..n : f[j] = f[j - 1] + widths[j]
  <2>1. f \in [0..n -> Nat] /\ f[0] = 0 /\ \A j \in 1..n : f[j] = step[j][f[j - 1]]
    BY <1>3 DEF Follows
  <2>2. ASSUME NEW j \in 1..n
        PROVE  f[j] = f[j - 1] + widths[j]
    <3>1. j - 1 \in 0..n
      <4> HIDE DEF n
      <4> QED
        BY <1>1
    <3>2. f[j - 1] \in Nat
      <4> HIDE DEF n, step
      <4> QED
        BY <2>1, <3>1
    <3>3. step[j][f[j - 1]] = f[j - 1] + widths[j]
      BY <3>2
    <3> HIDE DEF step, n
    <3> QED
      BY <2>1, <3>3
  <2> QED
    BY <2>1, <2>2
<1>5. f = [j \in 0..n |-> IF j = 0 THEN 0 ELSE f[j - 1] + widths[j]]
  <2> HIDE DEF n
  <2>1. \A j \in 0..n : j # 0 => j \in 1..n
    BY <1>1
  <2>2. f = [j \in 0..n |-> f[j]]
    BY <1>4
  <2>3. \A j \in 0..n : f[j] = IF j = 0 THEN 0 ELSE f[j - 1] + widths[j]
    BY <1>4, <2>1
  <2> QED
    BY <2>2, <2>3
<1>6. end = [j \in 0..n |-> IF j = 0 THEN 0 ELSE end[j - 1] + widths[j]]
  BY <1>5
<1> DEFINE Sound == {j \in 0..n : end[j] \in Nat}
<1>7. 0..n \subseteq Sound
  <2> HIDE DEF end
  <2>1. 0 \in Sound
    <3> HIDE DEF n
    <3> QED
      BY <1>1, <1>6
  <2>2. ASSUME NEW j \in 1..n, j - 1 \in Sound
        PROVE  j \in Sound
    <3> HIDE DEF n
    <3>1. j \in 0..n /\ j # 0 /\ widths[j] \in Nat /\ end[j - 1] \in Nat
      BY <1>1, <2>2
    <3>2. end[j] = end[j - 1] + widths[j]
      BY <1>6, <3>1
    <3> QED
      BY <3>1, <3>2
  <2> HIDE DEF Sound, n
  <2> QED
    BY <1>1, <2>1, <2>2, UpTo
<1> HIDE DEF end
<1>8. end[l - 1] \in Nat /\ end[l] \in Nat
  <2>1. l \in 0..n /\ l - 1 \in 0..n
    <3> HIDE DEF n
    <3> QED
      BY <1>1
  <2> HIDE DEF n
  <2> QED
    BY <1>7, <2>1
<1> DEFINE len == Len(line)
           stop == end[l]
           last == Min({stop, len})
           from == end[l - 1] + 1
<1>9. len \in Nat
  BY TextAtoms
<1>10. last \in Int /\ last <= len
  <2>1. stop \in Int /\ len \in Int
    BY <1>8, <1>9
  <2> HIDE DEF stop, len
  <2>2. /\ Min({stop, len}) \in {stop, len} /\ Min({stop, len}) <= stop /\ Min({stop, len}) <= len
        /\ Max({stop, len}) \in {stop, len} /\ Max({stop, len}) >= stop /\ Max({stop, len}) >= len
    BY <2>1, PairExtremes
  <2> QED
    BY <2>1, <2>2
<1>11. from \in Int /\ from >= 1
  BY <1>8
<1>12. IsText(SubSeq(line, from, last))
  <2>1. last <= Len(line)
    BY <1>10
  <2> HIDE DEF from, last
  <2> QED
    BY <1>10, <1>11, <2>1, PartText
<1>13. IsText(TrimSpace(SubSeq(line, from, last)))
  BY <1>12, TrimText
<1>14. Field(line, widths, l) = TrimSpace(SubSeq(line, from, last))
  BY DEF Field, end
<1> QED
  BY <1>13, <1>14

LEMMA SplitRow ==
    ASSUME NEW line, IsText(line), NEW widths \in Seq(Nat)
    PROVE  IsTextRow(SplitFixed(line, widths)) /\ Len(SplitFixed(line, widths)) = Len(widths)
<1> DEFINE n == Len(widths)
           row == SplitFixed(line, widths)
<1>1. n \in Nat /\ DOMAIN widths = 1..n
  BY LenProperties
<1>2. row = [l \in 1..n |-> Field(line, widths, l)]
  BY <1>1 DEF SplitFixed
<1>3. \A l \in 1..n : IsText(row[l])
  <2> TAKE l \in 1..n
  <2>1. IsText(Field(line, widths, l))
    BY <1>1, FieldText
  <2> QED
    BY <1>2, <2>1
<1>4. DOMAIN row = 1..n /\ row = [l \in 1..n |-> row[l]] /\ row \in [1..n -> ToSet(row)]
  BY <1>2 DEF ToSet
<1> HIDE DEF row, n
<1>5. IsTextRow(row) /\ Len(row) = n
  BY <1>1, <1>3, <1>4, RowMade, FunctionIsList
<1> QED
  BY <1>5 DEF row, n

LEMMA FixedTables ==
    ASSUME NEW lines, IsList(lines), \A k \in DOMAIN lines : IsText(lines[k]), NEW widths \in Seq(Nat)
    PROVE  /\ IsTextTable(ParseFixed(lines, widths))
           /\ ParseFixed(lines, widths).header # <<>> => Aligned(ParseFixed(lines, widths))
<1> DEFINE n == Len(lines) - 1
           t == ParseFixed(lines, widths)
           header == IF lines = <<>> \/ Head(lines) = Empty THEN <<>> ELSE SplitFixed(Head(lines), widths)
           rows == [r \in 1..n |-> SplitFixed(lines[r + 1], widths)]
<1>1. t = [header |-> header, rows |-> rows]
  BY DEF ParseFixed
<1>2. Len(lines) \in Nat /\ DOMAIN lines = 1..Len(lines) /\ lines \in Seq(ToSet(lines))
  BY ListTyped
<1>3. IsList(header) /\ (header # <<>> => Len(header) = Len(widths))
  <2>1. CASE lines = <<>> \/ Head(lines) = Empty
    <3>1. IsList(<< >>)
      BY EmptySeq DEF IsList
    <3> QED
      BY <2>1, <3>1
  <2>2. CASE ~ (lines = <<>> \/ Head(lines) = Empty)
    <3>1. Len(lines) \in Nat \ {0}
      BY <1>2, <2>2, EmptySeq
    <3>2. Head(lines) = lines[1] /\ 1 \in DOMAIN lines
      BY <1>2, <3>1
    <3>3. IsText(Head(lines))
      BY <3>2
    <3>4. header = SplitFixed(Head(lines), widths)
      BY <2>2
    <3> HIDE DEF header
    <3> QED
      BY <3>3, <3>4, SplitRow DEF IsTextRow
  <2> QED
    BY <2>1, <2>2
<1>4. \A r \in 1..n : IsTextRow(rows[r]) /\ Len(rows[r]) = Len(widths)
  <2> TAKE r \in 1..n
  <2>1. IsText(lines[r + 1])
    BY <1>2
  <2>2. IsTextRow(SplitFixed(lines[r + 1], widths)) /\ Len(SplitFixed(lines[r + 1], widths)) = Len(widths)
    BY <2>1, SplitRow
  <2>3. rows[r] = SplitFixed(lines[r + 1], widths)
    OBVIOUS
  <2> HIDE DEF rows
  <2> QED
    BY <2>2, <2>3
<1>5. DOMAIN rows = 1..n /\ rows = [r \in 1..n |-> rows[r]]
  OBVIOUS
<1>6. IsTextTable([header |-> header, rows |-> rows])
  <2>1. CASE n \in Nat
    <3> HIDE DEF header, rows, n
    <3> QED
      BY <1>3, <1>4, <1>5, <2>1, TableMade
  <2>2. CASE n \notin Nat
    <3> DEFINE none == 0
    <3>1. n = -1 /\ 1..n = 1..none /\ none \in Nat
      BY <1>2, <2>2
    <3>2. DOMAIN rows = 1..none /\ rows = [r \in 1..none |-> rows[r]] /\ \A r \in 1..none : IsTextRow(rows[r])
      <4> HIDE DEF header, rows, n, none
      <4> QED
        BY <1>4, <1>5, <3>1
    <3> HIDE DEF header, rows, n, none
    <3> QED
      BY <1>3, <3>1, <3>2, TableMade
  <2> QED
    BY <2>1, <2>2
<1>7. IsTextTable(t) /\ t.header = header /\ t.rows = rows
  <2> HIDE DEF header, rows
  <2> QED
    BY <1>1, <1>6
<1> HIDE DEF t, header, rows, n
<1>8. t.header # <<>> => Aligned(t)
  BY <1>3, <1>4, <1>5, <1>7 DEF Aligned
<1> QED
  BY <1>7, <1>8 DEF t

-------------------------------------------------------------------------------
(* What calls have established *)

BenchInv ==
    /\ IsTextTable(table) /\ Sure(table, Known)
    /\ calls \in Nat /\ (calls = 0 => promised = {})

\* A call whose outcome is a failure or a table of which what is known is true
\* leaves it that way.
LEMMA CallKeeps ==
    ASSUME NEW result, NEW known, Good(result, known), BenchInv, CallReturns(result, known)
    PROVE  BenchInv'
<1>1. calls \in Nat /\ calls' = calls + 1 /\ calls' \in Nat /\ calls' # 0
  BY DEF BenchInv, CallReturns
<1>2. IsTextTable(table)' /\ Sure(table, Known)'
  <2>1. CASE result.status = "ok"
    <3>1. table' = result.table /\ aligned' = known.aligned /\ promised' = known.promised
      BY <2>1 DEF CallReturns
    <3>2. IsTextTable(table') /\ Sure(table', known)
      BY <2>1, <3>1 DEF Good
    <3> QED
      BY <3>1, <3>2 DEF Sure, Known, IsTextTable, IsTable
  <2>2. CASE result.status \in {"error", "panic"}
    <3>1. UNCHANGED <<table, aligned, promised>>
      BY <2>2 DEF CallReturns
    <3>2. IsTextTable(table') /\ Sure(table', [aligned |-> aligned', promised |-> promised'])
      BY <3>1 DEF BenchInv, Known
    <3> QED
      BY <3>2 DEF Sure, Known, IsTextTable, IsTable
  <2> QED
    BY <2>1, <2>2 DEF Good
<1> QED
  BY <1>1, <1>2 DEF BenchInv

LEMMA BenchStarts == BenchInit => BenchInv
<1> SUFFICES ASSUME BenchInit PROVE BenchInv
  OBVIOUS
<1>1. table = [header |-> <<>>, rows |-> <<>>] /\ calls = 0 /\ aligned = FALSE /\ promised = {}
  BY DEF BenchInit, Init
<1>2. IsList(<<>>)
  <2>1. <<>> \in Seq({})
    OBVIOUS
  <2> QED
    BY <2>1, ListTyped DEF IsList
<1>3. IsTextTable(table)
  BY <1>1, <1>2 DEF IsTextTable, IsTable
<1>4. Sure(table, Known)
  BY <1>1 DEF Sure, Known
<1> QED
  BY <1>1, <1>3, <1>4 DEF BenchInv

\* Loading promises nothing about rows and cells.
LEMMA LoadKeeps ==
    ASSUME BenchInv, NEW t, IsTextTable(t), NEW made \in BOOLEAN, made => Aligned(t),
           calls = 0, table' = t, aligned' = made, calls' = 1, UNCHANGED promised
    PROVE  BenchInv'
<1>1. promised' = {}
  BY DEF BenchInv
<1>2. IsTextTable(table') /\ Sure(table', [aligned |-> aligned', promised |-> promised'])
  BY <1>1 DEF Sure
<1>3. calls' \in Nat /\ calls' # 0
  OBVIOUS
<1>4. IsTextTable(table)' /\ Sure(table, Known)'
  BY <1>2 DEF Sure, Known, IsTextTable, IsTable
<1> QED
  BY <1>3, <1>4 DEF BenchInv

\* Leaving out promises leaves what is known true.
LEMMA SureOfLess ==
    ASSUME NEW t, NEW columns,
           Sure(t, Known)
    PROVE  /\ Sure(t, Rewritten(columns))
           /\ \A p \in Rewritten(columns).promised : p.column \notin columns \/ p.kind = "notnull"
  BY DEF Sure, Known, Rewritten

\* The package's calls are good.
LEMMA CallsGood ==
    ASSUME BenchInv,
           \/ CallApply \/ CallFill \/ CallClamp
           \/ CallNormalize \/ CallFilterStage \/ CallProfile
    PROVE  \E result, known : Good(result, known) /\ CallReturns(result, known)
<1>1. IsTextTable(table) /\ Sure(table, Known)
  BY DEF BenchInv
<1>2. CASE CallApply
  <2>1. PICK ops \in Chains : CallReturns(Apply(table, ops), AfterOps(Known, ops))
    BY <1>2 DEF CallApply
  <2>2. IsList(ops) /\ \A k \in DOMAIN ops : OpTyped(ops[k])
    BY ChainsAssumption DEF OpTyped
  <2>3. Good(Apply(table, ops), AfterOps(Known, ops))
    BY <1>1, <2>2, ApplySure
  <2> QED
    BY <2>1, <2>3
<1>3. CASE CallFill
  <2>1. PICK configs \in Fills :
          CallReturns(ApplyFill(table, configs), Rewritten({configs[k].column : k \in DOMAIN configs}))
    BY <1>3 DEF CallFill
  <2> DEFINE columns == {configs[k].column : k \in DOMAIN configs}
             known == Rewritten(columns)
  <2>2. IsList(configs) /\ \A k \in DOMAIN configs : ConfigTyped(configs[k]) /\ configs[k].column \in columns
    BY FillsAssumption DEF ConfigTyped
  <2>3. Sure(table, known) /\ \A p \in known.promised : p.column \notin columns \/ p.kind = "notnull"
    <3> HIDE DEF columns
    <3> QED
      BY <1>1, SureOfLess
  <2>4. CallReturns(ApplyFill(table, configs), known)
    BY <2>1
  <2> HIDE DEF columns, known
  <2>5. \A k \in DOMAIN configs : ConfigTyped(configs[k]) /\
           \A p \in known.promised : p.column # configs[k].column \/ p.kind = "notnull"
    BY <2>2, <2>3
  <2>6. Good(ApplyFill(table, configs), known)
    BY <1>1, <2>2, <2>3, <2>5, ApplyFillSure
  <2> QED
    BY <2>4, <2>6
<1>4. CASE CallClamp
  <2>1. PICK name \in Names, b \in Bounds :
          CallReturns(ClampValues(table, name, b[1], b[2]), Rewritten({name}))
    BY <1>4 DEF CallClamp
  <2> DEFINE known == Rewritten({name})
  <2>2. b[1] \in Int /\ b[2] \in Int
    BY BoundsAssumption
  <2>3. Sure(table, known) /\ \A p \in known.promised : p.column # name \/ p.kind = "notnull"
    BY <1>1, SureOfLess
  <2> HIDE DEF known
  <2>4. Good(ClampValues(table, name, b[1], b[2]), known)
    BY <1>1, <2>2, <2>3, ClampSure
  <2> QED
    BY <2>1, <2>4 DEF known
<1>5. CASE CallNormalize
  <2>1. PICK name \in Names : CallReturns(NormalizeColumn(table, name), Rewritten({name}))
    BY <1>5 DEF CallNormalize
  <2> DEFINE known == Rewritten({name})
  <2>2. Sure(table, known) /\ \A p \in known.promised : p.column # name \/ p.kind = "notnull"
    BY <1>1, SureOfLess
  <2> HIDE DEF known
  <2>3. Good(NormalizeColumn(table, name), known)
    BY <1>1, <2>2, NormalizeSure
  <2> QED
    BY <2>1, <2>3 DEF known
<1>6. CASE CallFilterStage
  <2>1. PICK name \in Names :
          CallReturns(FilterStage(table, name),
            [aligned |-> aligned, promised |-> promised \cup {[column |-> name, kind |-> "notnull"]}])
    BY <1>6 DEF CallFilterStage
  <2> DEFINE before == Known
  <2>2. before.aligned = aligned /\ before.promised = promised /\ Sure(table, before)
    BY <1>1 DEF Known
  <2> HIDE DEF before
  <2>3. Good(FilterStage(table, name),
             [aligned |-> before.aligned,
              promised |-> before.promised \cup {[column |-> name, kind |-> "notnull"]}])
    BY <1>1, <2>2, FilterStageSure
  <2> QED
    BY <2>1, <2>2, <2>3
<1>7. CASE CallProfile
  <2>1. PICK name \in Names :
          CallReturns(IF ~ HasColumn(table, name) THEN Failed("error")
                      ELSE IF ProfilePanics(table, ColumnOf(table, name)) THEN Failed("panic")
                      ELSE Returned(table), Known)
    BY <1>7 DEF CallProfile
  <2> DEFINE result == IF ~ HasColumn(table, name) THEN Failed("error")
                       ELSE IF ProfilePanics(table, ColumnOf(table, name)) THEN Failed("panic")
                       ELSE Returned(table)
  <2>2. Good(result, Known)
    BY <1>1 DEF Good, Failed, Returned
  <2>3. CallReturns(result, Known)
    BY <2>1
  <2> HIDE DEF result
  <2> QED
    BY <2>2, <2>3
<1> QED
  BY <1>2, <1>3, <1>4, <1>5, <1>6, <1>7

LEMMA BenchStep == BenchInv /\ [BenchNext]_<<vars, benchVars>> => BenchInv'
<1> SUFFICES ASSUME BenchInv, [BenchNext]_<<vars, benchVars>>
             PROVE  BenchInv'
  OBVIOUS
<1>1. IsTextTable(table) /\ Sure(table, Known)
  BY DEF BenchInv
<1>2. ASSUME UNCHANGED <<table, benchVars>>
      PROVE  BenchInv'
  <2>1. UNCHANGED <<table, aligned, promised, calls>>
    BY <1>2 DEF benchVars
  <2>2. IsTextTable(table') /\ Sure(table', [aligned |-> aligned', promised |-> promised'])
    BY <1>1, <2>1 DEF Known
  <2>3. IsTextTable(table)' /\ Sure(table, Known)'
    BY <2>2 DEF Sure, Known, IsTextTable, IsTable
  <2>4. calls' \in Nat /\ (calls' = 0 => promised' = {})
    BY <2>1 DEF BenchInv
  <2> QED
    BY <2>3, <2>4 DEF BenchInv
<1>3. CASE LoadCsv
  <2>1. PICK t \in CsvTables : table' = t /\ aligned' = Aligned(t)
    BY <1>3 DEF LoadCsv, Load
  <2>2. IsTextTable(t) /\ Aligned(t) \in BOOLEAN
    BY CsvAssumption DEF Aligned
  <2>3. calls = 0 /\ calls' = 1 /\ UNCHANGED promised
    BY <1>3 DEF LoadCsv, Load
  <2> QED
    BY <2>1, <2>2, <2>3, LoadKeeps
<1>4. CASE LoadJson
  <2>1. PICK t \in UNION {ParseJSON(r) : r \in JsonInputs} : table' = t /\ aligned' = TRUE
    BY <1>4 DEF LoadJson, Load
  <2>2. PICK records \in JsonInputs : t \in ParseJSON(records)
    OBVIOUS
  <2>3. IsTextTable(t) /\ Aligned(t)
    BY <2>2, JsonTables
  <2>4. calls = 0 /\ calls' = 1 /\ UNCHANGED promised
    BY <1>4 DEF LoadJson, Load
  <2> QED
    BY <2>1, <2>3, <2>4, LoadKeeps
<1>5. CASE LoadFixed
  <2>1. PICK f \in FixedInputs : table' = ParseFixed(f.lines, f.widths)
                                 /\ aligned' = (ParseFixed(f.lines, f.widths).header # <<>>)
    BY <1>5 DEF LoadFixed, Load
  <2> DEFINE t == ParseFixed(f.lines, f.widths)
             made == t.header # <<>>
  <2>2. IsTextTable(t) /\ (made => Aligned(t))
    BY FixedAssumption, FixedTables
  <2>3. calls = 0 /\ calls' = 1 /\ UNCHANGED promised /\ table' = t /\ aligned' = made /\ made \in BOOLEAN
    BY <1>5, <2>1 DEF LoadFixed, Load
  <2> HIDE DEF t, made
  <2> QED
    BY <2>2, <2>3, LoadKeeps
<1>6. CASE \/ CallApply \/ CallFill \/ CallClamp
           \/ CallNormalize \/ CallFilterStage \/ CallProfile
  <2>1. PICK result, known : Good(result, known) /\ CallReturns(result, known)
    BY <1>6, CallsGood
  <2> QED
    BY <2>1, CallKeeps
<1>7. CASE SubmitRules
  BY <1>2, <1>7 DEF SubmitRules, Submit
<1>8. CASE CheckRules
  BY <1>2, <1>8 DEF CheckRules, Check, EvaluateBasic, EvaluateExtended, MergeFirst, MergeSecond,
                     Merge, EndLoop, inputs
<1>9. CASE End \/ UNCHANGED <<vars, benchVars>>
  BY <1>2, <1>9 DEF End, vars, inputs
<1> QED
  BY <1>3, <1>4, <1>5, <1>6, <1>7, <1>8, <1>9 DEF BenchNext

LEMMA BenchInvGuarantees == BenchInv => GuaranteesLast
<1> SUFFICES ASSUME BenchInv PROVE GuaranteesLast
  OBVIOUS
<1>1. aligned => Aligned(table)
  BY DEF BenchInv, Sure, Known
<1>2. ASSUME NEW p \in promised
      PROVE  /\ HasColumn(table, p.column)
             /\ \A r \in DOMAIN table.rows : ~ Violates(table, p, r)
             /\ p.kind = "notnull" => ~ ProfilePanics(table, ColumnOf(table, p.column))
  <2>1. p.kind \in PromiseKinds /\ Met(table, p)
    BY <1>2 DEF BenchInv, Sure, Known
  <2>2. ASSUME p.kind = "notnull", table.rows # <<>>
        PROVE  ~ ProfilePanics(table, ColumnOf(table, p.column))
    <3>1. \A r \in DOMAIN table.rows : Value(table, p.column, r) # Empty
      BY <2>1, <2>2, MetMeans
    <3>2. \E r \in DOMAIN table.rows : TRUE
      <4>1. IsList(table.rows)
        BY RowsTyped DEF BenchInv
      <4> DEFINE rows == table.rows
      <4>2. rows \in Seq(ToSet(rows)) /\ DOMAIN rows = 1..Len(rows)
        <5> HIDE DEF rows
        <5> QED
          BY <4>1, ListTyped DEF rows
      <4> HIDE DEF rows
      <4>3. Len(rows) \in Nat /\ (rows # <<>> => Len(rows) # 0)
        BY <4>2, LenProperties, EmptySeq
      <4>4. rows # <<>>
        BY <2>2 DEF rows
      <4>5. 1 \in DOMAIN rows
        BY <4>2, <4>3, <4>4
      <4> QED
        BY <4>5 DEF rows
    <3> QED
      BY <3>1, <3>2 DEF ProfilePanics, Value
  <2> QED
    BY <2>1, <2>2 DEF Met, ProfilePanics
<1> QED
  BY <1>1, <1>2 DEF GuaranteesLast

\* What is known of the table is true of it, and a program that has loaded nothing
\* was promised nothing.
THEOREM BenchInvariant == BenchSpec => []BenchInv
<1>1. BenchInit => BenchInv
  BY BenchStarts
<1>2. BenchInv /\ [BenchNext]_<<vars, benchVars>> => BenchInv'
  BY BenchStep
<1> QED
  BY <1>1, <1>2, PTL DEF BenchSpec

\* GuaranteesLast holds whatever the inputs, chains of operations and lists of fills
\* are: what Apply, ApplyFill, ClampValues, NormalizeColumn and FilterStage have
\* established about rows and cells lasts through any calls that are not about it.
THEOREM GuaranteesCorrect == BenchSpec => []GuaranteesLast
<1>1. BenchInv => GuaranteesLast
  BY BenchInvGuarantees
<1> QED
  BY <1>1, BenchInvariant, PTL

-------------------------------------------------------------------------------
(* Lists of violations *)

KeysOf(list) == {Key(v) : v \in ToSet(list)}

\* x is the key of a violation that the rules find.
IsBasicKey(t, rules, x) ==
    \E r \in DOMAIN t.rows, k \in DOMAIN rules :
        Violates(t, rules[k], r) /\ x = <<k, rules[k].column, r>>
IsExtendedKey(t, rules, x) ==
    \E r \in DOMAIN t.rows, k \in DOMAIN rules :
        ReasonsOf(t, rules[k], r) # {} /\ x = <<k, rules[k].column, r>>

LEMMA FoundKey ==
    ASSUME NEW rules, NEW k, NEW r, NEW reason
    PROVE  Key(Found(rules, k, r, reason)) = <<k, rules[k].column, r>>
  BY DEF Key, Found

LEMMA BasicFound ==
    ASSUME NEW t, IsTextTable(t), NEW rules, IsList(rules)
    PROVE  /\ IsList(BasicViolations(t, rules))
           /\ \A x : x \in KeysOf(BasicViolations(t, rules)) <=> IsBasicKey(t, rules, x)
<1> DEFINE n == Len(t.rows)
           S(r) == {k \in DOMAIN rules : Violates(t, rules[k], r)}
           E == {Found(rules, k, r, "basic") : k \in DOMAIN rules, r \in DOMAIN t.rows}
           list(r) == [m \in DOMAIN InOrder(S(r)) |-> Found(rules, InOrder(S(r))[m], r, "basic")]
           lists == [r \in DOMAIN t.rows |-> list(r)]
           all == FlattenSeq(lists)
<1>1. n \in Nat /\ DOMAIN t.rows = 1..n
  BY RowsTyped
<1>2. DOMAIN rules \in SUBSET Nat /\ IsFiniteSet(DOMAIN rules)
  BY ListTyped
<1>3. ASSUME NEW r \in DOMAIN t.rows
      PROVE  list(r) \in Seq(E) /\ \A x : x \in ToSet(list(r)) <=> \E k \in S(r) : x = Found(rules, k, r, "basic")
  <2> DEFINE s == S(r)
             m == Cardinality(s)
  <2>1. s \in SUBSET Nat /\ IsFiniteSet(s) /\ s \in SUBSET DOMAIN rules
    BY <1>2, FS_Subset
  <2> HIDE DEF s
  <2>2. /\ m \in Nat /\ InOrder(s) \in [1..m -> s]
        /\ \A k \in s : \E l \in 1..m : InOrder(s)[l] = k
    BY <2>1, InOrderSorts
  <2>3. list(r) = [l \in 1..m |-> Found(rules, InOrder(s)[l], r, "basic")]
    BY <2>2 DEF s
  <2> HIDE DEF m
  <2>4. list(r) \in [1..m -> E]
    <3>1. \A l \in 1..m : InOrder(s)[l] \in DOMAIN rules
      BY <2>1, <2>2
    <3>2. \A k \in DOMAIN rules : Found(rules, k, r, "basic") \in E
      OBVIOUS
    <3> HIDE DEF E, list
    <3> QED
      BY <2>3, <3>1, <3>2
  <2>5. list(r) \in Seq(E)
    <3> HIDE DEF E, list
    <3> QED
      BY <2>2, <2>4, SeqDef
  <2>6. \A x : x \in ToSet(list(r)) <=> \E l \in 1..m : x = Found(rules, InOrder(s)[l], r, "basic")
    <3> HIDE DEF E, list
    <3> QED
      BY <2>3 DEF ToSet
  <2>7. \A x : x \in ToSet(list(r)) <=> \E k \in s : x = Found(rules, k, r, "basic")
    <3> HIDE DEF E, list
    <3> QED
      BY <2>2, <2>6
  <2> QED
    BY <2>5, <2>7 DEF s
<1>4. lists \in Seq(Seq(E))
  <2> HIDE DEF E, list, n
  <2>1. lists \in [1..n -> Seq(E)]
    BY <1>1, <1>3
  <2> HIDE DEF lists
  <2> QED
    BY <1>1, <2>1, SeqDef
<1>5. all \in Seq(E) /\ \A x : x \in ToSet(all) <=> \E r \in DOMAIN lists : x \in ToSet(lists[r])
  <2> HIDE DEF E, lists
  <2> QED
    BY <1>4, FlattenIsList
<1>6. \A x : x \in ToSet(all) <=> \E r \in DOMAIN t.rows, k \in DOMAIN rules :
                                     Violates(t, rules[k], r) /\ x = Found(rules, k, r, "basic")
  <2>1. DOMAIN lists = DOMAIN t.rows /\ \A r \in DOMAIN t.rows : lists[r] = list(r)
    OBVIOUS
  <2>2. \A r : \A k : k \in S(r) <=> k \in DOMAIN rules /\ Violates(t, rules[k], r)
    OBVIOUS
  <2> HIDE DEF lists, list, S, E, all
  <2>3. \A x : x \in ToSet(all) <=> \E r \in DOMAIN t.rows : \E k \in S(r) : x = Found(rules, k, r, "basic")
    BY <1>3, <1>5, <2>1
  <2> QED
    BY <2>2, <2>3
<1>7. all = BasicViolations(t, rules)
  BY DEF BasicViolations
<1>8. IsList(all)
  <2>1. Len(all) \in Nat /\ all \in [1..Len(all) -> E]
    <3> HIDE DEF E, all
    <3> QED
      BY <1>5, LenProperties
  <2> HIDE DEF E, all
  <2> QED
    BY <2>1, FunctionIsList
<1>9. \A x : x \in KeysOf(all) <=> IsBasicKey(t, rules, x)
  <2> HIDE DEF E, all
  <2>1. \A x : x \in KeysOf(all) <=> \E v \in ToSet(all) : x = Key(v)
    BY DEF KeysOf
  <2> QED
    BY <1>6, <2>1, FoundKey DEF IsBasicKey
<1> QED
  BY <1>7, <1>8, <1>9

ReasonSet == {"unfit", "short", "long", "unrelated"}

LEMMA ReasonsTyped ==
    /\ Reasons \in Seq(ReasonSet) /\ DOMAIN Reasons = 1..4
    /\ \A t, rule, r : ReasonsOf(t, rule, r) \in SUBSET ToSet(Reasons)
<1>1. Reasons \in Seq(ReasonSet) /\ DOMAIN Reasons = 1..4
  <2>1. Reasons \in Seq(ReasonSet)
    BY DEF Reasons, ReasonSet
  <2>2. Len(Reasons) = 4
    BY DEF Reasons
  <2> QED
    BY <2>1, <2>2, LenProperties
<1>2. \A t, rule, r : ReasonsOf(t, rule, r) \in SUBSET ToSet(Reasons)
  BY DEF ReasonsOf
<1> QED
  BY <1>1, <1>2

LEMMA ExtendedFound ==
    ASSUME NEW t, IsTextTable(t), NEW rules, IsList(rules)
    PROVE  /\ IsList(ExtendedViolations(t, rules))
           /\ \A x : x \in KeysOf(ExtendedViolations(t, rules)) <=> IsExtendedKey(t, rules, x)
<1> DEFINE n == Len(t.rows)
           S(k, r) == {l \in DOMAIN Reasons : Reasons[l] \in ReasonsOf(t, rules[k], r)}
           found(k, r) == Pick(Reasons, S(k, r))
           E == {Found(rules, k, r, reason) : k \in DOMAIN rules, r \in DOMAIN t.rows, reason \in ReasonSet}
           list(k, r) == [l \in DOMAIN found(k, r) |-> Found(rules, k, r, found(k, r)[l])]
           ofRule(k) == FlattenSeq([r \in DOMAIN t.rows |-> list(k, r)])
           lists == [k \in DOMAIN rules |-> ofRule(k)]
           all == FlattenSeq(lists)
<1>1. n \in Nat /\ DOMAIN t.rows = 1..n
  BY RowsTyped
<1>2. Len(rules) \in Nat /\ DOMAIN rules = 1..Len(rules)
  BY ListTyped
<1>3. ASSUME NEW k \in DOMAIN rules, NEW r \in DOMAIN t.rows
      PROVE  /\ list(k, r) \in Seq(E)
             /\ \A x \in KeysOf(list(k, r)) : x = <<k, rules[k].column, r>>
             /\ KeysOf(list(k, r)) # {} <=> ReasonsOf(t, rules[k], r) # {}
  <2> DEFINE s == S(k, r)
             m == Cardinality(s)
             f == Pick(Reasons, s)
  <2>1. s \in SUBSET DOMAIN Reasons
    OBVIOUS
  <2>2. s = {} <=> ReasonsOf(t, rules[k], r) = {}
    <3>1. ReasonsOf(t, rules[k], r) \in SUBSET ToSet(Reasons)
      BY ReasonsTyped
    <3> DEFINE R == ReasonsOf(t, rules[k], r)
    <3>2. \A x \in R : \E l \in DOMAIN Reasons : Reasons[l] = x
      BY <3>1 DEF ToSet
    <3>3. \A l : l \in s <=> l \in DOMAIN Reasons /\ Reasons[l] \in R
      OBVIOUS
    <3> HIDE DEF s, R
    <3>4. s = {} <=> R = {}
      BY <3>2, <3>3
    <3> QED
      BY <3>4 DEF R
  <2>3. /\ IsFiniteSet(s) /\ f \in Seq(ReasonSet) /\ Len(f) = m /\ DOMAIN f = 1..m
    <3> HIDE DEF s
    <3> QED
      BY <2>1, ReasonsTyped, PickIsList
  <2>4. m \in Nat /\ (m = 0 <=> s = {})
    <3> HIDE DEF s
    <3> QED
      BY <2>3, FS_CardinalityType, FS_EmptySet
  <2>5. \A l \in 1..m : f[l] \in ReasonSet
    <3> HIDE DEF s, f, m
    <3> QED
      BY <2>3, ElementOfSeq
  <2>6. list(k, r) = [l \in 1..m |-> Found(rules, k, r, f[l])]
    BY <2>3
  <2> HIDE DEF s, f, m, list
  <2>7. list(k, r) \in [1..m -> E]
    BY <2>5, <2>6
  <2>8. list(k, r) \in Seq(E)
    <3> HIDE DEF E
    <3> QED
      BY <2>4, <2>7, SeqDef
  <2>9. \A x : x \in ToSet(list(k, r)) <=> \E l \in 1..m : x = Found(rules, k, r, f[l])
    BY <2>6 DEF ToSet
  <2>10. \A x \in KeysOf(list(k, r)) : x = <<k, rules[k].column, r>>
    BY <2>9, FoundKey DEF KeysOf
  <2>11. KeysOf(list(k, r)) # {} <=> m # 0
    <3>1. m # 0 <=> 1 \in 1..m
      BY <2>4
    <3>2. (\E l \in 1..m : TRUE) <=> m # 0
      BY <2>4
    <3>3. KeysOf(list(k, r)) # {} <=> \E x : x \in ToSet(list(k, r))
      BY DEF KeysOf
    <3> QED
      BY <2>9, <3>1, <3>2, <3>3
  <2> QED
    BY <2>2, <2>4, <2>8, <2>10, <2>11
<1>4. ASSUME NEW k \in DOMAIN rules
      PROVE  /\ ofRule(k) \in Seq(E)
             /\ \A x : x \in ToSet(ofRule(k)) <=> \E r \in DOMAIN t.rows : x \in ToSet(list(k, r))
  <2> DEFINE rows == [r \in DOMAIN t.rows |-> list(k, r)]
  <2>1. rows \in Seq(Seq(E))
    <3> HIDE DEF E, list, n
    <3>1. rows \in [1..n -> Seq(E)]
      BY <1>1, <1>3
    <3> HIDE DEF rows
    <3> QED
      BY <1>1, <3>1, SeqDef
  <2>2. FlattenSeq(rows) \in Seq(E)
        /\ \A x : x \in ToSet(FlattenSeq(rows)) <=> \E r \in DOMAIN rows : x \in ToSet(rows[r])
    <3> HIDE DEF E, rows
    <3> QED
      BY <2>1, FlattenIsList
  <2>3. DOMAIN rows = DOMAIN t.rows /\ \A r \in DOMAIN t.rows : rows[r] = list(k, r)
    OBVIOUS
  <2>4. ofRule(k) = FlattenSeq(rows)
    OBVIOUS
  <2> HIDE DEF E, list, rows, ofRule
  <2> QED
    BY <2>2, <2>3, <2>4
<1>5. lists \in Seq(Seq(E))
  <2> DEFINE m == Len(rules)
  <2>1. m \in Nat /\ DOMAIN rules = 1..m
    BY <1>2
  <2> HIDE DEF E, ofRule, m
  <2>2. lists \in [1..m -> Seq(E)]
    BY <1>4, <2>1
  <2> HIDE DEF lists
  <2> QED
    BY <2>1, <2>2, SeqDef
<1>6. all \in Seq(E) /\ \A x : x \in ToSet(all) <=> \E k \in DOMAIN lists : x \in ToSet(lists[k])
  <2> HIDE DEF E, lists
  <2> QED
    BY <1>5, FlattenIsList
<1>7. \A x : x \in ToSet(all) <=> \E k \in DOMAIN rules, r \in DOMAIN t.rows : x \in ToSet(list(k, r))
  <2>1. DOMAIN lists = DOMAIN rules /\ \A k \in DOMAIN rules : lists[k] = ofRule(k)
    OBVIOUS
  <2> HIDE DEF lists, list, ofRule, E, all
  <2> QED
    BY <1>4, <1>6, <2>1
<1>8. all = ExtendedViolations(t, rules)
  BY DEF ExtendedViolations
<1>9. IsList(all)
  <2>1. Len(all) \in Nat /\ all \in [1..Len(all) -> E]
    <3> HIDE DEF E, all
    <3> QED
      BY <1>6, LenProperties
  <2> HIDE DEF E, all
  <2> QED
    BY <2>1, FunctionIsList
<1>10. \A x : x \in KeysOf(all) <=> IsExtendedKey(t, rules, x)
  <2> HIDE DEF E, all, list
  <2>1. \A x : x \in KeysOf(all) <=> \E v \in ToSet(all) : x = Key(v)
    BY DEF KeysOf
  <2>2. \A x : \A k, r : x \in KeysOf(list(k, r)) <=> \E v \in ToSet(list(k, r)) : x = Key(v)
    BY DEF KeysOf
  <2>3. \A x : x \in KeysOf(all) <=> \E k \in DOMAIN rules, r \in DOMAIN t.rows : x \in KeysOf(list(k, r))
    BY <1>7, <2>1, <2>2
  <2>4. \A k \in DOMAIN rules, r \in DOMAIN t.rows : \A x :
           x \in KeysOf(list(k, r)) <=> ReasonsOf(t, rules[k], r) # {} /\ x = <<k, rules[k].column, r>>
    BY <1>3
  <2> QED
    BY <2>3, <2>4 DEF IsExtendedKey
<1> QED
  BY <1>8, <1>9, <1>10

-------------------------------------------------------------------------------
(* Merging lists of violations *)

Distinct(list) == \A m, n \in DOMAIN list : Key(list[m]) = Key(list[n]) => m = n

\* The keys of the first n violations of a list.
KeysUpTo(list, n) == {Key(list[m]) : m \in 1..n}

\* One iteration adds the key of a violation, if it is a new one.
LEMMA OneMerged ==
    ASSUME NEW o, IsList(o), Distinct(o), NEW v, NEW new,
           new = IF \E w \in ToSet(o) : Key(w) = Key(v) THEN o ELSE Append(o, v)
    PROVE  IsList(new) /\ Distinct(new) /\ KeysOf(new) = KeysOf(o) \cup {Key(v)}
<1>1. CASE \E w \in ToSet(o) : Key(w) = Key(v)
  BY <1>1 DEF KeysOf
<1>2. CASE ~ \E w \in ToSet(o) : Key(w) = Key(v)
  <2> DEFINE n == Len(o)
  <2>1. n \in Nat /\ DOMAIN o = 1..n
    BY ListTyped
  <2>2. new = Append(o, v)
    BY <1>2
  <2>3. IsList(new) /\ Len(new) = n + 1 /\ (\A l \in 1..n : new[l] = o[l]) /\ new[n + 1] = v
    BY <2>2, AppendList
  <2>4. DOMAIN new = 1..(n + 1)
    BY <2>3, ListTyped
  <2> HIDE DEF n
  <2>5. \A l : l \in DOMAIN new <=> l \in DOMAIN o \/ l = n + 1
    BY <2>1, <2>4
  <2>6. \A l \in DOMAIN o : l # n + 1 /\ new[l] = o[l] /\ Key(o[l]) # Key(v)
    BY <1>2, <2>1, <2>3 DEF ToSet
  <2>7. Distinct(new)
    BY <2>3, <2>5, <2>6 DEF Distinct
  <2>8. \A x : x \in ToSet(new) <=> x \in ToSet(o) \/ x = v
    BY <2>3, <2>5, <2>6 DEF ToSet
  <2> QED
    BY <2>3, <2>7, <2>8 DEF KeysOf
<1> QED
  BY <1>1, <1>2

LEMMA UpToNext ==
    ASSUME NEW list, NEW n \in Nat \ {0}
    PROVE  /\ KeysUpTo(list, n) = KeysUpTo(list, n - 1) \cup {Key(list[n])}
           /\ KeysUpTo(list, 0) = {}
<1>1. \A m : m \in 1..n <=> m \in 1..(n - 1) \/ m = n
  OBVIOUS
<1>2. \A m : m \notin 1..0
  OBVIOUS
<1> QED
  BY <1>1, <1>2 DEF KeysUpTo

LEMMA UpToAll ==
    ASSUME NEW list, IsList(list)
    PROVE  KeysUpTo(list, Len(list)) = KeysOf(list)
  BY ListTyped DEF KeysUpTo, KeysOf, ToSet

\* The lists of violations are exact, once they have been made, and the result has
\* the keys of what has been merged, each once.
Checked == pc = "done" /\ ~ failed
FirstExact ==
    pc \in {"extended", "first", "second"} \/ Checked =>
        IsList(first) /\ \A x : x \in KeysOf(first) <=> IsBasicKey(table, basic, x)
SecondExact ==
    pc \in {"first", "second"} \/ Checked =>
        IsList(second) /\ \A x : x \in KeysOf(second) <=> IsExtendedKey(table, extended, x)
Merged ==
    /\ pc \in {"prepare", "basic", "extended"} => i = 1 /\ out = <<>>
    /\ pc = "first" => i \in 1..(Len(first) + 1) /\ KeysOf(out) = KeysUpTo(first, i - 1)
    /\ pc = "second" => /\ i \in 1..(Len(second) + 1)
                        /\ KeysOf(out) = KeysOf(first) \cup KeysUpTo(second, i - 1)
    /\ Checked => KeysOf(out) = KeysOf(first) \cup KeysOf(second)
MergeInv ==
    /\ IsList(basic) /\ IsList(extended)
    /\ pc \in {"prepare", "dead", "basic", "extended", "first", "second", "done"}
    /\ IsList(out) /\ Distinct(out)
    /\ FirstExact /\ SecondExact /\ Merged

LEMMA EmptyList == IsList(<<>>) /\ Distinct(<<>>) /\ KeysOf(<<>>) = {} /\ DOMAIN <<>> = {}
<1>1. <<>> \in Seq({}) /\ Len(<<>>) = 0
  OBVIOUS
<1>2. DOMAIN <<>> = {}
  BY <1>1
<1>3. ToSet(<<>>) = {}
  BY <1>2 DEF ToSet
<1> QED
  BY <1>1, <1>2, <1>3 DEF IsList, Distinct, KeysOf

LEMMA MergeStarts == BenchInit => MergeInv
  BY EmptyList DEF BenchInit, Init, MergeInv, FirstExact, SecondExact, Merged, Checked

LEMMA MergeStep == BenchInv /\ MergeInv /\ [BenchNext]_<<vars, benchVars>> => MergeInv'
<1> SUFFICES ASSUME BenchInv, MergeInv, [BenchNext]_<<vars, benchVars>>
             PROVE  MergeInv'
  OBVIOUS
<1> USE DEF MergeInv
<1>1. IsTextTable(table)
  BY DEF BenchInv
<1>2. ASSUME pc = "prepare", pc' \in {"prepare", "dead"}, UNCHANGED ruleVars
      PROVE  MergeInv'
  BY <1>2 DEF ruleVars, FirstExact, SecondExact, Merged, Checked, Distinct, IsList
<1>3. CASE LoadCsv \/ LoadJson \/ LoadFixed
  <2>1. pc = "prepare" /\ pc' = pc /\ UNCHANGED ruleVars
    BY <1>3 DEF LoadCsv, LoadJson, LoadFixed, Load
  <2> QED
    BY <1>2, <2>1
<1>4. CASE \/ CallApply \/ CallFill \/ CallClamp
           \/ CallNormalize \/ CallFilterStage \/ CallProfile
  <2>1. PICK result, known : Good(result, known) /\ CallReturns(result, known)
    BY <1>4, CallsGood
  <2>2. result.status \in {"ok", "error", "panic"}
    BY <2>1 DEF Good
  <2>3. pc = "prepare" /\ UNCHANGED ruleVars /\ pc' \in {"prepare", "dead"}
    BY <2>1, <2>2 DEF CallReturns
  <2> QED
    BY <1>2, <2>3
<1>5. CASE SubmitRules
  <2>1. pc = "prepare" /\ basic' \in Basic /\ extended' \in Extended /\ pc' = "basic"
        /\ UNCHANGED <<first, second, i, out, failed>>
    BY <1>5 DEF SubmitRules, Submit
  <2>2. IsList(basic') /\ IsList(extended')
    BY <2>1, RulesAssumption
  <2> QED
    BY <2>1, <2>2 DEF FirstExact, SecondExact, Merged, Checked, Distinct, IsList
<1>6. CASE EvaluateBasic
  <2>1. pc = "basic" /\ UNCHANGED <<table, basic, extended, second, i, out>>
    BY <1>6 DEF EvaluateBasic, inputs
  <2>2. CASE pc' = "done" /\ failed'
    BY <2>1, <2>2 DEF FirstExact, SecondExact, Merged, Checked, Distinct, IsList
  <2>3. CASE pc' = "extended" /\ first' = BasicViolations(table, basic) /\ UNCHANGED failed
    <3>1. IsList(first') /\ \A x : x \in KeysOf(first') <=> IsBasicKey(table', basic', x)
      BY <1>1, <2>1, <2>3, BasicFound
    <3>2. FirstExact'
      BY <3>1 DEF FirstExact
    <3> QED
      BY <2>1, <2>3, <3>2 DEF SecondExact, Merged, Checked, Distinct, IsList
  <2> QED
    BY <1>6, <2>2, <2>3 DEF EvaluateBasic
<1>7. CASE EvaluateExtended
  <2>1. pc = "extended" /\ UNCHANGED <<table, basic, extended, first, i, out>>
    BY <1>7 DEF EvaluateExtended, inputs
  <2>2. CASE pc' = "done" /\ failed'
    BY <2>1, <2>2 DEF FirstExact, SecondExact, Merged, Checked, Distinct, IsList
  <2>3. CASE pc' = "first" /\ second' = ExtendedViolations(table, extended) /\ UNCHANGED failed
    <3>1. IsList(second') /\ \A x : x \in KeysOf(second') <=> IsExtendedKey(table', extended', x)
      BY <1>1, <2>1, <2>3, ExtendedFound
    <3>2. IsList(first') /\ \A x : x \in KeysOf(first') <=> IsBasicKey(table', basic', x)
      BY <2>1 DEF FirstExact
    <3>3. FirstExact' /\ SecondExact'
      BY <3>1, <3>2 DEF FirstExact, SecondExact
    <3>4. i' = 1 /\ out' = <<>> /\ Len(first') \in Nat
      BY <2>1, <3>2, ListTyped DEF Merged
    <3>5. i' \in 1..(Len(first') + 1) /\ KeysOf(out') = {} /\ KeysUpTo(first', i' - 1) = {}
      BY <3>4, EmptyList DEF KeysUpTo
    <3> QED
      BY <2>1, <2>3, <3>3, <3>5 DEF Merged, Checked, Distinct, IsList
  <2> QED
    BY <1>7, <2>2, <2>3 DEF EvaluateExtended
<1>8. ASSUME NEW list, IsList(list), NEW keys,
             i \in 1..(Len(list) + 1), KeysOf(out) = keys \cup KeysUpTo(list, i - 1), Merge(list)
      PROVE  /\ UNCHANGED <<table, basic, extended, pc, first, second, failed>>
             /\ IsList(out') /\ Distinct(out')
             /\ i' \in 1..(Len(list) + 1) /\ KeysOf(out') = keys \cup KeysUpTo(list, i' - 1)
  <2>1. /\ i \in Nat \ {0} /\ i <= Len(list) /\ i' = i + 1 /\ Len(list) \in Nat
        /\ UNCHANGED <<table, basic, extended, pc, first, second, failed>>
    BY <1>8, ListTyped DEF Merge, inputs
  <2>2. out' = IF \E w \in ToSet(out) : Key(w) = Key(list[i]) THEN out ELSE Append(out, list[i])
    BY <1>8 DEF Merge, Seen
  <2>3. IsList(out') /\ Distinct(out') /\ KeysOf(out') = KeysOf(out) \cup {Key(list[i])}
    BY <2>2, OneMerged
  <2>4. KeysUpTo(list, i) = KeysUpTo(list, i - 1) \cup {Key(list[i])}
    BY <2>1, UpToNext
  <2>5. i' \in 1..(Len(list) + 1) /\ i' - 1 = i
    BY <2>1
  <2> QED
    BY <1>8, <2>1, <2>3, <2>4, <2>5
<1>9. CASE MergeFirst
  <2>1. pc = "first" /\ Merge(first)
    BY <1>9 DEF MergeFirst
  <2>2. IsList(first) /\ i \in 1..(Len(first) + 1) /\ KeysOf(out) = {} \cup KeysUpTo(first, i - 1)
    BY <2>1 DEF FirstExact, Merged
  <2>3. /\ UNCHANGED <<table, basic, extended, pc, first, second, failed>>
        /\ IsList(out') /\ Distinct(out')
        /\ i' \in 1..(Len(first) + 1) /\ KeysOf(out') = {} \cup KeysUpTo(first, i' - 1)
    BY <1>8, <2>1, <2>2
  <2>4. FirstExact' /\ SecondExact'
    BY <2>3 DEF FirstExact, SecondExact, Checked
  <2>5. Merged'
    BY <2>1, <2>3 DEF Merged, Checked
  <2> QED
    BY <2>1, <2>3, <2>4, <2>5 DEF Distinct, IsList
<1>10. CASE MergeSecond
  <2>1. pc = "second" /\ Merge(second)
    BY <1>10 DEF MergeSecond
  <2>2. IsList(second) /\ i \in 1..(Len(second) + 1) /\ KeysOf(out) = KeysOf(first) \cup KeysUpTo(second, i - 1)
    BY <2>1 DEF SecondExact, Merged
  <2>3. /\ UNCHANGED <<table, basic, extended, pc, first, second, failed>>
        /\ IsList(out') /\ Distinct(out')
        /\ i' \in 1..(Len(second) + 1) /\ KeysOf(out') = KeysOf(first) \cup KeysUpTo(second, i' - 1)
    BY <1>8, <2>1, <2>2
  <2>4. FirstExact' /\ SecondExact'
    BY <2>3 DEF FirstExact, SecondExact, Checked
  <2>5. Merged'
    BY <2>1, <2>3 DEF Merged, Checked
  <2> QED
    BY <2>1, <2>3, <2>4, <2>5 DEF Distinct, IsList
<1>11. CASE EndLoop
  <2>1. i' = 1 /\ UNCHANGED <<table, basic, extended, first, second, out, failed>>
    BY <1>11 DEF EndLoop, inputs
  <2>2. CASE pc = "first" /\ i > Len(first) /\ pc' = "second"
    <3>1. IsList(first) /\ IsList(second) /\ i \in 1..(Len(first) + 1) /\ KeysOf(out) = KeysUpTo(first, i - 1)
      BY <2>2 DEF FirstExact, SecondExact, Merged
    <3>2. Len(first) \in Nat /\ Len(second) \in Nat
      BY <3>1, ListTyped
    <3>3. i - 1 = Len(first) /\ 1 \in 1..(Len(second) + 1)
      BY <2>2, <3>1, <3>2
    <3>4. KeysOf(out) = KeysOf(first) /\ KeysUpTo(second, 1 - 1) = {}
      BY <3>1, <3>3, UpToAll DEF KeysUpTo
    <3>5. Merged'
      BY <2>1, <2>2, <3>3, <3>4 DEF Merged, Checked
    <3>6. FirstExact' /\ SecondExact'
      BY <2>1, <2>2 DEF FirstExact, SecondExact, Checked
    <3> QED
      BY <2>1, <2>2, <3>5, <3>6 DEF Distinct, IsList
  <2>3. CASE pc = "second" /\ i > Len(second) /\ pc' = "done"
    <3>1. IsList(second) /\ i \in 1..(Len(second) + 1)
          /\ KeysOf(out) = KeysOf(first) \cup KeysUpTo(second, i - 1)
      BY <2>3 DEF SecondExact, Merged
    <3>2. Len(second) \in Nat
      BY <3>1, ListTyped
    <3>3. i - 1 = Len(second)
      BY <2>3, <3>1, <3>2
    <3>4. KeysOf(out) = KeysOf(first) \cup KeysOf(second)
      BY <3>1, <3>3, UpToAll
    <3>5. Merged'
      BY <2>1, <2>3, <3>4 DEF Merged, Checked
    <3>6. FirstExact' /\ SecondExact'
      BY <2>1, <2>3 DEF FirstExact, SecondExact, Checked
    <3> QED
      BY <2>1, <2>3, <3>5, <3>6 DEF Distinct, IsList
  <2> QED
    BY <1>11, <2>2, <2>3 DEF EndLoop
<1>12. CASE End \/ UNCHANGED <<vars, benchVars>>
  <2>1. UNCHANGED <<table, basic, extended, pc, first, second, i, out, failed>>
    BY <1>12 DEF End, vars, inputs
  <2>2. FirstExact' /\ SecondExact' /\ Merged'
    BY <2>1 DEF FirstExact, SecondExact, Merged, Checked
  <2> QED
    BY <2>1, <2>2 DEF Distinct, IsList
<1> QED
  BY <1>3, <1>4, <1>5, <1>6, <1>7, <1>9, <1>10, <1>11, <1>12 DEF BenchNext, CheckRules, Check

\* Violation n of the result, for a rule k and a row r, belongs to a part whose rule k
\* row r violates; by its column it is the only one for that part.
LEMMA MergeInvExact == BenchInv /\ MergeInv => MergedExact
<1> SUFFICES ASSUME BenchInv, MergeInv, pc = "done", ~ failed, ToldApart,
                    NEW k \in DOMAIN basic \cup DOMAIN extended, NEW r \in DOMAIN table.rows
             PROVE  Cardinality({n \in DOMAIN out : out[n].rule = k /\ out[n].row = r}) =
                      Cardinality(Violated(k, r))
  BY DEF MergedExact
<1> DEFINE N == {n \in DOMAIN out : out[n].rule = k /\ out[n].row = r}
           P == Violated(k, r)
           column(part) == IF part = "basic" THEN basic[k].column ELSE extended[k].column
           place == [part \in P |-> CHOOSE n \in DOMAIN out : Key(out[n]) = <<k, column(part), r>>]
<1>1. /\ Distinct(out) /\ KeysOf(out) = KeysOf(first) \cup KeysOf(second)
      /\ \A x : x \in KeysOf(first) <=> IsBasicKey(table, basic, x)
      /\ \A x : x \in KeysOf(second) <=> IsExtendedKey(table, extended, x)
  BY DEF MergeInv, FirstExact, SecondExact, Merged, Checked
<1>2. /\ P \in SUBSET {"basic", "extended"}
      /\ "basic" \in P <=> k \in DOMAIN basic /\ Violates(table, basic[k], r)
      /\ "extended" \in P <=> k \in DOMAIN extended /\ ReasonsOf(table, extended[k], r) # {}
  BY DEF Violated
<1>3. \A n \in DOMAIN out : Key(out[n]) = <<out[n].rule, out[n].column, out[n].row>>
  BY DEF Key
<1>4. \A x : x \in KeysOf(out) <=> \E n \in DOMAIN out : Key(out[n]) = x
  BY DEF KeysOf, ToSet
<1>5. \A a, b, c, x, y, z : <<a, b, c>> = <<x, y, z>> <=> a = x /\ b = y /\ c = z
  OBVIOUS
<1> HIDE DEF P
<1>6. ASSUME NEW part \in P
      PROVE  place[part] \in N /\ Key(out[place[part]]) = <<k, column(part), r>>
  <2>1. <<k, column(part), r>> \in KeysOf(out)
    <3>1. CASE part = "basic"
      <4>1. IsBasicKey(table, basic, <<k, basic[k].column, r>>)
        BY <1>2, <1>6, <3>1 DEF IsBasicKey
      <4> QED
        BY <1>1, <3>1, <4>1
    <3>2. CASE part = "extended"
      <4>1. IsExtendedKey(table, extended, <<k, extended[k].column, r>>)
        BY <1>2, <1>6, <3>2 DEF IsExtendedKey
      <4> QED
        BY <1>1, <3>2, <4>1
    <3> QED
      BY <1>2, <3>1, <3>2
  <2> DEFINE key == <<k, column(part), r>>
  <2>2. \E n \in DOMAIN out : Key(out[n]) = key
    BY <1>4, <2>1
  <2>3. place[part] \in DOMAIN out /\ Key(out[place[part]]) = key
    <3>1. place[part] = CHOOSE n \in DOMAIN out : Key(out[n]) = key
      OBVIOUS
    <3> HIDE DEF key, place
    <3> QED
      BY <2>2, <3>1
  <2> HIDE DEF place, column
  <2> QED
    BY <1>3, <1>5, <2>3
<1>7. \A a, b \in P : column(a) = column(b) => a = b
  BY <1>2 DEF ToldApart
<1>8. ASSUME NEW n \in N
      PROVE  \E part \in P : place[part] = n
  <2>1. n \in DOMAIN out /\ Key(out[n]) = <<k, out[n].column, r>> /\ Key(out[n]) \in KeysOf(out)
    BY <1>3, <1>4
  <2>2. \E part \in P : column(part) = out[n].column
    <3>1. CASE IsBasicKey(table, basic, <<k, out[n].column, r>>)
      <4>1. k \in DOMAIN basic /\ Violates(table, basic[k], r) /\ out[n].column = basic[k].column
        BY <1>5, <3>1 DEF IsBasicKey
      <4> QED
        BY <1>2, <4>1
    <3>2. CASE IsExtendedKey(table, extended, <<k, out[n].column, r>>)
      <4>1. /\ k \in DOMAIN extended /\ ReasonsOf(table, extended[k], r) # {}
            /\ out[n].column = extended[k].column
        BY <1>5, <3>2 DEF IsExtendedKey
      <4> QED
        BY <1>2, <4>1
    <3> QED
      BY <1>1, <2>1, <3>1, <3>2
  <2>3. PICK part \in P : column(part) = out[n].column
    BY <2>2
  <2>4. place[part] \in DOMAIN out /\ Key(out[place[part]]) = Key(out[n])
    BY <1>6, <2>1, <2>3
  <2> QED
    BY <1>1, <2>1, <2>4 DEF Distinct
<1>9. place \in Bijection(P, N)
  <2>1. place \in [P -> N]
    BY <1>6
  <2>2. ASSUME NEW a \in P, NEW b \in P, place[a] = place[b]
        PROVE  a = b
    <3>1. <<k, column(a), r>> = <<k, column(b), r>>
      BY <1>6, <2>2
    <3> QED
      BY <1>5, <1>7, <3>1
  <2> HIDE DEF place, N
  <2> QED
    BY <1>8, <2>1, <2>2 DEF Bijection, Injection, Surjection, IsInjective
<1>10. IsFiniteSet(P)
  <2>1. IsFiniteSet({"basic"} \cup {"extended"})
    <3>1. IsFiniteSet({"basic"})
      BY FS_Singleton
    <3> QED
      BY <3>1, FS_AddElement
  <2>2. P \in SUBSET ({"basic"} \cup {"extended"})
    BY <1>2
  <2> QED
    BY <2>1, <2>2, FS_Subset
<1>11. Cardinality(N) = Cardinality(P)
  <2>1. ExistsBijection(P, N)
    BY <1>9 DEF ExistsBijection
  <2> HIDE DEF N
  <2> QED
    BY <1>10, <2>1, FS_Bijection
<1> QED
  BY <1>11 DEF P

\* MergedExact holds for all lists of rules and all tables that a program may have
\* worked on: of every violated rule the merged list has one violation for each row.
THEOREM MergedCorrect == BenchSpec => []MergedExact
<1>1. BenchInit => MergeInv
  BY MergeStarts
<1>2. BenchInv /\ MergeInv /\ [BenchNext]_<<vars, benchVars>> => MergeInv'
  BY MergeStep
<1>3. BenchInv /\ MergeInv => MergedExact
  BY MergeInvExact
<1> QED
  BY <1>1, <1>2, <1>3, BenchInvariant, PTL DEF BenchSpec
-------------------------------------------------------------------------------
(* Rounding *)

\* Division by a positive number keeps the order.
LEMMA DivMonotone ==
    ASSUME NEW x \in Int, NEW y \in Int, NEW d \in Nat \ {0}, x <= y
    PROVE  x \div d <= y \div d
<1> DEFINE p == x \div d
           q == y \div d
<1>1. /\ p \in Int /\ d * p <= x /\ x < d * (p + 1)
      /\ q \in Int /\ d * q <= y /\ y < d * (q + 1)
  OBVIOUS
<1> HIDE DEF p, q
<1>2. SUFFICES ASSUME q + 1 <= p PROVE FALSE
  BY <1>1
<1>3. d * (q + 1) <= d * p
  <2> DEFINE m == p - (q + 1)
  <2>1. m \in Nat /\ p = q + 1 + m
    BY <1>1, <1>2
  <2>2. d * m \in Nat
    BY <2>1
  <2>3. d * p = d * (q + 1) + d * m
    BY <1>1, <2>1
  <2> QED
    BY <1>1, <2>2, <2>3
<1> QED
  BY <1>1, <1>3

LEMMA RoundedMonotone ==
    ASSUME NEW x \in Int, NEW y \in Int, NEW b \in Nat \ {0}, NEW grain \in Nat \ {0}, x <= y
    PROVE  Rounded(x, b, grain) <= Rounded(y, b, grain)
<1> DEFINE d == 2 * b * grain
           v == 2 * x + b * grain
           w == 2 * y + b * grain
<1>1. d \in Nat \ {0}
  BY SMT
<1>2. v \in Int /\ w \in Int /\ v <= w
  <2>1. b * grain \in Int
    OBVIOUS
  <2> QED
    BY <2>1
<1>3. v \div d <= w \div d /\ v \div d \in Int /\ w \div d \in Int
  <2> HIDE DEF d, v, w
  <2>1. v \div d <= w \div d
    BY <1>1, <1>2, DivMonotone
  <2> QED
    BY <1>1, <1>2, <2>1
<1>4. Rounded(x, b, grain) = (v \div d) * grain /\ Rounded(y, b, grain) = (w \div d) * grain
  BY DEF Rounded
<1> DEFINE p == v \div d
           q == w \div d
<1>5. p \in Int /\ q \in Int /\ p <= q
  BY <1>3
<1>6. p * grain <= q * grain
  <2> HIDE DEF p, q
  <2> DEFINE m == q - p
  <2>1. m \in Nat /\ q = p + m
    BY <1>5
  <2>2. m * grain \in Nat /\ q * grain = p * grain + m * grain /\ p * grain \in Int
    BY <1>5, <2>1
  <2> QED
    BY <2>2
<1> QED
  BY <1>4, <1>6

\* What is a multiple of the grain already is not changed, nor are 0 and One.
LEMMA RoundedWhole ==
    ASSUME NEW a \in Int
    PROVE  /\ a % Grain = 0 => Rounded(a, 1, Grain) = a
           /\ \A b \in Nat \ {0} : Rounded(0, b, Fine) = 0 /\ Rounded(b * One, b, Fine) = One
<1>1. a % Grain = 0 => Rounded(a, 1, Grain) = a
  BY DEF Rounded, Grain
<1>2. ASSUME NEW b \in Nat \ {0}
      PROVE  Rounded(0, b, Fine) = 0 /\ Rounded(b * One, b, Fine) = One
  <2>1. Rounded(0, b, Fine) = b \div (2 * b)
    BY DEF Rounded, Fine
  <2>2. b \div (2 * b) = 0
    BY SMT
  <2>3. Rounded(b * One, b, Fine) = (81 * b) \div (2 * b)
    <3>1. 2 * (b * 40) + b * 1 = 81 * b /\ 2 * b * 1 = 2 * b
      OBVIOUS
    <3>2. Rounded(b * 40, b, 1) = ((81 * b) \div (2 * b)) * 1
      BY <3>1 DEF Rounded
    <3>3. (81 * b) \div (2 * b) \in Int
      BY SMT
    <3> QED
      BY <3>2, <3>3 DEF Fine, One
  <2>4. (81 * b) \div (2 * b) = 40
    <3> DEFINE d == 2 * b
               x == 81 * b
               q == x \div d
    <3>1. d \in Nat \ {0} /\ x \in Int /\ x = 40 * d + b /\ b < d
      OBVIOUS
    <3> HIDE DEF d, x
    <3>2. q \in Int /\ d * q <= x /\ x < d * (q + 1)
      BY <3>1
    <3> HIDE DEF q
    <3>3. q = 40
      <4>1. CASE q >= 41
        <5>1. d * q >= d * 41
          <6> DEFINE m == q - 41
          <6>1. m \in Nat /\ q = 41 + m
            BY <3>2, <4>1
          <6>2. d * m \in Nat /\ d * q = d * 41 + d * m
            BY <3>1, <6>1
          <6> QED
            BY <3>1, <6>2
        <5> QED
          BY <3>1, <3>2, <5>1
      <4>2. CASE q <= 39
        <5>1. d * (q + 1) <= d * 40
          <6> DEFINE m == 39 - q
          <6>1. m \in Nat /\ q + 1 = 40 - m
            BY <3>2, <4>2
          <6>2. d * m \in Nat /\ d * (q + 1) = d * 40 - d * m
            BY <3>1, <6>1
          <6> QED
            BY <3>1, <6>2
        <5> QED
          BY <3>1, <3>2, <5>1
      <4> QED
        BY <3>2, <4>1, <4>2
    <3> QED
      BY <3>3 DEF q, x, d
  <2> QED
    BY <2>1, <2>2, <2>3, <2>4 DEF One
<1> QED
  BY <1>1, <1>2

\* The text of a number that can be written with four decimals gives it back.
LEMMA WrittenExactly ==
    ASSUME NEW a \in Int, a % Grain = 0
    PROVE  ParsesFloat(FormatNum(a, 1)) /\ FloatOf(FormatNum(a, 1)) = a
<1>1. FormatNum(a, 1) \in {<<Numeral("plain", a)>>, <<Numeral("d4", a)>>}
  <2>1. a \div 1 = a
    OBVIOUS
  <2>2. Rounded(a, 1, Grain) = a
    BY RoundedWhole
  <2> QED
    BY <2>1, <2>2 DEF FormatNum
<1>2. \A form \in {"plain", "d4"} :
        ParsesFloat(<<Numeral(form, a)>>) /\ FloatOf(<<Numeral(form, a)>>) = a
  BY DEF ParsesFloat, FloatOf, Numeral, Forms, NaNAtom
<1> QED
  BY <1>1, <1>2

-------------------------------------------------------------------------------
(* BoundsMet *)

\* A cell is a number after ClampValues if it was one, and then in range.
LEMMA ClampedCell ==
    ASSUME NEW c, IsText(c), NEW min \in Int, NEW max \in Int,
           min <= max, min % Grain = 0, max % Grain = 0
    PROVE  /\ ParsesFloat(ClampCell(c, min, max)) <=> ParsesFloat(c)
           /\ ParsesFloat(c) /\ FloatOf(c) = NaN => ClampCell(c, min, max) = c
           /\ ParsesFloat(c) /\ FloatOf(c) # NaN =>
                FloatOf(ClampCell(c, min, max)) = IF FloatOf(c) < min THEN min
                                                  ELSE IF FloatOf(c) > max THEN max ELSE FloatOf(c)
<1>1. /\ ParsesFloat(FormatNum(min, 1)) /\ FloatOf(FormatNum(min, 1)) = min
      /\ ParsesFloat(FormatNum(max, 1)) /\ FloatOf(FormatNum(max, 1)) = max
  BY WrittenExactly
<1> HIDE DEF FormatNum, ParsesFloat, FloatOf
<1> QED
  BY <1>1 DEF ClampCell

\* The numbers of a column whose cells are changed where it has one.
LEMMA NumbersChanged ==
    ASSUME NEW t, IsTextTable(t), NEW name, HasColumn(t, name), NEW cells,
           \A r \in DOMAIN t.rows : IsText(cells[r]) /\ (cells[r] = Empty <=> Value(t, name, r) = Empty)
    PROVE  /\ ColumnOf(WithCells(t, ColumnOf(t, name), cells), name) = ColumnOf(t, name)
           /\ HasColumn(WithCells(t, ColumnOf(t, name), cells), name)
           /\ DOMAIN WithCells(t, ColumnOf(t, name), cells).rows = DOMAIN t.rows
           /\ \A r \in DOMAIN t.rows : Value(WithCells(t, ColumnOf(t, name), cells), name, r) = cells[r]
           /\ Filled(WithCells(t, ColumnOf(t, name), cells), name) = Filled(t, name)
<1> DEFINE k == ColumnOf(t, name)
           u == WithCells(t, k, cells)
<1>1. /\ Rewrites(t, u, k)
      /\ \A r \in DOMAIN t.rows : CellAt(u.rows[r], k) = IF k \in DOMAIN t.rows[r] THEN cells[r] ELSE Empty
  <2> HIDE DEF k
  <2> QED
    BY CellsChanged
<1> HIDE DEF u
<1>2. u.header = t.header /\ DOMAIN u.rows = DOMAIN t.rows
  <2> HIDE DEF k
  <2> QED
    BY <1>1, RewrittenTable
<1>3. ColumnOf(u, name) = k /\ HasColumn(u, name)
  BY <1>2 DEF ColumnOf, HasColumn
<1>4. \A r \in DOMAIN t.rows : Value(u, name, r) = cells[r]
  <2> TAKE r \in DOMAIN t.rows
  <2>1. Value(t, name, r) = CellAt(t.rows[r], k) /\ Value(u, name, r) = CellAt(u.rows[r], k)
    BY <1>3 DEF Value
  <2>2. k \notin DOMAIN t.rows[r] => CellAt(t.rows[r], k) = Empty
    BY DEF CellAt
  <2> HIDE DEF k
  <2> QED
    BY <1>1, <2>1, <2>2
<1>5. Filled(u, name) = Filled(t, name)
  BY <1>2, <1>4 DEF Filled
<1> QED
  BY <1>2, <1>3, <1>4, <1>5 DEF u

\* Two tables with the same cells filled have their numbers in the same places.
LEMMA SamePlaces ==
    ASSUME NEW t, IsTextTable(t), NEW u, NEW name, ~ CollectFails(t, name),
           Filled(u, name) = Filled(t, name)
    PROVE  \A j \in DOMAIN CollectNums(t, name) : \E r \in Filled(t, name) :
             /\ CollectNums(t, name)[j] = FloatOf(Value(t, name, r))
             /\ CollectNums(u, name)[j] = FloatOf(Value(u, name, r))
             /\ CollectNums(t, name)[j] \in Int
<1> DEFINE S == Filled(t, name)
<1>1. /\ CollectNums(t, name) \in Seq(Int) /\ Len(CollectNums(t, name)) = Cardinality(S)
      /\ DOMAIN CollectNums(t, name) = 1..Len(CollectNums(t, name))
      /\ \A k \in 1..Len(CollectNums(t, name)) :
           /\ InOrder(S)[k] \in S
           /\ CollectNums(t, name)[k] = FloatOf(Value(t, name, InOrder(S)[k]))
  BY NumsTyped
<1>2. DOMAIN InOrder(S) = 1..Cardinality(S)
  BY DEF InOrder
<1> HIDE DEF S
<1>3. CollectNums(u, name) = [k \in 1..Cardinality(S) |-> FloatOf(Value(u, name, InOrder(S)[k]))]
  BY <1>2 DEF CollectNums, S
<1> TAKE j \in DOMAIN CollectNums(t, name)
<1>4. CollectNums(t, name)[j] \in Int
  BY <1>1, ElementOfSeq
<1>5. CollectNums(u, name)[j] = FloatOf(Value(u, name, InOrder(S)[j]))
  BY <1>1, <1>3
<1> QED
  BY <1>1, <1>4, <1>5 DEF S

LEMMA ClampedValues ==
    ASSUME NEW t, IsTextTable(t), NEW name, HasColumn(t, name), NEW min \in Int, NEW max \in Int
    PROVE  LET u == ClampValues(t, name, min, max).table
           IN  /\ DOMAIN u.rows = DOMAIN t.rows /\ Filled(u, name) = Filled(t, name)
               /\ \A r \in DOMAIN t.rows :
                    Value(u, name, r) = ClampCell(Value(t, name, r), min, max)
<1> DEFINE k == ColumnOf(t, name)
           cells == [r \in DOMAIN t.rows |-> ClampCell(CellAt(t.rows[r], k), min, max)]
<1>1. ClampValues(t, name, min, max).table = WithCells(t, k, cells)
  BY ClampChanges DEF Clamped, Returned
<1>2. \A r \in DOMAIN t.rows : /\ cells[r] = ClampCell(Value(t, name, r), min, max)
                               /\ IsText(cells[r]) /\ (cells[r] = Empty <=> Value(t, name, r) = Empty)
  <2> TAKE r \in DOMAIN t.rows
  <2> DEFINE c == Value(t, name, r)
  <2>1. IsText(c) /\ cells[r] = ClampCell(c, min, max)
    BY CellText DEF Value
  <2> HIDE DEF c, cells
  <2>2. IsText(ClampCell(c, min, max)) /\ (c # Empty => ClampCell(c, min, max) # Empty)
    BY <2>1, ClampCellText
  <2>3. c = Empty => ClampCell(c, min, max) = Empty
    BY DEF ClampCell, ParsesFloat, Empty
  <2> QED
    BY <2>1, <2>2, <2>3 DEF c
<1> HIDE DEF cells
<1>3. /\ DOMAIN WithCells(t, k, cells).rows = DOMAIN t.rows
      /\ \A r \in DOMAIN t.rows : Value(WithCells(t, k, cells), name, r) = cells[r]
      /\ Filled(WithCells(t, k, cells), name) = Filled(t, name)
  BY <1>2, NumbersChanged
<1> DEFINE u == ClampValues(t, name, min, max).table
<1>4. u = WithCells(t, k, cells)
  BY <1>1
<1> HIDE DEF u
<1>5. /\ DOMAIN u.rows = DOMAIN t.rows /\ Filled(u, name) = Filled(t, name)
      /\ \A r \in DOMAIN t.rows : Value(u, name, r) = ClampCell(Value(t, name, r), min, max)
  BY <1>2, <1>3, <1>4
<1> QED
  BY <1>5 DEF u

\* The range rule after ClampValues with its bounds, and the order of the numbers.
LEMMA ClampMet ==
    ASSUME NEW t, IsTextTable(t), NEW name, HasColumn(t, name), NEW min \in Int, NEW max \in Int,
           min <= max, min % Grain = 0, max % Grain = 0, NEW u, u = ClampValues(t, name, min, max).table
    PROVE  /\ \A r \in DOMAIN u.rows : ParsesFloat(Value(u, name, r)) =>
                FloatOf(Value(u, name, r)) = NaN
                \/ (min <= FloatOf(Value(u, name, r)) /\ FloatOf(Value(u, name, r)) <= max)
           /\ ~ CollectFails(t, name) /\ ~ HasNaN(CollectNums(t, name)) =>
                KeepsOrder(CollectNums(t, name), u, name)
<1>1. /\ DOMAIN u.rows = DOMAIN t.rows /\ Filled(u, name) = Filled(t, name)
      /\ \A r \in DOMAIN t.rows : Value(u, name, r) = ClampCell(Value(t, name, r), min, max)
  BY ClampedValues
<1> DEFINE clamp(x) == IF x < min THEN min ELSE IF x > max THEN max ELSE x
<1>2. \A r \in DOMAIN t.rows :
        /\ ParsesFloat(Value(u, name, r)) => ParsesFloat(Value(t, name, r))
        /\ ParsesFloat(Value(t, name, r)) =>
             /\ FloatOf(Value(t, name, r)) \in Int
             /\ FloatOf(Value(t, name, r)) = NaN => FloatOf(Value(u, name, r)) = NaN
             /\ FloatOf(Value(t, name, r)) # NaN =>
                  FloatOf(Value(u, name, r)) = clamp(FloatOf(Value(t, name, r)))
  <2> TAKE r \in DOMAIN t.rows
  <2> DEFINE c == Value(t, name, r)
  <2>1. IsText(c) /\ Value(u, name, r) = ClampCell(c, min, max)
    BY <1>1, CellText DEF Value
  <2> HIDE DEF c
  <2>2. /\ ParsesFloat(ClampCell(c, min, max)) <=> ParsesFloat(c)
        /\ ParsesFloat(c) /\ FloatOf(c) = NaN => ClampCell(c, min, max) = c
        /\ ParsesFloat(c) /\ FloatOf(c) # NaN =>
             FloatOf(ClampCell(c, min, max)) = IF FloatOf(c) < min THEN min
                                               ELSE IF FloatOf(c) > max THEN max ELSE FloatOf(c)
    BY <2>1, ClampedCell
  <2>3. ParsesFloat(c) => FloatOf(c) \in Int
    BY <2>1, NumberOf
  <2> QED
    BY <2>1, <2>2, <2>3 DEF c
<1>3. ASSUME NEW r \in DOMAIN u.rows, ParsesFloat(Value(u, name, r))
      PROVE  FloatOf(Value(u, name, r)) = NaN
             \/ (min <= FloatOf(Value(u, name, r)) /\ FloatOf(Value(u, name, r)) <= max)
  BY <1>1, <1>2, <1>3
<1>4. ASSUME ~ CollectFails(t, name), ~ HasNaN(CollectNums(t, name))
      PROVE  KeepsOrder(CollectNums(t, name), u, name)
  <2> DEFINE data == CollectNums(t, name)
             after == CollectNums(u, name)
  <2>1. \A j \in DOMAIN data : data[j] \in Int /\ after[j] = clamp(data[j])
    <3> TAKE j \in DOMAIN data
    <3>1. PICK r \in Filled(t, name) : /\ data[j] = FloatOf(Value(t, name, r)) /\ data[j] \in Int
                                       /\ after[j] = FloatOf(Value(u, name, r))
      BY <1>1, <1>4, SamePlaces
    <3>2. r \in DOMAIN t.rows /\ ParsesFloat(Value(t, name, r))
      BY <1>4 DEF CollectFails, Filled
    <3>3. data[j] # NaN
      BY <1>4 DEF HasNaN, ToSet
    <3> QED
      BY <1>2, <3>1, <3>2, <3>3
  <2> HIDE DEF data, after
  <2>2. \A j, k \in DOMAIN data : data[j] <= data[k] => after[j] <= after[k]
    BY <2>1
  <2> QED
    BY <2>2 DEF KeepsOrder, data, after
<1> QED
  BY <1>3, <1>4

\* What NormalizeColumn does to a column of numbers that are not all the same.
LEMMA NormalizedValues ==
    ASSUME NEW t, IsTextTable(t), NEW name, HasColumn(t, name), ~ CollectFails(t, name),
           NEW nums, nums = CollectNums(t, name), nums # <<>>, ~ HasNaN(nums), Low(nums) < High(nums),
           NEW u, u = NormalizeColumn(t, name).table
    PROVE  /\ Filled(u, name) = Filled(t, name)
           /\ \A j \in DOMAIN nums :
                CollectNums(u, name)[j] = Rounded((nums[j] - Low(nums)) * One, High(nums) - Low(nums), Fine)
<1> DEFINE k == ColumnOf(t, name)
           cells == [r \in DOMAIN t.rows |-> NormalizeCell(CellAt(t.rows[r], k), nums)]
           scaled(x) == Rounded((x - Low(nums)) * One, High(nums) - Low(nums), Fine)
<1>1. nums \in Seq(Int) /\ DOMAIN nums = 1..Len(nums)
  BY NumsTyped
<1>2. Head(nums) # NaN
  <2>1. Head(nums) = nums[1] /\ 1 \in DOMAIN nums
    BY <1>1, LenProperties, EmptySeq
  <2> QED
    BY <2>1 DEF HasNaN, ToSet
<1>3. Low(nums) \in Int /\ High(nums) \in Int
  BY <1>1, <1>2, Extremes
<1>4. Low(nums) # High(nums)
  BY <1>3
<1>5. u = WithCells(t, k, cells)
  BY <1>2, <1>4, NormalizeChanges DEF Normalized, Returned
<1>6. \A r \in DOMAIN t.rows :
        /\ cells[r] = NormalizeCell(Value(t, name, r), nums)
        /\ IsText(cells[r]) /\ (cells[r] = Empty <=> Value(t, name, r) = Empty)
  <2> TAKE r \in DOMAIN t.rows
  <2> DEFINE c == Value(t, name, r)
  <2>1. IsText(c) /\ cells[r] = NormalizeCell(c, nums)
    BY CellText DEF Value
  <2>2. c # Empty => ParsesFloat(c)
    BY DEF CollectFails, Filled
  <2> HIDE DEF c, cells
  <2>3. IsText(NormalizeCell(c, nums)) /\ (c # Empty => NormalizeCell(c, nums) # Empty)
    BY <1>1, <1>4, <2>1, <2>2, NormalizeCellText
  <2>4. c = Empty => NormalizeCell(c, nums) = Empty
    BY DEF NormalizeCell
  <2> QED
    BY <2>1, <2>3, <2>4 DEF c
<1> HIDE DEF cells
<1>7. /\ DOMAIN WithCells(t, k, cells).rows = DOMAIN t.rows
      /\ \A r \in DOMAIN t.rows : Value(WithCells(t, k, cells), name, r) = cells[r]
      /\ Filled(WithCells(t, k, cells), name) = Filled(t, name)
  BY <1>6, NumbersChanged
<1>8. ASSUME NEW j \in DOMAIN nums
      PROVE  CollectNums(u, name)[j] = scaled(nums[j])
  <2>1. PICK r \in Filled(t, name) : /\ nums[j] = FloatOf(Value(t, name, r))
                                     /\ CollectNums(u, name)[j] = FloatOf(Value(u, name, r))
    BY <1>5, <1>7, SamePlaces
  <2>2. r \in DOMAIN t.rows /\ Value(t, name, r) # Empty
    BY DEF Filled
  <2>3. nums[j] # NaN
    BY DEF HasNaN, ToSet
  <2>4. Value(u, name, r) = NormalizeCell(Value(t, name, r), nums)
    BY <1>5, <1>6, <1>7, <2>2
  <2> DEFINE m == scaled(nums[j])
  <2>5. NormalizeCell(Value(t, name, r), nums) = <<Numeral("d6", m)>>
    BY <1>2, <2>1, <2>2, <2>3 DEF NormalizeCell
  <2>6. FloatOf(<<Numeral("d6", m)>>) = m
    <3> HIDE DEF m
    <3> QED
      BY DEF FloatOf, Numeral, NaNAtom
  <2> QED
    BY <2>1, <2>4, <2>5, <2>6
<1> QED
  BY <1>5, <1>7, <1>8

\* NormalizeColumn keeps the order, and takes the extremes to 0 and 1.
LEMMA NormalizeMet ==
    ASSUME NEW t, IsTextTable(t), NEW name, HasColumn(t, name), ~ CollectFails(t, name),
           NEW nums, nums = CollectNums(t, name), nums # <<>>, ~ HasNaN(nums),
           NEW u, u = NormalizeColumn(t, name).table
    PROVE  /\ KeepsOrder(nums, u, name)
           /\ Low(nums) < High(nums) => Low(CollectNums(u, name)) = 0 /\ High(CollectNums(u, name)) = One
<1> DEFINE after == CollectNums(u, name)
           low == Low(nums)
           high == High(nums)
<1>1. nums \in Seq(Int) /\ DOMAIN nums = 1..Len(nums) /\ Len(nums) = Cardinality(Filled(t, name))
      /\ \A j \in DOMAIN nums : nums[j] \in Int
  <2>1. nums \in Seq(Int) /\ DOMAIN nums = 1..Len(nums) /\ Len(nums) = Cardinality(Filled(t, name))
    BY NumsTyped
  <2> QED
    BY <2>1, ElementOfSeq
<1>2. Len(nums) \in Nat \ {0} /\ 1 \in DOMAIN nums /\ Head(nums) = nums[1] /\ Head(nums) # NaN
  <2>1. Len(nums) \in Nat \ {0} /\ Head(nums) = nums[1]
    BY <1>1, LenProperties, EmptySeq
  <2>2. 1 \in DOMAIN nums
    BY <1>1, <2>1
  <2> QED
    BY <2>1, <2>2 DEF HasNaN, ToSet
<1>3. /\ low \in Int /\ high \in Int /\ low \in ToSet(nums) /\ high \in ToSet(nums)
      /\ \A j \in DOMAIN nums : low <= nums[j] /\ nums[j] <= high
  <2>1. /\ Low(nums) \in ToSet(nums) \ {NaN} /\ High(nums) \in ToSet(nums) \ {NaN}
        /\ Low(nums) \in Int /\ High(nums) \in Int
        /\ \A n \in ToSet(nums) : n # NaN => Low(nums) <= n /\ n <= High(nums)
    BY <1>1, <1>2, Extremes
  <2> QED
    BY <2>1 DEF HasNaN, ToSet
<1> HIDE DEF low, high
<1>4. CASE low = high
  <2>1. u = t
    BY <1>2, <1>4 DEF NormalizeColumn, Returned, low, high
  <2> QED
    BY <1>3, <1>4, <2>1 DEF KeepsOrder, low, high
<1>5. CASE low # high
  <2> DEFINE b == high - low
             place(x) == Rounded((x - low) * One, b, Fine)
  <2>1. low < high /\ b \in Nat \ {0}
    <3>1. low <= nums[1] /\ nums[1] <= high /\ nums[1] \in Int
      BY <1>1, <1>2, <1>3
    <3> QED
      BY <1>3, <1>5, <3>1
  <2>2. Filled(u, name) = Filled(t, name) /\ \A j \in DOMAIN nums : after[j] = place(nums[j])
    BY <2>1, NormalizedValues DEF low, high
  <2>3. ASSUME NEW x \in Int, NEW y \in Int, x <= y
        PROVE  place(x) <= place(y) /\ place(x) \in Int
    <3> DEFINE v == (x - low) * One
               w == (y - low) * One
    <3>1. v \in Int /\ w \in Int /\ v <= w
      BY <1>3, <2>3 DEF One
    <3>2. Fine \in Nat \ {0}
      BY DEF Fine
    <3> HIDE DEF v, w, b
    <3>3. Rounded(v, b, Fine) <= Rounded(w, b, Fine)
      BY <2>1, <3>1, <3>2, RoundedMonotone
    <3>4. Rounded(v, b, Fine) \in Int
      BY <2>1, <3>1, <3>2, RoundedInt
    <3> QED
      BY <3>3, <3>4 DEF v, w
  <2>4. place(low) = 0 /\ place(high) = One
    <3>1. (low - low) * One = 0 /\ (high - low) * One = b * One
      BY <1>3 DEF One
    <3>2. Rounded(0, b, Fine) = 0 /\ Rounded(b * One, b, Fine) = One
      <4> HIDE DEF b
      <4>1. 0 \in Int
        OBVIOUS
      <4> QED
        BY <2>1, <4>1, RoundedWhole
    <3> QED
      BY <3>1, <3>2
  <2> HIDE DEF place, b
  <2>5. KeepsOrder(nums, u, name)
    BY <1>1, <2>2, <2>3 DEF KeepsOrder, after
  <2>6. after \in Seq(Int) /\ DOMAIN after = DOMAIN nums
    <3>1. Cardinality(Filled(u, name)) = Len(nums) /\ DOMAIN InOrder(Filled(u, name)) = 1..Len(nums)
      BY <1>1, <2>2 DEF InOrder
    <3>2. after = [k \in 1..Len(nums) |-> FloatOf(Value(u, name, InOrder(Filled(u, name))[k]))]
      BY <3>1 DEF after, CollectNums
    <3>3. after = [k \in 1..Len(nums) |-> after[k]] /\ DOMAIN after = 1..Len(nums)
      BY <3>2
    <3> HIDE DEF after
    <3>4. ASSUME NEW k \in 1..Len(nums) PROVE after[k] \in Int
      <4>1. k \in DOMAIN nums /\ nums[k] \in Int /\ after[k] = place(nums[k])
        BY <1>1, <2>2, <3>4
      <4>2. nums[k] <= nums[k]
        BY <4>1
      <4> QED
        BY <2>3, <4>1, <4>2
    <3>5. after \in [1..Len(nums) -> Int]
      BY <3>3, <3>4
    <3> DEFINE n == Len(nums)
    <3>6. n \in Nat /\ DOMAIN nums = 1..n /\ after \in [1..n -> Int] /\ DOMAIN after = 1..n
      BY <1>1, <1>2, <3>3, <3>5
    <3> HIDE DEF n
    <3> QED
      BY <3>6, SeqDef
  <2>7. /\ \A j \in DOMAIN nums : 0 <= after[j] /\ after[j] <= One /\ after[j] \in Int
        /\ 0 \in ToSet(after) /\ One \in ToSet(after)
    <3>1. \A j \in DOMAIN nums : place(low) <= after[j] /\ after[j] <= place(high) /\ after[j] \in Int
      BY <1>1, <1>3, <2>2, <2>3
    <3>2. PICK l \in DOMAIN nums, h \in DOMAIN nums : nums[l] = low /\ nums[h] = high
      BY <1>3 DEF ToSet
    <3>3. after[l] = 0 /\ after[h] = One
      BY <2>2, <2>4, <3>2
    <3>4. after[l] \in ToSet(after) /\ after[h] \in ToSet(after)
      BY <2>6 DEF ToSet
    <3> QED
      BY <2>4, <3>1, <3>3, <3>4
  <2> HIDE DEF after
  <2>8. after # <<>> /\ Head(after) = after[1]
    BY <1>2, <2>6, EmptySeq
  <2>9. Head(after) # NaN
    BY <1>2, <2>7, <2>8 DEF NaN
  <2>10. /\ Low(after) \in ToSet(after) \ {NaN} /\ High(after) \in ToSet(after) \ {NaN}
         /\ Low(after) \in Int /\ High(after) \in Int
         /\ \A n \in ToSet(after) : n # NaN => Low(after) <= n /\ n <= High(after)
    BY <2>6, <2>8, <2>9, Extremes
  <2>11. 0 <= Low(after) /\ High(after) <= One
    BY <2>6, <2>7, <2>10 DEF ToSet
  <2>12. Low(after) <= 0 /\ One <= High(after)
    <3>1. 0 # NaN /\ One # NaN
      BY DEF NaN, One
    <3> QED
      BY <2>7, <2>10, <3>1
  <2>13. Low(after) = 0 /\ High(after) = One
    <3>1. One \in Int
      BY DEF One
    <3> QED
      BY <2>10, <2>11, <2>12, <3>1
  <2> QED
    BY <2>5, <2>13 DEF after
<1> QED
  BY <1>4, <1>5

\* The cells of a column of numbers make a list of numbers that is not empty.
LEMMA NumberColumn ==
    ASSUME IsTextTable(table), NEW name \in NumberColumns
    PROVE  /\ HasColumn(table, name) /\ ~ CollectFails(table, name)
           /\ ~ HasNaN(CollectNums(table, name)) /\ CollectNums(table, name) # <<>>
           /\ CollectNums(table, name) \in Seq(Int)
<1>1. /\ HasColumn(table, name) /\ ~ CollectFails(table, name)
      /\ ~ HasNaN(CollectNums(table, name)) /\ Filled(table, name) # {}
  BY DEF NumberColumns
<1>2. /\ CollectNums(table, name) \in Seq(Int)
      /\ Len(CollectNums(table, name)) = Cardinality(Filled(table, name))
      /\ IsFiniteSet(Filled(table, name))
  BY <1>1, NumsTyped
<1>3. Cardinality(Filled(table, name)) # 0
  BY <1>1, <1>2, FS_EmptySet
<1>4. CollectNums(table, name) # <<>>
  BY <1>2, <1>3, EmptySeq
<1> QED
  BY <1>1, <1>2, <1>4

LEMMA BenchInvBounds == BenchInv => BoundsMet
<1> SUFFICES ASSUME BenchInv, NEW name \in Names, HasColumn(table, name)
             PROVE  /\ \A b \in Bounds :
                        LET t == ClampValues(table, name, b[1], b[2]).table
                            cells == {Value(t, name, r) : r \in DOMAIN t.rows}
                            inRange(c) == FloatOf(c) = NaN \/ (b[1] <= FloatOf(c) /\ FloatOf(c) <= b[2])
                            rule == [column |-> name, kind |-> "range",
                                     fits |-> {c \in cells : ParsesFloat(c) /\ inRange(c)}]
                        IN  b[1] <= b[2] /\ b[1] % Grain = 0 /\ b[2] % Grain = 0 =>
                              /\ \A r \in DOMAIN t.rows :
                                   Violates(t, rule, r) => ~ ParsesFloat(Value(t, name, r))
                              /\ name \in NumberColumns => KeepsOrder(CollectNums(table, name), t, name)
                    /\ name \in NumberColumns =>
                        LET before == CollectNums(table, name)
                            scaled == NormalizeColumn(table, name).table
                            after  == CollectNums(scaled, name)
                        IN  /\ KeepsOrder(before, scaled, name)
                            /\ Low(before) < High(before) => Low(after) = 0 /\ High(after) = One
  BY Zenon DEF BoundsMet
<1>1. IsTextTable(table)
  BY DEF BenchInv
<1>2. ASSUME NEW b \in Bounds, b[1] <= b[2], b[1] % Grain = 0, b[2] % Grain = 0
      PROVE  LET t == ClampValues(table, name, b[1], b[2]).table
                 cells == {Value(t, name, r) : r \in DOMAIN t.rows}
                 inRange(c) == FloatOf(c) = NaN \/ (b[1] <= FloatOf(c) /\ FloatOf(c) <= b[2])
                 rule == [column |-> name, kind |-> "range",
                          fits |-> {c \in cells : ParsesFloat(c) /\ inRange(c)}]
             IN  /\ \A r \in DOMAIN t.rows :
                      Violates(t, rule, r) => ~ ParsesFloat(Value(t, name, r))
                 /\ name \in NumberColumns => KeepsOrder(CollectNums(table, name), t, name)
  <2> DEFINE min == b[1]
             max == b[2]
             t == ClampValues(table, name, min, max).table
             cells == {Value(t, name, r) : r \in DOMAIN t.rows}
             inRange(c) == FloatOf(c) = NaN \/ (min <= FloatOf(c) /\ FloatOf(c) <= max)
             fits == {c \in cells : ParsesFloat(c) /\ inRange(c)}
             rule == [column |-> name, kind |-> "range", fits |-> fits]
  <2>1. min \in Int /\ max \in Int /\ min <= max /\ min % Grain = 0 /\ max % Grain = 0
    BY <1>2, BoundsAssumption
  <2>2. /\ \A r \in DOMAIN t.rows : ParsesFloat(Value(t, name, r)) =>
             FloatOf(Value(t, name, r)) = NaN
             \/ (min <= FloatOf(Value(t, name, r)) /\ FloatOf(Value(t, name, r)) <= max)
        /\ ~ CollectFails(table, name) /\ ~ HasNaN(CollectNums(table, name)) =>
             KeepsOrder(CollectNums(table, name), t, name)
    <3> DEFINE u == t
    <3>1. u = ClampValues(table, name, min, max).table
      OBVIOUS
    <3> HIDE DEF u, min, max
    <3>2. /\ \A r \in DOMAIN u.rows : ParsesFloat(Value(u, name, r)) =>
                FloatOf(Value(u, name, r)) = NaN
                \/ (min <= FloatOf(Value(u, name, r)) /\ FloatOf(Value(u, name, r)) <= max)
          /\ ~ CollectFails(table, name) /\ ~ HasNaN(CollectNums(table, name)) =>
                KeepsOrder(CollectNums(table, name), u, name)
      BY <1>1, <2>1, <3>1, ClampMet
    <3> QED
      BY <3>2 DEF u
  <2> HIDE DEF t
  <2>3. ASSUME NEW r \in DOMAIN t.rows, Violates(t, rule, r)
        PROVE  ~ ParsesFloat(Value(t, name, r))
    <3>1. rule.kind = "range" /\ rule.column = name /\ rule.fits = fits
      OBVIOUS
    <3> HIDE DEF rule, fits
    <3>2. Value(t, name, r) \notin fits
      BY <2>3, <3>1 DEF Violates
    <3> QED
      BY <2>2, <3>2 DEF fits
  <2>4. name \in NumberColumns => KeepsOrder(CollectNums(table, name), t, name)
    BY <1>1, <2>2, NumberColumn
  <2> QED
    BY <2>3, <2>4 DEF t
<1>3. ASSUME name \in NumberColumns
      PROVE  LET before == CollectNums(table, name)
                 scaled == NormalizeColumn(table, name).table
                 after  == CollectNums(scaled, name)
             IN  /\ KeepsOrder(before, scaled, name)
                 /\ Low(before) < High(before) => Low(after) = 0 /\ High(after) = One
  <2> DEFINE before == CollectNums(table, name)
             scaled == NormalizeColumn(table, name).table
  <2>1. ~ CollectFails(table, name) /\ ~ HasNaN(before) /\ before # <<>> /\ before \in Seq(Int)
    BY <1>1, <1>3, NumberColumn
  <2>2. before = CollectNums(table, name) /\ scaled = NormalizeColumn(table, name).table
    OBVIOUS
  <2> HIDE DEF before, scaled
  <2>3. /\ KeepsOrder(before, scaled, name)
        /\ Low(before) < High(before) =>
             Low(CollectNums(scaled, name)) = 0 /\ High(CollectNums(scaled, name)) = One
    BY <1>1, <2>1, <2>2, NormalizeMet
  <2> QED
    BY <2>3 DEF before, scaled
<1> QED
  BY <1>2, <1>3

\* BoundsMet holds for all bounds and tables: a column clamped to bounds that can be
\* written satisfies the range rule with them, ClampValues and NormalizeColumn keep
\* the order of the numbers, and NormalizeColumn takes the extremes to 0 and 1.
THEOREM BoundsCorrect == BenchSpec => []BoundsMet
<1>1. BenchInv => BoundsMet
  BY BenchInvBounds
<1> QED
  BY <1>1, BenchInvariant, PTL
-------------------------------------------------------------------------------
(* Counting *)

LEMMA EqualCounts ==
    ASSUME NEW S, IsFiniteSet(S), NEW T, NEW f \in Bijection(S, T),
           NEW A \in SUBSET S, NEW B \in SUBSET T, \A x \in S : x \in A <=> f[x] \in B
    PROVE  IsFiniteSet(A) /\ IsFiniteSet(B) /\ Cardinality(A) = Cardinality(B)
<1> DEFINE g == [x \in A |-> f[x]]
<1>1. f \in [S -> T] /\ (\A x, y \in S : f[x] = f[y] => x = y) /\ \A y \in T : \E x \in S : f[x] = y
  BY Fun_BijectionProperties
<1>2. g \in [A -> B] /\ \A x \in A : g[x] = f[x]
  BY <1>1
<1> HIDE DEF g
<1>3. g \in Surjection(A, B)
  <2>1. \A y \in B : \E x \in A : g[x] = y
    BY <1>1, <1>2
  <2> QED
    BY <1>2, <2>1, Fun_IsSurj
<1>4. g \in Injection(A, B)
  <2>1. \A x, y \in A : g[x] = g[y] => x = y
    BY <1>1, <1>2
  <2> QED
    BY <1>2, <2>1, Fun_IsInj
<1>5. IsFiniteSet(A)
  BY FS_Subset
<1> QED
  BY <1>3, <1>4, <1>5, FS_Surjection

LEMMA UpToCount ==
    ASSUME NEW n \in Nat
    PROVE  IsFiniteSet(1..n) /\ Cardinality(1..n) = n
<1>1. 1 \in Int /\ n \in Int /\ (IF 1 > n THEN 0 ELSE n - 1 + 1) = n
  OBVIOUS
<1> QED
  BY <1>1, FS_Interval

\* A set that the numbers enter from below has as many of a list as there are
\* places in the sorted list before the first that is outside of it.
LEMMA RanksBelow ==
    ASSUME NEW nums \in Seq(Int), NEW V \in SUBSET Int, \A x \in V, y \in Int : y <= x => y \in V
    PROVE  /\ Cardinality({j \in DOMAIN nums : nums[j] \in V}) \in 0..Len(nums)
           /\ \A k \in 1..Len(nums) : Sorted(nums)[k] \in Int
           /\ \A k \in 1..Len(nums) :
                Sorted(nums)[k] \in V <=> k <= Cardinality({j \in DOMAIN nums : nums[j] \in V})
<1> DEFINE n == Len(nums)
           s == Sorted(nums)
           A == {k \in 1..n : s[k] \in V}
           B == {j \in DOMAIN nums : nums[j] \in V}
<1>1. n \in Nat /\ DOMAIN nums = 1..n /\ \A j \in 1..n : nums[j] \in Int
  BY LenProperties, ElementOfSeq
<1>2. PICK from : Sorts(nums, s, from)
  BY SortedSorts
<1>3. /\ from \in Bijection(1..n, 1..n) /\ s = [k \in 1..n |-> nums[from[k]]]
      /\ \A k, l \in 1..n : k <= l => s[k] <= s[l]
  BY <1>2 DEF Sorts
<1> HIDE DEF s
<1>4. \A k \in 1..n : s[k] = nums[from[k]] /\ from[k] \in 1..n /\ s[k] \in Int
  <2> HIDE DEF n
  <2>1. from \in [1..n -> 1..n]
    BY <1>3, Fun_BijectionProperties
  <2> QED
    BY <1>1, <1>3, <2>1
<1>5. IsFiniteSet(1..n) /\ Cardinality(1..n) = n
  <2> HIDE DEF n
  <2> QED
    BY <1>1, UpToCount
<1>6. IsFiniteSet(A) /\ Cardinality(A) = Cardinality(B) /\ Cardinality(A) \in Nat /\ Cardinality(A) <= n
  <2>1. A \in SUBSET (1..n) /\ B \in SUBSET (1..n)
    BY <1>1
  <2>2. \A k \in 1..n : k \in A <=> from[k] \in B
    BY <1>1, <1>4
  <2> DEFINE D == 1..n
  <2>3. /\ IsFiniteSet(D) /\ Cardinality(D) = n /\ from \in Bijection(D, D)
        /\ A \in SUBSET D /\ B \in SUBSET D /\ \A k \in D : k \in A <=> from[k] \in B
    BY <1>3, <1>5, <2>1, <2>2
  <2> HIDE DEF A, B, n, D
  <2>4. IsFiniteSet(A) /\ Cardinality(A) = Cardinality(B)
    BY <2>3, EqualCounts
  <2>5. Cardinality(A) <= n
    BY <2>3, FS_Subset
  <2>6. Cardinality(A) \in Nat
    BY <2>4, FS_CardinalityType
  <2> QED
    BY <2>4, <2>5, <2>6
<1>7. ASSUME NEW k \in 1..n, s[k] \in V
      PROVE  k <= Cardinality(A)
  <2>1. k \in Nat /\ 1..k \in SUBSET A
    <3> HIDE DEF n
    <3> QED
      BY <1>1, <1>3, <1>4, <1>7
  <2>2. IsFiniteSet(1..k) /\ Cardinality(1..k) = k
    BY <2>1, UpToCount
  <2> HIDE DEF A, n
  <2> QED
    BY <1>6, <2>1, <2>2, FS_Subset
<1>8. ASSUME NEW k \in 1..n, s[k] \notin V
      PROVE  Cardinality(A) < k
  <2> DEFINE m == k - 1
  <2>1. k \in Nat /\ m \in Nat /\ k = m + 1
    <3> HIDE DEF n
    <3> QED
      BY <1>1
  <2>2. A \in SUBSET (1..m)
    <3> HIDE DEF n, m
    <3>1. \A l \in 1..n : k <= l => s[l] \notin V
      BY <1>3, <1>4, <1>8
    <3> QED
      BY <1>1, <2>1, <3>1
  <2> HIDE DEF m, A, n
  <2>3. IsFiniteSet(1..m) /\ Cardinality(1..m) = m
    BY <2>1, UpToCount
  <2>4. Cardinality(A) <= m
    BY <2>2, <2>3, FS_Subset
  <2> QED
    BY <1>6, <2>1, <2>4
<1>9. \A k \in 1..n : s[k] \in V <=> k <= Cardinality(B)
  <2> HIDE DEF A, B, n
  <2> QED
    BY <1>1, <1>6, <1>7, <1>8
<1>10. Cardinality(B) \in 0..n
  <2> HIDE DEF A, B, n
  <2> QED
    BY <1>1, <1>6
<1> QED
  BY <1>4, <1>9, <1>10 DEF s

\* A set that the numbers enter from above.
LEMMA RanksAbove ==
    ASSUME NEW nums \in Seq(Int), NEW V \in SUBSET Int, \A x \in V, y \in Int : y >= x => y \in V
    PROVE  /\ Cardinality({j \in DOMAIN nums : nums[j] \in V}) \in 0..Len(nums)
           /\ \A k \in 1..Len(nums) :
                Sorted(nums)[k] \in V <=> k > Len(nums) - Cardinality({j \in DOMAIN nums : nums[j] \in V})
<1> DEFINE n == Len(nums)
           W == Int \ V
           A == {j \in DOMAIN nums : nums[j] \in V}
           B == {j \in DOMAIN nums : nums[j] \in W}
<1>1. n \in Nat /\ DOMAIN nums = 1..n /\ \A j \in 1..n : nums[j] \in Int
  BY LenProperties, ElementOfSeq
<1>2. W \in SUBSET Int /\ \A x \in W, y \in Int : y <= x => y \in W
  OBVIOUS
<1>3. /\ Cardinality(B) \in 0..n
      /\ \A k \in 1..n : Sorted(nums)[k] \in Int
      /\ \A k \in 1..n : Sorted(nums)[k] \in W <=> k <= Cardinality(B)
  <2> HIDE DEF W
  <2> QED
    BY <1>2, RanksBelow
<1>4. Cardinality(A) = n - Cardinality(B)
  <2>1. IsFiniteSet(1..n) /\ Cardinality(1..n) = n
    <3> HIDE DEF n
    <3> QED
      BY <1>1, UpToCount
  <2> DEFINE D == 1..n
  <2>2. A = D \ B /\ D \cap B = B /\ IsFiniteSet(D) /\ Cardinality(D) = n
    BY <1>1, <2>1
  <2> HIDE DEF A, B, n, D
  <2> QED
    BY <2>2, FS_Difference
<1>5. \A k \in 1..n : Sorted(nums)[k] \in V <=> k > n - Cardinality(A)
  <2> TAKE k \in 1..n
  <2>1. Sorted(nums)[k] \in V <=> ~ (Sorted(nums)[k] \in W)
    BY <1>3
  <2> HIDE DEF A, B, n, W
  <2>2. k \in Int /\ Cardinality(B) \in Int /\ n - Cardinality(A) = Cardinality(B)
    BY <1>1, <1>3, <1>4
  <2> QED
    BY <1>3, <2>1, <2>2
<1>6. Cardinality(A) \in 0..n
  <2> HIDE DEF A, B, n
  <2> QED
    BY <1>1, <1>3, <1>4
<1> QED
  BY <1>5, <1>6
-------------------------------------------------------------------------------
(* Quantiles *)

\* The value at hundredths of a place, counted from 0.
At(s, x) ==
    IF x % 100 = 0 THEN 100 * s[x \div 100 + 1]
    ELSE Interpolated(s[x \div 100 + 1], s[x \div 100 + 2], x % 100)

\* A list in ascending order.
Ascending(s, n) ==
    /\ n \in Nat \ {0} /\ Len(s) = n /\ \A k \in 1..n : s[k] \in Int
    /\ \A k, l \in 1..n : k <= l => s[k] <= s[l]

LEMMA SortedAscending ==
    ASSUME NEW nums \in Seq(Int), nums # << >>
    PROVE  Ascending(Sorted(nums), Len(nums)) /\ Sorted(nums) \in Seq(Int)
<1> DEFINE n == Len(nums)
<1>1. n \in Nat \ {0} /\ \A l \in 1..n : nums[l] \in Int
  BY LenProperties, ElementOfSeq, EmptySeq
<1>2. PICK from : Sorts(nums, Sorted(nums), from)
  BY SortedSorts
<1>3. \A k, l \in 1..n : k <= l => Sorted(nums)[k] <= Sorted(nums)[l]
  BY <1>2 DEF Sorts
<1>4. Sorted(nums) \in Seq(Int) /\ Len(Sorted(nums)) = n
  BY SortedTyped
<1>5. \A k \in 1..n : Sorted(nums)[k] \in Int
  BY <1>4, ElementOfSeq
<1> QED
  BY <1>1, <1>3, <1>4, <1>5 DEF Ascending

LEMMA PercentileAt ==
    ASSUME NEW s, NEW p
    PROVE  Percentile(s, p) = At(s, p * (Len(s) - 1))
  BY DEF Percentile, At

\* The mean of two numbers with whole weights lies between them, nearer to the
\* second the greater its weight.
LEMMA InterpolatedBetween ==
    ASSUME NEW a \in Int, NEW b \in Int, a <= b, NEW f \in 0..100
    PROVE  /\ Interpolated(a, b, f) \in Int
           /\ 100 * a <= Interpolated(a, b, f) /\ Interpolated(a, b, f) <= 100 * b
           /\ \A g \in 0..100 : f <= g => Interpolated(a, b, f) <= Interpolated(a, b, g)
<1> DEFINE m == b - a
<1>1. m \in Nat /\ b = a + m
  OBVIOUS
<1>2. ASSUME NEW g \in 0..100
      PROVE  Interpolated(a, b, g) = 100 * a + m * g /\ m * g \in Nat
  <2>1. a * (100 - g) + (a + m) * g = 100 * a + m * g
    BY <1>1
  <2> HIDE DEF m
  <2> QED
    BY <1>1, <2>1 DEF Interpolated
<1>3. ASSUME NEW g \in 0..100, f <= g
      PROVE  m * f <= m * g
  <2> DEFINE d == g - f
  <2>1. d \in Nat /\ g = f + d
    BY <1>3
  <2> HIDE DEF m, d
  <2>2. m * g = m * f + m * d /\ m * d \in Nat /\ m * f \in Int
    BY <1>1, <2>1
  <2> QED
    BY <2>2
<1>4. m * f <= m * 100
  BY <1>3
<1> HIDE DEF m
<1>5. m * f \in Nat /\ Interpolated(a, b, f) = 100 * a + m * f
  BY <1>2
<1> QED
  BY <1>1, <1>2, <1>3, <1>4, <1>5

LEMMA AtBetween ==
    ASSUME NEW n, NEW s, Ascending(s, n), NEW x \in Int, 0 <= x, x <= 100 * (n - 1)
    PROVE  /\ At(s, x) \in Int
           /\ x \div 100 + 1 \in 1..n /\ 100 * s[x \div 100 + 1] <= At(s, x)
           /\ x % 100 = 0 => At(s, x) = 100 * s[x \div 100 + 1]
           /\ x % 100 # 0 => /\ x \div 100 + 2 \in 1..n
                             /\ At(s, x) = Interpolated(s[x \div 100 + 1], s[x \div 100 + 2], x % 100)
                             /\ At(s, x) <= 100 * s[x \div 100 + 2]
<1> DEFINE q == x \div 100
           f == x % 100
<1>1. n \in Nat \ {0} /\ (\A k \in 1..n : s[k] \in Int) /\ \A k, l \in 1..n : k <= l => s[k] <= s[l]
  BY DEF Ascending
<1>2. q \in Int /\ f \in 0..99 /\ x = 100 * q + f /\ 0 <= q /\ q <= n - 1
      /\ (f # 0 => q <= n - 2)
  BY <1>1
<1>3. At(s, x) = IF f = 0 THEN 100 * s[q + 1] ELSE Interpolated(s[q + 1], s[q + 2], f)
  BY DEF At
<1> HIDE DEF q, f
<1>4. q + 1 \in 1..n /\ s[q + 1] \in Int
  BY <1>1, <1>2
<1>5. CASE f = 0
  BY <1>3, <1>4, <1>5 DEF q, f
<1>6. CASE f # 0
  <2>1. q + 2 \in 1..n /\ s[q + 2] \in Int /\ s[q + 1] <= s[q + 2]
    BY <1>1, <1>2, <1>4, <1>6
  <2> DEFINE a == s[q + 1]
             b == s[q + 2]
  <2>2. f \in 0..100 /\ a \in Int /\ b \in Int /\ a <= b
    BY <1>2, <1>4, <2>1
  <2> HIDE DEF a, b
  <2>3. /\ Interpolated(a, b, f) \in Int
        /\ 100 * a <= Interpolated(a, b, f) /\ Interpolated(a, b, f) <= 100 * b
    BY <2>2, InterpolatedBetween
  <2>4. At(s, x) = Interpolated(a, b, f)
    BY <1>3, <1>6 DEF a, b
  <2> QED
    BY <1>4, <1>6, <2>1, <2>3, <2>4 DEF q, f, a, b
<1> QED
  BY <1>5, <1>6

LEMMA AtRises ==
    ASSUME NEW n, NEW s, Ascending(s, n), NEW x \in Int, NEW y \in Int,
           0 <= x, x <= y, y <= 100 * (n - 1)
    PROVE  At(s, x) <= At(s, y)
<1> DEFINE q == x \div 100
           f == x % 100
           r == y \div 100
           g == y % 100
<1>1. n \in Nat \ {0} /\ (\A k \in 1..n : s[k] \in Int) /\ \A k, l \in 1..n : k <= l => s[k] <= s[l]
  BY DEF Ascending
<1>2. /\ At(s, x) \in Int
      /\ q + 1 \in 1..n /\ 100 * s[q + 1] <= At(s, x)
      /\ f = 0 => At(s, x) = 100 * s[q + 1]
      /\ f # 0 => /\ q + 2 \in 1..n
                  /\ At(s, x) = Interpolated(s[q + 1], s[q + 2], f)
                  /\ At(s, x) <= 100 * s[q + 2]
  <2>1. x <= 100 * (n - 1)
    BY <1>1
  <2> QED
    BY <2>1, AtBetween
<1>3. /\ At(s, y) \in Int
      /\ r + 1 \in 1..n /\ 100 * s[r + 1] <= At(s, y)
      /\ g = 0 => At(s, y) = 100 * s[r + 1]
      /\ g # 0 => /\ r + 2 \in 1..n
                  /\ At(s, y) = Interpolated(s[r + 1], s[r + 2], g)
                  /\ At(s, y) <= 100 * s[r + 2]
  <2>1. 0 <= y
    OBVIOUS
  <2> QED
    BY <2>1, AtBetween
<1>4. /\ q \in Int /\ f \in 0..99 /\ x = 100 * q + f
      /\ r \in Int /\ g \in 0..99 /\ y = 100 * r + g
  OBVIOUS
<1> HIDE DEF q, f, r, g
<1>5. q <= r /\ (q = r => f <= g)
  BY <1>4
<1>6. CASE q = r
  <2>1. CASE f = 0
    BY <1>2, <1>3, <1>6, <2>1
  <2>2. CASE f # 0
    <3> DEFINE a == s[q + 1]
               b == s[q + 2]
    <3>1. a \in Int /\ b \in Int /\ a <= b /\ f \in 0..100 /\ g \in 0..100 /\ f <= g /\ g # 0
      <4>1. q + 1 \in 1..n /\ q + 2 \in 1..n /\ q + 1 <= q + 2
        BY <1>2, <1>4, <2>2
      <4> QED
        BY <1>1, <1>4, <1>5, <1>6, <2>2, <4>1
    <3>2. At(s, x) = Interpolated(a, b, f) /\ At(s, y) = Interpolated(a, b, g)
      BY <1>2, <1>3, <1>6, <2>2, <3>1
    <3> HIDE DEF a, b
    <3>3. Interpolated(a, b, f) <= Interpolated(a, b, g)
      BY <3>1, InterpolatedBetween
    <3> QED
      BY <3>2, <3>3
  <2> QED
    BY <2>1, <2>2
<1>7. CASE q < r
  <2>1. s[r + 1] \in Int
    BY <1>1, <1>3
  <2>2. At(s, x) <= 100 * s[r + 1]
    <3>1. CASE f = 0
      <4>1. s[q + 1] \in Int /\ s[q + 1] <= s[r + 1]
        BY <1>1, <1>2, <1>3, <1>4, <1>7
      <4> QED
        BY <1>2, <2>1, <3>1, <4>1
    <3>2. CASE f # 0
      <4>1. s[q + 2] \in Int /\ s[q + 2] <= s[r + 1]
        <5>1. q + 2 \in 1..n /\ r + 1 \in 1..n /\ q + 2 <= r + 1
          BY <1>2, <1>3, <1>4, <1>7, <3>2
        <5> QED
          BY <1>1, <5>1
      <4> QED
        BY <1>2, <2>1, <3>2, <4>1
    <3> QED
      BY <3>1, <3>2
  <2> QED
    BY <1>2, <1>3, <2>1, <2>2
<1> QED
  BY <1>4, <1>5, <1>6, <1>7

LEMMA PercentileRises ==
    ASSUME NEW n, NEW s, Ascending(s, n), NEW p \in 0..100, NEW q \in 0..100, p <= q
    PROVE  /\ Percentile(s, p) \in Int /\ Percentile(s, p) <= Percentile(s, q)
           /\ Percentile(s, 0) = 100 * s[1] /\ Percentile(s, 100) = 100 * s[n]
<1> DEFINE m == n - 1
           x == p * m
           y == q * m
<1>1. n \in Nat \ {0} /\ Len(s) = n /\ m \in Nat /\ n = m + 1
  BY DEF Ascending
<1>2. x \in Int /\ y \in Int /\ 0 <= x /\ x <= y /\ y <= 100 * m
  <2> DEFINE d == q - p
             e == 100 - q
  <2>1. d \in Nat /\ e \in Nat /\ q = p + d /\ 100 = q + e
    OBVIOUS
  <2> HIDE DEF m, d, e
  <2>2. q * m = p * m + d * m /\ 100 * m = q * m + e * m
    <3>1. (p + d) * m = p * m + d * m /\ (q + e) * m = q * m + e * m
      BY <1>1, <2>1
    <3> QED
      BY <2>1, <3>1
  <2>3. d * m \in Nat /\ e * m \in Nat /\ p * m \in Nat
    BY <1>1, <2>1
  <2> QED
    BY <2>2, <2>3
<1>3. Percentile(s, p) = At(s, x) /\ Percentile(s, q) = At(s, y)
  <2> HIDE DEF m
  <2> QED
    BY <1>1, PercentileAt DEF m
<1>4. Percentile(s, 0) = 100 * s[1] /\ Percentile(s, 100) = 100 * s[n]
  <2>1. 0 * m = 0 /\ 0 % 100 = 0 /\ 0 \div 100 = 0
        /\ (100 * m) % 100 = 0 /\ (100 * m) \div 100 = m
    <3> HIDE DEF m
    <3> QED
      BY <1>1
  <2>2. Percentile(s, 0) = At(s, 0 * m) /\ Percentile(s, 100) = At(s, 100 * m)
    BY <1>1, PercentileAt
  <2>3. At(s, 0 * m) = 100 * s[0 + 1] /\ At(s, 100 * m) = 100 * s[m + 1]
    <3> HIDE DEF m
    <3> QED
      BY <2>1 DEF At
  <2> QED
    BY <1>1, <2>2, <2>3
<1>5. At(s, x) \in Int /\ At(s, x) <= At(s, y)
  <2> HIDE DEF x, y
  <2>1. x <= 100 * (n - 1) /\ y <= 100 * (n - 1)
    BY <1>1, <1>2
  <2> QED
    BY <1>2, <2>1, AtRises, AtBetween
<1> QED
  BY <1>3, <1>4, <1>5
-------------------------------------------------------------------------------
(* ProfileExact *)

\* The profile of a column in the terms of its cells and its numbers.
LEMMA ProfileMeans ==
    ASSUME NEW t, IsTextTable(t), NEW name
    PROVE  LET p == ProfileColumn(t, ColumnOf(t, name))
               sorted == Sorted(CollectNums(t, name))
           IN  /\ p.nullCount = Len(t.rows) - Cardinality(Filled(t, name))
               /\ p.distinct = Cardinality({Value(t, name, r) : r \in Filled(t, name)})
               /\ Filled(t, name) # {} /\ ~ CollectFails(t, name) =>
                    /\ p.isNumeric /\ p.min = Head(sorted) /\ p.max = Last(sorted)
                    /\ p.quantiles = [q \in DOMAIN Quantiles |-> Percentile(sorted, Quantiles[q])]
<1> DEFINE k == ColumnOf(t, name)
           S == Filled(t, name)
           n == Cardinality(S)
           filled == Pick(t.rows, {r \in DOMAIN t.rows : CellAt(t.rows[r], k) # Empty})
           values == [l \in DOMAIN filled |-> CellAt(filled[l], k)]
           floats == [l \in DOMAIN values |-> FloatOf(values[l])]
           nums == Sorted(floats)
           text == [nullCount |-> Len(t.rows) - Len(values),
                    distinct  |-> Cardinality(ToSet(values)),
                    isNumeric |-> FALSE]
           full == [nullCount |-> text.nullCount, distinct |-> text.distinct, isNumeric |-> TRUE,
                    min |-> Head(nums), max |-> Last(nums), sum |-> SumOf(nums),
                    quantiles |-> [q \in DOMAIN Quantiles |-> Percentile(nums, Quantiles[q])]]
           p == ProfileColumn(t, k)
<1>1. p = IF values = <<>> \/ \E l \in DOMAIN values : ~ ParsesFloat(values[l]) THEN text ELSE full
  BY DEF ProfileColumn
<1>2. S = {r \in DOMAIN t.rows : CellAt(t.rows[r], k) # Empty} /\ S \in SUBSET DOMAIN t.rows
  BY DEF Filled, Value
<1>3. /\ n \in Nat /\ IsFiniteSet(S)
      /\ \A l \in 1..n : Nth(S, l) \in S
      /\ \A x \in S : \E l \in 1..n : Nth(S, l) = x
  <2> HIDE DEF S
  <2>1. DOMAIN t.rows \in SUBSET Nat /\ IsFiniteSet(DOMAIN t.rows)
    BY RowsTyped
  <2>2. S \in SUBSET Nat /\ IsFiniteSet(S)
    BY <1>2, <2>1, FS_Subset
  <2>3. /\ Cardinality(S) \in Nat
        /\ \A l \in 1..Cardinality(S) : Nth(S, l) \in S
        /\ \A x \in S : CountBelow(S, x) + 1 \in 1..Cardinality(S) /\ Nth(S, CountBelow(S, x) + 1) = x
    BY <2>2, NthLists
  <2> QED
    BY <2>2, <2>3
<1>4. filled = [l \in 1..n |-> t.rows[Nth(S, l)]]
  <2> HIDE DEF S
  <2> QED
    BY <1>2 DEF Pick
<1>5. values = [l \in 1..n |-> Value(t, name, Nth(S, l))]
  <2> HIDE DEF filled, S
  <2> QED
    BY <1>4 DEF Value
<1>6. floats = CollectNums(t, name)
  <2>1. CollectNums(t, name) = [l \in 1..n |-> FloatOf(Value(t, name, Nth(S, l)))]
    BY DEF CollectNums, InOrder
  <2> HIDE DEF values, S
  <2> QED
    BY <1>5, <2>1
<1> HIDE DEF filled
<1>7. Len(values) = n /\ DOMAIN values = 1..n
  <2> DEFINE V == ToSet(values)
  <2>1. DOMAIN values = 1..n /\ values = [l \in 1..n |-> values[l]]
    BY <1>5
  <2>2. \A l \in 1..n : values[l] \in V
    BY <2>1 DEF ToSet
  <2> HIDE DEF values, n, V
  <2>3. values \in [1..n -> V]
    BY <2>1, <2>2
  <2> QED
    BY <1>3, <2>1, <2>3, FunctionIsList
<1>8. ToSet(values) = {Value(t, name, r) : r \in S}
  <2>1. ToSet(values) = {values[l] : l \in 1..n}
    BY <1>7 DEF ToSet
  <2> HIDE DEF values, S, n
  <2> QED
    BY <1>3, <1>5, <2>1
<1>9. S # {} /\ ~ CollectFails(t, name) => values # <<>> /\ \A l \in DOMAIN values : ParsesFloat(values[l])
  <2> SUFFICES ASSUME S # {}, ~ CollectFails(t, name)
               PROVE  values # <<>> /\ \A l \in DOMAIN values : ParsesFloat(values[l])
    OBVIOUS
  <2>1. n # 0
    <3> HIDE DEF S
    <3> QED
      BY <1>3, FS_EmptySet
  <2>2. values # <<>>
    <3> HIDE DEF values, n
    <3> QED
      BY <1>7, <2>1, EmptySeq
  <2>3. \A r \in S : ParsesFloat(Value(t, name, r))
    BY DEF CollectFails
  <2>4. \A l \in 1..n : ParsesFloat(values[l])
    <3> HIDE DEF values, S, n
    <3> QED
      BY <1>3, <1>5, <2>3
  <2> QED
    BY <1>7, <2>2, <2>4
<1> HIDE DEF values
<1>10. text.nullCount = Len(t.rows) - n /\ text.distinct = Cardinality({Value(t, name, r) : r \in S})
  BY <1>7, <1>8
<1>11. p.nullCount = text.nullCount /\ p.distinct = text.distinct
  BY <1>1
<1>12. S # {} /\ ~ CollectFails(t, name) =>
         /\ p.isNumeric /\ p.min = Head(nums) /\ p.max = Last(nums)
         /\ p.quantiles = [q \in DOMAIN Quantiles |-> Percentile(nums, Quantiles[q])]
  <2> HIDE DEF S
  <2> QED
    BY <1>1, <1>9
<1> HIDE DEF text, full, p, floats
<1> QED
  BY <1>6, <1>10, <1>11, <1>12 DEF p

\* The violations of notnull and of unique in a column, and its texts.
Counted(t, name, nulls, twins, texts) ==
    /\ \A r : r \in nulls <=>
         r \in DOMAIN t.rows /\ Violates(t, [column |-> name, kind |-> "notnull"], r)
    /\ \A r : r \in twins <=>
         r \in DOMAIN t.rows /\ Violates(t, [column |-> name, kind |-> "unique"], r)
    /\ \A x : x \in texts <=> \E r \in Filled(t, name) : x = Value(t, name, r)

\* Empty cells are the violations of notnull, and a column has none of unique if its
\* cells are as many texts, of which at most one is empty.
LEMMA NullsAndTwins ==
    ASSUME NEW t, IsTextTable(t), NEW name,
           NEW nulls, NEW twins, NEW texts, Counted(t, name, nulls, twins, texts)
    PROVE  /\ Len(t.rows) - Cardinality(Filled(t, name)) = Cardinality(nulls)
           /\ twins = {} <=> /\ Cardinality(texts) + Cardinality(nulls) = Len(t.rows)
                             /\ Cardinality(nulls) <= 1
<1> DEFINE S == Filled(t, name)
           D == DOMAIN t.rows
           n == Len(t.rows)
<1>1. n \in Nat /\ D = 1..n /\ IsFiniteSet(D)
  BY RowsTyped
<1>2. IsFiniteSet(1..n) /\ Cardinality(1..n) = n
  <2> HIDE DEF n
  <2> QED
    BY <1>1, UpToCount
<1>3. /\ \A r \in D : r \in nulls <=> Value(t, name, r) = Empty
      /\ \A r \in D : r \in twins <=> \E q \in D \ {r} : Value(t, name, q) = Value(t, name, r)
      /\ nulls \in SUBSET D /\ twins \in SUBSET D
  BY DEF Counted, Violates, Repeated
<1>4. S = D \ nulls /\ S \in SUBSET D
  BY <1>3 DEF Filled
<1>5. Cardinality(D) = n
  BY <1>1, <1>2
<1> HIDE DEF S, D, n
<1>6. /\ IsFiniteSet(nulls) /\ IsFiniteSet(S) /\ Cardinality(S) = n - Cardinality(nulls)
      /\ Cardinality(S) \in Nat /\ Cardinality(nulls) \in Nat
  <2>1. IsFiniteSet(nulls) /\ D \cap nulls = nulls
    BY <1>1, <1>3, FS_Subset
  <2>2. IsFiniteSet(D \ nulls) /\ Cardinality(D \ nulls) = Cardinality(D) - Cardinality(D \cap nulls)
    BY <1>1, FS_Difference
  <2>3. IsFiniteSet(S) /\ Cardinality(S) = n - Cardinality(nulls)
    BY <1>4, <1>5, <2>1, <2>2
  <2> QED
    BY <2>1, <2>3, FS_CardinalityType
<1>7. /\ IsFiniteSet(texts) /\ Cardinality(texts) \in Nat /\ Cardinality(texts) <= Cardinality(S)
      /\ Cardinality(texts) = Cardinality(S) <=>
           \A q, r \in S : Value(t, name, q) = Value(t, name, r) => q = r
  <2> DEFINE f == [r \in S |-> Value(t, name, r)]
  <2>1. f \in [S -> texts] /\ (\A y \in texts : \E r \in S : f[r] = y) /\ \A r \in S : f[r] = Value(t, name, r)
    BY DEF S, Counted
  <2> HIDE DEF f
  <2>2. f \in Surjection(S, texts)
    BY <2>1, Fun_IsSurj
  <2>3. /\ IsFiniteSet(texts) /\ Cardinality(texts) <= Cardinality(S)
        /\ Cardinality(texts) = Cardinality(S) <=> f \in Injection(S, texts)
    BY <1>6, <2>2, FS_Surjection
  <2>4. f \in Injection(S, texts) <=> \A q, r \in S : f[q] = f[r] => q = r
    BY <2>1, Fun_IsInj, Fun_InjectionProperties
  <2>5. Cardinality(texts) \in Nat
    BY <2>3, FS_CardinalityType
  <2> QED
    BY <2>1, <2>3, <2>4, <2>5
<1>8. Cardinality(nulls) <= 1 <=> \A q, r \in nulls : q = r
  <2>1. ASSUME Cardinality(nulls) <= 1, NEW q \in nulls, NEW r \in nulls
        PROVE  q = r
    <3>1. Cardinality(nulls) # 0
      BY <1>6, <2>1, FS_EmptySet
    <3>2. Cardinality(nulls) = 1
      BY <1>6, <2>1, <3>1
    <3>3. PICK x : nulls = {x}
      BY <1>6, <3>2, FS_Singleton
    <3> QED
      BY <2>1, <3>3
  <2>2. ASSUME \A q, r \in nulls : q = r
        PROVE  Cardinality(nulls) <= 1
    <3>1. CASE nulls = {}
      BY <3>1, FS_EmptySet
    <3>2. CASE nulls # {}
      <4> PICK x \in nulls : TRUE
        BY <3>2
      <4>1. nulls = {x}
        BY <2>2
      <4>2. Cardinality({x}) = 1
        BY FS_Singleton
      <4> QED
        BY <4>1, <4>2
    <3> QED
      BY <3>1, <3>2
  <2> QED
    BY <2>1, <2>2
<1>9. twins = {} <=> /\ \A q, r \in S : Value(t, name, q) = Value(t, name, r) => q = r
                     /\ \A q, r \in nulls : q = r
  <2>1. twins = {} <=> \A q, r \in D : Value(t, name, q) = Value(t, name, r) => q = r
    BY <1>3
  <2>2. \A q, r \in D : Value(t, name, q) = Value(t, name, r) => (q \in nulls <=> r \in nulls)
    BY <1>3
  <2>3. \A q, r \in nulls : Value(t, name, q) = Value(t, name, r)
    BY <1>3
  <2> QED
    BY <1>3, <1>4, <2>1, <2>2, <2>3
<1>10. n \in Nat /\ Cardinality(texts) + Cardinality(nulls) = n <=> Cardinality(texts) = Cardinality(S)
  BY <1>1, <1>6, <1>7
<1>11. n - Cardinality(S) = Cardinality(nulls)
  BY <1>1, <1>6
<1> QED
  BY <1>1, <1>7, <1>8, <1>9, <1>10, <1>11 DEF S, n

LEMMA QuantileCounts ==
    ASSUME NEW nums \in Seq(Int), nums # << >>, NEW p \in 0..100
    PROVE  100 * Cardinality({j \in DOMAIN nums : 100 * nums[j] <= Percentile(Sorted(nums), p)})
             >= p * (Len(nums) - 1)
<1> DEFINE n == Len(nums)
           s == Sorted(nums)
           x == p * (n - 1)
           b == Percentile(s, p)
           V == {v \in Int : 100 * v <= b}
           count == Cardinality({j \in DOMAIN nums : nums[j] \in V})
<1>1. Ascending(s, n) /\ n \in Nat \ {0} /\ Len(s) = n
  <2>1. Ascending(s, n)
    BY SortedAscending
  <2> HIDE DEF s, n
  <2> QED
    BY <2>1 DEF Ascending
<1>2. x \in Int /\ 0 <= x /\ x <= 100 * (n - 1)
  <2> DEFINE m == n - 1
             e == 100 - p
  <2>1. m \in Nat /\ e \in Nat /\ 100 = p + e
    BY <1>1
  <2> HIDE DEF m, e
  <2>2. p * m \in Nat /\ e * m \in Nat /\ (p + e) * m = p * m + e * m
    BY <2>1
  <2>3. 100 * m = p * m + e * m
    BY <2>1, <2>2
  <2>4. p * m <= 100 * m
    BY <2>1, <2>2, <2>3
  <2> QED
    BY <2>2, <2>4 DEF m
<1>3. b = At(s, x)
  BY <1>1, PercentileAt
<1> HIDE DEF x, b, s
<1>4. b \in Int /\ x \div 100 + 1 \in 1..n /\ 100 * s[x \div 100 + 1] <= b
  <2> HIDE DEF n
  <2> QED
    BY <1>1, <1>2, <1>3, AtBetween
<1>5. \A v \in V, y \in Int : y <= v => y \in V
  BY <1>4
<1>6. /\ count \in 0..n
      /\ \A k \in 1..n : s[k] \in Int
      /\ \A k \in 1..n : s[k] \in V <=> k <= count
  <2> HIDE DEF V
  <2> QED
    BY <1>5, RanksBelow DEF s, V
<1> HIDE DEF count
<1>7. x \div 100 + 1 <= count
  <2> DEFINE l == x \div 100 + 1
  <2>1. l \in 1..n /\ s[l] \in V
    BY <1>4, <1>6
  <2> HIDE DEF l, V, n
  <2>2. l <= count
    BY <1>6, <2>1
  <2> QED
    BY <2>2 DEF l
<1>8. count \in Int /\ x <= 100 * (x \div 100 + 1)
  BY <1>2, <1>6, <1>1
<1>9. 100 * count >= x
  <2> DEFINE q == x \div 100
  <2>1. q \in Int
    BY <1>2
  <2> HIDE DEF q
  <2> QED
    BY <1>2, <1>7, <1>8, <2>1 DEF q
<1>10. \A j \in DOMAIN nums : nums[j] \in V <=> 100 * nums[j] <= b
  <2>1. \A j \in DOMAIN nums : nums[j] \in Int
    BY ElementOfSeq, LenProperties
  <2> QED
    BY <2>1
<1>11. {j \in DOMAIN nums : nums[j] \in V} = {j \in DOMAIN nums : 100 * nums[j] <= b}
  <2> HIDE DEF V
  <2> QED
    BY <1>10
<1> QED
  BY <1>9, <1>11 DEF x, b, s, count

LEMMA SevenMembers ==
    ASSUME NEW S, NEW a \in S, NEW b \in S, NEW c \in S, NEW d \in S, NEW e \in S, NEW f \in S, NEW g \in S,
           NEW s, s = <<a>> \o <<b, c, d, e, f>> \o <<g>>
    PROVE  Len(s) = 7 /\ s[1] = a /\ s[2] = b /\ s[3] = c /\ s[4] = d /\ s[5] = e /\ s[6] = f /\ s[7] = g
<1> DEFINE front == <<a>> \o <<b, c, d, e, f>>
           back == <<g>>
<1>1. /\ front \in Seq(S) /\ Len(front) = 6
      /\ front[1] = a /\ front[2] = b /\ front[3] = c /\ front[4] = d /\ front[5] = e /\ front[6] = f
  BY ConcatProperties
<1>2. back \in Seq(S) /\ Len(back) = 1 /\ back[1] = g
  OBVIOUS
<1> HIDE DEF front, back
<1>3. /\ Len(front \o back) = Len(front) + Len(back)
      /\ \A j \in 1..(Len(front) + Len(back)) :
           (front \o back)[j] = IF j <= Len(front) THEN front[j] ELSE back[j - Len(front)]
  BY <1>1, <1>2, ConcatProperties
<1>4. s = front \o back
  BY DEF front, back
<1>5. Len(s) = 7 /\ \A j \in 1..7 : s[j] = IF j <= 6 THEN front[j] ELSE back[j - 6]
  BY <1>1, <1>2, <1>3, <1>4
<1>6. Len(s) = 7 /\ s[1] = front[1] /\ s[2] = front[2] /\ s[3] = front[3] /\ s[4] = front[4]
      /\ s[5] = front[5] /\ s[6] = front[6] /\ s[7] = back[1]
  BY <1>5
<1> QED
  BY <1>1, <1>2, <1>6

LEMMA BenchInvProfile == BenchInv => ProfileExact
<1> SUFFICES ASSUME BenchInv, NEW name \in Names, HasColumn(table, name)
             PROVE  LET k == ColumnOf(table, name)
                        p == ProfileColumn(table, k)
                        found(kind) == {r \in DOMAIN table.rows :
                                          Violates(table, [column |-> name, kind |-> kind], r)}
                    IN  ~ ProfilePanics(table, k) /\ table.rows # <<>> =>
                          /\ p.nullCount = Cardinality(found("notnull"))
                          /\ found("unique") = {} <=>
                               p.distinct + p.nullCount = Len(table.rows) /\ p.nullCount <= 1
                          /\ name \in NumberColumns =>
                               LET nums == CollectNums(table, name)
                                   ends == <<100 * p.min>> \o p.quantiles \o <<100 * p.max>>
                               IN  /\ p.isNumeric
                                   /\ \A j \in 1..(Len(ends) - 1) : ends[j] <= ends[j + 1]
                                   /\ \A q \in DOMAIN Quantiles :
                                        100 * Count(nums, LAMBDA v : 100 * v <= p.quantiles[q])
                                            >= Quantiles[q] * (Len(nums) - 1)
  BY Zenon DEF ProfileExact
<1> DEFINE p == ProfileColumn(table, ColumnOf(table, name))
           nulls == {r \in DOMAIN table.rows : Violates(table, [column |-> name, kind |-> "notnull"], r)}
           twins == {r \in DOMAIN table.rows : Violates(table, [column |-> name, kind |-> "unique"], r)}
           texts == {Value(table, name, r) : r \in Filled(table, name)}
           nums == CollectNums(table, name)
           sorted == Sorted(nums)
<1>1. IsTextTable(table)
  BY DEF BenchInv
<1>2. /\ p.nullCount = Len(table.rows) - Cardinality(Filled(table, name))
      /\ p.distinct = Cardinality(texts)
      /\ Filled(table, name) # {} /\ ~ CollectFails(table, name) =>
           /\ p.isNumeric /\ p.min = Head(sorted) /\ p.max = Last(sorted)
           /\ p.quantiles = [q \in DOMAIN Quantiles |-> Percentile(sorted, Quantiles[q])]
  BY <1>1, ProfileMeans
<1>3. /\ Len(table.rows) - Cardinality(Filled(table, name)) = Cardinality(nulls)
      /\ twins = {} <=> /\ Cardinality(texts) + Cardinality(nulls) = Len(table.rows)
                        /\ Cardinality(nulls) <= 1
  <2>1. Counted(table, name, nulls, twins, texts)
    BY DEF Counted
  <2> HIDE DEF nulls, twins, texts
  <2> QED
    BY <1>1, <2>1, NullsAndTwins
<1> HIDE DEF p
<1>4. ASSUME name \in NumberColumns
      PROVE  LET ends == <<100 * p.min>> \o p.quantiles \o <<100 * p.max>>
             IN  /\ p.isNumeric
                 /\ \A j \in 1..(Len(ends) - 1) : ends[j] <= ends[j + 1]
                 /\ \A q \in DOMAIN Quantiles :
                      100 * Count(nums, LAMBDA v : 100 * v <= p.quantiles[q])
                          >= Quantiles[q] * (Len(nums) - 1)
  <2> DEFINE n == Len(nums)
             low == 100 * p.min
             high == 100 * p.max
             ends == <<low>> \o p.quantiles \o <<high>>
  <2>1. /\ ~ CollectFails(table, name) /\ nums # <<>> /\ nums \in Seq(Int)
        /\ Filled(table, name) # {}
    <3>1. Filled(table, name) # {}
      BY <1>4 DEF NumberColumns
    <3> QED
      BY <1>1, <1>4, <3>1, NumberColumn
  <2> HIDE DEF nums
  <2>2. Ascending(sorted, n) /\ sorted \in Seq(Int)
    BY <2>1, SortedAscending
  <2> HIDE DEF sorted
  <2>3. n \in Nat \ {0} /\ Len(sorted) = n
    BY <2>2 DEF Ascending
  <2> HIDE DEF n
  <2>4. /\ p.isNumeric /\ p.min = sorted[1] /\ p.max = sorted[n]
        /\ p.quantiles = [q \in DOMAIN Quantiles |-> Percentile(sorted, Quantiles[q])]
    <3>1. /\ p.isNumeric /\ p.min = Head(sorted) /\ p.max = Last(sorted)
          /\ p.quantiles = [q \in DOMAIN Quantiles |-> Percentile(sorted, Quantiles[q])]
      BY <1>2, <2>1 DEF nums
    <3>2. Head(sorted) = sorted[1] /\ Last(sorted) = sorted[n]
      BY <2>2, <2>3 DEF Last
    <3> QED
      BY <3>1, <3>2
  <2>5. /\ Percentile(sorted, 0) = 100 * sorted[1] /\ Percentile(sorted, 100) = 100 * sorted[n]
        /\ \A l \in 0..100, h \in 0..100 : l <= h =>
             Percentile(sorted, l) \in Int /\ Percentile(sorted, l) <= Percentile(sorted, h)
    <3>1. \A l \in 0..100, h \in 0..100 : l <= h =>
             /\ Percentile(sorted, l) \in Int /\ Percentile(sorted, l) <= Percentile(sorted, h)
             /\ Percentile(sorted, 0) = 100 * sorted[1] /\ Percentile(sorted, 100) = 100 * sorted[n]
      BY <2>2, PercentileRises
    <3>2. 0 \in 0..100 /\ 0 <= 0
      OBVIOUS
    <3> QED
      BY <3>1, <3>2
  <2>6. /\ low <= Percentile(sorted, 25) /\ Percentile(sorted, 25) <= Percentile(sorted, 50)
        /\ Percentile(sorted, 50) <= Percentile(sorted, 75)
        /\ Percentile(sorted, 75) <= Percentile(sorted, 90)
        /\ Percentile(sorted, 90) <= Percentile(sorted, 99) /\ Percentile(sorted, 99) <= high
    BY <2>4, <2>5
  <2>7. p.quantiles = <<Percentile(sorted, 25), Percentile(sorted, 50), Percentile(sorted, 75),
                        Percentile(sorted, 90), Percentile(sorted, 99)>>
    BY <2>4 DEF Quantiles
  <2>8. low \in Int /\ high \in Int /\ \A l \in 0..100 : Percentile(sorted, l) \in Int
    <3>1. sorted[1] \in Int /\ sorted[n] \in Int
      BY <2>2, <2>3 DEF Ascending
    <3>2. \A l \in 0..100 : Percentile(sorted, l) \in Int
      <4> TAKE l \in 0..100
      <4>1. l <= l
        OBVIOUS
      <4> QED
        BY <2>5, <4>1
    <3> QED
      BY <2>4, <3>1, <3>2
  <2> HIDE DEF low, high
  <2>9. \A j \in 1..(Len(ends) - 1) : ends[j] <= ends[j + 1]
    <3> DEFINE b == Percentile(sorted, 25)
               c == Percentile(sorted, 50)
               d == Percentile(sorted, 75)
               e == Percentile(sorted, 90)
               f == Percentile(sorted, 99)
    <3>1. ends = <<low>> \o <<b, c, d, e, f>> \o <<high>>
      BY <2>7
    <3>2. b \in Int /\ c \in Int /\ d \in Int /\ e \in Int /\ f \in Int /\ low \in Int /\ high \in Int
      BY <2>8
    <3>3. low <= b /\ b <= c /\ c <= d /\ d <= e /\ e <= f /\ f <= high
      BY <2>6
    <3> HIDE DEF ends, b, c, d, e, f
    <3>4. /\ Len(ends) = 7 /\ ends[1] = low /\ ends[2] = b /\ ends[3] = c /\ ends[4] = d
          /\ ends[5] = e /\ ends[6] = f /\ ends[7] = high
      BY <3>1, <3>2, SevenMembers
    <3> QED
      BY <3>3, <3>4
  <2>10. ASSUME NEW q \in DOMAIN Quantiles
         PROVE  100 * Count(nums, LAMBDA v : 100 * v <= p.quantiles[q]) >= Quantiles[q] * (Len(nums) - 1)
    <3> DEFINE h == Quantiles[q]
    <3>1. h \in 0..100 /\ p.quantiles[q] = Percentile(sorted, h)
      BY <2>4 DEF Quantiles
    <3> HIDE DEF h
    <3>2. 100 * Cardinality({j \in DOMAIN nums : 100 * nums[j] <= Percentile(Sorted(nums), h)})
            >= h * (Len(nums) - 1)
      BY <2>1, <3>1, QuantileCounts
    <3>3. Count(nums, LAMBDA v : 100 * v <= p.quantiles[q])
            = Cardinality({j \in DOMAIN nums : 100 * nums[j] <= p.quantiles[q]})
      BY DEF Count
    <3> QED
      BY <3>1, <3>2, <3>3 DEF h, sorted
  <2> QED
    BY <2>4, <2>9, <2>10 DEF ends, low, high
<1> QED
  BY <1>2, <1>3, <1>4 DEF p

\* ProfileExact holds for all tables: a profile agrees with the rules about empty
\* and equal cells, and its quantiles are where its numbers put them.
THEOREM ProfileCorrect == BenchSpec => []ProfileExact
<1>1. BenchInv => ProfileExact
  BY BenchInvProfile
<1> QED
  BY <1>1, BenchInvariant, PTL
-------------------------------------------------------------------------------
(* FillsExact *)

LEMMA OneFill ==
    ASSUME NEW t, NEW a
    PROVE  ApplyFill(t, <<a>>) = FillOne(Returned(t), a)
<1> DEFINE configs == <<a>>
           after[k \in 0..Len(configs)] ==
             IF k = 0 THEN Returned(t) ELSE FillOne(after[k - 1], configs[k])
<1>1. Len(configs) = 1 /\ configs[1] = a
  OBVIOUS
<1>2. after = [k \in 0..1 |-> IF k = 0 THEN Returned(t) ELSE FillOne(after[k - 1], configs[k])]
  <2>1. \E f : FillOutcomes(t, configs, 1, f)
    <3> HIDE DEF configs
    <3>1. 1 \in Nat
      OBVIOUS
    <3> QED
      BY <3>1, FilledInOrder
  <2> QED
    BY <1>1, <2>1 DEF FillOutcomes
<1>3. ApplyFill(t, configs) = after[1]
  BY <1>1 DEF ApplyFill, after
<1> HIDE DEF after, configs
<1>4. after[0] = Returned(t) /\ after[1] = FillOne(after[0], configs[1])
  BY <1>2
<1> QED
  BY <1>1, <1>3, <1>4 DEF configs

LEMMA TwoFills ==
    ASSUME NEW t, NEW a, NEW b
    PROVE  ApplyFill(t, <<a, b>>) = FillOne(FillOne(Returned(t), a), b)
<1> DEFINE configs == <<a, b>>
           after[k \in 0..Len(configs)] ==
             IF k = 0 THEN Returned(t) ELSE FillOne(after[k - 1], configs[k])
<1>1. Len(configs) = 2 /\ configs[1] = a /\ configs[2] = b
  OBVIOUS
<1>2. after = [k \in 0..2 |-> IF k = 0 THEN Returned(t) ELSE FillOne(after[k - 1], configs[k])]
  <2>1. \E f : FillOutcomes(t, configs, 2, f)
    <3> HIDE DEF configs
    <3>1. 2 \in Nat
      OBVIOUS
    <3> QED
      BY <3>1, FilledInOrder
  <2> QED
    BY <1>1, <2>1 DEF FillOutcomes
<1>3. ApplyFill(t, configs) = after[2]
  BY <1>1 DEF ApplyFill, after
<1> HIDE DEF after, configs
<1>4. /\ after[0] = Returned(t) /\ after[1] = FillOne(after[0], configs[1])
      /\ after[2] = FillOne(after[1], configs[2])
  BY <1>2
<1> QED
  BY <1>1, <1>3, <1>4 DEF configs

\* What a fill does to the cells of its column.
FillsCells(t, u, name, cfg) ==
    /\ IsTextTable(u) /\ DOMAIN u.rows = DOMAIN t.rows /\ HasColumn(u, name)
    /\ Filled(t, name) \in SUBSET Reaching(t, name) /\ Reaching(t, name) \in SUBSET DOMAIN t.rows
    /\ Reaching(u, name) = Reaching(t, name)
    /\ \A r \in Filled(t, name) : u.rows[r] = t.rows[r] /\ Value(u, name, r) = Value(t, name, r)
    /\ \A r \in Reaching(t, name) \ Filled(t, name) : Value(u, name, r) = FillText(t, cfg, r)
    /\ \A r \in DOMAIN t.rows \ Reaching(t, name) : Value(u, name, r) = Empty

LEMMA FilledCells ==
    ASSUME NEW t, IsTextTable(t), NEW cfg, ConfigTyped(cfg), ~ FillFails(t, cfg),
           NEW name, name = cfg.column
    PROVE  FillsCells(t, FillColumn(t, cfg), name, cfg)
<1> DEFINE u == FillColumn(t, cfg)
           k == ColumnOf(t, name)
           S == Filled(t, name)
           R == Reaching(t, name)
<1>1. /\ Rewrites(t, u, k)
      /\ \A r \in DOMAIN t.rows :
           u.rows[r] = IF r \in R \ S THEN [t.rows[r] EXCEPT ![k] = FillText(t, cfg, r)] ELSE t.rows[r]
  BY FillChanges
<1> HIDE DEF u
<1>2. /\ IsTextTable(u) /\ u.header = t.header /\ DOMAIN u.rows = DOMAIN t.rows
      /\ \A r \in DOMAIN t.rows : DOMAIN u.rows[r] = DOMAIN t.rows[r]
  <2> HIDE DEF k, S, R
  <2> QED
    BY <1>1, RewrittenTable
<1>3. ColumnOf(u, name) = k /\ HasColumn(u, name)
  BY <1>2 DEF ColumnOf, HasColumn, FillFails
<1>4. S \in SUBSET R /\ R \in SUBSET DOMAIN t.rows
      /\ \A r \in DOMAIN t.rows : r \in R <=> k \in DOMAIN t.rows[r]
  BY DEF Filled, Reaching, Value, CellAt
<1>5. Reaching(u, name) = R
  BY <1>2, <1>3 DEF Reaching
<1>6. \A r \in DOMAIN t.rows : /\ Value(t, name, r) = CellAt(t.rows[r], k)
                               /\ Value(u, name, r) = CellAt(u.rows[r], k)
  BY <1>3 DEF Value
<1> HIDE DEF k, S, R
<1>7. \A r \in S : u.rows[r] = t.rows[r] /\ Value(u, name, r) = Value(t, name, r)
  BY <1>1, <1>4, <1>6
<1>8. \A r \in R \ S : Value(u, name, r) = FillText(t, cfg, r)
  BY <1>1, <1>4, <1>6 DEF CellAt
<1>9. \A r \in DOMAIN t.rows \ R : Value(u, name, r) = Empty
  BY <1>1, <1>4, <1>6 DEF CellAt
<1> QED
  BY <1>2, <1>3, <1>4, <1>5, <1>7, <1>8, <1>9 DEF R, S, u, FillsCells

\* A cell is carried from the nearest filled row, if there is one on that side.
LEMMA CarriedCell ==
    ASSUME NEW t, IsTextTable(t), NEW name, NEW r \in DOMAIN t.rows
    PROVE  /\ (\E q \in Filled(t, name) : q < r) => Carried(t, name, r, TRUE) # Empty
           /\ (\E q \in Filled(t, name) : q > r) => Carried(t, name, r, FALSE) # Empty
<1> DEFINE S == Filled(t, name)
           before == {q \in S : q < r}
           after == {q \in S : q > r}
<1>1. S \in SUBSET DOMAIN t.rows /\ \A q \in S : Value(t, name, q) # Empty
  BY DEF Filled
<1>2. before \in SUBSET DOMAIN t.rows /\ after \in SUBSET DOMAIN t.rows
  BY <1>1
<1>3. before \in SUBSET Nat /\ IsFiniteSet(before) /\ after \in SUBSET Nat /\ IsFiniteSet(after)
  <2>1. DOMAIN t.rows \in SUBSET Nat /\ IsFiniteSet(DOMAIN t.rows)
    BY RowsTyped
  <2> HIDE DEF before, after
  <2> QED
    BY <1>2, <2>1, FS_Subset
<1>4. ASSUME before # {} PROVE Carried(t, name, r, TRUE) # Empty
  <2>1. Max(before) \in before
    <3> HIDE DEF before
    <3> QED
      BY <1>3, <1>4, MaxIsLargest
  <2>2. Carried(t, name, r, TRUE) = Value(t, name, Max(before))
    BY <1>4 DEF Carried
  <2> QED
    BY <1>1, <2>1, <2>2
<1>5. ASSUME after # {} PROVE Carried(t, name, r, FALSE) # Empty
  <2>1. Min(after) \in after
    <3> HIDE DEF after
    <3> QED
      BY <1>3, <1>5, MinIsLeast
  <2>2. Carried(t, name, r, FALSE) = Value(t, name, Min(after))
    BY <1>5 DEF Carried
  <2> QED
    BY <1>1, <2>1, <2>2
<1> QED
  BY <1>4, <1>5

LEMMA CarriedBothWays ==
    ASSUME NEW t, IsTextTable(t), NEW name, HasColumn(t, name),
           NEW v, v = ApplyFill(t, <<[column |-> name, strategy |-> "forward"],
                                     [column |-> name, strategy |-> "backward"]>>).table
    PROVE  /\ Filled(t, name) # {} => Filled(v, name) = Reaching(t, name)
           /\ \A r \in Filled(t, name) : v.rows[r] = t.rows[r]
<1> DEFINE forward == [column |-> name, strategy |-> "forward"]
           backward == [column |-> name, strategy |-> "backward"]
           u == FillColumn(t, forward)
           S == Filled(t, name)
           R == Reaching(t, name)
<1>1. /\ forward.column = name /\ backward.column = name
      /\ forward.strategy = "forward" /\ backward.strategy = "backward"
      /\ ConfigTyped(forward) /\ ConfigTyped(backward)
  BY DEF ConfigTyped
<1> HIDE DEF forward, backward
<1>2. ~ FillFails(t, forward)
  BY <1>1 DEF FillFails, Strategy
<1>3. /\ IsTextTable(u) /\ DOMAIN u.rows = DOMAIN t.rows /\ HasColumn(u, name)
      /\ S \in SUBSET R /\ R \in SUBSET DOMAIN t.rows /\ Reaching(u, name) = R
      /\ \A r \in S : u.rows[r] = t.rows[r] /\ Value(u, name, r) = Value(t, name, r)
      /\ \A r \in R \ S : Value(u, name, r) = FillText(t, forward, r)
  <2>1. FillsCells(t, u, name, forward)
    BY <1>1, <1>2, FilledCells
  <2> HIDE DEF u
  <2> QED
    BY <2>1 DEF FillsCells
<1>4. \A r \in R \ S : FillText(t, forward, r) = Carried(t, name, r, TRUE)
  BY <1>1 DEF FillText
<1> HIDE DEF u
<1>5. ~ FillFails(u, backward)
  BY <1>1, <1>3 DEF FillFails, Strategy
<1>6. v = FillColumn(u, backward)
  <2>1. v = FillOne(FillOne(Returned(t), forward), backward).table
    BY TwoFills DEF forward, backward
  <2>2. FillOne(Returned(t), forward) = Returned(u)
    BY <1>2 DEF FillOne, Returned, u
  <2>3. FillOne(Returned(u), backward) = Returned(FillColumn(u, backward))
    BY <1>5 DEF FillOne, Returned
  <2> QED
    BY <2>1, <2>2, <2>3 DEF Returned
<1>7. /\ DOMAIN v.rows = DOMAIN u.rows
      /\ Filled(u, name) \in SUBSET Reaching(u, name)
      /\ \A r \in Filled(u, name) : v.rows[r] = u.rows[r] /\ Value(v, name, r) = Value(u, name, r)
      /\ \A r \in Reaching(u, name) \ Filled(u, name) : Value(v, name, r) = FillText(u, backward, r)
      /\ \A r \in DOMAIN u.rows \ Reaching(u, name) : Value(v, name, r) = Empty
  <2>1. FillsCells(u, v, name, backward)
    BY <1>1, <1>3, <1>5, <1>6, FilledCells
  <2> QED
    BY <2>1 DEF FillsCells
<1>8. \A r \in R \ Filled(u, name) : FillText(u, backward, r) = Carried(u, name, r, FALSE)
  BY <1>1 DEF FillText
<1>9. S \in SUBSET Filled(u, name)
  BY <1>3 DEF Filled
<1>10. ASSUME S # {}, NEW r \in R PROVE Value(v, name, r) # Empty
  <2>1. CASE r \in Filled(u, name)
    BY <1>7, <2>1 DEF Filled
  <2>2. CASE r \notin Filled(u, name)
    <3>1. r \notin S /\ r \in DOMAIN t.rows /\ Value(u, name, r) = Empty
      BY <1>3, <1>9, <1>10, <2>2 DEF Filled
    <3>2. ~ \E q \in S : q < r
      BY <1>3, <1>4, <1>10, <3>1, CarriedCell
    <3>3. PICK q \in S : TRUE
      BY <1>10
    <3>4. q \in Nat /\ r \in Nat
      BY <1>3, <3>1, RowsTyped
    <3>5. q > r
      BY <3>1, <3>2, <3>4
    <3>6. Carried(u, name, r, FALSE) # Empty
      BY <1>3, <1>9, <3>1, <3>5, CarriedCell
    <3> QED
      BY <1>3, <1>7, <1>8, <1>10, <2>2, <3>6
  <2> QED
    BY <2>1, <2>2
<1>11. S # {} => Filled(v, name) = R
  <2> SUFFICES ASSUME S # {} PROVE Filled(v, name) = R
    OBVIOUS
  <2>1. \A r \in DOMAIN t.rows : r \in R <=> Value(v, name, r) # Empty
    BY <1>3, <1>7, <1>10
  <2>2. DOMAIN v.rows = DOMAIN t.rows
    BY <1>3, <1>7
  <2> HIDE DEF R, S
  <2> QED
    BY <1>3, <2>1, <2>2 DEF Filled
<1>12. \A r \in S : v.rows[r] = t.rows[r]
  BY <1>3, <1>7, <1>9
<1> QED
  BY <1>11, <1>12

\* The middle of a list: twice the median.
LEMMA MedianSum ==
    ASSUME NEW n, NEW s, Ascending(s, n)
    PROVE  /\ (n + 1) \div 2 \in 1..n /\ n \div 2 + 1 \in 1..n /\ (n + 1) \div 2 <= n \div 2 + 1
           /\ s[(n + 1) \div 2] \in Int /\ s[n \div 2 + 1] \in Int
           /\ s[(n + 1) \div 2] <= s[n \div 2 + 1]
           /\ Percentile(s, 50) = 50 * (s[(n + 1) \div 2] + s[n \div 2 + 1])
<1> DEFINE m == n - 1
           x == 50 * m
           lo == (n + 1) \div 2
           hi == n \div 2 + 1
<1>1. /\ n \in Nat \ {0} /\ Len(s) = n /\ m \in Nat
      /\ (\A k \in 1..n : s[k] \in Int) /\ \A k, l \in 1..n : k <= l => s[k] <= s[l]
  BY DEF Ascending
<1>2. lo \in 1..n /\ hi \in 1..n /\ lo <= hi
  BY <1>1
<1>3. Percentile(s, 50) = At(s, x)
  BY <1>1, PercentileAt
<1>4. s[lo] \in Int /\ s[hi] \in Int /\ s[lo] <= s[hi]
  <2> HIDE DEF lo, hi
  <2> QED
    BY <1>1, <1>2
<1>5. CASE n % 2 = 1
  <2>1. x % 100 = 0 /\ x \div 100 + 1 = lo /\ hi = lo
    BY <1>1, <1>5
  <2>2. At(s, x) = 100 * s[lo]
    <3> HIDE DEF x, lo
    <3> QED
      BY <2>1 DEF At
  <2>3. At(s, x) = 50 * (s[lo] + s[hi])
    <3> HIDE DEF x, lo, hi
    <3> QED
      BY <1>4, <2>1, <2>2
  <2> QED
    BY <1>2, <1>3, <1>4, <2>3
<1>6. CASE n % 2 = 0
  <2>1. x % 100 = 50 /\ x \div 100 + 1 = lo /\ x \div 100 + 2 = hi
    BY <1>1, <1>6
  <2>2. At(s, x) = Interpolated(s[lo], s[hi], 50)
    <3> HIDE DEF x, lo, hi
    <3> QED
      BY <2>1 DEF At
  <2>3. At(s, x) = 50 * (s[lo] + s[hi])
    <3> HIDE DEF x, lo, hi
    <3> QED
      BY <1>4, <2>2 DEF Interpolated
  <2> QED
    BY <1>2, <1>3, <1>4, <2>3
<1> QED
  BY <1>1, <1>5, <1>6

\* The numbers of a column that are in a set, counted by its rows.
LEMMA ColumnCount ==
    ASSUME NEW t, IsTextTable(t), NEW name, ~ CollectFails(t, name), NEW V
    PROVE  /\ IsFiniteSet({r \in Filled(t, name) : FloatOf(Value(t, name, r)) \in V})
           /\ Cardinality({k \in DOMAIN CollectNums(t, name) : CollectNums(t, name)[k] \in V})
                = Cardinality({r \in Filled(t, name) : FloatOf(Value(t, name, r)) \in V})
<1> DEFINE S == Filled(t, name)
           nums == CollectNums(t, name)
           n == Len(nums)
           D == 1..n
           f == InOrder(S)
           A == {k \in DOMAIN nums : nums[k] \in V}
           B == {r \in S : FloatOf(Value(t, name, r)) \in V}
<1>1. /\ nums \in Seq(Int) /\ n = Cardinality(S) /\ DOMAIN nums = D
      /\ S \in SUBSET DOMAIN t.rows /\ IsFiniteSet(S)
      /\ \A k \in D : f[k] \in S /\ nums[k] = FloatOf(Value(t, name, f[k]))
      /\ \A r \in S : \E k \in D : f[k] = r
  BY NumsTyped
<1>2. n \in Nat /\ IsFiniteSet(D)
  <2>1. n \in Nat
    BY <1>1, LenProperties
  <2> HIDE DEF n
  <2> QED
    BY <2>1, UpToCount
<1>3. f \in Bijection(D, S)
  <2>1. S \in SUBSET Nat
    BY <1>1, RowsTyped
  <2> HIDE DEF S
  <2>2. /\ f \in [1..Cardinality(S) -> S]
        /\ \A k, l \in 1..Cardinality(S) : k < l => f[k] < f[l]
    BY <1>1, <2>1, InOrderSorts
  <2> HIDE DEF f
  <2>3. f \in [D -> S] /\ \A k, l \in D : k < l => f[k] < f[l]
    BY <1>1, <2>2
  <2>4. ASSUME NEW k \in D, NEW l \in D, f[k] = f[l] PROVE k = l
    <3>1. k \in Nat /\ l \in Nat /\ f[k] \in Nat /\ f[l] \in Nat
      <4>1. k \in Nat /\ l \in Nat
        <5> HIDE DEF n
        <5> QED
          BY <1>2
      <4> HIDE DEF D
      <4>2. f[k] \in S /\ f[l] \in S
        BY <2>3
      <4> QED
        BY <2>1, <4>1, <4>2
    <3> HIDE DEF D
    <3> QED
      BY <2>3, <2>4, <3>1
  <2> HIDE DEF D
  <2> QED
    BY <1>1, <2>3, <2>4, Fun_IsBij
<1>4. /\ A \in SUBSET D /\ B \in SUBSET S /\ \A k \in D : k \in A <=> f[k] \in B
  <2> HIDE DEF D, S, f, nums
  <2> QED
    BY <1>1
<1> HIDE DEF A, B, D, S, f, nums
<1>5. IsFiniteSet(B) /\ Cardinality(A) = Cardinality(B)
  BY <1>2, <1>3, <1>4, EqualCounts
<1> QED
  BY <1>5 DEF A, B, S, nums

\* Numbers that are the median do not move it.
LEMMA MedianKept ==
    ASSUME NEW nums \in Seq(Int), nums # << >>, NEW more \in Seq(Int), NEW c \in Int, NEW d \in Nat \ {0},
           Len(more) = Len(nums) + d,
           Cardinality({j \in DOMAIN more : more[j] \in {v \in Int : v <= c}})
             = Cardinality({j \in DOMAIN nums : nums[j] \in {v \in Int : v <= c}}) + d,
           Cardinality({j \in DOMAIN more : more[j] \in {v \in Int : v >= c}})
             = Cardinality({j \in DOMAIN nums : nums[j] \in {v \in Int : v >= c}}) + d,
           Percentile(Sorted(nums), 50) = 100 * c
    PROVE  Percentile(Sorted(more), 50) = 100 * c
<1> DEFINE n == Len(nums)
           s == Sorted(nums)
           u == Sorted(more)
           V == {v \in Int : v <= c}
           W == {v \in Int : v >= c}
           below == Cardinality({j \in DOMAIN nums : nums[j] \in V})
           above == Cardinality({j \in DOMAIN nums : nums[j] \in W})
           lo == (n + 1) \div 2
           hi == n \div 2 + 1
           m == Len(more)
           newLo == (m + 1) \div 2
           newHi == m \div 2 + 1
<1>1. n \in Nat \ {0} /\ m = n + d /\ m \in Nat \ {0} /\ more # << >>
  <2>1. n \in Nat \ {0} /\ m = n + d
    BY LenProperties, EmptySeq
  <2>2. m \in Nat \ {0}
    <3> HIDE DEF n, m
    <3> QED
      BY <2>1
  <2>3. more # << >>
    BY <2>2, EmptySeq
  <2> QED
    BY <2>1, <2>2, <2>3
<1>2. Ascending(s, n) /\ Ascending(u, m)
  BY <1>1, SortedAscending
<1>3. /\ below \in 0..n /\ \A k \in 1..n : s[k] \in V <=> k <= below
      /\ below + d \in 0..m /\ \A k \in 1..m : u[k] \in V <=> k <= below + d
  <2>1. V \in SUBSET Int /\ \A x \in V, y \in Int : y <= x => y \in V
    OBVIOUS
  <2>2. Cardinality({j \in DOMAIN more : more[j] \in V}) = below + d
    OBVIOUS
  <2> HIDE DEF V
  <2>3. below \in 0..n /\ \A k \in 1..n : s[k] \in V <=> k <= below
    BY <2>1, RanksBelow
  <2>4. /\ Cardinality({j \in DOMAIN more : more[j] \in V}) \in 0..m
        /\ \A k \in 1..m : u[k] \in V <=> k <= Cardinality({j \in DOMAIN more : more[j] \in V})
    BY <2>1, RanksBelow
  <2> HIDE DEF below
  <2> QED
    BY <2>2, <2>3, <2>4
<1>4. /\ above \in 0..n /\ \A k \in 1..n : s[k] \in W <=> k > n - above
      /\ above + d \in 0..m /\ \A k \in 1..m : u[k] \in W <=> k > m - (above + d)
  <2>1. W \in SUBSET Int /\ \A x \in W, y \in Int : y >= x => y \in W
    OBVIOUS
  <2>2. Cardinality({j \in DOMAIN more : more[j] \in W}) = above + d
    OBVIOUS
  <2> HIDE DEF W
  <2>3. above \in 0..n /\ \A k \in 1..n : s[k] \in W <=> k > n - above
    BY <2>1, RanksAbove
  <2>4. /\ Cardinality({j \in DOMAIN more : more[j] \in W}) \in 0..m
        /\ \A k \in 1..m : u[k] \in W <=> k > m - Cardinality({j \in DOMAIN more : more[j] \in W})
    BY <2>1, RanksAbove
  <2> HIDE DEF above
  <2> QED
    BY <2>2, <2>3, <2>4
<1>5. /\ lo \in 1..n /\ hi \in 1..n /\ s[lo] \in Int /\ s[hi] \in Int /\ s[lo] <= s[hi]
      /\ Percentile(s, 50) = 50 * (s[lo] + s[hi])
  <2> HIDE DEF s, n
  <2> QED
    BY <1>2, MedianSum
<1>6. /\ newLo \in 1..m /\ newHi \in 1..m /\ u[newLo] \in Int /\ u[newHi] \in Int /\ u[newLo] <= u[newHi]
      /\ Percentile(u, 50) = 50 * (u[newLo] + u[newHi])
  <2> HIDE DEF u, m
  <2> QED
    BY <1>2, MedianSum
<1>7. Percentile(s, 50) = 100 * c
  OBVIOUS
<1> HIDE DEF s, u, below, above
<1>8. s[lo] <= c /\ c <= s[hi]
  <2> DEFINE a == s[lo]
             b == s[hi]
  <2>1. a \in Int /\ b \in Int /\ a <= b /\ 50 * (a + b) = 100 * c
    <3> HIDE DEF lo, hi, n
    <3> QED
      BY <1>5, <1>7
  <2> HIDE DEF a, b
  <2>2. a <= c /\ c <= b
    BY <2>1
  <2> QED
    BY <2>2 DEF a, b
<1>9. lo <= below /\ hi > n - above
  <2>1. s[lo] \in V /\ s[hi] \in W
    BY <1>5, <1>8
  <2> HIDE DEF lo, hi, n, V, W
  <2> QED
    BY <1>3, <1>4, <1>5, <2>1
<1>10. newHi <= below + d /\ newLo > m - (above + d)
  <2>1. newHi <= lo + d /\ newLo > m - (n - hi + 1 + d)
    <3> HIDE DEF n, m
    <3> QED
      BY <1>1
  <2> HIDE DEF n, m, lo, hi, newLo, newHi
  <2>2. /\ n \in Int /\ m \in Int /\ below \in Int /\ above \in Int
        /\ lo \in Int /\ hi \in Int /\ newLo \in Int /\ newHi \in Int
    BY <1>1, <1>3, <1>4, <1>5, <1>6
  <2> QED
    BY <1>1, <1>9, <2>1, <2>2
<1>11. u[newHi] \in V /\ u[newLo] \in W
  <2> HIDE DEF n, m, lo, hi, newLo, newHi, V, W
  <2> QED
    BY <1>3, <1>4, <1>6, <1>10
<1>12. u[newHi] = c /\ u[newLo] = c
  <2> DEFINE a == u[newLo]
             b == u[newHi]
  <2>1. b <= c /\ a >= c
    BY <1>11
  <2>2. a \in Int /\ b \in Int /\ a <= b
    BY <1>6
  <2> HIDE DEF a, b
  <2>3. b = c /\ a = c
    BY <2>1, <2>2
  <2> QED
    BY <2>3 DEF a, b
<1>13. Percentile(u, 50) = 100 * c
  <2>1. Percentile(u, 50) = 50 * (c + c)
    <3> HIDE DEF n, m, lo, hi, newLo, newHi, V, W
    <3> QED
      BY <1>6, <1>12
  <2> QED
    BY <2>1
<1> QED
  BY <1>13 DEF u

\* The median that can be written with four decimals is what the text of it says.
LEMMA HalfExactly ==
    ASSUME NEW sum \in Int, sum % 8 = 0
    PROVE  ParsesFloat(FormatNum(sum, 2)) /\ 2 * FloatOf(FormatNum(sum, 2)) = sum
           /\ FloatOf(FormatNum(sum, 2)) \in Int
<1> DEFINE c == sum \div 2
<1>1. c \in Int /\ 2 * c = sum
  OBVIOUS
<1>2. Rounded(sum, 2, Grain) = c
  <2>1. Rounded(sum, 2, Grain) = ((2 * sum + 8) \div 16) * 4
    BY DEF Rounded, Grain
  <2>2. ((2 * sum + 8) \div 16) * 4 = sum \div 2
    OBVIOUS
  <2> QED
    BY <2>1, <2>2
<1>3. FormatNum(sum, 2) \in {<<Numeral("plain", c)>>, <<Numeral("d4", c)>>}
  BY <1>2 DEF FormatNum
<1> HIDE DEF c
<1>4. \A form \in {"plain", "d4"} :
        ParsesFloat(<<Numeral(form, c)>>) /\ FloatOf(<<Numeral(form, c)>>) = c
  BY DEF ParsesFloat, FloatOf, Numeral, Forms, NaNAtom
<1> QED
  BY <1>1, <1>3, <1>4

LEMMA MedianWritten ==
    ASSUME NEW nums \in Seq(Int), nums # << >>, ~ HasNaN(nums),
           Percentile(Sorted(nums), 50) % (100 * Grain) = 0
    PROVE  /\ ParsesFloat(MedianText(nums)) /\ FloatOf(MedianText(nums)) \in Int
           /\ Percentile(Sorted(nums), 50) = 100 * FloatOf(MedianText(nums))
<1> DEFINE n == Len(nums)
           s == Sorted(nums)
           lo == (n + 1) \div 2
           hi == n \div 2 + 1
           a == s[lo]
           b == s[hi]
           x == Percentile(s, 50)
           middle == {lo, hi}
           sum == IF n % 2 = 1 THEN 2 * s[n \div 2 + 1] ELSE s[n \div 2] + s[n \div 2 + 1]
<1>1. n \in Nat \ {0} /\ Ascending(s, n)
  BY SortedAscending DEF Ascending
<1>2. /\ lo \in 1..n /\ hi \in 1..n /\ a \in Int /\ b \in Int /\ x = 50 * (a + b)
  <2> HIDE DEF n, s
  <2> QED
    BY <1>1, MedianSum
<1>3. sum = a + b
  <2>1. CASE n % 2 = 1
    <3>1. lo = hi
      BY <1>1, <2>1
    <3>2. sum = 2 * b /\ a = b
      BY <2>1, <3>1
    <3> HIDE DEF a, b, sum
    <3> QED
      BY <1>2, <3>2
  <2>2. CASE n % 2 # 1
    <3>1. lo = n \div 2
      BY <1>1, <2>2
    <3> QED
      BY <2>2, <3>1
  <2> QED
    BY <2>1, <2>2
<1>4. \A k \in middle : s[k] # NaN
  <2>1. PICK from : Sorts(nums, s, from)
    BY SortedSorts
  <2> TAKE k \in middle
  <2>2. k \in 1..n
    BY <1>2
  <2>3. DOMAIN nums = 1..n
    BY LenProperties
  <2> HIDE DEF n
  <2>4. from[k] \in 1..n /\ s[k] = nums[from[k]]
    <3>1. from \in [1..n -> 1..n]
      BY <2>1, Fun_BijectionProperties DEF Sorts, n
    <3> QED
      BY <2>1, <2>2, <3>1 DEF Sorts, n
  <2> HIDE DEF s
  <2> QED
    BY <2>3, <2>4 DEF HasNaN, ToSet
<1>5. MedianText(nums) = FormatNum(sum, 2)
  BY <1>4 DEF MedianText
<1>6. x % 400 = 0
  BY DEF Grain
<1> HIDE DEF sum, s, n, a, b, x
<1>7. sum \in Int /\ sum % 8 = 0 /\ x = 50 * sum
  BY <1>2, <1>3, <1>6
<1>8. ParsesFloat(FormatNum(sum, 2)) /\ 2 * FloatOf(FormatNum(sum, 2)) = sum
      /\ FloatOf(FormatNum(sum, 2)) \in Int
  BY <1>7, HalfExactly
<1>9. x = 100 * FloatOf(FormatNum(sum, 2))
  BY <1>7, <1>8
<1> QED
  BY <1>5, <1>8, <1>9 DEF x, s

\* Rows that get the number c add it to the numbers of the column.
LEMMA CountGrows ==
    ASSUME NEW t, IsTextTable(t), NEW u, IsTextTable(u), NEW name,
           ~ CollectFails(t, name), ~ CollectFails(u, name), NEW G, NEW c, NEW V,
           Filled(u, name) = Filled(t, name) \cup G, Filled(t, name) \cap G = {}, IsFiniteSet(G), c \in V,
           \A r \in Filled(t, name) : Value(u, name, r) = Value(t, name, r),
           \A r \in G : FloatOf(Value(u, name, r)) = c
    PROVE  Cardinality({k \in DOMAIN CollectNums(u, name) : CollectNums(u, name)[k] \in V})
             = Cardinality({k \in DOMAIN CollectNums(t, name) : CollectNums(t, name)[k] \in V}) + Cardinality(G)
<1> DEFINE A == {r \in Filled(t, name) : FloatOf(Value(t, name, r)) \in V}
           B == {r \in Filled(u, name) : FloatOf(Value(u, name, r)) \in V}
<1>1. /\ IsFiniteSet(A)
      /\ Cardinality({k \in DOMAIN CollectNums(t, name) : CollectNums(t, name)[k] \in V}) = Cardinality(A)
  BY ColumnCount
<1>2. Cardinality({k \in DOMAIN CollectNums(u, name) : CollectNums(u, name)[k] \in V}) = Cardinality(B)
  BY ColumnCount
<1>3. B = A \cup G /\ A \cap G = {}
  OBVIOUS
<1> HIDE DEF A, B
<1>4. Cardinality(B) = Cardinality(A) + Cardinality(G)
  <2>1. Cardinality(A \cup G) = Cardinality(A) + Cardinality(G) - Cardinality(A \cap G)
    BY <1>1, FS_Union
  <2>2. Cardinality(A) \in Nat /\ Cardinality(G) \in Nat /\ Cardinality(A \cap G) = 0
    BY <1>1, <1>3, FS_CardinalityType, FS_EmptySet
  <2> QED
    BY <1>3, <2>1, <2>2
<1> QED
  BY <1>1, <1>2, <1>4

\* Filling with a median that can be written keeps it.
LEMMA MedianFilled ==
    ASSUME NEW t, IsTextTable(t), NEW name, HasColumn(t, name), ~ CollectFails(t, name),
           Filled(t, name) # {}, ~ HasNaN(CollectNums(t, name)),
           Percentile(Sorted(CollectNums(t, name)), 50) % (100 * Grain) = 0,
           NEW v, v = ApplyFill(t, <<[column |-> name, strategy |-> "median"]>>).table
    PROVE  /\ IsTextTable(v) /\ ~ CollectFails(v, name) /\ Filled(v, name) # {}
           /\ Percentile(Sorted(CollectNums(v, name)), 50) = Percentile(Sorted(CollectNums(t, name)), 50)
<1> DEFINE cfg == [column |-> name, strategy |-> "median"]
           u == FillColumn(t, cfg)
           S == Filled(t, name)
           R == Reaching(t, name)
           G == R \ S
           nums == CollectNums(t, name)
           more == CollectNums(u, name)
           text == MedianText(nums)
           c == FloatOf(text)
<1>1. cfg.column = name /\ cfg.strategy = "median" /\ ConfigTyped(cfg)
  BY DEF ConfigTyped
<1> HIDE DEF cfg
<1>2. ~ FillFails(t, cfg)
  BY <1>1 DEF FillFails, Strategy
<1>3. v = u
  <2>1. v = FillOne(Returned(t), cfg).table
    BY OneFill DEF cfg
  <2>2. FillOne(Returned(t), cfg) = Returned(u)
    BY <1>2 DEF FillOne, Returned
  <2> QED
    BY <2>1, <2>2 DEF Returned
<1>4. nums \in Seq(Int) /\ nums # <<>>
  <2>1. nums \in Seq(Int) /\ Len(nums) = Cardinality(S) /\ IsFiniteSet(S)
    BY NumsTyped
  <2>2. Cardinality(S) # 0
    BY <2>1, FS_EmptySet
  <2> QED
    BY <2>1, <2>2, EmptySeq
<1>5. /\ ParsesFloat(text) /\ c \in Int /\ Percentile(Sorted(nums), 50) = 100 * c
  <2> HIDE DEF nums
  <2>1. ~ HasNaN(nums) /\ Percentile(Sorted(nums), 50) % (100 * Grain) = 0
    BY DEF nums
  <2> QED
    BY <1>4, <2>1, MedianWritten
<1>6. text # Empty
  <2> HIDE DEF nums
  <2> QED
    BY <1>4, MedianIsText
<1>7. \A r \in DOMAIN t.rows : FillText(t, cfg, r) = text
  BY <1>1, <1>4 DEF FillText
<1>8. /\ IsTextTable(u) /\ DOMAIN u.rows = DOMAIN t.rows
      /\ S \in SUBSET R /\ R \in SUBSET DOMAIN t.rows
      /\ \A r \in S : Value(u, name, r) = Value(t, name, r)
      /\ \A r \in G : Value(u, name, r) = text
      /\ \A r \in DOMAIN t.rows \ R : Value(u, name, r) = Empty
  <2>1. FillsCells(t, u, name, cfg)
    BY <1>1, <1>2, FilledCells
  <2> HIDE DEF u
  <2> QED
    BY <1>7, <2>1 DEF FillsCells
<1> HIDE DEF u, text
<1>9. Filled(u, name) = S \cup G /\ S \cap G = {}
  <2>1. \A r \in DOMAIN t.rows : Value(u, name, r) # Empty <=> r \in S \cup G
    BY <1>6, <1>8 DEF Filled
  <2>2. S \cup G \in SUBSET DOMAIN t.rows
    BY <1>8
  <2> HIDE DEF S, R
  <2> QED
    BY <1>8, <2>1, <2>2 DEF Filled
<1>10. IsFiniteSet(G) /\ IsFiniteSet(S)
  <2>1. DOMAIN t.rows \in SUBSET Nat /\ IsFiniteSet(DOMAIN t.rows)
    BY RowsTyped
  <2>2. G \in SUBSET DOMAIN t.rows /\ S \in SUBSET DOMAIN t.rows
    BY <1>8
  <2> HIDE DEF G, S
  <2> QED
    BY <2>1, <2>2, FS_Subset
<1>11. ~ CollectFails(u, name)
  <2>1. \A r \in S : ParsesFloat(Value(u, name, r))
    BY <1>8 DEF CollectFails
  <2>2. \A r \in G : ParsesFloat(Value(u, name, r))
    BY <1>5, <1>8
  <2> HIDE DEF S, G
  <2> QED
    BY <1>9, <2>1, <2>2 DEF CollectFails
<1>12. Percentile(Sorted(more), 50) = Percentile(Sorted(nums), 50)
  <2>1. CASE G = {}
    <3>1. Filled(u, name) = S
      BY <1>9, <2>1
    <3>2. more = nums
      <4> DEFINE rows == InOrder(S)
      <4>1. \A k \in DOMAIN rows : Value(u, name, rows[k]) = Value(t, name, rows[k])
        <5>1. S \in SUBSET Nat
          BY <1>8, RowsTyped
        <5> HIDE DEF S
        <5>2. rows \in [1..Cardinality(S) -> S]
          BY <1>10, <5>1, InOrderSorts
        <5> HIDE DEF rows
        <5> QED
          BY <1>8, <5>2
      <4> HIDE DEF rows
      <4>2. more = [k \in DOMAIN rows |-> FloatOf(Value(u, name, rows[k]))]
        BY <3>1 DEF CollectNums, rows
      <4>3. nums = [k \in DOMAIN rows |-> FloatOf(Value(t, name, rows[k]))]
        BY DEF CollectNums, rows
      <4> HIDE DEF more, nums
      <4> QED
        BY <4>1, <4>2, <4>3
    <3> QED
      BY <3>2
  <2>2. CASE G # {}
    <3> DEFINE d == Cardinality(G)
               below == {x \in Int : x <= c}
               above == {x \in Int : x >= c}
    <3>1. d \in Nat \ {0}
      BY <1>10, <2>2, FS_CardinalityType, FS_EmptySet
    <3>2. more \in Seq(Int) /\ Len(more) = Len(nums) + d
      <4>1. /\ Len(nums) = Cardinality(S) /\ more \in Seq(Int) /\ Len(more) = Cardinality(Filled(u, name))
        BY <1>8, <1>11, NumsTyped
      <4>2. Cardinality(S \cup G) = Cardinality(S) + Cardinality(G) - Cardinality(S \cap G)
        <5> HIDE DEF S, G
        <5> QED
          BY <1>10, FS_Union
      <4>3. Cardinality(S) \in Nat /\ Cardinality(S \cap G) = 0
        <5> HIDE DEF S, G
        <5> QED
          BY <1>9, <1>10, FS_CardinalityType, FS_EmptySet
      <4> HIDE DEF S, G, nums, more
      <4> QED
        BY <1>9, <3>1, <4>1, <4>2, <4>3
    <3>3. \A r \in G : FloatOf(Value(u, name, r)) = c
      BY <1>8
    <3>4. Cardinality({k \in DOMAIN more : more[k] \in below})
            = Cardinality({k \in DOMAIN nums : nums[k] \in below}) + d
      <4>1. c \in below
        BY <1>5
      <4> HIDE DEF G, S, c, below
      <4>2. /\ Filled(u, name) = Filled(t, name) \cup G /\ Filled(t, name) \cap G = {}
            /\ \A r \in Filled(t, name) : Value(u, name, r) = Value(t, name, r)
        BY <1>8, <1>9 DEF S
      <4> QED
        BY <1>8, <1>10, <1>11, <3>3, <4>1, <4>2, CountGrows
    <3>5. Cardinality({k \in DOMAIN more : more[k] \in above})
            = Cardinality({k \in DOMAIN nums : nums[k] \in above}) + d
      <4>1. c \in above
        BY <1>5
      <4> HIDE DEF G, S, c, above
      <4>2. /\ Filled(u, name) = Filled(t, name) \cup G /\ Filled(t, name) \cap G = {}
            /\ \A r \in Filled(t, name) : Value(u, name, r) = Value(t, name, r)
        BY <1>8, <1>9 DEF S
      <4> QED
        BY <1>8, <1>10, <1>11, <3>3, <4>1, <4>2, CountGrows
    <3> HIDE DEF d, c, nums, more
    <3>6. Percentile(Sorted(more), 50) = 100 * c
      BY <1>4, <1>5, <3>1, <3>2, <3>4, <3>5, MedianKept
    <3> QED
      BY <1>5, <3>6
  <2> QED
    BY <2>1, <2>2
<1>13. Filled(u, name) # {}
  BY <1>9
<1> QED
  BY <1>3, <1>8, <1>11, <1>12, <1>13

LEMMA BenchInvFills == BenchInv => FillsExact
<1> SUFFICES ASSUME BenchInv, NEW name \in Names, HasColumn(table, name)
             PROVE  LET fill(strategy) == [column |-> name, strategy |-> strategy]
                        carried == ApplyFill(table, <<fill("forward"), fill("backward")>>).table
                        median  == ApplyFill(table, <<fill("median")>>)
                    IN  /\ Filled(table, name) # {} => Filled(carried, name) = Reaching(table, name)
                        /\ \A r \in Filled(table, name) : carried.rows[r] = table.rows[r]
                        /\ name \in NumberColumns /\ MedianOf(table, name) % (100 * Grain) = 0 =>
                             MedianOf(median.table, name) = MedianOf(table, name)
  BY Zenon DEF FillsExact
<1> DEFINE carried == ApplyFill(table, <<[column |-> name, strategy |-> "forward"],
                                         [column |-> name, strategy |-> "backward"]>>).table
           median == ApplyFill(table, <<[column |-> name, strategy |-> "median"]>>).table
<1>1. IsTextTable(table)
  BY DEF BenchInv
<1>2. /\ Filled(table, name) # {} => Filled(carried, name) = Reaching(table, name)
      /\ \A r \in Filled(table, name) : carried.rows[r] = table.rows[r]
  BY <1>1, CarriedBothWays
<1>3. ASSUME NEW t, IsTextTable(t), Filled(t, name) # {}, ~ CollectFails(t, name)
      PROVE  MedianOf(t, name) = Percentile(Sorted(CollectNums(t, name)), 50)
  <2> DEFINE sorted == Sorted(CollectNums(t, name))
             p == ProfileColumn(t, ColumnOf(t, name))
  <2>1. p.quantiles = [q \in DOMAIN Quantiles |-> Percentile(sorted, Quantiles[q])]
    <3>1. /\ p.nullCount = Len(t.rows) - Cardinality(Filled(t, name))
          /\ p.distinct = Cardinality({Value(t, name, r) : r \in Filled(t, name)})
          /\ Filled(t, name) # {} /\ ~ CollectFails(t, name) =>
               /\ p.isNumeric /\ p.min = Head(sorted) /\ p.max = Last(sorted)
               /\ p.quantiles = [q \in DOMAIN Quantiles |-> Percentile(sorted, Quantiles[q])]
      BY <1>3, ProfileMeans
    <3> QED
      BY <1>3, <3>1
  <2> HIDE DEF sorted
  <2>2. 2 \in DOMAIN Quantiles /\ Quantiles[2] = 50
    BY DEF Quantiles
  <2>3. MedianOf(t, name) = Percentile(sorted, 50)
    BY <2>1, <2>2 DEF MedianOf
  <2> QED
    BY <2>3 DEF sorted
<1>4. ASSUME name \in NumberColumns, MedianOf(table, name) % (100 * Grain) = 0
      PROVE  MedianOf(median, name) = MedianOf(table, name)
  <2>1. /\ ~ CollectFails(table, name) /\ ~ HasNaN(CollectNums(table, name))
        /\ Filled(table, name) # {}
    BY <1>4 DEF NumberColumns
  <2>2. MedianOf(table, name) = Percentile(Sorted(CollectNums(table, name)), 50)
    BY <1>1, <1>3, <2>1
  <2>3. /\ IsTextTable(median) /\ ~ CollectFails(median, name) /\ Filled(median, name) # {}
        /\ Percentile(Sorted(CollectNums(median, name)), 50) = Percentile(Sorted(CollectNums(table, name)), 50)
    BY <1>1, <1>4, <2>1, <2>2, MedianFilled
  <2> HIDE DEF median
  <2> QED
    BY <1>3, <2>2, <2>3
<1> QED
  BY <1>2, <1>4

\* FillsExact holds for all tables: filling forward and backward leaves no gap that
\* a row reaches and changes no filled row, and filling with a median that can be
\* written keeps the median.
THEOREM FillsCorrect == BenchSpec => []FillsExact
<1>1. BenchInv => FillsExact
  BY BenchInvFills
<1> QED
  BY <1>1, BenchInvariant, PTL
-------------------------------------------------------------------------------
(* Rounding *)

\* Multiplying by a positive number keeps the order of two numbers.
LEMMA ProductOrder ==
    ASSUME NEW w \in Nat \ {0}, NEW a \in Int, NEW b \in Int
    PROVE  (a < b <=> w * a < w * b) /\ (a <= b <=> w * a <= w * b)
<1>1. ASSUME NEW x \in Int, NEW y \in Int, x < y
      PROVE  w * x < w * y
  <2> DEFINE m == y - x
  <2>1. m \in Nat \ {0} /\ y = x + m
    BY <1>1
  <2> HIDE DEF m
  <2>2. w * y = w * x + w * m /\ w * x \in Int
    BY <2>1
  <2>3. w * m \in Nat \ {0}
    BY <2>1, SMT
  <2> QED
    BY <2>2, <2>3
<1>2. w * a \in Int /\ w * b \in Int
  OBVIOUS
<1>3. a < b => w * a < w * b
  BY <1>1
<1>4. b < a => w * b < w * a
  BY <1>1
<1> DEFINE p == w * a
           q == w * b
<1> HIDE DEF p, q
<1>5. a = b => p = q
  BY DEF p, q
<1>6. p \in Int /\ q \in Int /\ (a < b => p < q) /\ (b < a => q < p)
  BY <1>2, <1>3, <1>4 DEF p, q
<1>7. (a < b <=> p < q) /\ (a <= b <=> p <= q)
  BY <1>5, <1>6
<1> QED
  BY <1>7 DEF p, q

\* NearestInt is within half a unit, and even where that leaves a choice.
LEMMA NearestIsNear ==
    ASSUME NEW a \in Nat, NEW b \in Nat \ {0}
    PROVE  LET n == NearestInt(a, b)
           IN  /\ n \in Nat
               /\ 2 * (n * b) - b <= 2 * a /\ 2 * a <= 2 * (n * b) + b
               /\ 2 * (n * b) - b = 2 * a \/ 2 * a = 2 * (n * b) + b => n % 2 = 0
<1> DEFINE x == 2 * a + b
           y == 2 * b
           up == x \div y
           rest == x % y
           n == NearestInt(a, b)
<1>1. /\ x \in Nat /\ y \in Nat \ {0}
      /\ up \in Nat /\ rest \in Nat /\ x = y * up + rest /\ rest < y
  <2>1. x \in Nat /\ y \in Nat \ {0}
    OBVIOUS
  <2> HIDE DEF x, y
  <2> QED
    BY <2>1
<1>2. n = IF rest = 0 /\ up % 2 = 1 THEN up - 1 ELSE up
  BY DEF NearestInt
<1>3. x = 2 * a + b /\ y = 2 * b
  OBVIOUS
<1> HIDE DEF x, y, up, rest, n
<1>4. y * up = 2 * (up * b) /\ up * b \in Int
  BY <1>1, <1>3
<1>5. CASE rest = 0 /\ up % 2 = 1
  <2>1. n = up - 1 /\ n \in Nat /\ n % 2 = 0
    BY <1>1, <1>2, <1>5
  <2>2. n * b = up * b - b
    BY <1>1, <2>1
  <2> DEFINE p == up * b
             q == n * b
  <2>3. q = p - b /\ p \in Int /\ 2 * a + b = 2 * p
    BY <1>1, <1>3, <1>4, <1>5, <2>2
  <2> HIDE DEF p, q
  <2>4. 2 * q - b <= 2 * a /\ 2 * a <= 2 * q + b
    BY <2>3
  <2> QED
    BY <2>1, <2>4 DEF q, n
<1>6. CASE ~ (rest = 0 /\ up % 2 = 1)
  <2>1. n = up /\ (rest = 0 => n % 2 = 0)
    BY <1>1, <1>2, <1>6
  <2> DEFINE p == up * b
  <2>2. p \in Int /\ 2 * a + b = 2 * p + rest /\ rest < 2 * b
    BY <1>1, <1>3, <1>4
  <2>3. p = n * b
    BY <2>1
  <2> HIDE DEF p
  <2>4. /\ 2 * p - b <= 2 * a /\ 2 * a <= 2 * p + b
        /\ (2 * p - b = 2 * a => rest = 0) /\ 2 * a # 2 * p + b
    BY <1>1, <2>2
  <2> QED
    BY <1>1, <2>1, <2>3, <2>4 DEF n
<1> QED
  BY <1>5, <1>6

\* A multiple of the unit is its own nearest one.
LEMMA NearestOfMultiple ==
    ASSUME NEW k \in Nat, NEW b \in Nat \ {0}
    PROVE  NearestInt(k * b, b) = k
<1> DEFINE n == NearestInt(k * b, b)
           p == k * b
           q == n * b
<1>1. p \in Nat
  OBVIOUS
<1>2. n \in Nat /\ 2 * q - b <= 2 * p /\ 2 * p <= 2 * q + b
  BY <1>1, NearestIsNear
<1> HIDE DEF n
<1>3. q \in Int
  BY <1>2
<1>4. ASSUME n > k PROVE FALSE
  <2>1. b * (k + 1) <= b * n
    BY <1>2, <1>4, ProductOrder
  <2>2. b * (k + 1) = p + b /\ b * n = q
    BY <1>2
  <2> HIDE DEF p, q
  <2> QED
    BY <1>1, <1>2, <1>3, <2>1, <2>2
<1>5. ASSUME n < k PROVE FALSE
  <2>1. b * (n + 1) <= b * k
    BY <1>2, <1>5, ProductOrder
  <2>2. b * (n + 1) = q + b /\ b * k = p
    BY <1>2
  <2> HIDE DEF p, q
  <2> QED
    BY <1>1, <1>2, <1>3, <2>1, <2>2
<1> QED
  BY <1>2, <1>4, <1>5 DEF n

LEMMA NearestRises ==
    ASSUME NEW a \in Nat, NEW c \in Nat, NEW b \in Nat \ {0}, a <= c
    PROVE  NearestInt(a, b) <= NearestInt(c, b)
<1> DEFINE n == NearestInt(a, b)
           m == NearestInt(c, b)
           p == n * b
           q == m * b
<1>1. /\ n \in Nat /\ 2 * p - b <= 2 * a /\ 2 * a <= 2 * p + b
      /\ 2 * p - b = 2 * a \/ 2 * a = 2 * p + b => n % 2 = 0
  BY NearestIsNear
<1>2. /\ m \in Nat /\ 2 * q - b <= 2 * c /\ 2 * c <= 2 * q + b
      /\ 2 * q - b = 2 * c \/ 2 * c = 2 * q + b => m % 2 = 0
  BY NearestIsNear
<1> HIDE DEF n, m
<1>3. SUFFICES ASSUME m < n PROVE FALSE
  BY <1>1, <1>2 DEF n, m
<1>4. b * (m + 1) <= b * n
  BY <1>1, <1>2, <1>3, ProductOrder
<1>5. b * (m + 1) = q + b /\ b * n = p /\ p \in Int /\ q \in Int
  BY <1>1, <1>2
<1>6. p = q + b /\ n % 2 = 0 /\ m % 2 = 0
  <2> HIDE DEF p, q
  <2>1. 2 * p - b <= 2 * a /\ 2 * a <= 2 * c /\ 2 * c <= 2 * q + b /\ q + b <= p
    BY <1>1, <1>2, <1>4, <1>5
  <2>2. 2 * p - b = 2 * a /\ 2 * c = 2 * q + b /\ p = q + b
    BY <1>5, <2>1
  <2> QED
    BY <1>1, <1>2, <2>2
<1>7. ~ m + 1 < n
  <2>1. m + 1 < n => b * (m + 1) < b * n
    BY <1>1, <1>2, ProductOrder
  <2> HIDE DEF p, q
  <2> QED
    BY <1>5, <1>6, <2>1
<1> QED
  BY <1>1, <1>2, <1>3, <1>6, <1>7

\* The distance of floats around a number: one, or so large that half of it would
\* take more than the greatest mantissa.
LEMMA GapIsWide ==
    ASSUME NEW a \in Nat, NEW b \in Nat \ {0}
    PROVE  LET g == Gap(a, b)
           IN  /\ g \in Gaps /\ g \in Nat \ {0}
               /\ g # 1 => \E h \in Gaps : g = 2 * h /\ a >= b * Mantissas * h
               /\ \A h \in Gaps : /\ a < b * Mantissas * h => g <= h
                                  /\ g < h => a < b * Mantissas * g
<1> DEFINE wide == {g \in Gaps : a < b * Mantissas * g}
           g == Gap(a, b)
<1>1. /\ IsFiniteSet(Gaps) /\ Gaps \in SUBSET Nat /\ 1 \in Gaps /\ 0 \notin Gaps
      /\ \A h \in Gaps \ {1} : \E k \in Gaps : h = 2 * k
  BY GapsAssumption
<1>2. g = IF wide = {} THEN Max(Gaps) ELSE Min(wide)
  BY DEF Gap
<1>3. \A h \in Gaps : h \in wide <=> a < b * Mantissas * h
  OBVIOUS
<1>4. wide \in SUBSET Gaps
  OBVIOUS
<1> HIDE DEF wide, g
<1>5. /\ g \in Gaps
      /\ \A h \in wide : g \in wide /\ g <= h
      /\ wide = {} => \A h \in Gaps : g >= h
  <2>1. CASE wide = {}
    BY <1>1, <1>2, <2>1, MaxIsLargest
  <2>2. CASE wide # {}
    <3>1. IsFiniteSet(wide) /\ wide \in SUBSET Nat
      BY <1>1, <1>4, FS_Subset
    <3>2. Min(wide) \in wide /\ \A h \in wide : Min(wide) <= h
      BY <2>2, <3>1, MinIsLeast
    <3> QED
      BY <1>2, <1>4, <2>2, <3>2
  <2> QED
    BY <2>1, <2>2
<1>6. g \in Nat \ {0}
  BY <1>1, <1>5
<1>7. ASSUME g # 1
      PROVE  \E h \in Gaps : g = 2 * h /\ a >= b * Mantissas * h
  <2>1. PICK h \in Gaps : g = 2 * h
    BY <1>1, <1>5, <1>7
  <2>2. h \in Nat \ {0} /\ h < g
    BY <1>1, <2>1
  <2>3. h \notin wide
    BY <1>5, <1>6, <2>2
  <2>4. b * Mantissas * h \in Int
    BY <2>2, MantissasAssumption
  <2>5. ~ a < b * Mantissas * h
    BY <1>3, <2>3
  <2> QED
    BY <2>1, <2>4, <2>5
<1>8. ASSUME NEW h \in Gaps
      PROVE  /\ a < b * Mantissas * h => g <= h
             /\ g < h => a < b * Mantissas * g
  <2>1. a < b * Mantissas * h => g <= h
    BY <1>3, <1>5
  <2>2. ASSUME g < h PROVE a < b * Mantissas * g
    <3>1. wide # {}
      BY <1>1, <1>5, <1>6, <2>2
    <3>2. g \in wide
      BY <1>5, <3>1
    <3> QED
      BY <1>3, <1>5, <3>2
  <2> QED
    BY <2>1, <2>2
<1> QED
  BY <1>5, <1>6, <1>7, <1>8 DEF g

\* The float nearest to a number that is not negative, as a function of its own.
RoundedUp(a, b) == Gap(a, b) * NearestInt(a, b * Gap(a, b))

LEMMA RoundedTyped ==
    ASSUME NEW a \in Nat, NEW b \in Nat \ {0}
    PROVE  RoundedUp(a, b) \in Nat /\ b * Gap(a, b) \in Nat \ {0}
<1> DEFINE g == Gap(a, b)
           u == b * g
<1>1. g \in Nat \ {0}
  BY GapIsWide
<1> HIDE DEF g
<1>2. u \in Nat \ {0}
  <2>1. b * 0 < b * g
    BY <1>1, ProductOrder
  <2> QED
    BY <1>1, <2>1
<1> HIDE DEF u
<1>3. NearestInt(a, u) \in Nat
  BY <1>2, NearestIsNear
<1> DEFINE n == NearestInt(a, u)
<1> HIDE DEF n
<1>4. g * n \in Nat
  BY <1>1, <1>3 DEF n
<1> QED
  BY <1>2, <1>4 DEF RoundedUp, n, u, g

\* Rounding keeps the order of two numbers, across the distances of the floats
\* around them: the smaller is at most the greatest mantissa of its distance, the
\* other one at least half of that of its own, which is at least twice as wide.
LEMMA RoundedRises ==
    ASSUME NEW a \in Nat, NEW c \in Nat, NEW b \in Nat \ {0}, a <= c
    PROVE  RoundedUp(a, b) <= RoundedUp(c, b)
<1> DEFINE g == Gap(a, b)
           k == Gap(c, b)
           u == b * g
           w == b * k
           n == NearestInt(a, u)
           m == NearestInt(c, w)
<1>1. /\ g \in Gaps /\ g \in Nat \ {0}
      /\ \A h \in Gaps : a < b * Mantissas * h => g <= h
      /\ \A h \in Gaps : g < h => a < b * Mantissas * g
  BY GapIsWide
<1>2. /\ k \in Gaps /\ k \in Nat \ {0}
      /\ k # 1 => \E h \in Gaps : k = 2 * h /\ c >= b * Mantissas * h
      /\ \A h \in Gaps : k < h => c < b * Mantissas * k
  BY GapIsWide
<1>3. u \in Nat \ {0} /\ w \in Nat \ {0} /\ RoundedUp(a, b) = g * n /\ RoundedUp(c, b) = k * m
  BY RoundedTyped DEF RoundedUp
<1>4. Mantissas \in Nat /\ Mantissas >= 4 /\ Mantissas % 2 = 0
  BY MantissasAssumption
<1>5. u = b * g /\ w = b * k
  OBVIOUS
<1> HIDE DEF g, k
<1>6. g <= k
  <2>1. CASE k < g
    <3>1. c < b * Mantissas * k
      BY <1>1, <1>2, <2>1
    <3>2. b * Mantissas * k \in Int
      BY <1>2, <1>4
    <3>3. a < b * Mantissas * k
      BY <3>1, <3>2
    <3> QED
      BY <1>1, <1>2, <2>1, <3>3
  <2>2. CASE ~ k < g
    BY <1>1, <1>2, <2>2
  <2> QED
    BY <2>1, <2>2
<1> HIDE DEF u, w
<1>7. n \in Nat /\ m \in Nat
  BY <1>3, NearestIsNear
<1>8. CASE g = k
  <2>1. u = w
    BY <1>5, <1>8
  <2>2. n <= m
    BY <1>3, <2>1, NearestRises
  <2> HIDE DEF n, m
  <2>3. g * n <= g * m
    BY <1>1, <1>7, <2>2, ProductOrder
  <2> QED
    BY <1>3, <1>8, <2>3
<1>9. CASE g < k
  <2>1. PICK h \in Gaps : k = 2 * h /\ c >= b * Mantissas * h
    BY <1>1, <1>2, <1>9
  <2>2. h \in Nat \ {0}
    BY <2>1, GapsAssumption
  <2>3. g <= h
    <3> DEFINE j == k \div g
    <3>1. k % g = 0
      BY <1>1, <1>2, <1>9, GapsAssumption
    <3>2. j \in Int /\ k = g * j
      BY <1>1, <1>2, <3>1
    <3> HIDE DEF j
    <3>3. g * 1 < g * j
      BY <1>1, <1>9, <3>2
    <3>4. 1 < j
      BY <1>1, <3>2, <3>3, ProductOrder
    <3>5. g * 2 <= g * j
      BY <1>1, <3>2, <3>4, ProductOrder
    <3> QED
      BY <1>1, <2>1, <2>2, <3>2, <3>5
  <2> DEFINE mu == Mantissas \div 2
  <2>4. mu \in Nat /\ Mantissas = 2 * mu
    BY <1>4
  <2> HIDE DEF mu
  <2>5. n <= Mantissas
    <3>1. a < b * Mantissas * g
      BY <1>1, <1>2, <1>9
    <3>2. b * Mantissas * g = Mantissas * u /\ Mantissas * u \in Nat
      BY <1>1, <1>3, <1>4, <1>5
    <3>3. NearestInt(Mantissas * u, u) = Mantissas
      BY <1>3, <1>4, NearestOfMultiple
    <3>4. a <= Mantissas * u
      BY <3>1, <3>2
    <3>5. NearestInt(a, u) <= NearestInt(Mantissas * u, u)
      BY <1>3, <3>2, <3>4, NearestRises
    <3> QED
      BY <3>3, <3>5
  <2>6. mu <= m
    <3>1. b * Mantissas * h = mu * w /\ mu * w \in Nat
      <4>1. b * Mantissas * h = mu * (b * (2 * h))
        BY <2>2, <2>4
      <4>2. mu * w \in Nat
        BY <1>3, <2>4
      <4> QED
        BY <1>5, <2>1, <4>1, <4>2
    <3>2. NearestInt(mu * w, w) = mu
      BY <1>3, <2>4, NearestOfMultiple
    <3>3. mu * w <= c
      BY <2>1, <3>1
    <3>4. NearestInt(mu * w, w) <= NearestInt(c, w)
      BY <1>3, <3>1, <3>3, NearestRises
    <3> QED
      BY <3>2, <3>4
  <2> HIDE DEF n, m
  <2>7. g * n <= g * Mantissas /\ Mantissas * g <= Mantissas * h /\ k * mu <= k * m
    <3>1. Mantissas \in Nat \ {0}
      BY <1>4
    <3>2. g * n <= g * Mantissas
      BY <1>1, <1>4, <1>7, <2>5, ProductOrder
    <3>3. Mantissas * g <= Mantissas * h
      BY <1>1, <2>2, <2>3, <3>1, ProductOrder
    <3>4. k * mu <= k * m
      BY <1>2, <1>7, <2>4, <2>6, ProductOrder
    <3> QED
      BY <3>2, <3>3, <3>4
  <2>8. k * mu = Mantissas * h /\ g * Mantissas = Mantissas * g
    BY <1>1, <1>4, <2>1, <2>2, <2>4
  <2>9. g * n \in Int /\ g * Mantissas \in Int /\ Mantissas * h \in Int /\ k * m \in Int
    BY <1>1, <1>2, <1>4, <1>7, <2>2
  <2> QED
    BY <1>3, <2>7, <2>8, <2>9
<1> QED
  BY <1>1, <1>2, <1>6, <1>8, <1>9

LEMMA FloatCases ==
    ASSUME NEW a \in Int, NEW b \in Nat \ {0}
    PROVE  /\ Float(a, b) \in Int
           /\ a >= 0 => Float(a, b) = RoundedUp(a, b) /\ Float(a, b) >= 0
           /\ a < 0 => Float(a, b) = -RoundedUp(-a, b) /\ Float(a, b) <= 0
           /\ a = 0 => Float(a, b) = 0
<1>1. Float(a, b) = IF a < 0 THEN -RoundedUp(-a, b) ELSE RoundedUp(a, b)
  BY DEF Float, RoundedUp
<1>2. a >= 0 => RoundedUp(a, b) \in Nat
  BY RoundedTyped
<1>3. a < 0 => RoundedUp(-a, b) \in Nat
  <2>1. a < 0 => -a \in Nat
    OBVIOUS
  <2> QED
    BY <2>1, RoundedTyped
<1>4. RoundedUp(0, b) = 0
  <2> DEFINE g == Gap(0, b)
             u == b * g
  <2>1. u \in Nat \ {0} /\ g \in Nat
    BY RoundedTyped, GapIsWide
  <2> HIDE DEF g
  <2> HIDE DEF u
  <2>2. NearestInt(0 * u, u) = 0 /\ 0 * u = 0
    BY <2>1, NearestOfMultiple
  <2>3. g * 0 = 0
    BY <2>1
  <2> QED
    BY <2>2, <2>3 DEF RoundedUp, u, g
<1> QED
  BY <1>1, <1>2, <1>3, <1>4

\* Rounding keeps the order of any two numbers.
LEMMA FloatRises ==
    ASSUME NEW a \in Int, NEW c \in Int, NEW b \in Nat \ {0}, a <= c
    PROVE  Float(a, b) <= Float(c, b)
<1>1. CASE a >= 0
  <2>1. a \in Nat /\ c \in Nat
    BY <1>1
  <2> QED
    BY <1>1, <2>1, FloatCases, RoundedRises
<1>2. CASE a < 0 /\ c >= 0
  <2>1. Float(a, b) \in Int /\ Float(c, b) \in Int /\ Float(a, b) <= 0 /\ Float(c, b) >= 0
    BY <1>2, FloatCases
  <2> QED
    BY <2>1
<1>3. CASE c < 0
  <2> DEFINE x == -c
             y == -a
  <2>1. x \in Nat /\ y \in Nat /\ x <= y /\ a < 0
    BY <1>3
  <2>2. Float(a, b) = -RoundedUp(y, b) /\ Float(c, b) = -RoundedUp(x, b)
    BY <1>3, <2>1, FloatCases
  <2> HIDE DEF x, y
  <2>3. RoundedUp(x, b) <= RoundedUp(y, b) /\ RoundedUp(x, b) \in Nat /\ RoundedUp(y, b) \in Nat
    BY <2>1, RoundedRises, RoundedTyped
  <2> QED
    BY <2>2, <2>3
<1> QED
  BY <1>1, <1>2, <1>3

\* Small whole numbers are floats.
LEMMA WholeIsFloat ==
    ASSUME NEW k \in 0..2, NEW b \in Nat \ {0}
    PROVE  Float((k * b) * FloatOne, b) = k * FloatOne
<1> DEFINE a == (k * b) * FloatOne
           g == Gap(a, b)
           u == b * g
<1>1. FloatOne \in Gaps /\ FloatOne \in Nat \ {0} /\ Mantissas \in Nat /\ Mantissas >= 4
  BY FloatOneAssumption, GapsAssumption, MantissasAssumption
<1>2. a \in Nat
  BY <1>1
<1>3. a < b * Mantissas * FloatOne
  <2> DEFINE o == b * FloatOne
  <2>1. o \in Nat \ {0}
    <3>1. b * 0 < b * FloatOne
      BY <1>1, ProductOrder
    <3> QED
      BY <1>1, <3>1
  <2>2. a = o * k /\ b * Mantissas * FloatOne = o * Mantissas
    BY <1>1
  <2> HIDE DEF o, a
  <2>3. o * k < o * Mantissas
    <3>1. k < Mantissas /\ k \in Int /\ Mantissas \in Int
      BY <1>1
    <3> QED
      BY <2>1, <3>1, ProductOrder
  <2> QED
    BY <2>2, <2>3
<1>4. Float(a, b) = RoundedUp(a, b)
  BY <1>2, FloatCases
<1>5. a = (k * b) * FloatOne
  OBVIOUS
<1> HIDE DEF a
<1>6. g \in Gaps /\ g \in Nat \ {0} /\ g <= FloatOne
  BY <1>1, <1>2, <1>3, GapIsWide
<1>7. u \in Nat \ {0} /\ u = b * g
  BY <1>2, RoundedTyped
<1>8. RoundedUp(a, b) = g * NearestInt(a, u)
  BY DEF RoundedUp
<1> DEFINE j == FloatOne \div g
<1> HIDE DEF g, u
<1>9. j \in Nat /\ FloatOne = g * j
  <2>1. FloatOne % g = 0
    BY <1>1, <1>6, GapsAssumption
  <2> QED
    BY <1>1, <1>6, <2>1
<1> HIDE DEF j
<1>10. a = (k * j) * u /\ k * j \in Nat
  BY <1>5, <1>6, <1>7, <1>9
<1>11. NearestInt(a, u) = k * j
  BY <1>7, <1>10, NearestOfMultiple
<1>12. g * (k * j) = k * FloatOne
  BY <1>6, <1>9
<1> QED
  BY <1>4, <1>5, <1>8, <1>11, <1>12

\* A positive width fits between the extremes once less than there are buckets, as
\* long as these are few.
LEMMA WidthFits ==
    ASSUME NEW d \in Nat, NEW buckets \in 1..3, Float(d, buckets) # 0
    PROVE  /\ Float(d, buckets) \in Nat \ {0}
           /\ (buckets - 1) * Float(d, buckets) <= d
<1> DEFINE g == Gap(d, buckets)
           u == buckets * g
           n == NearestInt(d, u)
           w == Float(d, buckets)
<1>1. /\ g \in Nat \ {0}
      /\ g # 1 => \E h \in Gaps : g = 2 * h /\ d >= buckets * Mantissas * h
  BY GapIsWide
<1>2. u \in Nat \ {0} /\ w = g * n /\ w \in Nat \ {0}
  BY RoundedTyped, FloatCases DEF RoundedUp
<1>3. u = buckets * g
  OBVIOUS
<1> HIDE DEF g, w
<1> HIDE DEF u
<1>4. /\ n \in Nat /\ 2 * (n * u) - u <= 2 * d
      /\ 2 * (n * u) - u = 2 * d => n % 2 = 0
  BY <1>2, NearestIsNear
<1> HIDE DEF n
<1>5. n # 0
  BY <1>1, <1>2, <1>4
<1>6. n * u = buckets * w /\ w >= g
  <2>1. g * 1 <= g * n
    BY <1>1, <1>4, <1>5, ProductOrder
  <2> QED
    BY <1>1, <1>2, <1>3, <1>4, <2>1
<1>7. ASSUME buckets = 1
      PROVE  0 * w <= d
  BY <1>2, <1>7
<1>8. ASSUME buckets = 2
      PROVE  1 * w <= d
  BY <1>1, <1>2, <1>3, <1>4, <1>6, <1>8
<1>9. ASSUME buckets = 3
      PROVE  2 * w <= d
  <2>1. u = 3 * g /\ n * u = 3 * w
    BY <1>3, <1>6, <1>9
  <2>2. 6 * w - 3 * g <= 2 * d /\ (6 * w - 3 * g = 2 * d => n % 2 = 0)
    BY <1>1, <1>2, <1>4, <2>1
  <2>3. CASE n >= 2
    <3>1. g * 2 <= g * n
      BY <1>1, <1>4, <2>3, ProductOrder
    <3>2. 2 * g <= w
      BY <1>1, <1>2, <3>1
    <3> QED
      BY <1>1, <1>2, <1>9, <2>2, <3>2
  <2>4. CASE n = 1
    <3>1. w = g
      BY <1>1, <1>2, <2>4
    <3>2. 3 * g < 2 * d
      BY <1>1, <2>2, <2>4, <3>1
    <3>3. CASE g = 1
      BY <1>9, <3>1, <3>2, <3>3
    <3>4. CASE g # 1
      <4>1. PICK h \in Gaps : g = 2 * h /\ d >= 3 * Mantissas * h
        BY <1>1, <1>9, <3>4
      <4>2. h \in Nat \ {0} /\ Mantissas \in Nat /\ Mantissas >= 4
        BY GapsAssumption, MantissasAssumption
      <4>3. h * 4 <= h * Mantissas
        BY <4>2, ProductOrder
      <4>4. 3 * Mantissas * h = 3 * (h * Mantissas) /\ h * Mantissas \in Nat
        BY <4>2
      <4>5. 4 * h <= d
        BY <4>1, <4>2, <4>3, <4>4
      <4> QED
        BY <1>9, <3>1, <4>1, <4>2, <4>5
    <3> QED
      BY <3>3, <3>4
  <2> QED
    BY <1>4, <1>5, <2>3, <2>4
<1>10. buckets \in {1, 2, 3}
  OBVIOUS
<1>11. w \in Nat \ {0} /\ (buckets - 1) * w <= d
  <2>1. buckets = 1 => buckets - 1 = 0
    OBVIOUS
  <2>2. buckets = 2 => buckets - 1 = 1
    OBVIOUS
  <2>3. buckets = 3 => buckets - 1 = 2
    OBVIOUS
  <2> QED
    BY <1>2, <1>7, <1>8, <1>9, <1>10, <2>1, <2>2, <2>3
<1> QED
  BY <1>11 DEF w

\* The quotients rise with the numbers, from zero at the least one to the last
\* bucket, or past it, at the greatest.
LEMMA QuotientsRise ==
    ASSUME NEW low \in Int, NEW high \in Int, low <= high, NEW buckets \in 1..3,
           NEW width, width = Float(Minus(high, low), buckets), width # 0
    PROVE  /\ \A v \in Int : Quotient(v, low, width) \in Int
           /\ \A u, v \in Int : u <= v => Quotient(u, low, width) <= Quotient(v, low, width)
           /\ Quotient(low, low, width) = 0
           /\ Quotient(high, low, width) >= buckets - 1
<1>1. FloatOne \in Nat \ {0}
  BY FloatOneAssumption, GapsAssumption
<1>2. /\ \A v \in Int : Minus(v, low) \in Int
      /\ \A u, v \in Int : u <= v => Minus(u, low) <= Minus(v, low)
      /\ Minus(low, low) = 0 /\ Minus(high, low) \in Nat
  <2>1. \A v \in Int : Minus(v, low) \in Int
    BY FloatCases DEF Minus
  <2>2. ASSUME NEW u \in Int, NEW v \in Int, u <= v
        PROVE  Minus(u, low) <= Minus(v, low)
    <3>1. u - low \in Int /\ v - low \in Int /\ u - low <= v - low
      BY <2>2
    <3> QED
      BY <3>1, FloatRises DEF Minus
  <2>3. Minus(low, low) = 0
    <3>1. low - low = 0
      OBVIOUS
    <3> QED
      BY <3>1, FloatCases DEF Minus
  <2>4. Minus(high, low) \in Nat
    BY <2>1, <2>2, <2>3
  <2> QED
    BY <2>1, <2>2, <2>3, <2>4
<1>3. width \in Nat \ {0} /\ (buckets - 1) * width <= Minus(high, low)
  BY <1>2, WidthFits
<1>4. /\ \A x \in Int : DividedBy(x, width) \in Int
      /\ \A x, y \in Int : x <= y => DividedBy(x, width) <= DividedBy(y, width)
      /\ DividedBy(0, width) = 0
      /\ DividedBy((buckets - 1) * width, width) = (buckets - 1) * FloatOne
  <2>1. \A x \in Int : DividedBy(x, width) \in Int
    <3> TAKE x \in Int
    <3>1. x * FloatOne \in Int
      BY <1>1
    <3> QED
      BY <1>3, <3>1, FloatCases DEF DividedBy
  <2>2. ASSUME NEW x \in Int, NEW y \in Int, x <= y
        PROVE  DividedBy(x, width) <= DividedBy(y, width)
    <3>1. FloatOne * x <= FloatOne * y
      BY <1>1, <2>2, ProductOrder
    <3>2. x * FloatOne \in Int /\ y * FloatOne \in Int /\ x * FloatOne <= y * FloatOne
      BY <1>1, <3>1
    <3> QED
      BY <1>3, <3>2, FloatRises DEF DividedBy
  <2>3. DividedBy(0, width) = 0
    <3>1. 0 * FloatOne = 0
      BY <1>1
    <3> QED
      BY <1>3, <3>1, FloatCases DEF DividedBy
  <2>4. DividedBy((buckets - 1) * width, width) = (buckets - 1) * FloatOne
    <3>1. buckets - 1 \in 0..2
      OBVIOUS
    <3> QED
      BY <1>3, <3>1, WholeIsFloat DEF DividedBy
  <2> QED
    BY <2>1, <2>2, <2>3, <2>4
<1>5. /\ \A x \in Int : Floor(x) \in Int
      /\ \A x, y \in Int : x <= y => Floor(x) <= Floor(y)
      /\ Floor(0) = 0 /\ Floor((buckets - 1) * FloatOne) = buckets - 1
  <2>1. \A x \in Int : Floor(x) \in Int
    BY <1>1 DEF Floor
  <2>2. \A x, y \in Int : x <= y => Floor(x) <= Floor(y)
    BY <1>1, DivMonotone DEF Floor
  <2>3. \A k \in Nat : (k * FloatOne) \div FloatOne = k
    <3> TAKE k \in Nat
    <3> DEFINE x == k * FloatOne
               q == x \div FloatOne
    <3>1. x \in Nat /\ x = FloatOne * k
      BY <1>1
    <3> HIDE DEF x
    <3>2. q \in Int /\ FloatOne * q <= x /\ x < FloatOne * (q + 1)
      BY <1>1, <3>1
    <3> HIDE DEF q
    <3>3. ~ k < q
      <4>1. k < q => FloatOne * k < FloatOne * q
        BY <1>1, <3>2, ProductOrder
      <4> QED
        BY <1>1, <3>1, <3>2, <4>1
    <3>4. ~ q + 1 <= k
      <4>1. q + 1 <= k => FloatOne * (q + 1) <= FloatOne * k
        BY <1>1, <3>2, ProductOrder
      <4> QED
        BY <1>1, <3>1, <3>2, <4>1
    <3>5. q = k
      BY <3>2, <3>3, <3>4
    <3> QED
      BY <3>5 DEF q, x
  <2>4. Floor(0) = 0
    BY <1>1 DEF Floor
  <2>5. buckets - 1 \in Nat
    OBVIOUS
  <2>6. Floor((buckets - 1) * FloatOne) = buckets - 1
    BY <2>3, <2>5 DEF Floor
  <2> QED
    BY <2>1, <2>2, <2>4, <2>6
<1>6. Quotient(high, low, width) >= buckets - 1
  <2> DEFINE x == (buckets - 1) * width
             y == (buckets - 1) * FloatOne
  <2>1. x \in Int /\ y \in Int /\ x <= Minus(high, low)
    BY <1>1, <1>3
  <2>2. DividedBy(x, width) = y /\ Floor(y) = buckets - 1
    BY <1>4, <1>5
  <2> HIDE DEF x, y
  <2>3. y <= DividedBy(Minus(high, low), width)
    BY <1>2, <1>4, <2>1, <2>2
  <2>4. DividedBy(Minus(high, low), width) \in Int
    BY <1>2, <1>4
  <2>5. Floor(y) <= Floor(DividedBy(Minus(high, low), width))
    BY <1>5, <2>1, <2>3, <2>4
  <2>6. Floor(DividedBy(Minus(high, low), width)) \in Int
    BY <1>5, <2>4
  <2> QED
    BY <2>2, <2>5, <2>6 DEF Quotient
<1>7. Quotient(low, low, width) = 0
  BY <1>2, <1>4, <1>5 DEF Quotient
<1>8. \A v \in Int : Quotient(v, low, width) \in Int
  BY <1>2, <1>4, <1>5 DEF Quotient
<1>9. ASSUME NEW u \in Int, NEW v \in Int, u <= v
      PROVE  Quotient(u, low, width) <= Quotient(v, low, width)
  <2> DEFINE x == Minus(u, low)
             y == Minus(v, low)
  <2>1. x \in Int /\ y \in Int /\ x <= y
    BY <1>2, <1>9
  <2> HIDE DEF x, y
  <2>2. Floor(DividedBy(x, width)) <= Floor(DividedBy(y, width))
    BY <1>4, <1>5, <2>1
  <2> QED
    BY <2>2 DEF Quotient, x, y
<1> QED
  BY <1>6, <1>7, <1>8, <1>9
-------------------------------------------------------------------------------
(* Histograms *)

\* The bucket of a number that BucketFor finds in none.
TopOf(h, buckets) == IF h.low = h.high THEN 0 ELSE buckets - 1

\* Places the numbers of a list: h and bucket agree, but for numbers of the last
\* bucket that BucketFor does not find, and are in order.
Places(h, data, buckets, bucket) ==
    /\ DOMAIN h.counts = 0..(buckets - 1) /\ bucket \in [DOMAIN data -> 0..(buckets - 1)]
    /\ \A b \in 0..(buckets - 1) : h.counts[b] = Cardinality({l \in DOMAIN data : bucket[l] = b})
    /\ \A l \in DOMAIN data :
          bucket[l] = IF BucketFor(h, data[l]) = -1 THEN TopOf(h, buckets) ELSE BucketFor(h, data[l])
    /\ \A j, k \in DOMAIN data : data[j] <= data[k] => bucket[j] <= bucket[k]
    /\ BucketFor(h, h.low) = 0 /\ BucketFor(h, h.high) = TopOf(h, buckets)
    /\ BucketFor(h, h.low - 1) \in {-1, 0} /\ BucketFor(h, h.high + 1) \in {-1, TopOf(h, buckets)}

\* The numbers of a list lie between its extremes.
LEMMA BetweenExtremes ==
    ASSUME NEW data \in Seq(Int), data # << >>
    PROVE  /\ Min(ToSet(data)) \in Int /\ Max(ToSet(data)) \in Int
           /\ Min(ToSet(data)) <= Max(ToSet(data))
           /\ \A l \in DOMAIN data : /\ data[l] \in Int
                                     /\ Min(ToSet(data)) <= data[l] /\ data[l] <= Max(ToSet(data))
<1> DEFINE n == Len(data)
           S == ToSet(data)
<1>1. n \in Nat \ {0} /\ DOMAIN data = 1..n /\ \A l \in 1..n : data[l] \in Int
  BY LenProperties, ElementOfSeq, EmptySeq
<1>2. S = {data[l] : l \in 1..n}
  BY <1>1 DEF ToSet
<1>3. IsFiniteSet(1..n) /\ 1 \in 1..n
  <2> HIDE DEF n
  <2> QED
    BY <1>1, UpToCount
<1> HIDE DEF n, S
<1>4. IsFiniteSet(S) /\ S \in SUBSET Int /\ data[1] \in S
  <2>1. data \in [1..n -> Int]
    BY <1>1 DEF n
  <2>2. data \in Surjection(1..n, S)
    BY <1>2, <2>1 DEF Surjection
  <2>3. IsFiniteSet(S)
    BY <1>3, <2>2, FS_Surjection
  <2> QED
    BY <1>1, <1>2, <1>3, <2>3
<1>5. Min(S) \in S /\ Max(S) \in S /\ \A x \in S : Min(S) <= x /\ Max(S) >= x
  BY <1>4, IntMinIsLeast, IntMaxIsLargest
<1>6. \A l \in DOMAIN data : data[l] \in S
  BY <1>1, <1>2
<1>7. /\ Min(S) \in Int /\ Max(S) \in Int /\ Min(S) <= Max(S)
      /\ \A l \in DOMAIN data : data[l] \in Int /\ Min(S) <= data[l] /\ data[l] <= Max(S)
  BY <1>4, <1>5, <1>6
<1> QED
  BY <1>7 DEF S

\* Index is the quotient, kept within the buckets.
LEMMA IndexKept ==
    ASSUME NEW v, NEW low, NEW width, NEW buckets \in Nat \ {0}, width # 0,
           Quotient(v, low, width) \in Int
    PROVE  LET q == Quotient(v, low, width)
           IN  Index(v, low, width, buckets)
                 = IF q < 0 THEN 0 ELSE IF q < buckets THEN q ELSE buckets - 1
<1> DEFINE q == Quotient(v, low, width)
           top == buckets - 1
           m == Min({q, top})
<1>1. Index(v, low, width, buckets) = Max({0, m}) /\ q \in Int /\ top \in Nat
  BY DEF Index
<1> HIDE DEF q
<1>2. m \in {q, top} /\ m <= q /\ m <= top
  <2>1. q \in Int /\ top \in Int
    BY <1>1
  <2> HIDE DEF top
  <2>2. /\ Min({q, top}) \in {q, top} /\ Min({q, top}) <= q /\ Min({q, top}) <= top
        /\ Max({q, top}) \in {q, top} /\ Max({q, top}) >= q /\ Max({q, top}) >= top
    BY <2>1, PairExtremes
  <2> QED
    BY <2>2
<1> HIDE DEF m
<1>3. Max({0, m}) \in {0, m} /\ Max({0, m}) >= 0 /\ Max({0, m}) >= m
  <2> DEFINE z == 0
  <2>1. z \in Int /\ m \in Int
    BY <1>1, <1>2
  <2> HIDE DEF z, top
  <2>2. /\ Min({z, m}) \in {z, m} /\ Min({z, m}) <= z /\ Min({z, m}) <= m
        /\ Max({z, m}) \in {z, m} /\ Max({z, m}) >= z /\ Max({z, m}) >= m
    BY <2>1, PairExtremes
  <2> QED
    BY <2>2 DEF z
<1>4. Index(v, low, width, buckets) = IF q < 0 THEN 0 ELSE IF q < buckets THEN q ELSE top
  <2> DEFINE x == Index(v, low, width, buckets)
  <2>1. x \in {0, m} /\ x >= 0 /\ x >= m
    BY <1>1, <1>3
  <2> HIDE DEF x
  <2>2. x = IF q < 0 THEN 0 ELSE IF q < buckets THEN q ELSE top
    BY <1>1, <1>2, <2>1
  <2> QED
    BY <2>2 DEF x
<1> QED
  BY <1>4 DEF q

LEMMA HistogramPlaces ==
    ASSUME NEW data \in Seq(Int), data # << >>, NEW buckets \in 1..3,
           BuildHistogram(data, buckets).width # 0
             \/ BuildHistogram(data, buckets).low = BuildHistogram(data, buckets).high
    PROVE  \E bucket : Places(BuildHistogram(data, buckets), data, buckets, bucket)
<1> DEFINE low == Min(ToSet(data))
           high == Max(ToSet(data))
           width == IF low = high THEN 0 ELSE Float(Minus(high, low), buckets)
           h == BuildHistogram(data, buckets)
           top == buckets - 1
           bucket == [l \in DOMAIN data |-> Index(data[l], low, width, buckets)]
           q(v) == Quotient(v, low, width)
<1>1. /\ low \in Int /\ high \in Int /\ low <= high
      /\ \A l \in DOMAIN data : data[l] \in Int /\ low <= data[l] /\ data[l] <= high
  BY BetweenExtremes
<1>2. /\ h.low = low /\ h.high = high /\ h.width = width
      /\ h.counts = [b \in 0..top |-> Cardinality({l \in DOMAIN data : Index(data[l], low, width, buckets) = b})]
  BY DEF BuildHistogram
<1>3. width # 0 \/ low = high
  BY <1>2
<1>4. width = IF low = high THEN 0 ELSE Float(Minus(high, low), buckets)
  OBVIOUS
<1> HIDE DEF h, low, high, width
<1>5. \A b \in 0..top : h.counts[b] = Cardinality({l \in DOMAIN data : bucket[l] = b})
  <2> TAKE b \in 0..top
  <2>1. {l \in DOMAIN data : bucket[l] = b}
          = {l \in DOMAIN data : Index(data[l], low, width, buckets) = b}
    OBVIOUS
  <2> HIDE DEF bucket, top
  <2> QED
    BY <1>2, <2>1
<1>6. DOMAIN h.counts = 0..top /\ Cardinality(DOMAIN h.counts) = buckets /\ top \in Nat /\ top + 1 = buckets
      /\ buckets \in Nat \ {0}
  <2>1. top \in Nat /\ top + 1 = buckets /\ buckets \in Nat \ {0}
    OBVIOUS
  <2>2. DOMAIN h.counts = 0..top
    BY <1>2
  <2> HIDE DEF top
  <2>3. 0 \in Int /\ top \in Int /\ (IF 0 > top THEN 0 ELSE top - 0 + 1) = buckets
    BY <2>1
  <2>4. Cardinality(0..top) = buckets
    BY <2>3, FS_Interval
  <2> QED
    BY <2>1, <2>2, <2>4
<1>7. \A v : BucketFor(h, v) = IF width = 0 THEN (IF v = low THEN 0 ELSE -1)
                               ELSE IF q(v) \in 0..top THEN q(v)
                               ELSE IF v = high THEN top ELSE -1
  <2> HIDE DEF q
  <2>1. \A v : q(v) = Quotient(v, low, width)
    BY DEF q
  <2> HIDE DEF top
  <2>2. buckets - 1 = top
    BY DEF top
  <2> QED
    BY <1>2, <1>6, <2>1, <2>2 DEF BucketFor
<1>8. TopOf(h, buckets) = IF low = high THEN 0 ELSE top
  BY <1>2 DEF TopOf
<1>9. CASE width = 0
  <2>1. low = high /\ TopOf(h, buckets) = 0
    BY <1>3, <1>8, <1>9
  <2>2. \A l \in DOMAIN data : data[l] = low /\ bucket[l] = 0
    BY <1>1, <1>9, <2>1 DEF Index
  <2>3. \A v : BucketFor(h, v) = IF v = low THEN 0 ELSE -1
    BY <1>7, <1>9
  <2> HIDE DEF top
  <2>4. bucket \in [DOMAIN data -> 0..top]
    <3>1. 0 \in 0..top
      BY <1>6
    <3>2. bucket = [l \in DOMAIN data |-> bucket[l]]
      OBVIOUS
    <3> HIDE DEF bucket
    <3> QED
      BY <2>2, <3>1, <3>2
  <2>5. \A l \in DOMAIN data :
          bucket[l] = IF BucketFor(h, data[l]) = -1 THEN TopOf(h, buckets) ELSE BucketFor(h, data[l])
    <3> HIDE DEF bucket
    <3> QED
      BY <2>1, <2>2, <2>3
  <2>6. \A j, k \in DOMAIN data : data[j] <= data[k] => bucket[j] <= bucket[k]
    <3> HIDE DEF bucket
    <3> QED
      BY <2>2
  <2>7. /\ BucketFor(h, h.low) = 0 /\ BucketFor(h, h.high) = TopOf(h, buckets)
        /\ BucketFor(h, h.low - 1) \in {-1, 0} /\ BucketFor(h, h.high + 1) \in {-1, TopOf(h, buckets)}
    BY <1>1, <1>2, <2>1, <2>3
  <2>8. Places(h, data, buckets, bucket)
    <3>1. top = buckets - 1
      BY DEF top
    <3> HIDE DEF bucket
    <3> QED
      BY <1>5, <1>6, <2>4, <2>5, <2>6, <2>7, <3>1 DEF Places
  <2> QED
    BY <2>8 DEF h
<1>10. CASE width # 0
  <2>1. low # high /\ width = Float(Minus(high, low), buckets) /\ TopOf(h, buckets) = top
    BY <1>4, <1>8, <1>10
  <2>2. /\ \A v \in Int : q(v) \in Int
        /\ \A u, v \in Int : u <= v => q(u) <= q(v)
        /\ q(low) = 0 /\ q(high) >= buckets - 1
    BY <1>1, <1>10, <2>1, QuotientsRise
  <2>3. \A l \in DOMAIN data : bucket[l] = IF q(data[l]) < buckets THEN q(data[l]) ELSE top
    <3> TAKE l \in DOMAIN data
    <3>1. data[l] \in Int /\ low <= data[l]
      BY <1>1
    <3>2. q(data[l]) \in Int /\ 0 <= q(data[l])
      BY <1>1, <2>2, <3>1
    <3>3. bucket[l] = Index(data[l], low, width, buckets)
      OBVIOUS
    <3>4. Index(data[l], low, width, buckets)
            = IF q(data[l]) < 0 THEN 0 ELSE IF q(data[l]) < buckets THEN q(data[l]) ELSE buckets - 1
      BY <1>6, <1>10, <3>2, IndexKept
    <3> HIDE DEF bucket, q
    <3> QED
      BY <3>2, <3>3, <3>4
  <2>4. \A v \in Int : BucketFor(h, v) = IF q(v) \in 0..top THEN q(v)
                                         ELSE IF v = high THEN top ELSE -1
    BY <1>7, <1>10
  <2>5. \A l \in DOMAIN data : q(data[l]) \in Nat /\ data[l] \in Int
    BY <1>1, <2>2
  <2>6. bucket = [l \in DOMAIN data |-> bucket[l]] /\ top = buckets - 1
    OBVIOUS
  <2> HIDE DEF q, bucket, top
  <2>7. \A l \in DOMAIN data : bucket[l] \in 0..top
    BY <1>6, <2>3, <2>5
  <2>8. bucket \in [DOMAIN data -> 0..top]
    BY <2>6, <2>7
  <2>9. \A l \in DOMAIN data :
          bucket[l] = IF BucketFor(h, data[l]) = -1 THEN TopOf(h, buckets) ELSE BucketFor(h, data[l])
    <3> TAKE l \in DOMAIN data
    <3>1. CASE q(data[l]) < buckets
      <4>1. q(data[l]) \in 0..top
        BY <1>6, <2>5, <3>1
      <4>2. BucketFor(h, data[l]) = q(data[l]) /\ q(data[l]) # -1
        BY <2>4, <2>5, <4>1
      <4> QED
        BY <2>3, <3>1, <4>2
    <3>2. CASE ~ q(data[l]) < buckets
      <4>1. q(data[l]) \notin 0..top
        BY <1>6, <2>5, <3>2
      <4>2. BucketFor(h, data[l]) \in {top, -1}
        BY <2>4, <2>5, <4>1
      <4>3. bucket[l] = top
        BY <2>3, <3>2
      <4> QED
        BY <2>1, <4>2, <4>3
    <3> QED
      BY <3>1, <3>2
  <2>10. \A j, k \in DOMAIN data : data[j] <= data[k] => bucket[j] <= bucket[k]
    <3> SUFFICES ASSUME NEW j \in DOMAIN data, NEW k \in DOMAIN data, data[j] <= data[k]
                 PROVE  bucket[j] <= bucket[k]
      OBVIOUS
    <3>1. q(data[j]) <= q(data[k]) /\ q(data[j]) \in Nat /\ q(data[k]) \in Nat
      BY <2>2, <2>5
    <3>2. /\ bucket[j] = IF q(data[j]) < buckets THEN q(data[j]) ELSE top
          /\ bucket[k] = IF q(data[k]) < buckets THEN q(data[k]) ELSE top
      BY <2>3
    <3> QED
      BY <1>6, <3>1, <3>2
  <2>11. BucketFor(h, low) = 0
    <3>1. q(low) \in 0..top
      BY <1>6, <2>2
    <3> QED
      BY <1>1, <2>2, <2>4, <3>1
  <2>12. BucketFor(h, high) = top
    <3>1. q(high) \in Int /\ q(high) >= top
      BY <1>1, <1>6, <2>2
    <3>2. q(high) \in 0..top => q(high) = top
      BY <1>6, <3>1
    <3> QED
      BY <1>1, <2>4, <3>2
  <2>13. BucketFor(h, low - 1) \in {-1, 0}
    <3> DEFINE u == low - 1
    <3>1. u \in Int /\ u <= low /\ u # high
      BY <1>1
    <3> HIDE DEF u
    <3>2. q(u) \in Int /\ q(u) <= 0
      BY <1>1, <2>2, <3>1
    <3>3. q(u) \in 0..top => q(u) = 0
      BY <1>6, <3>2
    <3>4. BucketFor(h, u) \in {-1, 0}
      BY <2>4, <3>1, <3>3
    <3> QED
      BY <3>4 DEF u
  <2>14. BucketFor(h, high + 1) \in {-1, top}
    <3> DEFINE w == high + 1
    <3>1. w \in Int /\ high <= w /\ w # high
      BY <1>1
    <3> HIDE DEF w
    <3>2. q(w) \in Int /\ q(high) \in Int /\ q(high) <= q(w)
      BY <1>1, <2>2, <3>1
    <3>3. q(w) >= top
      BY <1>6, <2>2, <3>2
    <3>4. q(w) \in 0..top => q(w) = top
      BY <1>6, <3>2, <3>3
    <3>5. BucketFor(h, w) \in {-1, top}
      BY <2>4, <3>1, <3>4
    <3> QED
      BY <3>5 DEF w
  <2>15. Places(h, data, buckets, bucket)
    BY <1>2, <1>5, <1>6, <2>1, <2>6, <2>8, <2>9, <2>10, <2>11, <2>12, <2>13, <2>14 DEF Places
  <2> QED
    BY <2>15 DEF h
<1> QED
  BY <1>9, <1>10

\* The counts up to a bucket count the numbers up to it.
CountsOf(h, m, D, bucket) ==
    /\ DOMAIN h.counts = 0..m /\ bucket \in [D -> 0..m]
    /\ \A b \in 0..m : h.counts[b] = Cardinality({l \in D : bucket[l] = b})

LEMMA CumulativeCount ==
    ASSUME NEW h, NEW m \in Nat, NEW D, IsFiniteSet(D), NEW bucket, CountsOf(h, m, D, bucket)
    PROVE  CumulativeCounts(h)[m] = Cardinality(D)
<1> DEFINE cum[b \in DOMAIN h.counts] == h.counts[b] + (IF b = 0 THEN 0 ELSE cum[b - 1])
           Exactly(b) == {l \in D : bucket[l] = b}
           UpToThe(b) == {l \in D : bucket[l] <= b}
           f == [b \in 0..m |-> Cardinality(UpToThe(b))]
<1>0. /\ DOMAIN h.counts = 0..m /\ bucket \in [D -> 0..m]
      /\ \A b \in 0..m : h.counts[b] = Cardinality({l \in D : bucket[l] = b})
  BY DEF CountsOf
<1>1. \A l \in D : bucket[l] \in 0..m
  BY <1>0
<1>2. \A b \in Int : /\ IsFiniteSet(Exactly(b)) /\ IsFiniteSet(UpToThe(b))
                     /\ Cardinality(Exactly(b)) \in Nat /\ Cardinality(UpToThe(b)) \in Nat
  <2> TAKE b \in Int
  <2>1. Exactly(b) \in SUBSET D /\ UpToThe(b) \in SUBSET D
    OBVIOUS
  <2> HIDE DEF Exactly, UpToThe
  <2>2. IsFiniteSet(Exactly(b)) /\ IsFiniteSet(UpToThe(b))
    BY <2>1, FS_Subset
  <2> QED
    BY <2>2, FS_CardinalityType
<1>3. f[0] = h.counts[0]
  <2>1. UpToThe(0) = Exactly(0)
    BY <1>1
  <2>2. 0 \in 0..m
    OBVIOUS
  <2>3. h.counts[0] = Cardinality(Exactly(0))
    BY <1>0, <2>2
  <2> HIDE DEF UpToThe, Exactly
  <2> QED
    BY <2>1, <2>2, <2>3
<1>4. ASSUME NEW b \in 1..m
      PROVE  f[b] = h.counts[b] + f[b - 1]
  <2> DEFINE c == b - 1
  <2>1. b \in 0..m /\ c \in 0..m /\ b \in Int /\ c \in Int
    OBVIOUS
  <2>2. UpToThe(b) = Exactly(b) \cup UpToThe(c) /\ Exactly(b) \cap UpToThe(c) = {}
    BY <1>1
  <2>3. h.counts[b] = Cardinality(Exactly(b)) /\ f[b] = Cardinality(UpToThe(b)) /\ f[c] = Cardinality(UpToThe(c))
    BY <1>0, <2>1
  <2> HIDE DEF Exactly, UpToThe, f, c
  <2>4. Cardinality(Exactly(b) \cup UpToThe(c))
          = Cardinality(Exactly(b)) + Cardinality(UpToThe(c)) - Cardinality(Exactly(b) \cap UpToThe(c))
    BY <1>2, <2>1, FS_Union
  <2>5. Cardinality(Exactly(b) \cap UpToThe(c)) = 0
    BY <2>2, FS_EmptySet
  <2>6. Cardinality(Exactly(b)) \in Nat /\ Cardinality(UpToThe(c)) \in Nat
    BY <1>2, <2>1
  <2>7. f[b] = h.counts[b] + f[c]
    BY <2>2, <2>3, <2>4, <2>5, <2>6
  <2> QED
    BY <2>7 DEF c
<1>5. \A b \in 0..m : h.counts[b] \in Nat
  <2> TAKE b \in 0..m
  <2>1. h.counts[b] = Cardinality(Exactly(b)) /\ b \in Int
    BY <1>0
  <2> HIDE DEF Exactly
  <2> QED
    BY <1>2, <2>1
<1>6. f = [b \in DOMAIN h.counts |-> h.counts[b] + (IF b = 0 THEN 0 ELSE f[b - 1])]
  <2>1. \A b \in 0..m : b # 0 => b \in 1..m
    OBVIOUS
  <2>2. 0 \in 0..m
    OBVIOUS
  <2>3. f = [b \in 0..m |-> f[b]]
    OBVIOUS
  <2> HIDE DEF f
  <2>4. \A b \in 0..m : f[b] = h.counts[b] + (IF b = 0 THEN 0 ELSE f[b - 1])
    BY <1>3, <1>4, <1>5, <2>1, <2>2
  <2> QED
    BY <1>0, <2>3, <2>4
<1>7. cum = [b \in DOMAIN h.counts |-> h.counts[b] + (IF b = 0 THEN 0 ELSE cum[b - 1])]
  <2> HIDE DEF f
  <2> QED
    BY <1>6
<1> HIDE DEF cum
<1>8. \A b \in 0..m : cum[b] = f[b]
  <2> DEFINE S == {b \in 0..m : cum[b] = f[b]}
  <2> HIDE DEF f
  <2>1. 0 \in S
    <3>1. 0 \in 0..m /\ cum[0] = h.counts[0] + 0
      BY <1>0, <1>7
    <3> QED
      BY <1>3, <1>5, <3>1
  <2>2. ASSUME NEW b \in 1..m, b - 1 \in S PROVE b \in S
    <3>1. b \in 0..m /\ b # 0 /\ cum[b - 1] = f[b - 1]
      BY <2>2
    <3>2. cum[b] = h.counts[b] + cum[b - 1]
      BY <1>0, <1>7, <3>1
    <3> QED
      BY <1>4, <3>1, <3>2
  <2>3. 0..m \subseteq S
    <3> HIDE DEF S
    <3> QED
      BY <2>1, <2>2, UpTo
  <2> QED
    BY <2>3
<1>9. f[m] = Cardinality(D)
  <2>1. UpToThe(m) = D
    BY <1>1
  <2>2. m \in 0..m
    OBVIOUS
  <2> HIDE DEF UpToThe
  <2> QED
    BY <2>1, <2>2
<1>10. CumulativeCounts(h) = cum
  BY DEF CumulativeCounts, cum
<1>11. m \in 0..m
  OBVIOUS
<1> HIDE DEF f
<1> QED
  BY <1>8, <1>9, <1>10, <1>11

LEMMA HistogramIsExact ==
    ASSUME NEW data \in Seq(Int), data # << >>
    PROVE  HistogramExact(data)
<1> SUFFICES ASSUME NEW buckets \in 1..3,
                    BuildHistogram(data, buckets).width # 0
                      \/ BuildHistogram(data, buckets).low = BuildHistogram(data, buckets).high
             PROVE  LET h       == BuildHistogram(data, buckets)
                        top     == IF h.low = h.high THEN 0 ELSE buckets - 1
                        slot(v) == IF BucketFor(h, v) = -1 THEN top ELSE BucketFor(h, v)
                    IN  /\ \A b \in DOMAIN h.counts : h.counts[b] = Count(data, LAMBDA v : slot(v) = b)
                        /\ CumulativeCounts(h)[buckets - 1] = Len(data)
                        /\ \A j, k \in DOMAIN data : data[j] <= data[k] => slot(data[j]) <= slot(data[k])
                        /\ BucketFor(h, h.low) = 0 /\ BucketFor(h, h.high) = top
                        /\ BucketFor(h, h.low - 1) \in {-1, 0} /\ BucketFor(h, h.high + 1) \in {-1, top}
  BY Zenon DEF HistogramExact
<1> DEFINE h == BuildHistogram(data, buckets)
           m == buckets - 1
           top == IF h.low = h.high THEN 0 ELSE buckets - 1
           slot(v) == IF BucketFor(h, v) = -1 THEN top ELSE BucketFor(h, v)
<1>1. buckets \in Nat \ {0} /\ m \in Nat
  OBVIOUS
<1>2. PICK bucket : Places(h, data, buckets, bucket)
  BY HistogramPlaces
<1> HIDE DEF h
<1>3. \A l \in DOMAIN data : bucket[l] = slot(data[l])
  BY <1>2 DEF Places, TopOf
<1>4. \A b \in DOMAIN h.counts : h.counts[b] = Count(data, LAMBDA v : slot(v) = b)
  <2> TAKE b \in DOMAIN h.counts
  <2>1. h.counts[b] = Cardinality({l \in DOMAIN data : bucket[l] = b})
    BY <1>2 DEF Places
  <2> HIDE DEF slot
  <2>2. {l \in DOMAIN data : bucket[l] = b} = {l \in DOMAIN data : slot(data[l]) = b}
    BY <1>3
  <2>3. Count(data, LAMBDA v : slot(v) = b) = Cardinality({l \in DOMAIN data : slot(data[l]) = b})
    BY DEF Count
  <2> QED
    BY <2>1, <2>2, <2>3
<1>5. CumulativeCounts(h)[m] = Len(data)
  <2> DEFINE D == DOMAIN data
             n == Len(data)
  <2>1. n \in Nat /\ D = 1..n
    BY LenProperties
  <2>2. IsFiniteSet(D) /\ Cardinality(D) = n
    <3> HIDE DEF n
    <3> QED
      BY <2>1, UpToCount
  <2>3. /\ DOMAIN h.counts = 0..m /\ bucket \in [D -> 0..m]
        /\ \A b \in 0..m : h.counts[b] = Cardinality({l \in D : bucket[l] = b})
    BY <1>2 DEF Places
  <2>4. CountsOf(h, m, D, bucket)
    BY <2>3 DEF CountsOf
  <2> HIDE DEF D, m
  <2>5. CumulativeCounts(h)[m] = Cardinality(D)
    BY <1>1, <2>2, <2>4, CumulativeCount
  <2> QED
    BY <2>2, <2>5
<1>6. \A j, k \in DOMAIN data : data[j] <= data[k] => slot(data[j]) <= slot(data[k])
  <2>1. \A j, k \in DOMAIN data : data[j] <= data[k] => bucket[j] <= bucket[k]
    BY <1>2 DEF Places
  <2> HIDE DEF slot
  <2> QED
    BY <1>3, <2>1
<1>7. /\ BucketFor(h, h.low) = 0 /\ BucketFor(h, h.high) = top
      /\ BucketFor(h, h.low - 1) \in {-1, 0} /\ BucketFor(h, h.high + 1) \in {-1, top}
  BY <1>2 DEF Places, TopOf
<1> QED
  BY <1>4, <1>5, <1>6, <1>7, Zenon DEF h
-------------------------------------------------------------------------------
(* Outliers *)

\* No member of F lies between two other numbers of the list.
NoneBetween(data, F) ==
    \A j, k \in DOMAIN data \ F, o \in F : ~ (data[j] <= data[o] /\ data[o] <= data[k])

LEMMA SquareOrder ==
    ASSUME NEW a \in Int, NEW b \in Int, 0 <= a, a <= b
    PROVE  a * a <= b * b
<1>1. CASE a = 0
  <2>1. b * b >= 0
    <3>1. CASE b = 0
      BY <3>1
    <3>2. CASE b # 0
      <4>1. b \in Nat \ {0}
        BY <3>2
      <4>2. b * 0 <= b * b
        BY <4>1, ProductOrder
      <4> QED
        BY <4>2
    <3> QED
      BY <3>1, <3>2
  <2> QED
    BY <1>1, <2>1
<1>2. CASE a # 0
  <2>1. a \in Nat \ {0} /\ b \in Nat \ {0}
    BY <1>2
  <2>2. a * a <= a * b /\ b * a <= b * b
    BY <2>1, ProductOrder
  <2>3. a * b = b * a /\ a * a \in Int /\ a * b \in Int /\ b * b \in Int
    OBVIOUS
  <2> QED
    BY <2>2, <2>3
<1> QED
  BY <1>1, <1>2

\* Members that are large each make the sum large.
LEMMA LargeMembers ==
    ASSUME NEW sq \in Seq(Int), \A l \in 1..Len(sq) : sq[l] >= 0, NEW w \in Nat, NEW T \in Nat,
           NEW F \in SUBSET (1..Len(sq)), \A l \in F : w * sq[l] > T
    PROVE  IsFiniteSet(F) /\ Cardinality(F) * (T + 1) <= w * SumOf(sq) /\ SumOf(sq) \in Nat
<1> DEFINE n == Len(sq)
           Part(k) == {l \in F : l <= k}
           c(k) == Cardinality(Part(k))
           least == T + 1
<1>1. n \in Nat /\ \A l \in 1..n : sq[l] \in Nat
  BY LenProperties, ElementOfSeq
<1>0. \A l \in F : l \in Int /\ 1 <= l /\ l <= n
  <2>1. F \in SUBSET (1..n) /\ n \in Int
    BY <1>1
  <2> HIDE DEF n
  <2> QED
    BY <2>1
<1>2. PICK sum : Sums(sq, sum)
  BY SumSteps
<1>3. /\ sum \in [0..n -> Int] /\ sum[0] = 0 /\ SumOf(sq) = sum[n]
      /\ \A k \in 1..n : sum[k] = sum[k - 1] + sq[k]
  BY <1>2 DEF Sums
<1>4. IsFiniteSet(F) /\ \A k \in Int : IsFiniteSet(Part(k)) /\ c(k) \in Nat
  <2>1. IsFiniteSet(1..n)
    <3> HIDE DEF n
    <3> QED
      BY <1>1, UpToCount
  <2>2. IsFiniteSet(F)
    <3> DEFINE D == 1..n
    <3>1. F \in SUBSET D /\ IsFiniteSet(D)
      BY <2>1
    <3> HIDE DEF D
    <3> QED
      BY <3>1, FS_Subset
  <2>3. \A k \in Int : IsFiniteSet(Part(k)) /\ c(k) \in Nat
    <3> TAKE k \in Int
    <3>1. Part(k) \in SUBSET F
      OBVIOUS
    <3> HIDE DEF Part
    <3> QED
      BY <2>2, <3>1, FS_Subset, FS_CardinalityType
  <2> QED
    BY <2>2, <2>3
<1> HIDE DEF n, least
<1> DEFINE S == {k \in 0..n : sum[k] \in Nat /\ c(k) * least <= w * sum[k]}
<1>5. least \in Nat
  BY DEF least
<1>6. 0 \in S
  <2>1. Part(0) = {}
    <3>1. \A l \in F : ~ (l <= 0)
      BY <1>0
    <3> QED
      BY <3>1
  <2>2. c(0) = 0
    <3> HIDE DEF Part
    <3> QED
      BY <2>1, FS_EmptySet
  <2> HIDE DEF c
  <2> QED
    BY <1>1, <1>3, <1>5, <2>2
<1>7. ASSUME NEW k \in 1..n, k - 1 \in S
      PROVE  k \in S
  <2> DEFINE p == k - 1
             a == sum[p]
             b == sq[k]
             x == c(p)
             y == c(k)
  <2>1. /\ k \in Int /\ p \in Int /\ k \in 0..n /\ a \in Nat /\ b \in Nat /\ sum[k] = a + b
        /\ x * least <= w * a /\ x \in Nat
    <3>1. k \in Int /\ p \in Int /\ k \in 0..n
      BY <1>1
    <3> HIDE DEF c
    <3>2. x \in Nat
      BY <1>4, <3>1 DEF c
    <3>3. a \in Nat /\ x * least <= w * a
      BY <1>7
    <3> QED
      BY <1>1, <1>3, <3>1, <3>2, <3>3
  <2>2. w * a \in Nat /\ w * b \in Nat /\ w * (a + b) = w * a + w * b
    <3> HIDE DEF a, b
    <3>1. w * a \in Int /\ w * b \in Int /\ w * (a + b) = w * a + w * b
      BY <2>1
    <3>2. w * a >= 0 /\ w * b >= 0
      BY <2>1, SMT
    <3> QED
      BY <3>1, <3>2
  <2>3. CASE k \in F
    <3>1. Part(k) = Part(p) \cup {k} /\ k \notin Part(p)
      <4>1. \A l \in F : l \in Int /\ (l <= k <=> l <= p \/ l = k)
        BY <1>0, <2>1
      <4>2. ~ k <= p
        BY <2>1
      <4> HIDE DEF p
      <4> QED
        BY <2>1, <2>3, <4>1, <4>2
    <3>2. y = x + 1
      <4> HIDE DEF Part, p
      <4> QED
        BY <1>4, <2>1, <3>1, FS_AddElement
    <3>3. w * b >= least
      <4>1. w * b > T
        BY <2>3
      <4> HIDE DEF b
      <4> QED
        BY <2>2, <4>1 DEF least
    <3> HIDE DEF a, b, x, y, p, c
    <3>4. (x + 1) * least = x * least + least /\ x * least \in Int
      BY <1>5, <2>1
    <3>5. y * least <= w * (a + b)
      BY <1>5, <2>1, <2>2, <3>2, <3>3, <3>4
    <3>6. sum[k] \in Nat /\ y * least <= w * sum[k]
      BY <2>1, <3>5
    <3> QED
      BY <2>1, <3>6 DEF y
  <2>4. CASE k \notin F
    <3>1. Part(k) = Part(p)
      <4>1. \A l \in F : l \in Int /\ (l <= k <=> l <= p)
        BY <1>0, <2>1, <2>4
      <4> QED
        BY <4>1
    <3>2. y = x
      BY <3>1
    <3> HIDE DEF a, b, x, y, p, c
    <3>3. x * least \in Int
      BY <1>5, <2>1
    <3>4. y * least <= w * (a + b)
      <4> DEFINE z == x * least
                 v == w * a
                 u == w * b
      <4>1. z \in Int /\ v \in Nat /\ u \in Nat /\ z <= v /\ w * (a + b) = v + u
        BY <2>1, <2>2, <3>3
      <4> HIDE DEF z, v, u
      <4>2. z <= w * (a + b)
        BY <4>1
      <4>3. x * least <= w * (a + b)
        BY <4>2 DEF z
      <4> QED
        BY <3>2, <4>3
    <3>5. sum[k] \in Nat /\ y * least <= w * sum[k]
      BY <2>1, <3>4
    <3> QED
      BY <2>1, <3>5 DEF y
  <2> QED
    BY <2>3, <2>4
<1>8. n \in S
  <2> HIDE DEF S
  <2>1. 0..n \subseteq S
    BY <1>1, <1>6, <1>7, UpTo
  <2> QED
    BY <1>1, <2>1
<1>9. Part(n) = F
  BY <1>0
<1>10. sum[n] \in Nat /\ Cardinality(F) * least <= w * sum[n]
  <2>1. sum[n] \in Nat /\ c(n) * least <= w * sum[n]
    BY <1>8
  <2> HIDE DEF Part
  <2> QED
    BY <1>9, <2>1
<1> QED
  BY <1>3, <1>4, <1>10 DEF least

\* The numbers that detectZScore finds, by their squared deviations.
LEMMA ZScoreFinds ==
    ASSUME NEW data \in Seq(Int), data # << >>, NEW t \in Nat \ {0}
    PROVE  /\ NoneBetween(data, DetectZScore(data, t))
           /\ DetectZScore(data, t) = {} \/ Cardinality(DetectZScore(data, t)) * t * t < Len(data)
<1> DEFINE n == Len(data)
           total == SumOf(data)
           dev == [l \in DOMAIN data |-> n * data[l] - total]
           sq == [l \in DOMAIN data |-> dev[l] * dev[l]]
           squares == SumOf(sq)
           T == t * t * squares
           F == DetectZScore(data, t)
<1>1. n \in Nat \ {0} /\ DOMAIN data = 1..n /\ \A l \in 1..n : data[l] \in Int
  BY LenProperties, ElementOfSeq, EmptySeq
<1>2. total \in Int
  BY SumTyped
<1>3. F = {l \in DOMAIN data : squares # 0 /\ n * dev[l] * dev[l] > t * t * squares}
  <2>1. sq = [l \in DOMAIN data |-> (n * data[l] - total) * (n * data[l] - total)]
    BY DEF sq
  <2> HIDE DEF sq
  <2>2. F = {l \in DOMAIN data : /\ squares # 0
                                 /\ n * (n * data[l] - total) * (n * data[l] - total) > t * t * squares}
    BY <2>1 DEF DetectZScore, Outside
  <2> HIDE DEF squares, F, n, total
  <2> QED
    BY <2>2
<1> HIDE DEF total, F
<1>4. \A l \in 1..n : dev[l] \in Int /\ dev[l] = n * data[l] - total
  BY <1>1, <1>2
<1> HIDE DEF n, dev
<1>5. ASSUME NEW l \in 1..n
      PROVE  sq[l] = dev[l] * dev[l] /\ sq[l] \in Int /\ sq[l] >= 0
  <2>1. dev[l] \in Int /\ sq[l] = dev[l] * dev[l]
    BY <1>1, <1>4
  <2> DEFINE d == dev[l]
  <2> HIDE DEF d
  <2>2. d \in Int
    BY <2>1 DEF d
  <2>3. d * d \in Int /\ d * d >= 0
    BY <2>2, SMT
  <2> HIDE DEF sq
  <2> QED
    BY <2>1, <2>3 DEF d
<1>6. sq \in Seq(Int) /\ Len(sq) = n
  <2>1. sq = [l \in 1..n |-> sq[l]]
    BY <1>1
  <2> HIDE DEF sq
  <2>2. sq \in [1..n -> Int]
    BY <1>5, <2>1
  <2> QED
    BY <1>1, <2>2, FunctionIsList, SeqDef
<1> HIDE DEF sq
<1>7. squares \in Nat
  <2>1. {} \in SUBSET (1..Len(sq))
    OBVIOUS
  <2>2. \A l \in 1..Len(sq) : sq[l] >= 0
    BY <1>5, <1>6
  <2> DEFINE F0 == {}
             w == 0
  <2>3. F0 \in SUBSET (1..Len(sq)) /\ w \in Nat /\ \A l \in F0 : w * sq[l] > w
    OBVIOUS
  <2> HIDE DEF F0, w
  <2>4. SumOf(sq) \in Nat
    BY <1>6, <2>2, <2>3, LargeMembers
  <2> QED
    BY <2>4
<1> HIDE DEF squares
<1>8. T \in Nat /\ T = squares * (t * t) /\ t * t \in Nat \ {0}
  <2>1. t * t \in Nat \ {0}
    BY SMT
  <2> DEFINE u == t * t
  <2> HIDE DEF u
  <2>2. u \in Nat \ {0}
    BY <2>1 DEF u
  <2>3. u * squares \in Nat /\ u * squares = squares * u
    BY <1>7, <2>2, SMT
  <2> QED
    BY <2>1, <2>3 DEF u
<1> HIDE DEF T
<1>9. F = {l \in 1..n : squares # 0 /\ n * sq[l] > T}
  <2>1. \A l \in 1..n : n * dev[l] * dev[l] = n * sq[l]
    <3> TAKE l \in 1..n
    <3> DEFINE d == dev[l]
    <3>1. d \in Int /\ n \in Int /\ sq[l] = d * d
      BY <1>1, <1>4, <1>5
    <3> HIDE DEF d
    <3>2. n * d * d = n * (d * d)
      BY <3>1
    <3> QED
      BY <3>1, <3>2 DEF d
  <2> QED
    BY <1>1, <1>3, <2>1 DEF T
<1>10. NoneBetween(data, F)
  <2> SUFFICES ASSUME NEW j \in DOMAIN data \ F, NEW k \in DOMAIN data \ F, NEW o \in F,
                      data[j] <= data[o], data[o] <= data[k]
               PROVE  FALSE
    BY DEF NoneBetween
  <2>1. /\ j \in 1..n /\ k \in 1..n /\ o \in 1..n /\ squares # 0
        /\ n * sq[o] > T /\ ~ n * sq[j] > T /\ ~ n * sq[k] > T
    BY <1>1, <1>9
  <2> DEFINE a == dev[j]
             b == dev[o]
             c == dev[k]
  <2>2. a \in Int /\ b \in Int /\ c \in Int /\ a <= b /\ b <= c
    <3>1. /\ data[j] \in Int /\ data[o] \in Int /\ data[k] \in Int
          /\ a = n * data[j] - total /\ b = n * data[o] - total /\ c = n * data[k] - total
      BY <1>1, <1>4, <2>1
    <3>2. n * data[j] <= n * data[o] /\ n * data[o] <= n * data[k]
      BY <1>1, <3>1, ProductOrder
    <3>3. n * data[j] \in Int /\ n * data[o] \in Int /\ n * data[k] \in Int
      BY <1>1, <3>1
    <3> DEFINE x == n * data[j]
               y == n * data[o]
               z == n * data[k]
    <3>4. a = x - total /\ b = y - total /\ c = z - total
      BY <3>1
    <3>5. x \in Int /\ y \in Int /\ z \in Int /\ x <= y /\ y <= z
      BY <3>2, <3>3
    <3> HIDE DEF a, b, c, x, y, z
    <3> QED
      BY <1>2, <3>4, <3>5
  <2>3. sq[j] = a * a /\ sq[o] = b * b /\ sq[k] = c * c /\ sq[j] \in Int /\ sq[o] \in Int /\ sq[k] \in Int
    BY <1>5, <2>1
  <2> HIDE DEF a, b, c
  <2>4. b * b <= a * a \/ b * b <= c * c
    <3>1. CASE b >= 0
      BY <2>2, <3>1, SquareOrder
    <3>2. CASE b < 0
      <4> DEFINE p == - b
                 q == - a
      <4>1. p \in Int /\ q \in Int /\ 0 <= p /\ p <= q
        BY <2>2, <3>2
      <4>2. p * p = b * b /\ q * q = a * a
        BY <2>2
      <4> HIDE DEF p, q
      <4> QED
        BY <4>1, <4>2, SquareOrder
    <3> QED
      BY <2>2, <3>1, <3>2
  <2>5. ASSUME NEW x \in Int, NEW y \in Int, x <= y, n * x > T
        PROVE  n * y > T
    <3>1. n * x <= n * y
      BY <1>1, <2>5, ProductOrder
    <3>2. n * x \in Int /\ n * y \in Int
      BY <1>1
    <3> QED
      BY <1>8, <2>5, <3>1, <3>2
  <2> QED
    BY <2>1, <2>3, <2>4, <2>5
<1>11. ASSUME F # {} PROVE Cardinality(F) * t * t < n
  <2> DEFINE c == Cardinality(F)
  <2>1. /\ F \in SUBSET (1..Len(sq)) /\ \A l \in F : n * sq[l] > T
        /\ \A l \in 1..Len(sq) : sq[l] >= 0
    BY <1>5, <1>6, <1>9
  <2>2. IsFiniteSet(F) /\ c * (T + 1) <= n * squares
    BY <1>1, <1>6, <1>8, <2>1, LargeMembers DEF squares
  <2>3. c \in Nat \ {0}
    BY <1>11, <2>2, FS_CardinalityType, FS_EmptySet
  <2>4. squares \in Nat \ {0}
    BY <1>7, <1>9, <1>11
  <2> HIDE DEF c
  <2> DEFINE u == t * t
  <2>5. u \in Nat \ {0} /\ T = squares * u
    BY <1>8
  <2>6. c * t * t = c * u
    BY <2>3
  <2> HIDE DEF u
  <2>7. c * u \in Int /\ c * (T + 1) = squares * (c * u) + c /\ n * squares = squares * n
        /\ squares * (c * u) \in Int /\ squares * n \in Int
    <3>1. c * u \in Int /\ c * (squares * u + 1) = squares * (c * u) + c
      BY <2>3, <2>4, <2>5
    <3> QED
      BY <1>1, <2>4, <2>5, <3>1
  <2>8. squares * (c * u) < squares * n
    BY <2>2, <2>3, <2>7
  <2>9. c * u < n
    BY <1>1, <2>4, <2>7, <2>8, ProductOrder
  <2> QED
    BY <2>6, <2>9 DEF c
<1> QED
  BY <1>10, <1>11 DEF F, n

LEMMA SortedMember ==
    ASSUME NEW nums \in Seq(Int), NEW k \in 1..Len(nums)
    PROVE  \E l \in DOMAIN nums : Sorted(nums)[k] = nums[l]
<1>1. PICK from : Sorts(nums, Sorted(nums), from)
  BY SortedSorts
<1>2. from \in [1..Len(nums) -> 1..Len(nums)]
  BY <1>1, Fun_BijectionProperties DEF Sorts
<1>3. DOMAIN nums = 1..Len(nums)
  BY LenProperties
<1> QED
  BY <1>1, <1>2, <1>3 DEF Sorts

LEMMA TwiceMedianIs ==
    ASSUME NEW nums \in Seq(Int), nums # << >>
    PROVE  \E lo \in 1..Len(nums), hi \in 1..Len(nums) :
             /\ lo = (Len(nums) + 1) \div 2
             /\ Sorted(nums)[lo] \in Int /\ Sorted(nums)[hi] \in Int /\ Sorted(nums)[lo] <= Sorted(nums)[hi]
             /\ TwiceMedian(nums) = Sorted(nums)[lo] + Sorted(nums)[hi]
<1> DEFINE n == Len(nums)
           s == Sorted(nums)
           lo == (n + 1) \div 2
           hi == n \div 2 + 1
           a == s[lo]
           b == s[hi]
<1>1. Ascending(s, n)
  BY SortedAscending
<1>2. /\ lo \in 1..n /\ hi \in 1..n /\ a \in Int /\ b \in Int /\ a <= b
      /\ Percentile(s, 50) = 50 * (a + b)
  <2> HIDE DEF n, s
  <2> QED
    BY <1>1, MedianSum
<1>3. TwiceMedian(nums) = (50 * (a + b)) \div 50
  <2> HIDE DEF a, b
  <2> QED
    BY <1>2 DEF TwiceMedian
<1>4. TwiceMedian(nums) = a + b
  <2> HIDE DEF a, b
  <2> QED
    BY <1>2, <1>3
<1> HIDE DEF lo, hi, n
<1>5. lo \in 1..n /\ hi \in 1..n /\ lo = (n + 1) \div 2
  BY <1>2 DEF lo
<1> QED
  BY <1>2, <1>4, <1>5 DEF n

\* The numbers that detectModifiedZScore finds are further from the median than
\* half of the numbers.
LEMMA ModifiedFinds ==
    ASSUME NEW data \in Seq(Int), data # << >>, NEW t \in Nat \ {0}
    PROVE  /\ NoneBetween(data, DetectModifiedZScore(data, t))
           /\ 2 * Cardinality(DetectModifiedZScore(data, t)) <= Len(data)
<1> DEFINE n == Len(data)
           m == TwiceMedian(data)
           devs == [l \in DOMAIN data |-> AbsOf(2 * data[l] - m)]
           mad == TwiceMedian(devs)
           F == DetectModifiedZScore(data, t)
           far == t * 10000 * mad
<1>1. n \in Nat \ {0} /\ DOMAIN data = 1..n /\ \A l \in 1..n : data[l] \in Int
  BY LenProperties, ElementOfSeq, EmptySeq
<1>2. m \in Int
  <2>1. PICK lo \in 1..n, hi \in 1..n :
          /\ Sorted(data)[lo] \in Int /\ Sorted(data)[hi] \in Int
          /\ TwiceMedian(data) = Sorted(data)[lo] + Sorted(data)[hi]
    BY TwiceMedianIs
  <2> QED
    BY <2>1
<1>3. F = {l \in DOMAIN data : mad # 0 /\ 2 * 6745 * devs[l] > far}
  <2>1. devs = [l \in DOMAIN data |-> AbsOf(2 * data[l] - m)]
    OBVIOUS
  <2> HIDE DEF devs
  <2>2. F = {l \in DOMAIN data : mad # 0 /\ 2 * 6745 * AbsOf(2 * data[l] - m) > far}
    BY <2>1 DEF DetectModifiedZScore, Outside
  <2> HIDE DEF F, mad, far, m
  <2> QED
    BY <2>1, <2>2
<1> HIDE DEF m, F
<1>4. \A l \in 1..n : devs[l] = AbsOf(2 * data[l] - m) /\ devs[l] \in Nat
  <2> TAKE l \in 1..n
  <2>1. devs[l] = AbsOf(2 * data[l] - m) /\ data[l] \in Int
    BY <1>1
  <2> HIDE DEF devs
  <2> QED
    BY <1>2, <2>1 DEF AbsOf
<1>5. devs \in Seq(Int) /\ Len(devs) = n /\ devs # << >> /\ DOMAIN devs = 1..n
  <2>1. devs = [l \in 1..n |-> devs[l]]
    BY <1>1
  <2> HIDE DEF devs, n
  <2>2. devs \in [1..n -> Int]
    BY <1>4, <2>1
  <2>3. devs \in Seq(Int) /\ Len(devs) = n
    BY <1>1, <2>2, FunctionIsList, SeqDef
  <2> QED
    BY <1>1, <2>1, <2>3, EmptySeq
<1> HIDE DEF devs
<1> DEFINE s == Sorted(devs)
<1>6. PICK lo \in 1..n, hi \in 1..n :
        /\ lo = (n + 1) \div 2 /\ s[lo] \in Int /\ s[hi] \in Int /\ s[lo] <= s[hi]
        /\ mad = s[lo] + s[hi]
  BY <1>5, TwiceMedianIs
<1>7. s[lo] >= 0
  <2>1. PICK l \in DOMAIN devs : s[lo] = devs[l]
    BY <1>5, SortedMember
  <2> QED
    BY <1>4, <1>5, <2>1
<1> DEFINE p == s[lo]
           q == s[hi]
<1>8. p \in Nat /\ q \in Nat /\ p <= q /\ mad = p + q
  <2> HIDE DEF mad, s
  <2> QED
    BY <1>6, <1>7
<1> HIDE DEF mad, p, q
<1>9. far \in Nat /\ far >= 20000 * p
  <2> DEFINE w == 10000 * mad
  <2>1. w \in Nat /\ w >= 20000 * p /\ far = w * t
    BY <1>8
  <2> HIDE DEF w
  <2>2. w * t \in Int /\ w * 1 = w
    BY <2>1
  <2>3. w * 1 <= w * t
    <3>1. CASE w = 0
      BY <3>1
    <3>2. CASE w # 0
      BY <2>1, <3>2, ProductOrder
    <3> QED
      BY <3>1, <3>2
  <2> HIDE DEF far
  <2> QED
    BY <1>8, <2>1, <2>2, <2>3
<1> HIDE DEF far
<1>10. NoneBetween(data, F)
  <2> SUFFICES ASSUME NEW j \in DOMAIN data \ F, NEW k \in DOMAIN data \ F, NEW o \in F,
                      data[j] <= data[o], data[o] <= data[k]
               PROVE  FALSE
    BY DEF NoneBetween
  <2>1. /\ j \in 1..n /\ k \in 1..n /\ o \in 1..n
        /\ 13490 * devs[o] > far /\ ~ 13490 * devs[j] > far /\ ~ 13490 * devs[k] > far
    BY <1>1, <1>3
  <2> DEFINE a == data[j]
             b == data[o]
             c == data[k]
  <2>2. a \in Int /\ b \in Int /\ c \in Int /\ a <= b /\ b <= c
    BY <1>1, <2>1
  <2>3. devs[j] = AbsOf(2 * a - m) /\ devs[o] = AbsOf(2 * b - m) /\ devs[k] = AbsOf(2 * c - m)
    <3>1. j \in 1..n /\ k \in 1..n /\ o \in 1..n
      BY <2>1
    <3>2. \A l \in 1..n : devs[l] = AbsOf(2 * data[l] - m)
      BY <1>4
    <3> HIDE DEF n
    <3> QED
      BY <3>1, <3>2
  <2>5. devs[j] \in Nat /\ devs[o] \in Nat /\ devs[k] \in Nat
    <3>1. j \in 1..n /\ k \in 1..n /\ o \in 1..n
      BY <2>1
    <3>2. \A l \in 1..n : devs[l] \in Nat
      BY <1>4
    <3> HIDE DEF n
    <3> QED
      BY <3>1, <3>2
  <2> HIDE DEF a, b, c
  <2>4. devs[o] <= devs[j] \/ devs[o] <= devs[k]
    BY <1>2, <2>2, <2>3 DEF AbsOf
  <2> DEFINE x == devs[j]
             y == devs[o]
             z == devs[k]
  <2>6. /\ 13490 * y > far /\ ~ 13490 * x > far /\ ~ 13490 * z > far /\ (y <= x \/ y <= z)
        /\ x \in Nat /\ y \in Nat /\ z \in Nat
    BY <2>1, <2>4, <2>5
  <2> HIDE DEF x, y, z
  <2> QED
    BY <1>9, <2>6
<1>11. 2 * Cardinality(F) <= n
  <2> DEFINE V == {x \in Int : x > p}
             A == {l \in DOMAIN devs : devs[l] \in V}
  <2>1. V \in SUBSET Int /\ \A x \in V, y \in Int : y >= x => y \in V
    BY <1>8
  <2>2. p \notin V
    BY <1>8
  <2>3. F \in SUBSET A
    <3>1. ASSUME NEW l \in F PROVE l \in 1..n /\ devs[l] \in V
      <4>1. l \in 1..n /\ 13490 * devs[l] > far
        BY <1>1, <1>3
      <4>2. devs[l] \in Nat
        BY <1>4, <4>1
      <4>3. devs[l] > p
        BY <1>8, <1>9, <4>1, <4>2
      <4> QED
        BY <4>1, <4>2, <4>3
    <3> QED
      BY <1>5, <3>1
  <2> HIDE DEF V
  <2>4. /\ Cardinality(A) \in 0..n
        /\ \A k \in 1..n : s[k] \in V <=> k > n - Cardinality(A)
    BY <1>5, <2>1, RanksAbove
  <2>5. Cardinality(F) \in Nat /\ Cardinality(F) <= Cardinality(A)
    <3> DEFINE D == 1..n
    <3>1. A \in SUBSET D
      BY <1>5
    <3>2. IsFiniteSet(D)
      <4> HIDE DEF n
      <4> QED
        BY <1>1, UpToCount
    <3> HIDE DEF A, D
    <3>3. IsFiniteSet(A)
      BY <3>1, <3>2, FS_Subset
    <3> QED
      BY <2>3, <3>3, FS_Subset, FS_CardinalityType
  <2>6. ~ lo > n - Cardinality(A)
    BY <1>6, <2>2, <2>4 DEF p
  <2> HIDE DEF A, n, s
  <2>7. lo \in Int /\ Cardinality(A) \in Int /\ n \in Nat /\ lo = (n + 1) \div 2
    BY <1>1, <1>6, <2>4
  <2> QED
    BY <2>5, <2>6, <2>7
<1> QED
  BY <1>10, <1>11 DEF F, n

\* The quartiles of 4a + b + 1 numbers in ascending order.
LEMMA Quartiles ==
    ASSUME NEW s, NEW a \in Nat, NEW b \in 0..3, Ascending(s, 4 * a + b + 1)
    PROVE  /\ b = 0 => Percentile(s, 25) = 100 * s[a + 1] /\ Percentile(s, 75) = 100 * s[3 * a + 1]
           /\ b # 0 => /\ Percentile(s, 25) = Interpolated(s[a + 1], s[a + 2], 25 * b)
                       /\ Percentile(s, 75) = Interpolated(s[3 * a + b], s[3 * a + b + 1], 100 - 25 * b)
<1> DEFINE m == 4 * a + b
           x == 25 * m
           y == 75 * m
<1>1. Percentile(s, 25) = At(s, x) /\ Percentile(s, 75) = At(s, y)
  <2>1. Len(s) - 1 = m
    <3>1. Len(s) = 4 * a + b + 1
      BY DEF Ascending
    <3> QED
      BY <3>1
  <2> HIDE DEF m
  <2> QED
    BY <2>1, PercentileAt
<1>2. /\ x % 100 = 25 * b /\ x \div 100 + 1 = a + 1 /\ x \div 100 + 2 = a + 2
      /\ b = 0 => y % 100 = 0 /\ y \div 100 + 1 = 3 * a + 1
      /\ b # 0 => /\ y % 100 = 100 - 25 * b /\ y \div 100 + 1 = 3 * a + b
                  /\ y \div 100 + 2 = 3 * a + b + 1
  <2>1. x = 100 * a + 25 * b /\ y = 100 * (3 * a) + 75 * b
    OBVIOUS
  <2>2. b \in {0, 1, 2, 3}
    OBVIOUS
  <2> HIDE DEF x, y
  <2>3. CASE b = 0
    BY <2>1, <2>3
  <2>4. CASE b = 1
    BY <2>1, <2>4
  <2>5. CASE b = 2
    BY <2>1, <2>5
  <2>6. CASE b = 3
    BY <2>1, <2>6
  <2> QED
    BY <2>2, <2>3, <2>4, <2>5, <2>6
<1> HIDE DEF x, y
<1>3. At(s, x) = IF b = 0 THEN 100 * s[a + 1] ELSE Interpolated(s[a + 1], s[a + 2], 25 * b)
  BY <1>2 DEF At
<1>4. At(s, y) = IF b = 0 THEN 100 * s[3 * a + 1]
                 ELSE Interpolated(s[3 * a + b], s[3 * a + b + 1], 100 - 25 * b)
  BY <1>2 DEF At
<1> QED
  BY <1>1, <1>3, <1>4

\* The first cl and the last cu of the numbers are far below the first quartile and
\* far above the third.
Tails(s, n, q1, q3, cl, cu) ==
    /\ q1 \in Int /\ q3 \in Int /\ q1 = Percentile(s, 25) /\ q3 = Percentile(s, 75) /\ q1 <= q3
    /\ cl \in 0..n /\ cu \in 0..n
    /\ \A k \in 1..n : 200 * s[k] < 2 * q1 - 3 * (q3 - q1) <=> k <= cl
    /\ \A k \in 1..n : 200 * s[k] > 2 * q3 + 3 * (q3 - q1) <=> k > n - cu

\* No more than half of the numbers are that far away: the numbers that a quartile
\* lies between are not, except for the outer one on one side.
LEMMA TailsCounted ==
    ASSUME NEW n, NEW s, Ascending(s, n), NEW q1, NEW q3, NEW cl, NEW cu, Tails(s, n, q1, q3, cl, cu)
    PROVE  2 * (cl + cu) <= n
<1>0. /\ q1 \in Int /\ q3 \in Int /\ q1 = Percentile(s, 25) /\ q3 = Percentile(s, 75) /\ q1 <= q3
      /\ cl \in 0..n /\ cu \in 0..n
      /\ \A k \in 1..n : 200 * s[k] < 2 * q1 - 3 * (q3 - q1) <=> k <= cl
      /\ \A k \in 1..n : 200 * s[k] > 2 * q3 + 3 * (q3 - q1) <=> k > n - cu
  BY DEF Tails
<1>1. /\ n \in Nat \ {0} /\ (\A k \in 1..n : s[k] \in Int)
      /\ \A k, l \in 1..n : k <= l => s[k] <= s[l]
  BY DEF Ascending
<1> DEFINE a == (n - 1) \div 4
           b == (n - 1) % 4
<1>2. a \in Nat /\ b \in {0, 1, 2, 3} /\ n = 4 * a + b + 1
  BY <1>1
<1> HIDE DEF a, b
<1>3. /\ b = 0 => q1 = 100 * s[a + 1] /\ q3 = 100 * s[3 * a + 1]
      /\ b # 0 => /\ q1 = Interpolated(s[a + 1], s[a + 2], 25 * b)
                  /\ q3 = Interpolated(s[3 * a + b], s[3 * a + b + 1], 100 - 25 * b)
  BY <1>0, <1>2, Quartiles
<1>4. CASE b = 0
  <2> DEFINE A == s[a + 1]
             D == s[3 * a + 1]
  <2>1. a + 1 \in 1..n /\ 3 * a + 1 \in 1..n
    BY <1>2, <1>4
  <2>2. A \in Int /\ D \in Int /\ q1 = 100 * A /\ q3 = 100 * D
    BY <1>1, <1>3, <1>4, <2>1
  <2>3. /\ 200 * A < 2 * q1 - 3 * (q3 - q1) <=> a + 1 <= cl
        /\ 200 * D > 2 * q3 + 3 * (q3 - q1) <=> 3 * a + 1 > n - cu
    BY <1>0, <2>1
  <2> HIDE DEF A, D
  <2>4. ~ a + 1 <= cl /\ ~ 3 * a + 1 > n - cu
    BY <1>0, <2>2, <2>3
  <2> QED
    BY <1>0, <1>2, <1>4, <2>4
<1>5. CASE b # 0
  <2> DEFINE A == s[a + 1]
             B == s[a + 2]
             C == s[3 * a + b]
             D == s[3 * a + b + 1]
             below(v) == 200 * v < 2 * q1 - 3 * (q3 - q1)
             above(v) == 200 * v > 2 * q3 + 3 * (q3 - q1)
  <2>1. a + 1 \in 1..n /\ a + 2 \in 1..n /\ 3 * a + b \in 1..n /\ 3 * a + b + 1 \in 1..n
    BY <1>2, <1>5
  <2>2. /\ A \in Int /\ B \in Int /\ C \in Int /\ D \in Int /\ A <= B /\ C <= D
        /\ (2 * a + b >= 2 => B <= C) /\ (2 * a + b < 2 => A = C /\ B = D /\ n = 2)
    <3>1. A \in Int /\ B \in Int /\ C \in Int /\ D \in Int
      BY <1>1, <2>1
    <3>2. A <= B
      <4>1. a + 1 <= a + 2
        BY <1>2
      <4> QED
        BY <1>1, <2>1, <4>1
    <3>3. C <= D
      <4>1. 3 * a + b <= 3 * a + b + 1
        BY <1>2
      <4> QED
        BY <1>1, <2>1, <4>1
    <3>4. ASSUME 2 * a + b >= 2 PROVE B <= C
      <4>1. a + 2 <= 3 * a + b
        BY <1>2, <3>4
      <4> QED
        BY <1>1, <2>1, <4>1
    <3>5. ASSUME 2 * a + b < 2 PROVE A = C /\ B = D /\ n = 2
      <4>1. a + 1 = 3 * a + b /\ a + 2 = 3 * a + b + 1 /\ n = 2
        BY <1>2, <1>5, <3>5
      <4> QED
        BY <4>1
    <3> QED
      BY <3>1, <3>2, <3>3, <3>4, <3>5
  <2>3. q1 = Interpolated(A, B, 25 * b) /\ q3 = Interpolated(C, D, 100 - 25 * b)
    BY <1>3, <1>5
  <2>4. /\ (below(A) <=> a + 1 <= cl) /\ (below(B) <=> a + 2 <= cl)
        /\ (above(D) <=> 3 * a + b + 1 > n - cu) /\ (above(C) <=> 3 * a + b > n - cu)
    BY <1>0, <2>1
  <2> HIDE DEF A, B, C, D
  <2>5. ~ below(B) /\ ~ above(C) /\ ~ (below(A) /\ above(D))
    <3>1. CASE b = 1
      <4>1. q1 = 75 * A + 25 * B /\ q3 = 25 * C + 75 * D
        BY <2>2, <2>3, <3>1 DEF Interpolated
      <4>2. B <= C \/ (A = C /\ B = D)
        BY <1>2, <2>2
      <4> QED
        BY <1>0, <2>2, <4>1, <4>2
    <3>2. CASE b = 2
      <4>1. q1 = 50 * A + 50 * B /\ q3 = 50 * C + 50 * D /\ B <= C
        BY <1>2, <2>2, <2>3, <3>2 DEF Interpolated
      <4> QED
        BY <1>0, <2>2, <4>1
    <3>3. CASE b = 3
      <4>1. q1 = 25 * A + 75 * B /\ q3 = 75 * C + 25 * D /\ B <= C
        BY <1>2, <2>2, <2>3, <3>3 DEF Interpolated
      <4> QED
        BY <1>0, <2>2, <4>1
    <3> QED
      BY <1>2, <1>5, <3>1, <3>2, <3>3
  <2> HIDE DEF below, above
  <2> QED
    BY <1>0, <1>2, <1>5, <2>4, <2>5
<1> QED
  BY <1>4, <1>5

LEMMA IQRFinds ==
    ASSUME NEW data \in Seq(Int), data # << >>
    PROVE  NoneBetween(data, DetectIQR(data)) /\ 2 * Cardinality(DetectIQR(data)) <= Len(data)
<1> DEFINE n == Len(data)
           s == Sorted(data)
           q1 == Percentile(s, 25)
           q3 == Percentile(s, 75)
           low == 2 * q1 - 3 * (q3 - q1)
           high == 2 * q3 + 3 * (q3 - q1)
           F == DetectIQR(data)
           V == {x \in Int : 200 * x < low}
           W == {x \in Int : 200 * x > high}
           L == {l \in DOMAIN data : data[l] \in V}
           U == {l \in DOMAIN data : data[l] \in W}
           cl == Cardinality(L)
           cu == Cardinality(U)
<1>1. n \in Nat \ {0} /\ DOMAIN data = 1..n /\ \A l \in 1..n : data[l] \in Int
  BY LenProperties, ElementOfSeq, EmptySeq
<1>2. Ascending(s, n)
  BY SortedAscending
<1>3. F = {l \in DOMAIN data : 200 * data[l] < low \/ 200 * data[l] > high}
  <2> DEFINE p == q1
             r == q3
  <2>1. p = q1 /\ r = q3 /\ low = 2 * p - 3 * (r - p) /\ high = 2 * r + 3 * (r - p)
    OBVIOUS
  <2>2. F = {l \in DOMAIN data : \/ 2 * 100 * data[l] < 2 * p - 3 * (r - p)
                                 \/ 2 * 100 * data[l] > 2 * r + 3 * (r - p)}
    BY DEF DetectIQR, Outside
  <2> HIDE DEF p, r, low, high, F
  <2> QED
    BY <2>1, <2>2
<1>4. q1 \in Int /\ q3 \in Int /\ q1 <= q3
  <2> HIDE DEF s, n
  <2>1. 25 \in 0..100 /\ 75 \in 0..100 /\ 25 <= 75 /\ 75 <= 75
    OBVIOUS
  <2>2. \A l \in 0..100, h \in 0..100 : l <= h =>
           /\ Percentile(s, l) \in Int /\ Percentile(s, l) <= Percentile(s, h)
           /\ Percentile(s, 0) = 100 * s[1] /\ Percentile(s, 100) = 100 * s[n]
    BY <1>2, PercentileRises
  <2> QED
    BY <2>1, <2>2
<1> HIDE DEF q1, q3, F
<1>5. low \in Int /\ high \in Int
  BY <1>4
<1> HIDE DEF low, high
<1>6. NoneBetween(data, F)
  <2> SUFFICES ASSUME NEW j \in DOMAIN data \ F, NEW k \in DOMAIN data \ F, NEW o \in F,
                      data[j] <= data[o], data[o] <= data[k]
               PROVE  FALSE
    BY DEF NoneBetween
  <2> DEFINE a == data[j]
             b == data[o]
             c == data[k]
  <2>1. /\ a \in Int /\ b \in Int /\ c \in Int /\ a <= b /\ b <= c
        /\ (200 * b < low \/ 200 * b > high)
        /\ ~ (200 * a < low \/ 200 * a > high) /\ ~ (200 * c < low \/ 200 * c > high)
    BY <1>1, <1>3
  <2> HIDE DEF a, b, c
  <2> QED
    BY <1>5, <2>1
<1>7. /\ cl \in 0..n /\ \A k \in 1..n : s[k] \in Int
      /\ \A k \in 1..n : s[k] \in V <=> k <= cl
  <2>1. V \in SUBSET Int /\ \A x \in V, y \in Int : y <= x => y \in V
    BY <1>5
  <2> HIDE DEF V
  <2>2. /\ Cardinality({l \in DOMAIN data : data[l] \in V}) \in 0..n
        /\ \A k \in 1..n : s[k] \in Int
        /\ \A k \in 1..n : s[k] \in V <=> k <= Cardinality({l \in DOMAIN data : data[l] \in V})
    BY <2>1, RanksBelow
  <2> QED
    BY <2>2
<1>8. /\ cu \in 0..n /\ \A k \in 1..n : s[k] \in W <=> k > n - cu
  <2>1. W \in SUBSET Int /\ \A x \in W, y \in Int : y >= x => y \in W
    BY <1>5
  <2> HIDE DEF W
  <2>2. /\ Cardinality({l \in DOMAIN data : data[l] \in W}) \in 0..n
        /\ \A k \in 1..n : s[k] \in W <=> k > n - Cardinality({l \in DOMAIN data : data[l] \in W})
    BY <2>1, RanksAbove
  <2> QED
    BY <2>2
<1>9. 2 * (cl + cu) <= n
  <2> HIDE DEF s, n, cl, cu
  <2>1. /\ \A k \in 1..n : 200 * s[k] < 2 * q1 - 3 * (q3 - q1) <=> k <= cl
        /\ \A k \in 1..n : 200 * s[k] > 2 * q3 + 3 * (q3 - q1) <=> k > n - cu
    BY <1>7, <1>8 DEF low, high
  <2>2. q1 = Percentile(s, 25) /\ q3 = Percentile(s, 75)
    BY DEF q1, q3
  <2>3. cl \in 0..n /\ cu \in 0..n
    BY <1>7, <1>8
  <2> QED
    <3>1. Tails(s, n, q1, q3, cl, cu)
      BY <1>4, <2>1, <2>2, <2>3 DEF Tails
    <3> QED
      BY <1>2, <3>1, TailsCounted
<1>10. Cardinality(F) \in Nat /\ Cardinality(F) <= cl + cu
  <2> DEFINE D == 1..n
  <2>1. F = L \cup U /\ L \in SUBSET D /\ U \in SUBSET D
    BY <1>1, <1>3
  <2>2. IsFiniteSet(D)
    <3> HIDE DEF n
    <3> QED
      BY <1>1, UpToCount
  <2> HIDE DEF L, U, D
  <2>3. IsFiniteSet(L) /\ IsFiniteSet(U) /\ IsFiniteSet(L \cap U)
    BY <2>1, <2>2, FS_Subset, FS_Intersection
  <2>4. IsFiniteSet(L \cup U) /\ Cardinality(L \cup U) = Cardinality(L) + Cardinality(U) - Cardinality(L \cap U)
    BY <2>3, FS_Union
  <2>5. Cardinality(L) \in Nat /\ Cardinality(U) \in Nat /\ Cardinality(L \cap U) \in Nat
        /\ Cardinality(L \cup U) \in Nat
    BY <2>3, <2>4, FS_CardinalityType
  <2> QED
    BY <2>1, <2>4, <2>5
<1>11. 2 * Cardinality(F) <= n
  <2> HIDE DEF cl, cu, n
  <2>1. cl \in Int /\ cu \in Int /\ n \in Int
    BY <1>1, <1>7, <1>8
  <2> QED
    BY <1>9, <1>10, <2>1
<1> QED
  BY <1>6, <1>11 DEF F, n

LEMMA OutliersAreFew ==
    ASSUME NEW data \in Seq(Int), data # << >>
    PROVE  OutliersFew(data)
<1> SUFFICES ASSUME NEW method \in {"iqr", "zscore", "modified"}, NEW threshold \in {0, 1, 2}
             PROVE  LET found == DetectOutliers(data, method, threshold)
                    IN  /\ \A j, k \in DOMAIN data \ found, o \in found :
                             ~ (data[j] <= data[o] /\ data[o] <= data[k])
                        /\ IF method = "zscore"
                           THEN Cardinality(found) * threshold * threshold <= Len(data)
                           ELSE 2 * Cardinality(found) <= Len(data)
  BY Zenon DEF OutliersFew
<1> DEFINE found == DetectOutliers(data, method, threshold)
           used == IF threshold <= 0 THEN 3 ELSE threshold
           n == Len(data)
<1>1. used \in Nat \ {0} /\ (threshold # 0 => used = threshold) /\ n \in Nat \ {0}
  <2>1. n \in Nat \ {0}
    BY LenProperties, EmptySeq
  <2> QED
    BY <2>1
<1>2. /\ method = "iqr" => found = DetectIQR(data)
      /\ method = "zscore" => found = DetectZScore(data, used)
      /\ method = "modified" => found = DetectModifiedZScore(data, used)
  BY DEF DetectOutliers
<1> HIDE DEF found, used
<1>3. NoneBetween(data, found)
  BY <1>1, <1>2, IQRFinds, ZScoreFinds, ModifiedFinds
<1>4. method # "zscore" => 2 * Cardinality(found) <= n
  BY <1>1, <1>2, IQRFinds, ModifiedFinds
<1>5. method = "zscore" => Cardinality(found) * threshold * threshold <= n
  <2> SUFFICES ASSUME method = "zscore"
               PROVE  Cardinality(found) * threshold * threshold <= n
    OBVIOUS
  <2>0. CASE found = {}
    <3>1. Cardinality(found) = 0
      BY <2>0, FS_EmptySet
    <3> QED
      BY <1>1, <3>1
  <2>1. found # {} => Cardinality(found) * used * used < n
    BY <1>1, <1>2, ZScoreFinds
  <2>2. ASSUME found # {}, threshold # 0
        PROVE  Cardinality(found) * threshold * threshold <= n
    <3> DEFINE c == Cardinality(found)
    <3>1. c \in Nat
      <4>1. found \in SUBSET DOMAIN data
        BY <1>2 DEF DetectZScore, Outside
      <4>2. IsFiniteSet(DOMAIN data)
        <5>1. DOMAIN data = 1..n
          BY LenProperties
        <5> HIDE DEF n
        <5> QED
          BY <1>1, <5>1, UpToCount
      <4> QED
        BY <4>1, <4>2, FS_Subset, FS_CardinalityType
    <3>2. c * threshold * threshold < n
      BY <1>1, <2>1, <2>2
    <3> HIDE DEF c, n
    <3>3. c * threshold * threshold <= n
      BY <1>1, <3>1, <3>2
    <3> QED
      BY <3>3 DEF c
  <2>3. CASE threshold = 0
    <3>1. IsFiniteSet(found)
      <4>1. found \in SUBSET DOMAIN data
        BY <1>2 DEF DetectZScore, Outside
      <4>2. IsFiniteSet(DOMAIN data)
        <5>1. DOMAIN data = 1..n
          BY LenProperties
        <5> HIDE DEF n
        <5> QED
          BY <1>1, <5>1, UpToCount
      <4> QED
        BY <4>1, <4>2, FS_Subset
    <3> DEFINE c == Cardinality(found)
    <3>2. c \in Nat
      BY <3>1, FS_CardinalityType
    <3> HIDE DEF c, n
    <3>3. c * threshold * threshold <= n
      BY <1>1, <2>3, <3>2
    <3> QED
      BY <3>3 DEF c
  <2> QED
    BY <2>0, <2>2, <2>3
<1> QED
  BY <1>3, <1>4, <1>5 DEF NoneBetween, found

\* The numbers of a column become floats, none of them lost.
LEMMA FloatsOfNumbers ==
    ASSUME NEW nums \in Seq(Int), nums # << >>
    PROVE  FloatsOf(nums) \in Seq(Int) /\ FloatsOf(nums) # << >>
<1> DEFINE n == Len(nums)
           floats == [k \in DOMAIN nums |-> Float(nums[k] * FloatOne, One)]
<1>1. n \in Nat \ {0} /\ DOMAIN nums = 1..n /\ \A k \in 1..n : nums[k] \in Int
  BY LenProperties, ElementOfSeq, EmptySeq
<1>2. FloatOne \in Nat \ {0} /\ One \in Nat \ {0}
  BY FloatOneAssumption, GapsAssumption DEF One
<1> HIDE DEF n
<1>3. ASSUME NEW k \in 1..n
      PROVE  Float(nums[k] * FloatOne, One) \in Int
  <2>1. nums[k] * FloatOne \in Int
    BY <1>1, <1>2
  <2> QED
    BY <1>2, <2>1, FloatCases
<1>4. floats \in [1..n -> Int]
  BY <1>1, <1>3
<1>5. floats \in Seq(Int) /\ DOMAIN floats = 1..n
  BY <1>1, <1>4 DEF Seq
<1>6. floats # << >>
  BY <1>1, <1>5, EmptySeq
<1> QED
  BY <1>5, <1>6 DEF FloatsOf

LEMMA BenchInvNumbers == BenchInv => NumbersPlaced
<1> SUFFICES ASSUME BenchInv, NEW name \in NumberColumns
             PROVE  /\ HistogramExact(FloatsOf(CollectNums(table, name)))
                    /\ OutliersFew(CollectNums(table, name))
  BY DEF NumbersPlaced
<1>1. /\ ~ HasNaN(CollectNums(table, name)) /\ CollectNums(table, name) # <<>>
      /\ CollectNums(table, name) \in Seq(Int)
  BY NumberColumn DEF BenchInv
<1> QED
  BY <1>1, FloatsOfNumbers, HistogramIsExact, OutliersAreFew

\* NumbersPlaced holds for all tables and all floats: BuildHistogram loses no
\* number and keeps their order; BucketFor finds each where it was counted, unless
\* its quotient was rounded up to the number of buckets; and outliers are few and
\* outside of the other numbers, by each of the three methods.
THEOREM NumbersCorrect == BenchSpec => []NumbersPlaced
<1>1. BenchInv => NumbersPlaced
  BY BenchInvNumbers
<1> QED
  BY <1>1, BenchInvariant, PTL
===============================================================================
