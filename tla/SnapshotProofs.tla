--------------------------- MODULE SnapshotProofs ---------------------------
(***************************************************************************)
(* The safety of the snapshot store for any number of writers, seconds and *)
(* saves, and any failures.                                                *)
(*                                                                         *)
(* The names of a second, the calls that save snapshots of it, and the     *)
(* blocks of the files behind both, never meet those of another second:    *)
(* whatever writers do to each other's files stays within a second.  For a *)
(* snapshot that is the only one of its second, this leaves one call to    *)
(* follow from step to step.  Where no two calls of a second overlap, a     *)
(* second has one call at work at a time and one file that it replaces.    *)
(***************************************************************************)
EXTENDS SnapshotStore, PositionProofs

-------------------------------------------------------------------------------
(* Maxima and minima *)

LEMMA MaxInSet ==
    ASSUME NEW n \in Nat, NEW S \in SUBSET (0..n), S # {}
    PROVE  /\ Max(S) \in S
           /\ \A i \in S : Max(S) >= i
<1>1. S \in SUBSET Nat
  OBVIOUS
<1>2. IsFiniteSet(S)
  <2>1. IsFiniteSet(0..n)
    BY FS_Interval
  <2> QED
    BY <2>1, FS_Subset
<1> QED
  BY <1>1, <1>2, MaxIsLargest

LEMMA MinOfTwo ==
    ASSUME NEW a \in Nat, NEW b \in Nat
    PROVE  Min({a, b}) \in Nat /\ Min({a, b}) <= b
<1>1. Min({a, b}) \in {a, b} /\ \A y \in {a, b} : Min({a, b}) <= y
  <2>1. \E x \in {a, b} : \A y \in {a, b} : x <= y
    OBVIOUS
  <2> QED
    BY <2>1 DEF Min
<1> QED
  BY <1>1

-------------------------------------------------------------------------------
(* Files *)

\* The last checksum of a file is one of its blocks.
LEMMA LastSumIsBlock ==
    ASSUME NEW S, NEW f \in Seq(S)
    PROVE  /\ LastSum(f) \in 0..Len(f)
           /\ \A i \in DOMAIN f : f[i].block = Sum => i <= LastSum(f)
           /\ LastSum(f) # 0 => f[LastSum(f)].block = Sum
<1> DEFINE at == {0} \cup {i \in DOMAIN f : f[i].block = Sum}
<1>1. Len(f) \in Nat /\ DOMAIN f = 1..Len(f)
  BY LenProperties
<1>2. at \in SUBSET (0..Len(f)) /\ at # {}
  BY <1>1
<1>3. Max(at) \in at /\ \A i \in at : Max(at) >= i
  <2> HIDE DEF at
  <2> QED
    BY <1>1, <1>2, MaxInSet
<1> QED
  BY <1>1, <1>3 DEF LastSum

\* A part of a file from some block on, or up to some block.
LEMMA PartOfFile ==
    ASSUME NEW S, NEW f \in Seq(S), NEW m \in Nat \ {0}, NEW n \in 0..Len(f)
    PROVE  /\ SubSeq(f, m, n) \in Seq(S)
           /\ Len(SubSeq(f, m, n)) = IF m <= n THEN n - m + 1 ELSE 0
           /\ \A k \in 1..Len(SubSeq(f, m, n)) : SubSeq(f, m, n)[k] = f[m + k - 1]
<1>1. Len(f) \in Nat /\ m \in Int /\ n \in Int
  BY LenProperties
<1>2. \A k \in m..n : f[k] \in S
  BY <1>1, ElementOfSeq
<1> DEFINE r == SubSeq(f, m, n)
<1>3. /\ r \in Seq(S)
      /\ Len(r) = IF m <= n THEN n - m + 1 ELSE 0
      /\ \A k \in 1..(n - m + 1) : r[k] = f[m + k - 1]
  BY <1>1, <1>2, SubSeqProperties
<1> HIDE DEF r
<1>4. \A k \in 1..Len(r) : r[k] = f[m + k - 1]
  <2>1. 1..Len(r) \subseteq 1..(n - m + 1)
    BY <1>1, <1>3
  <2> QED
    BY <1>3, <2>1
<1> QED
  BY <1>3, <1>4 DEF r

LEMMA OverwriteBlocks ==
    ASSUME NEW S, NEW old \in Seq(S), NEW new \in Seq(S)
    PROVE  /\ Overwrite(old, new) \in Seq(S)
           /\ \A k \in 1..Len(Overwrite(old, new)) :
                 \/ k \in 1..Len(new) /\ Overwrite(old, new)[k] = new[k]
                 \/ k \in 1..Len(old) /\ Overwrite(old, new)[k] = old[k]
<1> DEFINE r == SubSeq(old, Len(new) + 1, Len(old))
           t == new \o r
<1>1. Len(old) \in Nat /\ Len(new) \in Nat /\ Len(new) + 1 \in Nat \ {0} /\ Len(old) \in 0..Len(old)
  BY LenProperties
<1>2. /\ r \in Seq(S)
      /\ Len(r) = IF Len(new) + 1 <= Len(old) THEN Len(old) - (Len(new) + 1) + 1 ELSE 0
      /\ \A k \in 1..Len(r) : r[k] = old[(Len(new) + 1) + k - 1]
  BY <1>1, PartOfFile
<1> HIDE DEF r
<1>3. /\ t \in Seq(S)
      /\ Len(t) = Len(new) + Len(r)
      /\ \A k \in 1..(Len(new) + Len(r)) : t[k] = IF k <= Len(new) THEN new[k] ELSE r[k - Len(new)]
  BY <1>2, ConcatProperties
<1> HIDE DEF t
<1>4. ASSUME NEW k \in 1..Len(t)
      PROVE  \/ k \in 1..Len(new) /\ t[k] = new[k]
             \/ k \in 1..Len(old) /\ t[k] = old[k]
  <2>1. Len(r) \in Nat /\ k \in 1..(Len(new) + Len(r))
    BY <1>2, <1>3, LenProperties
  <2>2. CASE k <= Len(new)
    BY <1>1, <1>3, <2>1, <2>2
  <2>3. CASE ~ (k <= Len(new))
    <3>1. /\ k - Len(new) \in 1..Len(r)
          /\ (Len(new) + 1) + (k - Len(new)) - 1 = k
          /\ k \in 1..Len(old)
      BY <1>1, <1>2, <2>1, <2>3
    <3>2. t[k] = r[k - Len(new)]
      BY <1>3, <2>1, <2>3
    <3>3. r[k - Len(new)] = old[(Len(new) + 1) + (k - Len(new)) - 1]
      BY <1>2, <3>1
    <3> QED
      BY <3>1, <3>2, <3>3
  <2> QED
    BY <2>2, <2>3
<1> QED
  BY <1>3, <1>4 DEF Overwrite, t, r

LEMMA EncodeBlocks ==
    ASSUME NEW snap \in Snap
    PROVE  /\ Encode(snap) \in Seq(Block)
           /\ Len(Encode(snap)) = snap.size
           /\ snap.size \in Nat \ {0, 1} /\ snap.ts \in Seconds
           /\ \A k \in 1..snap.size :
                 /\ Encode(snap)[k].snap = snap
                 /\ Encode(snap)[k].block = Sum <=> k = snap.size
<1>1. snap.size \in Nat \ {0, 1} /\ snap.ts \in Seconds
  BY BoundsAssumption DEF Snap
<1> DEFINE b(i) == [snap |-> snap, block |-> IF i = snap.size THEN Sum ELSE i]
<1>2. \A i \in 1..snap.size : b(i) \in Block
  BY <1>1 DEF Block, Sum
<1>3. Encode(snap) = [i \in 1..snap.size |-> b(i)]
  BY DEF Encode
<1>4. Encode(snap) \in [1..snap.size -> Block]
  BY <1>2, <1>3
<1>5. Encode(snap) \in Seq(Block) /\ Len(Encode(snap)) = snap.size
  <2> HIDE DEF b
  <2> QED
    BY <1>1, <1>4
<1>6. \A k \in 1..snap.size : /\ Encode(snap)[k].snap = snap
                              /\ Encode(snap)[k].block = Sum <=> k = snap.size
  BY <1>1, <1>3 DEF Sum
<1> QED
  BY <1>1, <1>5, <1>6

-------------------------------------------------------------------------------
(* Types *)

Names == [ts : Seconds, tmp : BOOLEAN]

Calls == [snap : saves, inode : DOMAIN data, step : {"write", "rename", "remove"}]

TypeInv ==
    /\ DOMAIN dir \subseteq Names /\ dir \in [DOMAIN dir -> DOMAIN data]
    /\ data \in Seq(Seq(Block))
    /\ saving \in [Writers -> SUBSET Calls]
    /\ saves \subseteq Snap /\ acked \subseteq saves
    /\ overlapped \in BOOLEAN /\ powerLost \in BOOLEAN
    /\ IsFiniteSet(saves) /\ Cardinality(saves) <= MaxSaves
    /\ \A s \in saves : s.id <= Cardinality(saves)

LEMMA TypeInvImplies == TypeInv => TypeOK
BY DEF TypeInv, TypeOK, Names, Calls

LEMMA NamesOfSecond ==
    ASSUME NEW ts \in Seconds
    PROVE  /\ Temp(ts) \in Names /\ Temp(ts).ts = ts /\ Temp(ts).tmp
           /\ Final(ts) \in Names /\ Final(ts).ts = ts /\ ~ Final(ts).tmp
           /\ \A n \in Names : n.ts = ts => n \in {Temp(ts), Final(ts)}
BY DEF Names, Temp, Final

\* What an open of path.tmp does.
Opens(w, snap, inode) ==
    /\ snap \in Snap /\ snap \notin saves
    /\ saves' = saves \cup {snap}
    /\ snap.id = Cardinality(saves) + 1 /\ snap.id <= MaxSaves
    /\ data' \in Seq(Seq(Block)) /\ DOMAIN data' = DOMAIN data \cup {inode}
    /\ data'[inode] = <<>>
    /\ \A i \in DOMAIN data : i # inode => data'[i] = data[i]
    /\ Temp(snap.ts) \in DOMAIN dir => inode = dir[Temp(snap.ts)]
    /\ Temp(snap.ts) \notin DOMAIN dir => inode \notin DOMAIN data
    /\ dir' = [n \in DOMAIN dir \cup {Temp(snap.ts)} |-> IF n = Temp(snap.ts) THEN inode ELSE dir[n]]
    /\ saving[w] = {}
    /\ saving' = [saving EXCEPT ![w] = {[snap |-> snap, inode |-> inode, step |-> "write"]}]
    /\ overlapped' = (overlapped \/ Busy(snap.ts))
    /\ UNCHANGED <<acked, powerLost>>

LEMMA OpenEffect ==
    ASSUME TypeInv, NEW w \in Writers, NEW ts \in Seconds, NEW size \in Sizes,
           OpenTemp(w, NewSnap(ts, size))
    PROVE  \E snap, inode : Opens(w, snap, inode)
<1> DEFINE snap == NewSnap(ts, size)
           inode == IF Temp(ts) \in DOMAIN dir THEN dir[Temp(ts)] ELSE Len(data) + 1
<1>1. /\ Cardinality(saves) \in Nat /\ Cardinality(saves) < MaxSaves /\ MaxSaves \in Nat
      /\ data \in Seq(Seq(Block)) /\ Len(data) \in Nat /\ DOMAIN data = 1..Len(data)
  BY FS_CardinalityType, BoundsAssumption, LenProperties DEF OpenTemp, TypeInv
<1>2. snap.ts = ts /\ snap.id = Cardinality(saves) + 1 /\ snap.size = size
  BY DEF NewSnap
<1>3. /\ snap \in Snap /\ snap.id <= MaxSaves
      /\ snap \notin saves
  <2>1. snap \in Snap
    BY <1>1 DEF NewSnap, Snap
  <2> HIDE DEF snap
  <2>2. snap \notin saves
    BY <1>1, <1>2 DEF TypeInv
  <2> QED
    BY <1>1, <1>2, <2>1, <2>2
<1>4. /\ saving[w] = {}
      /\ saves' = saves \cup {snap}
      /\ saving' = [saving EXCEPT ![w] = {[snap |-> snap, inode |-> inode, step |-> "write"]}]
      /\ dir' = [n \in DOMAIN dir \cup {Temp(ts)} |-> IF n = Temp(ts) THEN inode ELSE dir[n]]
      /\ data' = IF Temp(ts) \in DOMAIN dir THEN [data EXCEPT ![inode] = <<>>] ELSE Append(data, <<>>)
  BY <1>2 DEF OpenTemp
<1> HIDE DEF snap
<1>5. /\ data' \in Seq(Seq(Block)) /\ DOMAIN data' = DOMAIN data \cup {inode}
      /\ data'[inode] = <<>>
      /\ \A i \in DOMAIN data : i # inode => data'[i] = data[i]
  <2>0. <<>> \in Seq(Block)
    OBVIOUS
  <2>1. CASE Temp(ts) \in DOMAIN dir
    <3>1. inode \in DOMAIN data
      BY <2>1 DEF TypeInv
    <3> HIDE DEF inode
    <3> QED
      BY <1>1, <1>4, <2>0, <2>1, <3>1
  <2>2. CASE Temp(ts) \notin DOMAIN dir
    <3>1. inode = Len(data) + 1 /\ data' = Append(data, <<>>)
      BY <1>4, <2>2
    <3> HIDE DEF inode
    <3>2. /\ data' \in Seq(Seq(Block)) /\ Len(data') = Len(data) + 1
          /\ data'[Len(data) + 1] = <<>>
          /\ \A i \in 1..Len(data) : data'[i] = data[i]
      BY <1>1, <2>0, <3>1, AppendProperties
    <3>3. DOMAIN data' = 1..(Len(data) + 1)
      BY <3>2, LenProperties
    <3> QED
      BY <1>1, <3>1, <3>2, <3>3
  <2> QED
    BY <2>1, <2>2
<1>6. /\ Temp(ts) \in DOMAIN dir => inode = dir[Temp(ts)]
      /\ Temp(ts) \notin DOMAIN dir => inode \notin DOMAIN data
  BY <1>1
<1>7. overlapped' = (overlapped \/ Busy(snap.ts)) /\ UNCHANGED <<acked, powerLost>>
  BY <1>2 DEF OpenTemp, snap
<1> HIDE DEF inode
<1>8. Opens(w, snap, inode)
  BY <1>2, <1>3, <1>4, <1>5, <1>6, <1>7 DEF Opens
<1> QED
  BY <1>8

\* What a write does, whole or short.
LEMMA WriteEffect ==
    ASSUME TypeInv, NEW w \in Writers, WriteTemp(w) \/ WriteFails(w)
    PROVE  \E s \in saving[w] :
             /\ s.step = "write" /\ s \in Calls
             /\ data' \in Seq(Seq(Block)) /\ DOMAIN data' = DOMAIN data
             /\ \A i \in DOMAIN data : i # s.inode => data'[i] = data[i]
             /\ \A k \in 1..Len(data'[s.inode]) :
                   \/ data'[s.inode][k].snap = s.snap
                   \/ k \in 1..Len(data[s.inode]) /\ data'[s.inode][k] = data[s.inode][k]
             /\ \/ saving' = [saving EXCEPT ![w] = {}]
                \/ /\ saving' = [saving EXCEPT ![w] = {[s EXCEPT !.step = "rename"]}]
                   /\ data[s.inode] = <<>> => data'[s.inode] = Encode(s.snap)
             /\ UNCHANGED <<dir, saves, acked, overlapped, powerLost>>
<1>1. ASSUME NEW s \in saving[w], s.step = "write", NEW n \in 0..s.snap.size,
             data' = [data EXCEPT ![s.inode] = Overwrite(@, SubSeq(Encode(s.snap), 1, n))]
      PROVE  /\ s \in Calls
             /\ data' \in Seq(Seq(Block)) /\ DOMAIN data' = DOMAIN data
             /\ data'[s.inode] = Overwrite(data[s.inode], SubSeq(Encode(s.snap), 1, n))
             /\ \A i \in DOMAIN data : i # s.inode => data'[i] = data[i]
             /\ \A k \in 1..Len(data'[s.inode]) :
                   \/ data'[s.inode][k].snap = s.snap
                   \/ k \in 1..Len(data[s.inode]) /\ data'[s.inode][k] = data[s.inode][k]
  <2> DEFINE new == SubSeq(Encode(s.snap), 1, n)
             old == data[s.inode]
  <2>1. s \in Calls /\ s.snap \in Snap /\ s.inode \in DOMAIN data /\ data \in Seq(Seq(Block))
    BY DEF TypeInv, Calls
  <2>2. old \in Seq(Block)
    BY <2>1, ElementOfSeq
  <2>3. /\ Encode(s.snap) \in Seq(Block) /\ Len(Encode(s.snap)) = s.snap.size
        /\ s.snap.size \in Nat
        /\ \A k \in 1..s.snap.size : Encode(s.snap)[k].snap = s.snap
    BY <2>1, EncodeBlocks
  <2>4. /\ new \in Seq(Block) /\ Len(new) = IF 1 <= n THEN n - 1 + 1 ELSE 0
        /\ \A k \in 1..Len(new) : new[k] = Encode(s.snap)[1 + k - 1]
    BY <2>3, PartOfFile
  <2> HIDE DEF new, old
  <2>5. \A k \in 1..Len(new) : new[k].snap = s.snap
    <3>1. ASSUME NEW k \in 1..Len(new)
          PROVE  k \in 1..s.snap.size /\ 1 + k - 1 = k
      BY <2>3, <2>4
    <3> QED
      BY <2>3, <2>4, <3>1
  <2>6. /\ Overwrite(old, new) \in Seq(Block)
        /\ \A k \in 1..Len(Overwrite(old, new)) :
              \/ Overwrite(old, new)[k].snap = s.snap
              \/ k \in 1..Len(old) /\ Overwrite(old, new)[k] = old[k]
    BY <2>2, <2>4, <2>5, OverwriteBlocks
  <2>7. data' = [data EXCEPT ![s.inode] = Overwrite(old, new)]
    BY <1>1, <2>1 DEF new, old
  <2>8. /\ data'[s.inode] = Overwrite(old, new)
        /\ DOMAIN data' = DOMAIN data
        /\ \A i \in DOMAIN data : i # s.inode => data'[i] = data[i]
    BY <2>1, <2>7
  <2>9. data' \in Seq(Seq(Block))
    BY <2>1, <2>6, <2>7
  <2> QED
    BY <2>1, <2>6, <2>8, <2>9 DEF new, old
<1>2. CASE WriteTemp(w)
  <2>1. PICK s \in At(w, "write") :
            /\ data' = [data EXCEPT ![s.inode] = Overwrite(@, Encode(s.snap))]
            /\ Proceeds(w, s, "rename")
    BY <1>2 DEF WriteTemp
  <2>2. s \in saving[w] /\ s.step = "write" /\ s.snap \in Snap
    BY <2>1 DEF At, TypeInv, Calls
  <2>3. /\ s.snap.size \in 0..s.snap.size
        /\ SubSeq(Encode(s.snap), 1, s.snap.size) = Encode(s.snap)
        /\ Encode(s.snap) \in Seq(Block)
    BY <2>2, EncodeBlocks, SubSeqFull
  <2>4. data' = [data EXCEPT ![s.inode] = Overwrite(@, SubSeq(Encode(s.snap), 1, s.snap.size))]
    BY <2>1, <2>3
  <2>5. ASSUME data[s.inode] = <<>>
        PROVE  data'[s.inode] = Encode(s.snap)
    <3>1. data'[s.inode] = Overwrite(data[s.inode], Encode(s.snap))
      <4>1. s.snap.size \in 0..s.snap.size
        BY <2>3
      <4>2. data'[s.inode] = Overwrite(data[s.inode], SubSeq(Encode(s.snap), 1, s.snap.size))
        BY <1>1, <2>2, <2>4, <4>1
      <4> QED
        BY <2>3, <4>2
    <3>2. SubSeq(<<>>, Len(Encode(s.snap)) + 1, Len(<<>>)) = <<>>
      <4>1. Len(Encode(s.snap)) \in Nat /\ Len(<<>>) = 0
        BY <2>3, LenProperties
      <4> QED
        BY <4>1, SubSeqEmpty
    <3> QED
      BY <2>3, <2>5, <3>1, <3>2, ConcatEmptySeq DEF Overwrite
  <2>6. saving' = [saving EXCEPT ![w] = {[s EXCEPT !.step = "rename"]}]
    BY <2>1 DEF Proceeds
  <2> QED
    BY <1>1, <1>2, <2>2, <2>3, <2>4, <2>5, <2>6 DEF WriteTemp
<1>3. CASE WriteFails(w)
  <2>1. PICK s \in At(w, "write") : \E n \in 0..(s.snap.size - 1) :
            data' = [data EXCEPT ![s.inode] = Overwrite(@, SubSeq(Encode(s.snap), 1, n))]
    BY <1>3 DEF WriteFails
  <2>2. PICK n \in 0..(s.snap.size - 1) :
            data' = [data EXCEPT ![s.inode] = Overwrite(@, SubSeq(Encode(s.snap), 1, n))]
    BY <2>1
  <2>3. s \in saving[w] /\ s.step = "write" /\ s.snap \in Snap
    BY <2>1 DEF At, TypeInv, Calls
  <2>4. n \in 0..s.snap.size
    BY <2>3, EncodeBlocks
  <2> QED
    BY <1>1, <1>3, <2>2, <2>3, <2>4 DEF WriteFails, Returns
<1> QED
  BY <1>2, <1>3

\* What a power failure leaves.
LEMMA PowerEffect ==
    ASSUME TypeInv, PowerLost
    PROVE  /\ data' \in Seq(Seq(Block)) /\ DOMAIN data' = DOMAIN data
           /\ \A i \in DOMAIN data : \A k \in 1..Len(data'[i]) :
                 k \in 1..Len(data[i]) /\ data'[i][k] = data[i][k]
           /\ saving' = [w \in Writers |-> {}]
           /\ powerLost'
           /\ UNCHANGED <<dir, saves, acked, overlapped>>
<1>1. PICK left \in [DOMAIN data -> 0..Max(Sizes)] :
          data' = [i \in DOMAIN data |-> SubSeq(data[i], 1, Min({left[i], Len(data[i])}))]
  BY DEF PowerLost
<1>2. data \in Seq(Seq(Block)) /\ DOMAIN data = 1..Len(data) /\ Len(data) \in Nat
  BY LenProperties DEF TypeInv
<1>3. ASSUME NEW i \in DOMAIN data
      PROVE  /\ data'[i] \in Seq(Block)
             /\ \A k \in 1..Len(data'[i]) : k \in 1..Len(data[i]) /\ data'[i][k] = data[i][k]
  <2> DEFINE n == Min({left[i], Len(data[i])})
             f == data[i]
  <2>1. f \in Seq(Block) /\ Len(f) \in Nat /\ left[i] \in Nat
    BY <1>1, <1>2, ElementOfSeq, LenProperties
  <2>2. n \in Nat /\ n <= Len(f)
    BY <2>1, MinOfTwo
  <2>3. data'[i] = SubSeq(f, 1, n)
    BY <1>1
  <2> HIDE DEF n, f
  <2>4. n \in 0..Len(f) /\ 1 \in Nat \ {0}
    BY <2>1, <2>2
  <2>5. /\ SubSeq(f, 1, n) \in Seq(Block)
        /\ Len(SubSeq(f, 1, n)) = IF 1 <= n THEN n - 1 + 1 ELSE 0
        /\ \A k \in 1..Len(SubSeq(f, 1, n)) : SubSeq(f, 1, n)[k] = f[1 + k - 1]
    BY <2>1, <2>4, PartOfFile
  <2>6. ASSUME NEW k \in 1..Len(data'[i])
        PROVE  k \in 1..Len(f) /\ data'[i][k] = f[k]
    <3>1. k \in 1..n /\ 1 + k - 1 = k
      BY <2>2, <2>3, <2>5
    <3> QED
      BY <2>1, <2>2, <2>3, <2>5, <3>1
  <2> QED
    BY <2>3, <2>5, <2>6 DEF f
<1>4. DOMAIN data' = DOMAIN data
  BY <1>1
<1>5. data' \in Seq(Seq(Block))
  <2>1. data' \in [1..Len(data) -> Seq(Block)]
    BY <1>1, <1>2, <1>3
  <2>2. \A S : \A n \in Nat : [1..n -> S] \subseteq Seq(S)
    OBVIOUS
  <2> QED
    BY <1>2, <2>1, <2>2, Zenon
<1> QED
  BY <1>3, <1>4, <1>5 DEF PowerLost

\* What a rename does.
LEMMA RenameEffect ==
    ASSUME TypeInv, NEW w \in Writers, RenameTemp(w)
    PROVE  \E s \in saving[w] :
             /\ s.step = "rename" /\ s \in Calls
             /\ Temp(s.snap.ts) \in DOMAIN dir
             /\ dir' = [n \in (DOMAIN dir \cup {Final(s.snap.ts)}) \ {Temp(s.snap.ts)} |->
                          IF n = Final(s.snap.ts) THEN dir[Temp(s.snap.ts)] ELSE dir[n]]
             /\ acked' = acked \cup {s.snap}
             /\ saving' = [saving EXCEPT ![w] = {}]
             /\ UNCHANGED <<data, saves, overlapped, powerLost>>
BY DEF TypeInv, RenameTemp, At, Returns

\* What the other steps of a writer do: they take a call one step further or end
\* it, and may take a temporary name of its second away.
LEMMA OtherEffect ==
    ASSUME TypeInv, NEW w \in Writers, RenameFails(w) \/ RemoveTemp(w) \/ Killed(w)
    PROVE  /\ UNCHANGED <<data, saves, acked, overlapped, powerLost>>
           /\ \E s \in saving[w] :
                /\ s \in Calls
                /\ \/ saving' = [saving EXCEPT ![w] = {}]
                   \/ saving' = [saving EXCEPT ![w] = {[s EXCEPT !.step = "remove"]}]
                /\ \/ dir' = dir
                   \/ dir' = [n \in DOMAIN dir \ {Temp(s.snap.ts)} |-> dir[n]]
BY DEF TypeInv, RenameFails, RemoveTemp, Killed, At, Returns, Proceeds

LEMMA TypeInvInductive ==
    /\ Init => TypeInv
    /\ TypeInv /\ [Next]_vars => TypeInv'
<1>1. ASSUME Init
      PROVE  TypeInv
  <2>1. IsFiniteSet(saves) /\ Cardinality(saves) = 0 /\ 0 <= MaxSaves
    BY <1>1, FS_EmptySet, BoundsAssumption DEF Init
  <2>2. dir \in [DOMAIN dir -> DOMAIN data] /\ DOMAIN dir \subseteq Names
    BY <1>1 DEF Init
  <2>3. data \in Seq(Seq(Block))
    BY <1>1 DEF Init
  <2> QED
    BY <1>1, <2>1, <2>2, <2>3 DEF Init, TypeInv
<1>2. ASSUME TypeInv, [Next]_vars
      PROVE  TypeInv'
  <2> USE <1>2
  <2>1. ASSUME NEW w \in Writers, NEW ts \in Seconds, NEW size \in Sizes,
               OpenTemp(w, NewSnap(ts, size))
        PROVE  TypeInv'
    <3>0. PICK snap, inode : Opens(w, snap, inode)
      BY <2>1, OpenEffect
    <3>1. /\ snap \in Snap /\ snap.ts \in Seconds /\ snap \notin saves
          /\ saves' = saves \cup {snap}
          /\ snap.id = Cardinality(saves) + 1 /\ snap.id <= MaxSaves
          /\ data' \in Seq(Seq(Block)) /\ DOMAIN data \subseteq DOMAIN data' /\ inode \in DOMAIN data'
          /\ dir' = [n \in DOMAIN dir \cup {Temp(snap.ts)} |->
                       IF n = Temp(snap.ts) THEN inode ELSE dir[n]]
          /\ saving' = [saving EXCEPT ![w] = {[snap |-> snap, inode |-> inode, step |-> "write"]}]
      BY <3>0 DEF Opens, Snap
    <3>2. DOMAIN dir' \subseteq Names /\ dir' \in [DOMAIN dir' -> DOMAIN data']
      BY <3>1, NamesOfSecond DEF TypeInv
    <3>3. saving' \in [Writers -> SUBSET Calls']
      <4>1. Calls \subseteq Calls'
        BY <3>1 DEF Calls
      <4>2. [snap |-> snap, inode |-> inode, step |-> "write"] \in Calls'
        BY <3>1 DEF Calls
      <4> QED
        BY <3>1, <4>1, <4>2 DEF TypeInv
    <3>4. /\ IsFiniteSet(saves') /\ Cardinality(saves') = Cardinality(saves) + 1
          /\ Cardinality(saves) \in Nat
      BY <3>1, FS_AddElement, FS_CardinalityType DEF TypeInv
    <3>5. \A s \in saves' : s.id <= Cardinality(saves')
      <4>1. \A s \in saves : s.id <= Cardinality(saves) /\ s.id \in Nat
        BY BoundsAssumption DEF TypeInv, Snap
      <4> QED
        BY <3>1, <3>4, <4>1
    <3>6. acked' = acked /\ powerLost' = powerLost /\ overlapped' \in BOOLEAN
      BY <2>1 DEF OpenTemp
    <3>7. saves' \subseteq Snap /\ acked' \subseteq saves' /\ Cardinality(saves') <= MaxSaves
      BY <3>1, <3>4, <3>6 DEF TypeInv
    <3> QED
      BY <3>1, <3>2, <3>3, <3>4, <3>5, <3>6, <3>7 DEF TypeInv
  <2>2. ASSUME NEW w \in Writers, WriteTemp(w) \/ WriteFails(w)
        PROVE  TypeInv'
    <3>1. PICK s \in saving[w] :
             /\ s \in Calls
             /\ data' \in Seq(Seq(Block)) /\ DOMAIN data' = DOMAIN data
             /\ \/ saving' = [saving EXCEPT ![w] = {}]
                \/ saving' = [saving EXCEPT ![w] = {[s EXCEPT !.step = "rename"]}]
             /\ UNCHANGED <<dir, saves, acked, overlapped, powerLost>>
      BY <2>2, WriteEffect
    <3>2. Calls' = Calls /\ [s EXCEPT !.step = "rename"] \in Calls
      BY <3>1 DEF Calls
    <3>3. saving' \in [Writers -> SUBSET Calls]
      BY <3>1, <3>2 DEF TypeInv
    <3> QED
      BY <3>1, <3>2, <3>3 DEF TypeInv
  <2>3. ASSUME NEW w \in Writers, RenameTemp(w)
        PROVE  TypeInv'
    <3>1. PICK s \in saving[w] :
             /\ s \in Calls
             /\ Temp(s.snap.ts) \in DOMAIN dir
             /\ dir' = [n \in (DOMAIN dir \cup {Final(s.snap.ts)}) \ {Temp(s.snap.ts)} |->
                          IF n = Final(s.snap.ts) THEN dir[Temp(s.snap.ts)] ELSE dir[n]]
             /\ acked' = acked \cup {s.snap}
             /\ saving' = [saving EXCEPT ![w] = {}]
             /\ UNCHANGED <<data, saves, overlapped, powerLost>>
      BY <2>3, RenameEffect
    <3>2. s.snap \in saves /\ s.snap.ts \in Seconds
      BY <3>1 DEF Calls, TypeInv, Snap
    <3>3. DOMAIN dir' \subseteq Names /\ dir' \in [DOMAIN dir' -> DOMAIN data]
      BY <3>1, <3>2, NamesOfSecond DEF TypeInv
    <3>4. saving' \in [Writers -> SUBSET Calls]
      BY <3>1 DEF TypeInv
    <3>5. Calls' = Calls
      BY <3>1 DEF Calls
    <3> QED
      BY <3>1, <3>2, <3>3, <3>4, <3>5 DEF TypeInv
  <2>4. ASSUME NEW w \in Writers, RenameFails(w) \/ RemoveTemp(w) \/ Killed(w)
        PROVE  TypeInv'
    <3>1. PICK s \in saving[w] :
             /\ s \in Calls
             /\ \/ saving' = [saving EXCEPT ![w] = {}]
                \/ saving' = [saving EXCEPT ![w] = {[s EXCEPT !.step = "remove"]}]
             /\ \/ dir' = dir
                \/ dir' = [n \in DOMAIN dir \ {Temp(s.snap.ts)} |-> dir[n]]
      BY <2>4, OtherEffect
    <3>2. UNCHANGED <<data, saves, acked, overlapped, powerLost>>
      BY <2>4, OtherEffect
    <3>3. Calls' = Calls /\ [s EXCEPT !.step = "remove"] \in Calls
      BY <3>1, <3>2 DEF Calls
    <3>4. saving' \in [Writers -> SUBSET Calls]
      BY <3>1, <3>3 DEF TypeInv
    <3>5. DOMAIN dir' \subseteq Names /\ dir' \in [DOMAIN dir' -> DOMAIN data]
      BY <3>1 DEF TypeInv
    <3> QED
      BY <3>2, <3>3, <3>4, <3>5 DEF TypeInv
  <2>5. CASE PowerLost
    <3>1. /\ data' \in Seq(Seq(Block)) /\ DOMAIN data' = DOMAIN data
          /\ saving' = [w \in Writers |-> {}]
          /\ powerLost'
          /\ UNCHANGED <<dir, saves, acked, overlapped>>
      BY <2>5, PowerEffect
    <3>2. powerLost' \in BOOLEAN
      BY <2>5 DEF PowerLost
    <3> QED
      BY <3>1, <3>2 DEF TypeInv, Calls
  <2>6. CASE UNCHANGED vars
    BY <2>6 DEF vars, TypeInv, Calls
  <2> QED
    BY <2>1, <2>2, <2>3, <2>4, <2>5, <2>6 DEF Next
<1> QED
  BY <1>1, <1>2

-------------------------------------------------------------------------------
(* Seconds *)

\* A name, or a call that is under way, of second ts stands for inode i.
Refers(i, ts) ==
    \/ \E n \in DOMAIN dir : dir[n] = i /\ n.ts = ts
    \/ \E w \in Writers : \E s \in saving[w] : s.inode = i /\ s.snap.ts = ts

BlocksOf(i, ts) ==
    \A k \in 1..Len(data[i]) : data[i][k].snap \in saves /\ data[i][k].snap.ts = ts

\* Seconds share no inodes and no blocks.
SecondsInv ==
    /\ \A i, ts : Refers(i, ts) => BlocksOf(i, ts)
    /\ \A i, ts, us : Refers(i, ts) /\ Refers(i, us) => ts = us

LEMMA RefersType ==
    ASSUME TypeInv, NEW i, NEW ts, Refers(i, ts)
    PROVE  i \in DOMAIN data /\ ts \in Seconds
BY DEF TypeInv, Refers, Names, Calls, Snap

\* A step that adds no reference, and no block but of the second of its file.
LEMMA SecondsKept ==
    ASSUME TypeInv, SecondsInv, saves \subseteq saves',
           \A i, ts : Refers(i, ts)' => Refers(i, ts),
           \A i \in DOMAIN data : \A k \in 1..Len(data'[i]) :
              \/ k \in 1..Len(data[i]) /\ data'[i][k] = data[i][k]
              \/ data'[i][k].snap \in saves /\ Refers(i, data'[i][k].snap.ts)
    PROVE  SecondsInv'
<1>1. ASSUME NEW i, NEW ts, Refers(i, ts)'
      PROVE  BlocksOf(i, ts)'
  <2>1. Refers(i, ts) /\ BlocksOf(i, ts) /\ i \in DOMAIN data
    BY <1>1, RefersType DEF SecondsInv
  <2>2. ASSUME NEW k \in 1..Len(data'[i])
        PROVE  data'[i][k].snap \in saves' /\ data'[i][k].snap.ts = ts
    <3>1. CASE k \in 1..Len(data[i]) /\ data'[i][k] = data[i][k]
      BY <2>1, <3>1 DEF BlocksOf
    <3>2. CASE data'[i][k].snap \in saves /\ Refers(i, data'[i][k].snap.ts)
      BY <2>1, <3>2 DEF SecondsInv
    <3> QED
      BY <2>1, <3>1, <3>2
  <2> QED
    BY <2>2 DEF BlocksOf
<1>2. \A i, ts, us : Refers(i, ts)' /\ Refers(i, us)' => ts = us
  BY DEF SecondsInv
<1> QED
  BY <1>1, <1>2 DEF SecondsInv

LEMMA OpenKeepsSeconds ==
    ASSUME TypeInv, SecondsInv, NEW w \in Writers, NEW snap, NEW inode, Opens(w, snap, inode)
    PROVE  SecondsInv'
<1>1. /\ saves' = saves \cup {snap} /\ snap.ts \in Seconds
      /\ data'[inode] = <<>>
      /\ \A i \in DOMAIN data : i # inode => data'[i] = data[i]
  BY DEF Opens, Snap
<1>2. ASSUME NEW i, NEW ts, Refers(i, ts)'
      PROVE  Refers(i, ts) \/ (i = inode /\ ts = snap.ts)
  <2>1. ASSUME NEW n \in DOMAIN dir', dir'[n] = i, n.ts = ts
        PROVE  Refers(i, ts) \/ (i = inode /\ ts = snap.ts)
    <3>1. CASE n = Temp(snap.ts)
      BY <1>1, <2>1, <3>1, NamesOfSecond DEF Opens
    <3>2. CASE n # Temp(snap.ts)
      <4>1. n \in DOMAIN dir /\ dir'[n] = dir[n]
        BY <2>1, <3>2 DEF Opens
      <4> QED
        BY <2>1, <4>1 DEF Refers
    <3> QED
      BY <3>1, <3>2
  <2>2. ASSUME NEW v \in Writers, NEW s \in saving'[v], s.inode = i, s.snap.ts = ts
        PROVE  Refers(i, ts) \/ (i = inode /\ ts = snap.ts)
    <3>1. CASE v = w
      <4>1. s = [snap |-> snap, inode |-> inode, step |-> "write"]
        BY <2>2, <3>1 DEF Opens, TypeInv
      <4> QED
        BY <2>2, <4>1
    <3>2. CASE v # w
      <4>1. s \in saving[v]
        BY <2>2, <3>2 DEF Opens, TypeInv
      <4> QED
        <5>1. s.inode = i /\ s.snap.ts = ts
          BY <2>2
        <5> QED
          BY <4>1, <5>1 DEF Refers
    <3> QED
      BY <3>1, <3>2
  <2> QED
    BY <1>2, <2>1, <2>2 DEF Refers
<1>3. CASE Temp(snap.ts) \in DOMAIN dir
  <2>1. Refers(inode, snap.ts)
    BY <1>1, <1>3, NamesOfSecond DEF Opens, Refers
  <2>2. \A i, ts : Refers(i, ts)' => Refers(i, ts)
    BY <1>2, <2>1
  <2>3. ASSUME NEW i \in DOMAIN data, NEW k \in 1..Len(data'[i])
        PROVE  k \in 1..Len(data[i]) /\ data'[i][k] = data[i][k]
    <3>1. i # inode
      <4>1. Len(<<>>) = 0
        OBVIOUS
      <4> QED
        BY <1>1, <2>3, <4>1
    <3> QED
      BY <1>1, <3>1
  <2> QED
    BY <1>1, <2>2, <2>3, SecondsKept
<1>4. CASE Temp(snap.ts) \notin DOMAIN dir
  <2>1. inode \notin DOMAIN data
    BY <1>4 DEF Opens
  <2>2. ASSUME NEW i, NEW ts, Refers(i, ts)'
        PROVE  BlocksOf(i, ts)'
    <3>1. CASE Refers(i, ts)
      <4>1. i \in DOMAIN data /\ BlocksOf(i, ts)
        BY <3>1, RefersType DEF SecondsInv
      <4>2. data'[i] = data[i]
        BY <1>1, <2>1, <4>1
      <4> QED
        BY <1>1, <4>1, <4>2 DEF BlocksOf
    <3>2. CASE i = inode
      <4>1. Len(data'[i]) = 0
        BY <1>1, <3>2
      <4> QED
        BY <4>1 DEF BlocksOf
    <3> QED
      BY <1>2, <2>2, <3>1, <3>2
  <2>3. ASSUME NEW i, NEW ts, NEW us, Refers(i, ts)', Refers(i, us)'
        PROVE  ts = us
    BY <1>2, <2>1, <2>3, RefersType DEF SecondsInv
  <2> QED
    BY <2>2, <2>3 DEF SecondsInv
<1> QED
  BY <1>3, <1>4

LEMMA SecondsInvInductive ==
    /\ Init => SecondsInv
    /\ TypeInv /\ SecondsInv /\ [Next]_vars => SecondsInv'
<1>1. ASSUME Init
      PROVE  SecondsInv
  BY <1>1 DEF Init, SecondsInv, Refers
<1>2. ASSUME TypeInv, SecondsInv, [Next]_vars
      PROVE  SecondsInv'
  <2> USE <1>2
  <2>1. ASSUME NEW w \in Writers, NEW ts \in Seconds, NEW size \in Sizes,
               OpenTemp(w, NewSnap(ts, size))
        PROVE  SecondsInv'
    BY <2>1, OpenEffect, OpenKeepsSeconds
  <2>2. ASSUME NEW w \in Writers, NEW s \in saving[w], NEW t,
               s \in Calls, t = {} \/ \E x : t = {x} /\ x.inode = s.inode /\ x.snap = s.snap,
               saving' = [saving EXCEPT ![w] = t],
               \A n \in DOMAIN dir' : \/ n \in DOMAIN dir /\ dir'[n] = dir[n]
                                      \/ \E m \in DOMAIN dir : dir'[n] = dir[m] /\ n.ts = m.ts
        PROVE  \A i, ts : Refers(i, ts)' => Refers(i, ts)
    <3>1. ASSUME NEW v \in Writers, NEW x \in saving'[v]
          PROVE  \E y \in saving[v] : y.inode = x.inode /\ y.snap = x.snap
      <4>1. CASE v = w
        <5>1. saving'[v] = t
          BY <2>2, <4>1 DEF TypeInv
        <5> QED
          BY <2>2, <4>1, <5>1
      <4>2. CASE v # w
        BY <2>2, <4>2 DEF TypeInv
      <4> QED
        BY <4>1, <4>2
    <3>2. ASSUME NEW i, NEW ts, Refers(i, ts)'
          PROVE  Refers(i, ts)
      <4>1. CASE \E n \in DOMAIN dir' : dir'[n] = i /\ n.ts = ts
        BY <2>2, <4>1 DEF Refers
      <4>2. CASE \E v \in Writers : \E x \in saving'[v] : x.inode = i /\ x.snap.ts = ts
        BY <3>1, <4>2 DEF Refers
      <4> QED
        BY <3>2, <4>1, <4>2 DEF Refers
    <3> QED
      BY <3>2
  <2>3. ASSUME NEW w \in Writers, WriteTemp(w) \/ WriteFails(w)
        PROVE  SecondsInv'
    <3>1. PICK s \in saving[w] :
             /\ s.step = "write" /\ s \in Calls
             /\ data' \in Seq(Seq(Block)) /\ DOMAIN data' = DOMAIN data
             /\ \A i \in DOMAIN data : i # s.inode => data'[i] = data[i]
             /\ \A k \in 1..Len(data'[s.inode]) :
                   \/ data'[s.inode][k].snap = s.snap
                   \/ k \in 1..Len(data[s.inode]) /\ data'[s.inode][k] = data[s.inode][k]
             /\ \/ saving' = [saving EXCEPT ![w] = {}]
                \/ /\ saving' = [saving EXCEPT ![w] = {[s EXCEPT !.step = "rename"]}]
                   /\ data[s.inode] = <<>> => data'[s.inode] = Encode(s.snap)
             /\ UNCHANGED <<dir, saves, acked, overlapped, powerLost>>
      BY <2>3, WriteEffect
    <3>2. [s EXCEPT !.step = "rename"].inode = s.inode /\ [s EXCEPT !.step = "rename"].snap = s.snap
      BY <3>1 DEF Calls
    <3>3. \A i, ts : Refers(i, ts)' => Refers(i, ts)
      BY <2>2, <3>1, <3>2
    <3>4. Refers(s.inode, s.snap.ts) /\ s.snap \in saves
      BY <3>1 DEF Refers, Calls
    <3>5. ASSUME NEW i \in DOMAIN data, NEW k \in 1..Len(data'[i])
          PROVE  \/ k \in 1..Len(data[i]) /\ data'[i][k] = data[i][k]
                 \/ data'[i][k].snap \in saves /\ Refers(i, data'[i][k].snap.ts)
      <4>1. CASE i = s.inode
        BY <3>1, <3>4, <4>1
      <4>2. CASE i # s.inode
        BY <3>1, <4>2
      <4> QED
        BY <4>1, <4>2
    <3> QED
      BY <3>1, <3>3, <3>5, SecondsKept
  <2>4. ASSUME NEW w \in Writers, RenameTemp(w)
        PROVE  SecondsInv'
    <3>1. PICK s \in saving[w] :
             /\ s.step = "rename" /\ s \in Calls
             /\ Temp(s.snap.ts) \in DOMAIN dir
             /\ dir' = [n \in (DOMAIN dir \cup {Final(s.snap.ts)}) \ {Temp(s.snap.ts)} |->
                          IF n = Final(s.snap.ts) THEN dir[Temp(s.snap.ts)] ELSE dir[n]]
             /\ acked' = acked \cup {s.snap}
             /\ saving' = [saving EXCEPT ![w] = {}]
             /\ UNCHANGED <<data, saves, overlapped, powerLost>>
      BY <2>4, RenameEffect
    <3>2. \A n \in DOMAIN dir' : \/ n \in DOMAIN dir /\ dir'[n] = dir[n]
                                 \/ \E m \in DOMAIN dir : dir'[n] = dir[m] /\ n.ts = m.ts
      <4>1. Temp(s.snap.ts).ts = Final(s.snap.ts).ts
        BY DEF Temp, Final
      <4>2. ASSUME NEW n \in DOMAIN dir'
            PROVE  \/ n \in DOMAIN dir /\ dir'[n] = dir[n]
                   \/ \E m \in DOMAIN dir : dir'[n] = dir[m] /\ n.ts = m.ts
        <5>1. CASE n = Final(s.snap.ts)
          BY <3>1, <4>1, <4>2, <5>1
        <5>2. CASE n # Final(s.snap.ts)
          BY <3>1, <4>2, <5>2
        <5> QED
          BY <5>1, <5>2
      <4> QED
        BY <4>2
    <3>3. \A i, ts : Refers(i, ts)' => Refers(i, ts)
      BY <2>2, <3>1, <3>2
    <3> QED
      BY <3>1, <3>3, SecondsKept
  <2>5. ASSUME NEW w \in Writers, RenameFails(w) \/ RemoveTemp(w) \/ Killed(w)
        PROVE  SecondsInv'
    <3>1. UNCHANGED <<data, saves, acked, overlapped, powerLost>>
      BY <2>5, OtherEffect
    <3>2. PICK s \in saving[w] :
             /\ s \in Calls
             /\ \/ saving' = [saving EXCEPT ![w] = {}]
                \/ saving' = [saving EXCEPT ![w] = {[s EXCEPT !.step = "remove"]}]
             /\ \/ dir' = dir
                \/ dir' = [n \in DOMAIN dir \ {Temp(s.snap.ts)} |-> dir[n]]
      BY <2>5, OtherEffect
    <3>3. [s EXCEPT !.step = "remove"].inode = s.inode /\ [s EXCEPT !.step = "remove"].snap = s.snap
      BY <3>2 DEF Calls
    <3>4. \A i, ts : Refers(i, ts)' => Refers(i, ts)
      BY <2>2, <3>2, <3>3
    <3> QED
      BY <3>1, <3>4, SecondsKept
  <2>6. CASE PowerLost
    <3>1. \A i, ts : Refers(i, ts)' => Refers(i, ts)
      BY <2>6, PowerEffect DEF Refers
    <3> QED
      BY <2>6, <3>1, PowerEffect, SecondsKept
  <2>7. CASE UNCHANGED vars
    <3>1. \A i, ts : Refers(i, ts)' => Refers(i, ts)
      BY <2>7 DEF vars, Refers
    <3> QED
      BY <2>7, <3>1, SecondsKept DEF vars
  <2> QED
    BY <2>1, <2>3, <2>4, <2>5, <2>6, <2>7 DEF Next
<1> QED
  BY <1>1, <1>2

LEMMA LoadIsText ==
    ASSUME TypeInv, SecondsInv, NEW ts \in Loadable
    PROVE  \E s \in saves : s.ts = ts /\ Load(ts) = TextOf(s)
<1> DEFINE f == Blocks(ts)
           last == f[LastSum(f)]
<1>1. /\ Final(ts) \in DOMAIN dir /\ ts \in Seconds /\ Intact(f)
      /\ Refers(dir[Final(ts)], ts)
  <2>1. Final(ts) \in DOMAIN dir /\ ts \in Seconds /\ Intact(f)
    BY DEF Loadable, Listed
  <2> QED
    BY <2>1, NamesOfSecond DEF Refers
<1>2. f \in Seq(Block) /\ BlocksOf(dir[Final(ts)], ts)
  <2>1. dir[Final(ts)] \in DOMAIN data /\ data \in Seq(Seq(Block))
    BY <1>1 DEF TypeInv
  <2> QED
    BY <1>1, <2>1, ElementOfSeq DEF Blocks, SecondsInv
<1>3. LastSum(f) \in 1..Len(f) /\ Len(f) \in Nat
  <2> HIDE DEF f
  <2>1. LastSum(f) \in 0..Len(f) /\ LastSum(f) # 0
    BY <1>1, <1>2, LastSumIsBlock DEF Intact
  <2> QED
    BY <1>2, <2>1, LenProperties
<1>4. last.snap \in saves /\ last.snap.ts = ts /\ last \in Block
  BY <1>2, <1>3, ElementOfSeq DEF BlocksOf, Blocks
<1>5. Append(Text(f), last) = Encode(last.snap)
  BY <1>1 DEF Intact
<1>6. Text(f) \in Seq(Block)
  <2> HIDE DEF f
  <2>1. LastSum(f) - 1 \in 0..Len(f)
    BY <1>3
  <2> QED
    BY <1>2, <2>1, PartOfFile DEF Text
<1>7. Front(Append(Text(f), last)) = Text(f)
  <2> DEFINE t == Text(f)
  <2> HIDE DEF f, last, t
  <2>1. t \in Seq(Block) /\ last \in Block
    BY <1>4, <1>6 DEF t
  <2>2. /\ Append(t, last) \in Seq(Block) /\ Len(Append(t, last)) - 1 = Len(t)
        /\ Append(t, last) = t \o <<last>> /\ <<last>> \in Seq(Block)
    BY <2>1, AppendProperties, AppendIsConcat, LenProperties
  <2>3. SubSeq(t \o <<last>>, 1, Len(t)) = t
    <3>1. CASE Len(t) = 0
      BY <2>1, <3>1, EmptySeq, SubSeqEmpty
    <3>2. CASE Len(t) # 0
      <4>1. 1 \in 1..Len(t) /\ Len(t) \in 1..Len(t)
        BY <2>1, <3>2, LenProperties
      <4>2. SubSeq(t \o <<last>>, 1, Len(t)) = SubSeq(t, 1, Len(t))
        BY <2>1, <2>2, <4>1, SubSeqOfConcat1
      <4> QED
        BY <2>1, <4>2, SubSeqFull
    <3> QED
      BY <3>1, <3>2
  <2> QED
    BY <2>2, <2>3 DEF Front, t
<1> QED
  BY <1>4, <1>5, <1>7 DEF Load, TextOf

\* What Load returns for a second is, whole, a snapshot of that second that Save
\* was called with, whatever writers do to each other's files and whatever a
\* crash leaves of them.
THEOREM IntegrityCorrect == Spec => []IntegrityHolds
<1>1. Init => TypeInv /\ SecondsInv
  BY TypeInvInductive, SecondsInvInductive
<1>2. TypeInv /\ SecondsInv /\ [Next]_vars => TypeInv' /\ SecondsInv'
  BY TypeInvInductive, SecondsInvInductive
<1>3. TypeInv /\ SecondsInv => IntegrityHolds
  BY LoadIsText DEF IntegrityHolds
<1> QED
  BY <1>1, <1>2, <1>3, PTL DEF Spec

\* Every variable of the store keeps its type.
THEOREM TypeCorrect == Spec => []TypeOK
<1>1. TypeInv => TypeOK
  BY TypeInvImplies
<1> QED
  BY <1>1, TypeInvInductive, PTL DEF Spec

-------------------------------------------------------------------------------
(* Acknowledged saves *)

\* Of the seconds with an acknowledged save, and of no other, there is a file,
\* and every name is of a second with a save.
ListedInv ==
    /\ \A n \in DOMAIN dir : ~ n.tmp => \E s \in acked : s.ts = n.ts
    /\ \A n \in DOMAIN dir : \E s \in saves : s.ts = n.ts
    /\ \A s \in acked : Final(s.ts) \in DOMAIN dir

LEMMA ListedInvInductive ==
    /\ Init => ListedInv
    /\ TypeInv /\ ListedInv /\ [Next]_vars => ListedInv'
<1>1. Init => ListedInv
  BY DEF Init, ListedInv
<1>2. ASSUME TypeInv, ListedInv, [Next]_vars
      PROVE  ListedInv'
  <2> USE <1>2
  <2>1. ASSUME NEW w \in Writers, NEW ts \in Seconds, NEW size \in Sizes,
               OpenTemp(w, NewSnap(ts, size))
        PROVE  ListedInv'
    <3>1. PICK snap, inode : Opens(w, snap, inode)
      BY <2>1, OpenEffect
    <3>2. /\ snap.ts \in Seconds /\ saves' = saves \cup {snap} /\ acked' = acked
          /\ DOMAIN dir' = DOMAIN dir \cup {Temp(snap.ts)}
      BY <3>1 DEF Opens, Snap
    <3>3. Temp(snap.ts).tmp /\ Temp(snap.ts).ts = snap.ts
      BY <3>2, NamesOfSecond
    <3> QED
      BY <3>2, <3>3 DEF ListedInv
  <2>2. ASSUME NEW w \in Writers, WriteTemp(w) \/ WriteFails(w)
        PROVE  ListedInv'
    BY <2>2 DEF WriteTemp, WriteFails, ListedInv
  <2>3. ASSUME NEW w \in Writers, RenameTemp(w)
        PROVE  ListedInv'
    <3>1. PICK s \in saving[w] :
             /\ s.step = "rename" /\ s \in Calls
             /\ Temp(s.snap.ts) \in DOMAIN dir
             /\ dir' = [n \in (DOMAIN dir \cup {Final(s.snap.ts)}) \ {Temp(s.snap.ts)} |->
                          IF n = Final(s.snap.ts) THEN dir[Temp(s.snap.ts)] ELSE dir[n]]
             /\ acked' = acked \cup {s.snap}
             /\ saving' = [saving EXCEPT ![w] = {}]
             /\ UNCHANGED <<data, saves, overlapped, powerLost>>
      BY <2>3, RenameEffect
    <3>2. s.snap \in saves /\ s.snap.ts \in Seconds
      BY <3>1 DEF Calls, TypeInv, Snap
    <3>3. /\ Temp(s.snap.ts).tmp /\ ~ Final(s.snap.ts).tmp
          /\ Final(s.snap.ts).ts = s.snap.ts
      BY <3>2, NamesOfSecond
    <3>4. DOMAIN dir' = (DOMAIN dir \cup {Final(s.snap.ts)}) \ {Temp(s.snap.ts)}
      BY <3>1
    <3>5. \A x \in acked' : Final(x.ts) \in DOMAIN dir'
      <4>1. ASSUME NEW x \in acked
            PROVE  Final(x.ts) # Temp(s.snap.ts)
        BY DEF Final, Temp
      <4>2. Final(s.snap.ts) # Temp(s.snap.ts)
        BY DEF Final, Temp
      <4> QED
        BY <3>1, <3>4, <4>1, <4>2 DEF ListedInv
    <3> QED
      BY <3>1, <3>2, <3>3, <3>4, <3>5 DEF ListedInv
  <2>4. ASSUME NEW w \in Writers, RenameFails(w) \/ RemoveTemp(w) \/ Killed(w)
        PROVE  ListedInv'
    <3>1. PICK s \in saving[w] :
             /\ s \in Calls
             /\ \/ dir' = dir
                \/ dir' = [n \in DOMAIN dir \ {Temp(s.snap.ts)} |-> dir[n]]
      BY <2>4, OtherEffect
    <3>2. UNCHANGED <<saves, acked>>
      BY <2>4, OtherEffect
    <3>3. \A x \in acked : Final(x.ts) # Temp(s.snap.ts)
      BY DEF Final, Temp
    <3>4. DOMAIN dir' \subseteq DOMAIN dir
      BY <3>1
    <3>5. \A x \in acked : Final(x.ts) \in DOMAIN dir'
      BY <3>1, <3>3 DEF ListedInv
    <3> QED
      BY <3>2, <3>4, <3>5 DEF ListedInv
  <2>5. CASE PowerLost
    BY <2>5 DEF PowerLost, ListedInv
  <2>6. CASE UNCHANGED vars
    BY <2>6 DEF vars, ListedInv
  <2> QED
    BY <2>1, <2>2, <2>3, <2>4, <2>5, <2>6 DEF Next
<1> QED
  BY <1>1, <1>2

\* A file is only listed when a Save of its second returned nil.
THEOREM ListedCorrect == Spec => []ListedWasAcked
<1>1. Init => TypeInv /\ ListedInv
  BY TypeInvInductive, ListedInvInductive
<1>2. TypeInv /\ ListedInv /\ [Next]_vars => TypeInv' /\ ListedInv'
  BY TypeInvInductive, ListedInvInductive
<1>3. ListedInv => ListedWasAcked
  <2>1. \A ts \in Listed : ts \in Seconds /\ Final(ts) \in DOMAIN dir
    BY DEF Listed
  <2> QED
    BY <2>1, NamesOfSecond DEF ListedInv, ListedWasAcked
<1> QED
  BY <1>1, <1>2, <1>3, PTL DEF Spec

-------------------------------------------------------------------------------
(* Lone snapshots *)

\* The only snapshot of its second.
Lone(snap) == \A t \in saves : t.ts = snap.ts => t = snap

\* No snapshot is saved by two calls, or by one that has returned nil.
CallsInv ==
    /\ \A w, v \in Writers : \A s \in saving[w], t \in saving[v] :
          s.snap = t.snap => w = v /\ s = t
    /\ \A w \in Writers : \A s \in saving[w] : s.snap \notin acked

\* How far the files of a lone snapshot have come.
AtWork(s) ==
    /\ s.step \in {"write", "rename"} => /\ Temp(s.snap.ts) \in DOMAIN dir
                                         /\ dir[Temp(s.snap.ts)] = s.inode
    /\ s.step = "write" => data[s.inode] = <<>>
    /\ s.step = "rename" => data[s.inode] = Encode(s.snap)

Stored(snap) == data[dir[Final(snap.ts)]] = Encode(snap)

LoneInv ==
    ~ powerLost =>
        /\ \A w \in Writers : \A s \in saving[w] : Lone(s.snap) => AtWork(s)
        /\ \A snap \in acked : Lone(snap) => Stored(snap)

Inv == TypeInv /\ SecondsInv /\ ListedInv /\ CallsInv

LEMMA CallsInvInductive ==
    /\ Init => CallsInv
    /\ TypeInv /\ CallsInv /\ [Next]_vars => CallsInv'
<1>1. Init => CallsInv
  BY DEF Init, CallsInv
<1>2. ASSUME TypeInv, CallsInv, [Next]_vars
      PROVE  CallsInv'
  <2> USE <1>2
  \* A call ends, or takes a step, with the same snapshot.
  <2>1. ASSUME NEW w \in Writers, NEW s \in saving[w], NEW t,
               saving' = [saving EXCEPT ![w] = t],
               t = {} \/ (\E x : t = {x} /\ x.snap = s.snap),
               \/ acked' = acked
               \/ acked' = acked \cup {s.snap} /\ t = {}
        PROVE  CallsInv'
    <3>1. saving'[w] = t /\ \A v \in Writers : v # w => saving'[v] = saving[v]
      BY <2>1 DEF TypeInv
    <3>2. ASSUME NEW v \in Writers, NEW x \in saving'[v], NEW u \in Writers, NEW y \in saving'[u],
                 x.snap = y.snap
          PROVE  v = u /\ x = y
      <4>1. CASE v = w /\ u = w
        BY <2>1, <3>1, <3>2, <4>1
      <4>2. CASE v = w /\ u # w
        BY <2>1, <3>1, <3>2, <4>2 DEF CallsInv
      <4>3. CASE v # w /\ u = w
        BY <2>1, <3>1, <3>2, <4>3 DEF CallsInv
      <4>4. CASE v # w /\ u # w
        BY <3>1, <3>2, <4>4 DEF CallsInv
      <4> QED
        BY <4>1, <4>2, <4>3, <4>4
    <3>3. ASSUME NEW v \in Writers, NEW x \in saving'[v]
          PROVE  x.snap \notin acked'
      <4>1. CASE v = w
        BY <2>1, <3>1, <3>3, <4>1 DEF CallsInv
      <4>2. CASE v # w
        <5>1. x \in saving[v] /\ x.snap \notin acked
          BY <3>1, <3>3, <4>2 DEF CallsInv
        <5>2. x.snap # s.snap
          BY <2>1, <4>2, <5>1 DEF CallsInv
        <5> QED
          BY <2>1, <5>1, <5>2
      <4> QED
        BY <4>1, <4>2
    <3> QED
      BY <3>2, <3>3 DEF CallsInv
  <2>2. ASSUME NEW w \in Writers, NEW ts \in Seconds, NEW size \in Sizes,
               OpenTemp(w, NewSnap(ts, size))
        PROVE  CallsInv'
    <3>1. PICK snap, inode : Opens(w, snap, inode)
      BY <2>2, OpenEffect
    <3>2. /\ snap \notin saves /\ acked' = acked /\ acked \subseteq saves
          /\ saving'[w] = {[snap |-> snap, inode |-> inode, step |-> "write"]}
          /\ \A v \in Writers : v # w => saving'[v] = saving[v]
          /\ \A v \in Writers : \A s \in saving[v] : s.snap \in saves
      BY <3>1 DEF Opens, TypeInv, Calls
    <3> QED
      BY <3>2 DEF CallsInv
  <2>3. ASSUME NEW w \in Writers, WriteTemp(w) \/ WriteFails(w)
        PROVE  CallsInv'
    <3>1. PICK s \in saving[w] :
             /\ s.step = "write" /\ s \in Calls
             /\ data' \in Seq(Seq(Block)) /\ DOMAIN data' = DOMAIN data
             /\ \A i \in DOMAIN data : i # s.inode => data'[i] = data[i]
             /\ \A k \in 1..Len(data'[s.inode]) :
                   \/ data'[s.inode][k].snap = s.snap
                   \/ k \in 1..Len(data[s.inode]) /\ data'[s.inode][k] = data[s.inode][k]
             /\ \/ saving' = [saving EXCEPT ![w] = {}]
                \/ /\ saving' = [saving EXCEPT ![w] = {[s EXCEPT !.step = "rename"]}]
                   /\ data[s.inode] = <<>> => data'[s.inode] = Encode(s.snap)
             /\ UNCHANGED <<dir, saves, acked, overlapped, powerLost>>
      BY <2>3, WriteEffect
    <3>2. [s EXCEPT !.step = "rename"].snap = s.snap
      BY <3>1 DEF Calls
    <3> QED
      BY <2>1, <3>1, <3>2
  <2>4. ASSUME NEW w \in Writers, RenameTemp(w)
        PROVE  CallsInv'
    <3>1. PICK s \in saving[w] :
             /\ s.step = "rename" /\ s \in Calls
             /\ Temp(s.snap.ts) \in DOMAIN dir
             /\ dir' = [n \in (DOMAIN dir \cup {Final(s.snap.ts)}) \ {Temp(s.snap.ts)} |->
                          IF n = Final(s.snap.ts) THEN dir[Temp(s.snap.ts)] ELSE dir[n]]
             /\ acked' = acked \cup {s.snap}
             /\ saving' = [saving EXCEPT ![w] = {}]
             /\ UNCHANGED <<data, saves, overlapped, powerLost>>
      BY <2>4, RenameEffect
    <3> QED
      BY <2>1, <3>1
  <2>5. ASSUME NEW w \in Writers, RenameFails(w) \/ RemoveTemp(w) \/ Killed(w)
        PROVE  CallsInv'
    <3>1. UNCHANGED <<data, saves, acked, overlapped, powerLost>>
      BY <2>5, OtherEffect
    <3>2. PICK s \in saving[w] :
             /\ s \in Calls
             /\ \/ saving' = [saving EXCEPT ![w] = {}]
                \/ saving' = [saving EXCEPT ![w] = {[s EXCEPT !.step = "remove"]}]
             /\ \/ dir' = dir
                \/ dir' = [n \in DOMAIN dir \ {Temp(s.snap.ts)} |-> dir[n]]
      BY <2>5, OtherEffect
    <3>3. [s EXCEPT !.step = "remove"].snap = s.snap
      BY <3>2 DEF Calls
    <3> QED
      BY <2>1, <3>1, <3>2, <3>3
  <2>6. CASE PowerLost
    BY <2>6, PowerEffect DEF CallsInv
  <2>7. CASE UNCHANGED vars
    BY <2>7 DEF vars, CallsInv
  <2> QED
    BY <2>2, <2>3, <2>4, <2>5, <2>6, <2>7 DEF Next
<1> QED
  BY <1>1, <1>2

\* A call of the second of a lone snapshot is the call that saves it.
LEMMA OwnSecond ==
    ASSUME Inv, NEW w \in Writers, NEW s \in saving[w]
    PROVE  /\ s.snap \in saves
           /\ \A v \in Writers : \A x \in saving[v] :
                 Lone(x.snap) /\ x.snap.ts = s.snap.ts => v = w /\ x = s
           /\ \A a \in acked : Lone(a) => a.ts # s.snap.ts
<1>1. s.snap \in saves
  BY DEF Inv, TypeInv, Calls
<1> QED
  BY <1>1 DEF Inv, CallsInv, Lone

\* A step touches the names of second us only, and a file of no other.
Aside(us, inode) ==
    /\ \A n \in Names : n.ts # us => /\ n \in DOMAIN dir' <=> n \in DOMAIN dir
                                     /\ n \in DOMAIN dir => dir'[n] = dir[n]
    /\ \A i \in DOMAIN data : i # inode => data'[i] = data[i]
    /\ \A ts : Refers(inode, ts) => ts = us

LEMMA AsideKept ==
    ASSUME Inv, NEW us, NEW inode, Aside(us, inode)
    PROVE  /\ \A w \in Writers : \A s \in saving[w] :
                 s.snap.ts # us /\ AtWork(s) => AtWork(s)'
           /\ \A snap \in acked : snap.ts # us /\ Stored(snap) => Stored(snap)'
<1>1. ASSUME NEW w \in Writers, NEW s \in saving[w], s.snap.ts # us, AtWork(s)
      PROVE  AtWork(s)'
  <2>1. s.snap.ts \in Seconds
    BY DEF Inv, TypeInv, Calls, Snap
  <2>2. Temp(s.snap.ts) \in Names /\ Temp(s.snap.ts).ts = s.snap.ts
    BY <2>1, NamesOfSecond
  <2>3. Refers(s.inode, s.snap.ts)
    BY DEF Refers
  <2>4. s.inode \in DOMAIN data /\ data'[s.inode] = data[s.inode]
    BY <1>1, <2>3, RefersType DEF Inv, Aside
  <2> QED
    BY <1>1, <2>2, <2>4 DEF AtWork, Aside
<1>2. ASSUME NEW snap \in acked, snap.ts # us, Stored(snap)
      PROVE  Stored(snap)'
  <2>1. snap.ts \in Seconds /\ Final(snap.ts) \in DOMAIN dir
    BY DEF Inv, TypeInv, ListedInv, Snap
  <2>2. Final(snap.ts) \in Names /\ Final(snap.ts).ts = snap.ts
    BY <2>1, NamesOfSecond
  <2>3. Refers(dir[Final(snap.ts)], snap.ts)
    BY <2>1, <2>2 DEF Refers
  <2>4. dir[Final(snap.ts)] \in DOMAIN data /\ dir[Final(snap.ts)] # inode
    BY <1>2, <2>3, RefersType DEF Inv, Aside
  <2> QED
    BY <1>2, <2>1, <2>2, <2>4 DEF Stored, Aside
<1> QED
  BY <1>1, <1>2

LEMMA OpenKeepsLone ==
    ASSUME Inv, LoneInv, NEW w \in Writers, NEW snap, NEW inode, Opens(w, snap, inode)
    PROVE  LoneInv'
<1> SUFFICES ASSUME ~ powerLost'
             PROVE  /\ \A v \in Writers : \A s \in saving'[v] : Lone(s.snap)' => AtWork(s)'
                    /\ \A a \in acked' : Lone(a)' => Stored(a)'
  BY DEF LoneInv
<1>1. /\ ~ powerLost /\ acked' = acked /\ acked \subseteq saves
      /\ snap \notin saves /\ saves' = saves \cup {snap} /\ snap.ts \in Seconds
      /\ saving'[w] = {[snap |-> snap, inode |-> inode, step |-> "write"]}
      /\ \A v \in Writers : v # w => saving'[v] = saving[v]
  BY DEF Opens, Snap, Inv, TypeInv
<1>2. \A ts : Refers(inode, ts) => ts = snap.ts
  <2>1. CASE Temp(snap.ts) \in DOMAIN dir
    <3>1. Refers(inode, snap.ts)
      BY <1>1, <2>1, NamesOfSecond DEF Opens, Refers
    <3> QED
      BY <3>1 DEF Inv, SecondsInv
  <2>2. CASE Temp(snap.ts) \notin DOMAIN dir
    BY <2>2, RefersType DEF Opens, Inv
  <2> QED
    BY <2>1, <2>2
<1>3. \A n \in Names : n.ts # snap.ts => /\ n \in DOMAIN dir' <=> n \in DOMAIN dir
                                         /\ n \in DOMAIN dir => dir'[n] = dir[n]
  <2>1. Temp(snap.ts).ts = snap.ts
    BY <1>1, NamesOfSecond
  <2> QED
    BY <2>1 DEF Opens
<1>4. \A i \in DOMAIN data : i # inode => data'[i] = data[i]
  BY DEF Opens
<1>5. /\ \A v \in Writers : \A s \in saving[v] : s.snap.ts # snap.ts /\ AtWork(s) => AtWork(s)'
      /\ \A a \in acked : a.ts # snap.ts /\ Stored(a) => Stored(a)'
  <2>1. Aside(snap.ts, inode)
    BY <1>2, <1>3, <1>4 DEF Aside
  <2> QED
    BY <2>1, AsideKept
<1>6. \A a \in saves : Lone(a)' => Lone(a) /\ a.ts # snap.ts
  BY <1>1 DEF Lone
<1>7. ASSUME NEW v \in Writers, NEW s \in saving'[v], Lone(s.snap)'
      PROVE  AtWork(s)'
  <2>1. CASE v = w
    <3>1. s.step = "write" /\ s.snap = snap /\ s.inode = inode
      BY <1>1, <1>7, <2>1
    <3>2. Temp(snap.ts) \in DOMAIN dir' /\ dir'[Temp(snap.ts)] = inode /\ data'[inode] = <<>>
      BY DEF Opens
    <3> QED
      BY <3>1, <3>2 DEF AtWork
  <2>2. CASE v # w
    <3>1. s \in saving[v] /\ s.snap \in saves
      BY <1>1, <1>7, <2>2, OwnSecond
    <3> QED
      BY <1>1, <1>5, <1>6, <1>7, <3>1 DEF LoneInv
  <2> QED
    BY <2>1, <2>2
<1>8. ASSUME NEW a \in acked', Lone(a)'
      PROVE  Stored(a)'
  BY <1>1, <1>5, <1>6, <1>8 DEF LoneInv
<1> QED
  BY <1>7, <1>8

\* A step of a call under way that stays within the second of its snapshot.
StaysWithin(s) ==
    /\ UNCHANGED <<saves, powerLost>>
    /\ \A n \in Names : n.ts # s.snap.ts => /\ n \in DOMAIN dir' <=> n \in DOMAIN dir
                                            /\ n \in DOMAIN dir => dir'[n] = dir[n]
    /\ \A i \in DOMAIN data : i # s.inode => data'[i] = data[i]

\* It leaves the call and the files of its snapshot as they should be.
DoesItsPart(s, t) ==
    /\ acked' = acked \/ acked' = acked \cup {s.snap}
    /\ \A x \in t : x.snap = s.snap
    /\ ~ powerLost /\ Lone(s.snap) => /\ \A x \in t : AtWork(x)'
                                      /\ s.snap \in acked' => Stored(s.snap)'

LEMMA StepKeepsLone ==
    ASSUME Inv, LoneInv, NEW w \in Writers, NEW s \in saving[w], NEW t,
           saving' = [saving EXCEPT ![w] = t],
           StaysWithin(s), DoesItsPart(s, t)
    PROVE  LoneInv'
<1> SUFFICES ASSUME ~ powerLost'
             PROVE  /\ \A v \in Writers : \A x \in saving'[v] : Lone(x.snap)' => AtWork(x)'
                    /\ \A a \in acked' : Lone(a)' => Stored(a)'
  BY DEF LoneInv
<1>1. saving'[w] = t /\ \A v \in Writers : v # w => saving'[v] = saving[v]
  BY DEF Inv, TypeInv
<1>2. \A ts : Refers(s.inode, ts) => ts = s.snap.ts
  <2>1. Refers(s.inode, s.snap.ts)
    BY DEF Refers
  <2> QED
    BY <2>1 DEF Inv, SecondsInv
<1>3. /\ \A v \in Writers : \A x \in saving[v] : x.snap.ts # s.snap.ts /\ AtWork(x) => AtWork(x)'
      /\ \A a \in acked : a.ts # s.snap.ts /\ Stored(a) => Stored(a)'
  <2>1. Aside(s.snap.ts, s.inode)
    <3>1. \A n \in Names : n.ts # s.snap.ts => /\ n \in DOMAIN dir' <=> n \in DOMAIN dir
                                               /\ n \in DOMAIN dir => dir'[n] = dir[n]
      BY DEF StaysWithin
    <3>2. \A i \in DOMAIN data : i # s.inode => data'[i] = data[i]
      BY DEF StaysWithin
    <3> QED
      BY <1>2, <3>1, <3>2 DEF Aside
  <2> QED
    BY <2>1, AsideKept
<1> USE DEF StaysWithin, DoesItsPart
<1>4. \A a : Lone(a)' => Lone(a)
  BY DEF Lone
<1>5. ASSUME NEW v \in Writers, NEW x \in saving'[v], Lone(x.snap)'
      PROVE  AtWork(x)'
  <2>1. CASE v = w
    BY <1>1, <1>4, <1>5, <2>1
  <2>2. CASE v # w
    <3>1. x \in saving[v] /\ Lone(x.snap)
      BY <1>1, <1>4, <1>5, <2>2
    <3>2. x.snap.ts # s.snap.ts
      BY <2>2, <3>1, OwnSecond
    <3> QED
      BY <1>3, <3>1, <3>2 DEF LoneInv
  <2> QED
    BY <2>1, <2>2
<1>6. ASSUME NEW a \in acked', Lone(a)'
      PROVE  Stored(a)'
  <2>1. CASE a \in acked
    <3>1. Lone(a) /\ a.ts # s.snap.ts
      BY <1>4, <1>6, <2>1, OwnSecond
    <3> QED
      BY <1>3, <2>1, <3>1 DEF LoneInv
  <2>2. CASE a = s.snap
    BY <1>4, <1>6, <2>2
  <2> QED
    BY <1>6, <2>1, <2>2
<1> QED
  BY <1>5, <1>6

LEMMA LoneInvInductive ==
    /\ Init => LoneInv
    /\ Inv /\ LoneInv /\ [Next]_vars => LoneInv'
<1>1. Init => LoneInv
  BY DEF Init, LoneInv
<1>2. ASSUME Inv, LoneInv, [Next]_vars
      PROVE  LoneInv'
  <2> USE <1>2
  <2>0. TypeInv
    BY DEF Inv
  <2>1. ASSUME NEW w \in Writers, NEW ts \in Seconds, NEW size \in Sizes,
               OpenTemp(w, NewSnap(ts, size))
        PROVE  LoneInv'
    BY <2>0, <2>1, OpenEffect, OpenKeepsLone
  <2>2. ASSUME NEW w \in Writers, WriteTemp(w) \/ WriteFails(w)
        PROVE  LoneInv'
    <3>1. PICK s \in saving[w] :
             /\ s.step = "write" /\ s \in Calls
             /\ data' \in Seq(Seq(Block)) /\ DOMAIN data' = DOMAIN data
             /\ \A i \in DOMAIN data : i # s.inode => data'[i] = data[i]
             /\ \A k \in 1..Len(data'[s.inode]) :
                   \/ data'[s.inode][k].snap = s.snap
                   \/ k \in 1..Len(data[s.inode]) /\ data'[s.inode][k] = data[s.inode][k]
             /\ \/ saving' = [saving EXCEPT ![w] = {}]
                \/ /\ saving' = [saving EXCEPT ![w] = {[s EXCEPT !.step = "rename"]}]
                   /\ data[s.inode] = <<>> => data'[s.inode] = Encode(s.snap)
             /\ UNCHANGED <<dir, saves, acked, overlapped, powerLost>>
      BY <2>0, <2>2, WriteEffect
    <3>2. s.snap \notin acked'
      BY <3>1 DEF Inv, CallsInv
    <3>3. CASE saving' = [saving EXCEPT ![w] = {}]
      <4>1. StaysWithin(s) /\ DoesItsPart(s, {})
        BY <3>1, <3>2 DEF StaysWithin, DoesItsPart
      <4> QED
        BY <3>3, <4>1, StepKeepsLone
    <3>4. CASE /\ saving' = [saving EXCEPT ![w] = {[s EXCEPT !.step = "rename"]}]
               /\ data[s.inode] = <<>> => data'[s.inode] = Encode(s.snap)
      <4> DEFINE x == [s EXCEPT !.step = "rename"]
      <4>1. x.snap = s.snap /\ x.inode = s.inode /\ x.step = "rename"
        BY <3>1 DEF Calls
      <4> HIDE DEF x
      <4>2. ~ powerLost /\ Lone(s.snap) => AtWork(s)
        BY DEF LoneInv
      <4>3. ~ powerLost /\ Lone(s.snap) => AtWork(x)'
        BY <3>1, <3>4, <4>1, <4>2 DEF AtWork
      <4>4. saving' = [saving EXCEPT ![w] = {x}]
        BY <3>4 DEF x
      <4> QED
        <5>1. StaysWithin(s) /\ DoesItsPart(s, {x})
          BY <3>1, <3>2, <4>1, <4>3 DEF StaysWithin, DoesItsPart
        <5> QED
          BY <4>4, <5>1, StepKeepsLone
    <3> QED
      BY <3>1, <3>3, <3>4
  <2>3. ASSUME NEW w \in Writers, RenameTemp(w)
        PROVE  LoneInv'
    <3>1. PICK s \in saving[w] :
             /\ s.step = "rename" /\ s \in Calls
             /\ Temp(s.snap.ts) \in DOMAIN dir
             /\ dir' = [n \in (DOMAIN dir \cup {Final(s.snap.ts)}) \ {Temp(s.snap.ts)} |->
                          IF n = Final(s.snap.ts) THEN dir[Temp(s.snap.ts)] ELSE dir[n]]
             /\ acked' = acked \cup {s.snap}
             /\ saving' = [saving EXCEPT ![w] = {}]
             /\ UNCHANGED <<data, saves, overlapped, powerLost>>
      BY <2>0, <2>3, RenameEffect
    <3>2. Temp(s.snap.ts).ts = s.snap.ts /\ Final(s.snap.ts).ts = s.snap.ts
      BY DEF Temp, Final
    <3>3. \A n \in Names : n.ts # s.snap.ts => /\ n \in DOMAIN dir' <=> n \in DOMAIN dir
                                               /\ n \in DOMAIN dir => dir'[n] = dir[n]
      BY <3>1, <3>2
    <3>4. ASSUME ~ powerLost, Lone(s.snap)
          PROVE  Stored(s.snap)'
      <4>1. dir[Temp(s.snap.ts)] = s.inode /\ data[s.inode] = Encode(s.snap)
        BY <3>1, <3>4 DEF LoneInv, AtWork
      <4>2. Final(s.snap.ts) # Temp(s.snap.ts)
        BY DEF Temp, Final
      <4>3. dir'[Final(s.snap.ts)] = s.inode
        BY <3>1, <4>1, <4>2
      <4> QED
        BY <3>1, <4>1, <4>3 DEF Stored
    <3> QED
      <4>1. StaysWithin(s) /\ DoesItsPart(s, {})
        BY <3>1, <3>3, <3>4 DEF StaysWithin, DoesItsPart
      <4> QED
        BY <3>1, <4>1, StepKeepsLone
  <2>4. ASSUME NEW w \in Writers, RenameFails(w) \/ RemoveTemp(w) \/ Killed(w)
        PROVE  LoneInv'
    <3>1. UNCHANGED <<data, saves, acked, overlapped, powerLost>>
      BY <2>0, <2>4, OtherEffect
    <3>2. PICK s \in saving[w] :
             /\ s \in Calls
             /\ \/ saving' = [saving EXCEPT ![w] = {}]
                \/ saving' = [saving EXCEPT ![w] = {[s EXCEPT !.step = "remove"]}]
             /\ \/ dir' = dir
                \/ dir' = [n \in DOMAIN dir \ {Temp(s.snap.ts)} |-> dir[n]]
      BY <2>0, <2>4, OtherEffect
    <3>3. \A n \in Names : n.ts # s.snap.ts => /\ n \in DOMAIN dir' <=> n \in DOMAIN dir
                                               /\ n \in DOMAIN dir => dir'[n] = dir[n]
      <4>1. Temp(s.snap.ts).ts = s.snap.ts
        BY DEF Temp
      <4> QED
        BY <3>2, <4>1
    <3>4. s.snap \notin acked'
      BY <3>1, <3>2 DEF Inv, CallsInv
    <3>5. CASE saving' = [saving EXCEPT ![w] = {}]
      <4>1. StaysWithin(s) /\ DoesItsPart(s, {})
        BY <3>1, <3>3, <3>4 DEF StaysWithin, DoesItsPart
      <4> QED
        BY <3>2, <3>5, <4>1, StepKeepsLone
    <3>6. CASE saving' = [saving EXCEPT ![w] = {[s EXCEPT !.step = "remove"]}]
      <4> DEFINE x == [s EXCEPT !.step = "remove"]
      <4>1. x.snap = s.snap /\ x.step = "remove"
        BY <3>2 DEF Calls
      <4> HIDE DEF x
      <4>2. AtWork(x)'
        BY <4>1 DEF AtWork
      <4>3. saving' = [saving EXCEPT ![w] = {x}]
        BY <3>6 DEF x
      <4> QED
        <5>1. StaysWithin(s) /\ DoesItsPart(s, {x})
          BY <3>1, <3>3, <3>4, <4>1, <4>2 DEF StaysWithin, DoesItsPart
        <5> QED
          BY <4>3, <5>1, StepKeepsLone
    <3> QED
      BY <3>2, <3>5, <3>6
  <2>5. CASE PowerLost
    BY <2>5 DEF PowerLost, LoneInv
  <2>6. CASE UNCHANGED vars
    BY <2>6 DEF vars, LoneInv, Lone, AtWork, Stored
  <2> QED
    BY <2>1, <2>2, <2>3, <2>4, <2>5, <2>6 DEF Next
<1> QED
  BY <1>1, <1>2

\* What Save writes loads, as the text of the snapshot.
LEMMA EncodeLoads ==
    ASSUME NEW snap \in Snap
    PROVE  Intact(Encode(snap)) /\ Text(Encode(snap)) = TextOf(snap)
<1> DEFINE e == Encode(snap)
           n == snap.size
           f == SubSeq(e, 1, n - 1)
<1>1. /\ e \in Seq(Block) /\ Len(e) = n /\ n \in Nat \ {0, 1}
      /\ \A k \in 1..n : e[k].snap = snap /\ (e[k].block = Sum <=> k = n)
  BY EncodeBlocks
<1> HIDE DEF e, n
<1>2. LastSum(e) = n
  <2>1. LastSum(e) \in 0..n /\ (\A i \in DOMAIN e : e[i].block = Sum => i <= LastSum(e))
    BY <1>1, LastSumIsBlock
  <2>2. n \in DOMAIN e /\ e[n].block = Sum
    <3>1. DOMAIN e = 1..n
      BY <1>1, LenProperties
    <3> QED
      BY <1>1, <3>1
  <2> QED
    BY <1>1, <2>1, <2>2
<1>3. Text(e) = f /\ TextOf(snap) = f
  BY <1>1, <1>2 DEF Text, TextOf, Front, e
<1>4. f \in Seq(Block) /\ Len(f) = n - 1 /\ \A k \in 1..(n - 1) : f[k] = e[k]
  <2> HIDE DEF f
  <2>1. 1 \in Nat \ {0} /\ n - 1 \in 0..Len(e)
    BY <1>1
  <2>2. /\ f \in Seq(Block)
        /\ Len(f) = IF 1 <= n - 1 THEN n - 1 - 1 + 1 ELSE 0
        /\ \A k \in 1..Len(f) : f[k] = e[1 + k - 1]
    BY <1>1, <2>1, PartOfFile DEF f
  <2>3. Len(f) = n - 1
    BY <1>1, <2>2
  <2>4. \A k \in 1..(n - 1) : 1 + k - 1 = k
    BY <1>1
  <2> QED
    BY <2>2, <2>3, <2>4
<1>5. Append(f, e[n]) = e
  <2> HIDE DEF f
  <2>1. e[n] \in Block
    BY <1>1, ElementOfSeq
  <2>2. /\ Append(f, e[n]) \in Seq(Block)
        /\ Len(Append(f, e[n])) = Len(f) + 1
        /\ \A k \in 1..Len(f) : Append(f, e[n])[k] = f[k]
        /\ Append(f, e[n])[Len(f) + 1] = e[n]
    BY <1>4, <2>1, AppendProperties
  <2>3. \A k \in 1..n : Append(f, e[n])[k] = e[k]
    BY <1>1, <1>4, <2>2
  <2> QED
    BY <1>1, <1>4, <2>2, <2>3, SeqEqual
<1>6. e[n].snap = snap
  BY <1>1
<1> QED
  BY <1>1, <1>2, <1>3, <1>5, <1>6 DEF Intact, e, n

\* A snapshot that is the only one of its second has a file exactly when its Save
\* returned nil, and the file is the snapshot unless power was lost.
THEOREM IsolatedCorrect == Spec => []SecondsIsolated
<1>1. Init => Inv /\ LoneInv
  BY TypeInvInductive, SecondsInvInductive, ListedInvInductive, CallsInvInductive,
     LoneInvInductive DEF Inv
<1>2. Inv /\ LoneInv /\ [Next]_vars => Inv' /\ LoneInv'
  BY TypeInvInductive, SecondsInvInductive, ListedInvInductive, CallsInvInductive,
     LoneInvInductive DEF Inv
<1>3. Inv /\ LoneInv => SecondsIsolated
  <2> SUFFICES ASSUME Inv, LoneInv, NEW s \in saves, Lone(s)
               PROVE  /\ s.ts \in Listed <=> s \in acked
                      /\ s.ts \in Listed /\ ~ powerLost =>
                            s.ts \in Loadable /\ Load(s.ts) = TextOf(s)
    BY DEF SecondsIsolated, Lone
  <2>1. s \in Snap /\ s.ts \in Seconds /\ acked \subseteq saves
    BY DEF Inv, TypeInv, Snap
  <2>2. s.ts \in Listed <=> Final(s.ts) \in DOMAIN dir
    BY <2>1 DEF Listed
  <2>3. ASSUME s.ts \in Listed
        PROVE  s \in acked
    <3>1. PICK t \in acked : t.ts = s.ts
      BY <2>1, <2>2, <2>3, NamesOfSecond DEF Inv, ListedInv
    <3> QED
      BY <2>1, <3>1 DEF Lone
  <2>4. s \in acked => s.ts \in Listed
    BY <2>2 DEF Inv, ListedInv
  <2>5. ASSUME s.ts \in Listed, ~ powerLost
        PROVE  s.ts \in Loadable /\ Load(s.ts) = TextOf(s)
    <3>1. Blocks(s.ts) = Encode(s)
      BY <2>3, <2>5 DEF LoneInv, Stored, Blocks
    <3>2. Intact(Blocks(s.ts)) /\ Text(Blocks(s.ts)) = TextOf(s)
      BY <2>1, <3>1, EncodeLoads
    <3> QED
      BY <2>5, <3>2 DEF Loadable, Load
  <2> QED
    BY <2>3, <2>4, <2>5
<1> QED
  BY <1>1, <1>2, <1>3, PTL DEF Spec

-------------------------------------------------------------------------------
(* Seconds without overlaps *)

\* Snapshots are told apart by their numbers, and the two names of a second stand
\* for two files.
ApartInv ==
    /\ \A s, t \in saves : s.id = t.id => s = t
    /\ \A ts \in Seconds : Temp(ts) \in DOMAIN dir /\ Final(ts) \in DOMAIN dir =>
          dir[Temp(ts)] # dir[Final(ts)]

\* The last acknowledged snapshot of its second.
Newest(snap) == \A t \in acked : t.ts = snap.ts => t.id <= snap.id

\* A second has one call at work, which saves its newest snapshot, and the file of
\* the second is the last acknowledged one.
AloneInv ==
    ~ overlapped /\ ~ powerLost =>
        /\ \A w, v \in Writers : \A s \in saving[w], t \in saving[v] :
              s.snap.ts = t.snap.ts => w = v /\ s = t
        /\ \A w \in Writers : \A s \in saving[w] :
              AtWork(s) /\ \A t \in saves : t.ts = s.snap.ts => t.id <= s.snap.id
        /\ \A snap \in acked : Newest(snap) => Stored(snap)

LEMMA ApartInvInductive ==
    /\ Init => ApartInv
    /\ TypeInv /\ ApartInv /\ [Next]_vars => ApartInv'
<1>1. Init => ApartInv
  BY DEF Init, ApartInv
<1>2. ASSUME TypeInv, ApartInv, [Next]_vars
      PROVE  ApartInv'
  <2> USE <1>2
  <2>0. \A ts, us : /\ Temp(ts) # Final(us) /\ Final(ts) # Temp(us)
                    /\ (Temp(ts) = Temp(us) \/ Final(ts) = Final(us)) => ts = us
    BY DEF Temp, Final
  <2>1. ASSUME NEW w \in Writers, NEW ts \in Seconds, NEW size \in Sizes,
               OpenTemp(w, NewSnap(ts, size))
        PROVE  ApartInv'
    <3>1. PICK snap, inode : Opens(w, snap, inode)
      BY <2>1, OpenEffect
    <3>2. \A s, t \in saves' : s.id = t.id => s = t
      <4>1. \A s \in saves : s.id \in Nat /\ s.id <= Cardinality(saves)
        BY BoundsAssumption DEF TypeInv, Snap
      <4>2. Cardinality(saves) \in Nat /\ snap.id = Cardinality(saves) + 1 /\ saves' = saves \cup {snap}
        BY <3>1, FS_CardinalityType DEF TypeInv, Opens
      <4>3. \A s \in saves : s.id # snap.id
        BY <4>1, <4>2
      <4> QED
        BY <4>2, <4>3 DEF ApartInv
    <3>3. ASSUME NEW us \in Seconds, Temp(us) \in DOMAIN dir', Final(us) \in DOMAIN dir'
          PROVE  dir'[Temp(us)] # dir'[Final(us)]
      <4>1. Final(us) \in DOMAIN dir /\ dir'[Final(us)] = dir[Final(us)] /\ dir[Final(us)] \in DOMAIN data
        BY <2>0, <3>1, <3>3 DEF Opens, TypeInv
      <4>2. CASE us = snap.ts
        <5>1. dir'[Temp(us)] = inode
          BY <3>1, <4>2 DEF Opens
        <5> QED
          BY <3>1, <4>1, <4>2, <5>1 DEF Opens, ApartInv
      <4>3. CASE us # snap.ts
        <5>1. Temp(us) \in DOMAIN dir /\ dir'[Temp(us)] = dir[Temp(us)]
          BY <2>0, <3>1, <3>3, <4>3 DEF Opens
        <5> QED
          BY <4>1, <5>1 DEF ApartInv
      <4> QED
        BY <4>2, <4>3
    <3> QED
      BY <3>2, <3>3 DEF ApartInv
  <2>2. ASSUME NEW w \in Writers, WriteTemp(w) \/ WriteFails(w)
        PROVE  ApartInv'
    BY <2>2 DEF WriteTemp, WriteFails, ApartInv
  <2>3. ASSUME NEW w \in Writers, RenameTemp(w)
        PROVE  ApartInv'
    <3>1. PICK s \in saving[w] :
             /\ s.step = "rename" /\ s \in Calls
             /\ Temp(s.snap.ts) \in DOMAIN dir
             /\ dir' = [n \in (DOMAIN dir \cup {Final(s.snap.ts)}) \ {Temp(s.snap.ts)} |->
                          IF n = Final(s.snap.ts) THEN dir[Temp(s.snap.ts)] ELSE dir[n]]
             /\ acked' = acked \cup {s.snap}
             /\ saving' = [saving EXCEPT ![w] = {}]
             /\ UNCHANGED <<data, saves, overlapped, powerLost>>
      BY <2>3, RenameEffect
    <3>2. ASSUME NEW us \in Seconds, Temp(us) \in DOMAIN dir', Final(us) \in DOMAIN dir'
          PROVE  dir'[Temp(us)] # dir'[Final(us)]
      <4>1. Temp(us) # Temp(s.snap.ts)
        BY <3>1, <3>2
      <4>2. us # s.snap.ts /\ Final(us) # Final(s.snap.ts) /\ Temp(us) # Final(s.snap.ts)
        BY <2>0, <4>1
      <4>3. /\ Temp(us) \in DOMAIN dir /\ Final(us) \in DOMAIN dir
            /\ dir'[Temp(us)] = dir[Temp(us)] /\ dir'[Final(us)] = dir[Final(us)]
        BY <3>1, <3>2, <4>2
      <4> QED
        BY <4>3 DEF ApartInv
    <3> QED
      BY <3>1, <3>2 DEF ApartInv
  <2>4. ASSUME NEW w \in Writers, RenameFails(w) \/ RemoveTemp(w) \/ Killed(w)
        PROVE  ApartInv'
    <3>1. UNCHANGED saves /\ \E s \in saving[w] :
             \/ dir' = dir
             \/ dir' = [n \in DOMAIN dir \ {Temp(s.snap.ts)} |-> dir[n]]
      BY <2>4, OtherEffect
    <3>2. \A n \in DOMAIN dir' : n \in DOMAIN dir /\ dir'[n] = dir[n]
      BY <3>1
    <3> QED
      BY <3>1, <3>2 DEF ApartInv
  <2>5. CASE PowerLost
    BY <2>5 DEF PowerLost, ApartInv
  <2>6. CASE UNCHANGED vars
    BY <2>6 DEF vars, ApartInv
  <2> QED
    BY <2>1, <2>2, <2>3, <2>4, <2>5, <2>6 DEF Next
<1> QED
  BY <1>1, <1>2

LEMMA OpenKeepsAlone ==
    ASSUME Inv, ApartInv, AloneInv, NEW w \in Writers, NEW snap, NEW inode, Opens(w, snap, inode)
    PROVE  AloneInv'
<1> SUFFICES ASSUME ~ overlapped', ~ powerLost'
             PROVE  /\ \A v, u \in Writers : \A s \in saving'[v], t \in saving'[u] :
                          s.snap.ts = t.snap.ts => v = u /\ s = t
                    /\ \A v \in Writers : \A s \in saving'[v] :
                          AtWork(s)' /\ \A t \in saves' : t.ts = s.snap.ts => t.id <= s.snap.id
                    /\ \A a \in acked' : Newest(a)' => Stored(a)'
  BY DEF AloneInv
<1> DEFINE new == [snap |-> snap, inode |-> inode, step |-> "write"]
<1>1. /\ ~ overlapped /\ ~ powerLost /\ ~ Busy(snap.ts) /\ acked' = acked /\ acked \subseteq saves
      /\ snap \notin saves /\ saves' = saves \cup {snap} /\ snap \in Snap /\ snap.ts \in Seconds
      /\ saving'[w] = {new}
      /\ \A v \in Writers : v # w => saving'[v] = saving[v]
  BY DEF Opens, Snap, Inv, TypeInv
<1>2. new.snap = snap /\ new.step = "write" /\ new.inode = inode
  OBVIOUS
<1> HIDE DEF new
<1>3. \A v \in Writers : \A s \in saving'[v] :
         \/ v = w /\ s = new
         \/ v # w /\ s \in saving[v] /\ s.snap.ts # snap.ts
  BY <1>1 DEF Busy
<1>4. \A ts : Refers(inode, ts) => ts = snap.ts
  <2>1. CASE Temp(snap.ts) \in DOMAIN dir
    <3>1. Refers(inode, snap.ts)
      BY <1>1, <2>1, NamesOfSecond DEF Opens, Refers
    <3> QED
      BY <3>1 DEF Inv, SecondsInv
  <2>2. CASE Temp(snap.ts) \notin DOMAIN dir
    BY <2>2, RefersType DEF Opens, Inv
  <2> QED
    BY <2>1, <2>2
<1>5. /\ \A v \in Writers : \A s \in saving[v] : s.snap.ts # snap.ts /\ AtWork(s) => AtWork(s)'
      /\ \A a \in acked : a.ts # snap.ts /\ Stored(a) => Stored(a)'
  <2>1. \A n \in Names : n.ts # snap.ts => /\ n \in DOMAIN dir' <=> n \in DOMAIN dir
                                           /\ n \in DOMAIN dir => dir'[n] = dir[n]
    <3>1. Temp(snap.ts).ts = snap.ts
      BY <1>1, NamesOfSecond
    <3> QED
      BY <3>1 DEF Opens
  <2>2. \A i \in DOMAIN data : i # inode => data'[i] = data[i]
    BY DEF Opens
  <2>3. Aside(snap.ts, inode)
    BY <1>4, <2>1, <2>2 DEF Aside
  <2> QED
    BY <2>3, AsideKept
<1>6. \A v, u \in Writers : \A s \in saving'[v], t \in saving'[u] :
         s.snap.ts = t.snap.ts => v = u /\ s = t
  <2>1. \A v, u \in Writers : \A s \in saving[v], t \in saving[u] :
           s.snap.ts = t.snap.ts => v = u /\ s = t
    BY <1>1 DEF AloneInv
  <2> QED
    BY <1>2, <1>3, <2>1
<1>7. ASSUME NEW v \in Writers, NEW s \in saving'[v]
      PROVE  AtWork(s)' /\ \A t \in saves' : t.ts = s.snap.ts => t.id <= s.snap.id
  <2>1. CASE s = new
    <3>1. Temp(snap.ts) \in DOMAIN dir' /\ dir'[Temp(snap.ts)] = inode /\ data'[inode] = <<>>
      BY DEF Opens
    <3>2. AtWork(s)'
      BY <1>2, <2>1, <3>1 DEF AtWork
    <3>3. \A t \in saves' : t.id <= snap.id
      <4>1. \A t \in saves : t.id \in Nat /\ t.id <= Cardinality(saves)
        BY BoundsAssumption DEF Inv, TypeInv, Snap
      <4>2. Cardinality(saves) \in Nat /\ snap.id = Cardinality(saves) + 1
        BY FS_CardinalityType DEF Inv, TypeInv, Opens
      <4> QED
        BY <1>1, <4>1, <4>2
    <3> QED
      BY <1>2, <2>1, <3>2, <3>3
  <2>2. CASE s # new
    <3>1. s \in saving[v] /\ s.snap.ts # snap.ts
      BY <1>3, <2>2
    <3>2. AtWork(s) /\ \A t \in saves : t.ts = s.snap.ts => t.id <= s.snap.id
      BY <1>1, <3>1 DEF AloneInv
    <3> QED
      BY <1>1, <1>5, <3>1, <3>2
  <2> QED
    BY <2>1, <2>2
<1>8. ASSUME NEW a \in acked', Newest(a)'
      PROVE  Stored(a)'
  <2>1. a \in acked /\ Stored(a)
    BY <1>1, <1>8 DEF AloneInv, Newest
  <2>2. CASE a.ts # snap.ts
    BY <1>5, <2>1, <2>2
  <2>3. CASE a.ts = snap.ts
    <3>1. Final(a.ts) \in DOMAIN dir /\ Final(a.ts) # Temp(a.ts)
      BY <2>1 DEF Inv, ListedInv, Final, Temp
    <3>2. dir'[Final(a.ts)] = dir[Final(a.ts)] /\ dir[Final(a.ts)] \in DOMAIN data
      BY <2>3, <3>1 DEF Opens, Inv, TypeInv
    <3>3. dir[Final(a.ts)] # inode
      BY <1>1, <2>3, <3>1, <3>2 DEF Opens, ApartInv
    <3> QED
      BY <2>1, <3>2, <3>3 DEF Opens, Stored
  <2> QED
    BY <2>2, <2>3
<1> QED
  BY <1>6, <1>7, <1>8

\* A step of a call leaves its second as AloneInv wants it.
KeepsItsSecond(s, t) ==
    /\ overlapped' = overlapped
    /\ acked' = acked \/ acked' = acked \cup {s.snap}
    /\ t = {} \/ \E x : t = {x} /\ x.snap = s.snap /\ (~ overlapped /\ ~ powerLost => AtWork(x)')
    /\ ~ overlapped /\ ~ powerLost =>
          \A a \in acked' : a.ts = s.snap.ts /\ Newest(a)' => Stored(a)'

LEMMA StepKeepsAlone ==
    ASSUME Inv, AloneInv, NEW w \in Writers, NEW s \in saving[w], NEW t,
           saving' = [saving EXCEPT ![w] = t],
           StaysWithin(s), KeepsItsSecond(s, t)
    PROVE  AloneInv'
<1> SUFFICES ASSUME ~ overlapped', ~ powerLost'
             PROVE  /\ \A v, u \in Writers : \A x \in saving'[v], y \in saving'[u] :
                          x.snap.ts = y.snap.ts => v = u /\ x = y
                    /\ \A v \in Writers : \A x \in saving'[v] :
                          AtWork(x)' /\ \A y \in saves' : y.ts = x.snap.ts => y.id <= x.snap.id
                    /\ \A a \in acked' : Newest(a)' => Stored(a)'
  BY DEF AloneInv
<1>1. /\ ~ overlapped /\ ~ powerLost /\ saves' = saves
      /\ saving'[w] = t /\ \A v \in Writers : v # w => saving'[v] = saving[v]
  BY DEF Inv, TypeInv, StaysWithin, KeepsItsSecond
<1>2. \A x, y \in t : x = y /\ x.snap = s.snap /\ AtWork(x)'
  BY <1>1 DEF KeepsItsSecond
<1>3. \A v \in Writers : \A x \in saving'[v] :
         \/ v = w /\ x \in t /\ x.snap = s.snap
         \/ v # w /\ x \in saving[v] /\ x.snap.ts # s.snap.ts
  <2>1. \A v, u \in Writers : \A x \in saving[v], y \in saving[u] :
           x.snap.ts = y.snap.ts => v = u
    BY <1>1 DEF AloneInv
  <2> QED
    BY <1>1, <1>2, <2>1
<1>4. /\ \A v \in Writers : \A x \in saving[v] : x.snap.ts # s.snap.ts /\ AtWork(x) => AtWork(x)'
      /\ \A a \in acked : a.ts # s.snap.ts /\ Stored(a) => Stored(a)'
  <2>1. Refers(s.inode, s.snap.ts)
    BY DEF Refers
  <2>2. \A ts : Refers(s.inode, ts) => ts = s.snap.ts
    BY <2>1 DEF Inv, SecondsInv
  <2>3. Aside(s.snap.ts, s.inode)
    <3>1. \A n \in Names : n.ts # s.snap.ts => /\ n \in DOMAIN dir' <=> n \in DOMAIN dir
                                               /\ n \in DOMAIN dir => dir'[n] = dir[n]
      BY DEF StaysWithin
    <3>2. \A i \in DOMAIN data : i # s.inode => data'[i] = data[i]
      BY DEF StaysWithin
    <3> QED
      BY <2>2, <3>1, <3>2 DEF Aside
  <2> QED
    BY <2>3, AsideKept
<1>5. \A v, u \in Writers : \A x \in saving'[v], y \in saving'[u] :
         x.snap.ts = y.snap.ts => v = u /\ x = y
  <2>1. \A v, u \in Writers : \A x \in saving[v], y \in saving[u] :
           x.snap.ts = y.snap.ts => v = u /\ x = y
    BY <1>1 DEF AloneInv
  <2> QED
    BY <1>2, <1>3, <2>1
<1>6. ASSUME NEW v \in Writers, NEW x \in saving'[v]
      PROVE  AtWork(x)' /\ \A y \in saves' : y.ts = x.snap.ts => y.id <= x.snap.id
  <2>1. \A u \in Writers : \A z \in saving[u] :
           AtWork(z) /\ \A y \in saves : y.ts = z.snap.ts => y.id <= z.snap.id
    BY <1>1 DEF AloneInv
  <2>2. CASE v = w
    <3>1. x \in t /\ x.snap = s.snap
      BY <1>3, <2>2
    <3> QED
      BY <1>1, <1>2, <2>1, <3>1
  <2>3. CASE v # w
    <3>1. x \in saving[v] /\ x.snap.ts # s.snap.ts
      BY <1>3, <2>3
    <3> QED
      BY <1>1, <1>4, <2>1, <3>1
  <2> QED
    BY <2>2, <2>3
<1>7. ASSUME NEW a \in acked', Newest(a)'
      PROVE  Stored(a)'
  <2>1. CASE a.ts = s.snap.ts
    BY <1>1, <1>7, <2>1 DEF KeepsItsSecond
  <2>2. CASE a.ts # s.snap.ts
    <3>1. a \in acked /\ Newest(a)
      BY <1>7, <2>2 DEF KeepsItsSecond, Newest
    <3>2. Stored(a)
      BY <1>1, <3>1 DEF AloneInv
    <3> QED
      BY <1>4, <2>2, <3>1, <3>2
  <2> QED
    BY <2>1, <2>2
<1> QED
  BY <1>5, <1>6, <1>7

LEMMA AloneInvInductive ==
    /\ Init => AloneInv
    /\ Inv /\ ApartInv /\ AloneInv /\ [Next]_vars => AloneInv'
<1>1. Init => AloneInv
  BY DEF Init, AloneInv
<1>2. ASSUME Inv, ApartInv, AloneInv, [Next]_vars
      PROVE  AloneInv'
  <2> USE <1>2
  <2>0. TypeInv
    BY DEF Inv
  <2>1. ASSUME NEW w \in Writers, NEW ts \in Seconds, NEW size \in Sizes,
               OpenTemp(w, NewSnap(ts, size))
        PROVE  AloneInv'
    BY <2>0, <2>1, OpenEffect, OpenKeepsAlone
  <2>2. ASSUME NEW w \in Writers, WriteTemp(w) \/ WriteFails(w)
        PROVE  AloneInv'
    <3>1. PICK s \in saving[w] :
             /\ s.step = "write" /\ s \in Calls
             /\ data' \in Seq(Seq(Block)) /\ DOMAIN data' = DOMAIN data
             /\ \A i \in DOMAIN data : i # s.inode => data'[i] = data[i]
             /\ \A k \in 1..Len(data'[s.inode]) :
                   \/ data'[s.inode][k].snap = s.snap
                   \/ k \in 1..Len(data[s.inode]) /\ data'[s.inode][k] = data[s.inode][k]
             /\ \/ saving' = [saving EXCEPT ![w] = {}]
                \/ /\ saving' = [saving EXCEPT ![w] = {[s EXCEPT !.step = "rename"]}]
                   /\ data[s.inode] = <<>> => data'[s.inode] = Encode(s.snap)
             /\ UNCHANGED <<dir, saves, acked, overlapped, powerLost>>
      BY <2>0, <2>2, WriteEffect
    <3>2. StaysWithin(s)
      BY <3>1 DEF StaysWithin
    <3>3. ASSUME ~ overlapped, ~ powerLost, NEW a \in acked', a.ts = s.snap.ts, Newest(a)'
          PROVE  Stored(a)'
      <4>1. a \in acked /\ Newest(a) /\ Stored(a)
        BY <3>1, <3>3 DEF AloneInv, Newest
      <4>2. a.ts \in Seconds /\ Final(a.ts) \in DOMAIN dir /\ dir[Final(a.ts)] \in DOMAIN data
        BY <4>1 DEF Inv, TypeInv, ListedInv, Snap
      <4>3. Temp(a.ts) \in DOMAIN dir /\ dir[Temp(a.ts)] = s.inode
        BY <3>1, <3>3 DEF AloneInv, AtWork
      <4>4. dir[Final(a.ts)] # s.inode
        BY <4>2, <4>3 DEF ApartInv
      <4> QED
        BY <3>1, <4>1, <4>2, <4>4 DEF Stored
    <3>4. CASE saving' = [saving EXCEPT ![w] = {}]
      <4>1. KeepsItsSecond(s, {})
        BY <3>1, <3>3 DEF KeepsItsSecond
      <4> QED
        BY <3>2, <3>4, <4>1, StepKeepsAlone
    <3>5. CASE /\ saving' = [saving EXCEPT ![w] = {[s EXCEPT !.step = "rename"]}]
               /\ data[s.inode] = <<>> => data'[s.inode] = Encode(s.snap)
      <4> DEFINE x == [s EXCEPT !.step = "rename"]
      <4>1. x.snap = s.snap /\ x.inode = s.inode /\ x.step = "rename"
        BY <3>1 DEF Calls
      <4> HIDE DEF x
      <4>2. ~ overlapped /\ ~ powerLost => AtWork(s)
        BY DEF AloneInv
      <4>3. ~ overlapped /\ ~ powerLost => AtWork(x)'
        BY <3>1, <3>5, <4>1, <4>2 DEF AtWork
      <4>4. saving' = [saving EXCEPT ![w] = {x}]
        BY <3>5 DEF x
      <4>5. KeepsItsSecond(s, {x})
        BY <3>1, <3>3, <4>1, <4>3 DEF KeepsItsSecond
      <4> QED
        BY <3>2, <4>4, <4>5, StepKeepsAlone
    <3> QED
      BY <3>1, <3>4, <3>5
  <2>3. ASSUME NEW w \in Writers, RenameTemp(w)
        PROVE  AloneInv'
    <3>1. PICK s \in saving[w] :
             /\ s.step = "rename" /\ s \in Calls
             /\ Temp(s.snap.ts) \in DOMAIN dir
             /\ dir' = [n \in (DOMAIN dir \cup {Final(s.snap.ts)}) \ {Temp(s.snap.ts)} |->
                          IF n = Final(s.snap.ts) THEN dir[Temp(s.snap.ts)] ELSE dir[n]]
             /\ acked' = acked \cup {s.snap}
             /\ saving' = [saving EXCEPT ![w] = {}]
             /\ UNCHANGED <<data, saves, overlapped, powerLost>>
      BY <2>0, <2>3, RenameEffect
    <3>2. StaysWithin(s)
      <4>1. Temp(s.snap.ts).ts = s.snap.ts /\ Final(s.snap.ts).ts = s.snap.ts
        BY DEF Temp, Final
      <4>2. \A n \in Names : n.ts # s.snap.ts => /\ n \in DOMAIN dir' <=> n \in DOMAIN dir
                                                 /\ n \in DOMAIN dir => dir'[n] = dir[n]
        BY <3>1, <4>1
      <4> QED
        BY <3>1, <4>2 DEF StaysWithin
    <3>3. ASSUME ~ overlapped, ~ powerLost, NEW a \in acked', a.ts = s.snap.ts, Newest(a)'
          PROVE  Stored(a)'
      <4>1. AtWork(s) /\ \A t \in saves : t.ts = s.snap.ts => t.id <= s.snap.id
        BY <3>3 DEF AloneInv
      <4>2. a = s.snap
        <5>1. a \in saves /\ s.snap \in saves /\ a.id \in Nat /\ s.snap.id \in Nat
          BY <3>1 DEF Inv, TypeInv, Calls, Snap
        <5>2. a.id <= s.snap.id /\ s.snap.id <= a.id
          BY <3>1, <3>3, <4>1, <5>1 DEF Newest
        <5>3. a.id = s.snap.id
          BY <5>1, <5>2
        <5> QED
          BY <5>1, <5>3 DEF ApartInv
      <4>3. dir[Temp(s.snap.ts)] = s.inode /\ data[s.inode] = Encode(s.snap)
        BY <3>1, <4>1 DEF AtWork
      <4>4. Final(s.snap.ts) # Temp(s.snap.ts)
        BY DEF Temp, Final
      <4>5. dir'[Final(s.snap.ts)] = s.inode
        BY <3>1, <4>3, <4>4
      <4> QED
        BY <3>1, <4>2, <4>3, <4>5 DEF Stored
    <3>4. KeepsItsSecond(s, {})
      BY <3>1, <3>3 DEF KeepsItsSecond
    <3> QED
      BY <3>1, <3>2, <3>4, StepKeepsAlone
  <2>4. ASSUME NEW w \in Writers, RenameFails(w) \/ RemoveTemp(w) \/ Killed(w)
        PROVE  AloneInv'
    <3>1. UNCHANGED <<data, saves, acked, overlapped, powerLost>>
      BY <2>0, <2>4, OtherEffect
    <3>2. PICK s \in saving[w] :
             /\ s \in Calls
             /\ \/ saving' = [saving EXCEPT ![w] = {}]
                \/ saving' = [saving EXCEPT ![w] = {[s EXCEPT !.step = "remove"]}]
             /\ \/ dir' = dir
                \/ dir' = [n \in DOMAIN dir \ {Temp(s.snap.ts)} |-> dir[n]]
      BY <2>0, <2>4, OtherEffect
    <3>3. StaysWithin(s)
      <4>1. Temp(s.snap.ts).ts = s.snap.ts
        BY DEF Temp
      <4>2. \A n \in Names : n.ts # s.snap.ts => /\ n \in DOMAIN dir' <=> n \in DOMAIN dir
                                                 /\ n \in DOMAIN dir => dir'[n] = dir[n]
        BY <3>2, <4>1
      <4> QED
        BY <3>1, <4>2 DEF StaysWithin
    <3>4. ASSUME ~ overlapped, ~ powerLost, NEW a \in acked', Newest(a)'
          PROVE  Stored(a)'
      <4>1. a \in acked /\ Stored(a)
        BY <3>1, <3>4 DEF AloneInv, Newest
      <4>2. Final(a.ts) \in DOMAIN dir /\ Final(a.ts) # Temp(s.snap.ts)
        BY <4>1 DEF Inv, ListedInv, Final, Temp
      <4> QED
        BY <3>1, <3>2, <4>1, <4>2 DEF Stored
    <3>5. CASE saving' = [saving EXCEPT ![w] = {}]
      <4>1. KeepsItsSecond(s, {})
        BY <3>1, <3>4 DEF KeepsItsSecond
      <4> QED
        BY <3>2, <3>3, <3>5, <4>1, StepKeepsAlone
    <3>6. CASE saving' = [saving EXCEPT ![w] = {[s EXCEPT !.step = "remove"]}]
      <4> DEFINE x == [s EXCEPT !.step = "remove"]
      <4>1. x.snap = s.snap /\ x.step = "remove"
        BY <3>2 DEF Calls
      <4> HIDE DEF x
      <4>2. AtWork(x)'
        BY <4>1 DEF AtWork
      <4>3. saving' = [saving EXCEPT ![w] = {x}]
        BY <3>6 DEF x
      <4>4. KeepsItsSecond(s, {x})
        BY <3>1, <3>4, <4>1, <4>2 DEF KeepsItsSecond
      <4> QED
        BY <3>2, <3>3, <4>3, <4>4, StepKeepsAlone
    <3> QED
      BY <3>2, <3>5, <3>6
  <2>5. CASE PowerLost
    BY <2>5 DEF PowerLost, AloneInv
  <2>6. CASE UNCHANGED vars
    BY <2>6 DEF vars, AloneInv, Newest, AtWork, Stored
  <2> QED
    BY <2>1, <2>2, <2>3, <2>4, <2>5, <2>6 DEF Next
<1> QED
  BY <1>1, <1>2

\* What the directory shows of a second is its last acknowledged snapshot.
LEMMA LastIsLoaded ==
    ASSUME Inv, AloneInv, ~ overlapped, ~ powerLost, NEW s \in acked
    PROVE  s.ts \in Loadable /\ Load(s.ts) = TextOf(LastAcked(s.ts))
<1> DEFINE ids == {t.id : t \in {u \in acked : u.ts = s.ts}}
           last == LastAcked(s.ts)
<1>1. acked \subseteq Snap /\ \A t \in acked : t.id \in 0..MaxSaves
  BY BoundsAssumption DEF Inv, TypeInv, Snap
<1>2. ids \in SUBSET (0..MaxSaves) /\ ids # {}
  BY <1>1
<1>3. PICK m \in ids : \A i \in ids : m >= i
  <2> HIDE DEF ids
  <2> QED
    BY <1>2, MaxInSet, BoundsAssumption
<1>4. \E t \in acked : t.ts = s.ts /\ \A u \in acked : u.ts = s.ts => u.id <= t.id
  <2>1. PICK t \in acked : t.ts = s.ts /\ t.id = m
    OBVIOUS
  <2>2. \A u \in acked : u.ts = s.ts => u.id <= t.id
    <3>1. \A u \in acked : u.ts = s.ts => u.id \in ids
      OBVIOUS
    <3>2. \A u \in acked : u.id \in Nat /\ m \in Nat
      BY <1>1, <1>2, BoundsAssumption
    <3> HIDE DEF ids
    <3> QED
      BY <1>3, <2>1, <3>1, <3>2
  <2> QED
    BY <2>1, <2>2
<1>5. last \in acked /\ last.ts = s.ts /\ \A u \in acked : u.ts = s.ts => u.id <= last.id
  BY <1>4 DEF LastAcked
<1> HIDE DEF last
<1>6. Stored(last)
  BY <1>5 DEF AloneInv, Newest
<1>7. Blocks(s.ts) = Encode(last)
  BY <1>5, <1>6 DEF Stored, Blocks
<1>8. Intact(Blocks(s.ts)) /\ Text(Blocks(s.ts)) = TextOf(last)
  BY <1>1, <1>5, <1>7, EncodeLoads
<1>9. s.ts \in Listed
  BY <1>1 DEF Inv, ListedInv, Listed, Snap
<1> QED
  BY <1>8, <1>9 DEF Loadable, Load, last

LEMMA HistoryShows == Inv /\ AloneInv => HistoryExact
<1> DEFINE A == {s.ts : s \in acked}
           at == InOrder(A)
           n == Cardinality(A)
<1> SUFFICES ASSUME Inv, AloneInv, ~ overlapped, ~ powerLost
             PROVE  /\ History = [k \in DOMAIN at |-> TextOf(LastAcked(at[k]))]
                    /\ Listed # {} => LatestFound /\ Latest = Last(History)
  BY DEF HistoryExact
<1>1. \A ts \in A : ts \in Loadable /\ Load(ts) = TextOf(LastAcked(ts))
  BY LastIsLoaded
<1>2. Listed = A /\ Loadable = A
  <2>1. Loadable \subseteq Listed /\ A \subseteq Loadable
    BY <1>1 DEF Loadable
  <2>2. Listed \subseteq A
    <3> SUFFICES ASSUME NEW ts \in Listed PROVE ts \in A
      OBVIOUS
    <3>1. Final(ts) \in DOMAIN dir /\ ~ Final(ts).tmp /\ Final(ts).ts = ts
      BY NamesOfSecond DEF Listed
    <3> QED
      BY <3>1 DEF Inv, ListedInv
  <2> QED
    BY <2>1, <2>2
<1>3. A \in SUBSET Nat /\ IsFiniteSet(A)
  <2>1. A \in SUBSET Nat
    BY BoundsAssumption DEF Inv, TypeInv, Snap
  <2>2. IsFiniteSet(acked)
    BY FS_Subset DEF Inv, TypeInv
  <2> DEFINE f == [s \in acked |-> s.ts]
  <2>3. f \in Surjection(acked, A)
    BY DEF Surjection
  <2> HIDE DEF f, A
  <2> QED
    BY <2>1, <2>2, <2>3, FS_Surjection
<1> HIDE DEF A
<1>4. /\ n \in Nat /\ at \in [1..n -> A]
      /\ A # {} => n # 0 /\ \A x \in A : x <= at[n]
  BY <1>3, InOrderSorts
<1> HIDE DEF at, n
<1>5. DOMAIN at = 1..n /\ \A k \in 1..n : at[k] \in A
  BY <1>4
<1>6. History = [k \in 1..n |-> Load(at[k])]
  BY <1>2, <1>5 DEF History, at
<1>7. History = [k \in DOMAIN at |-> TextOf(LastAcked(at[k]))]
  <2>1. \A k \in 1..n : Load(at[k]) = TextOf(LastAcked(at[k]))
    BY <1>1, <1>5
  <2> QED
    BY <1>5, <1>6, <2>1
<1>8. ASSUME Listed # {}
      PROVE  LatestFound /\ Latest = Last(History)
  <2>1. n \in 1..n /\ at[n] \in A /\ \A x \in A : x <= at[n]
    BY <1>2, <1>4, <1>5, <1>8
  <2>2. Max(A) = at[n]
    <3>1. \A x \in A : at[n] >= x /\ x \in Nat
      BY <1>3, <2>1
    <3>2. Max(A) \in A /\ \A x \in A : Max(A) >= x
      BY <2>1, <3>1 DEF Max
    <3> QED
      BY <2>1, <3>1, <3>2
  <2>3. Len(History) = n /\ History[n] = Load(at[n])
    BY <1>4, <1>6, <2>1
  <2> QED
    BY <1>2, <1>8, <2>1, <2>2, <2>3 DEF LatestFound, Latest, Last
<1> QED
  BY <1>7, <1>8

\* While no two saves of a second were at work at once and power was not lost,
\* History is the last acknowledged snapshot of each second, and Latest the last of
\* History, whatever else fails.
THEOREM HistoryCorrect == Spec => []HistoryExact
<1>1. Init => Inv /\ ApartInv /\ AloneInv
  BY TypeInvInductive, SecondsInvInductive, ListedInvInductive, CallsInvInductive,
     ApartInvInductive, AloneInvInductive DEF Inv
<1>2. Inv /\ ApartInv /\ AloneInv /\ [Next]_vars => Inv' /\ ApartInv' /\ AloneInv'
  <2>1. Inv => TypeInv
    BY DEF Inv
  <2>2. Inv /\ [Next]_vars => Inv'
    BY TypeInvInductive, SecondsInvInductive, ListedInvInductive, CallsInvInductive DEF Inv
  <2> QED
    BY <2>1, <2>2, ApartInvInductive, AloneInvInductive
<1> QED
  BY <1>1, <1>2, HistoryShows, PTL DEF Spec

===============================================================================
