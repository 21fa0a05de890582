--------------------------- MODULE LineageLogProofs ---------------------------
(***************************************************************************)
(* The safety of the lineage log for any number of entries, any buffer     *)
(* size and any failures.                                                  *)
(*                                                                         *)
(* What is in the file and what is in the Store's buffer are one stream.   *)
(* No step of a Store changes what the stream already has: Append adds a   *)
(* line at its end, Flush moves it into the file, and every failure cuts   *)
(* it.  So the entries rise in number (OrderInv), under whatever misuse.   *)
(* A log that is only opened where it ends in a newline consists of lines  *)
(* of three tokens (ShapeInv), what was acknowledged is in its synced part *)
(* (PromiseInv), and Compact, alone with the file, replaces it by the      *)
(* lines of what it read (CompactInv).                                     *)
(***************************************************************************)
EXTENDS LineageLog, PositionProofs

-------------------------------------------------------------------------------
(* Entries and their tokens *)

\* What an entry is made of, and the tokens of its line.
Entry == [id : Nat, row : Rows, action : Actions]
Token == [part : {"head", "rest"}, entry : Entry] \cup [part : {"newline"}]

\* Every variable keeps its type, and nothing is buffered while a call waits for Sync.
LogTyped ==
    /\ file \in Seq(Token) /\ synced \in 0..Len(file)
    /\ fd \in {"none", "log", "orphan"} /\ werr \in BOOLEAN /\ buf \in Seq(Token)
    /\ call \in {"none", "flush", "close"} /\ appended \in Nat
    /\ cpc \in {"idle", "write", "rename"}
    /\ kept \in Seq(Entry) /\ tmp \in Seq(Token)
    /\ rewritten \in BOOLEAN
    /\ call # "none" => fd # "none" /\ ~ werr /\ buf = <<>>

\* What the file will hold when the buffer has been written.
Stream == IF fd = "log" THEN file \o buf ELSE file

\* g begins with the whole of f.
Begins(f, g) == Len(f) <= Len(g) /\ \A i \in 1..Len(f) : f[i] = g[i]

-------------------------------------------------------------------------------
(* Tokens *)

\* A token is of one of three kinds, and all but newlines have an entry.
LEMMA TokenKinds ==
    ASSUME NEW t \in Token
    PROVE  /\ t.part \in {"head", "rest", "newline"}
           /\ t.part # "newline" => t.entry \in Entry
BY DEF Token

\* The line of an entry, token by token.
LEMMA LineIsThree ==
    ASSUME NEW e \in Entry
    PROVE  /\ Line(e) \in Seq(Token) /\ Len(Line(e)) = 3
           /\ Line(e)[1] = [part |-> "head", entry |-> e]
           /\ Line(e)[2] = [part |-> "rest", entry |-> e]
           /\ Line(e)[3] = [part |-> "newline"]
BY DEF Line, Token

\* Every position is in one of the lines of three.
LEMMA Thirds ==
    ASSUME NEW i \in Nat, i >= 1
    PROVE  \E k \in Nat : i = 3*k + 1 \/ i = 3*k + 2 \/ i = 3*k + 3
<1>1. (i - 1) \div 3 \in Nat
  BY SMT
<1>2. \/ i = 3*((i - 1) \div 3) + 1
      \/ i = 3*((i - 1) \div 3) + 2
      \/ i = 3*((i - 1) \div 3) + 3
  BY SMT
<1> QED
  BY <1>1, <1>2

\* Which line a position is in, and where in that line.
LEMMA ThirdsOf ==
    ASSUME NEW k \in Nat
    PROVE  /\ (3*k + 1 + 2) \div 3 = k + 1 /\ (3*k + 1 + 2) % 3 = 0
           /\ (3*k + 2 + 2) \div 3 = k + 1 /\ (3*k + 2 + 2) % 3 = 1
           /\ (3*k + 3 + 2) \div 3 = k + 1 /\ (3*k + 3 + 2) % 3 = 2
BY SMT

\* What Compact writes.
LEMMA AllLinesAre ==
    ASSUME NEW es \in Seq(Entry)
    PROVE  /\ AllLines(es) \in Seq(Token) /\ Len(AllLines(es)) = 3 * Len(es)
           /\ \A k \in Nat : k < Len(es) =>
                /\ AllLines(es)[3*k + 1] = [part |-> "head", entry |-> es[k + 1]]
                /\ AllLines(es)[3*k + 2] = [part |-> "rest", entry |-> es[k + 1]]
                /\ AllLines(es)[3*k + 3] = [part |-> "newline"]
<1> DEFINE n == Len(es)
           f == AllLines(es)
<1>1. n \in Nat /\ 3*n \in Nat
  BY LenProperties
<1>2. DOMAIN f = 1..(3*n)
  BY DEF AllLines
<1>3. ASSUME NEW k \in Nat, k < n
      PROVE  /\ es[k + 1] \in Entry
             /\ f[3*k + 1] = [part |-> "head", entry |-> es[k + 1]]
             /\ f[3*k + 2] = [part |-> "rest", entry |-> es[k + 1]]
             /\ f[3*k + 3] = [part |-> "newline"]
  <2>1. k + 1 \in 1..n /\ 3*k + 1 \in 1..(3*n) /\ 3*k + 2 \in 1..(3*n) /\ 3*k + 3 \in 1..(3*n)
    BY <1>1, <1>3
  <2>2. es[k + 1] \in Entry
    BY <2>1, ElementOfSeq
  <2>3. \A i \in 1..(3*n) : f[i] = Line(es[(i + 2) \div 3])[((i + 2) % 3) + 1]
    BY DEF AllLines
  <2>4. /\ f[3*k + 1] = Line(es[k + 1])[1]
        /\ f[3*k + 2] = Line(es[k + 1])[2]
        /\ f[3*k + 3] = Line(es[k + 1])[3]
    <3>1. f[3*k + 1] = Line(es[(3*k + 1 + 2) \div 3])[((3*k + 1 + 2) % 3) + 1]
      BY <2>1, <2>3
    <3>2. f[3*k + 2] = Line(es[(3*k + 2 + 2) \div 3])[((3*k + 2 + 2) % 3) + 1]
      BY <2>1, <2>3
    <3>3. f[3*k + 3] = Line(es[(3*k + 3 + 2) \div 3])[((3*k + 3 + 2) % 3) + 1]
      BY <2>1, <2>3
    <3>4. 0 + 1 = 1 /\ 1 + 1 = 2 /\ 2 + 1 = 3
      OBVIOUS
    <3> QED
      BY <3>1, <3>2, <3>3, <3>4, ThirdsOf
  <2> QED
    BY <2>2, <2>4, LineIsThree
<1>4. ASSUME NEW i \in 1..(3*n)
      PROVE  f[i] \in Token
  <2>1. PICK k \in Nat : i = 3*k + 1 \/ i = 3*k + 2 \/ i = 3*k + 3
    <3>1. i \in Nat /\ i >= 1
      BY <1>1
    <3> QED
      BY <3>1, Thirds
  <2>2. k < n
    BY <1>1, <2>1
  <2>3. \A e \in Entry : /\ [part |-> "head", entry |-> e] \in Token
                        /\ [part |-> "rest", entry |-> e] \in Token
    BY DEF Token
  <2>4. [part |-> "newline"] \in Token
    BY DEF Token
  <2>5. f[3*k + 1] \in Token /\ f[3*k + 2] \in Token /\ f[3*k + 3] \in Token
    BY <1>3, <2>2, <2>3, <2>4
  <2> QED
    BY <2>1, <2>5
<1>5. f \in Seq(Token)
  <2>1. f \in [1..(3*n) -> Token]
    BY <1>2, <1>4 DEF AllLines
  <2> QED
    BY <1>1, <2>1, SeqDef
<1>6. Len(f) = 3*n
  BY <1>1, <1>2, <1>5, LenProperties
<1> QED
  BY <1>3, <1>5, <1>6

-------------------------------------------------------------------------------
(* Reading *)

\* Where ReadLog stops: every line before it parses, and it does not, if it is one.
LEMMA FirstBadIs ==
    ASSUME NEW f \in Seq(Token)
    PROVE  /\ FirstBad(f) \in 1..(Len(f) + 1)
           /\ FirstBad(f) <= Len(f) => FirstBad(f) \in LineStarts(f) /\ ~ Parses(f, FirstBad(f))
           /\ \A i \in LineStarts(f) : i < FirstBad(f) => Parses(f, i)
<1> DEFINE B == {i \in LineStarts(f) : ~ Parses(f, i)} \cup {Len(f) + 1}
<1>1. Len(f) \in Nat /\ DOMAIN f = 1..Len(f)
  BY LenProperties
<1>2. LineStarts(f) \in SUBSET (1..Len(f))
  BY <1>1 DEF LineStarts
<1>3. B \in SUBSET (1..(Len(f) + 1)) /\ B # {} /\ Len(f) + 1 \in B
  BY <1>1, <1>2
<1>4. B \in SUBSET Nat /\ IsFiniteSet(B)
  <2>1. IsFiniteSet(1..(Len(f) + 1))
    BY <1>1, FS_Interval
  <2> HIDE DEF B
  <2>2. IsFiniteSet(B)
    BY <1>3, <2>1, FS_Subset
  <2>3. \A i \in 1..(Len(f) + 1) : i \in Nat
    BY <1>1
  <2> QED
    BY <1>3, <2>2, <2>3
<1>5. Min(B) \in B /\ \A i \in B : Min(B) <= i
  <2> HIDE DEF B
  <2> QED
    BY <1>3, <1>4, MinIsLeast
<1>6. FirstBad(f) = Min(B)
  BY DEF FirstBad
<1>7. FirstBad(f) \in 1..(Len(f) + 1)
  BY <1>3, <1>5, <1>6
<1>8. FirstBad(f) <= Len(f) => FirstBad(f) \in LineStarts(f) /\ ~ Parses(f, FirstBad(f))
  BY <1>1, <1>5, <1>6
<1>9. ASSUME NEW i \in LineStarts(f), i < FirstBad(f)
      PROVE  Parses(f, i)
  <2>1. i \in Nat /\ FirstBad(f) \in Nat /\ ~ (FirstBad(f) <= i)
    BY <1>1, <1>2, <1>7, <1>9
  <2> QED
    BY <1>5, <1>6, <2>1
<1> QED
  BY <1>7, <1>8, <1>9

\* The entries ReadLog returns are those of heads, in the order of the file.
LEMMA EntriesTyped ==
    ASSUME NEW f \in Seq(Token), NEW S, S = {i \in 1..(FirstBad(f) - 1) : f[i].part = "head"}
    PROVE  /\ S \in SUBSET DOMAIN f /\ IsFiniteSet(S) /\ Cardinality(S) \in Nat
           /\ Entries(f) \in Seq(Entry) /\ Len(Entries(f)) = Cardinality(S)
           /\ \A k \in 1..Cardinality(S) : Nth(S, k) \in S /\ Entries(f)[k] = f[Nth(S, k)].entry
<1>1. Len(f) \in Nat /\ DOMAIN f = 1..Len(f)
  BY LenProperties
<1>2. S \in SUBSET DOMAIN f
  BY <1>1, FirstBadIs
<1>3. /\ IsFiniteSet(S) /\ S \in SUBSET Nat
      /\ DOMAIN Pick(f, S) = 1..Cardinality(S)
      /\ \A k \in 1..Cardinality(S) : Nth(S, k) \in S /\ Pick(f, S)[k] = f[Nth(S, k)]
  BY <1>2, PickIsList
<1>4. Cardinality(S) \in Nat
  BY <1>3, FS_CardinalityType
<1>5. Entries(f) = [k \in 1..Cardinality(S) |-> Pick(f, S)[k].entry]
  BY <1>3 DEF Entries
<1>6. \A k \in 1..Cardinality(S) : f[Nth(S, k)].entry \in Entry
  <2> TAKE k \in 1..Cardinality(S)
  <2>1. Nth(S, k) \in DOMAIN f /\ f[Nth(S, k)].part = "head"
    BY <1>2, <1>3
  <2>2. f[Nth(S, k)] \in Token
    BY <1>1, <2>1, ElementOfSeq
  <2> QED
    BY <2>1, <2>2, TokenKinds
<1>7. Entries(f) \in [1..Cardinality(S) -> Entry]
  BY <1>3, <1>5, <1>6
<1>8. Entries(f) \in Seq(Entry)
  BY <1>4, <1>7, SeqDef
<1>9. Len(Entries(f)) = Cardinality(S)
  BY <1>4, <1>7, <1>8, LenProperties
<1> QED
  BY <1>2, <1>3, <1>4, <1>5, <1>8, <1>9

-------------------------------------------------------------------------------
(* The stream *)

\* A part of a list, and what it has at its positions.
LEMMA Cut ==
    ASSUME NEW E, NEW s \in Seq(E), NEW m \in Nat, m >= 1, NEW n \in Nat, n <= Len(s)
    PROVE  /\ SubSeq(s, m, n) \in Seq(E)
           /\ Len(SubSeq(s, m, n)) = IF m <= n THEN n - m + 1 ELSE 0
           /\ \A i \in 1..(n - m + 1) : SubSeq(s, m, n)[i] = s[m + i - 1]
<1>1. Len(s) \in Nat
  BY LenProperties
<1>2. \A i \in m..n : s[i] \in E
  <2> TAKE i \in m..n
  <2>1. i \in 1..Len(s)
    BY <1>1
  <2> QED
    BY <2>1, ElementOfSeq
<1>3. m \in Int /\ n \in Int
  OBVIOUS
<1> QED
  BY <1>2, <1>3, SubSeqProperties

\* The first n members of a list are what it begins with.
LEMMA CutBegins ==
    ASSUME NEW E, NEW s \in Seq(E), NEW n \in Nat, n <= Len(s)
    PROVE  SubSeq(s, 1, n) \in Seq(E) /\ Len(SubSeq(s, 1, n)) = n /\ Begins(SubSeq(s, 1, n), s)
<1>1. /\ SubSeq(s, 1, n) \in Seq(E)
      /\ Len(SubSeq(s, 1, n)) = IF 1 <= n THEN n - 1 + 1 ELSE 0
      /\ \A i \in 1..(n - 1 + 1) : SubSeq(s, 1, n)[i] = s[1 + i - 1]
  BY Cut
<1>2. Len(SubSeq(s, 1, n)) = n
  BY <1>1
<1>3. ASSUME NEW i \in 1..n
      PROVE  SubSeq(s, 1, n)[i] = s[i]
  <2>1. i \in 1..(n - 1 + 1) /\ 1 + i - 1 = i
    OBVIOUS
  <2>2. SubSeq(s, 1, n)[i] = s[1 + i - 1]
    BY <1>1, <2>1
  <2> QED
    BY <2>1, <2>2
<1> QED
  BY <1>1, <1>2, <1>3 DEF Begins

\* What is appended to leaves the beginning as it was.
LEMMA ConcatBegins ==
    ASSUME NEW E, NEW s \in Seq(E), NEW t \in Seq(E)
    PROVE  s \o t \in Seq(E) /\ Begins(s, s \o t)
<1>1. Len(s) \in Nat /\ Len(t) \in Nat
  BY LenProperties
<1>2. /\ s \o t \in Seq(E) /\ Len(s \o t) = Len(s) + Len(t)
      /\ \A i \in 1 .. Len(s) + Len(t) : (s \o t)[i] = IF i <= Len(s) THEN s[i] ELSE t[i - Len(s)]
  BY ConcatProperties
<1> QED
  BY <1>1, <1>2 DEF Begins

\* Begins is reflexive ...
LEMMA BeginsItself ==
    ASSUME NEW E, NEW s \in Seq(E)
    PROVE  Begins(s, s)
BY LenProperties DEF Begins

\* ... and transitive.
LEMMA BeginsTransitive ==
    ASSUME NEW E, NEW s \in Seq(E), NEW t \in Seq(E), NEW u \in Seq(E), Begins(s, t), Begins(t, u)
    PROVE  Begins(s, u)
<1>1. Len(s) \in Nat /\ Len(t) \in Nat /\ Len(u) \in Nat
  BY LenProperties
<1> QED
  BY <1>1 DEF Begins

\* Writing the first n tokens of what is to be written, and keeping up to m.
LEMMA WritePart ==
    ASSUME NEW f \in Seq(Token), NEW all \in Seq(Token),
           NEW n \in Nat, NEW m \in Nat, n <= m, m <= Len(all)
    PROVE  /\ SubSeq(all, 1, n) \in Seq(Token) /\ SubSeq(all, n + 1, m) \in Seq(Token)
           /\ f \o SubSeq(all, 1, n) \in Seq(Token)
           /\ Len(f \o SubSeq(all, 1, n)) = Len(f) + n
           /\ (f \o SubSeq(all, 1, n)) \o SubSeq(all, n + 1, m) = f \o SubSeq(all, 1, m)
           /\ Begins(f \o SubSeq(all, 1, m), f \o all)
           /\ f \o SubSeq(all, 1, Len(all)) = f \o all
<1>1. Len(all) \in Nat /\ Len(f) \in Nat
  BY LenProperties
<1>2. n <= Len(all) /\ n + 1 \in Nat /\ n + 1 >= 1
  BY <1>1
<1>3. /\ SubSeq(all, 1, n) \in Seq(Token) /\ Len(SubSeq(all, 1, n)) = n
      /\ SubSeq(all, 1, m) \in Seq(Token) /\ Len(SubSeq(all, 1, m)) = m
      /\ Begins(SubSeq(all, 1, m), all)
  BY <1>2, CutBegins
<1>4. SubSeq(all, n + 1, m) \in Seq(Token)
  BY <1>2, Cut
<1>5. SubSeq(all, 1, n) \o SubSeq(all, n + 1, m) = SubSeq(all, 1, m)
  <2>1. 1 \in 1..(Len(all) + 1) /\ n \in (1 - 1)..Len(all) /\ m \in n..Len(all)
    BY <1>1
  <2> QED
    BY <2>1, ConcatAdjacentSubSeq
<1>6. (f \o SubSeq(all, 1, n)) \o SubSeq(all, n + 1, m) = f \o SubSeq(all, 1, m)
  <2> DEFINE p == SubSeq(all, 1, n)
             q == SubSeq(all, n + 1, m)
  <2>1. p \in Seq(Token) /\ q \in Seq(Token) /\ p \o q = SubSeq(all, 1, m)
    BY <1>3, <1>4, <1>5
  <2> HIDE DEF p, q
  <2>2. \A x, y \in Seq(Token) : (f \o x) \o y = f \o (x \o y)
    BY ConcatAssociative
  <2>3. (f \o p) \o q = f \o (p \o q)
    BY <2>1, <2>2, Zenon
  <2>4. f \o (p \o q) = f \o SubSeq(all, 1, m)
    BY <2>1
  <2> QED
    BY <2>3, <2>4 DEF p, q
<1>7. /\ f \o SubSeq(all, 1, n) \in Seq(Token)
      /\ Len(f \o SubSeq(all, 1, n)) = Len(f) + n
  BY <1>3, ConcatProperties
<1>8. Begins(f \o SubSeq(all, 1, m), f \o all)
  <2> DEFINE p == SubSeq(all, 1, m)
  <2>1. p \in Seq(Token) /\ Len(p) = m /\ Begins(p, all)
    BY <1>3
  <2> HIDE DEF p
  <2>2. /\ Len(f \o p) = Len(f) + m
        /\ \A i \in 1 .. Len(f) + m : (f \o p)[i] = IF i <= Len(f) THEN f[i] ELSE p[i - Len(f)]
    BY <2>1, ConcatProperties
  <2>3. /\ Len(f \o all) = Len(f) + Len(all)
        /\ \A i \in 1 .. Len(f) + Len(all) : (f \o all)[i] = IF i <= Len(f) THEN f[i] ELSE all[i - Len(f)]
    BY ConcatProperties
  <2>4. \A i \in 1..m : p[i] = all[i]
    BY <2>1 DEF Begins
  <2>5. ASSUME NEW i \in 1..(Len(f) + m)
        PROVE  (f \o p)[i] = (f \o all)[i]
    <3>1. i \in 1..(Len(f) + Len(all)) /\ (~ (i <= Len(f)) => i - Len(f) \in 1..m)
      BY <1>1
    <3> QED
      BY <2>2, <2>3, <2>4, <3>1
  <2>6. Begins(f \o p, f \o all)
    BY <1>1, <2>2, <2>3, <2>5 DEF Begins
  <2> QED
    BY <2>6 DEF p
<1>9. SubSeq(all, 1, Len(all)) = all
  BY SubSeqFull
<1> QED
  BY <1>3, <1>4, <1>6, <1>7, <1>8, <1>9

\* The stream is a list of tokens and begins with the file.
LEMMA StreamTyped ==
    ASSUME LogTyped
    PROVE  Stream \in Seq(Token) /\ Begins(file, Stream)
<1>1. file \in Seq(Token) /\ buf \in Seq(Token)
  BY DEF LogTyped
<1>2. file \o buf \in Seq(Token) /\ Begins(file, file \o buf) /\ Begins(file, file)
  BY <1>1, ConcatBegins, BeginsItself
<1> QED
  BY <1>1, <1>2 DEF Stream

\* The same of the next state.
LEMMA StreamTypedNext ==
    ASSUME LogTyped'
    PROVE  Stream' \in Seq(Token)
<1>1. file' \in Seq(Token) /\ buf' \in Seq(Token)
  BY DEF LogTyped
<1>2. file' \o buf' \in Seq(Token)
  BY <1>1, ConcatProperties
<1> QED
  BY <1>1, <1>2 DEF Stream

\* Readers get a list of entries.
LEMMA VisibleTyped ==
    ASSUME LogTyped
    PROVE  Visible \in Seq(Entry)
<1>1. file \in Seq(Token)
  BY DEF LogTyped
<1> QED
  BY <1>1, EntriesTyped DEF Visible

\* Compaction makes a list of entries of one.
LEMMA CompactedTyped ==
    ASSUME NEW es \in Seq(Entry)
    PROVE  Compacted(es) \in Seq(Entry)
<1> DEFINE K == {i \in DOMAIN es : es[i].row \in Dropped(es) => es[i].action = "DROP"}
<1>1. K \in SUBSET DOMAIN es
  OBVIOUS
<1>2. Compacted(es) = Pick(es, K)
  BY DEF Compacted
<1> HIDE DEF K
<1> QED
  BY <1>1, <1>2, PickIsList

\* Append: the tokens of the new line come to the end of the stream, all of them
\* unless a write fails.
LEMMA AppendStream ==
    ASSUME LogTyped, NEW row \in Rows, NEW action \in Actions, NEW e, e = NewEntry(row, action),
           AppendBuffered(e) \/ AppendSpills(e) \/ AppendShort(e)
    PROVE  /\ e \in Entry /\ e.id = appended + 1 /\ appended' = appended + 1
           /\ LogTyped'
           /\ Begins(file, file')
           /\ Begins(Stream', Stream \o Line(e))
           /\ fd = "log" /\ ~ werr' => Stream' = Stream \o Line(e) /\ session' = session \cup {e}
           /\ ~ werr /\ fd' = fd /\ synced' = synced
           /\ cpc' = cpc /\ kept' = kept /\ tmp' = tmp /\ acked' = acked /\ rewritten' = rewritten
<1> DEFINE all == buf \o Line(e)
<1>1. /\ file \in Seq(Token) /\ buf \in Seq(Token) /\ appended \in Nat /\ Len(file) \in Nat
      /\ Usable /\ Cap \in Nat /\ Cap >= 3
  BY BoundsAssumption, LenProperties DEF LogTyped, AppendBuffered, AppendSpills, AppendShort
<1>2. e \in Entry /\ e.id = appended + 1
  BY <1>1 DEF NewEntry, Entry
<1>3. Line(e) \in Seq(Token) /\ Stream \in Seq(Token)
  BY <1>2, LineIsThree, StreamTyped
<1>4. /\ all \in Seq(Token) /\ Len(all) \in Nat
      /\ file \o all \in Seq(Token)
      /\ (file \o buf) \o Line(e) = file \o all
  <2>1. all \in Seq(Token)
    BY <1>1, <1>3, ConcatProperties
  <2>2. (file \o buf) \o Line(e) = file \o all
    BY <1>1, <1>3, ConcatAssociative
  <2> HIDE DEF all
  <2> QED
    BY <1>1, <2>1, <2>2, ConcatProperties, LenProperties
<1>5. fd = "log" => Stream \o Line(e) = file \o all
  BY <1>4 DEF Stream
<1>6. /\ appended' = appended + 1 /\ fd' = fd /\ call' = call /\ synced' = synced
      /\ ~ werr /\ call = "none" /\ fd # "none"
      /\ cpc' = cpc /\ kept' = kept /\ tmp' = tmp /\ acked' = acked /\ rewritten' = rewritten
      /\ ~ werr' => session' = session \cup {e}
  BY <1>1 DEF AppendBuffered, AppendSpills, AppendShort, compaction, history, Usable
\* What is written, and what is kept.
<1>7. \E n, m \in Nat :
        /\ n <= m /\ m <= Len(all)
        /\ Write(SubSeq(all, 1, n))
        /\ buf' = SubSeq(all, n + 1, m)
        /\ ~ werr' => m = Len(all)
        /\ werr' \in BOOLEAN
  <2>1. CASE AppendBuffered(e)
    <3>1. SubSeq(all, 1, 0) = <<>> /\ SubSeq(all, 0 + 1, Len(all)) = all
      <4> HIDE DEF all
      <4> QED
        BY <1>4, SubSeqFull, SubSeqEmpty
    <3>2. file \o <<>> = file
      BY <1>1, ConcatEmptySeq
    <3>3. buf' = all /\ file' = file /\ werr' = werr
      BY <2>1 DEF AppendBuffered
    <3>4. Write(SubSeq(all, 1, 0))
      BY <3>1, <3>2, <3>3 DEF Write
    <3>5. werr' \in BOOLEAN
      BY <3>3 DEF LogTyped
    <3> HIDE DEF all
    <3>6. 0 \in Nat /\ 0 <= Len(all) /\ Len(all) <= Len(all) /\ buf' = SubSeq(all, 0 + 1, Len(all))
      BY <1>4, <3>1, <3>3
    <3> QED
      BY <1>4, <3>4, <3>5, <3>6
  <2>2. CASE AppendSpills(e)
    <3>1. /\ Len(all) > Cap /\ Write(SubSeq(all, 1, Cap)) /\ buf' = SubSeq(all, Cap + 1, Len(all))
          /\ werr' = werr
      BY <2>2 DEF AppendSpills
    <3>2. Cap <= Len(all) /\ Len(all) <= Len(all) /\ werr' \in BOOLEAN
      BY <1>1, <1>4, <3>1 DEF LogTyped
    <3> QED
      BY <1>1, <1>4, <3>1, <3>2
  <2>3. CASE AppendShort(e)
    <3>1. PICK n \in 0..(Cap - 1) :
            /\ Write(SubSeq(all, 1, n)) /\ buf' = SubSeq(all, n + 1, Cap)
      BY <2>3 DEF AppendShort
    <3>2. Len(all) > Cap /\ werr' = TRUE
      BY <2>3 DEF AppendShort
    <3>3. n \in Nat /\ n <= Cap /\ Cap <= Len(all)
      BY <1>1, <1>4, <3>2
    <3> QED
      BY <1>1, <3>1, <3>2, <3>3
  <2> QED
    BY <2>1, <2>2, <2>3
<1>8. PICK n \in Nat, m \in Nat :
        /\ n <= m /\ m <= Len(all)
        /\ Write(SubSeq(all, 1, n))
        /\ buf' = SubSeq(all, n + 1, m)
        /\ ~ werr' => m = Len(all)
        /\ werr' \in BOOLEAN
  BY <1>7
<1> HIDE DEF all
<1>9. /\ SubSeq(all, 1, n) \in Seq(Token) /\ SubSeq(all, n + 1, m) \in Seq(Token)
      /\ file \o SubSeq(all, 1, n) \in Seq(Token)
      /\ Len(file \o SubSeq(all, 1, n)) = Len(file) + n
      /\ (file \o SubSeq(all, 1, n)) \o SubSeq(all, n + 1, m) = file \o SubSeq(all, 1, m)
      /\ Begins(file \o SubSeq(all, 1, m), file \o all)
      /\ file \o SubSeq(all, 1, Len(all)) = file \o all
  BY <1>1, <1>4, <1>8, WritePart
<1>10. Begins(file, file \o SubSeq(all, 1, n)) /\ Begins(file, file)
  BY <1>1, <1>9, ConcatBegins, BeginsItself
<1>11. file' = IF fd = "log" THEN file \o SubSeq(all, 1, n) ELSE file
  BY <1>8 DEF Write
<1>12. file' \in Seq(Token) /\ Len(file') >= Len(file) /\ Len(file') \in Nat /\ Begins(file, file')
  BY <1>1, <1>9, <1>10, <1>11
<1>13. LogTyped'
  <2>1. synced \in 0..Len(file')
    BY <1>1, <1>12 DEF LogTyped
  <2> QED
    BY <1>1, <1>6, <1>8, <1>9, <1>12, <2>1 DEF LogTyped
<1>14. CASE fd = "log"
  <2>1. Stream' = file \o SubSeq(all, 1, m)
    BY <1>6, <1>8, <1>9, <1>11, <1>14 DEF Stream
  <2>2. ~ werr' => Stream' = Stream \o Line(e)
    BY <1>5, <1>8, <1>9, <1>14, <2>1
  <2> QED
    BY <1>2, <1>5, <1>6, <1>9, <1>12, <1>13, <1>14, <2>1, <2>2
<1>15. CASE fd # "log"
  <2>1. Stream' = Stream
    BY <1>6, <1>11, <1>15 DEF Stream
  <2>2. Begins(Stream, Stream \o Line(e))
    BY <1>3, ConcatBegins
  <2> QED
    BY <1>2, <1>6, <1>12, <1>13, <1>15, <2>1, <2>2
<1> QED
  BY <1>14, <1>15

\* The other steps of the Store, and failures: the stream loses tokens at its end
\* or none at all.
LEMMA FlushStream ==
    ASSUME LogTyped, FlushWrites \/ FlushShort
    PROVE  /\ LogTyped' /\ Stream' = Stream /\ Begins(file, file')
           /\ FlushShort => werr'
<1>1. /\ file \in Seq(Token) /\ buf \in Seq(Token) /\ Len(file) \in Nat /\ Len(buf) \in Nat
      /\ Usable
  BY LenProperties DEF LogTyped, FlushWrites, FlushShort
<1>2. /\ fd' = fd /\ ~ werr /\ call = "none" /\ fd # "none" /\ synced' = synced
      /\ UNCHANGED <<appended, cpc, kept, tmp, acked, rewritten>>
  BY <1>1 DEF FlushWrites, FlushShort, compaction, history, Usable
<1>3. \E n \in Nat : n <= Len(buf) /\ Write(SubSeq(buf, 1, n)) /\ buf' = SubSeq(buf, n + 1, Len(buf))
  <2>1. CASE FlushWrites
    <3>1. SubSeq(buf, 1, Len(buf)) = buf /\ SubSeq(buf, Len(buf) + 1, Len(buf)) = <<>>
      BY <1>1, SubSeqFull, SubSeqEmpty
    <3>2. Write(SubSeq(buf, 1, Len(buf))) /\ buf' = SubSeq(buf, Len(buf) + 1, Len(buf))
      BY <2>1, <3>1 DEF FlushWrites
    <3>3. Len(buf) <= Len(buf)
      BY <1>1
    <3> QED
      BY <1>1, <3>2, <3>3
  <2>2. CASE FlushShort
    BY <1>1, <2>2 DEF FlushShort
  <2> QED
    BY <1>1, <2>1, <2>2 DEF FlushWrites, FlushShort
<1>4. PICK n \in Nat : n <= Len(buf) /\ Write(SubSeq(buf, 1, n)) /\ buf' = SubSeq(buf, n + 1, Len(buf))
  BY <1>3
<1>5. /\ SubSeq(buf, 1, n) \in Seq(Token) /\ SubSeq(buf, n + 1, Len(buf)) \in Seq(Token)
      /\ file \o SubSeq(buf, 1, n) \in Seq(Token)
      /\ Len(file \o SubSeq(buf, 1, n)) = Len(file) + n
      /\ (file \o SubSeq(buf, 1, n)) \o SubSeq(buf, n + 1, Len(buf)) = file \o SubSeq(buf, 1, Len(buf))
      /\ file \o SubSeq(buf, 1, Len(buf)) = file \o buf
  <2>1. PICK m \in Nat : m = Len(buf)
    BY <1>1
  <2>2. n <= m /\ m <= Len(buf)
    BY <1>4, <2>1
  <2>3. /\ SubSeq(buf, 1, n) \in Seq(Token) /\ SubSeq(buf, n + 1, m) \in Seq(Token)
        /\ file \o SubSeq(buf, 1, n) \in Seq(Token)
        /\ Len(file \o SubSeq(buf, 1, n)) = Len(file) + n
        /\ (file \o SubSeq(buf, 1, n)) \o SubSeq(buf, n + 1, m) = file \o SubSeq(buf, 1, m)
        /\ Begins(file \o SubSeq(buf, 1, m), file \o buf)
        /\ file \o SubSeq(buf, 1, Len(buf)) = file \o buf
    <3>1. file \in Seq(Token) /\ buf \in Seq(Token)
      BY <1>1
    <3> QED
      BY <2>2, <3>1, WritePart
  <2> QED
    BY <2>1, <2>3
<1>6. Begins(file, file \o SubSeq(buf, 1, n)) /\ Begins(file, file)
  BY <1>1, <1>5, ConcatBegins, BeginsItself
<1>7. file' = IF fd = "log" THEN file \o SubSeq(buf, 1, n) ELSE file
  BY <1>4 DEF Write
<1>8. file' \in Seq(Token) /\ Len(file') >= Len(file) /\ Len(file') \in Nat /\ Begins(file, file')
  BY <1>1, <1>5, <1>6, <1>7
<1>9. Stream' = Stream
  BY <1>2, <1>4, <1>5, <1>7 DEF Stream
<1>10. /\ werr' \in BOOLEAN /\ call' \in {"none", "flush", "close"}
       /\ call' # "none" => ~ werr' /\ buf' = <<>>
       /\ FlushShort => werr'
  <2>1. CASE FlushWrites
    <3>1. buf' = <<>> /\ call' \in {"flush", "close"} /\ werr' = werr
      BY <2>1 DEF FlushWrites
    <3> QED
      BY <1>2, <2>1, <3>1 DEF FlushShort, LogTyped
  <2>2. CASE FlushShort
    <3>1. call' = call /\ werr' = TRUE
      BY <2>2 DEF FlushShort
    <3> QED
      BY <1>2, <3>1
  <2> QED
    BY <2>1, <2>2
<1>11. synced \in 0..Len(file')
  BY <1>1, <1>8 DEF LogTyped
<1> QED
  BY <1>1, <1>2, <1>4, <1>5, <1>8, <1>9, <1>10, <1>11 DEF LogTyped

\* Steps that leave the file alone drop at most what is buffered.
LEMMA QuietStream ==
    ASSUME LogTyped,
           \/ OpenStore \/ Synced \/ SyncFails \/ WriterKilled
           \/ CompactReads \/ CompactWrites \/ CompactStops \/ UNCHANGED vars
    PROVE  /\ LogTyped' /\ Begins(Stream', Stream) /\ file' = file /\ appended' = appended
<1>1. file \in Seq(Token) /\ buf \in Seq(Token) /\ Len(file) \in Nat /\ kept \in Seq(Entry)
  BY LenProperties DEF LogTyped
<1>2. Begins(file, Stream) /\ Begins(Stream, Stream)
  BY StreamTyped, BeginsItself
<1>3. CASE OpenStore
  <2>1. /\ file' = file /\ synced' = synced /\ fd' = "log" /\ buf' = <<>> /\ ~ werr' /\ werr' \in BOOLEAN
        /\ UNCHANGED <<call, appended, cpc, kept, tmp, rewritten>> /\ call = "none"
    BY <1>3 DEF OpenStore, compaction, history
  <2>2. file \o <<>> = file
    BY <1>1, ConcatEmptySeq
  <2>3. Stream' = file
    BY <2>1, <2>2 DEF Stream
  <2>4. LogTyped'
    BY <1>1, <2>1 DEF LogTyped
  <2> QED
    BY <1>2, <2>1, <2>3, <2>4
<1>4. CASE Synced
  <2>1. /\ file' = file /\ buf' = buf /\ werr' = werr /\ call' = "none" /\ call # "none"
        /\ fd' \in {fd, "none"} /\ rewritten' \in BOOLEAN
        /\ UNCHANGED <<appended, cpc, kept, tmp>>
        /\ synced' \in {synced, Len(file)}
    BY <1>4 DEF Synced, compaction, LogTyped
  <2>2. synced' \in 0..Len(file')
    BY <1>1, <2>1 DEF LogTyped
  <2>3. LogTyped'
    BY <1>1, <2>1, <2>2 DEF LogTyped
  <2>4. Stream' \in {file, Stream}
    BY <2>1 DEF Stream
  <2> QED
    BY <1>2, <2>1, <2>3, <2>4
<1>5. CASE SyncFails \/ UNCHANGED vars
  <2>1. /\ UNCHANGED <<file, synced, fd, buf, werr, appended, cpc, kept, tmp, rewritten>>
        /\ call' \in {"none", call}
    BY <1>5 DEF SyncFails, vars, store, compaction, history
  <2>2. LogTyped' /\ Stream' = Stream
    BY <2>1 DEF LogTyped, Stream
  <2> QED
    BY <1>2, <2>1, <2>2
<1>6. CASE WriterKilled
  <2>1. /\ UNCHANGED <<file, synced, appended, cpc, kept, tmp, rewritten>>
        /\ fd' = "none" /\ buf' = <<>> /\ ~ werr' /\ werr' \in BOOLEAN /\ call' = "none"
    BY <1>6 DEF WriterKilled, Forget, compaction, history
  <2>2. LogTyped' /\ Stream' = file
    BY <1>1, <2>1 DEF LogTyped, Stream
  <2> QED
    BY <1>2, <2>1, <2>2
<1>7. CASE CompactReads \/ CompactWrites \/ CompactStops
  <2>1. UNCHANGED <<file, synced, fd, buf, werr, call, appended, rewritten>>
    BY <1>7 DEF CompactReads, CompactWrites, CompactStops, store, history
  <2>2. cpc' \in {"idle", "write", "rename"}
    BY <1>7 DEF CompactReads, CompactWrites, CompactStops
  <2>3. kept' \in Seq(Entry)
    <3>1. Compacted(Visible) \in Seq(Entry)
      BY VisibleTyped, CompactedTyped
    <3>2. <<>> \in Seq(Entry)
      BY EmptySeq
    <3> QED
      BY <1>1, <1>7, <3>1, <3>2 DEF CompactReads, CompactWrites, CompactStops
  <2>4. tmp' \in Seq(Token)
    <3>1. tmp \in Seq(Token) /\ <<>> \in Seq(Token)
      BY EmptySeq DEF LogTyped
    <3>2. /\ AllLines(kept) \in Seq(Token) /\ Len(AllLines(kept)) \in Nat
          /\ \A n \in 0..Len(AllLines(kept)) : SubSeq(AllLines(kept), 1, n) \in Seq(Token)
      <4>1. AllLines(kept) \in Seq(Token) /\ Len(AllLines(kept)) \in Nat
        BY <1>1, AllLinesAre, LenProperties
      <4>2. \A n \in 0..Len(AllLines(kept)) : n \in Nat /\ n <= Len(AllLines(kept))
        BY <4>1
      <4> QED
        BY <4>1, <4>2, CutBegins
    <3> QED
      BY <1>7, <3>1, <3>2 DEF CompactReads, CompactWrites, CompactStops
  <2>5. LogTyped' /\ Stream' = Stream
    BY <2>1, <2>2, <2>3, <2>4 DEF LogTyped, Stream
  <2> QED
    BY <1>2, <2>1, <2>5
<1> QED
  BY <1>3, <1>4, <1>5, <1>6, <1>7

\* A power loss cuts the file, but not before its synced part.
LEMMA PowerLostStream ==
    ASSUME LogTyped, PowerLost
    PROVE  /\ LogTyped' /\ Begins(Stream', Stream) /\ appended' = appended
           /\ fd' = "none" /\ cpc' = "idle"
           /\ Begins(file', file) /\ synced' = Len(file') /\ synced <= synced'
<1>1. file \in Seq(Token) /\ Len(file) \in Nat /\ synced \in 0..Len(file)
  BY LenProperties DEF LogTyped
<1>2. PICK n \in synced..Len(file) : file' = SubSeq(file, 1, n) /\ synced' = n
  BY DEF PowerLost
<1>3. n \in Nat /\ n <= Len(file) /\ synced <= n
  BY <1>1
<1>4. file' \in Seq(Token) /\ Len(file') = n /\ Begins(file', file)
  BY <1>1, <1>2, <1>3, CutBegins
<1>5. /\ fd' = "none" /\ buf' = <<>> /\ ~ werr' /\ werr' \in BOOLEAN /\ call' = "none"
      /\ cpc' = "idle" /\ kept' = <<>> /\ tmp' = <<>> /\ rewritten' \in BOOLEAN /\ appended' = appended
  BY DEF PowerLost, Forget
<1>6. LogTyped'
  BY <1>1, <1>2, <1>3, <1>4, <1>5, EmptySeq DEF LogTyped
<1>7. Begins(Stream', Stream)
  <2>1. Stream' = file'
    BY <1>5 DEF Stream
  <2> QED
    BY <1>1, <1>4, <2>1, StreamTyped, BeginsTransitive
<1> QED
  BY <1>2, <1>3, <1>4, <1>5, <1>6, <1>7

\* After Compact the stream is its temporary file.
LEMMA RenameStream ==
    ASSUME LogTyped, CompactRenames
    PROVE  /\ LogTyped' /\ Stream' = tmp /\ file' = tmp /\ appended' = appended
           /\ kept' = <<>> /\ tmp' = <<>> /\ fd' # "log"
<1>1. tmp \in Seq(Token) /\ Len(tmp) \in Nat /\ <<>> \in Seq(Token) /\ <<>> \in Seq(Entry)
  BY EmptySeq, LenProperties DEF LogTyped
<1>2. /\ file' = tmp /\ synced' = 0 /\ fd' = (IF fd = "log" THEN "orphan" ELSE fd)
      /\ rewritten' = TRUE /\ cpc' = "idle" /\ kept' = <<>> /\ tmp' = <<>>
      /\ UNCHANGED <<buf, werr, session, call, appended>>
  BY DEF CompactRenames
<1>3. fd' # "log" /\ fd' \in {"none", "log", "orphan"} /\ (fd # "none" => fd' # "none")
  BY <1>2 DEF LogTyped
<1>4. 0 \in 0..Len(tmp)
  BY <1>1
<1>5. LogTyped'
  BY <1>1, <1>2, <1>3, <1>4 DEF LogTyped
<1>6. Stream' = tmp
  BY <1>2, <1>3 DEF Stream
<1> QED
  BY <1>2, <1>3, <1>5, <1>6

-------------------------------------------------------------------------------
(* Entries in order *)

\* The heads of f are those of entries numbered up to n, in the order of their numbers.
HeadsRise(f, n) ==
    /\ \A i \in 1..Len(f) : f[i].part = "head" => f[i].entry.id <= n
    /\ \A i, j \in 1..Len(f) :
          i < j /\ f[i].part = "head" /\ f[j].part = "head" => f[i].entry.id < f[j].entry.id

\* The same of a list of entries.
IdsRise(es, n) ==
    /\ \A i \in 1..Len(es) : es[i].id <= n
    /\ \A i, j \in 1..Len(es) : i < j => es[i].id < es[j].id

\* Whatever has happened to the file, and whatever is yet to be written to it.
OrderInv ==
    /\ LogTyped
    /\ HeadsRise(Stream, appended)
    /\ IdsRise(kept, appended) /\ HeadsRise(tmp, appended)

\* The heads of a part rise.
LEMMA RisesInPart ==
    ASSUME NEW f \in Seq(Token), NEW g \in Seq(Token), NEW n, Begins(f, g), HeadsRise(g, n)
    PROVE  HeadsRise(f, n)
<1>1. Len(f) \in Nat /\ Len(g) \in Nat
  BY LenProperties
<1>2. \A i \in 1..Len(f) : i \in 1..Len(g) /\ f[i] = g[i]
  BY <1>1 DEF Begins
<1> QED
  BY <1>2 DEF HeadsRise

\* A line with the next number may be appended.
LEMMA RisesWithLine ==
    ASSUME NEW f \in Seq(Token), NEW n \in Nat, HeadsRise(f, n), NEW e \in Entry, e.id = n + 1
    PROVE  f \o Line(e) \in Seq(Token) /\ HeadsRise(f \o Line(e), n + 1)
<1> DEFINE g == f \o Line(e)
<1>1. /\ Len(f) \in Nat /\ Line(e) \in Seq(Token) /\ Len(Line(e)) = 3
      /\ Line(e)[1].entry = e /\ Line(e)[2].part # "head" /\ Line(e)[3].part # "head"
  <2>1. /\ Line(e) \in Seq(Token) /\ Len(Line(e)) = 3
        /\ Line(e)[1] = [part |-> "head", entry |-> e]
        /\ Line(e)[2] = [part |-> "rest", entry |-> e]
        /\ Line(e)[3] = [part |-> "newline"]
    BY LineIsThree
  <2>2. Len(f) \in Nat
    BY LenProperties
  <2> QED
    BY <2>1, <2>2
<1>2. /\ g \in Seq(Token) /\ Len(g) = Len(f) + 3
      /\ \A i \in 1 .. Len(f) + 3 : g[i] = IF i <= Len(f) THEN f[i] ELSE Line(e)[i - Len(f)]
  <2> DEFINE l == Line(e)
  <2>1. l \in Seq(Token) /\ Len(l) = 3
    BY <1>1
  <2> HIDE DEF l
  <2>2. /\ f \o l \in Seq(Token) /\ Len(f \o l) = Len(f) + Len(l)
        /\ \A i \in 1 .. Len(f) + Len(l) : (f \o l)[i] = IF i <= Len(f) THEN f[i] ELSE l[i - Len(f)]
    BY <2>1, ConcatProperties
  <2>3. /\ f \o l \in Seq(Token) /\ Len(f \o l) = Len(f) + 3
        /\ \A i \in 1 .. Len(f) + 3 : (f \o l)[i] = IF i <= Len(f) THEN f[i] ELSE l[i - Len(f)]
    BY <2>1, <2>2
  <2> QED
    BY <2>3 DEF l
<1> HIDE DEF g
<1>3. \A i \in 1..Len(f) : f[i].part = "head" => f[i].entry.id \in Nat /\ f[i].entry.id <= n
  <2> TAKE i \in 1..Len(f)
  <2>1. f[i] \in Token
    BY ElementOfSeq
  <2>2. f[i].part = "head" => f[i].entry \in Entry
    BY <2>1, TokenKinds
  <2> QED
    BY <2>2 DEF HeadsRise, Entry
<1>4. ASSUME NEW i \in 1..Len(g), g[i].part = "head"
      PROVE  \/ i <= Len(f) /\ g[i] = f[i] /\ i \in 1..Len(f)
             \/ i = Len(f) + 1 /\ g[i].entry = e
  <2>1. i \in 1..(Len(f) + 3)
    BY <1>2
  <2>2. CASE i <= Len(f)
    BY <1>1, <1>2, <2>1, <2>2
  <2>3. CASE ~ (i <= Len(f))
    <3>1. i - Len(f) \in 1..3 /\ g[i] = Line(e)[i - Len(f)]
      <4>1. g[i] = IF i <= Len(f) THEN f[i] ELSE Line(e)[i - Len(f)]
        BY <1>2, <2>1
      <4>2. i - Len(f) \in 1..3
        BY <1>1, <2>1, <2>3
      <4> QED
        BY <2>3, <4>1, <4>2
    <3>2. PICK k \in 1..3 : k = i - Len(f)
      BY <3>1
    <3>3. k = 1
      BY <1>1, <1>4, <3>1, <3>2
    <3> QED
      BY <1>1, <2>1, <3>1, <3>2, <3>3
  <2> QED
    BY <2>2, <2>3
<1>5. ASSUME NEW i \in 1..Len(g), g[i].part = "head"
      PROVE  g[i].entry.id <= n + 1
  BY <1>3, <1>4, <1>5
<1>6. ASSUME NEW i \in 1..Len(g), NEW j \in 1..Len(g), i < j, g[i].part = "head", g[j].part = "head"
      PROVE  g[i].entry.id < g[j].entry.id
  <2>1. \/ i <= Len(f) /\ g[i] = f[i] /\ i \in 1..Len(f)
        \/ i = Len(f) + 1 /\ g[i].entry = e
    BY <1>4, <1>6
  <2>2. \/ j <= Len(f) /\ g[j] = f[j] /\ j \in 1..Len(f)
        \/ j = Len(f) + 1 /\ g[j].entry = e
    BY <1>4, <1>6
  <2>3. CASE j <= Len(f)
    <3>1. g[j] = f[j] /\ j \in 1..Len(f) /\ g[i] = f[i] /\ i \in 1..Len(f)
      BY <1>1, <1>6, <2>1, <2>2, <2>3
    <3> QED
      BY <1>6, <3>1 DEF HeadsRise
  <2>4. CASE ~ (j <= Len(f))
    <3>1. j = Len(f) + 1 /\ g[j].entry = e
      BY <2>2, <2>4
    <3>2. g[i] = f[i] /\ i \in 1..Len(f)
      BY <1>1, <1>6, <2>1, <3>1
    <3> QED
      BY <1>3, <1>6, <3>1, <3>2
  <2> QED
    BY <2>3, <2>4
<1>7. HeadsRise(g, n + 1)
  BY <1>5, <1>6 DEF HeadsRise
<1> QED
  BY <1>2, <1>7 DEF g

\* A bound on the numbers stays one when another is given out.
LEMMA RisesLater ==
    ASSUME NEW f \in Seq(Token), NEW n \in Nat, HeadsRise(f, n)
    PROVE  HeadsRise(f, n + 1)
<1>1. ASSUME NEW i \in 1..Len(f), f[i].part = "head"
      PROVE  f[i].entry.id <= n + 1
  <2>1. f[i] \in Token
    BY ElementOfSeq
  <2>2. f[i].entry.id \in Nat
    BY <1>1, <2>1, TokenKinds DEF Entry
  <2>3. f[i].entry.id <= n
    BY <1>1 DEF HeadsRise
  <2> QED
    BY <2>2, <2>3
<1> QED
  BY <1>1 DEF HeadsRise

\* The same of a list of entries.
LEMMA IdsRiseLater ==
    ASSUME NEW es \in Seq(Entry), NEW n \in Nat, IdsRise(es, n)
    PROVE  IdsRise(es, n + 1)
<1>1. ASSUME NEW i \in 1..Len(es)
      PROVE  es[i].id <= n + 1
  <2>1. es[i].id \in Nat
    <3>1. es[i] \in Entry
      BY ElementOfSeq
    <3> QED
      BY <3>1 DEF Entry
  <2>2. es[i].id <= n
    BY DEF IdsRise
  <2> QED
    BY <2>1, <2>2
<1> QED
  BY <1>1 DEF IdsRise

\* What is read from such a file.
LEMMA EntriesRise ==
    ASSUME NEW f \in Seq(Token), NEW n, HeadsRise(f, n)
    PROVE  IdsRise(Entries(f), n)
<1> DEFINE S == {i \in 1..(FirstBad(f) - 1) : f[i].part = "head"}
<1>1. /\ S \in SUBSET DOMAIN f /\ IsFiniteSet(S) /\ Cardinality(S) \in Nat
      /\ Entries(f) \in Seq(Entry) /\ Len(Entries(f)) = Cardinality(S)
      /\ \A k \in 1..Cardinality(S) : Nth(S, k) \in S /\ Entries(f)[k] = f[Nth(S, k)].entry
  BY EntriesTyped
<1>2. \A k \in 1..Cardinality(S) : Nth(S, k) \in 1..Len(f) /\ f[Nth(S, k)].part = "head"
  BY <1>1, LenProperties
<1> HIDE DEF S
<1>3. \A k, l \in 1..Cardinality(S) : k < l => Nth(S, k) < Nth(S, l)
  <2>1. S \in SUBSET Nat
    BY <1>1, LenProperties
  <2> QED
    BY <1>1, <2>1, NthLists
<1>4. \A k \in 1..Cardinality(S) : Entries(f)[k].id <= n
  BY <1>1, <1>2 DEF HeadsRise
<1>5. ASSUME NEW k \in 1..Cardinality(S), NEW l \in 1..Cardinality(S), k < l
      PROVE  Entries(f)[k].id < Entries(f)[l].id
  <2>1. Nth(S, k) < Nth(S, l)
    BY <1>3, <1>5
  <2> QED
    BY <1>1, <1>2, <2>1 DEF HeadsRise
<1> QED
  BY <1>1, <1>4, <1>5 DEF IdsRise

\* Compaction keeps the order.
LEMMA CompactedRises ==
    ASSUME NEW es \in Seq(Entry), NEW n, IdsRise(es, n)
    PROVE  IdsRise(Compacted(es), n)
<1> DEFINE K == {i \in DOMAIN es : es[i].row \in Dropped(es) => es[i].action = "DROP"}
<1>1. K \in SUBSET DOMAIN es /\ Compacted(es) = Pick(es, K)
  BY DEF Compacted
<1> HIDE DEF K
<1>2. /\ IsFiniteSet(K) /\ K \in SUBSET Nat
      /\ Pick(es, K) \in Seq(Entry) /\ Len(Pick(es, K)) = Cardinality(K)
      /\ DOMAIN Pick(es, K) = 1..Cardinality(K)
      /\ \A k \in 1..Cardinality(K) : Nth(K, k) \in K /\ Pick(es, K)[k] = es[Nth(K, k)]
  BY <1>1, PickIsList
<1>3. \A k \in 1..Cardinality(K) : Nth(K, k) \in 1..Len(es)
  BY <1>1, <1>2, LenProperties
<1>4. \A k, l \in 1..Cardinality(K) : k < l => Nth(K, k) < Nth(K, l)
  BY <1>2, NthLists
<1>5. \A k, l \in 1..Cardinality(K) : k < l => Pick(es, K)[k].id < Pick(es, K)[l].id
  BY <1>2, <1>3, <1>4 DEF IdsRise
<1>6. \A k \in 1..Cardinality(K) : Pick(es, K)[k].id <= n
  BY <1>2, <1>3 DEF IdsRise
<1> QED
  BY <1>1, <1>2, <1>5, <1>6 DEF IdsRise

\* The lines of a list in order are in order.
LEMMA LinesRise ==
    ASSUME NEW es \in Seq(Entry), NEW n, IdsRise(es, n)
    PROVE  HeadsRise(AllLines(es), n)
<1> DEFINE f == AllLines(es)
<1>1. /\ f \in Seq(Token) /\ Len(f) = 3 * Len(es) /\ Len(es) \in Nat
      /\ \A k \in Nat : k < Len(es) =>
           /\ f[3*k + 1] = [part |-> "head", entry |-> es[k + 1]]
           /\ f[3*k + 2] = [part |-> "rest", entry |-> es[k + 1]]
           /\ f[3*k + 3] = [part |-> "newline"]
  BY AllLinesAre, LenProperties
<1> HIDE DEF f
<1>2. ASSUME NEW i \in 1..Len(f), f[i].part = "head"
      PROVE  \E k \in Nat : i = 3*k + 1 /\ k + 1 \in 1..Len(es) /\ f[i].entry = es[k + 1]
  <2>1. i \in Nat /\ i >= 1 /\ i <= 3 * Len(es)
    BY <1>1
  <2>2. PICK k \in Nat : i = 3*k + 1 \/ i = 3*k + 2 \/ i = 3*k + 3
    BY <2>1, Thirds
  <2>3. k < Len(es) /\ k + 1 \in 1..Len(es)
    BY <1>1, <2>1, <2>2
  <2>4. /\ f[3*k + 1].entry = es[k + 1]
        /\ f[3*k + 2].part = "rest"
        /\ f[3*k + 3].part = "newline"
    <3>1. /\ f[3*k + 1] = [part |-> "head", entry |-> es[k + 1]]
          /\ f[3*k + 2] = [part |-> "rest", entry |-> es[k + 1]]
          /\ f[3*k + 3] = [part |-> "newline"]
      BY <1>1, <2>3
    <3> QED
      BY <3>1
  <2>5. i = 3*k + 1
    BY <1>2, <2>2, <2>4
  <2> QED
    BY <2>3, <2>4, <2>5
<1>3. ASSUME NEW i \in 1..Len(f), f[i].part = "head"
      PROVE  f[i].entry.id <= n
  BY <1>2, <1>3 DEF IdsRise
<1>4. ASSUME NEW i \in 1..Len(f), NEW j \in 1..Len(f), i < j, f[i].part = "head", f[j].part = "head"
      PROVE  f[i].entry.id < f[j].entry.id
  <2>1. PICK k \in Nat : i = 3*k + 1 /\ k + 1 \in 1..Len(es) /\ f[i].entry = es[k + 1]
    BY <1>2, <1>4
  <2>2. PICK l \in Nat : j = 3*l + 1 /\ l + 1 \in 1..Len(es) /\ f[j].entry = es[l + 1]
    BY <1>2, <1>4
  <2>3. k + 1 < l + 1
    BY <1>4, <2>1, <2>2
  <2> QED
    BY <2>1, <2>2, <2>3 DEF IdsRise
<1>5. HeadsRise(f, n)
  BY <1>3, <1>4 DEF HeadsRise
<1> QED
  BY <1>5 DEF f

\* The empty log is in order.
LEMMA OrderInit ==
    ASSUME Init
    PROVE  OrderInv
<1>1. LogTyped /\ Stream = <<>>
  <2>1. <<>> \in Seq(Token) /\ <<>> \in Seq(Entry) /\ Len(<<>>) = 0 /\ 0 \in 0..0
    BY EmptySeq
  <2> QED
    BY <2>1 DEF Init, LogTyped, Stream
<1>2. Len(<<>>) = 0
  OBVIOUS
<1> QED
  BY <1>1, <1>2 DEF OrderInv, HeadsRise, IdsRise, Init

\* Every step keeps the order, torn logs and compaction under an open Store included.
LEMMA OrderStep ==
    ASSUME OrderInv, [Next]_vars
    PROVE  OrderInv'
<1>1. /\ LogTyped /\ HeadsRise(Stream, appended)
      /\ IdsRise(kept, appended) /\ HeadsRise(tmp, appended)
      /\ Stream \in Seq(Token) /\ tmp \in Seq(Token) /\ kept \in Seq(Entry) /\ appended \in Nat
  BY StreamTyped DEF OrderInv, LogTyped
<1>2. HeadsRise(<<>>, appended) /\ IdsRise(<<>>, appended)
  BY DEF HeadsRise, IdsRise
<1>3. ASSUME NEW row \in Rows, NEW action \in Actions,
             LET e == NewEntry(row, action)
             IN  AppendBuffered(e) \/ AppendSpills(e) \/ AppendShort(e)
      PROVE  OrderInv'
  <2> DEFINE e == NewEntry(row, action)
  <2>1. /\ e \in Entry /\ e.id = appended + 1 /\ appended' = appended + 1
        /\ LogTyped' /\ Begins(Stream', Stream \o Line(e))
        /\ kept' = kept /\ tmp' = tmp
    BY <1>1, <1>3, AppendStream
  <2> HIDE DEF e
  <2>2. Stream \o Line(e) \in Seq(Token) /\ HeadsRise(Stream \o Line(e), appended + 1)
    BY <1>1, <2>1, RisesWithLine
  <2>3. Stream' \in Seq(Token)
    BY <2>1, StreamTypedNext
  <2>4. HeadsRise(Stream', appended + 1)
    BY <2>1, <2>2, <2>3, RisesInPart
  <2>5. IdsRise(kept, appended + 1) /\ HeadsRise(tmp, appended + 1)
    BY <1>1, RisesLater, IdsRiseLater
  <2> QED
    BY <2>1, <2>4, <2>5 DEF OrderInv
<1>4. ASSUME LogTyped', Begins(Stream', Stream), appended' = appended,
             IdsRise(kept', appended), HeadsRise(tmp', appended)
      PROVE  OrderInv'
  <2>1. Stream' \in Seq(Token)
    BY <1>4, StreamTypedNext
  <2>2. HeadsRise(Stream', appended)
    BY <1>1, <1>4, <2>1, RisesInPart
  <2> QED
    BY <1>4, <2>2 DEF OrderInv
<1>5. CASE FlushWrites \/ FlushShort
  <2>1. LogTyped' /\ Stream' = Stream
    BY <1>1, <1>5, FlushStream
  <2>2. appended' = appended /\ kept' = kept /\ tmp' = tmp
    BY <1>5 DEF FlushWrites, FlushShort, compaction
  <2>3. Begins(Stream', Stream)
    BY <1>1, <2>1, BeginsItself
  <2> QED
    BY <1>1, <1>4, <2>1, <2>2, <2>3
<1>6. CASE OpenStore \/ Synced \/ SyncFails \/ WriterKilled \/ UNCHANGED vars
  <2>1. LogTyped' /\ Begins(Stream', Stream) /\ appended' = appended
    BY <1>1, <1>6, QuietStream
  <2>2. kept' = kept /\ tmp' = tmp
    BY <1>6 DEF OpenStore, Synced, SyncFails, WriterKilled, vars, compaction
  <2> QED
    BY <1>1, <1>4, <2>1, <2>2
<1>7. CASE CompactReads
  <2>1. LogTyped' /\ Begins(Stream', Stream) /\ appended' = appended
    BY <1>1, <1>7, QuietStream
  <2>2. kept' = Compacted(Visible) /\ tmp' = tmp
    BY <1>7 DEF CompactReads
  <2>3. file \in Seq(Token) /\ Begins(file, Stream)
    BY <1>1, StreamTyped DEF LogTyped
  <2>4. HeadsRise(file, appended)
    BY <1>1, <2>3, RisesInPart
  <2>5. IdsRise(Visible, appended) /\ Visible \in Seq(Entry)
    BY <1>1, <2>3, <2>4, EntriesRise, VisibleTyped DEF Visible
  <2>6. IdsRise(kept', appended)
    BY <2>2, <2>5, CompactedRises
  <2> QED
    BY <1>1, <1>4, <2>1, <2>2, <2>6
<1>8. CASE CompactWrites
  <2>1. LogTyped' /\ Begins(Stream', Stream) /\ appended' = appended
    BY <1>1, <1>8, QuietStream
  <2> DEFINE lines == AllLines(kept)
  <2>2. lines \in Seq(Token) /\ Len(lines) \in Nat /\ HeadsRise(lines, appended)
    BY <1>1, AllLinesAre, LinesRise, LenProperties
  <2>3. \/ tmp' = lines
        \/ \E n \in 0..Len(lines) : tmp' = SubSeq(lines, 1, n)
    BY <1>8 DEF CompactWrites
  <2>4. kept' = kept
    BY <1>8 DEF CompactWrites
  <2> HIDE DEF lines
  <2>5. HeadsRise(tmp', appended)
    <3>1. ASSUME NEW n \in 0..Len(lines), tmp' = SubSeq(lines, 1, n)
          PROVE  HeadsRise(tmp', appended)
      <4>1. n \in Nat /\ n <= Len(lines)
        BY <2>2
      <4>2. SubSeq(lines, 1, n) \in Seq(Token) /\ Begins(SubSeq(lines, 1, n), lines)
        BY <2>2, <4>1, CutBegins
      <4> QED
        BY <2>2, <3>1, <4>2, RisesInPart
    <3> QED
      BY <2>2, <2>3, <3>1
  <2> QED
    BY <1>1, <1>4, <2>1, <2>4, <2>5
<1>9. CASE CompactStops
  <2>1. LogTyped' /\ Begins(Stream', Stream) /\ appended' = appended
    BY <1>1, <1>9, QuietStream
  <2>2. kept' = <<>> /\ tmp' = <<>>
    BY <1>9 DEF CompactStops
  <2> QED
    BY <1>2, <1>4, <2>1, <2>2
<1>10. CASE CompactRenames
  <2>1. LogTyped' /\ Stream' = tmp /\ appended' = appended /\ kept' = <<>> /\ tmp' = <<>>
    BY <1>1, <1>10, RenameStream
  <2> QED
    BY <1>1, <1>2, <2>1 DEF OrderInv
<1>11. CASE PowerLost
  <2>1. LogTyped' /\ Begins(Stream', Stream) /\ appended' = appended
    BY <1>1, <1>11, PowerLostStream
  <2>2. kept' = <<>> /\ tmp' = <<>>
    BY <1>11 DEF PowerLost
  <2> QED
    BY <1>2, <1>4, <2>1, <2>2
<1> QED
  BY <1>3, <1>5, <1>6, <1>7, <1>8, <1>9, <1>10, <1>11 DEF Next

\* What ReadLog returns is in the order it was appended in, no entry twice, for
\* every use of the log and every failure of its environment.
THEOREM EntriesCorrect == Spec => []EntriesInOrder
<1>1. Init => OrderInv
  BY OrderInit
<1>2. OrderInv /\ [Next]_vars => OrderInv'
  BY OrderStep
<1>3. OrderInv => EntriesInOrder
  <2> SUFFICES ASSUME OrderInv
               PROVE  EntriesInOrder
    OBVIOUS
  <2>1. LogTyped /\ file \in Seq(Token) /\ Stream \in Seq(Token) /\ Begins(file, Stream)
    BY StreamTyped DEF OrderInv, LogTyped
  <2>2. HeadsRise(file, appended)
    BY <2>1, RisesInPart DEF OrderInv
  <2>3. IdsRise(Visible, appended) /\ DOMAIN Visible = 1..Len(Visible)
    BY <2>1, <2>2, EntriesRise, VisibleTyped, LenProperties DEF Visible
  <2> QED
    BY <2>3 DEF IdsRise, EntriesInOrder
<1> QED
  BY <1>1, <1>2, <1>3, PTL DEF Spec

-------------------------------------------------------------------------------
(* Lines *)

\* The tokens of f come in lines of three, the last one of which may be cut.
Shaped(f) ==
    \A k \in Nat :
       /\ 3*k + 1 <= Len(f) => f[3*k + 1].part = "head"
       /\ 3*k + 2 <= Len(f) => f[3*k + 2].part = "rest" /\ f[3*k + 2].entry = f[3*k + 1].entry
       /\ 3*k + 3 <= Len(f) => f[3*k + 3].part = "newline"

\* The last line of f is complete.
Whole(f) == \E k \in Nat : Len(f) = 3*k

\* A log that is only opened at the end of a line consists of lines, and what an
\* unfailing Store has buffered completes the last one.
ShapeInv ==
    /\ LogTyped
    /\ Shaped(Stream) /\ Shaped(tmp)
    /\ fd = "log" /\ ~ werr => Whole(Stream)

\* What a list of lines has at the positions of its line k.
LEMMA ShapedAt ==
    ASSUME NEW f, Shaped(f), NEW k \in Nat
    PROVE  /\ 3*k + 1 <= Len(f) => f[3*k + 1].part = "head"
           /\ 3*k + 2 <= Len(f) => f[3*k + 2].part = "rest" /\ f[3*k + 2].entry = f[3*k + 1].entry
           /\ 3*k + 3 <= Len(f) => f[3*k + 3].part = "newline"
BY DEF Shaped

\* An empty log has no lines.
LEMMA EmptyShaped == Shaped(<<>>) /\ Whole(<<>>)
<1>1. Len(<<>>) = 0 /\ 0 = 3 * 0
  OBVIOUS
<1>2. \A k \in Nat : ~ (3*k + 1 <= 0) /\ ~ (3*k + 2 <= 0) /\ ~ (3*k + 3 <= 0)
  OBVIOUS
<1> QED
  BY <1>1, <1>2 DEF Shaped, Whole

\* A log that is cut anywhere has a shorter last line.
LEMMA ShapedInPart ==
    ASSUME NEW f \in Seq(Token), NEW g \in Seq(Token), Begins(f, g), Shaped(g)
    PROVE  Shaped(f)
<1>1. Len(f) \in Nat /\ Len(g) \in Nat /\ Len(f) <= Len(g)
  BY LenProperties DEF Begins
<1>2. \A i \in 1..Len(f) : f[i] = g[i]
  BY DEF Begins
<1>3. ASSUME NEW k \in Nat
      PROVE  /\ 3*k + 1 <= Len(f) => f[3*k + 1].part = "head"
             /\ 3*k + 2 <= Len(f) => f[3*k + 2].part = "rest" /\ f[3*k + 2].entry = f[3*k + 1].entry
             /\ 3*k + 3 <= Len(f) => f[3*k + 3].part = "newline"
  <2>1. /\ 3*k + 1 <= Len(g) => g[3*k + 1].part = "head"
        /\ 3*k + 2 <= Len(g) => g[3*k + 2].part = "rest" /\ g[3*k + 2].entry = g[3*k + 1].entry
        /\ 3*k + 3 <= Len(g) => g[3*k + 3].part = "newline"
    BY ShapedAt
  <2>2. 3*k + 1 <= Len(f) => 3*k + 1 <= Len(g) /\ f[3*k + 1] = g[3*k + 1]
    BY <1>1, <1>2
  <2>3. 3*k + 2 <= Len(f) => /\ 3*k + 2 <= Len(g) /\ f[3*k + 2] = g[3*k + 2]
                             /\ f[3*k + 1] = g[3*k + 1]
    BY <1>1, <1>2
  <2>4. 3*k + 3 <= Len(f) => 3*k + 3 <= Len(g) /\ f[3*k + 3] = g[3*k + 3]
    BY <1>1, <1>2
  <2> QED
    BY <2>1, <2>2, <2>3, <2>4
<1> QED
  BY <1>3 DEF Shaped

\* A line that is appended to whole lines is one more.
LEMMA ShapedWithLine ==
    ASSUME NEW f \in Seq(Token), Shaped(f), Whole(f), NEW e \in Entry
    PROVE  /\ f \o Line(e) \in Seq(Token) /\ Len(f \o Line(e)) = Len(f) + 3
           /\ (f \o Line(e))[Len(f) + 1].part = "head" /\ (f \o Line(e))[Len(f) + 1].entry = e
           /\ Begins(f, f \o Line(e))
           /\ Shaped(f \o Line(e)) /\ Whole(f \o Line(e))
<1> DEFINE l == Line(e)
           g == f \o l
<1>1. /\ l \in Seq(Token) /\ Len(l) = 3
      /\ l[1] = [part |-> "head", entry |-> e]
      /\ l[2] = [part |-> "rest", entry |-> e]
      /\ l[3] = [part |-> "newline"]
  BY LineIsThree
<1> HIDE DEF l
<1>2. PICK n \in Nat : Len(f) = 3*n
  BY DEF Whole
<1>3. /\ g \in Seq(Token) /\ Len(g) = 3*n + 3
      /\ \A i \in 1..(3*n + 3) : g[i] = IF i <= 3*n THEN f[i] ELSE l[i - 3*n]
  <2>1. /\ f \o l \in Seq(Token) /\ Len(f \o l) = Len(f) + Len(l)
        /\ \A i \in 1 .. Len(f) + Len(l) : (f \o l)[i] = IF i <= Len(f) THEN f[i] ELSE l[i - Len(f)]
    BY <1>1, ConcatProperties
  <2> QED
    BY <1>1, <1>2, <2>1
<1>4. Begins(f, g)
  BY <1>1, ConcatBegins
<1> HIDE DEF g
<1>5. g[3*n + 1] = l[1] /\ g[3*n + 2] = l[2] /\ g[3*n + 3] = l[3]
  <2>1. /\ 3*n + 1 \in 1..(3*n + 3) /\ ~ (3*n + 1 <= 3*n) /\ 3*n + 1 - 3*n = 1
        /\ 3*n + 2 \in 1..(3*n + 3) /\ ~ (3*n + 2 <= 3*n) /\ 3*n + 2 - 3*n = 2
        /\ 3*n + 3 \in 1..(3*n + 3) /\ ~ (3*n + 3 <= 3*n) /\ 3*n + 3 - 3*n = 3
    OBVIOUS
  <2>2. /\ g[3*n + 1] = l[3*n + 1 - 3*n]
        /\ g[3*n + 2] = l[3*n + 2 - 3*n]
        /\ g[3*n + 3] = l[3*n + 3 - 3*n]
    BY <1>3, <2>1
  <2> QED
    BY <2>1, <2>2
<1>6. ASSUME NEW k \in Nat
      PROVE  /\ 3*k + 1 <= Len(g) => g[3*k + 1].part = "head"
             /\ 3*k + 2 <= Len(g) => g[3*k + 2].part = "rest" /\ g[3*k + 2].entry = g[3*k + 1].entry
             /\ 3*k + 3 <= Len(g) => g[3*k + 3].part = "newline"
  <2>1. CASE k < n
    <3>1. /\ 3*k + 1 \in 1..Len(f) /\ 3*k + 2 \in 1..Len(f) /\ 3*k + 3 \in 1..Len(f)
      BY <1>2, <2>1
    <3>2. g[3*k + 1] = f[3*k + 1] /\ g[3*k + 2] = f[3*k + 2] /\ g[3*k + 3] = f[3*k + 3]
      BY <1>4, <3>1 DEF Begins
    <3>3. /\ 3*k + 1 <= Len(f) => f[3*k + 1].part = "head"
          /\ 3*k + 2 <= Len(f) => f[3*k + 2].part = "rest" /\ f[3*k + 2].entry = f[3*k + 1].entry
          /\ 3*k + 3 <= Len(f) => f[3*k + 3].part = "newline"
      BY ShapedAt
    <3>4. 3*k + 1 <= Len(f) /\ 3*k + 2 <= Len(f) /\ 3*k + 3 <= Len(f)
      BY <1>2, <2>1
    <3> QED
      BY <3>2, <3>3, <3>4
  <2>2. CASE k = n
    BY <1>1, <1>5, <2>2
  <2>3. CASE n < k
    BY <1>3, <2>3
  <2> QED
    BY <2>1, <2>2, <2>3
<1>7. Shaped(g)
  BY <1>6 DEF Shaped
<1>8. Whole(g)
  <2>1. Len(g) = 3*(n + 1) /\ n + 1 \in Nat
    BY <1>3
  <2> QED
    BY <2>1 DEF Whole
<1>9. Len(g) = Len(f) + 3 /\ g[Len(f) + 1].part = "head" /\ g[Len(f) + 1].entry = e
  BY <1>1, <1>2, <1>3, <1>5
<1> QED
  BY <1>3, <1>4, <1>7, <1>8, <1>9 DEF g, l

\* What Compact writes are whole lines.
LEMMA LinesShaped ==
    ASSUME NEW es \in Seq(Entry)
    PROVE  Shaped(AllLines(es)) /\ Whole(AllLines(es))
<1> DEFINE f == AllLines(es)
<1>1. /\ f \in Seq(Token) /\ Len(f) = 3 * Len(es)
      /\ \A k \in Nat : k < Len(es) =>
           /\ f[3*k + 1] = [part |-> "head", entry |-> es[k + 1]]
           /\ f[3*k + 2] = [part |-> "rest", entry |-> es[k + 1]]
           /\ f[3*k + 3] = [part |-> "newline"]
  BY AllLinesAre
<1>2. Len(es) \in Nat
  BY LenProperties
<1> HIDE DEF f
<1>3. ASSUME NEW k \in Nat
      PROVE  /\ 3*k + 1 <= Len(f) => f[3*k + 1].part = "head"
             /\ 3*k + 2 <= Len(f) => f[3*k + 2].part = "rest" /\ f[3*k + 2].entry = f[3*k + 1].entry
             /\ 3*k + 3 <= Len(f) => f[3*k + 3].part = "newline"
  <2>1. CASE k < Len(es)
    <3>1. /\ f[3*k + 1] = [part |-> "head", entry |-> es[k + 1]]
          /\ f[3*k + 2] = [part |-> "rest", entry |-> es[k + 1]]
          /\ f[3*k + 3] = [part |-> "newline"]
      BY <1>1, <2>1
    <3> QED
      BY <3>1
  <2>2. CASE ~ (k < Len(es))
    <3>1. ~ (3*k + 1 <= Len(f)) /\ ~ (3*k + 2 <= Len(f)) /\ ~ (3*k + 3 <= Len(f))
      BY <1>1, <1>2, <2>2
    <3> QED
      BY <3>1
  <2> QED
    BY <2>1, <2>2
<1>4. Shaped(f) /\ Whole(f)
  BY <1>1, <1>2, <1>3 DEF Shaped, Whole
<1> QED
  BY <1>4 DEF f

-------------------------------------------------------------------------------
(* Reading lines *)

\* Lines begin at every third position, and parse when two of their tokens are there.
LEMMA ShapedStarts ==
    ASSUME NEW f \in Seq(Token), Shaped(f)
    PROVE  /\ \A i \in LineStarts(f) : \E k \in Nat : i = 3*k + 1 /\ 3*k + 1 <= Len(f)
           /\ \A k \in Nat : 3*k + 1 <= Len(f) =>
                /\ 3*k + 1 \in LineStarts(f)
                /\ Parses(f, 3*k + 1) <=> 3*k + 2 <= Len(f)
<1>1. Len(f) \in Nat /\ DOMAIN f = 1..Len(f)
  BY LenProperties
<1>2. ASSUME NEW i \in LineStarts(f)
      PROVE  \E k \in Nat : i = 3*k + 1 /\ 3*k + 1 <= Len(f)
  <2>1. /\ i \in Nat /\ i >= 1 /\ i <= Len(f)
        /\ f[i].part # "newline" /\ (i = 1 \/ f[i - 1].part = "newline")
    BY <1>1 DEF LineStarts, IsNewline
  <2>2. PICK k \in Nat : i = 3*k + 1 \/ i = 3*k + 2 \/ i = 3*k + 3
    BY <2>1, Thirds
  <2>3. /\ 3*k + 1 <= Len(f) => f[3*k + 1].part = "head"
        /\ 3*k + 2 <= Len(f) => f[3*k + 2].part = "rest" /\ f[3*k + 2].entry = f[3*k + 1].entry
        /\ 3*k + 3 <= Len(f) => f[3*k + 3].part = "newline"
    BY ShapedAt
  <2>4. i # 3*k + 3
    BY <2>1, <2>3
  <2>5. i # 3*k + 2
    <3> SUFFICES ASSUME i = 3*k + 2
                 PROVE  FALSE
      OBVIOUS
    <3>1. i - 1 = 3*k + 1 /\ i # 1 /\ 3*k + 1 <= Len(f)
      BY <1>1, <2>1
    <3>2. f[i - 1].part = "head"
      BY <2>3, <3>1
    <3> QED
      BY <2>1, <3>1, <3>2
  <2> QED
    BY <2>1, <2>2, <2>4, <2>5
<1>3. ASSUME NEW k \in Nat, 3*k + 1 <= Len(f)
      PROVE  3*k + 1 \in LineStarts(f)
  <2>1. 3*k + 1 \in DOMAIN f /\ f[3*k + 1].part = "head"
    <3>1. 3*k + 1 <= Len(f) => f[3*k + 1].part = "head"
      BY ShapedAt
    <3> QED
      BY <1>1, <1>3, <3>1
  <2>2. CASE k = 0
    <3>1. 3*k + 1 = 1
      BY <2>2
    <3> QED
      BY <2>1, <3>1 DEF LineStarts, IsNewline
  <2>3. CASE k # 0
    <3>1. k - 1 \in Nat /\ 3*(k - 1) + 3 = 3*k + 1 - 1 /\ 3*(k - 1) + 3 <= Len(f)
      BY <1>1, <1>3, <2>3
    <3>2. 3*(k - 1) + 3 <= Len(f) => f[3*(k - 1) + 3].part = "newline"
      BY <3>1, ShapedAt
    <3>3. f[3*k + 1 - 1].part = "newline"
      BY <3>1, <3>2
    <3> QED
      BY <2>1, <3>3 DEF LineStarts, IsNewline
  <2> QED
    BY <2>2, <2>3
<1>4. ASSUME NEW k \in Nat, 3*k + 1 <= Len(f)
      PROVE  Parses(f, 3*k + 1) <=> 3*k + 2 <= Len(f)
  <2> DEFINE i == 3*k + 1
  <2>1. i \in Nat /\ i + 1 = 3*k + 2 /\ i + 2 = 3*k + 3 /\ (i < Len(f) <=> 3*k + 2 <= Len(f))
    BY <1>1
  <2>2. /\ i <= Len(f) => f[i].part = "head"
        /\ i + 1 <= Len(f) => f[i + 1].part = "rest" /\ f[i + 1].entry = f[i].entry
        /\ i + 2 <= Len(f) => f[i + 2].part = "newline"
    <3>1. /\ 3*k + 1 <= Len(f) => f[3*k + 1].part = "head"
          /\ 3*k + 2 <= Len(f) => f[3*k + 2].part = "rest" /\ f[3*k + 2].entry = f[3*k + 1].entry
          /\ 3*k + 3 <= Len(f) => f[3*k + 3].part = "newline"
      BY ShapedAt
    <3> QED
      BY <2>1, <3>1
  <2>3. i <= Len(f)
    BY <1>4
  <2> HIDE DEF i
  <2>4. Parses(f, i) <=> 3*k + 2 <= Len(f)
    BY <1>1, <2>1, <2>2, <2>3 DEF Parses, IsNewline
  <2> QED
    BY <2>4 DEF i
<1> QED
  BY <1>2, <1>3, <1>4

\* Only the last line can be one that does not parse.
LEMMA ShapedBad ==
    ASSUME NEW f \in Seq(Token), Shaped(f)
    PROVE  /\ FirstBad(f) \in 1..(Len(f) + 1)
           /\ \A k \in Nat : 3*k + 1 < FirstBad(f) <=> 3*k + 2 <= Len(f)
           /\ FirstBad(f) <= Len(f) => FirstBad(f) = Len(f)
           /\ Whole(f) => FirstBad(f) = Len(f) + 1
<1>1. Len(f) \in Nat /\ FirstBad(f) \in 1..(Len(f) + 1) /\ FirstBad(f) \in Nat
  <2>1. Len(f) \in Nat
    BY LenProperties
  <2>2. FirstBad(f) \in 1..(Len(f) + 1)
    BY FirstBadIs
  <2> QED
    BY <2>1, <2>2
<1>2. FirstBad(f) <= Len(f) => \E m \in Nat : FirstBad(f) = 3*m + 1 /\ Len(f) = 3*m + 1
  <2> SUFFICES ASSUME FirstBad(f) <= Len(f)
               PROVE  \E m \in Nat : FirstBad(f) = 3*m + 1 /\ Len(f) = 3*m + 1
    OBVIOUS
  <2>1. FirstBad(f) \in LineStarts(f) /\ ~ Parses(f, FirstBad(f))
    BY FirstBadIs
  <2>2. PICK m \in Nat : FirstBad(f) = 3*m + 1 /\ 3*m + 1 <= Len(f)
    BY <2>1, ShapedStarts
  <2>3. ~ (3*m + 2 <= Len(f))
    <3>1. Parses(f, 3*m + 1) <=> 3*m + 2 <= Len(f)
      BY <2>2, ShapedStarts
    <3> QED
      BY <2>1, <2>2, <3>1
  <2> QED
    BY <1>1, <2>2, <2>3
<1>3. ASSUME NEW k \in Nat
      PROVE  3*k + 1 < FirstBad(f) <=> 3*k + 2 <= Len(f)
  <2>1. CASE FirstBad(f) <= Len(f)
    BY <1>1, <1>2, <2>1
  <2>2. CASE ~ (FirstBad(f) <= Len(f))
    <3>1. FirstBad(f) = Len(f) + 1
      BY <1>1, <2>2
    <3>2. 3*k + 1 <= Len(f) => 3*k + 2 <= Len(f)
      <4> SUFFICES ASSUME 3*k + 1 <= Len(f)
                   PROVE  3*k + 2 <= Len(f)
        OBVIOUS
      <4>1. 3*k + 1 \in LineStarts(f) /\ (Parses(f, 3*k + 1) <=> 3*k + 2 <= Len(f))
        BY ShapedStarts
      <4>2. \A i \in LineStarts(f) : i < FirstBad(f) => Parses(f, i)
        BY FirstBadIs
      <4>3. 3*k + 1 < FirstBad(f)
        BY <1>1, <3>1
      <4> QED
        BY <4>1, <4>2, <4>3
    <3> QED
      BY <1>1, <3>1, <3>2
  <2> QED
    BY <2>1, <2>2
<1>4. Whole(f) => FirstBad(f) = Len(f) + 1
  <2> SUFFICES ASSUME Whole(f)
               PROVE  FirstBad(f) = Len(f) + 1
    OBVIOUS
  <2>1. PICK n \in Nat : Len(f) = 3*n
    BY DEF Whole
  <2>2. \A m \in Nat : Len(f) # 3*m + 1
    BY <2>1
  <2> QED
    BY <1>1, <1>2, <2>2
<1> QED
  BY <1>1, <1>2, <1>3, <1>4

\* What ReadLog returns: the entry of every line whose two parts are there.
LEMMA ShapedEntries ==
    ASSUME NEW f \in Seq(Token), Shaped(f)
    PROVE  /\ Entries(f) \in Seq(Entry)
           /\ \A k \in Nat : k < Len(Entries(f)) <=> 3*k + 2 <= Len(f)
           /\ \A k \in Nat : k < Len(Entries(f)) => Entries(f)[k + 1] = f[3*k + 1].entry
<1>1. Len(f) \in Nat /\ DOMAIN f = 1..Len(f)
  BY LenProperties
<1> DEFINE S == {i \in 1..(FirstBad(f) - 1) : f[i].part = "head"}
<1>2. /\ S \in SUBSET DOMAIN f /\ IsFiniteSet(S) /\ Cardinality(S) \in Nat
      /\ Entries(f) \in Seq(Entry) /\ Len(Entries(f)) = Cardinality(S)
      /\ \A k \in 1..Cardinality(S) : Nth(S, k) \in S /\ Entries(f)[k] = f[Nth(S, k)].entry
  BY EntriesTyped
<1>3. \E n \in Nat : \A k \in Nat : k < n <=> 3*k + 2 <= Len(f)
  <2>1. PICK n \in Nat : Len(f) + 2 = 3*n + 1 \/ Len(f) + 2 = 3*n + 2 \/ Len(f) + 2 = 3*n + 3
    <3>1. Len(f) + 2 \in Nat /\ Len(f) + 2 >= 1
      BY <1>1
    <3> QED
      BY <3>1, Thirds
  <2>2. \A k \in Nat : k < n <=> 3*k + 2 <= Len(f)
    BY <1>1, <2>1
  <2> QED
    BY <2>2
<1>4. PICK n \in Nat : \A k \in Nat : k < n <=> 3*k + 2 <= Len(f)
  BY <1>3
<1>5. \A k \in Nat : k < n <=> 3*k + 1 < FirstBad(f)
  BY <1>4, ShapedBad
<1>6. FirstBad(f) \in 1..(Len(f) + 1)
  BY FirstBadIs
<1> DEFINE g == [k \in 1..n |-> 3*(k - 1) + 1]
<1>7. ASSUME NEW k \in Nat, k < n
      PROVE  3*k + 1 \in S
  <2>1. 3*k + 1 < FirstBad(f) /\ 3*k + 1 <= Len(f)
    BY <1>1, <1>5, <1>6, <1>7
  <2>2. f[3*k + 1].part = "head"
    <3>1. 3*k + 1 <= Len(f) => f[3*k + 1].part = "head"
      BY ShapedAt
    <3> QED
      BY <2>1, <3>1
  <2> QED
    BY <1>1, <1>6, <2>1, <2>2
<1>8. ASSUME NEW i \in S
      PROVE  \E k \in Nat : k < n /\ i = 3*k + 1
  <2>1. i \in Nat /\ i >= 1 /\ i <= Len(f) /\ i < FirstBad(f) /\ f[i].part = "head"
    BY <1>1, <1>6
  <2>2. PICK k \in Nat : i = 3*k + 1 \/ i = 3*k + 2 \/ i = 3*k + 3
    BY <2>1, Thirds
  <2>3. /\ 3*k + 2 <= Len(f) => f[3*k + 2].part = "rest"
        /\ 3*k + 3 <= Len(f) => f[3*k + 3].part = "newline"
    BY ShapedAt
  <2>4. i = 3*k + 1
    BY <2>1, <2>2, <2>3
  <2>5. k < n
    BY <1>5, <2>1, <2>4
  <2> QED
    BY <2>4, <2>5
<1> HIDE DEF S
<1>9. S \in SUBSET Nat
  BY <1>1, <1>2
<1>10. \A k \in 1..n : k - 1 \in Nat /\ k - 1 < n /\ g[k] = 3*(k - 1) + 1
  OBVIOUS
<1>11. g \in [1..n -> S]
  <2>1. \A k \in 1..n : g[k] \in S
    BY <1>7, <1>10
  <2> QED
    BY <2>1
<1>12. \A k, l \in 1..n : k < l => g[k] < g[l]
  BY <1>10
<1>13. ASSUME NEW i \in S
       PROVE  \E k \in 1..n : g[k] = i
  <2>1. PICK k \in Nat : k < n /\ i = 3*k + 1
    BY <1>8
  <2>2. k + 1 \in 1..n /\ k + 1 - 1 = k
    BY <2>1
  <2>3. g[k + 1] = 3*(k + 1 - 1) + 1
    BY <1>10, <2>2
  <2>4. g[k + 1] = i
    BY <2>1, <2>2, <2>3
  <2> QED
    BY <2>2, <2>4
<1> HIDE DEF g
<1>14. \A i \in S : \E k \in 1..n : g[k] = i
  BY <1>13
<1>15. IsFiniteSet(S) /\ Cardinality(S) = n /\ \A k \in 1..n : Nth(S, k) = g[k]
  BY <1>9, <1>11, <1>12, <1>14, NthUnique
<1>16. ASSUME NEW k \in Nat, k < n
       PROVE  Entries(f)[k + 1] = f[3*k + 1].entry
  <2>1. k + 1 \in 1..n /\ k + 1 - 1 = k
    BY <1>16
  <2>2. Nth(S, k + 1) = 3*(k + 1 - 1) + 1
    BY <1>10, <1>15, <2>1
  <2>3. Nth(S, k + 1) = 3*k + 1
    BY <2>1, <2>2
  <2>4. Entries(f)[k + 1] = f[Nth(S, k + 1)].entry
    BY <1>2, <1>15, <2>1
  <2> QED
    BY <2>3, <2>4
<1> QED
  BY <1>2, <1>4, <1>15, <1>16

\* The lines of a list of entries read as that list.
LEMMA LinesRead ==
    ASSUME NEW es \in Seq(Entry)
    PROVE  Entries(AllLines(es)) = es
<1> DEFINE f == AllLines(es)
<1>1. /\ f \in Seq(Token) /\ Len(f) = 3 * Len(es)
      /\ \A k \in Nat : k < Len(es) =>
           /\ f[3*k + 1] = [part |-> "head", entry |-> es[k + 1]]
           /\ f[3*k + 2] = [part |-> "rest", entry |-> es[k + 1]]
           /\ f[3*k + 3] = [part |-> "newline"]
  BY AllLinesAre
<1>2. Shaped(f) /\ Len(es) \in Nat
  BY LinesShaped, LenProperties
<1> HIDE DEF f
<1>3. /\ Entries(f) \in Seq(Entry) /\ Len(Entries(f)) \in Nat
      /\ \A k \in Nat : k < Len(Entries(f)) <=> 3*k + 2 <= Len(f)
      /\ \A k \in Nat : k < Len(Entries(f)) => Entries(f)[k + 1] = f[3*k + 1].entry
  BY <1>1, <1>2, ShapedEntries, LenProperties
<1>4. \A k \in Nat : 3*k + 2 <= Len(f) <=> k < Len(es)
  BY <1>1, <1>2
<1>5. Len(Entries(f)) = Len(es)
  <2>1. ~ (Len(es) < Len(Entries(f))) /\ ~ (Len(Entries(f)) < Len(es))
    BY <1>2, <1>3, <1>4
  <2> QED
    BY <1>2, <1>3, <2>1
<1>6. ASSUME NEW i \in 1..Len(Entries(f))
      PROVE  Entries(f)[i] = es[i]
  <2>1. PICK k \in Nat : i = k + 1 /\ k < Len(es)
    <3>1. i - 1 \in Nat /\ i = i - 1 + 1 /\ i - 1 < Len(es)
      BY <1>2, <1>5
    <3> QED
      BY <3>1
  <2>2. Entries(f)[k + 1] = f[3*k + 1].entry
    BY <1>3, <1>5, <2>1
  <2>3. f[3*k + 1] = [part |-> "head", entry |-> es[k + 1]]
    BY <1>1, <2>1
  <2>4. f[3*k + 1].entry = es[k + 1]
    BY <2>3
  <2> QED
    BY <2>1, <2>2, <2>4
<1>7. Entries(f) = es
  BY <1>3, <1>5, <1>6, SeqEqual
<1> QED
  BY <1>7 DEF f

-------------------------------------------------------------------------------
(* Recovery *)

\* The empty log consists of lines.
LEMMA ShapeInit ==
    ASSUME Init
    PROVE  ShapeInv
<1>1. LogTyped
  BY OrderInit DEF OrderInv
<1>2. Stream = <<>> /\ tmp = <<>> /\ fd # "log"
  BY DEF Init, Stream
<1> QED
  BY <1>1, <1>2, EmptyShaped DEF ShapeInv

\* A log that is opened where it ends in a newline is whole.
LEMMA NotTornIsWhole ==
    ASSUME LogTyped, Shaped(file), ~ Torn
    PROVE  Whole(file)
<1>1. file \in Seq(Token) /\ Len(file) \in Nat
  BY LenProperties DEF LogTyped
<1>2. CASE file = <<>>
  BY <1>2, EmptyShaped
<1>3. CASE file # <<>>
  <2>1. Len(file) >= 1
    BY <1>1, <1>3, EmptySeq
  <2>2. file[Len(file)].part = "newline"
    BY <1>3 DEF Torn, IsNewline, Last
  <2>3. PICK k \in Nat : Len(file) = 3*k + 1 \/ Len(file) = 3*k + 2 \/ Len(file) = 3*k + 3
    BY <1>1, <2>1, Thirds
  <2>4. /\ 3*k + 1 <= Len(file) => file[3*k + 1].part = "head"
        /\ 3*k + 2 <= Len(file) => file[3*k + 2].part = "rest" /\ file[3*k + 2].entry = file[3*k + 1].entry
        /\ 3*k + 3 <= Len(file) => file[3*k + 3].part = "newline"
    BY ShapedAt DEF ShapeInv
  <2>5. Len(file) <= Len(file)
    BY <1>1
  <2>6. Len(file) = 3*(k + 1) /\ k + 1 \in Nat
    BY <2>2, <2>3, <2>4, <2>5
  <2> QED
    BY <2>6 DEF Whole
<1> QED
  BY <1>2, <1>3

\* Every step keeps the lines, when no torn log is opened.
LEMMA ShapeStep ==
    ASSUME ~ OpensTorn, ShapeInv, [Next]_vars
    PROVE  ShapeInv'
<1>1. /\ LogTyped /\ Shaped(Stream) /\ Shaped(tmp)
      /\ Stream \in Seq(Token) /\ tmp \in Seq(Token) /\ kept \in Seq(Entry)
      /\ fd = "log" /\ ~ werr => Whole(Stream)
  BY StreamTyped DEF ShapeInv, LogTyped
<1>2. ASSUME NEW row \in Rows, NEW action \in Actions,
             LET e == NewEntry(row, action)
             IN  AppendBuffered(e) \/ AppendSpills(e) \/ AppendShort(e)
      PROVE  ShapeInv'
  <2> DEFINE e == NewEntry(row, action)
  <2>1. /\ e \in Entry /\ LogTyped' /\ Begins(Stream', Stream \o Line(e))
        /\ fd = "log" /\ ~ werr' => Stream' = Stream \o Line(e)
        /\ ~ werr /\ fd' = fd /\ tmp' = tmp
    BY <1>1, <1>2, AppendStream
  <2>2. Stream' \in Seq(Token)
    BY <2>1, StreamTypedNext
  <2> HIDE DEF e
  <2>3. CASE fd = "log"
    <3>1. Stream \o Line(e) \in Seq(Token) /\ Shaped(Stream \o Line(e)) /\ Whole(Stream \o Line(e))
      BY <1>1, <2>1, <2>3, ShapedWithLine
    <3>2. Shaped(Stream')
      BY <2>1, <2>2, <3>1, ShapedInPart
    <3> QED
      BY <1>1, <2>1, <2>3, <3>1, <3>2 DEF ShapeInv
  <2>4. CASE fd # "log"
    <3>1. file' = file
      BY <1>2, <2>4 DEF AppendBuffered, AppendSpills, AppendShort, Write
    <3>2. Stream' = Stream
      BY <2>1, <2>4, <3>1 DEF Stream
    <3> QED
      BY <1>1, <2>1, <2>4, <3>2 DEF ShapeInv
  <2> QED
    BY <2>3, <2>4
<1>3. ASSUME LogTyped', Begins(Stream', Stream), Shaped(tmp'),
             fd' = "log" /\ ~ werr' => Whole(Stream')
      PROVE  ShapeInv'
  <2>1. Stream' \in Seq(Token)
    BY <1>3, StreamTypedNext
  <2>2. Shaped(Stream')
    BY <1>1, <1>3, <2>1, ShapedInPart
  <2> QED
    BY <1>3, <2>2 DEF ShapeInv
<1>4. CASE FlushWrites \/ FlushShort
  <2>1. LogTyped' /\ Stream' = Stream /\ (FlushShort => werr')
    BY <1>1, <1>4, FlushStream
  <2>2. tmp' = tmp /\ fd' = fd /\ (FlushWrites => werr' = werr)
    BY <1>4 DEF FlushWrites, FlushShort, compaction
  <2>3. Begins(Stream', Stream)
    BY <1>1, <2>1, BeginsItself
  <2>4. fd' = "log" /\ ~ werr' => Whole(Stream')
    BY <1>1, <1>4, <2>1, <2>2
  <2> QED
    BY <1>1, <1>3, <2>1, <2>2, <2>3, <2>4
<1>5. CASE OpenStore
  <2>1. LogTyped' /\ Begins(Stream', Stream) /\ file' = file
    BY <1>1, <1>5, QuietStream
  <2>2. ~ Torn /\ fd' = "log" /\ buf' = <<>> /\ tmp' = tmp
    BY <1>5 DEF OpenStore, compaction
  <2>3. file \in Seq(Token) /\ Begins(file, Stream)
    BY <1>1, StreamTyped DEF LogTyped
  <2>4. Shaped(file)
    BY <1>1, <2>3, ShapedInPart
  <2>5. Whole(file)
    BY <1>1, <2>2, <2>4, NotTornIsWhole
  <2>6. Stream' = file
    <3>1. file \o <<>> = file
      BY <2>3, ConcatEmptySeq
    <3> QED
      BY <2>1, <2>2, <3>1 DEF Stream
  <2> QED
    BY <1>1, <1>3, <2>1, <2>2, <2>5, <2>6
<1>6. CASE Synced \/ SyncFails \/ WriterKilled \/ UNCHANGED vars
  <2>1. LogTyped' /\ Begins(Stream', Stream) /\ file' = file
    BY <1>1, <1>6, QuietStream
  <2>2. tmp' = tmp
    BY <1>6 DEF Synced, SyncFails, WriterKilled, vars, compaction
  <2>3. fd' = "log" => fd = "log" /\ buf' = buf /\ werr' = werr
    BY <1>6 DEF Synced, SyncFails, WriterKilled, Forget, vars, store
  <2>4. fd' = "log" => Stream' = Stream
    BY <2>1, <2>3 DEF Stream
  <2> QED
    BY <1>1, <1>3, <2>1, <2>2, <2>3, <2>4
<1>7. CASE CompactReads \/ CompactWrites \/ CompactStops
  <2>1. LogTyped' /\ Begins(Stream', Stream) /\ file' = file
    BY <1>1, <1>7, QuietStream
  <2>2. fd' = fd /\ buf' = buf /\ werr' = werr
    BY <1>7 DEF CompactReads, CompactWrites, CompactStops, store
  <2>3. Stream' = Stream
    BY <2>1, <2>2 DEF Stream
  <2>4. Shaped(tmp')
    <3> DEFINE lines == AllLines(kept)
    <3>1. lines \in Seq(Token) /\ Len(lines) \in Nat /\ Shaped(lines)
      BY <1>1, AllLinesAre, LinesShaped, LenProperties
    <3>2. \/ tmp' = tmp \/ tmp' = <<>> \/ tmp' = lines
          \/ \E n \in 0..Len(lines) : tmp' = SubSeq(lines, 1, n)
      BY <1>7 DEF CompactReads, CompactWrites, CompactStops
    <3> HIDE DEF lines
    <3>3. ASSUME NEW n \in 0..Len(lines), tmp' = SubSeq(lines, 1, n)
          PROVE  Shaped(tmp')
      <4>1. n \in Nat /\ n <= Len(lines)
        BY <3>1
      <4>2. SubSeq(lines, 1, n) \in Seq(Token) /\ Begins(SubSeq(lines, 1, n), lines)
        BY <3>1, <4>1, CutBegins
      <4> QED
        BY <3>1, <3>3, <4>2, ShapedInPart
    <3> QED
      BY <1>1, <3>1, <3>2, <3>3, EmptyShaped
  <2> QED
    BY <1>1, <1>3, <2>1, <2>2, <2>3, <2>4
<1>8. CASE CompactRenames
  <2>1. LogTyped' /\ Stream' = tmp /\ tmp' = <<>> /\ fd' # "log"
    BY <1>1, <1>8, RenameStream
  <2> QED
    BY <1>1, <2>1, EmptyShaped DEF ShapeInv
<1>9. CASE PowerLost
  <2>1. LogTyped' /\ Begins(Stream', Stream) /\ fd' = "none"
    BY <1>1, <1>9, PowerLostStream
  <2>2. tmp' = <<>>
    BY <1>9 DEF PowerLost
  <2> QED
    BY <1>3, <2>1, <2>2, EmptyShaped
<1> QED
  BY <1>2, <1>4, <1>5, <1>6, <1>7, <1>8, <1>9 DEF Next

\* So does the file, the part of the stream that was written.
LEMMA FileShaped ==
    ASSUME ShapeInv
    PROVE  file \in Seq(Token) /\ Shaped(file)
<1>1. LogTyped /\ file \in Seq(Token) /\ Stream \in Seq(Token) /\ Begins(file, Stream) /\ Shaped(Stream)
  BY StreamTyped DEF ShapeInv, LogTyped
<1> QED
  BY <1>1, ShapedInPart

\* ReadLog finds at most the last line damaged.
LEMMA ShapedReads ==
    ASSUME NEW f \in Seq(Token), Shaped(f)
    PROVE  /\ ReadError(f) # "corrupt"
           /\ Whole(f) => ReadError(f) = "none"
<1>1. Len(f) \in Nat /\ DOMAIN f = 1..Len(f)
  BY LenProperties
<1>2. /\ FirstBad(f) \in 1..(Len(f) + 1)
      /\ FirstBad(f) <= Len(f) => FirstBad(f) = Len(f)
      /\ Whole(f) => FirstBad(f) = Len(f) + 1
  BY ShapedBad
<1>3. \A i \in LineStarts(f) : i \in 1..Len(f)
  BY <1>1 DEF LineStarts
<1>4. ASSUME ~ (FirstBad(f) > Len(f)), NEW i \in LineStarts(f), i > FirstBad(f)
      PROVE  FALSE
  BY <1>1, <1>2, <1>3, <1>4
<1>5. Whole(f) => FirstBad(f) > Len(f)
  <2>1. Whole(f) => FirstBad(f) = Len(f) + 1
    BY <1>2
  <2>2. Len(f) + 1 > Len(f)
    BY <1>1
  <2> QED
    BY <2>1, <2>2
<1> QED
  BY <1>4, <1>5 DEF ReadError

\* Truncation recovery: while logs are only opened where they end in a newline,
\* ReadLog never reports corruption, whatever fails and whatever Compact does.
THEOREM RecoveryCorrect ==
    ASSUME ~ OpensTorn
    PROVE  Spec => []Recoverable
<1>1. Init => ShapeInv
  BY ShapeInit
<1>2. ShapeInv /\ [Next]_vars => ShapeInv'
  BY ShapeStep
<1>3. ShapeInv => Recoverable
  BY FileShaped, ShapedReads DEF Recoverable
<1> QED
  BY <1>1, <1>2, <1>3, PTL DEF Spec

-------------------------------------------------------------------------------
(* The promise *)

\* The entries whose two parts are among the first n tokens of f.
ReadTo(f, n) == {f[3*k + 1].entry : k \in {k \in 0..n : 3*k + 2 <= n}}

\* Compact writes what it has read, and nothing else changes the file meanwhile.
CompactInv ==
    /\ LogTyped
    /\ fd # "orphan"
    /\ cpc # "idle" => fd = "none"
    /\ cpc = "write" => kept = Compacted(Visible)
    /\ cpc = "rename" => tmp = AllLines(Compacted(Visible))

\* What was acknowledged is on the disk, and what the Store has accepted will be
\* readable when its buffer has been written.
PromiseInv ==
    /\ ShapeInv
    /\ CompactInv
    /\ fd = "log" /\ ~ werr => session \subseteq ReadTo(Stream, Len(Stream))
    /\ acked \subseteq ReadTo(file, IF rewritten THEN Len(file) ELSE synced)

\* A longer file has more to read.
LEMMA ReadToGrows ==
    ASSUME NEW f \in Seq(Token), NEW g \in Seq(Token), Begins(f, g),
           NEW n \in Nat, NEW m \in Nat, n <= Len(f), n <= m
    PROVE  ReadTo(f, n) \subseteq ReadTo(g, m)
<1>1. Len(f) \in Nat
  BY LenProperties
<1>2. ASSUME NEW k \in 0..n, 3*k + 2 <= n
      PROVE  f[3*k + 1].entry = g[3*k + 1].entry /\ k \in 0..m /\ 3*k + 2 <= m
  <2>1. 3*k + 1 \in 1..Len(f)
    BY <1>1, <1>2
  <2>2. f[3*k + 1] = g[3*k + 1]
    BY <2>1 DEF Begins
  <2>3. k \in 0..m /\ 3*k + 2 <= m
    BY <1>2
  <2> QED
    BY <2>2, <2>3
<1> QED
  BY <1>2 DEF ReadTo

\* What a reader gets from a file of lines.
LEMMA ReadsAll ==
    ASSUME NEW f \in Seq(Token), Shaped(f)
    PROVE  ToSet(Entries(f)) = ReadTo(f, Len(f))
<1>1. Len(f) \in Nat
  BY LenProperties
<1>2. /\ Entries(f) \in Seq(Entry)
      /\ \A k \in Nat : k < Len(Entries(f)) <=> 3*k + 2 <= Len(f)
      /\ \A k \in Nat : k < Len(Entries(f)) => Entries(f)[k + 1] = f[3*k + 1].entry
  BY ShapedEntries
<1>3. Len(Entries(f)) \in Nat /\ DOMAIN Entries(f) = 1..Len(Entries(f))
  BY <1>2, LenProperties
<1>4. ASSUME NEW i \in DOMAIN Entries(f)
      PROVE  Entries(f)[i] \in ReadTo(f, Len(f))
  <2>1. PICK k \in Nat : i = k + 1 /\ k < Len(Entries(f))
    <3>1. i - 1 \in Nat /\ i = i - 1 + 1 /\ i - 1 < Len(Entries(f))
      BY <1>3
    <3> QED
      BY <3>1
  <2>2. 3*k + 2 <= Len(f) /\ Entries(f)[i] = f[3*k + 1].entry
    BY <1>2, <2>1
  <2>3. k \in 0..Len(f)
    BY <1>1, <2>2
  <2> QED
    BY <2>2, <2>3 DEF ReadTo
<1>5. ASSUME NEW k \in 0..Len(f), 3*k + 2 <= Len(f)
      PROVE  f[3*k + 1].entry \in ToSet(Entries(f))
  <2>1. k \in Nat
    BY <1>1
  <2>2. k < Len(Entries(f)) /\ Entries(f)[k + 1] = f[3*k + 1].entry
    BY <1>2, <1>5, <2>1
  <2>3. k + 1 \in DOMAIN Entries(f)
    BY <1>3, <2>1, <2>2
  <2> QED
    BY <2>2, <2>3 DEF ToSet
<1>6. ToSet(Entries(f)) \subseteq ReadTo(f, Len(f))
  BY <1>4 DEF ToSet
<1>7. ReadTo(f, Len(f)) \subseteq ToSet(Entries(f))
  BY <1>5 DEF ReadTo
<1> QED
  BY <1>6, <1>7

\* A reader of the first part of a file gets the first of its entries.
LEMMA PartReads ==
    ASSUME NEW f \in Seq(Token), NEW g \in Seq(Token), Begins(f, g), Shaped(f), Shaped(g)
    PROVE  IsPrefix(Entries(f), Entries(g))
<1>1. Len(f) \in Nat /\ Len(g) \in Nat /\ Len(f) <= Len(g)
  BY LenProperties DEF Begins
<1>2. /\ Entries(f) \in Seq(Entry)
      /\ \A k \in Nat : k < Len(Entries(f)) <=> 3*k + 2 <= Len(f)
      /\ \A k \in Nat : k < Len(Entries(f)) => Entries(f)[k + 1] = f[3*k + 1].entry
  BY ShapedEntries
<1>3. /\ Entries(g) \in Seq(Entry)
      /\ \A k \in Nat : k < Len(Entries(g)) <=> 3*k + 2 <= Len(g)
      /\ \A k \in Nat : k < Len(Entries(g)) => Entries(g)[k + 1] = g[3*k + 1].entry
  BY ShapedEntries
<1>4. PICK n \in Nat : n = Len(Entries(f))
  BY <1>2, LenProperties
<1>5. PICK m \in Nat : m = Len(Entries(g))
  BY <1>3, LenProperties
<1>6. \A k \in Nat : k < n => k < m
  BY <1>1, <1>2, <1>3, <1>4, <1>5
<1>7. n <= m
  <2>1. ~ (m < n)
    BY <1>6
  <2> QED
    BY <2>1
<1>8. ASSUME NEW k \in Nat, k < n
      PROVE  Entries(f)[k + 1] = Entries(g)[k + 1]
  <2>1. 3*k + 2 <= Len(f) /\ Entries(f)[k + 1] = f[3*k + 1].entry
    BY <1>2, <1>4, <1>8
  <2>2. k < m
    BY <1>6, <1>8
  <2>3. Entries(g)[k + 1] = g[3*k + 1].entry
    BY <1>3, <1>5, <2>2
  <2>4. 3*k + 1 \in 1..Len(f)
    BY <1>1, <2>1
  <2>5. f[3*k + 1] = g[3*k + 1]
    BY <2>4 DEF Begins
  <2> QED
    BY <2>1, <2>3, <2>5
<1>9. \A i \in 1..n : Entries(f)[i] = Entries(g)[i]
  <2> TAKE i \in 1..n
  <2>1. PICK k \in Nat : i = k + 1 /\ k < n
    <3>1. i - 1 \in Nat /\ i = i - 1 + 1 /\ i - 1 < n
      OBVIOUS
    <3> QED
      BY <3>1
  <2> QED
    BY <1>8, <2>1
<1>10. /\ SubSeq(Entries(f), 1, n) \in Seq(Entry) /\ Len(SubSeq(Entries(f), 1, n)) = n
       /\ Begins(SubSeq(Entries(f), 1, n), Entries(f))
  <2>1. n <= Len(Entries(f))
    BY <1>4
  <2> QED
    BY <1>2, <2>1, CutBegins
<1>11. /\ SubSeq(Entries(g), 1, n) \in Seq(Entry) /\ Len(SubSeq(Entries(g), 1, n)) = n
       /\ Begins(SubSeq(Entries(g), 1, n), Entries(g))
  <2>1. n <= Len(Entries(g))
    BY <1>5, <1>7
  <2> QED
    BY <1>3, <2>1, CutBegins
<1>12. SubSeq(Entries(f), 1, n) = SubSeq(Entries(g), 1, n)
  <2>1. \A i \in 1..n : SubSeq(Entries(f), 1, n)[i] = SubSeq(Entries(g), 1, n)[i]
    BY <1>9, <1>10, <1>11 DEF Begins
  <2> QED
    BY <1>10, <1>11, <2>1, SeqEqual
<1> QED
  BY <1>4, <1>5, <1>7, <1>12 DEF IsPrefix

\* What is left of the entries after compaction.
LEMMA CompactedMembers ==
    ASSUME NEW es \in Seq(Entry)
    PROVE  ToSet(Compacted(es)) = {e \in ToSet(es) : e.row \in Dropped(es) => e.action = "DROP"}
<1> DEFINE K == {i \in DOMAIN es : es[i].row \in Dropped(es) => es[i].action = "DROP"}
<1>1. K \in SUBSET DOMAIN es /\ Compacted(es) = Pick(es, K)
  BY DEF Compacted
<1>2. \A i \in K : i \in DOMAIN es /\ (es[i].row \in Dropped(es) => es[i].action = "DROP")
  OBVIOUS
<1>3. \A i \in DOMAIN es : (es[i].row \in Dropped(es) => es[i].action = "DROP") => i \in K
  OBVIOUS
<1> HIDE DEF K
<1>4. /\ IsFiniteSet(K) /\ K \in SUBSET Nat
      /\ Pick(es, K) \in Seq(Entry) /\ Len(Pick(es, K)) = Cardinality(K)
      /\ DOMAIN Pick(es, K) = 1..Cardinality(K)
      /\ \A k \in 1..Cardinality(K) : Nth(K, k) \in K /\ Pick(es, K)[k] = es[Nth(K, k)]
  BY <1>1, PickIsList
<1>5. \A i \in K : \E k \in 1..Cardinality(K) : Nth(K, k) = i
  BY <1>4, NthLists
<1>6. ASSUME NEW k \in DOMAIN Compacted(es)
      PROVE  /\ Compacted(es)[k] \in ToSet(es)
             /\ Compacted(es)[k].row \in Dropped(es) => Compacted(es)[k].action = "DROP"
  <2>1. k \in 1..Cardinality(K)
    BY <1>1, <1>4
  <2>2. Nth(K, k) \in K /\ Compacted(es)[k] = es[Nth(K, k)]
    BY <1>1, <1>4, <2>1
  <2> QED
    BY <1>2, <2>2 DEF ToSet
<1>7. ASSUME NEW i \in DOMAIN es, es[i].row \in Dropped(es) => es[i].action = "DROP"
      PROVE  es[i] \in ToSet(Compacted(es))
  <2>1. PICK k \in 1..Cardinality(K) : Nth(K, k) = i
    BY <1>3, <1>5, <1>7
  <2>2. k \in DOMAIN Compacted(es) /\ Compacted(es)[k] = es[i]
    BY <1>1, <1>4, <2>1
  <2> QED
    BY <2>2 DEF ToSet
<1>8. ASSUME NEW e \in ToSet(Compacted(es))
      PROVE  e \in ToSet(es) /\ (e.row \in Dropped(es) => e.action = "DROP")
  <2>1. PICK k \in DOMAIN Compacted(es) : Compacted(es)[k] = e
    BY <1>8 DEF ToSet
  <2> QED
    BY <1>6, <2>1
<1>9. ASSUME NEW e \in ToSet(es), e.row \in Dropped(es) => e.action = "DROP"
      PROVE  e \in ToSet(Compacted(es))
  <2>1. PICK i \in DOMAIN es : es[i] = e
    BY <1>9 DEF ToSet
  <2> QED
    BY <1>7, <1>9, <2>1
<1> QED
  BY <1>8, <1>9
\* Nobody writes to the log while Compact runs.
LEMMA CompactStep ==
    ASSUME ~ CompactFills, ~ CompactsLive, CompactInv, [Next]_vars
    PROVE  CompactInv'
<1>1. LogTyped /\ fd # "orphan" /\ (cpc # "idle" => fd = "none")
  BY DEF CompactInv
<1>2. ASSUME LogTyped', cpc' = "idle", fd' # "orphan"
      PROVE  CompactInv'
  BY <1>2 DEF CompactInv
<1>3. ASSUME NEW row \in Rows, NEW action \in Actions,
             LET e == NewEntry(row, action)
             IN  AppendBuffered(e) \/ AppendSpills(e) \/ AppendShort(e)
      PROVE  CompactInv'
  <2> DEFINE e == NewEntry(row, action)
  <2>1. /\ e \in Entry /\ e.id = appended + 1 /\ appended' = appended + 1
        /\ LogTyped'
        /\ Begins(file, file')
        /\ Begins(Stream', Stream \o Line(e))
        /\ fd = "log" /\ ~ werr' => Stream' = Stream \o Line(e) /\ session' = session \cup {e}
        /\ ~ werr /\ fd' = fd /\ synced' = synced
        /\ cpc' = cpc /\ kept' = kept /\ tmp' = tmp /\ acked' = acked /\ rewritten' = rewritten
    BY <1>1, <1>3, AppendStream
  <2>2. cpc = "idle"
    BY <1>1, <1>3 DEF AppendBuffered, AppendSpills, AppendShort, Usable
  <2> QED
    BY <1>1, <1>2, <2>1, <2>2
<1>4. CASE FlushWrites \/ FlushShort
  <2>1. LogTyped'
    BY <1>1, <1>4, FlushStream
  <2>2. cpc = "idle" /\ cpc' = cpc /\ fd' = fd
    BY <1>1, <1>4 DEF FlushWrites, FlushShort, Usable, compaction
  <2> QED
    BY <1>1, <1>2, <2>1, <2>2
<1>5. CASE OpenStore \/ Synced \/ WriterKilled \/ CompactStops
  <2>1. LogTyped'
    BY <1>1, <1>5, QuietStream
  <2>2. cpc' = "idle" /\ fd' # "orphan"
    BY <1>1, <1>5 DEF OpenStore, Synced, WriterKilled, CompactStops, Forget, compaction, store, LogTyped
  <2> QED
    BY <1>2, <2>1, <2>2
<1>6. CASE SyncFails \/ UNCHANGED vars
  <2>1. LogTyped'
    BY <1>1, <1>6, QuietStream
  <2>2. file' = file /\ fd' = fd /\ cpc' = cpc /\ kept' = kept /\ tmp' = tmp
    BY <1>6 DEF SyncFails, vars, store, compaction
  <2>3. Visible' = Visible
    BY <2>2 DEF Visible
  <2> QED
    BY <2>1, <2>2, <2>3 DEF CompactInv
<1>7. CASE CompactReads
  <2>1. LogTyped'
    BY <1>1, <1>7, QuietStream
  <2>2. /\ file' = file /\ fd = "none" /\ fd' = fd /\ cpc' = "write"
        /\ kept' = Compacted(Visible)
    BY <1>7 DEF CompactReads, store
  <2>3. Visible' = Visible
    BY <2>2 DEF Visible
  <2> QED
    BY <2>1, <2>2, <2>3 DEF CompactInv
<1>8. CASE CompactWrites
  <2>1. LogTyped'
    BY <1>1, <1>8, QuietStream
  <2>2. file' = file /\ fd' = fd /\ cpc = "write" /\ cpc' = "rename" /\ tmp' = AllLines(kept)
    BY <1>8 DEF CompactWrites, store
  <2>3. Visible' = Visible
    BY <2>2 DEF Visible
  <2> QED
    BY <2>1, <2>2, <2>3 DEF CompactInv
<1>9. CASE CompactRenames
  <2>1. LogTyped'
    BY <1>1, <1>9, RenameStream
  <2>2. cpc' = "idle" /\ fd' # "orphan"
    BY <1>1, <1>9 DEF CompactRenames
  <2> QED
    BY <1>2, <2>1, <2>2
<1>10. CASE PowerLost
  <2>1. LogTyped' /\ cpc' = "idle" /\ fd' = "none"
    BY <1>1, <1>10, PowerLostStream
  <2> QED
    BY <1>2, <2>1
<1> QED
  BY <1>3, <1>4, <1>5, <1>6, <1>7, <1>8, <1>9, <1>10 DEF Next

\* A reader of the compacted log gets what Compact was to keep of what a reader
\* got before.
LEMMA RenameLeaves ==
    ASSUME CompactInv, CompactRenames
    PROVE  /\ Visible \in Seq(Entry) /\ Compacted(Visible) \in Seq(Entry)
           /\ file' = AllLines(Compacted(Visible))
           /\ Visible' = Compacted(Visible)
<1>1. file' = AllLines(Compacted(Visible))
  BY DEF CompactRenames, CompactInv
<1>2. Visible \in Seq(Entry)
  BY VisibleTyped DEF CompactInv
<1>3. Compacted(Visible) \in Seq(Entry)
  BY <1>2, CompactedTyped
<1>4. Visible' = Compacted(Visible)
  <2> DEFINE c == Compacted(Visible)
  <2>1. c \in Seq(Entry) /\ file' = AllLines(c)
    BY <1>1, <1>3
  <2> HIDE DEF c
  <2>2. Visible' = c
    BY <2>1, LinesRead DEF Visible
  <2> QED
    BY <2>2 DEF c
<1> QED
  BY <1>1, <1>2, <1>3, <1>4

\* Nothing is owed at first.
LEMMA PromiseInit ==
    ASSUME Init
    PROVE  PromiseInv
<1>1. ShapeInv
  BY ShapeInit
<1>2. fd = "none" /\ cpc = "idle" /\ acked = {}
  BY DEF Init
<1> QED
  BY <1>1, <1>2 DEF PromiseInv, CompactInv, ShapeInv

\* The parts of the invariant that the cases below share.
LEMMA PromiseFacts ==
    ASSUME PromiseInv
    PROVE  /\ LogTyped /\ Stream \in Seq(Token) /\ Shaped(Stream)
           /\ file \in Seq(Token) /\ Len(file) \in Nat /\ Shaped(file) /\ Begins(file, Stream)
           /\ synced \in Nat /\ synced <= Len(file)
           /\ Visible \in Seq(Entry) /\ ToSet(Visible) = ReadTo(file, Len(file))
           /\ acked \subseteq ToSet(Visible)
<1>1. ShapeInv /\ LogTyped /\ Shaped(Stream)
  BY DEF PromiseInv, ShapeInv
<1>2. file \in Seq(Token) /\ Shaped(file)
  BY <1>1, FileShaped
<1>3. Stream \in Seq(Token) /\ Begins(file, Stream)
  BY <1>1, StreamTyped
<1>4. Len(file) \in Nat /\ synced \in Nat /\ synced <= Len(file)
  BY <1>1, <1>2, LenProperties DEF LogTyped
<1>5. Visible \in Seq(Entry)
  BY <1>1, VisibleTyped
<1>6. ToSet(Visible) = ReadTo(file, Len(file))
  BY <1>2, ReadsAll DEF Visible
<1>7. ReadTo(file, synced) \subseteq ReadTo(file, Len(file))
  BY <1>2, <1>4, BeginsItself, ReadToGrows
<1>8. acked \subseteq ReadTo(file, Len(file))
  BY <1>7 DEF PromiseInv
<1> QED
  BY <1>1, <1>2, <1>3, <1>4, <1>5, <1>6, <1>8

\* The same of the next state.
LEMMA PromiseFactsNext ==
    ASSUME PromiseInv'
    PROVE  /\ file' \in Seq(Token) /\ Shaped(file')
           /\ Visible' \in Seq(Entry) /\ ToSet(Visible') = ReadTo(file', Len(file'))
           /\ acked' \subseteq ToSet(Visible')
<1>1. LogTyped' /\ Shaped(Stream')
  BY DEF PromiseInv, ShapeInv
<1>2. file' \in Seq(Token) /\ buf' \in Seq(Token) /\ Len(file') \in Nat /\ synced' \in 0..Len(file')
  BY <1>1, LenProperties DEF LogTyped
<1>3. Stream' \in Seq(Token)
  BY <1>1, StreamTypedNext
<1>4. Begins(file', Stream')
  BY <1>2, ConcatBegins, BeginsItself DEF Stream
<1>5. Shaped(file')
  BY <1>1, <1>2, <1>3, <1>4, ShapedInPart
<1>6. Visible' \in Seq(Entry)
  BY <1>2, EntriesTyped DEF Visible
<1>7. ToSet(Visible') = ReadTo(file', Len(file'))
  BY <1>2, <1>5, ReadsAll DEF Visible
<1>8. PICK n \in Nat : n = synced' /\ n <= Len(file')
  BY <1>2
<1>9. ReadTo(file', n) \subseteq ReadTo(file', Len(file'))
  BY <1>2, <1>8, BeginsItself, ReadToGrows
<1>10. acked' \subseteq ReadTo(file', Len(file'))
  BY <1>8, <1>9 DEF PromiseInv
<1> QED
  BY <1>2, <1>5, <1>6, <1>7, <1>10

\* Append keeps it: the file only grows, and the new entry ends the stream.
LEMMA PromiseAppend ==
    ASSUME PromiseInv, ShapeInv', CompactInv', NEW row \in Rows, NEW action \in Actions,
           LET e == NewEntry(row, action)
           IN  AppendBuffered(e) \/ AppendSpills(e) \/ AppendShort(e)
    PROVE  PromiseInv' /\ Begins(file, file') /\ acked' = acked /\ rewritten' = rewritten
<1> DEFINE e == NewEntry(row, action)
<1>1. /\ e \in Entry /\ e.id = appended + 1 /\ appended' = appended + 1
      /\ LogTyped'
      /\ Begins(file, file')
      /\ Begins(Stream', Stream \o Line(e))
      /\ fd = "log" /\ ~ werr' => Stream' = Stream \o Line(e) /\ session' = session \cup {e}
      /\ ~ werr /\ fd' = fd /\ synced' = synced
      /\ cpc' = cpc /\ kept' = kept /\ tmp' = tmp /\ acked' = acked /\ rewritten' = rewritten
  BY AppendStream, PromiseFacts
<1>2. fd = "log" /\ cpc = "idle"
  BY DEF AppendBuffered, AppendSpills, AppendShort, Usable, PromiseInv, CompactInv, LogTyped
<1> HIDE DEF e
<1>3. ASSUME ~ werr'
      PROVE  session' \subseteq ReadTo(Stream', Len(Stream'))
  <2> DEFINE g == Stream \o Line(e)
  <2>1. Stream \in Seq(Token) /\ Shaped(Stream) /\ Whole(Stream)
    BY <1>1, <1>2, PromiseFacts DEF PromiseInv, ShapeInv
  <2>2. /\ g \in Seq(Token) /\ Len(g) = Len(Stream) + 3
        /\ g[Len(Stream) + 1].part = "head" /\ g[Len(Stream) + 1].entry = e
        /\ Begins(Stream, g)
        /\ Shaped(g) /\ Whole(g)
    BY <1>1, <2>1, ShapedWithLine
  <2> HIDE DEF g
  <2>3. PICK n \in Nat : n = Len(Stream)
    BY <2>1, LenProperties
  <2>4. PICK m \in Nat : m = Len(g)
    BY <2>2, LenProperties
  <2>5. PICK k \in Nat : n = 3*k
    BY <2>1, <2>3 DEF Whole
  <2>6. ReadTo(Stream, n) \subseteq ReadTo(g, m)
    BY <2>1, <2>2, <2>3, <2>4, ReadToGrows
  <2>7. k \in 0..m /\ 3*k + 2 <= m /\ g[3*k + 1].entry = e
    BY <2>2, <2>3, <2>4, <2>5
  <2>8. e \in ReadTo(g, m)
    BY <2>7 DEF ReadTo
  <2>9. session \subseteq ReadTo(Stream, n)
    BY <1>1, <1>2, <2>3 DEF PromiseInv
  <2>10. Stream' = g /\ session' = session \cup {e}
    BY <1>1, <1>2, <1>3 DEF g
  <2> QED
    BY <2>4, <2>6, <2>8, <2>9, <2>10
<1>4. acked' \subseteq ReadTo(file', IF rewritten' THEN Len(file') ELSE synced')
  <2>1. file \in Seq(Token) /\ Len(file) \in Nat /\ synced \in Nat /\ synced <= Len(file)
    BY PromiseFacts
  <2>2. file' \in Seq(Token) /\ Len(file') \in Nat /\ Len(file) <= Len(file')
    BY <1>1, LenProperties DEF LogTyped, Begins
  <2>3. ReadTo(file, Len(file)) \subseteq ReadTo(file', Len(file'))
    BY <1>1, <2>1, <2>2, ReadToGrows
  <2>4. synced <= synced
    BY <2>1
  <2>5. ReadTo(file, synced) \subseteq ReadTo(file', synced)
    BY <1>1, <2>1, <2>2, <2>4, ReadToGrows
  <2> QED
    BY <1>1, <2>3, <2>5 DEF PromiseInv
<1> QED
  BY <1>1, <1>2, <1>3, <1>4 DEF PromiseInv

\* So does writing out the buffer.
LEMMA PromiseFlush ==
    ASSUME PromiseInv, ShapeInv', CompactInv', FlushWrites \/ FlushShort
    PROVE  PromiseInv' /\ Begins(file, file') /\ acked' = acked /\ rewritten' = rewritten
<1>1. LogTyped' /\ Stream' = Stream /\ Begins(file, file') /\ (FlushShort => werr')
  BY FlushStream, PromiseFacts
<1>2. /\ fd' = fd /\ session' = session /\ synced' = synced
      /\ cpc' = cpc /\ acked' = acked /\ rewritten' = rewritten
      /\ FlushWrites => werr' = werr
  BY DEF FlushWrites, FlushShort, compaction, history
<1>3. fd = "log" /\ cpc = "idle"
  BY DEF FlushWrites, FlushShort, Usable, PromiseInv, CompactInv, LogTyped
<1>4. acked' \subseteq ReadTo(file', IF rewritten' THEN Len(file') ELSE synced')
  <2>1. file \in Seq(Token) /\ Len(file) \in Nat /\ synced \in Nat /\ synced <= Len(file)
    BY PromiseFacts
  <2>2. file' \in Seq(Token) /\ Len(file') \in Nat /\ Len(file) <= Len(file')
    BY <1>1, LenProperties DEF LogTyped, Begins
  <2>3. ReadTo(file, Len(file)) \subseteq ReadTo(file', Len(file'))
    BY <1>1, <2>1, <2>2, ReadToGrows
  <2>4. synced <= synced
    BY <2>1
  <2>5. ReadTo(file, synced) \subseteq ReadTo(file', synced)
    BY <1>1, <2>1, <2>2, <2>4, ReadToGrows
  <2> QED
    BY <1>2, <2>3, <2>5 DEF PromiseInv
<1>5. ~ werr' => session' \subseteq ReadTo(Stream', Len(Stream'))
  BY <1>1, <1>2, <1>3 DEF PromiseInv
<1> QED
  BY <1>1, <1>2, <1>3, <1>4, <1>5 DEF PromiseInv

\* Sync comes when the buffer is empty, so all that was accepted is on the disk.
LEMMA PromiseSynced ==
    ASSUME PromiseInv, ShapeInv', CompactInv', Synced
    PROVE  PromiseInv' /\ file' = file /\ acked \subseteq acked' /\ (rewritten' => rewritten)
<1>1. fd = "log" /\ cpc = "idle" /\ ~ werr /\ buf = <<>>
  BY DEF Synced, PromiseInv, CompactInv, LogTyped
<1>2. /\ file' = file /\ synced' = Len(file) /\ acked' = acked \cup session /\ ~ rewritten'
      /\ fd' \in {"log", "none"} /\ buf' = buf /\ werr' = werr /\ session' = session
      /\ cpc' = cpc
  BY <1>1 DEF Synced, compaction
<1>3. file \in Seq(Token) /\ Stream = file
  <2>1. file \in Seq(Token)
    BY PromiseFacts
  <2>2. file \o <<>> = file
    BY <2>1, ConcatEmptySeq
  <2> QED
    BY <1>1, <2>1, <2>2 DEF Stream
<1>4. Stream' = file
  BY <1>1, <1>2, <1>3 DEF Stream
<1>5. session \subseteq ReadTo(file, Len(file))
  BY <1>1, <1>3 DEF PromiseInv
<1>6. acked \subseteq ReadTo(file, Len(file))
  BY PromiseFacts
<1>7. acked' \subseteq ReadTo(file', IF rewritten' THEN Len(file') ELSE synced')
  BY <1>2, <1>5, <1>6
<1> QED
  BY <1>1, <1>2, <1>4, <1>5, <1>7 DEF PromiseInv

\* Steps that leave the file and what was acknowledged alone.
LEMMA PromiseQuiet ==
    ASSUME PromiseInv, ShapeInv', CompactInv',
           \/ OpenStore \/ SyncFails \/ WriterKilled
           \/ CompactReads \/ CompactWrites \/ CompactStops \/ UNCHANGED vars
    PROVE  PromiseInv' /\ file' = file /\ acked' = acked /\ rewritten' = rewritten
<1>1. file' = file /\ acked' = acked /\ rewritten' = rewritten /\ synced' = synced
  BY DEF OpenStore, SyncFails, WriterKilled, CompactReads, CompactWrites, CompactStops,
         vars, store, history
<1>2. acked' \subseteq ReadTo(file', IF rewritten' THEN Len(file') ELSE synced')
  BY <1>1 DEF PromiseInv
<1>3. CASE OpenStore \/ WriterKilled
  <2>1. session' = {}
    BY <1>3 DEF OpenStore, WriterKilled, Forget
  <2> QED
    BY <1>1, <1>2, <2>1 DEF PromiseInv
<1>4. CASE \/ SyncFails \/ CompactReads \/ CompactWrites \/ CompactStops \/ UNCHANGED vars
  <2>1. fd' = fd /\ session' = session /\ buf' = buf /\ werr' = werr
    BY <1>4 DEF SyncFails, CompactReads, CompactWrites, CompactStops, vars, store
  <2>2. Stream' = Stream
    BY <1>1, <2>1 DEF Stream
  <2> QED
    BY <1>1, <1>2, <2>1, <2>2 DEF PromiseInv
<1> QED
  BY <1>1, <1>3, <1>4

\* What was acknowledged and is to be kept is in the new file.
LEMMA PromiseRename ==
    ASSUME PromiseInv, ShapeInv', CompactInv', CompactRenames
    PROVE  /\ PromiseInv' /\ Visible' = Compacted(Visible)
           /\ acked' = acked \cap ToSet(Visible') /\ rewritten'
<1>1. /\ rewritten' = TRUE
      /\ acked' = {e \in acked : e.row \in Dropped(Visible) => e.action = "DROP"}
      /\ fd' # "log"
  BY DEF CompactRenames
<1>2. /\ Visible \in Seq(Entry) /\ Compacted(Visible) \in Seq(Entry)
      /\ file' = AllLines(Compacted(Visible))
      /\ Visible' = Compacted(Visible)
  BY RenameLeaves DEF PromiseInv
<1>3. acked \subseteq ToSet(Visible)
  BY PromiseFacts
<1>4. ToSet(Compacted(Visible)) =
         {e \in ToSet(Visible) : e.row \in Dropped(Visible) => e.action = "DROP"}
  BY <1>2, CompactedMembers
<1>5. acked' = acked \cap ToSet(Visible')
  BY <1>1, <1>2, <1>3, <1>4
<1>6. acked' \subseteq ReadTo(file', IF rewritten' THEN Len(file') ELSE synced')
  <2> DEFINE f == AllLines(Compacted(Visible))
  <2>1. f \in Seq(Token) /\ Shaped(f)
    BY <1>2, AllLinesAre, LinesShaped
  <2>2. file' = f
    BY <1>2
  <2> HIDE DEF f
  <2>3. ToSet(Entries(f)) = ReadTo(f, Len(f))
    BY <2>1, ReadsAll
  <2>4. Visible' = Entries(f)
    BY <2>2 DEF Visible
  <2> QED
    BY <1>1, <1>5, <2>2, <2>3, <2>4
<1> QED
  BY <1>1, <1>2, <1>5, <1>6 DEF PromiseInv

\* What is lost with the power was not synced.
LEMMA PromiseLost ==
    ASSUME PromiseInv, ShapeInv', CompactInv', PowerLost
    PROVE  /\ PromiseInv' /\ Begins(file', file) /\ ~ rewritten'
           /\ acked' = IF rewritten THEN acked \cap ToSet(Visible') ELSE acked
<1>1. /\ LogTyped' /\ Begins(file', file) /\ fd' = "none" /\ cpc' = "idle"
      /\ synced' = Len(file') /\ synced <= synced'
  BY PowerLostStream, PromiseFacts
<1>2. ~ rewritten' /\ acked' = IF rewritten THEN acked \cap ToSet(Visible') ELSE acked
  BY DEF PowerLost
<1>3. file' \in Seq(Token) /\ Shaped(file')
  <2>1. file' \in Seq(Token)
    BY <1>1 DEF LogTyped
  <2>2. file \in Seq(Token) /\ Shaped(file)
    BY PromiseFacts
  <2> QED
    BY <1>1, <2>1, <2>2, ShapedInPart
<1>4. ToSet(Visible') = ReadTo(file', Len(file'))
  BY <1>3, ReadsAll DEF Visible
<1>5. ~ rewritten => acked \subseteq ReadTo(file', Len(file'))
  <2>1. file \in Seq(Token) /\ Len(file) \in Nat /\ synced \in Nat /\ synced <= Len(file)
    BY PromiseFacts
  <2>2. PICK m \in Nat : m = Len(file') /\ synced <= m
    BY <1>1, <1>3, LenProperties
  <2>3. \A i \in 1..m : file'[i] = file[i]
    BY <1>1, <2>2 DEF Begins
  <2>4. ReadTo(file, synced) \subseteq ReadTo(file', m)
    <3>1. ASSUME NEW k \in 0..synced, 3*k + 2 <= synced
          PROVE  k \in 0..m /\ 3*k + 2 <= m /\ file'[3*k + 1].entry = file[3*k + 1].entry
      <4>1. k \in 0..m /\ 3*k + 2 <= m /\ 3*k + 1 \in 1..m
        BY <2>1, <2>2, <3>1
      <4> QED
        BY <2>3, <4>1
    <3> QED
      BY <3>1 DEF ReadTo
  <2> QED
    BY <2>2, <2>4 DEF PromiseInv
<1>6. acked' \subseteq ReadTo(file', IF rewritten' THEN Len(file') ELSE synced')
  BY <1>1, <1>2, <1>4, <1>5
<1> QED
  BY <1>1, <1>2, <1>6 DEF PromiseInv

\* The program as its own commands use it: a Store is opened on a log that ends
\* in a newline, and Compact runs while no Store is open and on a disk with room.
Careful == ~ OpensTorn /\ ~ CompactFills /\ ~ CompactsLive

\* Every step of a careful program keeps what is owed.
LEMMA PromiseStep ==
    ASSUME Careful, PromiseInv, [Next]_vars
    PROVE  PromiseInv'
<1>1. ShapeInv' /\ CompactInv'
  BY ShapeStep, CompactStep DEF Careful, PromiseInv
<1> QED
  BY <1>1, PromiseAppend, PromiseFlush, PromiseSynced, PromiseQuiet, PromiseRename, PromiseLost
     DEF Next

-------------------------------------------------------------------------------
(* The refinement *)

\* The abstract log compacts as this one does.
LEMMA SameCompacted ==
    ASSUME NEW es
    PROVE  Promise!Compacted(es) = Compacted(es)
<1>1. Promise!Dropped(es) = Dropped(es)
  BY DEF Promise!Dropped, Promise!ToSet, Dropped, ToSet
<1>2. \A S : Promise!Pick(es, S) = Pick(es, S)
  BY DEF Promise!Pick, Promise!Nth, Promise!Cardinality, Pick, Nth, Cardinality
<1> QED
  BY <1>1, <1>2 DEF Promise!Compacted, Compacted

\* Appends, flushes and syncs let the abstract log grow; a power loss is its loss,
\* and a rename its compaction.
LEMMA PromiseImplements ==
    ASSUME PromiseInv, PromiseInv', [Next]_vars
    PROVE  [Promise!Next]_Promise!vars
<1>1. ShapeInv' /\ CompactInv'
  BY DEF PromiseInv
<1>2. ASSUME Begins(file, file'), acked \subseteq acked', rewritten' => rewritten
      PROVE  [Promise!Next]_Promise!vars
  <2>1. file \in Seq(Token) /\ Shaped(file) /\ file' \in Seq(Token) /\ Shaped(file')
    BY PromiseFacts, PromiseFactsNext
  <2>2. IsPrefix(Entries(file), Entries(file'))
    BY <1>2, <2>1, PartReads
  <2>3. acked' \subseteq ToSet(Visible')
    BY PromiseFactsNext
  <2>4. Promise!Grow(Visible, Visible')
    BY <1>2, <2>2, <2>3
       DEF Promise!Grow, Promise!IsPrefix, Promise!ToSet, IsPrefix, ToSet, Visible
  <2> QED
    BY <2>4 DEF Promise!Next
<1>3. ASSUME file' = file, acked \subseteq acked', rewritten' => rewritten
      PROVE  [Promise!Next]_Promise!vars
  <2>1. Begins(file, file')
    BY <1>3, PromiseFacts, BeginsItself
  <2> QED
    BY <1>2, <1>3, <2>1
<1>4. ASSUME PowerLost
      PROVE  [Promise!Next]_Promise!vars
  <2>1. /\ Begins(file', file) /\ ~ rewritten'
        /\ acked' = IF rewritten THEN acked \cap ToSet(Visible') ELSE acked
    BY <1>1, <1>4, PromiseLost
  <2>2. file \in Seq(Token) /\ Shaped(file) /\ file' \in Seq(Token) /\ Shaped(file')
    BY PromiseFacts, PromiseFactsNext
  <2>3. IsPrefix(Entries(file'), Entries(file))
    BY <2>1, <2>2, PartReads
  <2>4. acked' \subseteq ToSet(Visible')
    BY PromiseFactsNext
  <2>5. Promise!Lose(Visible, Visible')
    BY <2>1, <2>3, <2>4
       DEF Promise!Lose, Promise!IsPrefix, Promise!ToSet, IsPrefix, ToSet, Visible
  <2> QED
    BY <2>5 DEF Promise!Next
<1>5. ASSUME CompactRenames
      PROVE  [Promise!Next]_Promise!vars
  <2>1. Visible' = Compacted(Visible) /\ acked' = acked \cap ToSet(Visible') /\ rewritten'
    BY <1>1, <1>5, PromiseRename
  <2>2. Promise!Compact(Visible, Visible')
    BY <2>1, SameCompacted DEF Promise!Compact, Promise!ToSet, ToSet
  <2> QED
    BY <2>2 DEF Promise!Next
<1>6. ASSUME NEW row \in Rows, NEW action \in Actions,
             LET e == NewEntry(row, action)
             IN  AppendBuffered(e) \/ AppendSpills(e) \/ AppendShort(e)
      PROVE  [Promise!Next]_Promise!vars
  <2>1. Begins(file, file') /\ acked' = acked /\ rewritten' = rewritten
    BY <1>1, <1>6, PromiseAppend
  <2> QED
    BY <1>2, <2>1
<1>7. CASE FlushWrites \/ FlushShort
  <2>1. Begins(file, file') /\ acked' = acked /\ rewritten' = rewritten
    BY <1>1, <1>7, PromiseFlush
  <2> QED
    BY <1>2, <2>1
<1>8. CASE Synced
  BY <1>1, <1>3, <1>8, PromiseSynced
<1>9. CASE \/ OpenStore \/ SyncFails \/ WriterKilled
           \/ CompactReads \/ CompactWrites \/ CompactStops \/ UNCHANGED vars
  <2>1. file' = file /\ acked' = acked /\ rewritten' = rewritten
    BY <1>1, <1>9, PromiseQuiet
  <2> QED
    BY <1>3, <2>1
<1> QED
  BY <1>4, <1>5, <1>6, <1>7, <1>8, <1>9 DEF Next

\* The log implements AppendLog for a careful program: what Flush or Close has
\* acknowledged stays readable, in its order, until Compact drops it.
THEOREM PromiseCorrect ==
    ASSUME Careful
    PROVE  Spec => KeepsPromise
<1>1. Init => PromiseInv
  BY PromiseInit
<1>2. PromiseInv /\ [Next]_vars => PromiseInv'
  BY PromiseStep
<1>3. Init => Promise!Init
  <2>1. SUFFICES ASSUME Init PROVE Promise!Init
    OBVIOUS
  <2>2. file = <<>> /\ acked = {} /\ rewritten = FALSE
    BY <2>1 DEF Init
  <2>3. Visible = <<>>
    <3>1. AllLines(<<>>) = <<>> /\ <<>> \in Seq(Entry)
      <4>1. <<>> \in Seq(Entry) /\ Len(<<>>) = 0
        BY EmptySeq
      <4>2. AllLines(<<>>) \in Seq(Token) /\ Len(AllLines(<<>>)) = 3 * Len(<<>>)
        BY <4>1, AllLinesAre
      <4> QED
        BY <4>1, <4>2, EmptySeq
    <3>2. Entries(AllLines(<<>>)) = <<>>
      BY <3>1, LinesRead
    <3> QED
      BY <2>2, <3>1, <3>2 DEF Visible
  <2> QED
    BY <2>2, <2>3 DEF Promise!Init
<1>4. PromiseInv /\ PromiseInv' /\ [Next]_vars => [Promise!Next]_Promise!vars
  BY PromiseImplements
<1> QED
  BY <1>1, <1>2, <1>3, <1>4, PTL DEF Spec, KeepsPromise, Promise!Spec

-------------------------------------------------------------------------------
(* Compact *)

\* The rows of a list of entries, and the positions of the first entry of each
\* row with the action.
RowsOf(es) == [i \in DOMAIN es |-> es[i].row]
FirstWith(es, action) ==
    {i \in DOMAIN es :
       /\ es[i].action = action
       /\ \A j \in 1..(i - 1) : ~ (es[j].action = action /\ es[j].row = es[i].row)}

\* The positions of the entries Compact keeps.
Keep(es) == {i \in DOMAIN es : es[i].row \in Dropped(es) => es[i].action = "DROP"}

\* The rows of a list are a list as long.
LEMMA RowsOfTyped ==
    ASSUME NEW es \in Seq(Entry)
    PROVE  /\ RowsOf(es) \in Seq(Rows) /\ Len(RowsOf(es)) = Len(es)
           /\ DOMAIN RowsOf(es) = DOMAIN es
           /\ \A i \in DOMAIN es : RowsOf(es)[i] = es[i].row
<1>1. Len(es) \in Nat /\ DOMAIN es = 1..Len(es)
  BY LenProperties
<1>2. \A i \in DOMAIN es : es[i].row \in Rows
  <2> TAKE i \in DOMAIN es
  <2>1. es[i] \in Entry
    BY <1>1, ElementOfSeq
  <2> QED
    BY <2>1 DEF Entry
<1>3. RowsOf(es) \in [1..Len(es) -> Rows] /\ DOMAIN RowsOf(es) = DOMAIN es
  BY <1>1, <1>2 DEF RowsOf
<1>4. RowsOf(es) \in Seq(Rows)
  BY <1>1, <1>3, SeqDef
<1>5. Len(RowsOf(es)) = Len(es)
  BY <1>1, <1>3, <1>4, LenProperties
<1>6. \A i \in DOMAIN es : RowsOf(es)[i] = es[i].row
  BY DEF RowsOf
<1> QED
  BY <1>3, <1>4, <1>5, <1>6

\* When every entry with the action that shares its row with a kept one is kept,
\* the first ones that are kept are the first ones among the kept.
LEMMA FirstAmongKept ==
    ASSUME NEW es \in Seq(Entry), NEW K \in SUBSET DOMAIN es, NEW action,
           \A i \in K : \A j \in DOMAIN es :
              es[i].action = action /\ es[j].action = action /\ es[j].row = es[i].row => j \in K
    PROVE  RowsWith(Pick(es, K), action) = Pick(RowsOf(es), FirstWith(es, action) \cap K)
<1> DEFINE c == Pick(es, K)
           U == FirstWith(es, action) \cap K
<1>1. Len(es) \in Nat /\ DOMAIN es = 1..Len(es)
  BY LenProperties
<1>2. /\ IsFiniteSet(K) /\ K \in SUBSET Nat
      /\ c \in Seq(Entry) /\ Len(c) = Cardinality(K)
      /\ DOMAIN c = 1..Cardinality(K)
      /\ \A k \in 1..Cardinality(K) : Nth(K, k) \in K /\ c[k] = es[Nth(K, k)]
  BY PickIsList
<1>3. /\ Cardinality(K) \in Nat
      /\ \A i \in K : \E k \in 1..Cardinality(K) : Nth(K, k) = i
      /\ \A k, l \in 1..Cardinality(K) : k < l => Nth(K, k) < Nth(K, l)
  BY <1>2, NthLists
<1> HIDE DEF c
<1>4. ASSUME NEW k \in 1..Cardinality(K), k \in FirstWith(c, action)
      PROVE  Nth(K, k) \in U
  <2>1. /\ c[k].action = action
        /\ \A j \in 1..(k - 1) : ~ (c[j].action = action /\ c[j].row = c[k].row)
    BY <1>4 DEF FirstWith
  <2>2. Nth(K, k) \in K /\ c[k] = es[Nth(K, k)] /\ Nth(K, k) \in DOMAIN es
    BY <1>2
  <2>3. ASSUME NEW j \in 1..(Nth(K, k) - 1), es[j].action = action, es[j].row = es[Nth(K, k)].row
        PROVE  FALSE
    <3>1. Nth(K, k) \in Nat /\ Nth(K, k) <= Len(es)
      BY <1>1, <2>2
    <3>2. j \in DOMAIN es /\ j < Nth(K, k) /\ j \in Nat
      BY <1>1, <3>1
    <3>3. j \in K
      BY <2>1, <2>2, <2>3, <3>2
    <3>4. PICK l \in 1..Cardinality(K) : Nth(K, l) = j
      BY <1>3, <3>3
    <3>5. ~ (k < l) /\ k # l
      <4>1. ~ (Nth(K, k) < j) /\ Nth(K, k) # j
        BY <3>1, <3>2
      <4> QED
        BY <1>3, <3>4, <4>1
    <3>6. l \in 1..(k - 1)
      BY <1>3, <3>5
    <3>7. c[l] = es[j]
      BY <1>2, <3>4
    <3> QED
      BY <2>1, <2>2, <2>3, <3>6, <3>7
  <2>4. Nth(K, k) \in FirstWith(es, action)
    BY <2>1, <2>2, <2>3 DEF FirstWith
  <2> QED
    BY <2>2, <2>4
<1>5. ASSUME NEW k \in 1..Cardinality(K), Nth(K, k) \in U
      PROVE  k \in FirstWith(c, action)
  <2>1. c[k] = es[Nth(K, k)]
    BY <1>2
  <2>2. /\ es[Nth(K, k)].action = action
        /\ \A j \in 1..(Nth(K, k) - 1) : ~ (es[j].action = action /\ es[j].row = es[Nth(K, k)].row)
    BY <1>5 DEF FirstWith
  <2>3. ASSUME NEW l \in 1..(k - 1), c[l].action = action, c[l].row = c[k].row
        PROVE  FALSE
    <3>1. l \in 1..Cardinality(K) /\ l < k
      BY <1>3
    <3>2. Nth(K, l) < Nth(K, k)
      BY <1>3, <3>1
    <3>3. Nth(K, l) \in Nat /\ Nth(K, l) >= 1 /\ Nth(K, k) \in Nat /\ c[l] = es[Nth(K, l)]
      BY <1>1, <1>2, <3>1
    <3>4. Nth(K, l) \in 1..(Nth(K, k) - 1)
      BY <3>2, <3>3
    <3> QED
      BY <2>1, <2>2, <2>3, <3>3, <3>4
  <2> QED
    BY <1>2, <2>1, <2>2, <2>3 DEF FirstWith
<1> DEFINE fs == RowsOf(c)
           ds == RowsOf(es)
<1>6. /\ fs \in Seq(Rows) /\ Len(fs) = Cardinality(K) /\ DOMAIN fs = 1..Cardinality(K)
      /\ ds \in Seq(Rows) /\ Len(ds) = Len(es)
      /\ \A k \in 1..Cardinality(K) : fs[k] = ds[Nth(K, k)]
  <2>1. /\ fs \in Seq(Rows) /\ Len(fs) = Len(c) /\ DOMAIN fs = DOMAIN c
        /\ \A i \in DOMAIN c : fs[i] = c[i].row
    BY <1>2, RowsOfTyped
  <2>2. /\ ds \in Seq(Rows) /\ Len(ds) = Len(es) /\ DOMAIN ds = DOMAIN es
        /\ \A i \in DOMAIN es : ds[i] = es[i].row
    BY RowsOfTyped
  <2> HIDE DEF fs, ds
  <2> QED
    BY <1>2, <2>1, <2>2
<1>7. FirstWith(c, action) = {k \in DOMAIN fs : Nth(K, k) \in U}
  <2>1. FirstWith(c, action) \subseteq 1..Cardinality(K)
    BY <1>2 DEF FirstWith
  <2> HIDE DEF fs, U
  <2> QED
    BY <1>4, <1>5, <1>6, <2>1
<1>8. RowsWith(c, action) = Pick(fs, FirstWith(c, action))
  BY DEF RowsWith, RowsOf, FirstWith
<1>9. U \in SUBSET K
  OBVIOUS
<1>10. Pick(fs, {k \in DOMAIN fs : Nth(K, k) \in U}) = Pick(ds, U)
  <2>1. /\ es \in Seq(Entry) /\ K \in SUBSET DOMAIN es /\ U \in SUBSET K
        /\ fs \in Seq(Rows) /\ Len(fs) = Cardinality(K)
        /\ ds \in Seq(Rows) /\ Len(ds) = Len(es)
        /\ \A k \in 1..Cardinality(K) : fs[k] = ds[Nth(K, k)]
    BY <1>6, <1>9
  <2> HIDE DEF fs, ds, U
  <2> QED
    BY <2>1, PickOfPick, SMTT(60)
<1> QED
  BY <1>7, <1>8, <1>10 DEF c

\* RowsWith in these terms.
LEMMA RowsWithAre ==
    ASSUME NEW es, NEW action
    PROVE  RowsWith(es, action) = Pick(RowsOf(es), FirstWith(es, action))
BY DEF RowsWith, RowsOf, FirstWith

\* Which entries Compact keeps: all of rows that were not dropped, and the DROP
\* entries.
LEMMA KeepIs ==
    ASSUME NEW es
    PROVE  /\ Keep(es) \in SUBSET DOMAIN es
           /\ Compacted(es) = Pick(es, Keep(es))
           /\ \A i \in DOMAIN es : es[i].action = "DROP" => es[i].row \in Dropped(es)
           /\ \A i \in DOMAIN es : i \in Keep(es) <=> (es[i].row \in Dropped(es) => es[i].action = "DROP")
<1>1. \A i \in DOMAIN es : es[i].action = "DROP" => es[i].row \in Dropped(es)
  BY DEF Dropped, ToSet
<1>2. Compacted(es) = Pick(es, Keep(es))
  BY DEF Compacted, Keep
<1> QED
  BY <1>1, <1>2 DEF Keep

\* The dropped rows stay, in their order.
LEMMA DroppedRowsKept ==
    ASSUME NEW es \in Seq(Entry)
    PROVE  DroppedRows(Compacted(es)) = DroppedRows(es)
<1> DEFINE K == Keep(es)
<1>1. /\ K \in SUBSET DOMAIN es
      /\ Compacted(es) = Pick(es, K)
      /\ \A i \in DOMAIN es : i \in K <=> (es[i].row \in Dropped(es) => es[i].action = "DROP")
  BY KeepIs
<1> HIDE DEF K
<1>2. RowsWith(Pick(es, K), "DROP") = Pick(RowsOf(es), FirstWith(es, "DROP") \cap K)
  BY <1>1, FirstAmongKept
<1>3. FirstWith(es, "DROP") \cap K = FirstWith(es, "DROP")
  BY <1>1 DEF FirstWith
<1> QED
  BY <1>1, <1>2, <1>3, RowsWithAre DEF DroppedRows

\* The modified rows that were not dropped stay, in their order.
LEMMA ModifiedRowsKept ==
    ASSUME NEW es \in Seq(Entry), NEW rows, rows = ModifiedRows(es)
    PROVE  ModifiedRows(Compacted(es)) =
             Pick(rows, {k \in DOMAIN rows : rows[k] \notin Dropped(es)})
<1> DEFINE K == Keep(es)
           M == FirstWith(es, "MODIFY")
           ds == RowsOf(es)
           U == M \cap K
<1>1. /\ K \in SUBSET DOMAIN es
      /\ Compacted(es) = Pick(es, K)
      /\ \A i \in DOMAIN es : i \in K <=> (es[i].row \in Dropped(es) => es[i].action = "DROP")
  BY KeepIs
<1>2. M \in SUBSET DOMAIN es /\ \A i \in M : es[i].action = "MODIFY"
  BY DEF FirstWith
<1>3. /\ ds \in Seq(Rows) /\ Len(ds) = Len(es) /\ DOMAIN ds = DOMAIN es
      /\ \A i \in DOMAIN es : ds[i] = es[i].row
  BY RowsOfTyped
<1> HIDE DEF K
<1>4. RowsWith(Pick(es, K), "MODIFY") = Pick(ds, U)
  BY <1>1, FirstAmongKept
<1>5. rows = Pick(ds, M)
  BY RowsWithAre DEF ModifiedRows
<1> HIDE DEF M, ds
<1>6. /\ rows \in Seq(Rows) /\ Len(rows) = Cardinality(M) /\ DOMAIN rows = 1..Cardinality(M)
      /\ \A k \in 1..Cardinality(M) : Nth(M, k) \in M /\ rows[k] = ds[Nth(M, k)]
  <2>1. M \in SUBSET DOMAIN ds
    BY <1>2, <1>3
  <2>2. /\ Pick(ds, M) \in Seq(Rows) /\ Len(Pick(ds, M)) = Cardinality(M)
        /\ DOMAIN Pick(ds, M) = 1..Cardinality(M)
        /\ \A k \in 1..Cardinality(M) : Nth(M, k) \in M /\ Pick(ds, M)[k] = ds[Nth(M, k)]
    BY <1>3, <2>1, PickIsList
  <2> QED
    BY <1>5, <2>2
<1>7. Pick(rows, {k \in DOMAIN rows : Nth(M, k) \in U}) = Pick(ds, U)
  <2>1. /\ es \in Seq(Entry) /\ M \in SUBSET DOMAIN es /\ U \in SUBSET M
        /\ rows \in Seq(Rows) /\ Len(rows) = Cardinality(M)
        /\ ds \in Seq(Rows) /\ Len(ds) = Len(es)
        /\ \A k \in 1..Cardinality(M) : rows[k] = ds[Nth(M, k)]
    BY <1>2, <1>3, <1>6
  <2> HIDE DEF U
  <2> QED
    BY <2>1, PickOfPick, SMTT(60)
<1>8. \A k \in DOMAIN rows : Nth(M, k) \in U <=> rows[k] \notin Dropped(es)
  <2> TAKE k \in DOMAIN rows
  <2>1. Nth(M, k) \in M /\ rows[k] = ds[Nth(M, k)] /\ Nth(M, k) \in DOMAIN es
    BY <1>2, <1>6
  <2>2. rows[k] = es[Nth(M, k)].row /\ es[Nth(M, k)].action = "MODIFY"
    BY <1>2, <1>3, <2>1
  <2>3. Nth(M, k) \in K <=> es[Nth(M, k)].row \notin Dropped(es)
    BY <1>1, <2>1, <2>2
  <2> QED
    BY <2>1, <2>2, <2>3
<1>9. {k \in DOMAIN rows : Nth(M, k) \in U} = {k \in DOMAIN rows : rows[k] \notin Dropped(es)}
  BY <1>8
<1> QED
  BY <1>1, <1>4, <1>7, <1>9 DEF ModifiedRows

\* A row that was not dropped keeps its entries.
LEMMA EntriesForRowKept ==
    ASSUME NEW es \in Seq(Entry), NEW row, row \notin Dropped(es)
    PROVE  EntriesForRow(Compacted(es), row) = EntriesForRow(es, row)
<1> DEFINE K == Keep(es)
           c == Pick(es, K)
           U == {i \in DOMAIN es : es[i].row = row}
<1>1. /\ K \in SUBSET DOMAIN es
      /\ Compacted(es) = c
      /\ \A i \in DOMAIN es : i \in K <=> (es[i].row \in Dropped(es) => es[i].action = "DROP")
  BY KeepIs
<1> HIDE DEF K
<1>2. /\ c \in Seq(Entry) /\ Len(c) = Cardinality(K)
      /\ DOMAIN c = 1..Cardinality(K)
      /\ \A k \in 1..Cardinality(K) : Nth(K, k) \in K /\ c[k] = es[Nth(K, k)]
  BY <1>1, PickIsList
<1>3. U \in SUBSET K
  BY <1>1
<1> HIDE DEF c
<1>4. {k \in DOMAIN c : c[k].row = row} = {k \in DOMAIN c : Nth(K, k) \in U}
  BY <1>1, <1>2
<1>5. Pick(c, {k \in DOMAIN c : Nth(K, k) \in U}) = Pick(es, U)
  <2> HIDE DEF U
  <2> QED
    BY <1>1, <1>2, <1>3, PickOfPick
<1> QED
  BY <1>1, <1>4, <1>5 DEF EntriesForRow

\* Validate has nothing to report about compacted entries.
LEMMA CompactedIsValid ==
    ASSUME NEW es \in Seq(Entry)
    PROVE  Validate(Compacted(es)) = {}
<1> DEFINE c == Compacted(es)
<1>1. c \in Seq(Entry) /\ ToSet(c) = {e \in ToSet(es) : e.row \in Dropped(es) => e.action = "DROP"}
  BY CompactedTyped, CompactedMembers
<1>2. Len(c) \in Nat /\ DOMAIN c = 1..Len(c)
  BY <1>1, LenProperties
<1> HIDE DEF c
<1>3. ASSUME NEW i \in DOMAIN c, c[i].action \in {"PASS", "MODIFY"},
             NEW j \in 1..(i - 1), c[j].action = "DROP", c[j].row = c[i].row
      PROVE  FALSE
  <2>1. j \in DOMAIN c
    BY <1>2
  <2>2. c[i] \in ToSet(c) /\ c[j] \in ToSet(c)
    BY <2>1 DEF ToSet
  <2>3. c[j].row \in Dropped(es)
    BY <1>1, <1>3, <2>2 DEF Dropped
  <2>4. c[i].action = "DROP"
    BY <1>1, <1>3, <2>2, <2>3
  <2> QED
    BY <1>3, <2>4
<1>4. Validate(c) = {}
  BY <1>3 DEF Validate
<1> QED
  BY <1>4 DEF c

\* CountEntries counts the lines that were written.
LEMMA LinesCounted ==
    ASSUME NEW es \in Seq(Entry)
    PROVE  CountEntries(AllLines(es)) = Len(es)
<1> DEFINE f == AllLines(es)
<1>1. f \in Seq(Token) /\ Len(f) = 3 * Len(es) /\ Shaped(f)
  BY AllLinesAre, LinesShaped
<1> HIDE DEF f
<1>2. PICK n \in Nat : n = Len(es) /\ Len(f) = 3*n
  BY <1>1, LenProperties
<1> DEFINE S == {i \in LineStarts(f) : f[i].part = "head"}
           g == [k \in 1..n |-> 3*(k - 1) + 1]
<1>3. ASSUME NEW k \in Nat, k < n
      PROVE  3*k + 1 \in S
  <2>1. 3*k + 1 <= Len(f)
    BY <1>2, <1>3
  <2>2. 3*k + 1 \in LineStarts(f)
    BY <1>1, <2>1, ShapedStarts
  <2>3. 3*k + 1 <= Len(f) => f[3*k + 1].part = "head"
    BY <1>1, ShapedAt
  <2> QED
    BY <2>1, <2>2, <2>3
<1>4. ASSUME NEW i \in S
      PROVE  \E k \in Nat : k < n /\ i = 3*k + 1
  <2>1. PICK k \in Nat : i = 3*k + 1 /\ 3*k + 1 <= Len(f)
    BY <1>1, ShapedStarts
  <2>2. k < n
    BY <1>2, <2>1
  <2> QED
    BY <2>1, <2>2
<1> HIDE DEF S
<1>5. S \in SUBSET Nat
  <2> SUFFICES ASSUME NEW i \in S PROVE i \in Nat
    OBVIOUS
  <2>1. PICK k \in Nat : i = 3*k + 1
    BY <1>4
  <2> QED
    BY <2>1
<1>6. \A k \in 1..n : k - 1 \in Nat /\ k - 1 < n /\ g[k] = 3*(k - 1) + 1
  OBVIOUS
<1>7. g \in [1..n -> S]
  <2>1. \A k \in 1..n : g[k] \in S
    BY <1>3, <1>6
  <2> QED
    BY <2>1
<1>8. \A k, l \in 1..n : k < l => g[k] < g[l]
  BY <1>6
<1>9. ASSUME NEW i \in S
      PROVE  \E k \in 1..n : g[k] = i
  <2>1. PICK k \in Nat : k < n /\ i = 3*k + 1
    BY <1>4
  <2>2. k + 1 \in 1..n /\ k + 1 - 1 = k
    BY <2>1
  <2>3. g[k + 1] = 3*(k + 1 - 1) + 1
    BY <1>6, <2>2
  <2>4. g[k + 1] = i
    BY <2>1, <2>2, <2>3
  <2> QED
    BY <2>2, <2>4
<1> HIDE DEF g
<1>10. \A i \in S : \E k \in 1..n : g[k] = i
  BY <1>9
<1>11. Cardinality(S) = n
  BY <1>5, <1>7, <1>8, <1>10, NthUnique
<1> QED
  BY <1>2, <1>11 DEF CountEntries, S, f

\* What Compact is about to write, or has written, are the lines of entries that
\* Validate accepts.
RepairInv ==
    /\ LogTyped
    /\ cpc = "write" => Validate(kept) = {}
    /\ cpc = "rename" => \E es \in Seq(Entry) : tmp = AllLines(es) /\ Validate(es) = {}

\* Every step keeps it, when the temporary file is written in full.
LEMMA RepairStep ==
    ASSUME ~ CompactFills, RepairInv, [Next]_vars
    PROVE  RepairInv'
<1>1. LogTyped /\ kept \in Seq(Entry)
  BY DEF RepairInv, LogTyped
<1>2. ASSUME LogTyped', UNCHANGED compaction
      PROVE  RepairInv'
  BY <1>2 DEF RepairInv, compaction
<1>3. ASSUME LogTyped', cpc' = "idle"
      PROVE  RepairInv'
  BY <1>3 DEF RepairInv
<1>4. ASSUME NEW row \in Rows, NEW action \in Actions,
             LET e == NewEntry(row, action)
             IN  AppendBuffered(e) \/ AppendSpills(e) \/ AppendShort(e)
      PROVE  RepairInv'
  <2> DEFINE e == NewEntry(row, action)
  <2>1. /\ e \in Entry /\ e.id = appended + 1 /\ appended' = appended + 1
        /\ LogTyped'
        /\ Begins(file, file')
        /\ Begins(Stream', Stream \o Line(e))
        /\ fd = "log" /\ ~ werr' => Stream' = Stream \o Line(e) /\ session' = session \cup {e}
        /\ ~ werr /\ fd' = fd /\ synced' = synced
        /\ cpc' = cpc /\ kept' = kept /\ tmp' = tmp /\ acked' = acked /\ rewritten' = rewritten
    BY <1>1, <1>4, AppendStream
  <2> QED
    BY <1>2, <2>1 DEF compaction
<1>5. CASE FlushWrites \/ FlushShort
  <2>1. LogTyped'
    BY <1>1, <1>5, FlushStream
  <2>2. UNCHANGED compaction
    BY <1>5 DEF FlushWrites, FlushShort
  <2> QED
    BY <1>2, <2>1, <2>2
<1>6. CASE OpenStore \/ Synced \/ SyncFails \/ WriterKilled \/ UNCHANGED vars
  <2>1. LogTyped'
    BY <1>1, <1>6, QuietStream
  <2>2. UNCHANGED compaction
    BY <1>6 DEF OpenStore, Synced, SyncFails, WriterKilled, vars, compaction
  <2> QED
    BY <1>2, <2>1, <2>2
<1>7. CASE CompactReads
  <2>1. LogTyped'
    BY <1>1, <1>7, QuietStream
  <2>2. Validate(Compacted(Visible)) = {}
    BY <1>1, VisibleTyped, CompactedIsValid
  <2>3. cpc' = "write" /\ kept' = Compacted(Visible)
    BY <1>7 DEF CompactReads
  <2> QED
    BY <2>1, <2>2, <2>3 DEF RepairInv
<1>8. CASE CompactWrites
  <2>1. LogTyped'
    BY <1>1, <1>8, QuietStream
  <2>2. cpc = "write" /\ cpc' = "rename" /\ tmp' = AllLines(kept)
    BY <1>8 DEF CompactWrites
  <2>3. Validate(kept) = {}
    BY <2>2 DEF RepairInv
  <2> QED
    BY <1>1, <2>1, <2>2, <2>3 DEF RepairInv
<1>9. CASE CompactStops
  <2>1. LogTyped'
    BY <1>1, <1>9, QuietStream
  <2>2. cpc' = "idle"
    BY <1>9 DEF CompactStops
  <2> QED
    BY <1>3, <2>1, <2>2
<1>10. CASE CompactRenames
  <2>1. LogTyped'
    BY <1>1, <1>10, RenameStream
  <2>2. cpc' = "idle"
    BY <1>10 DEF CompactRenames
  <2> QED
    BY <1>3, <2>1, <2>2
<1>11. CASE PowerLost
  <2>1. LogTyped' /\ cpc' = "idle"
    BY <1>1, <1>11, PowerLostStream
  <2> QED
    BY <1>3, <2>1
<1> QED
  BY <1>4, <1>5, <1>6, <1>7, <1>8, <1>9, <1>10, <1>11 DEF Next

\* When its disk is not full, the log that Compact leaves reads without error,
\* counts as it reads and passes Validate, even if the log was torn or written to
\* meanwhile.
THEOREM RepairsCorrect ==
    ASSUME ~ CompactFills
    PROVE  Spec => CompactRepairs
<1>1. Init => RepairInv
  BY OrderInit DEF OrderInv, RepairInv, Init
<1>2. RepairInv /\ [Next]_vars => RepairInv'
  BY RepairStep
<1>3. ASSUME RepairInv, CompactRenames
      PROVE  /\ ReadError(file') = "none"
             /\ CountEntries(file') = Len(Visible')
             /\ Validate(Visible') = {}
  <2>1. PICK es \in Seq(Entry) : tmp = AllLines(es) /\ Validate(es) = {}
    BY <1>3 DEF RepairInv, CompactRenames
  <2>2. file' = AllLines(es)
    BY <1>3, <2>1 DEF CompactRenames
  <2>3. Visible' = es
    BY <2>2, LinesRead DEF Visible
  <2>4. ReadError(AllLines(es)) = "none"
    BY AllLinesAre, LinesShaped, ShapedReads
  <2>5. CountEntries(AllLines(es)) = Len(es)
    BY LinesCounted
  <2> QED
    BY <2>1, <2>2, <2>3, <2>4, <2>5
<1>4. RepairInv /\ [Next]_vars =>
        [CompactRenames => /\ ReadError(file') = "none"
                           /\ CountEntries(file') = Len(Visible')
                           /\ Validate(Visible') = {}]_vars
  BY <1>3
<1> QED
  BY <1>1, <1>2, <1>4, PTL DEF Spec, CompactRepairs

\* When no Store is open meanwhile and the disk is not full, Compact leaves the
\* answers of a Tracker about rows that were not dropped as they were.
THEOREM AnswersCorrect ==
    ASSUME ~ CompactFills, ~ CompactsLive
    PROVE  Spec => CompactKeepsAnswers
<1>1. Init => CompactInv
  BY OrderInit DEF OrderInv, CompactInv, Init
<1>2. CompactInv /\ [Next]_vars => CompactInv'
  BY CompactStep
<1>3. ASSUME CompactInv, CompactRenames
      PROVE  /\ DroppedRows(Visible') = DroppedRows(Visible)
             /\ LET rows == ModifiedRows(Visible)
                IN  ModifiedRows(Visible') =
                      Pick(rows, {k \in DOMAIN rows : rows[k] \notin Dropped(Visible)})
             /\ \A row \in Rows \ Dropped(Visible) :
                  EntriesForRow(Visible', row) = EntriesForRow(Visible, row)
  <2>1. /\ Visible \in Seq(Entry) /\ Compacted(Visible) \in Seq(Entry)
        /\ file' = AllLines(Compacted(Visible))
        /\ Visible' = Compacted(Visible)
    BY <1>3, RenameLeaves
  <2>2. DroppedRows(Compacted(Visible)) = DroppedRows(Visible)
    BY <2>1, DroppedRowsKept
  <2>3. \A row \in Rows \ Dropped(Visible) :
          EntriesForRow(Compacted(Visible), row) = EntriesForRow(Visible, row)
    BY <2>1, EntriesForRowKept
  <2> DEFINE rows == ModifiedRows(Visible)
  <2>4. ModifiedRows(Compacted(Visible)) =
          Pick(rows, {k \in DOMAIN rows : rows[k] \notin Dropped(Visible)})
    BY <2>1, ModifiedRowsKept
  <2> QED
    BY <2>1, <2>2, <2>3, <2>4
<1>4. CompactInv /\ [Next]_vars =>
        [CompactRenames =>
           /\ DroppedRows(Visible') = DroppedRows(Visible)
           /\ LET rows == ModifiedRows(Visible)
              IN  ModifiedRows(Visible') =
                    Pick(rows, {k \in DOMAIN rows : rows[k] \notin Dropped(Visible)})
           /\ \A row \in Rows \ Dropped(Visible) :
                EntriesForRow(Visible', row) = EntriesForRow(Visible, row)]_vars
  BY <1>3
<1> QED
  BY <1>1, <1>2, <1>4, PTL DEF Spec, CompactKeepsAnswers
===============================================================================
