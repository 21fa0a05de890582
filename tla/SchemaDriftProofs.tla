--------------------------- MODULE SchemaDriftProofs ---------------------------
(***************************************************************************)
(* What Infer and DetectDrift promise, on all tables and schemas.          *)
(*                                                                         *)
(* The three loops of DetectDrift each look for one kind of drift at one   *)
(* position after the other: the invariant is that the schemas have been   *)
(* found compatible, or without drift, exactly when nothing was to be      *)
(* found at the positions that the loops have passed.                      *)
(***************************************************************************)
EXTENDS SchemaDrift, PositionProofs

-------------------------------------------------------------------------------
(* What one iteration finds *)

IsSchema(s) == s \in Seq(ToSet(s)) /\ \A k \in DOMAIN s : s[k].nullable \in BOOLEAN

\* The map by name has a column of that name, and no later one has it.
LEMMA ByNameIsLast ==
    ASSUME NEW s, IsSchema(s), NEW name, HasName(s, name)
    PROVE  \E k \in DOMAIN s : /\ s[k].name = name
                               /\ ByName(s, name) = s[k]
                               /\ \A j \in DOMAIN s : s[j].name = name => j <= k
<1> DEFINE S == {k \in DOMAIN s : s[k].name = name}
<1>1. Len(s) \in Nat /\ DOMAIN s = 1..Len(s)
  BY DEF IsSchema
<1>2. S # {} /\ S \in SUBSET DOMAIN s
  BY DEF HasName
<1>3. IsFiniteSet(1..Len(s))
  BY <1>1, FS_Interval
<1>4. S \in SUBSET Nat /\ IsFiniteSet(S)
  BY <1>1, <1>2, <1>3, FS_Subset
<1>5. Max(S) \in S /\ \A j \in S : Max(S) >= j
  <2> HIDE DEF S
  <2> QED
    BY <1>2, <1>4, MaxIsLargest
<1>6. ByName(s, name) = s[Max(S)]
  BY DEF ByName
<1>7. PICK k \in S : k = Max(S)
  BY <1>5
<1>8. \A j \in S : k >= j
  BY <1>5, <1>7
<1>9. ASSUME NEW j \in DOMAIN s, s[j].name = name PROVE j <= k
  <2>1. j \in S
    BY <1>9
  <2>2. k >= j
    BY <1>8, <2>1
  <2>3. j \in Nat /\ k \in Nat
    BY <1>4, <2>1
  <2> HIDE DEF S
  <2> QED
    BY <2>2, <2>3
<1>10. k \in DOMAIN s /\ s[k].name = name /\ ByName(s, name) = s[k]
  BY <1>6, <1>7
<1> QED
  BY <1>9, <1>10

\* A change of type is narrowing unless it is one of those that break nothing.
LEMMA NarrowingIs ==
    ASSUME NEW o, NEW n, o # n
    PROVE  IsNarrowing(o, n) \in BOOLEAN /\ (IsNarrowing(o, n) <=> <<o, n>> \notin WiderTypes)
<1>1. /\ DOMAIN Rank = {"bool", "int", "float", "date", "string"}
      /\ Rank["bool"] = 0 /\ Rank["int"] = 1 /\ Rank["float"] = 2
      /\ Rank["date"] = 2 /\ Rank["string"] = 3
  BY DEF Rank
<1>2. IsNarrowing(o, n) \in BOOLEAN
  BY Zenon DEF IsNarrowing
<1>3. IsNarrowing(o, n) <=> (o \in DOMAIN Rank /\ n \in DOMAIN Rank => Rank[n] < Rank[o])
  BY DEF IsNarrowing
<1>4. CASE o \in DOMAIN Rank /\ n \in DOMAIN Rank
  BY <1>1, <1>2, <1>3, <1>4 DEF WiderTypes
<1>5. CASE ~ (o \in DOMAIN Rank /\ n \in DOMAIN Rank)
  BY <1>1, <1>2, <1>3, <1>5 DEF WiderTypes
<1> QED
  BY <1>4, <1>5

AnyChange ==
    [column : {old[k].name : k \in DOMAIN old} \cup {new[k].name : k \in DOMAIN new},
     kind   : {"REMOVED", "ADDED", "TYPE_CHANGE", "NULLABLE_CHANGE"},
     breaks : BOOLEAN]

BreakingOf(changes) == {k \in DOMAIN changes : changes[k].breaks}

\* How many of the changes break something.
LEMMA BreakingCount ==
    ASSUME NEW E, NEW c \in Seq(E)
    PROVE  /\ Cardinality(BreakingOf(c)) \in Nat /\ Cardinality(BreakingOf(c)) <= Len(c)
           /\ Cardinality(BreakingOf(c)) = 0 <=> BreakingOf(c) = {}
<1>1. Len(c) \in Nat /\ DOMAIN c = 1..Len(c)
  OBVIOUS
<1>2. IsFiniteSet(1..Len(c)) /\ Cardinality(1..Len(c)) = Len(c)
  BY <1>1, FS_Interval
<1>3. BreakingOf(c) \in SUBSET 1..Len(c)
  BY <1>1 DEF BreakingOf
<1>4. IsFiniteSet(BreakingOf(c)) /\ Cardinality(BreakingOf(c)) <= Len(c)
  BY <1>2, <1>3, FS_Subset
<1> QED
  BY <1>4, FS_CardinalityType, FS_EmptySet

\* What breaks, and what drifts, at a position of a loop.
BreaksAt(loop, k) ==
    /\ k \in DOMAIN old
    /\ \/ loop = "removed" /\ ~ HasName(new, old[k].name)
       \/ /\ loop = "changed" /\ HasName(new, old[k].name)
          /\ ~ Widens(old[k], ByName(new, old[k].name))

SameKind(o, n) == o.type = n.type /\ o.nullable = n.nullable

DriftsAt(loop, k) ==
    \/ loop = "removed" /\ k \in DOMAIN old /\ ~ HasName(new, old[k].name)
    \/ loop = "added" /\ k \in DOMAIN new /\ ~ HasName(old, new[k].name)
    \/ /\ loop = "changed" /\ k \in DOMAIN old /\ HasName(new, old[k].name)
       /\ ~ SameKind(old[k], ByName(new, old[k].name))

\* The changes that an iteration reports are those that there are.
LEMMA ChangesExact ==
    ASSUME NEW k \in DOMAIN old, NEW n, old[k].nullable \in BOOLEAN, n.nullable \in BOOLEAN
    PROVE  /\ Changes(old[k], n) \in Seq(AnyChange)
           /\ BreakingOf(Changes(old[k], n)) = {} <=> Widens(old[k], n)
           /\ Changes(old[k], n) = <<>> <=> SameKind(old[k], n)
<1> DEFINE o == old[k]
           narrows == IsNarrowing(o.type, n.type)
           a == Change(o, "TYPE_CHANGE", narrows)
           b == Change(o, "NULLABLE_CHANGE", o.nullable)
<1>1. o.name \in {old[j].name : j \in DOMAIN old}
  OBVIOUS
<1>2. o.type # n.type => /\ narrows \in BOOLEAN
                         /\ narrows <=> <<o.type, n.type>> \notin WiderTypes
  BY NarrowingIs
<1>3. b \in AnyChange /\ b.breaks = o.nullable
  BY <1>1 DEF Change, AnyChange
<1>4. o.type # n.type => a \in AnyChange /\ a.breaks = narrows
  BY <1>1, <1>2 DEF Change, AnyChange
<1>5. Changes(o, n) = (IF o.type = n.type THEN <<>> ELSE <<a>>)
                      \o (IF o.nullable = n.nullable THEN <<>> ELSE <<b>>)
  BY DEF Changes
<1>6. Widens(o, n) <=> /\ o.type = n.type \/ <<o.type, n.type>> \in WiderTypes
                       /\ o.nullable => n.nullable
  BY DEF Widens
<1>7. SameKind(o, n) <=> o.type = n.type /\ o.nullable = n.nullable
  BY DEF SameKind
<1> HIDE DEF a, b, narrows, o
<1>8. \A x, y : x \in AnyChange /\ y \in AnyChange =>
          /\ <<>> \o <<>> = <<>> /\ <<x>> \o <<>> = <<x>>
          /\ <<>> \o <<y>> = <<y>> /\ <<x>> \o <<y>> = <<x, y>>
          /\ <<>> \in Seq(AnyChange) /\ <<x>> \in Seq(AnyChange) /\ <<x, y>> \in Seq(AnyChange)
          /\ <<x>> # <<>> /\ <<x, y>> # <<>>
  <2> TAKE x, y
  <2> HAVE x \in AnyChange /\ y \in AnyChange
  <2>1. <<>> \in Seq(AnyChange) /\ <<x>> \in Seq(AnyChange) /\ <<y>> \in Seq(AnyChange)
        /\ <<x, y>> \in Seq(AnyChange)
    OBVIOUS
  <2>2. <<>> \o <<>> = <<>> /\ <<x>> \o <<>> = <<x>> /\ <<>> \o <<y>> = <<y>>
    BY <2>1, ConcatEmptySeq
  <2>3. <<x>> \o <<y>> = <<x, y>>
    <3>1. Len(<<x>>) = 1 /\ Len(<<y>>) = 1 /\ Len(<<x, y>>) = 2
      OBVIOUS
    <3>2. /\ <<x>> \o <<y>> \in Seq(AnyChange) /\ Len(<<x>> \o <<y>>) = 2
          /\ (<<x>> \o <<y>>)[1] = x /\ (<<x>> \o <<y>>)[2] = y
      BY <2>1, <3>1, ConcatProperties
    <3> DEFINE u == <<x>> \o <<y>>
               v == <<x, y>>
    <3>3. v \in Seq(AnyChange) /\ Len(v) = 2 /\ v[1] = x /\ v[2] = y
      BY <2>1, <3>1
    <3>4. u \in Seq(AnyChange) /\ Len(u) = 2 /\ u[1] = x /\ u[2] = y
      BY <3>2
    <3> HIDE DEF u, v
    <3>5. Len(u) = Len(v) /\ \A j \in 1..Len(u) : u[j] = v[j]
      BY <3>3, <3>4
    <3>6. u = v
      BY <3>3, <3>4, <3>5, SeqEqual
    <3> QED
      BY <3>6 DEF u, v
  <2>4. <<x>> # <<>> /\ <<x, y>> # <<>>
    OBVIOUS
  <2> QED
    BY <2>1, <2>2, <2>3, <2>4
<1>9. \A x, y : /\ BreakingOf(<<>>) = {}
                /\ BreakingOf(<<x>>) = {} <=> ~ x.breaks
                /\ BreakingOf(<<x, y>>) = {} <=> ~ x.breaks /\ ~ y.breaks
  <2> TAKE x, y
  <2>1. DOMAIN <<>> = {} /\ DOMAIN <<x>> = {1} /\ DOMAIN <<x, y>> = {1, 2}
    OBVIOUS
  <2>2. BreakingOf(<<>>) = {}
    BY <2>1 DEF BreakingOf
  <2>3. BreakingOf(<<x>>) = {} <=> ~ x.breaks
    BY <2>1 DEF BreakingOf
  <2>4. BreakingOf(<<x, y>>) = {} <=> ~ x.breaks /\ ~ y.breaks
    BY <2>1 DEF BreakingOf
  <2> QED
    BY <2>2, <2>3, <2>4
<1>10. CASE o.type = n.type /\ o.nullable = n.nullable
  BY <1>3, <1>5, <1>6, <1>7, <1>8, <1>9, <1>10 DEF o
<1>11. CASE o.type = n.type /\ o.nullable # n.nullable
  <2>1. Changes(o, n) = <<b>>
    BY <1>3, <1>5, <1>8, <1>11
  <2>2. ~ o.nullable <=> (o.nullable => n.nullable)
    BY <1>11 DEF o
  <2> QED
    BY <1>3, <1>6, <1>7, <1>8, <1>9, <1>11, <2>1, <2>2 DEF o
<1>12. CASE o.type # n.type /\ o.nullable = n.nullable
  <2>1. Changes(o, n) = <<a>>
    BY <1>4, <1>5, <1>8, <1>12
  <2> QED
    BY <1>2, <1>4, <1>6, <1>7, <1>8, <1>9, <1>12, <2>1 DEF o
<1>13. CASE o.type # n.type /\ o.nullable # n.nullable
  <2>1. Changes(o, n) = <<a, b>>
    BY <1>3, <1>4, <1>5, <1>8, <1>13
  <2>2. ~ o.nullable <=> (o.nullable => n.nullable)
    BY <1>13 DEF o
  <2> QED
    BY <1>2, <1>3, <1>4, <1>6, <1>7, <1>8, <1>9, <1>13, <2>1, <2>2 DEF o
<1> QED
  BY <1>10, <1>11, <1>12, <1>13 DEF o

-------------------------------------------------------------------------------
(* The invariant of the three loops *)

Loops == {"removed", "added", "changed"}
Place == [removed |-> 1, added |-> 2, changed |-> 3, done |-> 4]

\* The loop has passed position k.
Passed(loop, k) == Place[loop] < Place[pc] \/ (pc = loop /\ k < i)

SourceInv ==
    \/ /\ table \in Tables /\ opts \in Options
       /\ seen \in 0..Len(table.rows)
       /\ old = Infer(OldTable, opts) /\ new = Infer(table, opts)
    \/ /\ table = NoTable
       /\ old \in Schemas /\ new \in Schemas

ReportInv ==
    /\ entries \in Seq(AnyChange) /\ breaking \in Nat /\ nonBreak \in Nat
    /\ compatible \in BOOLEAN
    /\ breaking + nonBreak = Len(entries)
    /\ compatible <=> breaking = 0

NoBreak == \A loop \in Loops, k \in Nat \ {0} : Passed(loop, k) => ~ BreaksAt(loop, k)
NoDrift == \A loop \in Loops, k \in Nat \ {0} : Passed(loop, k) => ~ DriftsAt(loop, k)

DriftInv ==
    /\ SourceInv
    /\ pc \in Loops \cup {"done"} /\ i \in Nat \ {0}
    /\ ReportInv
    /\ compatible <=> NoBreak
    /\ entries = <<>> <=> NoDrift

\* Infer makes schemas.
LEMMA InferIsSchema ==
    ASSUME NEW t, NEW o, t.header \in Seq(ToSet(t.header))
    PROVE  /\ IsSchema(Infer(t, o))
           /\ Len(Infer(t, o)) = Len(t.header) /\ DOMAIN Infer(t, o) = DOMAIN t.header
           /\ \A ci \in DOMAIN t.header :
                /\ Infer(t, o)[ci].name = t.header[ci]
                /\ Infer(t, o)[ci].type = InferType(Sampled(t.rows, o), ci, o.layouts)
                /\ Infer(t, o)[ci].nullable = InferNullable(Sampled(t.rows, o), ci)
<1> DEFINE s == Infer(t, o)
<1>1. Len(t.header) \in Nat /\ DOMAIN t.header = 1..Len(t.header)
  OBVIOUS
<1>2. /\ DOMAIN s = DOMAIN t.header
      /\ \A ci \in DOMAIN t.header :
           s[ci] = [name     |-> t.header[ci],
                    type     |-> InferType(Sampled(t.rows, o), ci, o.layouts),
                    nullable |-> InferNullable(Sampled(t.rows, o), ci)]
  BY DEF Infer
<1>3. s = [ci \in 1..Len(t.header) |-> s[ci]]
  BY <1>1 DEF Infer
<1> HIDE DEF s
<1>4. \A ci \in 1..Len(t.header) : s[ci] \in ToSet(s)
  BY <1>1, <1>2 DEF ToSet
<1>5. s \in [1..Len(t.header) -> ToSet(s)]
  BY <1>3, <1>4
<1>6. s \in Seq(ToSet(s)) /\ Len(s) = Len(t.header)
  BY <1>1, <1>5
<1>7. \A ci \in DOMAIN t.header :
        /\ s[ci].name = t.header[ci]
        /\ s[ci].type = InferType(Sampled(t.rows, o), ci, o.layouts)
        /\ s[ci].nullable = InferNullable(Sampled(t.rows, o), ci)
  <2> TAKE ci \in DOMAIN t.header
  <2> DEFINE ty == InferType(Sampled(t.rows, o), ci, o.layouts)
             nu == InferNullable(Sampled(t.rows, o), ci)
             na == t.header[ci]
  <2>1. s[ci] = [name |-> na, type |-> ty, nullable |-> nu]
    BY <1>2
  <2> HIDE DEF ty, nu, na
  <2>2. s[ci].name = na /\ s[ci].type = ty /\ s[ci].nullable = nu
    BY <2>1
  <2> QED
    BY <2>2 DEF ty, nu, na
<1>8. \A ci \in DOMAIN t.header : InferNullable(Sampled(t.rows, o), ci) \in BOOLEAN
  BY DEF InferNullable
<1>9. \A ci \in DOMAIN s : s[ci].nullable \in BOOLEAN
  BY <1>2, <1>7, <1>8
<1>10. IsSchema(s)
  BY <1>6, <1>9 DEF IsSchema
<1> QED
  BY <1>2, <1>6, <1>7, <1>10 DEF s

\* The tables of the runs, and how the older one comes from the newer one.
LEMMA OldTableIs ==
    ASSUME table \in Tables
    PROVE  /\ table.header \in Seq(ToSet(table.header)) /\ table.rows \in Seq(Seq(Cells))
           /\ OldTable.header = table.header
           /\ OldTable.rows = SubSeq(table.rows, 1, seen)
<1>1. /\ table = [header |-> table.header, rows |-> table.rows]
      /\ table.header \in Seq(ToSet(table.header)) /\ table.rows \in Seq(Seq(Cells))
  BY TablesAssumption
<1> DEFINE h == table.header
           rs == table.rows
<1>2. OldTable = [table EXCEPT !.rows = SubSeq(rs, 1, seen)]
  BY DEF OldTable
<1>3. table = [header |-> h, rows |-> rs]
  BY <1>1
<1> HIDE DEF h, rs
<1>4. OldTable = [header |-> h, rows |-> SubSeq(rs, 1, seen)]
  BY <1>2, <1>3
<1>5. OldTable.header = h /\ OldTable.rows = SubSeq(rs, 1, seen)
  BY <1>4
<1> QED
  BY <1>1, <1>5 DEF h, rs

LEMMA SourceSchemas ==
    ASSUME SourceInv
    PROVE  IsSchema(old) /\ IsSchema(new)
<1>1. CASE table \in Tables /\ old = Infer(OldTable, opts) /\ new = Infer(table, opts)
  <2>1. /\ table.header \in Seq(ToSet(table.header))
        /\ OldTable.header \in Seq(ToSet(OldTable.header))
    BY <1>1, OldTableIs
  <2> QED
    BY <1>1, <2>1, InferIsSchema
<1>2. CASE old \in Schemas /\ new \in Schemas
  BY <1>2, SchemasAssumption DEF IsSchema
<1> QED
  BY <1>1, <1>2 DEF SourceInv

LEMMA DriftInvInit == Init => DriftInv
<1> SUFFICES ASSUME Init PROVE DriftInv
  OBVIOUS
<1>1. SourceInv
  BY DEF Init, SourceInv
<1>2. pc = "removed" /\ i = 1 /\ entries = <<>> /\ breaking = 0 /\ nonBreak = 0 /\ compatible = TRUE
  BY DEF Init
<1>3. ReportInv
  BY <1>2 DEF ReportInv
<1>4. \A loop \in Loops, k \in Nat \ {0} : ~ Passed(loop, k)
  BY <1>2 DEF Passed, Loops, Place
<1>5. NoBreak /\ NoDrift
  BY <1>4 DEF NoBreak, NoDrift
<1> QED
  BY <1>1, <1>2, <1>3, <1>5 DEF DriftInv, Loops

\* An iteration that finds what there is at its position.
LEMMA Iteration ==
    ASSUME DriftInv, pc \in Loops, NEW c, c \in Seq(AnyChange),
           BreakingOf(c) = {} <=> ~ BreaksAt(pc, i),
           c = <<>> <=> ~ DriftsAt(pc, i),
           Add(c), i' = i + 1, UNCHANGED <<source, args, pc>>
    PROVE  DriftInv'
<1> DEFINE b == Cardinality(BreakingOf(c))
<1>1. b \in Nat /\ b <= Len(c) /\ Len(c) \in Nat /\ (b = 0 <=> BreakingOf(c) = {})
  BY BreakingCount
<1>2. /\ entries' = entries \o c /\ breaking' = breaking + b
      /\ nonBreak' = nonBreak + Len(c) - b
      /\ compatible' = (compatible /\ b = 0)
  BY DEF Add, BreakingOf
<1>3. /\ table' = table /\ opts' = opts /\ seen' = seen /\ old' = old /\ new' = new /\ pc' = pc
      /\ i \in Nat \ {0}
  BY DEF source, args, DriftInv
<1> HIDE DEF b
<1>4. SourceInv'
  BY <1>3 DEF DriftInv, SourceInv, OldTable
<1>5. AnyChange' = AnyChange
  BY <1>3 DEF AnyChange
<1>6. /\ entries \in Seq(AnyChange) /\ breaking \in Nat /\ nonBreak \in Nat
      /\ compatible \in BOOLEAN /\ breaking + nonBreak = Len(entries)
      /\ compatible <=> breaking = 0
  BY DEF DriftInv, ReportInv
<1>7. /\ entries' \in Seq(AnyChange) /\ Len(entries') = Len(entries) + Len(c)
      /\ entries' = <<>> <=> entries = <<>> /\ c = <<>>
  <2>1. entries' \in Seq(AnyChange) /\ Len(entries') = Len(entries) + Len(c)
    BY <1>2, <1>6, ConcatProperties
  <2>2. \A s \in Seq(AnyChange) : Len(s) \in Nat /\ (Len(s) = 0 <=> s = <<>>)
    BY EmptySeq
  <2>3. /\ Len(entries) \in Nat /\ (Len(entries) = 0 <=> entries = <<>>)
        /\ (Len(c) = 0 <=> c = <<>>) /\ (Len(entries') = 0 <=> entries' = <<>>)
    BY <1>6, <2>1, <2>2
  <2> QED
    BY <1>1, <2>1, <2>3
<1>8. ReportInv'
  <2>1. breaking \in Nat /\ nonBreak \in Nat /\ breaking + nonBreak = Len(entries)
    BY <1>6
  <2>2. breaking' = breaking + b /\ nonBreak' = nonBreak + Len(c) - b
    BY <1>2
  <2>3. /\ breaking' \in Nat /\ nonBreak' \in Nat
        /\ breaking' + nonBreak' = Len(entries) + Len(c)
    BY <1>1, <2>1, <2>2
  <2>4. breaking' = 0 <=> breaking = 0 /\ b = 0
    BY <1>1, <2>1, <2>2
  <2>5. compatible' \in BOOLEAN /\ (compatible' <=> breaking' = 0)
    BY <1>2, <1>6, <2>4, Zenon
  <2> QED
    BY <1>5, <1>7, <2>3, <2>5 DEF ReportInv
<1>9. \A loop \in Loops, k \in Nat \ {0} :
         Passed(loop, k)' <=> Passed(loop, k) \/ (loop = pc /\ k = i)
  <2> TAKE loop \in Loops, k \in Nat \ {0}
  <2>1. Passed(loop, k)' <=> Place[loop] < Place[pc] \/ (pc = loop /\ k < i + 1)
    BY <1>3 DEF Passed
  <2>2. k < i + 1 <=> k < i \/ k = i
    BY <1>3
  <2> QED
    BY <2>1, <2>2 DEF Passed
<1>10. /\ \A loop, k : BreaksAt(loop, k)' <=> BreaksAt(loop, k)
       /\ \A loop, k : DriftsAt(loop, k)' <=> DriftsAt(loop, k)
  BY <1>3 DEF BreaksAt, DriftsAt
<1>11. NoBreak' <=> NoBreak /\ ~ BreaksAt(pc, i)
  BY <1>3, <1>9, <1>10 DEF NoBreak
<1>12. NoDrift' <=> NoDrift /\ ~ DriftsAt(pc, i)
  BY <1>3, <1>9, <1>10 DEF NoDrift
<1>13. compatible' <=> NoBreak'
  BY <1>1, <1>2, <1>6, <1>11 DEF DriftInv
<1>14. entries' = <<>> <=> NoDrift'
  BY <1>7, <1>12 DEF DriftInv
<1>15. pc' \in Loops \cup {"done"} /\ i' \in Nat \ {0}
  BY <1>3
<1> QED
  BY <1>4, <1>8, <1>13, <1>14, <1>15 DEF DriftInv

LEMMA DriftInvStep == DriftInv /\ [Next]_vars => DriftInv'
<1> SUFFICES ASSUME DriftInv, [Next]_vars PROVE DriftInv'
  OBVIOUS
<1>1. IsSchema(old) /\ IsSchema(new)
  BY SourceSchemas DEF DriftInv
<1>2. /\ \A n \in {"REMOVED", "ADDED"}, b \in BOOLEAN :
           /\ \A k \in DOMAIN old : Change(old[k], n, b) \in AnyChange
           /\ \A k \in DOMAIN new : Change(new[k], n, b) \in AnyChange
      /\ \A o, n, b : Change(o, n, b).breaks = b
  BY DEF Change, AnyChange
<1>3. /\ <<>> \in Seq(AnyChange) /\ BreakingOf(<<>>) = {}
      /\ \A x \in AnyChange : /\ <<x>> \in Seq(AnyChange) /\ <<x>> # <<>>
                              /\ BreakingOf(<<x>>) = {} <=> ~ x.breaks
  <2>1. <<>> \in Seq(AnyChange) /\ BreakingOf(<<>>) = {}
    BY DEF BreakingOf
  <2>2. ASSUME NEW x \in AnyChange
        PROVE  /\ <<x>> \in Seq(AnyChange) /\ <<x>> # <<>>
               /\ BreakingOf(<<x>>) = {} <=> ~ x.breaks
    <3>1. <<x>> \in Seq(AnyChange) /\ <<x>> # <<>> /\ DOMAIN <<x>> = {1} /\ <<x>>[1] = x
      OBVIOUS
    <3>2. BreakingOf(<<x>>) = {} <=> ~ x.breaks
      BY <3>1 DEF BreakingOf
    <3> QED
      BY <3>1, <3>2
  <2> QED
    BY <2>1, <2>2
<1>4. i \in Nat \ {0} /\ Len(old) \in Nat /\ Len(new) \in Nat
      /\ DOMAIN old = 1..Len(old) /\ DOMAIN new = 1..Len(new)
  BY <1>1 DEF IsSchema, DriftInv
<1>5. ASSUME FindRemoved PROVE DriftInv'
  <2> DEFINE x == Change(old[i], "REMOVED", TRUE)
             c == IF HasName(new, old[i].name) THEN <<>> ELSE <<x>>
  <2>1. pc = "removed" /\ i \in DOMAIN old
    BY <1>4, <1>5 DEF FindRemoved
  <2>2. Add(c) /\ i' = i + 1 /\ UNCHANGED <<source, args, pc>>
    BY <1>5 DEF FindRemoved
  <2>3. x \in AnyChange /\ x.breaks = TRUE
    BY <1>2, <2>1
  <2>4. /\ BreaksAt(pc, i) <=> ~ HasName(new, old[i].name)
        /\ DriftsAt(pc, i) <=> ~ HasName(new, old[i].name)
    BY <2>1 DEF BreaksAt, DriftsAt
  <2> HIDE DEF x
  <2>5. /\ c \in Seq(AnyChange)
        /\ BreakingOf(c) = {} <=> ~ BreaksAt(pc, i)
        /\ c = <<>> <=> ~ DriftsAt(pc, i)
    BY <1>3, <2>3, <2>4
  <2> HIDE DEF c
  <2> QED
    BY <2>1, <2>2, <2>5, Iteration DEF Loops
<1>6. ASSUME FindAdded PROVE DriftInv'
  <2> DEFINE x == Change(new[i], "ADDED", FALSE)
             c == IF HasName(old, new[i].name) THEN <<>> ELSE <<x>>
  <2>1. pc = "added" /\ i \in DOMAIN new
    BY <1>4, <1>6 DEF FindAdded
  <2>2. Add(c) /\ i' = i + 1 /\ UNCHANGED <<source, args, pc>>
    BY <1>6 DEF FindAdded
  <2>3. x \in AnyChange /\ x.breaks = FALSE
    BY <1>2, <2>1
  <2>4. /\ ~ BreaksAt(pc, i)
        /\ DriftsAt(pc, i) <=> ~ HasName(old, new[i].name)
    BY <2>1 DEF BreaksAt, DriftsAt
  <2> HIDE DEF x
  <2>5. /\ c \in Seq(AnyChange)
        /\ BreakingOf(c) = {} <=> ~ BreaksAt(pc, i)
        /\ c = <<>> <=> ~ DriftsAt(pc, i)
    BY <1>3, <2>3, <2>4
  <2> HIDE DEF c
  <2> QED
    BY <2>1, <2>2, <2>5, Iteration DEF Loops
<1>7. ASSUME CompareColumn PROVE DriftInv'
  <2> DEFINE n == ByName(new, old[i].name)
             c == IF HasName(new, old[i].name) THEN Changes(old[i], n) ELSE <<>>
  <2>1. pc = "changed" /\ i \in DOMAIN old
    BY <1>4, <1>7 DEF CompareColumn
  <2>2. Add(c) /\ i' = i + 1 /\ UNCHANGED <<source, args, pc>>
    BY <1>7 DEF CompareColumn
  <2>3. HasName(new, old[i].name) => n.nullable \in BOOLEAN
    BY <1>1, ByNameIsLast DEF IsSchema
  <2>4. /\ BreaksAt(pc, i) <=> HasName(new, old[i].name) /\ ~ Widens(old[i], n)
        /\ DriftsAt(pc, i) <=> HasName(new, old[i].name) /\ ~ SameKind(old[i], n)
    BY <2>1 DEF BreaksAt, DriftsAt
  <2>5. old[i].nullable \in BOOLEAN
    BY <1>1, <2>1 DEF IsSchema
  <2> HIDE DEF n
  <2>6. /\ c \in Seq(AnyChange)
        /\ BreakingOf(c) = {} <=> ~ BreaksAt(pc, i)
        /\ c = <<>> <=> ~ DriftsAt(pc, i)
    <3>1. CASE HasName(new, old[i].name)
      <4>1. c = Changes(old[i], n)
        BY <3>1
      <4>2. /\ Changes(old[i], n) \in Seq(AnyChange)
            /\ BreakingOf(Changes(old[i], n)) = {} <=> Widens(old[i], n)
            /\ Changes(old[i], n) = <<>> <=> SameKind(old[i], n)
        BY <2>1, <2>3, <2>5, <3>1, ChangesExact
      <4> QED
        BY <2>4, <3>1, <4>1, <4>2
    <3>2. CASE ~ HasName(new, old[i].name)
      BY <1>3, <2>4, <3>2
    <3> QED
      BY <3>1, <3>2
  <2> HIDE DEF c
  <2> QED
    BY <2>1, <2>2, <2>6, Iteration DEF Loops
<1>8. ASSUME EndLoop PROVE DriftInv'
  <2>1. /\ table' = table /\ opts' = opts /\ seen' = seen /\ old' = old /\ new' = new
        /\ entries' = entries /\ breaking' = breaking /\ nonBreak' = nonBreak
        /\ compatible' = compatible /\ i' = 1
    BY <1>8 DEF EndLoop, source, args, report
  <2>2. /\ pc \in Loops /\ pc' \in Loops \cup {"done"}
        /\ Place[pc'] = Place[pc] + 1 /\ Place[pc] \in Nat
        /\ i > Len(IF pc = "added" THEN new ELSE old)
    BY <1>8 DEF EndLoop, Loops, Place
  <2>3. SourceInv' /\ ReportInv'
    <3>1. AnyChange' = AnyChange
      BY <2>1 DEF AnyChange
    <3>2. SourceInv'
      BY <2>1 DEF SourceInv, OldTable, DriftInv
    <3>3. ReportInv'
      BY <2>1, <3>1 DEF ReportInv, DriftInv
    <3> QED
      BY <3>2, <3>3
  <2>4. /\ \A loop, k : BreaksAt(loop, k)' <=> BreaksAt(loop, k)
        /\ \A loop, k : DriftsAt(loop, k)' <=> DriftsAt(loop, k)
    BY <2>1 DEF BreaksAt, DriftsAt
  <2>5. \A loop \in Loops, k \in Nat \ {0} :
           Passed(loop, k)' <=> Passed(loop, k) \/ (loop = pc /\ k >= i)
    <3> TAKE loop \in Loops, k \in Nat \ {0}
    <3>1. /\ Place[loop] \in Nat /\ Place[pc] \in Nat /\ Place[pc'] \in Nat
          /\ Place[loop] = Place[pc] <=> loop = pc
      BY <2>2 DEF Place, Loops
    <3>2. Passed(loop, k)' <=> Place[loop] < Place[pc'] \/ (pc' = loop /\ k < 1)
      BY <2>1 DEF Passed
    <3>3. Passed(loop, k)' <=> Place[loop] < Place[pc] \/ loop = pc
      BY <2>2, <3>1, <3>2
    <3>4. k < i \/ k >= i
      BY <1>4
    <3> QED
      BY <3>3, <3>4 DEF Passed
  <2>6. \A k \in Nat \ {0} : k >= i => ~ BreaksAt(pc, k) /\ ~ DriftsAt(pc, k)
    <3> SUFFICES ASSUME NEW k \in Nat \ {0}, k >= i PROVE ~ BreaksAt(pc, k) /\ ~ DriftsAt(pc, k)
      OBVIOUS
    <3>1. CASE pc = "added"
      <4>1. k \notin DOMAIN new
        BY <1>4, <2>2, <3>1
      <4> QED
        BY <3>1, <4>1 DEF BreaksAt, DriftsAt
    <3>2. CASE pc # "added"
      <4>1. k \notin DOMAIN old
        BY <1>4, <2>2, <3>2
      <4> QED
        BY <3>2, <4>1 DEF BreaksAt, DriftsAt
    <3> QED
      BY <3>1, <3>2
  <2>7. (NoBreak' <=> NoBreak) /\ (NoDrift' <=> NoDrift)
    <3>1. NoBreak' <=> NoBreak
      BY <2>2, <2>4, <2>5, <2>6 DEF NoBreak
    <3>2. NoDrift' <=> NoDrift
      BY <2>2, <2>4, <2>5, <2>6 DEF NoDrift
    <3> QED
      BY <3>1, <3>2
  <2>8. i' \in Nat \ {0}
    BY <2>1
  <2> QED
    BY <2>1, <2>2, <2>3, <2>7, <2>8 DEF DriftInv
<1>9. ASSUME UNCHANGED vars PROVE DriftInv'
  <2>1. /\ table' = table /\ opts' = opts /\ seen' = seen /\ old' = old /\ new' = new
        /\ pc' = pc /\ i' = i /\ entries' = entries /\ breaking' = breaking
        /\ nonBreak' = nonBreak /\ compatible' = compatible
    BY <1>9 DEF vars, source, args, report
  <2>2. SourceInv'
    BY <2>1 DEF SourceInv, OldTable, DriftInv
  <2>3. ReportInv'
    BY <2>1 DEF ReportInv, AnyChange, DriftInv
  <2>4. (NoBreak' <=> NoBreak) /\ (NoDrift' <=> NoDrift)
    BY <2>1 DEF NoBreak, NoDrift, Passed, BreaksAt, DriftsAt
  <2> QED
    BY <2>1, <2>2, <2>3, <2>4 DEF DriftInv
<1>10. ASSUME Done PROVE DriftInv'
  BY <1>9, <1>10 DEF Done
<1> QED
  BY <1>5, <1>6, <1>7, <1>8, <1>9, <1>10 DEF Next

LEMMA DriftInvariant == Spec => []DriftInv
  BY DriftInvInit, DriftInvStep, PTL DEF Spec

\* At the end the loops have passed every position of both schemas.
LEMMA DriftFollows == DriftInv => DriftExact
<1> SUFFICES ASSUME DriftInv, pc = "done"
             PROVE  /\ breaking + nonBreak = Len(entries)
                    /\ compatible <=> breaking = 0
                    /\ compatible <=> \A k \in DOMAIN old :
                          HasName(new, old[k].name) /\ Widens(old[k], ByName(new, old[k].name))
                    /\ Names(old) = Names(new) /\ IsInjective(Names(old)) =>
                          (entries = <<>> <=> SchemaEqual(old, new))
  BY DEF DriftExact
<1>1. IsSchema(old) /\ IsSchema(new)
  BY SourceSchemas DEF DriftInv
<1>2. /\ Len(old) \in Nat /\ Len(new) \in Nat
      /\ DOMAIN old = 1..Len(old) /\ DOMAIN new = 1..Len(new)
  BY <1>1 DEF IsSchema
<1>3. \A loop \in Loops, k \in Nat \ {0} : Passed(loop, k)
  BY DEF Passed, Loops, Place
<1>4. NoBreak <=> \A loop \in Loops, k \in Nat \ {0} : ~ BreaksAt(loop, k)
  BY <1>3 DEF NoBreak
<1>5. NoDrift <=> \A loop \in Loops, k \in Nat \ {0} : ~ DriftsAt(loop, k)
  BY <1>3 DEF NoDrift
<1>6. DOMAIN old \subseteq Nat \ {0} /\ DOMAIN new \subseteq Nat \ {0}
  BY <1>2
<1>7. NoBreak <=> \A k \in DOMAIN old :
          HasName(new, old[k].name) /\ Widens(old[k], ByName(new, old[k].name))
  BY <1>4, <1>6 DEF BreaksAt, Loops
<1>8. NoDrift <=>
        /\ \A k \in DOMAIN old :
             HasName(new, old[k].name) /\ SameKind(old[k], ByName(new, old[k].name))
        /\ \A k \in DOMAIN new : HasName(old, new[k].name)
  BY <1>5, <1>6 DEF DriftsAt, Loops
<1>9. ASSUME Names(old) = Names(new), IsInjective(Names(old))
      PROVE  entries = <<>> <=> SchemaEqual(old, new)
  <2>1. /\ DOMAIN old = DOMAIN new
        /\ \A k \in DOMAIN old : old[k].name = new[k].name
        /\ \A j, k \in DOMAIN new : new[j].name = new[k].name => j = k
    <3>1. /\ DOMAIN Names(old) = DOMAIN old /\ DOMAIN Names(new) = DOMAIN new
          /\ \A k \in DOMAIN old : Names(old)[k] = old[k].name
          /\ \A k \in DOMAIN new : Names(new)[k] = new[k].name
      BY DEF Names
    <3>2. \A j, k \in DOMAIN Names(old) : Names(old)[j] = Names(old)[k] => j = k
      BY <1>9 DEF IsInjective
    <3> QED
      BY <1>9, <3>1, <3>2
  <2>2. Len(old) = Len(new)
    <3>1. 1..Len(old) = 1..Len(new)
      BY <1>2, <2>1
    <3>2. ~ (Len(old) < Len(new))
      <4>1. Len(old) < Len(new) => Len(new) \in 1..Len(new) /\ Len(new) \notin 1..Len(old)
        BY <1>2
      <4> QED
        BY <3>1, <4>1
    <3>3. ~ (Len(new) < Len(old))
      <4>1. Len(new) < Len(old) => Len(old) \in 1..Len(old) /\ Len(old) \notin 1..Len(new)
        BY <1>2
      <4> QED
        BY <3>1, <4>1
    <3>4. Len(old) \in Nat /\ Len(new) \in Nat
      BY <1>2
    <3> QED
      BY <3>2, <3>3, <3>4
  <2>3. \A k \in DOMAIN old : HasName(new, old[k].name) /\ HasName(old, new[k].name)
    BY <2>1 DEF HasName
  <2>4. \A k \in DOMAIN old : ByName(new, old[k].name) = new[k]
    <3> TAKE k \in DOMAIN old
    <3>1. PICK j \in DOMAIN new : new[j].name = old[k].name /\ ByName(new, old[k].name) = new[j]
      BY <1>1, <2>3, ByNameIsLast
    <3>2. j = k
      BY <2>1, <3>1
    <3> QED
      BY <3>1, <3>2
  <2>5. NoDrift <=> \A k \in DOMAIN old : SameKind(old[k], new[k])
    BY <1>8, <2>1, <2>3, <2>4
  <2>6. SchemaEqual(old, new) <=> \A k \in DOMAIN old : SameKind(old[k], new[k])
    BY <2>1, <2>2 DEF SchemaEqual, SameKind
  <2> QED
    BY <2>5, <2>6 DEF DriftInv
<1> QED
  BY <1>7, <1>9 DEF DriftInv, ReportInv

\* The report of DetectDrift on any two schemas: its counts add up, it calls them
\* compatible exactly when every old column has a new one that can stand for it,
\* and it is empty for the same columns exactly when SchemaEqual says they are.
THEOREM DriftCorrect == Spec => []DriftExact
  BY DriftInvariant, DriftFollows, PTL

-------------------------------------------------------------------------------
(* What Infer finds *)

Filled(rows, ci) == {r \in DOMAIN rows : CellOf(rows[r], ci) # ""}

\* All the cells of the column that are not empty parse as the type.
Fits(type, rows, ci, layouts) ==
    \A r \in Filled(rows, ci) : Parses(type, CellOf(rows[r], ci), layouts)

\* Counting the cells that parse comes to trying the types in turn.
LEMMA InferTypeIs ==
    ASSUME NEW E, NEW rows \in Seq(E), NEW ci, NEW layouts
    PROVE  InferType(rows, ci, layouts) =
             IF Filled(rows, ci) = {} THEN "string"
             ELSE IF Fits("int", rows, ci, layouts) THEN "int"
             ELSE IF Fits("float", rows, ci, layouts) THEN "float"
             ELSE IF Fits("bool", rows, ci, layouts) THEN "bool"
             ELSE IF Fits("date", rows, ci, layouts) THEN "date"
             ELSE "string"
<1> DEFINE filled == Filled(rows, ci)
           Those(type) == {r \in filled : Parses(type, CellOf(rows[r], ci), layouts)}
           fitting == {k \in DOMAIN ParsedTypes :
                         Cardinality(Those(ParsedTypes[k])) = Cardinality(filled)}
<1>1. InferType(rows, ci, layouts) =
        IF filled = {} \/ fitting = {} THEN "string" ELSE ParsedTypes[Min(fitting)]
  BY DEF InferType, Filled
<1>2. IsFiniteSet(filled)
  <2>1. Len(rows) \in Nat /\ DOMAIN rows = 1..Len(rows)
    OBVIOUS
  <2>2. IsFiniteSet(1..Len(rows))
    BY <2>1, FS_Interval
  <2> QED
    BY <2>1, <2>2, FS_Subset DEF Filled
<1>3. ASSUME NEW type
      PROVE  Cardinality(Those(type)) = Cardinality(filled) <=> Fits(type, rows, ci, layouts)
  <2>1. Those(type) \in SUBSET filled
    OBVIOUS
  <2>2. Cardinality(filled) = Cardinality(Those(type)) => filled = Those(type)
    <3> HIDE DEF Those, filled
    <3> QED
      BY <1>2, <2>1, FS_Subset
  <2>3. filled = Those(type) <=> Fits(type, rows, ci, layouts)
    BY DEF Fits
  <2> HIDE DEF Those, filled
  <2> QED
    BY <2>2, <2>3
<1>4. /\ DOMAIN ParsedTypes = {1, 2, 3, 4}
      /\ ParsedTypes[1] = "int" /\ ParsedTypes[2] = "float"
      /\ ParsedTypes[3] = "bool" /\ ParsedTypes[4] = "date"
  BY DEF ParsedTypes
<1>5. fitting = {k \in {1, 2, 3, 4} : Fits(ParsedTypes[k], rows, ci, layouts)}
  <2> HIDE DEF Those, filled
  <2> QED
    BY <1>3, <1>4
<1> HIDE DEF fitting
<1>6. fitting # {} => Min(fitting) \in fitting /\ \A k \in fitting : Min(fitting) <= k
  <2>1. fitting \in SUBSET Nat /\ fitting \in SUBSET {1, 2, 3, 4}
    BY <1>5
  <2>2. \A k \in fitting : k <= 4
    BY <2>1
  <2>3. IsFiniteSet(fitting)
    BY <2>1, <2>2, FS_BoundedSetOfNaturals
  <2> QED
    BY <2>1, <2>3, MinIsLeast
<1>7. /\ 1 \in fitting <=> Fits("int", rows, ci, layouts)
      /\ 2 \in fitting <=> Fits("float", rows, ci, layouts)
      /\ 3 \in fitting <=> Fits("bool", rows, ci, layouts)
      /\ 4 \in fitting <=> Fits("date", rows, ci, layouts)
  BY <1>4, <1>5
<1>8. fitting \subseteq {1, 2, 3, 4}
  BY <1>5
<1> DEFINE m == Min(fitting)
<1>9. fitting # {} => m \in fitting /\ \A k \in fitting : m <= k
  BY <1>6
<1> HIDE DEF m, filled
<1>10. CASE 1 \in fitting
  <2>1. m = 1
    <3>1. m \in fitting /\ m \in {1, 2, 3, 4}
      BY <1>8, <1>9, <1>10
    <3>2. m <= 1
      BY <1>9, <1>10
    <3> QED
      BY <1>10, <3>1, <3>2
  <2> QED
    BY <1>1, <1>4, <1>7, <1>10, <2>1 DEF m, filled
<1>11. CASE 1 \notin fitting /\ 2 \in fitting
  <2>1. m = 2
    <3>1. m \in fitting /\ m \in {1, 2, 3, 4}
      BY <1>8, <1>9, <1>11
    <3>2. m <= 2
      BY <1>9, <1>11
    <3> QED
      BY <1>11, <3>1, <3>2
  <2> QED
    BY <1>1, <1>4, <1>7, <1>11, <2>1 DEF m, filled
<1>12. CASE 1 \notin fitting /\ 2 \notin fitting /\ 3 \in fitting
  <2>1. m = 3
    <3>1. m \in fitting /\ m \in {1, 2, 3, 4}
      BY <1>8, <1>9, <1>12
    <3>2. m <= 3
      BY <1>9, <1>12
    <3> QED
      BY <1>12, <3>1, <3>2
  <2> QED
    BY <1>1, <1>4, <1>7, <1>12, <2>1 DEF m, filled
<1>13. CASE 1 \notin fitting /\ 2 \notin fitting /\ 3 \notin fitting /\ 4 \in fitting
  <2>1. m = 4
    BY <1>8, <1>9, <1>13
  <2> QED
    BY <1>1, <1>4, <1>7, <1>13, <2>1 DEF m, filled
<1>14. CASE 1 \notin fitting /\ 2 \notin fitting /\ 3 \notin fitting /\ 4 \notin fitting
  <2>1. fitting = {}
    BY <1>8, <1>14
  <2> QED
    BY <1>1, <1>7, <1>14, <2>1 DEF filled
<1> QED
  BY <1>10, <1>11, <1>12, <1>13, <1>14

\* The sampled rows are first rows of the table, and all of it without a limit.
LEMMA SampledIs ==
    ASSUME NEW E, NEW rows \in Seq(E), NEW o \in Options
    PROVE  /\ Sampled(rows, o) \in Seq(E) /\ Len(Sampled(rows, o)) <= Len(rows)
           /\ DOMAIN Sampled(rows, o) = {r \in DOMAIN rows : o.sampleSize = 0 \/ r <= o.sampleSize}
           /\ \A r \in DOMAIN Sampled(rows, o) : Sampled(rows, o)[r] = rows[r]
<1> DEFINE n == o.sampleSize
<1>1. n \in Nat
  BY OptionsAssumption
<1>2. Len(rows) \in Nat /\ DOMAIN rows = 1..Len(rows)
  OBVIOUS
<1>3. CASE n > 0 /\ Len(rows) > n
  <2>1. Sampled(rows, o) = SubSeq(rows, 1, n)
    BY <1>3 DEF Sampled
  <2>2. \A r \in 1..n : rows[r] \in E
    BY <1>1, <1>2, <1>3
  <2> HIDE DEF n
  <2>3. /\ SubSeq(rows, 1, n) \in Seq(E) /\ Len(SubSeq(rows, 1, n)) = n
        /\ \A r \in 1..n : SubSeq(rows, 1, n)[r] = rows[r]
    <3>1. /\ SubSeq(rows, 1, n) \in Seq(E)
          /\ Len(SubSeq(rows, 1, n)) = IF 1 <= n THEN n - 1 + 1 ELSE 0
          /\ \A r \in 1..(n - 1 + 1) : SubSeq(rows, 1, n)[r] = rows[1 + r - 1]
      BY <1>1, <2>2, SubSeqProperties
    <3>2. n - 1 + 1 = n /\ 1 <= n /\ \A r \in 1..n : 1 + r - 1 = r
      BY <1>1, <1>3
    <3> QED
      BY <3>1, <3>2
  <2>4. DOMAIN SubSeq(rows, 1, n) = 1..n
    BY <2>3
  <2>5. 1..n = {r \in DOMAIN rows : n = 0 \/ r <= n}
    BY <1>1, <1>2, <1>3
  <2> QED
    BY <1>1, <1>2, <1>3, <2>1, <2>3, <2>4, <2>5 DEF n
<1>4. CASE ~ (n > 0 /\ Len(rows) > n)
  <2>1. Sampled(rows, o) = rows
    BY <1>4 DEF Sampled
  <2>2. DOMAIN rows = {r \in DOMAIN rows : n = 0 \/ r <= n}
    BY <1>1, <1>2, <1>4
  <2> QED
    BY <1>2, <2>1, <2>2
<1> QED
  BY <1>3, <1>4

\* Dates that Infer found by the default layouts are what Validate calls dates, and
\* the other types have no layouts.
LEMMA CheckedAsInferred ==
    ASSUME NEW type, NEW c, NEW o \in Options, Parses(type, c, o.layouts),
           ~ (o.layouts = "custom" /\ type = "date")
    PROVE  Parses(type, c, "default")
<1>1. o.layouts = "default" \/ o.layouts = "custom"
  BY OptionsAssumption
<1> QED
  BY <1>1 DEF Parses

LEMMA InferredFollows == DriftInv => InferredExact
<1> SUFFICES ASSUME DriftInv, table # NoTable
             PROVE  /\ \A v \in Validate(table, new) :
                          \/ opts.sampleSize # 0 /\ v.row > opts.sampleSize
                          \/ opts.layouts = "custom" /\ new[v.column].type = "date"
                    /\ \A ci \in DOMAIN new, k \in DOMAIN ParsedTypes :
                          LET rows   == Sampled(table.rows, opts)
                              filled == {r \in DOMAIN rows : CellOf(rows[r], ci) # ""}
                          IN  filled # {} /\ (\A j \in 1..k : new[ci].type # ParsedTypes[j]) =>
                                  \E r \in filled :
                                      ~ Parses(ParsedTypes[k], CellOf(rows[r], ci), opts.layouts)
  BY DEF InferredExact
<1> DEFINE rows == Sampled(table.rows, opts)
<1>1. table \in Tables /\ opts \in Options /\ new = Infer(table, opts)
  BY DEF DriftInv, SourceInv
<1>2. table.header \in Seq(ToSet(table.header)) /\ table.rows \in Seq(Seq(Cells))
  BY <1>1, TablesAssumption
<1>3. /\ DOMAIN new = DOMAIN table.header
      /\ \A ci \in DOMAIN new : /\ new[ci].type = InferType(rows, ci, opts.layouts)
                                /\ new[ci].nullable = InferNullable(rows, ci)
  BY <1>1, <1>2, InferIsSchema
<1>4. /\ rows \in Seq(Seq(Cells))
      /\ DOMAIN rows = {r \in DOMAIN table.rows : opts.sampleSize = 0 \/ r <= opts.sampleSize}
      /\ \A r \in DOMAIN rows : rows[r] = table.rows[r]
  <2> DEFINE E == Seq(Cells)
  <2>1. table.rows \in Seq(E)
    BY <1>2
  <2> HIDE DEF E
  <2>2. /\ Sampled(table.rows, opts) \in Seq(E)
        /\ DOMAIN Sampled(table.rows, opts)
             = {r \in DOMAIN table.rows : opts.sampleSize = 0 \/ r <= opts.sampleSize}
        /\ \A r \in DOMAIN Sampled(table.rows, opts) :
             Sampled(table.rows, opts)[r] = table.rows[r]
    BY <1>1, <2>1, SampledIs
  <2> QED
    BY <2>2 DEF E
<1>5. opts.sampleSize \in Nat
  BY <1>1, OptionsAssumption
<1>6. DOMAIN table.rows \subseteq Nat
  BY <1>2
<1> HIDE DEF rows
<1>7. \A ci \in DOMAIN new :
        new[ci].type = IF Filled(rows, ci) = {} THEN "string"
                       ELSE IF Fits("int", rows, ci, opts.layouts) THEN "int"
                       ELSE IF Fits("float", rows, ci, opts.layouts) THEN "float"
                       ELSE IF Fits("bool", rows, ci, opts.layouts) THEN "bool"
                       ELSE IF Fits("date", rows, ci, opts.layouts) THEN "date"
                       ELSE "string"
  BY <1>3, <1>4, InferTypeIs
<1>8. ASSUME NEW v \in Validate(table, new)
      PROVE  \/ opts.sampleSize # 0 /\ v.row > opts.sampleSize
             \/ opts.layouts = "custom" /\ new[v.column].type = "date"
  <2> DEFINE c == CellOf(table.rows[v.row], v.column)
             col == new[v.column]
  <2>1. /\ v \in [column : DOMAIN new \cap DOMAIN table.header, row : DOMAIN table.rows]
        /\ IF c = "" THEN ~ col.nullable ELSE ~ CheckType(c, col.type)
    BY <1>3 DEF Validate
  <2>2. v.column \in DOMAIN new /\ v.row \in DOMAIN table.rows
    BY <2>1
  <2> SUFFICES ASSUME opts.sampleSize = 0 \/ ~ (v.row > opts.sampleSize)
               PROVE  opts.layouts = "custom" /\ col.type = "date"
    OBVIOUS
  <2>3. v.row \in DOMAIN rows /\ c = CellOf(rows[v.row], v.column)
    BY <1>4, <1>5, <1>6, <2>2
  <2>4. c # ""
    BY <1>3, <2>1, <2>2, <2>3 DEF InferNullable
  <2>5. ~ CheckType(c, col.type)
    BY <2>1, <2>4
  <2>6. v.row \in Filled(rows, v.column)
    BY <2>3, <2>4 DEF Filled
  <2>7. col.type \in {"int", "float", "bool", "date"} /\ ~ Parses(col.type, c, "default")
    <3>1. ToSet(ParsedTypes) = {"int", "float", "bool", "date"}
      BY DEF ToSet, ParsedTypes
    <3> QED
      BY <2>5, <3>1 DEF CheckType
  <2>8. Fits(col.type, rows, v.column, opts.layouts)
    BY <1>7, <2>2, <2>6, <2>7
  <2>9. Parses(col.type, c, opts.layouts)
    BY <2>3, <2>6, <2>8 DEF Fits
  <2> HIDE DEF c, col
  <2> QED
    BY <1>1, <2>7, <2>9, CheckedAsInferred
<1>9. ASSUME NEW ci \in DOMAIN new, NEW k \in DOMAIN ParsedTypes, Filled(rows, ci) # {},
             \A j \in 1..k : new[ci].type # ParsedTypes[j]
      PROVE  ~ Fits(ParsedTypes[k], rows, ci, opts.layouts)
  <2>1. /\ k \in {1, 2, 3, 4}
        /\ ParsedTypes[1] = "int" /\ ParsedTypes[2] = "float"
        /\ ParsedTypes[3] = "bool" /\ ParsedTypes[4] = "date"
    BY DEF ParsedTypes
  <2>2. \A j \in {1, 2, 3, 4} : j <= k => new[ci].type # ParsedTypes[j]
    BY <1>9, <2>1
  <2>3. /\ new[ci].type # "int"
        /\ k >= 2 => new[ci].type # "float"
        /\ k >= 3 => new[ci].type # "bool"
        /\ k >= 4 => new[ci].type # "date"
    BY <2>1, <2>2
  <2> QED
    BY <1>7, <1>9, <2>1, <2>3
<1> QED
  BY <1>8, <1>9 DEF Fits, Filled, rows

\* Data fits the schema inferred from it, as far as it was sampled and its dates are
\* dates to Validate, and each column has the first type that all its values have.
THEOREM InferredCorrect == Spec => []InferredExact
  BY DriftInvariant, InferredFollows, PTL

-------------------------------------------------------------------------------
(* What appending rows does *)

OldRows == Sampled(OldTable.rows, opts)
NewRows == Sampled(table.rows, opts)

\* The rows that the old schema was inferred from are among those of the new one.
LEMMA OldRowsAreFirst ==
    ASSUME table \in Tables, opts \in Options, seen \in 0..Len(table.rows)
    PROVE  /\ OldRows \in Seq(Seq(Cells)) /\ NewRows \in Seq(Seq(Cells))
           /\ DOMAIN OldRows \subseteq DOMAIN NewRows
           /\ \A r \in DOMAIN OldRows : OldRows[r] = NewRows[r]
<1> DEFINE E == Seq(Cells)
           new_rows == table.rows
           old_rows == SubSeq(new_rows, 1, seen)
<1>1. new_rows \in Seq(E) /\ OldTable.rows = old_rows
  BY OldTableIs
<1> HIDE DEF E
<1>2. seen \in Nat /\ seen <= Len(new_rows) /\ Len(new_rows) \in Nat /\ DOMAIN new_rows = 1..Len(new_rows)
  BY <1>1
<1>3. /\ old_rows \in Seq(E) /\ Len(old_rows) = seen
      /\ \A r \in 1..seen : old_rows[r] = new_rows[r]
  <2>1. \A r \in 1..seen : new_rows[r] \in E
    BY <1>1, <1>2
  <2>2. /\ old_rows \in Seq(E)
        /\ Len(old_rows) = IF 1 <= seen THEN seen - 1 + 1 ELSE 0
        /\ \A r \in 1..(seen - 1 + 1) : old_rows[r] = new_rows[1 + r - 1]
    BY <1>2, <2>1, SubSeqProperties
  <2>3. seen - 1 + 1 = seen /\ (~ (1 <= seen) => seen = 0) /\ \A r \in 1..seen : 1 + r - 1 = r
    BY <1>2
  <2> QED
    BY <2>2, <2>3
<1> HIDE DEF old_rows, new_rows
<1>4. DOMAIN old_rows = 1..seen
  BY <1>3
<1>5. OldRows = Sampled(old_rows, opts) /\ NewRows = Sampled(new_rows, opts)
  BY <1>1 DEF OldRows, NewRows, new_rows
<1>6. /\ Sampled(old_rows, opts) \in Seq(E)
      /\ DOMAIN Sampled(old_rows, opts)
           = {r \in DOMAIN old_rows : opts.sampleSize = 0 \/ r <= opts.sampleSize}
      /\ \A r \in DOMAIN Sampled(old_rows, opts) : Sampled(old_rows, opts)[r] = old_rows[r]
  BY <1>3, SampledIs
<1>7. /\ Sampled(new_rows, opts) \in Seq(E)
      /\ DOMAIN Sampled(new_rows, opts)
           = {r \in DOMAIN new_rows : opts.sampleSize = 0 \/ r <= opts.sampleSize}
      /\ \A r \in DOMAIN Sampled(new_rows, opts) : Sampled(new_rows, opts)[r] = new_rows[r]
  BY <1>1, SampledIs
<1>8. DOMAIN old_rows \subseteq DOMAIN new_rows
  BY <1>2, <1>4
<1>9. DOMAIN OldRows \subseteq DOMAIN NewRows
  BY <1>5, <1>6, <1>7, <1>8
<1>10. \A r \in DOMAIN OldRows : OldRows[r] = NewRows[r]
  BY <1>3, <1>4, <1>5, <1>6, <1>7, <1>9
<1> QED
  BY <1>5, <1>6, <1>7, <1>9, <1>10 DEF E

\* The type of a column of more rows: the types that fit are among those that fitted.
LEMMA TypeOfMoreRows ==
    ASSUME NEW E, NEW a \in Seq(E), NEW b \in Seq(E), NEW ci, NEW layouts,
           Filled(a, ci) \subseteq Filled(b, ci),
           \A type : Fits(type, b, ci, layouts) => Fits(type, a, ci, layouts)
    PROVE  LET o == InferType(a, ci, layouts)
               n == InferType(b, ci, layouts)
           IN  (o = n \/ <<o, n>> \in WiderTypes) <=>
                   /\ o = "int" => n # "bool"
                   /\ Filled(a, ci) = {} => n = "string"
<1> DEFINE o == InferType(a, ci, layouts)
           n == InferType(b, ci, layouts)
           O(type) == Fits(type, a, ci, layouts)
           N(type) == Fits(type, b, ci, layouts)
<1>1. /\ Filled(a, ci) = {} => o = "string"
      /\ Filled(a, ci) # {} =>
           /\ O("int") => o = "int"
           /\ ~ O("int") /\ O("float") => o = "float"
           /\ ~ O("int") /\ ~ O("float") /\ O("bool") => o = "bool"
           /\ ~ O("int") /\ ~ O("float") /\ ~ O("bool") /\ O("date") => o = "date"
           /\ ~ O("int") /\ ~ O("float") /\ ~ O("bool") /\ ~ O("date") => o = "string"
  BY InferTypeIs
<1>2. /\ n \in {"int", "float", "bool", "date", "string"}
      /\ n # "string" => N(n)
  BY InferTypeIs
<1>3. Filled(a, ci) # {} => Filled(b, ci) # {}
  OBVIOUS
<1>4. Filled(a, ci) # {} /\ O("float") /\ O("bool") => O("int")
  BY DEF Fits, Parses
<1>5. Filled(a, ci) # {} /\ O("date") => ~ O("float") /\ ~ O("int") /\ ~ O("bool")
  BY DEF Fits, Parses, IsDate
<1>6. \A type : N(type) => O(type)
  OBVIOUS
<1> HIDE DEF o, n, O, N
<1>7. n # "string" => O(n)
  BY <1>2, <1>6
<1>8. CASE Filled(a, ci) = {}
  <2>1. o = "string"
    BY <1>1, <1>8
  <2>2. (o = n \/ <<o, n>> \in WiderTypes) <=> n = "string"
    BY <2>1 DEF WiderTypes
  <2> QED
    BY <1>8, <2>1, <2>2 DEF o, n
<1>9. CASE Filled(a, ci) # {}
  <2>1. o \in {"int", "float", "bool", "date", "string"}
    BY <1>1, <1>9
  <2>2. n # "string" => o # "string" /\ (n # o => o \in {"int", "float", "bool"})
    BY <1>1, <1>2, <1>5, <1>7, <1>9
  <2>3. o = "float" => n \in {"float", "string"}
    BY <1>1, <1>2, <1>4, <1>5, <1>7, <1>9
  <2>4. o = "int" => n \in {"int", "float", "bool", "string"}
    BY <1>1, <1>2, <1>5, <1>7, <1>9
  <2>5. (o = n \/ <<o, n>> \in WiderTypes) <=> (o = "int" => n # "bool")
    BY <1>2, <2>1, <2>2, <2>3, <2>4 DEF WiderTypes
  <2> QED
    BY <1>9, <2>5 DEF o, n
<1> QED
  BY <1>8, <1>9

LEMMA AppendedFollows == DriftInv => AppendedRowsWiden
<1> SUFFICES ASSUME DriftInv, pc = "done", table # NoTable, IsInjective(table.header)
             PROVE  compatible <=> \A ci \in DOMAIN table.header :
                       /\ old[ci].type = "int" => new[ci].type # "bool"
                       /\ (\A r \in DOMAIN OldRows : CellOf(OldRows[r], ci) = "") =>
                              new[ci].type = "string"
  BY DEF AppendedRowsWiden, OldRows
<1>1. /\ table \in Tables /\ opts \in Options /\ seen \in 0..Len(table.rows)
      /\ old = Infer(OldTable, opts) /\ new = Infer(table, opts)
  BY DEF DriftInv, SourceInv
<1>2. /\ table.header \in Seq(ToSet(table.header))
      /\ OldTable.header \in Seq(ToSet(OldTable.header))
      /\ OldTable.header = table.header
  BY <1>1, OldTableIs
<1>3. IsSchema(old) /\ IsSchema(new)
  BY SourceSchemas DEF DriftInv
<1>4. /\ DOMAIN new = DOMAIN table.header
      /\ \A ci \in DOMAIN table.header :
           /\ new[ci].name = table.header[ci]
           /\ new[ci].type = InferType(NewRows, ci, opts.layouts)
           /\ new[ci].nullable = InferNullable(NewRows, ci)
  BY <1>1, <1>2, InferIsSchema DEF NewRows
<1>5. /\ DOMAIN old = DOMAIN table.header
      /\ \A ci \in DOMAIN table.header :
           /\ old[ci].name = table.header[ci]
           /\ old[ci].type = InferType(OldRows, ci, opts.layouts)
           /\ old[ci].nullable = InferNullable(OldRows, ci)
  BY <1>1, <1>2, InferIsSchema DEF OldRows
<1>6. \A ci \in DOMAIN table.header :
        HasName(new, old[ci].name) /\ ByName(new, old[ci].name) = new[ci]
  <2> TAKE ci \in DOMAIN table.header
  <2>1. HasName(new, old[ci].name)
    BY <1>4, <1>5 DEF HasName
  <2>2. PICK k \in DOMAIN new : new[k].name = old[ci].name /\ ByName(new, old[ci].name) = new[k]
    BY <1>3, <2>1, ByNameIsLast
  <2>3. k = ci
    BY <1>4, <1>5, <2>2 DEF IsInjective
  <2> QED
    BY <2>1, <2>2, <2>3
<1>7. compatible <=> \A ci \in DOMAIN table.header : Widens(old[ci], new[ci])
  BY <1>5, <1>6, DriftFollows DEF DriftExact
<1>8. /\ OldRows \in Seq(Seq(Cells)) /\ NewRows \in Seq(Seq(Cells))
      /\ DOMAIN OldRows \subseteq DOMAIN NewRows
      /\ \A r \in DOMAIN OldRows : OldRows[r] = NewRows[r]
  BY <1>1, OldRowsAreFirst
<1>9. ASSUME NEW ci \in DOMAIN table.header
      PROVE  Widens(old[ci], new[ci]) <=>
                /\ old[ci].type = "int" => new[ci].type # "bool"
                /\ (\A r \in DOMAIN OldRows : CellOf(OldRows[r], ci) = "") =>
                       new[ci].type = "string"
  <2>1. Filled(OldRows, ci) \subseteq Filled(NewRows, ci)
    BY <1>8 DEF Filled
  <2>2. \A type : Fits(type, NewRows, ci, opts.layouts) => Fits(type, OldRows, ci, opts.layouts)
    BY <1>8, <2>1 DEF Fits, Filled
  <2>3. InferNullable(OldRows, ci) => InferNullable(NewRows, ci)
    BY <1>8 DEF InferNullable
  <2>4. (\A r \in DOMAIN OldRows : CellOf(OldRows[r], ci) = "") <=> Filled(OldRows, ci) = {}
    BY DEF Filled
  <2> DEFINE E == Seq(Cells)
             o == InferType(OldRows, ci, opts.layouts)
             n == InferType(NewRows, ci, opts.layouts)
  <2>5. OldRows \in Seq(E) /\ NewRows \in Seq(E)
    BY <1>8
  <2> HIDE DEF E
  <2>6. (o = n \/ <<o, n>> \in WiderTypes) <=>
          /\ o = "int" => n # "bool"
          /\ Filled(OldRows, ci) = {} => n = "string"
    BY <2>1, <2>2, <2>5, TypeOfMoreRows
  <2>7. old[ci].type = o /\ new[ci].type = n
    BY <1>4, <1>5
  <2> HIDE DEF o, n
  <2>8. Widens(old[ci], new[ci]) <=> o = n \/ <<o, n>> \in WiderTypes
    BY <1>4, <1>5, <2>3, <2>7 DEF Widens
  <2> QED
    BY <2>4, <2>6, <2>7, <2>8
<1> QED
  BY <1>7, <1>9

\* However many rows are appended to a table of distinct columns, its schema breaks
\* only where a column gets its first values or turns from int to bool.
THEOREM AppendedCorrect == Spec => []AppendedRowsWiden
  BY DriftInvariant, AppendedFollows, PTL
===============================================================================
