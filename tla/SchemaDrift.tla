------------------------------ MODULE SchemaDrift ------------------------------
(***************************************************************************)
(* DetectDrift of internal/schema/drift.go, one step per loop iteration,   *)
(* on two schemas that were inferred or loaded.                            *)
(***************************************************************************)
EXTENDS Schema

CONSTANTS Tables, Options,   \* what schemas are inferred from
          Schemas            \* schemas that were loaded

ASSUME TablesAssumption ==
    \A t \in Tables : /\ t = [header |-> t.header, rows |-> t.rows]
                      /\ t.header \in Seq(ToSet(t.header))
                      /\ t.rows \in Seq(Seq(Cells))

ASSUME OptionsAssumption ==
    \A o \in Options : o.layouts \in {"default", "custom"} /\ o.sampleSize \in Nat

ASSUME SchemasAssumption ==
    \A s \in Schemas : /\ s \in Seq(ToSet(s))
                       /\ \A k \in DOMAIN s : s[k].nullable \in BOOLEAN

NoTable == [header |-> <<>>, rows |-> <<>>]

VARIABLES table, opts, seen, \* the new table, the options of Infer, and how many
                             \* rows there were when the old schema was inferred
          old, new,          \* the arguments of DetectDrift
          pc, i,
          entries, breaking, nonBreak, compatible    \* the DriftReport

source == <<table, opts, seen>>
args == <<old, new>>
report == <<entries, breaking, nonBreak, compatible>>
vars == <<source, args, pc, i, report>>

\* The table as it was before its last rows were appended.
OldTable == [table EXCEPT !.rows = SubSeq(@, 1, seen)]

DefaultOptions == [layouts |-> "default", sampleSize |-> 0]

Init ==
    /\ \/ /\ table \in Tables /\ opts \in Options
          /\ seen \in 0..Len(table.rows)
          /\ old = Infer(OldTable, opts) /\ new = Infer(table, opts)
       \/ /\ table = NoTable /\ opts = DefaultOptions /\ seen = 0
          /\ old \in Schemas /\ new \in Schemas
    /\ pc = "removed" /\ i = 1
    /\ entries = <<>> /\ breaking = 0 /\ nonBreak = 0 /\ compatible = TRUE

HasName(schema, name) == \E k \in DOMAIN schema : schema[k].name = name

\* The map by name holds the last column of each name.
ByName(schema, name) == schema[Max({k \in DOMAIN schema : schema[k].name = name})]

Rank == [bool |-> 0, int |-> 1, float |-> 2, date |-> 2, string |-> 3]

\* Mutant: a type of the same rank is a narrower one as well.
IsNarrowingOrEqual(o, n) == {o, n} \subseteq DOMAIN Rank => Rank[n] <= Rank[o]

\* isNarrowing: a type that has no rank is on the safe side.
IsNarrowing(o, n) == {o, n} \subseteq DOMAIN Rank => Rank[n] < Rank[o]

\* The entries of one iteration go into the report; each breaks something or not.
Add(changes) ==
    LET breaks == Cardinality({k \in DOMAIN changes : changes[k].breaks})
    IN  /\ entries' = entries \o changes
        /\ breaking' = breaking + breaks
        /\ nonBreak' = nonBreak + Len(changes) - breaks
        /\ compatible' = (compatible /\ breaks = 0)

Change(col, kind, breaks) == [column |-> col.name, kind |-> kind, breaks |-> breaks]

FindRemoved ==
    /\ pc = "removed" /\ i <= Len(old)
    /\ Add(IF HasName(new, old[i].name) THEN <<>>
           ELSE <<Change(old[i], "REMOVED", TRUE)>>)
    /\ i' = i + 1
    /\ UNCHANGED <<source, args, pc>>

FindAdded ==
    /\ pc = "added" /\ i <= Len(new)
    /\ Add(IF HasName(old, new[i].name) THEN <<>>
           ELSE <<Change(new[i], "ADDED", FALSE)>>)
    /\ i' = i + 1
    /\ UNCHANGED <<source, args, pc>>

\* What the iteration for a column reports when it is o before and n now.
Changes(o, n) ==
    (IF o.type = n.type THEN <<>>
     ELSE <<Change(o, "TYPE_CHANGE", IsNarrowing(o.type, n.type))>>)
    \o (IF o.nullable = n.nullable THEN <<>>
        ELSE <<Change(o, "NULLABLE_CHANGE", o.nullable)>>)

\* Mutant: the new column is taken for the old one.
CompareSwapped ==
    /\ pc = "changed" /\ i <= Len(old)
    /\ Add(IF HasName(new, old[i].name) THEN Changes(ByName(new, old[i].name), old[i])
           ELSE <<>>)
    /\ i' = i + 1
    /\ UNCHANGED <<source, args, pc>>

CompareColumn ==
    /\ pc = "changed" /\ i <= Len(old)
    /\ Add(IF HasName(new, old[i].name) THEN Changes(old[i], ByName(new, old[i].name))
           ELSE <<>>)
    /\ i' = i + 1
    /\ UNCHANGED <<source, args, pc>>

\* The end of each of the three loops.
EndLoop ==
    /\ i > Len(IF pc = "added" THEN new ELSE old)
    /\ \/ pc = "removed" /\ pc' = "added"
       \/ pc = "added" /\ pc' = "changed"
       \/ pc = "changed" /\ pc' = "done"
    /\ i' = 1
    /\ UNCHANGED <<source, args, report>>

Done == pc = "done" /\ UNCHANGED vars

Next == FindRemoved \/ FindAdded \/ CompareColumn \/ EndLoop \/ Done

Spec == Init /\ [][Next]_vars

-------------------------------------------------------------------------------
(* Properties *)

\* Data fits the schema inferred from it: what Validate reports is in a row that
\* was not sampled, or is a date by a layout of the caller, which Validate does
\* not know.  And no type that is tried earlier than the inferred one would have
\* fitted: empty and missing cells have no say in it.
InferredExact ==
    table # NoTable =>
        /\ \A v \in Validate(table, new) :
              \/ opts.sampleSize # 0 /\ v.row > opts.sampleSize
              \/ opts.layouts = "custom" /\ new[v.column].type = "date"
        /\ \A ci \in DOMAIN new, k \in DOMAIN ParsedTypes :
              LET rows   == Sampled(table.rows, opts)
                  filled == {r \in DOMAIN rows : CellOf(rows[r], ci) # ""}
              IN  filled # {} /\ (\A j \in 1..k : new[ci].type # ParsedTypes[j]) =>
                      \E r \in filled :
                          ~ Parses(ParsedTypes[k], CellOf(rows[r], ci), opts.layouts)

\* Appending rows to a table of distinct columns makes its schema wider, never
\* breaking, except that the first value of a column gives it a type, and that a
\* column of zeros and ones turns from int to bool when it meets the words for them.
\* (Columns of one name are all compared with the last of them.)
AppendedRowsWiden ==
    pc = "done" /\ table # NoTable /\ IsInjective(table.header) =>
        (compatible <=> \A ci \in DOMAIN table.header :
            /\ old[ci].type = "int" => new[ci].type # "bool"
            /\ (\A r \in DOMAIN Sampled(OldTable.rows, opts) :
                   CellOf(Sampled(OldTable.rows, opts)[r], ci) = "") =>
                      new[ci].type = "string")

\* The changes of type that break nothing.
WiderTypes == ({"bool"} \X {"int", "float", "date", "string"})
              \cup ({"int"} \X {"float", "date", "string"})
              \cup ({"float", "date"} \X {"float", "date", "string"})

\* Column n can stand for column o.
Widens(o, n) ==
    /\ o.type = n.type \/ <<o.type, n.type>> \in WiderTypes
    /\ o.nullable => n.nullable

Names(schema) == [k \in DOMAIN schema |-> schema[k].name]

\* The report counts its entries, and the schemas are compatible exactly when
\* every old column has a new one of its name that can stand for it, also where
\* types are not known or names occur twice. Schemas with the same columns in the
\* same order, each name once, have no drift exactly when SchemaEqual says so.
DriftExact ==
    pc = "done" =>
        /\ breaking + nonBreak = Len(entries)
        /\ compatible <=> breaking = 0
        /\ compatible <=> \A k \in DOMAIN old :
              HasName(new, old[k].name) /\ Widens(old[k], ByName(new, old[k].name))
        /\ Names(old) = Names(new) /\ IsInjective(Names(old)) =>
              (entries = <<>> <=> SchemaEqual(old, new))
===============================================================================
