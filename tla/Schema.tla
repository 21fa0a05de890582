-------------------------------- MODULE Schema --------------------------------
(***************************************************************************)
(* Infer and Validate of internal/schema/schema.go and SchemaEqual of      *)
(* internal/schema/persist.go, as operators on tables and schemas.         *)
(*                                                                         *)
(* A cell stands for the cells that the same parsers accept.  A schema is  *)
(* its sequence of columns; the lengths that Infer records are left out,   *)
(* since neither Validate nor SchemaEqual nor DetectDrift looks at them.   *)
(***************************************************************************)
EXTENDS Naturals, Sequences, FiniteSetsExt, SequencesExt

Cells == {"", "7", "0", "0.5", "true", "2024-01-02", "2.1.24", "word"}

\* isDate: the layouts of InferOptions replace the default ones.
IsDate(c, layouts) == c = IF layouts = "default" THEN "2024-01-02" ELSE "2.1.24"

\* isInt, isFloat, isBool and isDate, by the type they are for.
Parses(type, c, layouts) ==
    \/ type = "int"   /\ c \in {"7", "0"}
    \/ type = "float" /\ c \in {"7", "0", "0.5"}
    \/ type = "bool"  /\ c \in {"0", "true"}
    \/ type = "date"  /\ IsDate(c, layouts)

\* The types a column is tried for, in this order.
ParsedTypes == <<"int", "float", "bool", "date">>

\* A row that ends before the column reads as empty there.
CellOf(row, ci) == IF ci \in DOMAIN row THEN row[ci] ELSE ""

\* Infer looks at the first SampleSize rows, at all of them when that is 0.
Sampled(rows, opts) ==
    IF opts.sampleSize > 0 /\ Len(rows) > opts.sampleSize
    THEN SubSeq(rows, 1, opts.sampleSize) ELSE rows

\* The type of column ci by the number of its cells that are not empty and the
\* numbers of those that parse.
InferType(rows, ci, layouts) ==
    LET filled == {r \in DOMAIN rows : CellOf(rows[r], ci) # ""}
        Count(type) == Cardinality({r \in filled : Parses(type, CellOf(rows[r], ci), layouts)})
        fitting == {k \in DOMAIN ParsedTypes : Count(ParsedTypes[k]) = Cardinality(filled)}
    IN  IF filled = {} \/ fitting = {} THEN "string" ELSE ParsedTypes[Min(fitting)]

\* Mutant: a cell that its row ends before is not noticed to be empty.
InferNullableInRow(rows, ci) == \E r \in DOMAIN rows : ci \in DOMAIN rows[r] /\ rows[r][ci] = ""

InferNullable(rows, ci) == \E r \in DOMAIN rows : CellOf(rows[r], ci) = ""

Infer(t, opts) ==
    LET rows == Sampled(t.rows, opts)
    IN  [ci \in DOMAIN t.header |->
           [name     |-> t.header[ci],
            type     |-> InferType(rows, ci, opts.layouts),
            nullable |-> InferNullable(rows, ci)]]

\* checkType: dates by the default layouts, and only the parsed types.
CheckType(c, type) == type \in ToSet(ParsedTypes) => Parses(type, c, "default")

\* Validate: the cells it reports.  It goes by the position of a column, not by
\* its name; row 0 stands for a column that the table does not have.
Validate(t, schema) ==
    {[column |-> ci, row |-> 0] : ci \in DOMAIN schema \ DOMAIN t.header}
    \cup {v \in [column : DOMAIN schema \cap DOMAIN t.header, row : DOMAIN t.rows] :
            LET c   == CellOf(t.rows[v.row], v.column)
                col == schema[v.column]
            IN  IF c = "" THEN ~ col.nullable ELSE ~ CheckType(c, col.type)}

SchemaEqual(a, b) ==
    /\ Len(a) = Len(b)
    /\ \A k \in DOMAIN a : /\ a[k].name = b[k].name
                           /\ a[k].type = b[k].type
                           /\ a[k].nullable = b[k].nullable
===============================================================================
