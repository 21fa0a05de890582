------------------------------- MODULE Transform -------------------------------
(***************************************************************************)
(* Apply of internal/transform/transform.go: a list of operations on a     *)
(* copy of the table.  An operation is a record with the fields of Op that *)
(* its kind uses; a predicate is a record as well.                         *)
(*                                                                         *)
(* substr counts atoms, so that a numeral is cut off whole; the text that  *)
(* replace looks for is one letter.                                        *)
(***************************************************************************)
EXTENDS TableData

(* Functions of a cell *)

\* strings.ToLower and ToUpper: renaming letters.
Recase(c, letters) ==
    [i \in DOMAIN c |->
       IF c[i][1] \in DOMAIN letters THEN Letter(letters[c[i][1]]) ELSE c[i]]

Lower == [X |-> "x", Y |-> "y"]
Upper == [x |-> "X", y |-> "Y"]

Truncated(n) == IF n >= 0 THEN (n \div One) * One ELSE - (((- n) \div One) * One)

\* int(NaN) depends on the platform; on amd64 it is the least int64, which a
\* number below all others stands for.
LeastInt == -(20 * One)

ToIntStr(c) ==
    LET s == TrimSpace(c)
    IN  IF ~ ParsesFloat(s) THEN s
        ELSE <<Numeral("plain", IF FloatOf(s) = NaN THEN LeastInt ELSE Truncated(FloatOf(s)))>>

ToFloatStr(c) ==
    LET s == TrimSpace(c)
    IN  IF ParsesFloat(s) /\ s # <<NaNAtom>> THEN <<Numeral("plain", FloatOf(s))>> ELSE s

\* The bounds of applySubstr's slice; Go panics if they are in the wrong order.
SubstrStart(c, op) == Min({Max({op.start, 0}), Len(c)})
SubstrEnd(c, op)   == IF op.end <= 0 \/ op.end > Len(c) THEN Len(c) ELSE op.end

Substr(c, op) == SubSeq(c, SubstrStart(c, op) + 1, SubstrEnd(c, op))

Replaced(c, old, new) ==
    FlattenSeq([i \in DOMAIN c |-> IF c[i] = old THEN new ELSE <<c[i]>>])

\* parsePredicate.
Holds(p, c) ==
    \/ p.test = "notempty" /\ c # Empty
    \/ p.test = "gt" /\ ParsesFloat(c) /\ FloatOf(c) # NaN /\ FloatOf(c) > p.arg
    \/ p.test = "lt" /\ ParsesFloat(c) /\ FloatOf(c) # NaN /\ FloatOf(c) < p.arg
    \/ p.test = "eq" /\ c = p.arg
    \/ p.test = "contains" /\ \E i \in DOMAIN c : c[i] = p.arg

-------------------------------------------------------------------------------
(* Operations *)

Rename(t, op) ==
    [header |-> [t.header EXCEPT ![ColumnOf(t, op.column)] = op.newName], rows |-> t.rows]

\* strings.Join.
Join(texts, sep) ==
    FlattenSeq([j \in DOMAIN texts |-> IF j = 1 THEN texts[j] ELSE sep \o texts[j]])

NewName(op) == IF op.column = Empty THEN Join(op.columns, <<Letter("_")>>) ELSE op.column

\* The new column is appended to the header, and the new cell to each row,
\* wherever the row ends.
Concat(t, op) ==
    LET joined(row) == Join([j \in DOMAIN op.columns |->
                               CellAt(row, ColumnOf(t, op.columns[j]))], op.sep)
    IN  [header |-> Append(t.header, NewName(op)),
         rows   |-> [r \in DOMAIN t.rows |-> Append(t.rows[r], joined(t.rows[r]))]]

\* The table with some of its rows.
Kept(t, kept) == [header |-> t.header, rows |-> Pick(t.rows, kept)]

Filter(t, op) == Kept(t, {r \in DOMAIN t.rows : Holds(op.predicate, Value(t, op.column, r))})

\* Mutant: a value is compared with the row before only.
DedupNeighbours(t, op) ==
    Kept(t, {r \in DOMAIN t.rows :
               r = 1 \/ Value(t, op.column, r) # Value(t, op.column, r - 1)})

Dedup(t, op) ==
    Kept(t, {r \in DOMAIN t.rows :
               \A q \in 1..(r - 1) : Value(t, op.column, q) # Value(t, op.column, r)})

Select(t, op) ==
    [header |-> op.columns,
     rows   |-> [r \in DOMAIN t.rows |->
                   [i \in DOMAIN op.columns |-> Value(t, op.columns[i], r)]]]

-------------------------------------------------------------------------------
(* Apply *)

CellKinds == {"to_lower", "to_upper", "to_int", "to_float", "trim", "substr", "replace"}
ColumnKinds == CellKinds \cup {"rename", "filter", "dedup"}

OpFails(t, op) ==
    \/ op.kind \notin ColumnKinds \cup {"concat", "select"}
    \/ op.kind \in ColumnKinds /\ ~ HasColumn(t, op.column)
    \/ op.kind = "filter" /\ op.predicate.test = "unknown"
    \/ /\ op.kind \in {"concat", "select"}
       /\ \/ Len(op.columns) < (IF op.kind = "concat" THEN 2 ELSE 1)
          \/ \E i \in DOMAIN op.columns : ~ HasColumn(t, op.columns[i])

OpPanics(t, op) ==
    /\ op.kind = "substr"
    /\ \E r \in DOMAIN t.rows :
         /\ ColumnOf(t, op.column) \in DOMAIN t.rows[r]
         /\ LET c == Value(t, op.column, r) IN SubstrStart(c, op) > SubstrEnd(c, op)

\* The cell that an operation on cells makes of c.
CellOf(op, c) ==
    CASE op.kind = "to_lower" -> Recase(c, Lower)
      [] op.kind = "to_upper" -> Recase(c, Upper)
      [] op.kind = "to_int"   -> ToIntStr(c)
      [] op.kind = "to_float" -> ToFloatStr(c)
      [] op.kind = "trim"     -> TrimSpace(c)
      [] op.kind = "substr"   -> Substr(c, op)
      [] op.kind = "replace"  -> Replaced(c, op.old, op.new)

Transformed(t, op) ==
    CASE op.kind \in CellKinds -> OnColumn(t, op.column, LAMBDA c : CellOf(op, c))
      [] op.kind = "rename"    -> Rename(t, op)
      [] op.kind = "concat"    -> Concat(t, op)
      [] op.kind = "filter"    -> Filter(t, op)
      [] op.kind = "dedup"     -> Dedup(t, op)
      [] op.kind = "select"    -> Select(t, op)

\* The outcome of a call: a table, "error", or "panic" with the end of the
\* program.  The operations before a failure leave nothing.
Returned(t) == [status |-> "ok", table |-> t]
Failed(how) == [status |-> how]

ApplyOne(so_far, op) ==
    IF so_far.status # "ok" THEN so_far
    ELSE LET t == so_far.table
         IN  IF OpFails(t, op) THEN Failed("error")
             ELSE IF OpPanics(t, op) THEN Failed("panic")
             ELSE Returned(Transformed(t, op))

Apply(t, ops) ==
    LET after[k \in 0..Len(ops)] == IF k = 0 THEN Returned(t) ELSE ApplyOne(after[k - 1], ops[k])
    IN  after[Len(ops)]
===============================================================================
