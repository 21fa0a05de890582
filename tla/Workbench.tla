------------------------------- MODULE Workbench -------------------------------
(***************************************************************************)
(* What a program does with a table through the packages parse, transform, *)
(* clean, pipeline (its stock stages), profile and quality: it loads the   *)
(* table, works on it call by call, each call taking the table that the    *)
(* one before returned, and has rules of both sorts evaluated at the end.  *)
(*                                                                         *)
(* A call that fails returns no table, and the program goes on with the    *)
(* one it has; a panic ends it.                                            *)
(***************************************************************************)
EXTENDS ExtendedRules, Formats, Statistics

CONSTANTS CsvTables,             \* what Parse may return
          JsonInputs, FixedInputs,   \* lists of records; lines with widths
          Chains,                \* lists of operations for Apply
          Fills,                 \* lists of configurations for ApplyFill
          Names, Bounds,         \* columns, and bounds of ClampValues
          MaxCalls               \* bound on the calls; no rules after the last

ASSUME CsvAssumption == \A t \in CsvTables : IsTextTable(t)
ASSUME JsonAssumption ==
    \A records \in JsonInputs : IsList(records) /\ \A r \in DOMAIN records :
        /\ IsFiniteSet(DOMAIN records[r])
        /\ \A k \in DOMAIN records[r] :
             LET v == records[r][k]
             IN  v.is = "null" \/ (v.is = "text" /\ IsText(v.text)) \/ (v.is = "number" /\ v.number \in Int)
ASSUME FixedAssumption ==
    \A f \in FixedInputs :
        f.widths \in Seq(Nat) /\ IsList(f.lines) /\ \A l \in DOMAIN f.lines : IsText(f.lines[l])
ASSUME ChainsAssumption ==
    \A ops \in Chains : IsList(ops) /\ \A k \in DOMAIN ops :
        /\ ops[k].kind = "substr" => ops[k].start \in Int /\ ops[k].end \in Int
        /\ ops[k].kind = "replace" => IsText(ops[k].new)
        /\ ops[k].kind \in {"concat", "select"} => IsList(ops[k].columns)
        /\ ops[k].kind = "concat" => IsText(ops[k].sep)
ASSUME FillsAssumption ==
    \A configs \in Fills : IsList(configs) /\ \A k \in DOMAIN configs :
        configs[k].strategy = "constant" => IsText(configs[k].constant)
ASSUME BoundsAssumption == \A b \in Bounds : b[1] \in Int /\ b[2] \in Int

VARIABLES calls,
          aligned,               \* the table was loaded or made with aligned rows
          promised               \* what calls have established (history)

benchVars == <<calls, aligned, promised>>
ruleVars == <<basic, extended, first, second, i, out, failed>>

BenchInit == Init /\ calls = 0 /\ aligned = FALSE /\ promised = {}

Load(tables, makesAligned(_)) ==
    /\ pc = "prepare" /\ calls = 0
    /\ \E t \in tables : table' = t /\ aligned' = makesAligned(t)
    /\ calls' = 1
    /\ UNCHANGED <<pc, ruleVars, promised>>

\* The columns of a CSV file are what they are; records always give aligned rows,
\* lines do unless the first is empty.
LoadCsv   == Load(CsvTables, Aligned)
LoadJson  == Load(UNION {ParseJSON(r) : r \in JsonInputs}, LAMBDA t : TRUE)
LoadFixed == Load({ParseFixed(f.lines, f.widths) : f \in FixedInputs},
                  LAMBDA t : t.header # <<>>)

\* A call that returns result, after which what the program knew is known.
CallReturns(result, known) ==
    /\ pc = "prepare" /\ calls \in 1..MaxCalls
    /\ calls' = calls + 1
    /\ CASE result.status = "ok" ->
              /\ table' = result.table
              /\ aligned' = known.aligned /\ promised' = known.promised
              /\ UNCHANGED pc
         [] result.status = "error" -> UNCHANGED <<table, aligned, promised, pc>>
         [] result.status = "panic" -> pc' = "dead" /\ UNCHANGED <<table, aligned, promised>>
    /\ UNCHANGED ruleVars

Known == [aligned |-> aligned, promised |-> promised]

-------------------------------------------------------------------------------
(* What is known after a call (history) *)

\* What is left of the promises about rows and cells.  Renaming gives a name to
\* another column; changing cells may empty them and make them equal; a new cell
\* at the end of a short row lands in another column, where it may equal others.
Survives(p, op, rowsAligned) ==
    \/ op.kind \in {"filter", "dedup"}
    \/ op.kind = "rename" /\ p.column \notin {op.column, op.newName}
    \/ op.kind \in {"to_lower", "to_upper"} /\ (p.column # op.column \/ p.kind = "notnull")
    \/ op.kind \in {"to_int", "to_float", "trim", "substr", "replace"} /\ p.column # op.column
    \/ op.kind = "concat" /\ (rowsAligned \/ p.kind = "notnull")
    \/ op.kind = "select" /\ p.column \in ToSet(op.columns)

Established(op) ==
    CASE op.kind = "filter" /\ ~ Holds(op.predicate, Empty) ->
            {[column |-> op.column, kind |-> "notnull"]}
      [] op.kind = "dedup" -> {[column |-> op.column, kind |-> "unique"]}
      [] OTHER -> {}

AfterOp(known, op) ==
    [aligned  |-> known.aligned \/ op.kind = "select",
     promised |-> {p \in known.promised : Survives(p, op, known.aligned)} \cup Established(op)]

AfterOps(before, ops) ==
    LET known[k \in 0..Len(ops)] ==
          IF k = 0 THEN before ELSE AfterOp(known[k - 1], ops[k])
    IN  known[Len(ops)]

\* Cells of the columns were rewritten, none of them to the empty text.
Rewritten(columns) ==
    [aligned  |-> aligned,
     promised |-> {p \in promised : p.column \notin columns \/ p.kind = "notnull"}]

-------------------------------------------------------------------------------
(* Calls *)

CallApply ==
    \E ops \in Chains : CallReturns(Apply(table, ops), AfterOps(Known, ops))

CallFill ==
    \E configs \in Fills :
        CallReturns(ApplyFill(table, configs),
                    Rewritten({configs[k].column : k \in DOMAIN configs}))

CallClamp ==
    \E name \in Names, b \in Bounds :
        CallReturns(ClampValues(table, name, b[1], b[2]), Rewritten({name}))

CallNormalize ==
    \E name \in Names : CallReturns(NormalizeColumn(table, name), Rewritten({name}))

\* FilterStage, run on the table.  PassthroughStage returns the table it is given.
FilterStage(t, column) ==
    IF ~ HasColumn(t, column) THEN Failed("error")
    ELSE Returned(Kept(t, Filled(t, column)))

CallFilterStage ==
    \E name \in Names :
        CallReturns(FilterStage(table, name),
            [aligned |-> aligned, promised |-> promised \cup {[column |-> name, kind |-> "notnull"]}])

\* ProfileColumn of the package; the profile is looked at below.
CallProfile ==
    \E name \in Names :
        CallReturns(IF ~ HasColumn(table, name) THEN Failed("error")
                    ELSE IF ProfilePanics(table, ColumnOf(table, name)) THEN Failed("panic")
                    ELSE Returned(table), Known)

SubmitRules == calls \in 1..MaxCalls /\ Submit /\ UNCHANGED benchVars

CheckRules == Check /\ UNCHANGED benchVars

End ==
    /\ pc \in {"done", "dead"} \/ (pc = "prepare" /\ calls > MaxCalls)
    /\ UNCHANGED <<vars, benchVars>>

BenchNext ==
    \/ LoadCsv \/ LoadJson \/ LoadFixed
    \/ CallApply \/ CallFill \/ CallClamp \/ CallNormalize \/ CallFilterStage \/ CallProfile
    \/ SubmitRules \/ CheckRules
    \/ End

BenchSpec == BenchInit /\ [][BenchNext]_<<vars, benchVars>>

-------------------------------------------------------------------------------
(* Properties *)

Working == pc = "prepare" /\ calls > 0

\* What calls have established about rows and cells lasts through the calls that
\* are not about it, with repeated names, renamed and reordered columns: rows that
\* were aligned stay so, Evaluate finds no violation of notnull after a filter
\* and none of unique after dedup, and a filtered column can be profiled.
GuaranteesLast ==
    /\ aligned => Aligned(table)
    /\ \A p \in promised :
         /\ HasColumn(table, p.column)
         /\ \A r \in DOMAIN table.rows : ~ Violates(table, p, r)
         /\ p.kind = "notnull" => ~ ProfilePanics(table, ColumnOf(table, p.column))

\* The numbers of a column that has some and nothing else; NaN left out.
NumberColumns ==
    {name \in Names : /\ HasColumn(table, name)
                      /\ ~ CollectFails(table, name)
                      /\ Filled(table, name) # {}
                      /\ ~ HasNaN(CollectNums(table, name))}

Count(data, counted(_)) == Cardinality({k \in DOMAIN data : counted(data[k])})

\* A profile agrees with the rules about empty and equal cells; its quantiles lie
\* between its extremes in their order, and at least p percent of the numbers are
\* not above the p-th.
ProfileExact ==
    Working => \A name \in Names : HasColumn(table, name) =>
        LET k == ColumnOf(table, name)
            p == ProfileColumn(table, k)
            found(kind) == {r \in DOMAIN table.rows :
                              Violates(table, [column |-> name, kind |-> kind], r)}
        IN  ~ ProfilePanics(table, k) /\ table.rows # <<>> =>
              /\ p.nullCount = Cardinality(found("notnull"))
              /\ found("unique") = {} <=>
                   p.distinct + p.nullCount = Len(table.rows) /\ p.nullCount <= 1
              /\ name \in NumberColumns =>
                   LET nums == CollectNums(table, name)
                       ends == <<100 * p.min>> \o p.quantiles \o <<100 * p.max>>
                   IN  /\ p.isNumeric
                       /\ \A j \in 1..(Len(ends) - 1) : ends[j] <= ends[j + 1]
                       /\ \A q \in DOMAIN Quantiles :
                            100 * Count(nums, LAMBDA v : 100 * v <= p.quantiles[q])
                                >= Quantiles[q] * (Len(nums) - 1)

\* The histogram of floats.  No number is lost, and the buckets are in the order
\* of the numbers: the least one is in the first bucket, the greatest in the last.
\* BucketFor finds the bucket in which BuildHistogram counted a number, except for
\* numbers below the greatest whose quotient by the width is rounded up to the
\* number of buckets: counted in the last one, they are found in none.  What lies
\* beyond the greatest number is found in no other bucket than the last, and what
\* lies below the least in no other than the first.  (A width that underflows to
\* zero is left out.)
HistogramExact(data) ==
    \A buckets \in 1..3 :
        LET h       == BuildHistogram(data, buckets)
            top     == IF h.low = h.high THEN 0 ELSE buckets - 1
            slot(v) == IF BucketFor(h, v) = -1 THEN top ELSE BucketFor(h, v)
        IN  h.width # 0 \/ h.low = h.high =>
              /\ \A b \in DOMAIN h.counts : h.counts[b] = Count(data, LAMBDA v : slot(v) = b)
              /\ CumulativeCounts(h)[buckets - 1] = Len(data)
              /\ \A j, k \in DOMAIN data : data[j] <= data[k] => slot(data[j]) <= slot(data[k])
              /\ BucketFor(h, h.low) = 0 /\ BucketFor(h, h.high) = top
              /\ BucketFor(h, h.low - 1) \in {-1, 0} /\ BucketFor(h, h.high + 1) \in {-1, top}

\* Outliers lie outside of an interval that holds all the other numbers.  They are
\* at most half of the numbers, and at most n / threshold^2 by their deviation.
OutliersFew(data) ==
    \A method \in {"iqr", "zscore", "modified"}, threshold \in {0, 1, 2} :
        LET found == DetectOutliers(data, method, threshold)
        IN  /\ \A j, k \in DOMAIN data \ found, o \in found :
                 ~ (data[j] <= data[o] /\ data[o] <= data[k])
            /\ IF method = "zscore"
               THEN Cardinality(found) * threshold * threshold <= Len(data)
               ELSE 2 * Cardinality(found) <= Len(data)

\* The floats that ParseFloat makes of numbers.
FloatsOf(nums) == [k \in DOMAIN nums |-> Float(nums[k] * FloatOne, One)]

NumbersPlaced ==
    Working => \A name \in NumberColumns :
        /\ HistogramExact(FloatsOf(CollectNums(table, name)))
        /\ OutliersFew(CollectNums(table, name))

\* The median, in hundredths.
MedianOf(t, name) == ProfileColumn(t, ColumnOf(t, name)).quantiles[2]

\* Filling forward and then backward leaves no empty cell in a column that has a
\* value, except in rows that end before it; filling with the median of a column,
\* if it can be written with four decimals, leaves its median as it was; a fill
\* touches empty cells only.
FillsExact ==
    Working => \A name \in Names : HasColumn(table, name) =>
        LET fill(strategy) == [column |-> name, strategy |-> strategy]
            carried == ApplyFill(table, <<fill("forward"), fill("backward")>>).table
            median  == ApplyFill(table, <<fill("median")>>)
        IN  /\ Filled(table, name) # {} => Filled(carried, name) = Reaching(table, name)
            /\ \A r \in Filled(table, name) : carried.rows[r] = table.rows[r]
            /\ name \in NumberColumns /\ MedianOf(table, name) % (100 * Grain) = 0 =>
                 MedianOf(median.table, name) = MedianOf(table, name)

KeepsOrder(data, t, name) ==
    LET after == CollectNums(t, name)
    IN  \A j, k \in DOMAIN data : data[j] <= data[k] => after[j] <= after[k]

\* After ClampValues, Evaluate's range rule with the same bounds fails on texts
\* only that are no numbers, and the numbers are in the order they were in,
\* provided the bounds can be written with four decimals; others may be rounded
\* past a number that is in range, or out of it.  NormalizeColumn keeps the order
\* and takes the extremes to 0 and 1.
BoundsMet ==
    Working => \A name \in Names : HasColumn(table, name) =>
        /\ \A b \in Bounds :
             LET t == ClampValues(table, name, b[1], b[2]).table
                 cells == {Value(t, name, r) : r \in DOMAIN t.rows}
                 inRange(c) == FloatOf(c) = NaN \/ (b[1] <= FloatOf(c) /\ FloatOf(c) <= b[2])
                 rule == [column |-> name, kind |-> "range",
                          fits |-> {c \in cells : ParsesFloat(c) /\ inRange(c)}]
             IN  b[1] <= b[2] /\ b[1] % Grain = 0 /\ b[2] % Grain = 0 =>
                   /\ \A r \in DOMAIN t.rows :
                        Violates(t, rule, r) => ~ ParsesFloat(Value(t, name, r))
                   /\ name \in NumberColumns => KeepsOrder(CollectNums(table, name), t, name)
        /\ name \in NumberColumns =>
             LET before == CollectNums(table, name)
                 scaled == NormalizeColumn(table, name).table
                 after  == CollectNums(scaled, name)
             IN  /\ KeepsOrder(before, scaled, name)
                 /\ Low(before) < High(before) => Low(after) = 0 /\ High(after) = One
===============================================================================
