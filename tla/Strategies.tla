------------------------------ MODULE Strategies ------------------------------
(***************************************************************************)
(* internal/clean/strategy.go: ApplyFill, ClampValues and NormalizeColumn. *)
(***************************************************************************)
EXTENDS Transform

\* The value of the last of four decimals, and of six.
Grain == 4
Fine  == 1

\* The number a/b in multiples of grain, rounded to the nearest one.
Rounded(a, b, grain) == ((2 * a + b * grain) \div (2 * b * grain)) * grain

\* formatNum of a/b: whole numbers without decimals, others with four.
FormatNum(a, b) ==
    IF a % (b * One) = 0 THEN <<Numeral("plain", a \div b)>>
                         ELSE <<Numeral("d4", Rounded(a, b, Grain))>>

\* The rows that have a cell in the column that is not empty.
Filled(t, name) == {r \in DOMAIN t.rows : Value(t, name, r) # Empty}

\* The rows that reach the column.
Reaching(t, name) == {r \in DOMAIN t.rows : ColumnOf(t, name) \in DOMAIN t.rows[r]}

-------------------------------------------------------------------------------
(* Numbers of a column *)

CollectFails(t, name) == \E r \in Filled(t, name) : ~ ParsesFloat(Value(t, name, r))

CollectNums(t, name) ==
    LET rows == InOrder(Filled(t, name))
    IN  [k \in DOMAIN rows |-> FloatOf(Value(t, name, rows[k]))]

HasNaN(nums) == NaN \in ToSet(nums)

\* sort.Float64s puts NaN first, as NaN's stand-in does.
Place(nums, i) ==
    Cardinality({j \in DOMAIN nums : nums[j] < nums[i] \/ (nums[j] = nums[i] /\ j < i)})

Sorted(nums) ==
    [k \in DOMAIN nums |-> nums[CHOOSE i \in DOMAIN nums : Place(nums, i) = k - 1]]

SumOf(nums) ==
    LET sum[k \in 0..Len(nums)] == IF k = 0 THEN 0 ELSE sum[k - 1] + nums[k]
    IN  sum[Len(nums)]

MeanText(nums) == IF HasNaN(nums) THEN <<NaNAtom>> ELSE FormatNum(SumOf(nums), Len(nums))

\* Mutant: the upper of the two middle values.
UpperMedian(nums) == FormatNum(Sorted(nums)[Len(nums) \div 2 + 1], 1)

MedianText(nums) ==
    LET n      == Len(nums)
        middle == {(n + 1) \div 2, n \div 2 + 1}
        sum    == IF n % 2 = 1 THEN 2 * Sorted(nums)[n \div 2 + 1]
                               ELSE Sorted(nums)[n \div 2] + Sorted(nums)[n \div 2 + 1]
    IN  IF \E k \in middle : Sorted(nums)[k] = NaN THEN <<NaNAtom>> ELSE FormatNum(sum, 2)

-------------------------------------------------------------------------------
(* ApplyFill *)

\* The nearest filled row before r, or after it, gives its cell.
Carried(t, name, r, forward) ==
    LET before == {q \in Filled(t, name) : q < r}
        after  == {q \in Filled(t, name) : q > r}
    IN  IF forward /\ before # {} THEN Value(t, name, Max(before))
        ELSE IF ~ forward /\ after # {} THEN Value(t, name, Min(after))
        ELSE Empty

FillText(t, cfg, r) ==
    LET nums == CollectNums(t, cfg.column)
    IN  CASE cfg.strategy = "constant" -> cfg.constant
          [] cfg.strategy = "mean"     -> IF nums = <<>> THEN Empty ELSE MeanText(nums)
          [] cfg.strategy = "median"   -> IF nums = <<>> THEN Empty ELSE MedianText(nums)
          [] cfg.strategy = "forward"  -> Carried(t, cfg.column, r, TRUE)
          [] cfg.strategy = "backward" -> Carried(t, cfg.column, r, FALSE)
          [] OTHER                     -> Empty

Strategy == {"none", "constant", "mean", "median", "forward", "backward"}

FillFails(t, cfg) ==
    \/ ~ HasColumn(t, cfg.column)
    \/ cfg.strategy \notin Strategy
    \/ cfg.strategy \in {"mean", "median"} /\ CollectFails(t, cfg.column)

\* Rows that end before the column are passed over.
FillColumn(t, cfg) ==
    LET k == ColumnOf(t, cfg.column)
    IN  [header |-> t.header,
         rows   |-> [r \in DOMAIN t.rows |->
            IF r \in Reaching(t, cfg.column) \ Filled(t, cfg.column)
            THEN [t.rows[r] EXCEPT ![k] = FillText(t, cfg, r)] ELSE t.rows[r]]]

FillOne(so_far, cfg) ==
    IF so_far.status # "ok" THEN so_far
    ELSE IF FillFails(so_far.table, cfg) THEN Failed("error")
    ELSE Returned(FillColumn(so_far.table, cfg))

ApplyFill(t, configs) ==
    LET after[k \in 0..Len(configs)] ==
          IF k = 0 THEN Returned(t) ELSE FillOne(after[k - 1], configs[k])
    IN  after[Len(configs)]

-------------------------------------------------------------------------------
(* ClampValues and NormalizeColumn *)

\* Mutant: the bounds are compared in the wrong order.
ClampCellSwapped(c, min, max) ==
    IF ~ ParsesFloat(c) \/ FloatOf(c) = NaN THEN c
    ELSE IF FloatOf(c) < min THEN FormatNum(max, 1)
    ELSE IF FloatOf(c) > max THEN FormatNum(min, 1)
    ELSE c

\* What is no number, and NaN, stays.
ClampCell(c, min, max) ==
    IF ~ ParsesFloat(c) \/ FloatOf(c) = NaN THEN c
    ELSE IF FloatOf(c) < min THEN FormatNum(min, 1)
    ELSE IF FloatOf(c) > max THEN FormatNum(max, 1)
    ELSE c

ClampValues(t, name, min, max) ==
    IF ~ HasColumn(t, name) THEN Failed("error")
    ELSE Returned(OnColumn(t, name, LAMBDA c : ClampCell(c, min, max)))

\* The extremes of numbers whose first is not NaN: others that are lose every
\* comparison.
Low(nums)  == Min(ToSet(nums) \ {NaN})
High(nums) == Max(ToSet(nums) \ {NaN})

NormalizeCell(c, nums) ==
    IF c = Empty THEN c
    ELSE IF Head(nums) = NaN \/ FloatOf(c) = NaN THEN <<NaNAtom>>
    ELSE <<Numeral("d6", Rounded((FloatOf(c) - Low(nums)) * One, High(nums) - Low(nums), Fine))>>

NormalizeColumn(t, name) ==
    IF ~ HasColumn(t, name) \/ CollectFails(t, name) THEN Failed("error")
    ELSE LET nums == CollectNums(t, name)
         IN  IF nums = <<>> \/ (Head(nums) # NaN /\ Low(nums) = High(nums)) THEN Returned(t)
             ELSE Returned(OnColumn(t, name, LAMBDA c : NormalizeCell(c, nums)))
===============================================================================
