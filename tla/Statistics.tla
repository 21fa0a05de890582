------------------------------- MODULE Statistics -------------------------------
(***************************************************************************)
(* internal/profile: the profile of a column, the histogram and the        *)
(* outliers of a list of numbers.  Quantiles are given in hundredths of    *)
(* the unit, which makes the interpolation between two numbers exact.  The *)
(* histogram is a matter of rounding: its numbers are floats.              *)
(***************************************************************************)
EXTENDS Strategies, Floats

-------------------------------------------------------------------------------
(* profile.go *)

\* Mutant: the weights are swapped.
InterpolatedSwapped(a, b, frac) == a * frac + b * (100 - frac)

Interpolated(a, b, frac) == a * (100 - frac) + b * frac

Percentile(sorted, p) ==
    LET rank  == p * (Len(sorted) - 1)
        lower == rank \div 100
    IN  IF rank % 100 = 0 THEN 100 * sorted[lower + 1]
        ELSE Interpolated(sorted[lower + 1], sorted[lower + 2], rank % 100)

Quantiles == <<25, 50, 75, 90, 99>>

\* profileColumn of the column with index k; it indexes an empty slice, and
\* panics, when there are rows but no value.
ProfilePanics(t, k) == t.rows # <<>> /\ \A r \in DOMAIN t.rows : CellAt(t.rows[r], k) = Empty

ProfileColumn(t, k) ==
    LET filled == Pick(t.rows, {r \in DOMAIN t.rows : CellAt(t.rows[r], k) # Empty})
        values == [i \in DOMAIN filled |-> CellAt(filled[i], k)]
        nums   == Sorted([i \in DOMAIN values |-> FloatOf(values[i])])
        text   == [nullCount |-> Len(t.rows) - Len(values),
                   distinct  |-> Cardinality(ToSet(values)),
                   isNumeric |-> FALSE]
    IN  IF values = <<>> \/ \E i \in DOMAIN values : ~ ParsesFloat(values[i])
        THEN text
        ELSE [nullCount |-> text.nullCount, distinct |-> text.distinct, isNumeric |-> TRUE,
              min |-> Head(nums), max |-> Last(nums), sum |-> SumOf(nums),
              quantiles |-> [q \in DOMAIN Quantiles |-> Percentile(nums, Quantiles[q])]]

-------------------------------------------------------------------------------
(* histogram.go, for floats without NaN *)

\* Which bucket a number belongs to, if there were no end of buckets.
Quotient(v, low, width) == Floor(DividedBy(Minus(v, low), width))

\* Mutant: the number is not kept within the buckets.
IndexUnclamped(v, low, width, buckets) == IF width = 0 THEN 0 ELSE Quotient(v, low, width)

\* The bucket, counted from 0, that BuildHistogram puts a number in.  (When the
\* width underflows to zero Go makes an integer of an infinity or NaN; the least
\* one, as on amd64, ends in the first bucket.)
Index(v, low, width, buckets) ==
    IF width = 0 THEN 0 ELSE Max({0, Min({Quotient(v, low, width), buckets - 1})})

\* The counts and the bounds that BucketFor looks at.
BuildHistogram(data, buckets) ==
    LET low   == Min(ToSet(data))
        high  == Max(ToSet(data))
        width == IF low = high THEN 0 ELSE Float(Minus(high, low), buckets)
    IN  [low |-> low, high |-> high, width |-> width,
         counts |-> [b \in 0..(buckets - 1) |->
                       Cardinality({i \in DOMAIN data : Index(data[i], low, width, buckets) = b})]]

BucketFor(h, v) ==
    LET index == Quotient(v, h.low, h.width)
    IN  IF h.width = 0 THEN (IF v = h.low THEN 0 ELSE -1)
        ELSE IF index \in DOMAIN h.counts THEN index
        ELSE IF v = h.high THEN Cardinality(DOMAIN h.counts) - 1
        ELSE -1

CumulativeCounts(h) ==
    LET cum[b \in DOMAIN h.counts] == h.counts[b] + (IF b = 0 THEN 0 ELSE cum[b - 1])
    IN  cum

-------------------------------------------------------------------------------
(* outlier.go, for numbers without NaN *)

AbsOf(n) == IF n < 0 THEN -n ELSE n

Outside(data, outside(_)) == {i \in DOMAIN data : outside(data[i])}

\* More than 1.5 times the distance of the quartiles beyond them.
DetectIQR(data) ==
    LET q1 == Percentile(Sorted(data), 25)
        q3 == Percentile(Sorted(data), 75)
    IN  Outside(data, LAMBDA v : \/ 2 * 100 * v < 2 * q1 - 3 * (q3 - q1)
                                 \/ 2 * 100 * v > 2 * q3 + 3 * (q3 - q1))

\* More than threshold standard deviations from the mean.  The deviations d are
\* taken times n, so that n*d^2 > threshold^2 * (sum of d^2) is the comparison.
DetectZScore(data, threshold) ==
    LET n == Len(data)
        d(v) == n * v - SumOf(data)
        squares == SumOf([i \in DOMAIN data |-> d(data[i]) * d(data[i])])
    IN  Outside(data, LAMBDA v : squares # 0 /\ n * d(v) * d(v) > threshold * threshold * squares)

\* Twice the median.
TwiceMedian(nums) == Percentile(Sorted(nums), 50) \div 50

\* More than threshold/0.6745 times the median deviation from the median.
DetectModifiedZScore(data, threshold) ==
    LET dev(v) == AbsOf(2 * v - TwiceMedian(data))
        mad == TwiceMedian([i \in DOMAIN data |-> dev(data[i])])
    IN  Outside(data, LAMBDA v : mad # 0 /\ 2 * 6745 * dev(v) > threshold * 10000 * mad)

\* A threshold that is not positive means 3.
DetectOutliers(data, method, threshold) ==
    LET used == IF threshold <= 0 THEN 3 ELSE threshold
    IN  IF data = <<>> THEN {}
        ELSE CASE method = "iqr"      -> DetectIQR(data)
               [] method = "zscore"   -> DetectZScore(data, used)
               [] method = "modified" -> DetectModifiedZScore(data, used)
===============================================================================
