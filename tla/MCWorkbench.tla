------------------------------ MODULE MCWorkbench ------------------------------
(* Tables of up to three rows with a label and a number, short and long rows,   *)
(* blanks, NaN and fractions; longer columns of numbers; records with different *)
(* keys; lines that end early.  One call of every kind on either column, and    *)
(* some chains; rules of both sorts.                                            *)
EXTENDS Workbench, TLC

L == <<Letter("x")>>
N == <<Letter("y")>>
MCNames == {L, N}

Num(n) == <<Numeral("plain", n * One)>>
Tiny == <<Numeral("plain", 3)>>
\* So near to 9 that BucketFor does not find it among three buckets from 1 to 9.
Nearly9 == <<Numeral("plain", 350)>>
Text(c) == <<Letter(c)>>

MCRows == {<<Text("x"), Num(1)>>, <<Text("X"), Num(3)>>, <<Text("x"), Empty>>,
           <<<<Blank>>, Tiny>>, <<Text("x")>>, <<Empty, <<NaNAtom>>, Text("y")>>}
Column(nums) == [header |-> <<N>>, rows |-> [k \in DOMAIN nums |-> <<Num(nums[k])>>]]

MCCsvTables ==
    [header : {<<L, N>>}, rows : UNION {[1..k -> MCRows] : k \in 0..3}]
    \cup {[header |-> <<N, L, N>>, rows |-> <<<<Num(2), Text("x"), Num(1)>>, <<Num(2), Text("y")>>>>]}
    \cup {[header |-> <<L, N>>, rows |-> <<<<Text("x")>>, <<Text("y"), <<Letter("x"), Blank>>>>>>]}
    \cup {Column(<<2, 2, 2, 9>>), Column(<<1, 1, 5, 9, 9>>), Column(<<1, 2, 3, 4, 0>>),
           [header |-> <<N>>, rows |-> <<<<Num(1)>>, <<Nearly9>>, <<Num(9)>>>>]}

MCJsonInputs ==
    {<<>>, <<(L :> [is |-> "text", text |-> Text("x")]),
             (L :> [is |-> "null"] @@ N :> [is |-> "number", number |-> One])>>}

MCFixedInputs ==
    {[lines |-> lines, widths |-> <<2, 1>>] :
       lines \in {<<>>, <<Empty, <<Letter("x"), Blank, Numeral("plain", One)>>>>,
                  <<<<Letter("x"), Blank, Letter("y")>>, <<Letter("x")>>,
                    <<Blank, Letter("x"), Numeral("plain", One), Letter("y")>>>>}}

On(kind, name) == [kind |-> kind, column |-> name]
FilterBy(name, test, arg) ==
    [kind |-> "filter", column |-> name, predicate |-> [test |-> test, arg |-> arg]]
ConcatTo(name) == [kind |-> "concat", column |-> name, columns |-> <<L, N>>, sep |-> <<Blank>>]
SelectOf(names) == [kind |-> "select", columns |-> names]
RenameTo(name, new) == [kind |-> "rename", column |-> name, newName |-> new]

MCOps ==
    {On(kind, L) : kind \in {"to_upper", "to_lower", "trim", "split"}}
    \cup {On(kind, N) : kind \in {"to_int", "to_float"}}
    \cup {On("dedup", name) : name \in MCNames}
    \cup {FilterBy(L, "notempty", 0), FilterBy(L, "eq", Empty), FilterBy(L, "contains", Letter("x")),
          FilterBy(N, "gt", One), FilterBy(N, "lt", 2 * One), FilterBy(N, "unknown", 0)}
    \cup {ConcatTo(Empty), ConcatTo(N), SelectOf(<<N>>), SelectOf(<<N, L>>), SelectOf(<<>>)}
    \cup {RenameTo(L, N), RenameTo(N, L)}
    \cup {[kind |-> "substr", column |-> L, start |-> 0, end |-> 1],
          [kind |-> "substr", column |-> L, start |-> 2, end |-> 1],
          [kind |-> "replace", column |-> L, old |-> Letter("x"), new |-> Empty]}

MCChains ==
    {<<op>> : op \in MCOps}
    \cup {<<On("dedup", L), ConcatTo(Empty), SelectOf(<<L, N>>)>>,
          <<SelectOf(<<L, N>>), ConcatTo(L), On("dedup", N)>>}

Fill(name, strategy) == [column |-> name, strategy |-> strategy, constant |-> Text("x")]

MCFills ==
    {<<Fill(N, strategy)>> : strategy \in {"mean", "median", "other"}}
    \cup {<<Fill(L, "constant"), Fill(N, "forward")>>, <<Fill(N, "none"), Fill(N, "backward")>>}

MCBounds == {<<One, 2 * One>>, <<1, One>>}

BasicRule(column, kind) ==
    [column |-> column, kind |-> kind, critical |-> FALSE, wellFormed |-> TRUE, fits |-> {Text("x")}]

MCBasic == {<<>>, <<BasicRule(L, "notnull")>>, <<BasicRule(N, "range"), BasicRule(L, "range")>>,
            <<BasicRule(L, "enum")>>}

Rule(column, kind) ==
    [column |-> column, kind |-> kind, wellFormed |-> TRUE, fits |-> {Text("x")},
     short |-> {Text("x")}, long |-> {Text("x"), Num(1)}, left |-> L, right |-> N,
     unrelated |-> {<<Text("x"), Num(1)>>}]

MCExtended ==
    {<<>>, <<Rule(N, "length")>>, <<Rule(L, "crossfield"), Rule(N, "length")>>,
     <<Rule(L, "length"), Rule(L, "date")>>, <<Rule(N, "type"), Rule(L, "enum")>>,
     <<[Rule(L, "enum") EXCEPT !.fits = {}], Rule(N, "notnull")>>,
     <<[Rule(L, "crossfield") EXCEPT !.wellFormed = FALSE]>>,
     <<[Rule(L, "crossfield") EXCEPT !.right = Text("X")]>>}
================================================================================
