-------------------------------- MODULE Formats --------------------------------
(***************************************************************************)
(* internal/parse/multiformat.go: how a table is made from lines of fixed  *)
(* width and from JSON records.                                            *)
(*                                                                         *)
(* A line is a text.  A record maps the names it has to values: a text, a  *)
(* number or null; that of a key the record lacks reads as empty.          *)
(***************************************************************************)
EXTENDS TableData

\* splitFixed: widths are columns of the line, cut off at its end.
Field(line, widths, i) ==
    LET end[j \in 0..Len(widths)] == IF j = 0 THEN 0 ELSE end[j - 1] + widths[j]
    IN  TrimSpace(SubSeq(line, end[i - 1] + 1, Min({end[i], Len(line)})))

SplitFixed(line, widths) == [i \in DOMAIN widths |-> Field(line, widths, i)]

\* An empty first line leaves the table without a header.
ParseFixed(lines, widths) ==
    [header |-> IF lines = <<>> \/ Head(lines) = Empty THEN <<>>
                ELSE SplitFixed(Head(lines), widths),
     rows   |-> [r \in 1..(Len(lines) - 1) |-> SplitFixed(lines[r + 1], widths)]]

ValueToString(v) == CASE v.is = "null" -> Empty
                      [] v.is = "text" -> v.text
                      [] v.is = "number" -> <<Numeral("plain", v.number)>>

\* The orders of the columns that ranging over the maps may give: keys of
\* earlier records come first.
KeyOrders(records) ==
    LET keys == UNION {DOMAIN records[r] : r \in DOMAIN records}
        firstIn(k) == Min({r \in DOMAIN records : k \in DOMAIN records[r]})
    IN  {order \in SetToSeqs(keys) :
           \A i, j \in DOMAIN order : i < j => firstIn(order[i]) <= firstIn(order[j])}

ParseJSON(records) ==
    {[header |-> order,
      rows   |-> [r \in DOMAIN records |-> [i \in DOMAIN order |->
                    IF order[i] \in DOMAIN records[r] THEN ValueToString(records[r][order[i]])
                                                      ELSE Empty]]] :
       order \in KeyOrders(records)}
===============================================================================
