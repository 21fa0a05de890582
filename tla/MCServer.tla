-------------------------------- MODULE MCServer --------------------------------
(* Tables of up to three rows with a repeated column name, short rows, empty    *)
(* and padded cells, and the table of an empty input; rules of all kinds,       *)
(* alone and together.                                                          *)
EXTENDS Server

X      == <<Letter("x")>>
Padded == <<Letter("x"), Blank>>
Space  == <<Blank>>

\* The rows of a CSV file have a cell at least.
MCRows == {<<X>>, <<X, Empty, X>>, <<X, X>>, <<X, Padded, X>>, <<X, Space, Empty>>}
MCTables == [header : {<<"key", "id", "id">>}, rows : UNION {[1..k -> MCRows] : k \in 0..3}]
            \cup {EmptyTable}

Rule(kind, critical) ==
    [column |-> "id", kind |-> kind, critical |-> critical, wellFormed |-> TRUE, fits |-> {X}]

MCRuleLists ==
    {<<>>,
     <<Rule("unique", TRUE)>>,
     <<Rule("notnull", TRUE), Rule("unique", FALSE)>>,
     <<Rule("range", FALSE), Rule("unique", TRUE)>>,
     <<Rule("notnull", FALSE), Rule("regex", TRUE)>>,
     <<Rule("unique", TRUE), Rule("enum", TRUE)>>,
     <<[Rule("regex", TRUE) EXCEPT !.wellFormed = FALSE]>>,
     <<[Rule("notnull", TRUE) EXCEPT !.column = "other"]>>}

MCOptions == [drop : BOOLEAN, trim : BOOLEAN]

MCBytes == {"EF", "BB", "BF", "x", "y", "z"}

\* A mark and what looks like one: cut off, in the wrong place, twice.  The byte
\* "x" stands for the rest of any table.
MCInputs == {<<>>, BOM, <<"EF", "BB">>, <<"EF", "BB", "y", "z">>,
             BOM \o BOM, <<"y">> \o BOM, BOM \o <<"x">>}

MCParsed(bytes) ==
    IF bytes = <<>> THEN {EmptyTable}
    ELSE IF "x" \in ToSet(bytes) THEN MCTables \ {EmptyTable}
    ELSE {[header |-> <<"key">>, rows |-> <<>>]}
===============================================================================
