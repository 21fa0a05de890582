----------------------------- MODULE MCSchemaDrift -----------------------------
(* Tables of up to three rows whose second column has every kind of cell or    *)
(* none; schemas of up to two columns with repeated names and unknown types.   *)
EXTENDS SchemaDrift

MCRows == {<<"7">>} \cup {<<"7", c>> : c \in Cells}
MCTables == [header : {<<"a", "b">>, <<"a", "a">>}, rows : UNION {[1..k -> MCRows] : k \in 0..3}]
MCOptions == [layouts : {"default", "custom"}, sampleSize : {0, 2}]

MCColumns == [name : {"a", "b"}, type : {"bool", "float", "date", "unknown"},
              nullable : BOOLEAN]
MCSchemas == UNION {[1..k -> MCColumns] : k \in 0..2}
================================================================================
