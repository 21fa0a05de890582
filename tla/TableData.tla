------------------------------- MODULE TableData -------------------------------
(***************************************************************************)
(* Tables as the packages pass them to each other: a header, a sequence of *)
(* column names in which a name may occur twice, and rows, sequences of    *)
(* cells that may be shorter or longer than the header.                    *)
(*                                                                         *)
(* The text of a cell is a sequence of atoms: a letter, a blank, or a      *)
(* whole numeral.  An atom is a pair; the numerals are told apart by their *)
(* value and by the form they are written in, since 2.5 and 2.5000 are the *)
(* same number and different texts.  A name is a text as well, where it is *)
(* read from the input; else any value will do.                            *)
(***************************************************************************)
EXTENDS Integers, Positions, FiniteSetsExt, SequencesExt

Empty == <<>>
Blank == <<"blank", 0>>
Letter(c) == <<c, 0>>

NaNAtom == <<"NaN", 0>>
Numeral(form, n) == <<form, n>>
Forms == {"plain",     \* as short as possible
          "d4", "d6"}  \* with four, with six decimals

\* Stands for the value NaN; the operators below look for it first.
NaN == -100000

\* The number 1 in the unit of all numbers.
One == 40

\* strconv.ParseFloat accepts the text, and the value.
ParsesFloat(c) == Len(c) = 1 /\ c[1][1] \in Forms \cup {"NaN"}
FloatOf(c) == IF c[1] = NaNAtom THEN NaN ELSE c[1][2]

\* strings.TrimSpace.
TrimSpace(c) ==
    LET ink == {i \in DOMAIN c : c[i] # Blank}
    IN  IF ink = {} THEN Empty ELSE SubSeq(c, Min(ink), Max(ink))

\* Tables of any cells.
IsTable(t) ==
    /\ IsList(t.header) /\ IsList(t.rows)
    /\ \A r \in DOMAIN t.rows :
         IsList(t.rows[r]) /\ \A j \in DOMAIN t.rows[r] : IsList(t.rows[r][j])

\* The same of texts whose numerals have a number.
IsText(c) == IsList(c) /\ \A i \in DOMAIN c : c[i][1] \in Forms \cup {"NaN"} => c[i][2] \in Int

IsTextTable(t) ==
    /\ t = [header |-> t.header, rows |-> t.rows] /\ IsTable(t)
    /\ \A r \in DOMAIN t.rows : \A j \in DOMAIN t.rows[r] : IsText(t.rows[r][j])

HasColumn(t, name) == \E i \in DOMAIN t.header : t.header[i] = name

\* The first column of that name.
ColumnOf(t, name) == Min({i \in DOMAIN t.header : t.header[i] = name})

\* A row that ends before the column reads as empty there.
CellAt(row, i) == IF i \in DOMAIN row THEN row[i] ELSE Empty

Value(t, name, r) == CellAt(t.rows[r], ColumnOf(t, name))

\* Every row has a cell for every column, and no more.
Aligned(t) == \A r \in DOMAIN t.rows : Len(t.rows[r]) = Len(t.header)

\* The table with f applied to the cells of a column; rows that end before it
\* stay as they are.
OnColumn(t, name, f(_)) ==
    LET k == ColumnOf(t, name)
    IN  [header |-> t.header,
         rows   |-> [r \in DOMAIN t.rows |->
            IF k \in DOMAIN t.rows[r] THEN [t.rows[r] EXCEPT ![k] = f(@)] ELSE t.rows[r]]]
===============================================================================
