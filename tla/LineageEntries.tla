---------------------------- MODULE LineageEntries ----------------------------
(***************************************************************************)
(* Lists of lineage entries and what a Tracker (internal/lineage/          *)
(* lineage.go) answers about them.  A tracker that recorded a list, and    *)
(* one that Replay read it back into, differ in nothing else.              *)
(*                                                                         *)
(* An entry is a record with the row and the action; id stands for the     *)
(* remaining fields (stage, timestamp, detail) and tells entries apart.    *)
(***************************************************************************)
EXTENDS Positions, Sequences, FiniteSetsExt, SequencesExt

EntriesForRow(es, row) == Pick(es, {i \in DOMAIN es : es[i].row = row})

Dropped(es) == {e.row : e \in {x \in ToSet(es) : x.action = "DROP"}}

\* The rows with an entry of some action, in the order of their first one.
RowsWith(es, action) ==
    Pick([i \in DOMAIN es |-> es[i].row],
         {i \in DOMAIN es :
            /\ es[i].action = action
            /\ \A j \in 1..(i - 1) : ~ (es[j].action = action /\ es[j].row = es[i].row)})

DroppedRows(es) == RowsWith(es, "DROP")
ModifiedRows(es) == RowsWith(es, "MODIFY")

\* The positions Validate reports: a row was passed or modified after its DROP.
Validate(es) ==
    {i \in DOMAIN es :
       /\ es[i].action \in {"PASS", "MODIFY"}
       /\ \E j \in 1..(i - 1) : es[j].action = "DROP" /\ es[j].row = es[i].row}

\* The entries Compact keeps: of a dropped row only its DROP entries.
Compacted(es) ==
    LET dropped == Dropped(es)
    IN  Pick(es, {i \in DOMAIN es : es[i].row \in dropped => es[i].action = "DROP"})
===============================================================================
