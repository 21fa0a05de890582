----------------------------- MODULE ExtendedRules -----------------------------
(***************************************************************************)
(* EvaluateExtended and MergeViolations of internal/quality/rules.go, and  *)
(* their use: Evaluate accepts none of the extended kinds, so that a list  *)
(* of rules is split, each part is evaluated with indices of its own, and  *)
(* the violations are merged.                                              *)
(*                                                                         *)
(* A rule has the cells that fit it (enum, date, type), those that are too *)
(* short and too long for it (length), and for crossfield its two columns  *)
(* and the pairs of numbers that are not related as it says.               *)
(***************************************************************************)
EXTENDS QualityRules

CONSTANTS Basic, Extended    \* lists of rules of the two sorts

ASSUME RulesAssumption == \A rules \in Basic \cup Extended : IsList(rules)

VARIABLES table, basic, extended,
          pc,                \* "prepare" while the table is worked on, "basic",
                             \* "extended", "first", "second", "done"
          first, second,     \* the two lists of violations
          i, out,            \* MergeViolations: position in them, result
          failed             \* one of the evaluations returned an error

inputs == <<table, basic, extended>>
vars == <<inputs, pc, first, second, i, out, failed>>

\* EvaluateExtended keeps the last column of a name where Evaluate keeps the
\* first.
LastColumnOf(t, name) == Max({k \in DOMAIN t.header : t.header[k] = name})

CellIn(t, name, r) == CellAt(t.rows[r], LastColumnOf(t, name))

\* What EvaluateExtended returns an error for; an unknown kind is none.
ExtendedFails(t, rule) ==
    \/ ~ HasColumn(t, rule.column)
    \/ /\ rule.kind = "crossfield"
       /\ \/ ~ rule.wellFormed
          \/ ~ HasColumn(t, rule.left)
          \/ ~ HasColumn(t, rule.right)

Reasons == <<"unfit", "short", "long", "unrelated">>

\* The violations a rule finds in row r.  An enum without values accepts all;
\* length may find a cell both too short and too long.
ReasonsOf(t, rule, r) ==
    LET value == CellIn(t, rule.column, r)
    IN  {reason \in ToSet(Reasons) :
           \/ /\ value # Empty
              /\ \/ /\ reason = "unfit"
                    /\ rule.kind \in {"enum", "date", "type"}
                    /\ value \notin rule.fits
                    /\ ~ (rule.kind = "enum" /\ rule.fits = {})
                 \/ reason = "short" /\ rule.kind = "length" /\ value \in rule.short
                 \/ reason = "long" /\ rule.kind = "length" /\ value \in rule.long
           \/ /\ reason = "unrelated" /\ rule.kind = "crossfield"
              /\ <<CellIn(t, rule.left, r), CellIn(t, rule.right, r)>> \in rule.unrelated}

Found(rules, k, r, reason) ==
    [rule |-> k, column |-> rules[k].column, row |-> r, reason |-> reason]

\* By row and rule, as Evaluate sorts them.
BasicViolations(t, rules) ==
    FlattenSeq([r \in DOMAIN t.rows |->
        LET violated == InOrder({k \in DOMAIN rules : Violates(t, rules[k], r)})
        IN  [n \in DOMAIN violated |-> Found(rules, violated[n], r, "basic")]])

\* By rule and row.
ExtendedViolations(t, rules) ==
    FlattenSeq([k \in DOMAIN rules |-> FlattenSeq([r \in DOMAIN t.rows |->
        LET found == Pick(Reasons, {n \in DOMAIN Reasons : Reasons[n] \in ReasonsOf(t, rules[k], r)})
        IN  [n \in DOMAIN found |-> Found(rules, k, r, found[n])]])])

Init ==
    /\ table = [header |-> <<>>, rows |-> <<>>]
    /\ basic = <<>> /\ extended = <<>>
    /\ pc = "prepare" /\ first = <<>> /\ second = <<>>
    /\ i = 1 /\ out = <<>> /\ failed = FALSE

Submit ==
    /\ pc = "prepare"
    /\ basic' \in Basic /\ extended' \in Extended
    /\ pc' = "basic"
    /\ UNCHANGED <<table, first, second, i, out, failed>>

EvaluateBasic ==
    /\ pc = "basic"
    /\ IF \E k \in DOMAIN basic : RuleFails(table, basic[k])
       THEN pc' = "done" /\ failed' = TRUE /\ UNCHANGED first
       ELSE /\ pc' = "extended"
            /\ first' = BasicViolations(table, basic)
            /\ UNCHANGED failed
    /\ UNCHANGED <<inputs, second, i, out>>

EvaluateExtended ==
    /\ pc = "extended"
    /\ IF \E k \in DOMAIN extended : ExtendedFails(table, extended[k])
       THEN pc' = "done" /\ failed' = TRUE /\ UNCHANGED second
       ELSE /\ pc' = "first"
            /\ second' = ExtendedViolations(table, extended)
            /\ UNCHANGED failed
    /\ UNCHANGED <<inputs, first, i, out>>

\* Mutant: the column is left out of the key.
KeyOfRow(v) == <<v.rule, v.row>>

\* What MergeViolations recognises a violation by.
Key(v) == <<v.rule, v.column, v.row>>

Seen(v) == \E w \in ToSet(out) : Key(w) = Key(v)

\* One iteration of the loops of MergeViolations.
Merge(list) ==
    /\ i <= Len(list)
    /\ out' = IF Seen(list[i]) THEN out ELSE Append(out, list[i])
    /\ i' = i + 1
    /\ UNCHANGED <<inputs, pc, first, second, failed>>

MergeFirst  == pc = "first" /\ Merge(first)
MergeSecond == pc = "second" /\ Merge(second)

EndLoop ==
    /\ \/ pc = "first" /\ i > Len(first) /\ pc' = "second"
       \/ pc = "second" /\ i > Len(second) /\ pc' = "done"
    /\ i' = 1
    /\ UNCHANGED <<inputs, first, second, out, failed>>

Check ==
    \/ EvaluateBasic \/ EvaluateExtended
    \/ MergeFirst \/ MergeSecond \/ EndLoop

-------------------------------------------------------------------------------
(* Properties *)

\* The parts whose rule k row r violates.
Violated(k, r) ==
    {part \in {"basic", "extended"} :
       \/ part = "basic" /\ k \in DOMAIN basic /\ Violates(table, basic[k], r)
       \/ part = "extended" /\ k \in DOMAIN extended /\ ReasonsOf(table, extended[k], r) # {}}

\* Rules of the two parts with the same index and the same column would be taken
\* for each other.
ToldApart == \A k \in DOMAIN basic \cap DOMAIN extended : basic[k].column # extended[k].column

\* Every violated rule is in the merged list once for each row, also when two
\* reasons were found for it, provided that the rules can be told apart.
MergedExact ==
    pc = "done" /\ ~ failed /\ ToldApart =>
        \A k \in DOMAIN basic \cup DOMAIN extended, r \in DOMAIN table.rows :
            Cardinality({n \in DOMAIN out : out[n].rule = k /\ out[n].row = r}) =
                Cardinality(Violated(k, r))
===============================================================================
