----------------------------- MODULE QualityRules -----------------------------
(***************************************************************************)
(* Evaluate of internal/quality/quality.go and Clean of                    *)
(* internal/clean/clean.go, as operators on tables and lists of rules.     *)
(*                                                                         *)
(* A rule is its column, its kind, whether it is critical, and for range   *)
(* and regex the cells that fit it; a pattern may be malformed.            *)
(***************************************************************************)
EXTENDS TableData

Kinds == {"notnull", "range", "regex", "unique"}

\* What makes Evaluate return an error.
RuleFails(t, rule) ==
    \/ ~ HasColumn(t, rule.column)
    \/ rule.kind \notin Kinds
    \/ rule.kind = "regex" /\ ~ rule.wellFormed

Repeated(t, rule, r) ==
    \E q \in DOMAIN t.rows \ {r} : Value(t, rule.column, q) = Value(t, rule.column, r)

\* Row r violates the rule.  Empty cells satisfy range and regex, and are equal
\* to each other for unique.
Violates(t, rule, r) ==
    \/ rule.kind = "notnull" /\ Value(t, rule.column, r) = Empty
    \/ /\ rule.kind \in {"range", "regex"}
       /\ Value(t, rule.column, r) # Empty
       /\ Value(t, rule.column, r) \notin rule.fits
    \/ rule.kind = "unique" /\ Repeated(t, rule, r)

\* Evaluate: the violations, which the code lists by row and rule.
Violations(t, rules) ==
    {v \in [row : DOMAIN t.rows, rule : DOMAIN rules] : Violates(t, rules[v.rule], v.row)}

Report(t, rules) == [totalRows   |-> Len(t.rows),
                     totalChecks |-> Len(t.rows) * Len(rules),
                     violations  |-> Violations(t, rules)]

\* Mutant: rows are dropped for violations of any rule.
DropAnyRows(rules, rep) == {v.row : v \in rep.violations}

\* Mutant: rows are counted from one.
DropRowsShifted(rules, rep) ==
    {v.row + 1 : v \in {x \in rep.violations : rules[x.rule].critical}}

\* Clean: the rows to drop.
DropRows(rules, rep) == {v.row : v \in {x \in rep.violations : rules[x.rule].critical}}

TrimRow(row) == [j \in DOMAIN row |-> TrimSpace(row[j])]

\* The rows that are left.
KeptRows(t, rules, rep, opts) ==
    {i \in DOMAIN t.rows : ~ (opts.drop /\ i \in DropRows(rules, rep))}

Clean(t, rules, rep, opts) ==
    LET kept == KeptRows(t, rules, rep, opts)
    IN  [header |-> t.header,
         rows   |-> [k \in 1..Cardinality(kept) |->
                       IF opts.trim THEN TrimRow(t.rows[Nth(kept, k)]) ELSE t.rows[Nth(kept, k)]]]
===============================================================================
