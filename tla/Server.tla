-------------------------------- MODULE Server --------------------------------
(***************************************************************************)
(* The other way to start the program: the handlers of                     *)
(* internal/server/server.go, which keep nothing between requests, and a   *)
(* client that sends a table to be cleaned, and the answer again, and has  *)
(* the tables it gets evaluated and profiled.                              *)
(***************************************************************************)
EXTENDS CommandLine

CONSTANTS Tables,            \* what the client may send
          MaxRounds          \* bound on the tables of a session

ASSUME TablesAssumption == \A t \in Tables : IsTable(t)

VARIABLES rounds,            \* the client's table and the answers of /api/clean
          wanted,            \* its rules and options
          evaluated, profile,\* answers about the last of them: none or one
          refused            \* the last request was answered by 400 or 405

sessionVars == <<rounds, wanted, evaluated, profile, refused>>

ServerInit ==
    /\ Init
    /\ rounds = <<>> /\ wanted = [rules |-> <<>>]
    /\ evaluated = {} /\ profile = {} /\ refused = FALSE

Serve ==
    /\ pc = "main"
    /\ pc' = "serving"
    /\ \E t \in Tables, rs \in RuleLists, o \in Options :
         rounds' = <<t>> /\ wanted' = [rules |-> rs, opts |-> o]
    /\ UNCHANGED <<arguments, read, rep, cleaned, files, failed, evaluated, profile, refused>>

Current == Last(rounds)

\* 400 to a table without header, and to rules that Evaluate fails on.
Refused(rs) ==
    \/ Current.header = <<>>
    \/ \E i \in DOMAIN rs : RuleFails(Current, rs[i])

HandleEvaluate ==
    /\ pc = "serving"
    /\ IF Refused(wanted.rules)
       THEN refused' = TRUE /\ UNCHANGED evaluated
       ELSE refused' = FALSE /\ evaluated' = {Report(Current, wanted.rules)}
    /\ UNCHANGED <<vars, rounds, wanted, profile>>

HandleClean ==
    /\ pc = "serving"
    /\ Len(rounds) < MaxRounds
    /\ IF Refused(wanted.rules)
       THEN refused' = TRUE /\ UNCHANGED <<rounds, evaluated, profile>>
       ELSE LET report == Report(Current, wanted.rules)
            IN  /\ rounds' = Append(rounds, Clean(Current, wanted.rules, report, wanted.opts))
                /\ evaluated' = {} /\ profile' = {}
                /\ refused' = FALSE
    /\ UNCHANGED <<vars, wanted>>

\* Mutant: rows that end before the column are left out.
CellsOfRows(t, i) == {r \in DOMAIN t.rows : i \in DOMAIN t.rows[r]}

RowsWithCell(t, i) == DOMAIN t.rows

ColumnProfile(t, i) ==
    LET value(r) == TrimSpace(CellAt(t.rows[r], i))
        filled == {r \in RowsWithCell(t, i) : value(r) # Empty}
    IN  [nonEmpty   |-> Cardinality(filled),
         emptyCount |-> Cardinality(RowsWithCell(t, i) \ filled),
         distinct   |-> Cardinality({value(r) : r \in filled})]

HandleProfile ==
    /\ pc = "serving"
    /\ IF Refused(<<>>)
       THEN refused' = TRUE /\ UNCHANGED profile
       ELSE refused' = FALSE /\ profile' = {[i \in DOMAIN Current.header |-> ColumnProfile(Current, i)]}
    /\ UNCHANGED <<vars, rounds, wanted, evaluated>>

\* Any handler: another method than POST, or a body that is not JSON.
Reject ==
    /\ pc = "serving"
    /\ refused' = TRUE
    /\ UNCHANGED <<vars, rounds, wanted, evaluated, profile>>

ServerNext ==
    \/ Next /\ UNCHANGED sessionVars
    \/ Serve
    \/ HandleEvaluate \/ HandleClean \/ HandleProfile \/ Reject

ServerSpec == ServerInit /\ [][ServerNext]_<<vars, sessionVars>>

-------------------------------------------------------------------------------
(* Properties *)

\* Cleaning what was cleaned changes nothing: dropping rows makes no other row
\* fail, also where rules compare rows, where rows are short and where a name
\* occurs twice.  With trimming this holds from the second time on, because the
\* rules are evaluated before cells are trimmed.
CleanSettles ==
    /\ Len(rounds) > 3 => rounds[4] = rounds[3]
    /\ Len(rounds) > 2 /\ ~ wanted.opts.trim => rounds[3] = rounds[2]

FoundBy(rule) == {v.row : v \in {x \in UNION {e.violations : e \in evaluated} : x.rule = rule}}

\* What the profile says of a column is what the rules find in it: no fewer
\* empty cells than notnull and, once cells were trimmed, as many; and unique is
\* satisfied exactly if every value is distinct and one cell at most empty.
ProfileAgrees ==
    evaluated # {} /\ profile # {} =>
        \A q \in DOMAIN wanted.rules, p \in profile :
            LET rule    == wanted.rules[q]
                column  == p[ColumnOf(Current, rule.column)]
                trimmed == wanted.opts.trim /\ Len(rounds) > 1
            IN  /\ rule.kind = "notnull" =>
                     /\ Cardinality(FoundBy(q)) <= column.emptyCount
                     /\ trimmed => Cardinality(FoundBy(q)) = column.emptyCount
                /\ rule.kind = "unique" /\ trimmed =>
                     (FoundBy(q) = {} <=>
                        column.distinct = column.nonEmpty /\ column.emptyCount <= 1)
===============================================================================
