------------------------------ MODULE CommandLine ------------------------------
(***************************************************************************)
(* The command dq-pipeline: run of main.go, its steps in the order of the  *)
(* code, each of which may fail and end the program with exit status 1.    *)
(* The arguments are parsed correctly: errors in them come before all that *)
(* is modelled.                                                            *)
(*                                                                         *)
(* A file holds what it held before, nothing, a part of what was written,  *)
(* or the whole of it.  The input is read to its end before a file is      *)
(* written, so that it may be one of these files.                          *)
(***************************************************************************)
EXTENDS QualityRules, BomReader

CONSTANTS Parsed(_),             \* the tables that some bytes may stand for
          RuleLists,             \* what the rules file may hold
          Options                \* values of -drop and -trim

\* What the CSV reader returns for a file is a table.
ASSUME ParsedAssumption ==
    \A s \in Inputs : \A t \in Parsed(WithoutBOM(s)) : IsTable(t)

VARIABLES opts, reportPath, outPath,   \* arguments; "-" is stdout, "" none
          pc,
          table, rules,          \* what was read
          rep, cleaned,          \* results of Evaluate and of Clean: none or one
          files,                 \* the contents of the files and of stdout
          failed                 \* the step that failed, or "none"

arguments == <<opts, reportPath, outPath>>
read == <<readerVars, table, rules>>
vars == <<arguments, read, pc, rep, cleaned, files, failed>>

Paths == {"-", "a", "b"}

Before == [state |-> "before"]
Created == [state |-> "blank"]
Part   == [state |-> "part"]
Whole(x) == [state |-> "whole", data |-> x]

EmptyTable == [header |-> <<>>, rows |-> <<>>]

Init ==
    /\ ReaderInit
    /\ opts = [drop |-> FALSE, trim |-> TRUE] /\ reportPath = "-" /\ outPath = ""
    /\ pc = "main"
    /\ table = EmptyTable /\ rules = <<>>
    /\ rep = {} /\ cleaned = {}
    /\ files = [p \in Paths |-> IF p = "-" THEN Created ELSE Before]
    /\ failed = "none"

\* run returns an error: the program exits with status 1.
Fails(step) == pc' = "done" /\ failed' = step

Proceeds(next) == pc' = next /\ UNCHANGED failed

\* The arguments are parsed; the input is opened, or cannot be.
OpenInput ==
    /\ pc = "main"
    /\ opts' \in Options
    /\ reportPath' \in {"-", "a"} /\ outPath' \in {"", "a", "b"}
    /\ \/ Opened /\ Proceeds("parse")
       \/ Fails("open") /\ UNCHANGED readerVars
    /\ UNCHANGED <<table, rules, rep, cleaned, files>>

ReadInput ==
    /\ pc = "parse"
    /\ Read
    /\ UNCHANGED <<arguments, pc, table, rules, rep, cleaned, files, failed>>

\* Input with bytes in it may be malformed.
ParseInput ==
    /\ pc = "parse"
    /\ \/ /\ ended = "EOF"
          /\ Proceeds("rules")
          /\ table' \in Parsed(passed)
       \/ /\ ended = "error" \/ passed # <<>>
          /\ Fails("parse")
          /\ UNCHANGED table
    /\ UNCHANGED <<arguments, readerVars, rules, rep, cleaned, files>>

\* There need not be a rules file.
LoadRules ==
    /\ pc = "rules"
    /\ \/ Proceeds("evaluate") /\ rules' \in RuleLists
       \/ Fails("rules") /\ UNCHANGED rules
    /\ UNCHANGED <<arguments, readerVars, table, rep, cleaned, files>>

Evaluate ==
    /\ pc = "evaluate"
    /\ \A i \in DOMAIN rules : ~ RuleFails(table, rules[i])
    /\ rep' = {Report(table, rules)}
    /\ Proceeds("clean")
    /\ UNCHANGED <<arguments, read, cleaned, files>>

EvaluateFails ==
    /\ pc = "evaluate"
    /\ \E i \in DOMAIN rules : RuleFails(table, rules[i])
    /\ Fails("evaluate")
    /\ UNCHANGED <<arguments, read, rep, cleaned, files>>

\* The rules were evaluated on the table as it was read: cells are trimmed, and
\* rows dropped, afterwards.
CleanTable ==
    /\ pc = "clean"
    /\ IF outPath # "" \/ opts.drop \/ opts.trim
       THEN \E r \in rep : cleaned' = {Clean(table, rules, r, opts)}
       ELSE UNCHANGED cleaned
    /\ Proceeds("report")
    /\ UNCHANGED <<arguments, read, rep, files>>

Store(path, content) == files' = [files EXCEPT ![path] = content]

\* Create or a write fails; a file that was created stays as far as it came.
Breaks(step, path) ==
    /\ Fails(step)
    /\ \/ path # "-" /\ UNCHANGED files
       \/ Store(path, Part)

\* Mutant: the error of WriteReport is dropped.
WriteReportUnchecked ==
    /\ pc = "report"
    /\ \/ \E r \in rep : Store(reportPath, Whole(r))
       \/ Store(reportPath, Part)
    /\ Proceeds("out")
    /\ UNCHANGED <<arguments, read, rep, cleaned>>

WriteReport ==
    /\ pc = "report"
    /\ \/ \E r \in rep : Store(reportPath, Whole(r)) /\ Proceeds("out")
       \/ Breaks("report", reportPath)
    /\ UNCHANGED <<arguments, read, rep, cleaned>>

WriteCleaned ==
    /\ pc = "out"
    /\ outPath # ""
    /\ \/ /\ \E t \in IF cleaned = {} THEN {table} ELSE cleaned :
               Store(outPath, Whole(t))
          /\ Proceeds("done")
       \/ Breaks("out", outPath)
    /\ UNCHANGED <<arguments, read, rep, cleaned>>

WriteNothing ==
    /\ pc = "out"
    /\ outPath = ""
    /\ Proceeds("done")
    /\ UNCHANGED <<arguments, read, rep, cleaned, files>>

Done == pc = "done" /\ UNCHANGED vars

Next ==
    \/ OpenInput \/ ReadInput \/ ParseInput \/ LoadRules
    \/ Evaluate \/ EvaluateFails
    \/ CleanTable
    \/ WriteReport \/ WriteCleaned \/ WriteNothing
    \/ Done

Spec == Init /\ [][Next]_vars

-------------------------------------------------------------------------------
(* Properties *)

Succeeded == pc = "done" /\ failed = "none"

\* The table in the output file of a run that succeeded: none or one.
Output == IF Succeeded /\ outPath # "" THEN {files[outPath].data} ELSE {}

\* A run that succeeds leaves the whole output: the rows of the input in their
\* order, trimmed with -trim, without those, and only those, that fail a
\* critical rule with -drop; report and output are told apart unless they have
\* been given the same name.
OutputExact ==
    \A t \in Output :
        /\ t.header = table.header
        /\ \E from \in [DOMAIN t.rows -> DOMAIN table.rows] :
             /\ \A k, l \in DOMAIN t.rows : k < l => from[k] < from[l]
             /\ \A k \in DOMAIN t.rows :
                  t.rows[k] = IF opts.trim THEN TrimRow(table.rows[from[k]])
                                           ELSE table.rows[from[k]]
             /\ \A i \in DOMAIN table.rows :
                  (\A k \in DOMAIN t.rows : from[k] # i) <=>
                    /\ opts.drop
                    /\ \E q \in DOMAIN rules : rules[q].critical /\ Violates(table, rules[q], i)

\* A file is given up for new output only when the report on it was delivered:
\* bad input, bad rules and a full disk under the report leave what was there.
OutputAfterReport ==
    outPath \notin {"", reportPath} /\ files[outPath] # Before =>
        files[reportPath] = Whole(Report(table, rules))

DocumentedKinds == Kinds \cup {"enum", "length", "date", "type", "crossfield"}

\* The kinds of rules that the README lists under "Rules JSON" are accepted:
\* with these a run only fails in Evaluate on a missing column or a bad pattern.
DocumentedKindsAccepted ==
    failed = "evaluate" /\ (\A i \in DOMAIN rules : rules[i].kind \in DocumentedKinds) =>
        \E i \in DOMAIN rules : ~ HasColumn(table, rules[i].column) \/ ~ rules[i].wellFormed
===============================================================================
