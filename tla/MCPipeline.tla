------------------------------ MODULE MCPipeline ------------------------------
(* Instances of Pipeline.  The name 9 is mentioned but never registered.       *)
EXTENDS Pipeline

\* One run among AddStage and Resolve calls: chains, a diamond's two arms, a
\* repeated, a self and an unknown reference, and every way to end a stage.
ChainLists == {<<>>, <<1>>, <<1, 3>>, <<2, 1>>, <<3, 3>>, <<9>>}
AllEndings == [table : BOOLEAN, error : {"none", "own"}]

\* Two runs: independent stages or a chain either way, results that have a table
\* and no error, or an error and no table.
PairLists == {<<>>, <<1>>, <<2>>}
TableOrError == {[table |-> TRUE, error |-> "none"], [table |-> FALSE, error |-> "own"]}
===============================================================================
