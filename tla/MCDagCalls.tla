------------------------------ MODULE MCDagCalls ------------------------------
(* Three stage names and one name (4) that no stage has; lists of at most two  *)
(* dependencies, repetitions and self references included.                     *)
EXTENDS DagCalls

MCDepLists == UNION {[1..k -> 1..4] : k \in 0..2}
===============================================================================
