------------------------------ MODULE StageGraph ------------------------------
(***************************************************************************)
(* The dependency graph that a pipeline's stage map describes              *)
(* (internal/pipeline/dag.go), and what it means for a list of names to be *)
(* an execution order of it.                                               *)
(*                                                                         *)
(* A stage map is a function dep: its domain is the key set of the map     *)
(* (the registered names) and dep[n] is the list Stage.Dependencies()      *)
(* returns, with the repetitions, self references and unregistered names   *)
(* a caller may put in it.  Names are natural numbers: the code uses a     *)
(* name only as a map key and through sort.Strings, so that all that       *)
(* matters of it is its identity and its place in a total order.           *)
(***************************************************************************)
EXTENDS Naturals, Sequences, FiniteSets

DepSet(dep, n) == {dep[n][i] : i \in DOMAIN dep[n]}

\* No stage names an unregistered dependency.
AllKnown(dep) == \A n \in DOMAIN dep : DepSet(dep, n) \subseteq DOMAIN dep

\* The names listed before position i of a list.
Before(o, i) == {o[j] : j \in 1..(i - 1)}

Listed(o) == {o[j] : j \in 1..Len(o)}

\* Every name of o is registered, listed once, and after all of its
\* dependencies.  Such a list can be executed from left to right.
IsClosedOrder(dep, o) ==
    /\ \A i \in 1..Len(o) : /\ o[i] \in DOMAIN dep
                            /\ DepSet(dep, o[i]) \subseteq Before(o, i)
    /\ \A i, j \in 1..Len(o) : o[i] = o[j] => i = j

IsTopoOrder(dep, o) ==
    /\ IsClosedOrder(dep, o)
    /\ DOMAIN dep \subseteq Listed(o)

\* The stages that can come next once the stages of done have been listed.
Ready(dep, done) == {n \in DOMAIN dep \ done : DepSet(dep, n) \subseteq done}

\* The one topological order that lists, at every position, the smallest name
\* that is ready: it depends on dep only, not on the order in which Go ranges
\* over a map.
IsKahnPrefix(dep, o) ==
    \A i \in 1..Len(o) : /\ o[i] \in Ready(dep, Before(o, i))
                         /\ \A m \in Ready(dep, Before(o, i)) : o[i] <= m

IsKahnOrder(dep, o) ==
    /\ IsKahnPrefix(dep, o)
    /\ DOMAIN dep = Listed(o)

\* A nonempty set of stages each of which waits for another one of the set.
IsKnot(dep, R) == /\ R # {}
                  /\ \A n \in R : DepSet(dep, n) \cap R # {}

HasCycle(dep) == \E R \in SUBSET DOMAIN dep : IsKnot(dep, R)

\* Every stage map over the given names whose dependency lists are of a given set.
StageMaps(names, lists) == UNION {[D -> lists] : D \in SUBSET names}

\* The stage map after stage n with dependencies ds was added.
WithStage(dep, n, ds) ==
    [m \in DOMAIN dep \cup {n} |-> IF m = n THEN ds ELSE dep[m]]
================================================================================
