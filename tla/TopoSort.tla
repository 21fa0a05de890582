------------------------------- MODULE TopoSort -------------------------------
(***************************************************************************)
(* topoSort of internal/pipeline/dag.go, the function behind Resolve,      *)
(* ValidateDeps and Levels, one step per loop iteration.  The two loops    *)
(* that range over a Go map take their stages in any order.                *)
(*                                                                         *)
(* outEdges[d] holds one element <<n, i>> for every append of n to         *)
(* outEdges[d] in the code, i being the position of d in the dependency    *)
(* list of n: the slice lists these in an order that depends on the map    *)
(* iteration, so that the relaxation loop below takes them in any order.   *)
(* The queue is sorted before each pop, so its own order is never used.    *)
(***************************************************************************)
EXTENDS StageGraph, Integers

CONSTANTS Names,       \* the names stages may be registered under
          DepLists     \* the dependency lists stages may return

ASSUME NamesAssumption == Names \subseteq Nat /\ IsFiniteSet(Names)
ASSUME DepListsAssumption == DepLists \subseteq Seq(Nat)

VARIABLES dep,         \* the stages argument
          pc,          \* "count", "pop", "relax" or "done"
          unvisited,   \* stages the edge-counting range has not reached
          inDegree, outEdges,
          queue, order,
          todo,        \* edges of the popped node still to be relaxed
          result       \* "none", "ok", "cycle" or "unknown"

vars == <<dep, pc, unvisited, inDegree, outEdges, queue, order, todo, result>>

\* The dependencies of n by position.
EdgesOf(n) == {<<n, i>> : i \in DOMAIN dep[n]}

Init ==
    /\ dep \in StageMaps(Names, DepLists)
    /\ pc = "count"
    /\ unvisited = DOMAIN dep
    /\ inDegree = [n \in DOMAIN dep |-> 0]
    /\ outEdges = [n \in DOMAIN dep |-> {}]
    /\ queue = {}
    /\ order = <<>>
    /\ todo = {}
    /\ result = "none"

\* One iteration of the edge-counting range: stage n only has known dependencies.
CountEdges(n) ==
    /\ pc = "count"
    /\ n \in unvisited
    /\ DepSet(dep, n) \subseteq DOMAIN dep
    /\ unvisited' = unvisited \ {n}
    /\ outEdges' = [d \in DOMAIN dep |->
                      outEdges[d] \cup {e \in EdgesOf(n) : dep[n][e[2]] = d}]
    /\ inDegree' = [inDegree EXCEPT ![n] = @ + Len(dep[n])]
    /\ UNCHANGED <<dep, pc, queue, order, todo, result>>

\* Mutant: a stage that names itself is refused like one that names a stranger.
RejectSelfToo(n) ==
    /\ pc = "count"
    /\ n \in unvisited
    /\ ~ DepSet(dep, n) \subseteq DOMAIN dep \ {n}
    /\ pc' = "done"
    /\ result' = "unknown"
    /\ UNCHANGED <<dep, unvisited, inDegree, outEdges, queue, order, todo>>

\* The same range meets a stage with an unregistered dependency and returns.
RejectUnknown(n) ==
    /\ pc = "count"
    /\ n \in unvisited
    /\ ~ DepSet(dep, n) \subseteq DOMAIN dep
    /\ pc' = "done"
    /\ result' = "unknown"
    /\ UNCHANGED <<dep, unvisited, inDegree, outEdges, queue, order, todo>>

Seed ==
    /\ pc = "count"
    /\ unvisited = {}
    /\ queue' = {n \in DOMAIN dep : inDegree[n] = 0}
    /\ pc' = "pop"
    /\ UNCHANGED <<dep, unvisited, inDegree, outEdges, order, todo, result>>

\* Mutant: the queue is not sorted.
PopAny ==
    /\ pc = "pop"
    /\ \E node \in queue :
         /\ queue' = queue \ {node}
         /\ order' = Append(order, node)
         /\ todo' = outEdges[node]
    /\ pc' = "relax"
    /\ UNCHANGED <<dep, unvisited, inDegree, outEdges, result>>

\* sort.Strings(queue), then take the head.
Pop ==
    /\ pc = "pop"
    /\ \E node \in queue :
         /\ \A m \in queue : node <= m
         /\ queue' = queue \ {node}
         /\ order' = Append(order, node)
         /\ todo' = outEdges[node]
    /\ pc' = "relax"
    /\ UNCHANGED <<dep, unvisited, inDegree, outEdges, result>>

\* One iteration over outEdges[node].
Relax(e) ==
    /\ pc = "relax"
    /\ e \in todo
    /\ todo' = todo \ {e}
    /\ inDegree' = [inDegree EXCEPT ![e[1]] = @ - 1]
    /\ queue' = IF inDegree'[e[1]] = 0 THEN queue \cup {e[1]} ELSE queue
    /\ UNCHANGED <<dep, pc, unvisited, outEdges, order, result>>

EndRelax ==
    /\ pc = "relax"
    /\ todo = {}
    /\ pc' = "pop"
    /\ UNCHANGED <<dep, unvisited, inDegree, outEdges, queue, order, todo, result>>

\* Mutant: a pipeline without stages is taken for a cycle.
FinishEmptyIsCycle ==
    /\ pc = "pop"
    /\ queue = {}
    /\ pc' = "done"
    /\ result' = IF order # <<>> /\ Len(order) = Cardinality(DOMAIN dep) THEN "ok" ELSE "cycle"
    /\ UNCHANGED <<dep, unvisited, inDegree, outEdges, queue, order, todo>>

\* The queue is empty: the order is complete, or there is a cycle.
Finish ==
    /\ pc = "pop"
    /\ queue = {}
    /\ pc' = "done"
    /\ result' = IF Len(order) = Cardinality(DOMAIN dep) THEN "ok" ELSE "cycle"
    /\ UNCHANGED <<dep, unvisited, inDegree, outEdges, queue, order, todo>>

Done == pc = "done" /\ UNCHANGED vars

Next ==
    \/ \E n \in Names : CountEdges(n) \/ RejectUnknown(n)
    \/ Seed
    \/ Pop
    \/ \E e \in todo : Relax(e)
    \/ EndRelax
    \/ Finish
    \/ Done

\* A function call that nothing blocks runs to its end.
Spec == Init /\ [][Next]_vars /\ WF_vars(Next /\ ~ Done)

-------------------------------------------------------------------------------
(* Properties *)

\* Every variable has its type; an in-degree is never negative.
TypeOK ==
    /\ DOMAIN dep \subseteq Names
    /\ dep \in [DOMAIN dep -> DepLists]
    /\ pc \in {"count", "pop", "relax", "done"}
    /\ unvisited \subseteq DOMAIN dep
    /\ inDegree \in [DOMAIN dep -> Nat]
    /\ DOMAIN outEdges = DOMAIN dep
    /\ \A d \in DOMAIN dep : outEdges[d] \subseteq UNION {EdgesOf(n) : n \in DOMAIN dep}
    /\ queue \subseteq DOMAIN dep
    /\ order \in Seq(DOMAIN dep)
    /\ todo \subseteq UNION {EdgesOf(n) : n \in DOMAIN dep}
    /\ result \in {"none", "ok", "cycle", "unknown"}

\* At the head of the Kahn loop the queue holds the stages that are not in
\* the order yet and whose dependencies all are: a repeated dependency neither
\* delays a stage for ever nor queues it twice.
QueueHoldsReadyStages ==
    pc = "pop" => queue = Ready(dep, Listed(order))

\* A nil error comes with the order that picks the smallest ready name at each
\* position.  It is a function of the stage map: two calls on the same stages
\* return the same order although both range over maps in an order of their own.
OrderIsCanonical == result = "ok" => IsKahnOrder(dep, order)

\* ErrCycle is returned for stages on a cycle and for no other reason, a
\* repeated dependency or a diamond included; no cyclic graph is given an order.
CycleVerdictExact ==
    /\ result = "cycle" => HasCycle(dep)
    /\ result = "ok" => ~ HasCycle(dep)

\* A reference to an unregistered stage is always reported as such, also when
\* the graph has a cycle besides.
UnknownVerdictExact ==
    result # "none" => (result = "unknown" <=> ~ AllKnown(dep))
===============================================================================
