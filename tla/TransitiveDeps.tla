---------------------------- MODULE TransitiveDeps ----------------------------
(***************************************************************************)
(* TransitiveDeps of internal/pipeline/dag.go: a depth-first walk over the *)
(* dependencies of one stage.  It is called on any stage map, also on one  *)
(* that topoSort would refuse: nothing checks for cycles or for unknown    *)
(* names first.  The recursion of walk is a stack of frames, each with its *)
(* node and the position of its loop over the node's dependencies.         *)
(***************************************************************************)
EXTENDS StageGraph

CONSTANTS Names, DepLists

VARIABLES dep, name,     \* the arguments
          stack,         \* the bottom frame is TransitiveDeps' own loop
          visited, result,
          err            \* "none", "notfound" or "unknown"

vars == <<dep, name, stack, visited, result, err>>

\* The frame of TransitiveDeps itself, unless the stage is not registered.
FirstFrames(n) == IF n \in DOMAIN dep THEN <<[node |-> n, next |-> 1]>> ELSE <<>>
FirstError(n)  == IF n \in DOMAIN dep THEN "none" ELSE "notfound"

Init ==
    /\ dep \in StageMaps(Names, DepLists)
    /\ name \in Names
    /\ visited = {}
    /\ result = <<>>
    /\ stack = FirstFrames(name)
    /\ err = FirstError(name)

Top == stack[Len(stack)]
Below == SubSeq(stack, 1, Len(stack) - 1)
Callee == dep[Top.node][Top.next]
InLoop == stack # <<>> /\ Top.next <= Len(dep[Top.node])
Advanced == Append(Below, [Top EXCEPT !.next = @ + 1])

\* Mutant: the loop does not advance past a visited dependency.
SkipVisitedStays ==
    /\ InLoop
    /\ Callee \in visited
    /\ UNCHANGED vars

\* walk(Callee) returns at once: it was visited before.
SkipVisited ==
    /\ InLoop
    /\ Callee \in visited
    /\ stack' = Advanced
    /\ UNCHANGED <<dep, name, visited, result, err>>

\* walk(Callee) finds no such stage; every walk on the stack returns the error.
MeetUnknown ==
    /\ InLoop
    /\ Callee \notin visited
    /\ Callee \notin DOMAIN dep
    /\ visited' = visited \cup {Callee}
    /\ stack' = <<>>
    /\ err' = "unknown"
    /\ UNCHANGED <<dep, name, result>>

Descend ==
    /\ InLoop
    /\ Callee \notin visited
    /\ Callee \in DOMAIN dep
    /\ visited' = visited \cup {Callee}
    /\ stack' = Append(Advanced, [node |-> Callee, next |-> 1])
    /\ UNCHANGED <<dep, name, result, err>>

\* Mutant: the stage asked about is appended as well.
LeaveWithRoot ==
    /\ stack # <<>>
    /\ ~ InLoop
    /\ stack' = Below
    /\ result' = Append(result, Top.node)
    /\ UNCHANGED <<dep, name, visited, err>>

\* Mutant: the result is built from its end.
LeavePrepending ==
    /\ stack # <<>>
    /\ ~ InLoop
    /\ stack' = Below
    /\ result' = IF Len(stack) = 1 THEN result ELSE <<Top.node>> \o result
    /\ UNCHANGED <<dep, name, visited, err>>

\* A loop is over: walk appends its node, TransitiveDeps itself does not.
Leave ==
    /\ stack # <<>>
    /\ ~ InLoop
    /\ stack' = Below
    /\ result' = IF Len(stack) = 1 THEN result ELSE Append(result, Top.node)
    /\ UNCHANGED <<dep, name, visited, err>>

Step == SkipVisited \/ MeetUnknown \/ Descend \/ Leave

Spec == Init /\ [][Step]_vars /\ WF_vars(Step)

-------------------------------------------------------------------------------
(* Properties *)

Mentioned == DOMAIN dep \cup UNION {DepSet(dep, n) : n \in DOMAIN dep}

\* The names that can be reached from n: those in every set that has the
\* dependencies of n and, with a registered name, its dependencies.
Reach(n) ==
    {m \in Mentioned :
       \A C \in SUBSET Mentioned :
          /\ DepSet(dep, n) \subseteq C
          /\ \A c \in C \cap DOMAIN dep : DepSet(dep, c) \subseteq C
          => m \in C}

Returned == stack = <<>>

\* The walk fails exactly when it can reach an unregistered name, however many
\* visited stages and cycles lie on the way; otherwise the result lists exactly
\* the stages that can be reached, each once: a stage on a cycle is listed among
\* its own dependencies, any other is not.
ResultIsReach ==
    Returned /\ err # "notfound" =>
        IF Reach(name) \subseteq DOMAIN dep
        THEN /\ err = "none"
             /\ Listed(result) = Reach(name)
             /\ Cardinality(Listed(result)) = Len(result)
        ELSE err = "unknown"

\* Unless the walk meets a cycle, dependencies come before their dependents.
DependenciesBefore ==
    Returned /\ err = "none" /\ ~ HasCycle([n \in Reach(name) |-> dep[n]]) =>
        \A i \in 1..Len(result) : DepSet(dep, result[i]) \subseteq Before(result, i)
===============================================================================
