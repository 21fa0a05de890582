------------------------------- MODULE DagCalls -------------------------------
(***************************************************************************)
(* The calls a program makes on one map of stages with the functions of    *)
(* internal/pipeline/dag.go: Levels, with its call of topoSort, and then   *)
(* TransitiveDeps of any stage; or TransitiveDeps alone, also on a map     *)
(* that Levels would refuse.                                               *)
(***************************************************************************)
EXTENDS StageLevels

VARIABLES name, stack, visited, found, err    \* of the call of TransitiveDeps

walkVars == <<name, stack, visited, found, err>>

Walk == INSTANCE TransitiveDeps WITH result <- found

CallsInit ==
    /\ LevelsInit
    /\ name = 0 /\ stack = <<>> /\ visited = {} /\ found = <<>>
    /\ err = "uncalled"

CallLevels == err = "uncalled" /\ LevelsNext /\ UNCHANGED walkVars

NotCalled == pc = "count" /\ unvisited = DOMAIN dep
LevelsReturned == result \in {"cycle", "unknown"} \/ LevelsDone

CallTransitiveDeps(n) ==
    /\ err = "uncalled"
    /\ NotCalled \/ LevelsDone
    /\ name' = n
    /\ stack' = Walk!FirstFrames(n)
    /\ err' = Walk!FirstError(n)
    /\ UNCHANGED <<levelsVars, visited, found>>

WalkOn == Walk!Step /\ UNCHANGED levelsVars

Idle == Walk!Returned /\ (NotCalled \/ LevelsReturned)

Stop == Idle /\ UNCHANGED <<levelsVars, walkVars>>

CallsNext ==
    \/ CallLevels
    \/ \E n \in Names : CallTransitiveDeps(n)
    \/ WalkOn
    \/ Stop

\* The calls are sequential code that nothing blocks.
CallsSpec ==
    /\ CallsInit /\ [][CallsNext]_<<levelsVars, walkVars>>
    /\ WF_levelsVars(CallLevels) /\ WF_walkVars(WalkOn)

-------------------------------------------------------------------------------
(* Properties *)

Called == err # "uncalled"

\* TransitiveDeps fails exactly when it can reach an unregistered name, however
\* many visited stages and cycles lie on the way, and lists otherwise exactly the
\* stages that can be reached, each once.
ResultIsReach == Called => Walk!ResultIsReach

LevelOf(n) == CHOOSE k \in DOMAIN levels : On(n, k)

\* Unless the walk meets a cycle, dependencies come before their dependents, as
\* in the order of topoSort; and all of them are on levels before the stage's.
DependenciesBefore ==
    Called =>
        /\ Walk!DependenciesBefore
        /\ levels # <<>> /\ Walk!Returned /\ err = "none" =>
              \A d \in Listed(found) : LevelOf(d) < LevelOf(name)

\* Every call returns, that of topoSort on a cyclic graph and the walk around a
\* cycle too, where nothing but visited stops it.
CallsReturn == []<>Idle
===============================================================================
