----------------------------- MODULE StageLevels -----------------------------
(***************************************************************************)
(* Levels of internal/pipeline/dag.go: the call of topoSort, the depth of  *)
(* every stage, computed along the order that was returned, and the stages *)
(* grouped by depth.                                                       *)
(***************************************************************************)
EXTENDS TopoSort

VARIABLES at,        \* position of the loop along the order
          depth,     \* the depth map so far
          levels     \* the result: a sequence of levels, from 0 in the code

locals == <<at, depth, levels>>
levelsVars == <<vars, locals>>

LevelsInit ==
    /\ Init
    /\ at = 1
    /\ depth = [n \in {} |-> 0]
    /\ levels = <<>>

\* The call of topoSort; an error of it is returned as it is.
CallTopoSort == Next /\ UNCHANGED locals

\* A name that is not in the map yet reads as 0.
DepthOf(d) == IF d \in DOMAIN depth THEN depth[d] ELSE 0

\* Mutant: only the last dependency is looked at.
LastDep(n) == IF dep[n] = <<>> THEN -1 ELSE DepthOf(dep[n][Len(dep[n])])

MaxDep(n) == CHOOSE k \in {-1} \cup {DepthOf(d) : d \in DepSet(dep, n)} :
               \A d \in DepSet(dep, n) : DepthOf(d) <= k

SetDepth ==
    /\ result = "ok"
    /\ levels = <<>>
    /\ at <= Len(order)
    /\ depth' = [n \in DOMAIN depth \cup {order[at]} |->
                   IF n = order[at] THEN MaxDep(order[at]) + 1 ELSE depth[n]]
    /\ at' = at + 1
    /\ UNCHANGED <<vars, levels>>

\* maxLevel starts at 0: there is a level even when there is no stage.
MaxLevel == CHOOSE k \in {0} \cup {depth[n] : n \in DOMAIN depth} :
              \A n \in DOMAIN depth : depth[n] <= k

\* make: a level without stages for every depth up to the largest.
MakeLevels ==
    /\ result = "ok"
    /\ at > Len(order)
    /\ levels = <<>>
    /\ levels' = [k \in 1..(MaxLevel + 1) |-> <<>>]
    /\ at' = 1
    /\ UNCHANGED <<vars, depth>>

\* One iteration of the second loop along the order.
Place ==
    /\ levels # <<>>
    /\ at <= Len(order)
    /\ levels' = [levels EXCEPT ![depth[order[at]] + 1] = Append(@, order[at])]
    /\ at' = at + 1
    /\ UNCHANGED <<vars, depth>>

LevelsNext == CallTopoSort \/ SetDepth \/ MakeLevels \/ Place

\* The levels are returned.
LevelsDone == levels # <<>> /\ at > Len(order)

-------------------------------------------------------------------------------
(* Properties *)

On(n, k) == \E j \in DOMAIN levels[k] : levels[k][j] = n

\* The levels can be run one after the other, the stages of each at once, and as
\* early as possible: every stage is on exactly one level, all its dependencies
\* are on levels before it, and one of them on the level just before.
LevelsExact ==
    LevelsDone =>
        \A n \in DOMAIN dep : \E k \in DOMAIN levels :
            /\ \A j \in DOMAIN levels : On(n, j) <=> j = k
            /\ \A d \in DepSet(dep, n) : \E j \in 1..(k - 1) : On(d, j)
            /\ k > 1 => \E d \in DepSet(dep, n) : On(d, k - 1)
===============================================================================
