---------------------------- MODULE DagCallsProofs ----------------------------
(***************************************************************************)
(* What topoSort, Levels and TransitiveDeps return, on every map of        *)
(* stages: cyclic ones and ones with unregistered names included.          *)
(*                                                                         *)
(* topoSort: the inductive invariant says what the counters count.  An     *)
(* in-degree is the number of dependency positions that are still pending: *)
(* their stage is not in the order, or it is the stage popped last and the *)
(* relaxation loop has not come to the edge yet.  The queue holds the      *)
(* stages that have no pending position and are not in the order.          *)
(*                                                                         *)
(* The depths of Levels are the least that grow along the dependencies, so *)
(* that what can be reached is on levels before.                           *)
(*                                                                         *)
(* TransitiveDeps: what was visited is, at any time, what has been listed  *)
(* and what the frames above the bottom one are about, each once.  A loop  *)
(* has visited the dependencies before its position; a name is listed when *)
(* its loop is over, so that the dependencies of what is listed were       *)
(* visited.  At the end there are no frames, and what was visited is       *)
(* closed.  The frames are a path: a dependency of what is left that is    *)
(* not listed yet is on the stack, and what is above it goes around a      *)
(* cycle.                                                                  *)
(***************************************************************************)
EXTENDS DagCalls, Integers, FiniteSetTheorems, WellFoundedInduction, SequenceTheorems, TLAPS

-------------------------------------------------------------------------------
(* Stage graphs and their greedy orders *)

\* A nonempty set of natural numbers has a least element.
LEMMA NatMinimum ==
    ASSUME NEW S, S \subseteq Nat, S # {}
    PROVE  \E x \in S : \A y \in S : x <= y
  <1>1. \E x \in S : \A y \in S : ~ (<<y, x>> \in OpToRel(<, Nat))
    BY NatLessThanWellFounded, WFMin
  <1>2. PICK x \in S : \A y \in S : ~ (<<y, x>> \in OpToRel(<, Nat))
    BY <1>1
  <1>3. ASSUME NEW y \in S PROVE x <= y
    <2>1. x \in Nat /\ y \in Nat
      OBVIOUS
    <2>2. ~ (<<y, x>> \in {ss \in Nat \X Nat : ss[1] < ss[2]})
      BY <1>2, Zenon DEF OpToRel
    <2> QED
      BY <2>1, <2>2
  <1> QED
    BY <1>3

\* A greedy order of all the stages is a topological order: what Resolve stores
\* can be executed from left to right.
LEMMA KahnIsTopo ==
    ASSUME NEW g, NEW o, o \in Seq(Nat), IsKahnOrder(g, o)
    PROVE  IsTopoOrder(g, o)
  <1>1. ASSUME NEW i \in 1..Len(o)
        PROVE  /\ o[i] \in DOMAIN g
               /\ o[i] \notin Before(o, i)
               /\ DepSet(g, o[i]) \subseteq Before(o, i)
    BY DEF IsKahnOrder, IsKahnPrefix, Ready
  <1>2. ASSUME NEW i \in 1..Len(o), NEW j \in 1..Len(o), o[i] = o[j]
        PROVE  i = j
    <2>1. ~ (i < j)
      BY <1>1, <1>2 DEF Before
    <2>2. ~ (j < i)
      BY <1>1, <1>2 DEF Before
    <2> QED
      BY <2>1, <2>2
  <1> QED
    BY <1>1, <1>2 DEF IsTopoOrder, IsClosedOrder, IsKahnOrder

\* Stages that can be put in order contain no cycle.
LEMMA TopoHasNoCycle ==
    ASSUME NEW g, NEW o, o \in Seq(Nat), IsTopoOrder(g, o)
    PROVE  ~ HasCycle(g)
  <1> SUFFICES ASSUME NEW R \in SUBSET DOMAIN g, IsKnot(g, R)
               PROVE  FALSE
    BY DEF HasCycle
  <1> DEFINE I == {i \in 1..Len(o) : o[i] \in R}
  <1>1. I \subseteq Nat /\ I # {}
    <2>1. PICK n \in R : TRUE
      BY DEF IsKnot
    <2>2. n \in Listed(o)
      BY DEF IsTopoOrder
    <2> QED
      BY <2>2 DEF Listed
  <1>2. PICK i \in I : \A j \in I : i <= j
    BY <1>1, NatMinimum
  <1>3. PICK d \in R : d \in DepSet(g, o[i])
    BY DEF IsKnot
  <1>4. d \in Before(o, i)
    BY <1>3 DEF IsTopoOrder, IsClosedOrder
  <1>5. PICK j \in 1..(i - 1) : d = o[j]
    BY <1>4 DEF Before
  <1> QED
    BY <1>2, <1>5

\* The order depends on the stage map only: two Kahn orders of it are equal.
THEOREM KahnOrderUnique ==
    ASSUME NEW g, NEW o, NEW p, o \in Seq(Nat), p \in Seq(Nat),
           IsKahnOrder(g, o), IsKahnOrder(g, p)
    PROVE  o = p
  <1>1. /\ \A i, j \in 1..Len(o) : o[i] = o[j] => i = j
        /\ \A i, j \in 1..Len(p) : p[i] = p[j] => i = j
        /\ Listed(o) = Listed(p)
    BY KahnIsTopo DEF IsTopoOrder, IsClosedOrder, IsKahnOrder
  <1> DEFINE D == {i \in 1..Len(o) : i > Len(p) \/ o[i] # p[i]}
  <1>2. D = {}
    <2> SUFFICES ASSUME D # {} PROVE FALSE
      OBVIOUS
    <2>1. D \subseteq Nat
      OBVIOUS
    <2>2. PICK i \in D : \A j \in D : i <= j
      BY <2>1, NatMinimum
    <2>3. \A j \in 1..(i - 1) : j <= Len(p) /\ o[j] = p[j]
      BY <2>2
    <2>4. Len(o) \in Nat /\ Len(p) \in Nat /\ i \in 1..Len(o)
      OBVIOUS
    <2>5. i <= Len(p)
      <3> SUFFICES ASSUME i > Len(p) PROVE FALSE
        BY <2>4
      <3>1. o[i] \in Listed(p)
        BY <1>1, <2>4 DEF Listed
      <3>2. PICK j \in 1..Len(p) : o[i] = p[j]
        BY <3>1 DEF Listed
      <3>3. j \in 1..(i - 1) /\ j \in 1..Len(o)
        BY <2>4
      <3>4. o[j] = o[i] /\ j # i
        BY <2>3, <3>2, <3>3
      <3> QED
        BY <1>1, <2>4, <3>3, <3>4
    <2>6. Before(o, i) = Before(p, i)
      BY <2>3 DEF Before
    <2>7. i \in 1..Len(p) /\ o[i] \in Nat /\ p[i] \in Nat
      BY <2>4, <2>5
    <2>8. o[i] <= p[i] /\ p[i] <= o[i]
      BY <2>4, <2>6, <2>7 DEF IsKahnOrder, IsKahnPrefix
    <2> QED
      BY <2>2, <2>5, <2>7, <2>8
  <1>3. Len(o) \in Nat /\ Len(p) \in Nat
    OBVIOUS
  <1>4. \A i \in 1..Len(o) : i <= Len(p) /\ o[i] = p[i]
    BY <1>2, <1>3
  <1>5. Len(o) = Len(p)
    <2> SUFFICES ASSUME Len(o) # Len(p) PROVE FALSE
      OBVIOUS
    <2>1. Len(o) < Len(p)
      BY <1>3, <1>4
    <2>2. p[Len(p)] \in Listed(o)
      <3>1. Len(p) \in 1..Len(p)
        BY <1>3, <2>1
      <3>2. p[Len(p)] \in Listed(p)
        BY <3>1 DEF Listed
      <3> QED
        BY <1>1, <3>2
    <2>3. PICK j \in 1..Len(o) : p[Len(p)] = o[j]
      BY <2>2 DEF Listed
    <2> QED
      BY <1>1, <1>3, <1>4, <2>1, <2>3
  <1> QED
    BY <1>4, <1>5, SeqEqual

-------------------------------------------------------------------------------
(* topoSort *)

Pending(n) == {i \in DOMAIN dep[n] :
                 dep[n][i] \notin Listed(order) \/ <<n, i>> \in todo}

\* All the edges of the stages of S, by the stage they come from.
EdgesFrom(S, d) == UNION {{e \in EdgesOf(n) : dep[n][e[2]] = d} : n \in S}

\* While edges are counted: the visited stages have all their edges recorded.
Counting ==
    pc = "count" =>
        /\ order = <<>> /\ queue = {} /\ todo = {} /\ result = "none"
        /\ \A n \in DOMAIN dep :
             inDegree[n] = IF n \in unvisited THEN 0 ELSE Len(dep[n])
        /\ \A n \in DOMAIN dep \ unvisited : DepSet(dep, n) \subseteq DOMAIN dep
        /\ \A d \in DOMAIN dep :
             outEdges[d] = EdgesFrom(DOMAIN dep \ unvisited, d)

\* In the Kahn loop: the counters agree with the order.
Looping ==
    pc \in {"pop", "relax"} =>
        /\ result = "none"
        /\ AllKnown(dep)
        /\ \A d \in DOMAIN dep :
             outEdges[d] = EdgesFrom(DOMAIN dep, d)
        /\ \A n \in DOMAIN dep : inDegree[n] = Cardinality(Pending(n))
        /\ queue = {n \in DOMAIN dep \ Listed(order) : Pending(n) = {}}
        /\ IsKahnPrefix(dep, order)
        /\ IsFiniteSet(Listed(order))
        /\ Cardinality(Listed(order)) = Len(order)
        /\ pc = "pop" => todo = {}
        /\ pc = "relax" => Len(order) > 0 /\ todo \subseteq outEdges[order[Len(order)]]

\* What a result says about the stages.
Returned ==
    pc = "done" =>
        /\ result = "ok" => IsKahnOrder(dep, order) /\ AllKnown(dep)
        /\ result = "cycle" => HasCycle(dep) /\ AllKnown(dep)
        /\ result = "unknown" => ~ AllKnown(dep)
        /\ result # "none"

IInv == TypeOK /\ Counting /\ Looping /\ Returned /\ (pc # "done" => result = "none")

-------------------------------------------------------------------------------
(* Lemmas *)

\* The lists a stage may return are sequences of names.
LEMMA DepIsSeq ==
    ASSUME TypeOK, NEW n \in DOMAIN dep
    PROVE  dep[n] \in Seq(Nat)
  BY DepListsAssumption DEF TypeOK

\* The pending positions of a stage can be counted.
LEMMA PendingFinite ==
    ASSUME TypeOK, NEW n \in DOMAIN dep
    PROVE  /\ IsFiniteSet(Pending(n))
           /\ Cardinality(Pending(n)) \in Nat
           /\ Cardinality(Pending(n)) = 0 <=> Pending(n) = {}
  <1>1. dep[n] \in Seq(Nat)
    BY DepIsSeq
  <1>2. Pending(n) \in SUBSET (1..Len(dep[n])) /\ Len(dep[n]) \in Nat
    BY <1>1 DEF Pending
  <1>3. IsFiniteSet(1..Len(dep[n]))
    BY <1>2, FS_Interval
  <1>4. IsFiniteSet(Pending(n))
    BY <1>2, <1>3, FS_Subset
  <1> QED
    BY <1>4, FS_CardinalityType, FS_EmptySet

\* At the head of the loop the queue is the set of ready stages.
LEMMA QueueIsReady ==
    ASSUME IInv, pc = "pop"
    PROVE  queue = Ready(dep, Listed(order))
  <1>1. \A n \in DOMAIN dep :
           Pending(n) = {} <=> DepSet(dep, n) \subseteq Listed(order)
    <2> TAKE n \in DOMAIN dep
    <2>1. todo = {}
      BY DEF IInv, Looping
    <2>2. Pending(n) = {i \in DOMAIN dep[n] : dep[n][i] \notin Listed(order)}
      BY <2>1 DEF Pending
    <2> QED
      BY <2>2 DEF DepSet
  <1>2. queue = {n \in DOMAIN dep \ Listed(order) : Pending(n) = {}}
    BY DEF IInv, Looping
  <1> QED
    BY <1>1, <1>2 DEF Ready

LEMMA InitIInv == Init => IInv
  <1> SUFFICES ASSUME Init PROVE IInv
    OBVIOUS
  <1>1. DOMAIN dep \subseteq Names /\ dep \in [DOMAIN dep -> DepLists]
    BY DEF Init, StageMaps
  <1>2. TypeOK
    BY <1>1 DEF Init, TypeOK
  <1>3. Counting
    BY <1>1 DEF Init, Counting, EdgesFrom
  <1>4. Looping /\ Returned
    BY DEF Init, Looping, Returned
  <1> QED
    BY <1>2, <1>3, <1>4 DEF IInv, Init
-------------------------------------------------------------------------------
(* The steps *)

LEMMA CountEdgesStep ==
    ASSUME IInv, NEW n \in Names, CountEdges(n)
    PROVE  IInv'
  <1> USE DEF CountEdges
  <1>1. dep[n] \in Seq(Nat) /\ Len(dep[n]) \in Nat /\ n \in DOMAIN dep
    BY DepIsSeq DEF IInv, TypeOK
  <1>2. Counting
    BY DEF IInv
  <1>3. inDegree[n] = 0
    BY <1>1, <1>2 DEF Counting
  <1>4. TypeOK'
    <2>1. /\ inDegree' \in [DOMAIN dep -> Nat]
          /\ DOMAIN outEdges' = DOMAIN dep
      BY <1>1, <1>3 DEF IInv, TypeOK
    <2>2. \A d \in DOMAIN dep :
             outEdges'[d] \subseteq UNION {EdgesOf(m) : m \in DOMAIN dep}
      BY <1>1 DEF IInv, TypeOK
    <2> QED
      BY <2>1, <2>2 DEF IInv, TypeOK, EdgesOf
  <1>5. Counting'
    <2>1. \A m \in DOMAIN dep :
             inDegree'[m] = IF m \in unvisited' THEN 0 ELSE Len(dep[m])
      BY <1>1, <1>2, <1>3 DEF Counting, IInv, TypeOK
    <2>2. \A m \in DOMAIN dep \ unvisited' : DepSet(dep, m) \subseteq DOMAIN dep
      BY <1>2 DEF Counting
    <2>3. \A d \in DOMAIN dep :
             outEdges'[d] = EdgesFrom(DOMAIN dep \ unvisited, d)
                              \cup {e \in EdgesOf(n) : dep[n][e[2]] = d}
      BY <1>2 DEF Counting
    <2>4. DOMAIN dep \ unvisited' = (DOMAIN dep \ unvisited) \cup {n}
      BY <1>1
    <2>5. \A d \in DOMAIN dep :
             outEdges'[d] = EdgesFrom(DOMAIN dep \ unvisited', d)
      BY <2>3, <2>4 DEF EdgesFrom
    <2> QED
      BY <1>2, <2>1, <2>2, <2>5 DEF Counting, EdgesFrom, EdgesOf
  <1>6. Looping' /\ Returned' /\ (pc' # "done" => result' = "none")
    BY <1>2 DEF IInv, Looping, Returned, Counting
  <1> QED
    BY <1>4, <1>5, <1>6 DEF IInv

LEMMA SeedStep ==
    ASSUME IInv, Seed
    PROVE  IInv'
  <1> USE DEF Seed
  <1>1. Counting /\ TypeOK
    BY DEF IInv
  <1>2. order = <<>> /\ todo = {} /\ result = "none" /\ Listed(order) = {}
    BY <1>1 DEF Counting, Listed
  <1>3. ASSUME NEW n \in DOMAIN dep
        PROVE  /\ Pending(n) = 1..Len(dep[n])
               /\ inDegree[n] = Len(dep[n])
               /\ Len(dep[n]) \in Nat
    BY <1>1, <1>2, DepIsSeq DEF Pending, Counting
  <1>4. TypeOK'
    BY <1>1 DEF TypeOK, EdgesOf
  <1>5. Looping'
    <2>1. AllKnown(dep)
      BY <1>1 DEF Counting, AllKnown
    <2>2. \A n \in DOMAIN dep : inDegree[n] = Cardinality(Pending(n))
      <3> TAKE n \in DOMAIN dep
      <3>1. Len(dep[n]) \in Nat
        BY <1>3
      <3>2. \A k \in Nat : Cardinality(1..k) = k
        BY FS_Interval
      <3> QED
        BY <1>3, <3>1, <3>2
    <2>3. queue' = {n \in DOMAIN dep \ Listed(order) : Pending(n) = {}}
      <3>1. \A k \in Nat : k = 0 <=> 1..k = {}
        OBVIOUS
      <3>2. \A n \in DOMAIN dep : inDegree[n] = 0 <=> Pending(n) = {}
        BY <1>3, <3>1
      <3> QED
        BY <1>2, <3>2
    <2>4. IsKahnPrefix(dep, order) /\ Len(order) = 0
      BY <1>2 DEF IsKahnPrefix
    <2>5. \A d \in DOMAIN dep : outEdges[d] = EdgesFrom(DOMAIN dep, d)
      BY <1>1 DEF Counting
    <2>6. /\ \A n : Pending(n)' = Pending(n)
          /\ \A d : EdgesFrom(DOMAIN dep, d)' = EdgesFrom(DOMAIN dep, d)
      BY DEF Pending, EdgesFrom, EdgesOf
    <2> QED
      BY <1>2, <2>1, <2>2, <2>3, <2>4, <2>5, <2>6, FS_EmptySet DEF Looping
  <1>6. Counting' /\ Returned' /\ (pc' # "done" => result' = "none")
    BY <1>2 DEF Counting, Returned
  <1> QED
    BY <1>4, <1>5, <1>6 DEF IInv

\* Appending a name to an order lists it last.
LEMMA AppendListed ==
    ASSUME NEW S, NEW o \in Seq(S), NEW x \in S
    PROVE  /\ Append(o, x) \in Seq(S)
           /\ Len(Append(o, x)) = Len(o) + 1
           /\ Append(o, x)[Len(o) + 1] = x
           /\ \A i \in 1..Len(o) : /\ Append(o, x)[i] = o[i]
                                   /\ Before(Append(o, x), i) = Before(o, i)
           /\ Before(Append(o, x), Len(o) + 1) = Listed(o)
           /\ Listed(Append(o, x)) = Listed(o) \cup {x}
  <1>1. /\ Append(o, x) \in Seq(S)
        /\ Len(Append(o, x)) = Len(o) + 1
        /\ Append(o, x)[Len(o) + 1] = x
        /\ Len(o) \in Nat
        /\ \A i \in 1..Len(o) : Append(o, x)[i] = o[i]
    OBVIOUS
  <1>2. \A i \in 1..Len(o) : Before(Append(o, x), i) = Before(o, i)
    BY <1>1 DEF Before
  <1>3. Before(Append(o, x), Len(o) + 1) = Listed(o)
    BY <1>1 DEF Before, Listed
  <1>4. 1..Len(Append(o, x)) = 1..Len(o) \cup {Len(o) + 1}
    BY <1>1
  <1>5. Listed(Append(o, x)) = Listed(o) \cup {x}
    BY <1>1, <1>4 DEF Listed
  <1> QED
    BY <1>1, <1>2, <1>3, <1>5

LEMMA PopStep ==
    ASSUME IInv, Pop
    PROVE  IInv'
  <1> USE DEF Pop
  <1>1. PICK node \in queue : /\ \A m \in queue : node <= m
                             /\ queue' = queue \ {node}
                             /\ order' = Append(order, node)
                             /\ todo' = outEdges[node]
    OBVIOUS
  <1>2. Looping /\ TypeOK /\ result = "none"
    BY DEF IInv
  <1>3. queue = Ready(dep, Listed(order))
    BY QueueIsReady
  <1>4. node \in DOMAIN dep /\ node \notin Listed(order) /\ order \in Seq(DOMAIN dep)
    BY <1>2, <1>3 DEF Ready, TypeOK
  <1>5. /\ Len(order') = Len(order) + 1 /\ Len(order) \in Nat
        /\ order' \in Seq(DOMAIN dep)
        /\ order'[Len(order')] = node
        /\ \A i \in 1..Len(order) : /\ order'[i] = order[i]
                                  /\ Before(order', i) = Before(order, i)
        /\ Before(order', Len(order')) = Listed(order)
        /\ Listed(order') = Listed(order) \cup {node}
    BY <1>1, <1>4, AppendListed
  <1>6. todo = {} /\ todo' = EdgesFrom(DOMAIN dep, node)
    BY <1>1, <1>2, <1>4 DEF Looping
  <1>7. \A n \in DOMAIN dep : Pending(n)' = Pending(n)
    <2> TAKE n \in DOMAIN dep
    <2>1. ASSUME NEW i \in DOMAIN dep[n], dep[n][i] = node
          PROVE  <<n, i>> \in todo' /\ dep[n][i] \notin Listed(order)
      <3>1. <<n, i>> \in EdgesOf(n) /\ <<n, i>>[2] = i
        BY DEF EdgesOf
      <3> QED
        BY <1>4, <1>6, <2>1, <3>1 DEF EdgesFrom
    <2>2. ASSUME NEW i \in DOMAIN dep[n], dep[n][i] # node
          PROVE  <<n, i>> \notin todo'
      BY <1>6, <2>2 DEF EdgesFrom, EdgesOf
    <2>3. \A i \in DOMAIN dep[n] :
             (dep[n][i] \notin Listed(order) \/ <<n, i>> \in todo)
               <=> (dep[n][i] \notin Listed(order') \/ <<n, i>> \in todo')
      BY <1>5, <1>6, <2>1, <2>2
    <2> QED
      BY <2>3 DEF Pending
  <1>8. TypeOK'
    <2>1. todo' \subseteq UNION {EdgesOf(n) : n \in DOMAIN dep}
      BY <1>1, <1>2, <1>4 DEF TypeOK
    <2> QED
      BY <1>1, <1>2, <1>5, <2>1 DEF TypeOK, EdgesOf
  <1>9. Looping'
    <2>1. AllKnown(dep) /\ \A n \in DOMAIN dep : inDegree[n] = Cardinality(Pending(n)')
      BY <1>2, <1>7 DEF Looping
    <2>2. queue' = {n \in DOMAIN dep \ Listed(order') : Pending(n)' = {}}
      BY <1>1, <1>2, <1>5, <1>7 DEF Looping
    <2>3. IsKahnPrefix(dep, order')
      <3>1. \A i \in 1..Len(order) :
               /\ order'[i] \in Ready(dep, Before(order', i))
               /\ \A m \in Ready(dep, Before(order', i)) : order'[i] <= m
        BY <1>2, <1>5 DEF Looping, IsKahnPrefix
      <3>2. /\ order'[Len(order')] \in Ready(dep, Before(order', Len(order')))
            /\ \A m \in Ready(dep, Before(order', Len(order'))) :
                 order'[Len(order')] <= m
        BY <1>1, <1>3, <1>5
      <3>3. 1..Len(order') = 1..Len(order) \cup {Len(order')}
        BY <1>5
      <3> QED
        BY <3>1, <3>2, <3>3 DEF IsKahnPrefix
    <2>4. IsFiniteSet(Listed(order')) /\ Cardinality(Listed(order')) = Len(order')
      <3>1. IsFiniteSet(Listed(order)) /\ Cardinality(Listed(order)) = Len(order)
        BY <1>2 DEF Looping
      <3>2. /\ IsFiniteSet(Listed(order) \cup {node})
            /\ Cardinality(Listed(order) \cup {node}) = Cardinality(Listed(order)) + 1
        BY <1>4, <3>1, FS_AddElement
      <3> QED
        BY <1>5, <3>1, <3>2
    <2>5. \A d \in DOMAIN dep : outEdges[d] = EdgesFrom(DOMAIN dep, d)
      BY <1>2 DEF Looping
    <2>6. todo' \subseteq outEdges[order'[Len(order')]] /\ Len(order') > 0
      BY <1>1, <1>5
    <2>7. \A d : EdgesFrom(DOMAIN dep, d)' = EdgesFrom(DOMAIN dep, d)
      BY DEF EdgesFrom, EdgesOf
    <2> QED
      BY <1>2, <2>1, <2>2, <2>3, <2>4, <2>5, <2>6, <2>7 DEF Looping
  <1>10. Counting' /\ Returned' /\ (pc' # "done" => result' = "none")
    BY <1>2 DEF Counting, Returned
  <1> QED
    BY <1>8, <1>9, <1>10 DEF IInv
LEMMA RelaxStep ==
    ASSUME IInv, NEW e \in todo, Relax(e)
    PROVE  IInv'
  <1> USE DEF Relax
  <1>1. Looping /\ TypeOK /\ result = "none"
    BY DEF IInv
  <1> DEFINE last == order[Len(order)]
  <1>2. /\ Len(order) \in 1..Len(order)
        /\ last \in DOMAIN dep
        /\ e \in EdgesFrom(DOMAIN dep, last)
    <2>1. Len(order) > 0 /\ todo \subseteq outEdges[last] /\ order \in Seq(DOMAIN dep)
      BY <1>1 DEF Looping, TypeOK
    <2>2. Len(order) \in 1..Len(order) /\ last \in DOMAIN dep
      BY <2>1
    <2> QED
      BY <1>1, <2>1, <2>2 DEF Looping
  <1>3. PICK n \in DOMAIN dep : e \in EdgesOf(n) /\ dep[n][e[2]] = last
    BY <1>2 DEF EdgesFrom
  <1>4. PICK i \in DOMAIN dep[n] : e = <<n, i>>
    BY <1>3 DEF EdgesOf
  <1>5. e[1] = n /\ e[2] = i /\ dep[n][i] = last
    BY <1>3, <1>4
  <1>6. n \notin Listed(order)
    <2> SUFFICES ASSUME n \in Listed(order) PROVE FALSE
      OBVIOUS
    <2>1. PICK k \in 1..Len(order) : order[k] = n
      BY DEF Listed
    <2>2. last \in Before(order, k)
      BY <1>1, <1>5, <2>1 DEF Looping, IsKahnPrefix, Ready, DepSet
    <2>3. last \in Before(order, Len(order))
      BY <1>2, <2>2 DEF Before
    <2> QED
      BY <1>1, <1>2, <2>3 DEF Looping, IsKahnPrefix, Ready
  <1>7. Pending(n)' = Pending(n) \ {i} /\ i \in Pending(n)
    <2>1. i \in Pending(n)
      BY <1>4 DEF Pending
    <2>2. i \notin Pending(n)'
      BY <1>2, <1>4, <1>5 DEF Pending, Listed
    <2>3. \A j \in DOMAIN dep[n] \ {i} : <<n, j>> \in todo' <=> <<n, j>> \in todo
      BY <1>4
    <2> QED
      BY <2>1, <2>2, <2>3 DEF Pending
  <1>8. \A m \in DOMAIN dep \ {n} : Pending(m)' = Pending(m)
    BY <1>4 DEF Pending
  <1>9. /\ inDegree'[n] = Cardinality(Pending(n)')
        /\ inDegree'[n] \in Nat
        /\ inDegree'[n] = 0 <=> Pending(n)' = {}
    <2>1. IsFiniteSet(Pending(n)) /\ Cardinality(Pending(n)) \in Nat
      BY <1>1, PendingFinite
    <2>2. /\ IsFiniteSet(Pending(n) \ {i})
          /\ Cardinality(Pending(n) \ {i}) = Cardinality(Pending(n)) - 1
      BY <1>7, <2>1, FS_RemoveElement
    <2>3. /\ Cardinality(Pending(n) \ {i}) \in Nat
          /\ Cardinality(Pending(n) \ {i}) = 0 <=> Pending(n) \ {i} = {}
      BY <2>2, FS_CardinalityType, FS_EmptySet
    <2>4. inDegree'[n] = inDegree[n] - 1 /\ inDegree[n] = Cardinality(Pending(n))
      BY <1>1, <1>5 DEF Looping, TypeOK
    <2> QED
      BY <1>7, <2>2, <2>3, <2>4
  <1>10. \A m \in DOMAIN dep \ {n} : inDegree'[m] = inDegree[m]
    BY <1>1, <1>5 DEF TypeOK
  <1>11. TypeOK'
    <2>1. inDegree' \in [DOMAIN dep -> Nat]
      BY <1>1, <1>5, <1>9, <1>10 DEF TypeOK
    <2>2. queue' \subseteq DOMAIN dep
      BY <1>1, <1>5 DEF TypeOK
    <2> QED
      BY <1>1, <2>1, <2>2 DEF TypeOK, EdgesOf
  <1>12. Looping'
    <2>1. \A m \in DOMAIN dep : inDegree'[m] = Cardinality(Pending(m)')
      BY <1>1, <1>8, <1>9, <1>10 DEF Looping
    <2>2. queue' = {m \in DOMAIN dep \ Listed(order) : Pending(m)' = {}}
      <3>1. queue = {m \in DOMAIN dep \ Listed(order) : Pending(m) = {}}
        BY <1>1 DEF Looping
      <3>2. n \notin queue
        BY <1>7, <3>1
      <3>3. queue' = IF Pending(n)' = {} THEN queue \cup {n} ELSE queue
        BY <1>5, <1>9
      <3> QED
        BY <1>6, <1>8, <3>1, <3>2, <3>3
    <2>3. \A d : EdgesFrom(DOMAIN dep, d)' = EdgesFrom(DOMAIN dep, d)
      BY DEF EdgesFrom, EdgesOf
    <2> QED
      BY <1>1, <2>1, <2>2, <2>3 DEF Looping
  <1>13. Counting' /\ Returned' /\ (pc' # "done" => result' = "none")
    BY <1>1 DEF Counting, Returned
  <1> QED
    BY <1>11, <1>12, <1>13 DEF IInv

LEMMA FinishStep ==
    ASSUME IInv, Finish
    PROVE  IInv'
  <1> USE DEF Finish
  <1>1. Looping /\ TypeOK
    BY DEF IInv
  <1>2. Ready(dep, Listed(order)) = {}
    BY QueueIsReady
  <1>3. AllKnown(dep) /\ IsKahnPrefix(dep, order)
    BY <1>1 DEF Looping
  <1>4. Listed(order) \subseteq DOMAIN dep
    BY <1>1 DEF TypeOK, Listed
  <1>5. CASE Len(order) = Cardinality(DOMAIN dep)
    <2>1. IsFiniteSet(DOMAIN dep)
      BY <1>1, NamesAssumption, FS_Subset DEF TypeOK
    <2>2. Listed(order) = DOMAIN dep
      BY <1>1, <1>4, <1>5, <2>1, FS_Subset DEF Looping
    <2>3. IsKahnOrder(dep, order)
      BY <1>3, <2>2 DEF IsKahnOrder
    <2> QED
      BY <1>1, <1>3, <1>5, <2>3
      DEF IInv, TypeOK, Counting, Looping, Returned, EdgesOf, AllKnown, DepSet, IsKahnOrder
  <1>6. CASE Len(order) # Cardinality(DOMAIN dep)
    <2> DEFINE R == DOMAIN dep \ Listed(order)
    <2>1. R # {}
      <3> SUFFICES ASSUME R = {} PROVE FALSE
        OBVIOUS
      <3>1. Listed(order) = DOMAIN dep
        BY <1>4
      <3> QED
        BY <1>1, <1>6, <3>1 DEF Looping
    <2>2. \A n \in R : DepSet(dep, n) \cap R # {}
      BY <1>2, <1>3 DEF Ready, AllKnown
    <2>3. HasCycle(dep)
      BY <2>1, <2>2 DEF HasCycle, IsKnot
    <2> QED
      BY <1>1, <1>3, <1>6, <2>3
      DEF IInv, TypeOK, Counting, Looping, Returned, EdgesOf
  <1> QED
    BY <1>5, <1>6

LEMMA NextIInv == IInv /\ [Next]_vars => IInv'
  <1> SUFFICES ASSUME IInv, [Next]_vars PROVE IInv'
    OBVIOUS
  <1>1. ASSUME NEW n \in Names, CountEdges(n) PROVE IInv'
    BY <1>1, CountEdgesStep
  <1>2. ASSUME NEW n \in Names, RejectUnknown(n) PROVE IInv'
    <2>1. ~ AllKnown(dep)
      BY <1>2 DEF RejectUnknown, AllKnown, IInv, TypeOK
    <2> QED
      BY <1>2, <2>1
      DEF RejectUnknown, IInv, TypeOK, Counting, Looping, Returned, EdgesOf
  <1>3. CASE Seed
    BY <1>3, SeedStep
  <1>4. CASE Pop
    BY <1>4, PopStep
  <1>5. ASSUME NEW e \in todo, Relax(e) PROVE IInv'
    BY <1>5, RelaxStep
  <1>6. CASE EndRelax
    <2>1. \A n : Pending(n)' = Pending(n)
      BY <1>6 DEF EndRelax, Pending
    <2>2. \A d : EdgesFrom(DOMAIN dep, d)' = EdgesFrom(DOMAIN dep, d)
      BY <1>6 DEF EndRelax, EdgesFrom, EdgesOf
    <2> QED
      BY <1>6, <2>1, <2>2
      DEF EndRelax, IInv, TypeOK, Counting, Looping, Returned, EdgesOf
  <1>7. CASE Finish
    BY <1>7, FinishStep
  <1>8. CASE UNCHANGED vars
    <2>1. \A n : Pending(n)' = Pending(n)
      BY <1>8 DEF vars, Pending
    <2>2. \A S, d : EdgesFrom(S, d)' = EdgesFrom(S', d)
      BY <1>8 DEF vars, EdgesFrom, EdgesOf
    <2> QED
      BY <1>8, <2>1, <2>2
      DEF vars, IInv, TypeOK, Counting, Looping, Returned, EdgesOf, EdgesFrom
  <1> QED
    BY <1>1, <1>2, <1>3, <1>4, <1>5, <1>6, <1>7, <1>8 DEF Next, Done

THEOREM SpecIInv == Spec => []IInv
  BY InitIInv, NextIInv, PTL DEF Spec

-------------------------------------------------------------------------------
(* The results *)

\* Every variable of a topoSort call keeps its type: no in-degree goes below 0.
THEOREM TypeCorrect == Spec => []TypeOK
  <1>1. IInv => TypeOK
    BY DEF IInv
  <1> QED
    BY <1>1, SpecIInv, PTL

\* The queue of the Kahn loop is the set of ready stages, whatever the stages.
THEOREM QueueCorrect == Spec => []QueueHoldsReadyStages
  <1>1. IInv => QueueHoldsReadyStages
    BY QueueIsReady DEF QueueHoldsReadyStages
  <1> QED
    BY <1>1, SpecIInv, PTL

\* What the invariant says of a result.
LEMMA Verdicts == IInv => OrderIsCanonical /\ CycleVerdictExact /\ UnknownVerdictExact
  <1> SUFFICES ASSUME IInv PROVE OrderIsCanonical /\ CycleVerdictExact /\ UnknownVerdictExact
    OBVIOUS
  <1>1. ASSUME result = "ok" PROVE IsKahnOrder(dep, order)
    BY <1>1 DEF IInv, Returned
  <1>2. ASSUME result = "ok" PROVE ~ HasCycle(dep)
    <2>1. order \in Seq(Nat)
      BY NamesAssumption, SeqMonotonic DEF IInv, TypeOK
    <2> QED
      BY <1>1, <1>2, <2>1, KahnIsTopo, TopoHasNoCycle
  <1>3. result = "cycle" => HasCycle(dep)
    BY DEF IInv, Returned
  <1>4. UnknownVerdictExact
    BY DEF IInv, Returned, TypeOK, UnknownVerdictExact
  <1> QED
    BY <1>1, <1>2, <1>3, <1>4 DEF OrderIsCanonical, CycleVerdictExact

\* An order topoSort returns without error is the Kahn order of its stages; by
\* KahnOrderUnique two calls on the same stages return the same one.
THEOREM OrderCorrect == Spec => []OrderIsCanonical
  BY Verdicts, SpecIInv, PTL

\* ErrCycle is returned for cyclic stages only, and never missed.
THEOREM CycleCorrect == Spec => []CycleVerdictExact
  BY Verdicts, SpecIInv, PTL

\* The unknown-stage error is returned exactly when a dependency is unregistered.
THEOREM UnknownCorrect == Spec => []UnknownVerdictExact
  BY Verdicts, SpecIInv, PTL

-------------------------------------------------------------------------------
(* TransitiveDeps *)

Frame == [node : DOMAIN dep, next : Nat \ {0}]

\* The stages whose walk is under way.
Open == {stack[k].node : k \in 2..Len(stack)}

WalkTyped ==
    /\ DOMAIN dep \subseteq Nat /\ \A n \in DOMAIN dep : dep[n] \in Seq(Nat)
    /\ stack \in Seq(Frame)
    /\ found \in Seq(Nat)
    /\ err \in {"uncalled", "none", "notfound", "unknown"}
    /\ err = "uncalled" => visited = {} /\ found = <<>>
    /\ err # "none" => stack = <<>>
    /\ err \in {"none", "unknown"} => name \in DOMAIN dep

\* The frames: the loop of TransitiveDeps below those of walk.
Framed ==
    /\ stack # <<>> => stack[1].node = name
    /\ \A k \in 1..Len(stack) : \A i \in DOMAIN dep[stack[k].node] :
          i < stack[k].next => dep[stack[k].node][i] \in visited
    /\ \A k, l \in 2..Len(stack) : stack[k].node = stack[l].node => k = l

\* The list.
Collected ==
    /\ visited = Open \cup Listed(found) /\ Open \cap Listed(found) = {}
    /\ \A v \in Listed(found) : DepSet(dep, v) \subseteq visited
    /\ \A i, j \in 1..Len(found) : found[i] = found[j] => i = j
    /\ stack = <<>> => DepSet(dep, name) \subseteq visited

WalkInv ==
    /\ WalkTyped
    /\ err = "none" => /\ Framed /\ Collected
                       /\ visited \subseteq DOMAIN dep /\ visited \subseteq Walk!Reach(name)
    /\ err = "unknown" => ~ (Walk!Reach(name) \subseteq DOMAIN dep)

-------------------------------------------------------------------------------
(* What can be reached *)

\* The names that can be reached are closed under dependencies.
LEMMA ReachIsClosed ==
    ASSUME name \in DOMAIN dep
    PROVE  /\ DepSet(dep, name) \subseteq Walk!Reach(name)
           /\ \A n \in DOMAIN dep \cap Walk!Reach(name) : DepSet(dep, n) \subseteq Walk!Reach(name)
<1>1. \A n \in DOMAIN dep : DepSet(dep, n) \subseteq Walk!Mentioned
  BY DEF Walk!Mentioned, DepSet, Walk!DepSet
<1>2. DepSet(dep, name) \subseteq Walk!Reach(name)
  BY <1>1 DEF Walk!Reach, DepSet, Walk!DepSet
<1>3. ASSUME NEW n \in DOMAIN dep \cap Walk!Reach(name), NEW d \in DepSet(dep, n)
      PROVE  d \in Walk!Reach(name)
  <2>1. d \in Walk!Mentioned
    BY <1>1
  <2>2. ASSUME NEW C \in SUBSET Walk!Mentioned,
               DepSet(dep, name) \subseteq C,
               \A c \in C \cap DOMAIN dep : DepSet(dep, c) \subseteq C
        PROVE  d \in C
    <3>1. n \in C
      BY <2>2 DEF Walk!Reach, DepSet, Walk!DepSet
    <3> QED
      BY <2>2, <3>1
  <2> QED
    BY <2>1, <2>2 DEF Walk!Reach, DepSet, Walk!DepSet
<1> QED
  BY <1>2, <1>3

\* They are in every set that is.
LEMMA ReachIsLeast ==
    ASSUME NEW C \in SUBSET DOMAIN dep,
           DepSet(dep, name) \subseteq C,
           \A c \in C : DepSet(dep, c) \subseteq C
    PROVE  Walk!Reach(name) \subseteq C
<1>1. C \in SUBSET Walk!Mentioned
  BY DEF Walk!Mentioned
<1> QED
  BY <1>1 DEF Walk!Reach, DepSet, Walk!DepSet

-------------------------------------------------------------------------------
(* The stack *)

LEMMA StackShape ==
    ASSUME WalkTyped, stack # <<>>
    PROVE  /\ Len(stack) \in Nat /\ Len(stack) >= 1
           /\ \A k \in 1..Len(stack) : stack[k].node \in DOMAIN dep /\ stack[k].next \in Nat \ {0}
           /\ Walk!Top = stack[Len(stack)] /\ Walk!Top \in Frame
           /\ Walk!Below \in Seq(Frame) /\ Len(Walk!Below) = Len(stack) - 1
           /\ \A k \in 1..(Len(stack) - 1) : Walk!Below[k] = stack[k]
<1>1. Len(stack) \in Nat /\ Len(stack) >= 1
  BY EmptySeq, LenProperties DEF WalkTyped
<1>2. \A k \in 1..Len(stack) : stack[k] \in Frame
  BY ElementOfSeq DEF WalkTyped
<1>3. /\ Walk!Below \in Seq(Frame) /\ Len(Walk!Below) = Len(stack) - 1
      /\ \A k \in 1..(Len(stack) - 1) : Walk!Below[k] = stack[k]
  <2> DEFINE n == Len(stack) - 1
             r == SubSeq(stack, 1, n)
  <2>1. n \in Nat /\ \A k \in 1..n : stack[k] \in Frame
    BY <1>1, <1>2
  <2> HIDE DEF n
  <2>2. /\ r \in Seq(Frame)
        /\ Len(r) = IF 1 <= n THEN n - 1 + 1 ELSE 0
        /\ \A k \in 1..(n - 1 + 1) : r[k] = stack[1 + k - 1]
    BY <2>1, SubSeqProperties
  <2> HIDE DEF r
  <2>3. Len(r) = n
    BY <2>1, <2>2
  <2>4. ASSUME NEW k \in 1..n
        PROVE  r[k] = stack[k]
    <3>1. k \in 1..(n - 1 + 1) /\ 1 + k - 1 = k
      BY <2>1
    <3> QED
      BY <2>2, <3>1
  <2> QED
    BY <2>2, <2>3, <2>4 DEF n, r, Walk!Below
<1>4. Walk!Top = stack[Len(stack)] /\ Walk!Top \in Frame
  BY <1>1, <1>2 DEF Walk!Top
<1> QED
  BY <1>1, <1>2, <1>3, <1>4 DEF Frame

\* The innermost loop advances by one dependency.
Advances(s) ==
    /\ s \in Seq(Frame) /\ Len(s) = Len(stack)
    /\ \A k \in 1..(Len(stack) - 1) : s[k] = stack[k]
    /\ s[Len(stack)] = [node |-> Walk!Top.node, next |-> Walk!Top.next + 1]

LEMMA AdvancedShape ==
    ASSUME WalkTyped, stack # <<>>
    PROVE  Advances(Walk!Advanced)
<1> DEFINE n == Len(stack)
           b == Walk!Below
           t == [Walk!Top EXCEPT !.next = @ + 1]
<1>1. /\ n \in Nat /\ n >= 1 /\ Walk!Top \in Frame
      /\ b \in Seq(Frame) /\ Len(b) = n - 1
      /\ \A k \in 1..(n - 1) : b[k] = stack[k]
  BY StackShape
<1>2. t \in Frame /\ t = [node |-> Walk!Top.node, next |-> Walk!Top.next + 1]
  BY <1>1 DEF Frame
<1> HIDE DEF n, b, t
<1>3. /\ Append(b, t) \in Seq(Frame)
      /\ Len(Append(b, t)) = Len(b) + 1
      /\ \A k \in 1..Len(b) : Append(b, t)[k] = b[k]
      /\ Append(b, t)[Len(b) + 1] = t
  BY <1>1, <1>2, AppendProperties
<1>4. Walk!Advanced = Append(b, t)
  BY DEF Walk!Advanced, b, t
<1> QED
  BY <1>1, <1>2, <1>3, <1>4 DEF Advances, n

\* After a loop has advanced past a dependency that was visited, it is still so
\* that all before its position were.
LEMMA AdvanceKeepsFrames ==
    ASSUME WalkTyped, Framed, Walk!InLoop, NEW s, Advances(s),
           NEW V, visited \subseteq V, Walk!Callee \in V
    PROVE  /\ \A k \in 1..Len(stack) : s[k].node = stack[k].node
           /\ \A k \in 1..Len(stack) : \A i \in DOMAIN dep[s[k].node] :
                 i < s[k].next => dep[s[k].node][i] \in V
<1>1. stack # <<>>
  BY DEF Walk!InLoop
<1>2. /\ Len(stack) \in Nat /\ Len(stack) >= 1
      /\ \A k \in 1..Len(stack) : stack[k].node \in DOMAIN dep /\ stack[k].next \in Nat \ {0}
      /\ Walk!Top = stack[Len(stack)]
  BY <1>1, StackShape
<1>3. ASSUME NEW k \in 1..Len(stack)
      PROVE  /\ s[k].node = stack[k].node
             /\ \A i \in DOMAIN dep[s[k].node] : i < s[k].next => dep[s[k].node][i] \in V
  <2>1. CASE k = Len(stack)
    <3>1. s[k].node = stack[k].node /\ s[k].next = stack[k].next + 1
      BY <1>2, <2>1 DEF Advances
    <3>2. ASSUME NEW i \in DOMAIN dep[stack[k].node], i < stack[k].next + 1
          PROVE  dep[stack[k].node][i] \in V
      <4>1. i \in Nat
        BY <1>2, LenProperties DEF WalkTyped
      <4>2. CASE i < stack[k].next
        BY <4>2 DEF Framed
      <4>3. CASE i = stack[k].next
        BY <1>2, <2>1, <4>3 DEF Walk!Callee
      <4> QED
        BY <1>2, <3>2, <4>1, <4>2, <4>3
    <3> QED
      BY <3>1, <3>2
  <2>2. CASE k # Len(stack)
    <3>1. s[k] = stack[k]
      BY <1>2, <2>2 DEF Advances
    <3> QED
      BY <3>1 DEF Framed
  <2> QED
    BY <2>1, <2>2
<1> QED
  BY <1>3

-------------------------------------------------------------------------------
(* The walk *)

LEMMA WalkingIs ==
    ASSUME WalkInv, stack # <<>>
    PROVE  /\ err = "none" /\ name \in DOMAIN dep
           /\ WalkTyped /\ Framed /\ Collected
           /\ visited \subseteq DOMAIN dep /\ visited \subseteq Walk!Reach(name)
BY DEF WalkInv, WalkTyped

\* What a loop comes to is a dependency of its node.
LEMMA CalleeIsDependency ==
    ASSUME WalkInv, Walk!InLoop
    PROVE  Walk!Callee \in DepSet(dep, stack[Len(stack)].node) /\ Walk!Callee \in Nat
<1>1. stack # <<>>
  BY DEF Walk!InLoop
<1> DEFINE n == Len(stack)
<1>2. /\ n \in Nat /\ n >= 1
      /\ stack[n].node \in DOMAIN dep /\ stack[n].next \in Nat \ {0}
      /\ Walk!Top = stack[n]
  BY <1>1, WalkingIs, StackShape
<1>3. dep[stack[n].node] \in Seq(Nat)
  BY <1>1, <1>2, WalkingIs DEF WalkTyped
<1>4. stack[n].next \in 1..Len(dep[stack[n].node])
  BY <1>2, <1>3, LenProperties DEF Walk!InLoop
<1>5. DOMAIN dep[stack[n].node] = 1..Len(dep[stack[n].node])
  BY <1>3, LenProperties
<1>6. Walk!Callee = dep[stack[n].node][stack[n].next]
  BY <1>2 DEF Walk!Callee
<1> QED
  BY <1>3, <1>4, <1>5, <1>6, ElementOfSeq DEF DepSet

\* It can be reached.
LEMMA CalleeIsReached ==
    ASSUME WalkInv, Walk!InLoop
    PROVE  Walk!Callee \in Walk!Reach(name) /\ Walk!Callee \in Nat
<1>1. stack # <<>>
  BY DEF Walk!InLoop
<1> DEFINE n == Len(stack)
<1>2. n \in Nat /\ n >= 1 /\ stack[n].node \in DOMAIN dep
  BY <1>1, WalkingIs, StackShape
<1>3. Walk!Callee \in DepSet(dep, stack[n].node) /\ Walk!Callee \in Nat
  BY CalleeIsDependency
<1>4. CASE n = 1
  <2>1. stack[n].node = name
    BY <1>1, <1>4, WalkingIs DEF Framed
  <2> QED
    BY <1>1, <1>3, <2>1, WalkingIs, ReachIsClosed
<1>5. CASE n # 1
  <2>1. stack[n].node \in Open
    <3>1. n \in 2..n
      <4>1. n \in Nat /\ n >= 1 /\ n # 1
        BY <1>2, <1>5
      <4> HIDE DEF n
      <4> QED
        BY <4>1
    <3> QED
      BY <3>1 DEF Open
  <2>2. stack[n].node \in Walk!Reach(name)
    BY <1>1, <2>1, WalkingIs DEF Collected
  <2> QED
    BY <1>1, <1>2, <1>3, <2>2, WalkingIs, ReachIsClosed
<1> QED
  BY <1>4, <1>5

LEMMA SkipKeepsInv ==
    ASSUME WalkInv, Walk!SkipVisited
    PROVE  WalkInv'
<1>1. /\ Walk!InLoop /\ stack # <<>> /\ Walk!Callee \in visited
      /\ stack' = Walk!Advanced /\ UNCHANGED <<dep, name, visited, found, err>>
  BY DEF Walk!SkipVisited, Walk!InLoop
<1>2. /\ err = "none" /\ name \in DOMAIN dep /\ WalkTyped /\ Framed /\ Collected
      /\ visited \subseteq DOMAIN dep /\ visited \subseteq Walk!Reach(name)
  BY <1>1, WalkingIs
<1>3. Len(stack) \in Nat /\ Len(stack) >= 1
  BY <1>1, <1>2, StackShape
<1>4. Advances(stack')
  BY <1>1, <1>2, AdvancedShape
<1>5. /\ \A k \in 1..Len(stack) : stack'[k].node = stack[k].node
      /\ \A k \in 1..Len(stack) : \A i \in DOMAIN dep[stack'[k].node] :
            i < stack'[k].next => dep[stack'[k].node][i] \in visited
  BY <1>1, <1>2, <1>4, AdvanceKeepsFrames
<1>6. stack' \in Seq(Frame) /\ Len(stack') = Len(stack) /\ stack' # <<>>
  <2>1. stack' \in Seq(Frame) /\ Len(stack') = Len(stack)
    BY <1>4 DEF Advances
  <2> QED
    BY <1>3, <2>1, EmptySeq
<1>7. WalkTyped'
  BY <1>1, <1>2, <1>6 DEF WalkTyped, Frame
<1>8. Framed'
  BY <1>1, <1>2, <1>3, <1>5, <1>6 DEF Framed
<1>9. Open' = Open
  BY <1>3, <1>5, <1>6 DEF Open
<1>10. Collected'
  BY <1>1, <1>2, <1>6, <1>9 DEF Collected
<1>11. (Walk!Reach(name))' = Walk!Reach(name)
  BY <1>1 DEF Walk!Reach, Walk!Mentioned
<1> QED
  BY <1>1, <1>2, <1>7, <1>8, <1>10, <1>11 DEF WalkInv

LEMMA UnknownKeepsInv ==
    ASSUME WalkInv, Walk!MeetUnknown
    PROVE  WalkInv'
<1>1. /\ Walk!InLoop /\ stack # <<>> /\ Walk!Callee \notin DOMAIN dep
      /\ stack' = <<>> /\ err' = "unknown" /\ UNCHANGED <<dep, name, found>>
  BY DEF Walk!MeetUnknown, Walk!InLoop
<1>2. err = "none" /\ name \in DOMAIN dep /\ WalkTyped
  BY <1>1, WalkingIs
<1>3. WalkTyped'
  BY <1>1, <1>2, EmptySeq DEF WalkTyped
<1>4. (Walk!Reach(name))' = Walk!Reach(name)
  BY <1>1 DEF Walk!Reach, Walk!Mentioned
<1> QED
  BY <1>1, <1>3, <1>4, CalleeIsReached DEF WalkInv

LEMMA DescendKeepsInv ==
    ASSUME WalkInv, Walk!Descend
    PROVE  WalkInv'
<1> DEFINE c == Walk!Callee
           n == Len(stack)
           a == Walk!Advanced
           new == [node |-> c, next |-> 1]
<1>1. /\ Walk!InLoop /\ stack # <<>> /\ c \notin visited /\ c \in DOMAIN dep
      /\ visited' = visited \cup {c}
      /\ stack' = Append(a, new) /\ UNCHANGED <<dep, name, found, err>>
  BY DEF Walk!Descend, Walk!InLoop
<1>2. /\ err = "none" /\ name \in DOMAIN dep /\ WalkTyped /\ Framed /\ Collected
      /\ visited \subseteq DOMAIN dep /\ visited \subseteq Walk!Reach(name)
  BY <1>1, WalkingIs
<1>3. n \in Nat /\ n >= 1
  BY <1>1, <1>2, StackShape
<1>4. Advances(a) /\ a \in Seq(Frame) /\ Len(a) = n
  BY <1>1, <1>2, AdvancedShape DEF Advances
<1>5. /\ \A k \in 1..n : a[k].node = stack[k].node
      /\ \A k \in 1..n : \A i \in DOMAIN dep[a[k].node] :
            i < a[k].next => dep[a[k].node][i] \in visited \cup {c}
  BY <1>1, <1>2, <1>4, AdvanceKeepsFrames
<1>6. new \in Frame /\ new.node = c /\ new.next = 1
  BY <1>1 DEF Frame
<1> HIDE DEF a, new, c, n
<1>7. /\ stack' \in Seq(Frame) /\ Len(stack') = n + 1 /\ stack' # <<>>
      /\ \A k \in 1..n : stack'[k] = a[k]
      /\ stack'[n + 1] = new
  BY <1>1, <1>4, <1>6, AppendProperties
<1>8. WalkTyped'
  BY <1>1, <1>2, <1>7 DEF WalkTyped, Frame
<1>9. ASSUME NEW k \in 1..(n + 1)
      PROVE  \/ k \in 1..n /\ stack'[k].node = stack[k].node
             \/ k = n + 1 /\ stack'[k].node = c
  <2>1. CASE k = n + 1
    BY <1>6, <1>7, <2>1
  <2>2. CASE k # n + 1
    <3>1. k \in 1..n
      BY <1>3, <2>2
    <3> QED
      BY <1>5, <1>7, <3>1
  <2> QED
    BY <2>1, <2>2
<1>10. Open' = Open \cup {c}
  <2>1. Open' = {stack'[k].node : k \in 2..(n + 1)} /\ Open = {stack[k].node : k \in 2..n}
    BY <1>7 DEF Open, n
  <2>2. \A k \in 2..n : k \in 2..(n + 1) /\ k # n + 1 /\ stack'[k].node = stack[k].node
    BY <1>3, <1>9
  <2>3. n + 1 \in 2..(n + 1) /\ stack'[n + 1].node = c
    BY <1>3, <1>6, <1>7
  <2>4. \A k \in 2..(n + 1) : k \in 2..n \/ k = n + 1
    BY <1>3
  <2> QED
    BY <2>1, <2>2, <2>3, <2>4
<1>11. \A k \in 2..n : stack[k].node # c
  BY <1>1, <1>2 DEF Collected, Open, n
<1>12. Framed'
  <2>1. stack'[1].node = name
    BY <1>1, <1>2, <1>3, <1>5, <1>7 DEF Framed
  <2>2. ASSUME NEW k \in 1..Len(stack'), NEW i \in DOMAIN dep[stack'[k].node], i < stack'[k].next
        PROVE  dep[stack'[k].node][i] \in visited'
    <3>1. CASE k = n + 1
      <4>1. stack'[k].node = c /\ stack'[k].next = 1
        BY <1>6, <1>7, <3>1
      <4>2. i \in Nat \ {0}
        BY <1>1, <1>2, <2>2, <4>1, LenProperties DEF WalkTyped
      <4> QED
        BY <2>2, <4>1, <4>2
    <3>2. CASE k # n + 1
      <4>1. k \in 1..n /\ stack'[k] = a[k]
        BY <1>3, <1>7, <3>2
      <4> QED
        BY <1>1, <1>5, <2>2, <4>1
    <3> QED
      BY <3>1, <3>2
  <2>3. ASSUME NEW k \in 2..Len(stack'), NEW l \in 2..Len(stack'), stack'[k].node = stack'[l].node
        PROVE  k = l
    <3>1. k \in 2..(n + 1) /\ l \in 2..(n + 1)
      BY <1>7
    <3>2. /\ (k \in 2..n /\ stack'[k].node = stack[k].node) \/ (k = n + 1 /\ stack'[k].node = c)
          /\ (l \in 2..n /\ stack'[l].node = stack[l].node) \/ (l = n + 1 /\ stack'[l].node = c)
      BY <1>3, <1>9, <3>1
    <3>3. \A p, q \in 2..n : stack[p].node = stack[q].node => p = q
      BY <1>2 DEF Framed, n
    <3> QED
      BY <1>11, <2>3, <3>2, <3>3
  <2> QED
    BY <1>1, <2>1, <2>2, <2>3 DEF Framed
<1>13. Collected'
  BY <1>1, <1>2, <1>7, <1>10 DEF Collected
<1>14. (Walk!Reach(name))' = Walk!Reach(name)
  BY <1>1 DEF Walk!Reach, Walk!Mentioned
<1>15. c \in Walk!Reach(name)
  BY <1>1, CalleeIsReached DEF c
<1> QED
  BY <1>1, <1>2, <1>8, <1>12, <1>13, <1>14, <1>15 DEF WalkInv

LEMMA LeaveKeepsInv ==
    ASSUME WalkInv, Walk!Leave
    PROVE  WalkInv'
<1> DEFINE n == Len(stack)
           c == Walk!Top.node
<1>1. /\ stack # <<>> /\ ~ Walk!InLoop
      /\ stack' = Walk!Below
      /\ found' = IF n = 1 THEN found ELSE Append(found, c)
      /\ UNCHANGED <<dep, name, visited, err>>
  BY DEF Walk!Leave
<1>2. /\ err = "none" /\ name \in DOMAIN dep /\ WalkTyped /\ Framed /\ Collected
      /\ visited \subseteq DOMAIN dep /\ visited \subseteq Walk!Reach(name)
  BY <1>1, WalkingIs
<1>3. /\ n \in Nat /\ n >= 1 /\ Walk!Top = stack[n]
      /\ c \in DOMAIN dep /\ stack[n].next \in Nat \ {0}
      /\ Walk!Below \in Seq(Frame) /\ Len(Walk!Below) = n - 1
      /\ \A k \in 1..(n - 1) : Walk!Below[k] = stack[k]
  BY <1>1, <1>2, StackShape
<1> HIDE DEF n, c
<1>4. DepSet(dep, c) \subseteq visited
  <2>1. dep[c] \in Seq(Nat) /\ c = stack[n].node
    BY <1>2, <1>3 DEF WalkTyped, c
  <2>2. ~ (stack[n].next <= Len(dep[c]))
    BY <1>1, <1>3, <2>1 DEF Walk!InLoop
  <2>3. ASSUME NEW i \in DOMAIN dep[c]
        PROVE  dep[c][i] \in visited
    <3>1. i \in 1..Len(dep[c]) /\ Len(dep[c]) \in Nat
      BY <2>1, LenProperties
    <3>2. i < stack[n].next
      BY <1>3, <2>2, <3>1
    <3>3. n \in 1..Len(stack)
      BY <1>3 DEF n
    <3> QED
      BY <1>2, <2>1, <3>2, <3>3 DEF Framed
  <2> QED
    BY <2>3 DEF DepSet
<1>5. Len(stack') = n - 1 /\ stack' \in Seq(Frame) /\ \A k \in 1..(n - 1) : stack'[k] = stack[k]
  BY <1>1, <1>3
<1>6. Framed'
  <2>1. stack' # <<>> => stack'[1].node = name
    <3>1. ASSUME stack' # <<>>
          PROVE  1 \in 1..(n - 1)
      BY <1>3, <1>5, <3>1, EmptySeq
    <3> QED
      BY <1>1, <1>2, <1>5, <3>1 DEF Framed
  <2>2. /\ \A k \in 1..(n - 1) : k \in 1..Len(stack)
        /\ \A k \in 2..(n - 1) : k \in 2..Len(stack) /\ k \in 1..(n - 1)
    BY <1>3 DEF n
  <2>3. \A k \in 1..(n - 1) : \A i \in DOMAIN dep[stack'[k].node] :
           i < stack'[k].next => dep[stack'[k].node][i] \in visited
    BY <1>2, <1>5, <2>2 DEF Framed
  <2>4. \A k, l \in 2..(n - 1) : stack'[k].node = stack'[l].node => k = l
    BY <1>2, <1>5, <2>2 DEF Framed
  <2> QED
    BY <1>1, <1>5, <2>1, <2>3, <2>4 DEF Framed
<1>7. Open = {stack[k].node : k \in 2..n} /\ Open' = {stack'[k].node : k \in 2..(n - 1)}
  BY <1>5 DEF Open, n
<1>8. Collected' /\ found' \in Seq(Nat)
  <2>1. CASE n = 1
    <3>1. found' = found /\ stack[n].node = name /\ c = name
      BY <1>1, <1>2, <1>3, <2>1 DEF Framed, c
    <3>2. Open = {} /\ Open' = {}
      BY <1>7, <2>1
    <3> QED
      BY <1>1, <1>2, <1>4, <3>1, <3>2 DEF Collected, WalkTyped
  <2>2. CASE n # 1
    <3>1. found' = Append(found, c) /\ found \in Seq(Nat) /\ c \in Nat
      BY <1>1, <1>2, <1>3, <2>2 DEF WalkTyped
    <3>2. /\ found' \in Seq(Nat) /\ Len(found') = Len(found) + 1 /\ Len(found) \in Nat
          /\ \A i \in 1..Len(found) : found'[i] = found[i]
          /\ found'[Len(found) + 1] = c
      BY <3>1, AppendProperties, LenProperties
    <3>3. Listed(found') = Listed(found) \cup {c}
      BY <3>2 DEF Listed
    <3>4. Open' = Open \ {c} /\ c \in Open
      <4>1. /\ n \in 2..n /\ \A k \in 2..n : k \in 2..(n - 1) \/ k = n
            /\ \A k \in 2..(n - 1) : k \in 2..n /\ k # n /\ k \in 1..(n - 1)
        BY <1>3, <2>2
      <4>2. \A k, l \in 2..n : stack[k].node = stack[l].node => k = l
        BY <1>2 DEF Framed, n
      <4>3. c = stack[n].node
        BY <1>3 DEF c
      <4>4. \A k \in 2..(n - 1) : stack'[k].node = stack[k].node
        BY <1>5, <4>1
      <4>5. Open' = {stack[k].node : k \in 2..(n - 1)}
        BY <1>7, <4>4
      <4>6. \A k \in 2..(n - 1) : stack[k].node \in Open /\ stack[k].node # c
        BY <1>7, <4>1, <4>2, <4>3
      <4>7. \A k \in 2..n : stack[k].node # c => stack[k].node \in Open'
        BY <4>1, <4>3, <4>5
      <4>8. c \in Open
        BY <1>7, <4>1, <4>3
      <4> QED
        <5>1. Open' \subseteq Open \ {c}
          BY <4>5, <4>6
        <5>2. Open \ {c} \subseteq Open'
          BY <1>7, <4>7
        <5> QED
          BY <4>8, <5>1, <5>2
    <3>5. stack' # <<>>
      BY <1>3, <1>5, <2>2, EmptySeq
    <3>6. c \notin Listed(found) /\ visited' = Open' \cup Listed(found') /\ Open' \cap Listed(found') = {}
      BY <1>1, <1>2, <3>3, <3>4 DEF Collected
    <3>7. \A v \in Listed(found') : DepSet(dep, v) \subseteq visited
      BY <1>2, <1>4, <3>3 DEF Collected
    <3>8. ASSUME NEW i \in 1..Len(found'), NEW j \in 1..Len(found'), found'[i] = found'[j]
          PROVE  i = j
      <4>1. /\ i \in 1..Len(found) \/ i = Len(found) + 1
            /\ j \in 1..Len(found) \/ j = Len(found) + 1
        BY <3>2
      <4>2. \A k \in 1..Len(found) : found[k] # c
        BY <3>6 DEF Listed
      <4> QED
        BY <1>2, <3>2, <3>8, <4>1, <4>2 DEF Collected
    <3> QED
      BY <1>1, <3>2, <3>5, <3>6, <3>7, <3>8 DEF Collected
  <2> QED
    BY <2>1, <2>2
<1>9. WalkTyped'
  BY <1>1, <1>2, <1>5, <1>8 DEF WalkTyped, Frame
<1>10. (Walk!Reach(name))' = Walk!Reach(name)
  BY <1>1 DEF Walk!Reach, Walk!Mentioned
<1> QED
  BY <1>1, <1>2, <1>6, <1>8, <1>9, <1>10 DEF WalkInv

-------------------------------------------------------------------------------
(* The calls *)

LEMMA CallKeepsInv ==
    ASSUME WalkInv, NEW n \in Names, CallTransitiveDeps(n)
    PROVE  WalkInv'
<1> DEFINE f == [node |-> n, next |-> 1]
<1>1. /\ err = "uncalled" /\ name' = n /\ UNCHANGED <<dep, visited, found>>
      /\ visited = {} /\ found = <<>>
      /\ stack' = IF n \in DOMAIN dep THEN <<f>> ELSE <<>>
      /\ err' = IF n \in DOMAIN dep THEN "none" ELSE "notfound"
  BY DEF CallTransitiveDeps, Walk!FirstFrames, Walk!FirstError, WalkInv, WalkTyped, levelsVars, vars
<1>2. CASE n \notin DOMAIN dep
  <2>1. stack' = <<>> /\ err' = "notfound"
    BY <1>1, <1>2
  <2>2. WalkTyped'
    BY <1>1, <2>1, EmptySeq DEF WalkInv, WalkTyped
  <2> QED
    BY <2>1, <2>2 DEF WalkInv
<1>3. CASE n \in DOMAIN dep
  <2>1. f \in Frame /\ f.node = n /\ f.next = 1
    BY <1>3 DEF Frame
  <2> HIDE DEF f
  <2>2. /\ stack' \in Seq(Frame) /\ Len(stack') = 1 /\ stack'[1] = f /\ stack' # <<>>
        /\ err' = "none"
    BY <1>1, <1>3, <2>1
  <2>3. WalkTyped'
    BY <1>1, <1>3, <2>2 DEF WalkInv, WalkTyped, Frame
  <2>4. Framed'
    <3>1. \A i \in DOMAIN dep[n] : ~ (i < 1)
      BY <1>3, LenProperties DEF WalkInv, WalkTyped
    <3>2. \A k \in 1..Len(stack') : k = 1 /\ stack'[k] = f
      BY <2>2
    <3>3. \A k \in 2..Len(stack') : FALSE
      BY <2>2
    <3> QED
      BY <1>1, <2>1, <2>2, <3>1, <3>2, <3>3 DEF Framed
  <2>5. Open' = {} /\ Listed(found') = {} /\ Len(found') = 0
    BY <1>1, <2>2 DEF Open, Listed
  <2>6. Collected'
    BY <1>1, <2>2, <2>5 DEF Collected
  <2> QED
    BY <1>1, <2>2, <2>3, <2>4, <2>6 DEF WalkInv
<1> QED
  BY <1>2, <1>3

LEMMA WalkInvInductive ==
    /\ CallsInit => WalkInv
    /\ WalkInv /\ [CallsNext]_<<levelsVars, walkVars>> => WalkInv'
<1>1. ASSUME CallsInit
      PROVE  WalkInv
  <2>1. DOMAIN dep \subseteq Nat /\ \A n \in DOMAIN dep : dep[n] \in Seq(Nat)
    BY <1>1, NamesAssumption, DepListsAssumption DEF CallsInit, LevelsInit, Init, StageMaps
  <2>2. stack = <<>> /\ found = <<>> /\ visited = {} /\ err = "uncalled"
    BY <1>1 DEF CallsInit
  <2> QED
    BY <2>1, <2>2, EmptySeq DEF WalkInv, WalkTyped
<1>2. ASSUME WalkInv, UNCHANGED <<dep, walkVars>>
      PROVE  WalkInv'
  <2> USE <1>2 DEF walkVars
  <2>1. WalkTyped' = WalkTyped
    BY DEF WalkTyped, Frame
  <2>2. Framed' = Framed /\ Collected' = Collected
    BY DEF Framed, Collected, Open
  <2>3. (Walk!Reach(name))' = Walk!Reach(name)
    BY DEF Walk!Reach, Walk!Mentioned
  <2> QED
    BY <2>1, <2>2, <2>3 DEF WalkInv
<1>3. ASSUME WalkInv, [CallsNext]_<<levelsVars, walkVars>>
      PROVE  WalkInv'
  <2> USE <1>3
  <2>1. CASE CallLevels
    <3>1. UNCHANGED dep
      BY <2>1 DEF CallLevels, LevelsNext, CallTopoSort, SetDepth, MakeLevels, Place, Next, CountEdges,
         RejectUnknown, Seed, Pop, Relax, EndRelax, Finish, Done, vars
    <3> QED
      BY <1>2, <2>1, <3>1 DEF CallLevels
  <2>2. ASSUME NEW n \in Names, CallTransitiveDeps(n)
        PROVE  WalkInv'
    BY <2>2, CallKeepsInv
  <2>3. CASE WalkOn
    BY <2>3, SkipKeepsInv, UnknownKeepsInv, DescendKeepsInv, LeaveKeepsInv DEF WalkOn, Walk!Step
  <2>4. CASE Stop \/ UNCHANGED <<levelsVars, walkVars>>
    <3>1. UNCHANGED <<dep, walkVars>>
      BY <2>4 DEF Stop, levelsVars, vars
    <3> QED
      BY <1>2, <3>1
  <2> QED
    BY <2>1, <2>2, <2>3, <2>4 DEF CallsNext
<1> QED
  BY <1>1, <1>3

LEMMA WalkInvExact == WalkInv => ResultIsReach
<1> SUFFICES ASSUME WalkInv, stack = <<>>, err \in {"none", "unknown"}
             PROVE  IF Walk!Reach(name) \subseteq DOMAIN dep
                    THEN /\ err = "none"
                         /\ Listed(found) = Walk!Reach(name)
                         /\ Cardinality(Listed(found)) = Len(found)
                    ELSE err = "unknown"
  <2>1. Walk!Cardinality(Listed(found)) = Cardinality(Listed(found))
    BY DEF Walk!Cardinality, Cardinality
  <2>2. Walk!Listed(found) = Listed(found)
    BY DEF Walk!Listed, Listed
  <2> QED
    BY <2>1, <2>2 DEF ResultIsReach, Walk!ResultIsReach, Called, Walk!Returned, WalkInv, WalkTyped
<1>1. CASE err = "unknown"
  BY <1>1 DEF WalkInv
<1>2. CASE err = "none"
  <2>1. Framed /\ Collected /\ visited \subseteq DOMAIN dep /\ visited \subseteq Walk!Reach(name)
    BY <1>2 DEF WalkInv
  <2>2. Open = {}
    <3>1. Len(stack) = 0
      OBVIOUS
    <3> QED
      BY <3>1 DEF Open
  <2>3. visited = Listed(found) /\ DepSet(dep, name) \subseteq visited
    BY <2>1, <2>2 DEF Collected
  <2>4. Walk!Reach(name) \subseteq visited
    BY <2>1, <2>3, ReachIsLeast DEF Collected
  <2>5. Cardinality(Listed(found)) = Len(found)
    <3>1. Len(found) \in Nat
      BY LenProperties DEF WalkInv, WalkTyped
    <3> DEFINE g == [i \in 1..Len(found) |-> found[i]]
    <3>2. g \in Bijection(1..Len(found), Listed(found))
      BY <2>1 DEF Bijection, Injection, Surjection, IsInjective, Listed, Collected
    <3> QED
      BY <3>1, <3>2, FS_CountingElements DEF ExistsBijection
  <2>6. Listed(found) = Walk!Reach(name) /\ Walk!Reach(name) \subseteq DOMAIN dep
    BY <2>1, <2>3, <2>4
  <2> QED
    BY <1>2, <2>5, <2>6
<1> QED
  BY <1>1, <1>2

\* TransitiveDeps fails exactly when it can reach an unregistered name, and lists
\* otherwise exactly the stages that can be reached, each once, on every map.
THEOREM ReachCorrect == CallsSpec => []ResultIsReach
  BY WalkInvExact, WalkInvInductive, PTL DEF CallsSpec

-------------------------------------------------------------------------------
(* The levels *)

\* The depths of the stages the first loop has come past: each is more than those
\* of the dependencies and just more than one of them.
DepthsSet ==
    /\ at \in Nat \ {0} /\ at <= Len(order) + 1
    /\ result # "ok" => at = 1 /\ levels = <<>>
    /\ DOMAIN depth = IF levels = <<>> THEN Before(order, at) ELSE Listed(order)
    /\ \A n \in DOMAIN depth : depth[n] \in Nat
    /\ \E b \in Nat : \A n \in DOMAIN depth : depth[n] <= b
    /\ \A n \in DOMAIN depth :
          /\ \A d \in DepSet(dep, n) : d \in DOMAIN depth /\ depth[d] < depth[n]
          /\ depth[n] > 0 => \E d \in DepSet(dep, n) : depth[d] = depth[n] - 1

\* The levels hold the stages the second loop has come past, by their depths.
LevelsFilled ==
    levels # <<>> =>
        /\ levels \in Seq(Seq(DOMAIN dep))
        /\ \A n \in DOMAIN depth : depth[n] + 1 \in DOMAIN levels
        /\ \A k \in DOMAIN levels : \A n \in DOMAIN dep :
              On(n, k) <=> n \in Before(order, at) /\ k = depth[n] + 1

LevelsInv == IInv /\ DepthsSet /\ LevelsFilled

\* What is listed before a position grows by one name from each to the next.
LEMMA BeforeGrows ==
    ASSUME NEW o, NEW i \in Nat \ {0}, Len(o) \in Nat
    PROVE  /\ Before(o, 1) = {}
           /\ Before(o, i + 1) = Before(o, i) \cup {o[i]}
           /\ i = Len(o) + 1 => Before(o, i) = Listed(o)
           /\ i <= Len(o) => o[i] \in Listed(o)
<1>1. 1..(1 - 1) = {} /\ 1..(i + 1 - 1) = 1..(i - 1) \cup {i}
  OBVIOUS
<1>2. Before(o, i + 1) = Before(o, i) \cup {o[i]}
  BY <1>1 DEF Before
<1> QED
  BY <1>1, <1>2 DEF Before, Listed

\* Numbers with a bound have a greatest.
LEMMA NatMaximum ==
    ASSUME NEW S, S \subseteq Nat, S # {}, NEW b \in Nat, \A s \in S : s <= b
    PROVE  \E m \in S : \A s \in S : s <= m
<1> DEFINE T == {u \in Nat : \A s \in S : s <= u}
<1>1. PICK m \in T : \A u \in T : m <= u
  <2>1. T \subseteq Nat /\ b \in T
    OBVIOUS
  <2> QED
    BY <2>1, NatMinimum
<1>2. m \in S
  <2> SUFFICES ASSUME m \notin S PROVE FALSE
    OBVIOUS
  <2>1. PICK s \in S : TRUE
    OBVIOUS
  <2>2. \A t \in S : t <= m - 1
    BY <1>1
  <2>3. m - 1 \in Nat
    BY <1>1, <2>1, <2>2
  <2>4. m <= m - 1
    BY <1>1, <2>2, <2>3
  <2> QED
    BY <1>1, <2>4
<1> QED
  BY <1>1, <1>2

\* The loop over the dependencies finds the greatest depth among them, or -1.
LEMMA MaxDepIs ==
    ASSUME NEW n, DepSet(dep, n) \subseteq DOMAIN depth,
           \A d \in DOMAIN depth : depth[d] \in Nat,
           NEW b \in Nat, \A d \in DOMAIN depth : depth[d] <= b
    PROVE  \E x \in Nat :
              /\ x = MaxDep(n) + 1 /\ x <= b + 1
              /\ \A d \in DepSet(dep, n) : depth[d] < x
              /\ x > 0 => \E d \in DepSet(dep, n) : depth[d] = x - 1
<1> DEFINE D == DepSet(dep, n)
           S == {DepthOf(d) : d \in D}
           Greatest(k) == k \in {-1} \cup S /\ \A d \in D : DepthOf(d) <= k
<1>1. \A d \in D : DepthOf(d) = depth[d] /\ depth[d] \in Nat /\ depth[d] <= b
  BY DEF DepthOf
<1>2. \E k : Greatest(k)
  <2>1. CASE D = {}
    <3>1. Greatest(-1)
      BY <2>1
    <3> QED
      BY <3>1
  <2>2. CASE D # {}
    <3>1. S \subseteq Nat /\ S # {} /\ \A s \in S : s <= b
      BY <1>1, <2>2
    <3>2. PICK m \in S : \A s \in S : s <= m
      BY <3>1, NatMaximum
    <3>3. Greatest(m)
      BY <3>2
    <3> QED
      BY <3>3
  <2> QED
    BY <2>1, <2>2
<1>3. MaxDep(n) = CHOOSE k \in {-1} \cup S : \A d \in D : DepthOf(d) <= k
  BY DEF MaxDep
<1>4. Greatest(MaxDep(n))
  BY <1>2, <1>3
<1>5. PICK y \in {-1} \cup Nat : y = MaxDep(n)
  BY <1>1, <1>4
<1>6. PICK x \in Nat : x = y + 1
  OBVIOUS
<1>7. x <= b + 1 /\ \A d \in D : depth[d] < x
  BY <1>1, <1>4, <1>5, <1>6
<1>8. x > 0 => \E d \in D : depth[d] = x - 1
  BY <1>1, <1>4, <1>5, <1>6
<1> QED
  BY <1>5, <1>6, <1>7, <1>8

\* The largest depth.
LEMMA MaxLevelIs ==
    ASSUME \A d \in DOMAIN depth : depth[d] \in Nat,
           NEW b \in Nat, \A d \in DOMAIN depth : depth[d] <= b
    PROVE  MaxLevel \in Nat /\ \A n \in DOMAIN depth : depth[n] <= MaxLevel
<1> DEFINE S == {0} \cup {depth[n] : n \in DOMAIN depth}
<1>1. S \subseteq Nat /\ S # {} /\ \A s \in S : s <= b
  OBVIOUS
<1>2. PICK m \in S : \A s \in S : s <= m
  BY <1>1, NatMaximum
<1>3. MaxLevel = CHOOSE k \in S : \A n \in DOMAIN depth : depth[n] <= k
  BY DEF MaxLevel
<1>4. \A n \in DOMAIN depth : depth[n] <= m
  BY <1>2
<1>5. MaxLevel \in S /\ \A n \in DOMAIN depth : depth[n] <= MaxLevel
  BY <1>2, <1>3, <1>4
<1> QED
  BY <1>1, <1>5

\* The steps of Levels.
LEMMA InitLevels == LevelsInit => LevelsInv
<1> SUFFICES ASSUME LevelsInit PROVE LevelsInv
  OBVIOUS
<1>1. IInv
  BY InitIInv DEF LevelsInit
<1>2. /\ order = <<>> /\ result = "none" /\ at = 1 /\ levels = <<>> /\ DOMAIN depth = {}
  BY DEF LevelsInit, Init
<1>3. Len(order) = 0 /\ Before(order, 1) = {}
  BY <1>2 DEF Before
<1> QED
  BY <1>1, <1>2, <1>3 DEF LevelsInv, DepthsSet, LevelsFilled

\* topoSort has returned an order of the stages when the loops run.
LEMMA OrderReturned ==
    ASSUME IInv, result = "ok"
    PROVE  /\ pc = "done" /\ IsKahnPrefix(dep, order) /\ Listed(order) = DOMAIN dep
           /\ order \in Seq(DOMAIN dep) /\ Len(order) \in Nat
           /\ AllKnown(dep)
BY DEF IInv, Returned, TypeOK, IsKahnOrder

\* The steps of topoSort come before the loops.
LEMMA SortKeepsLevels ==
    ASSUME LevelsInv, CallTopoSort
    PROVE  LevelsInv'
<1>1. IInv'
  BY NextIInv DEF LevelsInv, CallTopoSort
<1>2. CASE result = "ok"
  <2>1. UNCHANGED vars
    BY <1>2, OrderReturned DEF LevelsInv, CallTopoSort, Next, CountEdges, RejectUnknown, Seed,
       Pop, Relax, EndRelax, Finish, Done
  <2>2. UNCHANGED <<dep, order, result, at, depth, levels>>
    BY <2>1 DEF CallTopoSort, vars, locals
  <2>3. DepthsSet' = DepthsSet /\ LevelsFilled' = LevelsFilled
    BY <2>2 DEF DepthsSet, LevelsFilled, On
  <2> QED
    BY <1>1, <2>3 DEF LevelsInv
<1>3. CASE result # "ok"
  <2>1. at = 1 /\ levels = <<>> /\ Before(order, 1) = {}
    BY <1>3 DEF LevelsInv, DepthsSet, Before
  <2>2. DOMAIN depth = {}
    BY <2>1 DEF LevelsInv, DepthsSet
  <2>3. at' = 1 /\ levels' = <<>> /\ depth' = depth
    BY <2>1 DEF CallTopoSort, locals
  <2>4. Len(order') \in Nat /\ Before(order', 1) = {}
    BY <1>1 DEF IInv, TypeOK, Before
  <2>5. DepthsSet' /\ LevelsFilled'
    BY <2>2, <2>3, <2>4 DEF DepthsSet, LevelsFilled
  <2> QED
    BY <1>1, <2>5 DEF LevelsInv
<1> QED
  BY <1>2, <1>3

LEMMA SetDepthKeepsLevels ==
    ASSUME LevelsInv, SetDepth
    PROVE  LevelsInv'
<1> DEFINE n == order[at]
<1>1. /\ result = "ok" /\ levels = <<>> /\ at <= Len(order)
      /\ depth' = [m \in DOMAIN depth \cup {n} |-> IF m = n THEN MaxDep(n) + 1 ELSE depth[m]]
      /\ at' = at + 1 /\ levels' = levels
      /\ UNCHANGED vars
  BY DEF SetDepth
<1>2. IInv /\ DepthsSet
  BY DEF LevelsInv
<1>3. at \in Nat \ {0} /\ at \in 1..Len(order) /\ Len(order) \in Nat
  BY <1>1, <1>2, OrderReturned DEF DepthsSet
<1>4. DOMAIN depth = Before(order, at) /\ Before(order, at + 1) = Before(order, at) \cup {n}
  BY <1>1, <1>2, <1>3, BeforeGrows DEF DepthsSet
<1>5. n \notin DOMAIN depth /\ DepSet(dep, n) \subseteq DOMAIN depth
  BY <1>1, <1>2, <1>3, <1>4, OrderReturned DEF IsKahnPrefix, Ready
<1>6. PICK b \in Nat : \A m \in DOMAIN depth : depth[m] <= b
  BY <1>2 DEF DepthsSet
<1>7. \A m \in DOMAIN depth : depth[m] \in Nat
  BY <1>2 DEF DepthsSet
<1>8. PICK x \in Nat :
         /\ x = MaxDep(n) + 1 /\ x <= b + 1
         /\ \A d \in DepSet(dep, n) : depth[d] < x
         /\ x > 0 => \E d \in DepSet(dep, n) : depth[d] = x - 1
  <2> HIDE DEF n
  <2> QED
    BY <1>5, <1>6, <1>7, MaxDepIs
<1>10. IInv' = IInv /\ UNCHANGED <<dep, order, result>>
  BY <1>1 DEF vars, IInv, TypeOK, Counting, Looping, Returned, EdgesOf, EdgesFrom, Pending
<1> HIDE DEF n
<1>11. /\ DOMAIN depth' = DOMAIN depth \cup {n} /\ depth'[n] = x
       /\ \A m \in DOMAIN depth : depth'[m] = depth[m]
  BY <1>1, <1>5, <1>8
<1>12. DepthsSet'
  <2>1. /\ at' \in Nat \ {0} /\ at' <= Len(order') + 1
        /\ DOMAIN depth' = Before(order', at')
    BY <1>1, <1>3, <1>4, <1>10, <1>11
  <2>2. \A m \in DOMAIN depth' : depth'[m] \in Nat /\ depth'[m] <= b + 1
    BY <1>6, <1>7, <1>8, <1>11
  <2>3. ASSUME NEW m \in DOMAIN depth'
        PROVE  /\ \A d \in DepSet(dep, m) : d \in DOMAIN depth' /\ depth'[d] < depth'[m]
               /\ depth'[m] > 0 => \E d \in DepSet(dep, m) : depth'[d] = depth'[m] - 1
    <3>1. CASE m = n
      BY <1>5, <1>8, <1>11, <3>1
    <3>2. CASE m # n
      <4>1. m \in DOMAIN depth /\ depth'[m] = depth[m]
        BY <1>11, <3>2
      <4>2. /\ \A d \in DepSet(dep, m) : d \in DOMAIN depth /\ depth[d] < depth[m]
            /\ depth[m] > 0 => \E d \in DepSet(dep, m) : depth[d] = depth[m] - 1
        BY <1>2, <4>1 DEF DepthsSet
      <4> QED
        BY <1>11, <4>1, <4>2
    <3> QED
      BY <3>1, <3>2
  <2>4. b + 1 \in Nat
    BY <1>6
  <2> QED
    BY <1>1, <1>10, <2>1, <2>2, <2>3, <2>4 DEF DepthsSet
<1> QED
  BY <1>1, <1>2, <1>10, <1>12 DEF LevelsInv, LevelsFilled

LEMMA MakeKeepsLevels ==
    ASSUME LevelsInv, MakeLevels
    PROVE  LevelsInv'
<1>1. /\ result = "ok" /\ levels = <<>> /\ at > Len(order)
      /\ levels' = [k \in 1..(MaxLevel + 1) |-> <<>>]
      /\ at' = 1 /\ depth' = depth /\ UNCHANGED vars
  BY DEF MakeLevels
<1>2. IInv /\ DepthsSet
  BY DEF LevelsInv
<1>3. IInv' = IInv /\ UNCHANGED <<dep, order, result>>
  BY <1>1 DEF vars, IInv, TypeOK, Counting, Looping, Returned, EdgesOf, EdgesFrom, Pending
<1>4. Len(order) \in Nat /\ at = Len(order) + 1
  BY <1>1, <1>2, OrderReturned DEF DepthsSet
<1>5. DOMAIN depth = Listed(order) /\ Before(order, 1) = {}
  <2>1. Before(order, at) = Listed(order) /\ Before(order, 1) = {}
    BY <1>4, BeforeGrows
  <2> QED
    BY <1>1, <1>2, <2>1 DEF DepthsSet
<1>6. PICK b \in Nat : \A m \in DOMAIN depth : depth[m] <= b
  BY <1>2 DEF DepthsSet
<1>7. \A m \in DOMAIN depth : depth[m] \in Nat
  BY <1>2 DEF DepthsSet
<1>8. MaxLevel \in Nat /\ \A m \in DOMAIN depth : depth[m] <= MaxLevel
  BY <1>6, <1>7, MaxLevelIs
<1> HIDE DEF MaxLevel
<1>9. /\ levels' \in Seq(Seq(DOMAIN dep)) /\ Len(levels') = MaxLevel + 1
      /\ DOMAIN levels' = 1..(MaxLevel + 1) /\ \A k \in 1..(MaxLevel + 1) : levels'[k] = <<>>
  BY <1>1, <1>8
<1>10. levels' # <<>>
  BY <1>8, <1>9
<1>11. \A m \in DOMAIN depth' : depth'[m] + 1 \in DOMAIN levels'
  BY <1>1, <1>7, <1>8, <1>9
<1>12. \A k \in DOMAIN levels' : \A m : ~ On(m, k)'
  BY <1>9 DEF On
<1>13. LevelsFilled'
  BY <1>1, <1>3, <1>5, <1>9, <1>11, <1>12 DEF LevelsFilled
<1>14. DepthsSet'
  BY <1>1, <1>2, <1>3, <1>4, <1>5, <1>10 DEF DepthsSet
<1> QED
  BY <1>2, <1>3, <1>13, <1>14 DEF LevelsInv

LEMMA PlaceKeepsLevels ==
    ASSUME LevelsInv, Place
    PROVE  LevelsInv'
<1> DEFINE n == order[at]
           q == depth[n] + 1
           new == Append(levels[q], n)
<1>1. /\ levels # <<>> /\ at <= Len(order)
      /\ levels' = [levels EXCEPT ![q] = new]
      /\ at' = at + 1 /\ depth' = depth /\ UNCHANGED vars
  BY DEF Place
<1>2. IInv /\ DepthsSet /\ LevelsFilled /\ result = "ok"
  BY <1>1 DEF LevelsInv, DepthsSet
<1>3. IInv' = IInv /\ UNCHANGED <<dep, order, result>>
  BY <1>1 DEF vars, IInv, TypeOK, Counting, Looping, Returned, EdgesOf, EdgesFrom, Pending
<1>4. /\ at \in Nat \ {0} /\ at \in 1..Len(order) /\ Len(order) \in Nat
      /\ Listed(order) = DOMAIN dep /\ DOMAIN depth = Listed(order)
  BY <1>1, <1>2, OrderReturned DEF DepthsSet
<1>5. Before(order, at + 1) = Before(order, at) \cup {n} /\ n \in Listed(order)
  BY <1>1, <1>4, BeforeGrows
<1>6. n \notin Before(order, at)
  BY <1>2, <1>4, OrderReturned DEF IsKahnPrefix, Ready
<1>7. /\ levels \in Seq(Seq(DOMAIN dep)) /\ q \in DOMAIN levels
      /\ \A k \in DOMAIN levels : \A m \in DOMAIN dep :
            On(m, k) <=> m \in Before(order, at) /\ k = depth[m] + 1
  BY <1>1, <1>2, <1>4, <1>5 DEF LevelsFilled
<1>8. levels[q] \in Seq(DOMAIN dep) /\ n \in DOMAIN dep
  BY <1>4, <1>5, <1>7
<1>9. /\ new \in Seq(DOMAIN dep) /\ Len(new) = Len(levels[q]) + 1 /\ Len(levels[q]) \in Nat
      /\ \A j \in 1..Len(levels[q]) : new[j] = levels[q][j]
      /\ new[Len(levels[q]) + 1] = n
  BY <1>8, AppendProperties, LenProperties
<1>10. DOMAIN new = 1..(Len(levels[q]) + 1) /\ DOMAIN levels[q] = 1..Len(levels[q])
  BY <1>8, <1>9, LenProperties
<1> HIDE DEF n, q, new
<1>11. /\ levels' \in Seq(Seq(DOMAIN dep)) /\ DOMAIN levels' = DOMAIN levels /\ levels' # <<>>
       /\ levels'[q] = new /\ \A k \in DOMAIN levels \ {q} : levels'[k] = levels[k]
  <2>1. /\ DOMAIN levels' = DOMAIN levels
        /\ levels'[q] = new /\ \A k \in DOMAIN levels \ {q} : levels'[k] = levels[k]
    BY <1>1, <1>7
  <2>2. levels' \in Seq(Seq(DOMAIN dep)) /\ Len(levels') = Len(levels)
    BY <1>1, <1>7, <1>9, ExceptSeq
  <2>3. levels' # <<>>
    BY <1>7, <2>1
  <2> QED
    BY <2>1, <2>2, <2>3
<1>12. ASSUME NEW k \in DOMAIN levels, NEW m \in DOMAIN dep
       PROVE  On(m, k)' <=> m \in Before(order, at + 1) /\ k = depth[m] + 1
  <2>1. CASE k = q
    <3>1. On(m, k)' <=> On(m, k) \/ m = n
      <4>1. On(m, k)' <=> \E j \in 1..(Len(levels[q]) + 1) : new[j] = m
        BY <1>10, <1>11, <2>1 DEF On
      <4>2. On(m, k) <=> \E j \in 1..Len(levels[q]) : levels[q][j] = m
        BY <1>10, <2>1 DEF On
      <4>3. \A j : j \in 1..(Len(levels[q]) + 1) <=> j \in 1..Len(levels[q]) \/ j = Len(levels[q]) + 1
        BY <1>9
      <4> QED
        BY <1>9, <4>1, <4>2, <4>3
    <3>2. m = n => k = depth[m] + 1
      BY <2>1 DEF q
    <3> QED
      BY <1>5, <1>7, <3>1, <3>2
  <2>2. CASE k # q
    <3>1. On(m, k)' <=> On(m, k)
      BY <1>11, <2>2 DEF On
    <3>2. m = n => k # depth[m] + 1
      BY <2>2 DEF q
    <3> QED
      BY <1>5, <1>7, <3>1, <3>2
  <2> QED
    BY <2>1, <2>2
<1>13. LevelsFilled'
  BY <1>1, <1>2, <1>3, <1>11, <1>12 DEF LevelsFilled
<1>14. DepthsSet'
  BY <1>1, <1>2, <1>3, <1>4, <1>11 DEF DepthsSet
<1> QED
  BY <1>2, <1>3, <1>13, <1>14 DEF LevelsInv

\* The calls.
LEMMA LevelsInvInductive ==
    /\ CallsInit => LevelsInv
    /\ LevelsInv /\ [CallsNext]_<<levelsVars, walkVars>> => LevelsInv'
<1>1. ASSUME LevelsInv, UNCHANGED levelsVars
      PROVE  LevelsInv'
  <2> USE <1>1 DEF levelsVars, locals, vars
  <2>1. IInv' = IInv
    BY DEF IInv, TypeOK, Counting, Looping, Returned, EdgesOf, EdgesFrom, Pending
  <2>2. DepthsSet' = DepthsSet /\ LevelsFilled' = LevelsFilled
    BY DEF DepthsSet, LevelsFilled, On
  <2> QED
    BY <2>1, <2>2 DEF LevelsInv
<1>2. ASSUME LevelsInv, [CallsNext]_<<levelsVars, walkVars>>
      PROVE  LevelsInv'
  <2> USE <1>2
  <2>1. CASE CallLevels
    BY <2>1, SortKeepsLevels, SetDepthKeepsLevels, MakeKeepsLevels, PlaceKeepsLevels
    DEF CallLevels, LevelsNext
  <2>2. CASE ~ CallLevels
    <3>1. UNCHANGED levelsVars
      BY <2>2 DEF CallsNext, CallTransitiveDeps, WalkOn, Stop
    <3> QED
      BY <1>1, <3>1
  <2> QED
    BY <2>1, <2>2
<1> QED
  BY <1>2, InitLevels DEF CallsInit

\* Where the levels are complete a stage is on the level of its depth only.
LEMMA LevelIsDepth ==
    ASSUME LevelsInv, LevelsDone
    PROVE  /\ DOMAIN depth = DOMAIN dep
           /\ \A n \in DOMAIN dep : depth[n] \in Nat /\ depth[n] + 1 \in DOMAIN levels
           /\ \A n \in DOMAIN dep : \A k \in DOMAIN levels : On(n, k) <=> k = depth[n] + 1
           /\ \A n \in DOMAIN dep : \A d \in DepSet(dep, n) :
                 d \in DOMAIN dep /\ depth[d] < depth[n]
<1>1. levels # <<>> /\ at > Len(order) /\ result = "ok" /\ IInv /\ DepthsSet /\ LevelsFilled
  BY DEF LevelsInv, LevelsDone, DepthsSet
<1>2. Listed(order) = DOMAIN dep /\ Len(order) \in Nat
  BY <1>1, OrderReturned
<1>3. at = Len(order) + 1 /\ at \in Nat \ {0}
  BY <1>1, <1>2 DEF DepthsSet
<1>4. Before(order, at) = DOMAIN dep
  BY <1>2, <1>3, BeforeGrows
<1> QED
  BY <1>1, <1>2, <1>4 DEF DepthsSet, LevelsFilled

\* Every stage is on one level, its dependencies on levels before it, one of them
\* on the level just before: the levels of Levels can be run one after the other.
THEOREM LevelsCorrect == CallsSpec => []LevelsExact
<1>1. LevelsInv => LevelsExact
  <2> SUFFICES ASSUME LevelsInv, LevelsDone, NEW n \in DOMAIN dep
               PROVE  \E k \in DOMAIN levels :
                         /\ \A j \in DOMAIN levels : On(n, j) <=> j = k
                         /\ \A d \in DepSet(dep, n) : \E j \in 1..(k - 1) : On(d, j)
                         /\ k > 1 => \E d \in DepSet(dep, n) : On(d, k - 1)
    BY DEF LevelsExact
  <2> DEFINE k == depth[n] + 1
  <2>1. /\ k \in DOMAIN levels /\ depth[n] \in Nat
        /\ \A j \in DOMAIN levels : On(n, j) <=> j = k
    BY LevelIsDepth
  <2>2. \A d \in DepSet(dep, n) : d \in DOMAIN dep /\ depth[d] \in Nat /\ depth[d] < depth[n]
                                  /\ On(d, depth[d] + 1)
    BY LevelIsDepth
  <2>3. \A d \in DepSet(dep, n) : depth[d] + 1 \in 1..(k - 1)
    BY <2>1, <2>2
  <2>4. depth[n] > 0 => \E d \in DepSet(dep, n) : depth[d] = depth[n] - 1
    <3>1. n \in DOMAIN depth
      BY LevelIsDepth
    <3> QED
      BY <3>1 DEF LevelsInv, DepthsSet
  <2>5. k > 1 => \E d \in DepSet(dep, n) : On(d, k - 1)
    <3>1. \A d \in DepSet(dep, n) : depth[d] = depth[n] - 1 => depth[d] + 1 = k - 1
      BY <2>1, <2>2
    <3>2. k > 1 => depth[n] > 0
      BY <2>1
    <3> QED
      BY <2>2, <2>4, <3>1, <3>2
  <2> HIDE DEF k
  <2> QED
    BY <2>1, <2>2, <2>3, <2>5
<1> QED
  BY <1>1, LevelsInvInductive, PTL DEF CallsSpec
-------------------------------------------------------------------------------
(* The order of the list *)

\* What the walk can come to.
Reached == [n \in Walk!Reach(name) |-> dep[n]]

\* A frame is about a dependency of the one below it.  What is listed comes after
\* its dependencies, or the walk goes along a cycle.
PostOrdered ==
    err = "none" =>
        /\ \A k \in 2..Len(stack) : stack[k].node \in DepSet(dep, stack[k - 1].node)
        /\ \/ HasCycle(Reached)
           \/ \A i \in 1..Len(found) : DepSet(dep, found[i]) \subseteq Before(found, i)

\* Levels has returned when TransitiveDeps is called, or was not called.
CalledAfter == Called /\ levels # <<>> => LevelsDone

LEMMA ReachedUnchanged == UNCHANGED <<dep, name>> => UNCHANGED Reached
BY DEF Reached, Walk!Reach, Walk!Mentioned

\* A node that is left depends on what is listed, or closes a cycle on the stack.
LEMMA LeftIsLast ==
    ASSUME WalkInv, PostOrdered, stack # <<>>, Len(stack) # 1,
           DepSet(dep, stack[Len(stack)].node) \subseteq visited
    PROVE  \/ HasCycle(Reached)
           \/ DepSet(dep, stack[Len(stack)].node) \subseteq Listed(found)
<1> DEFINE n == Len(stack)
           c == stack[n].node
<1>1. /\ err = "none" /\ WalkTyped /\ Collected
      /\ visited \subseteq DOMAIN dep /\ visited \subseteq Walk!Reach(name)
  BY WalkingIs
<1>2. n \in Nat /\ n >= 2 /\ n = Len(stack)
  <2>1. n \in Nat /\ n >= 1 /\ n # 1 /\ n = Len(stack)
    BY <1>1, StackShape
  <2> HIDE DEF n
  <2> QED
    BY <2>1
<1> HIDE DEF n
<1>3. SUFFICES ASSUME ~ (DepSet(dep, c) \subseteq Listed(found))
               PROVE  HasCycle(Reached)
  BY DEF n
<1>4. PICK l \in 2..n : stack[l].node \in DepSet(dep, c)
  <2>1. PICK d \in DepSet(dep, c) : d \notin Listed(found)
    BY <1>3
  <2>2. d \in Open
    BY <1>1, <2>1 DEF Collected, n
  <2> QED
    BY <1>2, <2>2 DEF Open
<1> DEFINE R == {stack[k].node : k \in l..n}
<1>5. R \subseteq Walk!Reach(name) /\ R # {}
  <2>1. \A k \in l..n : k \in 2..n
    BY <1>2
  <2>2. R \subseteq Open
    BY <1>2, <2>1 DEF Open
  <2>3. n \in l..n
    BY <1>2
  <2> QED
    BY <1>1, <2>2, <2>3 DEF Collected
<1>6. ASSUME NEW r \in R
      PROVE  DepSet(Reached, r) \cap R # {}
  <2>1. PICK k \in l..n : r = stack[k].node
    OBVIOUS
  <2>2. DepSet(Reached, r) = DepSet(dep, r)
    BY <1>5 DEF Reached, DepSet
  <2>3. CASE k = n
    <3>1. stack[l].node \in R
      BY <1>2
    <3> QED
      BY <1>4, <2>1, <2>2, <2>3, <3>1
  <2>4. CASE k # n
    <3>1. k + 1 \in 2..n /\ k + 1 \in l..n /\ k + 1 - 1 = k
      BY <1>2, <2>4
    <3>2. stack[k + 1].node \in DepSet(dep, stack[k].node)
      BY <1>1, <1>2, <3>1 DEF PostOrdered
    <3> QED
      BY <2>1, <2>2, <3>1, <3>2
  <2> QED
    BY <2>3, <2>4
<1>7. DOMAIN Reached = Walk!Reach(name)
  BY DEF Reached
<1> HIDE DEF R
<1> QED
  BY <1>5, <1>6, <1>7 DEF HasCycle, IsKnot

\* The steps of the walk.
LEMMA LeaveKeepsOrder ==
    ASSUME WalkInv, PostOrdered, Walk!Leave
    PROVE  PostOrdered'
<1> DEFINE n == Len(stack)
           c == stack[n].node
<1>1. /\ stack # <<>> /\ ~ Walk!InLoop
      /\ stack' = Walk!Below
      /\ found' = IF n = 1 THEN found ELSE Append(found, Walk!Top.node)
      /\ UNCHANGED <<dep, name, visited, err>>
  BY DEF Walk!Leave
<1>2. err = "none" /\ WalkTyped /\ Framed
  BY <1>1, WalkingIs
<1>3. /\ n \in Nat /\ n >= 1 /\ Walk!Top = stack[n]
      /\ c \in DOMAIN dep /\ stack[n].next \in Nat \ {0}
      /\ Len(stack') = n - 1
      /\ \A k \in 1..(n - 1) : stack'[k] = stack[k]
  BY <1>1, <1>2, StackShape
<1>4. found' = IF n = 1 THEN found ELSE Append(found, c)
  BY <1>1, <1>3
<1>5. Reached' = Reached
  BY <1>1, ReachedUnchanged
<1> HIDE DEF Reached
<1>6. \A k \in 2..Len(stack') : stack'[k].node \in DepSet(dep, stack'[k - 1].node)
  <2> TAKE k \in 2..Len(stack')
  <2>1. k \in 2..n /\ k \in 1..(n - 1) /\ k - 1 \in 1..(n - 1)
    BY <1>3
  <2>2. stack[k].node \in DepSet(dep, stack[k - 1].node)
    BY <1>2, <2>1 DEF PostOrdered
  <2> QED
    BY <1>3, <2>1, <2>2
<1>7. ASSUME ~ HasCycle(Reached)
      PROVE  \A i \in 1..Len(found') : DepSet(dep, found'[i]) \subseteq Before(found', i)
  <2>1. \A i \in 1..Len(found) : DepSet(dep, found[i]) \subseteq Before(found, i)
    BY <1>2, <1>7 DEF PostOrdered
  <2>2. CASE n = 1
    BY <1>4, <2>1, <2>2
  <2>3. CASE n # 1
    <3>1. DepSet(dep, c) \subseteq visited
      <4>1. dep[c] \in Seq(Nat)
        BY <1>2, <1>3 DEF WalkTyped
      <4>2. ~ (stack[n].next <= Len(dep[c]))
        BY <1>1, <1>3 DEF Walk!InLoop
      <4>3. ASSUME NEW i \in DOMAIN dep[c]
            PROVE  dep[c][i] \in visited
        <5>1. i \in 1..Len(dep[c]) /\ Len(dep[c]) \in Nat
          BY <4>1, LenProperties
        <5>2. i < stack[n].next /\ n \in 1..Len(stack)
          BY <1>3, <4>2, <5>1
        <5> QED
          BY <1>2, <5>2 DEF Framed
      <4> QED
        BY <4>3 DEF DepSet
    <3>2. DepSet(dep, c) \subseteq Listed(found)
      BY <1>1, <1>7, <2>3, <3>1, LeftIsLast
    <3>3. found \in Seq(Nat) /\ c \in Nat /\ found' = Append(found, c)
      BY <1>2, <1>3, <1>4, <2>3 DEF WalkTyped
    <3> HIDE DEF c
    <3>4. /\ Len(found') = Len(found) + 1 /\ Len(found) \in Nat
          /\ found'[Len(found) + 1] = c
          /\ \A i \in 1..Len(found) : /\ found'[i] = found[i]
                                       /\ Before(found', i) = Before(found, i)
          /\ Before(found', Len(found) + 1) = Listed(found)
      BY <3>3, AppendListed
    <3>5. \A i \in 1..Len(found') : i \in 1..Len(found) \/ i = Len(found) + 1
      BY <3>4
    <3> QED
      BY <2>1, <3>2, <3>4, <3>5
  <2> QED
    BY <2>2, <2>3
<1> QED
  BY <1>1, <1>2, <1>5, <1>6, <1>7 DEF PostOrdered

LEMMA DescendKeepsOrder ==
    ASSUME WalkInv, PostOrdered, Walk!Descend
    PROVE  PostOrdered'
<1> DEFINE n == Len(stack)
           c == Walk!Callee
           a == Walk!Advanced
           new == [node |-> c, next |-> 1]
<1>1. /\ Walk!InLoop /\ stack # <<>> /\ c \in DOMAIN dep
      /\ stack' = Append(a, new) /\ UNCHANGED <<dep, name, found, err>>
  BY DEF Walk!Descend, Walk!InLoop
<1>2. err = "none" /\ WalkTyped /\ n \in Nat /\ n >= 1
  BY <1>1, WalkingIs, StackShape
<1>3. Advances(a) /\ a \in Seq(Frame) /\ Len(a) = n
  BY <1>1, <1>2, AdvancedShape DEF Advances
<1>4. \A k \in 1..n : a[k].node = stack[k].node
  <2>1. \A k \in 1..(n - 1) : a[k] = stack[k]
    BY <1>3 DEF Advances
  <2>2. a[n].node = stack[n].node
    BY <1>1, <1>2, <1>3, StackShape DEF Advances
  <2>3. \A k \in 1..n : k = n \/ k \in 1..(n - 1)
    BY <1>2
  <2> QED
    BY <2>1, <2>2, <2>3
<1>5. c \in DepSet(dep, stack[n].node)
  BY <1>1, CalleeIsDependency
<1>6. new \in Frame /\ new.node = c
  BY <1>1 DEF Frame
<1> HIDE DEF a, new, c, n
<1>7. /\ Len(stack') = n + 1 /\ stack'[n + 1].node = c
      /\ \A k \in 1..n : stack'[k].node = stack[k].node
  BY <1>1, <1>3, <1>4, <1>6, AppendProperties
<1>8. \A k \in 2..n : stack[k].node \in DepSet(dep, stack[k - 1].node)
  BY <1>2 DEF PostOrdered, n
<1>9. ASSUME NEW k \in 2..Len(stack')
      PROVE  stack'[k].node \in DepSet(dep, stack'[k - 1].node)
  <2>1. k - 1 \in 1..n
    BY <1>2, <1>7
  <2>2. CASE k = n + 1
    BY <1>2, <1>5, <1>7, <2>1, <2>2
  <2>3. CASE k # n + 1
    <3>1. k \in 1..n /\ k \in 2..n
      BY <1>2, <1>7, <2>3
    <3> QED
      BY <1>7, <1>8, <2>1, <3>1
  <2> QED
    BY <2>2, <2>3
<1>10. Reached' = Reached
  BY <1>1, ReachedUnchanged
<1> QED
  BY <1>1, <1>2, <1>9, <1>10 DEF PostOrdered

LEMMA SkipKeepsOrder ==
    ASSUME WalkInv, PostOrdered, Walk!SkipVisited
    PROVE  PostOrdered'
<1>1. /\ stack # <<>>
      /\ stack' = Walk!Advanced /\ UNCHANGED <<dep, name, found, err>>
  BY DEF Walk!SkipVisited, Walk!InLoop
<1>2. err = "none" /\ WalkTyped /\ Len(stack) \in Nat /\ Len(stack) >= 1
  BY <1>1, WalkingIs, StackShape
<1>3. Len(stack') = Len(stack) /\ \A k \in 1..Len(stack) : stack'[k].node = stack[k].node
  <2>1. Advances(stack')
    BY <1>1, <1>2, AdvancedShape
  <2>2. \A k \in 1..(Len(stack) - 1) : stack'[k] = stack[k]
    BY <2>1 DEF Advances
  <2>3. stack'[Len(stack)].node = stack[Len(stack)].node
    BY <1>1, <1>2, <2>1, StackShape DEF Advances
  <2>4. \A k \in 1..Len(stack) : k = Len(stack) \/ k \in 1..(Len(stack) - 1)
    BY <1>2
  <2> QED
    BY <2>1, <2>2, <2>3, <2>4 DEF Advances
<1>4. \A k \in 2..Len(stack') : stack'[k].node \in DepSet(dep, stack'[k - 1].node)
  BY <1>2, <1>3 DEF PostOrdered
<1>5. Reached' = Reached
  BY <1>1, ReachedUnchanged
<1> QED
  BY <1>1, <1>2, <1>4, <1>5 DEF PostOrdered

\* The calls.
LEMMA OrderInvInductive ==
    /\ CallsInit => PostOrdered /\ CalledAfter
    /\ WalkInv /\ LevelsInv /\ PostOrdered /\ CalledAfter
         /\ [CallsNext]_<<levelsVars, walkVars>> => PostOrdered' /\ CalledAfter'
<1>1. CallsInit => PostOrdered /\ CalledAfter
  BY DEF CallsInit, PostOrdered, CalledAfter, Called
<1>2. ASSUME WalkInv, LevelsInv, PostOrdered, CalledAfter, [CallsNext]_<<levelsVars, walkVars>>
      PROVE  PostOrdered' /\ CalledAfter'
  <2> USE <1>2
  <2>1. ASSUME UNCHANGED <<dep, walkVars>>
        PROVE  PostOrdered'
    <3>1. UNCHANGED <<dep, name, stack, found, err>>
      BY <2>1 DEF walkVars
    <3>2. Reached' = Reached
      BY <3>1, ReachedUnchanged
    <3> QED
      BY <3>1, <3>2 DEF PostOrdered
  <2>2. ASSUME UNCHANGED levelsVars, Called' => Called
        PROVE  CalledAfter'
    BY <2>2 DEF CalledAfter, LevelsDone, levelsVars, locals, vars
  <2>3. CASE CallLevels
    <3>1. UNCHANGED dep /\ ~ Called'
      BY <2>3 DEF CallLevels, LevelsNext, CallTopoSort, SetDepth, MakeLevels, Place, Next, CountEdges,
         RejectUnknown, Seed, Pop, Relax, EndRelax, Finish, Done, vars, Called, walkVars
    <3> QED
      BY <2>1, <2>3, <3>1 DEF CallLevels, CalledAfter
  <2>4. ASSUME NEW n \in Names, CallTransitiveDeps(n)
        PROVE  PostOrdered' /\ CalledAfter'
    <3>1. found = <<>> /\ found' = <<>>
      BY <2>4 DEF CallTransitiveDeps, WalkInv, WalkTyped
    <3>2. Len(stack') \in {0, 1}
      BY <2>4 DEF CallTransitiveDeps, Walk!FirstFrames
    <3>3. PostOrdered'
      BY <3>1, <3>2 DEF PostOrdered
    <3>4. levels # <<>> => LevelsDone
      BY <2>4 DEF CallTransitiveDeps, NotCalled, LevelsInv, IInv, DepthsSet
    <3>5. UNCHANGED <<levels, at, order>>
      BY <2>4 DEF CallTransitiveDeps, levelsVars, locals, vars
    <3> QED
      BY <3>3, <3>4, <3>5 DEF CalledAfter, LevelsDone
  <2>5. CASE WalkOn
    <3>1. Called /\ UNCHANGED levelsVars
      BY <2>5 DEF WalkOn, Walk!Step, Walk!SkipVisited, Walk!MeetUnknown, Walk!Descend, Walk!Leave,
         Walk!InLoop, WalkInv, WalkTyped, Called
    <3>2. PostOrdered'
      <4>1. CASE Walk!MeetUnknown
        BY <4>1 DEF Walk!MeetUnknown, PostOrdered
      <4> QED
        BY <2>5, <4>1, SkipKeepsOrder, DescendKeepsOrder, LeaveKeepsOrder DEF WalkOn, Walk!Step
    <3> QED
      BY <2>2, <3>1, <3>2
  <2>6. CASE Stop \/ UNCHANGED <<levelsVars, walkVars>>
    <3>1. UNCHANGED <<dep, walkVars>> /\ UNCHANGED levelsVars /\ Called' = Called
      BY <2>6 DEF Stop, levelsVars, vars, walkVars, Called
    <3> QED
      BY <2>1, <2>2, <3>1
  <2> QED
    BY <2>3, <2>4, <2>5, <2>6 DEF CallsNext
<1> QED
  BY <1>1, <1>2

\* What a stage can reach has smaller depths.
LEMMA ReachIsShallow ==
    ASSUME LevelsInv, LevelsDone, name \in DOMAIN dep
    PROVE  \A d \in Walk!Reach(name) :
              d \in DOMAIN dep /\ depth[d] \in Nat /\ depth[d] < depth[name]
<1> DEFINE C == {d \in DOMAIN dep : depth[d] < depth[name]}
<1>1. /\ \A n \in DOMAIN dep : depth[n] \in Nat
      /\ \A n \in DOMAIN dep : \A d \in DepSet(dep, n) : d \in DOMAIN dep /\ depth[d] < depth[n]
  BY LevelIsDepth
<1>2. C \in SUBSET DOMAIN dep /\ DepSet(dep, name) \subseteq C
  BY <1>1
<1>3. \A c \in C : DepSet(dep, c) \subseteq C
  BY <1>1
<1>4. Walk!Reach(name) \subseteq C
  BY <1>2, <1>3, ReachIsLeast
<1> QED
  BY <1>1, <1>4

\* The list of TransitiveDeps is in an order of execution, unless the walk meets a
\* cycle, and all of it is on levels before the stage's.
THEOREM DependenciesCorrect == CallsSpec => []DependenciesBefore
<1>1. WalkInv /\ LevelsInv /\ PostOrdered /\ CalledAfter => DependenciesBefore
  <2> SUFFICES ASSUME WalkInv, LevelsInv, PostOrdered, CalledAfter, Called
               PROVE  /\ Walk!DependenciesBefore
                      /\ levels # <<>> /\ Walk!Returned /\ err = "none" =>
                            \A d \in Listed(found) : LevelOf(d) < LevelOf(name)
    BY DEF DependenciesBefore
  <2>1. Walk!DependenciesBefore
    <3>1. Walk!HasCycle(Reached) <=> HasCycle(Reached)
      BY DEF Walk!HasCycle, HasCycle, Walk!IsKnot, IsKnot, Walk!DepSet, DepSet
    <3>2. \A i : DepSet(dep, found[i]) \subseteq Before(found, i)
                   <=> Walk!DepSet(dep, found[i]) \subseteq Walk!Before(found, i)
      BY DEF Walk!DepSet, DepSet, Walk!Before, Before
    <3>3. err = "none" /\ ~ HasCycle(Reached) =>
             \A i \in 1..Len(found) : DepSet(dep, found[i]) \subseteq Before(found, i)
      BY DEF PostOrdered
    <3> QED
      BY <3>1, <3>2, <3>3 DEF Walk!DependenciesBefore, Reached
  <2>2. ASSUME levels # <<>>, Walk!Returned, err = "none", NEW d \in Listed(found)
        PROVE  LevelOf(d) < LevelOf(name)
    <3>1. LevelsDone /\ name \in DOMAIN dep
      BY <2>2 DEF CalledAfter, WalkInv, WalkTyped
    <3>2. d \in Walk!Reach(name)
      <4>1. Walk!Listed(found) = Listed(found)
        BY DEF Walk!Listed, Listed
      <4> QED
        BY <2>2, <4>1, WalkInvExact DEF ResultIsReach, Walk!ResultIsReach
    <3>3. d \in DOMAIN dep /\ depth[d] \in Nat /\ depth[d] < depth[name] /\ depth[name] \in Nat
      BY <3>1, <3>2, ReachIsShallow, LevelIsDepth
    <3>4. \A m \in DOMAIN dep : LevelOf(m) = depth[m] + 1
      BY <3>1, LevelIsDepth DEF LevelOf
    <3> QED
      BY <3>1, <3>3, <3>4
  <2> QED
    BY <2>1, <2>2
<1> QED
  BY <1>1, WalkInvInductive, LevelsInvInductive, OrderInvInductive, PTL DEF CallsSpec

\* The verdicts of topoSort are those of its call from Levels.
THEOREM VerdictsCorrect ==
    CallsSpec => [](OrderIsCanonical /\ CycleVerdictExact /\ UnknownVerdictExact)
<1>1. LevelsInv => OrderIsCanonical /\ CycleVerdictExact /\ UnknownVerdictExact
  BY Verdicts DEF LevelsInv
<1> QED
  BY <1>1, LevelsInvInductive, PTL DEF CallsSpec
===============================================================================
