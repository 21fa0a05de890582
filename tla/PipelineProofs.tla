---------------------------- MODULE PipelineProofs ----------------------------
(***************************************************************************)
(* The safety of Pipeline for any number of stages and of runners, and of  *)
(* Registry for any number of goroutines and kinds.                        *)
(*                                                                         *)
(* ResolvedOrderSound is not enough to carry the argument: a run works on  *)
(* a copy of an order that may be stale.  The invariant is that every      *)
(* order in sight, stale or not, is closed in the current stage map, which *)
(* holds because registrations are permanent, and that the results of a    *)
(* run are exactly those of the positions its loop has passed.             *)
(***************************************************************************)
EXTENDS Pipeline, Registry, Integers, FiniteSetTheorems, SequenceTheorems, TLAPS

\* A greedy order of all the stages is a topological order: what Resolve stores
\* can be executed from left to right.
LEMMA KahnIsTopo ==
    ASSUME NEW dep, NEW o, o \in Seq(Nat), IsKahnOrder(dep, o)
    PROVE  IsTopoOrder(dep, o)
  <1>1. ASSUME NEW i \in 1..Len(o)
        PROVE  /\ o[i] \in DOMAIN dep
               /\ o[i] \notin Before(o, i)
               /\ DepSet(dep, o[i]) \subseteq Before(o, i)
    BY DEF IsKahnOrder, IsKahnPrefix, Ready
  <1>2. ASSUME NEW i \in 1..Len(o), NEW j \in 1..Len(o), o[i] = o[j]
        PROVE  i = j
    <2>1. ~ (i < j)
      BY <1>1, <1>2 DEF Before
    <2>2. ~ (j < i)
      BY <1>1, <1>2 DEF Before
    <2> QED
      BY <2>1, <2>2
  <1> QED
    BY <1>1, <1>2 DEF IsTopoOrder, IsClosedOrder, IsKahnOrder

\* Adding a stage leaves an order of the stages that were there executable.
LEMMA WithStageKeepsOrder ==
    ASSUME NEW dep, NEW n, NEW ds, NEW o,
           n \notin DOMAIN dep, IsClosedOrder(dep, o)
    PROVE  IsClosedOrder(WithStage(dep, n, ds), o)
  <1>1. /\ DOMAIN WithStage(dep, n, ds) = DOMAIN dep \cup {n}
        /\ \A m \in DOMAIN dep : WithStage(dep, n, ds)[m] = dep[m]
    BY DEF WithStage
  <1>2. \A m \in DOMAIN dep : DepSet(WithStage(dep, n, ds), m) = DepSet(dep, m)
    BY <1>1 DEF DepSet
  <1> QED
    BY <1>1, <1>2 DEF IsClosedOrder

\* A results map that run r may have: its entries are registered stages, their
\* dependencies returned without an error, their tables made from what the map
\* shows.
GoodResults(r, rs) ==
    \A n \in DOMAIN rs :
        /\ n \in DOMAIN stages
        /\ \A d \in DepSet(stages, n) : d \in DOMAIN rs /\ rs[d].error # "returned"
        /\ FedAsShown(r, rs, n)

AddInv == \A a \in adding : a[1] \notin DOMAIN stages

OrderInv == IsClosedOrder(stages, order) /\ ResolvedOrderSound

\* The progress of run r.
RunInv(r) ==
    /\ IsClosedOrder(stages, runOrder[r])
    /\ GoodResults(r, local[r])
    /\ \A n, m \in DOMAIN local[r] : local[r][n].error = "returned" /\ local[r][m].error = "returned" => n = m
    /\ pc[r] # "idle" =>
         /\ pos[r] <= Len(runOrder[r]) + 1
         /\ DOMAIN local[r] = Before(runOrder[r], pos[r])
         /\ \A n \in DOMAIN local[r] : local[r][n].error # "returned"
    /\ pc[r] = "stage" =>
         /\ pos[r] <= Len(runOrder[r])
         /\ feed[r] = ResolveInput(r, Stage(r), local[r])
         /\ feed[r] \in Tables

\* The stage that is running when the context is cancelled is the last one.
LateInv(r) ==
    /\ late[r] <= 1
    /\ pc[r] = "stage" => late[r] = 0
    /\ pc[r] = "loop" /\ ~ done[r] => late[r] = 0

PublishedInv ==
    \E r \in Runners : /\ GoodResults(r, results)
                       /\ \A n \in DOMAIN results : results[n].error # "returned"

IInv ==
    /\ TypeOK
    /\ AddInv
    /\ OrderInv
    /\ \A r \in Runners : RunInv(r) /\ LateInv(r)
    /\ PublishedInv

-------------------------------------------------------------------------------
(* Lemmas *)

\* The choice of a stage's input looks at its last dependency only: it does not
\* change when a result of another stage is added to a map that has it.
LEMMA ResolveInputStable ==
    ASSUME NEW r, NEW n \in DOMAIN stages, NEW rs, NEW m, NEW sr,
           stages[n] \in Seq(Nat),
           DepSet(stages, n) \subseteq DOMAIN rs, m \notin DOMAIN rs
    PROVE  ResolveInput(r, n, WithResult(rs, m, sr)) = ResolveInput(r, n, rs)
  <1> DEFINE deps == stages[n]
             last == deps[Len(deps)]
  <1>1. CASE deps = <<>>
    BY <1>1 DEF ResolveInput
  <1>2. CASE deps # <<>>
    <2>1. Len(deps) \in DOMAIN deps
      BY <1>2
    <2>2. last \in DOMAIN rs /\ last # m
      BY <2>1 DEF DepSet
    <2>3. /\ last \in DOMAIN WithResult(rs, m, sr)
          /\ WithResult(rs, m, sr)[last] = rs[last]
      BY <2>2 DEF WithResult
    <2> QED
      BY <1>2, <2>2, <2>3 DEF ResolveInput
  <1> QED
    BY <1>1, <1>2

\* The input of a stage is a table, never nil.
LEMMA ResolveInputType ==
    ASSUME NEW r \in Runners, NEW n, NEW rs, IsResults(rs)
    PROVE  ResolveInput(r, n, rs) \in Tables
  <1>1. Original(r) \in Tables
    BY DEF Original, Tables
  <1>2. \A d \in DOMAIN rs : rs[d].table # Nil => rs[d].table \in Tables
    BY DEF IsResults, StageResults
  <1> QED
    BY <1>1, <1>2 DEF ResolveInput

\* A new last result keeps a results map good.
LEMMA GoodResultsExtend ==
    ASSUME TypeOK, NEW r \in Runners, NEW rs, NEW m, NEW sr,
           GoodResults(r, rs), \A n \in DOMAIN rs : rs[n].error # "returned",
           m \in DOMAIN stages, m \notin DOMAIN rs,
           DepSet(stages, m) \subseteq DOMAIN rs,
           sr.table # Nil => sr.table = Through(ResolveInput(r, m, rs), m)
    PROVE  GoodResults(r, WithResult(rs, m, sr))
  <1> DEFINE rt == WithResult(rs, m, sr)
  <1>1. /\ DOMAIN rt = DOMAIN rs \cup {m}
        /\ rt[m] = sr
        /\ \A n \in DOMAIN rs : rt[n] = rs[n]
    BY DEF WithResult
  <1>2. ASSUME NEW n \in DOMAIN rt
        PROVE  /\ n \in DOMAIN stages
               /\ DepSet(stages, n) \subseteq DOMAIN rs
               /\ rt[n].table # Nil =>
                    rt[n].table = Through(ResolveInput(r, n, rs), n)
    BY <1>1 DEF GoodResults, FedAsShown
  <1>3. ASSUME NEW n \in DOMAIN rt
        PROVE  ResolveInput(r, n, rt) = ResolveInput(r, n, rs)
    <2>1. stages[n] \in Seq(Nat)
      BY <1>2, DepListsAssumption DEF TypeOK, IsStageMap
    <2> QED
      BY <1>2, <2>1, ResolveInputStable
  <1>4. ASSUME NEW n \in DOMAIN rt, NEW d \in DepSet(stages, n)
        PROVE  d \in DOMAIN rt /\ rt[d].error # "returned"
    BY <1>1, <1>2
  <1> QED
    BY <1>2, <1>3, <1>4 DEF GoodResults, FedAsShown

\* What is good stays good when a stage is added.
LEMMA GoodResultsWithStage ==
    ASSUME NEW r, NEW rs, NEW n, NEW ds,
           GoodResults(r, rs), n \notin DOMAIN stages,
           stages' = WithStage(stages, n, ds)
    PROVE  \A m \in DOMAIN rs :
              /\ m \in DOMAIN stages'
              /\ stages'[m] = stages[m]
              /\ DepSet(stages', m) = DepSet(stages, m)
  <1>1. \A m \in DOMAIN stages : m \in DOMAIN stages' /\ stages'[m] = stages[m]
    BY DEF WithStage
  <1> QED
    BY <1>1 DEF GoodResults, DepSet

\* One more position passed.
LEMMA BeforeNext ==
    ASSUME NEW o, NEW i \in Nat \ {0}
    PROVE  Before(o, i + 1) = Before(o, i) \cup {o[i]}
  <1>1. 1..((i + 1) - 1) = 1..(i - 1) \cup {i}
    OBVIOUS
  <1> QED
    BY <1>1 DEF Before

LEMMA InitIInv == Init => IInv
  <1> SUFFICES ASSUME Init PROVE IInv
    OBVIOUS
  <1>1. TypeOK
    <2>1. IsResults(NoResults)
      BY DEF IsResults, NoResults
    <2>2. IsStageMap(stages)
      BY DEF Init, IsStageMap
    <2>3. results = NoResults /\ \A r \in Runners : local[r] = NoResults
      BY DEF Init
    <2>4. order \in Seq(Names) /\ runOrder \in [Runners -> Seq(Names)]
      BY EmptySeq DEF Init
    <2>5. DOMAIN local = Runners /\ \A r \in Runners : IsResults(local[r])
      BY <2>1 DEF Init
    <2>6. /\ done \in [Runners -> BOOLEAN]
          /\ resolved \in BOOLEAN
          /\ crashed \in BOOLEAN
      BY DEF Init
    <2>7. /\ pc \in [Runners -> {"idle", "loop", "stage"}]
          /\ pos \in [Runners -> Nat \ {0}]
          /\ late \in [Runners -> Nat]
          /\ feed \in [Runners -> Tables \cup {Nil}]
          /\ adding \subseteq Names \X DepLists
      BY DEF Init
    <2>8. IsResults(results)
      BY <2>1, <2>3
    <2> QED
      BY <2>2, <2>4, <2>5, <2>6, <2>7, <2>8 DEF TypeOK
  <1>2. \A r \in Runners : RunInv(r) /\ LateInv(r)
    BY DEF Init, RunInv, LateInv, GoodResults, NoResults, IsClosedOrder
  <1>3. AddInv /\ OrderInv /\ PublishedInv
    BY RunnersAssumption
    DEF Init, AddInv, OrderInv, PublishedInv, GoodResults, NoResults,
        IsClosedOrder, ResolvedOrderSound
  <1> QED
    BY <1>1, <1>2, <1>3 DEF IInv

-------------------------------------------------------------------------------
(* What a step does not touch *)

\* A run keeps its invariant over a step that changes neither it nor the stages.
LEMMA RunFrame ==
    ASSUME NEW q \in Runners, RunInv(q), LateInv(q), stages' = stages,
           pc'[q] = pc[q], done'[q] = done[q], runOrder'[q] = runOrder[q],
           pos'[q] = pos[q], local'[q] = local[q], feed'[q] = feed[q],
           late'[q] = late[q]
    PROVE  RunInv(q)' /\ LateInv(q)'
  <1>1. Stage(q)' = Stage(q)
    BY DEF Stage
  <1>2. \A n, rs : ResolveInput(q, n, rs)' = ResolveInput(q, n, rs')
    BY DEF ResolveInput, Original
  <1>3. \A n : ResolveInput(q, n, local[q])' = ResolveInput(q, n, local[q])
    BY DEF ResolveInput, Original
  <1>4. GoodResults(q, local[q])'
    BY <1>3 DEF RunInv, GoodResults, FedAsShown, Through
  <1> QED
    BY <1>1, <1>3, <1>4 DEF RunInv, LateInv

\* What is published stays whole when neither it nor the stages change.
LEMMA PublishedFrame ==
    ASSUME PublishedInv, stages' = stages, results' = results
    PROVE  PublishedInv'
  <1>1. PICK r \in Runners : /\ GoodResults(r, results)
                             /\ \A n \in DOMAIN results : results[n].error # "returned"
    BY DEF PublishedInv
  <1>2. \A n : ResolveInput(r, n, results)' = ResolveInput(r, n, results)
    BY DEF ResolveInput, Original
  <1>3. GoodResults(r, results)'
    BY <1>1, <1>2 DEF GoodResults, FedAsShown, Through
  <1> QED
    BY <1>1, <1>3 DEF PublishedInv

\* The invariant of the shared state survives when neither the stages nor the
\* order, the mark and the results change.
LEMMA SharedFrame ==
    ASSUME IInv, stages' = stages, order' = order, resolved' = resolved,
           results' = results
    PROVE  OrderInv' /\ PublishedInv'
  <1>1. OrderInv'
    BY DEF IInv, OrderInv, ResolvedOrderSound
  <1> QED
    BY <1>1, PublishedFrame DEF IInv

-------------------------------------------------------------------------------
(* The steps of AddStage and Resolve *)

LEMMA AddBeginStep ==
    ASSUME IInv, NEW n \in Names, NEW deps \in DepLists, AddBegin(n, deps)
    PROVE  IInv'
  <1> USE DEF AddBegin, calls
  <1>1. TypeOK'
    BY DEF IInv, TypeOK, IsStageMap, IsResults
  <1>2. AddInv'
    BY DEF AddInv
  <1>3. OrderInv' /\ PublishedInv'
    BY SharedFrame
  <1>4. \A q \in Runners : RunInv(q)' /\ LateInv(q)'
    BY RunFrame DEF IInv
  <1> QED
    BY <1>1, <1>2, <1>3, <1>4 DEF IInv

LEMMA AddEndStep ==
    ASSUME IInv, AddEnd
    PROVE  IInv'
  <1> USE DEF AddEnd, calls
  <1>1. PICK a \in adding : stages' = WithStage(stages, a[1], a[2])
    OBVIOUS
  <1> DEFINE n == a[1]
             ds == a[2]
  <1>2. n \in Names /\ ds \in DepLists /\ n \notin DOMAIN stages
    BY DEF IInv, TypeOK, AddInv
  <1>3. IsStageMap(stages)'
    BY <1>1, <1>2 DEF IInv, TypeOK, IsStageMap, WithStage
  <1>4. TypeOK'
    BY <1>3 DEF IInv, TypeOK, IsResults
  <1>5. AddInv'
    BY DEF AddInv
  <1>6. OrderInv'
    BY <1>1, <1>2, WithStageKeepsOrder
    DEF IInv, OrderInv, ResolvedOrderSound
  <1>7. ASSUME NEW r \in Runners, NEW rs, GoodResults(r, rs)
        PROVE  /\ \A m \in DOMAIN rs : /\ m \in DOMAIN stages'
                                      /\ DepSet(stages', m) = DepSet(stages, m)
               /\ \A m \in DOMAIN rs : stages'[m] = stages[m]
    BY <1>1, <1>2, <1>7, GoodResultsWithStage
  <1>8. PublishedInv'
    <2>1. PICK r \in Runners : /\ GoodResults(r, results)
                               /\ \A m \in DOMAIN results : results[m].error # "returned"
      BY DEF IInv, PublishedInv
    <2>2. \A m \in DOMAIN results :
             ResolveInput(r, m, results)' = ResolveInput(r, m, results)
      BY <1>7, <2>1 DEF ResolveInput, Original
    <2>3. GoodResults(r, results)'
      BY <1>7, <2>1, <2>2 DEF GoodResults, FedAsShown, Through
    <2> QED
      BY <2>1, <2>3 DEF PublishedInv
  <1>9. ASSUME NEW q \in Runners PROVE RunInv(q)' /\ LateInv(q)'
    <2>1. RunInv(q) /\ LateInv(q)
      BY DEF IInv
    <2>2. \A m \in DOMAIN local[q] :
             ResolveInput(q, m, local[q])' = ResolveInput(q, m, local[q])
      BY <1>7, <2>1 DEF RunInv, ResolveInput, Original
    <2>3. GoodResults(q, local[q])'
      <3>1. GoodResults(q, local[q]) /\ local' = local
        BY <2>1 DEF RunInv
      <3>2. ASSUME NEW m \in DOMAIN local[q]
            PROVE  /\ m \in DOMAIN stages'
                   /\ \A d \in DepSet(stages', m) :
                        d \in DOMAIN local[q] /\ local[q][d].error # "returned"
        BY <1>7, <3>1 DEF GoodResults
      <3>3. ASSUME NEW m \in DOMAIN local[q]
            PROVE  FedAsShown(q, local[q], m)'
        BY <2>2, <3>1 DEF GoodResults, FedAsShown, Through
      <3> QED
        BY <3>1, <3>2, <3>3 DEF GoodResults
    <2>4. IsClosedOrder(stages', runOrder[q])
      BY <1>1, <1>2, <2>1, WithStageKeepsOrder DEF RunInv
    <2>5. ASSUME pc[q] = "stage"
          PROVE  ResolveInput(q, Stage(q), local[q])' = ResolveInput(q, Stage(q), local[q])
      <3>1. Stage(q)' = Stage(q)
        BY DEF Stage
      <3>2. pos[q] \in 1..Len(runOrder[q])
        BY <2>1, <2>5 DEF RunInv, IInv, TypeOK
      <3>3. Stage(q) \in DOMAIN stages
        BY <2>1, <3>2 DEF RunInv, IsClosedOrder, Stage
      <3>4. stages'[Stage(q)] = stages[Stage(q)]
        BY <1>1, <1>2, <3>3 DEF WithStage
      <3> QED
        BY <3>1, <3>4 DEF ResolveInput, Original
    <2> QED
      BY <2>1, <2>3, <2>4, <2>5 DEF RunInv, LateInv
  <1> QED
    BY <1>4, <1>5, <1>6, <1>8, <1>9 DEF IInv

LEMMA ResolveStep ==
    ASSUME IInv, Resolve
    PROVE  IInv'
  <1> USE DEF Resolve, calls
  <1>1. PICK o \in Orders : order' = o
    OBVIOUS
  <1>2. IsKahnOrder(stages, o) /\ o \in [1..Cardinality(DOMAIN stages) -> DOMAIN stages]
    BY DEF Orders
  <1>3. Cardinality(DOMAIN stages) \in Nat /\ DOMAIN stages \subseteq Names
    BY NamesAssumption, FS_Subset, FS_CardinalityType DEF IInv, TypeOK, IsStageMap
  <1>4. o \in Seq(Names) /\ o \in Seq(Nat)
    <2>1. \A k \in Nat : \A S : [1..k -> S] \subseteq Seq(S)
      OBVIOUS
    <2>2. o \in Seq(DOMAIN stages)
      BY <1>2, <1>3, <2>1
    <2> QED
      BY <1>3, <2>2, NamesAssumption, SeqMonotonic
  <1>5. IsTopoOrder(stages, o)
    BY <1>2, <1>4, KahnIsTopo
  <1>6. TypeOK'
    BY <1>1, <1>4 DEF IInv, TypeOK, IsStageMap, IsResults
  <1>7. OrderInv'
    BY <1>1, <1>5 DEF OrderInv, ResolvedOrderSound, IsTopoOrder
  <1>8. PublishedInv'
    BY PublishedFrame DEF IInv
  <1>9. \A q \in Runners : RunInv(q)' /\ LateInv(q)'
    BY RunFrame DEF IInv
  <1>10. AddInv'
    BY DEF IInv, AddInv
  <1> QED
    BY <1>6, <1>7, <1>8, <1>9, <1>10 DEF IInv
-------------------------------------------------------------------------------
(* The steps of Run *)

\* A step of run r leaves the other runs alone.
Alone(r) ==
    \A q \in Runners \ {r} :
        /\ pc'[q] = pc[q]             /\ done'[q] = done[q]
        /\ runOrder'[q] = runOrder[q] /\ pos'[q] = pos[q]
        /\ local'[q] = local[q]       /\ feed'[q] = feed[q]
        /\ late'[q] = late[q]

\* What is left to show of a step of run r that does not publish.
LEMMA RunnerStep ==
    ASSUME IInv, NEW r \in Runners, UNCHANGED shared, Alone(r),
           TypeOK', RunInv(r)', LateInv(r)'
    PROVE  IInv'
  <1> USE DEF shared
  <1>1. \A q \in Runners \ {r} : RunInv(q)' /\ LateInv(q)'
    BY RunFrame DEF IInv, Alone
  <1>2. OrderInv' /\ PublishedInv'
    BY SharedFrame
  <1>3. AddInv'
    BY DEF IInv, AddInv
  <1> QED
    BY <1>1, <1>2, <1>3 DEF IInv

\* What Return leaves of a run whose map is good.
LEMMA ReturnStep ==
    ASSUME TypeOK, NEW r \in Runners, Return(r),
           DOMAIN local' = Runners, IsResults(local'[r]),
           GoodResults(r, local[r])',
           \A n, m \in DOMAIN local'[r] :
              local'[r][n].error = "returned" /\ local'[r][m].error = "returned" => n = m
    PROVE  RunInv(r)'
  <1>1. pc'[r] = "idle" /\ runOrder'[r] = <<>>
    BY DEF TypeOK, Return
  <1>2. IsClosedOrder(stages', runOrder'[r])
    BY <1>1 DEF IsClosedOrder
  <1> QED
    BY <1>1, <1>2 DEF RunInv

LEMMA RunUnresolvedStep ==
    ASSUME IInv, NEW r \in Runners, RunUnresolved(r)
    PROVE  IInv'
  <1> USE DEF RunUnresolved
  <1>1. local'[r] = NoResults /\ DOMAIN local' = Runners /\ IsResults(local'[r])
    BY DEF IInv, TypeOK, IsResults, NoResults
  <1>2. TypeOK'
    BY <1>1 DEF IInv, TypeOK, shared, IsStageMap, IsResults
  <1>3. RunInv(r)'
    BY <1>1 DEF IInv, RunInv, GoodResults, NoResults, shared
  <1>4. LateInv(r)'
    BY DEF IInv, LateInv
  <1>5. Alone(r)
    BY DEF Alone, IInv, TypeOK
  <1> QED
    BY <1>2, <1>3, <1>4, <1>5, RunnerStep

LEMMA RunStartStep ==
    ASSUME IInv, NEW r \in Runners, RunStart(r)
    PROVE  IInv'
  <1> USE DEF RunStart
  <1>1. local'[r] = NoResults /\ DOMAIN local' = Runners /\ IsResults(local'[r])
    BY DEF IInv, TypeOK, IsResults, NoResults
  <1>2. TypeOK'
    BY <1>1 DEF IInv, TypeOK, shared, IsStageMap, IsResults
  <1>3. RunInv(r)'
    <2>1. /\ runOrder'[r] = order /\ stages' = stages /\ pos'[r] = 1
          /\ pc'[r] = "loop" /\ Len(order) \in Nat
      BY DEF IInv, TypeOK, shared
    <2>2. IsClosedOrder(stages', runOrder'[r])
      BY <2>1 DEF IInv, OrderInv
    <2>3. DOMAIN local'[r] = {} /\ Before(runOrder'[r], pos'[r]) = {}
      BY <1>1, <2>1 DEF NoResults, Before
    <2>4. GoodResults(r, local[r])'
      BY <2>3 DEF GoodResults
    <2>5. pos'[r] <= Len(runOrder'[r]) + 1
      BY <2>1
    <2> QED
      BY <2>1, <2>2, <2>3, <2>4, <2>5 DEF RunInv
  <1>4. LateInv(r)'
    BY DEF IInv, TypeOK, LateInv
  <1>5. Alone(r)
    BY DEF Alone, IInv, TypeOK
  <1> QED
    BY <1>2, <1>3, <1>4, <1>5, RunnerStep

LEMMA RunCancelledStep ==
    ASSUME IInv, NEW r \in Runners, RunCancelled(r)
    PROVE  IInv'
  <1> USE DEF RunCancelled
  <1>1. TypeOK /\ RunInv(r) /\ LateInv(r)
    BY DEF IInv
  <1>2. TypeOK'
    BY <1>1, EmptySeq DEF TypeOK, shared, IsStageMap, IsResults, Return
  <1>3. GoodResults(r, local[r])'
    <2>1. stages' = stages /\ local' = local
      BY DEF shared
    <2>2. \A n : ResolveInput(r, n, local[r])' = ResolveInput(r, n, local[r])
      BY <2>1 DEF ResolveInput, Original
    <2> QED
      BY <1>1, <2>1, <2>2 DEF RunInv, GoodResults, FedAsShown, Through
  <1>4. RunInv(r)'
    <2>1. DOMAIN local' = Runners /\ IsResults(local'[r])
      BY <1>2 DEF TypeOK
    <2>2. \A n, m \in DOMAIN local'[r] :
             local'[r][n].error = "returned" /\ local'[r][m].error = "returned" => n = m
      BY <1>1 DEF RunInv
    <2> QED
      BY <1>1, <1>3, <2>1, <2>2, ReturnStep
  <1>5. LateInv(r)' /\ Alone(r)
    BY <1>1 DEF TypeOK, LateInv, Return, Alone
  <1> QED
    BY <1>2, <1>4, <1>5, RunnerStep

LEMMA StartStageStep ==
    ASSUME IInv, NEW r \in Runners, StartStage(r)
    PROVE  IInv'
  <1> USE DEF StartStage, HasNext
  <1>1. TypeOK /\ RunInv(r) /\ LateInv(r)
    BY DEF IInv
  <1>2. ResolveInput(r, Stage(r), local[r]) \in Tables
    BY <1>1, ResolveInputType DEF TypeOK
  <1>3. TypeOK'
    BY <1>1, <1>2 DEF TypeOK, shared, IsStageMap, IsResults
  <1>4. RunInv(r)'
    <2>1. /\ stages' = stages /\ local' = local /\ runOrder' = runOrder /\ pos' = pos
          /\ pc'[r] = "stage" /\ feed'[r] = ResolveInput(r, Stage(r), local[r])
      BY <1>1 DEF TypeOK, shared
    <2>2. \A n : ResolveInput(r, n, local[r])' = ResolveInput(r, n, local[r])
      BY <2>1 DEF ResolveInput, Original
    <2>3. Stage(r)' = Stage(r)
      BY <2>1 DEF Stage
    <2>4. GoodResults(r, local[r])'
      BY <1>1, <2>1, <2>2 DEF RunInv, GoodResults, FedAsShown, Through
    <2> QED
      BY <1>1, <1>2, <2>1, <2>2, <2>3, <2>4 DEF RunInv
  <1>5. LateInv(r)' /\ Alone(r)
    BY <1>1 DEF TypeOK, LateInv, Alone
  <1> QED
    BY <1>3, <1>4, <1>5, RunnerStep

LEMMA CancelStep ==
    ASSUME IInv, NEW r \in Runners, Cancel(r)
    PROVE  IInv'
  <1> USE DEF Cancel
  <1>1. TypeOK /\ RunInv(r) /\ LateInv(r)
    BY DEF IInv
  <1>2. TypeOK'
    BY <1>1 DEF TypeOK, shared, IsStageMap, IsResults
  <1>3. RunInv(r)'
    <2>1. stages' = stages /\ local' = local
      BY DEF shared
    <2>2. \A n : ResolveInput(r, n, local[r])' = ResolveInput(r, n, local[r])
      BY <2>1 DEF ResolveInput, Original
    <2>3. GoodResults(r, local[r])'
      BY <1>1, <2>1, <2>2 DEF RunInv, GoodResults, FedAsShown, Through
    <2>4. Stage(r)' = Stage(r)
      BY DEF Stage
    <2> QED
      BY <1>1, <2>1, <2>2, <2>3, <2>4 DEF RunInv
  <1>4. LateInv(r)' /\ Alone(r)
    BY <1>1 DEF TypeOK, LateInv, Alone
  <1> QED
    BY <1>2, <1>3, <1>4, RunnerStep
\* A stage that runs is registered, has not run before in this call, and its
\* dependencies have.
LEMMA RunningStage ==
    ASSUME IInv, NEW r \in Runners, pc[r] = "stage"
    PROVE  /\ pos[r] \in 1..Len(runOrder[r])
           /\ Stage(r) \in DOMAIN stages
           /\ Stage(r) \in Names
           /\ Stage(r) \notin DOMAIN local[r]
           /\ DepSet(stages, Stage(r)) \subseteq DOMAIN local[r]
           /\ \A n \in DOMAIN local[r] : local[r][n].error # "returned"
           /\ DOMAIN local[r] = Before(runOrder[r], pos[r])
           /\ GoodResults(r, local[r])
           /\ feed[r] = ResolveInput(r, Stage(r), local[r])
           /\ feed[r] \in Tables
  <1>1. TypeOK /\ RunInv(r)
    BY DEF IInv
  <1>2. pos[r] \in 1..Len(runOrder[r])
    BY <1>1 DEF TypeOK, RunInv
  <1>3. DOMAIN local[r] = Before(runOrder[r], pos[r])
    BY <1>1 DEF RunInv
  <1>4. /\ Stage(r) \in DOMAIN stages
        /\ DepSet(stages, Stage(r)) \subseteq Before(runOrder[r], pos[r])
    BY <1>1, <1>2 DEF RunInv, IsClosedOrder, Stage
  <1>5. Stage(r) \notin Before(runOrder[r], pos[r])
    <2> SUFFICES ASSUME NEW j \in 1..(pos[r] - 1), runOrder[r][j] = Stage(r)
                 PROVE  FALSE
      BY DEF Before
    <2>1. j \in 1..Len(runOrder[r]) /\ j # pos[r]
      BY <1>2
    <2> QED
      BY <1>1, <1>2, <2>1 DEF RunInv, IsClosedOrder, Stage
  <1>6. Stage(r) \in Names
    BY <1>1, <1>4 DEF TypeOK, IsStageMap
  <1> QED
    BY <1>1, <1>2, <1>3, <1>4, <1>5, <1>6 DEF RunInv

\* A good map is a good map after a step that leaves the stages as they are.
LEMMA GoodResultsNext ==
    ASSUME NEW r, stages' = stages, GoodResults(r, local'[r])
    PROVE  GoodResults(r, local[r])'
  <1>1. \A n : ResolveInput(r, n, local[r])' = ResolveInput(r, n, local'[r])
    BY DEF ResolveInput, Original
  <1> QED
    BY <1>1 DEF GoodResults, FedAsShown, Through

\* The map with the result of the stage that has run.
LEMMA ResultRecorded ==
    ASSUME IInv, NEW r \in Runners, pc[r] = "stage", stages' = stages,
           NEW sr, sr \in StageResults,
           sr.table # Nil => sr.table = Through(feed[r], Stage(r)),
           local' = [local EXCEPT ![r] = WithResult(@, Stage(r), sr)]
    PROVE  /\ local'[r] = WithResult(local[r], Stage(r), sr)
           /\ DOMAIN local' = Runners
           /\ \A q \in Runners : IsResults(local'[q])
           /\ GoodResults(r, local[r])'
           /\ DOMAIN local'[r] = DOMAIN local[r] \cup {Stage(r)}
           /\ \A n \in DOMAIN local[r] : local'[r][n].error # "returned"
           /\ local'[r][Stage(r)] = sr
  <1>1. TypeOK
    BY DEF IInv
  <1>2. local'[r] = WithResult(local[r], Stage(r), sr) /\ DOMAIN local' = Runners
    BY <1>1 DEF TypeOK
  <1>3. /\ DOMAIN local'[r] = DOMAIN local[r] \cup {Stage(r)}
        /\ \A n \in DOMAIN local[r] : local'[r][n] = local[r][n]
        /\ local'[r][Stage(r)] = sr
    BY <1>2, RunningStage DEF WithResult
  <1>4. IsResults(local'[r])
    BY <1>1, <1>2, <1>3, RunningStage DEF TypeOK, IsResults, WithResult
  <1>5. \A q \in Runners : IsResults(local'[q])
    BY <1>1, <1>4 DEF TypeOK
  <1>6. GoodResults(r, local'[r])
    BY <1>1, <1>2, RunningStage, GoodResultsExtend
  <1>7. GoodResults(r, local[r])'
    BY <1>6, GoodResultsNext
  <1> QED
    BY <1>2, <1>3, <1>5, <1>7, RunningStage

LEMMA StageReturnsStep ==
    ASSUME IInv, NEW r \in Runners, StageReturns(r)
    PROVE  IInv'
  <1>1. TypeOK /\ LateInv(r) /\ RunInv(r)
    BY DEF IInv
  <1>2. PICK e \in Endings :
           LET t == IF e.table THEN Through(feed[r], Stage(r)) ELSE Nil
           IN  local' = [local EXCEPT ![r] =
                           WithResult(@, Stage(r), [table |-> t, error |-> e.error])]
    BY DEF StageReturns
  <1> DEFINE t == IF e.table THEN Through(feed[r], Stage(r)) ELSE Nil
             sr == [table |-> t, error |-> e.error]
  <1>3. /\ UNCHANGED <<shared, crashed, done, runOrder, feed>> /\ stages' = stages
        /\ pc[r] = "stage" /\ CountLate(r)
        /\ pos' = [pos EXCEPT ![r] = @ + 1]
        /\ pc' = [pc EXCEPT ![r] = "loop"]
    BY DEF StageReturns, shared
  <1>4. Through(feed[r], Stage(r)) \in Tables
    <2>1. feed[r] \in Tables /\ Stage(r) \in Nat
      BY <1>3, RunningStage, NamesAssumption
    <2>2. feed[r].root \in Runners /\ feed[r].path \in Seq(Nat)
      BY <2>1 DEF Tables
    <2>3. Append(feed[r].path, Stage(r)) \in Seq(Nat)
      BY <2>1, <2>2
    <2> QED
      BY <2>1, <2>2, <2>3 DEF Through, Tables
  <1>5. /\ sr \in StageResults /\ sr.error # "returned"
        /\ sr.table # Nil => sr.table = Through(feed[r], Stage(r))
    BY <1>4, EndingsAssumption DEF StageResults
  <1>6. /\ DOMAIN local' = Runners
        /\ \A q \in Runners : IsResults(local'[q])
        /\ GoodResults(r, local[r])'
        /\ DOMAIN local'[r] = DOMAIN local[r] \cup {Stage(r)}
        /\ \A n \in DOMAIN local[r] : local'[r][n].error # "returned"
        /\ local'[r][Stage(r)] = sr
    BY <1>2, <1>3, <1>5, ResultRecorded
  <1>7. TypeOK'
    BY <1>1, <1>3, <1>6 DEF TypeOK, shared, IsStageMap, IsResults, CountLate
  <1>8. RunInv(r)'
    <2>1. /\ pos'[r] = pos[r] + 1 /\ pc'[r] = "loop" /\ runOrder'[r] = runOrder[r]
          /\ pos[r] \in Nat \ {0} /\ pos[r] \in 1..Len(runOrder[r])
      BY <1>1, <1>3, RunningStage DEF TypeOK
    <2>2. \A n \in DOMAIN local'[r] : local'[r][n].error # "returned"
      BY <1>5, <1>6
    <2>3. DOMAIN local'[r] = Before(runOrder'[r], pos'[r])
      BY <1>3, <1>6, <2>1, RunningStage, BeforeNext DEF Stage
    <2>4. IsClosedOrder(stages', runOrder'[r])
      BY <1>1, <1>3, <2>1 DEF RunInv
    <2>5. pos'[r] <= Len(runOrder'[r]) + 1
      BY <1>1, <2>1 DEF TypeOK
    <2> QED
      BY <1>6, <2>1, <2>2, <2>3, <2>4, <2>5 DEF RunInv
  <1>9. LateInv(r)' /\ Alone(r)
    BY <1>1, <1>2, <1>3 DEF TypeOK, LateInv, Alone, CountLate
  <1> QED
    BY <1>3, <1>7, <1>8, <1>9, RunnerStep

LEMMA StageFailsStep ==
    ASSUME IInv, NEW r \in Runners, StageFails(r)
    PROVE  IInv'
  <1> DEFINE sr == [table |-> Nil, error |-> "returned"]
  <1>1. TypeOK /\ LateInv(r)
    BY DEF IInv
  <1>2. /\ UNCHANGED <<shared, crashed, done>> /\ stages' = stages
        /\ pc[r] = "stage" /\ CountLate(r) /\ Return(r)
        /\ local' = [local EXCEPT ![r] = WithResult(@, Stage(r), sr)]
    BY DEF StageFails, shared
  <1>3. sr \in StageResults /\ sr.table = Nil
    BY DEF StageResults
  <1>4. /\ DOMAIN local' = Runners
        /\ \A q \in Runners : IsResults(local'[q])
        /\ GoodResults(r, local[r])'
        /\ DOMAIN local'[r] = DOMAIN local[r] \cup {Stage(r)}
        /\ \A n \in DOMAIN local[r] : local'[r][n].error # "returned"
    BY <1>2, <1>3, ResultRecorded
  <1>5. TypeOK'
    <2>1. /\ runOrder' \in [Runners -> Seq(Names)]
          /\ pc' \in [Runners -> {"idle", "loop", "stage"}]
          /\ pos' \in [Runners -> Nat \ {0}]
          /\ feed' \in [Runners -> Tables \cup {Nil}]
      BY <1>1, <1>2, EmptySeq DEF TypeOK, Return
    <2>2. late' \in [Runners -> Nat]
      BY <1>1, <1>2 DEF TypeOK, CountLate
    <2>3. IsStageMap(stages') /\ IsResults(results')
      BY <1>1, <1>2 DEF TypeOK, shared
    <2> QED
      BY <1>1, <1>2, <1>4, <2>1, <2>2, <2>3 DEF TypeOK, shared
  <1>6. RunInv(r)'
    <2>1. \A n, m \in DOMAIN local'[r] :
             local'[r][n].error = "returned" /\ local'[r][m].error = "returned" => n = m
      BY <1>4
    <2> QED
      BY <1>1, <1>2, <1>4, <2>1, ReturnStep
  <1>7. LateInv(r)' /\ Alone(r)
    BY <1>1, <1>2 DEF TypeOK, LateInv, Alone, CountLate, Return
  <1> QED
    BY <1>2, <1>5, <1>6, <1>7, RunnerStep

LEMMA RunPublishStep ==
    ASSUME IInv, NEW r \in Runners, RunPublish(r)
    PROVE  IInv'
  <1> USE DEF RunPublish
  <1>1. TypeOK /\ LateInv(r) /\ RunInv(r)
    BY DEF IInv
  <1>2. stages' = stages /\ local' = local /\ results' = local[r]
    OBVIOUS
  <1>3. GoodResults(r, local[r]) /\ \A n \in DOMAIN local[r] : local[r][n].error # "returned"
    BY <1>1 DEF RunInv
  <1>4. TypeOK'
    BY <1>1, EmptySeq DEF TypeOK, IsStageMap, IsResults, Return
  <1>5. PublishedInv'
    <2>1. \A n : ResolveInput(r, n, results)' = ResolveInput(r, n, local[r])
      BY <1>2 DEF ResolveInput, Original
    <2>2. GoodResults(r, results)'
      BY <1>2, <1>3, <2>1 DEF GoodResults, FedAsShown, Through
    <2> QED
      BY <1>2, <1>3, <2>2 DEF PublishedInv
  <1>6. RunInv(r)'
    <2>1. GoodResults(r, local[r])'
      BY <1>2, <1>3, GoodResultsNext
    <2>2. DOMAIN local' = Runners /\ IsResults(local'[r])
      BY <1>4 DEF TypeOK
    <2> QED
      BY <1>1, <1>2, <1>3, <2>1, <2>2, ReturnStep
  <1>7. LateInv(r)' /\ Alone(r)
    BY <1>1 DEF TypeOK, LateInv, Alone, Return
  <1>8. \A q \in Runners \ {r} : RunInv(q)' /\ LateInv(q)'
    BY <1>7, RunFrame DEF IInv, Alone
  <1>9. OrderInv' /\ AddInv'
    BY DEF IInv, OrderInv, ResolvedOrderSound, AddInv
  <1> QED
    BY <1>4, <1>5, <1>6, <1>7, <1>8, <1>9 DEF IInv

\* The process dies, or nothing happens.
LEMMA QuietStep ==
    ASSUME IInv, UNCHANGED <<shared, calls>>, crashed' \in BOOLEAN
    PROVE  IInv'
  <1> USE DEF shared, calls
  <1>1. TypeOK' /\ AddInv'
    BY DEF IInv, TypeOK, IsStageMap, IsResults, AddInv
  <1>2. OrderInv' /\ PublishedInv'
    BY SharedFrame
  <1>3. \A q \in Runners : RunInv(q)' /\ LateInv(q)'
    BY RunFrame DEF IInv
  <1> QED
    BY <1>1, <1>2, <1>3 DEF IInv

LEMMA NextIInv == IInv /\ [Next]_vars => IInv'
  <1> SUFFICES ASSUME IInv, [Next]_vars PROVE IInv'
    OBVIOUS
  <1>1. ASSUME NEW n \in Names, NEW deps \in DepLists, AddBegin(n, deps) PROVE IInv'
    BY <1>1, AddBeginStep
  <1>2. CASE AddEnd
    BY <1>2, AddEndStep
  <1>3. CASE Resolve
    BY <1>3, ResolveStep
  <1>4. ASSUME NEW r \in Runners, RunStep(r) PROVE IInv'
    <2>1. CASE LookupRaces(r) \/ StagePanics(r)
      BY <2>1, QuietStep DEF LookupRaces, StagePanics
    <2> QED
      BY <1>4, <2>1, RunCancelledStep, StartStageStep, StageReturnsStep,
         StageFailsStep, RunPublishStep DEF RunStep
  <1>5. ASSUME NEW r \in Runners, RunUnresolved(r) \/ RunStart(r) \/ Cancel(r)
        PROVE  IInv'
    BY <1>5, RunUnresolvedStep, RunStartStep, CancelStep
  <1>6. CASE UNCHANGED vars
    BY <1>6, QuietStep DEF vars, IInv, TypeOK
  <1> QED
    BY <1>1, <1>2, <1>3, <1>4, <1>5, <1>6 DEF Next, Halted

THEOREM SpecIInv == Spec => []IInv
  BY InitIInv, NextIInv, PTL DEF Spec

-------------------------------------------------------------------------------
(* The results *)

\* Every variable of a pipeline keeps its type, whoever calls what when.
THEOREM TypeCorrect == Spec => []TypeOK
  <1>1. IInv => TypeOK
    BY DEF IInv
  <1> QED
    BY <1>1, SpecIInv, PTL

\* A pipeline marked as resolved has a topological order of all its stages.
THEOREM ResolvedCorrect == Spec => []ResolvedOrderSound
  <1>1. IInv => ResolvedOrderSound
    BY DEF IInv, OrderInv
  <1> QED
    BY <1>1, SpecIInv, PTL

\* No stage runs before its dependencies have returned, without an error, in the
\* same run.
THEOREM DependenciesCorrect == Spec => []DependenciesFirst
  <1>1. IInv => DependenciesFirst
    BY RunningStage DEF DependenciesFirst
  <1> QED
    BY <1>1, SpecIInv, PTL

\* Every table of a run was made from the table of the last dependency.
THEOREM InputCorrect == Spec => []InputFromLastDependency
  <1>1. IInv => InputFromLastDependency
    BY DEF IInv, RunInv, GoodResults, InputFromLastDependency
  <1> QED
    BY <1>1, SpecIInv, PTL

\* The published results are one whole run, and only a run that has gone through
\* its whole order publishes: its results are those of the positions it passed.
THEOREM PublishedCorrect == Spec => PublishedWhole
  <1> DEFINE Publishes ==
        results' # results =>
          \E r \in Runners : /\ pc[r] # "idle"
                             /\ DOMAIN results' = Listed(runOrder[r])
  <1>1. IInv => \E r \in Runners : PublishedBy(r)
    BY DEF IInv, PublishedInv, GoodResults, PublishedBy
  <1>2. IInv /\ [Next]_vars => [Publishes]_vars
    <2> SUFFICES ASSUME IInv, Next, results' # results
                 PROVE  \E r \in Runners : /\ pc[r] # "idle"
                                           /\ DOMAIN results' = Listed(runOrder[r])
      BY DEF Publishes
    <2>1. PICK r \in Runners : RunPublish(r)
      BY DEF Next, Halted, RunStep, AddBegin, AddEnd, Resolve, RunUnresolved, RunStart,
             RunCancelled, StartStage, LookupRaces, StageReturns, StageFails,
             StagePanics, Cancel, shared, calls, vars
    <2>2. TypeOK /\ RunInv(r) /\ pc[r] = "loop" /\ results' = local[r]
      BY <2>1 DEF IInv, RunPublish
    <2>3. pos[r] - 1 = Len(runOrder[r])
      BY <2>1, <2>2 DEF RunPublish, RunInv, TypeOK
    <2>4. DOMAIN results' = Listed(runOrder[r])
      BY <2>2, <2>3 DEF RunInv, Before, Listed
    <2> QED
      BY <2>2, <2>4
  <1> QED
    BY <1>1, <1>2, SpecIInv, PTL DEF Spec, PublishedWhole, Publishes

\* Every checkpoint of a returned map has what is needed to resume the run.
THEOREM CheckpointCorrect == Spec => []CheckpointResumable
  <1>1. ASSUME IInv, NEW r \in Runners, NEW cp \in MakeCheckpoint(local[r])
        PROVE  LET named == cp.completed \cup cp.failed
               IN  /\ \A n \in named :
                        DepSet(stages, n) \subseteq cp.completed \cup OwnErrors(local[r])
                   /\ OwnErrors(local[r]) = {} => named = DOMAIN local[r]
    <2> DEFINE rs == local[r]
    <2>1. /\ GoodResults(r, rs) /\ rs \in [DOMAIN rs -> StageResults]
          /\ \A n, m \in DOMAIN rs :
                rs[n].error = "returned" /\ rs[m].error = "returned" => n = m
      BY <1>1 DEF IInv, RunInv, TypeOK, IsResults
    <2>2. /\ cp.completed = DOMAIN rs \ WithError(rs)
          /\ \/ WithError(rs) = {} /\ cp.failed = {}
             \/ \E n \in WithError(rs) : cp.failed = {n}
      BY <1>1 DEF MakeCheckpoint
    <2>3. \A n \in DOMAIN rs : rs[n].error \in {"none", "own", "returned"}
      BY <2>1 DEF StageResults
    <2>4. WithError(rs) \subseteq DOMAIN rs
      BY DEF WithError
    <2>5. ASSUME NEW n \in cp.completed \cup cp.failed, NEW d \in DepSet(stages, n)
          PROVE  d \in cp.completed \cup OwnErrors(rs)
      <3>1. n \in DOMAIN rs
        BY <2>2, <2>4
      <3>2. d \in DOMAIN rs /\ rs[d].error # "returned"
        BY <2>1, <3>1 DEF GoodResults
      <3> QED
        BY <2>2, <2>3, <3>2 DEF WithError, OwnErrors
    <2>6. ASSUME OwnErrors(rs) = {}
          PROVE  cp.completed \cup cp.failed = DOMAIN rs
      <3>1. \A n, m \in WithError(rs) : n = m
        BY <2>1, <2>3, <2>6 DEF WithError, OwnErrors
      <3>2. cp.failed = WithError(rs)
        BY <2>2, <3>1
      <3> QED
        BY <2>2, <2>4, <3>2
    <2> QED
      BY <2>5, <2>6
  <1>2. IInv => CheckpointResumable
    BY <1>1 DEF CheckpointResumable
  <1> QED
    BY <1>2, SpecIInv, PTL

\* At most one stage ends after the cancellation of a run.
THEOREM CancelCorrect == Spec => []CancelStopsRun
  <1>1. IInv => CancelStopsRun
    BY DEF IInv, LateInv, CancelStopsRun
  <1> QED
    BY <1>1, SpecIInv, PTL

\* Registrations are permanent: an action property, from the guard of AddStage
\* and the exclusion of AddStage calls by the mutex.
THEOREM RegistrationsCorrect == Spec => RegistrationsPermanent
  <1>1. IInv /\ [Next]_vars =>
          [\A n \in DOMAIN stages : n \in DOMAIN stages' /\ stages'[n] = stages[n]]_vars
    <2> SUFFICES ASSUME IInv, Next
                 PROVE  \A n \in DOMAIN stages :
                           n \in DOMAIN stages' /\ stages'[n] = stages[n]
      OBVIOUS
    <2>1. CASE AddEnd
      <3>1. PICK a \in adding : stages' = WithStage(stages, a[1], a[2])
        BY <2>1 DEF AddEnd
      <3>2. a[1] \notin DOMAIN stages
        BY DEF IInv, AddInv
      <3> QED
        BY <3>1, <3>2 DEF WithStage
    <2>2. CASE stages' = stages
      BY <2>2
    <2> QED
      BY <2>1, <2>2
      DEF Next, AddBegin, Resolve, RunUnresolved, RunStart, RunStep, RunCancelled,
          StartStage, LookupRaces, StageReturns, StageFails, StagePanics,
          RunPublish, Cancel, Halted, shared, vars
  <1> QED
    BY <1>1, SpecIInv, PTL DEF Spec, RegistrationsPermanent

-------------------------------------------------------------------------------
(* The registry: of a goroutine's frames only the innermost can have the lock or *)
(* wait for it, because those around it are in their factory.  The lock is       *)
(* therefore a matter of the innermost frames: there is one writer at most, and  *)
(* no reader beside one that is inside.                                          *)

Steps == {"lock", "wait", "drain", "inside", "factory", "callback"}

Frames == [op : Ops, kind : Kinds, factory : Factories, step : Steps]

Fits(f) == /\ f.step = "wait" => f.op # "Register"
           /\ f.step = "drain" => f.op = "Register"

\* A frame calls a factory that was accepted for its kind.
Known(f, acc) == f.step \in {"factory", "callback"} => <<f.kind, f.factory>> \in acc

\* The frames of a goroutine.
Stack(s, acc) ==
    /\ s \in Seq(Frames)
    /\ \A i \in 1..Len(s) : /\ Fits(s[i]) /\ Known(s[i], acc)
                            /\ i < Len(s) => s[i].step = "callback"

IsReader(s) == s # <<>> /\ Last(s).op # "Register" /\ Last(s).step = "inside"
IsWriter(s) == s # <<>> /\ Last(s).op = "Register" /\ Last(s).step \in {"drain", "inside"}
Writes(s)   == s # <<>> /\ Last(s).op = "Register" /\ Last(s).step = "inside"

-------------------------------------------------------------------------------
(* Stacks *)

LEMMA StackShape ==
    ASSUME NEW s \in Seq(Frames), s # <<>>
    PROVE  /\ Len(s) \in Nat /\ Len(s) > 0
           /\ Last(s) = s[Len(s)] /\ Last(s) \in Frames
           /\ Front(s) \in Seq(Frames)
           /\ Len(Front(s)) = Len(s) - 1
           /\ \A i \in 1..(Len(s) - 1) : Front(s)[i] = s[i]
<1>1. Len(s) \in Nat /\ Len(s) > 0
  BY EmptySeq, LenProperties
<1>2. Last(s) = s[Len(s)] /\ Last(s) \in Frames
  BY <1>1, ElementOfSeq DEF Last
<1>3. \A i \in 1..(Len(s) - 1) : s[i] \in Frames
  BY <1>1, ElementOfSeq
<1>4. /\ Front(s) \in Seq(Frames)
      /\ Len(Front(s)) = Len(s) - 1
      /\ \A i \in 1..(Len(s) - 1) : Front(s)[i] = s[i]
  <2> DEFINE n == Len(s) - 1
             r == SubSeq(s, 1, n)
  <2>1. n \in Nat /\ \A i \in 1..n : s[i] \in Frames
    BY <1>1, <1>3
  <2> HIDE DEF n
  <2>2. /\ r \in Seq(Frames)
        /\ Len(r) = IF 1 <= n THEN n - 1 + 1 ELSE 0
        /\ \A i \in 1..(n - 1 + 1) : r[i] = s[1 + i - 1]
    BY <2>1, SubSeqProperties
  <2> HIDE DEF r
  <2>3. Len(r) = n
    BY <2>1, <2>2
  <2>4. ASSUME NEW i \in 1..n
        PROVE  r[i] = s[i]
    <3>1. i \in 1..(n - 1 + 1) /\ 1 + i - 1 = i
      BY <2>1
    <3> QED
      BY <2>2, <3>1
  <2> QED
    BY <2>2, <2>3, <2>4 DEF Front, n, r
<1> QED
  BY <1>1, <1>2, <1>4

\* What is left when the innermost call returns.
LEMMA StackPop ==
    ASSUME NEW acc, NEW s, Stack(s, acc), s # <<>>
    PROVE  /\ Stack(Front(s), acc)
           /\ ~ IsReader(Front(s)) /\ ~ IsWriter(Front(s)) /\ ~ Writes(Front(s))
<1>1. /\ s \in Seq(Frames) /\ Front(s) \in Seq(Frames)
      /\ Len(s) \in Nat /\ Len(Front(s)) = Len(s) - 1
      /\ \A i \in 1..(Len(s) - 1) : Front(s)[i] = s[i]
  BY StackShape DEF Stack
<1>2. Stack(Front(s), acc)
  BY <1>1 DEF Stack
<1>3. Front(s) # <<>> => Last(Front(s)).step = "callback"
  <2>1. SUFFICES ASSUME Front(s) # <<>> PROVE Last(Front(s)).step = "callback"
    OBVIOUS
  <2>2. /\ Last(Front(s)) = Front(s)[Len(s) - 1]
        /\ Len(s) - 1 \in 1..(Len(s) - 1)
    BY <1>1, <2>1, StackShape
  <2>3. s[Len(s) - 1].step = "callback"
    BY <1>1, <2>2 DEF Stack
  <2> QED
    BY <1>1, <2>2, <2>3
<1> QED
  BY <1>2, <1>3 DEF IsReader, IsWriter, Writes

\* The innermost frame changes.
LEMMA StackReplace ==
    ASSUME NEW acc, NEW s, Stack(s, acc), s # <<>>,
           NEW f \in Frames, Fits(f), Known(f, acc)
    PROVE  /\ Stack(Append(Front(s), f), acc)
           /\ Append(Front(s), f) # <<>>
           /\ Last(Append(Front(s), f)) = f
<1> DEFINE t == Append(Front(s), f)
<1>1. /\ s \in Seq(Frames) /\ Front(s) \in Seq(Frames)
      /\ Len(s) \in Nat /\ Len(s) > 0 /\ Len(Front(s)) = Len(s) - 1
      /\ \A i \in 1..(Len(s) - 1) : Front(s)[i] = s[i]
  BY StackShape DEF Stack
<1>2. /\ t \in Seq(Frames) /\ Len(t) = Len(s)
      /\ \A i \in 1..(Len(s) - 1) : t[i] = s[i]
      /\ t[Len(s)] = f
  BY <1>1, AppendProperties
<1>3. Stack(t, acc)
  <2>1. ASSUME NEW i \in 1..Len(t)
        PROVE  /\ Fits(t[i]) /\ Known(t[i], acc)
               /\ i < Len(t) => t[i].step = "callback"
    <3>1. CASE i = Len(s)
      BY <1>2, <3>1
    <3>2. CASE i \in 1..(Len(s) - 1)
      BY <1>1, <1>2, <3>2 DEF Stack
    <3> QED
      BY <1>1, <1>2, <3>1, <3>2
  <2> QED
    BY <1>2, <2>1 DEF Stack
<1>4. t # <<>>
  BY <1>1, <1>2
<1> QED
  BY <1>2, <1>3, <1>4, StackShape

\* A factory calls the registry.
LEMMA StackPush ==
    ASSUME NEW acc, NEW s, Stack(s, acc), s # <<>>,
           NEW e \in Frames, Fits(e), Known(e, acc), e.step = "callback",
           NEW f \in Frames, Fits(f), Known(f, acc)
    PROVE  /\ Stack(Front(s) \o <<e, f>>, acc)
           /\ Front(s) \o <<e, f>> # <<>>
           /\ Last(Front(s) \o <<e, f>>) = f
<1> DEFINE t == Front(s) \o <<e, f>>
<1>1. /\ s \in Seq(Frames) /\ Front(s) \in Seq(Frames)
      /\ Len(s) \in Nat /\ Len(s) > 0 /\ Len(Front(s)) = Len(s) - 1
      /\ \A i \in 1..(Len(s) - 1) : Front(s)[i] = s[i]
  BY StackShape DEF Stack
<1>2. /\ <<e, f>> \in Seq(Frames) /\ Len(<<e, f>>) = 2
      /\ <<e, f>>[1] = e /\ <<e, f>>[2] = f
  OBVIOUS
<1>3. /\ t \in Seq(Frames) /\ Len(t) = Len(s) + 1
      /\ \A i \in 1..(Len(s) - 1) : t[i] = s[i]
      /\ t[Len(s)] = e /\ t[Len(s) + 1] = f
  <2>1. /\ t \in Seq(Frames) /\ Len(t) = (Len(s) - 1) + 2
        /\ \A i \in 1..((Len(s) - 1) + 2) :
              t[i] = IF i <= Len(s) - 1 THEN Front(s)[i] ELSE <<e, f>>[i - (Len(s) - 1)]
    BY <1>1, <1>2, ConcatProperties
  <2>2. /\ Len(t) = Len(s) + 1
        /\ \A i \in 1..(Len(s) - 1) : t[i] = Front(s)[i]
        /\ t[Len(s)] = <<e, f>>[1] /\ t[Len(s) + 1] = <<e, f>>[2]
    BY <1>1, <2>1
  <2> QED
    BY <1>1, <1>2, <2>1, <2>2
<1>4. Stack(t, acc)
  <2>1. ASSUME NEW i \in 1..Len(t)
        PROVE  /\ Fits(t[i]) /\ Known(t[i], acc)
               /\ i < Len(t) => t[i].step = "callback"
    <3>1. CASE i = Len(s) \/ i = Len(s) + 1
      BY <1>1, <1>3, <3>1
    <3>2. CASE i \in 1..(Len(s) - 1)
      <4>1. i \in 1..Len(s) /\ i < Len(s) /\ t[i] = s[i]
        BY <1>1, <1>3, <3>2
      <4> QED
        BY <4>1 DEF Stack
    <3> QED
      BY <1>1, <1>3, <3>1, <3>2
  <2> QED
    BY <1>3, <2>1 DEF Stack
<1>5. t # <<>>
  BY <1>1, <1>3
<1> QED
  BY <1>1, <1>3, <1>4, <1>5, StackShape

\* The first call of a goroutine.
LEMMA StackFirst ==
    ASSUME NEW acc, NEW f \in Frames, Fits(f), Known(f, acc)
    PROVE  Stack(<<f>>, acc) /\ <<f>> # <<>> /\ Last(<<f>>) = f
<1>1. <<f>> \in Seq(Frames) /\ Len(<<f>>) = 1 /\ <<f>>[1] = f
  OBVIOUS
<1>2. Stack(<<f>>, acc)
  BY <1>1 DEF Stack
<1> QED
  BY <1>1, <1>2, StackShape

-------------------------------------------------------------------------------
(* The invariant *)

MapInv ==
    /\ DOMAIN factories \subseteq Kinds
    /\ \A k \in DOMAIN factories : factories[k] \in Factories
    /\ accepted = {<<k, factories[k]>> : k \in DOMAIN factories}

StacksInv ==
    /\ stacks \in [Goroutines -> Seq(Frames)]
    /\ \A g \in Goroutines : Stack(stacks[g], accepted)

LockInv ==
    /\ \A g, h \in Goroutines : IsWriter(stacks[g]) /\ IsWriter(stacks[h]) => g = h
    /\ \A g, h \in Goroutines : Writes(stacks[g]) => ~ IsReader(stacks[h])

RegistryInv == MapInv /\ StacksInv /\ LockInv

\* Only innermost frames have the lock or wait for it.
LEMMA TopDecides ==
    ASSUME StacksInv
    PROVE  /\ Readers = {g \in Goroutines : IsReader(stacks[g])}
           /\ Writers = {g \in Goroutines : IsWriter(stacks[g])}
           /\ \A g \in Goroutines : \A i \in DOMAIN stacks[g] :
                 stacks[g][i].op = "Register" /\ stacks[g][i].step = "inside" => Writes(stacks[g])
<1>1. ASSUME NEW g \in Goroutines, NEW i \in DOMAIN stacks[g], stacks[g][i].step # "callback"
      PROVE  stacks[g] # <<>> /\ stacks[g][i] = Last(stacks[g])
  <2>1. /\ stacks[g] \in Seq(Frames) /\ i \in 1..Len(stacks[g])
        /\ Len(stacks[g]) \in Nat
        /\ i < Len(stacks[g]) => stacks[g][i].step = "callback"
    BY <1>1, LenProperties DEF StacksInv, Stack
  <2>2. i = Len(stacks[g])
    BY <1>1, <2>1
  <2> QED
    BY <2>1, <2>2 DEF Last
<1>2. ASSUME NEW g \in Goroutines, stacks[g] # <<>>
      PROVE  \E i \in DOMAIN stacks[g] : stacks[g][i] = Last(stacks[g])
  <2>1. /\ stacks[g] \in Seq(Frames)
        /\ Len(stacks[g]) \in 1..Len(stacks[g])
        /\ Last(stacks[g]) = stacks[g][Len(stacks[g])]
    BY <1>2, StackShape DEF StacksInv
  <2>2. Len(stacks[g]) \in DOMAIN stacks[g]
    BY <2>1
  <2> QED
    BY <2>1, <2>2
<1>3. Readers = {g \in Goroutines : IsReader(stacks[g])}
  BY <1>1, <1>2 DEF Readers, HoldsReadLock, IsReader
<1>4. Writers = {g \in Goroutines : IsWriter(stacks[g])}
  BY <1>1, <1>2 DEF Writers, IsWriter
<1>5. \A g \in Goroutines : \A i \in DOMAIN stacks[g] :
         stacks[g][i].op = "Register" /\ stacks[g][i].step = "inside" => Writes(stacks[g])
  BY <1>1 DEF Writes
<1> QED
  BY <1>3, <1>4, <1>5

LEMMA RegistryInvImplies == RegistryInv => RegisteredOnce
<1> SUFFICES ASSUME RegistryInv PROVE RegisteredOnce
  OBVIOUS
<1>1. accepted = {<<k, factories[k]>> : k \in DOMAIN factories}
  BY DEF RegistryInv, MapInv
<1>2. ASSUME NEW g \in Goroutines, NEW i \in DOMAIN stacks[g]
      PROVE  /\ stacks[g][i].step \in {"factory", "callback"} =>
                   <<stacks[g][i].kind, stacks[g][i].factory>> \in accepted
             /\ stacks[g][i].op = "Register" /\ stacks[g][i].step = "inside" => Readers = {}
  <2>1. Known(stacks[g][i], accepted)
    <3>1. stacks[g] \in Seq(Frames) /\ Stack(stacks[g], accepted)
      BY DEF RegistryInv, StacksInv
    <3>2. i \in 1..Len(stacks[g])
      BY <3>1
    <3> QED
      BY <3>1, <3>2 DEF Stack
  <2>2. ASSUME stacks[g][i].op = "Register", stacks[g][i].step = "inside"
        PROVE  Readers = {}
    <3>1. Writes(stacks[g])
      BY <2>2, TopDecides DEF RegistryInv
    <3>2. \A h \in Goroutines : ~ IsReader(stacks[h])
      BY <3>1 DEF RegistryInv, LockInv
    <3> QED
      BY <3>2, TopDecides DEF RegistryInv
  <2> QED
    BY <2>1, <2>2 DEF Known
<1> QED
  BY <1>1, <1>2 DEF RegisteredOnce

\* The frames of one goroutine change, and the map does not.
LEMMA OneMoves ==
    ASSUME RegistryInv, NEW g \in Goroutines, NEW t,
           UNCHANGED <<factories, accepted>>,
           stacks' = [stacks EXCEPT ![g] = t],
           Stack(t, accepted),
           IsWriter(t) => IsWriter(stacks[g]) \/ Writers = {},
           IsReader(t) => Writers = {},
           Writes(t) => Readers = {}
    PROVE  RegistryInv'
<1>1. /\ t \in Seq(Frames)
      /\ stacks \in [Goroutines -> Seq(Frames)]
      /\ stacks'[g] = t
      /\ \A h \in Goroutines : h # g => stacks'[h] = stacks[h]
  BY DEF RegistryInv, StacksInv, Stack
<1>2. MapInv'
  BY DEF RegistryInv, MapInv
<1>3. StacksInv'
  <2>1. stacks' \in [Goroutines -> Seq(Frames)]
    BY <1>1
  <2>2. \A h \in Goroutines : Stack(stacks'[h], accepted')
    BY <1>1 DEF RegistryInv, StacksInv
  <2> QED
    BY <2>1, <2>2 DEF StacksInv
<1>4. /\ Writers = {h \in Goroutines : IsWriter(stacks[h])}
      /\ Readers = {h \in Goroutines : IsReader(stacks[h])}
      /\ \A h \in Goroutines : Writes(stacks[h]) => IsWriter(stacks[h])
  BY TopDecides DEF RegistryInv, Writes, IsWriter
<1>5. IsReader(t) => ~ Writes(t)
  BY DEF IsReader, Writes
<1>6. ASSUME NEW h \in Goroutines, NEW i \in Goroutines, IsWriter(stacks'[h]), IsWriter(stacks'[i])
      PROVE  h = i
  BY <1>1, <1>4, <1>6 DEF RegistryInv, LockInv
<1>7. ASSUME NEW h \in Goroutines, NEW i \in Goroutines, Writes(stacks'[h])
      PROVE  ~ IsReader(stacks'[i])
  BY <1>1, <1>4, <1>5, <1>7 DEF RegistryInv, LockInv
<1> QED
  BY <1>2, <1>3, <1>6, <1>7 DEF RegistryInv, LockInv

\* The calls that wait for the writer get the lock.
LEMMA StackUnlock ==
    ASSUME NEW acc, NEW more, acc \subseteq more, NEW s, Stack(s, acc), NEW t,
           t = [i \in DOMAIN s |-> IF s[i].step = "wait" THEN [s[i] EXCEPT !.step = "inside"]
                                                         ELSE s[i]]
    PROVE  /\ Stack(t, more)
           /\ IsWriter(t) => IsWriter(s)
<1>1. s \in Seq(Frames) /\ Len(s) \in Nat /\ DOMAIN s = 1..Len(s)
  BY LenProperties DEF Stack
<1>2. ASSUME NEW i \in 1..Len(s)
      PROVE  /\ t[i] \in Frames /\ Fits(t[i]) /\ Known(t[i], more)
             /\ t[i].op = s[i].op
             /\ s[i].step = "callback" => t[i].step = "callback"
             /\ s[i].op = "Register" => t[i] = s[i]
  <2>1. s[i] \in Frames /\ Fits(s[i]) /\ Known(s[i], acc)
    BY <1>1, ElementOfSeq DEF Stack
  <2>2. CASE s[i].step = "wait"
    <3>1. t[i] = [s[i] EXCEPT !.step = "inside"]
      BY <1>1, <2>2
    <3>2. t[i] \in Frames /\ t[i].step = "inside" /\ t[i].op = s[i].op
      BY <2>1, <3>1 DEF Frames, Steps
    <3> QED
      BY <2>1, <2>2, <3>2 DEF Fits, Known
  <2>3. CASE s[i].step # "wait"
    <3>1. t[i] = s[i]
      BY <1>1, <2>3
    <3> QED
      BY <2>1, <3>1 DEF Fits, Known
  <2> QED
    BY <2>2, <2>3
<1>3. t \in Seq(Frames) /\ Len(t) = Len(s)
  <2>1. t \in [1..Len(s) -> Frames]
    BY <1>1, <1>2
  <2> QED
    BY <1>1, <2>1
<1>4. Stack(t, more)
  <2>1. ASSUME NEW i \in 1..Len(s)
        PROVE  /\ Fits(t[i]) /\ Known(t[i], more)
               /\ i < Len(s) => t[i].step = "callback"
    <3>1. i < Len(s) => s[i].step = "callback"
      BY DEF Stack
    <3> QED
      BY <1>2, <3>1
  <2> QED
    BY <1>3, <2>1 DEF Stack
<1>5. ASSUME IsWriter(t)
      PROVE  IsWriter(s)
  <2> DEFINE n == Len(s)
  <2>1. /\ t # <<>> /\ Last(t) = t[n] /\ n \in 1..n
        /\ t[n].op = "Register" /\ t[n].step \in {"drain", "inside"}
    <3>1. t # <<>> /\ Last(t).op = "Register" /\ Last(t).step \in {"drain", "inside"}
      BY <1>5 DEF IsWriter
    <3>2. Last(t) = t[n] /\ n > 0
      BY <1>3, <3>1, StackShape
    <3>3. n \in 1..n
      BY <1>1, <3>2
    <3> QED
      BY <3>1, <3>2, <3>3, Zenon
  <2>2. t[n] = s[n]
    <3>1. /\ t[n].op = s[n].op
          /\ s[n].op = "Register" => t[n] = s[n]
      BY <1>2, <2>1
    <3> QED
      BY <2>1, <3>1
  <2>3. s # <<>> /\ Last(s) = s[n]
    BY <1>1, <2>1 DEF Last
  <2> QED
    BY <2>1, <2>2, <2>3 DEF IsWriter
<1> QED
  BY <1>4, <1>5

LEMMA RegisterKeepsInv ==
    ASSUME RegistryInv, NEW g \in Goroutines, Register(g)
    PROVE  RegistryInv'
<1>1. /\ stacks \in [Goroutines -> Seq(Frames)]
      /\ \A h \in Goroutines : Stack(stacks[h], accepted)
      /\ stacks[g] # <<>> /\ IsWriter(stacks[g])
      /\ Top(g).kind \in Kinds /\ Top(g).factory \in Factories
  <2>1. stacks[g] # <<>> /\ IsWriter(stacks[g])
    BY DEF Register, At, InCall, Top, IsWriter
  <2>2. Top(g) \in Frames
    BY <2>1, StackShape DEF RegistryInv, StacksInv, Top
  <2> QED
    BY <2>1, <2>2 DEF RegistryInv, StacksInv, Frames
<1>2. MapInv' /\ accepted \subseteq accepted'
  <2>1. CASE Top(g).kind \in DOMAIN factories
    BY <2>1 DEF Register, RegistryInv, MapInv
  <2>2. CASE Top(g).kind \notin DOMAIN factories
    <3>1. /\ DOMAIN factories' = DOMAIN factories \cup {Top(g).kind}
          /\ factories'[Top(g).kind] = Top(g).factory
          /\ \A k \in DOMAIN factories : factories'[k] = factories[k]
          /\ accepted' = accepted \cup {<<Top(g).kind, Top(g).factory>>}
      BY <2>2 DEF Register
    <3> QED
      BY <1>1, <3>1 DEF RegistryInv, MapInv
  <2> QED
    BY <2>1, <2>2
<1>3. stacks' = Unlocked(g)
  BY DEF Register
<1>4. ASSUME NEW h \in Goroutines
      PROVE  /\ stacks'[h] \in Seq(Frames)
             /\ Stack(stacks'[h], accepted')
             /\ ~ IsWriter(stacks'[h])
  <2>1. CASE h = g
    <3>1. stacks'[h] = Front(stacks[g])
      BY <1>3, <2>1 DEF Unlocked
    <3>2. Stack(Front(stacks[g]), accepted) /\ ~ IsWriter(Front(stacks[g]))
      BY <1>1, StackPop
    <3>3. Stack(Front(stacks[g]), accepted')
      BY <1>2, <3>2 DEF Stack, Known
    <3> QED
      BY <3>1, <3>2, <3>3 DEF Stack
  <2>2. CASE h # g
    <3>1. stacks'[h] = [i \in DOMAIN stacks[h] |->
                         IF stacks[h][i].step = "wait" THEN [stacks[h][i] EXCEPT !.step = "inside"]
                                                      ELSE stacks[h][i]]
      BY <1>3, <2>2 DEF Unlocked
    <3>2. /\ Stack(stacks'[h], accepted')
          /\ IsWriter(stacks'[h]) => IsWriter(stacks[h])
      BY <1>1, <1>2, <3>1, StackUnlock
    <3>3. ~ IsWriter(stacks[h])
      BY <1>1, <2>2 DEF RegistryInv, LockInv
    <3> QED
      BY <3>2, <3>3 DEF Stack
  <2> QED
    BY <2>1, <2>2
<1>5. stacks' \in [Goroutines -> Seq(Frames)]
  <2>1. stacks' = [h \in Goroutines |-> stacks'[h]]
    BY <1>3 DEF Unlocked
  <2> QED
    BY <1>4, <2>1
<1>6. StacksInv'
  BY <1>4, <1>5 DEF StacksInv
<1>7. LockInv'
  BY <1>4 DEF LockInv, Writes, IsWriter
<1> QED
  BY <1>2, <1>6, <1>7 DEF RegistryInv

\* The steps that leave the map alone.
LEMMA StepKeepsInv ==
    ASSUME RegistryInv, NEW g \in Goroutines,
           RLock(g) \/ Lock(g) \/ Drained(g) \/ Has(g) \/ Create(g) \/ FactoryReturns(g)
    PROVE  RegistryInv'
<1> DEFINE s == stacks[g]
<1> USE DEF At, InCall, Top
<1>1. s # <<>> /\ Stack(s, accepted) /\ Last(s) \in Frames /\ stacks \in [Goroutines -> Seq(Frames)]
  <2>1. s # <<>>
    BY DEF RLock, Lock, Drained, Has, Create, FactoryReturns
  <2> QED
    BY <2>1, StackShape DEF RegistryInv, StacksInv
<1>2. ASSUME NEW step \in {"lock", "wait", "drain", "inside"},
             UNCHANGED <<factories, accepted>>, GoesTo(g, step),
             step = "wait" => Last(s).op # "Register",
             step = "drain" => Last(s).op = "Register" /\ Writers = {},
             step = "inside" =>
                \/ Last(s).op # "Register" /\ Writers = {}
                \/ Last(s).op = "Register" /\ Last(s).step = "drain" /\ Readers = {}
      PROVE  RegistryInv'
  <2> DEFINE f == [Last(s) EXCEPT !.step = step]
             t == Append(Front(s), f)
  <2>1. /\ f \in Frames /\ f.step = step /\ f.op = Last(s).op
        /\ Fits(f) /\ Known(f, accepted)
    <3>1. f \in Frames /\ f.step = step /\ f.op = Last(s).op
      BY <1>1, <1>2 DEF Frames, Steps
    <3> HIDE DEF f
    <3> QED
      BY <1>2, <3>1 DEF Fits, Known
  <2>2. stacks' = [stacks EXCEPT ![g] = t]
    BY <1>1, <1>2 DEF GoesTo
  <2> HIDE DEF f
  <2>3. Stack(t, accepted) /\ t # <<>> /\ Last(t) = f
    BY <1>1, <2>1, StackReplace
  <2> HIDE DEF t
  <2>4. /\ IsReader(t) => Writers = {}
        /\ Writes(t) => Readers = {}
        /\ IsWriter(t) => IsWriter(s) \/ Writers = {}
    BY <1>1, <1>2, <2>1, <2>3 DEF IsReader, Writes, IsWriter
  <2> QED
    BY <1>2, <2>2, <2>3, <2>4, OneMoves
<1>3. ASSUME UNCHANGED <<factories, accepted>>, Returns(g)
      PROVE  RegistryInv'
  <2>1. stacks' = [stacks EXCEPT ![g] = Front(s)]
    BY <1>1, <1>3 DEF Returns
  <2>2. /\ Stack(Front(s), accepted)
        /\ ~ IsReader(Front(s)) /\ ~ IsWriter(Front(s)) /\ ~ Writes(Front(s))
    BY <1>1, StackPop
  <2> QED
    BY <1>3, <2>1, <2>2, OneMoves
<1>4. CASE RLock(g)
  <2>1. CASE Writers = {}
    BY <1>2, <1>4, <2>1 DEF RLock
  <2>2. CASE Writers # {}
    BY <1>2, <1>4, <2>2 DEF RLock
  <2> QED
    BY <2>1, <2>2
<1>5. CASE Lock(g)
  BY <1>2, <1>5 DEF Lock
<1>6. CASE Drained(g)
  BY <1>2, <1>6 DEF Drained
<1>7. CASE Has(g)
  BY <1>3, <1>7 DEF Has
<1>8. CASE FactoryReturns(g)
  BY <1>3, <1>8 DEF FactoryReturns
<1>9. CASE Create(g)
  <2>1. CASE Last(s).kind \in DOMAIN factories
    <3> DEFINE f == [Last(s) EXCEPT !.step = "factory", !.factory = factories[Last(s).kind]]
               t == Append(Front(s), f)
    <3>1. /\ f \in Frames /\ f.step = "factory"
          /\ f.kind = Last(s).kind /\ f.factory = factories[Last(s).kind]
      BY <1>1, <2>1 DEF Frames, Steps, RegistryInv, MapInv
    <3>2. stacks' = [stacks EXCEPT ![g] = t]
      BY <1>1, <1>9, <2>1 DEF Create
    <3>3. Fits(f) /\ Known(f, accepted)
      <4> HIDE DEF f
      <4> QED
        BY <2>1, <3>1 DEF Fits, Known, RegistryInv, MapInv
    <3> HIDE DEF f
    <3>4. Stack(t, accepted) /\ t # <<>> /\ Last(t) = f
      BY <1>1, <3>1, <3>3, StackReplace
    <3> HIDE DEF t
    <3>5. ~ IsReader(t) /\ ~ IsWriter(t) /\ ~ Writes(t)
      BY <3>1, <3>4 DEF IsReader, IsWriter, Writes
    <3> QED
      BY <1>9, <3>2, <3>4, <3>5, OneMoves DEF Create
  <2>2. CASE Last(s).kind \notin DOMAIN factories
    BY <1>3, <1>9, <2>2 DEF Create
  <2> QED
    BY <2>1, <2>2
<1> QED
  BY <1>4, <1>5, <1>6, <1>7, <1>8, <1>9

LEMMA CallKeepsInv ==
    ASSUME RegistryInv, NEW g \in Goroutines,
           NEW op \in Ops, NEW kind \in Kinds, NEW factory \in Factories,
           Call(g, op, kind, factory)
    PROVE  RegistryInv'
<1> DEFINE s == stacks[g]
           f == [op |-> op, kind |-> kind, factory |-> factory, step |-> "lock"]
<1>1. /\ f \in Frames /\ f.step = "lock"
      /\ Stack(s, accepted) /\ stacks \in [Goroutines -> Seq(Frames)]
  BY DEF Frames, Steps, RegistryInv, StacksInv
<1>2. Fits(f) /\ Known(f, accepted)
  <2> HIDE DEF f
  <2> QED
    BY <1>1 DEF Fits, Known
<1>3. ASSUME NEW t, stacks' = [stacks EXCEPT ![g] = t],
             Stack(t, accepted), t # <<>>, Last(t) = f
      PROVE  RegistryInv'
  <2>1. ~ IsReader(t) /\ ~ IsWriter(t) /\ ~ Writes(t)
    <3> HIDE DEF f
    <3> QED
      BY <1>1, <1>3 DEF IsReader, IsWriter, Writes
  <2> QED
    BY <1>3, <2>1, OneMoves DEF Call
<1>4. CASE stacks' = [stacks EXCEPT ![g] = <<f>>]
  <2> HIDE DEF f
  <2> QED
    BY <1>1, <1>2, <1>3, <1>4, StackFirst
<1>5. CASE /\ At(g, {"Create"}, "factory")
           /\ stacks' = [stacks EXCEPT ![g] = Front(@) \o <<[Last(@) EXCEPT !.step = "callback"], f>>]
  <2> DEFINE e == [Last(s) EXCEPT !.step = "callback"]
             t == Front(s) \o <<e, f>>
  <2>1. s # <<>> /\ Last(s).step = "factory" /\ Last(s) \in Frames
    BY <1>1, <1>5, StackShape DEF At, InCall, Top, Stack
  <2>2. /\ e \in Frames /\ e.step = "callback"
        /\ e.kind = Last(s).kind /\ e.factory = Last(s).factory
    BY <2>1 DEF Frames, Steps
  <2>3. stacks' = [stacks EXCEPT ![g] = t]
    BY <1>1, <1>5
  <2> HIDE DEF e, f
  <2>4. Known(Last(s), accepted)
    <3>1. Len(s) \in 1..Len(s) /\ Last(s) = s[Len(s)]
      BY <1>1, <2>1, StackShape DEF Stack
    <3> QED
      BY <1>1, <3>1 DEF Stack
  <2>5. Fits(e) /\ Known(e, accepted)
    BY <2>1, <2>2, <2>4 DEF Fits, Known
  <2>6. Stack(t, accepted) /\ t # <<>> /\ Last(t) = f
    BY <1>1, <1>2, <2>1, <2>2, <2>5, StackPush
  <2> HIDE DEF t
  <2> QED
    BY <1>3, <2>3, <2>6
<1> QED
  BY <1>4, <1>5 DEF Call

LEMMA RegistryInvInductive ==
    /\ RegistryInit => RegistryInv
    /\ RegistryInv /\ [RegistryNext]_registryVars => RegistryInv'
<1>1. ASSUME RegistryInit
      PROVE  RegistryInv
  <2>1. MapInv
    BY <1>1 DEF RegistryInit, MapInv
  <2>2. \A g \in Goroutines : stacks[g] = <<>>
    BY <1>1 DEF RegistryInit
  <2>3. StacksInv
    <3>1. Stack(<<>>, accepted)
      BY DEF Stack
    <3>2. stacks \in [Goroutines -> Seq(Frames)]
      BY <1>1 DEF RegistryInit
    <3> QED
      BY <2>2, <3>1, <3>2 DEF StacksInv
  <2>4. LockInv
    BY <2>2 DEF LockInv, IsWriter, Writes
  <2> QED
    BY <2>1, <2>3, <2>4 DEF RegistryInv
<1>2. ASSUME RegistryInv, [RegistryNext]_registryVars
      PROVE  RegistryInv'
  <2>1. CASE UNCHANGED registryVars
    BY <1>2, <2>1 DEF registryVars, RegistryInv, MapInv, StacksInv, LockInv
  <2>2. ASSUME NEW g \in Goroutines, Step(g)
        PROVE  RegistryInv'
    BY <1>2, <2>2, RegisterKeepsInv, StepKeepsInv DEF Step
  <2>3. ASSUME NEW g \in Goroutines,
               \E op \in Ops, kind \in Kinds, factory \in Factories : Call(g, op, kind, factory)
        PROVE  RegistryInv'
    BY <1>2, <2>3, CallKeepsInv
  <2> QED
    BY <1>2, <2>1, <2>2, <2>3 DEF RegistryNext
<1> QED
  BY <1>1, <1>2

\* The first Register of a kind to get the lock wins, for good: its factory is
\* what every Create of the kind calls, and nobody reads the map while it is written.
THEOREM RegisteredCorrect == RegistrySpec => []RegisteredOnce
<1>1. RegistryInit => RegistryInv
  BY RegistryInvInductive
<1>2. RegistryInv /\ [RegistryNext]_registryVars => RegistryInv'
  BY RegistryInvInductive
<1> QED
  BY <1>1, <1>2, RegistryInvImplies, PTL DEF RegistrySpec
===============================================================================
