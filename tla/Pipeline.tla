------------------------------- MODULE Pipeline -------------------------------
(***************************************************************************)
(* The Pipeline type of internal/pipeline/pipeline.go, shared by           *)
(* goroutines: some add stages and resolve, the runners call Run.          *)
(*                                                                         *)
(* AddStage, Resolve and the two critical sections of Run hold p.mu.       *)
(* Resolve and the sections of Run are one step each.  AddStage takes two, *)
(* because Run looks stages up in the map p.stages without the lock: while *)
(* an AddStage is writing the map, such a lookup is a concurrent map read  *)
(* and map write, which the Go runtime may detect and turn into the death  *)
(* of the process.  A call that fails without changing state (AddStage of  *)
(* a duplicate name, Resolve of an unknown or cyclic dependency) is the    *)
(* guard of the action that models its success.                            *)
(*                                                                         *)
(* A table is what was done to it: the run whose input it descends from    *)
(* and the stages it went through.                                         *)
(***************************************************************************)
EXTENDS StageGraph

CONSTANTS Names,       \* names stages may be registered under
          DepLists,    \* dependency lists stages may return
          Endings,     \* how stages may return with a nil error
          Runners,     \* goroutines that call Run, one call at a time
          Nil          \* the nil *parse.Table

ASSUME NamesAssumption == Names \subseteq Nat /\ IsFiniteSet(Names)
ASSUME DepListsAssumption == DepLists \subseteq Seq(Nat)
\* With a table or a nil one, and with or without an Error set in the result.
ASSUME EndingsAssumption == Endings \subseteq [table : BOOLEAN, error : {"none", "own"}]
ASSUME RunnersAssumption == Runners # {}
ASSUME NilAssumption == Nil \notin [root : Runners, path : Seq(Nat)]

VARIABLES stages,      \* p.stages: the dependencies of each registered stage
          order,       \* p.order
          resolved,    \* p.resolved
          results,     \* p.results
          adding,      \* the stages an AddStage is writing under p.mu: none or one
          crashed,     \* the process has died
          pc,          \* of each runner: "idle", "loop" or "stage"
          done,        \* whether the context of the runner's call is cancelled
          runOrder,    \* Run's copy of p.order
          pos,         \* index of the loop over runOrder
          local,       \* Run's results map; once idle, the map Run returned
          feed,        \* stageInput
          late         \* stages that ended after the cancellation (history)

shared == <<stages, order, resolved, results, adding>>
calls  == <<pc, done, runOrder, pos, local, feed, late>>
vars   == <<shared, crashed, calls>>

Tables == [root : Runners, path : Seq(Nat)]
Original(r) == [root |-> r, path |-> <<>>]
Through(t, n) == [t EXCEPT !.path = Append(@, n)]

\* A *StageResult.  Its Error is nil, or was set by the stage itself in a result
\* it returned with a nil error, or is the error stage.Run returned to Run.  The
\* code tells nil and non-nil apart; which of the two it was is history.
StageResults == [table : Tables \cup {Nil}, error : {"none", "own", "returned"}]
NoResults == [n \in {} |-> Nil]

\* A results map with one more entry.
WithResult(rs, n, sr) ==
    [m \in DOMAIN rs \cup {n} |-> IF m = n THEN sr ELSE rs[m]]

\* resolveInput: the table of the last dependency, or the original one when
\* there is no dependency, or no result of it, or a nil table in it.
ResolveInput(r, n, rs) ==
    LET deps == stages[n]
        lastDep == deps[Len(deps)]
    IN  IF /\ deps # <<>>
           /\ lastDep \in DOMAIN rs
           /\ rs[lastDep].table # Nil
        THEN rs[lastDep].table
        ELSE Original(r)

Init ==
    /\ stages = [n \in {} |-> <<>>]
    /\ order = <<>>
    /\ resolved = FALSE
    /\ results = NoResults
    /\ adding = {}
    /\ crashed = FALSE
    /\ pc = [r \in Runners |-> "idle"]
    /\ done = [r \in Runners |-> FALSE]
    /\ runOrder = [r \in Runners |-> <<>>]
    /\ pos = [r \in Runners |-> 1]
    /\ local = [r \in Runners |-> NoResults]
    /\ feed = [r \in Runners |-> Nil]
    /\ late = [r \in Runners |-> 0]

MutexFree == adding = {}

-------------------------------------------------------------------------------
(* AddStage and Resolve *)

\* Mutant: the duplicate check is missing.
AddBeginAnyName(n, deps) ==
    /\ MutexFree
    /\ adding' = {<<n, deps>>}
    /\ UNCHANGED <<stages, order, resolved, results, crashed, calls>>

AddBegin(n, deps) ==
    /\ MutexFree
    /\ n \notin DOMAIN stages
    /\ adding' = {<<n, deps>>}
    /\ UNCHANGED <<stages, order, resolved, results, crashed, calls>>

\* Mutant: resolved stays set.
AddEndStaysResolved ==
    /\ \E a \in adding : stages' = WithStage(stages, a[1], a[2])
    /\ adding' = {}
    /\ UNCHANGED <<order, resolved, results, crashed, calls>>

\* Mutant: the lock is not released.
AddEndStaysLocked ==
    /\ \E a \in adding : stages' = WithStage(stages, a[1], a[2])
    /\ resolved' = FALSE
    /\ UNCHANGED <<order, results, adding, crashed, calls>>

AddEnd ==
    /\ \E a \in adding : stages' = WithStage(stages, a[1], a[2])
    /\ resolved' = FALSE
    /\ adding' = {}
    /\ UNCHANGED <<order, results, crashed, calls>>

\* What topoSort returns without an error (see TopoSort and its proofs).
Orders == {o \in [1..Cardinality(DOMAIN stages) -> DOMAIN stages] : IsKahnOrder(stages, o)}

Resolve ==
    /\ MutexFree
    /\ \E o \in Orders : order' = o
    /\ resolved' = TRUE
    /\ UNCHANGED <<stages, results, adding, crashed, calls>>

-------------------------------------------------------------------------------
(* Run *)

\* The first critical section, on a pipeline that is not resolved.
RunUnresolved(r) ==
    /\ MutexFree
    /\ pc[r] = "idle"
    /\ ~ resolved
    /\ local' = [local EXCEPT ![r] = NoResults]
    /\ UNCHANGED <<shared, crashed, pc, done, runOrder, pos, feed, late>>

\* The first critical section: copy p.order.  p.stages is a map, so that the
\* copy of it is the map itself.
RunStart(r) ==
    /\ MutexFree
    /\ pc[r] = "idle"
    /\ resolved
    /\ pc' = [pc EXCEPT ![r] = "loop"]
    /\ done' = [done EXCEPT ![r] = FALSE]
    /\ runOrder' = [runOrder EXCEPT ![r] = order]
    /\ pos' = [pos EXCEPT ![r] = 1]
    /\ local' = [local EXCEPT ![r] = NoResults]
    /\ late' = [late EXCEPT ![r] = 0]
    /\ UNCHANGED <<shared, crashed, feed>>

Stage(r) == runOrder[r][pos[r]]

HasNext(r) == pc[r] = "loop" /\ pos[r] <= Len(runOrder[r])

\* Run returns its map; the other locals are gone.
Return(r) ==
    /\ pc' = [pc EXCEPT ![r] = "idle"]
    /\ runOrder' = [runOrder EXCEPT ![r] = <<>>]
    /\ pos' = [pos EXCEPT ![r] = 1]
    /\ feed' = [feed EXCEPT ![r] = Nil]

\* Mutant: a cancelled run stores its results as well.
RunCancelledStores(r) ==
    /\ HasNext(r)
    /\ done[r]
    /\ results' = local[r]
    /\ Return(r)
    /\ UNCHANGED <<stages, order, resolved, adding, crashed, done, local, late>>

\* The select at the head of the loop finds the context cancelled.
RunCancelled(r) ==
    /\ HasNext(r)
    /\ done[r]
    /\ Return(r)
    /\ UNCHANGED <<shared, crashed, done, local, late>>

\* Mutant: the input is looked up in p.results, not in the results of this run.
StartStageFromShared(r) ==
    /\ HasNext(r)
    /\ ~ done[r]
    /\ feed' = [feed EXCEPT ![r] = ResolveInput(r, Stage(r), results)]
    /\ pc' = [pc EXCEPT ![r] = "stage"]
    /\ UNCHANGED <<shared, crashed, done, runOrder, pos, local, late>>

\* Mutant: the context is not looked at.
StartStageUnchecked(r) ==
    /\ HasNext(r)
    /\ feed' = [feed EXCEPT ![r] = ResolveInput(r, Stage(r), local[r])]
    /\ pc' = [pc EXCEPT ![r] = "stage"]
    /\ UNCHANGED <<shared, crashed, done, runOrder, pos, local, late>>

\* The context is not cancelled: look the stage up, choose its input, call it.
StartStage(r) ==
    /\ HasNext(r)
    /\ ~ done[r]
    /\ feed' = [feed EXCEPT ![r] = ResolveInput(r, Stage(r), local[r])]
    /\ pc' = [pc EXCEPT ![r] = "stage"]
    /\ UNCHANGED <<shared, crashed, done, runOrder, pos, local, late>>

\* The same lookup while an AddStage writes the map.
LookupRaces(r) ==
    /\ HasNext(r)
    /\ ~ done[r]
    /\ adding # {}
    /\ crashed' = TRUE
    /\ UNCHANGED <<shared, calls>>

CountLate(r) == late' = [late EXCEPT ![r] = IF done[r] THEN @ + 1 ELSE @]

\* stage.Run returns a result and a nil error: Run keeps the result as it is, an
\* Error the stage has set in it included.  Its table is made from the input, or nil.
StageReturns(r) ==
    /\ pc[r] = "stage"
    /\ \E e \in Endings :
         LET t == IF e.table THEN Through(feed[r], Stage(r)) ELSE Nil
         IN  local' = [local EXCEPT ![r] =
                         WithResult(@, Stage(r), [table |-> t, error |-> e.error])]
    /\ pos' = [pos EXCEPT ![r] = @ + 1]
    /\ pc' = [pc EXCEPT ![r] = "loop"]
    /\ CountLate(r)
    /\ UNCHANGED <<shared, crashed, done, runOrder, feed>>

\* Mutant: Run goes on to the next stage after an error.
StageFailsAndGoesOn(r) ==
    /\ pc[r] = "stage"
    /\ local' = [local EXCEPT ![r] =
                   WithResult(@, Stage(r), [table |-> Nil, error |-> "returned"])]
    /\ pos' = [pos EXCEPT ![r] = @ + 1]
    /\ pc' = [pc EXCEPT ![r] = "loop"]
    /\ CountLate(r)
    /\ UNCHANGED <<shared, crashed, done, runOrder, feed>>

\* stage.Run returns an error: Run records it and returns.
StageFails(r) ==
    /\ pc[r] = "stage"
    /\ local' = [local EXCEPT ![r] =
                   WithResult(@, Stage(r), [table |-> Nil, error |-> "returned"])]
    /\ CountLate(r)
    /\ Return(r)
    /\ UNCHANGED <<shared, crashed, done>>

\* stage.Run returns a nil result without an error, or is a FuncStage whose
\* function returns a nil table: a nil pointer is followed.
StagePanics(r) ==
    /\ pc[r] = "stage"
    /\ crashed' = TRUE
    /\ UNCHANGED <<shared, calls>>

\* The second critical section: the map becomes p.results, and Run returns it.
RunPublish(r) ==
    /\ MutexFree
    /\ pc[r] = "loop"
    /\ pos[r] > Len(runOrder[r])
    /\ results' = local[r]
    /\ Return(r)
    /\ UNCHANGED <<stages, order, resolved, adding, crashed, done, local, late>>

\* The owner of the context of r's call cancels it, at any moment.
Cancel(r) ==
    /\ pc[r] # "idle"
    /\ ~ done[r]
    /\ done' = [done EXCEPT ![r] = TRUE]
    /\ UNCHANGED <<shared, crashed, pc, runOrder, pos, local, feed, late>>

\* Steps of Run that only need the runner itself to be scheduled.
RunStep(r) ==
    \/ RunCancelled(r)
    \/ StartStage(r)
    \/ LookupRaces(r)
    \/ StageReturns(r)
    \/ StageFails(r)
    \/ StagePanics(r)
    \/ RunPublish(r)

Halted == crashed /\ UNCHANGED vars

Next ==
    \/ /\ ~ crashed
       /\ \/ \E n \in Names, deps \in DepLists : AddBegin(n, deps)
          \/ AddEnd
          \/ Resolve
          \/ \E r \in Runners : \/ RunUnresolved(r)
                                \/ RunStart(r)
                                \/ RunStep(r)
                                \/ Cancel(r)
    \/ Halted

\* A goroutine inside Run or AddStage is scheduled again; stages return.
Fairness ==
    /\ WF_vars(~ crashed /\ AddEnd)
    /\ \A r \in Runners : WF_vars(~ crashed /\ RunStep(r))

Spec == Init /\ [][Next]_vars
FairSpec == Spec /\ Fairness

\* The stages of a results map whose Error is set, and those that set it themselves.
WithError(rs) == {n \in DOMAIN rs : rs[n].error # "none"}
OwnErrors(rs) == {n \in DOMAIN rs : rs[n].error = "own"}

\* Mutant: a stage without a table does not count as completed.
CheckpointsOfTables(rs) ==
    {[completed |-> {n \in DOMAIN rs : rs[n].table # Nil}, failed |-> f] :
       f \in IF WithError(rs) = {} THEN {{}} ELSE {{n} : n \in WithError(rs)}}

\* MakeCheckpoint of a results map.  Its one field Failed is assigned at each
\* entry with an error, so that it names the last of them that the range over
\* the map comes to, which can be any.
MakeCheckpoint(rs) ==
    {[completed |-> DOMAIN rs \ WithError(rs), failed |-> f] :
       f \in IF WithError(rs) = {} THEN {{}} ELSE {{n} : n \in WithError(rs)}}

-------------------------------------------------------------------------------
(* Properties *)

IsStageMap(s) == DOMAIN s \subseteq Names /\ s \in [DOMAIN s -> DepLists]
IsResults(rs) == DOMAIN rs \subseteq Names /\ rs \in [DOMAIN rs -> StageResults]

\* Every variable has its type.
TypeOK ==
    /\ IsStageMap(stages)
    /\ order \in Seq(Names)
    /\ resolved \in BOOLEAN
    /\ IsResults(results)
    /\ adding \subseteq Names \X DepLists
    /\ crashed \in BOOLEAN
    /\ pc \in [Runners -> {"idle", "loop", "stage"}]
    /\ done \in [Runners -> BOOLEAN]
    /\ runOrder \in [Runners -> Seq(Names)]
    /\ pos \in [Runners -> Nat \ {0}]
    /\ DOMAIN local = Runners
    /\ \A r \in Runners : IsResults(local[r])
    /\ feed \in [Runners -> Tables \cup {Nil}]
    /\ late \in [Runners -> Nat]

\* While resolved is set, p.order lists all the registered stages, each after
\* its dependencies: no AddStage leaves a stale order marked as resolved.
ResolvedOrderSound == resolved => IsTopoOrder(stages, order)

\* While a stage is running, all of its dependencies have run and returned
\* without an error earlier in the same run, although stages may be added, and
\* the pipeline resolved again, in the middle of the run.  (What a dependency
\* wrote into the Error of the result it returned does not stop its dependents.)
DependenciesFirst ==
    \A r \in Runners : pc[r] = "stage" =>
        \A d \in DepSet(stages, Stage(r)) :
            d \in DOMAIN local[r] /\ local[r][d].error # "returned"

\* The table n of a results map was made by n from what the whole map shows to
\* be its input: when resolveInput fell back to the original table this was for
\* want of a dependency or of a table in it, never because the dependency had
\* still to run.
FedAsShown(r, rs, n) ==
    rs[n].table # Nil => rs[n].table = Through(ResolveInput(r, n, rs), n)

InputFromLastDependency ==
    \A r \in Runners : \A n \in DOMAIN local[r] : FedAsShown(r, local[r], n)

\* What a run of r has published: no stage of it returned an error, nothing
\* depends on a stage which is missing, and the data of r's input is all there is.
PublishedBy(r) ==
    \A n \in DOMAIN results :
        /\ results[n].error # "returned"
        /\ DepSet(stages, n) \subseteq DOMAIN results
        /\ FedAsShown(r, results, n)

\* What Results() shows is one whole run, whatever runs overlapped and in
\* whichever order they ended; and it is replaced only by the results of a run
\* that has one for every stage of the order it started with, so that neither a
\* failed run nor a cancelled one, whose results are closed too, is published.
PublishedWhole ==
    /\ [](\E r \in Runners : PublishedBy(r))
    /\ [][results' # results =>
             \E r \in Runners : /\ pc[r] # "idle"
                                /\ DOMAIN results' = Listed(runOrder[r])]_vars

\* Every checkpoint that MakeCheckpoint may make of a map that Run returned,
\* after an error or a cancellation too, can be resumed: a dependency of a stage
\* that it names is completed, or reported an error of its own, never missing
\* nor the stage whose error ended the run.  When the stages report errors by
\* returning them it names every stage that ran: one field Failed is enough.
\* (Errors that stages set themselves overwrite each other in that field.)
CheckpointResumable ==
    \A r \in Runners : \A cp \in MakeCheckpoint(local[r]) :
        LET named == cp.completed \cup cp.failed
        IN  /\ \A n \in named :
                 DepSet(stages, n) \subseteq cp.completed \cup OwnErrors(local[r])
            /\ OwnErrors(local[r]) = {} => named = DOMAIN local[r]

\* After its context is cancelled a run ends at most one stage more.
CancelStopsRun == \A r \in Runners : late[r] <= 1

\* A registered stage stays, with the dependencies it was registered with: what
\* the lookups of Run, made without the lock, rely on.
RegistrationsPermanent ==
    [][\A n \in DOMAIN stages : n \in DOMAIN stages' /\ stages'[n] = stages[n]]_vars

\* A call of Run returns, unless the process dies first.
RunReturns == \A r \in Runners : pc[r] # "idle" ~> (pc[r] = "idle" \/ crashed)
===============================================================================
