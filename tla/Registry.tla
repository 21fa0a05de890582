------------------------------- MODULE Registry -------------------------------
(***************************************************************************)
(* The registry of stage factories of internal/pipeline/registry.go: a map *)
(* behind a sync.RWMutex, used by any number of goroutines.                *)
(*                                                                         *)
(* Create calls the factory it has found after it gave up the lock; the    *)
(* factory is code of the caller, and may call the registry itself.  The   *)
(* calls that a goroutine is in are therefore a stack of frames.           *)
(*                                                                         *)
(* The lock is modelled as Go's: the writer that has its turn keeps new    *)
(* readers waiting while it waits for the present ones, and when it        *)
(* unlocks, all waiting readers go before the next writer.                 *)
(***************************************************************************)
EXTENDS Naturals, Sequences, SequencesExt

CONSTANTS Goroutines, Kinds,
          Factories,         \* what may be registered
          MaxDepth           \* bound on calls inside each other

ASSUME BoundAssumption == MaxDepth \in Nat \ {0}

VARIABLES factories,         \* the map: kinds to factories
          stacks,            \* the frames of each goroutine, the innermost last
          accepted           \* what Register returned nil for (history)

registryVars == <<factories, stacks, accepted>>

Ops == {"Register", "Create", "Has"}     \* Kinds takes the same steps as Has

RegistryInit ==
    /\ factories = [k \in {} |-> {}]
    /\ stacks = [g \in Goroutines |-> <<>>]
    /\ accepted = {}

InCall(g) == stacks[g] # <<>>
Top(g) == Last(stacks[g])
At(g, ops, step) == InCall(g) /\ Top(g).op \in ops /\ Top(g).step = step

GoesTo(g, step) == stacks' = [stacks EXCEPT ![g] = Append(Front(@), [Last(@) EXCEPT !.step = step])]
Returns(g) == stacks' = [stacks EXCEPT ![g] = Front(@)]

\* A goroutine calls the registry, or the factory that it is in does, once.
Call(g, op, kind, factory) ==
    LET new == [op |-> op, kind |-> kind, factory |-> factory, step |-> "lock"]
    IN  /\ \/ ~ InCall(g) /\ stacks' = [stacks EXCEPT ![g] = <<new>>]
           \/ /\ At(g, {"Create"}, "factory")
              /\ Len(stacks[g]) < MaxDepth
              /\ stacks' = [stacks EXCEPT ![g] =
                    Front(@) \o <<[Last(@) EXCEPT !.step = "callback"], new>>]
        /\ UNCHANGED <<factories, accepted>>

-------------------------------------------------------------------------------
(* The lock *)

\* Mutant: Create unlocks when it returns, as Has and Kinds do.
HoldsThroughCall == {"inside", "factory", "callback"}

\* The steps of a call that reads at which it has the lock.
HoldsReadLock == {"inside"}

Readers == {g \in Goroutines : \E i \in DOMAIN stacks[g] :
              stacks[g][i].op # "Register" /\ stacks[g][i].step \in HoldsReadLock}

\* The writer that has the lock or is the next to get it: none or one.
Writers == {g \in Goroutines : \E i \in DOMAIN stacks[g] :
              stacks[g][i].op = "Register" /\ stacks[g][i].step \in {"drain", "inside"}}

RLock(g) ==
    /\ At(g, {"Create", "Has"}, "lock")
    /\ GoesTo(g, IF Writers = {} THEN "inside" ELSE "wait")
    /\ UNCHANGED <<factories, accepted>>

Lock(g) ==
    /\ At(g, {"Register"}, "lock")
    /\ Writers = {}
    /\ GoesTo(g, "drain")
    /\ UNCHANGED <<factories, accepted>>

Drained(g) ==
    /\ At(g, {"Register"}, "drain")
    /\ Readers = {}
    /\ GoesTo(g, "inside")
    /\ UNCHANGED <<factories, accepted>>

\* The frames after the writer g has unlocked and returned.
Unlocked(g) ==
    [h \in Goroutines |->
       IF h = g THEN Front(stacks[g])
       ELSE [i \in DOMAIN stacks[h] |->
               IF stacks[h][i].step = "wait" THEN [stacks[h][i] EXCEPT !.step = "inside"]
                                            ELSE stacks[h][i]]]

-------------------------------------------------------------------------------
(* What is done under it *)

\* Mutant: a factory that is there is replaced.
RegisterAnyway(g) ==
    /\ At(g, {"Register"}, "inside")
    /\ factories' = [k \in DOMAIN factories \cup {Top(g).kind} |->
                       IF k = Top(g).kind THEN Top(g).factory ELSE factories[k]]
    /\ accepted' = accepted \cup {<<Top(g).kind, Top(g).factory>>}
    /\ stacks' = Unlocked(g)

\* Register stores the factory unless the kind has one, and returns nil or an
\* error.
Register(g) ==
    /\ At(g, {"Register"}, "inside")
    /\ IF Top(g).kind \in DOMAIN factories
       THEN UNCHANGED <<factories, accepted>>
       ELSE /\ factories' = [k \in DOMAIN factories \cup {Top(g).kind} |->
                               IF k = Top(g).kind THEN Top(g).factory ELSE factories[k]]
            /\ accepted' = accepted \cup {<<Top(g).kind, Top(g).factory>>}
    /\ stacks' = Unlocked(g)

Has(g) ==
    /\ At(g, {"Has"}, "inside")
    /\ Returns(g)
    /\ UNCHANGED <<factories, accepted>>

\* Create looks the kind up, unlocks, and calls the factory or returns an error.
Create(g) ==
    /\ At(g, {"Create"}, "inside")
    /\ IF Top(g).kind \in DOMAIN factories
       THEN stacks' = [stacks EXCEPT ![g] = Append(Front(@),
                [Last(@) EXCEPT !.step = "factory", !.factory = factories[Top(g).kind]])]
       ELSE Returns(g)
    /\ UNCHANGED <<factories, accepted>>

\* The factory returns a stage or an error, and Create with it.
FactoryReturns(g) ==
    /\ At(g, {"Create"}, "factory") \/ At(g, {"Create"}, "callback")
    /\ Returns(g)
    /\ UNCHANGED <<factories, accepted>>

Step(g) ==
    \/ RLock(g) \/ Lock(g) \/ Drained(g)
    \/ Register(g) \/ Has(g) \/ Create(g) \/ FactoryReturns(g)

RegistryNext ==
    \E g \in Goroutines :
        \/ Step(g)
        \/ \E op \in Ops, kind \in Kinds, factory \in Factories : Call(g, op, kind, factory)

\* Goroutines are scheduled and factories return; sync.Mutex, by which writers
\* wait for each other, starves none of them.
RegistrySpec ==
    /\ RegistryInit /\ [][RegistryNext]_registryVars
    /\ \A g \in Goroutines : WF_registryVars(Step(g)) /\ SF_registryVars(Lock(g))

-------------------------------------------------------------------------------
(* Properties *)

\* Of the calls of Register for a kind, however they overlap, the first to get
\* the lock returns nil and no other; its factory stays, and is the one that
\* every Create of the kind calls; nobody reads the map while it is written.
RegisteredOnce ==
    /\ accepted = {<<k, factories[k]>> : k \in DOMAIN factories}
    /\ \A g \in Goroutines : \A i \in DOMAIN stacks[g] :
         LET c == stacks[g][i]
         IN  /\ c.step \in {"factory", "callback"} => <<c.kind, c.factory>> \in accepted
             /\ c.op = "Register" /\ c.step = "inside" => Readers = {}

\* Every call returns, although factories call the registry while others wait
\* to register: Create must not hold the lock while it calls the factory.
CallsReturn == \A g \in Goroutines : InCall(g) ~> ~ InCall(g)
===============================================================================
