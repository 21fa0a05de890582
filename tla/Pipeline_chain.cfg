SPECIFICATION Spec
CONSTANTS
    Names = {1, 2, 3}
    DepLists <- ChainLists
    Endings <- AllEndings
    Runners = {r1}
    Nil = Nil
INVARIANTS
    ResolvedOrderSound
    DependenciesFirst
    InputFromLastDependency
    CheckpointResumable
    CancelStopsRun
PROPERTY
    RegistrationsPermanent
