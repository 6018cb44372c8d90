\* A tree of three processes, and everything a target may do.
CONSTANTS
    root = root
    a = a
    b = b
    NoProc = NoProc
    Procs <- MCProcs
    Root = root
    DescendantLimit = 2
    Deeds = {"spawn_owned", "plain_spawn", "declare_dirty", "detach", "load", "contaminate", "remote_spawn"}
    Faults = {"caller", "coordinator", "guardian"}
    Sampling = FALSE
SPECIFICATION Spec
CONSTRAINT OneScenario
SYMMETRY Symmetric
INVARIANTS
    ConfirmedIsQuiet
    SurvivorsRetireTheVm
    ReusableIsUnspoiled
    TargetOutcomeIsObserved
    NoFalseLoss
PROPERTIES
    KeepsContract
\* The VM goes quiet when the execution is over.
CHECK_DEADLOCK FALSE
