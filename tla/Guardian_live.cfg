\* Liveness against a target that never stops talking.
CONSTANTS
    root = root
    a = a
    b = b
    NoProc = NoProc
    Procs <- MCPair
    Root = root
    DescendantLimit = 2
    Deeds = {"spawn_owned", "declare_dirty"}
    Faults = {"caller", "coordinator", "guardian"}
    Sampling = TRUE
SPECIFICATION FairSpec
CONSTRAINT OneDisturbance
\* The VM goes quiet when the execution is over.
CHECK_DEADLOCK FALSE
PROPERTIES
    EveryCallReturns
    NobodyStuckAtGate
    SpawnIsAnswered
