\* Two threads, a client with two slots, and a runtime that fails in two ways.
SPECIFICATION FairSpec
CONSTANTS
    t1 = t1
    t2 = t2
    Threads <- MCThreads
    NoThread = NoThread
    MaxCall = 4
    Slots = 2
    Scenarios <- MCScenarios
INVARIANTS
    NobodyStranded
    AnswersAreOwn
    CleanClose
PROPERTIES
    CloseEnds
CONSTRAINT OneShape
\* A client is closed, and nobody may call any more.
CHECK_DEADLOCK FALSE
