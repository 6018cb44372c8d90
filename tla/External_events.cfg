\* A journal of few runs, and a report that keeps two events.
SPECIFICATION Spec
CONSTANTS
    i1 = i1
    i2 = i2
    Inputs <- MCInputs
    NoInput = NoInput
    SupervisedRuns = 2
    MaxIterations = 1
    RestartBudget = 1
    JournalRecords = 2
    EventLimit = 2
    Finding = i1
    ReproduceRuns = 2
    MaxBoots = 2
    Scenarios <- MCNone
INVARIANT
    GivesUpForCause
\* A campaign ends, and nobody may start another one.
CHECK_DEADLOCK FALSE
