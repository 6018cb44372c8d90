\* Three processes that ask for executions in the same VM.
CONSTANTS
    c1 = c1
    c2 = c2
    c3 = c3
    NoCaller = NoCaller
    Callers <- MCCallers
    CallersMayDie = TRUE
    GuardiansMayDie = TRUE
SPECIFICATION Spec
SYMMETRY Symmetric
INVARIANTS
    OneExecution
    ReportedOrphansRunAlone
PROPERTIES
    LossSeenBeforeAdmission
\* Every caller may be dead.
CHECK_DEADLOCK FALSE
