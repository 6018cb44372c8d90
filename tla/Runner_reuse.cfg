\* A caller that dies with its guardian, and another one that comes later.
CONSTANTS
    c1 = c1
    c2 = c2
    c3 = c3
    NoCaller = NoCaller
    Callers <- MCCallers
    CallersMayDie = TRUE
    GuardiansMayDie = TRUE
SPECIFICATION Spec
SYMMETRY Symmetric
INVARIANT
    NoReuseAfterGuardianDeath
\* Every caller may be dead.
CHECK_DEADLOCK FALSE
