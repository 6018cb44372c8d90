\* Three requests, VMs of two requests, and all that may go wrong besides.
SPECIFICATION Spec
CONSTANTS
    r1 = r1
    r2 = r2
    r3 = r3
    None = None
    Requests = {r1, r2, r3}
    MaxRequests = 2
    Faults = {"blunder", "launcher", "impatience", "owner"}
SYMMETRY Symmetric
INVARIANTS
    AnsweredOnce
    NothingLost
    ConfirmedIsReaped
    ReapedBeforeTold
\* A session ends, and a client may never ask again.
CHECK_DEADLOCK FALSE
