\* Two requests and a VM that is replaced after each.
SPECIFICATION FairSpec
CONSTANTS
    r1 = r1
    r2 = r2
    r3 = r3
    None = None
    Requests = {r1, r2}
    MaxRequests = 1
    Faults = {}
PROPERTIES
    EverybodyIsAnswered
    FailureEnds
\* A session ends, and a client may never ask again.
CHECK_DEADLOCK FALSE
