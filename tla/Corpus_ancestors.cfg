\* A campaign that makes the corpus directory, and a power loss.
CONSTANTS
    v1 = v1
    v2 = v2
    i1 = i1
    i2 = i2
    o1 = o1
    o2 = o2
    o3 = o3
    b1 = b1
    b2 = b2
    None = None
    Vms <- MCOneVm
    Contents <- MCOneInput
    Objects <- MCObjects
    Builds = {b1}
    Policies = {"reject"}
    Preexists = FALSE
SPECIFICATION Spec
INVARIANT
    AckedSurvivesPowerLoss
CHECK_DEADLOCK FALSE
