\* Two VMs, two inputs, two builds of the target.
CONSTANTS
    v1 = v1
    v2 = v2
    i1 = i1
    i2 = i2
    o1 = o1
    o2 = o2
    o3 = o3
    b1 = b1
    b2 = b2
    None = None
    Vms <- MCVms
    Contents <- MCInputs
    Objects <- MCObjects
    Builds <- MCBuilds
    Policies = {"reject", "recalibrate"}
    Preexists = FALSE
SPECIFICATION Spec
SYMMETRY Symmetric
CONSTRAINT StoreStillThere
INVARIANTS
    AckedIsKept
    WholeOrAbsent
    QueueMatchesBuild
PROPERTIES
    EntriesAreImmutable
CHECK_DEADLOCK FALSE
