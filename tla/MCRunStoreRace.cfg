\* Three processes: two of them recover the run of a third that died.
CONSTANTS
    Procs = {p1, p2, p3}
    NoOwner = NoOwner
    PublishAttempts = 2
    MaxEvents = 2
SPECIFICATION Spec
SYMMETRY Symmetry
CHECK_DEADLOCK FALSE
INVARIANT SingleOwner
