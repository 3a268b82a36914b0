\* Two processes: one may die holding the run and the other recover it.
CONSTANTS
    Procs = {p1, p2}
    NoOwner = NoOwner
    PublishAttempts = 2
    MaxEvents = 2
SPECIFICATION Spec
CHECK_DEADLOCK FALSE
INVARIANTS TypeOK SingleOwner AckedKept MemoryIsPrefix
PROPERTY AcquireTerminates
