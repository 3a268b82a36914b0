\* Waves of two agents: a second request, a store failure, two kinds of exhaustion.
CONSTANTS
    N = 2
    MaxCommands = 2
    Plans <- MCPlans
SPECIFICATION FairSpec
CHECK_DEADLOCK FALSE
INVARIANTS WaitingMeansPending OnlyApprovedRan OutcomeTellsCommands RefusedForAReason
PROPERTY WaveEnds
