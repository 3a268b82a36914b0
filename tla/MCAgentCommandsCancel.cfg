\* An abort overtakes an agent that ran a command while its sibling still works.
CONSTANTS
    N = 2
    MaxCommands = 1
    Plans <- CancelPlans
SPECIFICATION Spec
CHECK_DEADLOCK FALSE
INVARIANT CancellationSettlesWave
