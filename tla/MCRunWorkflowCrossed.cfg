\* Branches of two conditions that wait for each other.
CONSTANTS
    Nodes <- CrossedNodes
    NodeType <- CrossedType
    DependsOn <- CrossedDependsOn
    GraphPersisted = TRUE
    Guarded <- CrossedGuarded
    GuardCondition <- CrossedGuardCondition
    GuardCase <- CrossedGuardCase
    Sources <- CrossedSources
    Values = {"a", "b", "c"}
    Cases = {"x", "y"}
    Select <- CrossedSelect
    Valid <- CrossedValid
    JoinCondition <- CrossedJoinCondition
    JoinBranch <- CrossedJoinBranch
    ApprovalRequired = {}
    Writable = {}
    MaxAttempts <- CrossedMaxAttempts
    MaxNodes = 1
    MaxNodeStarts = 0
    SettlementLimit = 0
    SettlementKind = "artifactBytes"
    MaxUsage = 0
    MaxEffects = 1
    MaxFailures = 0
    MaxAborts = 0
SPECIFICATION WorkflowSafety
CHECK_DEADLOCK FALSE
INVARIANT JoinsReconcile
