\* Conditions, guards, joins, results, both kinds of approval, an agent with effects.
CONSTANTS
    Nodes <- GraphNodes
    NodeType <- GraphType
    DependsOn <- GraphDependsOn
    GraphPersisted = TRUE
    Guarded <- GraphGuarded
    GuardCondition <- GraphGuardCondition
    GuardCase <- GraphGuardCase
    Sources <- GraphSources
    Values = {"a", "b", "c"}
    Cases = {"x", "y"}
    Select <- GraphSelect
    Valid <- GraphValid
    JoinCondition <- GraphJoinCondition
    JoinBranch <- GraphJoinBranch
    ApprovalRequired = {4}
    Writable = {3}
    MaxAttempts <- GraphMaxAttempts
    MaxNodes = 1
    MaxNodeStarts = 0
    SettlementLimit = 3
    SettlementKind = "artifactBytes"
    MaxUsage = 1
    MaxEffects = 1
    MaxFailures = 1
    MaxAborts = 1
SPECIFICATION WorkflowSpec
CHECK_DEADLOCK FALSE
INVARIANTS PublicationsAccepted AttemptedInOrder
PROPERTY ComesToRest
