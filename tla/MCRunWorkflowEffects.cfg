\* File effects under crashes, store failures, aborts and retries.
CONSTANTS
    Nodes <- PairNodes
    NodeType <- PairType
    DependsOn <- PairDependsOn
    GraphPersisted = TRUE
    Guarded = {}
    GuardCondition <- None
    GuardCase <- None
    Sources <- PairSources
    Values = {"a"}
    Cases = {"x"}
    Select <- PairSelect
    Valid <- PairValid
    JoinCondition <- PairJoinCondition
    JoinBranch <- PairJoinBranch
    ApprovalRequired = {4}
    Writable = {2, 3}
    MaxAttempts <- PairMaxAttempts
    MaxNodes = 2
    MaxNodeStarts = 5
    SettlementLimit = 1
    SettlementKind = "artifactBytes"
    MaxUsage = 1
    MaxEffects = 1
    MaxFailures = 1
    MaxAborts = 1
SPECIFICATION WorkflowSafety
CHECK_DEADLOCK FALSE
INVARIANTS WorkflowTypeOK AppliedOnce ConclusionAccountsForFiles OpenOnlyByRefusal
