\* Every kind of node: branches, retries, effects, approvals, two attempts at once
\* and both budget limits.
CONSTANTS
    Nodes <- BranchNodes
    NodeType <- BranchType
    DependsOn <- BranchDependsOn
    GraphPersisted = TRUE
    Guarded <- BranchGuarded
    GuardCondition <- BranchGuardCondition
    GuardCase <- BranchGuardCase
    Sources <- BranchSources
    Values = {"a", "b"}
    Cases = {"x", "y"}
    Select <- BranchSelect
    Valid <- BranchValid
    JoinCondition <- BranchJoinCondition
    JoinBranch <- BranchJoinBranch
    ApprovalRequired = {4, 8}
    Writable = {3}
    MaxAttempts <- BranchMaxAttempts
    MaxNodes = 2
    MaxNodeStarts = 4
    SettlementLimit = 1
    SettlementKind = "artifactBytes"
    MaxUsage = 1
    MaxEffects = 1
SPECIFICATION Spec
CHECK_DEADLOCK FALSE
INVARIANTS
    TypeOK AttemptHistory WaitingForOne OneOpenApproval LimitsRespected
    WorkHadPrerequisites OmittedNeverStarted
PROPERTIES JournalKept ImplementsContract
