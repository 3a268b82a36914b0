----------------------------- MODULE RunLedger ------------------------------
(***************************************************************************)
(* The run ledger: the reducer that every process applies to the events of *)
(* one run (appendRunEvent).  A state of this module is the RunState the   *)
(* reducer has built; an action is one event the reducer accepts, with the *)
(* whole state change it makes; an event that satisfies no guard is        *)
(* refused and leaves the state alone.  The module makes no assumption on  *)
(* who sends the events, so what holds here holds for every scheduler,     *)
(* operator and recovery that appends to the ledger.                       *)
(*                                                                         *)
(* Modelled nodes: agents and commands (run by an executor), and the       *)
(* approval, condition, result and join control nodes.  Loop, child,       *)
(* verifier and optimization nodes, agent commands, delegations and model  *)
(* sessions are not in this module.                                        *)
(***************************************************************************)
EXTENDS Naturals, Sequences, FiniteSets

CONSTANTS
    Nodes,             \* node ids; < is the declaration order
    NodeType,          \* [Nodes -> NodeTypes]
    DependsOn,         \* [Nodes -> SUBSET Nodes]
    GraphPersisted,    \* the run carries a control graph
    Guarded,           \* nodes declared with `when`
    GuardCondition,    \* [Guarded -> Nodes]: the condition of the guard
    GuardCase,         \* [Guarded -> Cases]: the case that selects the node
    Sources,           \* [Nodes -> SUBSET Nodes]: evidence a control node reads
    Values,            \* what a complete output of a node may be
    Select,            \* [Nodes -> [Values -> Cases]]: cases of a condition
    Valid,             \* [Nodes -> SUBSET Values]: outputs a result's schema takes
    JoinCondition,     \* [Nodes -> Nodes]: the condition a join closes
    JoinBranch,        \* [Nodes -> [cases of the condition -> Nodes]]: terminal nodes
    Cases,             \* case ids
    ApprovalRequired,  \* commands that need an approval before they start
    Writable,          \* agents whose attempts declare the durable effect protocol
    MaxAttempts,       \* [Nodes -> Nat]: declared recovery attempts, 0 for none
    MaxNodes,          \* concurrency.maxNodes
    MaxNodeStarts,     \* budget limit on node starts, 0 when undeclared
    SettlementLimit,   \* the other declared budget limit, 0 when undeclared
    SettlementKind,    \* which resource that limit is on
    MaxUsage,          \* bound: units of it one attempt can use
    MaxEffects         \* MAX_AGENT_EFFECT_RECEIPTS

NodeTypes == {"agent", "command", "approval", "condition", "result", "join"}
ControlTypes == {"approval", "condition", "result", "join"}

NoValue == "no_value"       \* no output has been recorded
Truncated == "truncated"    \* the recorded output was cut
NoCase == "no_case"         \* the condition has not been decided

ASSUME GraphAssumption ==
    /\ Nodes \subseteq Nat /\ IsFiniteSet(Nodes)
    /\ NodeType \in [Nodes -> NodeTypes]
    /\ DependsOn \in [Nodes -> SUBSET Nodes]
    /\ GraphPersisted \in BOOLEAN
    /\ Guarded \subseteq {n \in Nodes : NodeType[n] # "join"}
    /\ GuardCondition \in [Guarded -> Nodes]
    /\ GuardCase \in [Guarded -> Cases]
    /\ Sources \in [Nodes -> SUBSET Nodes]
    /\ Values # {} /\ NoValue \notin Values /\ Truncated \notin Values
    /\ NoCase \notin Cases
    /\ Select \in [Nodes -> [Values -> Cases]]
    /\ Valid \in [Nodes -> SUBSET Values]
    /\ JoinCondition \in [Nodes -> Nodes]
    /\ \A n \in Nodes : DOMAIN JoinBranch[n] \subseteq Cases

\* What comes before a node: its dependencies and, for a join, its condition,
\* which every branch the join depends on descends from.
Before(n) == DependsOn[n] \cup (IF NodeType[n] = "join" THEN {JoinCondition[n]} ELSE {})

\* What compileWorkflow and workflowRequiresControlGraph guarantee of a run's
\* graph: guards and sources are dependencies, a condition or a result reads one
\* node that has evidence, a join depends on its branches, one for each case of
\* its condition, there is no cycle, and only a sequential graph of agents and
\* commands is not persisted.
ASSUME CompilerAssumption ==
    /\ \A n \in Guarded : GuardCondition[n] \in DependsOn[n]
                          /\ NodeType[GuardCondition[n]] = "condition"
    /\ \A n \in Nodes : Sources[n] \subseteq DependsOn[n]
    /\ \A n \in Nodes : \A m \in Sources[n] : NodeType[m] \in {"agent", "command", "result"}
    /\ \A n \in Nodes : NodeType[n] \in {"condition", "result"} => \E m \in Nodes : Sources[n] = {m}
    /\ \A n \in Nodes : NodeType[n] = "join" =>
          /\ NodeType[JoinCondition[n]] = "condition"
          /\ \A c \in DOMAIN JoinBranch[n] : JoinBranch[n][c] \in DependsOn[n]
          /\ \A v \in Values : Select[JoinCondition[n]][v] \in DOMAIN JoinBranch[n]
    /\ \A S \in SUBSET Nodes : S # {} => \E n \in S : Before(n) \cap S = {}
    /\ ~GraphPersisted => MaxNodes = 1 /\ Guarded = {}
                          /\ \A n \in Nodes : NodeType[n] \notin ControlTypes

ASSUME PolicyAssumption ==
    /\ ApprovalRequired \subseteq {n \in Nodes : NodeType[n] = "command"}
    /\ Writable \subseteq {n \in Nodes : NodeType[n] = "agent"}
    /\ MaxAttempts \in [Nodes -> Nat]
    /\ \A n \in Nodes : MaxAttempts[n] # 0 => MaxAttempts[n] >= 2 /\ NodeType[n] = "agent"
    /\ MaxNodes \in Nat \ {0}
    /\ MaxNodeStarts \in Nat /\ SettlementLimit \in Nat
    /\ SettlementKind \in {"modelTokens", "executionMs", "artifactBytes"}
    /\ MaxUsage \in Nat /\ MaxEffects \in Nat

VARIABLES
    runStatus,           \* RunState.status; "absent" before run_started
    status,              \* [Nodes -> NodeStatus]
    attempt,             \* [Nodes -> Nat]: the latest attempt
    error,               \* [Nodes -> Failures]: what the failed attempt reported
    approval,            \* [Nodes -> ApprovalStatus]: command approval
    workflowApproval,    \* [Nodes -> {"none", "pending", "approved", "denied"}]
    effects,             \* [Nodes -> Seq(EffectStatus)]: journal of the open attempt
    interruptedAttempts, \* [Nodes -> SUBSET Nat]
    failedAttempts,      \* [Nodes -> SUBSET Nat]: failed and scheduled for retry
    output,              \* [Nodes -> Values plus the two markers]
    decision,            \* [Nodes -> Cases plus NoCase]
    nodeStarts,          \* resources.nodeStarts
    consumed             \* units settled against SettlementLimit

ledgerVars == <<runStatus, status, attempt, error, approval, workflowApproval,
                effects, interruptedAttempts, failedAttempts, output, decision,
                nodeStarts, consumed>>

RunStatuses == {"absent", "running", "waiting_for_approval", "succeeded", "failed",
                "cancelled", "resource_exhausted"}
Terminal == {"succeeded", "failed", "cancelled", "resource_exhausted"}
NodeStatus == {"pending", "running", "succeeded", "failed", "omitted"}

\* "lapsed" is a grant whose expiry lies in the past: still recorded as granted.
ApprovalStatus == {"none", "pending", "granted", "lapsed", "expired", "denied", "consumed"}

\* An effect is open, settled, or (never both) reconciled by a later process.
EffectStatus == {"open", "committed", "not_applied", "unknown",
                 "found_applied", "found_not_applied", "found_unknown"}
Settlements == {"committed", "not_applied", "unknown"}
Reconciliations == {"found_applied", "found_not_applied", "found_unknown"}

\* accounting: the failed attempt left no evidence, evidence without usage, or
\* evidence with complete usage; only a limit on tokens tells the last two apart.
Accountings == {"none", "complete"} \cup
               (IF SettlementKind = "modelTokens" THEN {"incomplete"} ELSE {})

Failures == [retryable : BOOLEAN,
             sideEffectStatus : {"none", "committed", "uncertain"},
             accounting : Accountings]
NoError == [retryable |-> FALSE, sideEffectStatus |-> "none", accounting |-> "none"]

TypeOK ==
    /\ runStatus \in RunStatuses
    /\ status \in [Nodes -> NodeStatus]
    /\ attempt \in [Nodes -> Nat]
    /\ error \in [Nodes -> Failures]
    /\ approval \in [Nodes -> ApprovalStatus]
    /\ workflowApproval \in [Nodes -> {"none", "pending", "approved", "denied"}]
    /\ effects \in [Nodes -> Seq(EffectStatus)]
    /\ interruptedAttempts \in [Nodes -> SUBSET Nat]
    /\ failedAttempts \in [Nodes -> SUBSET Nat]
    /\ output \in [Nodes -> Values \cup {NoValue, Truncated}]
    /\ decision \in [Nodes -> Cases \cup {NoCase}]
    /\ nodeStarts \in Nat
    /\ consumed \in Nat

Init ==
    /\ runStatus = "absent"
    /\ status = [n \in Nodes |-> "pending"]
    /\ attempt = [n \in Nodes |-> 0]
    /\ error = [n \in Nodes |-> NoError]
    /\ approval = [n \in Nodes |-> "none"]
    /\ workflowApproval = [n \in Nodes |-> "none"]
    /\ effects = [n \in Nodes |-> <<>>]
    /\ interruptedAttempts = [n \in Nodes |-> {}]
    /\ failedAttempts = [n \in Nodes |-> {}]
    /\ output = [n \in Nodes |-> NoValue]
    /\ decision = [n \in Nodes |-> NoCase]
    /\ nodeStarts = 0
    /\ consumed = 0

-----------------------------------------------------------------------------
(* What the guards ask of the state.                                       *)

Executors == {n \in Nodes : NodeType[n] \notin ControlTypes}

With(s) == {n \in Nodes : status[n] = s}

First(S) == CHOOSE n \in S : \A m \in S : n <= m

Active == runStatus \in {"running", "waiting_for_approval"}

\* node_failed closes admission: afterwards only outcomes of running siblings,
\* recovery evidence and terminal events are accepted.
AdmissionOpen == With("failed") = {}

NodeStartsExhausted == MaxNodeStarts > 0 /\ nodeStarts >= MaxNodeStarts
SettlementExhausted == SettlementLimit > 0 /\ consumed >= SettlementLimit
BudgetExhausted == NodeStartsExhausted \/ SettlementExhausted

OpenApproval == {"pending", "granted", "lapsed"}

NoOpenApprovalBut(n) == \A m \in Nodes \ {n} : approval[m] \notin OpenApproval

DependenciesSucceeded(n) == \A d \in DependsOn[n] : status[d] = "succeeded"
DependenciesTerminal(n) == \A d \in DependsOn[n] : status[d] \in {"succeeded", "omitted"}

Decided(c) == status[c] = "succeeded" /\ decision[c] # NoCase

GuardSelected(n) ==
    n \in Guarded => /\ Decided(GuardCondition[n])
                     /\ decision[GuardCondition[n]] = GuardCase[n]

\* requireRunningControlTransition
ControlStep == runStatus = "running" /\ With("running") = {}

\* requirePendingControlState: control nodes have exactly one attempt.
PendingControl(n) == status[n] = "pending" /\ attempt[n] = 0

SourceTruncated(n) == \E m \in Sources[n] : output[m] = Truncated

\* Conditions and results read one source.
SourceOf(n) == CHOOSE m \in Sources[n] : TRUE

-----------------------------------------------------------------------------
(* Run events.                                                             *)

RunStarted ==
    /\ runStatus = "absent"
    /\ runStatus' = "running"
    /\ UNCHANGED <<status, attempt, error, approval, workflowApproval, effects,
                   interruptedAttempts, failedAttempts, output, decision,
                   nodeStarts, consumed>>

\* run_resumed records that a process took the run over; it changes nothing.
RunResumedOk == Active /\ With("running") = {}

RunSucceededOk ==
    /\ Active /\ AdmissionOpen
    /\ \A n \in Nodes : status[n] \in {"succeeded", "omitted"}
    /\ ~SettlementExhausted

\* canScheduleFailedAttemptRetry
CanRetry(n) ==
    /\ status[n] = "failed"
    /\ error[n].retryable /\ error[n].sideEffectStatus = "none"
    /\ attempt[n] < MaxAttempts[n]
    /\ effects[n] = <<>>
    /\ ~BudgetExhausted
    /\ SettlementLimit > 0 =>
          CASE SettlementKind = "modelTokens" -> error[n].accounting = "complete"
            [] SettlementKind = "executionMs" -> error[n].accounting # "none"
            [] SettlementKind = "artifactBytes" -> TRUE

RunFailedOk(n) ==
    /\ status[n] = "failed"
    /\ Active /\ ~SettlementExhausted
    /\ n = First(With("failed"))
    /\ With("running") = {}
    /\ ~(With("failed") = {n} /\ CanRetry(n))

\* Mutant of RunCancelledOk: an attempt may still be running.
RunCancelledInFlight ==
    /\ Active /\ ~SettlementExhausted
    /\ ~(NodeStartsExhausted /\ With("failed") = {} /\ With("pending") # {})

RunCancelledOk ==
    /\ Active /\ ~SettlementExhausted
    /\ ~(NodeStartsExhausted /\ With("failed") = {} /\ With("pending") # {})
    /\ With("running") = {}

RunBudgetExhaustedOk ==
    /\ Active /\ With("running") = {}
    /\ \/ SettlementExhausted
       \/ NodeStartsExhausted /\ With("failed") = {} /\ With("succeeded") # Nodes

Conclude(terminal) ==
    /\ runStatus' = terminal
    /\ UNCHANGED <<status, attempt, error, approval, workflowApproval, effects,
                   interruptedAttempts, failedAttempts, output, decision,
                   nodeStarts, consumed>>

RunSucceeded == RunSucceededOk /\ Conclude("succeeded")
RunFailed(n) == RunFailedOk(n) /\ Conclude("failed")
RunCancelled == RunCancelledOk /\ Conclude("cancelled")
RunBudgetExhausted == RunBudgetExhaustedOk /\ Conclude("resource_exhausted")

-----------------------------------------------------------------------------
(* Command approvals.                                                      *)

\* Mutants of CommandApprovalRequestedOk: a sibling may still be running, or
\* another approval may be open.
RequestedWhileRunning(n) ==
    /\ runStatus = "running" /\ AdmissionOpen /\ ~BudgetExhausted
    /\ NoOpenApprovalBut(n)
    /\ n \in ApprovalRequired /\ status[n] = "pending"
    /\ approval[n] \in {"none", "expired"}

RequestedBesideAnother(n) ==
    /\ runStatus = "running" /\ AdmissionOpen /\ ~BudgetExhausted
    /\ With("running") = {}
    /\ n \in ApprovalRequired /\ status[n] = "pending"
    /\ approval[n] \in {"none", "expired"}

CommandApprovalRequestedOk(n) ==
    /\ n \in ApprovalRequired /\ status[n] = "pending"
    /\ approval[n] \in {"none", "expired"}
    /\ runStatus = "running" /\ AdmissionOpen /\ ~BudgetExhausted
    /\ NoOpenApprovalBut(n) /\ With("running") = {}

CommandApprovalRequested(n) ==
    /\ CommandApprovalRequestedOk(n)
    /\ approval' = [approval EXCEPT ![n] = "pending"]
    /\ runStatus' = "waiting_for_approval"
    /\ UNCHANGED <<status, attempt, error, workflowApproval, effects,
                   interruptedAttempts, failedAttempts, output, decision,
                   nodeStarts, consumed>>

\* requirePendingApproval, for a waiting run
CommandApprovalPending(n) ==
    /\ status[n] = "pending" /\ approval[n] = "pending"
    /\ runStatus = "waiting_for_approval" /\ AdmissionOpen

CommandApprovalGranted(n) ==
    /\ CommandApprovalPending(n)
    /\ approval' = [approval EXCEPT ![n] = "granted"]
    /\ runStatus' = "running"
    /\ UNCHANGED <<status, attempt, error, workflowApproval, effects,
                   interruptedAttempts, failedAttempts, output, decision,
                   nodeStarts, consumed>>

\* A denial fails the node at the attempt that was never started.
CommandApprovalDenied(n) ==
    /\ CommandApprovalPending(n)
    /\ approval' = [approval EXCEPT ![n] = "denied"]
    /\ status' = [status EXCEPT ![n] = "failed"]
    /\ attempt' = [attempt EXCEPT ![n] = @ + 1]
    /\ error' = [error EXCEPT ![n] = NoError]
    /\ runStatus' = "running"
    /\ UNCHANGED <<workflowApproval, effects, interruptedAttempts, failedAttempts,
                   output, decision, nodeStarts, consumed>>

\* The clock passes the expiry of a grant.
GrantLapses(n) ==
    /\ Active
    /\ approval[n] = "granted"
    /\ approval' = [approval EXCEPT ![n] = "lapsed"]
    /\ UNCHANGED <<runStatus, status, attempt, error, workflowApproval, effects,
                   interruptedAttempts, failedAttempts, output, decision,
                   nodeStarts, consumed>>

CommandApprovalExpiredOk(n) ==
    /\ status[n] = "pending" /\ approval[n] = "lapsed"
    /\ runStatus = "running" /\ AdmissionOpen

CommandApprovalExpired(n) ==
    /\ CommandApprovalExpiredOk(n)
    /\ approval' = [approval EXCEPT ![n] = "expired"]
    /\ UNCHANGED <<runStatus, status, attempt, error, workflowApproval, effects,
                   interruptedAttempts, failedAttempts, output, decision,
                   nodeStarts, consumed>>

-----------------------------------------------------------------------------
(* Workflow approvals: an approval node asks the operator.                 *)

WorkflowApprovalRequestedOk(n) ==
    /\ GraphPersisted /\ NodeType[n] = "approval"
    /\ PendingControl(n) /\ workflowApproval[n] = "none"
    /\ ControlStep /\ AdmissionOpen /\ ~BudgetExhausted
    /\ NoOpenApprovalBut(n)
    /\ DependenciesSucceeded(n) /\ GuardSelected(n)
    /\ ~SourceTruncated(n)

WorkflowApprovalRequested(n) ==
    /\ WorkflowApprovalRequestedOk(n)
    /\ workflowApproval' = [workflowApproval EXCEPT ![n] = "pending"]
    /\ runStatus' = "waiting_for_approval"
    /\ UNCHANGED <<status, attempt, error, approval, effects, interruptedAttempts,
                   failedAttempts, output, decision, nodeStarts, consumed>>

\* requirePendingWorkflowApproval, for a waiting run
WorkflowApprovalPending(n) ==
    /\ status[n] = "pending" /\ workflowApproval[n] = "pending"
    /\ runStatus = "waiting_for_approval" /\ AdmissionOpen

WorkflowApprovalApproved(n) ==
    /\ WorkflowApprovalPending(n)
    /\ workflowApproval' = [workflowApproval EXCEPT ![n] = "approved"]
    /\ status' = [status EXCEPT ![n] = "succeeded"]
    /\ attempt' = [attempt EXCEPT ![n] = 1]
    /\ runStatus' = "running"
    /\ UNCHANGED <<error, approval, effects, interruptedAttempts, failedAttempts,
                   output, decision, nodeStarts, consumed>>

WorkflowApprovalDenied(n) ==
    /\ WorkflowApprovalPending(n)
    /\ workflowApproval' = [workflowApproval EXCEPT ![n] = "denied"]
    /\ status' = [status EXCEPT ![n] = "failed"]
    /\ attempt' = [attempt EXCEPT ![n] = 1]
    /\ error' = [error EXCEPT ![n] = NoError]
    /\ runStatus' = "running"
    /\ UNCHANGED <<approval, effects, interruptedAttempts, failedAttempts, output,
                   decision, nodeStarts, consumed>>

-----------------------------------------------------------------------------
(* Attempts of agents and commands.                                        *)

\* Mutants of NodeStartedOk: one attempt too many, or the guard is not looked at.
StartedOverLimit(n) ==
    /\ runStatus = "running" /\ AdmissionOpen
    /\ Cardinality(With("running")) <= MaxNodes
    /\ ~BudgetExhausted
    /\ status[n] = "pending"
    /\ GraphPersisted => /\ NodeType[n] \notin ControlTypes
                         /\ DependenciesSucceeded(n) /\ GuardSelected(n)
    /\ n \in ApprovalRequired => approval[n] = "granted"

StartedUnselected(n) ==
    /\ runStatus = "running" /\ AdmissionOpen
    /\ Cardinality(With("running")) < MaxNodes
    /\ ~BudgetExhausted
    /\ status[n] = "pending"
    /\ GraphPersisted => NodeType[n] \notin ControlTypes /\ DependenciesSucceeded(n)
    /\ n \in ApprovalRequired => approval[n] = "granted"

NodeStartedOk(n) ==
    /\ status[n] = "pending"
    /\ runStatus = "running" /\ AdmissionOpen
    /\ Cardinality(With("running")) < MaxNodes
    /\ ~BudgetExhausted
    /\ GraphPersisted => /\ NodeType[n] \notin ControlTypes
                         /\ DependenciesSucceeded(n) /\ GuardSelected(n)
    /\ n \in ApprovalRequired => approval[n] = "granted"

NodeStarted(n) ==
    /\ NodeStartedOk(n)
    /\ status' = [status EXCEPT ![n] = "running"]
    /\ attempt' = [attempt EXCEPT ![n] = @ + 1]
    /\ approval' = IF n \in ApprovalRequired
                   THEN [approval EXCEPT ![n] = "consumed"] ELSE approval
    /\ effects' = [effects EXCEPT ![n] = <<>>]
    /\ nodeStarts' = nodeStarts + 1
    /\ UNCHANGED <<runStatus, error, workflowApproval, interruptedAttempts,
                   failedAttempts, output, decision, consumed>>

NodeEffectPreparedOk(n) ==
    /\ status[n] = "running" /\ n \in Writable
    /\ Active /\ AdmissionOpen
    /\ Len(effects[n]) < MaxEffects

NodeEffectPrepared(n) ==
    /\ NodeEffectPreparedOk(n)
    /\ effects' = [effects EXCEPT ![n] = Append(@, "open")]
    /\ UNCHANGED <<runStatus, status, attempt, error, approval, workflowApproval,
                   interruptedAttempts, failedAttempts, output, decision,
                   nodeStarts, consumed>>

EffectOpen(n, i) ==
    /\ Active
    /\ status[n] = "running" /\ n \in Writable
    /\ i \in DOMAIN effects[n] /\ effects[n][i] = "open"

NodeEffectSettledOk(n, i) == EffectOpen(n, i) /\ AdmissionOpen

NodeEffectSettled(n, i, outcome) ==
    /\ NodeEffectSettledOk(n, i)
    /\ effects' = [effects EXCEPT ![n] = [@ EXCEPT ![i] = outcome]]
    /\ UNCHANGED <<runStatus, status, attempt, error, approval, workflowApproval,
                   interruptedAttempts, failedAttempts, output, decision,
                   nodeStarts, consumed>>

\* A later process observed the target of an effect nobody settled.
NodeEffectReconciled(n, i, outcome) ==
    /\ EffectOpen(n, i)
    /\ effects' = [effects EXCEPT ![n] = [@ EXCEPT ![i] = outcome]]
    /\ UNCHANGED <<runStatus, status, attempt, error, approval, workflowApproval,
                   interruptedAttempts, failedAttempts, output, decision,
                   nodeStarts, consumed>>

\* The settled effects that the final evidence must list, and nothing else:
\* validateDurableEffectProjection.
ReceiptsOf(n) ==
    {[sequence |-> i,
      outcome |-> IF effects[n][i] = "committed" THEN "committed" ELSE "uncertain"] :
        i \in {k \in DOMAIN effects[n] : effects[n][k] \in {"committed", "unknown"}}}

AllSettled(n) == \A i \in DOMAIN effects[n] : effects[n][i] \in Settlements

Some(n, outcome) == \E i \in DOMAIN effects[n] : effects[n][i] = outcome

\* requireNextRunningOutcome and requireRunningAttempt
NextOutcome(n) == Active /\ status[n] = "running" /\ n = First(With("running"))

NodeSucceededOk(n, value, receipts) ==
    /\ NextOutcome(n)
    /\ n \in Writable => AllSettled(n) /\ receipts = ReceiptsOf(n)
    /\ \A r \in receipts : r.outcome = "committed"
    /\ NodeType[n] = "agent" => value # Truncated

\* Mutant of Consume: the sign is wrong.
Refund(usage) == consumed' = IF SettlementLimit > 0 THEN consumed - usage ELSE consumed

\* addResources: units an attempt used count only against a declared limit.
Consume(usage) == consumed' = IF SettlementLimit > 0 THEN consumed + usage ELSE consumed

NodeSucceeded(n, value, receipts, usage) ==
    /\ NodeSucceededOk(n, value, receipts)
    /\ status' = [status EXCEPT ![n] = "succeeded"]
    /\ output' = [output EXCEPT ![n] = value]
    /\ Consume(usage)
    /\ UNCHANGED <<runStatus, attempt, error, approval, workflowApproval, effects,
                   interruptedAttempts, failedAttempts, decision, nodeStarts>>

NodeFailedOk(n, failure, receipts) ==
    /\ NextOutcome(n)
    /\ n \in Writable =>
          /\ AllSettled(n)
          /\ Some(n, "unknown") => ~failure.retryable
          /\ CASE Some(n, "unknown") -> failure.sideEffectStatus = "uncertain"
               [] ~Some(n, "unknown") /\ Some(n, "committed") ->
                     failure.sideEffectStatus # "none"
               [] OTHER -> failure.sideEffectStatus # "committed"
          /\ effects[n] # <<>> => failure.accounting # "none"
          /\ receipts = ReceiptsOf(n)

NodeFailed(n, failure, receipts, usage) ==
    /\ NodeFailedOk(n, failure, receipts)
    /\ status' = [status EXCEPT ![n] = "failed"]
    /\ error' = [error EXCEPT ![n] = failure]
    /\ Consume(IF failure.accounting = "none" THEN 0 ELSE usage)
    /\ UNCHANGED <<runStatus, attempt, approval, workflowApproval, effects,
                   interruptedAttempts, failedAttempts, output, decision, nodeStarts>>

\* Mutant of ProvenNotApplied: an unknown observation counts as a proof.
NotProvenApplied(n) ==
    \A i \in DOMAIN effects[n] :
        effects[n][i] \in {"not_applied", "found_not_applied", "found_unknown"}

\* validateInterruptedAttemptRecovery: nothing the attempt did is unaccounted
\* for, and every effect it prepared is proven not applied.
ProvenNotApplied(n) ==
    IF n \in Writable
    THEN \A i \in DOMAIN effects[n] : effects[n][i] \in {"not_applied", "found_not_applied"}
    ELSE effects[n] = <<>>

NodeAttemptInterruptedOk(n) ==
    /\ status[n] = "running"
    /\ Active
    /\ attempt[n] < MaxAttempts[n]
    /\ SettlementLimit > 0 => SettlementKind = "artifactBytes"
    /\ ~NodeStartsExhausted
    /\ ProvenNotApplied(n)

\* Both dispositions hand the node back as pending and forget the attempt.
FreshAttempt(n) ==
    /\ status' = [status EXCEPT ![n] = "pending"]
    /\ error' = [error EXCEPT ![n] = NoError]
    /\ approval' = [approval EXCEPT ![n] = "none"]
    /\ workflowApproval' = [workflowApproval EXCEPT ![n] = "none"]
    /\ effects' = [effects EXCEPT ![n] = <<>>]

NodeAttemptInterrupted(n) ==
    /\ NodeAttemptInterruptedOk(n)
    /\ FreshAttempt(n)
    /\ interruptedAttempts' = [interruptedAttempts EXCEPT ![n] = @ \cup {attempt[n]}]
    /\ UNCHANGED <<runStatus, attempt, failedAttempts, output, decision, nodeStarts,
                   consumed>>

\* Mutant of NodeRetryScheduled: the failed attempt is not archived.
RetryUnarchived(n) ==
    /\ Active /\ CanRetry(n)
    /\ FreshAttempt(n)
    /\ UNCHANGED <<runStatus, attempt, interruptedAttempts, failedAttempts, output,
                   decision, nodeStarts, consumed>>

NodeRetryScheduled(n) ==
    /\ Active /\ CanRetry(n)
    /\ FreshAttempt(n)
    /\ failedAttempts' = [failedAttempts EXCEPT ![n] = @ \cup {attempt[n]}]
    /\ UNCHANGED <<runStatus, attempt, interruptedAttempts, output, decision,
                   nodeStarts, consumed>>

-----------------------------------------------------------------------------
(* Control nodes.                                                          *)

ControlSucceeds(n, value, chosen) ==
    /\ status' = [status EXCEPT ![n] = "succeeded"]
    /\ attempt' = [attempt EXCEPT ![n] = 1]
    /\ output' = [output EXCEPT ![n] = value]
    /\ decision' = [decision EXCEPT ![n] = chosen]
    /\ UNCHANGED <<runStatus, error, approval, workflowApproval, effects,
                   interruptedAttempts, failedAttempts, nodeStarts, consumed>>

ReadyControl(n, type) ==
    /\ GraphPersisted /\ NodeType[n] = type
    /\ PendingControl(n)
    /\ ControlStep /\ AdmissionOpen

ConditionEvaluatedOk(n) ==
    /\ ReadyControl(n, "condition")
    /\ DependenciesSucceeded(n) /\ GuardSelected(n)
    /\ output[SourceOf(n)] \in Values

NodeConditionEvaluated(n) ==
    /\ ConditionEvaluatedOk(n)
    /\ ControlSucceeds(n, NoValue, Select[n][output[SourceOf(n)]])

ResultPublishedOk(n) ==
    /\ ReadyControl(n, "result")
    /\ DependenciesSucceeded(n) /\ GuardSelected(n)
    /\ output[SourceOf(n)] \in Valid[n]

\* The published value is a source for later control nodes.
NodeResultPublished(n) ==
    /\ ResultPublishedOk(n)
    /\ ControlSucceeds(n, output[SourceOf(n)], NoCase)

NodeJoinedOk(n) ==
    /\ ReadyControl(n, "join")
    /\ DependenciesTerminal(n)
    /\ Decided(JoinCondition[n])
    /\ decision[JoinCondition[n]] \in DOMAIN JoinBranch[n]
    /\ \A c \in DOMAIN JoinBranch[n] :
          status[JoinBranch[n][c]] =
             IF c = decision[JoinCondition[n]] THEN "succeeded" ELSE "omitted"

NodeJoined(n) == NodeJoinedOk(n) /\ ControlSucceeds(n, NoValue, NoCase)

\* Evidence a condition, approval or result needs is truncated, or a result's
\* source does not match its schema.
NodeControlFailedOk(n) ==
    /\ GraphPersisted /\ PendingControl(n)
    /\ NodeType[n] \in {"condition", "approval", "result"}
    /\ ControlStep /\ AdmissionOpen
    /\ DependenciesSucceeded(n) /\ GuardSelected(n)
    /\ \/ SourceTruncated(n)
       \/ NodeType[n] = "result" /\ output[SourceOf(n)] \notin Valid[n]

NodeControlFailed(n) ==
    /\ NodeControlFailedOk(n)
    /\ status' = [status EXCEPT ![n] = "failed"]
    /\ attempt' = [attempt EXCEPT ![n] = 1]
    /\ error' = [error EXCEPT ![n] = NoError]
    /\ UNCHANGED <<runStatus, approval, workflowApproval, effects,
                   interruptedAttempts, failedAttempts, output, decision,
                   nodeStarts, consumed>>

\* The guard's condition chose another case.
OmittedByCondition(n) ==
    /\ n \in Guarded
    /\ Decided(GuardCondition[n])
    /\ decision[GuardCondition[n]] # GuardCase[n]

\* A dependency was omitted, and the guard did not already decide.
OmittedByDependency(n) ==
    /\ \E d \in DependsOn[n] : status[d] = "omitted"
    /\ n \in Guarded => \/ status[GuardCondition[n]] = "omitted"
                        \/ GuardSelected(n)

\* Mutant of NodeOmittedOk: the node need not be pending.
OmittedAnyTime(n) ==
    /\ ControlStep /\ AdmissionOpen /\ GraphPersisted
    /\ DependenciesTerminal(n)
    /\ OmittedByCondition(n) \/ OmittedByDependency(n)

NodeOmittedOk(n) ==
    /\ GraphPersisted /\ status[n] = "pending"
    /\ DependenciesTerminal(n)
    /\ ControlStep /\ AdmissionOpen
    /\ OmittedByCondition(n) \/ OmittedByDependency(n)

NodeOmitted(n) ==
    /\ NodeOmittedOk(n)
    /\ status' = [status EXCEPT ![n] = "omitted"]
    /\ UNCHANGED <<runStatus, attempt, error, approval, workflowApproval, effects,
                   interruptedAttempts, failedAttempts, output, decision,
                   nodeStarts, consumed>>

-----------------------------------------------------------------------------
(* The ledger accepts any of these events, in any order their guards allow. *)

ApprovalEvent(n) ==
    \/ CommandApprovalRequested(n) \/ CommandApprovalGranted(n)
    \/ CommandApprovalDenied(n) \/ GrantLapses(n) \/ CommandApprovalExpired(n)
    \/ WorkflowApprovalRequested(n) \/ WorkflowApprovalApproved(n)
    \/ WorkflowApprovalDenied(n)

EffectEvent(n) ==
    \/ NodeEffectPrepared(n)
    \/ \E i \in DOMAIN effects[n] :
          \/ \E s \in Settlements : NodeEffectSettled(n, i, s)
          \/ \E r \in Reconciliations : NodeEffectReconciled(n, i, r)

AttemptEvent(n) ==
    \/ NodeStarted(n)
    \/ /\ NextOutcome(n)
       /\ \E u \in 0 .. MaxUsage :
             \/ \E v \in Values \cup {Truncated} : NodeSucceeded(n, v, ReceiptsOf(n), u)
             \/ \E f \in Failures : NodeFailed(n, f, ReceiptsOf(n), u)
    \/ NodeAttemptInterrupted(n)
    \/ NodeRetryScheduled(n)

ControlEvent(n) ==
    \/ NodeConditionEvaluated(n) \/ NodeResultPublished(n) \/ NodeJoined(n)
    \/ NodeControlFailed(n) \/ NodeOmitted(n)

TerminalEvent ==
    \/ RunSucceeded \/ RunCancelled \/ RunBudgetExhausted
    \/ \E n \in Nodes : RunFailed(n)

Next ==
    \/ RunStarted
    \/ TerminalEvent
    \/ \E n \in Nodes :
          ApprovalEvent(n) \/ EffectEvent(n) \/ AttemptEvent(n) \/ ControlEvent(n)

Spec == Init /\ [][Next]_ledgerVars

-----------------------------------------------------------------------------
(* Properties of every ledger the reducer accepts.                         *)

\* The attempts of a node that were archived, and the one that was not.
Archived(n) == interruptedAttempts[n] \cup failedAttempts[n]
Latest(n) == IF status[n] \in {"running", "succeeded", "failed"} THEN {attempt[n]} ELSE {}

\* Every attempt number up to the latest is accounted for exactly once: it is
\* the open or settled attempt, or it was archived as interrupted, or it was
\* archived as failed and retried.  None is lost, reused or disposed of twice.
AttemptHistory ==
    \A n \in Nodes :
        /\ Archived(n) \cup Latest(n) = 1 .. attempt[n]
        /\ Archived(n) \cap Latest(n) = {}
        /\ interruptedAttempts[n] \cap failedAttempts[n] = {}

Requested == {n \in Nodes : approval[n] = "pending" \/ workflowApproval[n] = "pending"}

\* A run waits exactly when one request is pending: nothing runs meanwhile, no
\* failure is outstanding, and the only way out is that one decision.
WaitingForOne ==
    /\ runStatus = "waiting_for_approval" =>
          /\ \E n \in Nodes : Requested = {n} /\ status[n] = "pending"
          /\ With("running") = {} /\ With("failed") = {}
    /\ Active /\ Requested # {} => runStatus = "waiting_for_approval"

\* Two approvals are never open at once, so a decision cannot reach the wrong one.
OneOpenApproval ==
    \A m \in Nodes : approval[m] \in OpenApproval \/ workflowApproval[m] = "pending" =>
        \A n \in Nodes : approval[n] \in OpenApproval \/ workflowApproval[n] = "pending" =>
            m = n

\* A node of a persisted graph was worked on only after everything it depends
\* on succeeded and its guard chose it; a join only after the chosen branch
\* succeeded and every other one was omitted.  A denied command is the one
\* node that can fail without having been started.
WorkHadPrerequisites ==
    GraphPersisted =>
        \A n \in Nodes :
            attempt[n] > 0 /\ approval[n] # "denied" =>
                IF NodeType[n] = "join"
                THEN /\ Decided(JoinCondition[n])
                     /\ \A c \in DOMAIN JoinBranch[n] :
                           status[JoinBranch[n][c]] =
                              IF c = decision[JoinCondition[n]] THEN "succeeded" ELSE "omitted"
                ELSE DependenciesSucceeded(n) /\ GuardSelected(n)

\* A node that was ever started is never omitted afterwards: work is not thrown
\* away by a later branch decision.
OmittedNeverStarted ==
    \A n \in Nodes : status[n] = "omitted" =>
        attempt[n] = 0 /\ interruptedAttempts[n] = {} /\ failedAttempts[n] = {}

\* Admission respects the declared limits at every moment.
LimitsRespected ==
    /\ Cardinality(With("running")) <= MaxNodes
    /\ MaxNodeStarts > 0 => nodeStarts <= MaxNodeStarts

\* Evidence of an effect that may have been applied is never erased: once a
\* journal entry is anything but proven not applied, no restart, retry or
\* recovery shortens the journal or changes what was settled or observed.
JournalKept ==
    [][\A n \in Nodes :
          (\E i \in DOMAIN effects[n] :
              effects[n][i] \notin {"not_applied", "found_not_applied"}) =>
          /\ Len(effects'[n]) >= Len(effects[n])
          /\ \A i \in DOMAIN effects[n] :
                effects[n][i] # "open" => effects'[n][i] = effects[n][i]]_ledgerVars
-----------------------------------------------------------------------------
(* The ledger implements the contract of a run.                            *)

Contract == INSTANCE RunContract WITH
    Needs <- [n \in Nodes |->
                 IF GraphPersisted /\ NodeType[n] # "join" 
                 THEN DependsOn[n] ELSE {}],
    conclusion <- IF runStatus = "absent" THEN "none"
                  ELSE IF Active THEN "open" ELSE runStatus,
    work <- [n \in Nodes |->
                CASE status[n] = "pending" -> "todo"
                  [] status[n] = "running" -> "doing"
                  [] status[n] = "succeeded" -> "done"
                  [] status[n] = "omitted" -> "skipped"
                  [] status[n] = "failed" -> "broken"]

\* Every ledger the reducer accepts is a behaviour of RunContract: work starts
\* and finishes only with its dependencies done, finished and omitted nodes never
\* change again, and the run concludes once, quiescent and truthfully.
ImplementsContract == Contract!ContractSpec
=============================================================================
