--------------------- MODULE RunWorkflowAccepted_proofs ---------------------
(***************************************************************************)
(* Proofs that the scheduler and the reducer agree: in every workflow      *)
(* whose branches nest, a join finds what it asks for, the scheduler       *)
(* always has a next transition, and the ledger accepts each event a call  *)
(* decides to append.                                                      *)
(***************************************************************************)
EXTENDS RunWorkflowFiles_proofs

(* Records.  A finished node has the evidence its type promises, an        *)
(* omitted one a reason, and a pending one no decided approval.            *)

Evidence(n) ==
    /\ NodeType[n] \in {"agent", "command", "result"} => output[n] \in Values \cup {Truncated}
    /\ NodeType[n] = "condition" => \E v \in Values : decision[n] = Select[n][v]

Cause(n) ==
    /\ GraphPersisted
    /\ NodeType[n] # "join" =>
          OmittedByCondition(n) \/ \E d \in DependsOn[n] : status[d] = "omitted"

Undecided(n) == approval[n] \notin {"denied", "consumed"} /\ workflowApproval[n] \in {"none", "pending"}

Recorded(n) ==
    /\ status[n] = "succeeded" => Evidence(n)
    /\ status[n] = "omitted" => Cause(n)
    /\ status[n] = "pending" => Undecided(n)

RecordsInv == \A n \in Nodes : Recorded(n)

\* An event about n writes the output of no other node.
LEMMA OutputsStay ==
    ASSUME TypeOK, NEW n \in Nodes, OrderlyEvent(n), NEW m \in Nodes, m # n
    PROVE  output'[m] = output[m]
<1>1. CASE Admits(n) \/ Omits(n) \/ Answers(n)
  BY <1>1 DEF Admits, Omits, Answers, CommandApprovalRequested, NodeStarted, NodeOmitted,
     CommandApprovalGranted, CommandApprovalDenied, GrantLapses, CommandApprovalExpired,
     WorkflowApprovalRequested, WorkflowApprovalApproved, WorkflowApprovalDenied
<1>2. CASE Finishes(n)
  BY <1>2 DEF Finishes, NodeSucceeded, NodeFailed, NodeAttemptInterrupted, NodeRetryScheduled,
     TypeOK
<1>3. CASE Evaluates(n)
  BY <1>3 DEF Evaluates, NodeConditionEvaluated, NodeResultPublished, NodeJoined,
     ControlSucceeds, NodeControlFailed, TypeOK
<1>4. CASE EffectEvent(n)
  BY <1>4 DEF EffectEvent, NodeEffectPrepared, NodeEffectSettled, NodeEffectReconciled
<1> QED BY <1>1, <1>2, <1>3, <1>4 DEF OrderlyEvent, WorkEvent

\* The reason for an omission stays.
LEMMA CauseStays ==
    ASSUME FinishedStays, NEW n \in Nodes, Cause(n)
    PROVE  Cause(n)'
<1>1. OmittedByCondition(n) => OmittedByCondition(n)'
  BY GraphAssumption DEF OmittedByCondition, Decided, FinishedStays
<1>2. (\E d \in DependsOn[n] : status[d] = "omitted") =>
          \E d \in DependsOn[n] : status'[d] = "omitted"
  BY GraphAssumption DEF FinishedStays
<1> QED BY <1>1, <1>2 DEF Cause

\* A node that an event is not about keeps its record.
LEMMA OtherRecord ==
    ASSUME TypeOK, NEW n \in Nodes, OrderlyEvent(n), OthersStay(n), FinishedStays,
           NEW m \in Nodes, m # n, Recorded(m)
    PROVE  Recorded(m)'
<1>1. /\ status'[m] = status[m] /\ decision'[m] = decision[m]
      /\ approval'[m] = approval[m] /\ workflowApproval'[m] = workflowApproval[m]
  BY DEF OthersStay
<1>2. output'[m] = output[m]
  BY OutputsStay
<1>3. Cause(m) => Cause(m)'
  BY CauseStays
<1>4. (Evidence(m) => Evidence(m)') /\ (Undecided(m) => Undecided(m)')
  BY <1>1, <1>2 DEF Evidence, Undecided
<1> QED BY <1>1, <1>3, <1>4 DEF Recorded

\* The node an event is about gets the record the event promises.
LEMMA OwnRecord ==
    ASSUME WorkInv, NEW n \in Nodes, OrderlyEvent(n), FinishedStays, Recorded(n)
    PROVE  Recorded(n)'
<1>1. TypeOK /\ NodeInv(n) /\ ApprovalShape
  BY DEF WorkInv, LedgerInv
<1>2. ASSUME status'[n] = "pending", Undecided(n)' PROVE Recorded(n)'
  BY <1>2 DEF Recorded
<1>3. ASSUME status'[n] \in {"running", "failed"} PROVE Recorded(n)'
  BY <1>3 DEF Recorded
<1>4. ASSUME status'[n] = "succeeded", Evidence(n)' PROVE Recorded(n)'
  BY <1>4 DEF Recorded
<1>5. CASE NodeStarted(n)
  BY <1>1, <1>3, <1>5 DEF NodeStarted, TypeOK
<1>6. CASE CommandApprovalRequested(n)
  BY <1>1, <1>2, <1>6 DEF CommandApprovalRequested, CommandApprovalRequestedOk, Recorded,
     Undecided, TypeOK
<1>7. CASE Omits(n)
  <2>1. status'[n] = "omitted" /\ Cause(n)
    BY <1>1, <1>7 DEF Omits, NodeOmitted, NodeOmittedOk, OmittedByDependency, Cause, TypeOK
  <2> QED BY <2>1, CauseStays DEF Recorded
<1>8. CASE CommandApprovalGranted(n) \/ CommandApprovalExpired(n) \/ WorkflowApprovalRequested(n)
  BY <1>1, <1>2, <1>8 DEF CommandApprovalGranted, CommandApprovalPending,
     CommandApprovalExpired, CommandApprovalExpiredOk, WorkflowApprovalRequested,
     WorkflowApprovalRequestedOk, PendingControl, Recorded, Undecided, TypeOK
<1>9. CASE CommandApprovalDenied(n) \/ WorkflowApprovalDenied(n)
  BY <1>1, <1>3, <1>9 DEF CommandApprovalDenied, WorkflowApprovalDenied, TypeOK
<1>10. CASE GrantLapses(n)
  <2>1. UNCHANGED <<status, decision, output, workflowApproval>> /\ approval'[n] = "lapsed"
    BY <1>1, <1>10 DEF GrantLapses, TypeOK
  <2>2. (Evidence(n) => Evidence(n)') /\ (Undecided(n) => Undecided(n)')
    BY <2>1 DEF Evidence, Undecided
  <2> QED BY <2>1, <2>2, CauseStays DEF Recorded
<1>11. CASE WorkflowApprovalApproved(n)
  <2>1. status'[n] = "succeeded" /\ NodeType[n] = "approval"
    BY <1>1, <1>11 DEF WorkflowApprovalApproved, WorkflowApprovalPending, ApprovalShape, TypeOK
  <2> QED BY <1>4, <2>1 DEF Evidence
<1>12. CASE Finishes(n)
  <2>1. ASSUME NEW u, NEW v \in Values \cup {Truncated}, NodeSucceeded(n, v, ReceiptsOf(n), u)
        PROVE  Recorded(n)'
    <3>1. status[n] = "running" /\ status'[n] = "succeeded" /\ output'[n] = v
      BY <1>1, <2>1 DEF NodeSucceeded, NodeSucceededOk, NextOutcome, TypeOK
    <3>2. NodeType[n] \notin ControlTypes
      BY <1>1, <3>1 DEF NodeInv
    <3> QED BY <1>4, <3>1, <3>2 DEF Evidence, ControlTypes
  <2>2. ASSUME NEW u, NEW f, NodeFailed(n, f, ReceiptsOf(n), u) PROVE Recorded(n)'
    BY <1>1, <1>3, <2>2 DEF NodeFailed, TypeOK
  <2>3. CASE NodeAttemptInterrupted(n) \/ NodeRetryScheduled(n)
    BY <1>1, <1>2, <2>3 DEF NodeAttemptInterrupted, NodeRetryScheduled, FreshAttempt,
       Undecided, TypeOK
  <2> QED BY <1>12, <2>1, <2>2, <2>3 DEF Finishes
<1>13. CASE Evaluates(n)
  <2>1. CASE NodeControlFailed(n)
    BY <1>1, <1>3, <2>1 DEF NodeControlFailed, TypeOK
  <2>2. CASE NodeJoined(n)
    BY <1>1, <1>4, <2>2 DEF NodeJoined, NodeJoinedOk, ReadyControl, ControlSucceeds, Evidence,
       TypeOK
  <2>3. CASE NodeConditionEvaluated(n)
    BY <1>1, <1>4, <2>3 DEF NodeConditionEvaluated, ConditionEvaluatedOk, ReadyControl,
       ControlSucceeds, Evidence, TypeOK
  <2>4. CASE NodeResultPublished(n)
    <3>1. output[SourceOf(n)] \in Values /\ NodeType[n] = "result"
      BY <2>4, GraphAssumption DEF NodeResultPublished, ResultPublishedOk, ReadyControl
    <3> QED BY <1>1, <1>4, <2>4, <3>1 DEF NodeResultPublished, ControlSucceeds, Evidence, TypeOK
  <2> QED BY <1>13, <2>1, <2>2, <2>3, <2>4 DEF Evaluates
<1>14. CASE EffectEvent(n)
  <2>1. UNCHANGED <<status, decision, output, approval, workflowApproval>>
    BY <1>14 DEF EffectEvent, NodeEffectPrepared, NodeEffectSettled, NodeEffectReconciled
  <2>2. (Evidence(n) => Evidence(n)') /\ (Undecided(n) => Undecided(n)')
    BY <2>1 DEF Evidence, Undecided
  <2> QED BY <2>1, <2>2, CauseStays DEF Recorded
<1> QED BY <1>5, <1>6, <1>7, <1>8, <1>9, <1>10, <1>11, <1>12, <1>13, <1>14
       DEF OrderlyEvent, WorkEvent, Admits, Answers

\* Every step keeps the records.
LEMMA RecordsStay ==
    ASSUME WorkInv, RecordsInv, [OrderlyNext]_ledgerVars
    PROVE  RecordsInv'
<1>1. CASE RunStarted \/ TerminalEvent \/ UNCHANGED ledgerVars
  <2>1. UNCHANGED <<status, approval, workflowApproval, output, decision>>
    BY <1>1 DEF RunStarted, TerminalEvent, RunSucceeded, RunFailed, RunCancelled,
       RunBudgetExhausted, Conclude, ledgerVars
  <2> QED BY <2>1 DEF RecordsInv, Recorded, Evidence, Cause, Undecided, OmittedByCondition, Decided
<1>2. ASSUME NEW n \in Nodes, OrderlyEvent(n) PROVE RecordsInv'
  <2>1. TypeOK /\ OthersStay(n) /\ FinishedStays
    BY <1>2, OrderlyEventIsLocal DEF WorkInv, LedgerInv
  <2> QED BY <1>2, <2>1, OwnRecord, OtherRecord DEF RecordsInv
<1> QED BY <1>1, <1>2 DEF OrderlyNext, WorkNext, OrderlyEvent

-----------------------------------------------------------------------------
(* Branches.  With scope as in BranchesNest, a node that succeeded is in   *)
(* branches that were all chosen, and an omitted one in some branch that   *)
(* was not.  There is no cycle, so a first node for which this fails would *)
(* have only nodes before it for which it holds.                           *)

Chosen(S) == \A p \in S : Decided(p[1]) /\ decision[p[1]] = p[2]
Passed(S) == \E p \in S : Decided(p[1]) /\ decision[p[1]] # p[2]

\* The branches of one node agree with how it ended.
InScope(scope, n) ==
    /\ status[n] = "succeeded" => Chosen(scope[n])
    /\ status[n] = "omitted" => Passed(scope[n])

\* A node that succeeded has an attempt.
LEMMA SucceededWasAttempted ==
    ASSUME WorkInv, NEW n \in Nodes, status[n] = "succeeded"
    PROVE  attempt[n] \in Nat /\ attempt[n] > 0
<1>1. Archived(n) \cup {attempt[n]} = 1 .. attempt[n] /\ attempt[n] \in Nat
  BY DEF WorkInv, LedgerInv, AttemptHistory, Latest, TypeOK
<1>2. attempt[n] \in 1 .. attempt[n]
  BY <1>1
<1> QED BY <1>1, <1>2

\* A node other than a join is in the branches of its dependencies and its own.
LEMMA NodeInScope ==
    ASSUME SchedulerInv, RecordsInv, NEW scope, BranchesNest(scope),
           NEW n \in Nodes, NodeType[n] # "join",
           \A d \in DependsOn[n] : InScope(scope, d)
    PROVE  InScope(scope, n)
<1>1. scope[n] = Inherited(scope, n) \cup OwnBranch(n)
  BY DEF BranchesNest
<1>2. /\ \A p \in Inherited(scope, n) : \E d \in DependsOn[n] : p \in scope[d]
      /\ \A d \in DependsOn[n] : scope[d] \subseteq Inherited(scope, n)
  BY DEF Inherited
<1>3. ASSUME status[n] = "succeeded" PROVE Chosen(scope[n])
  <2>1. Ready(n)
    BY <1>3, SucceededWasAttempted DEF SchedulerInv, OrderInv, InOrder
  <2>2. \A d \in DependsOn[n] : Chosen(scope[d])
    BY <2>1 DEF Ready, DependenciesSucceeded, InScope
  <2>3. Chosen(OwnBranch(n))
    BY <2>1 DEF Ready, GuardSelected, Chosen, OwnBranch
  <2> QED BY <1>1, <1>2, <2>2, <2>3 DEF Chosen
<1>4. ASSUME status[n] = "omitted" PROVE Passed(scope[n])
  <2>1. OmittedByCondition(n) \/ \E d \in DependsOn[n] : status[d] = "omitted"
    BY <1>4 DEF RecordsInv, Recorded, Cause
  <2>2. CASE OmittedByCondition(n)
    <3>1. <<GuardCondition[n], GuardCase[n]>> \in scope[n]
      BY <1>1, <2>2 DEF OmittedByCondition, OwnBranch
    <3> QED BY <2>2, <3>1 DEF Passed, OmittedByCondition
  <2>3. ASSUME NEW d \in DependsOn[n], status[d] = "omitted" PROVE Passed(scope[n])
    <3>1. Passed(scope[d]) /\ scope[d] \subseteq scope[n]
      BY <1>1, <1>2, <2>3 DEF InScope
    <3> QED BY <3>1 DEF Passed
  <2> QED BY <2>1, <2>2, <2>3
<1> QED BY <1>3, <1>4 DEF InScope

\* A join is where its condition is.
LEMMA JoinInScope ==
    ASSUME SchedulerInv, NEW scope, BranchesNest(scope),
           NEW n \in Nodes, NodeType[n] = "join", InScope(scope, JoinCondition[n])
    PROVE  InScope(scope, n)
<1>1. scope[n] = scope[JoinCondition[n]]
  BY DEF BranchesNest
<1>2. ASSUME status[n] = "succeeded" PROVE status[JoinCondition[n]] = "succeeded"
  <2>1. attempt[n] > 0 /\ NodeInv(n)
    BY <1>2, SucceededWasAttempted DEF SchedulerInv, WorkInv
  <2>2. GraphPersisted
    BY CompilerAssumption DEF ControlTypes
  <2>3. approval[n] # "denied"
    BY <1>2, <2>1 DEF NodeInv
  <2> QED BY <2>1, <2>2, <2>3 DEF NodeInv, Prerequisites, Decided
<1>3. status[n] = "omitted" => status[JoinCondition[n]] = "omitted"
  BY DEF SchedulerInv, OrderInv, InOrder
<1> QED BY <1>1, <1>2, <1>3 DEF InScope

\* Every node ended the way the branches it is in were decided.
LEMMA AllInScope ==
    ASSUME SchedulerInv, RecordsInv, NEW scope, BranchesNest(scope), NEW n \in Nodes
    PROVE  InScope(scope, n)
<1> DEFINE Astray == {m \in Nodes : ~InScope(scope, m)}
<1> SUFFICES ASSUME Astray # {} PROVE FALSE
  OBVIOUS
<1>1. PICK m \in Astray : Before(m) \cap Astray = {}
  BY CompilerAssumption
<1>2. m \in Nodes /\ ~InScope(scope, m)
  OBVIOUS
<1>3. DependsOn[m] \subseteq Nodes /\ JoinCondition[m] \in Nodes
  BY <1>2, GraphAssumption
<1>4. \A d \in DependsOn[m] : InScope(scope, d)
  BY <1>1, <1>3 DEF Before
<1>5. NodeType[m] = "join" => InScope(scope, JoinCondition[m])
  BY <1>1, <1>3 DEF Before
<1> QED BY <1>2, <1>4, <1>5, NodeInScope, JoinInScope

\* The branch of a join is chosen with its condition, and passed with it or by it.
LEMMA BranchesReconcile ==
    ASSUME SchedulerInv, RecordsInv, NEW scope, BranchesNest(scope)
    PROVE  JoinsReconcile
<1> SUFFICES ASSUME NEW n \in Nodes, NodeType[n] = "join", DependenciesTerminal(n),
                    Decided(JoinCondition[n]), NEW c \in DOMAIN JoinBranch[n]
             PROVE  status[JoinBranch[n][c]] =
                       IF c = decision[JoinCondition[n]] THEN "succeeded" ELSE "omitted"
  BY DEF JoinsReconcile
<1> DEFINE b == JoinBranch[n][c]
           C == JoinCondition[n]
<1>1. b \in DependsOn[n] /\ b \in Nodes /\ C \in Nodes
  BY CompilerAssumption, GraphAssumption
<1>2. status[b] \in {"succeeded", "omitted"}
  BY <1>1 DEF DependenciesTerminal
<1>3. scope[b] = scope[C] \cup {<<C, c>>}
  BY DEF BranchesNest
<1>4. InScope(scope, b) /\ InScope(scope, C)
  BY <1>1, AllInScope
<1>5. Chosen(scope[C])
  BY <1>4 DEF InScope, Decided
<1>6. ASSUME status[b] = "succeeded" PROVE decision[C] = c
  <2>1. <<C, c>> \in scope[b] /\ Chosen(scope[b])
    BY <1>3, <1>4, <1>6 DEF InScope
  <2>2. decision[<<C, c>>[1]] = <<C, c>>[2]
    BY ONLY <2>1 DEF Chosen
  <2> QED BY <2>2
<1>7. ASSUME status[b] = "omitted" PROVE decision[C] # c
  <2>1. PICK p \in scope[b] : Decided(p[1]) /\ decision[p[1]] # p[2]
    BY <1>4, <1>7 DEF InScope, Passed
  <2>2. p = <<C, c>>
    BY <1>3, <1>5, <2>1 DEF Chosen
  <2> QED BY <2>1, <2>2
<1> QED BY <1>2, <1>6, <1>7

\* The records hold of every workflow.
LEMMA RecordsInvariant == WorkflowSafety => []RecordsInv
<1>1. WorkflowInit => RecordsInv
  BY DEF WorkflowInit, Init, RecordsInv, Recorded, Undecided
<1>2. SchedulerInv /\ RecordsInv /\ [WorkflowNext]_workflowVars => RecordsInv'
  BY StepIsOrderly, RecordsStay DEF SchedulerInv
<1> QED BY <1>1, <1>2, SchedulerInvariant, PTL DEF WorkflowSafety

\* In every workflow whose branches nest, whatever fails, is retried, recovered or
\* decided meanwhile, a join whose branches have ended finds exactly the branch its
\* condition chose done and the others omitted: the reducer never refuses it.
THEOREM NestedJoinsReconcile ==
    ASSUME NEW CONSTANT scope, BranchesNest(scope)
    PROVE  WorkflowSafety => []JoinsReconcile
<1>1. SchedulerInv /\ RecordsInv => JoinsReconcile
  BY BranchesReconcile
<1> QED BY <1>1, SchedulerInvariant, RecordsInvariant, PTL

-----------------------------------------------------------------------------
(* Admission.  What a call found when it entered its loop and its round    *)
(* still holds when it acts on it, an approval that was asked for is the   *)
(* first thing there is to do, and a conclusion that is about to be        *)
(* published is still the one the reducer expects.                         *)

LoopOpen == pc \in {"loop", "admit"} => With("failed") = {}

RoundFunded == pc = "admit" /\ admitted = <<>> => ~BudgetExhausted /\ ~AllTerminal

Held(n) == approval[n] \in OpenApproval \/ workflowApproval[n] = "pending"

HeldFirst ==
    \A n \in Nodes : Held(n) =>
        /\ n \in Transitions /\ \A m \in Transitions : n <= m
        /\ With("running") = {} /\ With("failed") = {}

\* run_failed after a denial or a control failure.
FailingPhases == {"control_failed", "denied"}

FailureFinal ==
    /\ runStatus = "waiting_for_approval" \/ pc \in FailingPhases => ~SettlementExhausted
    /\ pc \in FailingPhases => \A n \in With("failed") : NodeType[n] # "agent"

AdmissionInv == LoopOpen /\ RoundFunded /\ HeldFirst /\ FailureFinal

\* What is pending goes on being first while nothing new is asked for.
LEMMA HeldFrame ==
    ASSUME HeldFirst, UNCHANGED <<status, decision>>, \A n \in Nodes : Held(n)' => Held(n)
    PROVE  HeldFirst'
<1>1. Transitions' = Transitions /\ \A s : With(s)' = With(s)
  BY DEF Transitions, TransitionOf, DependenciesTerminal, OmittedByCondition, Decided, With
<1> QED BY <1>1 DEF HeldFirst

\* Nothing is, when nothing is asked for.
LEMMA NothingHeld ==
    ASSUME \A n \in Nodes : ~Held(n)'
    PROVE  HeldFirst'
BY DEF HeldFirst

\* While something runs or has failed, no approval is open.
LEMMA NoneHeld ==
    ASSUME HeldFirst, NEW n \in Nodes, status[n] \in {"running", "failed"}
    PROVE  \A m \in Nodes : ~Held(m)
BY DEF HeldFirst, With

\* The scheduler's next node is the one whose approval is open.
LEMMA HeldIsNext ==
    ASSUME HeldFirst, NEW n \in Nodes, Held(n)
    PROVE  n = NextNode /\ n \in Transitions /\ With("running") = {} /\ With("failed") = {}
<1>1. n \in Transitions /\ \A m \in Transitions : n <= m
  BY DEF HeldFirst
<1>2. Transitions \in SUBSET Nat
  BY GraphAssumption DEF Transitions
<1>3. NextNode \in Transitions /\ NextNode <= n
  BY <1>1, <1>2, FirstIsLeast DEF NextNode
<1>4. n = NextNode
  BY <1>1, <1>2, <1>3
<1> QED BY <1>1, <1>4 DEF HeldFirst

\* A command that asked for its approval is ready to be executed.
LEMMA HeldCommand ==
    ASSUME SchedulerInv, NEW n \in Transitions, approval[n] # "none"
    PROVE  TransitionOf(n) = "execute" /\ n \in ApprovalRequired
<1>1. n \in Nodes /\ n \in ApprovalRequired /\ NodeType[n] = "command"
  BY PolicyAssumption DEF SchedulerInv, WorkInv, LedgerInv, ApprovalShape, Transitions
<1>2. Ready(n)
  BY <1>1 DEF SchedulerInv, OrderInv, InOrder
<1>3. /\ \A d \in DependsOn[n] : status[d] = "succeeded"
      /\ n \in Guarded => Decided(GuardCondition[n]) /\ decision[GuardCondition[n]] = GuardCase[n]
  BY <1>2 DEF Ready, DependenciesSucceeded, GuardSelected
<1> QED BY <1>1, <1>3 DEF TransitionOf, OmittedByCondition, ControlTypes

\* A step that neither moves the call nor touches a status or a counter.
LEMMA StillAdmission ==
    ASSUME AdmissionInv, UNCHANGED <<runStatus, status, decision, nodeStarts, consumed, pc, admitted>>,
           \A n \in Nodes : Held(n)' => Held(n)
    PROVE  AdmissionInv'
<1>1. LoopOpen' /\ RoundFunded' /\ FailureFinal'
  BY DEF AdmissionInv, LoopOpen, RoundFunded, FailureFinal, With, BudgetExhausted,
     NodeStartsExhausted, SettlementExhausted, AllTerminal
<1> QED BY <1>1, HeldFrame DEF AdmissionInv

\* A call that leaves its loop, or is not in it yet, with the ledger's nodes as they
\* were.
LEMMA ElsewhereAdmission ==
    ASSUME AdmissionInv, pc' \notin {"loop", "admit"} \cup FailingPhases,
           UNCHANGED <<status, decision, consumed, approval, workflowApproval>>,
           runStatus' = "waiting_for_approval" => runStatus = "waiting_for_approval"
    PROVE  AdmissionInv'
<1>1. LoopOpen' /\ RoundFunded' /\ FailureFinal'
  BY DEF AdmissionInv, LoopOpen, RoundFunded, FailureFinal, SettlementExhausted
<1> QED BY <1>1, HeldFrame DEF AdmissionInv, Held

\* Tools, executors, the clock and an abort.
LEMMA WorldAdmission ==
    ASSUME AdmissionInv,
           \/ UNCHANGED workflowVars \/ TimePasses \/ Abort
           \/ \E n \in Nodes : \/ ToolBegins(n) \/ ToolPublishes(n) \/ ToolApplies(n) \/ ToolSettles(n)
                             \/ ToolPublicationFails(n) \/ ExecutorReturns(n)
    PROVE  AdmissionInv'
<1>1. CASE UNCHANGED workflowVars \/ Abort
  BY <1>1, StillAdmission DEF workflowVars, Abort, ledgerVars, callVars, Held
<1>2. CASE TimePasses
  <2>1. PICK n \in Nodes : GrantLapses(n) /\ UNCHANGED callVars
    BY <1>2 DEF TimePasses
  <2>2. \A m \in Nodes : Held(m)' => Held(m)
    BY <2>1 DEF GrantLapses, Held, OpenApproval
  <2> QED BY <2>1, <2>2, StillAdmission DEF GrantLapses, callVars
<1>3. ASSUME NEW n \in Nodes,
             \/ ToolBegins(n) \/ ToolPublishes(n) \/ ToolApplies(n) \/ ToolSettles(n)
             \/ ToolPublicationFails(n) \/ ExecutorReturns(n)
      PROVE  AdmissionInv'
  <2>1. UNCHANGED <<runStatus, status, decision, nodeStarts, consumed, approval,
                    workflowApproval, pc, admitted>>
    BY <1>3 DEF ToolBegins, ToolPublishes, ToolPrepared, ToolSettled, ToolRejected,
       ToolApplies, ToolSettles, ToolPublicationFails, ExecutorReturns, ExecutorSucceeds,
       ExecutorFails, ExecutorThrows, Returns, NodeEffectPrepared, NodeEffectSettled,
       callVars, ledgerVars
  <2> QED BY <2>1, StillAdmission DEF Held
<1> QED BY <1>1, <1>2, <1>3

\* An attempt that is handed back had closed every approval, and asks for none.
LEMMA HandedBack ==
    ASSUME WorkflowTypeOK, HeldFirst, NEW n \in Nodes, status[n] \in {"running", "failed"},
           NodeAttemptInterrupted(n) \/ NodeRetryScheduled(n)
    PROVE  HeldFirst'
<1>1. \A m \in Nodes : ~Held(m)
  BY NoneHeld
<1>2. \A m \in Nodes : /\ approval'[m] \in {approval[m], "none"}
                       /\ workflowApproval'[m] \in {workflowApproval[m], "none"}
  BY DEF NodeAttemptInterrupted, NodeRetryScheduled, FreshAttempt, WorkflowTypeOK, TypeOK
<1> QED BY <1>1, <1>2, NothingHeld DEF Held, OpenApproval

\* The recovery.
LEMMA RecoveryAdmission ==
    ASSUME WorkflowTypeOK, AdmissionInv, RecoveryStep
    PROVE  AdmissionInv'
<1>1. CASE Dispose
  <2>1. First(Disposable) \in Nodes /\ status[First(Disposable)] = "running"
    BY <1>1, FirstIsLeast, GraphAssumption DEF Dispose, Disposable, Running, With
  <2>2. HeldFirst'
    BY <1>1, <2>1, HandedBack DEF Dispose, AdmissionInv
  <2>3. pc' = "dispose" /\ UNCHANGED <<runStatus, consumed>>
    BY <1>1 DEF Dispose, NodeAttemptInterrupted, callVars
  <2> QED BY <2>2, <2>3 DEF AdmissionInv, LoopOpen, RoundFunded, FailureFinal, FailingPhases,
          SettlementExhausted
<1>2. CASE Reconcile \/ Reconciled \/ RecoveryRefused \/ RunResumed
  <2>1. pc' \notin {"loop", "admit"} \cup FailingPhases
    BY <1>2 DEF Reconcile, Reconciled, RecoveryRefused, RunResumed, GoTo, Return, callVars,
       FailingPhases
  <2>2. UNCHANGED <<runStatus, status, decision, consumed, approval, workflowApproval>>
    BY <1>2 DEF Reconcile, Reconciled, RecoveryRefused, RunResumed, NodeEffectReconciled,
       ledgerVars
  <2> QED BY <2>1, <2>2, ElsewhereAdmission
<1> QED BY <1>1, <1>2 DEF RecoveryStep

\* A retry is decided about the only failure, so the loop it leads to finds none.
LEMMA RetryAdmission ==
    ASSUME WorkflowTypeOK, AdmissionInv, NEW n, Retryable(n), Retry(n)
    PROVE  AdmissionInv'
<1>1. n \in Nodes /\ status[n] = "failed" /\ With("failed") = {n} /\ NodeRetryScheduled(n)
  BY DEF Retryable, CanRetry, With, Retry
<1>2. HeldFirst'
  BY <1>1, HandedBack DEF AdmissionInv
<1>3. /\ pc' = "loop" /\ UNCHANGED <<runStatus, consumed>>
      /\ status' = [status EXCEPT ![n] = "pending"]
  BY <1>1 DEF Retry, GoTo, NodeRetryScheduled, FreshAttempt
<1>4. With("failed")' = {}
  BY <1>1, <1>3 DEF With, WorkflowTypeOK, TypeOK
<1>5. runStatus # "waiting_for_approval" \/ ~SettlementExhausted
  BY DEF AdmissionInv, FailureFinal
<1> QED BY <1>2, <1>3, <1>4, <1>5 DEF AdmissionInv, LoopOpen, RoundFunded, FailureFinal,
        FailingPhases, SettlementExhausted

\* A conclusion ends the call.
LEMMA ConclusionAdmission ==
    ASSUME AdmissionInv,
           Exhaust \/ Cancel \/ Fail \/ (RunSucceeded /\ Return)
    PROVE  AdmissionInv'
<1>1. pc' = "down" /\ runStatus' \in Terminal
      /\ UNCHANGED <<status, decision, consumed, approval, workflowApproval>>
  BY DEF Exhaust, Cancel, Fail, Return, RunSucceeded, RunFailed, RunCancelled,
     RunBudgetExhausted, Conclude, Terminal
<1> QED BY <1>1, ElsewhereAdmission DEF Terminal, FailingPhases

\* The loop outside a round.
LEMMA LoopAdmission ==
    ASSUME WorkflowTypeOK, RoundInv, AdmissionInv,
           Begin \/ Loop \/ ControlFailed \/ Decide \/ DenialFails
    PROVE  AdmissionInv'
<1>1. ASSUME UNCHANGED ledgerVars,
             \/ GoTo("loop") /\ With("failed") = {}
             \/ GoTo("admit") /\ With("failed") = {} /\ ~BudgetExhausted /\ ~AllTerminal
      PROVE  AdmissionInv'
  <2>1. UNCHANGED <<runStatus, status, decision, nodeStarts, consumed, approval,
                    workflowApproval>> /\ pc' \in {"loop", "admit"}
    BY <1>1 DEF ledgerVars, GoTo
  <2>2. HeldFirst'
    BY <2>1, HeldFrame DEF AdmissionInv, Held
  <2>3. LoopOpen' /\ RoundFunded'
    BY <1>1, <2>1 DEF LoopOpen, RoundFunded, With, BudgetExhausted, NodeStartsExhausted,
       SettlementExhausted, AllTerminal, GoTo
  <2>4. FailureFinal'
    BY <2>1 DEF AdmissionInv, FailureFinal, FailingPhases, SettlementExhausted
  <2> QED BY <2>2, <2>3, <2>4 DEF AdmissionInv
<1>2. CASE Begin \/ Decide
  BY <1>1, <1>2, RetryAdmission, ConclusionAdmission DEF Begin, Decide, AdmissionOpen
<1>3. CASE Loop
  <2>1. With("failed") = {}
    BY <1>3 DEF Loop, AdmissionInv, LoopOpen
  <2>2. ~BudgetExhausted \/ AllTerminal \/ Exhaust
    BY <1>3 DEF Loop
  <2> QED BY <1>1, <1>3, <2>1, <2>2, ConclusionAdmission DEF Loop
<1>4. CASE ControlFailed \/ DenialFails
  BY <1>4, ConclusionAdmission DEF ControlFailed, DenialFails
<1> QED BY <1>2, <1>3, <1>4

\* The only approval that may be open when a round begins is the next node's.
LEMMA OthersNotHeld ==
    ASSUME HeldFirst, NEW n \in Nodes, n # NextNode
    PROVE  ~Held(n)
BY HeldIsNext

\* A request is made about the next node while no other approval is open.
LEMMA RequestAdmission ==
    ASSUME SchedulerInv, AdmissionInv, Transitions # {}, pc' = "down",
           CommandApprovalRequested(NextNode) \/ WorkflowApprovalRequested(NextNode)
    PROVE  AdmissionInv'
<1> DEFINE N == NextNode
<1>1. /\ UNCHANGED <<status, decision, nodeStarts, consumed>>
      /\ ~SettlementExhausted /\ With("running") = {} /\ With("failed") = {}
  BY DEF CommandApprovalRequested, CommandApprovalRequestedOk, WorkflowApprovalRequested,
     WorkflowApprovalRequestedOk, ControlStep, AdmissionOpen, BudgetExhausted
<1>2. \A m \in Nodes : m # N => ~Held(m)'
  <2>1. \A m \in Nodes : m # N =>
            approval'[m] = approval[m] /\ workflowApproval'[m] = workflowApproval[m]
    BY DEF CommandApprovalRequested, WorkflowApprovalRequested, SchedulerInv,
       WorkflowTypeOK, TypeOK
  <2> QED BY <2>1, OthersNotHeld DEF Held, AdmissionInv
<1>3. N \in Transitions /\ \A m \in Transitions : N <= m
  <2>1. Transitions \in SUBSET Nat
    BY GraphAssumption DEF Transitions
  <2> QED BY <2>1, FirstIsLeast DEF NextNode
<1>4. Transitions' = Transitions /\ \A s : With(s)' = With(s)
  BY <1>1 DEF Transitions, TransitionOf, DependenciesTerminal, OmittedByCondition, Decided, With
<1> HIDE DEF N
<1>5. HeldFirst'
  <2> SUFFICES ASSUME NEW m \in Nodes, Held(m)'
               PROVE  /\ m \in Transitions /\ \A k \in Transitions : m <= k
                      /\ With("running") = {} /\ With("failed") = {}
    BY <1>4 DEF HeldFirst
  <2>1. m = N
    BY <1>2
  <2> QED BY <1>1, <1>3, <2>1
<1> QED BY <1>1, <1>5 DEF AdmissionInv, LoopOpen, RoundFunded, FailureFinal, FailingPhases,
        SettlementExhausted

\* A control node whose transition is not a request has no approval open, so none is.
LEMMA ControlNotHeld ==
    ASSUME SchedulerInv, HeldFirst, Transitions # {}, TransitionOf(NextNode) # "execute",
           workflowApproval[NextNode] # "pending"
    PROVE  \A m \in Nodes : ~Held(m)
<1> SUFFICES ASSUME NEW m \in Nodes, Held(m) PROVE FALSE
  OBVIOUS
<1>1. m = NextNode /\ m \in Transitions
  BY HeldIsNext
<1>2. approval[m] # "none"
  BY <1>1 DEF Held, OpenApproval
<1> QED BY <1>1, <1>2, HeldCommand

\* An evaluation, an omission or a control failure.
LEMMA TransitionAdmission ==
    ASSUME SchedulerInv, AdmissionInv, pc = "admit", NEW n \in Nodes,
           \A m \in Nodes : ~Held(m),
           NodeOmitted(n) \/ Evaluates(n),
           IF status'[n] = "failed" THEN GoTo("control_failed") ELSE GoTo("loop"),
           ~SettlementExhausted
    PROVE  AdmissionInv'
<1>1. With("failed") = {}
  BY DEF AdmissionInv, LoopOpen
<1>2. UNCHANGED <<runStatus, consumed, approval, workflowApproval>>
  BY DEF Evaluates, NodeOmitted, NodeConditionEvaluated, NodeResultPublished, NodeJoined,
     ControlSucceeds, NodeControlFailed
<1>3. HeldFirst'
  BY <1>2, NothingHeld DEF Held
<1>4. \A m \in Nodes \ {n} : status'[m] = status[m]
  BY DEF Evaluates, NodeOmitted, NodeConditionEvaluated, NodeResultPublished, NodeJoined,
     ControlSucceeds, NodeControlFailed, SchedulerInv, WorkflowTypeOK, TypeOK
<1>5. status'[n] = "failed" => NodeType[n] # "agent"
  BY DEF Evaluates, NodeOmitted, NodeConditionEvaluated, NodeResultPublished, NodeJoined,
     ControlSucceeds, NodeControlFailed, NodeControlFailedOk, SchedulerInv, WorkflowTypeOK,
     TypeOK
<1>6. With("failed")' \subseteq {n} /\ (status'[n] # "failed" => With("failed")' = {})
  BY <1>1, <1>4 DEF With
<1>7. CASE status'[n] = "failed" /\ pc' = "control_failed"
  BY <1>2, <1>3, <1>5, <1>6, <1>7 DEF AdmissionInv, LoopOpen, RoundFunded, FailureFinal,
     SettlementExhausted
<1>8. CASE status'[n] # "failed" /\ pc' = "loop"
  BY <1>2, <1>3, <1>6, <1>8 DEF AdmissionInv, LoopOpen, RoundFunded, FailureFinal,
     SettlementExhausted, FailingPhases
<1> QED BY <1>7, <1>8 DEF GoTo

\* A control node alone in its round.
LEMMA ControlAdmission ==
    ASSUME SchedulerInv, RoundInv, AdmissionInv, AdmitControl
    PROVE  AdmissionInv'
<1> DEFINE N == NextNode
<1>1. /\ pc = "admit" /\ admitted = <<>> /\ Transitions # {} /\ TransitionOf(N) # "execute"
      /\ N \in Nodes
  BY NextNodeChosen DEF AdmitControl
<1>2. ~SettlementExhausted
  BY <1>1 DEF AdmissionInv, RoundFunded, BudgetExhausted
<1>3. CASE workflowApproval[N] = "pending"
  <2>1. UNCHANGED ledgerVars /\ pc' = "down"
    BY <1>3 DEF AdmitControl, Return
  <2> QED BY <2>1, ElsewhereAdmission DEF ledgerVars, FailingPhases
<1>4. CASE workflowApproval[N] # "pending"
  <2>1. ControlTransition(N)
    BY <1>4 DEF AdmitControl
  <2>2. CASE WorkflowApprovalRequested(N)
    <3>1. status[N] = "pending" /\ UNCHANGED status /\ runStatus' = "waiting_for_approval"
      BY <2>2 DEF WorkflowApprovalRequested, WorkflowApprovalRequestedOk, PendingControl
    <3>2. pc' = "down"
      BY <1>4, <3>1 DEF AdmitControl, Return
    <3> QED BY <1>1, <2>2, <3>2, RequestAdmission
  <2>3. CASE NodeOmitted(N) \/ Evaluates(N)
    <3>1. \A m \in Nodes : ~Held(m)
      BY <1>1, <1>4, ControlNotHeld DEF AdmissionInv
    <3>2. runStatus' = "running"
      BY <2>3 DEF Evaluates, NodeOmitted, NodeOmittedOk, NodeConditionEvaluated,
         ConditionEvaluatedOk, NodeResultPublished, ResultPublishedOk, NodeJoined,
         NodeJoinedOk, ReadyControl, ControlSucceeds, NodeControlFailed,
         NodeControlFailedOk, ControlStep
    <3>3. IF status'[N] = "failed" THEN GoTo("control_failed") ELSE GoTo("loop")
      BY <1>4, <3>2 DEF AdmitControl
    <3> QED BY <1>1, <1>2, <2>3, <3>1, <3>3, TransitionAdmission
  <2> QED BY <2>1, <2>2, <2>3 DEF ControlTransition, Evaluates
<1> QED BY <1>3, <1>4

\* A command without a grant alone in its round.
LEMMA UnapprovedAdmission ==
    ASSUME SchedulerInv, AdmissionInv, AdmitUnapproved
    PROVE  AdmissionInv'
<1> DEFINE N == NextNode
<1>1. /\ pc = "admit" /\ admitted = <<>> /\ Transitions # {} /\ N \in Nodes
  BY NextNodeChosen DEF AdmitUnapproved
<1>2. CASE CommandApprovalRequested(N) /\ Return
  BY <1>1, <1>2, RequestAdmission DEF Return
<1>3. CASE Return /\ UNCHANGED ledgerVars
  BY <1>3, ElsewhereAdmission DEF ledgerVars, Return, FailingPhases
<1>4. CASE CommandApprovalExpired(N) /\ GoTo("loop")
  <2>1. /\ pc' = "loop" /\ runStatus' = "running" /\ UNCHANGED <<status, decision>>
        /\ With("failed") = {}
    BY <1>4 DEF CommandApprovalExpired, CommandApprovalExpiredOk, GoTo, AdmissionOpen
  <2>2. \A m \in Nodes : Held(m)' => Held(m)
    BY <1>4 DEF CommandApprovalExpired, Held, OpenApproval, SchedulerInv, WorkflowTypeOK, TypeOK
  <2> QED BY <2>1, <2>2, HeldFrame DEF AdmissionInv, LoopOpen, RoundFunded, FailureFinal,
          FailingPhases, With
<1> QED BY <1>2, <1>3, <1>4 DEF AdmitUnapproved

\* An admission uses up the grant of the node it starts.
LEMMA ExecutionAdmission ==
    ASSUME SchedulerInv, AdmissionInv, AdmitExecution
    PROVE  AdmissionInv'
<1> DEFINE N == NextNode
<1>1. /\ pc = "admit" /\ pc' = "admit" /\ Transitions # {} /\ N \in Nodes /\ NodeStarted(N)
      /\ TransitionOf(N) = "execute" /\ DependenciesTerminal(N) /\ admitted' # <<>>
  <2>1. Transitions # {} /\ admitted' = Append(admitted, N)
    BY DEF AdmitExecution, Admissible
  <2>2. N \in Nodes
    BY <2>1, NextNodeChosen
  <2>3. Append(admitted, N) # <<>>
    BY <2>2, AppendProperties DEF SchedulerInv, WorkflowTypeOK
  <2> QED BY <2>1, <2>2, <2>3, NextNodeChosen DEF AdmitExecution, Admissible
<1>2. /\ status' = [status EXCEPT ![N] = "running"] /\ With("failed") = {}
      /\ runStatus' = "running" /\ workflowApproval' = workflowApproval
      /\ approval' = IF N \in ApprovalRequired
                     THEN [approval EXCEPT ![N] = "consumed"] ELSE approval
  BY <1>1 DEF NodeStarted, NodeStartedOk, AdmissionOpen
<1>3. \A m \in Nodes : ~Held(m)'
  <2>1. ASSUME NEW m \in Nodes, m # N PROVE ~Held(m)'
    <3>1. ~Held(m)
      BY <2>1, OthersNotHeld DEF AdmissionInv
    <3> QED BY <1>1, <1>2, <2>1, <3>1 DEF Held, SchedulerInv, WorkflowTypeOK, TypeOK
  <2>2. workflowApproval[N] # "pending"
    <3>1. NodeType[N] # "approval"
      BY <1>1 DEF TransitionOf, ControlTypes
    <3> QED BY <1>1, <3>1 DEF SchedulerInv, WorkInv, LedgerInv, ApprovalShape
  <2>3. approval'[N] \notin OpenApproval
    <3>1. N \notin ApprovalRequired => approval[N] = "none"
      BY <1>1 DEF SchedulerInv, WorkInv, LedgerInv, ApprovalShape
    <3> QED BY <1>1, <1>2, <3>1 DEF OpenApproval, SchedulerInv, WorkflowTypeOK, TypeOK
  <2> QED BY <1>2, <2>1, <2>2, <2>3 DEF Held
<1>4. With("failed")' = {}
  BY <1>1, <1>2 DEF With, SchedulerInv, WorkflowTypeOK, TypeOK
<1> QED BY <1>1, <1>2, <1>3, <1>4, NothingHeld DEF AdmissionInv, LoopOpen, RoundFunded,
        FailureFinal, FailingPhases

\* A settlement finds an attempt running, so no approval is open.
LEMMA SettleAdmission ==
    ASSUME SchedulerInv, AdmissionInv, SettleNext
    PROVE  AdmissionInv'
<1> DEFINE N == Head(admitted)
<1>1. N \in Nodes
  BY HeadTailProperties DEF SettleNext, SchedulerInv, WorkflowTypeOK
<1>2. /\ pc' = "settle" /\ status[N] = "running" /\ Active
      /\ UNCHANGED <<runStatus, approval, workflowApproval>>
  BY DEF SettleNext, NodeSucceeded, NodeSucceededOk, NodeFailed, NodeFailedOk, NextOutcome
<1>3. runStatus = "running"
  BY <1>1, <1>2, RunningRun DEF SchedulerInv, WorkInv
<1>4. \A m \in Nodes : ~Held(m)'
  BY <1>1, <1>2, NoneHeld DEF AdmissionInv, Held
<1> QED BY <1>2, <1>3, <1>4, NothingHeld DEF AdmissionInv, LoopOpen, RoundFunded,
        FailureFinal, FailingPhases

\* A decision is about the one pending request, and closes it or leaves it the first.
LEMMA OperatorAdmission ==
    ASSUME SchedulerInv, AdmissionInv, OperatorApproves \/ OperatorDenies
    PROVE  AdmissionInv'
<1>0. TypeOK /\ WaitingForOne /\ OneOpenApproval /\ ApprovalShape
  BY DEF SchedulerInv, WorkInv, LedgerInv
<1>1. ASSUME NEW n \in Nodes, CommandApprovalGranted(n), OperatorApproves PROVE AdmissionInv'
  <2>1. /\ UNCHANGED <<status, decision, nodeStarts, consumed>>
        /\ runStatus' = "running" /\ pc' = "down" /\ pc = "down"
    BY <1>1 DEF CommandApprovalGranted, OperatorApproves, callVars
  <2>2. \A m \in Nodes : Held(m)' => Held(m)
    BY <1>0, <1>1 DEF CommandApprovalGranted, CommandApprovalPending, Held, OpenApproval, TypeOK
  <2> QED BY <2>1, <2>2, HeldFrame DEF AdmissionInv, LoopOpen, RoundFunded, FailureFinal,
          FailingPhases
<1>2. ASSUME NEW n \in Nodes,
             \/ CommandApprovalDenied(n) \/ WorkflowApprovalApproved(n)
             \/ WorkflowApprovalDenied(n)
      PROVE  HeldFirst' /\ runStatus' = "running" /\ consumed' = consumed
  <2>1. Held(n) /\ runStatus' = "running" /\ consumed' = consumed
    BY <1>2 DEF CommandApprovalDenied, CommandApprovalPending, WorkflowApprovalApproved,
       WorkflowApprovalDenied, WorkflowApprovalPending, Held, OpenApproval
  <2>2. ASSUME NEW m \in Nodes, m # n PROVE ~Held(m)'
    <3>1. ~Held(m)
      BY <1>0, <2>1, <2>2 DEF OneOpenApproval, Held
    <3>2. approval'[m] = approval[m] /\ workflowApproval'[m] = workflowApproval[m]
      BY <1>0, <1>2, <2>2 DEF CommandApprovalDenied, WorkflowApprovalApproved,
         WorkflowApprovalDenied, TypeOK
    <3> QED BY <3>1, <3>2 DEF Held
  <2>3. ~Held(n)'
    <3>1. CASE CommandApprovalDenied(n)
      <4>1. NodeType[n] # "approval"
        BY <1>0, <3>1, PolicyAssumption DEF ApprovalShape, CommandApprovalDenied,
           CommandApprovalPending
      <4>2. workflowApproval[n] = "none"
        BY <1>0, <4>1 DEF ApprovalShape
      <4> QED BY <1>0, <3>1, <4>2 DEF CommandApprovalDenied, Held, OpenApproval, TypeOK
    <3>2. CASE WorkflowApprovalApproved(n) \/ WorkflowApprovalDenied(n)
      <4>1. NodeType[n] = "approval"
        BY <1>0, <3>2 DEF ApprovalShape, WorkflowApprovalApproved, WorkflowApprovalDenied,
           WorkflowApprovalPending
      <4>2. approval[n] = "none"
        BY <1>0, <4>1, PolicyAssumption DEF ApprovalShape
      <4> QED BY <1>0, <3>2, <4>2 DEF WorkflowApprovalApproved, WorkflowApprovalDenied, Held,
              OpenApproval, TypeOK
    <3> QED BY <1>2, <3>1, <3>2
  <2> QED BY <2>1, <2>2, <2>3, NothingHeld
<1>3. ASSUME NEW n \in Nodes, WorkflowApprovalApproved(n), OperatorApproves PROVE AdmissionInv'
  <2>1. pc' = "down"
    BY <1>3 DEF OperatorApproves, callVars
  <2> QED BY <1>2, <1>3, <2>1 DEF AdmissionInv, LoopOpen, RoundFunded, FailureFinal,
          FailingPhases
<1>4. ASSUME NEW n \in Nodes, CommandApprovalDenied(n) \/ WorkflowApprovalDenied(n),
             OperatorDenies
      PROVE  AdmissionInv'
  <2>1. pc' = "denied" /\ runStatus = "waiting_for_approval" /\ With("failed") = {}
    BY <1>4 DEF OperatorDenies, GoTo, CommandApprovalDenied, CommandApprovalPending,
       WorkflowApprovalDenied, WorkflowApprovalPending, AdmissionOpen
  <2>2. NodeType[n] # "agent"
    BY <1>0, <1>4, PolicyAssumption DEF ApprovalShape, CommandApprovalDenied,
       CommandApprovalPending, WorkflowApprovalDenied, WorkflowApprovalPending
  <2>3. With("failed")' \subseteq {n}
    BY <1>0, <1>4, <2>1 DEF CommandApprovalDenied, WorkflowApprovalDenied, With, TypeOK
  <2> QED BY <1>2, <1>4, <2>1, <2>2, <2>3 DEF AdmissionInv, LoopOpen, RoundFunded,
          FailureFinal, SettlementExhausted
<1> QED BY <1>1, <1>3, <1>4 DEF OperatorApproves, OperatorDenies

\* The steps that only start, move or end a call.
LEMMA CallAdmission ==
    ASSUME AdmissionInv,
           \/ StartRun \/ Resume \/ Launch \/ Collect \/ SettleRefused \/ Settled
           \/ Crash \/ StoreFails
    PROVE  AdmissionInv'
<1>1. pc' \notin {"loop", "admit"} \cup FailingPhases
  BY DEF StartRun, Resume, Launch, Collect, SettleRefused, Settled, Crash, StoreFails, GoTo,
     Return, FailingPhases
<1>2. /\ UNCHANGED <<status, decision, consumed, approval, workflowApproval>>
      /\ runStatus' = "waiting_for_approval" => runStatus = "waiting_for_approval"
  BY DEF StartRun, RunStarted, Resume, Launch, Collect, SettleRefused, Settled, Crash,
     StoreFails, ledgerVars
<1> QED BY <1>1, <1>2, ElsewhereAdmission

\* Every step keeps what admission relies on.
LEMMA StepAdmission ==
    ASSUME SchedulerInv, RoundInv, AdmissionInv, [WorkflowNext]_workflowVars
    PROVE  AdmissionInv'
<1>0. WorkflowTypeOK
  BY DEF SchedulerInv
<1>1. CASE SchedulerStep
  <2>1. CASE RecoveryStep
    BY <1>0, <2>1, RecoveryAdmission
  <2>2. CASE Begin \/ Loop \/ ControlFailed \/ Decide \/ DenialFails
    BY <1>0, <2>2, LoopAdmission
  <2>3. CASE AdmitControl \/ AdmitUnapproved \/ AdmitExecution \/ SettleNext
    BY <2>3, ControlAdmission, UnapprovedAdmission, ExecutionAdmission, SettleAdmission
  <2>4. CASE Launch \/ Collect \/ SettleRefused \/ Settled
    BY <2>4, CallAdmission
  <2> QED BY <1>1, <2>1, <2>2, <2>3, <2>4 DEF SchedulerStep
<1>2. CASE StartRun \/ Resume \/ Crash \/ StoreFails
  BY <1>2, CallAdmission
<1>3. CASE OperatorApproves \/ OperatorDenies
  BY <1>3, OperatorAdmission
<1>4. CASE \/ UNCHANGED workflowVars \/ TimePasses \/ Abort
           \/ \E n \in Nodes : \/ ToolBegins(n) \/ ToolPublishes(n) \/ ToolApplies(n) \/ ToolSettles(n)
                             \/ ToolPublicationFails(n) \/ ExecutorReturns(n)
  BY <1>4, WorldAdmission
<1> QED BY <1>1, <1>2, <1>3, <1>4 DEF WorkflowNext

\* So it holds of every workflow.
LEMMA AdmissionInvariant == WorkflowSafety => []AdmissionInv
<1>1. WorkflowInit => AdmissionInv
  BY DEF WorkflowInit, Init, AdmissionInv, LoopOpen, RoundFunded, HeldFirst, FailureFinal,
     Held, OpenApproval, FailingPhases
<1>2. SchedulerInv /\ RoundInv /\ AdmissionInv /\ [WorkflowNext]_workflowVars => AdmissionInv'
  BY StepAdmission
<1> QED BY <1>1, <1>2, FilesInvariant, PTL DEF WorkflowSafety

-----------------------------------------------------------------------------
(* A next transition.  A first pending node has nothing pending before it, *)
(* so that its dependencies have ended, and a join knows what became of    *)
(* its condition.                                                          *)

\* A condition that succeeded has been decided, for a case its joins know.
LEMMA ConditionDecided ==
    ASSUME RecordsInv, NEW c \in Nodes, NodeType[c] = "condition", status[c] = "succeeded"
    PROVE  Decided(c) /\ \E v \in Values : decision[c] = Select[c][v]
<1>1. PICK v \in Values : decision[c] = Select[c][v]
  BY DEF RecordsInv, Recorded, Evidence
<1>2. Select[c][v] \in Cases /\ NoCase \notin Cases
  BY GraphAssumption
<1> QED BY <1>1, <1>2 DEF Decided

\* A join whose condition was omitted finds a branch that was omitted with it.
LEMMA OmittedBranch ==
    ASSUME SchedulerInv, RecordsInv, NEW scope, BranchesNest(scope),
           NEW n \in Nodes, NodeType[n] = "join", DependenciesTerminal(n),
           status[JoinCondition[n]] = "omitted"
    PROVE  \E d \in DependsOn[n] : status[d] = "omitted"
<1>1. PICK c \in DOMAIN JoinBranch[n] : JoinBranch[n][c] \in DependsOn[n]
  <2>1. PICK v \in Values : TRUE
    BY GraphAssumption
  <2> QED BY <2>1, CompilerAssumption
<1> DEFINE b == JoinBranch[n][c]
           C == JoinCondition[n]
<1>2. b \in Nodes /\ C \in Nodes /\ status[b] \in {"succeeded", "omitted"}
  BY <1>1, GraphAssumption DEF DependenciesTerminal
<1>3. Passed(scope[C]) /\ (status[b] = "succeeded" => Chosen(scope[b]))
  BY <1>2, AllInScope DEF InScope
<1>4. scope[C] \subseteq scope[b]
  BY DEF BranchesNest
<1>5. ~Chosen(scope[b])
  BY <1>3, <1>4 DEF Passed, Chosen
<1> QED BY <1>1, <1>2, <1>3, <1>5

\* A pending node with nothing pending before it has something to do.
LEMMA FirstPendingMoves ==
    ASSUME SchedulerInv, RecordsInv, NEW scope, BranchesNest(scope),
           NEW n \in Nodes, status[n] = "pending",
           \A m \in Before(n) : status[m] \in {"succeeded", "omitted"}
    PROVE  n \in Transitions
<1>1. DependenciesTerminal(n)
  BY DEF DependenciesTerminal, Before
<1>2. CASE NodeType[n] = "join"
  <2>1. /\ JoinCondition[n] \in Nodes /\ NodeType[JoinCondition[n]] = "condition"
        /\ status[JoinCondition[n]] \in {"succeeded", "omitted"}
    BY <1>2, GraphAssumption, CompilerAssumption DEF Before
  <2>2. CASE status[JoinCondition[n]] = "succeeded"
    <3>1. Decided(JoinCondition[n])
      BY <2>1, <2>2, ConditionDecided
    <3> QED BY <1>1, <1>2, <3>1 DEF Transitions, TransitionOf
  <2>3. CASE status[JoinCondition[n]] = "omitted"
    <3>1. \E d \in DependsOn[n] : status[d] = "omitted"
      BY <1>1, <1>2, <2>3, OmittedBranch
    <3> QED BY <1>1, <1>2, <2>3, <3>1 DEF Transitions, TransitionOf, Decided
  <2> QED BY <2>1, <2>2, <2>3
<1>3. CASE NodeType[n] # "join"
  <2>1. n \in Guarded => \/ Decided(GuardCondition[n]) \/ status[GuardCondition[n]] = "omitted"
    <3> SUFFICES ASSUME n \in Guarded, status[GuardCondition[n]] # "omitted"
                 PROVE  Decided(GuardCondition[n])
      OBVIOUS
    <3>1. /\ GuardCondition[n] \in Before(n) /\ GuardCondition[n] \in Nodes
          /\ NodeType[GuardCondition[n]] = "condition"
      BY GraphAssumption, CompilerAssumption DEF Before
    <3> QED BY <3>1, ConditionDecided
  <2>2. TransitionOf(n) \in {"omit", "execute"} \cup ControlTypes
    BY <1>3, <2>1 DEF TransitionOf
  <2> QED BY <1>1, <2>2 DEF Transitions, ControlTypes
<1> QED BY <1>2, <1>3

\* While a run is open, not finished, and nothing runs or has failed, selectNextTransition
\* returns a node.
LEMMA AlwaysNext ==
    ASSUME SchedulerInv, RecordsInv, NEW scope, BranchesNest(scope),
           With("running") = {}, With("failed") = {}, ~AllTerminal
    PROVE  Transitions # {}
<1>1. \A n \in Nodes : status[n] \in {"pending", "succeeded", "omitted"}
  BY DEF With, SchedulerInv, WorkflowTypeOK, TypeOK, NodeStatus
<1>2. With("pending") # {} /\ With("pending") \in SUBSET Nodes
  BY <1>1 DEF AllTerminal, With
<1>3. PICK n \in With("pending") : Before(n) \cap With("pending") = {}
  BY <1>2, CompilerAssumption
<1>4. n \in Nodes /\ status[n] = "pending" /\ Before(n) \subseteq Nodes
  BY <1>2, <1>3, GraphAssumption DEF Before, With
<1>5. \A m \in Before(n) : status[m] \in {"succeeded", "omitted"}
  BY <1>1, <1>3, <1>4 DEF With
<1> QED BY <1>4, <1>5, FirstPendingMoves

-----------------------------------------------------------------------------
(* The guards of the events a call decides to append, phase by phase.      *)

AcceptInv ==
    /\ SchedulerInv /\ RoundInv /\ OutcomesFit
    /\ RecordsInv /\ AdmissionInv

\* Recovery observes an open effect of a running attempt.
LEMMA RecoveryAccepted ==
    ASSUME SchedulerInv, RoundInv, pc = "recover", OpenEffects # {}
    PROVE  EffectOpen(First(OpenEffects), First(Unreconciled(First(OpenEffects))))
<1> DEFINE n == First(OpenEffects)
           i == First(Unreconciled(n))
<1>1. n \in OpenEffects
  BY FirstIsLeast, GraphAssumption DEF OpenEffects, Running, With
<1>2. n \in Nodes /\ status[n] = "running" /\ Unreconciled(n) # {}
  BY <1>1 DEF OpenEffects, Running, With
<1>3. effects[n] \in Seq(EffectStatus)
  BY <1>2 DEF SchedulerInv, WorkflowTypeOK, TypeOK
<1>4. DOMAIN effects[n] \subseteq Nat
  BY <1>3, LenProperties
<1>5. i \in Unreconciled(n)
  BY <1>2, <1>4, FirstIsLeast DEF Unreconciled
<1>6. i \in DOMAIN effects[n] /\ effects[n][i] = "open"
  BY <1>5 DEF Unreconciled
<1>7. n \in Writable
  BY <1>2, <1>3, <1>6, EmptySeq DEF SchedulerInv, EffectsDeclared
<1> QED BY <1>2, <1>6, <1>7 DEF EffectOpen, RoundInv, CallOpen

\* What a call does about a failure that nothing can still follow.
LEMMA VerdictsAccepted ==
    ASSUME Active, With("running") = {}, ~AdmissionOpen, ~SettlementExhausted
    PROVE  VerdictAccepted
<1> DEFINE n == First(With("failed"))
<1>1. n \in With("failed")
  BY FirstIsLeast, GraphAssumption DEF AdmissionOpen, With
<1>2. status[n] = "failed"
  BY <1>1 DEF With
<1> QED BY <1>2 DEF VerdictAccepted, Retryable, RunFailedOk

\* run_failed after a denial or a control failure, which no retry can follow.
LEMMA FailureAccepted ==
    ASSUME SchedulerInv, RoundInv, AdmissionInv, pc \in FailingPhases
    PROVE  RunFailedOk(First(With("failed")))
<1> DEFINE n == First(With("failed"))
<1>1. n \in With("failed")
  BY FirstIsLeast, GraphAssumption DEF SchedulerInv, FailurePending, FailingPhases, With
<1>2. n \in Nodes /\ status[n] = "failed" /\ NodeType[n] # "agent" /\ ~SettlementExhausted
  BY <1>1 DEF With, AdmissionInv, FailureFinal
<1>3. With("running") = {} /\ Active
  BY NoRound DEF RoundInv, CallOpen, FailingPhases, RecoveryPhases, RoundPhases
<1>4. ~CanRetry(n)
  <2>1. MaxAttempts[n] = 0 /\ attempt[n] \in Nat
    BY <1>2, PolicyAssumption DEF SchedulerInv, WorkflowTypeOK, TypeOK
  <2> HIDE DEF n
  <2>2. ~(attempt[n] < MaxAttempts[n])
    BY <2>1
  <2> QED BY <2>2 DEF CanRetry
<1> QED BY <1>2, <1>3, <1>4 DEF RunFailedOk

\* The head of the loop.
LEMMA LoopsAccepted ==
    ASSUME SchedulerInv, RoundInv, AdmissionInv, pc = "loop"
    PROVE  LoopAccepted
<1>1. Active /\ With("running") = {} /\ With("failed") = {}
  BY NoRound DEF RoundInv, CallOpen, RecoveryPhases, RoundPhases, AdmissionInv, LoopOpen
<1>2. ~AllTerminal => With("succeeded") # Nodes
  BY DEF AllTerminal, With
<1>3. AllTerminal => With("pending") = {}
  BY DEF AllTerminal, With
<1> QED BY <1>1, <1>2, <1>3 DEF LoopAccepted, RunBudgetExhaustedOk, RunCancelledOk,
        RunSucceededOk, BudgetExhausted, AllTerminal, AdmissionOpen

\* The end of a round.
LEMMA DecisionAccepted ==
    ASSUME SchedulerInv, RoundInv, pc = "decide"
    PROVE  IF SettlementExhausted \/ PendingStartExhaustion THEN RunBudgetExhaustedOk
           ELSE IF aborted THEN RunCancelledOk ELSE AdmissionOpen \/ VerdictAccepted
<1>1. Active /\ With("running") = {}
  BY NoRound DEF RoundInv, CallOpen, RecoveryPhases, RoundPhases
<1>2. With("pending") # {} => With("succeeded") # Nodes
  BY DEF With
<1> QED BY <1>1, <1>2, VerdictsAccepted DEF PendingStartExhaustion, RunBudgetExhaustedOk,
        RunCancelledOk

\* The next outcome of a round is one the call has, for the first running node.
LEMMA SettlementAccepted ==
    ASSUME WorkflowTypeOK, RoundInv, OutcomesFit, pc = "settle", admitted # <<>>
    PROVE  /\ NextOutcome(Head(admitted))
           /\ Authoritative(Head(admitted)).result # "none"
<1> DEFINE N == Head(admitted)
<1>1. N \in Nodes /\ InRound(N) /\ NextOutcome(N)
  BY HeadIsNext
<1>2. outcome[N].result # "none" /\ outcome[N] \in Outcomes
  BY <1>1 DEF OutcomesFit, OutcomeFits, WorkflowTypeOK
<1> HIDE DEF N
<1>3. Authoritative(N).result \in {outcome[N].result, "failed"}
  BY <1>2 DEF Authoritative, Outcomes, Failures, Accountings
<1> QED BY <1>1, <1>2, <1>3 DEF N

\* A run that waits, waits for its next node.
LEMMA WaitsForNext ==
    ASSUME SchedulerInv, RoundInv, AdmissionInv, pc = "admit"
    PROVE  \/ runStatus = "running"
           \/ /\ approval[NextNode] = "pending" \/ workflowApproval[NextNode] = "pending"
              /\ NextNode \in Transitions /\ With("running") = {}
<1>1. CASE runStatus = "waiting_for_approval"
  <2>1. PICK m \in Nodes : approval[m] = "pending" \/ workflowApproval[m] = "pending"
    BY <1>1 DEF SchedulerInv, WorkInv, LedgerInv, WaitingForOne, Requested
  <2>2. Held(m)
    BY <2>1 DEF Held, OpenApproval
  <2> QED BY <2>1, <2>2, HeldIsNext DEF AdmissionInv
<1> QED BY <1>1 DEF RoundInv, CallOpen, Active

\* The attempts of a round are at most as many as were admitted.
LEMMA RunningAdmitted ==
    ASSUME WorkflowTypeOK, RoundInv, pc = "admit"
    PROVE  /\ Cardinality(With("running")) \in Nat /\ Len(admitted) \in Nat
           /\ Cardinality(With("running")) <= Len(admitted)
<1> DEFINE R == With("running")
<1>1. /\ admitted \in [1 .. Len(admitted) -> Nodes] /\ Len(admitted) \in Nat
      /\ DOMAIN admitted = 1 .. Len(admitted)
  BY LenProperties DEF WorkflowTypeOK
<1>2. \A m \in Nodes : m \in R <=> InRound(m)
  BY DEF RoundInv, RoundRuns, RecoveryPhases, With
<1>3. admitted \in Surjection(1 .. Len(admitted), R)
  BY <1>1, <1>2 DEF Surjection, InRound, With
<1>4. Cardinality(R) <= Len(admitted)
  BY <1>1, <1>3, FS_SurjCardinalityBound DEF ExistsSurjection
<1>5. Cardinality(R) \in Nat
  BY FS_Subset, FS_CardinalityType, GraphAssumption DEF With
<1> QED BY <1>1, <1>4, <1>5

\* An attempt the admission loop takes.
LEMMA StartAccepted ==
    ASSUME SchedulerInv, RoundInv, AdmissionInv, pc = "admit", Admissible
    PROVE  NodeStartedOk(NextNode)
<1> DEFINE N == NextNode
<1>1. /\ N \in Nodes /\ status[N] = "pending" /\ DependenciesTerminal(N)
      /\ TransitionOf(N) = "execute" /\ ~NeedsGrant(N)
  BY NextNodeChosen DEF Admissible
<1>2. Ready(N) /\ NodeType[N] \notin ControlTypes
  <2>1. NodeType[N] \notin ControlTypes
    BY <1>1 DEF TransitionOf, ControlTypes
  <2> QED BY <1>1, <2>1, ExecuteIsReady
<1>3. With("failed") = {} /\ ~BudgetExhausted
  <2>1. admitted = <<>> \/ Len(admitted) > 0
    BY EmptySeq, LenProperties DEF SchedulerInv, WorkflowTypeOK
  <2> QED BY <2>1 DEF AdmissionInv, LoopOpen, RoundFunded, Admissible
<1>4. Cardinality(With("running")) < MaxNodes
  <2>1. /\ Cardinality(With("running")) \in Nat /\ Len(admitted) \in Nat
        /\ Cardinality(With("running")) <= Len(admitted)
    BY RunningAdmitted DEF SchedulerInv
  <2> QED BY <2>1, PolicyAssumption DEF Admissible
<1>5. runStatus = "running"
  <2>1. approval[N] # "pending"
    BY <1>1 DEF NeedsGrant, SchedulerInv, WorkInv, LedgerInv, ApprovalShape
  <2>2. workflowApproval[N] # "pending"
    BY <1>1, <1>2 DEF ControlTypes, SchedulerInv, WorkInv, LedgerInv, ApprovalShape
  <2> QED BY <2>1, <2>2, WaitsForNext
<1>6. N \in ApprovalRequired => approval[N] = "granted"
  BY <1>1 DEF NeedsGrant
<1> QED BY <1>1, <1>2, <1>3, <1>4, <1>5, <1>6 DEF NodeStartedOk, Ready, AdmissionOpen

\* A call that has admitted nothing yet may still publish any control event.
LEMMA RoundBegins ==
    ASSUME SchedulerInv, RoundInv, AdmissionInv, pc = "admit", admitted = <<>>
    PROVE  /\ With("running") = {} /\ With("failed") = {} /\ ~BudgetExhausted /\ ~AllTerminal
BY NoRound DEF AdmissionInv, LoopOpen, RoundFunded, RecoveryPhases

\* No other approval is open when the next node asks for its own.
LEMMA NoOtherApproval ==
    ASSUME HeldFirst
    PROVE  NoOpenApprovalBut(NextNode)
BY OthersNotHeld DEF NoOpenApprovalBut, Held

\* A command without a grant.
LEMMA ApprovalsAccepted ==
    ASSUME SchedulerInv, RoundInv, RecordsInv, AdmissionInv, pc = "admit", admitted = <<>>,
           Transitions # {}, TransitionOf(NextNode) = "execute", NeedsGrant(NextNode)
    PROVE  ApprovalAccepted(NextNode)
<1> DEFINE N == NextNode
<1>1. N \in Nodes /\ status[N] = "pending" /\ N \in ApprovalRequired
  BY NextNodeChosen DEF NeedsGrant
<1>2. With("running") = {} /\ With("failed") = {} /\ ~BudgetExhausted
  BY RoundBegins
<1>3. NodeType[N] = "command" /\ workflowApproval[N] = "none"
  BY <1>1, PolicyAssumption DEF SchedulerInv, WorkInv, LedgerInv, ApprovalShape
<1>4. approval[N] \in {"none", "expired", "lapsed", "pending"}
  BY <1>1 DEF NeedsGrant, RecordsInv, Recorded, Undecided, SchedulerInv, WorkflowTypeOK, TypeOK,
     ApprovalStatus
<1>5. approval[N] # "pending" => runStatus = "running"
  BY <1>3, WaitsForNext
<1>6. NoOpenApprovalBut(N)
  BY NoOtherApproval DEF AdmissionInv
<1> QED BY <1>1, <1>2, <1>4, <1>5, <1>6 DEF ApprovalAccepted, CommandApprovalRequestedOk,
        CommandApprovalExpiredOk, AdmissionOpen

\* A control node other than a join is evaluated only when it is ready.
LEMMA EvaluatedIsReady ==
    ASSUME NEW n \in Nodes, DependenciesTerminal(n),
           TransitionOf(n) \in {"condition", "approval", "result"}
    PROVE  Ready(n) /\ NodeType[n] = TransitionOf(n)
<1>1. NodeType[n] # "join" /\ NodeType[n] = TransitionOf(n)
  BY DEF TransitionOf, ControlTypes
<1>2. /\ ~\E d \in DependsOn[n] : status[d] = "omitted"
      /\ ~OmittedByCondition(n)
      /\ n \in Guarded => \/ Decided(GuardCondition[n])
                          \/ status[GuardCondition[n]] = "omitted"
  BY <1>1 DEF TransitionOf
<1>3. n \in Guarded => Decided(GuardCondition[n])
  BY <1>2, CompilerAssumption
<1> QED BY <1>1, <1>2, <1>3 DEF Ready, DependenciesTerminal, DependenciesSucceeded, GuardSelected,
       OmittedByCondition

\* A condition or a result that is ready reads evidence that was recorded.
LEMMA SourceKnown ==
    ASSUME RecordsInv, NEW n \in Nodes, NodeType[n] \in {"condition", "result"}, Ready(n),
           ~SourceTruncated(n)
    PROVE  output[SourceOf(n)] \in Values
<1>1. PICK m \in Nodes : Sources[n] = {m}
  BY CompilerAssumption
<1>2. SourceOf(n) = m
  BY <1>1 DEF SourceOf
<1>3. m \in DependsOn[n] /\ NodeType[m] \in {"agent", "command", "result"}
  BY <1>1, CompilerAssumption
<1>4. status[m] = "succeeded"
  BY <1>3 DEF Ready, DependenciesSucceeded
<1>5. output[m] \in Values \cup {Truncated}
  BY <1>3, <1>4 DEF RecordsInv, Recorded, Evidence
<1>6. output[m] # Truncated
  BY <1>1 DEF SourceTruncated
<1> QED BY <1>2, <1>5, <1>6

\* What is omitted has the reason the ledger asks for.
LEMMA OmissionAccepted ==
    ASSUME NEW n \in Nodes, DependenciesTerminal(n), TransitionOf(n) = "omit"
    PROVE  OmittedByCondition(n) \/ OmittedByDependency(n)
<1>1. CASE NodeType[n] = "join"
  <2>1. n \notin Guarded
    BY <1>1, GraphAssumption
  <2> QED BY <1>1, <2>1 DEF TransitionOf, OmittedByDependency
<1>2. CASE NodeType[n] # "join" /\ ~OmittedByCondition(n)
  <2>1. /\ \E d \in DependsOn[n] : status[d] = "omitted"
        /\ n \in Guarded => \/ Decided(GuardCondition[n])
                            \/ status[GuardCondition[n]] = "omitted"
    BY <1>2 DEF TransitionOf, ControlTypes
  <2> QED BY <1>2, <2>1 DEF OmittedByDependency, OmittedByCondition, GuardSelected
<1> QED BY <1>1, <1>2

\* Only a persisted graph has anything but executions.
LEMMA ControlIsPersisted ==
    ASSUME RecordsInv, NEW n \in Nodes, TransitionOf(n) # "execute"
    PROVE  GraphPersisted
<1>1. CASE NodeType[n] \in ControlTypes \/ n \in Guarded
  BY <1>1, CompilerAssumption
<1>2. CASE NodeType[n] \notin ControlTypes /\ n \notin Guarded
  <2>1. PICK d \in DependsOn[n] : status[d] = "omitted"
    BY <1>2 DEF TransitionOf, ControlTypes, OmittedByCondition
  <2>2. d \in Nodes
    BY GraphAssumption
  <2> QED BY <2>1, <2>2 DEF RecordsInv, Recorded, Cause
<1> QED BY <1>1, <1>2

\* A join that can be made finds its branches as the ledger wants them.
LEMMA JoinAccepted ==
    ASSUME RecordsInv, JoinsReconcile, NEW n \in Nodes, DependenciesTerminal(n),
           TransitionOf(n) = "join"
    PROVE  /\ NodeType[n] = "join" /\ Decided(JoinCondition[n])
           /\ decision[JoinCondition[n]] \in DOMAIN JoinBranch[n]
           /\ \A c \in DOMAIN JoinBranch[n] :
                 status[JoinBranch[n][c]] =
                    IF c = decision[JoinCondition[n]] THEN "succeeded" ELSE "omitted"
<1>1. NodeType[n] = "join" /\ Decided(JoinCondition[n])
  BY DEF TransitionOf, ControlTypes
<1>2. JoinCondition[n] \in Nodes /\ NodeType[JoinCondition[n]] = "condition"
  BY <1>1, GraphAssumption, CompilerAssumption
<1>3. PICK v \in Values : decision[JoinCondition[n]] = Select[JoinCondition[n]][v]
  BY <1>1, <1>2, ConditionDecided DEF Decided
<1>4. decision[JoinCondition[n]] \in DOMAIN JoinBranch[n]
  BY <1>1, <1>3, CompilerAssumption
<1> QED BY <1>1, <1>4 DEF JoinsReconcile

\* A control node alone in its round.
LEMMA ControlsAccepted ==
    ASSUME SchedulerInv, RoundInv, RecordsInv, AdmissionInv, JoinsReconcile,
           pc = "admit", admitted = <<>>, Transitions # {},
           TransitionOf(NextNode) # "execute", workflowApproval[NextNode] # "pending"
    PROVE  ControlAccepted(NextNode)
<1> DEFINE N == NextNode
           t == TransitionOf(N)
<1>1. /\ N \in Nodes /\ N \in Transitions /\ status[N] = "pending" /\ DependenciesTerminal(N)
      /\ t # "none"
  BY NextNodeChosen DEF Transitions
<1>2. With("running") = {} /\ AdmissionOpen /\ ~BudgetExhausted
  BY RoundBegins DEF AdmissionOpen
<1>3. runStatus = "running"
  <2>1. approval[N] = "none"
    BY <1>1, HeldCommand
  <2> QED BY <2>1, WaitsForNext
<1>4. GraphPersisted
  BY <1>1, ControlIsPersisted
<1>5. NodeType[N] \in ControlTypes => PendingControl(N)
  BY <1>1 DEF PendingControl, SchedulerInv, WorkInv, NodeInv
<1>6. CASE t = "omit"
  BY <1>1, <1>2, <1>3, <1>4, <1>6, OmissionAccepted DEF ControlAccepted, NodeOmittedOk, ControlStep
<1>7. CASE t = "join"
  BY <1>1, <1>2, <1>3, <1>4, <1>5, <1>7, JoinAccepted DEF ControlAccepted, NodeJoinedOk,
     ReadyControl, ControlStep, ControlTypes
<1>8. CASE t \in {"condition", "approval", "result"}
  <2>1. Ready(N) /\ NodeType[N] = t
    BY <1>1, <1>8, EvaluatedIsReady
  <2>2. PendingControl(N) /\ ControlStep
    BY <1>2, <1>3, <1>5, <1>8, <2>1 DEF ControlTypes, ControlStep
  <2>3. SourceTruncated(N) => NodeControlFailedOk(N)
    BY <1>2, <1>4, <1>8, <2>1, <2>2 DEF NodeControlFailedOk, Ready
  <2>4. CASE t = "condition"
    <3>1. ~SourceTruncated(N) => output[SourceOf(N)] \in Values
      BY <1>1, <2>1, <2>4, SourceKnown
    <3> QED BY <1>2, <1>4, <2>1, <2>2, <2>3, <2>4, <3>1 DEF ControlAccepted,
            ConditionEvaluatedOk, ReadyControl, Ready
  <2>5. CASE t = "approval"
    <3>1. workflowApproval[N] = "none"
      BY <1>1 DEF RecordsInv, Recorded, Undecided
    <3>2. NoOpenApprovalBut(N)
      BY NoOtherApproval DEF AdmissionInv
    <3> QED BY <1>2, <1>4, <2>1, <2>2, <2>3, <2>5, <3>1, <3>2 DEF ControlAccepted,
            WorkflowApprovalRequestedOk, Ready
  <2>6. CASE t = "result"
    <3>1. output[SourceOf(N)] \notin Valid[N] => NodeControlFailedOk(N)
      BY <1>2, <1>4, <2>1, <2>2, <2>6 DEF NodeControlFailedOk, Ready
    <3>2. output[SourceOf(N)] \in Valid[N] => ResultPublishedOk(N)
      BY <1>2, <1>4, <2>1, <2>2, <2>6 DEF ResultPublishedOk, ReadyControl, Ready
    <3> QED BY <2>3, <2>6, <3>1, <3>2 DEF ControlAccepted
  <2> QED BY <1>8, <2>4, <2>5, <2>6
<1>9. t \in {"omit", "join", "condition", "approval", "result"}
  BY <1>1 DEF TransitionOf, ControlTypes
<1> QED BY <1>6, <1>7, <1>8, <1>9

\* The admission of a round.
LEMMA AdmissionsAccepted ==
    ASSUME AcceptInv, NEW scope, BranchesNest(scope), pc = "admit"
    PROVE  AdmissionAccepted
<1> USE DEF AcceptInv
<1>1. Admissible => NodeStartedOk(NextNode)
  BY StartAccepted
<1>2. ASSUME admitted = <<>>
      PROVE  /\ Transitions # {}
             /\ IF TransitionOf(NextNode) = "execute"
                THEN NeedsGrant(NextNode) => ApprovalAccepted(NextNode)
                ELSE workflowApproval[NextNode] # "pending" => ControlAccepted(NextNode)
  <2>1. Transitions # {}
    BY <1>2, RoundBegins, AlwaysNext
  <2>2. TransitionOf(NextNode) = "execute" /\ NeedsGrant(NextNode) => ApprovalAccepted(NextNode)
    BY <1>2, <2>1, ApprovalsAccepted
  <2>3. TransitionOf(NextNode) # "execute" /\ workflowApproval[NextNode] # "pending" =>
            ControlAccepted(NextNode)
    BY <1>2, <2>1, BranchesReconcile, ControlsAccepted
  <2> QED BY <2>1, <2>2, <2>3
<1> QED BY <1>1, <1>2 DEF AdmissionAccepted

\* Whatever a call decides next, the ledger accepts.
LEMMA AllAccepted ==
    ASSUME AcceptInv, NEW scope, BranchesNest(scope)
    PROVE  PublicationsAccepted
<1> USE DEF AcceptInv
<1>1. pc \notin RecoveryPhases \cup RoundPhases => Active /\ With("running") = {}
  BY NoRound DEF RoundInv, CallOpen, RecoveryPhases, RoundPhases
<1>2. pc = "dispose" /\ Running = {} => RunResumedOk
  BY DEF RoundInv, CallOpen, RunResumedOk, Running
<1>3. pc = "begin" /\ ~AdmissionOpen =>
          IF SettlementExhausted THEN RunBudgetExhaustedOk ELSE VerdictAccepted
  BY <1>1, VerdictsAccepted DEF RunBudgetExhaustedOk, RecoveryPhases, RoundPhases
<1>4. pc = "admit" => AdmissionAccepted
  BY AdmissionsAccepted
<1>5. pc \in {"control_failed", "denied"} => RunFailedOk(First(With("failed")))
  BY FailureAccepted DEF FailingPhases
<1>6. WorkflowTypeOK
  BY DEF SchedulerInv
<1> QED BY <1>2, <1>3, <1>4, <1>5, <1>6, RecoveryAccepted, LoopsAccepted, SettlementAccepted,
        DecisionAccepted DEF PublicationsAccepted

\* In every workflow whose branches nest, the ledger never refuses an event that a
\* call decides to append, and a run that is not finished always has a next
\* transition, whatever crashed, was aborted, retried or decided before.
THEOREM NestedRunsAccepted ==
    ASSUME NEW CONSTANT scope, BranchesNest(scope)
    PROVE  WorkflowSafety => []PublicationsAccepted
<1> DEFINE Inv == SchedulerInv /\ RoundInv /\ FilesInv
<1>1. WorkflowInit => OutcomesFit
  BY DEF WorkflowInit, Init, OutcomesFit, OutcomeFits
<1>2. Inv /\ OutcomesFit /\ [WorkflowNext]_workflowVars => OutcomesFit'
  BY StepFits DEF SchedulerInv
<1>3. Inv /\ OutcomesFit /\ RecordsInv /\ AdmissionInv => PublicationsAccepted
  BY AllAccepted DEF AcceptInv
<1>4. WorkflowSafety => []Inv
  BY FilesInvariant
<1> HIDE DEF Inv
<1> QED BY <1>1, <1>2, <1>3, <1>4, RecordsInvariant, AdmissionInvariant, PTL DEF WorkflowSafety
=============================================================================
