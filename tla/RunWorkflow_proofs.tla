------------------------- MODULE RunWorkflow_proofs -------------------------
(***************************************************************************)
(* Proofs about the scheduler: whatever it, its tools and the operator do, *)
(* with crashes, store failures and aborts in between, is a ledger the     *)
(* reducer accepts, and one in which work was begun in order.              *)
(***************************************************************************)
EXTENDS RunWorkflow, RunLedger_proofs, WellFoundedInduction

\* Declaration order is well founded: the first of some nodes is one of them.
LEMMA FirstIsLeast ==
    ASSUME NEW S \in SUBSET Nat, S # {}
    PROVE  First(S) \in S /\ \A m \in S : First(S) <= m
<1> DEFINE Less == {p \in Nat \X Nat : p[1] < p[2]}
<1>1. IsWellFoundedOn(Less, Nat)
  BY NatLessThanWellFounded, Zenon DEF OpToRel
<1>2. PICK n \in S : \A m \in S : ~(<<m, n>> \in Less)
  BY <1>1, WFMin
<1>3. ASSUME NEW m \in S PROVE n <= m
  <2>1. m \in Nat /\ n \in Nat /\ ~(<<m, n>> \in Less)
    BY <1>2
  <2>2. m < n => <<m, n>> \in Less
    BY <2>1
  <2> QED BY <2>1, <2>2
<1> QED BY <1>3 DEF First

-----------------------------------------------------------------------------
(* Every step of the workflow is an event of the ledger, or leaves it      *)
(* alone; and the scheduler is stricter than the ledger: it asks for an    *)
(* approval and starts a node only when the node is ready, with or without *)
(* a persisted graph, and omits a join only together with its condition.   *)

Ready(n) == DependenciesSucceeded(n) /\ GuardSelected(n)

Admits(n) == Ready(n) /\ (CommandApprovalRequested(n) \/ NodeStarted(n))

Omits(n) ==
    /\ NodeOmitted(n)
    /\ NodeType[n] = "join" => status[JoinCondition[n]] = "omitted"

Answers(n) ==
    \/ CommandApprovalGranted(n) \/ CommandApprovalDenied(n) \/ GrantLapses(n)
    \/ CommandApprovalExpired(n) \/ WorkflowApprovalRequested(n)
    \/ WorkflowApprovalApproved(n) \/ WorkflowApprovalDenied(n)

Finishes(n) ==
    \/ \E u \in 0 .. MaxUsage :
          \/ \E v \in Values \cup {Truncated} : NodeSucceeded(n, v, ReceiptsOf(n), u)
          \/ \E f \in Failures : NodeFailed(n, f, ReceiptsOf(n), u)
    \/ NodeAttemptInterrupted(n) \/ NodeRetryScheduled(n)

Evaluates(n) ==
    \/ NodeConditionEvaluated(n) \/ NodeResultPublished(n) \/ NodeJoined(n)
    \/ NodeControlFailed(n)

\* What a call or the operator publishes, and with the tools' part of the journal.
WorkEvent(n) == Admits(n) \/ Omits(n) \/ Answers(n) \/ Finishes(n) \/ Evaluates(n)

WorkNext ==
    \/ RunStarted \/ TerminalEvent
    \/ \E n \in Nodes : WorkEvent(n)

OrderlyEvent(n) == WorkEvent(n) \/ EffectEvent(n)

OrderlyNext == WorkNext \/ \E n \in Nodes : EffectEvent(n)

\* An orderly event is an event the reducer accepts.
LEMMA OrderlyIsNext == OrderlyNext => Next
<1>1. ASSUME NEW n \in Nodes, OrderlyEvent(n)
      PROVE  ApprovalEvent(n) \/ EffectEvent(n) \/ AttemptEvent(n) \/ ControlEvent(n)
  <2>1. CASE Finishes(n)
    BY <2>1 DEF Finishes, AttemptEvent, NodeSucceeded, NodeFailed, NodeSucceededOk,
       NodeFailedOk
  <2>2. CASE ~Finishes(n)
    BY <1>1, <2>2 DEF OrderlyEvent, WorkEvent, Admits, Omits, Answers, Evaluates,
       ApprovalEvent, AttemptEvent, ControlEvent
  <2> QED BY <2>1, <2>2
<1> QED BY <1>1 DEF OrderlyNext, OrderlyEvent, WorkNext, Next

\* run_failed is published by the two phases that know of a failure without
\* looking again, and only agents that declare the protocol have a journal.
FailurePending == pc \in {"control_failed", "denied"} => With("failed") # {}
EffectsDeclared == \A n \in Nodes : n \notin Writable => effects[n] = <<>>

\* selectNextTransition picks a node of the graph that has something to do.
LEMMA NextNodeChosen ==
    ASSUME Transitions # {}
    PROVE  /\ NextNode \in Nodes /\ status[NextNode] = "pending"
           /\ DependenciesTerminal(NextNode) /\ TransitionOf(NextNode) # "none"
<1>1. Transitions \in SUBSET Nat
  BY GraphAssumption DEF Transitions
<1>2. NextNode \in Transitions
  BY <1>1, FirstIsLeast DEF NextNode
<1> QED BY <1>2 DEF Transitions

\* What selectNextTransition hands to an executor is ready.
LEMMA ExecuteIsReady ==
    ASSUME NEW n \in Nodes, DependenciesTerminal(n), TransitionOf(n) = "execute"
    PROVE  Ready(n)
<1>1. NodeType[n] # "join"
  BY DEF TransitionOf
<1>2. /\ ~\E d \in DependsOn[n] : status[d] = "omitted"
      /\ ~OmittedByCondition(n)
      /\ n \in Guarded => \/ Decided(GuardCondition[n])
                          \/ status[GuardCondition[n]] = "omitted"
  BY <1>1 DEF TransitionOf, ControlTypes
<1>3. n \in Guarded => Decided(GuardCondition[n])
  BY <1>2, CompilerAssumption
<1> QED BY <1>2, <1>3 DEF Ready, DependenciesTerminal, DependenciesSucceeded, GuardSelected,
       OmittedByCondition

\* A join goes the way of its condition.
LEMMA OmittedJoin ==
    ASSUME NEW n \in Nodes, NodeType[n] = "join", TransitionOf(n) = "omit"
    PROVE  status[JoinCondition[n]] = "omitted"
BY DEF TransitionOf

\* run_failed reports the first failed node there is.
LEMMA FailIsTerminal ==
    ASSUME Fail, With("failed") # {}
    PROVE  TerminalEvent
<1>1. First(With("failed")) \in Nodes
  BY FirstIsLeast, GraphAssumption DEF With
<1> QED BY <1>1 DEF Fail, TerminalEvent

\* A control transition is an orderly event.
LEMMA ControlIsOrderly ==
    ASSUME NEW n \in Nodes, ControlTransition(n)
    PROVE  WorkEvent(n)
BY OmittedJoin DEF ControlTransition, WorkEvent, Omits, Evaluates, Answers

\* The steps that leave the ledger alone.
LEMMA QuietSteps ==
    ASSUME \/ Resume \/ Reconciled \/ RecoveryRefused \/ RunResumed \/ Launch \/ Collect
           \/ SettleRefused \/ Settled \/ Abort \/ Crash \/ StoreFails
           \/ \E n \in Nodes : \/ ToolBegins(n) \/ ToolApplies(n) \/ ToolSettles(n)
                             \/ ToolRejected(n) \/ ExecutorReturns(n)
    PROVE  UNCHANGED ledgerVars
BY DEF Resume, Reconciled, RecoveryRefused, RunResumed, Launch, Collect, SettleRefused,
   Settled, Abort, Crash, StoreFails, ToolBegins, ToolApplies, ToolSettles, ToolRejected,
   ExecutorReturns, ExecutorSucceeds, ExecutorFails, ExecutorThrows, Returns

\* Recovery publishes observations and dispositions.
LEMMA RecoveryIsOrderly ==
    ASSUME WorkflowTypeOK, RecoveryStep
    PROVE  [OrderlyNext]_ledgerVars
<1>1. CASE Reconcile
  <2> DEFINE n == First(OpenEffects)
             i == First(Unreconciled(n))
  <2>1. PICK o \in Reconciliations : NodeEffectReconciled(n, i, o)
    BY <1>1 DEF Reconcile, Observations, Reconciliations
  <2> HIDE DEF n, i
  <2>2. n \in Nodes /\ i \in DOMAIN effects[n]
    BY <2>1, PolicyAssumption DEF NodeEffectReconciled, EffectOpen
  <2> QED BY <2>1, <2>2 DEF OrderlyNext, EffectEvent
<1>2. CASE Dispose
  <2>1. First(Disposable) \in Nodes
    BY <1>2, FirstIsLeast, GraphAssumption DEF Dispose, Disposable, Running, With
  <2> QED BY <1>2, <2>1 DEF Dispose, OrderlyNext, WorkNext, WorkEvent, Finishes
<1>3. CASE Reconciled \/ RecoveryRefused \/ RunResumed
  BY <1>3, QuietSteps
<1> QED BY <1>1, <1>2, <1>3 DEF RecoveryStep

\* What the scheduler does about a failure, an exhausted budget or an abort.
LEMMA VerdictIsOrderly ==
    ASSUME \/ Exhaust \/ Cancel \/ RunSucceeded
           \/ Fail /\ With("failed") # {}
           \/ \E n : Retryable(n) /\ Retry(n)
    PROVE  WorkNext
<1>1. ASSUME NEW n, Retryable(n), Retry(n) PROVE WorkNext
  BY <1>1 DEF Retryable, Retry, With, WorkNext, WorkEvent, Finishes
<1> QED BY <1>1, FailIsTerminal DEF Exhaust, Cancel, WorkNext, TerminalEvent

\* The phases of continueWorkflow outside a round.
LEMMA LoopIsOrderly ==
    ASSUME FailurePending, Begin \/ Loop \/ ControlFailed \/ Decide \/ DenialFails
    PROVE  [WorkNext]_ledgerVars
<1>1. CASE Begin
  BY <1>1, VerdictIsOrderly DEF Begin, AdmissionOpen
<1>2. CASE Loop
  BY <1>2, VerdictIsOrderly DEF Loop
<1>3. CASE ControlFailed
  BY <1>3, VerdictIsOrderly DEF ControlFailed, FailurePending
<1>4. CASE Decide
  BY <1>4, VerdictIsOrderly DEF Decide, AdmissionOpen
<1>5. CASE DenialFails
  BY <1>5, VerdictIsOrderly DEF DenialFails, FailurePending
<1> QED BY <1>1, <1>2, <1>3, <1>4, <1>5

\* Admission takes ready nodes only.
LEMMA AdmissionIsOrderly ==
    ASSUME AdmitControl \/ AdmitUnapproved \/ AdmitExecution
    PROVE  [WorkNext]_ledgerVars
<1>1. /\ NextNode \in Nodes
      /\ TransitionOf(NextNode) = "execute" => Ready(NextNode)
  <2>1. Transitions # {}
    BY DEF AdmitControl, AdmitUnapproved, AdmitExecution, Admissible
  <2> QED BY <2>1, NextNodeChosen, ExecuteIsReady
<1>2. CASE AdmitControl
  BY <1>1, <1>2, ControlIsOrderly DEF AdmitControl, WorkNext
<1>3. CASE AdmitUnapproved
  BY <1>1, <1>3 DEF AdmitUnapproved, WorkNext, WorkEvent, Admits, Answers
<1>4. CASE AdmitExecution
  BY <1>1, <1>4 DEF AdmitExecution, Admissible, WorkNext, WorkEvent, Admits
<1> QED BY <1>2, <1>3, <1>4

\* The outcome that is published is a well-typed correction of the reported one.
LEMMA AuthoritativeType ==
    ASSUME WorkflowTypeOK, NEW n \in Nodes
    PROVE  /\ Authoritative(n).result \in {"none", "succeeded", "failed"}
           /\ Authoritative(n).failure \in Failures
           /\ Authoritative(n).receipts = outcome[n].receipts
<1>1. outcome[n] \in Outcomes /\ aborted \in BOOLEAN /\ abortedBefore \in BOOLEAN
  BY DEF WorkflowTypeOK
<1>2. JournalStatus(n) \in {"none", "committed", "uncertain"}
  BY DEF JournalStatus
<1> DEFINE abortAfter == aborted /\ outcome[n].result = "succeeded"
           settled == [outcome[n] EXCEPT !.result = IF abortAfter THEN "failed" ELSE @,
                                         !.failure.retryable =
                                            @ /\ ~(n \in Writable /\ Some(n, "unknown"))]
<1>3. /\ settled \in Outcomes /\ settled.receipts = outcome[n].receipts
  BY <1>1 DEF Outcomes, Failures, Accountings
<1>4. [settled EXCEPT !.failure.sideEffectStatus = JournalStatus(n)] \in Outcomes
      /\ [settled EXCEPT !.failure.sideEffectStatus = JournalStatus(n)].receipts = settled.receipts
  <2> HIDE DEF settled
  <2> QED BY <1>2, <1>3 DEF Outcomes, Failures, Accountings
<1>5. Authoritative(n) \in {settled, [settled EXCEPT !.failure.sideEffectStatus = JournalStatus(n)]}
  BY DEF Authoritative
<1> HIDE DEF settled
<1> QED BY <1>3, <1>4, <1>5 DEF Outcomes

\* A settlement publishes the receipts of the journal: the ledger insists on it for
\* an agent with a journal, and nobody else has receipts that matter.
LEMMA SettleIsOrderly ==
    ASSUME WorkflowTypeOK, EffectsDeclared, SettleNext
    PROVE  WorkNext
<1> DEFINE n == Head(admitted)
           o == Authoritative(n)
<1>1. n \in Nodes
  BY HeadTailProperties DEF SettleNext, WorkflowTypeOK
<1>2. o.failure \in Failures
  BY <1>1, AuthoritativeType
<1>3. n \notin Writable => ReceiptsOf(n) = {}
  BY <1>1 DEF EffectsDeclared, ReceiptsOf
<1>4. PICK u \in 0 .. MaxUsage :
         \/ \E v \in Values \cup {Truncated} : NodeSucceeded(n, v, o.receipts, u)
         \/ NodeFailed(n, o.failure, o.receipts, u)
  BY DEF SettleNext
<1> HIDE DEF n, o
<1>5. ASSUME NEW v \in Values \cup {Truncated}, NodeSucceeded(n, v, o.receipts, u)
      PROVE  NodeSucceeded(n, v, ReceiptsOf(n), u)
  BY <1>3, <1>5 DEF NodeSucceeded, NodeSucceededOk
<1>6. ASSUME NodeFailed(n, o.failure, o.receipts, u)
      PROVE  NodeFailed(n, o.failure, ReceiptsOf(n), u)
  BY <1>6 DEF NodeFailed, NodeFailedOk
<1> QED BY <1>1, <1>2, <1>4, <1>5, <1>6 DEF WorkNext, WorkEvent, Finishes

\* A tool's publication, delivered or failed after its line was durable.
LEMMA ToolIsOrderly ==
    ASSUME NEW n \in Nodes, ToolPublishes(n) \/ ToolPublicationFails(n)
    PROVE  [OrderlyNext]_ledgerVars
<1>1. ASSUME NodeEffectPrepared(n) PROVE OrderlyNext
  BY <1>1 DEF OrderlyNext, EffectEvent
<1>2. ASSUME tool[n] \in Settling, NodeEffectSettled(n, Len(effects[n]), Settlement(tool[n]))
      PROVE  OrderlyNext
  <2>1. Len(effects[n]) \in DOMAIN effects[n]
    BY <1>2 DEF NodeEffectSettled, NodeEffectSettledOk, EffectOpen
  <2>2. Settlement(tool[n]) \in Settlements
    BY <1>2 DEF Settling, Settlement, Settlements
  <2> QED BY <1>2, <2>1, <2>2 DEF OrderlyNext, EffectEvent
<1>3. CASE ToolPublishes(n)
  BY <1>1, <1>2, <1>3, QuietSteps DEF ToolPublishes, ToolPrepared, ToolSettled
<1>4. CASE ToolPublicationFails(n)
  BY <1>1, <1>2, <1>4 DEF ToolPublicationFails
<1> QED BY <1>3, <1>4

\* Decisions of the operator and the passing of time.
LEMMA OperatorIsOrderly ==
    ASSUME StartRun \/ OperatorApproves \/ OperatorDenies \/ TimePasses
    PROVE  WorkNext
BY DEF StartRun, OperatorApproves, OperatorDenies, TimePasses, WorkNext, WorkEvent, Answers

\* Every step of the workflow is an orderly event, or none.
LEMMA StepIsOrderly ==
    ASSUME WorkflowTypeOK, FailurePending, EffectsDeclared, [WorkflowNext]_workflowVars
    PROVE  [OrderlyNext]_ledgerVars
<1>1. CASE UNCHANGED workflowVars
  BY <1>1 DEF workflowVars
<1>2. CASE SchedulerStep
  BY <1>2, RecoveryIsOrderly, LoopIsOrderly, AdmissionIsOrderly, SettleIsOrderly, QuietSteps
     DEF SchedulerStep, OrderlyNext
<1>3. ASSUME NEW n \in Nodes,
             \/ ToolBegins(n) \/ ToolPublishes(n) \/ ToolApplies(n) \/ ToolSettles(n)
             \/ ToolPublicationFails(n) \/ ExecutorReturns(n)
      PROVE  [OrderlyNext]_ledgerVars
  BY <1>3, ToolIsOrderly, QuietSteps
<1>4. CASE StartRun \/ OperatorApproves \/ OperatorDenies \/ TimePasses
  BY <1>4, OperatorIsOrderly DEF OrderlyNext
<1>5. CASE Resume \/ Abort \/ Crash \/ StoreFails
  BY <1>5, QuietSteps
<1> QED BY <1>1, <1>2, <1>3, <1>4, <1>5 DEF WorkflowNext

\* So every step is one the reducer accepts, or leaves the ledger alone.
LEMMA StepIsNext ==
    ASSUME WorkflowTypeOK, FailurePending, EffectsDeclared, [WorkflowNext]_workflowVars
    PROVE  [Next]_ledgerVars
BY StepIsOrderly, OrderlyIsNext

-----------------------------------------------------------------------------
(* The types of the call's variables, and what the refinement rests on.    *)

\* What the journal settled is a set of receipts.
LEMMA ReceiptsType ==
    ASSUME TypeOK, NEW n \in Nodes
    PROVE  ReceiptsOf(n) \in SUBSET Receipts
<1>1. DOMAIN effects[n] \subseteq Nat
  BY LenProperties DEF TypeOK
<1> QED BY <1>1 DEF ReceiptsOf, Receipts

\* A call that moves on or returns keeps its variables well typed.
LEMMA CallMoves ==
    ASSUME WorkflowTypeOK, TypeOK', UNCHANGED worldVars,
           \/ UNCHANGED callVars \/ Return
           \/ \E phase \in Phases : GoTo(phase)
    PROVE  WorkflowTypeOK'
<1>1. CASE UNCHANGED callVars
  BY <1>1 DEF WorkflowTypeOK, callVars, worldVars
<1>2. CASE Return
  <2>1. NoOutcome \in Outcomes
    BY DEF NoOutcome, Outcome, Outcomes, NoError, Failures, Accountings
  <2>2. <<>> \in Seq(Nodes)
    BY EmptySeq
  <2> QED BY <1>2, <2>1, <2>2 DEF WorkflowTypeOK, Return, Phases, worldVars
<1>3. ASSUME NEW phase \in Phases, GoTo(phase) PROVE WorkflowTypeOK'
  BY <1>3 DEF WorkflowTypeOK, GoTo, worldVars
<1> QED BY <1>1, <1>2, <1>3

\* The steps that only move the call on, or end it.
LEMMA MovingSteps ==
    ASSUME \/ StartRun \/ Resume \/ RecoveryStep \/ Begin \/ Loop \/ AdmitControl
           \/ ControlFailed \/ AdmitUnapproved \/ Collect \/ SettleRefused \/ Settled
           \/ Decide \/ DenialFails \/ OperatorApproves \/ OperatorDenies \/ TimePasses
    PROVE  /\ UNCHANGED worldVars
           /\ \/ UNCHANGED callVars \/ Return
              \/ \E phase \in Phases : GoTo(phase)
<1> USE DEF Phases
<1>1. CASE StartRun \/ Resume \/ Collect \/ Settled \/ OperatorDenies
  BY <1>1 DEF StartRun, Resume, Collect, Settled, OperatorDenies
<1>2. CASE RecoveryStep
  BY <1>2 DEF RecoveryStep, Reconcile, Reconciled, Dispose, RecoveryRefused, RunResumed
<1>3. CASE Begin \/ Loop \/ Decide
  BY <1>3 DEF Begin, Loop, Decide, Exhaust, Cancel, Retry, Fail
<1>4. CASE AdmitControl \/ AdmitUnapproved
  BY <1>4 DEF AdmitControl, AdmitUnapproved
<1>5. CASE ControlFailed \/ DenialFails \/ SettleRefused
  BY <1>5 DEF ControlFailed, DenialFails, SettleRefused, Fail
<1>6. CASE OperatorApproves \/ TimePasses
  BY <1>6 DEF OperatorApproves, TimePasses
<1> QED BY <1>1, <1>2, <1>3, <1>4, <1>5, <1>6

\* The steps of a round keep the call well typed.
LEMMA RoundType ==
    ASSUME WorkflowTypeOK, TypeOK', AdmitExecution \/ Launch \/ SettleNext
    PROVE  WorkflowTypeOK'
<1> USE DEF WorkflowTypeOK, worldVars
<1>1. CASE AdmitExecution
  <2>1. NextNode \in Nodes
    BY <1>1, NextNodeChosen DEF AdmitExecution, Admissible
  <2>2. Append(admitted, NextNode) \in Seq(Nodes)
    BY <2>1, AppendProperties
  <2> QED BY <1>1, <2>2 DEF AdmitExecution
<1>2. CASE Launch
  <2>1. NoOutcome \in Outcomes /\ Outcome("failed", AbortFailure, {}) \in Outcomes
    BY DEF NoOutcome, Outcome, Outcomes, NoError, AbortFailure, Failures, Accountings
  <2>2. outcome' \in [Nodes -> Outcomes]
    BY <1>2, <2>1 DEF Launch
  <2>3. exec' \in [Nodes -> {"idle", "running", "done"}]
    BY <1>2 DEF Launch
  <2>4. UNCHANGED <<admitted, aborted, poisoned, tool, applied, failures, aborts>>
        /\ pc' = "execute" /\ abortedBefore' = aborted
    BY <1>2 DEF Launch
  <2> QED BY <2>2, <2>3, <2>4 DEF Phases
<1>3. CASE SettleNext
  <2>1. Tail(admitted) \in Seq(Nodes)
    BY <1>3, HeadTailProperties DEF SettleNext
  <2> QED BY <1>3, <2>1 DEF SettleNext
<1> QED BY <1>1, <1>2, <1>3

\* So do the tools and the executors.
LEMMA ToolType ==
    ASSUME WorkflowTypeOK, TypeOK', NEW n \in Nodes,
           \/ ToolBegins(n) \/ ToolPublishes(n) \/ ToolApplies(n) \/ ToolSettles(n)
           \/ ToolPublicationFails(n)
    PROVE  WorkflowTypeOK'
<1> USE DEF WorkflowTypeOK
<1>1. tool' \in [Nodes -> ToolStates]
  BY DEF ToolBegins, ToolPublishes, ToolPrepared, ToolSettled, ToolRejected, ToolApplies,
     ToolSettles, ToolPublicationFails, SetTool, ToolStates, Publishing, Settling
<1>2. CASE ToolApplies(n)
  <2>1. <<attempt[n], Len(effects[n])>> \in Nat \X Nat
    BY LenProperties DEF TypeOK
  <2>2. applied' \in [Nodes -> SUBSET (Nat \X Nat)]
    BY <1>2, <2>1 DEF ToolApplies
  <2> QED BY <1>1, <1>2, <2>2 DEF ToolApplies, callVars
<1>3. CASE ToolPublicationFails(n)
  <2>1. failures' \in 0 .. MaxFailures
    BY <1>3, FailureAssumption DEF ToolPublicationFails, Fails
  <2> QED BY <1>1, <1>3, <2>1 DEF ToolPublicationFails, Fails
<1>4. CASE ToolBegins(n) \/ ToolPublishes(n) \/ ToolSettles(n)
  BY <1>1, <1>4 DEF ToolBegins, ToolPublishes, ToolPrepared, ToolSettled, ToolRejected,
     ToolSettles, callVars
<1> QED BY <1>2, <1>3, <1>4

\* An executor returns a well-typed outcome.
LEMMA ExecutorType ==
    ASSUME WorkflowTypeOK, TypeOK', NEW n \in Nodes, ExecutorReturns(n)
    PROVE  WorkflowTypeOK'
<1>1. ReceiptsOf(n) \in SUBSET Receipts
  BY ReceiptsType DEF WorkflowTypeOK
<1>2. PICK r \in {"succeeded", "failed"}, f \in Failures, rs \in SUBSET Receipts :
         Returns(n, Outcome(r, f, rs))
  <2>1. CASE ExecutorSucceeds(n)
    BY <1>1, <2>1 DEF ExecutorSucceeds, AbortFailure, Failures, Accountings
  <2>2. CASE ExecutorFails(n)
    BY <1>1, <2>2 DEF ExecutorFails, FailuresOf
  <2>3. CASE ExecutorThrows(n)
    BY <2>3 DEF ExecutorThrows, AbortFailure, Failures, Accountings
  <2> QED BY <2>1, <2>2, <2>3 DEF ExecutorReturns
<1>3. Outcome(r, f, rs) \in Outcomes
  BY DEF Outcome, Outcomes
<1> QED BY <1>2, <1>3 DEF Returns, WorkflowTypeOK, worldVars

\* So do aborts, crashes and store failures.
LEMMA FailureType ==
    ASSUME WorkflowTypeOK, TypeOK', Abort \/ Crash \/ StoreFails
    PROVE  WorkflowTypeOK'
<1> USE DEF WorkflowTypeOK
<1>1. CASE Abort
  <2>1. aborts' \in 0 .. MaxAborts
    BY <1>1, FailureAssumption DEF Abort
  <2> QED BY <1>1, <2>1 DEF Abort
<1>2. CASE Crash \/ StoreFails
  <2>1. failures' \in 0 .. MaxFailures /\ aborts' = aborts /\ applied' = applied
    BY <1>2, FailureAssumption DEF Crash, StoreFails, Fails
  <2>2. tool' \in [Nodes -> ToolStates]
    BY <1>2 DEF Crash, StoreFails, ToolStates
  <2>3. NoOutcome \in Outcomes /\ <<>> \in Seq(Nodes)
    BY EmptySeq DEF NoOutcome, Outcome, Outcomes, NoError, Failures, Accountings
  <2>4. Return
    BY <1>2 DEF Crash, StoreFails
  <2> QED BY <2>1, <2>2, <2>3, <2>4 DEF Return, Phases
<1> QED BY <1>1, <1>2

\* Every step keeps the workflow well typed, provided it does the ledger.
LEMMA StepType ==
    ASSUME WorkflowTypeOK, TypeOK', [WorkflowNext]_workflowVars
    PROVE  WorkflowTypeOK'
<1>1. CASE UNCHANGED workflowVars
  BY <1>1 DEF workflowVars, callVars, worldVars, WorkflowTypeOK
<1>2. CASE \/ StartRun \/ Resume \/ SchedulerStep
           \/ OperatorApproves \/ OperatorDenies \/ TimePasses
  BY <1>2, MovingSteps, CallMoves, RoundType DEF SchedulerStep
<1>3. CASE Abort \/ Crash \/ StoreFails
  BY <1>3, FailureType
<1>4. ASSUME NEW n \in Nodes,
             \/ ToolBegins(n) \/ ToolPublishes(n) \/ ToolApplies(n) \/ ToolSettles(n)
             \/ ToolPublicationFails(n) \/ ExecutorReturns(n)
      PROVE  WorkflowTypeOK'
  BY <1>4, ToolType, ExecutorType
<1> QED BY <1>1, <1>2, <1>3, <1>4 DEF WorkflowNext

\* Only effect events of agents that declare the protocol write a journal.
LEMMA DeclaredStays ==
    ASSUME TypeOK, EffectsDeclared, [Next]_ledgerVars
    PROVE  EffectsDeclared'
<1> USE DEF EffectsDeclared
<1>1. CASE RunStarted \/ TerminalEvent \/ UNCHANGED ledgerVars
  BY <1>1 DEF RunStarted, TerminalEvent, RunSucceeded, RunFailed, RunCancelled,
     RunBudgetExhausted, Conclude, ledgerVars
<1>2. ASSUME NEW n \in Nodes, ApprovalEvent(n) \/ ControlEvent(n)
      PROVE  effects' = effects
  BY <1>2 DEF ApprovalEvent, CommandApprovalRequested, CommandApprovalGranted,
     CommandApprovalDenied, GrantLapses, CommandApprovalExpired,
     WorkflowApprovalRequested, WorkflowApprovalApproved, WorkflowApprovalDenied,
     ControlEvent, NodeConditionEvaluated, NodeResultPublished, NodeJoined,
     ControlSucceeds, NodeControlFailed, NodeOmitted
<1>3. ASSUME NEW n \in Nodes, EffectEvent(n) PROVE EffectsDeclared'
  BY <1>3 DEF EffectEvent, NodeEffectPrepared, NodeEffectPreparedOk, NodeEffectSettled,
     NodeEffectSettledOk, NodeEffectReconciled, EffectOpen, TypeOK
<1>4. ASSUME NEW n \in Nodes, AttemptEvent(n) PROVE EffectsDeclared'
  BY <1>4 DEF AttemptEvent, NodeStarted, NodeSucceeded, NodeFailed, NodeAttemptInterrupted,
     NodeRetryScheduled, FreshAttempt, TypeOK
<1> QED BY <1>1, <1>2, <1>3, <1>4 DEF Next

\* A call that is about to publish run_failed keeps its reason for it: nobody else
\* changes the status of a node meanwhile.
LEMMA FailurePendingStays ==
    ASSUME WorkflowTypeOK, FailurePending, [WorkflowNext]_workflowVars
    PROVE  FailurePending'
<1> SUFFICES ASSUME pc' \in {"control_failed", "denied"}
             PROVE  \E n \in Nodes : status'[n] = "failed"
  BY DEF FailurePending, With
<1>1. ASSUME pc' = pc, status' = status PROVE \E n \in Nodes : status'[n] = "failed"
  BY <1>1 DEF FailurePending, With
<1>2. CASE UNCHANGED workflowVars
  BY <1>1, <1>2 DEF workflowVars, callVars, ledgerVars
<1>3. CASE AdmitControl
  <2>1. NextNode \in Nodes
    BY <1>3, NextNodeChosen DEF AdmitControl
  <2> QED BY <1>3, <2>1 DEF AdmitControl, GoTo, Return
<1>4. CASE OperatorDenies
  BY <1>4 DEF OperatorDenies, CommandApprovalDenied, WorkflowApprovalDenied, WorkflowTypeOK,
     TypeOK
<1>5. CASE \/ StartRun \/ Resume \/ RecoveryStep \/ Begin \/ Loop \/ ControlFailed
           \/ AdmitUnapproved \/ AdmitExecution \/ Launch \/ Collect \/ SettleNext
           \/ SettleRefused \/ Settled \/ Decide \/ DenialFails \/ OperatorApproves
           \/ Crash \/ StoreFails
  <2>1. pc' \notin {"control_failed", "denied"}
    <3>1. CASE RecoveryStep
      BY <3>1 DEF RecoveryStep, Reconcile, Reconciled, Dispose, RecoveryRefused,
         RunResumed, GoTo, Return, callVars
    <3>2. CASE Begin \/ Loop \/ Decide \/ ControlFailed \/ DenialFails
      BY <3>2 DEF Begin, Loop, Decide, ControlFailed, DenialFails, Exhaust, Cancel,
         Retry, Fail, GoTo, Return
    <3>3. CASE AdmitUnapproved \/ AdmitExecution \/ Launch \/ Collect \/ SettleNext
               \/ SettleRefused \/ Settled
      BY <3>3 DEF AdmitUnapproved, AdmitExecution, Launch, Collect, SettleNext,
         SettleRefused, Settled, GoTo, Return
    <3>4. CASE StartRun \/ Resume \/ OperatorApproves \/ Crash \/ StoreFails
      BY <3>4 DEF StartRun, Resume, OperatorApproves, Crash, StoreFails, GoTo, Return,
         callVars
    <3> QED BY <1>5, <3>1, <3>2, <3>3, <3>4
  <2> QED BY <2>1
<1>6. CASE TimePasses \/ Abort
  BY <1>1, <1>6 DEF TimePasses, GrantLapses, Abort, callVars, ledgerVars
<1>7. ASSUME NEW n \in Nodes,
             \/ ToolBegins(n) \/ ToolPublishes(n) \/ ToolApplies(n) \/ ToolSettles(n)
             \/ ToolPublicationFails(n) \/ ExecutorReturns(n)
      PROVE  pc' = pc /\ status' = status
  BY <1>7 DEF ToolBegins, ToolPublishes, ToolPrepared, ToolSettled, ToolRejected,
     ToolApplies, ToolSettles, ToolPublicationFails, ExecutorReturns, ExecutorSucceeds,
     ExecutorFails, ExecutorThrows, Returns, NodeEffectPrepared, NodeEffectSettled,
     callVars, ledgerVars
<1> QED BY <1>1, <1>2, <1>3, <1>4, <1>5, <1>6, <1>7 DEF WorkflowNext, SchedulerStep

-----------------------------------------------------------------------------
(* Work is begun in order.  AttemptedInOrder is inductive once it also     *)
(* speaks of commands that only asked for their approval: a denial turns   *)
(* the request into an attempt.                                            *)

InOrder(n) ==
    IF NodeType[n] = "join"
    THEN status[n] = "omitted" => status[JoinCondition[n]] = "omitted"
    ELSE attempt[n] > 0 \/ approval[n] # "none" => Ready(n)

OrderInv == \A n \in Nodes : InOrder(n)

\* An orderly event is about one node, and that node had not finished.
LEMMA OrderlyEventIsLocal ==
    ASSUME TypeOK, NEW n \in Nodes, OrderlyEvent(n)
    PROVE  OthersStay(n) /\ FinishedStays
<1>1. CASE Admits(n) \/ Answers(n)
  <2>1. OthersStay(n)
    BY <1>1 DEF Admits, Answers, CommandApprovalRequested, CommandApprovalGranted,
       CommandApprovalDenied, GrantLapses, CommandApprovalExpired, NodeStarted,
       WorkflowApprovalRequested, WorkflowApprovalApproved, WorkflowApprovalDenied,
       OthersStay, TypeOK
  <2>2. UNCHANGED <<status, decision>> \/ status[n] = "pending"
    BY <1>1 DEF Admits, Answers, CommandApprovalRequested, CommandApprovalGranted,
       CommandApprovalDenied, CommandApprovalPending, GrantLapses, CommandApprovalExpired,
       NodeStarted, NodeStartedOk, WorkflowApprovalRequested, WorkflowApprovalApproved,
       WorkflowApprovalDenied, WorkflowApprovalPending
  <2> QED BY <2>1, <2>2, OnlyUnfinished DEF FinishedStays
<1>2. CASE Omits(n) \/ Evaluates(n)
  <2>1. OthersStay(n) /\ status[n] = "pending"
    BY <1>2 DEF Omits, Evaluates, NodeConditionEvaluated, ConditionEvaluatedOk,
       NodeResultPublished, ResultPublishedOk, NodeJoined, NodeJoinedOk, ReadyControl,
       PendingControl, ControlSucceeds, NodeControlFailed, NodeControlFailedOk,
       NodeOmitted, NodeOmittedOk, OthersStay, TypeOK
  <2> QED BY <2>1, OnlyUnfinished
<1>3. CASE Finishes(n)
  <2>1. OthersStay(n)
    BY <1>3 DEF Finishes, NodeSucceeded, NodeFailed, NodeAttemptInterrupted,
       NodeRetryScheduled, FreshAttempt, OthersStay, TypeOK
  <2>2. status[n] \in {"running", "failed"}
    BY <1>3 DEF Finishes, NodeSucceeded, NodeSucceededOk, NodeFailed, NodeFailedOk,
       NextOutcome, NodeAttemptInterrupted, NodeAttemptInterruptedOk, NodeRetryScheduled,
       CanRetry
  <2> QED BY <2>1, <2>2, OnlyUnfinished
<1>4. CASE EffectEvent(n)
  BY <1>4 DEF EffectEvent, NodeEffectPrepared, NodeEffectSettled, NodeEffectReconciled,
     OthersStay, FinishedStays, TypeOK
<1> QED BY <1>1, <1>2, <1>3, <1>4 DEF OrderlyEvent, WorkEvent

\* The node an orderly event is about stays in order.
LEMMA NodeInOrder ==
    ASSUME WorkInv, OrderInv, NEW n \in Nodes, OrderlyEvent(n), FinishedStays
    PROVE  InOrder(n)'
<1>1. TypeOK /\ NodeInv(n) /\ InOrder(n)
  BY DEF WorkInv, LedgerInv, OrderInv
<1>2. Ready(n) => Ready(n)'
  BY PrerequisitesStay DEF Ready
<1>3. CASE NodeType[n] = "join"
  <2>1. status'[n] = "omitted" => Omits(n) \/ status[n] = "omitted"
    BY <1>1 DEF OrderlyEvent, WorkEvent, Admits, Answers, Finishes, Evaluates, EffectEvent,
       CommandApprovalRequested, CommandApprovalGranted, CommandApprovalDenied, GrantLapses,
       CommandApprovalExpired, NodeStarted, WorkflowApprovalRequested,
       WorkflowApprovalApproved, WorkflowApprovalDenied, NodeSucceeded, NodeFailed,
       NodeAttemptInterrupted, NodeRetryScheduled, FreshAttempt, NodeConditionEvaluated,
       NodeResultPublished, NodeJoined, ControlSucceeds, NodeControlFailed,
       NodeEffectPrepared, NodeEffectSettled, NodeEffectReconciled, TypeOK
  <2>2. JoinCondition[n] \in Nodes
    BY GraphAssumption
  <2> QED BY <1>1, <1>3, <2>1, <2>2 DEF InOrder, Omits, FinishedStays
<1>4. CASE NodeType[n] # "join"
  <2> SUFFICES ASSUME attempt'[n] > 0 \/ approval'[n] # "none" PROVE Ready(n)
    BY <1>2, <1>4 DEF InOrder
  <2>1. attempt[n] > 0 \/ approval[n] # "none" => Ready(n)
    BY <1>1, <1>4 DEF InOrder
  <2>2. CASE Admits(n)
    BY <2>2 DEF Admits
  <2>3. CASE Omits(n)
    BY <2>1, <2>3 DEF Omits, NodeOmitted
  <2>4. CASE Answers(n)
    <3>1. CASE CommandApprovalGranted(n) \/ CommandApprovalDenied(n)
      BY <2>1, <3>1 DEF CommandApprovalGranted, CommandApprovalDenied, CommandApprovalPending
    <3>2. CASE GrantLapses(n) \/ CommandApprovalExpired(n)
      BY <2>1, <3>2 DEF GrantLapses, CommandApprovalExpired, CommandApprovalExpiredOk
    <3>3. CASE WorkflowApprovalRequested(n)
      BY <2>1, <3>3 DEF WorkflowApprovalRequested
    <3>4. CASE WorkflowApprovalApproved(n) \/ WorkflowApprovalDenied(n)
      BY <1>1, <3>4 DEF WorkflowApprovalApproved, WorkflowApprovalDenied,
         WorkflowApprovalPending, NodeInv, Ready
    <3> QED BY <2>4, <3>1, <3>2, <3>3, <3>4 DEF Answers
  <2>5. CASE Finishes(n)
    BY <1>1, <2>1, <2>5 DEF Finishes, NodeSucceeded, NodeFailed, NodeAttemptInterrupted,
       NodeRetryScheduled, FreshAttempt, TypeOK
  <2>6. CASE Evaluates(n)
    BY <1>4, <2>6 DEF Evaluates, NodeConditionEvaluated, ConditionEvaluatedOk,
       NodeResultPublished, ResultPublishedOk, NodeJoined, NodeJoinedOk, ReadyControl,
       NodeControlFailed, NodeControlFailedOk, Ready
  <2>7. CASE EffectEvent(n)
    BY <2>1, <2>7 DEF EffectEvent, NodeEffectPrepared, NodeEffectSettled, NodeEffectReconciled
  <2> QED BY <2>2, <2>3, <2>4, <2>5, <2>6, <2>7 DEF OrderlyEvent, WorkEvent
<1> QED BY <1>3, <1>4

\* What was begun in order stays in order.
LEMMA OrderStays ==
    ASSUME WorkInv, OrderInv, [OrderlyNext]_ledgerVars
    PROVE  OrderInv'
<1>1. CASE RunStarted \/ TerminalEvent \/ UNCHANGED ledgerVars
  <2>1. UNCHANGED <<status, attempt, approval, decision>>
    BY <1>1 DEF RunStarted, TerminalEvent, RunSucceeded, RunFailed, RunCancelled,
       RunBudgetExhausted, Conclude, ledgerVars
  <2> QED BY <2>1 DEF OrderInv, InOrder, Ready, DependenciesSucceeded, GuardSelected, Decided
<1>2. ASSUME NEW n \in Nodes, OrderlyEvent(n) PROVE OrderInv'
  <2>1. OthersStay(n) /\ FinishedStays
    BY <1>2, OrderlyEventIsLocal DEF WorkInv, LedgerInv
  <2>2. InOrder(n)'
    BY <1>2, <2>1, NodeInOrder
  <2>3. ASSUME NEW m \in Nodes, m # n PROVE InOrder(m)'
    <3>1. InOrder(m)
      BY DEF OrderInv
    <3>2. Ready(m) => Ready(m)'
      BY <2>1, PrerequisitesStay DEF Ready
    <3>3. status[JoinCondition[m]] = "omitted" => status'[JoinCondition[m]] = "omitted"
      BY <2>1, GraphAssumption DEF FinishedStays
    <3> QED BY <2>1, <2>3, <3>1, <3>2, <3>3 DEF InOrder, OthersStay
  <2> QED BY <2>2, <2>3 DEF OrderInv
<1> QED BY <1>1, <1>2 DEF OrderlyNext, WorkNext, OrderlyEvent

-----------------------------------------------------------------------------
(* The invariant of the scheduler and what follows from it.                *)

SchedulerInv ==
    /\ WorkflowTypeOK /\ WorkInv
    /\ FailurePending /\ EffectsDeclared
    /\ OrderInv

\* It holds before the run exists.
LEMMA InitScheduler == WorkflowInit => SchedulerInv
<1> SUFFICES ASSUME WorkflowInit PROVE SchedulerInv
  OBVIOUS
<1>1. TypeOK /\ WorkInv
  BY InitType, InitWork DEF WorkflowInit
<1>2. NoOutcome \in Outcomes /\ <<>> \in Seq(Nodes)
  BY EmptySeq DEF NoOutcome, Outcome, Outcomes, NoError, Failures, Accountings
<1>3. WorkflowTypeOK
  <2>1. failures \in 0 .. MaxFailures /\ aborts \in 0 .. MaxAborts
    BY FailureAssumption DEF WorkflowInit
  <2>2. tool \in [Nodes -> ToolStates] /\ applied \in [Nodes -> SUBSET (Nat \X Nat)]
    BY DEF WorkflowInit, ToolStates
  <2>3. exec \in [Nodes -> {"idle", "running", "done"}] /\ outcome \in [Nodes -> Outcomes]
    BY <1>2 DEF WorkflowInit
  <2> QED BY <1>1, <1>2, <2>1, <2>2, <2>3 DEF WorkflowInit, WorkflowTypeOK, Phases
<1>4. FailurePending /\ EffectsDeclared /\ OrderInv
  BY DEF WorkflowInit, Init, FailurePending, EffectsDeclared, OrderInv, InOrder
<1> QED BY <1>1, <1>3, <1>4 DEF SchedulerInv

\* Every step keeps it.
LEMMA StepScheduler == SchedulerInv /\ [WorkflowNext]_workflowVars => SchedulerInv'
<1> SUFFICES ASSUME SchedulerInv, [WorkflowNext]_workflowVars PROVE SchedulerInv'
  OBVIOUS
<1> USE DEF SchedulerInv
<1>1. [Next]_ledgerVars /\ [OrderlyNext]_ledgerVars
  BY StepIsNext, StepIsOrderly
<1>2. WorkInv' /\ TypeOK /\ TypeOK'
  BY <1>1, NextWork DEF WorkInv, LedgerInv
<1>3. WorkflowTypeOK'
  BY <1>2, StepType
<1>4. FailurePending' /\ EffectsDeclared' /\ OrderInv'
  BY <1>1, <1>2, FailurePendingStays, DeclaredStays, OrderStays
<1> QED BY <1>2, <1>3, <1>4

\* So it holds of every workflow.
LEMMA SchedulerInvariant == WorkflowSafety => []SchedulerInv
<1>1. WorkflowInit => SchedulerInv
  BY InitScheduler
<1>2. SchedulerInv /\ [WorkflowNext]_workflowVars => SchedulerInv'
  BY StepScheduler
<1> QED BY <1>1, <1>2, PTL DEF WorkflowSafety

\* Whatever the scheduler, its tools, the operator and the failures between them
\* do, every variable of the call and of the world keeps its type; in particular
\* the outcome that is settled is one the reducer can read.
THEOREM WorkflowTyped == WorkflowSafety => []WorkflowTypeOK
<1>1. SchedulerInv => WorkflowTypeOK
  BY DEF SchedulerInv
<1> QED BY <1>1, SchedulerInvariant, PTL

\* The scheduler implements the ledger: each of its steps publishes at most one
\* event, and one the reducer accepts, so that whatever is proved of every ledger
\* holds of every run the scheduler drives.
THEOREM SchedulerImplementsLedger == WorkflowSafety => Spec
<1>1. WorkflowInit => Init
  BY DEF WorkflowInit
<1>2. SchedulerInv /\ [WorkflowNext]_workflowVars => [Next]_ledgerVars
  BY StepIsNext DEF SchedulerInv
<1> QED BY <1>1, <1>2, SchedulerInvariant, PTL DEF WorkflowSafety, Spec

\* In every workflow, with a persisted graph or without, nothing is attempted or
\* denied before its dependencies succeeded and its guard chose it, and a join is
\* omitted only together with its condition.
THEOREM SchedulerInOrder == WorkflowSafety => []AttemptedInOrder
<1>1. SchedulerInv => AttemptedInOrder
  BY DEF SchedulerInv, OrderInv, InOrder, Ready, AttemptedInOrder
<1> QED BY <1>1, SchedulerInvariant, PTL

\* What is proved of every ledger holds of every run the scheduler drives: no
\* attempt is lost or counted twice, a run waits for one decision at a time, the
\* limits hold and evidence of an effect is never erased.
THEOREM SchedulerKeepsLedger ==
    WorkflowSafety => /\ [](AttemptHistory /\ WaitingForOne /\ OmittedNeverStarted
                            /\ LimitsRespected)
                      /\ JournalKept
BY SchedulerImplementsLedger, AttemptsAccountedFor, OneDecisionAwaited, NoWorkDiscarded,
   LimitsKept, EvidenceKept, PTL
=============================================================================
