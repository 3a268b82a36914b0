---------------------------- MODULE RunWorkflow -----------------------------
(***************************************************************************)
(* The scheduler that drives one run: runWorkflow and resumeWorkflow, the  *)
(* executors it launches, the file effects their tools make, the operator  *)
(* who decides approvals, and the failures between any two of these steps. *)
(* Every event goes through the ledger's own guards (RunLedger), so a      *)
(* ledger variable here is both the durable file and the RunState a call   *)
(* has replayed; a call is volatile and a crash loses it.  One process at  *)
(* a time drives the run (RunStore is about how it gets the ownership).    *)
(*                                                                         *)
(* One tool call is in flight per attempt; a tool that outlives its call   *)
(* keeps the lock of its target.                                           *)
(***************************************************************************)
EXTENDS RunLedger

CONSTANTS
    MaxFailures,   \* bound: crashes and store failures in a behaviour
    MaxAborts      \* bound: abort signals in a behaviour

ASSUME FailureAssumption == MaxFailures \in Nat /\ MaxAborts \in Nat

VARIABLES
    pc,            \* where the call of runWorkflow or resumeWorkflow stands
    admitted,      \* Seq(Nodes): the attempts of this round not yet settled
    exec,          \* [Nodes -> {"idle", "running", "done"}]: executors
    outcome,       \* [Nodes -> Outcomes]: what an executor returned
    abortedBefore, \* abortedBeforeExecution of this round
    aborted,       \* the call's abort signal
    poisoned,      \* publicationPoisoned
    tool,          \* [Nodes -> ToolStates]: the tool call in flight
    applied,       \* [Nodes -> SUBSET (attempt, effect)]: files really changed
    failures,      \* crashes and store failures so far
    aborts         \* abort signals so far

callVars == <<pc, admitted, exec, outcome, abortedBefore, aborted, poisoned>>
worldVars == <<tool, applied, failures, aborts>>
workflowVars == <<ledgerVars, callVars, worldVars>>

Phases == {"down", "recover", "dispose", "begin", "loop", "admit", "execute", "settle",
           "decide", "control_failed", "denied"}

\* A settlement is queued for publication under the outcome it reports.
Settling == {"settle_committed", "settle_not_applied", "settle_unknown"}
Publishing == {"preparing"} \cup Settling
ToolStates == {"none", "prepared", "applied"} \cup Publishing
\* Mutant of Settlement: the journal gets the word of the receipt.
ReceiptWord(t) == CASE t = "settle_committed" -> "committed"
                    [] t = "settle_not_applied" -> "not_applied"
                    [] t = "settle_unknown" -> "uncertain"

Settlement(t) == CASE t = "settle_committed" -> "committed"
                   [] t = "settle_not_applied" -> "not_applied"
                   [] t = "settle_unknown" -> "unknown"

Receipts == [sequence : Nat, outcome : {"committed", "uncertain"}]

\* NodeExecutionOutcome; what a success published and how much an attempt used
\* are chosen when it is settled, which is when they are first read.
Outcome(result, failure, receipts) ==
    [result |-> result, failure |-> failure, receipts |-> receipts]
NoOutcome == Outcome("none", NoError, {})
Outcomes == [result : {"none", "succeeded", "failed"}, failure : Failures,
             receipts : SUBSET Receipts]

WorkflowTypeOK ==
    /\ TypeOK
    /\ pc \in Phases
    /\ admitted \in Seq(Nodes)
    /\ exec \in [Nodes -> {"idle", "running", "done"}]
    /\ outcome \in [Nodes -> Outcomes]
    /\ abortedBefore \in BOOLEAN /\ aborted \in BOOLEAN /\ poisoned \in BOOLEAN
    /\ tool \in [Nodes -> ToolStates]
    /\ applied \in [Nodes -> SUBSET (Nat \X Nat)]
    /\ failures \in 0 .. MaxFailures /\ aborts \in 0 .. MaxAborts

WorkflowInit ==
    /\ Init
    /\ pc = "down" /\ admitted = <<>>
    /\ exec = [n \in Nodes |-> "idle"]
    /\ outcome = [n \in Nodes |-> NoOutcome]
    /\ abortedBefore = FALSE /\ aborted = FALSE /\ poisoned = FALSE
    /\ tool = [n \in Nodes |-> "none"]
    /\ applied = [n \in Nodes |-> {}]
    /\ failures = 0 /\ aborts = 0

-----------------------------------------------------------------------------
(* How a call moves and ends.                                              *)

GoTo(phase) ==
    /\ pc' = phase
    /\ UNCHANGED <<admitted, exec, outcome, abortedBefore, aborted, poisoned>>

\* The call returned or threw: everything it held in memory is gone.
Return ==
    /\ pc' = "down"
    /\ admitted' = <<>>
    /\ exec' = [n \in Nodes |-> "idle"]
    /\ outcome' = [n \in Nodes |-> NoOutcome]
    /\ abortedBefore' = FALSE /\ aborted' = FALSE /\ poisoned' = FALSE

AllTerminal == \A n \in Nodes : status[n] \in {"succeeded", "omitted"}

\* hasPendingStartExhaustion
PendingStartExhaustion ==
    NodeStartsExhausted /\ With("pending") # {} /\ With("failed") = {}

\* canScheduleFailedAttemptRetry, for the one failed node
Retryable(n) == With("failed") = {n} /\ CanRetry(n)

-----------------------------------------------------------------------------
(* Starting and recovering.                                                *)

StartRun ==
    /\ pc = "down"
    /\ RunStarted
    /\ GoTo("begin")
    /\ UNCHANGED worldVars

Resume ==
    /\ pc = "down" /\ Active
    /\ GoTo("recover")
    /\ UNCHANGED <<ledgerVars, worldVars>>

Running == With("running")
Unreconciled(n) == {i \in DOMAIN effects[n] : effects[n][i] = "open"}
OpenEffects == {n \in Running : Unreconciled(n) # {}}

\* What observing the target of effect i can show, with the target locked.
Observations(n, i) ==
    {"found_unknown",
     IF <<attempt[n], i>> \in applied[n] THEN "found_applied" ELSE "found_not_applied"}

\* Mutant of Reconcile: the target is observed without its lock.
ReconcileUnlocked ==
    /\ pc = "recover" /\ ~aborted
    /\ OpenEffects # {}
    /\ LET n == First(OpenEffects)
           i == First(Unreconciled(n))
       IN  \E o \in Observations(n, i) : NodeEffectReconciled(n, i, o)
    /\ UNCHANGED <<callVars, worldVars>>

\* reconcileOpenEffects: in declaration order, each under its target's lock.
Reconcile ==
    /\ pc = "recover" /\ ~aborted
    /\ OpenEffects # {}
    /\ LET n == First(OpenEffects)
           i == First(Unreconciled(n))
       IN  /\ tool[n] = "none"
           /\ \E o \in Observations(n, i) : NodeEffectReconciled(n, i, o)
    /\ UNCHANGED <<callVars, worldVars>>

\* assertNotAborted: the last time a recovery looks at its abort signal.
Reconciled ==
    /\ pc = "recover" /\ ~aborted
    /\ OpenEffects = {}
    /\ GoTo("dispose")
    /\ UNCHANGED <<ledgerVars, worldVars>>

Disposable == {n \in Running : MaxAttempts[n] > 0}

\* disposeProofSafeInterruptedAttempt
Dispose ==
    /\ pc = "dispose" /\ Disposable # {}
    /\ NodeAttemptInterrupted(First(Disposable))
    /\ UNCHANGED <<callVars, worldVars>>

\* The recovery throws: it was aborted, another tool still holds a target, the
\* ledger refuses the disposition, or an attempt has no committed outcome
\* (rejectOpenAttempt).
RecoveryRefused ==
    /\ \/ pc = "recover" /\ aborted
       \/ pc = "recover" /\ OpenEffects # {} /\ tool[First(OpenEffects)] # "none"
       \/ /\ pc = "dispose" /\ Disposable # {}
          /\ ~NodeAttemptInterruptedOk(First(Disposable))
       \/ pc = "dispose" /\ Disposable = {} /\ Running # {}
    /\ Return
    /\ UNCHANGED <<ledgerVars, worldVars>>

RunResumed ==
    /\ pc = "dispose"
    /\ Running = {}
    /\ RunResumedOk
    /\ GoTo("begin")
    /\ UNCHANGED <<ledgerVars, worldVars>>

-----------------------------------------------------------------------------
(* continueWorkflow: failures left by an earlier call, then the loop.      *)

Exhaust == RunBudgetExhausted /\ Return
Cancel == RunCancelled /\ Return
Retry(n) == NodeRetryScheduled(n) /\ GoTo("loop")
Fail == RunFailed(First(With("failed"))) /\ Return

\* Mutant of Begin: a durable failure ends the call without run_failed.
BeginForgets ==
    /\ pc = "begin"
    /\ \/ AdmissionOpen /\ GoTo("loop")
       \/ ~AdmissionOpen /\ Return
    /\ UNCHANGED <<ledgerVars, worldVars>>

Begin ==
    /\ pc = "begin"
    /\ \/ AdmissionOpen /\ GoTo("loop") /\ UNCHANGED ledgerVars
       \/ ~AdmissionOpen /\ SettlementExhausted /\ Exhaust
       \/ /\ ~AdmissionOpen /\ ~SettlementExhausted
          /\ LET n == First(With("failed"))
             IN  \/ Retryable(n) /\ Retry(n)
                 \/ ~Retryable(n) /\ Fail
    /\ UNCHANGED worldVars

\* Mutant of Loop: only the settled resources are looked at before a round.
LoopUncounted ==
    /\ pc = "loop"
    /\ LET exhausted == AllTerminal /\ SettlementExhausted
       IN  \/ exhausted /\ Exhaust
           \/ ~exhausted /\ aborted /\ Cancel
           \/ ~exhausted /\ ~aborted /\ AllTerminal /\ RunSucceeded /\ Return
           \/ /\ ~exhausted /\ ~aborted /\ ~AllTerminal
              /\ GoTo("admit") /\ UNCHANGED ledgerVars
    /\ UNCHANGED worldVars

Loop ==
    /\ pc = "loop"
    /\ LET exhausted == IF AllTerminal THEN SettlementExhausted ELSE BudgetExhausted
       IN  \/ exhausted /\ Exhaust
           \/ ~exhausted /\ aborted /\ Cancel
           \/ ~exhausted /\ ~aborted /\ AllTerminal /\ RunSucceeded /\ Return
           \/ /\ ~exhausted /\ ~aborted /\ ~AllTerminal
              /\ GoTo("admit") /\ UNCHANGED ledgerVars
    /\ UNCHANGED worldVars

\* Mutant of TransitionOf: a join does not wait for its condition.
TransitionOfAny(n) ==
    CASE \E d \in DependsOn[n] : status[d] = "omitted" -> "omit"
      [] OmittedByCondition(n) -> "omit"
      [] OTHER -> IF NodeType[n] \in ControlTypes THEN NodeType[n] ELSE "execute"

\* selectNextTransition: the first pending node, in declaration order, that has
\* something to do.
TransitionOf(n) ==
    LET omittedDependency == \E d \in DependsOn[n] : status[d] = "omitted"
        conditionOf == IF NodeType[n] = "join" THEN JoinCondition[n] ELSE GuardCondition[n]
        undecided == ~Decided(conditionOf) /\ status[conditionOf] # "omitted"
    IN  CASE NodeType[n] = "join" ->
                (IF Decided(conditionOf) THEN "join"
                 ELSE IF ~undecided /\ omittedDependency THEN "omit" ELSE "none")
          [] NodeType[n] # "join" /\ n \in Guarded /\ undecided -> "none"
          [] NodeType[n] # "join" /\ OmittedByCondition(n) -> "omit"
          [] OTHER -> IF omittedDependency THEN "omit"
                      ELSE IF NodeType[n] \in ControlTypes THEN NodeType[n] ELSE "execute"

Transitions ==
    {n \in Nodes : status[n] = "pending" /\ DependenciesTerminal(n) /\ TransitionOf(n) # "none"}

NextNode == First(Transitions)

\* controlTransitionEvent
ControlTransition(n) ==
    LET transition == TransitionOf(n)
        evaluated == transition \in {"condition", "approval", "result"}
        valid == output[SourceOf(n)] \in Valid[n]
    IN  \/ transition = "omit" /\ NodeOmitted(n)
        \/ transition = "join" /\ NodeJoined(n)
        \/ evaluated /\ SourceTruncated(n) /\ NodeControlFailed(n)
        \/ transition = "condition" /\ ~SourceTruncated(n) /\ NodeConditionEvaluated(n)
        \/ transition = "approval" /\ ~SourceTruncated(n) /\ WorkflowApprovalRequested(n)
        \/ transition = "result" /\ ~SourceTruncated(n) /\ valid /\ NodeResultPublished(n)
        \/ transition = "result" /\ ~SourceTruncated(n) /\ ~valid /\ NodeControlFailed(n)

\* A control node is handled alone, before anything of the round is admitted.
AdmitControl ==
    /\ pc = "admit" /\ admitted = <<>>
    /\ Transitions # {}
    /\ LET n == NextNode
       IN  /\ TransitionOf(n) # "execute"
           /\ IF workflowApproval[n] = "pending"
              THEN Return /\ UNCHANGED ledgerVars
              ELSE /\ ControlTransition(n)
                   /\ CASE status'[n] = "failed" -> GoTo("control_failed")
                        [] runStatus' = "waiting_for_approval" -> Return
                        [] OTHER -> GoTo("loop")
    /\ UNCHANGED worldVars

\* run_failed right after node_control_failed
ControlFailed ==
    /\ pc = "control_failed"
    /\ Fail
    /\ UNCHANGED worldVars

NeedsGrant(n) == n \in ApprovalRequired /\ approval[n] # "granted"

\* A command without a valid grant: ask for it, wait for it, or expire it.
AdmitUnapproved ==
    /\ pc = "admit" /\ admitted = <<>>
    /\ Transitions # {}
    /\ LET n == NextNode
       IN  /\ TransitionOf(n) = "execute" /\ NeedsGrant(n)
           /\ \/ approval[n] \in {"none", "expired"} /\ CommandApprovalRequested(n) /\ Return
              \/ approval[n] = "pending" /\ Return /\ UNCHANGED ledgerVars
              \/ approval[n] = "lapsed" /\ CommandApprovalExpired(n) /\ GoTo("loop")
    /\ UNCHANGED worldVars

\* The admission loop takes its next attempt.
Admissible ==
    /\ Len(admitted) < MaxNodes
    /\ Len(admitted) > 0 => ~BudgetExhausted
    /\ Transitions # {}
    /\ TransitionOf(NextNode) = "execute" /\ ~NeedsGrant(NextNode)

AdmitExecution ==
    /\ pc = "admit" /\ Admissible
    /\ NodeStarted(NextNode)
    /\ admitted' = Append(admitted, NextNode)
    /\ UNCHANGED <<pc, exec, outcome, abortedBefore, aborted, poisoned>>
    /\ UNCHANGED worldVars

-----------------------------------------------------------------------------
(* The executors of a round and their tools.                               *)

AbortFailure == [retryable |-> FALSE, sideEffectStatus |-> "uncertain", accounting |-> "none"]

InRound(n) == \E k \in DOMAIN admitted : admitted[k] = n

\* Promise.all launches every executor, or none when the call was aborted.
Launch ==
    /\ pc = "admit" /\ admitted # <<>> /\ ~Admissible
    /\ pc' = "execute"
    /\ abortedBefore' = aborted
    /\ exec' = [n \in Nodes |-> CASE ~InRound(n) -> "idle"
                                  [] InRound(n) /\ aborted -> "done"
                                  [] OTHER -> "running"]
    /\ outcome' = [n \in Nodes |-> IF InRound(n) /\ aborted
                                   THEN Outcome("failed", AbortFailure, {}) ELSE NoOutcome]
    /\ UNCHANGED <<admitted, aborted, poisoned>>
    /\ UNCHANGED <<ledgerVars, worldVars>>

\* The effect recorder accepts calls until its executor returns.
RecorderOpen(n) == pc = "execute" /\ exec[n] = "running"

SetTool(n, t) == tool' = [tool EXCEPT ![n] = t]

\* reserve and prepare, up to the publication of node_effect_prepared
ToolBegins(n) ==
    /\ RecorderOpen(n) /\ n \in Writable
    /\ tool[n] = "none" /\ Len(effects[n]) < MaxEffects
    /\ SetTool(n, "preparing")
    /\ UNCHANGED <<ledgerVars, callVars, applied, failures, aborts>>

ToolPrepared(n) ==
    /\ tool[n] = "preparing" /\ ~poisoned
    /\ NodeEffectPrepared(n)
    /\ SetTool(n, "prepared")
    /\ UNCHANGED <<callVars, applied, failures, aborts>>

\* The commit itself: it needs neither the journal nor the executor any more.
ToolApplies(n) ==
    /\ tool[n] = "prepared"
    /\ applied' = [applied EXCEPT ![n] = @ \cup {<<attempt[n], Len(effects[n])>>}]
    /\ SetTool(n, "applied")
    /\ UNCHANGED <<ledgerVars, callVars, failures, aborts>>

\* settle: refused once the recorder is closed, and the effect stays open.
ToolSettles(n) ==
    /\ tool[n] \in {"prepared", "applied"}
    /\ IF RecorderOpen(n)
       THEN \E t \in IF tool[n] = "applied" THEN {"settle_committed", "settle_unknown"}
                     ELSE {"settle_not_applied"} : SetTool(n, t)
       ELSE SetTool(n, "none")
    /\ UNCHANGED <<ledgerVars, callVars, applied, failures, aborts>>

ToolSettled(n) ==
    /\ tool[n] \in Settling /\ ~poisoned
    /\ NodeEffectSettled(n, Len(effects[n]), Settlement(tool[n]))
    /\ SetTool(n, "none")
    /\ UNCHANGED <<callVars, applied, failures, aborts>>

\* A publication queued behind one that failed is never attempted.
ToolRejected(n) ==
    /\ tool[n] \in Publishing /\ poisoned
    /\ SetTool(n, "none")
    /\ UNCHANGED <<ledgerVars, callVars, applied, failures, aborts>>

ToolPublishes(n) == ToolPrepared(n) \/ ToolSettled(n) \/ ToolRejected(n)

\* sideEffectStatus of the receipts the recorder holds
StatusOf(receipts) ==
    CASE \E r \in receipts : r.outcome = "uncertain" -> "uncertain"
      [] \E r \in receipts : r.outcome = "committed"
         /\ \A s \in receipts : s.outcome # "uncertain" -> "committed"
      [] OTHER -> "none"

\* An agent's failure reports its receipts, or "uncertain" when the cleanup did
\* not finish in time; only a provider failure without effects is retryable, and
\* an attempt that prepared an effect always has evidence.
FailuresOf(n) ==
    {f \in Failures :
        /\ NodeType[n] = "agent" => f.sideEffectStatus \in {StatusOf(ReceiptsOf(n)), "uncertain"}
        /\ f.retryable => NodeType[n] = "agent" /\ f.sideEffectStatus = "none"
        /\ effects[n] # <<>> \/ tool[n] # "none" => f.accounting # "none"}

Returns(n, o) ==
    /\ RecorderOpen(n)
    /\ exec' = [exec EXCEPT ![n] = "done"]
    /\ outcome' = [outcome EXCEPT ![n] = o]
    /\ UNCHANGED <<pc, admitted, abortedBefore, aborted, poisoned>>
    /\ UNCHANGED <<ledgerVars, worldVars>>

ExecutorSucceeds(n) ==
    /\ tool[n] = "none" /\ ~Some(n, "unknown")
    /\ \E a \in Accountings \ {"none"} :
          Returns(n, Outcome("succeeded", [AbortFailure EXCEPT !.accounting = a], ReceiptsOf(n)))

ExecutorFails(n) ==
    \E f \in FailuresOf(n) : Returns(n, Outcome("failed", f, ReceiptsOf(n)))

\* executeNode turns a thrown error into executor_error, without evidence.
ExecutorThrows(n) == Returns(n, Outcome("failed", AbortFailure, {}))

ExecutorReturns(n) == ExecutorSucceeds(n) \/ ExecutorFails(n) \/ ExecutorThrows(n)

\* Promise.all and publicationTail: every executor and queued publication ended.
Collect ==
    /\ pc = "execute"
    /\ \A n \in Nodes : exec[n] # "running" /\ tool[n] \notin Publishing
    /\ GoTo("settle")
    /\ UNCHANGED <<ledgerVars, worldVars>>

-----------------------------------------------------------------------------
(* Settling the round, in admission order.                                 *)

\* Mutant of JournalStatus: an aborted attempt is taken to have had an effect.
JournalStatusCommitted(n) == IF Some(n, "unknown") THEN "uncertain" ELSE "committed"

JournalStatus(n) ==
    CASE Some(n, "unknown") -> "uncertain"
      [] ~Some(n, "unknown") /\ Some(n, "committed") -> "committed"
      [] OTHER -> "none"

\* A success that the abort overtook is recorded as a failure; a failure with an
\* unknown effect is not retryable; an aborted attempt reports its journal.
Authoritative(n) ==
    LET o == outcome[n]
        abortAfter == aborted /\ o.result = "succeeded"
        settled == [o EXCEPT !.result = IF abortAfter THEN "failed" ELSE @,
                             !.failure.retryable =
                                @ /\ ~(n \in Writable /\ Some(n, "unknown"))]
    IN  IF n \in Writable /\ (abortedBefore \/ abortAfter) /\ AllSettled(n)
        THEN [settled EXCEPT !.failure.sideEffectStatus = JournalStatus(n)]
        ELSE settled

SettleNext ==
    /\ pc = "settle" /\ admitted # <<>> /\ ~poisoned
    /\ LET n == Head(admitted)
           o == Authoritative(n)
       IN  \E u \in 0 .. MaxUsage :
              \/ /\ o.result = "succeeded"
                 /\ \E v \in Values \cup {Truncated} : NodeSucceeded(n, v, o.receipts, u)
              \/ o.result = "failed" /\ NodeFailed(n, o.failure, o.receipts, u)
    /\ admitted' = Tail(admitted)
    /\ UNCHANGED <<pc, exec, outcome, abortedBefore, aborted, poisoned>>
    /\ UNCHANGED worldVars

\* The publication is poisoned, or the ledger refuses an outcome that does not
\* account for the journal: the call throws and leaves the attempt open.
SettleRefused ==
    /\ pc = "settle" /\ admitted # <<>>
    /\ \/ poisoned
       \/ LET n == Head(admitted)
              o == Authoritative(n)
          IN  \/ o.result = "failed" /\ ~NodeFailedOk(n, o.failure, o.receipts)
              \/ /\ o.result = "succeeded"
                 /\ \A v \in Values : ~NodeSucceededOk(n, v, o.receipts)
    /\ Return
    /\ UNCHANGED <<ledgerVars, worldVars>>

Settled ==
    /\ pc = "settle" /\ admitted = <<>>
    /\ GoTo("decide")
    /\ UNCHANGED <<ledgerVars, worldVars>>

Decide ==
    /\ pc = "decide"
    /\ LET exhausted == SettlementExhausted \/ PendingStartExhaustion
       IN  \/ exhausted /\ Exhaust
           \/ ~exhausted /\ aborted /\ Cancel
           \/ /\ ~exhausted /\ ~aborted /\ ~AdmissionOpen
              /\ LET n == First(With("failed"))
                 IN  \/ Retryable(n) /\ Retry(n)
                     \/ ~Retryable(n) /\ Fail
           \/ ~exhausted /\ ~aborted /\ AdmissionOpen /\ GoTo("loop") /\ UNCHANGED ledgerVars
    /\ UNCHANGED worldVars

-----------------------------------------------------------------------------
(* The operator and the environment.                                       *)

\* decideApproval claims the run, so no call drives it meanwhile.
OperatorApproves ==
    /\ pc = "down"
    /\ \E n \in Nodes : CommandApprovalGranted(n) \/ WorkflowApprovalApproved(n)
    /\ UNCHANGED <<callVars, worldVars>>

OperatorDenies ==
    /\ pc = "down"
    /\ \E n \in Nodes : CommandApprovalDenied(n) \/ WorkflowApprovalDenied(n)
    /\ GoTo("denied")
    /\ UNCHANGED worldVars

DenialFails ==
    /\ pc = "denied"
    /\ Fail
    /\ UNCHANGED worldVars

TimePasses ==
    /\ \E n \in Nodes : GrantLapses(n)
    /\ UNCHANGED <<callVars, worldVars>>

Abort ==
    /\ pc \notin {"down", "denied"} /\ ~aborted
    /\ aborts < MaxAborts /\ aborts' = aborts + 1
    /\ aborted' = TRUE
    /\ UNCHANGED <<pc, admitted, exec, outcome, abortedBefore, poisoned>>
    /\ UNCHANGED <<ledgerVars, tool, applied, failures>>

Fails == failures < MaxFailures /\ failures' = failures + 1 /\ UNCHANGED aborts

\* The process dies, and its tools with it.
Crash ==
    /\ pc # "down" /\ Fails
    /\ Return
    /\ tool' = [n \in Nodes |-> "none"]
    /\ UNCHANGED <<ledgerVars, applied>>

\* An append of the scheduler throws, before or after its line is durable; the
\* tools of the process live on.
StoreFails ==
    /\ pc \notin {"down", "execute"} /\ Fails
    /\ Return
    /\ UNCHANGED <<ledgerVars, tool, applied>>

\* An append of a tool throws, before or after its line is durable.
ToolPublicationFails(n) ==
    /\ tool[n] \in Publishing /\ ~poisoned /\ Fails
    /\ \/ UNCHANGED ledgerVars
       \/ tool[n] = "preparing" /\ NodeEffectPrepared(n)
       \/ tool[n] \in Settling /\ NodeEffectSettled(n, Len(effects[n]), Settlement(tool[n]))
    /\ poisoned' = TRUE
    /\ SetTool(n, "none")
    /\ UNCHANGED <<pc, admitted, exec, outcome, abortedBefore, aborted, applied>>

-----------------------------------------------------------------------------
RecoveryStep == Reconcile \/ Reconciled \/ Dispose \/ RecoveryRefused \/ RunResumed

SchedulerStep ==
    \/ RecoveryStep \/ Begin \/ Loop
    \/ AdmitControl \/ ControlFailed \/ AdmitUnapproved \/ AdmitExecution \/ Launch
    \/ Collect \/ SettleNext \/ SettleRefused \/ Settled \/ Decide \/ DenialFails

WorkflowNext ==
    \/ StartRun \/ Resume \/ SchedulerStep
    \/ OperatorApproves \/ OperatorDenies \/ TimePasses \/ Abort \/ Crash \/ StoreFails
    \/ \E n \in Nodes :
          \/ ToolBegins(n) \/ ToolPublishes(n) \/ ToolApplies(n) \/ ToolSettles(n)
          \/ ToolPublicationFails(n) \/ ExecutorReturns(n)

\* A call keeps taking steps; executors return because every node has a timeout,
\* and a tool that was cut off still ends; somebody resumes a run nobody drives.
Fairness ==
    /\ WF_workflowVars(SchedulerStep)
    /\ WF_workflowVars(StartRun)
    /\ WF_workflowVars(Resume)
    /\ \A n \in Nodes :
          /\ WF_workflowVars(ExecutorReturns(n))
          /\ WF_workflowVars(ToolPublishes(n))
          /\ WF_workflowVars(ToolSettles(n))

WorkflowSafety == WorkflowInit /\ [][WorkflowNext]_workflowVars
WorkflowSpec == WorkflowSafety /\ Fairness

-----------------------------------------------------------------------------
(* Properties.                                                             *)

\* At most one attempt of a node ever changes a file: whatever crashes, aborts,
\* timeouts and store failures come between an effect and its record, neither
\* retry nor recovery runs the node again after one of its effects was applied.
AppliedOnce ==
    \A n \in Nodes : Cardinality({p[1] : p \in applied[n]}) <= 1

\* A concluded run tells the truth about files: no tool can still change one,
\* each change is in the journal as committed or unknown, and a node that failed
\* after a change does not report that it had no side effect.
ConclusionAccountsForFiles ==
    runStatus \in Terminal =>
        \A n \in Nodes :
            /\ tool[n] = "none"
            /\ \A p \in applied[n] :
                  /\ p[1] = attempt[n] /\ p[2] \in DOMAIN effects[n]
                  /\ effects[n][p[2]] \in {"committed", "unknown"}
            /\ status[n] = "failed" /\ applied[n] # {} => error[n].sideEffectStatus # "none"

\* The guard of the event a call appends next, for what it does about a failure,
VerdictAccepted ==
    LET n == First(With("failed"))
    IN  IF Retryable(n) THEN CanRetry(n) ELSE RunFailedOk(n)

\* ... at the head of its loop,
LoopAccepted ==
    LET exhausted == IF AllTerminal THEN SettlementExhausted ELSE BudgetExhausted
    IN  /\ exhausted => RunBudgetExhaustedOk
        /\ ~exhausted /\ aborted => RunCancelledOk
        /\ ~exhausted /\ ~aborted /\ AllTerminal => RunSucceededOk

\* ... for a control node,
ControlAccepted(n) ==
    CASE TransitionOf(n) = "omit" -> NodeOmittedOk(n)
      [] TransitionOf(n) = "join" -> NodeJoinedOk(n)
      [] TransitionOf(n) = "condition" ->
            IF SourceTruncated(n) THEN NodeControlFailedOk(n) ELSE ConditionEvaluatedOk(n)
      [] TransitionOf(n) = "approval" ->
            IF SourceTruncated(n) THEN NodeControlFailedOk(n) ELSE WorkflowApprovalRequestedOk(n)
      [] TransitionOf(n) = "result" ->
            IF SourceTruncated(n) \/ output[SourceOf(n)] \notin Valid[n]
            THEN NodeControlFailedOk(n) ELSE ResultPublishedOk(n)

\* ... for a command without a grant, and in an admission as a whole.
ApprovalAccepted(n) ==
    CASE approval[n] \in {"none", "expired"} -> CommandApprovalRequestedOk(n)
      [] approval[n] = "lapsed" -> CommandApprovalExpiredOk(n)
      [] OTHER -> approval[n] = "pending"

AdmissionAccepted ==
    /\ Admissible => NodeStartedOk(NextNode)
    /\ admitted = <<>> =>
          /\ Transitions # {}
          /\ IF TransitionOf(NextNode) = "execute"
             THEN NeedsGrant(NextNode) => ApprovalAccepted(NextNode)
             ELSE workflowApproval[NextNode] # "pending" => ControlAccepted(NextNode)

\* Whatever a call decides next, the ledger accepts: between two waits it never
\* throws because the reducer refuses its event, and a run that is not finished
\* always has a next transition ("no ready node" is unreachable).  The exceptions
\* are the ones the code reports itself: an attempt that cannot be disposed of or
\* whose outcome contradicts its journal (RecoveryRefused, SettleRefused).
PublicationsAccepted ==
    /\ pc = "recover" /\ OpenEffects # {} =>
          EffectOpen(First(OpenEffects), First(Unreconciled(First(OpenEffects))))
    /\ pc = "dispose" /\ Running = {} => RunResumedOk
    /\ pc = "begin" /\ ~AdmissionOpen =>
          IF SettlementExhausted THEN RunBudgetExhaustedOk ELSE VerdictAccepted
    /\ pc = "loop" => LoopAccepted
    /\ pc = "admit" => AdmissionAccepted
    /\ pc = "settle" /\ admitted # <<>> =>
          /\ NextOutcome(Head(admitted))
          /\ Authoritative(Head(admitted)).result # "none"
    /\ pc = "decide" =>
          IF SettlementExhausted \/ PendingStartExhaustion THEN RunBudgetExhaustedOk
          ELSE IF aborted THEN RunCancelledOk ELSE AdmissionOpen \/ VerdictAccepted
    /\ pc \in {"control_failed", "denied"} => RunFailedOk(First(With("failed")))

\* A join whose branches have ended finds the branch its condition chose done and
\* every other one omitted.
JoinsReconcile ==
    \A n \in Nodes :
        NodeType[n] = "join" /\ DependenciesTerminal(n) /\ Decided(JoinCondition[n]) =>
            \A c \in DOMAIN JoinBranch[n] :
                status[JoinBranch[n][c]] =
                    IF c = decision[JoinCondition[n]] THEN "succeeded" ELSE "omitted"

\* The branch a node's own guard puts it in, and those its dependencies are in.
OwnBranch(n) == IF n \in Guarded THEN {<<GuardCondition[n], GuardCase[n]>>} ELSE {}
Inherited(scope, n) == UNION {scope[d] : d \in DependsOn[n]}

\* scope names the branches each node is in: those of its dependencies and its own
\* guard, and for a join those of its condition.  Branches nest when each branch a
\* join closes is in the branches of its condition and in no other.
BranchesNest(scope) ==
    \A n \in Nodes :
        IF NodeType[n] = "join"
        THEN /\ scope[n] = scope[JoinCondition[n]]
             /\ \A c \in DOMAIN JoinBranch[n] :
                   scope[JoinBranch[n][c]] = scope[n] \cup {<<JoinCondition[n], c>>}
        ELSE scope[n] = Inherited(scope, n) \cup OwnBranch(n)

\* The scheduler starts, denies or omits nothing out of order: whatever was
\* attempted had every dependency done and its guard chosen, and a join is omitted
\* only with its condition (the ledger alone would let any omitted branch take the
\* join along).
AttemptedInOrder ==
    \A n \in Nodes :
        IF NodeType[n] = "join"
        THEN status[n] = "omitted" => status[JoinCondition[n]] = "omitted"
        ELSE attempt[n] > 0 => DependenciesSucceeded(n) /\ GuardSelected(n)

\* Without a crash or a store failure, a call leaves an attempt open for one
\* reason only: the ledger refused to settle an agent whose evidence does not
\* cover its effect journal (siblings not settled yet stay open with it, and
\* longer than it when a recovery has disposed of it).
OpenOnlyByRefusal ==
    pc = "down" /\ failures = 0 /\ Running # {} =>
        \E n \in Writable : \/ n \in Running /\ effects[n] # <<>>
                           \/ interruptedAttempts[n] # {}

\* Nobody but the operator can help: an open attempt cannot be disposed of.
Stuck == \E n \in Running : OpenEffects = {} /\ ~NodeAttemptInterruptedOk(n)

\* Every call of runWorkflow or resumeWorkflow ends, and a run that is resumed
\* whenever nobody drives it keeps coming to rest: it concludes, or waits for a
\* decision, or has an attempt only an operator can judge.
ComesToRest ==
    []<>(pc = "down" /\ (runStatus \in Terminal \cup {"waiting_for_approval"} \/ Stuck))
=============================================================================
