-------------------------- MODULE RunLedger_proofs --------------------------
(***************************************************************************)
(* Proofs about the run ledger, for every workflow, limit and policy the   *)
(* compiler accepts.                                                       *)
(***************************************************************************)
EXTENDS RunLedger, SequenceTheorems, FiniteSetTheorems, TLAPS

\* Settling or reconciling an effect keeps the journal a sequence of effects.
LEMMA JournalType ==
    ASSUME NEW s \in Seq(EffectStatus), NEW i \in DOMAIN s, NEW e \in EffectStatus
    PROVE  [s EXCEPT ![i] = e] \in Seq(EffectStatus)
BY ExceptSeq

\* The initial state is well typed.
LEMMA InitType == Init => TypeOK
BY GraphAssumption DEF Init, TypeOK, RunStatuses, NodeStatus, NoError, Failures, Accountings,
   ApprovalStatus

\* run_started and the terminal events keep the state well typed.
LEMMA RunEventType ==
    ASSUME TypeOK, RunStarted \/ TerminalEvent
    PROVE  TypeOK'
<1> USE DEF TypeOK, RunStatuses
<1>1. CASE RunStarted
  BY <1>1 DEF RunStarted
<1>2. CASE TerminalEvent
  BY <1>2 DEF TerminalEvent, RunSucceeded, RunFailed, RunCancelled,
     RunBudgetExhausted, Conclude
<1> QED BY <1>1, <1>2

\* So do the approval events.
LEMMA ApprovalEventType ==
    ASSUME TypeOK, NEW n \in Nodes, ApprovalEvent(n)
    PROVE  TypeOK'
<1> USE DEF TypeOK, RunStatuses, ApprovalStatus, NodeStatus, Failures, Accountings, NoError
<1>1. CASE CommandApprovalRequested(n)
  BY <1>1 DEF CommandApprovalRequested
<1>2. CASE CommandApprovalGranted(n)
  BY <1>2 DEF CommandApprovalGranted
<1>3. CASE CommandApprovalDenied(n)
  BY <1>3 DEF CommandApprovalDenied
<1>4. CASE GrantLapses(n)
  BY <1>4 DEF GrantLapses
<1>5. CASE CommandApprovalExpired(n)
  BY <1>5 DEF CommandApprovalExpired
<1>6. CASE WorkflowApprovalRequested(n)
  BY <1>6 DEF WorkflowApprovalRequested
<1>7. CASE WorkflowApprovalApproved(n)
  BY <1>7 DEF WorkflowApprovalApproved
<1>8. CASE WorkflowApprovalDenied(n)
  BY <1>8 DEF WorkflowApprovalDenied
<1> QED BY <1>1, <1>2, <1>3, <1>4, <1>5, <1>6, <1>7, <1>8 DEF ApprovalEvent

\* So do the events of the effect journal.
LEMMA EffectEventType ==
    ASSUME TypeOK, NEW n \in Nodes, EffectEvent(n)
    PROVE  TypeOK'
<1> USE DEF TypeOK
<1>1. CASE NodeEffectPrepared(n)
  BY <1>1 DEF NodeEffectPrepared, EffectStatus
<1>2. ASSUME NEW i \in DOMAIN effects[n], NEW s \in Settlements, NodeEffectSettled(n, i, s)
      PROVE  TypeOK'
  <2>1. [effects[n] EXCEPT ![i] = s] \in Seq(EffectStatus)
    BY JournalType DEF Settlements, EffectStatus
  <2> QED BY <1>2, <2>1 DEF NodeEffectSettled
<1>3. ASSUME NEW i \in DOMAIN effects[n], NEW r \in Reconciliations,
             NodeEffectReconciled(n, i, r)
      PROVE  TypeOK'
  <2>1. [effects[n] EXCEPT ![i] = r] \in Seq(EffectStatus)
    BY JournalType DEF Reconciliations, EffectStatus
  <2> QED BY <1>3, <2>1 DEF NodeEffectReconciled
<1> QED BY <1>1, <1>2, <1>3 DEF EffectEvent

\* So do the events of an attempt.
LEMMA AttemptEventType ==
    ASSUME TypeOK, NEW n \in Nodes, AttemptEvent(n)
    PROVE  TypeOK'
<1> USE DEF TypeOK
<1>1. CASE NodeStarted(n)
  BY <1>1 DEF NodeStarted, NodeStatus, ApprovalStatus
<1>2. ASSUME NEW u \in 0 .. MaxUsage, NEW v \in Values \cup {Truncated},
             NodeSucceeded(n, v, ReceiptsOf(n), u)
      PROVE  TypeOK'
  BY <1>2, PolicyAssumption DEF NodeSucceeded, Consume, NodeStatus
<1>3. ASSUME NEW u \in 0 .. MaxUsage, NEW f \in Failures, NodeFailed(n, f, ReceiptsOf(n), u)
      PROVE  TypeOK'
  BY <1>3, PolicyAssumption DEF NodeFailed, Consume, NodeStatus
<1>4. CASE NodeAttemptInterrupted(n)
  BY <1>4 DEF NodeAttemptInterrupted, FreshAttempt, NodeStatus, ApprovalStatus, NoError, Failures, Accountings
<1>5. CASE NodeRetryScheduled(n)
  BY <1>5 DEF NodeRetryScheduled, FreshAttempt, NodeStatus, ApprovalStatus, NoError, Failures, Accountings
<1> QED BY <1>1, <1>2, <1>3, <1>4, <1>5 DEF AttemptEvent

\* So do the control events.
LEMMA ControlEventType ==
    ASSUME TypeOK, NEW n \in Nodes, ControlEvent(n)
    PROVE  TypeOK'
<1> USE DEF TypeOK, NodeStatus
<1>1. CASE NodeConditionEvaluated(n)
  <2>1. Select[n][output[SourceOf(n)]] \in Cases
    BY <1>1, GraphAssumption DEF NodeConditionEvaluated, ConditionEvaluatedOk
  <2> QED BY <1>1, <2>1 DEF NodeConditionEvaluated, ControlSucceeds
<1>2. CASE NodeResultPublished(n)
  <2>1. output[SourceOf(n)] \in Values
    BY <1>2, GraphAssumption DEF NodeResultPublished, ResultPublishedOk
  <2> QED BY <1>2, <2>1 DEF NodeResultPublished, ControlSucceeds
<1>3. CASE NodeJoined(n)
  BY <1>3 DEF NodeJoined, ControlSucceeds
<1>4. CASE NodeControlFailed(n)
  BY <1>4 DEF NodeControlFailed, NoError, Failures, Accountings
<1>5. CASE NodeOmitted(n)
  BY <1>5 DEF NodeOmitted
<1> QED BY <1>1, <1>2, <1>3, <1>4, <1>5 DEF ControlEvent

\* Every event the reducer accepts keeps the state well typed.
LEMMA NextType == TypeOK /\ [Next]_ledgerVars => TypeOK'
<1> SUFFICES ASSUME TypeOK, [Next]_ledgerVars PROVE TypeOK'
  OBVIOUS
<1>1. CASE UNCHANGED ledgerVars
  BY <1>1 DEF ledgerVars, TypeOK
<1>2. CASE RunStarted \/ TerminalEvent
  BY <1>2, RunEventType
<1>3. ASSUME NEW n \in Nodes,
             ApprovalEvent(n) \/ EffectEvent(n) \/ AttemptEvent(n) \/ ControlEvent(n)
      PROVE  TypeOK'
  BY <1>3, ApprovalEventType, EffectEventType, AttemptEventType, ControlEventType
<1> QED BY <1>1, <1>2, <1>3 DEF Next

\* Whatever events arrive in whatever order, the RunState the reducer builds is
\* well typed.
THEOREM LedgerType == Spec => []TypeOK
<1>1. Init => TypeOK
  BY InitType
<1>2. TypeOK /\ [Next]_ledgerVars => TypeOK'
  BY NextType
<1> QED BY <1>1, <1>2, PTL DEF Spec

-----------------------------------------------------------------------------
(* Attempts and approvals.  AttemptHistory and WaitingForOne hold together *)
(* only with the shape of approvals: which node can have one, that an      *)
(* approval node that waits has had no attempt, and that none is asked for *)
(* before the run exists.                                                  *)

ApprovalShape ==
    \A n \in Nodes :
        /\ approval[n] # "none" => n \in ApprovalRequired
        /\ workflowApproval[n] # "none" => NodeType[n] = "approval"
        /\ workflowApproval[n] = "pending" => status[n] = "pending" /\ attempt[n] = 0

NotBegun ==
    runStatus = "absent" =>
        \A n \in Nodes : approval[n] = "none" /\ workflowApproval[n] = "none"

LedgerInv ==
    /\ TypeOK
    /\ ApprovalShape
    /\ NotBegun
    /\ AttemptHistory
    /\ WaitingForOne
    /\ OneOpenApproval

\* What the archive says of one node, in one formula.
History(n) ==
    /\ Archived(n) \cup Latest(n) = 1 .. attempt[n]
    /\ Archived(n) \cap Latest(n) = {}
    /\ interruptedAttempts[n] \cap failedAttempts[n] = {}

\* An event about n leaves the history of the other nodes alone.
LEMMA HistoryStep ==
    ASSUME AttemptHistory, NEW n \in Nodes, History(n)',
           \A m \in Nodes \ {n} :
              /\ status'[m] = status[m] /\ attempt'[m] = attempt[m]
              /\ interruptedAttempts'[m] = interruptedAttempts[m]
              /\ failedAttempts'[m] = failedAttempts[m]
    PROVE  AttemptHistory'
BY DEF AttemptHistory, History, Archived, Latest

\* The next attempt number joins the ones before it.
LEMMA NextAttempt ==
    ASSUME NEW a \in Nat, NEW S, S = 1 .. a
    PROVE  S \cup {a + 1} = 1 .. (a + 1) /\ S \cap {a + 1} = {}
OBVIOUS

\* A pending node that begins an attempt, or is denied one.
LEMMA HistoryBegins ==
    ASSUME TypeOK, AttemptHistory, NEW n \in Nodes, status[n] = "pending",
           status'[n] \in {"running", "succeeded", "failed"},
           attempt'[n] = attempt[n] + 1,
           interruptedAttempts' = interruptedAttempts, failedAttempts' = failedAttempts
    PROVE  History(n)'
<1>1. Archived(n) = 1 .. attempt[n] /\ Archived(n)' = Archived(n)
  BY DEF AttemptHistory, Archived, Latest
<1>2. Latest(n)' = {attempt[n] + 1}
  BY DEF Latest
<1>3. attempt[n] \in Nat
  BY DEF TypeOK
<1> QED BY <1>1, <1>2, <1>3, NextAttempt DEF History, AttemptHistory

\* An attempt that is settled stays the latest one.
LEMMA HistorySettles ==
    ASSUME TypeOK, AttemptHistory, NEW n \in Nodes, status[n] = "running",
           status'[n] \in {"succeeded", "failed"}, attempt' = attempt,
           interruptedAttempts' = interruptedAttempts, failedAttempts' = failedAttempts
    PROVE  History(n)'
BY DEF History, AttemptHistory, Archived, Latest

\* An attempt that is handed back is archived once.
LEMMA HistoryArchives ==
    ASSUME TypeOK, AttemptHistory, NEW n \in Nodes, status[n] \in {"running", "failed"},
           status'[n] = "pending", attempt' = attempt,
           \/ /\ interruptedAttempts'[n] = interruptedAttempts[n] \cup {attempt[n]}
              /\ failedAttempts'[n] = failedAttempts[n]
           \/ /\ failedAttempts'[n] = failedAttempts[n] \cup {attempt[n]}
              /\ interruptedAttempts'[n] = interruptedAttempts[n]
    PROVE  History(n)'
BY DEF History, AttemptHistory, Archived, Latest

\* A running run has no pending request.
LEMMA NoneRequested ==
    ASSUME WaitingForOne, runStatus = "running"
    PROVE  Requested = {}
BY DEF WaitingForOne, Active

\* A waiting run has one, and nothing runs or has failed.
LEMMA OneRequested ==
    ASSUME WaitingForOne, runStatus = "waiting_for_approval", NEW n \in Requested
    PROVE  Requested = {n} /\ With("running") = {} /\ With("failed") = {}
BY DEF WaitingForOne

\* The approval events keep the invariant.
LEMMA ApprovalEventInv ==
    ASSUME LedgerInv, NEW n \in Nodes, ApprovalEvent(n)
    PROVE  LedgerInv'
<1> USE PolicyAssumption DEF LedgerInv
<1>1. TypeOK' /\ NotBegun'
  <2>1. TypeOK'
    BY ApprovalEventType
  <2>2. runStatus' # "absent"
    BY DEF ApprovalEvent, CommandApprovalRequested, CommandApprovalGranted,
       CommandApprovalDenied, GrantLapses, CommandApprovalExpired,
       CommandApprovalExpiredOk, WorkflowApprovalRequested, WorkflowApprovalApproved,
       WorkflowApprovalDenied, Active
  <2> QED BY <2>1, <2>2 DEF NotBegun
<1>2. CASE CommandApprovalRequested(n)
  <2>1. AttemptHistory'
    BY <1>2 DEF CommandApprovalRequested, AttemptHistory, Archived, Latest
  <2>2. ApprovalShape'
    BY <1>2 DEF CommandApprovalRequested, CommandApprovalRequestedOk, NoOpenApprovalBut, ApprovalShape, WaitingForOne, Requested, TypeOK, Active
  <2>3. WaitingForOne'
    <3>1. Requested = {}
      BY <1>2, NoneRequested DEF CommandApprovalRequested, CommandApprovalRequestedOk
    <3>2. Requested' = {n}
      BY <1>2, <3>1 DEF CommandApprovalRequested, CommandApprovalRequestedOk, Requested, TypeOK
    <3>3. With("running")' = {} /\ With("failed")' = {} /\ status'[n] = "pending"
      BY <1>2 DEF CommandApprovalRequested, CommandApprovalRequestedOk, With, AdmissionOpen
    <3>4. runStatus' = "waiting_for_approval"
      BY <1>2 DEF CommandApprovalRequested, CommandApprovalRequestedOk
    <3> QED BY <3>2, <3>3, <3>4 DEF WaitingForOne
  <2>4. OneOpenApproval'
    BY <1>2 DEF CommandApprovalRequested, CommandApprovalRequestedOk, NoOpenApprovalBut, ApprovalShape, WaitingForOne, OneOpenApproval, Requested, OpenApproval, Active, TypeOK
  <2> QED BY <1>1, <2>1, <2>2, <2>3, <2>4
<1>3. CASE CommandApprovalGranted(n)
  <2>1. AttemptHistory'
    BY <1>3 DEF CommandApprovalGranted, AttemptHistory, Archived, Latest
  <2>2. ApprovalShape'
    BY <1>3 DEF CommandApprovalGranted, CommandApprovalPending, ApprovalShape, WaitingForOne, Requested, TypeOK, Active
  <2>3. WaitingForOne'
    <3>1. Requested = {n}
      BY <1>3, OneRequested DEF CommandApprovalGranted, CommandApprovalPending, Requested
    <3>2. Requested' = {}
      <4>1. \A m \in Nodes \ {n} : approval[m] # "pending" /\ workflowApproval[m] # "pending"
        BY <3>1 DEF Requested
      <4>2. \A m \in Nodes \ {n} :
               approval'[m] = approval[m] /\ workflowApproval'[m] = workflowApproval[m]
        BY <1>3 DEF CommandApprovalGranted, TypeOK
      <4>3. approval'[n] # "pending" /\ workflowApproval'[n] # "pending"
        BY <1>3 DEF CommandApprovalGranted, CommandApprovalPending, TypeOK, ApprovalShape
      <4> QED BY <4>1, <4>2, <4>3 DEF Requested
    <3>3. runStatus' # "waiting_for_approval"
      BY <1>3 DEF CommandApprovalGranted, CommandApprovalPending
    <3> QED BY <3>2, <3>3 DEF WaitingForOne
  <2>4. OneOpenApproval'
    BY <1>3 DEF CommandApprovalGranted, CommandApprovalPending, ApprovalShape, WaitingForOne, OneOpenApproval, Requested, OpenApproval, Active, TypeOK
  <2> QED BY <1>1, <2>1, <2>2, <2>3, <2>4
<1>4. CASE CommandApprovalDenied(n)
  <2>1. AttemptHistory'
    <3>1. History(n)'
      BY <1>4, HistoryBegins DEF CommandApprovalDenied, CommandApprovalPending, TypeOK, ApprovalShape
    <3> QED BY <1>4, <3>1, HistoryStep DEF CommandApprovalDenied, TypeOK
  <2>2. ApprovalShape'
    BY <1>4 DEF CommandApprovalDenied, CommandApprovalPending, ApprovalShape, WaitingForOne, Requested, TypeOK, Active
  <2>3. WaitingForOne'
    <3>1. Requested = {n}
      BY <1>4, OneRequested DEF CommandApprovalDenied, CommandApprovalPending, Requested
    <3>2. Requested' = {}
      <4>1. \A m \in Nodes \ {n} : approval[m] # "pending" /\ workflowApproval[m] # "pending"
        BY <3>1 DEF Requested
      <4>2. \A m \in Nodes \ {n} :
               approval'[m] = approval[m] /\ workflowApproval'[m] = workflowApproval[m]
        BY <1>4 DEF CommandApprovalDenied, TypeOK
      <4>3. approval'[n] # "pending" /\ workflowApproval'[n] # "pending"
        BY <1>4 DEF CommandApprovalDenied, CommandApprovalPending, TypeOK, ApprovalShape
      <4> QED BY <4>1, <4>2, <4>3 DEF Requested
    <3>3. runStatus' # "waiting_for_approval"
      BY <1>4 DEF CommandApprovalDenied, CommandApprovalPending
    <3> QED BY <3>2, <3>3 DEF WaitingForOne
  <2>4. OneOpenApproval'
    BY <1>4 DEF CommandApprovalDenied, CommandApprovalPending, ApprovalShape, WaitingForOne, OneOpenApproval, Requested, OpenApproval, Active, TypeOK
  <2> QED BY <1>1, <2>1, <2>2, <2>3, <2>4
<1>5. CASE GrantLapses(n)
  <2>1. AttemptHistory'
    BY <1>5 DEF GrantLapses, AttemptHistory, Archived, Latest
  <2>2. ApprovalShape'
    BY <1>5 DEF GrantLapses, ApprovalShape, WaitingForOne, Requested, TypeOK, Active
  <2>3. WaitingForOne'
    <3>1. Requested' = Requested /\ With("running")' = With("running")
          /\ With("failed")' = With("failed")
      BY <1>5 DEF GrantLapses, Requested, With, TypeOK
    <3> QED BY <1>5, <3>1 DEF GrantLapses, WaitingForOne, Active
  <2>4. OneOpenApproval'
    BY <1>5 DEF GrantLapses, ApprovalShape, WaitingForOne, OneOpenApproval, Requested, OpenApproval, Active, TypeOK
  <2> QED BY <1>1, <2>1, <2>2, <2>3, <2>4
<1>6. CASE CommandApprovalExpired(n)
  <2>1. AttemptHistory'
    BY <1>6 DEF CommandApprovalExpired, AttemptHistory, Archived, Latest
  <2>2. ApprovalShape'
    BY <1>6 DEF CommandApprovalExpired, CommandApprovalExpiredOk, ApprovalShape, WaitingForOne, Requested, TypeOK, Active
  <2>3. WaitingForOne'
    BY <1>6 DEF CommandApprovalExpired, CommandApprovalExpiredOk, ApprovalShape, WaitingForOne, Requested, With, Active, AdmissionOpen, TypeOK
  <2>4. OneOpenApproval'
    BY <1>6 DEF CommandApprovalExpired, CommandApprovalExpiredOk, ApprovalShape, WaitingForOne, OneOpenApproval, Requested, OpenApproval, Active, TypeOK
  <2> QED BY <1>1, <2>1, <2>2, <2>3, <2>4
<1>7. CASE WorkflowApprovalRequested(n)
  <2>1. AttemptHistory'
    BY <1>7 DEF WorkflowApprovalRequested, AttemptHistory, Archived, Latest
  <2>2. ApprovalShape'
    BY <1>7 DEF WorkflowApprovalRequested, WorkflowApprovalRequestedOk, ControlStep, PendingControl, NoOpenApprovalBut, ApprovalShape, WaitingForOne, Requested, TypeOK, Active
  <2>3. WaitingForOne'
    <3>1. Requested = {}
      BY <1>7, NoneRequested DEF WorkflowApprovalRequested, WorkflowApprovalRequestedOk, ControlStep, PendingControl
    <3>2. Requested' = {n}
      BY <1>7, <3>1 DEF WorkflowApprovalRequested, WorkflowApprovalRequestedOk, ControlStep, PendingControl, Requested, TypeOK
    <3>3. With("running")' = {} /\ With("failed")' = {} /\ status'[n] = "pending"
      BY <1>7 DEF WorkflowApprovalRequested, WorkflowApprovalRequestedOk, ControlStep, PendingControl, With, AdmissionOpen
    <3>4. runStatus' = "waiting_for_approval"
      BY <1>7 DEF WorkflowApprovalRequested, WorkflowApprovalRequestedOk, ControlStep, PendingControl
    <3> QED BY <3>2, <3>3, <3>4 DEF WaitingForOne
  <2>4. OneOpenApproval'
    BY <1>7 DEF WorkflowApprovalRequested, WorkflowApprovalRequestedOk, ControlStep, PendingControl, NoOpenApprovalBut, ApprovalShape, WaitingForOne, OneOpenApproval, Requested, OpenApproval, Active, TypeOK
  <2> QED BY <1>1, <2>1, <2>2, <2>3, <2>4
<1>8. CASE WorkflowApprovalApproved(n)
  <2>1. AttemptHistory'
    <3>1. History(n)'
      BY <1>8, HistoryBegins DEF WorkflowApprovalApproved, WorkflowApprovalPending, TypeOK, ApprovalShape
    <3> QED BY <1>8, <3>1, HistoryStep DEF WorkflowApprovalApproved, TypeOK
  <2>2. ApprovalShape'
    BY <1>8 DEF WorkflowApprovalApproved, WorkflowApprovalPending, ApprovalShape, WaitingForOne, Requested, TypeOK, Active
  <2>3. WaitingForOne'
    <3>1. Requested = {n}
      BY <1>8, OneRequested DEF WorkflowApprovalApproved, WorkflowApprovalPending, Requested
    <3>2. Requested' = {}
      <4>1. \A m \in Nodes \ {n} : approval[m] # "pending" /\ workflowApproval[m] # "pending"
        BY <3>1 DEF Requested
      <4>2. \A m \in Nodes \ {n} :
               approval'[m] = approval[m] /\ workflowApproval'[m] = workflowApproval[m]
        BY <1>8 DEF WorkflowApprovalApproved, TypeOK
      <4>3. approval'[n] # "pending" /\ workflowApproval'[n] # "pending"
        BY <1>8 DEF WorkflowApprovalApproved, WorkflowApprovalPending, TypeOK, ApprovalShape
      <4> QED BY <4>1, <4>2, <4>3 DEF Requested
    <3>3. runStatus' # "waiting_for_approval"
      BY <1>8 DEF WorkflowApprovalApproved, WorkflowApprovalPending
    <3> QED BY <3>2, <3>3 DEF WaitingForOne
  <2>4. OneOpenApproval'
    BY <1>8 DEF WorkflowApprovalApproved, WorkflowApprovalPending, ApprovalShape, WaitingForOne, OneOpenApproval, Requested, OpenApproval, Active, TypeOK
  <2> QED BY <1>1, <2>1, <2>2, <2>3, <2>4
<1>9. CASE WorkflowApprovalDenied(n)
  <2>1. AttemptHistory'
    <3>1. History(n)'
      BY <1>9, HistoryBegins DEF WorkflowApprovalDenied, WorkflowApprovalPending, TypeOK, ApprovalShape
    <3> QED BY <1>9, <3>1, HistoryStep DEF WorkflowApprovalDenied, TypeOK
  <2>2. ApprovalShape'
    BY <1>9 DEF WorkflowApprovalDenied, WorkflowApprovalPending, ApprovalShape, WaitingForOne, Requested, TypeOK, Active
  <2>3. WaitingForOne'
    <3>1. Requested = {n}
      BY <1>9, OneRequested DEF WorkflowApprovalDenied, WorkflowApprovalPending, Requested
    <3>2. Requested' = {}
      <4>1. \A m \in Nodes \ {n} : approval[m] # "pending" /\ workflowApproval[m] # "pending"
        BY <3>1 DEF Requested
      <4>2. \A m \in Nodes \ {n} :
               approval'[m] = approval[m] /\ workflowApproval'[m] = workflowApproval[m]
        BY <1>9 DEF WorkflowApprovalDenied, TypeOK
      <4>3. approval'[n] # "pending" /\ workflowApproval'[n] # "pending"
        BY <1>9 DEF WorkflowApprovalDenied, WorkflowApprovalPending, TypeOK, ApprovalShape
      <4> QED BY <4>1, <4>2, <4>3 DEF Requested
    <3>3. runStatus' # "waiting_for_approval"
      BY <1>9 DEF WorkflowApprovalDenied, WorkflowApprovalPending
    <3> QED BY <3>2, <3>3 DEF WaitingForOne
  <2>4. OneOpenApproval'
    BY <1>9 DEF WorkflowApprovalDenied, WorkflowApprovalPending, ApprovalShape, WaitingForOne, OneOpenApproval, Requested, OpenApproval, Active, TypeOK
  <2> QED BY <1>1, <2>1, <2>2, <2>3, <2>4
<1> QED BY <1>2, <1>3, <1>4, <1>5, <1>6, <1>7, <1>8, <1>9 DEF ApprovalEvent

\* run_started finds no request; a terminal event ends the waiting.
LEMMA RunEventInv ==
    ASSUME LedgerInv, RunStarted \/ TerminalEvent
    PROVE  LedgerInv'
<1> USE DEF LedgerInv
<1>1. TypeOK'
  BY RunEventType
<1>2. UNCHANGED <<status, attempt, approval, workflowApproval, interruptedAttempts,
                  failedAttempts>>
  BY DEF RunStarted, TerminalEvent, RunSucceeded, RunFailed, RunCancelled,
     RunBudgetExhausted, Conclude
<1>3. AttemptHistory' /\ ApprovalShape' /\ OneOpenApproval'
  BY <1>2 DEF AttemptHistory, Archived, Latest, ApprovalShape, OneOpenApproval
<1>4. CASE RunStarted
  <2>1. Requested' = {}
    BY <1>2, <1>4 DEF RunStarted, NotBegun, Requested
  <2>2. runStatus' = "running"
    BY <1>4 DEF RunStarted
  <2> QED BY <1>1, <1>3, <2>1, <2>2 DEF WaitingForOne, NotBegun
<1>5. CASE TerminalEvent
  <2>1. runStatus' \in Terminal
    BY <1>5 DEF TerminalEvent, RunSucceeded, RunFailed, RunCancelled,
       RunBudgetExhausted, Conclude, Terminal
  <2> QED BY <1>1, <1>3, <2>1 DEF WaitingForOne, Active, NotBegun, Terminal
<1> QED BY <1>4, <1>5

\* An event of the effect journal changes nothing but the journal.
LEMMA EffectEventInv ==
    ASSUME LedgerInv, NEW n \in Nodes, EffectEvent(n)
    PROVE  LedgerInv'
<1> USE DEF LedgerInv
<1>1. TypeOK'
  BY EffectEventType
<1>2. UNCHANGED <<runStatus, status, attempt, approval, workflowApproval,
                  interruptedAttempts, failedAttempts>>
  BY DEF EffectEvent, NodeEffectPrepared, NodeEffectSettled, NodeEffectReconciled
<1>3. AttemptHistory' /\ ApprovalShape' /\ OneOpenApproval' /\ NotBegun'
  BY <1>2 DEF AttemptHistory, Archived, Latest, ApprovalShape, OneOpenApproval, NotBegun
<1>4. Requested' = Requested /\ Active' = Active
      /\ With("running")' = With("running") /\ With("failed")' = With("failed")
  BY <1>2 DEF Requested, Active, With
<1>5. WaitingForOne'
  BY <1>2, <1>4 DEF WaitingForOne
<1> QED BY <1>1, <1>3, <1>5

\* An event of a running run that asks for nothing keeps the approvals in order.
LEMMA QuietStep ==
    ASSUME LedgerInv, runStatus = "running", runStatus' = "running",
           \A m \in Nodes :
              /\ \/ approval'[m] \in {approval[m], "none"}
                 \/ approval'[m] = "consumed" /\ m \in ApprovalRequired
              /\ workflowApproval'[m] \in {workflowApproval[m], "none"}
    PROVE  ApprovalShape' /\ WaitingForOne' /\ OneOpenApproval' /\ NotBegun'
<1> USE DEF LedgerInv
<1>1. Requested = {}
  BY NoneRequested
<1>2. \A m \in Nodes : approval[m] # "pending" /\ workflowApproval[m] # "pending"
  BY <1>1 DEF Requested
<1>3. \A m \in Nodes : approval'[m] # "pending" /\ workflowApproval'[m] # "pending"
  BY <1>2
<1>4. ApprovalShape'
  BY <1>3 DEF ApprovalShape
<1>5. WaitingForOne'
  <2>1. Requested' = {}
    BY <1>3 DEF Requested
  <2> QED BY <2>1 DEF WaitingForOne
<1>6. OneOpenApproval'
  BY <1>3 DEF OneOpenApproval, OpenApproval
<1> QED BY <1>4, <1>5, <1>6 DEF NotBegun

\* Nothing runs and nothing has failed while a run waits.
LEMMA RunningRun ==
    ASSUME LedgerInv, Active, NEW n \in Nodes, status[n] \in {"running", "failed"}
    PROVE  runStatus = "running"
BY DEF LedgerInv, Active, WaitingForOne, With

\* The events of an attempt keep the invariant.
LEMMA AttemptEventInv ==
    ASSUME LedgerInv, NEW n \in Nodes, AttemptEvent(n)
    PROVE  LedgerInv'
<1> USE DEF LedgerInv
<1>1. TypeOK'
  BY AttemptEventType
<1>2. CASE NodeStarted(n)
  <2>1. History(n)'
    BY <1>2, HistoryBegins DEF NodeStarted, NodeStartedOk, TypeOK
  <2>2. AttemptHistory'
    BY <1>2, <2>1, HistoryStep DEF NodeStarted, TypeOK
  <2>3. ApprovalShape' /\ WaitingForOne' /\ OneOpenApproval' /\ NotBegun'
    BY <1>2, QuietStep DEF NodeStarted, NodeStartedOk, TypeOK
  <2> QED BY <1>1, <2>2, <2>3
<1>3. ASSUME NEW u \in 0 .. MaxUsage, NEW v \in Values \cup {Truncated},
             NodeSucceeded(n, v, ReceiptsOf(n), u)
      PROVE  LedgerInv'
  <2>1. Active /\ status[n] = "running"
    BY <1>3 DEF NodeSucceeded, NodeSucceededOk, NextOutcome
  <2>2. History(n)'
    BY <1>3, <2>1, HistorySettles DEF NodeSucceeded, TypeOK
  <2>3. AttemptHistory'
    BY <1>3, <2>2, HistoryStep DEF NodeSucceeded, TypeOK
  <2>4. ApprovalShape' /\ WaitingForOne' /\ OneOpenApproval' /\ NotBegun'
    BY <1>3, <2>1, RunningRun, QuietStep DEF NodeSucceeded
  <2> QED BY <1>1, <2>3, <2>4
<1>4. ASSUME NEW u \in 0 .. MaxUsage, NEW f \in Failures, NodeFailed(n, f, ReceiptsOf(n), u)
      PROVE  LedgerInv'
  <2>1. Active /\ status[n] = "running"
    BY <1>4 DEF NodeFailed, NodeFailedOk, NextOutcome
  <2>2. History(n)'
    BY <1>4, <2>1, HistorySettles DEF NodeFailed, TypeOK
  <2>3. AttemptHistory'
    BY <1>4, <2>2, HistoryStep DEF NodeFailed, TypeOK
  <2>4. ApprovalShape' /\ WaitingForOne' /\ OneOpenApproval' /\ NotBegun'
    BY <1>4, <2>1, RunningRun, QuietStep DEF NodeFailed
  <2> QED BY <1>1, <2>3, <2>4
<1>5. CASE NodeAttemptInterrupted(n)
  <2>1. Active /\ status[n] = "running"
    BY <1>5 DEF NodeAttemptInterrupted, NodeAttemptInterruptedOk
  <2>2. History(n)'
    BY <1>5, <2>1, HistoryArchives DEF NodeAttemptInterrupted, FreshAttempt, TypeOK
  <2>3. AttemptHistory'
    BY <1>5, <2>2, HistoryStep DEF NodeAttemptInterrupted, FreshAttempt, TypeOK
  <2>4. ApprovalShape' /\ WaitingForOne' /\ OneOpenApproval' /\ NotBegun'
    BY <1>5, <2>1, RunningRun, QuietStep DEF NodeAttemptInterrupted, FreshAttempt, TypeOK
  <2> QED BY <1>1, <2>3, <2>4
<1>6. CASE NodeRetryScheduled(n)
  <2>1. Active /\ status[n] = "failed"
    BY <1>6 DEF NodeRetryScheduled, CanRetry
  <2>2. History(n)'
    BY <1>6, <2>1, HistoryArchives DEF NodeRetryScheduled, FreshAttempt, TypeOK
  <2>3. AttemptHistory'
    BY <1>6, <2>2, HistoryStep DEF NodeRetryScheduled, FreshAttempt, TypeOK
  <2>4. ApprovalShape' /\ WaitingForOne' /\ OneOpenApproval' /\ NotBegun'
    BY <1>6, <2>1, RunningRun, QuietStep DEF NodeRetryScheduled, FreshAttempt, TypeOK
  <2> QED BY <1>1, <2>3, <2>4
<1> QED BY <1>2, <1>3, <1>4, <1>5, <1>6 DEF AttemptEvent

\* The control events keep the invariant: each is the only attempt of its node,
\* or omits a node that is pending.
LEMMA ControlEventInv ==
    ASSUME LedgerInv, NEW n \in Nodes, ControlEvent(n)
    PROVE  LedgerInv'
<1> USE DEF LedgerInv
<1>1. TypeOK'
  BY ControlEventType
<1>2. ControlStep /\ runStatus' = runStatus
  BY DEF ControlEvent, NodeConditionEvaluated, ConditionEvaluatedOk, NodeResultPublished,
     ResultPublishedOk, NodeJoined, NodeJoinedOk, ReadyControl, ControlSucceeds,
     NodeControlFailed, NodeControlFailedOk, NodeOmitted, NodeOmittedOk
<1>3. UNCHANGED <<approval, workflowApproval, interruptedAttempts, failedAttempts>>
  BY DEF ControlEvent, NodeConditionEvaluated, NodeResultPublished, NodeJoined,
     ControlSucceeds, NodeControlFailed, NodeOmitted
<1>4. ApprovalShape' /\ WaitingForOne' /\ OneOpenApproval' /\ NotBegun'
  BY <1>2, <1>3, QuietStep DEF ControlStep
<1>5. AttemptHistory'
  <2>1. CASE NodeOmitted(n)
    <3>1. status[n] = "pending" /\ status'[n] = "omitted" /\ attempt' = attempt
      BY <2>1 DEF NodeOmitted, NodeOmittedOk, TypeOK
    <3>2. History(n)'
      BY <1>3, <3>1 DEF History, AttemptHistory, Archived, Latest
    <3> QED BY <1>3, <2>1, <3>2, HistoryStep DEF NodeOmitted, TypeOK
  <2>2. CASE ~NodeOmitted(n)
    <3>1. /\ status[n] = "pending" /\ attempt[n] = 0
          /\ status'[n] \in {"succeeded", "failed"} /\ attempt'[n] = 1
          /\ \A m \in Nodes \ {n} : status'[m] = status[m] /\ attempt'[m] = attempt[m]
      BY <2>2 DEF ControlEvent, NodeConditionEvaluated, ConditionEvaluatedOk,
         NodeResultPublished, ResultPublishedOk, NodeJoined, NodeJoinedOk, ReadyControl,
         ControlSucceeds, NodeControlFailed, NodeControlFailedOk, PendingControl, TypeOK
    <3>2. History(n)'
      BY <1>3, <3>1, HistoryBegins
    <3> QED BY <1>3, <3>1, <3>2, HistoryStep
  <2> QED BY <2>1, <2>2
<1> QED BY <1>1, <1>4, <1>5

\* The invariant holds of the empty ledger.
LEMMA InitInv == Init => LedgerInv
<1> SUFFICES ASSUME Init PROVE LedgerInv
  OBVIOUS
<1>1. TypeOK
  BY InitType
<1>2. ApprovalShape /\ NotBegun /\ OneOpenApproval
  BY DEF Init, ApprovalShape, NotBegun, OneOpenApproval, OpenApproval
<1>3. AttemptHistory
  BY DEF Init, AttemptHistory, Archived, Latest
<1>4. WaitingForOne
  BY DEF Init, WaitingForOne, Active
<1> QED BY <1>1, <1>2, <1>3, <1>4 DEF LedgerInv

\* Every event the reducer accepts keeps the invariant.
LEMMA NextInv == LedgerInv /\ [Next]_ledgerVars => LedgerInv'
<1> SUFFICES ASSUME LedgerInv, [Next]_ledgerVars PROVE LedgerInv'
  OBVIOUS
<1>1. CASE UNCHANGED ledgerVars
  <2>1. TypeOK' /\ ApprovalShape' /\ NotBegun' /\ OneOpenApproval'
    BY <1>1 DEF ledgerVars, LedgerInv, TypeOK, ApprovalShape, NotBegun, OneOpenApproval
  <2>2. AttemptHistory'
    BY <1>1 DEF ledgerVars, LedgerInv, AttemptHistory, Archived, Latest
  <2>3. WaitingForOne'
    BY <1>1 DEF ledgerVars, LedgerInv, WaitingForOne, Requested, Active, With
  <2> QED BY <2>1, <2>2, <2>3 DEF LedgerInv
<1>2. CASE RunStarted \/ TerminalEvent
  BY <1>2, RunEventInv
<1>3. ASSUME NEW n \in Nodes,
             ApprovalEvent(n) \/ EffectEvent(n) \/ AttemptEvent(n) \/ ControlEvent(n)
      PROVE  LedgerInv'
  BY <1>3, ApprovalEventInv, EffectEventInv, AttemptEventInv, ControlEventInv
<1> QED BY <1>1, <1>2, <1>3 DEF Next

\* The invariant holds of every ledger.
LEMMA LedgerInvariant == Spec => []LedgerInv
<1>1. Init => LedgerInv
  BY InitInv
<1>2. LedgerInv /\ [Next]_ledgerVars => LedgerInv'
  BY NextInv
<1> QED BY <1>1, <1>2, PTL DEF Spec

\* Whatever is interrupted, retried, denied or recovered, every attempt number of
\* every node is accounted for exactly once: appendRunEvent loses none and
\* disposes of none twice.
THEOREM AttemptsAccountedFor == Spec => []AttemptHistory
<1>1. LedgerInv => AttemptHistory
  BY DEF LedgerInv
<1> QED BY <1>1, LedgerInvariant, PTL

\* A run that waits for an approval waits for exactly one, with nothing running
\* and nothing failed, and a request always makes the run wait.
THEOREM OneDecisionAwaited == Spec => []WaitingForOne
<1>1. LedgerInv => WaitingForOne
  BY DEF LedgerInv
<1> QED BY <1>1, LedgerInvariant, PTL

\* At most one approval of a run is open at any time, whichever channel the
\* operators answer on.
THEOREM ApprovalsExclusive == Spec => []OneOpenApproval
<1>1. LedgerInv => OneOpenApproval
  BY DEF LedgerInv
<1> QED BY <1>1, LedgerInvariant, PTL

-----------------------------------------------------------------------------
(* The order of work: what a node waited for before it was worked on, what *)
(* is never thrown away, the limits admission keeps, and the contract of a *)
(* run that the ledger implements.                                         *)

\* What WorkHadPrerequisites asks of one node.
Prerequisites(n) ==
    IF NodeType[n] = "join"
    THEN /\ Decided(JoinCondition[n])
         /\ \A c \in DOMAIN JoinBranch[n] :
               status[JoinBranch[n][c]] =
                  IF c = decision[JoinCondition[n]] THEN "succeeded" ELSE "omitted"
    ELSE DependenciesSucceeded(n) /\ GuardSelected(n)

\* The part of the invariant that is about one node.  A pending request fixes the
\* prerequisites before the decision; a denial is final; a control node is never
\* running and has one attempt; and a node that is pending has an empty journal.
NodeInv(n) ==
    /\ GraphPersisted /\ attempt[n] > 0 /\ approval[n] # "denied" => Prerequisites(n)
    /\ workflowApproval[n] = "pending" => DependenciesSucceeded(n) /\ GuardSelected(n)
    /\ approval[n] = "denied" => status[n] = "failed"
    /\ NodeType[n] \in ControlTypes =>
          status[n] # "running" /\ (status[n] = "pending" => attempt[n] = 0)
    /\ status[n] = "omitted" => attempt[n] = 0
    /\ status[n] = "pending" => effects[n] = <<>>

WorkInv == LedgerInv /\ \A n \in Nodes : NodeInv(n)

\* What is finished stays as it is: the facts prerequisites are made of.
FinishedStays ==
    \A m \in Nodes : status[m] \in {"succeeded", "omitted"} =>
        status'[m] = status[m] /\ decision'[m] = decision[m]

\* An event about n leaves what the invariant says of the other nodes alone.
OthersStay(n) ==
    \A m \in Nodes \ {n} :
        /\ status'[m] = status[m] /\ attempt'[m] = attempt[m]
        /\ approval'[m] = approval[m] /\ workflowApproval'[m] = workflowApproval[m]
        /\ effects'[m] = effects[m] /\ decision'[m] = decision[m]

\* Prerequisites that were met stay met.
LEMMA PrerequisitesStay ==
    ASSUME FinishedStays, NEW n \in Nodes
    PROVE  /\ DependenciesSucceeded(n) => DependenciesSucceeded(n)'
           /\ GuardSelected(n) => GuardSelected(n)'
           /\ Prerequisites(n) => Prerequisites(n)'
<1> USE DEF FinishedStays
<1>1. ASSUME DependenciesSucceeded(n) PROVE DependenciesSucceeded(n)'
  BY <1>1, GraphAssumption DEF DependenciesSucceeded
<1>2. ASSUME GuardSelected(n) PROVE GuardSelected(n)'
  <2>1. SUFFICES ASSUME n \in Guarded
                 PROVE  Decided(GuardCondition[n])' /\ decision'[GuardCondition[n]] = GuardCase[n]
    BY DEF GuardSelected
  <2>2. GuardCondition[n] \in Nodes
    BY <2>1, GraphAssumption
  <2>3. Decided(GuardCondition[n]) /\ decision[GuardCondition[n]] = GuardCase[n]
    BY <1>2, <2>1 DEF GuardSelected
  <2> QED BY <2>2, <2>3 DEF Decided
<1>3. ASSUME NodeType[n] = "join", Prerequisites(n) PROVE Prerequisites(n)'
  <2>1. JoinCondition[n] \in Nodes /\ Decided(JoinCondition[n])
    BY <1>3, GraphAssumption DEF Prerequisites
  <2>2. Decided(JoinCondition[n])' /\ decision'[JoinCondition[n]] = decision[JoinCondition[n]]
    BY <2>1 DEF Decided
  <2>3. ASSUME NEW c \in DOMAIN JoinBranch[n]
        PROVE  status'[JoinBranch[n][c]] = status[JoinBranch[n][c]]
    <3>1. JoinBranch[n][c] \in DependsOn[n]
      BY <1>3, CompilerAssumption
    <3>2. JoinBranch[n][c] \in Nodes
      BY <3>1, GraphAssumption
    <3>3. status[JoinBranch[n][c]] \in {"succeeded", "omitted"}
      BY <1>3 DEF Prerequisites
    <3> QED BY <3>2, <3>3
  <2> QED BY <1>3, <2>2, <2>3 DEF Prerequisites
<1>4. ASSUME NodeType[n] # "join", Prerequisites(n) PROVE Prerequisites(n)'
  BY <1>1, <1>2, <1>4 DEF Prerequisites
<1> QED BY <1>1, <1>2, <1>3, <1>4

\* The node an event is about had not finished, so nothing finished changes.
LEMMA OnlyUnfinished ==
    ASSUME NEW n \in Nodes, status[n] \notin {"succeeded", "omitted"}, OthersStay(n)
    PROVE  FinishedStays
BY DEF FinishedStays, OthersStay

\* It is enough to look at the node an event is about.
LEMMA NodeStep ==
    ASSUME WorkInv, LedgerInv', NEW n \in Nodes, FinishedStays, OthersStay(n), NodeInv(n)'
    PROVE  WorkInv'
<1> SUFFICES ASSUME NEW m \in Nodes \ {n} PROVE NodeInv(m)'
  BY DEF WorkInv
<1>1. NodeInv(m)
  BY DEF WorkInv
<1>2. /\ DependenciesSucceeded(m) => DependenciesSucceeded(m)'
      /\ GuardSelected(m) => GuardSelected(m)'
      /\ Prerequisites(m) => Prerequisites(m)'
  BY PrerequisitesStay
<1> QED BY <1>1, <1>2 DEF NodeInv, OthersStay

\* The approval events keep the invariant.
LEMMA ApprovalWork ==
    ASSUME WorkInv, NEW n \in Nodes, ApprovalEvent(n)
    PROVE  WorkInv'
<1> USE DEF WorkInv
<1>1. LedgerInv'
  BY ApprovalEventInv
<1>2. OthersStay(n)
  BY DEF ApprovalEvent, CommandApprovalRequested, CommandApprovalGranted,
     CommandApprovalDenied, GrantLapses, CommandApprovalExpired,
     WorkflowApprovalRequested, WorkflowApprovalApproved, WorkflowApprovalDenied,
     OthersStay, LedgerInv, TypeOK
<1>3. TypeOK /\ ApprovalShape /\ NodeInv(n)
  BY DEF LedgerInv
<1>4. FinishedStays
  <2>1. \/ UNCHANGED <<status, decision>>
        \/ status[n] = "pending"
    BY DEF ApprovalEvent, CommandApprovalRequested, CommandApprovalGranted,
       CommandApprovalDenied, CommandApprovalPending, GrantLapses,
       CommandApprovalExpired, WorkflowApprovalRequested, WorkflowApprovalApproved,
       WorkflowApprovalDenied, WorkflowApprovalPending
  <2> QED BY <1>2, <2>1, OnlyUnfinished DEF FinishedStays
<1>5. NodeInv(n)'
  <2>1. /\ DependenciesSucceeded(n) => DependenciesSucceeded(n)'
        /\ GuardSelected(n) => GuardSelected(n)'
        /\ Prerequisites(n) => Prerequisites(n)'
    BY <1>4, PrerequisitesStay
  <2>2. CASE CommandApprovalRequested(n)
    BY <1>3, <2>1, <2>2 DEF CommandApprovalRequested, CommandApprovalRequestedOk, NodeInv, TypeOK
  <2>3. CASE CommandApprovalGranted(n)
    BY <1>3, <2>1, <2>3 DEF CommandApprovalGranted, CommandApprovalPending, NodeInv, TypeOK
  <2>4. CASE CommandApprovalDenied(n)
    BY <1>3, <2>1, <2>4, PolicyAssumption DEF CommandApprovalDenied, CommandApprovalPending,
       ApprovalShape, ControlTypes, NodeInv, TypeOK
  <2>5. CASE GrantLapses(n)
    BY <1>3, <2>1, <2>5 DEF GrantLapses, NodeInv, TypeOK
  <2>6. CASE CommandApprovalExpired(n)
    BY <1>3, <2>1, <2>6 DEF CommandApprovalExpired, CommandApprovalExpiredOk, NodeInv, TypeOK
  <2>7. CASE WorkflowApprovalRequested(n)
    BY <1>3, <2>1, <2>7 DEF WorkflowApprovalRequested, WorkflowApprovalRequestedOk, NodeInv, TypeOK
  <2>8. CASE WorkflowApprovalApproved(n)
    BY <1>3, <2>1, <2>8 DEF WorkflowApprovalApproved, WorkflowApprovalPending,
       ApprovalShape, Prerequisites, NodeInv, TypeOK
  <2>9. CASE WorkflowApprovalDenied(n)
    BY <1>3, <2>1, <2>9, PolicyAssumption DEF WorkflowApprovalDenied, WorkflowApprovalPending,
       ApprovalShape, Prerequisites, NodeInv, TypeOK
  <2> QED BY <2>2, <2>3, <2>4, <2>5, <2>6, <2>7, <2>8, <2>9 DEF ApprovalEvent
<1> QED BY <1>1, <1>2, <1>4, <1>5, NodeStep

\* So do the events of the effect journal: only a running node has a journal.
LEMMA EffectWork ==
    ASSUME WorkInv, NEW n \in Nodes, EffectEvent(n)
    PROVE  WorkInv'
<1> USE DEF WorkInv
<1>1. LedgerInv'
  BY EffectEventInv
<1>2. /\ status[n] = "running" /\ UNCHANGED <<status, attempt, approval, workflowApproval, decision>>
      /\ \A m \in Nodes \ {n} : effects'[m] = effects[m]
  BY DEF EffectEvent, NodeEffectPrepared, NodeEffectPreparedOk, NodeEffectSettled,
     NodeEffectSettledOk, NodeEffectReconciled, EffectOpen, LedgerInv, TypeOK
<1>3. OthersStay(n) /\ FinishedStays
  BY <1>2 DEF OthersStay, FinishedStays
<1>4. /\ DependenciesSucceeded(n) => DependenciesSucceeded(n)'
      /\ GuardSelected(n) => GuardSelected(n)'
      /\ Prerequisites(n) => Prerequisites(n)'
  BY <1>3, PrerequisitesStay
<1>5. NodeInv(n)'
  BY <1>2, <1>4 DEF NodeInv
<1> QED BY <1>1, <1>3, <1>5, NodeStep

\* So do the events of an attempt.
LEMMA AttemptWork ==
    ASSUME WorkInv, NEW n \in Nodes, AttemptEvent(n)
    PROVE  WorkInv'
<1> USE DEF WorkInv
<1>1. LedgerInv'
  BY AttemptEventInv
<1>2. OthersStay(n)
  BY DEF AttemptEvent, NodeStarted, NodeSucceeded, NodeFailed, NodeAttemptInterrupted,
     NodeRetryScheduled, FreshAttempt, OthersStay, LedgerInv, TypeOK
<1>3. TypeOK /\ ApprovalShape /\ NodeInv(n)
  BY DEF LedgerInv
<1>4. status[n] \in {"pending", "running", "failed"}
  BY DEF AttemptEvent, NodeStarted, NodeStartedOk, NodeSucceeded, NodeSucceededOk,
     NodeFailed, NodeFailedOk, NextOutcome, NodeAttemptInterrupted,
     NodeAttemptInterruptedOk, NodeRetryScheduled, CanRetry
<1>5. FinishedStays
  BY <1>2, <1>4, OnlyUnfinished
<1>6. NodeInv(n)'
  <2>1. /\ DependenciesSucceeded(n) => DependenciesSucceeded(n)'
        /\ GuardSelected(n) => GuardSelected(n)'
        /\ Prerequisites(n) => Prerequisites(n)'
    BY <1>5, PrerequisitesStay
  <2>2. CASE NodeStarted(n)
    <3>1. NodeType[n] \notin ControlTypes
      BY <2>2, CompilerAssumption DEF NodeStarted, NodeStartedOk
    <3>2. GraphPersisted => Prerequisites(n)
      BY <2>2, <3>1 DEF NodeStarted, NodeStartedOk, Prerequisites, ControlTypes
    <3> QED BY <1>3, <2>1, <2>2, <3>1, <3>2 DEF NodeStarted, NodeStartedOk, NodeInv, TypeOK
  <2>3. ASSUME NEW u \in 0 .. MaxUsage, NEW v \in Values \cup {Truncated},
               NodeSucceeded(n, v, ReceiptsOf(n), u)
        PROVE  NodeInv(n)'
    BY <1>3, <2>1, <2>3 DEF NodeSucceeded, NodeSucceededOk, NextOutcome, NodeInv, TypeOK
  <2>4. ASSUME NEW u \in 0 .. MaxUsage, NEW f \in Failures, NodeFailed(n, f, ReceiptsOf(n), u)
        PROVE  NodeInv(n)'
    BY <1>3, <2>1, <2>4 DEF NodeFailed, NodeFailedOk, NextOutcome, NodeInv, TypeOK
  <2>5. ASSUME NodeAttemptInterrupted(n) \/ NodeRetryScheduled(n) PROVE NodeInv(n)'
    <3>1. attempt[n] < MaxAttempts[n] /\ FreshAttempt(n) /\ attempt' = attempt
      BY <2>5 DEF NodeAttemptInterrupted, NodeAttemptInterruptedOk, NodeRetryScheduled, CanRetry
    <3>2. NodeType[n] = "agent"
      BY <1>3, <3>1, PolicyAssumption DEF TypeOK
    <3>3. approval[n] = "none"
      BY <1>3, <3>2, PolicyAssumption DEF ApprovalShape
    <3> QED BY <1>3, <2>1, <3>1, <3>2, <3>3 DEF FreshAttempt, ControlTypes, NodeInv, TypeOK
  <2> QED BY <2>2, <2>3, <2>4, <2>5 DEF AttemptEvent
<1> QED BY <1>1, <1>2, <1>5, <1>6, NodeStep

\* So do the control events; a node that is omitted had not been started, because
\* its prerequisites cannot have been met.
LEMMA ControlWork ==
    ASSUME WorkInv, NEW n \in Nodes, ControlEvent(n)
    PROVE  WorkInv'
<1> USE DEF WorkInv
<1>1. LedgerInv'
  BY ControlEventInv
<1>2. OthersStay(n)
  BY DEF ControlEvent, NodeConditionEvaluated, NodeResultPublished, NodeJoined,
     ControlSucceeds, NodeControlFailed, NodeOmitted, OthersStay, LedgerInv, TypeOK
<1>3. TypeOK /\ ApprovalShape /\ NodeInv(n)
  BY DEF LedgerInv
<1>4. status[n] = "pending" /\ GraphPersisted
  BY DEF ControlEvent, NodeConditionEvaluated, ConditionEvaluatedOk, NodeResultPublished,
     ResultPublishedOk, NodeJoined, NodeJoinedOk, ReadyControl, PendingControl,
     NodeControlFailed, NodeControlFailedOk, NodeOmitted, NodeOmittedOk
<1>5. FinishedStays
  BY <1>2, <1>4, OnlyUnfinished
<1>6. NodeInv(n)'
  <2>1. /\ DependenciesSucceeded(n) => DependenciesSucceeded(n)'
        /\ GuardSelected(n) => GuardSelected(n)'
        /\ Prerequisites(n) => Prerequisites(n)'
    BY <1>5, PrerequisitesStay
  <2>2. CASE NodeOmitted(n)
    <3>1. attempt[n] = 0
      <4> SUFFICES ASSUME attempt[n] # 0 PROVE FALSE
        OBVIOUS
      <4>1. NodeType[n] \notin ControlTypes /\ Prerequisites(n)
        BY <1>3, <1>4 DEF NodeInv, TypeOK
      <4>2. DependenciesSucceeded(n) /\ GuardSelected(n)
        BY <4>1 DEF Prerequisites, ControlTypes
      <4> QED BY <2>2, <4>2, GraphAssumption DEF NodeOmitted, NodeOmittedOk,
             OmittedByCondition, OmittedByDependency, DependenciesSucceeded, GuardSelected
    <3> QED BY <1>3, <1>4, <2>1, <2>2, <3>1 DEF NodeOmitted, NodeInv, TypeOK
  <2>3. CASE ~NodeOmitted(n)
    <3>1. Prerequisites(n) /\ status'[n] \in {"succeeded", "failed"}
          /\ UNCHANGED <<approval, workflowApproval>>
      BY <2>3, <1>3 DEF ControlEvent, NodeConditionEvaluated, ConditionEvaluatedOk,
         NodeResultPublished, ResultPublishedOk, NodeJoined, NodeJoinedOk, ReadyControl,
         ControlSucceeds, NodeControlFailed, NodeControlFailedOk, Prerequisites, TypeOK
    <3> QED BY <1>3, <1>4, <2>1, <3>1 DEF NodeInv
  <2> QED BY <2>2, <2>3
<1> QED BY <1>1, <1>2, <1>5, <1>6, NodeStep

\* The invariant holds of the empty ledger.
LEMMA InitWork == Init => WorkInv
<1> SUFFICES ASSUME Init PROVE WorkInv
  OBVIOUS
<1>1. LedgerInv
  BY InitInv
<1>2. \A n \in Nodes : NodeInv(n)
  BY DEF Init, NodeInv
<1> QED BY <1>1, <1>2 DEF WorkInv

\* run_started, the terminal events and a stuttering step touch no node.
LEMMA RunWork ==
    ASSUME WorkInv, RunStarted \/ TerminalEvent \/ UNCHANGED ledgerVars
    PROVE  WorkInv'
<1>1. LedgerInv'
  BY RunEventInv, NextInv DEF WorkInv
<1>2. UNCHANGED <<status, attempt, approval, workflowApproval, effects, decision>>
  BY DEF RunStarted, TerminalEvent, RunSucceeded, RunFailed, RunCancelled,
     RunBudgetExhausted, Conclude, ledgerVars
<1>3. FinishedStays
  BY <1>2 DEF FinishedStays
<1>4. ASSUME NEW n \in Nodes PROVE NodeInv(n)'
  <2>1. /\ DependenciesSucceeded(n) => DependenciesSucceeded(n)'
        /\ GuardSelected(n) => GuardSelected(n)'
        /\ Prerequisites(n) => Prerequisites(n)'
    BY <1>3, PrerequisitesStay
  <2> QED BY <1>2, <2>1 DEF WorkInv, NodeInv
<1> QED BY <1>1, <1>4 DEF WorkInv

\* Every event the reducer accepts keeps the invariant.
LEMMA NextWork == WorkInv /\ [Next]_ledgerVars => WorkInv'
BY RunWork, ApprovalWork, EffectWork, AttemptWork, ControlWork DEF Next

\* The invariant holds of every ledger.
LEMMA WorkInvariant == Spec => []WorkInv
<1>1. Init => WorkInv
  BY InitWork
<1>2. WorkInv /\ [Next]_ledgerVars => WorkInv'
  BY NextWork
<1> QED BY <1>1, <1>2, PTL DEF Spec

\* In every workflow the compiler accepts, a node is worked on only after what it
\* depends on succeeded and its guard chose it, and a join only after exactly its
\* chosen branch succeeded; retries and recoveries do not weaken that.
THEOREM WorkInOrder == Spec => []WorkHadPrerequisites
<1>1. WorkInv => WorkHadPrerequisites
  BY DEF WorkInv, NodeInv, Prerequisites, WorkHadPrerequisites
<1> QED BY <1>1, WorkInvariant, PTL

\* No branch decision ever omits a node that had been started, not even one that
\* is pending again after an interrupted or failed attempt.
THEOREM NoWorkDiscarded == Spec => []OmittedNeverStarted
<1>1. WorkInv => OmittedNeverStarted
  <2> SUFFICES ASSUME WorkInv, NEW n \in Nodes, status[n] = "omitted"
               PROVE  attempt[n] = 0 /\ interruptedAttempts[n] = {} /\ failedAttempts[n] = {}
    BY DEF OmittedNeverStarted
  <2>1. attempt[n] = 0
    BY DEF WorkInv, NodeInv
  <2>2. Archived(n) \subseteq 1 .. 0
    BY <2>1 DEF WorkInv, LedgerInv, AttemptHistory
  <2> QED BY <2>1, <2>2 DEF Archived
<1> QED BY <1>1, WorkInvariant, PTL

-----------------------------------------------------------------------------
(* The effect journal and the limits.                                      *)

\* A journal changes only by an effect event, or is emptied when nothing in it
\* may have been applied.
LEMMA JournalStep ==
    ASSUME WorkInv, [Next]_ledgerVars, NEW n \in Nodes,
           \E i \in DOMAIN effects[n] :
              effects[n][i] \notin {"not_applied", "found_not_applied"}
    PROVE  /\ Len(effects'[n]) >= Len(effects[n])
           /\ \A i \in DOMAIN effects[n] :
                 effects[n][i] # "open" => effects'[n][i] = effects[n][i]
<1>1. effects[n] \in Seq(EffectStatus) /\ effects[n] # <<>> /\ TypeOK
  BY DEF WorkInv, LedgerInv, TypeOK
<1>2. Len(effects[n]) \in Nat
  BY <1>1
<1>3. CASE effects'[n] = effects[n]
  BY <1>2, <1>3
<1>4. CASE NodeEffectPrepared(n)
  <2>1. effects'[n] = Append(effects[n], "open")
    BY <1>1, <1>4 DEF NodeEffectPrepared, TypeOK
  <2> QED BY <1>1, <2>1
<1>5. ASSUME NEW i \in DOMAIN effects[n], NEW e, effects[n][i] = "open",
             effects'[n] = [effects[n] EXCEPT ![i] = e]
      PROVE  /\ Len(effects'[n]) >= Len(effects[n])
             /\ \A j \in DOMAIN effects[n] :
                   effects[n][j] # "open" => effects'[n][j] = effects[n][j]
  <2>1. Len(effects'[n]) = Len(effects[n])
    BY <1>1, <1>5
  <2> QED BY <1>1, <1>2, <1>5, <2>1
<1>6. \/ effects'[n] = effects[n] \/ NodeEffectPrepared(n)
      \/ \E i \in DOMAIN effects[n] : \E e \in EffectStatus :
            effects[n][i] = "open" /\ effects'[n] = [effects[n] EXCEPT ![i] = e]
  <2>1. CASE RunStarted \/ TerminalEvent \/ UNCHANGED ledgerVars
    BY <2>1 DEF RunStarted, TerminalEvent, RunSucceeded, RunFailed, RunCancelled,
       RunBudgetExhausted, Conclude, ledgerVars
  <2>2. ASSUME NEW m \in Nodes, ApprovalEvent(m) \/ ControlEvent(m)
        PROVE  effects' = effects
    BY <2>2 DEF ApprovalEvent, CommandApprovalRequested, CommandApprovalGranted,
       CommandApprovalDenied, GrantLapses, CommandApprovalExpired,
       WorkflowApprovalRequested, WorkflowApprovalApproved, WorkflowApprovalDenied,
       ControlEvent, NodeConditionEvaluated, NodeResultPublished, NodeJoined,
       ControlSucceeds, NodeControlFailed, NodeOmitted
  <2>3. ASSUME NEW m \in Nodes, EffectEvent(m), ~NodeEffectPrepared(n)
        PROVE  \/ effects'[n] = effects[n]
               \/ \E i \in DOMAIN effects[n] : \E e \in EffectStatus :
                     effects[n][i] = "open" /\ effects'[n] = [effects[n] EXCEPT ![i] = e]
    <3>1. CASE m # n
      BY <1>1, <2>3, <3>1 DEF EffectEvent, NodeEffectPrepared, NodeEffectSettled,
         NodeEffectReconciled, TypeOK
    <3>2. CASE m = n
      <4>1. PICK i \in DOMAIN effects[n], e \in Settlements \cup Reconciliations :
               NodeEffectSettled(n, i, e) \/ NodeEffectReconciled(n, i, e)
        BY <2>3, <3>2 DEF EffectEvent
      <4>2. effects[n][i] = "open" /\ effects'[n] = [effects[n] EXCEPT ![i] = e]
        BY <1>1, <4>1 DEF NodeEffectSettled, NodeEffectSettledOk, NodeEffectReconciled,
           EffectOpen, TypeOK
      <4>3. e \in EffectStatus
        BY DEF Settlements, Reconciliations, EffectStatus
      <4> QED BY <4>2, <4>3
    <3> QED BY <3>1, <3>2
  <2>4. ASSUME NEW m \in Nodes, AttemptEvent(m)
        PROVE  effects'[n] = effects[n]
    <3>1. CASE m # n
      BY <1>1, <2>4, <3>1 DEF AttemptEvent, NodeStarted, NodeSucceeded, NodeFailed,
         NodeAttemptInterrupted, NodeRetryScheduled, FreshAttempt, TypeOK
    <3>2. CASE m = n
      <4>1. ~NodeStarted(n)
        BY <1>1 DEF NodeStarted, NodeStartedOk, WorkInv, NodeInv
      <4>2. ~NodeAttemptInterrupted(n)
        BY <1>1 DEF NodeAttemptInterrupted, NodeAttemptInterruptedOk, ProvenNotApplied
      <4>3. ~NodeRetryScheduled(n)
        BY <1>1 DEF NodeRetryScheduled, CanRetry
      <4> QED BY <2>4, <3>2, <4>1, <4>2, <4>3 DEF AttemptEvent, NodeSucceeded, NodeFailed
    <3> QED BY <3>1, <3>2
  <2> QED BY <2>1, <2>2, <2>3, <2>4 DEF Next
<1> QED BY <1>3, <1>4, <1>5, <1>6

\* No event erases or rewrites evidence of an effect that may have been applied.
THEOREM EvidenceKept == Spec => JournalKept
<1>1. WorkInv /\ [Next]_ledgerVars =>
        [\A n \in Nodes :
            (\E i \in DOMAIN effects[n] :
                effects[n][i] \notin {"not_applied", "found_not_applied"}) =>
            /\ Len(effects'[n]) >= Len(effects[n])
            /\ \A i \in DOMAIN effects[n] :
                  effects[n][i] # "open" => effects'[n][i] = effects[n][i]]_ledgerVars
  BY JournalStep
<1> QED BY <1>1, WorkInvariant, PTL DEF Spec, JournalKept

\* An event that starts nothing keeps the limits.
LEMMA NothingStarts ==
    ASSUME LimitsRespected, With("running")' \subseteq With("running"),
           nodeStarts' = nodeStarts
    PROVE  LimitsRespected'
<1>1. IsFiniteSet(With("running"))
  BY FS_Subset, GraphAssumption DEF With
<1>2. Cardinality(With("running")') <= Cardinality(With("running"))
      /\ Cardinality(With("running")') \in Nat /\ Cardinality(With("running")) \in Nat
  BY <1>1, FS_Subset, FS_CardinalityType
<1> QED BY <1>2, PolicyAssumption DEF LimitsRespected

\* node_started keeps the limits it checks.
LEMMA StartsOne ==
    ASSUME TypeOK, LimitsRespected, NEW n \in Nodes, NodeStarted(n)
    PROVE  LimitsRespected'
<1>1. IsFiniteSet(With("running")) /\ Cardinality(With("running")) \in Nat
  BY FS_Subset, FS_CardinalityType, GraphAssumption DEF With
<1>2. With("running")' = With("running") \cup {n}
  BY DEF With, NodeStarted, TypeOK
<1>a. \A S : IsFiniteSet(S) =>
         /\ IsFiniteSet(S \cup {n}) /\ Cardinality(S) \in Nat /\ Cardinality(S \cup {n}) \in Nat
         /\ Cardinality(S \cup {n}) = Cardinality(S) \/ Cardinality(S \cup {n}) = Cardinality(S) + 1
  BY FS_AddElement, FS_CardinalityType
<1>b. /\ Cardinality(With("running") \cup {n}) \in Nat
      /\ \/ Cardinality(With("running") \cup {n}) = Cardinality(With("running"))
         \/ Cardinality(With("running") \cup {n}) = Cardinality(With("running")) + 1
  BY ONLY <1>1, <1>a
<1>c. Cardinality(With("running") \cup {n}) <= Cardinality(With("running")) + 1
  BY ONLY <1>1, <1>b
<1>3. Cardinality(With("running")') <= Cardinality(With("running")) + 1
  BY ONLY <1>2, <1>c
<1>4. Cardinality(With("running")') \in Nat
  BY ONLY <1>2, <1>b
<1>5. Cardinality(With("running")') <= MaxNodes
  BY <1>1, <1>3, <1>4, PolicyAssumption DEF NodeStarted, NodeStartedOk
<1>6. MaxNodeStarts > 0 => nodeStarts' <= MaxNodeStarts
  BY PolicyAssumption DEF NodeStarted, NodeStartedOk, BudgetExhausted,
     NodeStartsExhausted, TypeOK
<1> QED BY <1>5, <1>6 DEF LimitsRespected

\* Every event the reducer accepts keeps the limits.
LEMMA NextLimits == TypeOK /\ LimitsRespected /\ [Next]_ledgerVars => LimitsRespected'
<1> SUFFICES ASSUME TypeOK, LimitsRespected, [Next]_ledgerVars PROVE LimitsRespected'
  OBVIOUS
<1>1. CASE RunStarted \/ TerminalEvent \/ UNCHANGED ledgerVars
  <2>1. With("running")' = With("running") /\ nodeStarts' = nodeStarts
    BY <1>1 DEF RunStarted, TerminalEvent, RunSucceeded, RunFailed, RunCancelled,
       RunBudgetExhausted, Conclude, ledgerVars, With
  <2> QED BY <2>1, NothingStarts
<1>2. ASSUME NEW n \in Nodes,
             ApprovalEvent(n) \/ EffectEvent(n) \/ AttemptEvent(n) \/ ControlEvent(n),
             ~NodeStarted(n)
      PROVE  LimitsRespected'
  <2>1. /\ nodeStarts' = nodeStarts
        /\ \A m \in Nodes : status'[m] = "running" => status[m] = "running"
    <3>1. CASE ApprovalEvent(n)
      BY <3>1 DEF ApprovalEvent, CommandApprovalRequested, CommandApprovalGranted,
         CommandApprovalDenied, GrantLapses, CommandApprovalExpired,
         WorkflowApprovalRequested, WorkflowApprovalApproved, WorkflowApprovalDenied, TypeOK
    <3>2. CASE EffectEvent(n)
      BY <3>2 DEF EffectEvent, NodeEffectPrepared, NodeEffectSettled, NodeEffectReconciled
    <3>3. CASE AttemptEvent(n)
      BY <1>2, <3>3 DEF AttemptEvent, NodeSucceeded, NodeFailed, NodeAttemptInterrupted,
         NodeRetryScheduled, FreshAttempt, TypeOK
    <3>4. CASE ControlEvent(n)
      BY <3>4 DEF ControlEvent, NodeConditionEvaluated, NodeResultPublished, NodeJoined,
         ControlSucceeds, NodeControlFailed, NodeOmitted, TypeOK
    <3> QED BY <1>2, <3>1, <3>2, <3>3, <3>4
  <2>2. With("running")' \subseteq With("running")
    BY <2>1 DEF With
  <2> QED BY <2>1, <2>2, NothingStarts
<1> QED BY <1>1, <1>2, StartsOne DEF Next

\* Concurrency and node-start limits hold whatever is retried or recovered: no
\* sequence of events admits an attempt beyond either.
THEOREM LimitsKept == Spec => []LimitsRespected
<1>1. Init => LimitsRespected
  <2> SUFFICES ASSUME Init PROVE LimitsRespected
    OBVIOUS
  <2>1. With("running") = {} /\ nodeStarts = 0
    BY DEF Init, With
  <2> QED BY <2>1, FS_EmptySet, PolicyAssumption DEF LimitsRespected
<1>2. TypeOK /\ LimitsRespected /\ [Next]_ledgerVars => LimitsRespected'
  BY NextLimits
<1> QED BY <1>1, <1>2, LedgerType, PTL DEF Spec

-----------------------------------------------------------------------------
(* The run ledger implements the contract of a run.                        *)


\* How the refinement mapping reads the status of a node.
Phase(s) == CASE s = "pending" -> "todo"
              [] s = "running" -> "doing"
              [] s = "succeeded" -> "done"
              [] s = "omitted" -> "skipped"
              [] s = "failed" -> "broken"

\* An event of an open run that moves one node moves its work in the contract.
LEMMA Moves ==
    ASSUME TypeOK, NEW n \in Nodes, NEW s \in NodeStatus, Active, Active',
           status' = [status EXCEPT ![n] = s],
           NEW from, Phase(status[n]) \in from
    PROVE  Contract!Move(n, from, Phase(s))
BY DEF Contract!Move, Phase, TypeOK, NodeStatus, Active

\* Dependencies that succeeded make the work ready; a join and a node of a graph
\* that is not persisted need nothing.
LEMMA ReadyWork ==
    ASSUME NEW n \in Nodes,
           GraphPersisted /\ NodeType[n] # "join" => DependenciesSucceeded(n)
    PROVE  Contract!Ready(n)
BY GraphAssumption DEF Contract!Ready, DependenciesSucceeded

\* Nothing the contract sees changes.
LEMMA Stutters ==
    ASSUME Active, Active', status' = status
    PROVE  UNCHANGED Contract!contractVars
BY DEF Contract!contractVars, Active

\* The initial states correspond.
LEMMA InitImplements == Init => Contract!ContractInit
BY DEF Init, Contract!ContractInit

\* An attempt that is running was admitted with its dependencies done.
LEMMA RunningWasReady ==
    ASSUME WorkInv, NEW n \in Nodes, status[n] = "running"
    PROVE  Contract!Ready(n)
<1>1. attempt[n] > 0
  <2>1. attempt[n] \in 1 .. attempt[n]
    BY DEF WorkInv, LedgerInv, AttemptHistory, Latest
  <2> QED BY <2>1 DEF WorkInv, LedgerInv, TypeOK
<1>2. GraphPersisted => Prerequisites(n)
  BY <1>1 DEF WorkInv, NodeInv
<1> QED BY <1>2, ReadyWork DEF Prerequisites

\* run_started begins the contract and a terminal event concludes it, quiescent
\* and truthfully.
LEMMA RunImplements ==
    ASSUME WorkInv, RunStarted \/ TerminalEvent
    PROVE  Contract!ContractNext
<1>1. TypeOK
  BY DEF WorkInv, LedgerInv
<1>2. CASE RunStarted
  <2>1. Contract!Begin
    BY <1>2 DEF RunStarted, Contract!Begin, Active
  <2> QED BY <2>1 DEF Contract!ContractNext
<1>3. CASE TerminalEvent
  <2>1. /\ Active /\ runStatus' \in Terminal /\ status' = status
        /\ \A n \in Nodes : status[n] # "running"
        /\ runStatus' = "succeeded" => \A n \in Nodes : status[n] \in {"succeeded", "omitted"}
        /\ runStatus' = "failed" => \E n \in Nodes : status[n] = "failed"
    BY <1>3 DEF TerminalEvent, RunSucceeded, RunSucceededOk, RunFailed, RunFailedOk,
       RunCancelled, RunCancelledOk, RunBudgetExhausted, RunBudgetExhaustedOk, Conclude,
       Terminal, With
  <2>2. Contract!Conclude(runStatus')
    BY <1>1, <2>1 DEF Contract!Conclude, Active, Terminal, TypeOK, NodeStatus
  <2>3. runStatus' \in Contract!Results
    BY <2>1 DEF Terminal, Contract!Results
  <2> QED BY <2>2, <2>3 DEF Contract!ContractNext
<1> QED BY <1>2, <1>3

\* An approval event is a stutter, or finishes or breaks the node it is about.
LEMMA ApprovalImplements ==
    ASSUME WorkInv, NEW n \in Nodes, ApprovalEvent(n)
    PROVE  Contract!ContractNext \/ UNCHANGED Contract!contractVars
<1>1. TypeOK /\ ApprovalShape /\ NodeInv(n)
  BY DEF WorkInv, LedgerInv
<1>2. Active /\ Active'
  BY DEF ApprovalEvent, CommandApprovalRequested, CommandApprovalRequestedOk,
     CommandApprovalGranted, CommandApprovalDenied, CommandApprovalPending, GrantLapses,
     CommandApprovalExpired, CommandApprovalExpiredOk, WorkflowApprovalRequested,
     WorkflowApprovalRequestedOk, ControlStep, WorkflowApprovalApproved,
     WorkflowApprovalDenied, WorkflowApprovalPending, Active
<1>3. CASE status' = status
  BY <1>2, <1>3, Stutters
<1>4. CASE CommandApprovalDenied(n) \/ WorkflowApprovalDenied(n)
  <2>1. status[n] = "pending" /\ status' = [status EXCEPT ![n] = "failed"]
    BY <1>4 DEF CommandApprovalDenied, CommandApprovalPending, WorkflowApprovalDenied,
       WorkflowApprovalPending
  <2>2. Contract!Move(n, {"todo", "doing"}, Phase("failed"))
    BY <1>1, <1>2, <2>1, Moves DEF Phase, NodeStatus
  <2> QED BY <2>2 DEF Contract!ContractNext, Contract!Break, Phase
<1>5. CASE WorkflowApprovalApproved(n)
  <2>1. status[n] = "pending" /\ status' = [status EXCEPT ![n] = "succeeded"]
    BY <1>5 DEF WorkflowApprovalApproved, WorkflowApprovalPending
  <2>2. Contract!Move(n, {"todo", "doing"}, Phase("succeeded"))
    BY <1>1, <1>2, <2>1, Moves DEF Phase, NodeStatus
  <2>3. Contract!Ready(n)
    BY <1>1, <1>5, ReadyWork DEF WorkflowApprovalApproved, WorkflowApprovalPending, NodeInv
  <2> QED BY <2>2, <2>3 DEF Contract!ContractNext, Contract!Finish, Phase
<1> QED BY <1>3, <1>4, <1>5 DEF ApprovalEvent, CommandApprovalRequested,
       CommandApprovalGranted, GrantLapses, CommandApprovalExpired, WorkflowApprovalRequested

\* An effect event is a stutter.
LEMMA EffectImplements ==
    ASSUME NEW n \in Nodes, EffectEvent(n)
    PROVE  UNCHANGED Contract!contractVars
<1>1. Active /\ Active' /\ status' = status
  BY DEF EffectEvent, NodeEffectPrepared, NodeEffectPreparedOk, NodeEffectSettled,
     NodeEffectSettledOk, NodeEffectReconciled, EffectOpen, Active
<1> QED BY <1>1, Stutters

\* An attempt event undertakes, finishes, breaks or retries the node.
LEMMA AttemptImplements ==
    ASSUME WorkInv, NEW n \in Nodes, AttemptEvent(n)
    PROVE  Contract!ContractNext
<1>1. TypeOK
  BY DEF WorkInv, LedgerInv
<1>2. Active /\ Active'
  BY DEF AttemptEvent, NodeStarted, NodeStartedOk, NodeSucceeded, NodeSucceededOk,
     NodeFailed, NodeFailedOk, NextOutcome, NodeAttemptInterrupted,
     NodeAttemptInterruptedOk, NodeRetryScheduled, Active
<1>3. CASE NodeStarted(n)
  <2>1. Contract!Move(n, {"todo"}, Phase("running"))
    BY <1>1, <1>2, <1>3, Moves DEF NodeStarted, NodeStartedOk, Phase, NodeStatus
  <2>2. Contract!Ready(n)
    BY <1>3, ReadyWork DEF NodeStarted, NodeStartedOk
  <2> QED BY <2>1, <2>2 DEF Contract!ContractNext, Contract!Undertake, Phase
<1>4. ASSUME NEW u \in 0 .. MaxUsage, NEW v \in Values \cup {Truncated},
             NodeSucceeded(n, v, ReceiptsOf(n), u)
      PROVE  Contract!ContractNext
  <2>1. status[n] = "running" /\ status' = [status EXCEPT ![n] = "succeeded"]
    BY <1>4 DEF NodeSucceeded, NodeSucceededOk, NextOutcome
  <2>2. Contract!Move(n, {"todo", "doing"}, Phase("succeeded"))
    BY <1>1, <1>2, <2>1, Moves DEF Phase, NodeStatus
  <2> QED BY <2>1, <2>2, RunningWasReady DEF Contract!ContractNext, Contract!Finish, Phase
<1>5. ASSUME NEW u \in 0 .. MaxUsage, NEW f \in Failures, NodeFailed(n, f, ReceiptsOf(n), u)
      PROVE  Contract!ContractNext
  <2>1. status[n] = "running" /\ status' = [status EXCEPT ![n] = "failed"]
    BY <1>5 DEF NodeFailed, NodeFailedOk, NextOutcome
  <2>2. Contract!Move(n, {"todo", "doing"}, Phase("failed"))
    BY <1>1, <1>2, <2>1, Moves DEF Phase, NodeStatus
  <2> QED BY <2>2 DEF Contract!ContractNext, Contract!Break, Phase
<1>6. CASE NodeAttemptInterrupted(n) \/ NodeRetryScheduled(n)
  <2>1. status[n] \in {"running", "failed"} /\ status' = [status EXCEPT ![n] = "pending"]
    BY <1>6 DEF NodeAttemptInterrupted, NodeAttemptInterruptedOk, NodeRetryScheduled,
       CanRetry, FreshAttempt
  <2>2. Contract!Move(n, {"doing", "broken"}, Phase("pending"))
    BY <1>1, <1>2, <2>1, Moves DEF Phase, NodeStatus
  <2> QED BY <2>2 DEF Contract!ContractNext, Contract!Retry, Phase
<1> QED BY <1>3, <1>4, <1>5, <1>6 DEF AttemptEvent

\* A control event finishes, breaks or skips the node.
LEMMA ControlImplements ==
    ASSUME WorkInv, NEW n \in Nodes, ControlEvent(n)
    PROVE  Contract!ContractNext
<1>1. TypeOK
  BY DEF WorkInv, LedgerInv
<1>2. Active /\ Active'
  BY DEF ControlEvent, NodeConditionEvaluated, ConditionEvaluatedOk, NodeResultPublished,
     ResultPublishedOk, NodeJoined, NodeJoinedOk, ReadyControl, ControlSucceeds,
     NodeControlFailed, NodeControlFailedOk, NodeOmitted, NodeOmittedOk, ControlStep, Active
<1>3. CASE NodeConditionEvaluated(n) \/ NodeResultPublished(n) \/ NodeJoined(n)
  <2>1. status[n] = "pending" /\ status' = [status EXCEPT ![n] = "succeeded"]
    BY <1>3 DEF NodeConditionEvaluated, ConditionEvaluatedOk, NodeResultPublished,
       ResultPublishedOk, NodeJoined, NodeJoinedOk, ReadyControl, PendingControl, ControlSucceeds
  <2>2. Contract!Move(n, {"todo", "doing"}, Phase("succeeded"))
    BY <1>1, <1>2, <2>1, Moves DEF Phase, NodeStatus
  <2>3. Contract!Ready(n)
    BY <1>3, ReadyWork DEF NodeConditionEvaluated, ConditionEvaluatedOk,
       NodeResultPublished, ResultPublishedOk, NodeJoined, NodeJoinedOk, ReadyControl
  <2> QED BY <2>2, <2>3 DEF Contract!ContractNext, Contract!Finish, Phase
<1>4. CASE NodeControlFailed(n)
  <2>1. Contract!Move(n, {"todo", "doing"}, Phase("failed"))
    BY <1>1, <1>2, <1>4, Moves DEF NodeControlFailed, NodeControlFailedOk, PendingControl,
       Phase, NodeStatus
  <2> QED BY <2>1 DEF Contract!ContractNext, Contract!Break, Phase
<1>5. CASE NodeOmitted(n)
  <2>1. Contract!Move(n, {"todo"}, Phase("omitted"))
    BY <1>1, <1>2, <1>5, Moves DEF NodeOmitted, NodeOmittedOk, Phase, NodeStatus
  <2> QED BY <2>1 DEF Contract!ContractNext, Contract!Skip, Phase
<1> QED BY <1>3, <1>4, <1>5 DEF ControlEvent

\* Every event the reducer accepts is a step of the contract or a stutter.
LEMMA NextImplements ==
    WorkInv /\ [Next]_ledgerVars => [Contract!ContractNext]_(Contract!contractVars)
<1> SUFFICES ASSUME WorkInv, [Next]_ledgerVars
             PROVE  Contract!ContractNext \/ UNCHANGED Contract!contractVars
  OBVIOUS
<1>1. CASE UNCHANGED ledgerVars
  BY <1>1 DEF ledgerVars, Contract!contractVars, Active
<1>2. CASE RunStarted \/ TerminalEvent
  BY <1>2, RunImplements
<1>3. ASSUME NEW n \in Nodes,
             ApprovalEvent(n) \/ EffectEvent(n) \/ AttemptEvent(n) \/ ControlEvent(n)
      PROVE  Contract!ContractNext \/ UNCHANGED Contract!contractVars
  BY <1>3, ApprovalImplements, EffectImplements, AttemptImplements, ControlImplements
<1> QED BY <1>1, <1>2, <1>3 DEF Next

\* Every ledger appendRunEvent accepts is a behaviour of RunContract.
THEOREM LedgerImplementsContract == Spec => ImplementsContract
<1>1. Init => Contract!ContractInit
  BY InitImplements
<1>2. WorkInv /\ [Next]_ledgerVars => [Contract!ContractNext]_(Contract!contractVars)
  BY NextImplements
<1> QED BY <1>1, <1>2, WorkInvariant, PTL DEF Spec, ImplementsContract, Contract!ContractSpec
=============================================================================
