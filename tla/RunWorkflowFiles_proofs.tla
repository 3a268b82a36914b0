---------------------- MODULE RunWorkflowFiles_proofs -----------------------
(***************************************************************************)
(* Proofs about the rounds of the scheduler and the files its tools change *)
(* while crashes, store failures, aborts, retries and recoveries come in   *)
(* between.                                                                *)
(***************************************************************************)
EXTENDS RunWorkflow_proofs

(* Rounds.  While a call is past its recovery, the running nodes are the   *)
(* ones it admitted and has not settled, and it admitted them in           *)
(* declaration order, which is the order the ledger wants them settled in. *)

RoundPhases == {"admit", "execute", "settle"}
RecoveryPhases == {"down", "recover", "dispose"}

\* A run that has not begun, or has concluded, has nothing running.
Quiet == runStatus \in Terminal \cup {"absent"} => With("running") = {}

CallOpen ==
    /\ pc \notin RoundPhases => admitted = <<>>
    /\ pc # "down" => Active

RoundRuns ==
    pc \notin RecoveryPhases => \A n \in Nodes : status[n] = "running" <=> InRound(n)

RoundSorted == \A j, k \in DOMAIN admitted : j < k => admitted[j] < admitted[k]

\* Admission never turns back: what is left to admit comes after what was.
RoundAhead ==
    pc = "admit" => \A k \in DOMAIN admitted : \A n \in Transitions : admitted[k] < n

RoundExecutes == \A n \in Nodes : exec[n] = "running" => pc = "execute" /\ InRound(n)

RoundInv == Quiet /\ CallOpen /\ RoundRuns /\ RoundSorted /\ RoundAhead /\ RoundExecutes

\* An event about a node finds the run active, and leaves it so.
LEMMA EventsWhileActive ==
    ASSUME NEW n \in Nodes,
           ApprovalEvent(n) \/ EffectEvent(n) \/ AttemptEvent(n) \/ ControlEvent(n)
    PROVE  Active /\ Active'
<1> USE DEF Active
<1>1. CASE ApprovalEvent(n)
  BY <1>1 DEF ApprovalEvent, CommandApprovalRequested, CommandApprovalRequestedOk,
     CommandApprovalGranted, CommandApprovalDenied, CommandApprovalPending, GrantLapses,
     CommandApprovalExpired, CommandApprovalExpiredOk, WorkflowApprovalRequested,
     WorkflowApprovalRequestedOk, ControlStep, WorkflowApprovalApproved,
     WorkflowApprovalDenied, WorkflowApprovalPending
<1>2. CASE EffectEvent(n)
  BY <1>2 DEF EffectEvent, NodeEffectPrepared, NodeEffectPreparedOk, NodeEffectSettled,
     NodeEffectSettledOk, NodeEffectReconciled, EffectOpen
<1>3. CASE AttemptEvent(n)
  BY <1>3 DEF AttemptEvent, NodeStarted, NodeStartedOk, NodeSucceeded, NodeSucceededOk,
     NodeFailed, NodeFailedOk, NextOutcome, NodeAttemptInterrupted,
     NodeAttemptInterruptedOk, NodeRetryScheduled
<1>4. CASE ControlEvent(n)
  BY <1>4 DEF ControlEvent, NodeConditionEvaluated, ConditionEvaluatedOk,
     NodeResultPublished, ResultPublishedOk, NodeJoined, NodeJoinedOk, ReadyControl,
     ControlSucceeds, NodeControlFailed, NodeControlFailedOk, NodeOmitted, NodeOmittedOk,
     ControlStep
<1> QED BY <1>1, <1>2, <1>3, <1>4

\* Terminal events wait until nothing runs, and nothing starts after one.
LEMMA QuietStays ==
    ASSUME TypeOK, Quiet, [Next]_ledgerVars
    PROVE  Quiet'
<1>1. CASE UNCHANGED ledgerVars
  BY <1>1 DEF ledgerVars, Quiet, With
<1>2. CASE RunStarted
  BY <1>2 DEF RunStarted, Quiet, Terminal
<1>3. CASE TerminalEvent
  <2>1. With("running") = {}
    BY <1>3 DEF TerminalEvent, RunSucceeded, RunSucceededOk, RunFailed, RunFailedOk,
       RunCancelled, RunCancelledOk, RunBudgetExhausted, RunBudgetExhaustedOk, With
  <2>2. status' = status
    BY <1>3 DEF TerminalEvent, RunSucceeded, RunFailed, RunCancelled, RunBudgetExhausted,
       Conclude
  <2> QED BY <2>1, <2>2 DEF Quiet, With
<1>4. ASSUME NEW n \in Nodes,
             ApprovalEvent(n) \/ EffectEvent(n) \/ AttemptEvent(n) \/ ControlEvent(n)
      PROVE  Quiet'
  BY <1>4, EventsWhileActive DEF Quiet, Active, Terminal
<1> QED BY <1>1, <1>2, <1>3, <1>4 DEF Next

\* A step that touches neither the round nor the status of a node.
LEMMA RoundFrame ==
    ASSUME RoundInv, UNCHANGED <<runStatus, status, decision, pc, admitted>>,
           \A n \in Nodes : exec'[n] = "running" => exec[n] = "running"
    PROVE  RoundInv'
<1>1. Quiet' /\ CallOpen' /\ RoundRuns' /\ RoundSorted' /\ RoundExecutes'
  BY DEF RoundInv, Quiet, With, CallOpen, Active, RoundRuns, RoundSorted, RoundExecutes,
     InRound
<1>2. Transitions' = Transitions
  BY DEF Transitions, TransitionOf, DependenciesTerminal, OmittedByCondition, Decided
<1>3. RoundAhead'
  BY <1>2 DEF RoundInv, RoundAhead
<1> QED BY <1>1, <1>3 DEF RoundInv

\* A call that holds no round any more, or none yet.
LEMMA RoundEmpty ==
    ASSUME Quiet', admitted' = <<>>, \A n \in Nodes : exec'[n] # "running",
           pc' # "down" => Active',
           pc' \notin RecoveryPhases => With("running")' = {}
    PROVE  RoundInv'
BY DEF RoundInv, CallOpen, RoundRuns, RoundSorted, RoundAhead, RoundExecutes,
   InRound, With

\* A call that returns keeps nothing.
LEMMA ReturnRound ==
    ASSUME Quiet', Return
    PROVE  RoundInv'
BY RoundEmpty DEF Return, RecoveryPhases

\* Outside a round, moving on needs only that nothing was started.
LEMMA GoToRound ==
    ASSUME RoundInv, Quiet', NEW phase \in Phases, GoTo(phase), Active',
           admitted = <<>>, pc # "execute",
           phase \notin RecoveryPhases => With("running")' = {}
    PROVE  RoundInv'
BY RoundEmpty DEF RoundInv, RoundExecutes, GoTo

\* Outside a round and past the recovery nothing runs.
LEMMA NoRound ==
    ASSUME RoundInv, pc \notin RecoveryPhases, admitted = <<>>
    PROVE  With("running") = {}
BY DEF RoundInv, RoundRuns, InRound, With

\* Recovery: only dispositions change a status, and they start nothing.
LEMMA RecoveryRound ==
    ASSUME WorkflowTypeOK, RoundInv, Quiet', RecoveryStep
    PROVE  RoundInv'
<1>1. CASE Reconcile
  BY <1>1, RoundFrame DEF Reconcile, NodeEffectReconciled, callVars
<1>2. CASE Reconciled
  <2>1. Active' /\ admitted = <<>>
    BY <1>2 DEF Reconciled, RoundInv, CallOpen, RoundPhases, ledgerVars, Active
  <2> QED BY <1>2, <2>1, GoToRound DEF Reconciled, Phases, RecoveryPhases
<1>3. CASE Dispose
  <2>1. Active' /\ admitted = <<>> /\ UNCHANGED callVars /\ pc = "dispose"
    BY <1>3 DEF Dispose, NodeAttemptInterrupted, RoundInv, CallOpen, RoundPhases, Active
  <2>2. \A n \in Nodes : exec[n] # "running"
    BY <2>1 DEF RoundInv, RoundExecutes
  <2> QED BY <2>1, <2>2, RoundEmpty DEF callVars, RecoveryPhases
<1>4. CASE RecoveryRefused
  BY <1>4, ReturnRound DEF RecoveryRefused
<1>5. CASE RunResumed
  <2>1. Active' /\ admitted = <<>> /\ With("running")' = {}
    BY <1>5 DEF RunResumed, RoundInv, CallOpen, RoundPhases, ledgerVars, Active, Running, With
  <2> QED BY <1>5, <2>1, GoToRound DEF RunResumed, Phases
<1> QED BY <1>1, <1>2, <1>3, <1>4, <1>5 DEF RecoveryStep

\* The phases outside a round conclude the run, retry, or go on with nothing running.
LEMMA LoopRound ==
    ASSUME WorkflowTypeOK, RoundInv, Quiet',
           Begin \/ Loop \/ ControlFailed \/ Decide \/ DenialFails
    PROVE  RoundInv'
<1>1. /\ admitted = <<>> /\ With("running") = {} /\ Active
      /\ pc \in {"begin", "loop", "control_failed", "decide", "denied"}
  <2>1. pc \in {"begin", "loop", "control_failed", "decide", "denied"}
    BY DEF Begin, Loop, ControlFailed, Decide, DenialFails
  <2>2. admitted = <<>> /\ Active
    BY <2>1 DEF RoundInv, CallOpen, RoundPhases
  <2> QED BY <2>1, <2>2, NoRound DEF RecoveryPhases
<1>2. ASSUME GoTo("loop") \/ GoTo("admit"), UNCHANGED ledgerVars PROVE RoundInv'
  <2>1. Active' /\ With("running")' = {}
    BY <1>1, <1>2 DEF ledgerVars, Active, With
  <2> QED BY <1>1, <1>2, <2>1, GoToRound DEF Phases
<1>3. ASSUME NEW n, Retryable(n), Retry(n) PROVE RoundInv'
  <2>1. n \in Nodes
    BY <1>3 DEF Retryable, With
  <2>2. Active' /\ With("running")' = {}
    BY <1>1, <1>3, <2>1 DEF Retry, NodeRetryScheduled, FreshAttempt, Active, With,
       WorkflowTypeOK, TypeOK
  <2> QED BY <1>1, <1>3, <2>2, GoToRound DEF Retry, Phases
<1>4. ASSUME Return PROVE RoundInv'
  BY <1>4, ReturnRound
<1>5. CASE Begin
  BY <1>2, <1>3, <1>4, <1>5 DEF Begin, Exhaust, Fail
<1>6. CASE Loop
  BY <1>2, <1>4, <1>6 DEF Loop, Exhaust, Cancel
<1>7. CASE Decide
  BY <1>2, <1>3, <1>4, <1>7 DEF Decide, Exhaust, Cancel, Fail
<1>8. CASE ControlFailed \/ DenialFails
  BY <1>4, <1>8 DEF ControlFailed, DenialFails, Fail
<1> QED BY <1>5, <1>6, <1>7, <1>8

\* A control transition or an approval is handled with nothing running.
LEMMA ControlRound ==
    ASSUME WorkflowTypeOK, RoundInv, Quiet', AdmitControl \/ AdmitUnapproved
    PROVE  RoundInv'
<1>1. /\ admitted = <<>> /\ With("running") = {} /\ pc = "admit" /\ NextNode \in Nodes
  <2>1. admitted = <<>> /\ pc = "admit" /\ Transitions # {}
    BY DEF AdmitControl, AdmitUnapproved
  <2> QED BY <2>1, NoRound, NextNodeChosen DEF RecoveryPhases
<1>2. ASSUME Return PROVE RoundInv'
  BY <1>2, ReturnRound
<1>3. ASSUME NEW n \in Nodes, ControlTransition(n) \/ CommandApprovalExpired(n)
      PROVE  Active' /\ With("running")' = {}
  <2>1. ApprovalEvent(n) \/ ControlEvent(n)
    BY <1>3 DEF ControlTransition, ApprovalEvent, ControlEvent
  <2>2. Active'
    BY <2>1, EventsWhileActive
  <2>3. \A m \in Nodes : status'[m] = "running" => status[m] = "running"
    BY <2>1 DEF ApprovalEvent, CommandApprovalRequested, CommandApprovalGranted,
       CommandApprovalDenied, GrantLapses, CommandApprovalExpired,
       WorkflowApprovalRequested, WorkflowApprovalApproved, WorkflowApprovalDenied,
       ControlEvent, NodeConditionEvaluated, NodeResultPublished, NodeJoined,
       ControlSucceeds, NodeControlFailed, NodeOmitted, WorkflowTypeOK, TypeOK
  <2> QED BY <1>1, <2>2, <2>3 DEF With
<1>4. CASE AdmitControl
  <2>1. \/ Return
        \/ ControlTransition(NextNode) /\ (GoTo("control_failed") \/ GoTo("loop"))
    BY <1>4 DEF AdmitControl
  <2> QED BY <1>1, <1>2, <1>3, <2>1, GoToRound DEF Phases
<1>5. CASE AdmitUnapproved
  <2>1. \/ Return
        \/ CommandApprovalExpired(NextNode) /\ GoTo("loop")
    BY <1>5 DEF AdmitUnapproved
  <2> QED BY <1>1, <1>2, <1>3, <2>1, GoToRound DEF Phases
<1> QED BY <1>4, <1>5

\* What there is to do depends only on which nodes have finished, and how.
LEMMA TransitionsStay ==
    ASSUME UNCHANGED decision,
           \A m \in Nodes : /\ status'[m] = "succeeded" <=> status[m] = "succeeded"
                            /\ status'[m] = "omitted" <=> status[m] = "omitted",
           NEW n \in Nodes
    PROVE  /\ TransitionOf(n)' = TransitionOf(n)
           /\ DependenciesTerminal(n)' <=> DependenciesTerminal(n)
<1> USE GraphAssumption
<1>1. DependenciesTerminal(n)' <=> DependenciesTerminal(n)
  BY DEF DependenciesTerminal
<1>2. \A c \in Nodes : Decided(c)' <=> Decided(c)
  BY DEF Decided
<1>3. OmittedByCondition(n)' <=> OmittedByCondition(n)
  BY <1>2 DEF OmittedByCondition
<1>4. (\E d \in DependsOn[n] : status'[d] = "omitted") <=> (\E d \in DependsOn[n] : status[d] = "omitted")
  OBVIOUS
<1>5. TransitionOf(n)' = TransitionOf(n)
  <2>1. CASE NodeType[n] = "join"
    <3>1. JoinCondition[n] \in Nodes
      OBVIOUS
    <3> QED BY <1>2, <1>4, <2>1, <3>1 DEF TransitionOf
  <2>2. CASE NodeType[n] # "join" /\ n \in Guarded
    <3>1. GuardCondition[n] \in Nodes
      BY <2>2
    <3> QED BY <1>2, <1>3, <1>4, <2>2, <3>1 DEF TransitionOf
  <2>3. CASE NodeType[n] # "join" /\ n \notin Guarded
    BY <1>3, <1>4, <2>3 DEF TransitionOf
  <2> QED BY <2>1, <2>2, <2>3
<1> QED BY <1>1, <1>5

\* The positions of a round after an admission.
LEMMA AppendedRound ==
    ASSUME NEW s \in Seq(Nodes), NEW n \in Nodes, NEW t, t = Append(s, n)
    PROVE  /\ DOMAIN s = 1 .. Len(s) /\ Len(s) \in Nat
           /\ DOMAIN t = 1 .. Len(s) + 1
           /\ t[Len(s) + 1] = n
           /\ \A k \in DOMAIN s : t[k] = s[k] /\ s[k] \in Nat
<1>1. DOMAIN s = 1 .. Len(s) /\ Len(s) \in Nat /\ \A k \in DOMAIN s : s[k] \in Nodes
  BY LenProperties
<1>2. t \in Seq(Nodes) /\ Len(t) = Len(s) + 1 /\ t[Len(s) + 1] = n
      /\ \A k \in 1 .. Len(s) : t[k] = s[k]
  BY AppendProperties
<1>3. DOMAIN t = 1 .. Len(t)
  BY <1>2, LenProperties
<1> QED BY <1>1, <1>2, <1>3, GraphAssumption

\* The positions of a round after a settlement.
LEMMA ShortenedRound ==
    ASSUME NEW s \in Seq(Nodes), s # <<>>, NEW t, t = Tail(s)
    PROVE  /\ DOMAIN s = 1 .. Len(s) /\ Len(s) \in Nat /\ Len(s) > 0
           /\ Head(s) = s[1] /\ Head(s) \in Nodes
           /\ DOMAIN t = 1 .. Len(s) - 1
           /\ \A k \in 1 .. Len(s) - 1 : t[k] = s[k + 1]
           /\ \A k \in DOMAIN s : s[k] \in Nat
<1>1. DOMAIN s = 1 .. Len(s) /\ Len(s) \in Nat /\ \A k \in DOMAIN s : s[k] \in Nodes
  BY LenProperties
<1>2. Head(s) \in Nodes /\ t \in Seq(Nodes) /\ Len(t) = Len(s) - 1
      /\ \A k \in 1 .. Len(t) : t[k] = s[k + 1]
  BY HeadTailProperties
<1>3. DOMAIN t = 1 .. Len(t)
  BY <1>2, LenProperties
<1>4. Len(s) > 0 /\ Head(s) = s[1]
  BY EmptySeq
<1> QED BY <1>1, <1>2, <1>3, <1>4, GraphAssumption

\* The next node that is admitted comes after the ones before it.
LEMMA AdmissionRound ==
    ASSUME WorkflowTypeOK, RoundInv, Quiet', AdmitExecution
    PROVE  RoundInv'
<1> DEFINE N == NextNode
<1>1. /\ N \in Nodes /\ N \in Transitions /\ \A m \in Transitions : N <= m
      /\ Transitions \subseteq Nodes /\ status[N] = "pending"
  <2>1. Transitions # {} /\ Transitions \in SUBSET Nat /\ Transitions \subseteq Nodes
    BY GraphAssumption DEF AdmitExecution, Admissible, Transitions
  <2>2. N \in Transitions /\ \A m \in Transitions : N <= m
    BY <2>1, FirstIsLeast DEF NextNode
  <2> QED BY <2>1, <2>2 DEF Transitions
<1>2. /\ pc = "admit" /\ pc' = pc /\ admitted' = Append(admitted, N) /\ exec' = exec
      /\ status' = [status EXCEPT ![N] = "running"] /\ UNCHANGED <<runStatus, decision>>
  BY DEF AdmitExecution, NodeStarted
<1> HIDE DEF N
<1>3. /\ DOMAIN admitted = 1 .. Len(admitted) /\ Len(admitted) \in Nat
      /\ DOMAIN admitted' = 1 .. Len(admitted) + 1
      /\ admitted'[Len(admitted) + 1] = N
      /\ \A k \in DOMAIN admitted : admitted'[k] = admitted[k] /\ admitted[k] \in Nat
  BY <1>1, <1>2, AppendedRound DEF WorkflowTypeOK
<1>4. status \in [Nodes -> NodeStatus] /\ N \in Nat
  BY <1>1, GraphAssumption DEF WorkflowTypeOK, TypeOK
<1>5. Transitions' \subseteq Transitions \ {N}
  <2> SUFFICES ASSUME NEW m \in Nodes, status'[m] = "pending", DependenciesTerminal(m)',
                      TransitionOf(m)' # "none"
               PROVE  m \in Transitions /\ m # N
    BY DEF Transitions
  <2>1. m # N /\ status[m] = "pending"
    BY <1>1, <1>2, <1>4
  <2>2. TransitionOf(m)' = TransitionOf(m) /\ DependenciesTerminal(m)
    BY <1>1, <1>2, <1>4, TransitionsStay
  <2> QED BY <2>1, <2>2 DEF Transitions
<1>6. CallOpen' /\ RoundExecutes'
  BY <1>2, <1>3 DEF RoundInv, CallOpen, RoundPhases, Active, RoundExecutes
<1>7. RoundRuns'
  <2>1. \A n \in Nodes : InRound(n)' <=> InRound(n) \/ n = N
    BY <1>3 DEF InRound
  <2>2. \A n \in Nodes : status[n] = "running" <=> InRound(n)
    BY <1>2 DEF RoundInv, RoundRuns, RecoveryPhases
  <2> QED BY <1>1, <1>2, <1>4, <2>1, <2>2 DEF RoundRuns
<1>8. \A k \in DOMAIN admitted : admitted[k] < N
  BY <1>1, <1>2 DEF RoundInv, RoundAhead
<1>9. RoundSorted'
  BY <1>3, <1>8 DEF RoundInv, RoundSorted
<1>10. RoundAhead'
  <2> SUFFICES ASSUME NEW k \in DOMAIN admitted', NEW m \in Transitions'
               PROVE  admitted'[k] < m
    BY DEF RoundAhead
  <2>1. m \in Transitions /\ m # N /\ m \in Nat /\ N <= m
    BY <1>1, <1>5, GraphAssumption
  <2>2. CASE k \in DOMAIN admitted
    BY <1>2, <1>3, <2>1, <2>2 DEF RoundInv, RoundAhead
  <2>3. CASE k = Len(admitted) + 1
    BY <1>3, <1>4, <2>1, <2>3
  <2> QED BY <1>3, <2>2, <2>3
<1> QED BY <1>6, <1>7, <1>9, <1>10 DEF RoundInv

\* Launching and collecting a round leave it as it is.
LEMMA LaunchRound ==
    ASSUME WorkflowTypeOK, RoundInv, Launch \/ Collect
    PROVE  RoundInv'
<1>1. /\ UNCHANGED <<runStatus, status, admitted>> /\ pc \in {"admit", "execute"}
      /\ pc' \in {"execute", "settle"}
  BY DEF Launch, Collect, GoTo, ledgerVars
<1>2. RoundExecutes'
  <2>1. CASE Launch
    BY <2>1 DEF Launch, RoundExecutes, InRound
  <2>2. CASE Collect
    BY <2>2 DEF Collect, GoTo, RoundExecutes
  <2> QED BY <2>1, <2>2
<1> QED BY <1>1, <1>2 DEF RoundInv, Quiet, With, CallOpen, RoundPhases, Active, RoundRuns,
       RecoveryPhases, RoundSorted, RoundAhead, InRound

\* Settling takes the head of the round, and no other node, out of it.
LEMMA SettleRound ==
    ASSUME WorkflowTypeOK, RoundInv, Quiet', SettleNext
    PROVE  RoundInv'
<1> DEFINE N == Head(admitted)
<1>1. /\ pc = "settle" /\ pc' = pc /\ admitted # <<>> /\ admitted' = Tail(admitted)
      /\ exec' = exec /\ runStatus' = runStatus /\ Active
      /\ \/ status' = [status EXCEPT ![N] = "succeeded"]
         \/ status' = [status EXCEPT ![N] = "failed"]
  BY DEF SettleNext, NodeSucceeded, NodeFailed, NodeSucceededOk, NodeFailedOk, NextOutcome
<1>2. /\ N = admitted[1] /\ N \in Nodes
      /\ DOMAIN admitted = 1 .. Len(admitted) /\ Len(admitted) \in Nat /\ Len(admitted) > 0
      /\ DOMAIN admitted' = 1 .. Len(admitted) - 1
      /\ \A k \in 1 .. Len(admitted) - 1 : admitted'[k] = admitted[k + 1]
      /\ \A k \in DOMAIN admitted : admitted[k] \in Nat
  <2>1. admitted \in Seq(Nodes)
    BY DEF WorkflowTypeOK
  <2> QED BY <1>1, <2>1, ShortenedRound
<1> HIDE DEF N
<1>3. status \in [Nodes -> NodeStatus]
  BY DEF WorkflowTypeOK, TypeOK
<1>4. \A k \in 2 .. Len(admitted) : admitted[k] > N
  BY <1>2 DEF RoundInv, RoundSorted
<1>5. \A n \in Nodes : InRound(n)' <=> InRound(n) /\ n # N
  <2> SUFFICES ASSUME NEW n \in Nodes PROVE InRound(n)' <=> InRound(n) /\ n # N
    OBVIOUS
  <2>1. ASSUME InRound(n)' PROVE InRound(n) /\ n # N
    <3>1. PICK k \in 1 .. Len(admitted) - 1 : admitted'[k] = n
      BY <1>2, <2>1 DEF InRound
    <3>2. k + 1 \in 2 .. Len(admitted) /\ admitted[k + 1] = n
      BY <1>2, <3>1
    <3> QED BY <1>2, <1>4, <3>2 DEF InRound
  <2>2. ASSUME InRound(n), n # N PROVE InRound(n)'
    <3>1. PICK k \in 2 .. Len(admitted) : admitted[k] = n
      BY <1>2, <2>2 DEF InRound
    <3>2. k - 1 \in 1 .. Len(admitted) - 1 /\ admitted'[k - 1] = n
      BY <1>2, <3>1
    <3> QED BY <1>2, <3>2 DEF InRound
  <2> QED BY <2>1, <2>2
<1>6. RoundRuns'
  BY <1>1, <1>2, <1>5, <1>3 DEF RoundInv, RoundRuns, RecoveryPhases
<1>7. RoundSorted'
  <2> SUFFICES ASSUME NEW j \in DOMAIN admitted', NEW k \in DOMAIN admitted', j < k
               PROVE  admitted'[j] < admitted'[k]
    BY DEF RoundSorted
  <2>1. /\ j + 1 \in DOMAIN admitted /\ k + 1 \in DOMAIN admitted /\ j + 1 < k + 1
        /\ admitted'[j] = admitted[j + 1] /\ admitted'[k] = admitted[k + 1]
    BY <1>2
  <2> QED BY <2>1 DEF RoundInv, RoundSorted
<1>8. CallOpen' /\ RoundAhead' /\ RoundExecutes'
  BY <1>1 DEF RoundInv, CallOpen, RoundPhases, Active, RoundAhead, RoundExecutes
<1> QED BY <1>6, <1>7, <1>8 DEF RoundInv

\* Decisions of the operator find nothing running.
LEMMA OperatorRound ==
    ASSUME WorkflowTypeOK, WaitingForOne, RoundInv, Quiet',
           StartRun \/ Resume \/ OperatorApproves \/ OperatorDenies
    PROVE  RoundInv'
<1>1. pc = "down" /\ admitted = <<>> /\ \A n \in Nodes : exec[n] # "running"
  <2>1. pc = "down"
    BY DEF StartRun, Resume, OperatorApproves, OperatorDenies
  <2> QED BY <2>1 DEF RoundInv, CallOpen, RoundPhases, RoundExecutes
<1>2. CASE StartRun
  <2>1. Active' /\ With("running")' = {}
    BY <1>2 DEF StartRun, RunStarted, Active, RoundInv, Quiet, With
  <2> QED BY <1>1, <1>2, <2>1, GoToRound DEF StartRun, Phases
<1>3. CASE Resume
  BY <1>1, <1>3, GoToRound DEF Resume, Phases, RecoveryPhases, ledgerVars, Active
<1>4. CASE OperatorApproves
  BY <1>1, <1>4, RoundEmpty DEF OperatorApproves, callVars, RecoveryPhases
<1>5. CASE OperatorDenies
  <2>1. Active' /\ With("running")' = {}
    BY <1>5 DEF OperatorDenies, CommandApprovalDenied, CommandApprovalPending,
       WorkflowApprovalDenied, WorkflowApprovalPending, WaitingForOne, Active, With,
       WorkflowTypeOK, TypeOK
  <2> QED BY <1>1, <1>5, <2>1, GoToRound DEF OperatorDenies, Phases
<1> QED BY <1>2, <1>3, <1>4, <1>5

\* Every step keeps the round.
LEMMA StepRound ==
    ASSUME SchedulerInv, RoundInv, [WorkflowNext]_workflowVars
    PROVE  RoundInv'
<1>1. WorkflowTypeOK /\ TypeOK /\ WaitingForOne
  BY DEF SchedulerInv, WorkInv, LedgerInv
<1>2. Quiet'
  BY <1>1, StepIsNext, QuietStays DEF SchedulerInv, RoundInv
<1>3. CASE UNCHANGED workflowVars
  BY <1>3, RoundFrame DEF workflowVars, callVars, ledgerVars
<1>4. CASE SchedulerStep
  <2>1. CASE SettleRefused
    BY <1>2, <2>1, ReturnRound DEF SettleRefused
  <2>2. CASE Settled
    <3>1. admitted = <<>> /\ Active' /\ With("running")' = {} /\ pc = "settle"
      BY <2>2, NoRound DEF Settled, RoundInv, CallOpen, RecoveryPhases, Active, With, ledgerVars
    <3> QED BY <1>2, <2>2, <3>1, GoToRound DEF Settled, Phases
  <2> QED BY <1>1, <1>2, <1>4, <2>1, <2>2, RecoveryRound, LoopRound, ControlRound,
         AdmissionRound, LaunchRound, SettleRound DEF SchedulerStep
<1>5. CASE StartRun \/ Resume \/ OperatorApproves \/ OperatorDenies
  BY <1>1, <1>2, <1>5, OperatorRound
<1>6. CASE TimePasses \/ Abort
  BY <1>6, RoundFrame DEF TimePasses, GrantLapses, Abort, callVars, ledgerVars
<1>7. CASE Crash \/ StoreFails
  BY <1>2, <1>7, ReturnRound DEF Crash, StoreFails
<1>8. ASSUME NEW n \in Nodes,
             \/ ToolBegins(n) \/ ToolPublishes(n) \/ ToolApplies(n) \/ ToolSettles(n)
             \/ ToolPublicationFails(n)
      PROVE  RoundInv'
  <2>1. UNCHANGED <<runStatus, status, decision, pc, admitted, exec>>
    BY <1>8 DEF ToolBegins, ToolPublishes, ToolPrepared, ToolSettled, ToolRejected,
       ToolApplies, ToolSettles, ToolPublicationFails, NodeEffectPrepared,
       NodeEffectSettled, callVars, ledgerVars
  <2> QED BY <2>1, RoundFrame
<1>9. ASSUME NEW n \in Nodes, ExecutorReturns(n) PROVE RoundInv'
  <2>1. PICK o : Returns(n, o)
    BY <1>9 DEF ExecutorReturns, ExecutorSucceeds, ExecutorFails, ExecutorThrows
  <2>2. /\ UNCHANGED <<runStatus, status, decision, pc, admitted>>
        /\ \A m \in Nodes : exec'[m] = "running" => exec[m] = "running"
    BY <1>1, <2>1 DEF Returns, ledgerVars, WorkflowTypeOK
  <2> QED BY <2>2, RoundFrame
<1> QED BY <1>3, <1>4, <1>5, <1>6, <1>7, <1>8, <1>9 DEF WorkflowNext

-----------------------------------------------------------------------------
(* Files.  Every change of a file belongs to the latest attempt of its     *)
(* node and to an entry of the journal that nothing disproves; a tool past *)
(* its preparation holds the last entry, still open, so that neither a     *)
(* settlement of the attempt nor a recovery can pass it by.                *)

NotApplied == {"not_applied", "found_not_applied"}

ToolHolds(n) ==
    /\ tool[n] # "none" => n \in Writable /\ status[n] = "running"
    /\ tool[n] \in Publishing => pc = "execute"
    /\ tool[n] \in {"prepared", "applied"} \cup Settling =>
          Len(effects[n]) \in DOMAIN effects[n] /\ effects[n][Len(effects[n])] = "open"
    /\ tool[n] \in {"prepared", "settle_not_applied"} =>
          <<attempt[n], Len(effects[n])>> \notin applied[n]

ChangesKnown(n) ==
    \A p \in applied[n] :
        /\ p[1] = attempt[n] /\ p[2] \in DOMAIN effects[n]
        /\ effects[n][p[2]] \notin NotApplied

\* A node that is not running has every effect settled, and its failure says so.
Reported(n) ==
    /\ status[n] # "running" => AllSettled(n)
    /\ status[n] = "failed" /\ (Some(n, "committed") \/ Some(n, "unknown")) =>
          error[n].sideEffectStatus # "none"

FileInv(n) == ToolHolds(n) /\ ChangesKnown(n) /\ Reported(n)

FilesInv == \A n \in Nodes : FileInv(n)

\* What FileInv says of a node does not change.
Same(n) ==
    /\ status'[n] = status[n] /\ attempt'[n] = attempt[n] /\ error'[n] = error[n]
    /\ effects'[n] = effects[n] /\ tool'[n] = tool[n] /\ applied'[n] = applied[n]

\* A node that a step does not touch keeps its invariant, unless its publication is
\* left behind.
LEMMA FileFrame ==
    ASSUME NEW n \in Nodes, FileInv(n), Same(n), tool[n] \in Publishing => pc' = "execute"
    PROVE  FileInv(n)'
BY DEF FileInv, Same, ToolHolds, ChangesKnown, Reported, AllSettled, Some

\* A node without a tool, a journal and a change has nothing to account for.
LEMMA FileFresh ==
    ASSUME NEW n \in Nodes, tool'[n] = "none", applied'[n] = {}, effects'[n] = <<>>
    PROVE  FileInv(n)'
<1>1. DOMAIN effects'[n] = {}
  OBVIOUS
<1> QED BY <1>1 DEF FileInv, ToolHolds, Publishing, Settling, ChangesKnown, Reported,
       AllSettled, Some

\* A pending node has none of these.
LEMMA PendingIsFresh ==
    ASSUME NEW n \in Nodes, NodeInv(n), FileInv(n), status[n] = "pending"
    PROVE  tool[n] = "none" /\ applied[n] = {} /\ effects[n] = <<>>
<1>1. effects[n] = <<>> /\ DOMAIN effects[n] = {}
  BY DEF NodeInv
<1> QED BY <1>1 DEF FileInv, ToolHolds, ChangesKnown

\* Outside the execution of a round, an attempt whose effects are all settled or
\* proven not applied has no tool left.
LEMMA NoToolLeft ==
    ASSUME WorkflowTypeOK, NEW n \in Nodes, FileInv(n), pc # "execute",
           \A i \in DOMAIN effects[n] : effects[n][i] # "open"
    PROVE  tool[n] = "none"
<1>1. tool[n] \in ToolStates
  BY DEF WorkflowTypeOK
<1> QED BY <1>1 DEF FileInv, ToolHolds, ToolStates, Publishing, Settling

\* An admission, a control transition or a decision about a pending node.
LEMMA PendingFiles ==
    ASSUME WorkflowTypeOK, WorkInv, FilesInv, NEW n \in Nodes,
           Admits(n) \/ Omits(n) \/ Answers(n) \/ Evaluates(n),
           UNCHANGED <<tool, applied>>, pc # "execute"
    PROVE  FilesInv'
<1> USE DEF WorkflowTypeOK, TypeOK
<1>1. FileInv(n) /\ NodeInv(n)
  BY DEF FilesInv, WorkInv
<1>2. \A m \in Nodes \ {n} : Same(m)
  BY DEF Admits, Omits, Answers, Evaluates, CommandApprovalRequested, CommandApprovalGranted,
     CommandApprovalDenied, GrantLapses, CommandApprovalExpired, NodeStarted,
     WorkflowApprovalRequested, WorkflowApprovalApproved, WorkflowApprovalDenied,
     NodeConditionEvaluated, NodeResultPublished, NodeJoined, ControlSucceeds,
     NodeControlFailed, NodeOmitted, Same
<1>3. \/ Same(n)
      \/ status[n] = "pending" /\ (effects'[n] = effects[n] \/ effects'[n] = <<>>)
  BY DEF Admits, Omits, Answers, Evaluates, CommandApprovalRequested, CommandApprovalGranted,
     CommandApprovalDenied, CommandApprovalPending, GrantLapses, CommandApprovalExpired,
     NodeStarted, NodeStartedOk, WorkflowApprovalRequested, WorkflowApprovalApproved,
     WorkflowApprovalDenied, WorkflowApprovalPending, NodeConditionEvaluated,
     ConditionEvaluatedOk, NodeResultPublished, ResultPublishedOk, NodeJoined, NodeJoinedOk,
     ReadyControl, PendingControl, ControlSucceeds, NodeControlFailed, NodeControlFailedOk,
     NodeOmitted, NodeOmittedOk, Same
<1>4. FileInv(n)'
  <2>1. CASE Same(n)
    BY <1>1, <2>1, FileFrame DEF FileInv, ToolHolds
  <2>2. CASE status[n] = "pending" /\ (effects'[n] = effects[n] \/ effects'[n] = <<>>)
    BY <1>1, <2>2, PendingIsFresh, FileFresh
  <2> QED BY <1>3, <2>1, <2>2
<1>5. ASSUME NEW m \in Nodes \ {n} PROVE FileInv(m)'
  BY <1>2, FileFrame DEF FilesInv, FileInv, ToolHolds
<1> QED BY <1>4, <1>5 DEF FilesInv

\* An attempt is settled, interrupted or retried: its tool is gone, and what it
\* changed is in the journal, or it changed nothing.
LEMMA FinishFiles ==
    ASSUME WorkflowTypeOK, EffectsDeclared, FilesInv, NEW n \in Nodes, Finishes(n),
           UNCHANGED <<tool, applied>>, pc # "execute"
    PROVE  FilesInv'
<1> USE DEF WorkflowTypeOK, TypeOK
<1>1. FileInv(n) /\ (n \notin Writable => effects[n] = <<>>)
  BY DEF FilesInv, EffectsDeclared
<1>2. ASSUME NEW m \in Nodes \ {n} PROVE FileInv(m)'
  <2>1. Same(m)
    BY DEF Finishes, NodeSucceeded, NodeFailed, NodeAttemptInterrupted, NodeRetryScheduled,
       FreshAttempt, Same
  <2> QED BY <2>1, FileFrame DEF FilesInv, FileInv, ToolHolds
<1>3. ASSUME AllSettled(n), attempt' = attempt, effects' = effects,
             status'[n] = "failed" /\ (Some(n, "committed") \/ Some(n, "unknown")) =>
                error'[n].sideEffectStatus # "none"
      PROVE  FileInv(n)'
  <2>1. tool[n] = "none"
    BY <1>1, <1>3, NoToolLeft DEF AllSettled, Settlements
  <2> QED BY <1>1, <1>3, <2>1 DEF FileInv, ToolHolds, Publishing, Settling, ChangesKnown,
         Reported, AllSettled, Some
<1>4. AllSettled(n) \/ n \in Writable
  BY <1>1 DEF AllSettled
<1>5. ASSUME NEW u \in 0 .. MaxUsage, NEW v \in Values \cup {Truncated},
             NodeSucceeded(n, v, ReceiptsOf(n), u)
      PROVE  FileInv(n)'
  BY <1>3, <1>4, <1>5 DEF NodeSucceeded, NodeSucceededOk
<1>6. ASSUME NEW u \in 0 .. MaxUsage, NEW f \in Failures, NodeFailed(n, f, ReceiptsOf(n), u)
      PROVE  FileInv(n)'
  <2>1. /\ AllSettled(n) /\ UNCHANGED <<attempt, effects>> /\ error'[n] = f
    BY <1>4, <1>6 DEF NodeFailed, NodeFailedOk
  <2>2. Some(n, "committed") \/ Some(n, "unknown") => f.sideEffectStatus # "none"
    <3>1. Some(n, "committed") \/ Some(n, "unknown") => n \in Writable
      BY <1>1 DEF Some
    <3>2. ASSUME n \in Writable, Some(n, "unknown") PROVE f.sideEffectStatus # "none"
      BY <1>6, <3>2 DEF NodeFailed, NodeFailedOk
    <3>3. ASSUME n \in Writable, ~Some(n, "unknown"), Some(n, "committed")
          PROVE  f.sideEffectStatus # "none"
      BY <1>6, <3>3 DEF NodeFailed, NodeFailedOk
    <3> QED BY <3>1, <3>2, <3>3
  <2> QED BY <1>3, <2>1, <2>2
<1>7. ASSUME NodeAttemptInterrupted(n) PROVE FileInv(n)'
  <2>1. \A i \in DOMAIN effects[n] : effects[n][i] \in NotApplied
    BY <1>7 DEF NodeAttemptInterrupted, NodeAttemptInterruptedOk, ProvenNotApplied, NotApplied
  <2>2. tool[n] = "none"
    BY <1>1, <2>1, NoToolLeft DEF NotApplied
  <2>3. applied[n] = {}
    BY <1>1, <2>1 DEF FileInv, ChangesKnown
  <2> QED BY <1>7, <2>2, <2>3, FileFresh DEF NodeAttemptInterrupted, FreshAttempt
<1>8. ASSUME NodeRetryScheduled(n) PROVE FileInv(n)'
  <2>1. effects[n] = <<>> /\ DOMAIN effects[n] = {} /\ status[n] = "failed"
    BY <1>8 DEF NodeRetryScheduled, CanRetry
  <2>2. tool[n] = "none" /\ applied[n] = {}
    BY <1>1, <2>1 DEF FileInv, ToolHolds, ChangesKnown
  <2> QED BY <1>8, <2>2, FileFresh DEF NodeRetryScheduled, FreshAttempt
<1>9. FileInv(n)'
  BY <1>5, <1>6, <1>7, <1>8 DEF Finishes
<1> QED BY <1>2, <1>9 DEF FilesInv

\* A recovery records what it observed of an effect whose target nobody holds.
LEMMA ObservedFiles ==
    ASSUME WorkflowTypeOK, FilesInv, NEW n \in Nodes, NEW i, NEW o \in Observations(n, i),
           NodeEffectReconciled(n, i, o), tool[n] = "none", UNCHANGED <<tool, applied>>,
           pc # "execute"
    PROVE  FilesInv'
<1> USE DEF WorkflowTypeOK, TypeOK
<1>1. i \in DOMAIN effects[n] /\ status[n] = "running"
  BY DEF NodeEffectReconciled, EffectOpen
<1>2. FileInv(n)
  BY DEF FilesInv
<1>3. ASSUME NEW m \in Nodes \ {n} PROVE FileInv(m)'
  <2>1. Same(m)
    BY DEF NodeEffectReconciled, Same
  <2> QED BY <2>1, FileFrame DEF FilesInv, FileInv, ToolHolds
<1>4. FileInv(n)'
  <2>1. /\ UNCHANGED <<status, attempt, error>>
        /\ effects'[n] = [effects[n] EXCEPT ![i] = o]
    BY DEF NodeEffectReconciled
  <2>2. DOMAIN effects'[n] = DOMAIN effects[n]
    BY <2>1
  <2>3. ASSUME NEW p \in applied[n]
        PROVE  /\ p[1] = attempt[n] /\ p[2] \in DOMAIN effects[n]
               /\ effects'[n][p[2]] \notin NotApplied
    <3>1. p[1] = attempt[n] /\ p[2] \in DOMAIN effects[n] /\ effects[n][p[2]] \notin NotApplied
      BY <1>2 DEF FileInv, ChangesKnown
    <3>2. p \in Nat \X Nat
      OBVIOUS
    <3>3. p = <<attempt[n], p[2]>>
      BY <3>1, <3>2
    <3>4. p[2] = i => o \in {"found_unknown", "found_applied"}
      BY <3>3 DEF Observations
    <3> QED BY <2>1, <3>1, <3>4 DEF NotApplied
  <2>4. ToolHolds(n)'
    BY DEF ToolHolds, Publishing, Settling
  <2> QED BY <1>1, <2>1, <2>2, <2>3, <2>4 DEF FileInv, ChangesKnown, Reported
<1> QED BY <1>3, <1>4 DEF FilesInv

\* The steps of the scheduler that publish nothing, or nothing about a node, leave
\* no publication behind: only Collect leaves "execute", and it waits for them.
LEMMA QuietFiles ==
    ASSUME FilesInv, UNCHANGED <<status, attempt, error, effects, tool, applied>>,
           pc = "execute" => pc' = "execute" \/ \A n \in Nodes : tool[n] \notin Publishing
    PROVE  FilesInv'
<1> SUFFICES ASSUME NEW n \in Nodes PROVE FileInv(n)'
  BY DEF FilesInv
<1>1. FileInv(n) /\ Same(n)
  BY DEF FilesInv, Same
<1>2. tool[n] \in Publishing => pc' = "execute"
  BY <1>1 DEF FileInv, ToolHolds
<1> QED BY <1>1, <1>2, FileFrame

\* A tool reserves, prepares, changes a file or is cut off: the entry it holds is the
\* one its change is recorded under.
LEMMA ToolFile ==
    ASSUME WorkflowTypeOK, RoundInv, NEW n \in Nodes, FileInv(n),
           \/ ToolBegins(n) \/ ToolApplies(n) \/ ToolSettles(n) \/ ToolRejected(n)
    PROVE  FileInv(n)'
<1> USE DEF WorkflowTypeOK, TypeOK
<1>1. UNCHANGED <<status, attempt, error, effects, pc>>
  BY DEF ToolBegins, ToolApplies, ToolSettles, ToolRejected, ledgerVars, callVars
<1>2. Reported(n)'
  BY <1>1 DEF FileInv, Reported, AllSettled, Some
<1>3. CASE ToolBegins(n)
  <2>1. n \in Writable /\ status[n] = "running" /\ pc = "execute"
    BY <1>3 DEF ToolBegins, RecorderOpen, RoundInv, RoundExecutes, RoundRuns, RecoveryPhases
  <2>2. tool'[n] = "preparing" /\ applied' = applied
    BY <1>3 DEF ToolBegins, SetTool
  <2> QED BY <1>1, <1>2, <2>1, <2>2 DEF FileInv, ToolHolds, ChangesKnown, Settling
<1>4. CASE ToolApplies(n)
  <2>1. /\ tool[n] = "prepared" /\ tool'[n] = "applied"
        /\ applied'[n] = applied[n] \cup {<<attempt[n], Len(effects[n])>>}
    BY <1>4 DEF ToolApplies, SetTool
  <2>2. ToolHolds(n)'
    BY <1>1, <2>1 DEF FileInv, ToolHolds, Publishing, Settling
  <2>3. Len(effects[n]) \in DOMAIN effects[n] /\ effects[n][Len(effects[n])] \notin NotApplied
    BY <2>1 DEF FileInv, ToolHolds, NotApplied
  <2>4. ChangesKnown(n)'
    BY <1>1, <2>1, <2>3 DEF FileInv, ChangesKnown
  <2> QED BY <1>2, <2>2, <2>4 DEF FileInv
<1>5. CASE ToolSettles(n)
  <2>1. /\ tool[n] \in {"prepared", "applied"} /\ applied' = applied
        /\ \/ tool'[n] = "none"
           \/ pc = "execute" /\ tool'[n] \in {"settle_committed", "settle_unknown"}
           \/ pc = "execute" /\ tool[n] = "prepared" /\ tool'[n] = "settle_not_applied"
    <3>1. CASE RecorderOpen(n) /\ tool[n] = "applied"
      BY <1>5, <3>1 DEF ToolSettles, SetTool, RecorderOpen
    <3>2. CASE RecorderOpen(n) /\ tool[n] # "applied"
      BY <1>5, <3>2 DEF ToolSettles, SetTool, RecorderOpen
    <3>3. CASE ~RecorderOpen(n)
      BY <1>5, <3>3 DEF ToolSettles, SetTool
    <3> QED BY <3>1, <3>2, <3>3
  <2> QED BY <1>1, <1>2, <2>1 DEF FileInv, ToolHolds, ChangesKnown, Publishing, Settling
<1>6. CASE ToolRejected(n)
  <2>1. tool'[n] = "none" /\ applied' = applied
    BY <1>6 DEF ToolRejected, SetTool
  <2> QED BY <1>1, <1>2, <2>1 DEF FileInv, ToolHolds, ChangesKnown, Publishing, Settling
<1> QED BY <1>3, <1>4, <1>5, <1>6

\* A prepared effect opens a new entry, which no earlier change can belong to.
LEMMA PreparedFile ==
    ASSUME WorkflowTypeOK, NEW n \in Nodes, FileInv(n), NodeEffectPrepared(n),
           tool'[n] \in {"prepared", "none"}, UNCHANGED <<applied, pc>>
    PROVE  FileInv(n)'
<1> USE DEF WorkflowTypeOK, TypeOK
<1>1. /\ UNCHANGED <<status, attempt, error>> /\ status[n] = "running" /\ n \in Writable
      /\ effects'[n] = Append(effects[n], "open")
  BY DEF NodeEffectPrepared, NodeEffectPreparedOk
<1>2. /\ DOMAIN effects[n] = 1 .. Len(effects[n]) /\ Len(effects[n]) \in Nat
      /\ Len(effects'[n]) = Len(effects[n]) + 1
      /\ DOMAIN effects'[n] = 1 .. Len(effects'[n])
      /\ effects'[n][Len(effects'[n])] = "open"
      /\ \A k \in DOMAIN effects[n] : effects'[n][k] = effects[n][k]
  <2>1. effects[n] \in Seq(EffectStatus) /\ "open" \in EffectStatus
    BY DEF EffectStatus
  <2>2. effects'[n] \in Seq(EffectStatus)
    BY <1>1, <2>1, AppendProperties
  <2> QED BY <1>1, <2>1, <2>2, AppendProperties, LenProperties
<1>3. \A p \in applied[n] : p[2] # Len(effects'[n])
  BY <1>2 DEF FileInv, ChangesKnown
<1>4. <<attempt[n], Len(effects'[n])>> \notin applied[n]
  BY <1>3
<1>5. ToolHolds(n)'
  BY <1>1, <1>2, <1>4 DEF ToolHolds, Publishing, Settling
<1>6. ChangesKnown(n)'
  BY <1>1, <1>2 DEF FileInv, ChangesKnown
<1> QED BY <1>1, <1>5, <1>6 DEF FileInv, Reported

\* A settlement is published under the outcome the tool knows: "not_applied" only
\* for an effect that never was.
LEMMA SettledFile ==
    ASSUME WorkflowTypeOK, NEW n \in Nodes, FileInv(n), tool[n] \in Settling,
           NodeEffectSettled(n, Len(effects[n]), Settlement(tool[n])),
           tool'[n] = "none", UNCHANGED <<applied, pc>>
    PROVE  FileInv(n)'
<1> USE DEF WorkflowTypeOK, TypeOK
<1> DEFINE i == Len(effects[n])
           r == Settlement(tool[n])
<1>1. /\ UNCHANGED <<status, attempt, error>> /\ status[n] = "running"
      /\ effects'[n] = [effects[n] EXCEPT ![i] = r]
  BY DEF NodeEffectSettled, NodeEffectSettledOk, EffectOpen
<1>2. r \in Settlements /\ (r \in NotApplied => tool[n] = "settle_not_applied")
  BY DEF Settling, Settlement, Settlements, NotApplied
<1>3. ASSUME NEW p \in applied[n]
      PROVE  /\ p[1] = attempt[n] /\ p[2] \in DOMAIN effects'[n]
             /\ effects'[n][p[2]] \notin NotApplied
  <2>1. p[1] = attempt[n] /\ p[2] \in DOMAIN effects[n] /\ effects[n][p[2]] \notin NotApplied
    BY DEF FileInv, ChangesKnown
  <2>2. p = <<attempt[n], p[2]>>
    BY <2>1
  <2>3. p[2] = i => r \notin NotApplied
    BY <1>2, <2>2 DEF FileInv, ToolHolds
  <2> QED BY <1>1, <2>1, <2>3
<1>4. ToolHolds(n)'
  BY DEF ToolHolds, Publishing, Settling
<1> QED BY <1>1, <1>3, <1>4 DEF FileInv, ChangesKnown, Reported

\* Every step of a tool keeps the invariant.
LEMMA ToolFiles ==
    ASSUME WorkflowTypeOK, RoundInv, FilesInv, NEW n \in Nodes,
           \/ ToolBegins(n) \/ ToolPublishes(n) \/ ToolApplies(n) \/ ToolSettles(n)
           \/ ToolPublicationFails(n)
    PROVE  FilesInv'
<1>1. FileInv(n)
  BY DEF FilesInv
<1>2. ASSUME NEW m \in Nodes \ {n} PROVE FileInv(m)'
  <2>1. Same(m) /\ pc' = pc
    BY DEF ToolBegins, ToolPublishes, ToolPrepared, ToolSettled, ToolRejected, ToolApplies,
       ToolSettles, ToolPublicationFails, NodeEffectPrepared, NodeEffectSettled, SetTool,
       Same, ledgerVars, callVars, WorkflowTypeOK, TypeOK
  <2> QED BY <2>1, FileFrame DEF FilesInv, FileInv, ToolHolds
<1>3. ASSUME ToolPrepared(n) PROVE FileInv(n)'
  BY <1>1, <1>3, PreparedFile DEF ToolPrepared, SetTool, callVars, WorkflowTypeOK
<1>4. ASSUME ToolSettled(n) PROVE FileInv(n)'
  BY <1>1, <1>4, SettledFile DEF ToolSettled, SetTool, callVars, WorkflowTypeOK
<1>5. ASSUME ToolPublicationFails(n) PROVE FileInv(n)'
  <2>1. tool'[n] = "none" /\ UNCHANGED <<applied, pc>>
    BY <1>5 DEF ToolPublicationFails, SetTool, WorkflowTypeOK
  <2>2. CASE UNCHANGED ledgerVars
    BY <1>1, <2>1, <2>2 DEF ledgerVars, FileInv, ToolHolds, ChangesKnown, Reported,
       AllSettled, Some, Publishing, Settling
  <2> QED BY <1>1, <1>5, <2>1, <2>2, PreparedFile, SettledFile DEF ToolPublicationFails
<1>6. FileInv(n)'
  BY <1>1, <1>3, <1>4, <1>5, ToolFile DEF ToolPublishes
<1> QED BY <1>2, <1>6 DEF FilesInv

\* What a call or the operator publishes keeps the invariant.
LEMMA WorkFiles ==
    ASSUME WorkflowTypeOK, WorkInv, EffectsDeclared, FilesInv, [WorkNext]_ledgerVars,
           UNCHANGED <<tool, applied>>, pc # "execute"
    PROVE  FilesInv'
<1>1. CASE RunStarted \/ TerminalEvent \/ UNCHANGED ledgerVars
  <2>1. UNCHANGED <<status, attempt, error, effects>>
    BY <1>1 DEF RunStarted, TerminalEvent, RunSucceeded, RunFailed, RunCancelled,
       RunBudgetExhausted, Conclude, ledgerVars
  <2> QED BY <2>1, QuietFiles
<1>2. ASSUME NEW n \in Nodes, WorkEvent(n) PROVE FilesInv'
  BY <1>2, PendingFiles, FinishFiles DEF WorkEvent
<1> QED BY <1>1, <1>2 DEF WorkNext

\* Every step of a scheduler keeps the invariant.
LEMMA SchedulerFiles ==
    ASSUME SchedulerInv, FilesInv, SchedulerStep
    PROVE  FilesInv'
<1>1. WorkflowTypeOK /\ WorkInv /\ EffectsDeclared /\ FailurePending
  BY DEF SchedulerInv
<1>2. CASE Reconcile
  <2>1. First(OpenEffects) \in Nodes
    BY <1>2, FirstIsLeast, GraphAssumption DEF Reconcile, OpenEffects, Running, With
  <2> QED BY <1>1, <1>2, <2>1, ObservedFiles DEF Reconcile, worldVars
<1>3. CASE Dispose
  <2>1. First(Disposable) \in Nodes
    BY <1>3, FirstIsLeast, GraphAssumption DEF Dispose, Disposable, Running, With
  <2> QED BY <1>1, <1>3, <2>1, FinishFiles DEF Dispose, Finishes, worldVars
<1>4. CASE \/ Reconciled \/ RecoveryRefused \/ RunResumed \/ Launch \/ Collect
           \/ SettleRefused \/ Settled
  <2>1. /\ UNCHANGED <<status, attempt, error, effects, tool, applied>>
        /\ pc = "execute" => \A n \in Nodes : tool[n] \notin Publishing
    BY <1>4 DEF Reconciled, RecoveryRefused, RunResumed, Launch, Collect, SettleRefused,
       Settled, ledgerVars, worldVars
  <2> QED BY <2>1, QuietFiles
<1>5. CASE \/ Begin \/ Loop \/ ControlFailed \/ Decide \/ DenialFails
           \/ AdmitControl \/ AdmitUnapproved \/ AdmitExecution \/ SettleNext
  <2>1. pc # "execute" /\ UNCHANGED <<tool, applied>>
    BY <1>5 DEF Begin, Loop, ControlFailed, Decide, DenialFails, AdmitControl,
       AdmitUnapproved, AdmitExecution, SettleNext, worldVars
  <2>2. [WorkNext]_ledgerVars
    BY <1>1, <1>5, LoopIsOrderly, AdmissionIsOrderly, SettleIsOrderly
  <2> QED BY <1>1, <2>1, <2>2, WorkFiles
<1> QED BY <1>2, <1>3, <1>4, <1>5 DEF SchedulerStep, RecoveryStep

\* So does everything else.
LEMMA StepFiles ==
    ASSUME SchedulerInv, RoundInv, FilesInv, [WorkflowNext]_workflowVars
    PROVE  FilesInv'
<1>1. WorkflowTypeOK /\ WorkInv /\ EffectsDeclared
  BY DEF SchedulerInv
<1>2. CASE UNCHANGED workflowVars
  BY <1>2, QuietFiles DEF workflowVars, ledgerVars, callVars, worldVars
<1>3. CASE SchedulerStep
  BY <1>3, SchedulerFiles
<1>4. CASE StartRun \/ Resume \/ OperatorApproves \/ OperatorDenies
  <2>1. pc # "execute" /\ UNCHANGED <<tool, applied>>
    BY <1>4 DEF StartRun, Resume, OperatorApproves, OperatorDenies, worldVars
  <2>2. [WorkNext]_ledgerVars
    BY <1>4, OperatorIsOrderly, QuietSteps
  <2> QED BY <1>1, <2>1, <2>2, WorkFiles
<1>5. CASE TimePasses \/ Abort
  BY <1>5, QuietFiles DEF TimePasses, GrantLapses, Abort, callVars, worldVars, ledgerVars
<1>6. CASE StoreFails
  BY <1>6, QuietFiles DEF StoreFails, ledgerVars
<1>7. CASE Crash
  <2>1. /\ UNCHANGED <<status, attempt, error, effects, applied>>
        /\ \A n \in Nodes : tool'[n] = "none"
    BY <1>7 DEF Crash, ledgerVars
  <2> QED BY <2>1 DEF FilesInv, FileInv, ToolHolds, ChangesKnown, Reported, AllSettled,
         Some, Publishing, Settling
<1>8. ASSUME NEW n \in Nodes,
             \/ ToolBegins(n) \/ ToolPublishes(n) \/ ToolApplies(n) \/ ToolSettles(n)
             \/ ToolPublicationFails(n)
      PROVE  FilesInv'
  BY <1>1, <1>8, ToolFiles
<1>9. ASSUME NEW n \in Nodes, ExecutorReturns(n) PROVE FilesInv'
  BY <1>9, QuietFiles DEF ExecutorReturns, ExecutorSucceeds, ExecutorFails, ExecutorThrows,
     Returns, ledgerVars, worldVars
<1> QED BY <1>2, <1>3, <1>4, <1>5, <1>6, <1>7, <1>8, <1>9 DEF WorkflowNext

\* The invariant holds before the run exists.
LEMMA InitFiles == WorkflowInit => RoundInv /\ FilesInv
<1> SUFFICES ASSUME WorkflowInit PROVE RoundInv /\ FilesInv
  OBVIOUS
<1>1. RoundInv
  BY DEF WorkflowInit, Init, RoundInv, Quiet, With, CallOpen, RoundRuns, RecoveryPhases,
     RoundSorted, RoundAhead, RoundExecutes
<1>2. FilesInv
  BY DEF WorkflowInit, Init, FilesInv, FileInv, ToolHolds, ChangesKnown, Reported,
     AllSettled, Some, Publishing, Settling
<1> QED BY <1>1, <1>2

\* So it holds of every workflow.
LEMMA FilesInvariant == WorkflowSafety => [](SchedulerInv /\ RoundInv /\ FilesInv)
<1>1. WorkflowInit => RoundInv /\ FilesInv
  BY InitFiles
<1>2. SchedulerInv /\ RoundInv /\ FilesInv /\ [WorkflowNext]_workflowVars =>
         RoundInv' /\ FilesInv'
  BY StepRound, StepFiles
<1> QED BY <1>1, <1>2, SchedulerInvariant, PTL DEF WorkflowSafety

\* However often a run is retried, recovered, aborted or crashed, and however late a
\* tool that outlived its call changes its file, at most one attempt of a node has
\* changed files.
THEOREM NoSecondApplication == WorkflowSafety => []AppliedOnce
<1>1. FilesInv => AppliedOnce
  <2> SUFFICES ASSUME FilesInv, NEW n \in Nodes
               PROVE  Cardinality({p[1] : p \in applied[n]}) <= 1
    BY DEF AppliedOnce
  <2>1. {p[1] : p \in applied[n]} \subseteq {attempt[n]}
    BY DEF FilesInv, FileInv, ChangesKnown
  <2>2. IsFiniteSet({attempt[n]}) /\ Cardinality({attempt[n]}) = 1
    BY FS_Singleton
  <2> QED BY <2>1, <2>2, FS_Subset
<1> QED BY <1>1, FilesInvariant, PTL

\* A run that has concluded accounts for every file: no tool can still change one,
\* every change is in the journal of the latest attempt as committed or unknown,
\* and no failed node denies one.
THEOREM ConclusionIsTruthful == WorkflowSafety => []ConclusionAccountsForFiles
<1>1. SchedulerInv /\ RoundInv /\ FilesInv => ConclusionAccountsForFiles
  <2> SUFFICES ASSUME SchedulerInv, RoundInv, FilesInv, runStatus \in Terminal,
                      NEW n \in Nodes
               PROVE  /\ tool[n] = "none"
                      /\ \A p \in applied[n] :
                            /\ p[1] = attempt[n] /\ p[2] \in DOMAIN effects[n]
                            /\ effects[n][p[2]] \in {"committed", "unknown"}
                      /\ status[n] = "failed" /\ applied[n] # {} =>
                            error[n].sideEffectStatus # "none"
    BY DEF ConclusionAccountsForFiles
  <2>1. status[n] # "running"
    BY DEF RoundInv, Quiet, With
  <2>2. tool[n] = "none" /\ AllSettled(n)
    BY <2>1 DEF FilesInv, FileInv, ToolHolds, Reported
  <2>3. \A p \in applied[n] : /\ p[1] = attempt[n] /\ p[2] \in DOMAIN effects[n]
                              /\ effects[n][p[2]] \in {"committed", "unknown"}
    BY <2>2 DEF FilesInv, FileInv, ChangesKnown, AllSettled, Settlements, NotApplied
  <2>4. applied[n] # {} => Some(n, "committed") \/ Some(n, "unknown")
    BY <2>3 DEF Some
  <2> QED BY <2>2, <2>3, <2>4 DEF FilesInv, FileInv, Reported
<1> QED BY <1>1, FilesInvariant, PTL

-----------------------------------------------------------------------------
(* Open attempts.  Without a crash or a store failure only one thing makes *)
(* a call return while an attempt is open: the ledger refused its outcome, *)
(* and it can refuse only what an effect journal contradicts.              *)

\* Every executor of a round has returned when the round is settled, and what it
\* returned fits a journal that is still empty.
OutcomeFits(n) ==
    /\ pc = "execute" /\ InRound(n) => exec[n] # "idle"
    /\ pc = "settle" /\ InRound(n) => exec[n] = "done"
    /\ pc \in {"execute", "settle"} /\ exec[n] = "done" =>
          /\ outcome[n].result # "none"
          /\ effects[n] = <<>> =>
                /\ outcome[n].receipts = {}
                /\ n \in Writable => outcome[n].failure.sideEffectStatus # "committed"

OutcomesFit == \A n \in Nodes : OutcomeFits(n)

\* An agent whose journal made the ledger refuse its outcome, now or in an attempt
\* that a recovery has disposed of.
Refusal ==
    \E n \in Writable : \/ n \in Running /\ effects[n] # <<>>
                       \/ interruptedAttempts[n] # {}

\* The strengthening of OpenOnlyByRefusal: the recovery keeps the reason.
OpenInv ==
    /\ failures = 0 => ~poisoned
    /\ failures = 0 /\ pc \in RecoveryPhases /\ Running # {} => Refusal

\* Only an admission puts a node to work, and it counts as a node start.
LEMMA OnlyAdmissionStarts ==
    ASSUME TypeOK, [Next]_ledgerVars, nodeStarts' = nodeStarts,
           NEW m \in Nodes, status'[m] = "running"
    PROVE  status[m] = "running"
<1> USE DEF TypeOK
<1>1. CASE RunStarted \/ TerminalEvent \/ UNCHANGED ledgerVars
  BY <1>1 DEF RunStarted, TerminalEvent, RunSucceeded, RunFailed, RunCancelled,
     RunBudgetExhausted, Conclude, ledgerVars
<1>2. ASSUME NEW n \in Nodes, ApprovalEvent(n) PROVE status[m] = "running"
  BY <1>2 DEF ApprovalEvent, CommandApprovalRequested, CommandApprovalGranted,
     CommandApprovalDenied, GrantLapses, CommandApprovalExpired,
     WorkflowApprovalRequested, WorkflowApprovalApproved, WorkflowApprovalDenied
<1>3. ASSUME NEW n \in Nodes, EffectEvent(n) PROVE status[m] = "running"
  BY <1>3 DEF EffectEvent, NodeEffectPrepared, NodeEffectSettled, NodeEffectReconciled
<1>4. ASSUME NEW n \in Nodes, AttemptEvent(n) PROVE status[m] = "running"
  <2>1. ~NodeStarted(n)
    BY DEF NodeStarted
  <2> QED BY <1>4, <2>1 DEF AttemptEvent, NodeSucceeded, NodeFailed,
         NodeAttemptInterrupted, NodeRetryScheduled, FreshAttempt
<1>5. ASSUME NEW n \in Nodes, ControlEvent(n) PROVE status[m] = "running"
  BY <1>5 DEF ControlEvent, NodeConditionEvaluated, NodeResultPublished, NodeJoined,
     ControlSucceeds, NodeControlFailed, NodeOmitted
<1> QED BY <1>1, <1>2, <1>3, <1>4, <1>5 DEF Next

\* While a round is executed or settled no journal is emptied.
LEMMA JournalsStay ==
    ASSUME WorkflowTypeOK, [WorkflowNext]_workflowVars, pc \in {"execute", "settle"},
           pc' \in {"execute", "settle"}, NEW n \in Nodes, effects'[n] = <<>>
    PROVE  effects[n] = <<>>
<1> USE DEF WorkflowTypeOK, TypeOK
<1>1. ASSUME NEW m \in Nodes, NodeEffectPrepared(m) PROVE effects[n] = <<>>
  <2>1. effects[m] \in Seq(EffectStatus) /\ "open" \in EffectStatus
    BY DEF EffectStatus
  <2>2. effects'[m] = Append(effects[m], "open")
    BY <1>1 DEF NodeEffectPrepared
  <2>3. Len(effects'[m]) = Len(effects[m]) + 1 /\ Len(effects[m]) \in Nat
    BY <2>1, <2>2, AppendProperties, LenProperties
  <2> HIDE DEF TypeOK, WorkflowTypeOK
  <2>4. effects'[m] # <<>>
    BY <2>3, EmptySeq
  <2> QED BY <1>1, <2>4 DEF NodeEffectPrepared, TypeOK, WorkflowTypeOK
<1>2. ASSUME NEW m \in Nodes, NodeEffectSettled(m, Len(effects[m]), Settlement(tool[m]))
      PROVE  effects[n] = <<>>
  <2>1. effects[m] # <<>> => effects'[m] # <<>>
    BY <1>2 DEF NodeEffectSettled, NodeEffectSettledOk, EffectOpen
  <2> QED BY <1>2, <2>1 DEF NodeEffectSettled
<1>3. CASE SettleNext
  BY <1>3 DEF SettleNext, NodeSucceeded, NodeFailed
<1>4. ASSUME NEW m \in Nodes, ToolPublishes(m) \/ ToolPublicationFails(m)
      PROVE  effects[n] = <<>>
  BY <1>1, <1>2, <1>4 DEF ToolPublishes, ToolPrepared, ToolSettled, ToolRejected,
     ToolPublicationFails, ledgerVars
<1>5. ASSUME NEW m \in Nodes,
             ToolBegins(m) \/ ToolApplies(m) \/ ToolSettles(m) \/ ExecutorReturns(m)
      PROVE  effects[n] = <<>>
  BY <1>5 DEF ToolBegins, ToolApplies, ToolSettles, ExecutorReturns, ExecutorSucceeds,
     ExecutorFails, ExecutorThrows, Returns, ledgerVars
<1>6. CASE Launch \/ Collect \/ SettleRefused \/ Settled \/ TimePasses \/ Abort
  BY <1>6 DEF Launch, Collect, SettleRefused, Settled, TimePasses, GrantLapses, Abort,
     ledgerVars
<1>7. CASE UNCHANGED workflowVars
  BY <1>7 DEF workflowVars, ledgerVars
<1>8. CASE \/ StartRun \/ Resume \/ OperatorApproves \/ OperatorDenies \/ Crash
           \/ StoreFails
  BY <1>8 DEF StartRun, Resume, OperatorApproves, OperatorDenies, Crash, StoreFails, Return
<1>9. CASE \/ RecoveryStep \/ Begin \/ Loop \/ AdmitControl \/ ControlFailed
           \/ AdmitUnapproved \/ AdmitExecution \/ Decide \/ DenialFails
  BY <1>9 DEF RecoveryStep, Reconcile, Reconciled, Dispose, RecoveryRefused, RunResumed,
     Begin, Loop, AdmitControl, ControlFailed, AdmitUnapproved, AdmitExecution, Decide,
     DenialFails
<1> QED BY <1>3, <1>4, <1>5, <1>6, <1>7, <1>8, <1>9 DEF WorkflowNext, SchedulerStep

\* What an executor returns while its journal is empty has no receipt, and a writable
\* agent does not report an effect.
LEMMA ReturnFits ==
    ASSUME WorkflowTypeOK, NEW n \in Nodes, ExecutorReturns(n)
    PROVE  /\ pc = "execute" /\ pc' = pc /\ UNCHANGED <<admitted, effects>>
           /\ exec' = [exec EXCEPT ![n] = "done"]
           /\ \A m \in Nodes \ {n} : outcome'[m] = outcome[m]
           /\ outcome'[n].result # "none"
           /\ effects[n] = <<>> =>
                 /\ outcome'[n].receipts = {}
                 /\ n \in Writable => outcome'[n].failure.sideEffectStatus # "committed"
<1> USE DEF WorkflowTypeOK
<1>1. effects[n] = <<>> => ReceiptsOf(n) = {}
  BY DEF ReceiptsOf
<1>2. StatusOf({}) = "none"
  BY DEF StatusOf
<1>3. PICK o : Returns(n, o)
  BY DEF ExecutorReturns, ExecutorSucceeds, ExecutorFails, ExecutorThrows
<1>4. /\ pc = "execute" /\ pc' = pc /\ UNCHANGED <<admitted, effects>>
      /\ exec' = [exec EXCEPT ![n] = "done"]
      /\ \A m \in Nodes \ {n} : outcome'[m] = outcome[m]
  BY <1>3 DEF Returns, RecorderOpen, ledgerVars
<1>5. ASSUME NEW x, Returns(n, x) PROVE outcome'[n] = x
  BY <1>5 DEF Returns
<1>6. CASE ExecutorSucceeds(n)
  <2>1. PICK a \in Accountings \ {"none"} :
           Returns(n, Outcome("succeeded", [AbortFailure EXCEPT !.accounting = a], ReceiptsOf(n)))
    BY <1>6 DEF ExecutorSucceeds
  <2>2. outcome'[n] = Outcome("succeeded", [AbortFailure EXCEPT !.accounting = a], ReceiptsOf(n))
    BY <1>5, <2>1
  <2> QED BY <1>1, <1>4, <2>2 DEF Outcome, AbortFailure
<1>7. CASE ExecutorFails(n)
  <2>1. PICK f \in FailuresOf(n) : Returns(n, Outcome("failed", f, ReceiptsOf(n)))
    BY <1>7 DEF ExecutorFails
  <2>2. outcome'[n] = Outcome("failed", f, ReceiptsOf(n))
    BY <1>5, <2>1
  <2>3. effects[n] = <<>> /\ n \in Writable => f.sideEffectStatus # "committed"
    BY <1>1, <1>2, PolicyAssumption DEF FailuresOf
  <2> QED BY <1>1, <1>4, <2>2, <2>3 DEF Outcome
<1>8. CASE ExecutorThrows(n)
  <2>1. outcome'[n] = Outcome("failed", AbortFailure, {})
    BY <1>5, <1>8 DEF ExecutorThrows
  <2> QED BY <1>4, <2>1 DEF Outcome, AbortFailure
<1> QED BY <1>6, <1>7, <1>8 DEF ExecutorReturns

\* Every step keeps the outcomes of the round fit for its journals.
LEMMA StepFits ==
    ASSUME WorkflowTypeOK, RoundInv, OutcomesFit, [WorkflowNext]_workflowVars
    PROVE  OutcomesFit'
<1> SUFFICES ASSUME NEW n \in Nodes, pc' \in {"execute", "settle"} PROVE OutcomeFits(n)'
  BY DEF OutcomesFit, OutcomeFits
<1>1. OutcomeFits(n)
  BY DEF OutcomesFit
<1>2. CASE Launch
  <2>1. /\ exec' = [m \in Nodes |-> CASE ~InRound(m) -> "idle"
                                      [] InRound(m) /\ aborted -> "done"
                                      [] OTHER -> "running"]
        /\ outcome' = [m \in Nodes |-> IF InRound(m) /\ aborted
                                       THEN Outcome("failed", AbortFailure, {})
                                       ELSE NoOutcome]
        /\ pc' = "execute" /\ admitted' = admitted
    BY <1>2 DEF Launch
  <2>2. InRound(n)' <=> InRound(n)
    BY <2>1 DEF InRound
  <2>3. CASE InRound(n) /\ aborted
    BY <2>1, <2>2, <2>3 DEF OutcomeFits, Outcome, AbortFailure
  <2>4. CASE ~(InRound(n) /\ aborted)
    BY <2>1, <2>2, <2>4 DEF OutcomeFits
  <2> QED BY <2>3, <2>4
<1>3. ASSUME pc \in {"execute", "settle"}, pc' = pc, UNCHANGED <<exec, outcome>>,
             InRound(n)' => InRound(n)
      PROVE  OutcomeFits(n)'
  <2>1. effects'[n] = <<>> => effects[n] = <<>>
    BY <1>3, JournalsStay
  <2> QED BY <1>1, <1>3, <2>1 DEF OutcomeFits
<1>4. CASE Collect
  <2>1. /\ pc = "execute" /\ pc' = "settle" /\ UNCHANGED <<exec, outcome, admitted, effects>>
        /\ exec[n] # "running"
    BY <1>4 DEF Collect, GoTo, ledgerVars
  <2>2. InRound(n) => exec[n] = "done"
    BY <1>1, <2>1 DEF OutcomeFits, WorkflowTypeOK
  <2> QED BY <1>1, <2>1, <2>2 DEF OutcomeFits, InRound
<1>5. CASE SettleNext
  <2>1. /\ pc = "settle" /\ pc' = pc /\ UNCHANGED <<exec, outcome>> /\ admitted # <<>>
        /\ admitted' = Tail(admitted) /\ admitted \in Seq(Nodes)
    BY <1>5 DEF SettleNext, WorkflowTypeOK
  <2>2. InRound(n)' => InRound(n)
    <3>1. /\ DOMAIN admitted = 1 .. Len(admitted) /\ Len(admitted) \in Nat
          /\ DOMAIN admitted' = 1 .. Len(admitted) - 1
          /\ \A k \in 1 .. Len(admitted) - 1 : admitted'[k] = admitted[k + 1]
      BY <2>1, ShortenedRound
    <3>2. ASSUME NEW k \in DOMAIN admitted', admitted'[k] = n PROVE InRound(n)
      <4>1. k + 1 \in DOMAIN admitted /\ admitted[k + 1] = n
        BY <3>1, <3>2
      <4> QED BY <4>1 DEF InRound
    <3> QED BY <3>2 DEF InRound
  <2> QED BY <1>3, <2>1, <2>2
<1>6. ASSUME NEW m \in Nodes, ExecutorReturns(m) PROVE OutcomeFits(n)'
  <2>1. /\ pc = "execute" /\ pc' = pc /\ UNCHANGED <<admitted, effects>>
        /\ exec' = [exec EXCEPT ![m] = "done"]
        /\ \A k \in Nodes \ {m} : outcome'[k] = outcome[k]
        /\ outcome'[m].result # "none"
        /\ effects[m] = <<>> =>
              /\ outcome'[m].receipts = {}
              /\ m \in Writable => outcome'[m].failure.sideEffectStatus # "committed"
    BY <1>6, ReturnFits
  <2>2. CASE n = m
    BY <2>1, <2>2 DEF OutcomeFits, WorkflowTypeOK
  <2>3. CASE n # m
    BY <1>1, <2>1, <2>3 DEF OutcomeFits, InRound, WorkflowTypeOK
  <2> QED BY <2>2, <2>3
<1>7. ASSUME NEW m \in Nodes,
             \/ ToolBegins(m) \/ ToolPublishes(m) \/ ToolApplies(m) \/ ToolSettles(m)
             \/ ToolPublicationFails(m)
      PROVE  OutcomeFits(n)'
  <2>1. UNCHANGED <<pc, admitted, exec, outcome>>
    BY <1>7 DEF ToolBegins, ToolPublishes, ToolPrepared, ToolSettled, ToolRejected,
       ToolApplies, ToolSettles, ToolPublicationFails, callVars
  <2> QED BY <1>3, <2>1 DEF InRound
<1>8. CASE TimePasses \/ Abort \/ UNCHANGED workflowVars
  <2>1. UNCHANGED <<pc, admitted, exec, outcome>>
    BY <1>8 DEF TimePasses, Abort, workflowVars, callVars
  <2> QED BY <1>3, <2>1 DEF InRound
<1>9. CASE \/ StartRun \/ Resume \/ OperatorApproves \/ OperatorDenies \/ Crash
           \/ StoreFails \/ RecoveryStep \/ Begin \/ Loop \/ AdmitControl
           \/ ControlFailed \/ AdmitUnapproved \/ AdmitExecution \/ SettleRefused
           \/ Settled \/ Decide \/ DenialFails
  BY <1>9 DEF StartRun, Resume, OperatorApproves, OperatorDenies, Crash, StoreFails,
     RecoveryStep, Reconcile, Reconciled, Dispose, RecoveryRefused, RunResumed, Begin,
     Loop, AdmitControl, ControlFailed, AdmitUnapproved, AdmitExecution, SettleRefused,
     Settled, Decide, DenialFails, Exhaust, Cancel, Retry, Fail, GoTo, Return, callVars
<1> QED BY <1>2, <1>4, <1>5, <1>6, <1>7, <1>8, <1>9 DEF WorkflowNext, SchedulerStep

\* The head of the round is the attempt whose outcome the ledger waits for.
LEMMA HeadIsNext ==
    ASSUME WorkflowTypeOK, RoundInv, pc = "settle", admitted # <<>>
    PROVE  Head(admitted) \in Nodes /\ InRound(Head(admitted)) /\ NextOutcome(Head(admitted))
<1> DEFINE N == Head(admitted)
           R == With("running")
<1>1. /\ DOMAIN admitted = 1 .. Len(admitted) /\ Len(admitted) \in Nat /\ Len(admitted) > 0
      /\ N = admitted[1] /\ N \in Nodes /\ \A k \in DOMAIN admitted : admitted[k] \in Nat
  <2>1. admitted \in Seq(Nodes)
    BY DEF WorkflowTypeOK
  <2> QED BY <2>1, ShortenedRound
<1> HIDE DEF N
<1>2. InRound(N)
  BY <1>1 DEF InRound
<1>3. \A m \in Nodes : m \in R <=> InRound(m)
  BY DEF RoundInv, RoundRuns, RecoveryPhases, With
<1>4. N \in R /\ \A m \in R : N <= m
  <2>1. ASSUME NEW m \in R PROVE N <= m
    <3>1. m \in Nodes
      BY DEF With
    <3>2. PICK k \in DOMAIN admitted : admitted[k] = m
      BY <1>3, <3>1 DEF InRound
    <3>3. k = 1 \/ admitted[1] < admitted[k]
      BY <1>1 DEF RoundInv, RoundSorted
    <3> QED BY <1>1, <3>2, <3>3
  <2> QED BY <1>1, <1>2, <1>3, <2>1
<1>5. R \in SUBSET Nat
  BY GraphAssumption DEF With
<1>6. First(R) \in R /\ \A m \in R : First(R) <= m
  BY <1>4, <1>5, FirstIsLeast
<1>7. N = First(R)
  BY <1>4, <1>5, <1>6
<1>8. Active /\ status[N] = "running"
  BY <1>4 DEF RoundInv, CallOpen, With
<1> QED BY <1>1, <1>2, <1>7, <1>8 DEF NextOutcome, N

\* The ledger takes every outcome of an attempt whose journal is empty.
LEMMA EmptyJournalAccepted ==
    ASSUME WorkflowTypeOK, NEW n \in Nodes, NextOutcome(n), effects[n] = <<>>,
           outcome[n].result # "none", outcome[n].receipts = {},
           n \in Writable => outcome[n].failure.sideEffectStatus # "committed"
    PROVE  LET o == Authoritative(n)
           IN  /\ o.result = "failed" => NodeFailedOk(n, o.failure, o.receipts)
               /\ \E v \in Values : NodeSucceededOk(n, v, o.receipts)
<1>1. DOMAIN effects[n] = {} /\ AllSettled(n) /\ (\A r : ~Some(n, r)) /\ ReceiptsOf(n) = {}
  BY DEF AllSettled, Some, ReceiptsOf
<1>2. outcome[n] \in Outcomes
  BY DEF WorkflowTypeOK
<1>3. /\ Authoritative(n).receipts = {}
      /\ n \in Writable => Authoritative(n).failure.sideEffectStatus # "committed"
  BY <1>1, <1>2 DEF Authoritative, JournalStatus, Outcomes, Failures, Accountings
<1>4. PICK v \in Values : v # Truncated
  BY GraphAssumption
<1>5. NodeSucceededOk(n, v, {})
  BY <1>1, <1>4 DEF NodeSucceededOk
<1>6. ASSUME NEW f, n \in Writable => f.sideEffectStatus # "committed"
      PROVE  NodeFailedOk(n, f, {})
  BY <1>1, <1>6 DEF NodeFailedOk
<1> QED BY <1>3, <1>5, <1>6

\* So what a call leaves open without a failure of the store has a journal.
LEMMA RefusedWithJournal ==
    ASSUME SchedulerInv, RoundInv, OutcomesFit, ~poisoned, SettleRefused
    PROVE  Refusal
<1> DEFINE N == Head(admitted)
<1>1. WorkflowTypeOK /\ EffectsDeclared
  BY DEF SchedulerInv
<1>2. pc = "settle" /\ admitted # <<>>
  BY DEF SettleRefused
<1>3. N \in Nodes /\ InRound(N) /\ NextOutcome(N)
  BY <1>1, <1>2, HeadIsNext
<1>4. /\ outcome[N].result # "none"
      /\ effects[N] = <<>> =>
            /\ outcome[N].receipts = {}
            /\ N \in Writable => outcome[N].failure.sideEffectStatus # "committed"
  BY <1>2, <1>3 DEF OutcomesFit, OutcomeFits
<1>5. LET o == Authoritative(N)
      IN  \/ o.result = "failed" /\ ~NodeFailedOk(N, o.failure, o.receipts)
          \/ \A v \in Values : ~NodeSucceededOk(N, v, o.receipts)
  BY DEF SettleRefused
<1>6. effects[N] # <<>>
  BY <1>1, <1>3, <1>4, <1>5, EmptyJournalAccepted
<1>7. N \in Writable /\ N \in Running
  BY <1>1, <1>3, <1>6 DEF EffectsDeclared, NextOutcome, Running, With
<1> QED BY <1>6, <1>7 DEF Refusal

\* A step that leaves the journals and the running nodes alone keeps the reason.
LEMMA RefusalFrame ==
    ASSUME UNCHANGED <<status, effects, interruptedAttempts>>
    PROVE  Refusal' <=> Refusal
BY DEF Refusal, Running, With

\* Recovery only reconciles entries, which stay, or archives the attempt.
LEMMA RecoveryKeepsReason ==
    ASSUME WorkflowTypeOK, Refusal, Reconcile \/ Dispose
    PROVE  Refusal'
<1> USE PolicyAssumption DEF WorkflowTypeOK, TypeOK
<1>1. PICK n \in Writable : \/ n \in Running /\ effects[n] # <<>>
                           \/ interruptedAttempts[n] # {}
  BY DEF Refusal
<1>2. n \in Nodes
  OBVIOUS
<1>3. CASE Reconcile
  <2>1. PICK m, i, o : NodeEffectReconciled(m, i, o)
    BY <1>3 DEF Reconcile
  <2>2. UNCHANGED <<status, interruptedAttempts>>
    BY <2>1 DEF NodeEffectReconciled
  <2>3. effects[n] # <<>> => effects'[n] # <<>>
    BY <1>2, <2>1 DEF NodeEffectReconciled, EffectOpen
  <2> QED BY <1>1, <2>2, <2>3 DEF Refusal, Running, With
<1>4. CASE Dispose
  <2>1. PICK m : NodeAttemptInterrupted(m)
    BY <1>4 DEF Dispose
  <2>2. CASE n = m
    <3>1. attempt[n] \in interruptedAttempts'[n]
      BY <1>2, <2>1, <2>2 DEF NodeAttemptInterrupted
    <3> QED BY <3>1 DEF Refusal
  <2>3. CASE n # m
    BY <1>1, <1>2, <2>1, <2>3 DEF NodeAttemptInterrupted, FreshAttempt, Refusal, Running, With
  <2> QED BY <2>2, <2>3
<1> QED BY <1>3, <1>4

\* A call that returns before it has admitted anything leaves nothing open.
LEMMA NothingOpened ==
    ASSUME SchedulerInv, RoundInv, [WorkflowNext]_workflowVars, nodeStarts' = nodeStarts,
           pc \notin RecoveryPhases, admitted = <<>>
    PROVE  Running' = {}
<1>1. TypeOK /\ [Next]_ledgerVars
  BY StepIsNext DEF SchedulerInv, WorkflowTypeOK
<1>2. With("running") = {}
  BY NoRound
<1>3. \A m \in Nodes : status'[m] = "running" => status[m] = "running"
  BY <1>1, OnlyAdmissionStarts
<1> QED BY <1>2, <1>3 DEF Running, With

\* Every step keeps the reason for which an attempt was left open.
LEMMA StepOpen ==
    ASSUME SchedulerInv, RoundInv, FilesInv, OutcomesFit, OpenInv,
           [WorkflowNext]_workflowVars
    PROVE  OpenInv'
<1>1. WorkflowTypeOK /\ TypeOK /\ WaitingForOne /\ failures \in Nat
  BY FailureAssumption DEF SchedulerInv, WorkInv, LedgerInv, WorkflowTypeOK
<1>2. [Next]_ledgerVars
  BY StepIsNext DEF SchedulerInv
<1>3. ASSUME nodeStarts' = nodeStarts, Running' # {} PROVE Running # {}
  BY <1>1, <1>2, <1>3, OnlyAdmissionStarts DEF Running, With
<1>4. ASSUME UNCHANGED <<status, effects, interruptedAttempts, failures>>,
             poisoned' => poisoned, pc' \in RecoveryPhases => pc \in RecoveryPhases
      PROVE  OpenInv'
  BY <1>4, RefusalFrame DEF OpenInv, Running, With
<1>5. ASSUME poisoned' => poisoned, failures' = failures, pc' \notin RecoveryPhases
      PROVE  OpenInv'
  BY <1>5 DEF OpenInv
<1>6. ASSUME poisoned' => poisoned, failures' = failures, Running' = {} PROVE OpenInv'
  BY <1>6 DEF OpenInv
<1>7. CASE \/ UNCHANGED workflowVars \/ Resume \/ Reconciled \/ RecoveryRefused
           \/ TimePasses \/ Abort
  BY <1>4, <1>7 DEF workflowVars, ledgerVars, callVars, worldVars, Resume, Reconciled,
     RecoveryRefused, TimePasses, GrantLapses, Abort, GoTo, Return, RecoveryPhases
<1>8. CASE Reconcile \/ Dispose
  <2>1. /\ UNCHANGED <<failures, poisoned, nodeStarts>> /\ pc \in RecoveryPhases
    BY <1>8 DEF Reconcile, Dispose, NodeEffectReconciled, NodeAttemptInterrupted, callVars,
       worldVars, RecoveryPhases
  <2> QED BY <1>1, <1>3, <1>8, <2>1, RecoveryKeepsReason DEF OpenInv
<1>9. CASE \/ StartRun \/ RunResumed \/ AdmitExecution \/ Launch \/ Collect \/ SettleNext
           \/ Settled \/ OperatorDenies
  BY <1>5, <1>9 DEF StartRun, RunResumed, AdmitExecution, Launch, Collect, SettleNext,
     Settled, OperatorDenies, GoTo, worldVars, RecoveryPhases
<1>10. CASE SettleRefused
  <2>1. /\ poisoned' = FALSE /\ UNCHANGED <<failures, status, effects, interruptedAttempts>>
    BY <1>10 DEF SettleRefused, Return, ledgerVars, worldVars
  <2>2. ASSUME failures = 0 PROVE Refusal
    BY <1>10, <2>2, RefusedWithJournal DEF OpenInv
  <2> QED BY <2>1, <2>2, RefusalFrame DEF OpenInv
<1>11. CASE \/ Begin \/ Loop \/ ControlFailed \/ Decide \/ DenialFails \/ AdmitControl
            \/ AdmitUnapproved
  <2>1. /\ pc \in {"begin", "loop", "control_failed", "decide", "denied", "admit"}
        /\ pc = "admit" => admitted = <<>>
    BY <1>11 DEF Begin, Loop, ControlFailed, Decide, DenialFails, AdmitControl,
       AdmitUnapproved
  <2>2. admitted = <<>> /\ pc \notin RecoveryPhases
    BY <2>1 DEF RoundInv, CallOpen, RoundPhases, RecoveryPhases
  <2>3. (poisoned' => poisoned) /\ failures' = failures
    BY <1>11 DEF Begin, Loop, ControlFailed, Decide, DenialFails, AdmitControl,
       AdmitUnapproved, Exhaust, Cancel, Retry, Fail, GoTo, Return, worldVars
  <2>4. nodeStarts' = nodeStarts
    <3>1. CASE Begin \/ Loop \/ ControlFailed \/ Decide \/ DenialFails
      BY <3>1 DEF Begin, Loop, ControlFailed, Decide, DenialFails, Exhaust, Cancel, Retry,
         Fail, RunBudgetExhausted, RunCancelled, RunSucceeded, RunFailed, Conclude,
         NodeRetryScheduled, ledgerVars
    <3>2. CASE AdmitControl \/ AdmitUnapproved
      BY <3>2 DEF AdmitControl, AdmitUnapproved, ControlTransition, NodeOmitted,
         NodeJoined, NodeControlFailed, NodeConditionEvaluated, WorkflowApprovalRequested,
         NodeResultPublished, ControlSucceeds, CommandApprovalRequested,
         CommandApprovalExpired, ledgerVars
    <3> QED BY <1>11, <3>1, <3>2
  <2>5. Running' = {}
    BY <2>2, <2>4, NothingOpened
  <2> QED BY <1>6, <2>3, <2>5
<1>12. CASE OperatorApproves
  <2>1. Running = {} /\ UNCHANGED <<nodeStarts, poisoned, failures>>
    BY <1>1, <1>12 DEF OperatorApproves, CommandApprovalGranted, CommandApprovalPending,
       WorkflowApprovalApproved, WorkflowApprovalPending, WaitingForOne, Running, With,
       callVars, worldVars
  <2> QED BY <1>3, <1>6, <2>1
<1>13. CASE Crash \/ StoreFails \/ \E n \in Nodes : ToolPublicationFails(n)
  <2>1. failures' = failures + 1
    BY <1>13 DEF Crash, StoreFails, ToolPublicationFails, Fails
  <2> QED BY <1>1, <2>1 DEF OpenInv
<1>14. ASSUME NEW n \in Nodes, ToolApplies(n) \/ ToolSettles(n) \/ ToolRejected(n)
       PROVE  OpenInv'
  BY <1>4, <1>14 DEF ToolApplies, ToolSettles, ToolRejected, ledgerVars, callVars
<1>15. ASSUME NEW n \in Nodes,
              ToolBegins(n) \/ ToolPrepared(n) \/ ToolSettled(n) \/ ExecutorReturns(n)
       PROVE  OpenInv'
  <2>1. pc = "execute" /\ UNCHANGED <<pc, failures, poisoned>>
    <3>1. CASE ToolBegins(n) \/ ToolPrepared(n) \/ ToolSettled(n)
      BY <3>1 DEF ToolBegins, ToolPrepared, ToolSettled, RecorderOpen, FilesInv, FileInv,
         ToolHolds, Publishing, callVars
    <3>2. CASE ExecutorReturns(n)
      BY <3>2 DEF ExecutorReturns, ExecutorSucceeds, ExecutorFails, ExecutorThrows, Returns,
         RecorderOpen, worldVars
    <3> QED BY <1>15, <3>1, <3>2
  <2> QED BY <1>5, <2>1 DEF RecoveryPhases
<1> QED BY <1>7, <1>8, <1>9, <1>10, <1>11, <1>12, <1>13, <1>14, <1>15
       DEF WorkflowNext, SchedulerStep, RecoveryStep, ToolPublishes

\* Without a crash or a store failure, an attempt is left open only because of an
\* agent whose evidence contradicts its effect journal, or because a recovery has
\* disposed of such an agent and its siblings are still open.
THEOREM OpenAttemptsHaveAReason == WorkflowSafety => []OpenOnlyByRefusal
<1> DEFINE Inv == SchedulerInv /\ RoundInv /\ FilesInv
<1>1. WorkflowInit => OutcomesFit /\ OpenInv
  BY DEF WorkflowInit, Init, OutcomesFit, OutcomeFits, OpenInv, Running, With
<1>2. Inv /\ OutcomesFit /\ OpenInv /\ [WorkflowNext]_workflowVars => OutcomesFit' /\ OpenInv'
  BY StepFits, StepOpen DEF SchedulerInv
<1>3. OpenInv => OpenOnlyByRefusal
  BY DEF OpenInv, OpenOnlyByRefusal, Refusal, RecoveryPhases
<1>4. WorkflowSafety => []Inv
  BY FilesInvariant
<1> HIDE DEF Inv
<1> QED BY <1>1, <1>2, <1>3, <1>4, PTL DEF WorkflowSafety
=============================================================================
