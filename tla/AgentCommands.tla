--------------------------- MODULE AgentCommands ---------------------------
(***************************************************************************)
(* Commands that agents run inside their attempts, and the live approval   *)
(* of those commands by an operator: one wave of agents that may execute   *)
(* commands, from when its executors run to the end of the call of         *)
(* continueWorkflow that drives it.                                        *)
(*                                                                         *)
(* The owner is one event loop.  Everything that publishes goes through    *)
(* its publication queue (publish), and a publication that throws, because *)
(* the reducer refuses the event or the store fails, poisons the queue for *)
(* good.  Ledger order is the order in which publications are queued, so a *)
(* publication is one step together with the code that queues it.  Human   *)
(* decisions go through a second queue (agentCommandApprovalTail), held    *)
(* from a request to its decision.  Operators are processes of their own:  *)
(* they read the ledger and, later, link a receipt into a directory the    *)
(* owner polls.                                                            *)
(*                                                                         *)
(* The attempts here can never be retried or given back (events.ts 10686), *)
(* so an owner's death freezes the ledger in one of these states.          *)
(***************************************************************************)
EXTENDS Naturals, Sequences, FiniteSets

CONSTANTS
    N,            \* the wave: agents 1 .. N in declaration order
    MaxCommands,  \* MAX_AGENT_COMMANDS_PER_ATTEMPT
    Plans         \* the runs considered, see PlanType

Agents == 1 .. N

\* What is fixed for a run.  gated: agents with toolApproval.exec; editing: agents
\* that also have an effect journal; starts: the wave has used the last permitted
\* node start; artifacts: how many outputs of commands exhaust the artifact limit,
\* 0 for no limit.  Two bounds: the calls of each agent and the store failures.
PlanType == [gated : SUBSET Agents, editing : SUBSET Agents, starts : BOOLEAN, artifacts : Nat,
             calls : [Agents -> 0 .. MaxCommands], failures : Nat]

ASSUME AgentCommandAssumption ==
    /\ N \in Nat \ {0} /\ MaxCommands \in Nat \ {0}
    /\ Plans \subseteq PlanType

VARIABLES
    plan,       \* fixed for the run
    \* --- the ledger, as the owner has replayed it
    run,        \* RunState.status
    node,       \* [Agents -> {"running", "succeeded", "failed"}]
    error,      \* [Agents -> SideEffects]: sideEffectStatus of a failed agent
    approvals,  \* [Agents -> Seq]: status of each approval request
    commands,   \* [Agents -> Seq]: status of each prepared command
    artifacts,  \* outputs charged to the artifact limit
    \* --- operators and the decision channel
    seen,       \* requests some operator has read as pending
    receipts,   \* decision receipts linked so far, per request
    \* --- the owner's call
    call,       \* "up", or "ended" when it returned or threw
    aborted,    \* options.signal
    poison,     \* publicationFailure: what poisoned the queue first
    tail,       \* agentCommandApprovalTail: agents holding or awaiting it
    \* --- each attempt's executor and recorder
    tool,       \* the command call in flight
    started,    \* #started: calls begun
    unsure,     \* #uncertain
    stopped,    \* deadline, audit limit, artifact limit or unconfirmed end
    edited,     \* the attempt has a committed file effect
    result,     \* the outcome the executor returned
    \* --- observations
    late,       \* agents whose executor returned before their tool did
    faults      \* store failures so far

ledgerVars == <<run, node, error, approvals, commands, artifacts>>
channelVars == <<seen, receipts>>
attemptVars == <<tool, started, unsure, stopped, edited, result, late>>
vars == <<plan, ledgerVars, channelVars, call, aborted, poison, tail, attemptVars, faults>>

SideEffects == {"none", "committed", "uncertain"}
Outcome(status, effect) == [status |-> status, sideEffect |-> effect]
NoResult == Outcome("none", "none")

Requests == Agents \X (1 .. MaxCommands)

Init ==
    /\ plan \in Plans
    /\ run = "running" /\ node = [n \in Agents |-> "running"]
    /\ error = [n \in Agents |-> "none"]
    /\ approvals = [n \in Agents |-> <<>>] /\ commands = [n \in Agents |-> <<>>]
    /\ artifacts = 0
    /\ seen = {} /\ receipts = [r \in Requests |-> "none"]
    /\ call = "up" /\ aborted = FALSE /\ poison = "none" /\ tail = <<>>
    /\ tool = [n \in Agents |-> "idle"] /\ started = [n \in Agents |-> 0]
    /\ unsure = [n \in Agents |-> FALSE] /\ stopped = [n \in Agents |-> FALSE]
    /\ edited = [n \in Agents |-> FALSE] /\ result = [n \in Agents |-> NoResult]
    /\ late = {} /\ faults = 0

-----------------------------------------------------------------------------
(* The ledger's events (events.ts).                                        *)

Contains(s, statuses) == \E i \in DOMAIN s : s[i] \in statuses
Exhausted == plan.starts \/ (plan.artifacts > 0 /\ artifacts >= plan.artifacts)
Pending == {r \in Requests : r[2] \in DOMAIN approvals[r[1]] /\ approvals[r[1]][r[2]] = "pending"}

\* An agent has one command call at a time: its open request is its last.
OpenRequest(n) == <<n, Len(approvals[n])>>
LastApproval(n) == IF approvals[n] = <<>> THEN "none" ELSE approvals[n][Len(approvals[n])]
SetApproval(n, s) == approvals' = [approvals EXCEPT ![n][Len(approvals[n])] = s]

ApprovalRequestedOk(n) ==
    /\ run = "running" /\ ~Exhausted /\ node[n] = "running"
    /\ Len(approvals[n]) < MaxCommands
    /\ Pending = {}

ApprovalRequested(n) ==
    /\ approvals' = [approvals EXCEPT ![n] = Append(@, "pending")]
    /\ run' = "waiting"
    /\ UNCHANGED <<node, error, commands, artifacts>>

\* granted, denied and cancelled share their guard and return the run.
ApprovalDecidedOk(n) == run = "waiting" /\ node[n] = "running" /\ LastApproval(n) = "pending"

ApprovalDecided(n, decision) ==
    /\ SetApproval(n, decision)
    /\ run' = "running"
    /\ UNCHANGED <<node, error, commands, artifacts>>

ApprovalGrantOk(n) ==
    /\ run \in {"running", "waiting"} /\ node[n] = "running"
    /\ LastApproval(n) = "granted"

\* Mutant: an expired grant returns the run like the other decisions.
ApprovalExpiredReturns(n) ==
    /\ SetApproval(n, "expired")
    /\ run' = "running"
    /\ UNCHANGED <<node, error, commands, artifacts>>

\* Another agent's request may be pending meanwhile: the run stays as it is.
ApprovalExpired(n) ==
    /\ SetApproval(n, "expired")
    /\ UNCHANGED <<run, node, error, commands, artifacts>>

CommandPreparedOk(n) ==
    /\ node[n] = "running" /\ Len(commands[n]) < MaxCommands
    /\ ~Contains(commands[n], {"open", "unconfirmed"})
    /\ n \in plan.gated => LastApproval(n) = "granted"

\* Preparation consumes the grant in the same event.
CommandPrepared(n) ==
    /\ commands' = [commands EXCEPT ![n] = Append(@, "open")]
    /\ IF n \in plan.gated THEN SetApproval(n, "consumed") ELSE UNCHANGED approvals
    /\ UNCHANGED <<run, node, error, artifacts>>

CommandSettledOk(n) ==
    node[n] = "running" /\ commands[n] # <<>> /\ commands[n][Len(commands[n])] = "open"

\* Settlements with process evidence are charged to the artifact limit.
CommandSettled(n, settlement) ==
    /\ commands' = [commands EXCEPT ![n][Len(commands[n])] = settlement]
    /\ artifacts' = artifacts + (IF settlement = "none" THEN 0 ELSE 1)
    /\ UNCHANGED <<run, node, error, approvals>>

\* Mutant: an outcome does not wait for prepared commands.
OutcomeOfOpenCommand(n, o) ==
    /\ node[n] = "running" /\ \A m \in 1 .. n - 1 : node[m] # "running"
    /\ ~Contains(approvals[n], {"pending", "granted"})
    /\ o.status = "succeeded" => ~Contains(commands[n], {"unconfirmed"})
    /\ o.status = "failed" =>
          /\ Contains(commands[n], {"uncertain", "unconfirmed"}) => o.sideEffect = "uncertain"
          /\ Contains(commands[n], {"committed"}) => o.sideEffect # "none"

\* requireNextRunningOutcome, requireNoOpenAgentCommandApproval and
\* validateDurableAgentCommandProjection.
OutcomeOk(n, o) ==
    /\ node[n] = "running" /\ \A m \in 1 .. n - 1 : node[m] # "running"
    /\ ~Contains(approvals[n], {"pending", "granted"})
    /\ ~Contains(commands[n], {"open"})
    /\ o.status = "succeeded" => ~Contains(commands[n], {"unconfirmed"})
    /\ o.status = "failed" =>
          /\ Contains(commands[n], {"uncertain", "unconfirmed"}) => o.sideEffect = "uncertain"
          /\ Contains(commands[n], {"committed"}) => o.sideEffect # "none"

OutcomeRecorded(n, o) ==
    /\ node' = [node EXCEPT ![n] = o.status]
    /\ error' = [error EXCEPT ![n] = o.sideEffect]
    /\ UNCHANGED <<run, approvals, commands, artifacts>>

-----------------------------------------------------------------------------
(* The publication queue (publish, append).                                *)

Published(ok, Event) == poison = "none" /\ ok /\ Event /\ UNCHANGED <<poison, faults>>

\* The append fails, with or without its line becoming durable.
Fails(Event) ==
    /\ poison = "none" /\ faults < plan.failures
    /\ faults' = faults + 1 /\ poison' = "store"
    /\ Event \/ UNCHANGED ledgerVars

Refused(ok, cause) ==
    /\ poison = "none" /\ ~ok /\ poison' = cause
    /\ UNCHANGED <<ledgerVars, faults>>

Poisoned == poison # "none" /\ UNCHANGED <<ledgerVars, poison, faults>>

Throws(ok, cause, Event) == Poisoned \/ Refused(ok, cause) \/ (ok /\ Fails(Event))

-----------------------------------------------------------------------------
(* The approval gate and the command journal (run-workflow.ts), called by  *)
(* AgentCommandRecorder.execute.                                           *)

\* The signals an attempt's tool sees: the call's and its executor's.
Aborted(n) == aborted \/ stopped[n]
Goto(n, state) == tool' = [tool EXCEPT ![n] = state]
Leave == tail' = Tail(tail)
Same == UNCHANGED <<plan, channelVars, call, aborted, started, edited, result, late>>

\* flow_exec: the recorder is open and the tool not aborted.
CanBegin(n) ==
    /\ call = "up" /\ result[n] = NoResult /\ tool[n] = "idle"
    /\ ~Aborted(n) /\ started[n] < plan.calls[n]
    /\ started' = [started EXCEPT ![n] = @ + 1]
    /\ UNCHANGED <<plan, channelVars, call, aborted, unsure, stopped, edited, result, late>>

\* authorize: wait for the approval queue.
Authorize(n) ==
    /\ n \in plan.gated /\ CanBegin(n)
    /\ Goto(n, "queued") /\ tail' = Append(tail, n)
    /\ UNCHANGED <<ledgerVars, poison, faults>>

\* Without a gate the command is prepared at once.
PrepareUngated(n) ==
    /\ n \notin plan.gated /\ CanBegin(n)
    /\ \/ Published(CommandPreparedOk(n), CommandPrepared(n)) /\ Goto(n, "executing")
       \/ Throws(CommandPreparedOk(n), "refused", CommandPrepared(n)) /\ Goto(n, "idle")
    /\ UNCHANGED tail

\* Mutant: requests do not wait for each other's decisions.
AnyTurn(n) == call = "up" /\ tool[n] = "queued"

MyTurn(n) == call = "up" /\ tool[n] = "queued" /\ tail # <<>> /\ Head(tail) = n

\* serializeAgentCommandApproval: the signal is only looked at on one's turn.
TurnAborted(n) ==
    /\ MyTurn(n) /\ Aborted(n)
    /\ Goto(n, "idle") /\ Leave
    /\ UNCHANGED <<ledgerVars, poison, faults, unsure, stopped>> /\ Same

Request(n) ==
    /\ MyTurn(n) /\ ~Aborted(n)
    /\ \/ /\ Published(ApprovalRequestedOk(n), ApprovalRequested(n))
          /\ Goto(n, "waiting") /\ UNCHANGED tail
       \/ /\ Throws(ApprovalRequestedOk(n), IF Exhausted THEN "budget" ELSE "refused",
                    ApprovalRequested(n))
          /\ Goto(n, "idle") /\ Leave
    /\ UNCHANGED <<unsure, stopped>> /\ Same

\* Mutant: the receipt is looked up by the agent, not by the request.
ReceiptOfAgent(n) ==
    LET given == {r \in Requests : r[1] = n /\ receipts[r] # "none"} IN
    IF given = {} THEN "none" ELSE receipts[CHOOSE r \in given : TRUE]

\* waitForDecision polls the path of its own request.
Receipt(n) == receipts[OpenRequest(n)]

\* What ends the wait, in the order the gate looks at it; the abort is looked at
\* again inside the publication.
Decision(n) ==
    IF Aborted(n) THEN "cancelled"
    ELSE CASE Receipt(n) = "approve" -> "granted"
           [] Receipt(n) = "deny" -> "denied"
           [] OTHER -> "cancelled"

EndWait(n) ==
    /\ call = "up" /\ tool[n] = "waiting"
    /\ Aborted(n) \/ Receipt(n) # "none"
    /\ \/ /\ Published(ApprovalDecidedOk(n), ApprovalDecided(n, Decision(n)))
          /\ Goto(n, IF Decision(n) = "granted" THEN "granted" ELSE "idle")
       \/ /\ Throws(ApprovalDecidedOk(n), "refused", ApprovalDecided(n, Decision(n)))
          /\ Goto(n, "idle")
    /\ Leave
    /\ UNCHANGED <<unsure, stopped>> /\ Same

\* journal.prepare reads the clock when its publication runs.
Prepare(n) ==
    /\ call = "up" /\ tool[n] = "granted"
    /\ \/ Published(CommandPreparedOk(n), CommandPrepared(n)) /\ Goto(n, "executing")
       \/ Published(ApprovalGrantOk(n), ApprovalExpired(n)) /\ Goto(n, "idle")
       \/ Throws(CommandPreparedOk(n), "refused", CommandPrepared(n)) /\ Goto(n, "idle")
    /\ UNCHANGED <<tail, unsure, stopped>> /\ Same

\* executeAgentCommand returns and its outcome is settled: success, a failure
\* before launch, a failure of the process, or one nobody saw end.
Settle(n) ==
    /\ call = "up" /\ tool[n] = "executing"
    /\ \E settlement \in {"committed", "none", "uncertain", "unconfirmed"} :
          \/ /\ Published(CommandSettledOk(n), CommandSettled(n, settlement))
             /\ stopped' = [stopped EXCEPT ![n] =
                   \/ @ \/ settlement = "unconfirmed"
                   \/ plan.artifacts > 0 /\ artifacts' >= plan.artifacts]
             /\ UNCHANGED unsure
          \/ /\ Throws(CommandSettledOk(n), "refused", CommandSettled(n, settlement))
             /\ unsure' = [unsure EXCEPT ![n] = TRUE] /\ UNCHANGED stopped
    /\ Goto(n, "idle")
    /\ UNCHANGED tail /\ Same

\* The command ran but its output cannot be retained: executeAgentCommand throws
\* and nothing settles the prepared command.
RetainFails(n) ==
    /\ call = "up" /\ tool[n] = "executing"
    /\ faults < plan.failures /\ faults' = faults + 1
    /\ Goto(n, "idle") /\ unsure' = [unsure EXCEPT ![n] = TRUE]
    /\ UNCHANGED <<ledgerVars, poison, tail, stopped>> /\ Same

ToolStep(n) == TurnAborted(n) \/ Request(n) \/ EndWait(n) \/ Prepare(n) \/ Settle(n)

-----------------------------------------------------------------------------
(* The executor (pi-agent-executor.ts).                                    *)

Rest == UNCHANGED <<plan, ledgerVars, channelVars, call, poison, tail, tool, started, unsure, faults>>

\* An edit made and settled; RunWorkflow has its steps.
Edit(n) ==
    /\ call = "up" /\ n \in plan.editing /\ result[n] = NoResult /\ tool[n] = "idle"
    /\ ~Aborted(n) /\ ~edited[n]
    /\ edited' = [edited EXCEPT ![n] = TRUE]
    /\ Rest /\ UNCHANGED <<aborted, stopped, result, late>>

\* Mutant: the deadline does not run while a human decides.
DeadlineOfWork(n) ==
    /\ call = "up" /\ result[n] = NoResult /\ ~stopped[n] /\ tool[n] # "waiting"
    /\ stopped' = [stopped EXCEPT ![n] = TRUE]
    /\ Rest /\ UNCHANGED <<aborted, edited, result, late>>

\* timeoutMs passes, or the policy audit is full.
Deadline(n) ==
    /\ call = "up" /\ result[n] = NoResult /\ ~stopped[n]
    /\ stopped' = [stopped EXCEPT ![n] = TRUE]
    /\ Rest /\ UNCHANGED <<aborted, edited, result, late>>

\* currentSideEffectStatus: the effect recorder's and the command recorder's.
SideEffect(n) ==
    IF unsure[n] \/ Contains(commands[n], {"uncertain", "unconfirmed"}) THEN "uncertain"
    ELSE IF edited[n] \/ Contains(commands[n], {"committed"}) THEN "committed"
    ELSE "none"

Returns(n, o) ==
    /\ call = "up" /\ result[n] = NoResult
    /\ result' = [result EXCEPT ![n] = o]
    /\ Rest /\ UNCHANGED <<aborted, stopped, edited>>

\* The session ends by itself, well or not, after its last tool call.
Finish(n) ==
    /\ tool[n] = "idle" /\ ~Aborted(n)
    /\ \E status \in {"succeeded", "failed"} : Returns(n, Outcome(status, SideEffect(n)))
    /\ UNCHANGED late

\* Cut off: settlesAgentCleanupWithin waits for the tool, but no longer than the
\* grace period.
CutOff(n) ==
    /\ Aborted(n)
    /\ \/ tool[n] = "idle" /\ Returns(n, Outcome("failed", SideEffect(n))) /\ UNCHANGED late
       \/ tool[n] # "idle" /\ Returns(n, Outcome("failed", "uncertain")) /\ late' = late \cup {n}

-----------------------------------------------------------------------------
(* Settling the wave (continueWorkflow).                                   *)

\* abortedOutcome for a success that the abort overtakes, and then
\* normalizeWorkflowAbortEffectStatus, which looks at file effects only.
Authoritative(n) ==
    IF ~(aborted /\ result[n].status = "succeeded") THEN result[n]
    ELSE Outcome("failed", IF n \notin plan.editing THEN "uncertain"
                           ELSE IF edited[n] THEN "committed" ELSE "none")

AllReturned == \A n \in Agents : result[n] # NoResult
Frame == UNCHANGED <<plan, channelVars, aborted, tail, attemptVars>>

SettleNext ==
    /\ call = "up" /\ AllReturned
    /\ \E n \in Agents :
          /\ node[n] = "running" /\ \A m \in 1 .. n - 1 : node[m] # "running"
          /\ LET o == Authoritative(n) IN
             \/ Published(OutcomeOk(n, o), OutcomeRecorded(n, o)) /\ UNCHANGED call
             \/ Throws(OutcomeOk(n, o), "refused", OutcomeRecorded(n, o)) /\ call' = "ended"
    /\ Frame

\* Settlement limits before cancellation before failure; the wave is the last.
Conclusion ==
    IF plan.artifacts > 0 /\ artifacts >= plan.artifacts THEN "exhausted"
    ELSE IF aborted THEN "cancelled"
    ELSE IF \E n \in Agents : node[n] = "failed" THEN "failed" ELSE "succeeded"

Concluded == run' = Conclusion /\ UNCHANGED <<node, error, approvals, commands, artifacts>>

Conclude ==
    /\ call = "up" /\ \A n \in Agents : node[n] # "running"
    /\ Published(TRUE, Concluded) \/ Throws(TRUE, "refused", Concluded)
    /\ call' = "ended"
    /\ Frame

Abort ==
    /\ call = "up" /\ ~aborted /\ aborted' = TRUE
    /\ UNCHANGED <<plan, ledgerVars, channelVars, call, poison, tail, attemptVars, faults>>

-----------------------------------------------------------------------------
(* Operators: trySubmitAgentCommandApprovalDecision.  Any number of them   *)
(* may have read a request; the receipt is linked only if there is none.   *)

OperatorVars == <<plan, ledgerVars, call, aborted, poison, tail, attemptVars, faults>>

OperatorReads(r) ==
    /\ r \in Pending \ seen /\ seen' = seen \cup {r}
    /\ UNCHANGED <<OperatorVars, receipts>>

\* Approve, deny, or a file that is no receipt of this request.  Receipts linked
\* after the call has ended are left out: only the call reads them.
SubmitDecision(r) ==
    /\ call = "up" /\ r \in seen /\ receipts[r] = "none"
    /\ \E d \in {"approve", "deny", "invalid"} : receipts' = [receipts EXCEPT ![r] = d]
    /\ UNCHANGED <<OperatorVars, seen>>

-----------------------------------------------------------------------------
Next ==
    \/ SettleNext \/ Conclude \/ Abort
    \/ \E n \in Agents : \/ Authorize(n) \/ PrepareUngated(n) \/ ToolStep(n) \/ RetainFails(n)
                         \/ Edit(n) \/ Deadline(n) \/ Finish(n) \/ CutOff(n)
    \/ \E r \in Requests : OperatorReads(r) \/ SubmitDecision(r)

Spec == Init /\ [][Next]_vars

\* Promises that can go on do, timers fire; nothing is assumed of operators, of
\* the model behind an agent, or of what aborts a run.
FairSpec ==
    /\ Spec
    /\ WF_vars(SettleNext \/ Conclude)
    /\ \A n \in Agents : WF_vars(ToolStep(n)) /\ WF_vars(Deadline(n)) /\ WF_vars(CutOff(n))

-----------------------------------------------------------------------------
(* Properties.                                                             *)

\* The run says it waits exactly while one request is pending, whatever other
\* agents have granted, expired, prepared or settled in the meantime.
WaitingMeansPending ==
    /\ Cardinality(Pending) <= 1
    /\ run = "waiting" <=> Pending # {}

\* No command of a gated agent was prepared without an approval of its own: each
\* has consumed one request that an operator approved, denials and cancellations
\* have their reason, and a receipt that comes too late changes nothing.
OnlyApprovedRan ==
    \A n \in plan.gated :
        /\ Len(commands[n]) = Cardinality({i \in DOMAIN approvals[n] : approvals[n][i] = "consumed"})
        /\ \A i \in DOMAIN approvals[n] :
              /\ approvals[n][i] \in {"granted", "consumed", "expired"} => receipts[<<n, i>>] = "approve"
              /\ approvals[n][i] = "denied" => receipts[<<n, i>>] = "deny"
              /\ approvals[n][i] = "cancelled" => Aborted(n) \/ receipts[<<n, i>>] = "invalid"

\* A recorded outcome is final and true: no command of the attempt is running or
\* will run, and a failure without side effects means that none had any.
OutcomeTellsCommands ==
    \A n \in Agents : node[n] # "running" =>
        /\ tool[n] \in {"idle", "queued"}
        /\ ~Contains(commands[n], {"open"})
        /\ node[n] = "failed" /\ error[n] = "none" =>
              ~edited[n] /\ ~Contains(commands[n], {"committed", "uncertain", "unconfirmed"})

\* The reducer refuses what the owner publishes for known reasons only: the store
\* failed before, a tool outlived its executor, a request came after the budget
\* was exhausted, or an abort overtook an editing agent that had run a command.
RefusedForAReason ==
    /\ poison = "refused" =>
          \/ faults > 0 \/ late # {}
          \/ aborted /\ \E n \in plan.editing : node[n] = "running" /\ SideEffect(n) # "none"
    /\ poison = "budget" => Exhausted

\* The call ends although no operator ever decides and agents wait for each
\* other's turn.
WaveEnds == <>(call = "ended")

\* docs/workflow-spec.md: "Operator cancellation likewise settles the complete
\* wave and records the exact ordered cancelled-node set."  Unless the store
\* failed, a tool was late or the budget was exhausted, a call that was aborted
\* ends with every attempt settled.
CancellationSettlesWave ==
    call = "ended" /\ aborted /\ faults = 0 /\ late = {} /\ poison # "budget" =>
        \A n \in Agents : node[n] # "running"
=============================================================================
