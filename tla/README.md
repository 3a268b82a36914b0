# A TLA+ verification of Flow's run core

Flow runs a *workflow*, a compiled graph of agent, command and control nodes, and
records every step of a run in an append-only ledger from which any later process
can go on. This directory models that core: the reducer that decides which events a
ledger may hold, the scheduler and recovery that produce them, the file effects the
agents make in between, the store that keeps the ledger on disk, the promotion of a
candidate's changes into the workspace, the commands agents run under live approval, and
the supervisor whose workers run it all.
TLC checks small instances; TLAPS proves the safety properties of every part for every
workflow, delta, wave, number of processes and number of jobs.

All source paths are relative to the repository. `PROJECT.json` maps every
definition to the lines it models.

## The system

| component | state | operations | what is hard about it |
| --- | --- | --- | --- |
| run ledger reducer (`src/domain/run/events.ts`) | `RunState`: run status; per node its status, attempt, error, approvals, effect journal, archived attempts, output, decision; consumed resources | `appendRunEvent`: one case per event type | some forty event types from four kinds of writers, in any order their guards allow; the guards are the only protection of the ledger |
| run budget (`src/domain/run/budget.ts`) | limits and consumption | `calculateRunBudgetState` | boundaries, precedence over failure and cancellation |
| scheduler and recovery (`src/application/run-workflow.ts`) | the call's `RunState`, the round of admitted attempts, the publication queue, the abort signal | `runWorkflow`, `resumeWorkflow`, `continueWorkflow` | executors run concurrently with each other and with publications; aborts, timeouts and store failures between any two steps; recovery of what an earlier process left |
| file edits (`src/infrastructure/fs/hash-anchored-edit.ts`), effect recorder (`src/infrastructure/pi/agent-effect-recorder.ts`) | temporary file, target, lock; reservations and receipts | prepare, commit, settle, observe | a crash between the three; a tool that outlives its call |
| agent executor (`src/infrastructure/pi/pi-agent-executor.ts`) | one session | `execute` | timeout against a late settlement |
| approvals (`src/application/command-approval.ts`) | none of its own | `decideApproval` | two appends on denial; expiry of grants |
| run store (`src/infrastructure/fs/jsonl-run-store.ts`) | `.owner` directory, `events.jsonl`, `#ownedRuns` | append, claim, release | several processes, partial writes, power loss |
| workflow compiler, control graph (`src/domain/workflow/`) | none | pure | guards, joins and sources must be dependencies |
| agent commands and their live approval (`agent-command-recorder.ts`, `local-agent-command-approval-channel.ts`, the gate and journal in `run-workflow.ts`) | approvals and command journal in the ledger, decision receipts, two queues | request, decide, expire, prepare, settle, submit | two queues and an abort signal between agents, operators and settlement; late receipts and late tools |
| model sessions | a second ledger per attempt | open, settle, reopen | settled before the run's outcome event; a crash between the two |
| goal workspace, activations, capability repositories | heads over immutable revisions | compare-and-swap, rollback | lost updates, crash between revision and head |
| candidate promotion (`src/infrastructure/fs/candidate-promotion.ts`) | lock, promotion journal, backups, the workspace's files, three ledger events | prepare, apply, commit, roll back, reconcile | a crash in the middle of many files; telling from the files alone how far it came |
| workspace isolation | a copy of the workspace, the captured delta | copy, capture | mostly I/O |
| supervisor (`src/supervisor/`) | admission ledger, command journals, claims, worker descriptors | submit, cancel, reconcile, status, shutdown | one event loop whose handlers interleave at every await; workers that die or outlive the daemon; retries of lost answers |
| issue lifecycle | issue ledger | two-phase external actions | action done, record lost |
| evaluation, artifact store, OCI and Prime containers, sandboxes, ACP, LSP, presentation, CLI, release | various | | mostly I/O around the core |

Interaction: the CLI or a supervisor worker calls `runWorkflow` or `resumeWorkflow`,
which claims the run in the store and loops: select the next transitions, publish
`node_started`, launch the executors, wait for all of them, publish their outcomes in
order, decide how to go on. While they run, executors publish through the same queue
(`node_effect_prepared`, `node_effect_settled`). Every publication first goes through
the reducer and then to the store; a failure of either poisons the queue. An operator's
process claims the same run while no call drives it and appends a decision. A later
process replays the ledger, observes the targets of effects nobody settled, gives
proof-safe attempts back, and goes on. When an optimization check passes, the same call
promotes the captured delta into the workspace, file by file, between a prepare and a
settlement event. The supervisor's daemon admits submissions to active slots or a queue,
journals each command, claims the run's directory and spawns a detached worker, which
publishes a descriptor and makes the `runWorkflow` call; after a crash the next daemon
reconciles claims, descriptors and the admission ledger.

What makes it correct: one writer at a time and no acknowledged record lost (store);
each attempt accounted for once, nothing worked on before its prerequisites, one decision
awaited at a time, evidence never erased, one truthful conclusion (ledger); files changed
under one attempt only and accounted for, no event the reducer refuses except where it
must, every call ends and a run that is resumed comes to rest (scheduler); the recorded
settlement is true of the files and is reached unless somebody else wrote (promotion); one
execution per job, a slot held while its worker lives, answers that are true and do not
contradict each other, a queue that drains in order (supervisor); only approved commands
run, and an attempt's outcome accounts for each of them (agent commands).

## Modules

| module | what it is |
| --- | --- |
| `RunContract` | abstract specification of a run: units of work that are undertaken, finished, skipped, broken or retried, and one conclusion |
| `RunLedger` | the reducer; extended by the next two |
| `RunWorkflow` | scheduler, executors, tools, operator, failures; EXTENDS `RunLedger`, whose event actions it uses, so each published event passes the reducer's own guards |
| `RunStore` | ownership and durability of the ledger file |
| `CandidatePromotion` | promotion of a captured delta into the workspace, and its recovery |
| `Supervisor` | the daemon's handlers, its files, and the workers |
| `AgentCommands` | commands that agents run inside a wave, with their live approval |
| `MCGraphs`, `MCRunLedger`, `MCRunWorkflow`, `MCRunStore`, `MCCandidatePromotion`, `MCSupervisor`, `MCAgentCommands` | instances for TLC |
| `RunLedger_proofs` | theorems and proofs about the reducer |
| `RunWorkflow_proofs`, `RunWorkflowFiles_proofs` | the scheduler refines the reducer; rounds, tools and files |
| `RunWorkflowAccepted_proofs` | what the scheduler publishes the reducer accepts, in workflows whose branches nest |
| `AgentCommands_proofs`, `CandidatePromotion_proofs`, `RunStore_proofs`, `Supervisor_proofs` | theorems and proofs about the other parts |

### RunLedger

A state is the `RunState` the reducer has built, an action one event it accepts with the
whole change it makes; an event that satisfies no guard throws `RunReplayError` and
changes nothing. For most events a state predicate `EventOk` holds the guard, so that
`RunWorkflow` can also say what happens when an event is refused. The workflow is a set
of constants: `GraphAssumption` gives their types, `CompilerAssumption` what
`compileWorkflow` and `workflowRequiresControlGraph` guarantee, `PolicyAssumption` the
ranges of the declared policies. The compiler's guarantees are
those of `src/domain/workflow/compiler.ts`: a guard's condition and a node's sources are
among its dependencies (lines 869-1050), a condition or a result reads one node that
produces evidence, a join depends on its branches and has one for every case its condition
can decide (1058-1089), and there is no cycle (`findCycle`, 1383). For a join, `Before` adds
its condition: the branches it depends on descend from that (`join_branch_membership`, 1152).
That branches nest is not among the guarantees (see Findings, `workflow_crossed`); where a
property needs it, it is a hypothesis, `BranchesNest`.

Abstractions. An output is a value of a small set, `Truncated`, or `NoValue`; a condition
maps values to cases. An effect is known by its place in the journal and its status. The
failure of an attempt is what later guards read of it: retryable, side-effect status, and
whether it left evidence and usage; evidence without usage differs from evidence with it
only under a limit on tokens (`Accountings`), so the runs, whose limit is on artifact
bytes, know of one kind of evidence and the theorems of both. Receipts in final evidence
are a set of (sequence, outcome). `GrantLapses` is the clock passing `expiresAt`. The
node-start limit is exact; the other four resources are one limit, `SettlementLimit`, whose
`SettlementKind` decides the rules that differ. Sequence numbers, digests, timestamps and
the field-by-field validation of payloads are left out; so are loop, child, verifier and
optimization nodes, agent commands (`AgentCommands` has them), delegations and model
sessions.

`run_resumed` changes no state that is modelled, so it is the predicate `RunResumedOk`
and an action of `RunWorkflow`.

### RunWorkflow

`pc` is where the current call stands; `"down"` means nobody drives the run. One round is
`admit` (publish `node_started` up to `maxNodes`), `execute`, `settle` (in admission
order), `decide`. `recover` and `dispose` are the two halves of a resumed call around its
last look at the abort signal; `denied` is the operator's process between its two appends.
`tool[n]` is the tool call in flight: preparing, prepared, applied, one of three queued
settlements. `applied[n]` records which (attempt, effect) really changed a file, and is
written by the commit only: no guard reads it except the observation a recovery makes.

A ledger variable is at once the file and the call's replayed state. That is sound since
the call advances its state only after the store's append resolved, and because a failed
append ends the call: `StoreFails` and `ToolPublicationFails` cover both a line that did
not become durable and one that did although the append failed.

Abstractions. One tool call is in flight per attempt, and one process drives the run at
a time (that is `RunStore`'s subject). The target lock is exclusive while a tool lives.
A process crash takes its tools with it; power loss is modelled in `RunStore` only.
Edits of the target by somebody else show as an observation that proves nothing
(`found_unknown`). What a success wrote and how much an attempt used is chosen when it is
settled, the first time it is read.

### RunStore

One action per file-system call of `#acquireOwnership`, `#claimAndAppend`, `#appendOwned`
and `#releaseOwnership` that another process can tell of; any process may act, fail or die
between two of them, and power may be lost at any time. A record is known by the process that
wrote it, a torn tail is a flag. Process ids are never reused; a process has one store
instance, makes one call at a time, and does not start a run it already has.

Two failures leave `.owner` and `#ownedRuns` disagreeing. When the directory sync after the
publishing rename fails (`jsonl-run-store.ts:349`), or an abandoned acquisition cannot give
`.owner` back (`:145`, `:216`), `.owner` names a live process that does not own the run
(`AcquireFails`, `ReleaseFails`): every claimant is refused until that process dies. When a release
renames `.owner` away and its sync or `rm` then fails (`:411-419`), `release` does not reach
`:158`: `.owner` is free while the process still has the run. `released` is the set of such
processes, from the rename until they forget the run. They may append, reread or retry the release
as in the code, which asks `#ownedRuns` only; another process may acquire the run meanwhile.
`SingleOwner` is about the processes outside `released`. `overstayed` is a history variable: a
process in `released` has begun an append. From then on the ledger may lose reported records, and
`AckedKept` and `MemoryIsPrefix` say nothing; see the end of Findings.

### CandidatePromotion

`promoteCapturedCandidate` and `reconcileCapturedCandidatePromotion`, one file-system call
or durable record per step, inside `progressOptimizationCheck` of `run-workflow.ts`, which
decides between promoting and reconciling by the events the ledger holds. The state is what
a crash leaves (lock, promotion directory, journal phase, backups and staged files, the
workspace's paths, the ledger's prepare, commit and settlement) beside what it takes away
(`pc`, the entry being worked on, whether the process is compensating). The delta is a
constant sequence of entries, each with a path, what was there before and what comes after:
absent, a directory, or a file whose content is a tag. A process may die between any two
steps, any call may fail, somebody else may edit a path, and another run may hold the lock.

Recovery reads no progress counter for the files: `detectForwardProgress` and
`detectRollbackProgress` find the one number of entries that explains what is on disk. The
model has the same definition, so whether the explanation is unique is something TLC finds
out, not something the model assumes.

A settlement `none` is claimed to mean untouched files only while no call has failed
(`SettlementTellsFiles`). With a failing journal write or cleanup inside
`compensateForwardFailure` the error that leaves it carries no promotion code, and
`run-workflow.ts:1054` then records side-effect status `none` although entries may be
half applied; `docs/architecture.md:1620` asks for complete compensation or `unknown`.

### Supervisor

The daemon is one event loop, so a step is the code between two awaits of one handler:
a submission per job, a launch per job, a cancellation per run, and the reconciler. Steps
of different handlers interleave; a mutex in the code (`#serializeAdmission`) is a guard
here. Workers are processes of their own: they publish a descriptor, wait for the
daemon's adoption, run, finish, and may be killed at any step. The admission ledger is
what the reducer of `admission.ts` makes of it, the status of each job and its ticket;
command journals, claims and descriptors are one value per file. `told` keeps every
response a client has received, and is what the properties about truthfulness read.

A constant set of scenarios fixes the policy, which jobs are already running or queued,
the requests that will come, and a budget of faults: daemon stops, killed workers, lost
responses, repeated requests. `Init` picks one of them. `SupervisorAssumption` asks that the
jobs present at the start are ones the reducer admits: within the limits, one per run, a queue
only when all slots are taken. Legacy workers are those of a daemon from before the admission
ledger, so where they are, the ledger holds nothing yet.

Abstractions. One cancellation of a run is handled at a time. The read and the write of
`CancelReject` and of `LaunchJournal` are one step, as are the reconciler's reads. An
append to the admission file is atomic (its own protocol is that of `RunStore`). Policy
digests, sandbox and identity mismatches of the inputs are left out. `status` and
`events` only read, except that `status` may adopt a worker, which is modelled. The
terminal worker status `terminal` stands for success and failure alike.

### AgentCommands

One wave of agents whose tools may run commands. The ledger side is the seven events of
the reducer with their guards, and the outcome of an attempt, which must account for its
commands. `tool[n]` is the command call of agent `n`: queued behind other requests,
waiting for a decision, granted, executing. `tail` is `agentCommandApprovalTail`, which a
request holds until it is decided; `poison` is what first made the publication queue
throw, since every later publication then throws too. A publication is one step with the
code that queues it, because queue order is ledger order. An operator reads the ledger in
one step and links a receipt in a later one, so receipts arrive for requests that are no
longer open. `stopped[n]` is the executor's own abort (deadline, audit limit, artifact
limit, unconfirmed termination); `CutOff` is the executor returning, after its cleanup or
when the grace period is over, with its tool still in flight.

Abstractions. A command ends in one of four settlements, or its output cannot be kept and
nothing settles it. An agent has one command call at a time. The plan of a run (who needs
approvals, who can edit, which limits) is chosen in `Init`. A file edit is one step
(`RunWorkflow` has its steps). Attempts that may run commands are never retried, so the
model is one wave; recovery refuses a run that a crash leaves with such an attempt open,
so a crash ends it.

## Runs

| run | instance | checks |
| --- | --- | --- |
| `store` | 2 processes, 2 records, 2 rename attempts; ~210,000 states | `SingleOwner`, `AckedKept`, `MemoryIsPrefix` (until a process overstays), `AcquireTerminates` hold |
| `store_race` | 3 processes, symmetric | `SingleOwner` is violated: see Findings |
| `ledger` | 9 nodes: a condition whose branches are an agent with a retry and effects and a command with an approval, their join, a command with an approval and an agent beside them, then an approval gate and a result; two attempts at once, both limits; ~386,000 states | `AttemptHistory`, `WaitingForOne`, `OneOpenApproval`, `LimitsRespected`, `WorkHadPrerequisites`, `OmittedNeverStarted`, `JournalKept`, `ImplementsContract` |
| `workflow_effects` | two agents editing files side by side, each with a retry, then a command with an approval; one crash or store failure and one abort anywhere; ~626,000 states | `AppliedOnce`, `ConclusionAccountsForFiles`, `OpenOnlyByRefusal` |
| `workflow_graph` | 12 nodes: a condition with two branches and a join, a second one nested under a branch, a result, an approval gate; one branch an agent that edits and may be retried, an artifact limit; one failure, one abort; ~111,000 states | `PublicationsAccepted`, `AttemptedInOrder`, and under fairness `ComesToRest` |
| `workflow_crossed` | 10 commands, conditions and joins; a branch of one condition also waits for a branch of another; no failures | `JoinsReconcile` is violated: see Findings |
| `promotion` | four entries: a new directory, a new file in it, a directory that becomes a file, a removed file; two crashes, two failing calls, one foreign edit; ~276,000 states | `SettlementTellsFiles`, `EnteredAfterPrepare`, `ConclusiveUnlessDiverged`, `SettledIsFinal`, and under fairness `CommitAcknowledged` |
| `promotion_retry` | as `promotion` | `InterruptionRetried` is violated: see Findings |
| `supervisor` | three jobs and runs, one slot, at most one queued job, 11 scenarios; ~515,000 states | `OneExecution`, `WorkerReserved`, `JournalTruth`, `AnswersAgree`, `QueueCancelledNeverRuns`, `FifoDispatch`, and under fairness `QueueDrains` |
| `supervisor_retry` | one command, a daemon crash, a retry | `RetryReplays` is violated: see Findings |
| `commands` | two agents, the first of which edits, in four plans; an abort and deadlines anywhere; ~795,000 states | `WaitingMeansPending`, `OnlyApprovedRan`, `OutcomeTellsCommands`, `RefusedForAReason`, and under fairness `WaveEnds` |
| `commands_cancel` | two agents, one command each, no failures | `CancellationSettlesWave` is violated: see Findings |

`TypeOK` and `WorkflowTypeOK` are checked along the way. Deadlock checking is off in all
of them because a concluded run, or a store nobody calls, stops.

Bounds. Two processes are enough for every interleaving of an owner with one rival; the
race between two rivals needs a third process that died, which is `store_race`. Two rename
attempts make both the repetition and the refusal happen (the code has sixteen). Two
records let an append, by the same or another process, follow a failed append that follows a
successful one; the proofs are for any number. Two
attempts per node are the least with which a retry and an archive happen, and with
`workflow_effects` one node's retry overlaps its sibling's first attempt. One effect per
attempt suffices for `AppliedOnce`, which counts attempts. `MaxFailures` bounds crashes
and store failures together, `MaxAborts` abort signals; with one of each, every single
failure point and its combination with an abort and a retry is reached.
`SettlementLimit` is reached by one or more settled attempts, before or after the last node. In
`ledger` three executable nodes can be ready at once, one more than may run, and
retries and restarts reach the node-start limit with work left to do.
The delta of `promotion` has each kind of entry whose undoing differs and a file under a
directory of the same delta, so that order matters; the second crash interrupts the
recovery from the first, and the second failing call the compensation of the first. In
`supervisor`, one slot and one queue place make "full" and "next" happen with three jobs,
and `MaxSpawns` 2 lets a job be launched again after a lost launch; each
scenario has its own few faults, and each of them meets every step of its handlers.
In `commands`, two agents are the least with which one waits for the other's decision; the
agent that may ask twice shows a late receipt of its first request; the other three
plans have one call each and a store failure, an exhausted start limit, or an artifact
limit that one output reaches.

Fairness. In `RunStore`, a process inside a call keeps taking its steps
(`WF(Advance(p))`): the runtime drives a pending promise; callers need not call. In
`RunWorkflow`, weak fairness of the call's own steps for the same reason; of
`ExecutorReturns`, because every executed node has a timeout that ends the call; of
`ToolPublishes` and `ToolSettles`, because the queue runs and a tool cut off by its abort
still ends; of `StartRun` and `Resume`, because `ComesToRest` is about a run that
somebody does resume. Nothing is assumed about operators, the clock, or the commit of a
tool. In `CandidatePromotion`, weak fairness of the process's steps (`Process`), the resume
after a crash among them. In `Supervisor`, weak fairness of `Progress`: the steps of the event loop, of the
workers (each run ends) and of the daemon's start, which the next client performs;
requests, retries, faults and shutdowns are not assumed to happen. In `AgentCommands`,
weak fairness of the gate's and the journal's steps and of the wave's settlement
(pending promises), of `Deadline` (every agent has `timeoutMs`) and of `CutOff` (the grace
timer); operators, agents and aborts are free not to act.

## Findings

* `store_race`. `docs/recovery.md:727` promises that of concurrent claimants of a dead
  owner's run only one wins. `#acquireOwnership` judges the record it read;
  `#retireOwner` (`jsonl-run-store.ts:467`) then renames away whatever `.owner` is there.
  Two claimants that both read the dead owner's record can retire one after the other:
  the second removes the directory the first has published, and both own the run. With
  two processes in all, the dead one included, this cannot happen (`store`); there a failed
  release is the only way for both to have the run.
* `workflow_crossed`. `docs/workflow-spec.md:313` says a join succeeds only after the selected terminal
  succeeded and every unselected one was omitted, and that cross-case dependencies fail
  compilation. The compiler computes branch membership for one condition at a time
  (`compiler.ts:1126`), so it accepts a node that its guard puts in a branch of one condition and
  that depends on a node in a branch of another, as long as the join of one counts as a terminal
  of the other. When the second condition does not choose its branch, the node is omitted although the
  first chose it. The first one's join is then ready, since its branches have ended and its
  condition is decided, and the scheduler publishes `node_joined`; the reducer refuses it
  (`events.ts:5770`), the call throws, and so does every later one: the run cannot be finished. In
  workflows whose branches nest it cannot happen (`NestedJoinsReconcile`).
* `promotion_retry`. `docs/workflow-spec.md:451` says that an interruption before prepare
  retries promotion from the same captured delta. `preparePromotionArtifacts`
  (`candidate-promotion.ts:467`) creates the promotion directory first and refuses when
  it exists; a process that dies between that and the prepare event leaves the directory,
  and the resumed check fails instead of retrying.
* `supervisor_retry`. `docs/recovery.md:391` says exact retries replay their outcome. When
  the daemon dies after a worker published its descriptor and before the command's journal
  is completed, and the worker has ended before the next start, reconcile releases the
  admission; every later retry reaches `#recordWorkerAccepted` and is refused with
  `identity_mismatch` (`service.ts:1192`).

* `commands_cancel`. `docs/workflow-spec.md:483` says that operator cancellation settles the
  complete wave. When the abort overtakes the success of an agent with edit and exec tools,
  `normalizeWorkflowAbortEffectStatus` (`run-workflow.ts:1499`) gives its failure a
  side-effect status from file effects alone: `none` if it ran a command but made no
  edit. The reducer refuses that event (`events.ts:10261`), the queue is poisoned, the call
  throws, and the run is left with open attempts and no `run_cancelled`.

What `RefusedForAReason` documents rather than refutes: a request for approval made after
the budget is exhausted is refused (`events.ts:4642`), when the agents' own starts used the
last node start or a sibling's command output reached the artifact limit. That refusal
poisons the publication queue, so the outcomes of the wave are not recorded and the run
does not become `resource_exhausted` as `docs/workflow-spec.md:485` describes.

What `AnswersAgree` documents rather than refutes: `updateCommand` reads and then writes a
journal (`local-supervisor-store.ts:455`), so with two commands of one run a cancellation can
be overtaken by the submission's own write of `queued`, and a later retry of that command is told
of a conflict after it was told `queued`. The property therefore excludes a full queue after
`queued`, and says that a conflict is told only to commands that share their run.

The recovery table (`docs/recovery.md:427`) says that after a durable `node_failed` a resumed
call appends `run_failed` and does not retry. `continueWorkflow` (`run-workflow.ts:456`)
schedules the retry when the node is eligible, which `docs/recovery.md:649` describes and
`RunWorkflow` models; the table is out of date.

What `OpenOnlyByRefusal` documents rather than refutes: when an agent times out while a
tool's settlement is still queued, the receipts it returned do not cover the journal, the
reducer refuses its outcome, the call throws, and outcomes of siblings that were already
known stay unrecorded until an operator or a recovery deals with the attempt. Without a
crash or a store failure this is the only way an attempt is left open.

What `SingleOwner`, `AckedKept` and `MemoryIsPrefix` exclude because the code does not keep it:
`docs/recovery.md:727` says that a second process refuses a run owned by a live local
process. After a release that fails after its rename the process still has the run and a second
one acquires it. Both append, and the former owner's `truncate` (`jsonl-run-store.ts:250`) cuts the
file at its remembered offset, through records the second has reported. The callers of
`release` rethrow its error and end, and a process builds a store per command, so the former
owner appends only if its caller goes on after the error; the store itself does not check.

## Proofs

The theorems hold for all values of the constants that satisfy the modules' assumptions:
any workflow and policy (`GraphAssumption`, `CompilerAssumption`, `PolicyAssumption`), any
delta the schema admits (`DeltaAssumption`), waves of any size and plan, any number of
processes, records, crashes, failing calls and aborts.

| module | theorem | property |
| --- | --- | --- |
| `RunLedger_proofs` | `LedgerType`, `AttemptsAccountedFor`, `OneDecisionAwaited`, `ApprovalsExclusive` | `TypeOK`, `AttemptHistory`, `WaitingForOne`, `OneOpenApproval` |
| | `WorkInOrder`, `NoWorkDiscarded`, `EvidenceKept`, `LimitsKept` | `WorkHadPrerequisites`, `OmittedNeverStarted`, `JournalKept`, `LimitsRespected` |
| | `LedgerImplementsContract` | `ImplementsContract` |
| `RunWorkflow_proofs` | `WorkflowTyped`, `SchedulerInOrder` | `WorkflowTypeOK`, `AttemptedInOrder` |
| | `SchedulerImplementsLedger`, `SchedulerKeepsLedger` | `WorkflowSafety => Spec` of `RunLedger`, and so `AttemptHistory`, `WaitingForOne`, `OmittedNeverStarted`, `LimitsRespected`, `JournalKept` of every run the scheduler drives |
| `RunWorkflowFiles_proofs` | `NoSecondApplication`, `ConclusionIsTruthful`, `OpenAttemptsHaveAReason` | `AppliedOnce`, `ConclusionAccountsForFiles`, `OpenOnlyByRefusal` |
| `RunWorkflowAccepted_proofs` | `NestedJoinsReconcile`, `NestedRunsAccepted` | `JoinsReconcile`, `PublicationsAccepted`, when branches nest |
| `AgentCommands_proofs` | `WaitingIsPending`, `OutcomeIsTrue`, `ApprovedBeforeRun`, `RefusalsHaveReasons` | `WaitingMeansPending`, `OutcomeTellsCommands`, `OnlyApprovedRan`, `RefusedForAReason` |
| `CandidatePromotion_proofs` | `PromotionTyped`, `SettlementIsTrue`, `PreparedBeforeEntered`, `SettlementsAreFinal`, `CrashesAreConclusive` | `TypeOK`, `SettlementTellsFiles`, `EnteredAfterPrepare`, `SettledIsFinal`, `ConclusiveUnlessDiverged` |
| `RunStore_proofs` | `OneOwnerUnlessStale`, `ExclusiveUnlessStaleOrFailed`, `TwoProcessesOneOwner` | `SingleOwner`, and `Exclusive` when no release fails after its rename |
| | `ReportedIsKept`, `MemoryIsTrue`, `StoreTypeCorrect`, `KeptUnlessStaleOrFailed`, `TwoProcessesKeepReported` | `AckedKept`, `MemoryIsPrefix`, `TypeOK`; the first two without their condition when no release fails after its rename |
| `Supervisor_proofs` | `TypesAndLimits`, `ExecutesOnce`, `CapacityStays` | `TypeOK`, `OneExecution`, `WorkerReserved` |
| | `JournalsTellTheTruth`, `RetriesAgree`, `QueueCancellationHolds` | `JournalTruth`, `AnswersAgree`, `QueueCancelledNeverRuns` |
| | `FifoUnlessClaimLost` | `FifoDispatch`, when no claim is lost |

**Reducer.** `LedgerInv` is the first inductive invariant: the first four properties with
`NotBegun` (before `run_started` nothing has happened) and `ApprovalShape`, which ties the
approval of a node to its type and status. None of them is inductive alone: that no
second approval opens depends on a pending request fixing the run's status, which depends
on a waiting run having nothing running or failed, which depends on where an approval can
be in which status. There is one lemma per action.

`WorkInv` adds a fact per node: an attempted node has its prerequisites and a pending
request fixes them (so that a decision made much later still finds them); a denied node
is failed; control nodes have one attempt and never run; an omitted node has none; a
pending node has an empty journal. Prerequisites persist since succeeded and omitted are
final and a decision is never changed. `EvidenceKept` follows step by step: the only
actions that shorten a journal are the two dispositions, whose guards prove it not applied
or empty. `LimitsKept` needs only that a start checks both limits and nothing else raises
either count. `LedgerImplementsContract` maps each action to one of the contract or to a
stutter, with `WorkInv` for the states before and after.

**Scheduler.** Each step of `RunWorkflow` changes the ledger by one event the reducer
accepts or not at all; that is the refinement, and it carries the theorems about the
reducer over. `SchedulerInv` adds what the reducer alone would not enforce, the order in
which the scheduler picks transitions. `RoundInv` is what a call relies on between its
phases: the running nodes are those it admitted and has not settled, in declaration order.
`FilesInv` ties each tool in flight to the open attempt and the last entry of its journal,
and each applied change to an entry that is open, committed or unknown: a retry or a
disposition needs a journal that proves nothing was applied, so no second attempt begins
after a change. `OpenOnlyByRefusal` needs more: what an executor reported covers the journal
it saw (`OutcomesFit`), and every way out of a round that leaves a node running is one of
the listed ones (`OpenInv`).

**Accepted publications.** A call that publishes an event the reducer refuses throws, and so
does the next one; so does a call that finds no next transition. That neither happens is a
fact about the graph as much as about the code: it needs that branches nest,
`BranchesNest(scope)`, where `scope` names the branches each node is in. The theorems have
that as a hypothesis, because the compiler does not guarantee it (`workflow_crossed`); the
instances of the passing runs satisfy it (`InstancesNest`, which TLC evaluates).

`RecordsInv` says what a node's end leaves behind: a finished node its evidence, an omitted
one a reason (its guard not chosen, or an omitted dependency), a pending one no decision.
From that a node that is omitted is in a branch that was not chosen, and a node that is done
only in branches that were (`AllInScope`: there is no cycle, so if there were exceptions one
of them would come before the others); hence `JoinsReconcile`. Of the nodes that have not
ended, one that comes before the others always has a transition. `AdmissionInv` carries what
else the guards ask for over the phases of a call: no failed node at the head of the loop
(`LoopOpen`), budget left for the first admission (`RoundFunded`), a node held for an
approval being the first candidate (`HeldFirst`), and a failure about to be concluded being
one that cannot be retried and is not preceded by an exhausted limit (`FailureFinal`).

**Agent commands.** `CommandInv` relates a tool's program counter, the tail of the approval
queue, the one pending request and the journal's last command. `ApprovedInv` counts:
commands of a gated agent equal its consumed approvals. `CleanInv` holds while none of the
reasons for a refusal has occurred, and says that each publication's guard is then true.

**Promotion.** `PromotionInv` says of each phase what the ledger, the journal, the saved bytes
and the temporaries are, and, as long as nobody else wrote, that the files are those of
a prefix of the steps (`FileInv`). `RecordInv` bounds the journal's counters. For
`CrashesAreConclusive` that is not enough: recovery has only the files, so `QuietInv` keeps
that the journal's counter is at most one step away from them, and lemmas about the order of
`buildPromotionSteps` (removals deepest first, then directories, then leaves, shallowest
first; each step changes its path; a parent is there before its child and a directory
empty before it goes) show that no two prefixes explain the same files.

**Store.** `SingleOwner` is false of three processes (`store_race`). `OneOwnerUnlessStale`
says that for any number of processes one event is to blame: `#retireOwner` renaming an owner
directory other than the one whose record was read (`StaleRetirement`). It leaves out the
processes whose own release has renamed `.owner` away. `ExclusiveUnlessStaleOrFailed` counts them
in (`Exclusive`) and names the only other event: a release that fails after its rename
(`FailedRelease`). With two processes there is no third to have replaced the directory
(`TwoProcessesOneOwner`, by `JudgedInv`: a process about to judge while `.owner` names it has
read its own name, so it will not retire it). The durability theorems assume `[]SingleOwner` and
hold until a process overstays; `TwoProcessesKeepReported` discharges the assumption, and
`KeptUnlessStaleOrFailed` drops the condition when neither event happens. `DurableInv` says at
each step of an append what of the file, the memory and the reported records agree; torn tails and
power losses are in it. `ReleasedInv` says where a process may be that gave `.owner` away.

**Supervisor.** A job has *begun* once it has active capacity or a published worker, and
nothing undoes that; before it, no process was spawned for it (`BegunInv`). The rest follows
what each handler remembers over an await: `CoreInv` says of each program counter of a
submission, launch, cancellation and the reconciler which journals, tickets and locks it
can still find, and `JobInv` which answers a journal admits. The proof of a step has two halves: a
job's own submission step, and what any other step may do to that job (`Moves`: which changes of its
admission, descriptor, journal and answers, and from which states), from which the job's part of
the invariant follows without looking at the step again. `LimitInv` counts active and queued
jobs. `ReservedInv` needs the legacy workers that no daemon has met yet (`Unmet`): as
long as there are any, no daemon has started to serve.
`QueueInv` is what order of dispatch rests on: while a daemon serves and its reconciler is not
between a release and the dispatch that follows, a queue means that all slots are taken. A
reconciler that fails in that section breaks it. It does so in one way, `ClaimLost`:
`releaseActiveRunClaim` (`local-supervisor-store.ts:190-207`) finds the claim of the run held
by another job, because an earlier release, which reads and then renames, had removed a claim
made in between. The daemon closes then, but a submission it still has open could take the
freed slot ahead of the queue. That takes two commands of one run, an uncertain launch, two retries
and a lost response, far beyond the `supervisor` run, where TLC checks `FifoDispatch` without the
hypothesis.

Corrections the proofs asked for. CASE arms that overlapped chose no particular arm
(`ControlTransition`, `Decision`): now they exclude each other. A run's output needs a set of
values that is not empty. A promotion of an empty delta goes on to its verification at once, as
the code's loop does. The order of promotion steps is now defined by comparing steps rather
than by sorting, and the constants of the delta have their types. `AnswersAgree` excluded a
conflict after `queued`, which holds on the run's instance and not in general (see Findings); it
now says what does. Apart from that none of them changed what the runs check.

Only model-checked: liveness (`ComesToRest`, `AcquireTerminates`, `CommitAcknowledged`,
`QueueDrains`, `WaveEnds`), which needs reasoning about fairness and ENABLED, and `FifoDispatch`
without the hypothesis on claims. Every invariant the passing runs check is the subject of a
theorem. `PublicationsAccepted` is stated with the guards of the events and not with ENABLED, so that it
can be proved. The instances of `RunLedger` and `RunWorkflow` all carry a
persisted control graph; for runs without one there are the theorems.

## Not modelled, and the plan

In this order:

1. the cross-process edit lock (`acquireCrossProcessEditLock`), which `RunWorkflow` assumes;
2. loops, child runs and delegations in the reducer and the scheduler; model sessions as
   a second ledger, composed with the run's;
3. optimization nodes in the reducer, which `CandidatePromotion` shows from the side of the
   files; `AgentCommands` composed with `RunWorkflow`;
4. goal workspace, activation and capability stores: compare-and-swap heads;
5. issue lifecycle; Prime's global slot store; the compiler's checks as operators against
   a reference definition.

The repository has some 173,000 lines, most of them schemas and field-by-field validation,
CLI commands, protocol adapters, renderers and evaluation drivers around the parts above;
the models concentrate on the parts that keep durable state several steps, processes or
crashes can disagree about.

Out of scope: sandboxes and containers (the kernel and Docker), signature checking
(cryptography), provider traffic, rendering, packaging and release tooling.
