----------------------------- MODULE Supervisor -----------------------------
(***************************************************************************)
(* The local supervisor: the daemon that admits detached jobs into a       *)
(* bounded active set and a FIFO queue, launches one detached worker       *)
(* process per admitted job, and answers retried submit and cancel         *)
(* commands from durable journals.                                         *)
(*                                                                         *)
(* Sources: src/supervisor/service.ts (LocalSupervisorService), admission.ts*)
(* (the admission reducer), daemon.ts (DetachedWorkerLauncher, the server), *)
(* worker.ts (executeWorkerJob), records.ts, and                           *)
(* infrastructure/fs/local-supervisor-store.ts (the durable records).      *)
(*                                                                         *)
(* The daemon is one event loop.  Its handlers (one submission per job,    *)
(* one launch per job, one cancellation per run and the reconciler)        *)
(* interleave at every await that reaches the disk or a socket; what lies  *)
(* between two awaits is one step.  Workers are separate processes.  The   *)
(* daemon may crash at any step and workers may be killed at any step.     *)
(***************************************************************************)
EXTENDS Naturals, FiniteSets

Faults == {"stop", "kill", "loss", "retry"}

CONSTANTS Jobs,       \* submission commands; jobId = commandId (service.ts 307)
          Runs,       \* run identities
          MaxSpawns,  \* bound: worker processes spawned per job
          Scenarios   \* the policies, requests and faults considered

\* What a scenario fixes: the run each command names, the policy's limits, the
\* jobs already executing (the legacy ones since before there was an admission
\* ledger) or queued, the commands clients send, the runs they cancel, and how
\* many daemon stops, killed workers, lost or late responses and repeated
\* requests there are.
ScenarioType ==
    [runOf : [Jobs -> Runs], maxActive : Nat \ {0}, maxQueued : Nat,
     busy : SUBSET Jobs, legacy : SUBSET Jobs, queued : SUBSET Jobs,
     submitted : SUBSET Jobs, cancelled : SUBSET Runs, budget : [Faults -> Nat]]

NoJob == "no job"

\* Legacy jobs are from before the admission ledger, so nothing is queued then.
ASSUME SupervisorAssumption ==
    /\ IsFiniteSet(Jobs) /\ NoJob \notin Jobs /\ MaxSpawns \in Nat
    /\ Scenarios \subseteq ScenarioType
    /\ \A s \in Scenarios :
          /\ Cardinality(s.busy \ s.legacy) <= s.maxActive
          /\ s.busy # {} => MaxSpawns > 0
          /\ s.legacy # {} => s.legacy = s.busy /\ s.queued = {}
          /\ Cardinality(s.queued) <= s.maxQueued /\ Cardinality(s.queued) <= 1
          /\ s.busy \cap s.queued = {}
          /\ s.queued # {} => Cardinality(s.busy) = s.maxActive
          /\ \A j, k \in s.busy \cup s.queued : s.runOf[j] = s.runOf[k] => j = k

VARIABLES
  scenario,   \* fixed: the policy and the requests
  \* --- durable records under <runs-dir>/.supervisor
  cmd,        \* submission command journal, per job
  ccmd,       \* cancellation command journal, per run
  snap,       \* jobs whose immutable job record exists
  adm,        \* admission ledger: the status of each job, "none" when absent
  ticket,     \* queueSequence of a queued or cancelling job
  lastTicket, \* lastQueueSequence
  rejections, \* admission ledger: uncommitted queue_full rejections
  claim,      \* active run claim: the job holding it, or NoJob
  desc,       \* worker descriptor status, "none" when absent
  owner,      \* the process (pid) named by the descriptor, 0 when absent
  sock,       \* jobs whose worker socket file exists
  \* --- processes
  proc,       \* program counter of each worker process
  abort,      \* processes whose AbortController was fired by a cancel command
  outcome,    \* the run ledger's end for each job
  daemon,     \* life of the daemon process
  lock,       \* TRUE while a multi-step #serializeAdmission section runs
  sub, lau, rec, can,  \* handlers of the event loop and their locals
  \* --- observations
  told,       \* definitive answers clients have received, per job
  executed,   \* processes that have entered the workflow
  budget      \* faults and repeated requests still to come

durable == <<cmd, ccmd, snap, adm, ticket, lastTicket, rejections, claim>>
workers == <<desc, owner, sock, proc, abort, outcome, executed>>
handlers == <<sub, lau, rec, can>>
vars == <<scenario, durable, workers, handlers, daemon, lock, told, budget>>

runOf == scenario.runOf
maxActive == scenario.maxActive
maxQueued == scenario.maxQueued

\* Use up one fault or repeated request of kind f.
Spend(f) == budget[f] > 0 /\ budget' = [budget EXCEPT ![f] = @ - 1]

Procs == Jobs \X (1 .. MaxSpawns)

-----------------------------------------------------------------------------
(* Admission ledger (admission.ts).                                        *)

ActiveStatus == {"dispatching", "accepted", "uncertain"}
Active == {j \in Jobs : adm[j] \in ActiveStatus}
\* Mutant: a job being cancelled still counts as queued.
QueuedOrCancelling == {j \in Jobs : adm[j] \in {"queued", "queue_cancelling"}}
Queued == {j \in Jobs : adm[j] = "queued"}
OldestQueued(j) == j \in Queued /\ \A k \in Queued : ticket[j] <= ticket[k]

\* Mutant: one more active worker than the policy allows.
ClassifyOneMore ==
    IF Cardinality(Active) <= maxActive THEN "dispatch"
    ELSE IF Cardinality(Queued) < maxQueued THEN "queue" ELSE "reject"

ClassifyNewAdmission ==
    IF Cardinality(Active) < maxActive THEN "dispatch"
    ELSE IF Cardinality(Queued) < maxQueued THEN "queue" ELSE "reject"

\* requireNewJob: neither the command nor its run has a live admission.
NewJob(j) ==
    /\ adm[j] = "none" /\ j \notin rejections
    /\ \A k \in Jobs : runOf[k] = runOf[j] => adm[k] = "none"

-----------------------------------------------------------------------------
(* Command journals (local-supervisor-store.ts updateCommand).             *)

Rejected == {"conflict", "cancelled", "queue_full"}

\* The status written for the command, seen against the one on disk.
TransitionAllowed(old, new) ==
    \/ old = "recorded" /\ new # "recorded"
    \/ old = "queued" /\ new \in {"completed", "uncertain"} \cup Rejected
    \/ old = "uncertain" /\ new = "completed"

\* An exact repeat of a queued record is byte-identical; a repeated completion
\* is accepted only when both carry the same acceptance time.
MaySkip(old, new) == old = new /\ new \in {"queued", "completed"}
MayRefuse(old, new) == ~TransitionAllowed(old, new) /\ ~(old = "queued" /\ new = "queued")

-----------------------------------------------------------------------------
(* Handlers' locals.                                                       *)

IdleSub == [pc |-> "idle", journal |-> "none", seen |-> "none",
            want |-> "none", then |-> "none"]
IdleLau == [pc |-> "idle", journal |-> "none", want |-> "none", child |-> 0]
IdleRec == [pc |-> "idle", journal |-> "none", want |-> "none", job |-> NoJob,
            final |-> {}, legacy |-> {}, launch |-> {}, adopt |-> {}]
IdleCan == [pc |-> "idle", job |-> NoJob]

\* The reconciler goes on with the launches and adoptions left, or ends.
GoOn(launch, adopt) ==
    IF launch \cup adopt = {} THEN IdleRec
    ELSE [IdleRec EXCEPT !.pc = "next", !.launch = launch, !.adopt = adopt]

NoHandlers ==
    /\ sub = [j \in Jobs |-> IdleSub]
    /\ lau = [j \in Jobs |-> IdleLau]
    /\ rec = IdleRec
    /\ can = [r \in Runs |-> IdleCan]

\* A busy job was accepted, and its first process is in the workflow; a queued
\* one holds the first ticket.  Legacy jobs await the first daemon that keeps an
\* admission ledger.
Init ==
    /\ scenario \in Scenarios /\ budget = scenario.budget
    /\ LET Was(busy, queued, new) ==
             [j \in Jobs |-> IF j \in scenario.busy THEN busy
                             ELSE IF j \in scenario.queued THEN queued ELSE new] IN
       /\ cmd = Was("completed", "queued", "none")
       /\ adm = [j \in Jobs |-> IF j \in scenario.legacy THEN "none"
                               ELSE Was("accepted", "queued", "none")[j]]
       /\ ticket = Was(0, 1, 0)
       /\ desc = Was("running", "none", "none")
       /\ owner = Was(1, 0, 0)
       /\ told = Was({"accepted"}, {"queued"}, {})
    /\ snap = scenario.busy \cup scenario.queued /\ sock = scenario.busy
    /\ lastTicket = Cardinality(scenario.queued)
    /\ executed = scenario.busy \X {1}
    /\ proc = [p \in Procs |-> IF p \in executed THEN "executing" ELSE "none"]
    /\ claim = [r \in Runs |-> IF \E j \in scenario.busy : runOf[j] = r
                               THEN CHOOSE j \in scenario.busy : runOf[j] = r ELSE NoJob]
    /\ ccmd = [r \in Runs |-> "none"]
    /\ rejections = {} /\ abort = {}
    /\ outcome = [j \in Jobs |-> "none"]
    /\ daemon = IF scenario.legacy = {} THEN "up" ELSE "down"
    /\ lock = FALSE
    /\ NoHandlers

Running == daemon # "down"
Serving == daemon = "up"
FinalDesc == {"terminal", "failed"}

\* The process named by the job's descriptor, and whether its control socket
\* still answers (worker.ts: from listen to closeServer).
Published(j) == <<j, owner[j]>>
AnsweringPcs == {"waiting", "ready", "executing", "final"}
Answering(j) == owner[j] # 0 /\ proc[Published(j)] \in AnsweringPcs
IdentityReady(j) == owner[j] # 0 /\ proc[Published(j)] \in AnsweringPcs \ {"waiting", "ready"}
Definitive == {"accepted", "queued", "identity_mismatch"} \cup Rejected

-----------------------------------------------------------------------------
(* Submissions: submit, #submitOnce, #admitJob (service.ts).               *)

\* Give the client its answer and forget the handler.
Answer(j, a) ==
    /\ sub' = [sub EXCEPT ![j] = IdleSub]
    /\ told' = [told EXCEPT ![j] = @ \cup ({a} \cap Definitive)]

Goto(j, pc) == sub' = [sub EXCEPT ![j].pc = pc] /\ UNCHANGED told

\* Begin updateCommand(want); `then` is the answer once it is durable.
Update(j, want, then) ==
    /\ sub' = [sub EXCEPT ![j].pc = "check", ![j].want = want, ![j].then = then]
    /\ UNCHANGED told

\* A client sends the command: it is journaled and has no job record yet.  A
\* retry finds the journal, and a settled one is replayed.
Submit(j) ==
    /\ Serving /\ sub[j].pc = "idle" /\ j \in scenario.submitted
    /\ IF cmd[j] = "none"
       THEN /\ cmd' = [cmd EXCEPT ![j] = "recorded"]
            /\ sub' = [sub EXCEPT ![j] = [IdleSub EXCEPT !.pc = "admit", !.journal = "recorded"]]
            /\ UNCHANGED <<told, budget>>
       ELSE /\ Spend("retry")
            /\ UNCHANGED cmd
            /\ IF cmd[j] = "completed" THEN Answer(j, "accepted")
               ELSE IF cmd[j] \in Rejected THEN Answer(j, cmd[j])
               ELSE /\ sub' = [sub EXCEPT ![j] =
                                  [IdleSub EXCEPT !.pc = "look", !.journal = cmd[j]]]
                    /\ UNCHANGED told
    /\ UNCHANGED <<scenario, ccmd, snap, adm, ticket, lastTicket, rejections, claim,
                   workers, lau, rec, can, daemon, lock>>

\* readExistingJob, and the admission state looked up when it returns.
Look(j) ==
    /\ Running /\ sub[j].pc = "look"
    /\ IF j \in snap /\ adm[j] = "queued" /\ sub[j].journal # "uncertain"
       THEN IF sub[j].journal = "recorded" THEN Update(j, "queued", "queued")
                                           ELSE Answer(j, "queued")
       ELSE IF j \in snap
       THEN /\ sub' = [sub EXCEPT ![j].pc = "try", ![j].seen = adm[j]]
            /\ UNCHANGED told
       ELSE IF sub[j].journal = "uncertain" THEN Answer(j, "uncertain")
       ELSE Goto(j, "admit")
    /\ UNCHANGED <<scenario, durable, workers, lau, rec, can, daemon, lock, budget>>

\* #tryAcceptedJob found no descriptor: continue on the admission state seen
\* before the read.  A launch in progress for the job is joined.
WithoutWorker(j) ==
    LET held == claim[runOf[j]] IN
    IF sub[j].journal = "uncertain" THEN Answer(j, "uncertain") /\ UNCHANGED lau
    ELSE IF sub[j].seen = "dispatching"
    THEN /\ Goto(j, "await")
         /\ lau' = IF lau[j].pc = "idle"
                   THEN [lau EXCEPT ![j] = [IdleLau EXCEPT !.pc = "claim",
                                                           !.journal = sub[j].journal]]
                   ELSE lau
    ELSE /\ UNCHANGED lau
         /\ IF sub[j].seen \in {"accepted", "uncertain"} \/ held = j
            THEN Update(j, "uncertain", "uncertain")
            ELSE IF held # NoJob THEN Update(j, "conflict", "conflict")
            ELSE Goto(j, "admit")

\* #tryAcceptedJob reads the descriptor.
TryAccepted(j) ==
    /\ Running /\ sub[j].pc = "try"
    /\ IF desc[j] = "none" THEN WithoutWorker(j)
       ELSE /\ UNCHANGED lau
            /\ IF desc[j] \notin FinalDesc THEN Goto(j, "identify")
               ELSE IF sub[j].journal = "uncertain" THEN Update(j, "completed", "accepted")
               ELSE Goto(j, "accept")
    /\ UNCHANGED <<scenario, durable, workers, rec, can, daemon, lock, budget>>

\* #verifyWorkerIdentity answers; the journal was uncertain or not.
SubIdentified(j) ==
    /\ Running /\ sub[j].pc = "identify" /\ IdentityReady(j)
    /\ IF sub[j].journal = "uncertain" THEN Update(j, "completed", "accepted")
                                       ELSE Goto(j, "accept")
    /\ UNCHANGED <<scenario, durable, workers, lau, rec, can, daemon, lock, budget>>

\* ... or fails: the transport error reaches the client.
SubUnidentified(j) ==
    /\ Running /\ sub[j].pc = "identify" /\ ~Answering(j)
    /\ Answer(j, "error")
    /\ UNCHANGED <<scenario, durable, workers, lau, rec, can, daemon, lock, budget>>

\* #recordWorkerAccepted: what the admission ledger becomes.
Authenticates(j) == adm[j] \in {"dispatching", "accepted"}
RecordWorkerAccepted(j) == adm' = IF adm[j] = "dispatching"
                                  THEN [adm EXCEPT ![j] = "accepted"] ELSE adm
\* Mutant: an uncertain launch gives its capacity back.
ReleaseUncertain(j) == adm' = IF adm[j] \in {"dispatching", "accepted"}
                              THEN [adm EXCEPT ![j] = "none"] ELSE adm
RecordJobUncertain(j) == adm' = IF adm[j] \in {"dispatching", "accepted"}
                                THEN [adm EXCEPT ![j] = "uncertain"] ELSE adm

SubAccept(j) ==
    /\ Running /\ ~lock /\ sub[j].pc = "accept"
    /\ RecordWorkerAccepted(j)
    /\ IF Authenticates(j) THEN Update(j, "completed", "accepted")
                           ELSE Answer(j, "identity_mismatch")
    /\ UNCHANGED <<scenario, cmd, ccmd, snap, ticket, lastTicket, rejections, claim,
                   workers, lau, rec, can, daemon, lock, budget>>

\* updateCommand reads the journal and judges the transition ...
SubCheck(j) ==
    /\ Running /\ sub[j].pc = "check"
    /\ \/ TransitionAllowed(cmd[j], sub[j].want) /\ Goto(j, "write")
       \/ /\ MaySkip(cmd[j], sub[j].want)
          /\ Answer(j, sub[j].then)
       \/ /\ MayRefuse(cmd[j], sub[j].want)
          /\ IF sub[j].want = "completed" /\ sub[j].journal = "recorded"
             THEN Update(j, "uncertain", "uncertain")
             ELSE Answer(j, "uncertain")
    /\ UNCHANGED <<scenario, durable, workers, lau, rec, can, daemon, lock, budget>>

\* ... and replaces the file later, whatever it has become in between.
SubWrite(j) ==
    /\ Running /\ sub[j].pc = "write"
    /\ cmd' = [cmd EXCEPT ![j] = sub[j].want]
    /\ IF sub[j].then = "commit" THEN Goto(j, "commit") ELSE Answer(j, sub[j].then)
    /\ UNCHANGED <<scenario, ccmd, snap, adm, ticket, lastTicket, rejections, claim,
                   workers, lau, rec, can, daemon, lock, budget>>

\* The head of #admitJob's serialized section: a stopping daemon refuses.
Admitting(j) ==
    /\ Running /\ ~lock /\ sub[j].pc = "admit" /\ daemon # "stopping"

AdmitRefused(j) ==
    /\ ~lock /\ sub[j].pc = "admit" /\ daemon = "stopping"
    /\ Answer(j, "unavailable")
    /\ UNCHANGED <<scenario, durable, workers, lau, rec, can, daemon, lock, budget>>

\* #admitJob, serialized: replay whatever the command has become.
AdmitReplay(j) ==
    /\ Admitting(j)
    /\ j \notin rejections
    /\ cmd[j] # "recorded" \/ adm[j] = "queue_cancelling"
    /\ Answer(j, IF cmd[j] = "completed" THEN "accepted"
                 ELSE IF cmd[j] \in Rejected THEN cmd[j]
                 ELSE IF cmd[j] = "queued" /\ adm[j] = "queued" THEN "queued"
                 ELSE "uncertain")
    /\ UNCHANGED <<scenario, durable, workers, lau, rec, can, daemon, lock, budget>>

\* #admitJob with an uncommitted rejection: finish it.
AdmitRejected(j) ==
    /\ Admitting(j)
    /\ j \in rejections
    /\ IF cmd[j] = "recorded"
       THEN Update(j, "queue_full", "commit") /\ UNCHANGED rejections
       ELSE IF cmd[j] = "queue_full"
       THEN rejections' = rejections \ {j} /\ Answer(j, "queue_full")
       ELSE Answer(j, "uncertain") /\ UNCHANGED rejections
    /\ UNCHANGED <<scenario, cmd, ccmd, snap, adm, ticket, lastTicket, claim,
                   workers, lau, rec, can, daemon, lock, budget>>

\* #admitJob decides.  A dispatch or queue decision first makes the job record
\* durable (reserveJob); the section stays serialized until its event is too.
AdmitDecide(j) ==
    /\ Admitting(j)
    /\ cmd[j] = "recorded" /\ j \notin rejections /\ adm[j] # "queue_cancelling"
    /\ IF ClassifyNewAdmission = "reject" /\ adm[j] = "none"
       THEN /\ rejections' = rejections \cup {j}
            /\ Update(j, "queue_full", "commit")
            /\ UNCHANGED <<snap, lock>>
       ELSE /\ UNCHANGED rejections
            /\ IF NewJob(j)
               THEN snap' = snap \cup {j} /\ lock' = TRUE /\ Goto(j, "append")
               ELSE Update(j, "conflict", "conflict") /\ UNCHANGED <<snap, lock>>
    /\ UNCHANGED <<scenario, cmd, ccmd, adm, ticket, lastTicket, claim,
                   workers, lau, rec, can, daemon, budget>>

\* ... then job_dispatch_reserved or job_enqueued is appended, and the handler
\* goes on to the launch or to the queued journal.
AdmitAppend(j) ==
    /\ Running /\ sub[j].pc = "append"
    /\ lock' = FALSE
    /\ IF ClassifyNewAdmission = "dispatch"
       THEN /\ adm' = [adm EXCEPT ![j] = "dispatching"]
            /\ Goto(j, "await")
            /\ lau' = [lau EXCEPT ![j] = [IdleLau EXCEPT !.pc = "claim", !.journal = "recorded"]]
            /\ UNCHANGED <<ticket, lastTicket>>
       ELSE /\ adm' = [adm EXCEPT ![j] = "queued"]
            /\ lastTicket' = lastTicket + 1
            /\ ticket' = [ticket EXCEPT ![j] = lastTicket + 1]
            /\ Update(j, "queued", "queued")
            /\ UNCHANGED lau
    /\ UNCHANGED <<scenario, cmd, ccmd, snap, rejections, claim,
                   workers, rec, can, daemon, budget>>

\* After the queue_full journal is durable the rejection is committed.
CommitRejection(j) ==
    /\ Running /\ ~lock /\ sub[j].pc = "commit"
    /\ rejections' = rejections \ {j}
    /\ Answer(j, "queue_full")
    /\ UNCHANGED <<scenario, cmd, ccmd, snap, adm, ticket, lastTicket, claim,
                   workers, lau, rec, can, daemon, lock, budget>>

SubStep(j) ==
    \/ Look(j) \/ TryAccepted(j) \/ AdmitRefused(j) \/ SubIdentified(j) \/ SubUnidentified(j) \/ SubAccept(j)
    \/ SubCheck(j) \/ SubWrite(j) \/ AdmitReplay(j) \/ AdmitRejected(j)
    \/ AdmitDecide(j) \/ AdmitAppend(j) \/ CommitRejection(j)

-----------------------------------------------------------------------------
(* Launches: #launchJobOnce, #launchReservedJob (service.ts) and           *)
(* DetachedWorkerLauncher.launch (daemon.ts).                              *)

LauGoto(j, pc) == lau' = [lau EXCEPT ![j].pc = pc]
LauUpdate(j, want) == lau' = [lau EXCEPT ![j].pc = "update", ![j].want = want]

\* The launch promise settles: the submission that awaits it answers, and the
\* reconciler that awaits it goes on, or fails on any error that is not
\* command_uncertain.
Settle(j, a) ==
    /\ lau' = [lau EXCEPT ![j] = IdleLau]
    /\ IF sub[j].pc = "await" THEN Answer(j, a) ELSE UNCHANGED <<sub, told>>
    /\ rec' = IF rec.pc = "await" /\ rec.job = j
              THEN IF a \in {"accepted", "uncertain"} THEN GoOn(rec.launch, rec.adopt)
                   ELSE [IdleRec EXCEPT !.pc = "fatal"]
              ELSE rec

LauOther == <<scenario, ccmd, snap, ticket, lastTicket, rejections, can, daemon, lock>>

\* reserveActiveRunClaim: exclusive creation, idempotent for the same job.
LaunchClaim(j) ==
    LET r == runOf[j] IN
    /\ Running /\ lau[j].pc = "claim"
    /\ IF claim[r] \in {NoJob, j}
       THEN claim' = [claim EXCEPT ![r] = j] /\ LauGoto(j, "spawn")
       ELSE UNCHANGED claim /\ LauGoto(j, "uncertain")
    /\ UNCHANGED <<LauOther, cmd, adm, workers, sub, rec, told, budget>>

\* spawn: a detached process that outlives the daemon.
Spawn(j) ==
    /\ Running /\ lau[j].pc = "spawn"
    /\ \E k \in 1 .. MaxSpawns :
          /\ proc[<<j, k>>] = "none" /\ \A i \in 1 .. (k - 1) : proc[<<j, i>>] # "none"
          /\ proc' = [proc EXCEPT ![<<j, k>>] = "boot"]
          /\ lau' = [lau EXCEPT ![j].pc = "poll", ![j].child = k]
    /\ UNCHANGED <<LauOther, cmd, adm, claim, desc, owner, sock, abort, outcome, executed,
                   sub, rec, told, budget>>

\* The launcher polls for the descriptor of its own child.
Poll(j) ==
    /\ Running /\ lau[j].pc = "poll"
    /\ \/ owner[j] = lau[j].child /\ LauGoto(j, "identify")
       \/ owner[j] \notin {0, lau[j].child} /\ LauGoto(j, "try")
       \/ owner[j] = 0 /\ proc[<<j, lau[j].child>>] \in {"exited", "dead"} /\ LauGoto(j, "try")
    /\ UNCHANGED <<LauOther, cmd, adm, claim, workers, sub, rec, told, budget>>

\* #tryAcceptedJob after a failed launch: a published worker decides.
LaunchTry(j) ==
    /\ Running /\ lau[j].pc = "try"
    /\ LauGoto(j, IF desc[j] = "none" THEN "uncertain"
                  ELSE IF desc[j] \in FinalDesc THEN "reaccept" ELSE "reidentify")
    /\ UNCHANGED <<LauOther, cmd, adm, claim, workers, sub, rec, told, budget>>

LaunchIdentified(j) ==
    /\ Running /\ lau[j].pc \in {"identify", "reidentify"} /\ IdentityReady(j)
    /\ LauGoto(j, IF lau[j].pc = "identify" THEN "accept" ELSE "reaccept")
    /\ UNCHANGED <<LauOther, cmd, adm, claim, workers, sub, rec, told, budget>>

\* The first failure falls back to #tryAcceptedJob; the second one escapes
\* #launchReservedJob as a transport error.
LaunchUnidentified(j) ==
    /\ Running /\ lau[j].pc \in {"identify", "reidentify"} /\ ~Answering(j)
    /\ IF lau[j].pc = "identify"
       THEN LauGoto(j, "try") /\ UNCHANGED <<sub, rec, told>>
       ELSE Settle(j, "error")
    /\ UNCHANGED <<LauOther, cmd, adm, claim, workers, budget>>

LaunchAccept(j) ==
    /\ Running /\ ~lock /\ lau[j].pc \in {"accept", "reaccept"}
    /\ RecordWorkerAccepted(j)
    /\ IF Authenticates(j)
       THEN LauUpdate(j, "completed") /\ UNCHANGED <<sub, rec, told>>
       ELSE IF lau[j].pc = "accept"
       THEN LauGoto(j, "try") /\ UNCHANGED <<sub, rec, told>>
       ELSE Settle(j, "identity_mismatch")
    /\ UNCHANGED <<LauOther, cmd, claim, workers, budget>>

\* #recordJobUncertain, then #markSubmissionUncertain.
LaunchUncertain(j) ==
    /\ Running /\ ~lock /\ lau[j].pc = "uncertain"
    /\ RecordJobUncertain(j)
    /\ LauUpdate(j, "uncertain")
    /\ UNCHANGED <<LauOther, cmd, claim, workers, sub, rec, told, budget>>

\* updateCommand, with its read and its write as one step.  A completion that is
\* refused is marked uncertain, and that is refused in turn.
LaunchJournal(j) ==
    /\ Running /\ lau[j].pc = "update"
    /\ \/ /\ TransitionAllowed(cmd[j], lau[j].want)
          /\ cmd' = [cmd EXCEPT ![j] = lau[j].want]
          /\ Settle(j, IF lau[j].want = "completed" THEN "accepted" ELSE "uncertain")
       \/ MaySkip(cmd[j], lau[j].want) /\ Settle(j, "accepted") /\ UNCHANGED cmd
       \/ MayRefuse(cmd[j], lau[j].want) /\ Settle(j, "uncertain") /\ UNCHANGED cmd
    /\ UNCHANGED <<LauOther, adm, claim, workers, budget>>

LauStep(j) ==
    \/ LaunchClaim(j) \/ Spawn(j) \/ Poll(j) \/ LaunchTry(j) \/ LaunchIdentified(j)
    \/ LaunchUnidentified(j) \/ LaunchAccept(j) \/ LaunchUncertain(j)
    \/ LaunchJournal(j)

-----------------------------------------------------------------------------
(* Reconciliation: reconcile (service.ts), at start and on a timer.        *)

RecOther == <<scenario, ccmd, snap, ticket, lastTicket, workers, sub, can, told, budget>>
RecGoto(pc) == rec' = [rec EXCEPT !.pc = pc]
RecGoOn == rec' = GoOn(rec.launch, rec.adopt)
RecUpdate(want) == rec' = [rec EXCEPT !.pc = "check", !.want = want]

\* Rejections with a durable outcome, claims without an admission, and the
\* active jobs by what their descriptor says.
Decided == {j \in rejections : cmd[j] # "recorded"}
LegacyClaims == {j \in Jobs : claim[runOf[j]] = j /\ adm[j] = "none"}
Dispatching == {j \in Jobs : adm[j] = "dispatching"}
Finished == {j \in Active : desc[j] \in FinalDesc}
\* Mutant: the last free place is never given to the queue.
QueueReadyBelow == Queued # {} /\ Cardinality(Active) + 1 < maxActive
QueueReady == Queued # {} /\ Cardinality(Active) < maxActive

\* The serialized part commits the rejections whose queue_full journal is
\* durable and reads the descriptors of claimed and active workers, once.
Reconcile ==
    IF \E j \in Decided : cmd[j] # "queue_full"
    THEN rec' = [IdleRec EXCEPT !.pc = "fatal"] /\ lock' = FALSE /\ UNCHANGED rejections
    ELSE /\ rejections' = rejections \ Decided
         /\ lock' = TRUE
         /\ rec' = [IdleRec EXCEPT !.pc = "section",
                       !.final = {j \in Jobs : desc[j] \in FinalDesc},
                       !.legacy = LegacyClaims,
                       !.launch = {j \in Dispatching \cup LegacyClaims : desc[j] = "none"},
                       !.adopt = {j \in Dispatching \cup LegacyClaims :
                                     desc[j] \in {"starting", "running"}}]

\* A tick of the timer.  One that would find nothing to do changes nothing.
Tick ==
    /\ Serving /\ rec.pc = "idle" /\ ~lock
    /\ QueueReady \/ Decided \cup LegacyClaims \cup Dispatching \cup Finished # {}
    /\ Reconcile
    /\ UNCHANGED <<RecOther, cmd, adm, claim, lau, daemon>>

\* A listed claim without an admission is released when its worker is final;
\* the others are reserved, if the policy has room for all of them.
RecLegacy(j) ==
    LET live == rec.legacy \ rec.final IN
    /\ rec.pc = "section" /\ j \in rec.legacy
    /\ IF j \in rec.final
       THEN /\ claim' = [claim EXCEPT ![runOf[j]] = NoJob]
            /\ rec' = [rec EXCEPT !.legacy = @ \ {j}] /\ UNCHANGED <<adm, lock>>
       ELSE /\ live = rec.legacy /\ UNCHANGED claim
            /\ IF NewJob(j) /\ Cardinality(live) <= maxActive - Cardinality(Active)
               THEN /\ adm' = [adm EXCEPT ![j] = "dispatching"]
                    /\ rec' = [rec EXCEPT !.legacy = @ \ {j}] /\ UNCHANGED lock
               ELSE RecGoto("fatal") /\ lock' = FALSE /\ UNCHANGED adm
    /\ UNCHANGED <<RecOther, cmd, rejections, lau, daemon>>

\* A final worker frees its claim ...
RecDropClaim(j) ==
    LET r == runOf[j] IN
    /\ rec.pc = "section" /\ rec.legacy = {} /\ j \in Active \cap rec.final
    /\ IF claim[r] \in {NoJob, j}
       THEN /\ claim' = [claim EXCEPT ![r] = NoJob]
            /\ rec' = [rec EXCEPT !.pc = "drop", !.job = j] /\ UNCHANGED lock
       ELSE RecGoto("fatal") /\ lock' = FALSE /\ UNCHANGED claim
    /\ UNCHANGED <<RecOther, cmd, adm, rejections, lau, daemon>>

\* Mutant: the serialized section ends with the release.
RecReleaseOpen ==
    /\ rec.pc = "drop"
    /\ adm' = [adm EXCEPT ![rec.job] = "none"]
    /\ rec' = [rec EXCEPT !.pc = "section", !.job = NoJob]
    /\ lock' = FALSE
    /\ UNCHANGED <<RecOther, cmd, rejections, claim, lau, daemon>>

\* ... and then its capacity: job_released.
RecRelease ==
    /\ rec.pc = "drop"
    /\ adm' = [adm EXCEPT ![rec.job] = "none"]
    /\ rec' = [rec EXCEPT !.pc = "section", !.job = NoJob]
    /\ UNCHANGED <<RecOther, cmd, rejections, claim, lau, daemon, lock>>

\* Free capacity goes to the oldest queued job.
RecDispatch(j) ==
    /\ rec.pc = "section" /\ rec.legacy = {} /\ Active \cap rec.final = {}
    /\ QueueReady /\ OldestQueued(j)
    /\ adm' = [adm EXCEPT ![j] = "dispatching"]
    /\ rec' = [rec EXCEPT !.launch = @ \cup {j}]
    /\ UNCHANGED <<RecOther, cmd, rejections, claim, lau, daemon, lock>>

\* The serialized part ends; the launches and adoptions follow outside it.
RecLeave ==
    /\ rec.pc = "section" /\ rec.legacy = {} /\ Active \cap rec.final = {} /\ ~QueueReady
    /\ lock' = FALSE
    /\ RecGoOn
    /\ UNCHANGED <<RecOther, cmd, adm, rejections, claim, lau, daemon>>

\* One action after the other, in any order.
RecNext(j) ==
    /\ rec.pc = "next"
    /\ \/ /\ j \in rec.launch
          /\ rec' = [rec EXCEPT !.pc = "await", !.job = j, !.launch = @ \ {j}]
          /\ lau' = IF lau[j].pc = "idle"
                    THEN [lau EXCEPT ![j] = [IdleLau EXCEPT !.pc = "claim", !.journal = cmd[j]]]
                    ELSE lau
       \/ /\ j \in rec.adopt
          /\ rec' = [rec EXCEPT !.pc = "identify", !.job = j, !.adopt = @ \ {j},
                                !.journal = cmd[j]]
          /\ UNCHANGED lau
    /\ UNCHANGED <<RecOther, cmd, adm, rejections, claim, daemon, lock>>

\* The worker to adopt answers, or fails to.
RecIdentify ==
    /\ rec.pc = "identify"
    /\ \/ IdentityReady(rec.job) /\ RecGoto("accept")
       \/ ~Answering(rec.job) /\ RecGoto("uncertain")
    /\ UNCHANGED <<RecOther, cmd, adm, rejections, claim, lau, daemon, lock>>

RecAccept ==
    /\ rec.pc = "accept" /\ ~lock
    /\ RecordWorkerAccepted(rec.job)
    /\ IF ~Authenticates(rec.job) THEN RecGoto("fatal")
       ELSE IF rec.journal # "completed" THEN RecUpdate("completed") ELSE RecGoOn
    /\ UNCHANGED <<RecOther, cmd, rejections, claim, lau, daemon, lock>>

RecUncertain ==
    /\ rec.pc = "uncertain" /\ ~lock
    /\ RecordJobUncertain(rec.job)
    /\ IF rec.journal # "uncertain" THEN RecUpdate("uncertain") ELSE RecGoOn
    /\ UNCHANGED <<RecOther, cmd, rejections, claim, lau, daemon, lock>>

\* updateCommand from the reconciler; a refusal is command_uncertain, which
\* the loop passes over.
RecCheck ==
    /\ rec.pc = "check"
    /\ IF TransitionAllowed(cmd[rec.job], rec.want) THEN RecGoto("write")
       ELSE IF rec.want = "completed" /\ rec.journal = "recorded" THEN RecUpdate("uncertain")
       ELSE RecGoOn
    /\ UNCHANGED <<RecOther, cmd, adm, rejections, claim, lau, daemon, lock>>

RecWrite ==
    /\ rec.pc = "write"
    /\ cmd' = [cmd EXCEPT ![rec.job] = rec.want]
    /\ RecGoOn
    /\ UNCHANGED <<RecOther, adm, rejections, claim, lau, daemon, lock>>

\* After the reconciliation at start the server listens.
Listen ==
    /\ daemon = "starting" /\ rec.pc = "idle"
    /\ daemon' = "up"
    /\ UNCHANGED <<RecOther, cmd, adm, rejections, claim, lau, rec, lock>>

\* A failed reconciliation ends the daemon: at once while it starts, after its
\* open requests otherwise.
RecFatal ==
    /\ rec.pc = "fatal"
    /\ rec' = IdleRec
    /\ daemon' = IF daemon = "starting" THEN "down" ELSE "closing"
    /\ UNCHANGED <<RecOther, cmd, adm, rejections, claim, lau, lock>>

RecStep ==
    \/ Tick \/ RecRelease \/ RecLeave \/ RecIdentify \/ RecAccept
    \/ RecUncertain \/ RecCheck \/ RecWrite \/ Listen \/ RecFatal
    \/ \E j \in Jobs : RecLegacy(j) \/ RecDropClaim(j) \/ RecDispatch(j) \/ RecNext(j)

-----------------------------------------------------------------------------
(* Worker processes: executeWorkerJob (worker.ts).                         *)

WorkerOther == <<scenario, cmd, ccmd, snap, adm, ticket, lastTicket, rejections,
                 handlers, daemon, lock, told, budget>>
WorkerGoto(p, pc) == proc' = [proc EXCEPT ![p] = pc]

\* Some request with the identify command is open on the job's socket.
Identifying(j) ==
    \/ sub[j].pc = "identify" \/ lau[j].pc \in {"identify", "reidentify"}
    \/ rec.pc = "identify" /\ rec.job = j

\* listen on the worker's socket path, which a second process cannot bind.
Bind(p) ==
    /\ proc[p] = "boot"
    /\ IF p[1] \in sock THEN WorkerGoto(p, "exited") /\ UNCHANGED sock
                        ELSE WorkerGoto(p, "bound") /\ sock' = sock \cup {p[1]}
    /\ UNCHANGED <<WorkerOther, claim, desc, owner, abort, outcome, executed>>

\* Mutant: a descriptor is replaced whatever process it names.
PublishOver(p) ==
    /\ proc[p] = "bound"
    /\ desc' = [desc EXCEPT ![p[1]] = "starting"]
    /\ owner' = [owner EXCEPT ![p[1]] = p[2]]
    /\ WorkerGoto(p, "waiting")
    /\ UNCHANGED <<WorkerOther, claim, sock, abort, outcome, executed>>

\* writeWorkerDescriptor(starting): another process's identity is not replaced.
Publish(p) ==
    /\ proc[p] = "bound"
    /\ IF owner[p[1]] = 0
       THEN /\ desc' = [desc EXCEPT ![p[1]] = "starting"]
            /\ owner' = [owner EXCEPT ![p[1]] = p[2]]
            /\ WorkerGoto(p, "waiting")
       ELSE WorkerGoto(p, "exited") /\ UNCHANGED <<desc, owner>>
    /\ UNCHANGED <<WorkerOther, claim, sock, abort, outcome, executed>>

\* An identify request adopts the worker, which becomes running.
Adopt(p) ==
    /\ proc[p] = "waiting" /\ Identifying(p[1])
    /\ desc' = [desc EXCEPT ![p[1]] = "running"]
    /\ WorkerGoto(p, "ready")
    /\ UNCHANGED <<WorkerOther, claim, owner, sock, abort, outcome, executed>>

\* status sends identify to every claimed worker, and so adopts as well.
StatusAdopt(p) ==
    /\ Serving /\ proc[p] = "waiting" /\ claim[runOf[p[1]]] = p[1]
    /\ Spend("retry")
    /\ desc' = [desc EXCEPT ![p[1]] = "running"]
    /\ WorkerGoto(p, "ready")
    /\ UNCHANGED <<scenario, durable, owner, sock, abort, outcome, executed, handlers,
                   daemon, lock, told>>

\* Nobody adopted within ADOPTION_TIMEOUT_MS: the descriptor becomes failed.
\* A launch that polls every 20 ms loses that race only by a stall, a fault.
AdoptionTimeout(p) ==
    /\ proc[p] = "waiting" /\ ~Identifying(p[1])
    /\ IF lau[p[1]].pc = "idle" THEN UNCHANGED budget ELSE Spend("loss")
    /\ desc' = [desc EXCEPT ![p[1]] = "failed"]
    /\ WorkerGoto(p, "mute")
    /\ UNCHANGED <<scenario, durable, owner, sock, abort, outcome, executed, handlers,
                   daemon, lock, told>>

\* The identity response is flushed: the workflow runs.
Acknowledged(p) ==
    /\ proc[p] = "ready"
    /\ WorkerGoto(p, "executing")
    /\ executed' = executed \cup {p}
    /\ UNCHANGED <<WorkerOther, claim, desc, owner, sock, abort, outcome>>

\* The response to a daemon that died is never flushed.
AcknowledgementTimeout(p) ==
    /\ proc[p] = "ready" /\ ~Identifying(p[1])
    /\ desc' = [desc EXCEPT ![p[1]] = "failed"]
    /\ WorkerGoto(p, "final")
    /\ UNCHANGED <<WorkerOther, claim, owner, sock, abort, outcome, executed>>

\* How the ledger of the process's run may end: aborted ones may be cancelled.
Ends(p) == {"finished"} \cup (IF p \in abort THEN {"cancelled"} ELSE {})

\* The workflow ends and the descriptor becomes terminal, or failed after an
\* error, which every reader takes alike.
Finish(p) ==
    /\ proc[p] = "executing"
    /\ \E o \in Ends(p) : outcome' = [outcome EXCEPT ![p[1]] = o]
    /\ desc' = [desc EXCEPT ![p[1]] = "terminal"]
    /\ WorkerGoto(p, "final")
    /\ UNCHANGED <<WorkerOther, claim, owner, sock, abort, executed>>

\* The server closes and removes its socket; releaseActiveRunClaim reads the
\* claim and refuses another job's ...
CloseServer(p) ==
    /\ proc[p] \in {"final", "mute"}
    /\ sock' = sock \ {p[1]}
    /\ WorkerGoto(p, IF claim[runOf[p[1]]] = p[1] THEN "releasing" ELSE "exited")
    /\ UNCHANGED <<WorkerOther, claim, desc, owner, abort, outcome, executed>>

\* ... and renames the file away, whosever it has become.
RenameClaim(p) ==
    /\ proc[p] = "releasing"
    /\ claim' = [claim EXCEPT ![runOf[p[1]]] = NoJob]
    /\ WorkerGoto(p, "exited")
    /\ UNCHANGED <<WorkerOther, desc, owner, sock, abort, outcome, executed>>

WorkerStep(p) ==
    \/ Bind(p) \/ Publish(p) \/ Adopt(p) \/ AdoptionTimeout(p) \/ Acknowledged(p)
    \/ AcknowledgementTimeout(p) \/ Finish(p) \/ CloseServer(p)
    \/ RenameClaim(p)

-----------------------------------------------------------------------------
(* Cancellation: cancel, #cancelQueued, #finalizeQueuedCancellation        *)
(* (service.ts).  The journal of a completed cancellation keeps its phase: *)
(* "queued" or "active".                                                   *)

CanKept == <<scenario, snap, ticket, lastTicket, rejections, claim, sub, lau, rec, daemon, told>>
CanOther == <<CanKept, budget>>
CanGoto(r, pc, j) == can' = [can EXCEPT ![r] = [pc |-> pc, job |-> j]]
CanEnd(r) == can' = [can EXCEPT ![r] = IdleCan]

\* The run ledger ends in run_cancelled with this command's request id.
CancelledInLedger(r) == \E j \in Jobs : runOf[j] = r /\ outcome[j] = "cancelled"
AdmittedFor(r) == {j \in Jobs : runOf[j] = r /\ adm[j] # "none"}

\* Mutant: a job being dispatched is cancelled in the queue as well.
CancellableOrDispatching == {"queued", "queue_cancelling", "dispatching"}

\* What #cancelQueued takes out of the queue.
Cancellable == {"queued", "queue_cancelling"}

Cancel(r) ==
    /\ Serving /\ r \in scenario.cancelled /\ can[r].pc = "idle"
    /\ ccmd[r] # "active"
    /\ IF ccmd[r] = "none" THEN UNCHANGED budget ELSE Spend("retry")
    /\ ccmd' = [ccmd EXCEPT ![r] = IF @ = "none" THEN "recorded" ELSE @]
    /\ CanGoto(r, IF ccmd[r] = "queued" THEN "finalize"
                  ELSE IF ccmd[r] = "uncertain" THEN "ledger" ELSE "section", NoJob)
    /\ UNCHANGED <<CanKept, cmd, adm, workers, lock>>

\* #cancelQueued claims a queued job by queue_cancellation_recorded, or goes on
\* with one an earlier attempt claimed; anything else is not queued.
CancelSection(r) ==
    /\ Running /\ ~lock /\ can[r].pc = "section"
    /\ \/ \E j \in AdmittedFor(r) :
            /\ adm[j] \in Cancellable
            /\ adm' = [adm EXCEPT ![j] = "queue_cancelling"]
            /\ lock' = TRUE /\ CanGoto(r, "reject", j)
       \/ /\ \A j \in AdmittedFor(r) : adm[j] \notin Cancellable
          /\ CanGoto(r, "active", NoJob) /\ UNCHANGED <<adm, lock>>
    /\ UNCHANGED <<CanOther, cmd, ccmd, workers>>

\* Mutant: the journal is rejected with the reason of a contended run.
CancelRejectConflict(r) ==
    LET j == can[r].job IN
    /\ can[r].pc = "reject"
    /\ cmd' = [cmd EXCEPT ![j] = IF @ \in {"recorded", "queued"} THEN "conflict" ELSE @]
    /\ IF cmd[j] \in {"recorded", "queued", "conflict"}
       THEN CanGoto(r, "complete", j) /\ UNCHANGED lock
       ELSE CanEnd(r) /\ lock' = FALSE
    /\ UNCHANGED <<CanOther, ccmd, adm, workers>>

\* The submission's journal is rejected, unless it was before.
CancelReject(r) ==
    LET j == can[r].job IN
    /\ can[r].pc = "reject"
    /\ cmd' = [cmd EXCEPT ![j] = IF @ \in {"recorded", "queued"} THEN "cancelled" ELSE @]
    /\ IF cmd[j] \in {"recorded", "queued", "cancelled"}
       THEN CanGoto(r, "complete", j) /\ UNCHANGED lock
       ELSE CanEnd(r) /\ lock' = FALSE
    /\ UNCHANGED <<CanOther, ccmd, adm, workers>>

CancelComplete(r) ==
    /\ can[r].pc = "complete"
    /\ ccmd' = [ccmd EXCEPT ![r] = "queued"]
    /\ CanGoto(r, "drop", can[r].job)
    /\ UNCHANGED <<CanOther, cmd, adm, workers, lock>>

\* queue_cancellation_completed removes the job from admission.
CancelDrop(r) ==
    /\ can[r].pc = "drop"
    /\ adm' = [adm EXCEPT ![can[r].job] = "none"]
    /\ lock' = FALSE /\ CanEnd(r)
    /\ UNCHANGED <<CanOther, cmd, ccmd, workers>>

\* A retry of a completed queued cancellation finishes the removal.
CancelFinalize(r) ==
    /\ Running /\ ~lock /\ can[r].pc = "finalize"
    /\ adm' = [j \in Jobs |-> IF j \in AdmittedFor(r) /\ adm[j] = "queue_cancelling"
                              THEN "none" ELSE adm[j]]
    /\ CanEnd(r)
    /\ UNCHANGED <<CanOther, cmd, ccmd, workers, lock>>

\* An uncertain cancellation is settled only by the run ledger.
CancelLedger(r) ==
    /\ can[r].pc = "ledger"
    /\ ccmd' = [ccmd EXCEPT ![r] = IF CancelledInLedger(r) THEN "active" ELSE @]
    /\ CanEnd(r)
    /\ UNCHANGED <<CanOther, cmd, adm, workers, lock>>

\* The run is not queued: find the worker its claim names.
CancelActive(r) ==
    LET j == claim[r]
        settled == [ccmd EXCEPT ![r] = IF CancelledInLedger(r) THEN "active" ELSE @] IN
    /\ can[r].pc = "active"
    /\ IF j = NoJob
       THEN /\ ccmd' = IF \E k \in AdmittedFor(r) : adm[k] = "dispatching" THEN ccmd ELSE settled
            /\ CanEnd(r)
       ELSE IF desc[j] = "none"
       THEN /\ ccmd' = [ccmd EXCEPT ![r] = IF CancelledInLedger(r) THEN "active" ELSE "uncertain"]
            /\ CanEnd(r)
       ELSE CanGoto(r, "request", j) /\ UNCHANGED ccmd
    /\ UNCHANGED <<CanOther, cmd, adm, workers, lock>>

\* The cancel request reaches the worker and fires its AbortController.
CancelRequest(r) ==
    LET j == can[r].job IN
    /\ can[r].pc = "request"
    /\ IF Answering(j)
       THEN /\ abort' = abort \cup {Published(j)}
            /\ CanGoto(r, "response", j) /\ UNCHANGED ccmd
       ELSE /\ ccmd' = [ccmd EXCEPT ![r] = "uncertain"]
            /\ CanEnd(r) /\ UNCHANGED abort
    /\ UNCHANGED <<CanOther, cmd, adm, desc, owner, sock, proc, outcome, executed, lock>>

\* The worker answers when its run has ended, or never.
CancelResponse(r) ==
    LET j == can[r].job
        ended == proc[Published(j)] = "final" IN
    /\ can[r].pc = "response" /\ (Answering(j) => ended)
    /\ ccmd' = [ccmd EXCEPT ![r] = IF ended /\ outcome[j] = "cancelled"
                                   THEN "active" ELSE "uncertain"]
    /\ CanEnd(r)
    /\ UNCHANGED <<CanOther, cmd, adm, workers, lock>>

CanStep(r) ==
    \/ CancelSection(r) \/ CancelReject(r) \/ CancelComplete(r)
    \/ CancelDrop(r) \/ CancelFinalize(r) \/ CancelLedger(r) \/ CancelActive(r)
    \/ CancelRequest(r) \/ CancelResponse(r)

-----------------------------------------------------------------------------
(* The life of the daemon, and faults.                                     *)

Handlers0 ==
    /\ sub' = [j \in Jobs |-> IdleSub]
    /\ lau' = [j \in Jobs |-> IdleLau]
    /\ rec' = IdleRec
    /\ can' = [r \in Runs |-> IdleCan]

\* shutdown: refused while any job or rejection remains; retires the ledger.
Shutdown ==
    /\ Serving /\ ~lock /\ rejections = {} /\ \A j \in Jobs : adm[j] = "none"
    /\ Spend("stop")
    /\ lastTicket' = 0 /\ daemon' = "stopping"
    /\ UNCHANGED <<scenario, cmd, ccmd, snap, adm, ticket, rejections, claim, workers, handlers,
                   lock, told>>

\* A closing daemon exits once its open requests are answered.
Exit ==
    /\ daemon \in {"closing", "stopping"} /\ NoHandlers
    /\ daemon' = "down"
    /\ UNCHANGED <<scenario, durable, workers, handlers, lock, told, budget>>

\* The next client starts a daemon, which reconciles before it listens.
Restart ==
    /\ daemon = "down"
    /\ daemon' = "starting" /\ Reconcile
    /\ UNCHANGED <<RecOther, cmd, adm, claim, lau>>

Crash ==
    /\ Running /\ Spend("stop")
    /\ daemon' = "down" /\ lock' = FALSE /\ Handlers0
    /\ UNCHANGED <<scenario, durable, workers, told>>

\* A worker process is killed; its descriptor, socket and claim stay behind.
\* An executing one may have ended its run's ledger before.
Kill(p) ==
    /\ proc[p] \notin {"none", "exited", "dead"} /\ Spend("kill")
    /\ WorkerGoto(p, "dead")
    /\ \E o \in {outcome[p[1]]} \cup (IF proc[p] = "executing" THEN Ends(p) ELSE {}) :
          outcome' = [outcome EXCEPT ![p[1]] = o]
    /\ UNCHANGED <<scenario, durable, desc, owner, sock, abort, executed, handlers,
                   daemon, lock, told>>

\* A control response is lost, or slower than the requester's timeout.
Lose(j) ==
    /\ Running /\ Spend("loss")
    /\ \/ /\ sub[j].pc = "identify" /\ Answer(j, "error")
          /\ UNCHANGED <<ccmd, lau, rec, can>>
       \/ /\ lau[j].pc \in {"poll", "identify"} /\ LauGoto(j, "try")
          /\ UNCHANGED <<ccmd, sub, rec, can, told>>
       \/ /\ lau[j].pc = "reidentify" /\ Settle(j, "error")
          /\ UNCHANGED <<ccmd, can>>
       \/ /\ rec.pc = "identify" /\ rec.job = j /\ RecGoto("uncertain")
          /\ UNCHANGED <<ccmd, sub, lau, can, told>>
       \/ /\ can[runOf[j]].pc = "response" /\ can[runOf[j]].job = j
          /\ ccmd' = [ccmd EXCEPT ![runOf[j]] = "uncertain"] /\ CanEnd(runOf[j])
          /\ UNCHANGED <<sub, lau, rec, told>>
    /\ UNCHANGED <<scenario, cmd, snap, adm, ticket, lastTicket, rejections, claim, workers,
                   daemon, lock>>

\* What a live daemon, its workers and the client that starts it go on doing;
\* requests, faults and shutdowns may never come.
Progress ==
    \/ RecStep \/ Exit \/ Restart
    \/ \E j \in Jobs : SubStep(j) \/ LauStep(j)
    \/ \E r \in Runs : CanStep(r)
    \/ \E p \in Procs : WorkerStep(p)

Next ==
    \/ Progress
    \/ \E j \in Jobs : Submit(j) \/ Lose(j)
    \/ \E r \in Runs : Cancel(r)
    \/ \E p \in Procs : StatusAdopt(p) \/ Kill(p)
    \/ Shutdown \/ Crash

Spec == Init /\ [][Next]_vars

FairSpec == Spec /\ WF_vars(Progress)

-----------------------------------------------------------------------------
(* Properties.                                                             *)

CommandStatus == {"none", "recorded", "queued", "completed", "uncertain"} \cup Rejected

\* Every variable has its type, and what the admission reducer refuses to hold
\* never arises: more active or queued jobs than the policy allows, two live
\* jobs of one run, a job that is also a pending rejection (admission.ts
\* finalizedState).
TypeOK ==
    /\ scenario \in Scenarios /\ budget \in [Faults -> Nat]
    /\ cmd \in [Jobs -> CommandStatus]
    /\ ccmd \in [Runs -> {"none", "recorded", "queued", "active", "uncertain"}]
    /\ snap \subseteq Jobs /\ rejections \subseteq Jobs /\ sock \subseteq Jobs
    /\ adm \in [Jobs -> {"none", "queued", "queue_cancelling"} \cup ActiveStatus]
    /\ claim \in [Runs -> Jobs \cup {NoJob}]
    /\ desc \in [Jobs -> {"none", "starting", "running"} \cup FinalDesc]
    /\ abort \subseteq Procs /\ executed \subseteq Procs
    /\ Cardinality(Active) <= maxActive /\ Cardinality(Queued) <= maxQueued
    /\ \A j, k \in Jobs : adm[j] # "none" /\ adm[k] # "none" /\ j # k => runOf[j] # runOf[k]
    /\ \A j \in rejections : adm[j] = "none"

\* At most one worker process ever enters a job's workflow, and no two execute
\* one run at a time, although a restarted or stale reconciler may spawn a
\* second process for a job (the socket and descriptor of worker.ts 183-186).
OneExecution ==
    /\ \A p, q \in executed : p[1] = q[1] => p = q
    /\ \A p, q \in Procs : proc[p] = "executing" /\ proc[q] = "executing" /\ p # q
                           => runOf[p[1]] # runOf[q[1]]

\* A published worker that has not ended holds a durable active reservation:
\* capacity is never given away under a live worker, and a daemon that finds
\* legacy workers reserves for them before it serves (service.ts 546-626).
WorkerReserved ==
    \A j \in Jobs : desc[j] \in {"starting", "running"}
                    => adm[j] \in ActiveStatus \/ (j \in scenario.legacy /\ ~Serving)

\* The submission journal and the answers tell the truth about workers: an
\* accepted command has a published worker, a rejected one never spawned any
\* (service.ts 154-510, 962-1027).
JournalTruth ==
    \A j \in Jobs :
        /\ cmd[j] = "completed" \/ "accepted" \in told[j] => owner[j] # 0
        /\ cmd[j] \in Rejected \/ told[j] \cap Rejected # {}
           => \A k \in 1 .. MaxSpawns : proc[<<j, k>>] = "none"

\* Retries of one command never get contradicting answers: accepted excludes
\* every rejection, there is one kind of rejection, a queued command is never
\* told that the queue is full, and only one that shares its run with another
\* command is ever told of a conflict.
AnswersAgree ==
    \A j \in Jobs :
        /\ "accepted" \in told[j] => told[j] \cap Rejected = {}
        /\ Cardinality(told[j] \cap Rejected) <= 1
        /\ "queued" \in told[j] => "queue_full" \notin told[j]
        /\ "conflict" \in told[j] => \E k \in Jobs \ {j} : runOf[k] = runOf[j]

\* A run whose cancellation completed in the queue never gets a worker, in
\* whatever order cancel, dispatch, retries and a restart take their steps.
QueueCancelledNeverRuns ==
    \A j \in Jobs :
        ccmd[runOf[j]] = "queued" /\ (\A k \in Jobs \ {j} : runOf[k] # runOf[j])
        => \A k \in 1 .. MaxSpawns : proc[<<j, k>>] = "none"

\* Dispatch is FIFO: no job gets capacity while an older one is queued, not
\* even a new submission that finds free capacity after a restart.
FifoDispatch ==
    [][\A j \in Jobs : adm[j] \notin ActiveStatus /\ adm'[j] = "dispatching"
          => \A k \in Queued \ {j} : adm[j] = "queued" /\ ticket[j] < ticket[k]]_vars

\* Capacity that will never be freed: an active job without a worker that will
\* still publish an end.
Lost(j) ==
    /\ adm[j] \in ActiveStatus
    /\ \/ owner[j] # 0 /\ desc[j] \notin FinalDesc /\ proc[Published(j)] = "dead"
       \/ owner[j] = 0 /\ adm[j] = "uncertain"

\* The queue eventually drains (clients send finitely many commands): every
\* queued job is dispatched or cancelled, unless capacity stays with a job whose
\* worker is gone (service.ts 590-658).
QueueDrains == Queued # {} ~> Queued = {} \/ \E k \in Jobs : Lost(k)

\* docs/recovery.md 391: "exact retries replay accepted, queued, or rejected
\* outcomes".  No retry of a command whose job has a worker is refused for an
\* identity mismatch (service.ts 267-272, 1182-1199).
RetryReplays == \A j \in Jobs : "identity_mismatch" \notin told[j]

=============================================================================
