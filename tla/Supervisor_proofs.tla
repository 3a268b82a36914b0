-------------------------- MODULE Supervisor_proofs --------------------------
(***************************************************************************)
(* Proofs about the supervisor, for any number of jobs and runs, any       *)
(* policy, and any number of daemon stops, killed workers, lost responses  *)
(* and repeated requests.                                                  *)
(*                                                                         *)
(* The argument turns on one stable fact: a job has begun once it has      *)
(* active capacity or a published worker, and nothing ever undoes that.    *)
(* Launches, processes and claims exist for begun jobs only; rejections    *)
(* are given to jobs that never begin.                                     *)
(***************************************************************************)
EXTENDS Supervisor, FiniteSetTheorems, TLAPS

-----------------------------------------------------------------------------
(* Types.                                                                  *)

SubPcs == {"idle", "look", "try", "identify", "accept", "check", "write", "admit",
           "append", "commit", "await"}
LauPcs == {"idle", "claim", "spawn", "poll", "try", "identify", "reidentify", "accept",
           "reaccept", "uncertain", "update"}
RecPcs == {"idle", "section", "drop", "next", "await", "identify", "accept", "uncertain",
           "check", "write", "fatal"}
CanPcs == {"idle", "section", "reject", "complete", "drop", "finalize", "ledger", "active",
           "request", "response"}
ProcPcs == {"none", "boot", "bound", "waiting", "ready", "executing", "final", "mute",
            "releasing", "exited", "dead"}
AdmStatus == {"none", "queued", "queue_cancelling"} \cup ActiveStatus
DescStatus == {"none", "starting", "running"} \cup FinalDesc

SubLocals == [pc : SubPcs, journal : CommandStatus, seen : AdmStatus, want : CommandStatus,
              then : {"none", "accepted", "queued", "uncertain", "conflict", "commit"}]
LauLocals == [pc : LauPcs, journal : CommandStatus, want : CommandStatus, child : Nat]
RecLocals == [pc : RecPcs, journal : CommandStatus, want : CommandStatus,
              job : Jobs \cup {NoJob}, final : SUBSET Jobs, legacy : SUBSET Jobs,
              launch : SUBSET Jobs, adopt : SUBSET Jobs]
CanLocals == [pc : CanPcs, job : Jobs \cup {NoJob}]

FilesTyped ==
    /\ scenario \in Scenarios
    /\ cmd \in [Jobs -> CommandStatus]
    /\ ccmd \in [Runs -> {"none", "recorded", "queued", "active", "uncertain"}]
    /\ snap \subseteq Jobs /\ rejections \subseteq Jobs
    /\ adm \in [Jobs -> AdmStatus]
    /\ ticket \in [Jobs -> Nat] /\ lastTicket \in Nat
    /\ claim \in [Runs -> Jobs \cup {NoJob}]

ProcessesTyped ==
    /\ desc \in [Jobs -> DescStatus]
    /\ owner \in [Jobs -> 0 .. MaxSpawns]
    /\ sock \subseteq Jobs
    /\ proc \in [Procs -> ProcPcs]
    /\ executed \subseteq Procs

HandlersTyped ==
    /\ sub \in [Jobs -> SubLocals]
    /\ lau \in [Jobs -> LauLocals]
    /\ rec \in RecLocals
    /\ can \in [Runs -> CanLocals]
    /\ told \in [Jobs -> SUBSET Definitive]
    /\ daemon \in {"down", "starting", "up", "closing", "stopping"}
    /\ lock \in BOOLEAN
    /\ budget \in [Faults -> Nat]

Typed == FilesTyped /\ ProcessesTyped /\ HandlersTyped

-----------------------------------------------------------------------------
(* The invariant.                                                          *)

\* The serialized section has one holder, and a daemon that is down or starting
\* has no handlers of clients.
CanSection == {"reject", "complete", "drop"}
RecSection == {"section", "drop"}

LockInv ==
    /\ \A j \in Jobs : sub[j].pc = "append" =>
          /\ lock /\ rec.pc \notin RecSection
          /\ \A r \in Runs : can[r].pc \notin CanSection
          /\ \A k \in Jobs : sub[k].pc = "append" => k = j
    /\ rec.pc \in RecSection => lock /\ \A r \in Runs : can[r].pc \notin CanSection
    /\ \A r \in Runs : can[r].pc \in CanSection =>
          lock /\ \A s \in Runs : can[s].pc \in CanSection => s = r

LifeInv ==
    /\ daemon \in {"down", "starting"} =>
          /\ \A j \in Jobs : sub[j].pc = "idle"
          /\ \A r \in Runs : can[r].pc = "idle"
          /\ \A j \in Jobs : lau[j].pc # "idle" => rec.pc = "await" /\ rec.job = j
    /\ daemon = "down" => rec.pc = "idle"

\* The descriptor says where the process it names is.
Named == {"waiting", "ready", "executing", "final", "mute", "releasing"}

WorkerInv ==
    /\ \A j \in Jobs : desc[j] = "none" <=> owner[j] = 0
    /\ \A j \in Jobs, k \in 1 .. MaxSpawns :
          /\ proc[<<j, k>>] \in Named => owner[j] = k
          /\ <<j, k>> \in executed => owner[j] = k
          /\ proc[<<j, k>>] = "waiting" => desc[j] = "starting"
          /\ proc[<<j, k>>] \in {"ready", "executing"} => desc[j] = "running"
          /\ proc[<<j, k>>] \in {"final", "mute", "releasing"} => desc[j] \in FinalDesc

\* A job has begun.
Begun(j) == adm[j] \in ActiveStatus \/ owner[j] # 0
Resting(j) == adm[j] \in {"none", "queue_cancelling"} /\ owner[j] = 0
Shared(j) == \E k \in Jobs \ {j} : runOf[k] = runOf[j]

\* What is there for begun jobs only.
BegunInv ==
    /\ \A j \in Jobs : lau[j].pc # "idle" => Begun(j)
    /\ \A j \in Jobs, k \in 1 .. MaxSpawns : proc[<<j, k>>] # "none" => Begun(j)
    /\ \A r \in Runs : claim[r] # NoJob => runOf[claim[r]] = r /\ Begun(claim[r])
    /\ \A j \in rec.launch \cup rec.adopt \cup rec.legacy : Begun(j)
    /\ rec.pc = "await" => rec.job \in Jobs /\ Begun(rec.job)

\* The reconciler's reading of descriptors stays true.
RecInv ==
    /\ \A j \in rec.final : desc[j] \in FinalDesc
    /\ \A j \in rec.adopt : owner[j] # 0
    /\ rec.legacy # {} => rec.pc \in {"section", "fatal"}
    /\ rec.pc = "drop" => rec.job \in Jobs /\ desc[rec.job] \in FinalDesc
    /\ rec.pc \in {"identify", "accept", "uncertain", "check", "write"} =>
          rec.job \in Jobs /\ owner[rec.job] # 0
    /\ rec.pc \in {"check", "write"} => rec.want \in {"completed", "uncertain"}

LauInv ==
    \A j \in Jobs :
        /\ lau[j].pc = "poll" => lau[j].child \in 1 .. MaxSpawns
        /\ lau[j].pc \in {"identify", "reidentify", "accept", "reaccept"} => owner[j] # 0
        /\ lau[j].pc = "update" => /\ lau[j].want \in {"completed", "uncertain"}
                                   /\ lau[j].want = "completed" => owner[j] # 0

CanInv ==
    /\ abort \subseteq Procs
    /\ \A r \in Runs :
        /\ can[r].pc = "request" => can[r].job \in Jobs
        /\ can[r].pc \in CanSection => /\ can[r].job \in Jobs /\ runOf[can[r].job] = r
                                       /\ adm[can[r].job] = "queue_cancelling"
        /\ can[r].pc \in {"complete", "drop"} => cmd[can[r].job] \notin {"none", "recorded"}

\* What a submission relies on, by where it is.
SubInv(j) ==
    /\ sub[j].pc # "idle" => cmd[j] # "none"
    /\ sub[j].pc = "look" => /\ sub[j].journal \in {"recorded", "queued", "uncertain"}
                             /\ cmd[j] = "recorded" => sub[j].journal = "recorded"
    /\ sub[j].pc = "try" =>
          /\ sub[j].seen \in ActiveStatus => Begun(j)
          /\ sub[j].seen \in {"none", "queue_cancelling"} =>
                adm[j] \in {"none", "queue_cancelling"} \/ owner[j] # 0
          /\ sub[j].seen = "queued" => sub[j].journal = "uncertain"
    /\ sub[j].pc \in {"identify", "accept"} => owner[j] # 0
    /\ sub[j].pc = "admit" => Resting(j)
    /\ sub[j].pc = "append" =>
          /\ NewJob(j) /\ ClassifyNewAdmission # "reject"
          /\ owner[j] = 0 /\ cmd[j] = "recorded" /\ j \in snap
    /\ sub[j].pc \in {"check", "write"} =>
          /\ sub[j].want \in {"completed", "uncertain", "queued", "conflict", "queue_full"}
          /\ sub[j].want = "completed" => sub[j].then = "accepted" /\ owner[j] # 0
          /\ sub[j].want = "uncertain" => sub[j].then = "uncertain" /\ Begun(j)
          /\ sub[j].want = "queued" => sub[j].then = "queued"
          /\ sub[j].want = "conflict" => sub[j].then = "conflict" /\ Resting(j) /\ Shared(j)
          /\ sub[j].want = "queue_full" => /\ sub[j].then = "commit" /\ "queued" \notin told[j]
                                           /\ Resting(j)
    /\ sub[j].pc = "commit" => /\ cmd[j] = "queue_full" /\ "queued" \notin told[j]
                               /\ Resting(j)

\* Journals, answers and admissions of a job agree.
JobInv(j) ==
    /\ Begun(j) \/ adm[j] # "none" => j \in snap /\ cmd[j] # "none"
    /\ adm[j] \in {"queued", "queue_cancelling"} => owner[j] = 0
    /\ adm[j] = "queued" => cmd[j] \in {"recorded", "queued"}
    /\ cmd[j] = "completed" \/ "accepted" \in told[j] => owner[j] # 0
    /\ cmd[j] \in Rejected => Resting(j)
    /\ told[j] \cap Rejected # {} => told[j] \cap Rejected = {cmd[j]} /\ sub[j].pc = "idle"
    /\ "queued" \in told[j] => cmd[j] \notin {"none", "recorded", "queue_full"}
    /\ cmd[j] = "conflict" => Shared(j)
    /\ ccmd[runOf[j]] = "queued" /\ ~Shared(j) => Resting(j) /\ cmd[j] \notin {"none", "recorded"}

\* The admission ledger keeps its limits.
LimitInv ==
    /\ Cardinality(Active) <= maxActive /\ Cardinality(Queued) <= maxQueued
    /\ \A j, k \in Jobs : adm[j] # "none" /\ adm[k] # "none" /\ j # k => runOf[j] # runOf[k]
    /\ \A j \in rejections : adm[j] = "none"

\* A legacy worker that no daemon has found yet.
Live == {"starting", "running"}
Unmet(j) == j \in scenario.legacy /\ adm[j] = "none" /\ desc[j] \in Live

ReservedInv ==
    \A j \in Jobs :
        /\ desc[j] \in Live => adm[j] \in ActiveStatus \/ Unmet(j)
        /\ Unmet(j) =>
              /\ daemon \in {"down", "starting"}
              /\ daemon = "starting" => rec.pc = "fatal" \/ j \in rec.legacy
              /\ claim[runOf[j]] = j
              /\ \A k \in Jobs \ {j} : runOf[k] = runOf[j] => adm[k] = "none" /\ owner[k] = 0
              /\ Queued = {}

\* Tickets order the queue, and capacity is free under a queue only while the
\* reconciler is about to hand it out.
QueueInv ==
    /\ \A j \in Queued : ticket[j] <= lastTicket
    /\ \A j, k \in Queued : ticket[j] = ticket[k] => j = k
    /\ QueueReady => \/ rec.pc \in RecSection \/ daemon = "down"
                     \/ daemon = "starting" /\ rec.pc = "fatal"
    /\ rec.pc = "section" /\ rec.legacy \ rec.final # {} => Queued = {}

-----------------------------------------------------------------------------
(* Types are kept.                                                         *)

\* The handlers' locals at rest are well typed, and so is a reconciler that
\* goes on.
LEMMA IdleTyped ==
    /\ IdleSub \in SubLocals /\ IdleLau \in LauLocals
    /\ IdleRec \in RecLocals /\ IdleCan \in CanLocals
    /\ \A l, a \in SUBSET Jobs : GoOn(l, a) \in RecLocals
BY DEF IdleSub, IdleLau, IdleRec, IdleCan, GoOn, SubLocals, LauLocals, RecLocals, CanLocals,
       SubPcs, LauPcs, RecPcs, CanPcs, CommandStatus, AdmStatus

\* Where the handlers' locals at rest and at their start are.
LEMMA RestPcs ==
    /\ IdleSub.pc = "idle" /\ IdleLau.pc = "idle" /\ IdleRec.pc = "idle" /\ IdleCan.pc = "idle"
    /\ \A pc, n : [IdleSub EXCEPT !.pc = pc, !.journal = n].pc = pc
    /\ \A pc, n : [IdleLau EXCEPT !.pc = pc, !.journal = n].pc = pc
    /\ [IdleRec EXCEPT !.pc = "fatal"].pc = "fatal"
    /\ \A l, a : GoOn(l, a).pc \in {"idle", "next"}
BY DEF IdleSub, IdleLau, IdleRec, IdleCan, GoOn

\* An answer keeps a submission typed.
LEMMA AnswerTyped ==
    ASSUME Typed, NEW j \in Jobs, NEW a, Answer(j, a)
    PROVE  sub' \in [Jobs -> SubLocals] /\ told' \in [Jobs -> SUBSET Definitive]
BY IdleTyped DEF Typed, HandlersTyped, Answer

\* So does a jump.
LEMMA GotoTyped ==
    ASSUME Typed, NEW j \in Jobs, NEW pc \in SubPcs, Goto(j, pc)
    PROVE  sub' \in [Jobs -> SubLocals] /\ told' \in [Jobs -> SUBSET Definitive]
BY DEF Typed, HandlersTyped, Goto, SubLocals

\* So does the start of a journal update.
LEMMA UpdateTyped ==
    ASSUME Typed, NEW j \in Jobs, NEW w \in CommandStatus,
           NEW t \in {"none", "accepted", "queued", "uncertain", "conflict", "commit"},
           Update(j, w, t)
    PROVE  sub' \in [Jobs -> SubLocals] /\ told' \in [Jobs -> SUBSET Definitive]
<1>0. sub \in [Jobs -> SubLocals] /\ told \in [Jobs -> SUBSET Definitive]
    BY DEF Typed, HandlersTyped
<1> DEFINE r == [sub[j] EXCEPT !.pc = "check", !.want = w, !.then = t]
<1>1. sub' = [sub EXCEPT ![j] = r] /\ told' = told
    BY <1>0 DEF Update
<1>2. r \in SubLocals
    BY <1>0 DEF SubLocals, SubPcs
<1> HIDE DEF r
<1>3. QED BY ONLY <1>0, <1>1, <1>2

\* A settled launch leaves every handler typed.
LEMMA SettleTyped ==
    ASSUME Typed, NEW j \in Jobs, NEW a, Settle(j, a)
    PROVE  /\ sub' \in [Jobs -> SubLocals] /\ told' \in [Jobs -> SUBSET Definitive]
           /\ lau' \in [Jobs -> LauLocals] /\ rec' \in RecLocals
<1>1. sub' \in [Jobs -> SubLocals] /\ told' \in [Jobs -> SUBSET Definitive]
    BY AnswerTyped DEF Typed, HandlersTyped, Settle
<1>2. lau' \in [Jobs -> LauLocals]
    BY IdleTyped DEF Typed, HandlersTyped, Settle
<1>3. [IdleRec EXCEPT !.pc = "fatal"] \in RecLocals
    BY IdleTyped DEF RecLocals, RecPcs
<1>4. rec' \in RecLocals
    BY <1>3, IdleTyped DEF Typed, HandlersTyped, Settle, RecLocals
<1>5. QED BY <1>1, <1>2, <1>4

\* The steps of a submission keep the types.
LEMMA SubTyped == ASSUME Typed, NEW j \in Jobs, SubStep(j) PROVE Typed'
<1> USE AnswerTyped, GotoTyped, UpdateTyped DEF SubPcs, CommandStatus, Rejected, durable, workers
<1>a. [sub EXCEPT ![j].pc = "try", ![j].seen = adm[j]] \in [Jobs -> SubLocals]
    <2>1. [sub[j] EXCEPT !.pc = "try", !.seen = adm[j]] \in SubLocals
        <3>1. sub[j] \in SubLocals /\ adm[j] \in AdmStatus
            BY DEF Typed, HandlersTyped, FilesTyped
        <3>2. QED BY <3>1 DEF SubLocals
    <2>2. [sub EXCEPT ![j].pc = "try", ![j].seen = adm[j]]
          = [sub EXCEPT ![j] = [sub[j] EXCEPT !.pc = "try", !.seen = adm[j]]]
        BY DEF Typed, HandlersTyped
    <2>3. QED BY <2>1, <2>2 DEF Typed, HandlersTyped
<1>b. ASSUME NEW n \in CommandStatus
      PROVE  [lau EXCEPT ![j] = [IdleLau EXCEPT !.pc = "claim", !.journal = n]]
             \in [Jobs -> LauLocals]
    <2>1. [IdleLau EXCEPT !.pc = "claim", !.journal = n] \in LauLocals
        BY IdleTyped DEF LauLocals, LauPcs
    <2>2. QED BY <2>1 DEF Typed, HandlersTyped
<1>c. sub[j].journal \in CommandStatus /\ sub[j].want \in CommandStatus
    BY DEF Typed, HandlersTyped, SubLocals
<1>1. CASE Look(j)
    BY <1>1, <1>a DEF Look, Typed, FilesTyped, ProcessesTyped, HandlersTyped
<1>2. CASE TryAccepted(j)
    <2>1. lau' \in [Jobs -> LauLocals]
        BY <1>2, <1>b, <1>c DEF TryAccepted, WithoutWorker, Typed, HandlersTyped
    <2>2. sub' \in [Jobs -> SubLocals] /\ told' \in [Jobs -> SUBSET Definitive]
        BY <1>2 DEF TryAccepted, WithoutWorker
    <2>3. QED BY <1>2, <2>1, <2>2 DEF TryAccepted, Typed, FilesTyped, ProcessesTyped, HandlersTyped
<1>3. CASE AdmitRefused(j)
    BY <1>3 DEF AdmitRefused, Typed, FilesTyped, ProcessesTyped, HandlersTyped
<1>4. CASE SubIdentified(j)
    BY <1>4 DEF SubIdentified, Typed, FilesTyped, ProcessesTyped, HandlersTyped
<1>5. CASE SubUnidentified(j)
    BY <1>5 DEF SubUnidentified, Typed, FilesTyped, ProcessesTyped, HandlersTyped
<1>6. CASE SubAccept(j)
    BY <1>6 DEF SubAccept, RecordWorkerAccepted, AdmStatus, ActiveStatus, Typed, FilesTyped,
                ProcessesTyped, HandlersTyped
<1>7. CASE SubCheck(j)
    BY <1>7 DEF SubCheck, Typed, FilesTyped, ProcessesTyped, HandlersTyped
<1>8. CASE SubWrite(j)
    <2>1. cmd' \in [Jobs -> CommandStatus]
        BY <1>8, <1>c DEF SubWrite, Typed, FilesTyped
    <2>2. QED BY <1>8, <2>1 DEF SubWrite, Typed, FilesTyped, ProcessesTyped, HandlersTyped
<1>9. CASE AdmitReplay(j)
    BY <1>9 DEF AdmitReplay, Typed, FilesTyped, ProcessesTyped, HandlersTyped
<1>10. CASE AdmitRejected(j)
    BY <1>10 DEF AdmitRejected, Typed, FilesTyped, ProcessesTyped, HandlersTyped
<1>11. CASE AdmitDecide(j)
    <2>1. sub' \in [Jobs -> SubLocals] /\ told' \in [Jobs -> SUBSET Definitive]
        BY <1>11 DEF AdmitDecide
    <2>2. lock' \in BOOLEAN BY <1>11 DEF AdmitDecide, Typed, HandlersTyped
    <2>3. snap' \subseteq Jobs /\ rejections' \subseteq Jobs
        BY <1>11 DEF AdmitDecide, Typed, FilesTyped
    <2>4. UNCHANGED <<scenario, cmd, ccmd, adm, ticket, lastTicket, claim, workers, lau, rec, can,
                      daemon, budget>>
        BY <1>11 DEF AdmitDecide
    <2>5. QED
        BY <2>1, <2>2, <2>3, <2>4 DEF Typed, FilesTyped, ProcessesTyped, HandlersTyped
<1>12. CASE AdmitAppend(j)
    <2>1. lau' \in [Jobs -> LauLocals]
        BY <1>12, <1>b DEF AdmitAppend, Typed, HandlersTyped
    <2>2. sub' \in [Jobs -> SubLocals] /\ told' \in [Jobs -> SUBSET Definitive]
        BY <1>12 DEF AdmitAppend
    <2>3. FilesTyped'
        BY <1>12 DEF AdmitAppend, Typed, FilesTyped, AdmStatus, ActiveStatus
    <2>4. QED BY <1>12, <2>1, <2>2, <2>3 DEF AdmitAppend, Typed, ProcessesTyped, HandlersTyped
<1>13. CASE CommitRejection(j)
    BY <1>13 DEF CommitRejection, Typed, FilesTyped, ProcessesTyped, HandlersTyped
<1>14. QED
    BY <1>1, <1>2, <1>3, <1>4, <1>5, <1>6, <1>7, <1>8, <1>9, <1>10, <1>11, <1>12, <1>13
    DEF SubStep

\* The steps of a launch keep the types.
LEMMA LauTyped == ASSUME Typed, NEW j \in Jobs, LauStep(j) PROVE Typed'
<1> USE SettleTyped DEF CommandStatus, Rejected, durable, workers, LauOther, LauPcs
<1>a. ASSUME NEW pc \in LauPcs, LauGoto(j, pc) PROVE lau' \in [Jobs -> LauLocals]
    BY <1>a DEF LauGoto, Typed, HandlersTyped, LauLocals
<1>b. ASSUME NEW w \in CommandStatus, LauUpdate(j, w) PROVE lau' \in [Jobs -> LauLocals]
    <2>1. lau' = [lau EXCEPT ![j] = [lau[j] EXCEPT !.pc = "update", !.want = w]]
        BY <1>b DEF LauUpdate, Typed, HandlersTyped
    <2>2. [lau[j] EXCEPT !.pc = "update", !.want = w] \in LauLocals
        <3>1. lau[j] \in LauLocals BY DEF Typed, HandlersTyped
        <3>2. QED BY <3>1 DEF LauLocals
    <2>3. QED BY <2>1, <2>2 DEF Typed, HandlersTyped
<1>c. lau[j].want \in CommandStatus
    BY DEF Typed, HandlersTyped, LauLocals
<1>1. CASE LaunchClaim(j)
    <2>1. runOf[j] \in Runs
        BY SupervisorAssumption DEF Typed, FilesTyped, ScenarioType, runOf
    <2>2. lau' \in [Jobs -> LauLocals] BY <1>1, <1>a DEF LaunchClaim
    <2>3. claim' \in [Runs -> Jobs \cup {NoJob}] BY <1>1, <2>1 DEF LaunchClaim, Typed, FilesTyped
    <2>4. QED BY <1>1, <2>2, <2>3 DEF LaunchClaim, Typed, FilesTyped, ProcessesTyped, HandlersTyped
<1>2. CASE Spawn(j)
    <2>1. PICK k \in 1 .. MaxSpawns :
            /\ proc' = [proc EXCEPT ![<<j, k>>] = "boot"]
            /\ lau' = [lau EXCEPT ![j].pc = "poll", ![j].child = k]
        BY <1>2 DEF Spawn
    <2>2. k \in Nat BY SupervisorAssumption
    <2>3. [lau[j] EXCEPT !.pc = "poll", !.child = k] \in LauLocals
        <3>1. lau[j] \in LauLocals BY DEF Typed, HandlersTyped
        <3>2. QED BY <2>2, <3>1 DEF LauLocals
    <2>4. lau' = [lau EXCEPT ![j] = [lau[j] EXCEPT !.pc = "poll", !.child = k]]
        BY <2>1 DEF Typed, HandlersTyped
    <2>5. lau' \in [Jobs -> LauLocals] BY <2>3, <2>4 DEF Typed, HandlersTyped
    <2>6. proc' \in [Procs -> ProcPcs] BY <2>1 DEF Typed, ProcessesTyped, ProcPcs, Procs
    <2>7. QED BY <1>2, <2>5, <2>6 DEF Spawn, Typed, FilesTyped, ProcessesTyped, HandlersTyped
<1>3. CASE Poll(j)
    BY <1>3, <1>a DEF Poll, Typed, FilesTyped, ProcessesTyped, HandlersTyped
<1>4. CASE LaunchTry(j)
    BY <1>4, <1>a DEF LaunchTry, Typed, FilesTyped, ProcessesTyped, HandlersTyped
<1>5. CASE LaunchIdentified(j)
    BY <1>5, <1>a DEF LaunchIdentified, Typed, FilesTyped, ProcessesTyped, HandlersTyped
<1>6. CASE LaunchUnidentified(j)
    BY <1>6, <1>a DEF LaunchUnidentified, Typed, FilesTyped, ProcessesTyped, HandlersTyped
<1>7. CASE LaunchAccept(j)
    <2>1. adm' \in [Jobs -> AdmStatus]
        BY <1>7 DEF LaunchAccept, RecordWorkerAccepted, Typed, FilesTyped, AdmStatus, ActiveStatus
    <2>2. QED
        BY <1>7, <1>a, <1>b, <2>1 DEF LaunchAccept, Typed, FilesTyped, ProcessesTyped, HandlersTyped
<1>8. CASE LaunchUncertain(j)
    <2>1. adm' \in [Jobs -> AdmStatus]
        BY <1>8 DEF LaunchUncertain, RecordJobUncertain, Typed, FilesTyped, AdmStatus, ActiveStatus
    <2>2. QED
        BY <1>8, <1>b, <2>1 DEF LaunchUncertain, Typed, FilesTyped, ProcessesTyped, HandlersTyped
<1>9. CASE LaunchJournal(j)
    <2>1. cmd' \in [Jobs -> CommandStatus] BY <1>9, <1>c DEF LaunchJournal, Typed, FilesTyped
    <2>2. QED BY <1>9, <2>1 DEF LaunchJournal, Typed, FilesTyped, ProcessesTyped, HandlersTyped
<1>10. QED
    BY <1>1, <1>2, <1>3, <1>4, <1>5, <1>6, <1>7, <1>8, <1>9 DEF LauStep

\* The start of a reconciliation keeps its parts typed.
LEMMA ReconcileTyped ==
    ASSUME Typed, Reconcile
    PROVE  rec' \in RecLocals /\ lock' \in BOOLEAN /\ rejections' \subseteq Jobs
<1>1. ASSUME NEW f \in SUBSET Jobs, NEW g \in SUBSET Jobs, NEW l \in SUBSET Jobs,
             NEW a \in SUBSET Jobs
      PROVE  [IdleRec EXCEPT !.pc = "section", !.final = f, !.legacy = g, !.launch = l,
                             !.adopt = a] \in RecLocals
    BY DEF IdleRec, RecLocals, RecPcs, CommandStatus
<1>2. [IdleRec EXCEPT !.pc = "fatal"] \in RecLocals
    BY DEF IdleRec, RecLocals, RecPcs, CommandStatus
<1>3. rec' \in RecLocals
    <2>1. CASE \E j \in Decided : cmd[j] # "queue_full"
        BY <1>2, <2>1 DEF Reconcile
    <2>2. CASE ~\E j \in Decided : cmd[j] # "queue_full"
        <3> DEFINE f == {j \in Jobs : desc[j] \in FinalDesc}
                   l == {j \in Dispatching \cup LegacyClaims : desc[j] = "none"}
                   a == {j \in Dispatching \cup LegacyClaims : desc[j] \in {"starting", "running"}}
        <3>1. /\ f \in SUBSET Jobs /\ l \in SUBSET Jobs /\ a \in SUBSET Jobs
              /\ LegacyClaims \in SUBSET Jobs
            BY DEF LegacyClaims, Dispatching
        <3>2. rec' = [IdleRec EXCEPT !.pc = "section", !.final = f, !.legacy = LegacyClaims,
                                     !.launch = l, !.adopt = a]
            BY <2>2 DEF Reconcile
        <3> HIDE DEF f, l, a
        <3>3. QED BY <1>1, <3>1, <3>2
    <2>3. QED BY <2>1, <2>2
<1>4. QED BY <1>3 DEF Reconcile, Typed, FilesTyped

\* The reconciler's locals stay typed when one of its sets of jobs changes.
LEMMA RecSetTyped ==
    ASSUME NEW r \in RecLocals, NEW S \in SUBSET Jobs
    PROVE  [r EXCEPT !.legacy = S] \in RecLocals /\ [r EXCEPT !.launch = S] \in RecLocals
<1>1. [r EXCEPT !.legacy = S] \in RecLocals BY DEF RecLocals
<1>2. [r EXCEPT !.launch = S] \in RecLocals BY DEF RecLocals
<1>3. QED BY <1>1, <1>2

\* The reconciler's locals stay typed when it turns to a job.
LEMMA RecJobTyped ==
    ASSUME NEW r \in RecLocals, NEW pc \in RecPcs, NEW j \in Jobs
    PROVE  [r EXCEPT !.pc = pc, !.job = j] \in RecLocals
BY DEF RecLocals

\* ... and when it takes the job from the set it launches,
LEMMA RecLaunchTyped ==
    ASSUME NEW r \in RecLocals, NEW pc \in RecPcs, NEW j \in Jobs, NEW S \in SUBSET Jobs
    PROVE  [r EXCEPT !.pc = pc, !.job = j, !.launch = S] \in RecLocals
BY DEF RecLocals

\* ... or from the set it adopts, with the journal it read.
LEMMA RecAdoptTyped ==
    ASSUME NEW r \in RecLocals, NEW pc \in RecPcs, NEW j \in Jobs, NEW S \in SUBSET Jobs,
           NEW c \in CommandStatus
    PROVE  [r EXCEPT !.pc = pc, !.job = j, !.adopt = S, !.journal = c] \in RecLocals
BY DEF RecLocals

\* The steps of the reconciler keep the types.
LEMMA RecTyped == ASSUME Typed, RecStep PROVE Typed'
<1> USE ReconcileTyped, IdleTyped DEF CommandStatus, Rejected, durable, workers, RecOther, RecPcs
<1>a. rec \in RecLocals /\ rec.launch \in SUBSET Jobs /\ rec.adopt \in SUBSET Jobs
      /\ rec.want \in CommandStatus
    BY DEF Typed, HandlersTyped, RecLocals
<1>b. ASSUME NEW pc \in RecPcs, RecGoto(pc) PROVE rec' \in RecLocals
    BY <1>a, <1>b DEF RecGoto, RecLocals
<1>c. ASSUME NEW w \in CommandStatus, RecUpdate(w) PROVE rec' \in RecLocals
    BY <1>a, <1>c DEF RecUpdate, RecLocals
<1>d. RecGoOn => rec' \in RecLocals
    BY <1>a DEF RecGoOn
<1>e. \A j \in Jobs : runOf[j] \in Runs
    BY SupervisorAssumption DEF Typed, FilesTyped, ScenarioType, runOf
<1>1. CASE Tick
    BY <1>1 DEF Tick, Typed, FilesTyped, ProcessesTyped, HandlersTyped
<1>2. CASE RecRelease
    <2>1. rec' \in RecLocals
        BY <1>2, <1>a DEF RecRelease, RecLocals
    <2>2. adm' \in [Jobs -> AdmStatus] BY <1>2 DEF RecRelease, Typed, FilesTyped, AdmStatus
    <2>3. QED BY <1>2, <2>1, <2>2 DEF RecRelease, Typed, FilesTyped, ProcessesTyped, HandlersTyped
<1>3. CASE RecLeave
    BY <1>3, <1>d DEF RecLeave, Typed, FilesTyped, ProcessesTyped, HandlersTyped
<1>4. CASE RecIdentify
    BY <1>4, <1>b DEF RecIdentify, Typed, FilesTyped, ProcessesTyped, HandlersTyped
<1>5. CASE RecAccept
    <2>1. adm' \in [Jobs -> AdmStatus]
        BY <1>5 DEF RecAccept, RecordWorkerAccepted, Typed, FilesTyped, AdmStatus, ActiveStatus
    <2>2. rec' \in RecLocals BY <1>5, <1>b, <1>c, <1>d DEF RecAccept
    <2>3. QED BY <1>5, <2>1, <2>2 DEF RecAccept, Typed, FilesTyped, ProcessesTyped, HandlersTyped
<1>6. CASE RecUncertain
    <2>1. adm' \in [Jobs -> AdmStatus]
        BY <1>6 DEF RecUncertain, RecordJobUncertain, Typed, FilesTyped, AdmStatus, ActiveStatus
    <2>2. rec' \in RecLocals BY <1>6, <1>b, <1>c, <1>d DEF RecUncertain
    <2>3. QED
        BY <1>6, <2>1, <2>2 DEF RecUncertain, Typed, FilesTyped, ProcessesTyped, HandlersTyped
<1>7. CASE RecCheck
    <2>1. rec' \in RecLocals BY <1>7, <1>b, <1>c, <1>d DEF RecCheck
    <2>2. QED BY <1>7, <2>1 DEF RecCheck, Typed, FilesTyped, ProcessesTyped, HandlersTyped
<1>8. CASE RecWrite
    <2>1. cmd' \in [Jobs -> CommandStatus] BY <1>8, <1>a DEF RecWrite, Typed, FilesTyped
    <2>2. QED
        BY <1>8, <1>d, <2>1 DEF RecWrite, Typed, FilesTyped, ProcessesTyped, HandlersTyped
<1>9. CASE Listen
    BY <1>9 DEF Listen, Typed, FilesTyped, ProcessesTyped, HandlersTyped
<1>10. CASE RecFatal
    BY <1>10 DEF RecFatal, Typed, FilesTyped, ProcessesTyped, HandlersTyped
<1>11. ASSUME NEW j \in Jobs, RecLegacy(j) PROVE Typed'
    <2>1. rec' \in RecLocals
        <3>1. [rec EXCEPT !.legacy = rec.legacy \ {j}] \in RecLocals
            <4>1. rec.legacy \ {j} \in SUBSET Jobs BY <1>a DEF RecLocals
            <4>2. QED BY ONLY <1>a, <4>1, RecSetTyped
        <3>2. \/ rec' = [rec EXCEPT !.legacy = rec.legacy \ {j}]
              \/ RecGoto("fatal")
            BY <1>11 DEF RecLegacy
        <3>3. "fatal" \in RecPcs OBVIOUS
        <3>4. QED BY <1>b, <3>1, <3>2, <3>3
    <2>2. adm' \in [Jobs -> AdmStatus]
        BY <1>11 DEF RecLegacy, Typed, FilesTyped, AdmStatus, ActiveStatus
    <2>3. claim' \in [Runs -> Jobs \cup {NoJob}]
        BY <1>11, <1>e DEF RecLegacy, Typed, FilesTyped
    <2>4. lock' \in BOOLEAN BY <1>11 DEF RecLegacy, Typed, HandlersTyped
    <2>5. QED
        BY <1>11, <2>1, <2>2, <2>3, <2>4
        DEF RecLegacy, Typed, FilesTyped, ProcessesTyped, HandlersTyped
<1>12. ASSUME NEW j \in Jobs, RecDropClaim(j) PROVE Typed'
    <2>1. rec' \in RecLocals
        <3>1. [rec EXCEPT !.pc = "drop", !.job = j] \in RecLocals
            <4>1. "drop" \in RecPcs OBVIOUS
            <4>2. QED BY ONLY <1>a, <4>1, RecJobTyped, j \in Jobs
        <3>2. QED BY <1>12, <1>b, <3>1 DEF RecDropClaim
    <2>2. claim' \in [Runs -> Jobs \cup {NoJob}]
        BY <1>12, <1>e DEF RecDropClaim, Typed, FilesTyped
    <2>3. lock' \in BOOLEAN BY <1>12 DEF RecDropClaim, Typed, HandlersTyped
    <2>4. QED
        BY <1>12, <2>1, <2>2, <2>3
        DEF RecDropClaim, Typed, FilesTyped, ProcessesTyped, HandlersTyped
<1>13. ASSUME NEW j \in Jobs, RecDispatch(j) PROVE Typed'
    <2>1. rec' \in RecLocals
        <3>1. rec.launch \cup {j} \in SUBSET Jobs BY <1>a
        <3>2. [rec EXCEPT !.launch = rec.launch \cup {j}] \in RecLocals
            BY ONLY <1>a, <3>1, RecSetTyped
        <3>3. QED BY <1>13, <3>2 DEF RecDispatch
    <2>2. adm' \in [Jobs -> AdmStatus]
        BY <1>13 DEF RecDispatch, Typed, FilesTyped, AdmStatus, ActiveStatus
    <2>3. QED
        BY <1>13, <2>1, <2>2 DEF RecDispatch, Typed, FilesTyped, ProcessesTyped, HandlersTyped
<1>14. ASSUME NEW j \in Jobs, RecNext(j) PROVE Typed'
    <2>1. cmd[j] \in CommandStatus BY DEF Typed, FilesTyped
    <2>2. rec' \in RecLocals
        <3>1. rec.launch \ {j} \in SUBSET Jobs /\ rec.adopt \ {j} \in SUBSET Jobs BY <1>a
        <3>2. [rec EXCEPT !.pc = "await", !.job = j, !.launch = rec.launch \ {j}] \in RecLocals
            <4>1. "await" \in RecPcs OBVIOUS
            <4>2. QED BY ONLY <1>a, <3>1, <4>1, RecLaunchTyped, j \in Jobs
        <3>3. [rec EXCEPT !.pc = "identify", !.job = j, !.adopt = rec.adopt \ {j},
                          !.journal = cmd[j]] \in RecLocals
            <4>1. "identify" \in RecPcs OBVIOUS
            <4> DEFINE S == rec.adopt \ {j}
            <4> DEFINE c == cmd[j]
            <4>2. S \in SUBSET Jobs /\ c \in CommandStatus /\ rec \in RecLocals
                BY ONLY <1>a, <2>1, <3>1
            <4> HIDE DEF S, c
            <4>3. [rec EXCEPT !.pc = "identify", !.job = j, !.adopt = S, !.journal = c]
                      \in RecLocals
                BY ONLY <4>1, <4>2, RecAdoptTyped, j \in Jobs
            <4>4. QED BY <4>3 DEF S, c
        <3>4. QED BY <1>14, <3>2, <3>3 DEF RecNext
    <2>3. [IdleLau EXCEPT !.pc = "claim", !.journal = cmd[j]] \in LauLocals
        BY <2>1 DEF LauLocals, LauPcs
    <2>4. lau' \in [Jobs -> LauLocals] BY <1>14, <2>3 DEF RecNext, Typed, HandlersTyped
    <2>5. QED
        BY <1>14, <2>2, <2>4 DEF RecNext, Typed, FilesTyped, ProcessesTyped, HandlersTyped
<1>15. QED
    BY <1>1, <1>2, <1>3, <1>4, <1>5, <1>6, <1>7, <1>8, <1>9, <1>10, <1>11, <1>12, <1>13, <1>14
    DEF RecStep

\* The steps of a worker process keep the types.
LEMMA WorkerTyped ==
    ASSUME Typed, NEW p \in Procs, WorkerStep(p) \/ StatusAdopt(p) \/ Kill(p)
    PROVE  Typed'
<1> USE DEF WorkerOther, handlers, durable
<1>a. p[1] \in Jobs /\ p[2] \in 1 .. MaxSpawns /\ runOf[p[1]] \in Runs
    BY SupervisorAssumption DEF Procs, Typed, FilesTyped, ScenarioType, runOf
<1>b. ASSUME NEW pc \in ProcPcs, WorkerGoto(p, pc) PROVE proc' \in [Procs -> ProcPcs]
    BY <1>b DEF WorkerGoto, Typed, ProcessesTyped
<1>c. ASSUME NEW d \in DescStatus, desc' = [desc EXCEPT ![p[1]] = d]
      PROVE  desc' \in [Jobs -> DescStatus]
    BY <1>c DEF Typed, ProcessesTyped
<1>d. \A f \in Faults : Spend(f) => budget' \in [Faults -> Nat]
    BY DEF Spend, Typed, HandlersTyped
<1> USE DEF ProcPcs, DescStatus, FinalDesc, Faults
<1>1. CASE Bind(p)
    BY <1>1, <1>a, <1>b DEF Bind, Typed, FilesTyped, ProcessesTyped, HandlersTyped
<1>2. CASE Publish(p)
    <2>1. owner' \in [Jobs -> 0 .. MaxSpawns]
        BY <1>2, <1>a, SupervisorAssumption DEF Publish, Typed, ProcessesTyped
    <2>2. QED
        BY <1>2, <1>a, <1>b, <1>c, <2>1 DEF Publish, Typed, FilesTyped, ProcessesTyped, HandlersTyped
<1>3. CASE Adopt(p)
    BY <1>3, <1>b, <1>c DEF Adopt, Typed, FilesTyped, ProcessesTyped, HandlersTyped
<1>4. CASE AdoptionTimeout(p)
    <2>1. budget' \in [Faults -> Nat] BY <1>4, <1>d DEF AdoptionTimeout, Typed, HandlersTyped
    <2>2. QED
        BY <1>4, <1>b, <1>c, <2>1
        DEF AdoptionTimeout, Typed, FilesTyped, ProcessesTyped, HandlersTyped
<1>5. CASE Acknowledged(p)
    BY <1>5, <1>b DEF Acknowledged, Typed, FilesTyped, ProcessesTyped, HandlersTyped
<1>6. CASE AcknowledgementTimeout(p)
    BY <1>6, <1>b, <1>c
    DEF AcknowledgementTimeout, Typed, FilesTyped, ProcessesTyped, HandlersTyped
<1>7. CASE Finish(p)
    BY <1>7, <1>b, <1>c DEF Finish, Typed, FilesTyped, ProcessesTyped, HandlersTyped
<1>8. CASE CloseServer(p)
    BY <1>8, <1>b DEF CloseServer, Typed, FilesTyped, ProcessesTyped, HandlersTyped
<1>9. CASE RenameClaim(p)
    <2>1. claim' \in [Runs -> Jobs \cup {NoJob}]
        BY <1>9, <1>a DEF RenameClaim, Typed, FilesTyped
    <2>2. QED
        BY <1>9, <1>b, <2>1 DEF RenameClaim, Typed, FilesTyped, ProcessesTyped, HandlersTyped
<1>10. CASE StatusAdopt(p)
    <2>1. budget' \in [Faults -> Nat] BY <1>10, <1>d DEF StatusAdopt
    <2>2. QED
        BY <1>10, <1>b, <1>c, <2>1
        DEF StatusAdopt, Typed, FilesTyped, ProcessesTyped, HandlersTyped
<1>11. CASE Kill(p)
    <2>1. budget' \in [Faults -> Nat] BY <1>11, <1>d DEF Kill
    <2>2. QED
        BY <1>11, <1>b, <2>1 DEF Kill, Typed, FilesTyped, ProcessesTyped, HandlersTyped
<1>12. QED
    BY <1>1, <1>2, <1>3, <1>4, <1>5, <1>6, <1>7, <1>8, <1>9, <1>10, <1>11 DEF WorkerStep

\* The steps of a cancellation keep the types.
LEMMA CanTyped ==
    ASSUME Typed, NEW r \in Runs, CanStep(r) \/ Cancel(r)
    PROVE  Typed'
<1> USE DEF CanOther, CanKept, workers
<1>a. ASSUME NEW pc \in CanPcs, NEW j \in Jobs \cup {NoJob}, CanGoto(r, pc, j)
      PROVE  can' \in [Runs -> CanLocals]
    BY <1>a DEF CanGoto, Typed, HandlersTyped, CanLocals
<1>b. CanEnd(r) => can' \in [Runs -> CanLocals]
    BY IdleTyped DEF CanEnd, Typed, HandlersTyped
<1>c. can[r].job \in Jobs \cup {NoJob} /\ claim[r] \in Jobs \cup {NoJob}
    BY DEF Typed, HandlersTyped, FilesTyped, CanLocals
<1> USE DEF CanPcs
<1>1. CASE Cancel(r)
    <2>1. budget' \in [Faults -> Nat]
        BY <1>1 DEF Cancel, Spend, Faults, Typed, HandlersTyped
    <2>2. can' \in [Runs -> CanLocals] BY <1>1, <1>a DEF Cancel
    <2>3. QED
        BY <1>1, <2>1, <2>2 DEF Cancel, Typed, FilesTyped, ProcessesTyped, HandlersTyped
<1>2. CASE CancelSection(r)
    <2>1. can' \in [Runs -> CanLocals] BY <1>2, <1>a DEF CancelSection, AdmittedFor
    <2>2. adm' \in [Jobs -> AdmStatus]
        BY <1>2 DEF CancelSection, AdmittedFor, AdmStatus, Typed, FilesTyped
    <2>3. lock' \in BOOLEAN BY <1>2 DEF CancelSection, Typed, HandlersTyped
    <2>4. QED
        BY <1>2, <2>1, <2>2, <2>3 DEF CancelSection, Typed, FilesTyped, ProcessesTyped, HandlersTyped
<1>3. CASE CancelReject(r)
    <2>1. cmd' \in [Jobs -> CommandStatus]
        BY <1>3 DEF CancelReject, CommandStatus, Rejected, Typed, FilesTyped
    <2>2. can' \in [Runs -> CanLocals] BY <1>3, <1>a, <1>b, <1>c DEF CancelReject
    <2>3. lock' \in BOOLEAN BY <1>3 DEF CancelReject, Typed, HandlersTyped
    <2>4. QED
        BY <1>3, <2>1, <2>2, <2>3 DEF CancelReject, Typed, FilesTyped, ProcessesTyped, HandlersTyped
<1>4. CASE CancelComplete(r)
    BY <1>4, <1>a, <1>c DEF CancelComplete, Typed, FilesTyped, ProcessesTyped, HandlersTyped
<1>5. CASE CancelDrop(r)
    <2>1. adm' \in [Jobs -> AdmStatus] BY <1>5 DEF CancelDrop, AdmStatus, Typed, FilesTyped
    <2>2. QED
        BY <1>5, <1>b, <2>1 DEF CancelDrop, Typed, FilesTyped, ProcessesTyped, HandlersTyped
<1>6. CASE CancelFinalize(r)
    <2>1. adm' \in [Jobs -> AdmStatus] BY <1>6 DEF CancelFinalize, AdmStatus, Typed, FilesTyped
    <2>2. QED
        BY <1>6, <1>b, <2>1 DEF CancelFinalize, Typed, FilesTyped, ProcessesTyped, HandlersTyped
<1>7. CASE CancelLedger(r)
    BY <1>7, <1>b DEF CancelLedger, Typed, FilesTyped, ProcessesTyped, HandlersTyped
<1>8. CASE CancelActive(r)
    <2>1. can' \in [Runs -> CanLocals] BY <1>8, <1>a, <1>b, <1>c DEF CancelActive
    <2>2. ccmd' \in [Runs -> {"none", "recorded", "queued", "active", "uncertain"}]
        BY <1>8 DEF CancelActive, Typed, FilesTyped
    <2>3. QED
        BY <1>8, <2>1, <2>2 DEF CancelActive, Typed, FilesTyped, ProcessesTyped, HandlersTyped
<1>9. CASE CancelRequest(r)
    <2>1. can' \in [Runs -> CanLocals] BY <1>9, <1>a, <1>b, <1>c DEF CancelRequest
    <2>2. QED
        BY <1>9, <2>1 DEF CancelRequest, Typed, FilesTyped, ProcessesTyped, HandlersTyped
<1>10. CASE CancelResponse(r)
    BY <1>10, <1>b DEF CancelResponse, Typed, FilesTyped, ProcessesTyped, HandlersTyped
<1>11. QED
    BY <1>1, <1>2, <1>3, <1>4, <1>5, <1>6, <1>7, <1>8, <1>9, <1>10 DEF CanStep

\* The rest of the daemon's life, requests and lost responses keep the types.
LEMMA LifeTyped ==
    ASSUME Typed, \/ Shutdown \/ Exit \/ Restart \/ Crash
                  \/ \E j \in Jobs : Submit(j) \/ Lose(j)
    PROVE  Typed'
<1> USE ReconcileTyped, IdleTyped DEF durable, workers, handlers
<1>a. \A f \in Faults : Spend(f) => budget' \in [Faults -> Nat]
    BY DEF Spend, Typed, HandlersTyped
<1> USE DEF Faults
<1>1. CASE Shutdown
    BY <1>1, <1>a DEF Shutdown, Typed, FilesTyped, ProcessesTyped, HandlersTyped
<1>2. CASE Exit
    BY <1>2 DEF Exit, Typed, FilesTyped, ProcessesTyped, HandlersTyped
<1>3. CASE Restart
    BY <1>3 DEF Restart, RecOther, Typed, FilesTyped, ProcessesTyped, HandlersTyped
<1>4. CASE Crash
    BY <1>4, <1>a DEF Crash, Handlers0, Typed, FilesTyped, ProcessesTyped, HandlersTyped
<1>5. ASSUME NEW j \in Jobs, Submit(j) PROVE Typed'
    <2>1. cmd' \in [Jobs -> CommandStatus] /\ budget' \in [Faults -> Nat]
        BY <1>5, <1>a DEF Submit, CommandStatus, Typed, FilesTyped, HandlersTyped
    <2>2. ASSUME NEW pc \in SubPcs, NEW n \in CommandStatus
          PROVE  [sub EXCEPT ![j] = [IdleSub EXCEPT !.pc = pc, !.journal = n]]
                 \in [Jobs -> SubLocals]
        <3>1. [IdleSub EXCEPT !.pc = pc, !.journal = n] \in SubLocals BY DEF SubLocals
        <3>2. QED BY <3>1 DEF Typed, HandlersTyped
    <2>3. /\ "recorded" \in CommandStatus /\ cmd[j] \in CommandStatus
          /\ "look" \in SubPcs /\ "admit" \in SubPcs
        BY DEF CommandStatus, SubPcs, Typed, FilesTyped
    <2>4. sub' \in [Jobs -> SubLocals] /\ told' \in [Jobs -> SUBSET Definitive]
        <3>1. \/ /\ sub' = [sub EXCEPT ![j] =
                               [IdleSub EXCEPT !.pc = "admit", !.journal = "recorded"]]
                 /\ told' = told
              \/ /\ sub' = [sub EXCEPT ![j] =
                               [IdleSub EXCEPT !.pc = "look", !.journal = cmd[j]]]
                 /\ told' = told
              \/ Answer(j, "accepted") \/ Answer(j, cmd[j])
            BY <1>5 DEF Submit
        <3>2. told \in [Jobs -> SUBSET Definitive] BY DEF Typed, HandlersTyped
        <3>3. [sub EXCEPT ![j] = [IdleSub EXCEPT !.pc = "admit", !.journal = "recorded"]]
              \in [Jobs -> SubLocals]
            BY <2>2, <2>3
        <3>4. [sub EXCEPT ![j] = [IdleSub EXCEPT !.pc = "look", !.journal = cmd[j]]]
              \in [Jobs -> SubLocals]
            BY <2>2, <2>3
        <3>5. CASE Answer(j, "accepted") \/ Answer(j, cmd[j]) BY <3>5, AnswerTyped
        <3>6. QED BY <3>1, <3>2, <3>3, <3>4, <3>5
    <2>5. QED BY <1>5, <2>1, <2>4 DEF Submit, Typed, FilesTyped, ProcessesTyped, HandlersTyped
<1>6. ASSUME NEW j \in Jobs, Lose(j) PROVE Typed'
    <2>1. budget' \in [Faults -> Nat] BY <1>6, <1>a DEF Lose
    <2>2. runOf[j] \in Runs
        BY SupervisorAssumption DEF Typed, FilesTyped, ScenarioType, runOf
    <2>3. sub' \in [Jobs -> SubLocals] /\ told' \in [Jobs -> SUBSET Definitive]
        BY <1>6, AnswerTyped, SettleTyped DEF Lose, Typed, HandlersTyped
    <2>4. lau' \in [Jobs -> LauLocals]
        <3>1. LauGoto(j, "try") => lau' \in [Jobs -> LauLocals]
            BY DEF LauGoto, LauLocals, LauPcs, Typed, HandlersTyped
        <3>2. QED BY <1>6, <3>1, SettleTyped DEF Lose, Typed, HandlersTyped
    <2>5. rec' \in RecLocals
        <3>1. RecGoto("uncertain") => rec' \in RecLocals
            BY DEF RecGoto, RecLocals, RecPcs, Typed, HandlersTyped
        <3>2. QED BY <1>6, <3>1, SettleTyped DEF Lose, Typed, HandlersTyped
    <2>6. can' \in [Runs -> CanLocals]
        BY <1>6 DEF Lose, CanEnd, Typed, HandlersTyped
    <2>7. ccmd' \in [Runs -> {"none", "recorded", "queued", "active", "uncertain"}]
        BY <1>6, <2>2 DEF Lose, Typed, FilesTyped
    <2>8. QED
        BY <1>6, <2>1, <2>3, <2>4, <2>5, <2>6, <2>7
        DEF Lose, Typed, FilesTyped, ProcessesTyped, HandlersTyped
<1>7. QED BY <1>1, <1>2, <1>3, <1>4, <1>5, <1>6

\* The initial state is well typed.
LEMMA InitTyped == ASSUME Init PROVE Typed
<1> USE SupervisorAssumption, IdleTyped
<1>1. /\ scenario \in ScenarioType
      /\ \A j \in Jobs : scenario.runOf[j] \in Runs
      /\ scenario.busy \subseteq Jobs /\ scenario.queued \subseteq Jobs
      /\ scenario.budget \in [Faults -> Nat]
      /\ scenario.busy # {} => MaxSpawns \in Nat /\ MaxSpawns > 0
    BY DEF Init, ScenarioType
<1>2. Cardinality(scenario.queued) \in Nat
    BY <1>1, FS_Subset, FS_CardinalityType
<1>3. claim \in [Runs -> Jobs \cup {NoJob}]
    BY <1>1 DEF Init
<1>4. executed \subseteq Procs
    BY <1>1 DEF Init, Procs
<1>5. FilesTyped
    <2>1. cmd \in [Jobs -> CommandStatus] /\ ccmd \in [Runs -> {"none", "recorded", "queued", "active", "uncertain"}]
        BY DEF Init, CommandStatus
    <2>2. adm \in [Jobs -> AdmStatus] BY DEF Init, AdmStatus, ActiveStatus
    <2>3. ticket \in [Jobs -> Nat] BY DEF Init
    <2>4. QED BY <1>1, <1>2, <1>3, <2>1, <2>2, <2>3 DEF Init, FilesTyped
<1>6. ProcessesTyped
    <2>1. desc \in [Jobs -> DescStatus] BY DEF Init, DescStatus
    <2>2. owner \in [Jobs -> 0 .. MaxSpawns] BY <1>1 DEF Init
    <2>3. proc \in [Procs -> ProcPcs] BY DEF Init, ProcPcs
    <2>4. QED BY <1>1, <1>4, <2>1, <2>2, <2>3 DEF Init, ProcessesTyped
<1>7. HandlersTyped
    <2>1. told \in [Jobs -> SUBSET Definitive] BY DEF Init, Definitive
    <2>2. QED BY <1>1, <2>1 DEF Init, NoHandlers, HandlersTyped
<1>8. QED BY <1>5, <1>6, <1>7 DEF Typed

\* Every step keeps the types.
LEMMA StepTyped == ASSUME Typed, [Next]_vars PROVE Typed'
<1>1. CASE UNCHANGED vars
    BY <1>1 DEF vars, durable, workers, handlers, Typed, FilesTyped, ProcessesTyped, HandlersTyped
<1>2. CASE Next
    BY <1>2, SubTyped, LauTyped, RecTyped, WorkerTyped, CanTyped, LifeTyped DEF Next, Progress
<1>3. QED BY <1>1, <1>2

-----------------------------------------------------------------------------
(* What each actor leaves alone.                                           *)

\* A submission touches its own job only, and holds the section while it is
\* at "append".
SubFrame(j) ==
    /\ sub[j].pc # "idle"
    /\ UNCHANGED <<scenario, ccmd, claim, workers, rec, can, daemon, budget>>
    /\ \A k \in Jobs \ {j} :
          /\ sub'[k] = sub[k] /\ told'[k] = told[k] /\ lau'[k] = lau[k]
          /\ cmd'[k] = cmd[k] /\ adm'[k] = adm[k] /\ ticket'[k] = ticket[k]
          /\ k \in snap' <=> k \in snap
          /\ k \in rejections' <=> k \in rejections
    /\ \/ lock' = lock /\ adm' = adm /\ sub'[j].pc # "append" /\ sub[j].pc # "append"
       \/ ~lock /\ sub'[j].pc # "append" /\ sub[j].pc # "append" /\ lock' = lock
       \/ ~lock /\ lock' /\ sub'[j].pc = "append" /\ adm' = adm
       \/ sub[j].pc = "append" /\ ~lock' /\ sub'[j].pc # "append"

\* Every step of a submission stays in that frame.
LEMMA SubFrames == ASSUME Typed, NEW j \in Jobs, SubStep(j) PROVE SubFrame(j)
<1> USE DEF durable, Answer, Goto, Update, IdleSub
<1> USE DEF Typed, FilesTyped, HandlersTyped, SubLocals
<1>1. CASE Look(j) BY <1>1 DEF Look, SubFrame
<1>2. CASE TryAccepted(j) BY <1>2 DEF TryAccepted, WithoutWorker, SubFrame
<1>3. CASE AdmitRefused(j) BY <1>3 DEF AdmitRefused, SubFrame
<1>4. CASE SubIdentified(j) BY <1>4 DEF SubIdentified, SubFrame
<1>5. CASE SubUnidentified(j) BY <1>5 DEF SubUnidentified, SubFrame
<1>6. CASE SubAccept(j) BY <1>6 DEF SubAccept, RecordWorkerAccepted, SubFrame
<1>7. CASE SubCheck(j) BY <1>7 DEF SubCheck, SubFrame
<1>8. CASE SubWrite(j) BY <1>8 DEF SubWrite, SubFrame
<1>9. CASE AdmitReplay(j) BY <1>9 DEF AdmitReplay, Admitting, SubFrame
<1>10. CASE AdmitRejected(j) BY <1>10 DEF AdmitRejected, Admitting, SubFrame
<1>11. CASE AdmitDecide(j) BY <1>11 DEF AdmitDecide, Admitting, SubFrame
<1>12. CASE AdmitAppend(j) BY <1>12 DEF AdmitAppend, SubFrame
<1>13. CASE CommitRejection(j) BY <1>13 DEF CommitRejection, SubFrame
<1>14. QED
    BY <1>1, <1>2, <1>3, <1>4, <1>5, <1>6, <1>7, <1>8, <1>9, <1>10, <1>11, <1>12, <1>13
    DEF SubStep

\* A launch touches its own job, the claim of its run, the submission and the
\* reconciler that await it.
LauFrame(j) ==
    /\ UNCHANGED <<LauOther, desc, owner, sock, abort, outcome, executed>>
    /\ lau[j].pc # "idle"
    /\ \A k \in Jobs \ {j} :
          /\ sub'[k] = sub[k] /\ told'[k] = told[k] /\ lau'[k] = lau[k]
          /\ cmd'[k] = cmd[k] /\ adm'[k] = adm[k]
    /\ \/ sub'[j] = sub[j] /\ told'[j] = told[j]
       \/ /\ sub[j].pc = "await" /\ sub'[j] = IdleSub
          /\ told[j] \subseteq told'[j] /\ told'[j] \subseteq told[j] \cup {"accepted", "identity_mismatch"}
    /\ \/ rec' = rec
       \/ /\ rec.pc = "await" /\ rec.job = j /\ lau'[j].pc = "idle"
          /\ rec' \in {GoOn(rec.launch, rec.adopt), [IdleRec EXCEPT !.pc = "fatal"]}
    /\ lau'[j].pc = "idle" => rec'.pc # "await" \/ rec.job # j
    /\ lock => adm' = adm

\* Every step of a launch stays in that frame.
LEMMA LauFrames == ASSUME Typed, NEW j \in Jobs, LauStep(j) PROVE LauFrame(j)
<1>a. ASSUME NEW a \in {"accepted", "uncertain", "error", "identity_mismatch"}, Settle(j, a)
      PROVE  /\ \A k \in Jobs \ {j} :
                   sub'[k] = sub[k] /\ told'[k] = told[k] /\ lau'[k] = lau[k]
             /\ \/ sub'[j] = sub[j] /\ told'[j] = told[j]
                \/ /\ sub[j].pc = "await" /\ sub'[j] = IdleSub
                   /\ told[j] \subseteq told'[j]
                   /\ told'[j] \subseteq told[j] \cup {"accepted", "identity_mismatch"}
             /\ \/ rec' = rec
                \/ /\ rec.pc = "await" /\ rec.job = j /\ lau'[j].pc = "idle"
                   /\ rec' \in {GoOn(rec.launch, rec.adopt), [IdleRec EXCEPT !.pc = "fatal"]}
             /\ rec'.pc # "await" \/ rec.job # j
    <2>1. /\ GoOn(rec.launch, rec.adopt).pc # "await"
          /\ [IdleRec EXCEPT !.pc = "fatal"].pc # "await"
        BY DEF GoOn, IdleRec
    <2>2. /\ lau'[j].pc = "idle" /\ \A k \in Jobs \ {j} : lau'[k] = lau[k]
        BY <1>a DEF Settle, IdleLau, Typed, HandlersTyped
    <2>3. /\ \A k \in Jobs \ {j} : sub'[k] = sub[k] /\ told'[k] = told[k]
          /\ \/ sub'[j] = sub[j] /\ told'[j] = told[j]
             \/ /\ sub[j].pc = "await" /\ sub'[j] = IdleSub
                /\ told[j] \subseteq told'[j]
                /\ told'[j] \subseteq told[j] \cup {"accepted", "identity_mismatch"}
        BY <1>a DEF Settle, Answer, Definitive, Rejected, Typed, HandlersTyped
    <2>4. QED BY <1>a, <2>1, <2>2, <2>3 DEF Settle
<1>b. \A a \in {"accepted", "uncertain", "error", "identity_mismatch"} : Settle(j, a) => lau'[j].pc = "idle"
    BY DEF Settle, IdleLau, Typed, HandlersTyped
<1> USE DEF LauOther, workers, LauGoto, LauUpdate, Typed, FilesTyped, HandlersTyped, LauLocals
<1>1. CASE LaunchClaim(j) BY <1>1 DEF LaunchClaim, LauFrame
<1>2. CASE Spawn(j) BY <1>2 DEF Spawn, LauFrame
<1>3. CASE Poll(j) BY <1>3 DEF Poll, LauFrame
<1>4. CASE LaunchTry(j) BY <1>4 DEF LaunchTry, LauFrame
<1>5. CASE LaunchIdentified(j) BY <1>5 DEF LaunchIdentified, LauFrame
<1>6. CASE LaunchUnidentified(j)
    <2>1. CASE lau[j].pc = "identify" BY <1>6, <2>1 DEF LaunchUnidentified, LauFrame
    <2>2. CASE Settle(j, "error") BY <1>6, <2>2, <1>a, <1>b DEF LaunchUnidentified, LauFrame
    <2>3. QED BY <1>6, <2>1, <2>2 DEF LaunchUnidentified
<1>7. CASE LaunchAccept(j)
    <2>0. \A k \in Jobs \ {j} : adm'[k] = adm[k]
        BY <1>7 DEF LaunchAccept, RecordWorkerAccepted
    <2>1. CASE Settle(j, "identity_mismatch")
        BY <1>7, <2>0, <2>1, <1>a, <1>b DEF LaunchAccept, LauFrame
    <2>2. CASE ~Settle(j, "identity_mismatch")
        BY <1>7, <2>0, <2>2 DEF LaunchAccept, LauFrame
    <2>3. QED BY <2>1, <2>2
<1>8. CASE LaunchUncertain(j) BY <1>8 DEF LaunchUncertain, RecordJobUncertain, LauFrame
<1>9. CASE LaunchJournal(j)
    <2>1. PICK a \in {"accepted", "uncertain"} : Settle(j, a) BY <1>9 DEF LaunchJournal
    <2>2. QED BY <1>9, <2>1, <1>a, <1>b DEF LaunchJournal, LauFrame
<1>10. QED
    BY <1>1, <1>2, <1>3, <1>4, <1>5, <1>6, <1>7, <1>8, <1>9 DEF LauStep

\* A worker process touches its own job and, renaming it away, a claim.
WorkerFrame(p) ==
    /\ UNCHANGED <<scenario, cmd, ccmd, snap, adm, ticket, lastTicket, rejections, handlers,
                   daemon, lock, told>>
    /\ \/ claim' = claim
       \/ proc[p] = "releasing" /\ claim' = [claim EXCEPT ![runOf[p[1]]] = NoJob]
    /\ proc[p] # "none" /\ proc'[p] # "none" /\ \A q \in Procs \ {p} : proc'[q] = proc[q]
    /\ \A k \in Jobs \ {p[1]} : desc'[k] = desc[k] /\ owner'[k] = owner[k]

\* Every step of a worker, a status request and a kill stay in that frame.
LEMMA WorkerFrames ==
    ASSUME Typed, NEW p \in Procs, WorkerStep(p) \/ StatusAdopt(p) \/ Kill(p)
    PROVE  WorkerFrame(p)
<1>a. ASSUME NEW pc \in ProcPcs, WorkerGoto(p, pc)
      PROVE  proc'[p] = pc /\ \A q \in Procs \ {p} : proc'[q] = proc[q]
    BY <1>a DEF WorkerGoto, Typed, ProcessesTyped
<1> USE DEF WorkerOther, durable, Typed, ProcessesTyped, ProcPcs
<1>1. CASE Bind(p) BY <1>1, <1>a DEF Bind, WorkerFrame
<1>2. CASE Publish(p) BY <1>2, <1>a DEF Publish, WorkerFrame
<1>3. CASE Adopt(p) BY <1>3, <1>a DEF Adopt, WorkerFrame
<1>4. CASE AdoptionTimeout(p) BY <1>4, <1>a DEF AdoptionTimeout, WorkerFrame
<1>5. CASE Acknowledged(p) BY <1>5, <1>a DEF Acknowledged, WorkerFrame
<1>6. CASE AcknowledgementTimeout(p) BY <1>6, <1>a DEF AcknowledgementTimeout, WorkerFrame
<1>7. CASE Finish(p) BY <1>7, <1>a DEF Finish, WorkerFrame
<1>8. CASE CloseServer(p) BY <1>8, <1>a DEF CloseServer, WorkerFrame
<1>9. CASE RenameClaim(p) BY <1>9, <1>a DEF RenameClaim, WorkerFrame
<1>10. CASE StatusAdopt(p) BY <1>10, <1>a DEF StatusAdopt, WorkerFrame
<1>11. CASE Kill(p) BY <1>11, <1>a DEF Kill, WorkerFrame
<1>12. QED
    BY <1>1, <1>2, <1>3, <1>4, <1>5, <1>6, <1>7, <1>8, <1>9, <1>10, <1>11 DEF WorkerStep

\* A cancellation touches its own handler and holds the section from its claim
\* of a queued job to the removal.
CanFrame(r) ==
    /\ UNCHANGED <<CanKept, desc, owner, sock, proc, outcome, executed>>
    /\ \A s \in Runs \ {r} : can'[s] = can[s] /\ ccmd'[s] = ccmd[s]
    /\ can[r].pc # "idle" \/ Serving
    /\ \/ lock' = lock /\ adm' = adm /\ (can'[r].pc \in CanSection => can[r].pc \in CanSection)
       \/ ~lock /\ lock' = lock /\ can'[r].pc \notin CanSection
       \/ ~lock /\ lock' /\ can'[r].pc \in CanSection
       \/ ~lock' /\ can[r].pc \in CanSection /\ can'[r].pc \notin CanSection

\* Every step of a cancellation stays in that frame.
LEMMA CanFrames ==
    ASSUME Typed, NEW r \in Runs, CanStep(r) \/ Cancel(r)
    PROVE  CanFrame(r)
<1> USE DEF CanOther, CanKept, workers, CanGoto, CanEnd, IdleCan, CanSection
<1> USE DEF Typed, FilesTyped, HandlersTyped, CanLocals
<1>1. CASE Cancel(r) BY <1>1 DEF Cancel, CanFrame
<1>2. CASE CancelSection(r) BY <1>2 DEF CancelSection, CanFrame
<1>3. CASE CancelReject(r) BY <1>3 DEF CancelReject, CanFrame
<1>4. CASE CancelComplete(r) BY <1>4 DEF CancelComplete, CanFrame
<1>5. CASE CancelDrop(r) BY <1>5 DEF CancelDrop, CanFrame
<1>6. CASE CancelFinalize(r) BY <1>6 DEF CancelFinalize, CanFrame
<1>7. CASE CancelLedger(r) BY <1>7 DEF CancelLedger, CanFrame
<1>8. CASE CancelActive(r) BY <1>8 DEF CancelActive, CanFrame
<1>9. CASE CancelRequest(r) BY <1>9 DEF CancelRequest, CanFrame
<1>10. CASE CancelResponse(r) BY <1>10 DEF CancelResponse, CanFrame
<1>11. QED
    BY <1>1, <1>2, <1>3, <1>4, <1>5, <1>6, <1>7, <1>8, <1>9, <1>10 DEF CanStep

\* The reconciler starts launches, and changes admissions and claims only in
\* its section or with nobody else in theirs.
RecFrame ==
    /\ UNCHANGED RecOther
    /\ rec.pc # "idle" \/ daemon \in {"starting", "up"}
    /\ \A k \in Jobs : \/ lau'[k] = lau[k]
                       \/ /\ lau[k].pc = "idle" /\ k \in rec.launch /\ rec.pc = "next"
                          /\ rec'.pc = "await" /\ rec'.job = k
                          /\ lau'[k] = [IdleLau EXCEPT !.pc = "claim", !.journal = cmd[k]]
    /\ \/ lock' = lock /\ rec.pc \notin RecSection /\ rec'.pc \notin RecSection
          /\ (lock => adm' = adm) /\ rejections' = rejections /\ claim' = claim
       \/ ~lock /\ lock' /\ rec.pc = "idle" /\ rec'.pc \in RecSection /\ adm' = adm /\ claim' = claim
       \/ ~lock /\ ~lock' /\ rec.pc = "idle" /\ rec'.pc = "fatal" /\ adm' = adm /\ claim' = claim
       \/ rec.pc \in RecSection /\ rec'.pc \in RecSection /\ lock' = lock
       \/ rec.pc \in RecSection /\ rec'.pc \notin RecSection /\ ~lock'
    /\ rec.pc = "await" => rec' = rec

\* Every step of the reconciler stays in that frame.
LEMMA RecFrames == ASSUME Typed, RecStep PROVE RecFrame
<1>a. /\ \A pc \in RecPcs : RecGoto(pc) => rec'.pc = pc
      /\ \A w \in CommandStatus : RecUpdate(w) => rec'.pc = "check"
      /\ RecGoOn => rec'.pc \in {"idle", "next"}
    <2>1. \A pc \in RecPcs : RecGoto(pc) => rec'.pc = pc
        BY DEF RecGoto, Typed, HandlersTyped, RecLocals
    <2>2. \A w \in CommandStatus : RecUpdate(w) => rec'.pc = "check"
        BY DEF RecUpdate, Typed, HandlersTyped, RecLocals
    <2>3. RecGoOn => rec'.pc \in {"idle", "next"}
        BY DEF RecGoOn, GoOn, IdleRec
    <2>4. QED BY <2>1, <2>2, <2>3
<1>b. Reconcile => \/ rec'.pc = "section" /\ lock' = TRUE
                   \/ rec'.pc = "fatal" /\ lock' = FALSE
    BY DEF Reconcile, IdleRec
<1> USE <1>a DEF RecOther, RecSection, RecPcs, CommandStatus
<1>1. CASE Tick BY <1>1, <1>b DEF Tick, Serving, RecFrame
<1>2. CASE RecRelease BY <1>2 DEF RecRelease, RecFrame, Typed, HandlersTyped, RecLocals
<1>3. CASE RecLeave BY <1>3 DEF RecLeave, RecFrame
<1>4. CASE RecIdentify BY <1>4 DEF RecIdentify, RecFrame
<1>5. CASE RecAccept
    <2>1. rec'.pc \notin RecSection BY <1>5 DEF RecAccept
    <2>2. QED BY <1>5, <2>1 DEF RecAccept, RecFrame
<1>6. CASE RecUncertain BY <1>6 DEF RecUncertain, RecFrame
<1>7. CASE RecCheck
    <2>1. rec'.pc \notin RecSection BY <1>7 DEF RecCheck
    <2>2. QED BY <1>7, <2>1 DEF RecCheck, RecFrame
<1>8. CASE RecWrite BY <1>8 DEF RecWrite, RecFrame
<1>9. CASE Listen BY <1>9 DEF Listen, RecFrame
<1>10. CASE RecFatal BY <1>10 DEF RecFatal, RecFrame, IdleRec
<1>11. ASSUME NEW j \in Jobs, RecLegacy(j) PROVE RecFrame
    BY <1>11 DEF RecLegacy, RecFrame, Typed, HandlersTyped, RecLocals
<1>12. ASSUME NEW j \in Jobs, RecDropClaim(j) PROVE RecFrame
    BY <1>12 DEF RecDropClaim, RecFrame, Typed, HandlersTyped, RecLocals
<1>13. ASSUME NEW j \in Jobs, RecDispatch(j) PROVE RecFrame
    BY <1>13 DEF RecDispatch, RecFrame, Typed, HandlersTyped, RecLocals
<1>14. ASSUME NEW j \in Jobs, RecNext(j) PROVE RecFrame
    <2>1. rec'.pc \in {"await", "identify"} /\ (rec'.pc = "await" => rec'.job = j /\ j \in rec.launch)
        BY <1>14 DEF RecNext, Typed, HandlersTyped, RecLocals
    <2>2. rec'.pc = "identify" => lau' = lau
        BY <1>14 DEF RecNext, Typed, HandlersTyped, RecLocals
    <2>3. \A k \in Jobs : \/ lau'[k] = lau[k]
                          \/ /\ k = j /\ lau[k].pc = "idle"
                             /\ lau'[k] = [IdleLau EXCEPT !.pc = "claim", !.journal = cmd[k]]
        BY <1>14 DEF RecNext, Typed, HandlersTyped
    <2>4. QED BY <1>14, <2>1, <2>2, <2>3 DEF RecNext, RecFrame
<1>15. QED
    BY <1>1, <1>2, <1>3, <1>4, <1>5, <1>6, <1>7, <1>8, <1>9, <1>10, <1>11, <1>12, <1>13, <1>14
    DEF RecStep

\* A lost response is met like an answer that never comes.
LoseFrame(j) ==
    /\ UNCHANGED <<scenario, cmd, snap, adm, ticket, lastTicket, rejections, claim, workers,
                   daemon, lock>>
    /\ \A k \in Jobs \ {j} : sub'[k] = sub[k] /\ told'[k] = told[k] /\ lau'[k] = lau[k]
    /\ \/ sub' = sub /\ told' = told
       \/ sub[j].pc \in {"identify", "await"} /\ sub'[j] = IdleSub /\ told' = told
    /\ \/ lau' = lau
       \/ lau[j].pc # "idle" /\ lau'[j].pc = "try"
       \/ lau[j].pc # "idle" /\ lau'[j].pc = "idle"
    /\ \/ rec' = rec
       \/ /\ rec.pc = "await" /\ rec.job = j /\ rec' = [IdleRec EXCEPT !.pc = "fatal"]
          /\ lau[j].pc # "idle" /\ lau'[j].pc = "idle"
       \/ rec.pc = "identify" /\ rec' = [rec EXCEPT !.pc = "uncertain"] /\ lau' = lau
    /\ lau'[j].pc = "idle" /\ lau[j].pc # "idle" => rec'.pc # "await" \/ rec.job # j
    /\ \A r \in Runs : \/ can'[r] = can[r] /\ ccmd'[r] = ccmd[r]
                       \/ can[r].pc = "response" /\ can'[r] = IdleCan /\ ccmd'[r] = "uncertain"

\* Every lost response stays in that frame.
LEMMA LoseFrames == ASSUME Typed, NEW j \in Jobs, Lose(j) PROVE LoseFrame(j)
<1> USE DEF Typed, FilesTyped, HandlersTyped
<1>a. Answer(j, "error") => sub' = [sub EXCEPT ![j] = IdleSub] /\ told' = told
    BY DEF Answer, Definitive, Rejected
<1>1. CASE sub[j].pc = "identify" /\ Answer(j, "error") /\ UNCHANGED <<ccmd, lau, rec, can>>
    BY <1>1, <1>a DEF Lose, LoseFrame
<1>2. CASE /\ lau[j].pc \in {"poll", "identify"} /\ LauGoto(j, "try")
           /\ UNCHANGED <<ccmd, sub, rec, can, told>>
    BY <1>2 DEF Lose, LoseFrame, LauGoto, LauLocals
<1>3. CASE lau[j].pc = "reidentify" /\ Settle(j, "error") /\ UNCHANGED <<ccmd, can>>
    <2>1. lau'[j].pc = "idle" /\ \A k \in Jobs \ {j} : lau'[k] = lau[k]
        BY <1>3 DEF Settle, IdleLau
    <2>2. /\ \A k \in Jobs \ {j} : sub'[k] = sub[k]
          /\ told' = told
          /\ sub' = sub \/ (sub[j].pc = "await" /\ sub'[j] = IdleSub)
        BY <1>3, <1>a DEF Settle
    <2>3. /\ \/ rec' = rec
             \/ rec.pc = "await" /\ rec.job = j /\ rec' = [IdleRec EXCEPT !.pc = "fatal"]
          /\ rec'.pc # "await" \/ rec.job # j
        BY <1>3 DEF Settle, IdleRec
    <2>4. QED BY <1>3, <2>1, <2>2, <2>3 DEF Lose, LoseFrame
<1>4. CASE /\ rec.pc = "identify" /\ rec.job = j /\ RecGoto("uncertain")
           /\ UNCHANGED <<ccmd, sub, lau, can, told>>
    BY <1>4 DEF Lose, LoseFrame, RecGoto
<1>5. CASE /\ can[runOf[j]].pc = "response" /\ can[runOf[j]].job = j
           /\ ccmd' = [ccmd EXCEPT ![runOf[j]] = "uncertain"] /\ CanEnd(runOf[j])
           /\ UNCHANGED <<sub, lau, rec, told>>
    BY <1>5 DEF Lose, LoseFrame, CanEnd
<1>6. QED BY <1>1, <1>2, <1>3, <1>4, <1>5 DEF Lose

\* A request starts its own submission.
SubmitFrame(j) ==
    /\ UNCHANGED <<scenario, ccmd, snap, adm, ticket, lastTicket, rejections, claim,
                   workers, lau, rec, can, daemon, lock>>
    /\ Serving /\ sub[j].pc = "idle"
    /\ \A k \in Jobs \ {j} : sub'[k] = sub[k] /\ told'[k] = told[k] /\ cmd'[k] = cmd[k]
    /\ \/ /\ cmd[j] = "none" /\ cmd'[j] = "recorded" /\ told' = told
          /\ sub'[j] = [IdleSub EXCEPT !.pc = "admit", !.journal = "recorded"]
       \/ /\ cmd[j] = "completed" /\ cmd' = cmd
          /\ sub'[j] = IdleSub /\ told'[j] = told[j] \cup {"accepted"}
       \/ /\ cmd[j] \in Rejected /\ cmd' = cmd
          /\ sub'[j] = IdleSub /\ told'[j] = told[j] \cup {cmd[j]}
       \/ /\ cmd[j] \in {"recorded", "queued", "uncertain"} /\ cmd' = cmd /\ told' = told
          /\ sub'[j] = [IdleSub EXCEPT !.pc = "look", !.journal = cmd[j]]

\* Every request stays in that frame.
LEMMA SubmitFrames == ASSUME Typed, NEW j \in Jobs, Submit(j) PROVE SubmitFrame(j)
<1> USE DEF Typed, FilesTyped, HandlersTyped
<1>1. cmd[j] \in CommandStatus BY DEF Typed
<1>2. CASE cmd[j] = "none" BY <1>2 DEF Submit, SubmitFrame, Rejected
<1>3. CASE cmd[j] = "completed"
    BY <1>3 DEF Submit, SubmitFrame, Answer, Definitive, Rejected
<1>4. CASE cmd[j] \in Rejected
    <2>1. {cmd[j]} \cap Definitive = {cmd[j]} BY <1>4 DEF Definitive
    <2>2. sub' = [sub EXCEPT ![j] = IdleSub] /\ told' = [told EXCEPT ![j] = @ \cup {cmd[j]}]
        BY <1>4, <2>1 DEF Submit, Answer, Rejected
    <2>3. cmd' = cmd BY <1>4 DEF Submit, Rejected
    <2>4. QED BY <1>4, <2>2, <2>3 DEF Submit, SubmitFrame
<1>5. CASE cmd[j] \in {"recorded", "queued", "uncertain"}
    BY <1>5 DEF Submit, SubmitFrame, Rejected
<1>6. QED BY <1>1, <1>2, <1>3, <1>4, <1>5 DEF CommandStatus

-----------------------------------------------------------------------------
(* The section has one holder.                                             *)

\* LockInv and LifeInv hold at first.
LEMMA InitLock == ASSUME Init PROVE LockInv /\ LifeInv
<1>1. /\ \A j \in Jobs : sub[j].pc = "idle" /\ lau[j].pc = "idle"
      /\ rec.pc = "idle" /\ \A r \in Runs : can[r].pc = "idle"
    BY DEF Init, NoHandlers, IdleSub, IdleLau, IdleRec, IdleCan
<1>2. LockInv BY <1>1 DEF LockInv, RecSection, CanSection
<1>3. LifeInv BY <1>1 DEF LifeInv
<1>4. QED BY <1>2, <1>3

\* Every step keeps LockInv: whoever enters a section finds the lock free, and
\* only its holder gives it back.
LEMMA StepLock == ASSUME Typed, LockInv, LifeInv, [Next]_vars PROVE LockInv'
<1>1. CASE UNCHANGED vars
    BY <1>1 DEF vars, handlers, LockInv
<1>2. ASSUME NEW j \in Jobs, SubStep(j) PROVE LockInv'
    <2>1. SubFrame(j) BY <1>2, SubFrames
    <2>2. CASE lock' = lock /\ sub'[j].pc # "append" /\ sub[j].pc # "append"
        BY <2>1, <2>2 DEF SubFrame, LockInv
    <2>3. CASE ~lock /\ lock' /\ sub'[j].pc = "append"
        BY <2>1, <2>3 DEF SubFrame, LockInv
    <2>4. CASE sub[j].pc = "append" /\ ~lock' /\ sub'[j].pc # "append"
        BY <2>1, <2>4 DEF SubFrame, LockInv
    <2>5. QED BY <2>1, <2>2, <2>3, <2>4 DEF SubFrame
<1>3. ASSUME NEW j \in Jobs, LauStep(j) PROVE LockInv'
    <2>1. LauFrame(j) BY <1>3, LauFrames
    <2>2. lock' = lock /\ can' = can BY <2>1 DEF LauFrame, LauOther
    <2>3. \A k \in Jobs : sub'[k].pc = "append" => sub[k].pc = "append"
        BY <2>1 DEF LauFrame, IdleSub
    <2>4. rec'.pc \in RecSection => rec.pc \in RecSection
        <3>1. \/ rec' = rec
              \/ rec' = GoOn(rec.launch, rec.adopt) \/ rec' = [IdleRec EXCEPT !.pc = "fatal"]
            BY <2>1 DEF LauFrame
        <3>2. GoOn(rec.launch, rec.adopt).pc \in {"idle", "next"} BY RestPcs
        <3>3. QED BY <3>1, <3>2, RestPcs DEF RecSection
    <2>5. QED BY <2>2, <2>3, <2>4 DEF LockInv
<1>4. CASE RecStep
    <2>1. RecFrame /\ sub' = sub /\ can' = can BY <1>4, RecFrames DEF RecFrame, RecOther
    <2>2. CASE lock' = lock /\ rec.pc \notin RecSection /\ rec'.pc \notin RecSection
        BY <2>1, <2>2 DEF LockInv
    <2>3. CASE ~lock /\ lock' /\ rec.pc = "idle" /\ rec'.pc \in RecSection
        BY <2>1, <2>3 DEF LockInv
    <2>4. CASE ~lock /\ ~lock' /\ rec.pc = "idle" /\ rec'.pc = "fatal"
        BY <2>1, <2>4 DEF LockInv, RecSection
    <2>5. CASE rec.pc \in RecSection /\ rec'.pc \in RecSection /\ lock' = lock
        BY <2>1, <2>5 DEF LockInv
    <2>6. CASE rec.pc \in RecSection /\ rec'.pc \notin RecSection /\ ~lock'
        BY <2>1, <2>6 DEF LockInv
    <2>7. QED BY <2>1, <2>2, <2>3, <2>4, <2>5, <2>6 DEF RecFrame
<1>5. ASSUME NEW p \in Procs, WorkerStep(p) \/ StatusAdopt(p) \/ Kill(p) PROVE LockInv'
    BY <1>5, WorkerFrames DEF WorkerFrame, handlers, LockInv
<1>6. ASSUME NEW r \in Runs, CanStep(r) \/ Cancel(r) PROVE LockInv'
    <2>1. CanFrame(r) /\ sub' = sub /\ rec' = rec BY <1>6, CanFrames DEF CanFrame, CanKept
    <2>2. CASE lock' = lock /\ (can'[r].pc \in CanSection => can[r].pc \in CanSection)
        BY <2>1, <2>2 DEF CanFrame, LockInv
    <2>3. CASE ~lock /\ lock' /\ can'[r].pc \in CanSection
        BY <2>1, <2>3 DEF CanFrame, LockInv
    <2>4. CASE ~lock' /\ can[r].pc \in CanSection /\ can'[r].pc \notin CanSection
        BY <2>1, <2>4 DEF CanFrame, LockInv
    <2>5. QED BY <2>1, <2>2, <2>3, <2>4 DEF CanFrame
<1>7. CASE Shutdown \/ Exit
    BY <1>7 DEF Shutdown, Exit, handlers, LockInv
<1>8. CASE Restart
    <2>1. sub' = sub /\ can' = can BY <1>8 DEF Restart, RecOther
    <2>2. /\ \A j \in Jobs : sub[j].pc = "idle"
          /\ \A r \in Runs : can[r].pc = "idle"
        BY <1>8 DEF Restart, LifeInv
    <2>3. rec'.pc \in RecSection => lock'
        BY <1>8 DEF Restart, Reconcile, RecSection, IdleRec
    <2>4. QED BY <2>1, <2>2, <2>3 DEF LockInv, CanSection
<1>9. CASE Crash
    BY <1>9 DEF Crash, Handlers0, IdleSub, IdleRec, IdleCan, LockInv, CanSection, RecSection
<1>10. ASSUME NEW j \in Jobs, Submit(j) PROVE LockInv'
    <2>1. SubmitFrame(j) BY <1>10, SubmitFrames
    <2>2. sub'[j].pc # "append"
        <3>1. sub'[j] \in {[IdleSub EXCEPT !.pc = "admit", !.journal = "recorded"], IdleSub,
                           [IdleSub EXCEPT !.pc = "look", !.journal = cmd[j]]}
            BY <2>1 DEF SubmitFrame
        <3>2. CASE sub'[j] = [IdleSub EXCEPT !.pc = "admit", !.journal = "recorded"]
            BY <3>2 DEF IdleSub
        <3>3. CASE sub'[j] = [IdleSub EXCEPT !.pc = "look", !.journal = cmd[j]]
            BY <3>3 DEF IdleSub
        <3>4. QED BY <3>1, <3>2, <3>3, RestPcs
    <2>3. QED BY <2>1, <2>2 DEF SubmitFrame, LockInv
<1>11. ASSUME NEW j \in Jobs, Lose(j) PROVE LockInv'
    <2>1. LoseFrame(j) BY <1>11, LoseFrames
    <2>2. \A k \in Jobs : sub'[k].pc = "append" => sub[k].pc = "append"
        BY <2>1 DEF LoseFrame, IdleSub
    <2>3. rec'.pc \in RecSection => rec.pc \in RecSection
        BY <2>1 DEF LoseFrame, RecSection, IdleRec, Typed, HandlersTyped, RecLocals
    <2>4. \A r \in Runs : can'[r].pc \in CanSection => can[r].pc \in CanSection
        BY <2>1 DEF LoseFrame, CanSection, IdleCan
    <2>5. lock' = lock BY <2>1 DEF LoseFrame
    <2>6. QED BY <2>2, <2>3, <2>4, <2>5 DEF LockInv
<1>12. QED
    BY <1>1, <1>2, <1>3, <1>4, <1>5, <1>6, <1>7, <1>8, <1>9, <1>10, <1>11 DEF Next, Progress

\* Every step keeps LifeInv: a starting daemon serves nobody.
LEMMA StepLife == ASSUME Typed, LifeInv, [Next]_vars PROVE LifeInv'
<1>1. CASE UNCHANGED vars
    BY <1>1 DEF vars, handlers, LifeInv
<1>2. ASSUME NEW j \in Jobs, SubStep(j) PROVE LifeInv'
    BY <1>2, SubFrames DEF SubFrame, LifeInv
<1>3. ASSUME NEW j \in Jobs, LauStep(j) PROVE LifeInv'
    <2>1. LauFrame(j) BY <1>3, LauFrames
    <2>2. daemon' = daemon /\ can' = can BY <2>1 DEF LauFrame, LauOther
    <2>3. CASE daemon \in {"down", "starting"}
        <3>1. rec.pc = "await" /\ rec.job = j /\ daemon # "down" /\ sub[j].pc = "idle"
            BY <2>1, <2>3 DEF LauFrame, LifeInv
        <3>2. \A k \in Jobs : sub'[k].pc = "idle" BY <2>1, <2>3, <3>1 DEF LauFrame, LifeInv
        <3>3. \A k \in Jobs \ {j} : lau'[k].pc = "idle"
            BY <2>1, <2>3, <3>1 DEF LauFrame, LifeInv
        <3>4. lau'[j].pc # "idle" => rec' = rec BY <2>1 DEF LauFrame
        <3>5. QED BY <2>2, <2>3, <3>1, <3>2, <3>3, <3>4 DEF LifeInv
    <2>4. QED BY <2>2, <2>3 DEF LifeInv
<1>4. CASE RecStep
    <2>1. RecFrame /\ sub' = sub /\ can' = can BY <1>4, RecFrames DEF RecFrame, RecOther
    <2>2. \/ daemon' = daemon
          \/ daemon' \notin {"down", "starting"}
          \/ daemon = "starting" /\ daemon' = "down" /\ rec' = IdleRec /\ lau' = lau /\ rec.pc = "fatal"
        BY <1>4 DEF RecStep, Tick, RecRelease, RecLeave, RecIdentify, RecAccept, RecUncertain,
                    RecCheck, RecWrite, Listen, RecFatal, RecLegacy, RecDropClaim, RecDispatch, RecNext
    <2>3. CASE daemon' = daemon
        <3>1. daemon # "down" BY <2>1 DEF RecFrame, LifeInv
        <3>2. CASE daemon = "starting"
            <4>1. \A k \in Jobs : lau'[k].pc # "idle" => rec'.pc = "await" /\ rec'.job = k
                BY <2>1, <3>2 DEF RecFrame, LifeInv
            <4>2. QED BY <2>1, <2>3, <3>2, <4>1 DEF LifeInv
        <3>3. QED BY <2>3, <3>1, <3>2 DEF LifeInv
    <2>4. CASE daemon = "starting" /\ daemon' = "down" /\ rec' = IdleRec /\ lau' = lau /\ rec.pc = "fatal"
        BY <2>1, <2>4 DEF LifeInv, IdleRec
    <2>5. QED BY <2>2, <2>3, <2>4 DEF LifeInv
<1>5. ASSUME NEW p \in Procs, WorkerStep(p) \/ StatusAdopt(p) \/ Kill(p) PROVE LifeInv'
    BY <1>5, WorkerFrames DEF WorkerFrame, handlers, LifeInv
<1>6. ASSUME NEW r \in Runs, CanStep(r) \/ Cancel(r) PROVE LifeInv'
    BY <1>6, CanFrames DEF CanFrame, CanKept, Serving, LifeInv
<1>7. CASE Shutdown
    BY <1>7 DEF Shutdown, LifeInv
<1>8. CASE Exit
    BY <1>8 DEF Exit, NoHandlers, handlers, LifeInv, IdleSub, IdleLau, IdleRec, IdleCan
<1>9. CASE Restart
    BY <1>9 DEF Restart, RecOther, LifeInv
<1>10. CASE Crash
    BY <1>10 DEF Crash, Handlers0, IdleSub, IdleLau, IdleRec, IdleCan, LifeInv
<1>11. ASSUME NEW j \in Jobs, Submit(j) PROVE LifeInv'
    BY <1>11, SubmitFrames DEF SubmitFrame, Serving, LifeInv
<1>12. ASSUME NEW j \in Jobs, Lose(j) PROVE LifeInv'
    <2>1. LoseFrame(j) BY <1>12, LoseFrames
    <2>2. daemon' = daemon /\ daemon # "down" BY <2>1, <1>12 DEF LoseFrame, Lose, Running
    <2>3. CASE daemon = "starting"
        <3>1. \A k \in Jobs : sub'[k].pc = "idle" BY <2>1, <2>3 DEF LoseFrame, LifeInv, IdleSub
        <3>2. \A r \in Runs : can'[r].pc = "idle" BY <2>1, <2>3 DEF LoseFrame, LifeInv, IdleCan
        <3>3. \A k \in Jobs : lau'[k].pc # "idle" => rec'.pc = "await" /\ rec'.job = k
            <4>1. CASE lau' = lau BY <2>1, <2>3, <4>1 DEF LoseFrame, LifeInv
            <4>2. CASE lau[j].pc # "idle" /\ lau'[j].pc = "idle"
                BY <2>1, <2>3, <4>2 DEF LoseFrame, LifeInv
            <4>3. CASE lau[j].pc # "idle" /\ lau'[j].pc = "try"
                <5>1. rec' = rec
                    BY <1>12, <2>3, <4>3 DEF Lose, LifeInv, Settle, IdleLau, RecGoto, Typed, HandlersTyped
                <5>2. QED BY <2>1, <2>3, <4>3, <5>1 DEF LoseFrame, LifeInv
            <4>4. QED BY <2>1, <4>1, <4>2, <4>3 DEF LoseFrame
        <3>4. QED BY <2>2, <2>3, <3>1, <3>2, <3>3 DEF LifeInv
    <2>4. QED BY <2>2, <2>3 DEF LifeInv
<1>13. QED
    BY <1>1, <1>2, <1>3, <1>4, <1>5, <1>6, <1>7, <1>8, <1>9, <1>10, <1>11, <1>12 DEF Next, Progress

-----------------------------------------------------------------------------
(* The descriptor names one process.                                       *)

\* WorkerInv holds at first.
LEMMA InitWorker == ASSUME Init PROVE WorkerInv
<1>1. \A j \in Jobs : \/ j \in scenario.busy /\ desc[j] = "running" /\ owner[j] = 1
                      \/ j \notin scenario.busy /\ desc[j] = "none" /\ owner[j] = 0
    BY DEF Init
<1>2. \A j \in Jobs, k \in 1 .. MaxSpawns :
         \/ <<j, k>> \in executed /\ proc[<<j, k>>] = "executing" /\ j \in scenario.busy /\ k = 1
         \/ <<j, k>> \notin executed /\ proc[<<j, k>>] = "none"
    BY DEF Init, Procs
<1>3. QED BY <1>1, <1>2 DEF WorkerInv, Named, FinalDesc

\* A process that publishes finds no descriptor; one that a descriptor names
\* stays named.  A step of a worker keeps WorkerInv, and an owner and an end,
\* once published, stay.
LEMMA WorkerKeeps ==
    ASSUME Typed, WorkerInv, NEW p \in Procs, WorkerStep(p) \/ StatusAdopt(p) \/ Kill(p)
    PROVE  /\ WorkerInv'
           /\ \A j \in Jobs : owner[j] # 0 => owner'[j] = owner[j]
           /\ \A j \in Jobs : desc[j] \in FinalDesc => desc'[j] \in FinalDesc
           /\ \A j \in Jobs : owner'[j] # owner[j] => p[1] = j /\ proc[p] = "bound"
           /\ \A j \in Jobs : desc[j] \notin {"starting", "running"}
                              /\ desc'[j] \in {"starting", "running"} => owner'[j] # owner[j]
<1>1. PICK j \in Jobs, k \in 1 .. MaxSpawns : p = <<j, k>>
    BY DEF Procs
<1>2. p[1] = j /\ p[2] = k /\ k # 0 BY <1>1, SupervisorAssumption
<1>3. \A i \in Jobs, m \in 1 .. MaxSpawns : <<i, m>> \in Procs /\ (<<i, m>> = <<j, k>> => i = j /\ m = k)
    BY DEF Procs
<1>4. ASSUME NEW pc \in ProcPcs, WorkerGoto(p, pc)
      PROVE  /\ proc'[<<j, k>>] = pc
             /\ \A i \in Jobs, m \in 1 .. MaxSpawns : i # j \/ m # k => proc'[<<i, m>>] = proc[<<i, m>>]
    BY <1>1, <1>3, <1>4 DEF WorkerGoto, Typed, ProcessesTyped
<1> USE <1>1, <1>2, <1>4 DEF WorkerOther, WorkerInv, Named, FinalDesc, ProcPcs
<1> USE DEF Typed, ProcessesTyped
<1>5. CASE Bind(p) BY <1>5 DEF Bind
<1>6. CASE Publish(p)
    <2>1. CASE owner[j] = 0
        <3>1. /\ desc' = [desc EXCEPT ![j] = "starting"] /\ owner' = [owner EXCEPT ![j] = k]
              /\ WorkerGoto(p, "waiting") /\ executed' = executed
            BY <1>6, <2>1 DEF Publish
        <3>2. QED BY <1>6, <2>1, <3>1 DEF Publish
    <2>2. CASE owner[j] # 0 BY <1>6, <2>2 DEF Publish
    <2>3. QED BY <2>1, <2>2
<1>7. CASE Adopt(p) BY <1>7 DEF Adopt
<1>8. CASE AdoptionTimeout(p) BY <1>8 DEF AdoptionTimeout
<1>9. CASE Acknowledged(p) BY <1>9 DEF Acknowledged
<1>10. CASE AcknowledgementTimeout(p) BY <1>10 DEF AcknowledgementTimeout
<1>11. CASE Finish(p) BY <1>11 DEF Finish
<1>12. CASE CloseServer(p) BY <1>12 DEF CloseServer
<1>13. CASE RenameClaim(p) BY <1>13 DEF RenameClaim
<1>14. CASE StatusAdopt(p) BY <1>14 DEF StatusAdopt
<1>15. CASE Kill(p) BY <1>15 DEF Kill
<1>16. QED
    BY <1>5, <1>6, <1>7, <1>8, <1>9, <1>10, <1>11, <1>12, <1>13, <1>14, <1>15 DEF WorkerStep

\* What no step does to the descriptors.
Published0 ==
    /\ \A j \in Jobs : owner[j] # 0 => owner'[j] = owner[j]
    /\ \A j \in Jobs : desc[j] \in FinalDesc => desc'[j] \in FinalDesc
    /\ \A j \in Jobs : owner'[j] # owner[j] => \E k \in 1 .. MaxSpawns : proc[<<j, k>>] = "bound"
    /\ \A j \in Jobs : desc[j] \notin {"starting", "running"}
                       /\ desc'[j] \in {"starting", "running"} => owner'[j] # owner[j]

\* Every step keeps WorkerInv, and an owner and an end, once published, stay.
LEMMA StepWorker == ASSUME Typed, WorkerInv, [Next]_vars PROVE WorkerInv' /\ Published0
<1>a. ASSUME UNCHANGED <<desc, owner, proc, executed>> PROVE WorkerInv' /\ Published0
    BY <1>a DEF WorkerInv, Published0
<1>1. CASE UNCHANGED vars BY <1>1, <1>a DEF vars, workers
<1>2. ASSUME NEW j \in Jobs, SubStep(j) PROVE WorkerInv' /\ Published0
    BY <1>2, <1>a, SubFrames DEF SubFrame, workers
<1>3. ASSUME NEW j \in Jobs, LauStep(j) PROVE WorkerInv' /\ Published0
    <2>1. CASE Spawn(j)
        <3>1. PICK k \in 1 .. MaxSpawns : proc[<<j, k>>] = "none" /\ proc' = [proc EXCEPT ![<<j, k>>] = "boot"]
            BY <2>1 DEF Spawn
        <3>2. \A i \in Jobs, m \in 1 .. MaxSpawns :
                proc'[<<i, m>>] = proc[<<i, m>>] \/ proc'[<<i, m>>] = "boot"
            BY <3>1 DEF Typed, ProcessesTyped, Procs
        <3>3. UNCHANGED <<desc, owner, executed>> BY <2>1 DEF Spawn
        <3>4. QED BY <3>2, <3>3 DEF WorkerInv, Published0, Named
    <2>2. CASE ~Spawn(j)
        BY <1>3, <2>2, <1>a DEF LauStep, LaunchClaim, Poll, LaunchTry, LaunchIdentified,
           LaunchUnidentified, LaunchAccept, LaunchUncertain, LaunchJournal, workers
    <2>3. QED BY <2>1, <2>2
<1>4. CASE RecStep BY <1>4, <1>a, RecFrames DEF RecFrame, RecOther, workers
<1>5. ASSUME NEW p \in Procs, WorkerStep(p) \/ StatusAdopt(p) \/ Kill(p)
      PROVE  WorkerInv' /\ Published0
    <2>1. PICK i \in Jobs, k \in 1 .. MaxSpawns : p = <<i, k>> BY DEF Procs
    <2>2. p[1] = i BY <2>1
    <2>3. QED BY <1>5, <2>1, <2>2, WorkerKeeps DEF Published0
<1>6. ASSUME NEW r \in Runs, CanStep(r) \/ Cancel(r) PROVE WorkerInv' /\ Published0
    BY <1>6, <1>a, CanFrames DEF CanFrame
<1>7. CASE Shutdown \/ Exit \/ Restart \/ Crash
    BY <1>7, <1>a DEF Shutdown, Exit, Restart, RecOther, Crash, workers
<1>8. ASSUME NEW j \in Jobs, Submit(j) \/ Lose(j) PROVE WorkerInv' /\ Published0
    BY <1>8, <1>a DEF Submit, Lose, workers
<1>9. QED
    BY <1>1, <1>2, <1>3, <1>4, <1>5, <1>6, <1>7, <1>8 DEF Next, Progress

-----------------------------------------------------------------------------
(* What happens to a job by the steps of others.                           *)

\* Whoever acts, a job's admission, its descriptor, its journal, the answers of
\* its submission and its run's cancellation change only in these ways, unless
\* the step is its own submission's.
AdmMove(k) ==
    \/ adm'[k] = adm[k]
    \/ adm[k] \in ActiveStatus /\ adm'[k] \in ActiveStatus
    \/ adm[k] \in ActiveStatus /\ adm'[k] = "none" /\ owner[k] # 0 /\ desc[k] \in FinalDesc
    \/ adm[k] = "none" /\ owner[k] # 0 /\ adm'[k] = "dispatching"
    \/ adm[k] = "queued" /\ adm'[k] \in {"dispatching", "queue_cancelling"}
    \/ adm[k] = "queue_cancelling" /\ adm'[k] = "none"

OwnerMove(k) ==
    \/ owner'[k] = owner[k]
    \/ owner[k] = 0 /\ owner'[k] # 0 /\ adm[k] \in ActiveStatus /\ adm'[k] = adm[k]

CmdMove(k) ==
    \/ cmd'[k] = cmd[k]
    \/ /\ Begun(k) /\ adm'[k] = adm[k] /\ cmd'[k] \in {"completed", "uncertain"}
       /\ cmd'[k] = "completed" => owner[k] # 0
    \/ /\ adm[k] = "queue_cancelling" /\ adm'[k] = adm[k]
       /\ cmd[k] \in {"recorded", "queued"} /\ cmd'[k] = "cancelled"

SubMove(k) ==
    \/ sub'[k] = sub[k] /\ told'[k] = told[k]
    \/ /\ sub'[k].pc = "idle" /\ told[k] \subseteq told'[k]
       /\ told'[k] \subseteq told[k] \cup {"accepted", "identity_mismatch"}
       /\ "accepted" \in told'[k] => "accepted" \in told[k] \/ owner[k] # 0

CcmdMove(k) ==
    ccmd'[runOf[k]] = "queued" =>
        \/ ccmd[runOf[k]] = "queued" \/ Shared(k)
        \/ adm[k] = "queue_cancelling" /\ cmd[k] \notin {"none", "recorded"}

AppendMove(k) ==
    sub[k].pc = "append" /\ sub'[k] = sub[k] => adm' = adm /\ (k \in rejections' => k \in rejections)

Moves(k) ==
    /\ AdmMove(k) /\ OwnerMove(k) /\ CmdMove(k) /\ SubMove(k) /\ CcmdMove(k) /\ AppendMove(k)
    /\ k \in snap => k \in snap'

\* Those moves keep what a job's submission relies on, and what its journal and
\* its answers say.
LEMMA MovesKeep ==
    ASSUME Typed, Typed', scenario' = scenario, NEW k \in Jobs, SubInv(k), JobInv(k), Moves(k)
    PROVE  SubInv(k)' /\ JobInv(k)' /\ (Begun(k) => Begun(k)')
<1>1. /\ Begun(k) => Begun(k)'
      /\ Resting(k) => Resting(k)'
      /\ adm[k] = "none" /\ owner[k] = 0 => adm'[k] = "none" /\ owner'[k] = 0
      /\ owner[k] # 0 => owner'[k] # 0
      /\ Begun(k)' \/ adm'[k] # "none" => Begun(k) \/ adm[k] # "none"
    BY DEF Moves, AdmMove, OwnerMove, Begun, Resting, ActiveStatus
<1>2. Shared(k)' <=> Shared(k) BY DEF Shared, runOf
<1>3. /\ cmd[k] # "none" => cmd'[k] # "none"
      /\ cmd'[k] = "recorded" => cmd[k] = "recorded"
      /\ cmd'[k] = "none" => cmd[k] = "none"
      /\ cmd[k] \in Rejected => cmd'[k] = cmd[k] \/ ~Resting(k)
      /\ cmd[k] = "recorded" /\ adm[k] = "none" /\ owner[k] = 0 => cmd'[k] = cmd[k]
      /\ cmd'[k] \in {"queue_full", "conflict"} => cmd'[k] = cmd[k]
    BY DEF Moves, CmdMove, Begun, Resting, Rejected, ActiveStatus
<1>4. SubInv(k)'
    <2>1. CASE sub'[k].pc = "idle" BY <2>1 DEF SubInv
    <2>2. CASE sub'[k] = sub[k] /\ told'[k] = told[k]
        <3>1. sub[k].pc # "idle" => cmd'[k] # "none" BY <1>3 DEF SubInv
        <3>2. sub[k].pc = "look" => /\ sub[k].journal \in {"recorded", "queued", "uncertain"}
                                    /\ cmd'[k] = "recorded" => sub[k].journal = "recorded"
            BY <1>3 DEF SubInv
        <3>3. sub[k].pc = "try" =>
                /\ sub[k].seen \in ActiveStatus => Begun(k)'
                /\ sub[k].seen \in {"none", "queue_cancelling"} =>
                      adm'[k] \in {"none", "queue_cancelling"} \/ owner'[k] # 0
                /\ sub[k].seen = "queued" => sub[k].journal = "uncertain"
            BY <1>1 DEF SubInv, Resting
        <3>4. /\ sub[k].pc \in {"identify", "accept"} => owner'[k] # 0
              /\ sub[k].pc = "admit" => Resting(k)'
            BY <1>1 DEF SubInv
        <3>5. ASSUME sub[k].pc = "append"
              PROVE  /\ NewJob(k)' /\ ClassifyNewAdmission' # "reject"
                     /\ owner'[k] = 0 /\ cmd'[k] = "recorded" /\ k \in snap'
            <4>1. /\ NewJob(k) /\ ClassifyNewAdmission # "reject"
                  /\ owner[k] = 0 /\ cmd[k] = "recorded" /\ k \in snap
                BY <3>5 DEF SubInv
            <4>2. adm' = adm /\ (k \in rejections' => k \in rejections)
                BY <2>2, <3>5 DEF Moves, AppendMove
            <4>3. NewJob(k)' BY <4>1, <4>2 DEF NewJob, runOf
            <4>4. ClassifyNewAdmission' = ClassifyNewAdmission
                BY <4>2 DEF ClassifyNewAdmission, Active, Queued, maxActive, maxQueued
            <4>5. QED BY <1>1, <1>3, <4>1, <4>3, <4>4 DEF NewJob, Moves
        <3>6. ASSUME sub[k].pc \in {"check", "write"}
              PROVE  /\ sub[k].want \in {"completed", "uncertain", "queued", "conflict", "queue_full"}
                     /\ sub[k].want = "completed" => sub[k].then = "accepted" /\ owner'[k] # 0
                     /\ sub[k].want = "uncertain" => sub[k].then = "uncertain" /\ Begun(k)'
                     /\ sub[k].want = "queued" => sub[k].then = "queued"
                     /\ sub[k].want = "conflict" =>
                           sub[k].then = "conflict" /\ Resting(k)' /\ Shared(k)'
                     /\ sub[k].want = "queue_full" =>
                           sub[k].then = "commit" /\ "queued" \notin told'[k] /\ Resting(k)'
            BY <1>1, <1>2, <2>2, <3>6 DEF SubInv
        <3>7. sub[k].pc = "commit" => /\ cmd'[k] = "queue_full" /\ "queued" \notin told'[k]
                                      /\ Resting(k)'
            BY <1>1, <1>3, <2>2 DEF SubInv, Rejected, Resting
        <3>8. QED BY <2>2, <3>1, <3>2, <3>3, <3>4, <3>5, <3>6, <3>7 DEF SubInv
    <2>3. QED BY <2>1, <2>2 DEF Moves, SubMove
<1>5. JobInv(k)'
    <2>1. Begun(k)' \/ adm'[k] # "none" => k \in snap' /\ cmd'[k] # "none"
        BY <1>1, <1>3 DEF JobInv, Moves
    <2>2. adm'[k] \in {"queued", "queue_cancelling"} => owner'[k] = 0
        BY DEF JobInv, Moves, AdmMove, OwnerMove, ActiveStatus
    <2>3. adm'[k] = "queued" => cmd'[k] \in {"recorded", "queued"}
        BY DEF JobInv, Moves, AdmMove, CmdMove, Begun, ActiveStatus
    <2>4. cmd'[k] = "completed" \/ "accepted" \in told'[k] => owner'[k] # 0
        BY <1>1 DEF JobInv, Moves, CmdMove, SubMove
    <2>5. cmd'[k] \in Rejected => Resting(k)'
        BY <1>1 DEF JobInv, Moves, CmdMove, Rejected, Resting
    <2>6. told'[k] \cap Rejected = told[k] \cap Rejected
        BY DEF Moves, SubMove, Rejected
    <2>7. told'[k] \cap Rejected # {} => told'[k] \cap Rejected = {cmd'[k]} /\ sub'[k].pc = "idle"
        <3>1. SUFFICES ASSUME told[k] \cap Rejected # {}
                       PROVE  told[k] \cap Rejected = {cmd'[k]} /\ sub'[k].pc = "idle"
            BY <2>6
        <3>2. told[k] \cap Rejected = {cmd[k]} /\ sub[k].pc = "idle" BY <3>1 DEF JobInv
        <3>3. cmd[k] \in Rejected BY <3>2
        <3>4. cmd'[k] = cmd[k] BY <1>3, <3>3 DEF JobInv
        <3>5. QED BY <3>2, <3>4 DEF Moves, SubMove
    <2>8. "queued" \in told'[k] => cmd'[k] \notin {"none", "recorded", "queue_full"}
        <3>1. "queued" \in told'[k] => "queued" \in told[k] BY DEF Moves, SubMove
        <3>2. QED BY <1>3, <3>1 DEF JobInv
    <2>9. cmd'[k] = "conflict" => Shared(k)' BY <1>2, <1>3 DEF JobInv
    <2>10. ccmd'[runOf[k]] = "queued" /\ ~Shared(k)' => Resting(k)' /\ cmd'[k] \notin {"none", "recorded"}
        BY <1>1, <1>2, <1>3 DEF JobInv, Moves, CcmdMove, Resting
    <2>11. runOf' = runOf BY DEF runOf
    <2>12. QED
        BY <2>1, <2>2, <2>3, <2>4, <2>5, <2>7, <2>8, <2>9, <2>10, <2>11 DEF JobInv
<1>6. QED BY <1>1, <1>4, <1>5

\* All but the admission ledger's own limits.
CoreInv ==
    /\ Typed /\ LockInv /\ LifeInv /\ WorkerInv
    /\ BegunInv /\ RecInv /\ LauInv /\ CanInv
    /\ \A j \in Jobs : SubInv(j) /\ JobInv(j)

\* A job's run is a run.
LEMMA RunTyped == ASSUME Typed PROVE \A j \in Jobs : runOf[j] \in Runs
BY SupervisorAssumption DEF Typed, FilesTyped, ScenarioType, runOf

\* Every kind of step moves a job in one of those ways, but for the steps of
\* the job's own submission: other submissions leave it alone.
LEMMA SubOthers ==
    ASSUME CoreInv, NEW j \in Jobs, SubStep(j), NEW k \in Jobs \ {j}
    PROVE  Moves(k)
<1>1. SubFrame(j) BY SubFrames DEF CoreInv
<1>2. /\ AdmMove(k) /\ OwnerMove(k) /\ CmdMove(k) /\ SubMove(k) /\ CcmdMove(k)
      /\ k \in snap => k \in snap'
    BY <1>1 DEF SubFrame, workers, AdmMove, OwnerMove, CmdMove, SubMove, CcmdMove
<1>3. AppendMove(k)
    BY <1>1 DEF SubFrame, AppendMove, CoreInv, LockInv
<1>4. QED BY <1>2, <1>3 DEF Moves

\* A launch records its worker, or that none is known, for a job that has begun.
LEMMA LauMoves ==
    ASSUME CoreInv, NEW j \in Jobs, LauStep(j), NEW k \in Jobs
    PROVE  Moves(k)
<1>1. LauFrame(j) BY LauFrames DEF CoreInv
<1>2. UNCHANGED <<scenario, ccmd, snap, rejections, owner, lock>>
    BY <1>1 DEF LauFrame, LauOther
<1>3. OwnerMove(k) /\ CcmdMove(k) /\ (k \in snap => k \in snap')
    BY <1>2 DEF OwnerMove, CcmdMove
<1>4. AppendMove(k)
    BY <1>1, <1>2 DEF LauFrame, AppendMove, CoreInv, LockInv
<1>5. CASE k # j
    BY <1>1, <1>3, <1>4, <1>5 DEF LauFrame, Moves, AdmMove, CmdMove, SubMove
<1>6. CASE k = j
    <2>1. AdmMove(j)
        BY DEF LauStep, LaunchClaim, Spawn, Poll, LaunchTry, LaunchIdentified, LaunchUnidentified,
               LaunchAccept, LaunchUncertain, LaunchJournal, RecordWorkerAccepted,
               RecordJobUncertain, AdmMove, ActiveStatus, CoreInv, Typed, FilesTyped
    <2>2. CmdMove(j)
        <3>1. CASE LaunchJournal(j)
            <4>1. /\ Begun(j) /\ adm' = adm
                  /\ lau[j].want \in {"completed", "uncertain"}
                  /\ lau[j].want = "completed" => owner[j] # 0
                BY <3>1 DEF LaunchJournal, CoreInv, BegunInv, LauInv
            <4>2. cmd'[j] \in {cmd[j], lau[j].want}
                BY <3>1 DEF LaunchJournal, CoreInv, Typed, FilesTyped
            <4>3. QED BY <4>1, <4>2 DEF CmdMove
        <3>2. CASE ~LaunchJournal(j)
            BY <3>2 DEF LauStep, LaunchClaim, Spawn, Poll, LaunchTry, LaunchIdentified,
               LaunchUnidentified, LaunchAccept, LaunchUncertain, CmdMove
        <3>3. QED BY <3>1, <3>2
    <2>3. SubMove(j)
        <3>1. CASE LaunchJournal(j)
            <4>1. /\ lau[j].want \in {"completed", "uncertain"}
                  /\ lau[j].want = "completed" => owner[j] # 0
                BY <3>1 DEF LaunchJournal, CoreInv, LauInv
            <4>2. CASE lau[j].want = "completed"
                BY <1>1, <4>1, <4>2, RestPcs DEF LauFrame, SubMove
            <4>3. CASE lau[j].want = "uncertain"
                <5>1. Settle(j, "uncertain") BY <3>1, <4>3 DEF LaunchJournal, MaySkip
                <5>2. told'[j] = told[j]
                    BY <5>1 DEF Settle, Answer, Definitive, Rejected, CoreInv, Typed, HandlersTyped
                <5>3. QED BY <1>1, <5>2, RestPcs DEF LauFrame, SubMove
            <4>4. QED BY <4>1, <4>2, <4>3
        <3>2. CASE ~LaunchJournal(j)
            <4>1. told'[j] \subseteq told[j] \cup {"identity_mismatch"}
                <5>1. ASSUME NEW a \in {"error", "identity_mismatch"}, Settle(j, a)
                      PROVE  told'[j] \subseteq told[j] \cup {"identity_mismatch"}
                    BY <5>1 DEF Settle, Answer, Definitive, Rejected, CoreInv, Typed, HandlersTyped
                <5>2. QED
                    BY <3>2, <5>1 DEF LauStep, LaunchClaim, Spawn, Poll, LaunchTry, LaunchIdentified,
                       LaunchUnidentified, LaunchAccept, LaunchUncertain
            <4>2. QED BY <1>1, <4>1, RestPcs DEF LauFrame, SubMove
        <3>3. QED BY <3>1, <3>2
    <2>4. QED BY <1>3, <1>4, <1>6, <2>1, <2>2, <2>3 DEF Moves
<1>7. QED BY <1>5, <1>6

\* A worker publishes itself for a job that has begun.
LEMMA WorkerMoves ==
    ASSUME CoreInv, NEW p \in Procs, WorkerStep(p) \/ StatusAdopt(p) \/ Kill(p), NEW k \in Jobs
    PROVE  Moves(k)
<1>1. WorkerFrame(p) BY WorkerFrames DEF CoreInv
<1>2. /\ owner[k] # 0 => owner'[k] = owner[k]
      /\ owner'[k] # owner[k] => p[1] = k /\ proc[p] = "bound"
    BY WorkerKeeps DEF CoreInv
<1>3. OwnerMove(k)
    <2>1. CASE owner'[k] # owner[k]
        <3>1. PICK m \in 1 .. MaxSpawns : p = <<k, m>> BY <1>2, <2>1 DEF Procs
        <3>2. Begun(k) BY <1>2, <2>1, <3>1 DEF CoreInv, BegunInv
        <3>3. QED BY <1>1, <1>2, <2>1, <3>2 DEF OwnerMove, Begun, WorkerFrame
    <2>2. QED BY <2>1 DEF OwnerMove
<1>4. QED
    BY <1>1, <1>3 DEF WorkerFrame, handlers, Moves, AdmMove, CmdMove, SubMove, CcmdMove, AppendMove

\* Requests for other jobs, lost responses and the life of the daemon.
LEMMA LifeMoves ==
    ASSUME CoreInv, NEW k \in Jobs,
           \/ Shutdown \/ Exit \/ Restart \/ Crash
           \/ \E j \in Jobs : Lose(j)
           \/ \E j \in Jobs \ {k} : Submit(j)
    PROVE  Moves(k)
<1> USE DEF Moves, AdmMove, OwnerMove, CmdMove, SubMove, CcmdMove, AppendMove, durable, workers
<1>1. CASE Shutdown \/ Exit BY <1>1 DEF Shutdown, Exit, handlers
<1>2. CASE Restart BY <1>2 DEF Restart, Reconcile, RecOther
<1>3. CASE Crash BY <1>3, RestPcs DEF Crash, Handlers0
<1>4. ASSUME NEW j \in Jobs, Lose(j) PROVE Moves(k)
    <2>1. LoseFrame(j) BY <1>4, LoseFrames DEF CoreInv
    <2>2. runOf[k] \in Runs BY RunTyped DEF CoreInv
    <2>3. SubMove(k) BY <2>1, RestPcs DEF LoseFrame
    <2>4. CcmdMove(k) BY <2>1, <2>2 DEF LoseFrame
    <2>5. QED BY <2>1, <2>3, <2>4 DEF LoseFrame
<1>5. ASSUME NEW j \in Jobs \ {k}, Submit(j) PROVE Moves(k)
    <2>1. SubmitFrame(j) BY <1>5, SubmitFrames DEF CoreInv
    <2>2. QED BY <2>1 DEF SubmitFrame
<1>6. QED BY <1>1, <1>2, <1>3, <1>4, <1>5

\* The reconciler reserves for workers it found, releases ended ones and
\* dispatches queued jobs.
LEMMA RecMoves ==
    ASSUME CoreInv, RecStep, NEW k \in Jobs
    PROVE  Moves(k)
<1>1. RecFrame BY RecFrames DEF CoreInv
<1>2. UNCHANGED <<scenario, ccmd, snap, owner, desc, sub, told>>
    BY <1>1 DEF RecFrame, RecOther, workers
<1>3. OwnerMove(k) /\ CcmdMove(k) /\ SubMove(k) /\ (k \in snap => k \in snap')
    BY <1>2 DEF OwnerMove, CcmdMove, SubMove
<1>4. AppendMove(k)
    BY <1>1, <1>2 DEF RecFrame, AppendMove, CoreInv, LockInv
<1>5. AdmMove(k) /\ CmdMove(k)
    <2> USE DEF CoreInv, Typed, FilesTyped
    <2>1. CASE cmd' = cmd /\ adm' = adm BY <2>1 DEF AdmMove, CmdMove
    <2>2. CASE RecRelease
        <3>1. rec.job \in Jobs /\ owner[rec.job] # 0 /\ desc[rec.job] \in FinalDesc
            BY <2>2 DEF RecRelease, RecInv, WorkerInv, FinalDesc
        <3>2. cmd' = cmd /\ adm' = [adm EXCEPT ![rec.job] = "none"] BY <2>2 DEF RecRelease
        <3>3. adm[rec.job] \in {"none"} \cup ActiveStatus
            BY <3>1 DEF JobInv, AdmStatus
        <3>4. QED BY <3>1, <3>2, <3>3 DEF AdmMove, CmdMove
    <2>3. CASE RecAccept BY <2>3 DEF RecAccept, RecordWorkerAccepted, AdmMove, CmdMove, ActiveStatus
    <2>4. CASE RecUncertain
        BY <2>4 DEF RecUncertain, RecordJobUncertain, AdmMove, CmdMove, ActiveStatus
    <2>5. CASE RecWrite
        <3>1. /\ rec.job \in Jobs /\ owner[rec.job] # 0 /\ rec.want \in {"completed", "uncertain"}
              /\ cmd' = [cmd EXCEPT ![rec.job] = rec.want] /\ adm' = adm
            BY <2>5 DEF RecWrite, RecInv
        <3>2. QED BY <3>1 DEF AdmMove, CmdMove, Begun
    <2>6. ASSUME NEW j \in Jobs, RecLegacy(j) PROVE AdmMove(k) /\ CmdMove(k)
        <3>1. j \in rec.legacy /\ Begun(j) BY <2>6 DEF RecLegacy, BegunInv
        <3>2. cmd' = cmd BY <2>6 DEF RecLegacy
        <3>3. \/ adm' = adm
              \/ NewJob(j) /\ adm' = [adm EXCEPT ![j] = "dispatching"]
            BY <2>6 DEF RecLegacy
        <3>4. QED BY <3>1, <3>2, <3>3 DEF AdmMove, CmdMove, NewJob, Begun, ActiveStatus
    <2>7. ASSUME NEW j \in Jobs, RecDispatch(j) PROVE AdmMove(k) /\ CmdMove(k)
        BY <2>7 DEF RecDispatch, OldestQueued, Queued, AdmMove, CmdMove
    <2>8. QED
        BY <2>1, <2>2, <2>3, <2>4, <2>5, <2>6, <2>7
        DEF RecStep, Tick, RecLeave, RecIdentify, RecCheck, Listen, RecFatal, RecDropClaim, RecNext
<1>6. QED BY <1>3, <1>4, <1>5 DEF Moves

\* A cancellation takes a queued job out of the queue, and rejects its journal.
LEMMA CanMoves ==
    ASSUME CoreInv, NEW r \in Runs, CanStep(r) \/ Cancel(r), NEW k \in Jobs
    PROVE  Moves(k)
<1>1. CanFrame(r) BY CanFrames DEF CoreInv
<1>2. UNCHANGED <<scenario, snap, rejections, owner, sub, told>>
    BY <1>1 DEF CanFrame, CanKept
<1>3. OwnerMove(k) /\ SubMove(k) /\ (k \in snap => k \in snap')
    BY <1>2 DEF OwnerMove, SubMove
<1>4. AppendMove(k)
    BY <1>1, <1>2 DEF CanFrame, AppendMove, CoreInv, LockInv
<1>5. runOf[k] \in Runs BY RunTyped DEF CoreInv
<1>6. AdmMove(k) /\ CmdMove(k)
    <2> USE DEF CoreInv, Typed, FilesTyped
    <2>1. CASE cmd' = cmd /\ adm' = adm BY <2>1 DEF AdmMove, CmdMove
    <2>2. CASE CancelSection(r)
        BY <2>2 DEF CancelSection, AdmittedFor, Cancellable, AdmMove, CmdMove
    <2>3. CASE CancelReject(r)
        BY <2>3 DEF CancelReject, CanInv, CanSection, AdmMove, CmdMove
    <2>4. CASE CancelDrop(r)
        BY <2>4 DEF CancelDrop, CanInv, CanSection, AdmMove, CmdMove
    <2>5. CASE CancelFinalize(r)
        BY <2>5 DEF CancelFinalize, AdmittedFor, AdmMove, CmdMove
    <2>6. QED
        BY <2>1, <2>2, <2>3, <2>4, <2>5
        DEF CanStep, Cancel, CancelComplete, CancelLedger, CancelActive, CancelRequest, CancelResponse
<1>7. CcmdMove(k)
    <2> USE DEF CoreInv, Typed, FilesTyped
    <2>1. CASE runOf[k] # r BY <1>1, <1>5, <2>1 DEF CanFrame, CcmdMove
    <2>2. CASE runOf[k] = r /\ CancelComplete(r)
        <3>1. /\ can[r].job \in Jobs /\ runOf[can[r].job] = r /\ adm[can[r].job] = "queue_cancelling"
              /\ cmd[can[r].job] \notin {"none", "recorded"}
            BY <2>2 DEF CancelComplete, CanInv, CanSection
        <3>2. CASE k = can[r].job BY <3>1, <3>2 DEF CcmdMove
        <3>3. CASE k # can[r].job BY <2>2, <3>1, <3>3 DEF CcmdMove, Shared
        <3>4. QED BY <3>2, <3>3
    <2>3. CASE runOf[k] = r /\ ~CancelComplete(r)
        BY <2>3 DEF CcmdMove, CanStep, Cancel, CancelSection, CancelReject, CancelDrop,
           CancelFinalize, CancelLedger, CancelActive, CancelRequest, CancelResponse
    <2>4. QED BY <2>1, <2>2, <2>3
<1>8. QED BY <1>3, <1>4, <1>6, <1>7 DEF Moves

-----------------------------------------------------------------------------
(* What happens to a job by its own submission.                            *)

\* Where an answer, a jump and the start of a journal update leave it.
LEMMA SubShapes ==
    ASSUME Typed, NEW j \in Jobs
    PROVE  /\ \A a : Answer(j, a) => /\ sub'[j].pc = "idle"
                                     /\ told'[j] = told[j] \cup ({a} \cap Definitive)
           /\ \A pc \in SubPcs :
                 Goto(j, pc) => /\ sub'[j].pc = pc /\ sub'[j].journal = sub[j].journal
                                /\ sub'[j].seen = sub[j].seen /\ sub'[j].want = sub[j].want
                                /\ sub'[j].then = sub[j].then /\ told' = told
           /\ \A w, t : Update(j, w, t) => /\ sub'[j].pc = "check" /\ sub'[j].want = w
                                           /\ sub'[j].then = t /\ told' = told
<1> USE DEF Typed, HandlersTyped
<1>1. ASSUME NEW a, Answer(j, a)
      PROVE  sub'[j].pc = "idle" /\ told'[j] = told[j] \cup ({a} \cap Definitive)
    BY <1>1, RestPcs DEF Answer
<1>2. sub[j] \in SubLocals OBVIOUS
<1>3. ASSUME NEW pc \in SubPcs, Goto(j, pc)
      PROVE  /\ sub'[j].pc = pc /\ sub'[j].journal = sub[j].journal
             /\ sub'[j].seen = sub[j].seen /\ sub'[j].want = sub[j].want
             /\ sub'[j].then = sub[j].then /\ told' = told
    BY <1>2, <1>3 DEF Goto, SubLocals
<1>4. ASSUME NEW w, NEW t, Update(j, w, t)
      PROVE  sub'[j].pc = "check" /\ sub'[j].want = w /\ sub'[j].then = t /\ told' = told
    BY <1>2, <1>4 DEF Update, SubLocals
<1>5. QED BY <1>1, <1>3, <1>4

\* An answer that is true keeps what the journal and the answers say.
LEMMA JobKept ==
    ASSUME CoreInv, NEW j \in Jobs, scenario' = scenario, ccmd' = ccmd, owner' = owner,
           sub[j].pc # "idle", AdmMove(j), cmd'[j] = cmd[j], j \in snap => j \in snap',
           NEW a, told'[j] = told[j] \cup ({a} \cap Definitive),
           a = "accepted" => owner[j] # 0,
           a = "queued" => cmd[j] \notin {"none", "recorded", "queue_full"},
           a \in Rejected => a = cmd[j] /\ sub'[j].pc = "idle"
    PROVE  JobInv(j)'
<1>1. JobInv(j) BY DEF CoreInv
<1>2. /\ Resting(j) => Resting(j)'
      /\ Begun(j)' \/ adm'[j] # "none" => Begun(j) \/ adm[j] # "none"
    BY DEF AdmMove, Begun, Resting, ActiveStatus
<1>3. runOf' = runOf /\ (Shared(j)' <=> Shared(j)) BY DEF Shared, runOf
<1>4. told[j] \cap Rejected = {} BY <1>1 DEF JobInv
<1>5. Begun(j)' \/ adm'[j] # "none" => j \in snap' /\ cmd'[j] # "none"
    BY <1>1, <1>2 DEF JobInv
<1>6. /\ adm'[j] \in {"queued", "queue_cancelling"} => owner'[j] = 0
      /\ adm'[j] = "queued" => cmd'[j] \in {"recorded", "queued"}
    BY <1>1 DEF JobInv, AdmMove, ActiveStatus
<1>7. cmd'[j] = "completed" \/ "accepted" \in told'[j] => owner'[j] # 0
    BY <1>1 DEF JobInv
<1>8. cmd'[j] \in Rejected => Resting(j)' BY <1>1, <1>2 DEF JobInv
<1>9. told'[j] \cap Rejected # {} => told'[j] \cap Rejected = {cmd'[j]} /\ sub'[j].pc = "idle"
    <2>1. told'[j] \cap Rejected = {a} \cap Rejected BY <1>4 DEF Definitive
    <2>2. QED BY <2>1
<1>10. "queued" \in told'[j] => cmd'[j] \notin {"none", "recorded", "queue_full"}
    BY <1>1 DEF JobInv
<1>11. /\ cmd'[j] = "conflict" => Shared(j)'
       /\ ccmd'[runOf[j]] = "queued" /\ ~Shared(j)' => Resting(j)' /\ cmd'[j] \notin {"none", "recorded"}
    BY <1>1, <1>2, <1>3 DEF JobInv
<1>12. QED BY <1>3, <1>5, <1>6, <1>7, <1>8, <1>9, <1>10, <1>11 DEF JobInv

\* The steps of a submission that find out what became of its job.
LEMMA OwnLooks ==
    ASSUME CoreInv, NEW j \in Jobs, SubFrame(j), Look(j) \/ TryAccepted(j)
    PROVE  SubInv(j)' /\ JobInv(j)' /\ (Begun(j) => Begun(j)')
<1>1. /\ SubInv(j) /\ JobInv(j) /\ Typed BY DEF CoreInv
<1>2. /\ scenario' = scenario /\ ccmd' = ccmd /\ owner' = owner /\ sub[j].pc # "idle"
      /\ adm' = adm /\ cmd' = cmd /\ snap' = snap
    BY DEF SubFrame, workers, Look, TryAccepted, durable
<1>3. AdmMove(j) /\ cmd[j] # "none" /\ (Begun(j) <=> Begun(j)') /\ (Resting(j) <=> Resting(j)')
      /\ (Shared(j) <=> Shared(j)')
    BY <1>1, <1>2 DEF AdmMove, SubInv, Begun, Resting, Shared, runOf
<1>4. ASSUME NEW a, Answer(j, a), a \notin Rejected, a # "accepted",
             a = "queued" => cmd[j] \notin {"none", "recorded", "queue_full"}
      PROVE  SubInv(j)' /\ JobInv(j)'
    <2>1. sub'[j].pc = "idle" /\ told'[j] = told[j] \cup ({a} \cap Definitive)
        BY <1>1, <1>4, SubShapes
    <2>2. SubInv(j)' BY <2>1 DEF SubInv
    <2>3. JobInv(j)' BY <1>2, <1>3, <1>4, <2>1, JobKept
    <2>4. QED BY <2>2, <2>3
<1>5. ASSUME told' = told PROVE JobInv(j)'
    <2>1. told'[j] = told[j] \cup ({"none"} \cap Definitive) BY <1>5 DEF Definitive, Rejected
    <2>2. "none" \notin Rejected BY DEF Rejected
    <2>3. QED BY <1>2, <1>3, <2>1, <2>2, JobKept
<1>6. ASSUME NEW w, NEW t, Update(j, w, t),
             \/ w = "queued" /\ t = "queued"
             \/ w = "uncertain" /\ t = "uncertain" /\ Begun(j)
             \/ w = "completed" /\ t = "accepted" /\ owner[j] # 0
             \/ w = "conflict" /\ t = "conflict" /\ Resting(j) /\ Shared(j)
      PROVE  SubInv(j)' /\ JobInv(j)'
    <2>1. sub'[j].pc = "check" /\ sub'[j].want = w /\ sub'[j].then = t /\ told' = told
        BY <1>1, <1>6, SubShapes
    <2>2. SubInv(j)' BY <1>2, <1>3, <1>6, <2>1 DEF SubInv
    <2>3. QED BY <1>5, <2>1, <2>2
<1>7. ASSUME NEW pc \in {"admit", "await", "identify", "accept"}, Goto(j, pc),
             pc = "admit" => Resting(j), pc \in {"identify", "accept"} => owner[j] # 0
      PROVE  SubInv(j)' /\ JobInv(j)'
    <2>1. sub'[j].pc = pc /\ told' = told BY <1>1, <1>7, SubShapes DEF SubPcs
    <2>2. SubInv(j)' BY <1>2, <1>3, <1>7, <2>1 DEF SubInv
    <2>3. QED BY <1>5, <2>1, <2>2
<1>8. CASE Look(j)
    <2>0. /\ sub[j].pc = "look" /\ sub[j].journal \in {"recorded", "queued", "uncertain"}
          /\ cmd[j] = "recorded" => sub[j].journal = "recorded"
        BY <1>1, <1>8 DEF Look, SubInv
    <2>1. CASE j \in snap /\ adm[j] = "queued" /\ sub[j].journal # "uncertain"
        <3>1. CASE sub[j].journal = "recorded"
            BY <1>3, <1>6, <1>8, <2>1, <3>1 DEF Look
        <3>2. CASE sub[j].journal # "recorded"
            <4>1. Answer(j, "queued") BY <1>8, <2>1, <3>2 DEF Look
            <4>2. cmd[j] \notin {"none", "recorded", "queue_full"}
                BY <1>1, <2>0, <2>1, <3>2 DEF JobInv
            <4>3. "queued" \notin Rejected BY DEF Rejected
            <4>4. QED BY <1>3, <1>4, <4>1, <4>2, <4>3
        <3>3. QED BY <3>1, <3>2
    <2>2. CASE j \in snap /\ ~(adm[j] = "queued" /\ sub[j].journal # "uncertain")
        <3>1. /\ sub' = [sub EXCEPT ![j].pc = "try", ![j].seen = adm[j]] /\ told' = told
            BY <1>8, <2>2 DEF Look
        <3>2. sub[j] \in SubLocals BY <1>1 DEF Typed, HandlersTyped
        <3>3. sub'[j].pc = "try" /\ sub'[j].seen = adm[j] /\ sub'[j].journal = sub[j].journal
            BY <1>1, <3>1, <3>2 DEF Typed, HandlersTyped, SubLocals
        <3>4. SubInv(j)' BY <1>2, <1>3, <2>2, <3>3 DEF SubInv, Begun
        <3>5. QED BY <1>3, <1>5, <3>1, <3>4
    <2>3. CASE j \notin snap /\ sub[j].journal = "uncertain"
        <3>1. Answer(j, "uncertain") BY <1>8, <2>3 DEF Look
        <3>2. QED BY <1>3, <1>4, <3>1 DEF Rejected
    <2>4. CASE j \notin snap /\ sub[j].journal # "uncertain"
        <3>1. Goto(j, "admit") BY <1>8, <2>4 DEF Look
        <3>2. Resting(j) BY <1>1, <2>4 DEF JobInv, Begun, Resting
        <3>3. QED BY <1>3, <1>7, <3>1, <3>2
    <2>5. QED BY <2>1, <2>2, <2>3, <2>4
<1>9. CASE TryAccepted(j)
    <2>0. /\ sub[j].seen \in ActiveStatus => Begun(j)
          /\ sub[j].seen \in {"none", "queue_cancelling"} =>
                adm[j] \in {"none", "queue_cancelling"} \/ owner[j] # 0
          /\ sub[j].seen = "queued" => sub[j].journal = "uncertain"
          /\ sub[j].seen \in AdmStatus
        BY <1>1, <1>9 DEF TryAccepted, SubInv, Typed, HandlersTyped, SubLocals
    <2>1. CASE desc[j] = "none"
        <3>0. WithoutWorker(j) /\ owner[j] = 0 BY <1>9, <2>1 DEF TryAccepted, CoreInv, WorkerInv
        <3>1. CASE sub[j].journal = "uncertain"
            <4>1. Answer(j, "uncertain") BY <3>0, <3>1 DEF WithoutWorker
            <4>2. QED BY <1>3, <1>4, <4>1 DEF Rejected
        <3>2. CASE sub[j].journal # "uncertain" /\ sub[j].seen = "dispatching"
            BY <1>3, <1>7, <3>0, <3>2 DEF WithoutWorker
        <3>3. CASE sub[j].journal # "uncertain" /\ sub[j].seen \in {"accepted", "uncertain"}
            <4>1. Update(j, "uncertain", "uncertain") BY <3>0, <3>3 DEF WithoutWorker
            <4>2. QED BY <1>3, <1>6, <2>0, <3>3, <4>1 DEF ActiveStatus
        <3>4. CASE sub[j].journal # "uncertain" /\ sub[j].seen \in {"none", "queue_cancelling"}
            <4>1. Resting(j) BY <2>0, <3>0, <3>4 DEF Resting
            <4>2. runOf[j] \in Runs BY <1>1, RunTyped
            <4>3. claim[runOf[j]] # j
                <5>1. j # NoJob BY SupervisorAssumption
                <5>2. ~Begun(j) BY <4>1 DEF Begun, Resting, ActiveStatus
                <5>3. QED BY <4>2, <5>1, <5>2 DEF CoreInv, BegunInv
            <4>4. CASE claim[runOf[j]] # NoJob
                <5>1. Update(j, "conflict", "conflict") BY <3>0, <3>4, <4>3, <4>4 DEF WithoutWorker
                <5>2. Shared(j)
                    BY <4>2, <4>3, <4>4 DEF CoreInv, BegunInv, Shared, Typed, FilesTyped
                <5>3. QED BY <1>3, <1>6, <4>1, <5>1, <5>2
            <4>5. CASE claim[runOf[j]] = NoJob
                <5>1. Goto(j, "admit") BY <3>0, <3>4, <4>3, <4>5 DEF WithoutWorker
                <5>2. QED BY <1>3, <1>7, <4>1, <5>1
            <4>6. QED BY <4>4, <4>5
        <3>5. QED BY <2>0, <3>1, <3>2, <3>3, <3>4 DEF AdmStatus, ActiveStatus
    <2>2. CASE desc[j] # "none"
        <3>1. owner[j] # 0 BY <2>2 DEF CoreInv, WorkerInv
        <3>2. \/ Goto(j, "identify") \/ Goto(j, "accept") \/ Update(j, "completed", "accepted")
            BY <1>9, <2>2 DEF TryAccepted
        <3>3. QED BY <1>3, <1>6, <1>7, <3>1, <3>2
    <2>3. QED BY <2>1, <2>2
<1>10. QED BY <1>8, <1>9

\* The steps of a submission that has found a worker, and its journal updates.
LEMMA OwnUpdates ==
    ASSUME CoreInv, NEW j \in Jobs, SubFrame(j),
           SubIdentified(j) \/ SubUnidentified(j) \/ SubAccept(j) \/ SubCheck(j) \/ SubWrite(j)
    PROVE  SubInv(j)' /\ JobInv(j)' /\ (Begun(j) => Begun(j)')
<1>1. /\ SubInv(j) /\ JobInv(j) /\ Typed BY DEF CoreInv
<1>2. /\ scenario' = scenario /\ ccmd' = ccmd /\ owner' = owner /\ sub[j].pc # "idle"
      /\ snap' = snap /\ runOf' = runOf
    BY DEF SubFrame, workers, SubIdentified, SubUnidentified, SubAccept, SubCheck, SubWrite,
           durable, runOf
<1>3. /\ \/ adm'[j] = adm[j]
         \/ adm[j] \in ActiveStatus /\ adm'[j] \in ActiveStatus
      /\ AdmMove(j)
    BY <1>1 DEF SubIdentified, SubUnidentified, SubAccept, SubCheck, SubWrite, durable,
           RecordWorkerAccepted, ActiveStatus, AdmMove, Typed, FilesTyped
<1>4. /\ cmd[j] # "none" /\ (Begun(j) <=> Begun(j)') /\ (Resting(j) <=> Resting(j)')
      /\ (Shared(j) <=> Shared(j)') /\ (adm[j] = "none" <=> adm'[j] = "none")
    BY <1>1, <1>2, <1>3 DEF SubInv, Begun, Resting, Shared, runOf, ActiveStatus
<1>5. ASSUME NEW a, Answer(j, a), cmd'[j] = cmd[j], a \notin Rejected,
             a = "accepted" => owner[j] # 0,
             a = "queued" => cmd[j] \notin {"none", "recorded", "queue_full"}
      PROVE  SubInv(j)' /\ JobInv(j)'
    <2>1. sub'[j].pc = "idle" /\ told'[j] = told[j] \cup ({a} \cap Definitive)
        BY <1>1, <1>5, SubShapes
    <2>2. SubInv(j)' BY <2>1 DEF SubInv
    <2>3. JobInv(j)' BY <1>2, <1>3, <1>5, <2>1, JobKept
    <2>4. QED BY <2>2, <2>3
<1>6. ASSUME told' = told, cmd'[j] = cmd[j] PROVE JobInv(j)'
    <2>1. told'[j] = told[j] \cup ({"none"} \cap Definitive) BY <1>6 DEF Definitive, Rejected
    <2>2. "none" \notin Rejected BY DEF Rejected
    <2>3. QED BY <1>2, <1>3, <1>6, <2>1, <2>2, JobKept
<1>7. ASSUME NEW w, NEW t, Update(j, w, t), cmd'[j] = cmd[j],
             \/ w = "completed" /\ t = "accepted" /\ owner[j] # 0
             \/ w = "uncertain" /\ t = "uncertain" /\ Begun(j)
      PROVE  SubInv(j)' /\ JobInv(j)'
    <2>1. sub'[j].pc = "check" /\ sub'[j].want = w /\ sub'[j].then = t /\ told' = told
        BY <1>1, <1>7, SubShapes
    <2>2. SubInv(j)' BY <1>2, <1>4, <1>7, <2>1 DEF SubInv
    <2>3. QED BY <1>6, <1>7, <2>1, <2>2
<1>8. CASE SubIdentified(j)
    <2>1. owner[j] # 0 /\ cmd' = cmd BY <1>1, <1>8 DEF SubIdentified, SubInv, durable
    <2>2. CASE Update(j, "completed", "accepted") BY <1>4, <1>7, <2>1, <2>2
    <2>3. CASE Goto(j, "accept")
        <3>1. sub'[j].pc = "accept" /\ told' = told BY <1>1, <2>3, SubShapes DEF SubPcs
        <3>2. SubInv(j)' BY <1>2, <1>4, <2>1, <3>1 DEF SubInv
        <3>3. QED BY <1>4, <1>6, <2>1, <3>1, <3>2
    <2>4. QED BY <1>8, <2>2, <2>3 DEF SubIdentified
<1>9. CASE SubUnidentified(j)
    <2>1. Answer(j, "error") /\ cmd' = cmd BY <1>9 DEF SubUnidentified, durable
    <2>2. QED BY <1>4, <1>5, <2>1 DEF Rejected
<1>10. CASE SubAccept(j)
    <2>1. owner[j] # 0 /\ cmd' = cmd BY <1>1, <1>10 DEF SubAccept, SubInv
    <2>2. CASE Update(j, "completed", "accepted") BY <1>4, <1>7, <2>1, <2>2
    <2>3. CASE Answer(j, "identity_mismatch") BY <1>4, <1>5, <2>1, <2>3 DEF Rejected
    <2>4. QED BY <1>10, <2>2, <2>3 DEF SubAccept
<1>11. sub[j].pc \in {"check", "write"} =>
          /\ sub[j].want \in {"completed", "uncertain", "queued", "conflict", "queue_full"}
          /\ sub[j].want = "completed" => sub[j].then = "accepted" /\ owner[j] # 0
          /\ sub[j].want = "uncertain" => sub[j].then = "uncertain" /\ Begun(j)
          /\ sub[j].want = "queued" => sub[j].then = "queued"
          /\ sub[j].want = "conflict" => sub[j].then = "conflict" /\ Resting(j) /\ Shared(j)
          /\ sub[j].want = "queue_full" => /\ sub[j].then = "commit" /\ "queued" \notin told[j]
                                           /\ Resting(j)
    BY <1>1 DEF SubInv
<1>12. CASE SubCheck(j)
    <2>1. sub[j].pc = "check" /\ cmd' = cmd BY <1>12 DEF SubCheck, durable
    <2>2. CASE Goto(j, "write")
        <3>1. /\ sub'[j].pc = "write" /\ told' = told
              /\ sub'[j].want = sub[j].want /\ sub'[j].then = sub[j].then
            BY <1>1, <2>2, SubShapes DEF SubPcs
        <3>2. SubInv(j)' BY <1>2, <1>4, <1>11, <2>1, <3>1 DEF SubInv
        <3>3. QED BY <1>4, <1>6, <2>1, <3>1, <3>2
    <2>3. CASE MaySkip(cmd[j], sub[j].want) /\ Answer(j, sub[j].then)
        <3>1. \/ sub[j].want = "queued" /\ sub[j].then = "queued" /\ cmd[j] = "queued"
              \/ sub[j].want = "completed" /\ sub[j].then = "accepted" /\ owner[j] # 0
            BY <1>11, <2>1, <2>3 DEF MaySkip
        <3>2. QED BY <1>4, <1>5, <2>1, <2>3, <3>1 DEF Rejected
    <2>4. CASE Update(j, "uncertain", "uncertain") /\ sub[j].want = "completed"
        BY <1>4, <1>7, <1>11, <2>1, <2>4 DEF Begun
    <2>5. CASE Answer(j, "uncertain") BY <1>4, <1>5, <2>1, <2>5 DEF Rejected
    <2>6. QED BY <1>12, <2>2, <2>3, <2>4, <2>5 DEF SubCheck
<1>13. CASE SubWrite(j)
    <2>1. sub[j].pc = "write" /\ cmd'[j] = sub[j].want /\ adm' = adm
        BY <1>1, <1>13 DEF SubWrite, Typed, FilesTyped
    <2>2. told[j] \cap Rejected = {} BY <1>1, <2>1 DEF JobInv
    <2>3. /\ Begun(j)' \/ adm'[j] # "none" => j \in snap' /\ cmd'[j] # "none"
          /\ adm'[j] \in {"queued", "queue_cancelling"} => owner'[j] = 0
          /\ cmd'[j] = "completed" => owner'[j] # 0
        BY <1>1, <1>2, <1>4, <1>11, <2>1 DEF JobInv
    <2>4. adm'[j] = "queued" => cmd'[j] \in {"recorded", "queued"}
        BY <1>1, <1>11, <2>1 DEF JobInv, Begun, Resting, ActiveStatus
    <2>5. cmd'[j] \in Rejected => Resting(j)' /\ cmd'[j] \in {"conflict", "queue_full"}
        BY <1>4, <1>11, <2>1 DEF Rejected, Resting
    <2>6. /\ cmd'[j] = "conflict" => Shared(j)'
          /\ ccmd'[runOf[j]] = "queued" /\ ~Shared(j)' => Resting(j)' /\ cmd'[j] \notin {"none", "recorded"}
        BY <1>1, <1>2, <1>4, <1>11, <2>1 DEF JobInv
    <2>7. cmd'[j] = "queue_full" => "queued" \notin told[j] BY <1>11, <2>1
    <2>8. CASE sub[j].then = "commit"
        <3>1. sub'[j].pc = "commit" /\ told' = told
            BY <1>1, <1>13, <2>8, SubShapes DEF SubWrite, SubPcs
        <3>2. sub[j].want = "queue_full" BY <1>11, <2>1, <2>8
        <3>3. SubInv(j)' BY <1>2, <1>4, <1>11, <2>1, <3>1, <3>2 DEF SubInv
        <3>4. JobInv(j)'
            <4>1. told'[j] \cap Rejected = {} BY <2>2, <3>1
            <4>2. "accepted" \in told'[j] => owner'[j] # 0 BY <1>1, <1>2, <3>1 DEF JobInv
            <4>3. "queued" \notin told'[j] BY <2>7, <3>1, <3>2, <2>1
            <4>4. QED BY <1>2, <2>3, <2>4, <2>5, <2>6, <4>1, <4>2, <4>3 DEF JobInv
        <3>5. QED BY <1>4, <3>3, <3>4
    <2>9. CASE sub[j].then # "commit"
        <3>1. Answer(j, sub[j].then) BY <1>13, <2>9 DEF SubWrite
        <3>2. sub'[j].pc = "idle" /\ told'[j] = told[j] \cup ({sub[j].then} \cap Definitive)
            BY <1>1, <3>1, SubShapes
        <3>3. SubInv(j)' BY <3>2 DEF SubInv
        <3>4. sub[j].want # "queue_full" BY <1>11, <2>1, <2>9
        <3>5. told'[j] \cap Rejected = {sub[j].then} \cap Rejected
            BY <2>2, <3>2 DEF Definitive
        <3>6. told'[j] \cap Rejected # {} => told'[j] \cap Rejected = {cmd'[j]}
            BY <1>11, <2>1, <3>4, <3>5 DEF Rejected
        <3>7. "accepted" \in told'[j] => owner'[j] # 0
            BY <1>1, <1>2, <1>11, <2>1, <3>2, <3>4 DEF JobInv
        <3>8. "queued" \in told'[j] => cmd'[j] \notin {"none", "recorded", "queue_full"}
            BY <1>11, <2>1, <3>4
        <3>9. JobInv(j)'
            BY <1>2, <2>3, <2>4, <2>5, <2>6, <3>2, <3>6, <3>7, <3>8 DEF JobInv
        <3>10. QED BY <1>4, <3>3, <3>9
    <2>10. QED BY <2>8, <2>9
<1>14. QED BY <1>8, <1>9, <1>10, <1>12, <1>13

\* The steps of a submission in its serialized admission.
LEMMA OwnAdmits ==
    ASSUME CoreInv, NEW j \in Jobs, SubFrame(j),
           \/ AdmitRefused(j) \/ AdmitReplay(j) \/ AdmitRejected(j) \/ AdmitDecide(j)
           \/ AdmitAppend(j) \/ CommitRejection(j)
    PROVE  SubInv(j)' /\ JobInv(j)' /\ (Begun(j) => Begun(j)')
<1>1. /\ SubInv(j) /\ JobInv(j) /\ Typed BY DEF CoreInv
<1>2. /\ scenario' = scenario /\ ccmd' = ccmd /\ owner' = owner /\ sub[j].pc # "idle"
      /\ cmd' = cmd /\ runOf' = runOf /\ snap \subseteq snap'
    BY DEF SubFrame, workers, AdmitRefused, AdmitReplay, AdmitRejected, AdmitDecide, AdmitAppend,
           CommitRejection, durable, runOf
<1>3. cmd[j] # "none" /\ (Shared(j) <=> Shared(j)')
    BY <1>1, <1>2 DEF SubInv, Shared
<1>4. CASE AdmitAppend(j)
    <2>1. /\ NewJob(j) /\ ClassifyNewAdmission # "reject"
          /\ owner[j] = 0 /\ cmd[j] = "recorded" /\ j \in snap
        BY <1>1, <1>4 DEF AdmitAppend, SubInv
    <2>2. /\ adm'[j] \in {"dispatching", "queued"} /\ told' = told
          /\ sub'[j].pc = "await" \/ (sub'[j].pc = "check" /\ sub'[j].want = "queued" /\ sub'[j].then = "queued")
        BY <1>1, <1>4, SubShapes DEF AdmitAppend, SubPcs, Typed, FilesTyped
    <2>3. SubInv(j)' BY <1>2, <1>3, <2>2 DEF SubInv
    <2>4. told[j] \cap Rejected = {} BY <1>1, <1>2 DEF JobInv
    <2>5. ~(ccmd[runOf[j]] = "queued" /\ ~Shared(j)) BY <1>1, <2>1 DEF JobInv
    <2>6. JobInv(j)'
        BY <1>1, <1>2, <1>3, <2>1, <2>2, <2>4, <2>5 DEF JobInv, Rejected
    <2>7. ~Begun(j) BY <2>1 DEF NewJob, Begun, ActiveStatus
    <2>8. QED BY <2>3, <2>6, <2>7
<1>5. CASE ~AdmitAppend(j)
    <2>1. adm' = adm
        BY <1>5 DEF AdmitRefused, AdmitReplay, AdmitRejected, AdmitDecide, CommitRejection, durable
    <2>2. /\ AdmMove(j) /\ (Begun(j) <=> Begun(j)') /\ (Resting(j) <=> Resting(j)')
        BY <1>2, <2>1 DEF AdmMove, Begun, Resting
    <2>3. ASSUME NEW a, Answer(j, a),
                 a = "accepted" => owner[j] # 0,
                 a = "queued" => cmd[j] \notin {"none", "recorded", "queue_full"},
                 a \in Rejected => a = cmd[j]
          PROVE  SubInv(j)' /\ JobInv(j)'
        <3>1. sub'[j].pc = "idle" /\ told'[j] = told[j] \cup ({a} \cap Definitive)
            BY <1>1, <2>3, SubShapes
        <3>2. SubInv(j)' BY <3>1 DEF SubInv
        <3>3. JobInv(j)' BY <1>2, <2>2, <2>3, <3>1, JobKept
        <3>4. QED BY <3>2, <3>3
    <2>4. ASSUME told' = told PROVE JobInv(j)'
        <3>1. told'[j] = told[j] \cup ({"none"} \cap Definitive) BY <2>4 DEF Definitive, Rejected
        <3>2. "none" \notin Rejected BY DEF Rejected
        <3>3. QED BY <1>2, <2>2, <3>1, <3>2, JobKept
    <2>5. ASSUME Update(j, "queue_full", "commit"), cmd[j] = "recorded", Resting(j)
          PROVE  SubInv(j)' /\ JobInv(j)'
        <3>1. sub'[j].pc = "check" /\ sub'[j].want = "queue_full" /\ sub'[j].then = "commit" /\ told' = told
            BY <1>1, <2>5, SubShapes
        <3>2. "queued" \notin told[j] BY <1>1, <2>5 DEF JobInv
        <3>3. SubInv(j)' BY <1>2, <1>3, <2>2, <2>5, <3>1, <3>2 DEF SubInv
        <3>4. QED BY <2>4, <3>1, <3>3
    <2>6. sub[j].pc = "admit" => Resting(j) BY <1>1 DEF SubInv
    <2>7. CASE AdmitRefused(j)
        <3>1. Answer(j, "unavailable") BY <2>7 DEF AdmitRefused
        <3>2. QED BY <2>2, <2>3, <3>1 DEF Rejected
    <2>8. CASE AdmitReplay(j)
        <3>1. \/ cmd[j] = "completed" /\ Answer(j, "accepted")
              \/ cmd[j] \in Rejected /\ Answer(j, cmd[j])
              \/ cmd[j] = "queued" /\ Answer(j, "queued")
              \/ Answer(j, "uncertain")
            BY <2>8 DEF AdmitReplay
        <3>2. CASE cmd[j] = "completed" /\ Answer(j, "accepted")
            BY <1>1, <2>2, <2>3, <3>2 DEF JobInv, Rejected
        <3>3. CASE cmd[j] \in Rejected /\ Answer(j, cmd[j])
            BY <2>2, <2>3, <3>3 DEF Rejected
        <3>4. CASE cmd[j] = "queued" /\ Answer(j, "queued")
            BY <2>2, <2>3, <3>4 DEF Rejected
        <3>5. CASE Answer(j, "uncertain")
            BY <2>2, <2>3, <3>5 DEF Rejected
        <3>6. QED BY <3>1, <3>2, <3>3, <3>4, <3>5
    <2>9. CASE AdmitRejected(j)
        <3>1. Resting(j) BY <2>6, <2>9 DEF AdmitRejected, Admitting
        <3>2. CASE cmd[j] = "recorded" BY <2>2, <2>5, <2>9, <3>1, <3>2 DEF AdmitRejected
        <3>3. CASE cmd[j] = "queue_full" /\ Answer(j, "queue_full")
            BY <2>2, <2>3, <3>3 DEF Rejected
        <3>4. CASE Answer(j, "uncertain") BY <2>2, <2>3, <3>4 DEF Rejected
        <3>5. QED BY <2>9, <3>2, <3>3, <3>4 DEF AdmitRejected
    <2>10. CASE AdmitDecide(j)
        <3>1. Resting(j) /\ cmd[j] = "recorded" /\ adm[j] = "none" /\ owner[j] = 0 /\ j \notin rejections
            BY <2>6, <2>10 DEF AdmitDecide, Admitting, Resting
        <3>2. CASE ClassifyNewAdmission = "reject"
            BY <2>2, <2>5, <2>10, <3>1, <3>2 DEF AdmitDecide
        <3>3. CASE ClassifyNewAdmission # "reject" /\ NewJob(j)
            <4>1. Goto(j, "append") /\ snap' = snap \cup {j} /\ rejections' = rejections
                BY <2>10, <3>3 DEF AdmitDecide
            <4>2. sub'[j].pc = "append" /\ told' = told BY <1>1, <4>1, SubShapes DEF SubPcs
            <4>3. NewJob(j)' BY <1>2, <2>1, <3>3, <4>1 DEF NewJob
            <4>4. ClassifyNewAdmission' = ClassifyNewAdmission
                BY <1>2, <2>1 DEF ClassifyNewAdmission, Active, Queued, maxActive, maxQueued
            <4>5. SubInv(j)' BY <1>2, <3>1, <3>3, <4>1, <4>2, <4>3, <4>4 DEF SubInv
            <4>6. QED BY <2>2, <2>4, <4>2, <4>5
        <3>4. CASE ClassifyNewAdmission # "reject" /\ ~NewJob(j)
            <4>1. Update(j, "conflict", "conflict") BY <2>10, <3>4 DEF AdmitDecide
            <4>2. sub'[j].pc = "check" /\ sub'[j].want = "conflict" /\ sub'[j].then = "conflict" /\ told' = told
                BY <1>1, <4>1, SubShapes
            <4>3. Shared(j) BY <3>1, <3>4 DEF NewJob, Shared
            <4>4. SubInv(j)' BY <1>2, <1>3, <2>2, <3>1, <4>2, <4>3 DEF SubInv
            <4>5. QED BY <2>2, <2>4, <4>2, <4>4
        <3>5. QED BY <3>2, <3>3, <3>4
    <2>11. CASE CommitRejection(j)
        <3>1. Answer(j, "queue_full") /\ cmd[j] = "queue_full"
            BY <1>1, <2>11 DEF CommitRejection, SubInv
        <3>2. QED BY <2>2, <2>3, <3>1 DEF Rejected
    <2>12. QED BY <1>5, <2>7, <2>8, <2>9, <2>10, <2>11
<1>6. QED BY <1>4, <1>5

\* A request: a new command begins its admission, a settled one is replayed.
LEMMA OwnSubmit ==
    ASSUME CoreInv, NEW j \in Jobs, Submit(j)
    PROVE  SubInv(j)' /\ JobInv(j)' /\ (Begun(j) => Begun(j)')
<1>1. /\ SubInv(j) /\ JobInv(j) /\ Typed BY DEF CoreInv
<1>2. SubmitFrame(j) BY SubmitFrames DEF CoreInv
<1>3. /\ scenario' = scenario /\ ccmd' = ccmd /\ owner' = owner /\ adm' = adm /\ snap' = snap
      /\ runOf' = runOf
    BY <1>2 DEF SubmitFrame, workers, runOf
<1>4. /\ (Shared(j) <=> Shared(j)') /\ (Begun(j) <=> Begun(j)') /\ (Resting(j) <=> Resting(j)')
    BY <1>3 DEF Shared, Begun, Resting
<1>5. CASE cmd[j] = "none"
    <2>1. cmd'[j] = "recorded" /\ told' = told /\ sub'[j] = [IdleSub EXCEPT !.pc = "admit", !.journal = "recorded"]
        BY <1>2, <1>5 DEF SubmitFrame, Rejected
    <2>2. sub'[j].pc = "admit" BY <2>1 DEF IdleSub
    <2>3. adm[j] = "none" /\ ~Begun(j) /\ Resting(j)
        BY <1>1, <1>5 DEF JobInv, Begun, Resting
    <2>4. SubInv(j)' BY <1>4, <2>1, <2>2, <2>3 DEF SubInv
    <2>5. told[j] \cap Rejected = {}
        BY <1>1, <1>5 DEF JobInv, Rejected
    <2>6. ~(ccmd[runOf[j]] = "queued" /\ ~Shared(j)) BY <1>1, <1>5 DEF JobInv
    <2>7. "queued" \notin told[j] /\ "accepted" \notin told[j]
        BY <1>1, <1>5, <2>3 DEF JobInv, Begun
    <2>8. JobInv(j)'
        BY <1>3, <1>4, <2>1, <2>3, <2>5, <2>6, <2>7 DEF JobInv, Rejected
    <2>9. QED BY <1>4, <2>4, <2>8
<1>6. CASE cmd[j] = "completed"
    <2>1. cmd' = cmd /\ sub'[j].pc = "idle" /\ told'[j] = told[j] \cup {"accepted"}
        BY <1>2, <1>6, RestPcs DEF SubmitFrame, Rejected
    <2>2. SubInv(j)' BY <2>1 DEF SubInv
    <2>3. told'[j] \cap Rejected = told[j] \cap Rejected /\ ("queued" \in told'[j] => "queued" \in told[j])
        BY <2>1 DEF Rejected
    <2>4. JobInv(j)' BY <1>1, <1>3, <1>4, <1>6, <2>1, <2>3 DEF JobInv
    <2>5. QED BY <1>4, <2>2, <2>4
<1>7. CASE cmd[j] \in Rejected
    <2>1. cmd' = cmd /\ sub'[j].pc = "idle" /\ told'[j] = told[j] \cup {cmd[j]}
        BY <1>2, <1>7, RestPcs DEF SubmitFrame, Rejected
    <2>2. SubInv(j)' BY <2>1 DEF SubInv
    <2>3. told'[j] \cap Rejected = {cmd[j]} BY <1>1, <1>7, <2>1 DEF JobInv
    <2>4. /\ "queued" \in told'[j] => "queued" \in told[j]
          /\ "accepted" \in told'[j] => "accepted" \in told[j]
        BY <1>7, <2>1 DEF Rejected
    <2>5. JobInv(j)' BY <1>1, <1>3, <1>4, <1>7, <2>1, <2>3, <2>4 DEF JobInv
    <2>6. QED BY <1>4, <2>2, <2>5
<1>8. CASE cmd[j] \in {"recorded", "queued", "uncertain"}
    <2>1. cmd' = cmd /\ told' = told /\ sub'[j] = [IdleSub EXCEPT !.pc = "look", !.journal = cmd[j]]
        BY <1>2, <1>8 DEF SubmitFrame, Rejected
    <2>2. sub'[j].pc = "look" /\ sub'[j].journal = cmd[j] BY <2>1 DEF IdleSub
    <2>3. SubInv(j)' BY <1>8, <2>1, <2>2 DEF SubInv
    <2>4. told[j] \cap Rejected = {} BY <1>1, <1>8 DEF JobInv, Rejected
    <2>5. JobInv(j)' BY <1>1, <1>3, <1>4, <2>1, <2>4 DEF JobInv
    <2>6. QED BY <1>4, <2>3, <2>5
<1>9. cmd[j] \in CommandStatus BY <1>1 DEF Typed, FilesTyped
<1>10. QED BY <1>5, <1>6, <1>7, <1>8, <1>9 DEF CommandStatus

-----------------------------------------------------------------------------
(* The core invariant is inductive.                                        *)

\* The scenario is fixed.
LEMMA StepScenario == ASSUME Typed, [Next]_vars PROVE scenario' = scenario /\ runOf' = runOf
<1>1. CASE UNCHANGED vars BY <1>1 DEF vars, runOf
<1>2. CASE RecStep BY <1>2, RecFrames DEF RecFrame, RecOther, runOf
<1>3. ASSUME NEW j \in Jobs, SubStep(j) PROVE scenario' = scenario
    BY <1>3, SubFrames DEF SubFrame
<1>4. ASSUME NEW j \in Jobs, LauStep(j) PROVE scenario' = scenario
    BY <1>4, LauFrames DEF LauFrame, LauOther
<1>5. ASSUME NEW p \in Procs, WorkerStep(p) \/ StatusAdopt(p) \/ Kill(p) PROVE scenario' = scenario
    BY <1>5, WorkerFrames DEF WorkerFrame
<1>6. ASSUME NEW r \in Runs, CanStep(r) \/ Cancel(r) PROVE scenario' = scenario
    BY <1>6, CanFrames DEF CanFrame, CanKept
<1>7. CASE \/ Shutdown \/ Exit \/ Restart \/ Crash \/ \E j \in Jobs : Submit(j) \/ Lose(j)
    BY <1>7 DEF Shutdown, Exit, Restart, RecOther, Crash, Submit, Lose, runOf
<1>8. QED BY <1>1, <1>2, <1>3, <1>4, <1>5, <1>6, <1>7 DEF Next, Progress, runOf

\* But for its own submission, every step moves a job in one of those ways.
LEMMA StepMoves ==
    ASSUME CoreInv, [Next]_vars, NEW k \in Jobs, ~SubStep(k), ~Submit(k)
    PROVE  Moves(k)
<1>1. CASE UNCHANGED vars
    BY <1>1 DEF vars, durable, workers, handlers, Moves, AdmMove, OwnerMove, CmdMove, SubMove,
                CcmdMove, AppendMove
<1>2. CASE \E j \in Jobs \ {k} : SubStep(j) BY <1>2, SubOthers
<1>3. CASE \E j \in Jobs : LauStep(j) BY <1>3, LauMoves
<1>4. CASE RecStep BY <1>4, RecMoves
<1>5. CASE \E p \in Procs : WorkerStep(p) \/ StatusAdopt(p) \/ Kill(p) BY <1>5, WorkerMoves
<1>6. CASE \E r \in Runs : CanStep(r) \/ Cancel(r) BY <1>6, CanMoves
<1>7. CASE \/ Shutdown \/ Exit \/ Restart \/ Crash
           \/ \E j \in Jobs : Lose(j)
           \/ \E j \in Jobs \ {k} : Submit(j)
    BY <1>7, LifeMoves
<1>8. QED BY <1>1, <1>2, <1>3, <1>4, <1>5, <1>6, <1>7 DEF Next, Progress

\* What every step does to every job: it stays begun, and its journal never
\* returns to its start.
Forward(k) ==
    /\ Begun(k) => Begun(k)'
    /\ cmd[k] \notin {"none", "recorded"} => cmd'[k] \notin {"none", "recorded"}

\* Every step keeps what submissions rely on and what journals and answers say.
LEMMA StepJobs ==
    ASSUME CoreInv, [Next]_vars, NEW k \in Jobs
    PROVE  SubInv(k)' /\ JobInv(k)' /\ Forward(k)
<1>1. Typed /\ Typed' /\ SubInv(k) /\ JobInv(k) BY StepTyped DEF CoreInv
<1>2. scenario' = scenario BY <1>1, StepScenario
<1>3. Moves(k) => SubInv(k)' /\ JobInv(k)' /\ Forward(k)
    <2>1. CmdMove(k) /\ cmd[k] \notin {"none", "recorded"} => cmd'[k] \notin {"none", "recorded"}
        BY DEF CmdMove
    <2>2. QED BY <1>1, <1>2, <2>1, MovesKeep DEF Forward, Moves
<1>5. CASE SubStep(k)
    <2>1. SubFrame(k) BY <1>5, SubFrames DEF CoreInv
    <2>2. SubInv(k)' /\ JobInv(k)' /\ (Begun(k) => Begun(k)')
        BY <1>5, <2>1, OwnLooks, OwnUpdates, OwnAdmits DEF SubStep
    <2>3. cmd[k] \notin {"none", "recorded"} => cmd'[k] \notin {"none", "recorded"}
        <3>1. CASE SubWrite(k) BY <1>1, <3>1 DEF SubWrite, SubInv, Typed, FilesTyped
        <3>2. CASE ~SubWrite(k)
            BY <1>5, <3>2 DEF SubStep, Look, TryAccepted, AdmitRefused, SubIdentified, SubUnidentified,
               SubAccept, SubCheck, AdmitReplay, AdmitRejected, AdmitDecide, AdmitAppend,
               CommitRejection, durable
        <3>3. QED BY <3>1, <3>2
    <2>4. QED BY <2>2, <2>3 DEF Forward
<1>6. CASE Submit(k)
    <2>1. cmd[k] # "none" => cmd'[k] = cmd[k] BY <1>6 DEF Submit
    <2>2. QED BY <1>6, <2>1, OwnSubmit DEF Forward
<1>7. CASE ~SubStep(k) /\ ~Submit(k) BY <1>3, <1>7, StepMoves
<1>8. QED BY <1>5, <1>6, <1>7

\* A reconciler that starts, goes on, fails or rests, part by part.
LEMMA RecParts ==
    /\ \A l, a : /\ GoOn(l, a).pc \in {"idle", "next"} /\ GoOn(l, a).launch \subseteq l
                 /\ GoOn(l, a).adopt \subseteq a /\ GoOn(l, a).legacy = {} /\ GoOn(l, a).final = {}
    /\ \A pc : LET f == [IdleRec EXCEPT !.pc = pc] IN
                  f.pc = pc /\ f.launch = {} /\ f.adopt = {} /\ f.legacy = {} /\ f.final = {}
    /\ IdleRec.pc = "idle" /\ IdleRec.launch = {} /\ IdleRec.adopt = {} /\ IdleRec.legacy = {}
    /\ IdleRec.final = {}
BY DEF GoOn, IdleRec

\* The reconciler takes up one launch or one adoption, part by part.
LEMMA NextParts ==
    ASSUME rec \in RecLocals, NEW j \in Jobs, RecNext(j)
    PROVE  /\ rec.pc = "next" /\ rec'.final = rec.final /\ rec'.legacy = rec.legacy
           /\ \/ /\ rec'.pc = "await" /\ rec'.job = j /\ j \in rec.launch
                 /\ rec'.launch = rec.launch \ {j} /\ rec'.adopt = rec.adopt
              \/ /\ rec'.pc = "identify" /\ rec'.job = j /\ j \in rec.adopt
                 /\ rec'.adopt = rec.adopt \ {j} /\ rec'.launch = rec.launch
<1>1. CASE j \in rec.launch /\ rec' = [rec EXCEPT !.pc = "await", !.job = j, !.launch = @ \ {j}]
    <2>1. /\ rec'.pc = "await" /\ rec'.job = j /\ rec'.launch = rec.launch \ {j}
          /\ rec'.adopt = rec.adopt
        BY <1>1 DEF RecLocals
    <2>2. rec'.final = rec.final /\ rec'.legacy = rec.legacy BY <1>1 DEF RecLocals
    <2>3. QED BY <1>1, <2>1, <2>2 DEF RecNext
<1>2. CASE j \in rec.adopt /\ rec' = [rec EXCEPT !.pc = "identify", !.job = j, !.adopt = @ \ {j},
                                                  !.journal = cmd[j]]
    <2>1. /\ rec'.pc = "identify" /\ rec'.job = j /\ rec'.adopt = rec.adopt \ {j}
          /\ rec'.launch = rec.launch
        BY <1>2 DEF RecLocals
    <2>2. rec'.final = rec.final /\ rec'.legacy = rec.legacy BY <1>2 DEF RecLocals
    <2>3. QED BY <1>2, <2>1, <2>2 DEF RecNext
<1>3. QED BY <1>1, <1>2 DEF RecNext

\* A reconciliation fails at once on an undecided rejection, or enters its section
\* with the descriptors, claims and dispatches it found.
LEMMA ReconcileParts ==
    ASSUME Reconcile
    PROVE  \/ /\ rec'.pc = "fatal" /\ rec'.launch = {} /\ rec'.adopt = {} /\ rec'.legacy = {}
              /\ rec'.final = {} /\ lock' = FALSE /\ rejections' = rejections
           \/ /\ rec'.pc = "section" /\ lock' = TRUE /\ rejections' \subseteq rejections
              /\ rec'.final = {j \in Jobs : desc[j] \in FinalDesc}
              /\ rec'.legacy = LegacyClaims
              /\ rec'.launch = {j \in Dispatching \cup LegacyClaims : desc[j] = "none"}
              /\ rec'.adopt = {j \in Dispatching \cup LegacyClaims : desc[j] \in {"starting", "running"}}
<1>1. CASE \E j \in Decided : cmd[j] # "queue_full"
    BY <1>1 DEF Reconcile, IdleRec
<1>2. CASE ~\E j \in Decided : cmd[j] # "queue_full"
    <2>1. rejections' \subseteq rejections /\ lock' = TRUE BY <1>2 DEF Reconcile
    <2>2. QED BY <1>2, <2>1 DEF Reconcile, IdleRec
<1>3. QED BY <1>1, <1>2

\* Launches, processes, claims and the reconciler's plans stay with begun jobs.
LEMMA StepBegun == ASSUME CoreInv, [Next]_vars PROVE BegunInv'
<1>1. Typed /\ BegunInv /\ LauInv /\ RecInv BY DEF CoreInv
<1>2. \A k \in Jobs : Begun(k) => Begun(k)' BY StepJobs DEF Forward
<1>3. runOf' = runOf BY <1>1, StepScenario
<1>a. ASSUME lau' = lau \/ \A k \in Jobs : lau'[k].pc # "idle" => Begun(k)',
             proc' = proc \/ \A j \in Jobs, k \in 1 .. MaxSpawns :
                               proc'[<<j, k>>] # "none" => proc[<<j, k>>] # "none" \/ Begun(j),
             \A r \in Runs : \/ claim'[r] \in {claim[r], NoJob}
                             \/ claim'[r] \in Jobs /\ runOf[claim'[r]] = r /\ Begun(claim'[r]),
             rec' = rec
             \/ /\ \A j \in rec'.launch \cup rec'.adopt \cup rec'.legacy : j \in Jobs /\ Begun(j)'
                /\ rec'.pc = "await" => rec'.job \in Jobs /\ Begun(rec'.job)
      PROVE  BegunInv'
    <2>1. \A j \in Jobs : lau'[j].pc # "idle" => Begun(j)' BY <1>1, <1>2, <1>a DEF BegunInv
    <2>2. \A j \in Jobs, k \in 1 .. MaxSpawns : proc'[<<j, k>>] # "none" => Begun(j)'
        BY <1>1, <1>2, <1>a DEF BegunInv
    <2>3. \A r \in Runs : (claim[r] # NoJob => runOf[claim[r]] = r /\ Begun(claim[r]))'
        <3>1. \A r \in Runs : claim'[r] # NoJob => /\ claim'[r] \in Jobs /\ Begun(claim'[r])
                                                  /\ runOf'[claim'[r]] = r
            BY <1>1, <1>3, <1>a DEF BegunInv, Typed, FilesTyped
        <3>2. QED BY <1>2, <1>3, <3>1 DEF Begun
    <2>4. rec \in RecLocals BY <1>1 DEF Typed, HandlersTyped
    <2>5. /\ \A j \in rec'.launch \cup rec'.adopt \cup rec'.legacy : Begun(j)'
          /\ (rec.pc = "await" => rec.job \in Jobs /\ Begun(rec.job))'
        <3>1. \A j \in rec'.launch \cup rec'.adopt \cup rec'.legacy : Begun(j)'
            BY <1>1, <1>2, <1>a, <2>4 DEF BegunInv, RecLocals
        <3>2. rec'.pc = "await" => rec'.job \in Jobs /\ Begun(rec'.job)
            BY <1>1, <1>a DEF BegunInv
        <3>3. QED BY <1>2, <3>1, <3>2 DEF Begun
    <2>6. QED BY <2>1, <2>2, <2>3, <2>5 DEF BegunInv
<1>b. Reconcile => /\ \A j \in rec'.launch \cup rec'.adopt \cup rec'.legacy : j \in Jobs /\ Begun(j)'
                   /\ rec'.pc # "await"
    <2>1. ASSUME NEW j \in Dispatching \cup LegacyClaims PROVE j \in Jobs /\ Begun(j)
        <3>1. CASE j \in Dispatching BY <3>1 DEF Dispatching, Begun, ActiveStatus
        <3>2. CASE j \in LegacyClaims
            <4>1. j \in Jobs /\ j # NoJob /\ runOf[j] \in Runs
                BY <1>1, <3>2, RunTyped, SupervisorAssumption DEF LegacyClaims
            <4>2. QED BY <1>1, <3>2, <4>1 DEF LegacyClaims, BegunInv
        <3>3. QED BY <3>1, <3>2
    <2>2. QED BY <1>2, <2>1, ReconcileParts
<1>4. CASE UNCHANGED vars BY <1>4, <1>a DEF vars, durable, workers, handlers
<1>5. ASSUME NEW j \in Jobs, SubStep(j) PROVE BegunInv'
    <2>1. SubFrame(j) BY <1>1, <1>5, SubFrames
    <2>2. claim' = claim /\ proc' = proc /\ rec' = rec BY <2>1 DEF SubFrame, workers
    <2>3. lau'[j].pc # "idle" => Begun(j)'
        <3>1. CASE TryAccepted(j)
            <4>1. lau' = lau \/ Begun(j)
                BY <3>1 DEF TryAccepted, WithoutWorker, CoreInv, SubInv, ActiveStatus
            <4>2. QED BY <1>1, <1>2, <4>1 DEF BegunInv
        <3>2. CASE AdmitAppend(j)
            <4>1. lau' = lau \/ adm'[j] = "dispatching"
                BY <1>1, <3>2 DEF AdmitAppend, Typed, FilesTyped
            <4>2. QED BY <1>1, <1>2, <4>1 DEF BegunInv, Begun, ActiveStatus
        <3>3. CASE ~TryAccepted(j) /\ ~AdmitAppend(j)
            <4>1. lau' = lau
                BY <1>5, <3>3 DEF SubStep, Look, AdmitRefused, SubIdentified, SubUnidentified,
                   SubAccept, SubCheck, SubWrite, AdmitReplay, AdmitRejected, AdmitDecide,
                   CommitRejection
            <4>2. QED BY <1>1, <1>2, <4>1 DEF BegunInv
        <3>4. QED BY <3>1, <3>2, <3>3
    <2>4. \A k \in Jobs : lau'[k].pc # "idle" => Begun(k)'
        BY <1>1, <1>2, <2>1, <2>3 DEF SubFrame, BegunInv
    <2>5. QED BY <1>a, <2>2, <2>4
<1>6. ASSUME NEW j \in Jobs, LauStep(j) PROVE BegunInv'
    <2>1. LauFrame(j) BY <1>1, <1>6, LauFrames
    <2>2. Begun(j) BY <1>1, <2>1 DEF LauFrame, BegunInv
    <2>3. \A k \in Jobs : lau'[k].pc # "idle" => Begun(k)'
        BY <1>1, <1>2, <2>1, <2>2 DEF LauFrame, BegunInv
    <2>4. \A i \in Jobs, k \in 1 .. MaxSpawns : proc'[<<i, k>>] # "none" => proc[<<i, k>>] # "none" \/ Begun(i)
        <3>1. CASE Spawn(j)
            <4>1. PICK k \in 1 .. MaxSpawns : proc' = [proc EXCEPT ![<<j, k>>] = "boot"]
                BY <3>1 DEF Spawn
            <4>2. QED BY <1>1, <2>2, <4>1 DEF Typed, ProcessesTyped, Procs
        <3>2. CASE ~Spawn(j)
            BY <1>6, <3>2 DEF LauStep, LaunchClaim, Poll, LaunchTry, LaunchIdentified,
               LaunchUnidentified, LaunchAccept, LaunchUncertain, LaunchJournal, workers
        <3>3. QED BY <3>1, <3>2
    <2>5. \A r \in Runs : \/ claim'[r] \in {claim[r], NoJob}
                          \/ claim'[r] \in Jobs /\ runOf[claim'[r]] = r /\ Begun(claim'[r])
        <3>1. CASE LaunchClaim(j)
            BY <1>1, <2>2, <3>1 DEF LaunchClaim, Typed, FilesTyped
        <3>2. CASE ~LaunchClaim(j)
            BY <1>6, <3>2 DEF LauStep, Spawn, Poll, LaunchTry, LaunchIdentified,
               LaunchUnidentified, LaunchAccept, LaunchUncertain, LaunchJournal
        <3>3. QED BY <3>1, <3>2
    <2>6. rec' = rec
          \/ /\ \A i \in rec'.launch \cup rec'.adopt \cup rec'.legacy : i \in Jobs /\ Begun(i)'
             /\ rec'.pc = "await" => rec'.job \in Jobs /\ Begun(rec'.job)
        <3>1. rec.launch \subseteq Jobs /\ rec.adopt \subseteq Jobs
            BY <1>1 DEF Typed, HandlersTyped, RecLocals
        <3>2. CASE rec' = GoOn(rec.launch, rec.adopt)
            <4>1. /\ rec'.pc # "await" /\ rec'.launch \subseteq rec.launch
                  /\ rec'.adopt \subseteq rec.adopt /\ rec'.legacy = {}
                BY <3>2, RecParts
            <4>2. QED BY <1>1, <1>2, <3>1, <4>1 DEF BegunInv
        <3>3. CASE rec' = [IdleRec EXCEPT !.pc = "fatal"]
            <4>1. rec'.pc # "await" /\ rec'.launch = {} /\ rec'.adopt = {} /\ rec'.legacy = {}
                BY <3>3, RecParts
            <4>2. QED BY <4>1
        <3>4. QED BY <2>1, <3>2, <3>3 DEF LauFrame
    <2>7. QED BY <1>a, <2>3, <2>4, <2>5, <2>6
<1>7. CASE RecStep
    <2>1. RecFrame BY <1>1, <1>7, RecFrames
    <2>2. proc' = proc BY <2>1 DEF RecFrame, RecOther, workers
    <2>3. rec \in RecLocals /\ rec.launch \subseteq Jobs /\ rec.adopt \subseteq Jobs /\ rec.legacy \subseteq Jobs
        BY <1>1 DEF Typed, HandlersTyped, RecLocals
    <2>4. \A k \in Jobs : lau'[k].pc # "idle" => Begun(k)'
        BY <1>1, <1>2, <2>1 DEF RecFrame, BegunInv
    <2>5. \A r \in Runs : claim'[r] \in {claim[r], NoJob}
        BY <1>1, <1>7 DEF RecStep, Tick, RecRelease, RecLeave, RecIdentify, RecAccept, RecUncertain,
           RecCheck, RecWrite, Listen, RecFatal, RecLegacy, RecDropClaim, RecDispatch, RecNext,
           Typed, FilesTyped
    <2>6. ASSUME \/ rec' = rec \/ RecGoOn \/ rec' = IdleRec \/ (\E pc \in RecPcs \ {"await"} : RecGoto(pc))
                 \/ (\E w \in CommandStatus : RecUpdate(w))
          PROVE  BegunInv'
        <3>1. CASE rec' = rec BY <1>a, <2>2, <2>4, <2>5, <3>1
        <3>2. CASE RecGoOn
            <4>1. /\ rec'.pc # "await" /\ rec'.launch \subseteq rec.launch
                  /\ rec'.adopt \subseteq rec.adopt /\ rec'.legacy = {}
                BY <3>2, RecParts DEF RecGoOn
            <4>2. QED BY <1>1, <1>2, <1>a, <2>2, <2>3, <2>4, <2>5, <4>1 DEF BegunInv
        <3>3. CASE rec' = IdleRec
            <4>1. rec'.pc # "await" /\ rec'.launch = {} /\ rec'.adopt = {} /\ rec'.legacy = {}
                BY <3>3, RecParts
            <4>2. QED BY <1>a, <2>2, <2>4, <2>5, <4>1
        <3>4. CASE (\E pc \in RecPcs \ {"await"} : RecGoto(pc)) \/ (\E w \in CommandStatus : RecUpdate(w))
            <4>1. /\ rec'.pc # "await" /\ rec'.launch = rec.launch /\ rec'.adopt = rec.adopt
                  /\ rec'.legacy = rec.legacy
                BY <2>3, <3>4 DEF RecGoto, RecUpdate, RecLocals
            <4>2. QED BY <1>1, <1>2, <1>a, <2>2, <2>3, <2>4, <2>5, <4>1 DEF BegunInv
        <3>5. QED BY <2>6, <3>1, <3>2, <3>3, <3>4
    <2>7. CASE Tick BY <1>a, <1>b, <2>2, <2>4, <2>5, <2>7 DEF Tick
    <2>8. CASE RecRelease
        <3>1. /\ rec'.pc # "await" /\ rec'.launch = rec.launch /\ rec'.adopt = rec.adopt
              /\ rec'.legacy = rec.legacy
            BY <2>3, <2>8 DEF RecRelease, RecLocals
        <3>2. QED BY <1>1, <1>2, <1>a, <2>2, <2>3, <2>4, <2>5, <3>1 DEF BegunInv
    <2>9. CASE \E j \in Jobs : RecLegacy(j) \/ RecDropClaim(j) \/ RecDispatch(j) \/ RecNext(j)
        <3>1. PICK j \in Jobs : RecLegacy(j) \/ RecDropClaim(j) \/ RecDispatch(j) \/ RecNext(j)
            BY <2>9
        <3>2. /\ rec'.launch \subseteq rec.launch \/ (rec'.launch = rec.launch \cup {j} /\ adm'[j] = "dispatching")
              /\ rec'.adopt \subseteq rec.adopt /\ rec'.legacy \subseteq rec.legacy
              /\ rec'.pc = "await" => rec'.job = j /\ j \in rec.launch
            <4>1. CASE RecLegacy(j) BY <2>3, <4>1 DEF RecLegacy, RecGoto, RecLocals
            <4>2. CASE RecDropClaim(j) BY <2>3, <4>2 DEF RecDropClaim, RecGoto, RecLocals
            <4>3. CASE RecDispatch(j)
                BY <1>1, <2>3, <4>3 DEF RecDispatch, RecLocals, Typed, FilesTyped
            <4>4. CASE RecNext(j) BY <2>3, <4>4, NextParts
            <4>5. QED BY <3>1, <4>1, <4>2, <4>3, <4>4
        <3>3. adm'[j] = "dispatching" => Begun(j)' BY DEF Begun, ActiveStatus
        <3>4. \A i \in rec'.launch \cup rec'.adopt \cup rec'.legacy : i \in Jobs /\ Begun(i)'
            BY <1>1, <1>2, <2>3, <3>2, <3>3 DEF BegunInv
        <3>5. rec'.pc = "await" => rec'.job \in Jobs /\ Begun(rec'.job)
            BY <1>1, <3>2 DEF BegunInv
        <3>6. QED BY <1>a, <2>2, <2>4, <2>5, <3>4, <3>5
    <2>10. QED
        BY <1>7, <2>6, <2>7, <2>8, <2>9
        DEF RecStep, RecLeave, RecIdentify, RecAccept, RecUncertain, RecCheck, RecWrite, Listen,
            RecFatal, RecPcs, CommandStatus
<1>8. ASSUME NEW p \in Procs, WorkerStep(p) \/ StatusAdopt(p) \/ Kill(p) PROVE BegunInv'
    <2>1. WorkerFrame(p) BY <1>1, <1>8, WorkerFrames
    <2>2. \A j \in Jobs, k \in 1 .. MaxSpawns : proc'[<<j, k>>] # "none" => proc[<<j, k>>] # "none"
        <3>1. \A j \in Jobs, k \in 1 .. MaxSpawns : <<j, k>> \in Procs BY DEF Procs
        <3>2. QED BY <2>1, <3>1 DEF WorkerFrame
    <2>3. \A r \in Runs : claim'[r] \in {claim[r], NoJob}
        BY <1>1, <2>1 DEF WorkerFrame, Typed, FilesTyped
    <2>4. QED BY <1>a, <2>1, <2>2, <2>3 DEF WorkerFrame, handlers
<1>9. ASSUME NEW r \in Runs, CanStep(r) \/ Cancel(r) PROVE BegunInv'
    BY <1>1, <1>9, <1>a, CanFrames DEF CanFrame, CanKept
<1>10. CASE Shutdown \/ Exit
    BY <1>10, <1>a DEF Shutdown, Exit, handlers, workers, durable
<1>11. CASE Restart
    BY <1>11, <1>a, <1>b DEF Restart, RecOther, workers
<1>12. CASE Crash
    <2>1. \A k \in Jobs : lau'[k].pc = "idle" BY <1>12, RestPcs DEF Crash, Handlers0
    <2>2. rec' = IdleRec /\ proc' = proc /\ claim' = claim
        BY <1>12 DEF Crash, Handlers0, workers, durable
    <2>3. QED BY <1>a, <2>1, <2>2, RecParts
<1>13. ASSUME NEW j \in Jobs, Submit(j) PROVE BegunInv'
    BY <1>13, <1>a DEF Submit, workers
<1>14. ASSUME NEW j \in Jobs, Lose(j) PROVE BegunInv'
    <2>1. LoseFrame(j) BY <1>1, <1>14, LoseFrames
    <2>2. proc' = proc /\ claim' = claim BY <2>1 DEF LoseFrame, workers
    <2>3. \A k \in Jobs : lau'[k].pc # "idle" => Begun(k)'
        BY <1>1, <1>2, <2>1 DEF LoseFrame, BegunInv
    <2>4. CASE rec' = rec BY <1>a, <2>2, <2>3, <2>4
    <2>5. CASE rec' = [IdleRec EXCEPT !.pc = "fatal"]
        <3>1. rec'.pc # "await" /\ rec'.launch = {} /\ rec'.adopt = {} /\ rec'.legacy = {}
            BY <2>5, RecParts
        <3>2. QED BY <1>a, <2>2, <2>3, <3>1
    <2>6. CASE rec' = [rec EXCEPT !.pc = "uncertain"]
        <3>1. rec \in RecLocals /\ rec.launch \subseteq Jobs /\ rec.adopt \subseteq Jobs /\ rec.legacy \subseteq Jobs
            BY <1>1 DEF Typed, HandlersTyped, RecLocals
        <3>2. /\ rec'.pc # "await" /\ rec'.launch = rec.launch /\ rec'.adopt = rec.adopt
              /\ rec'.legacy = rec.legacy
            BY <2>6, <3>1 DEF RecLocals
        <3>3. QED BY <1>1, <1>2, <1>a, <2>2, <2>3, <3>1, <3>2 DEF BegunInv
    <2>7. QED BY <2>1, <2>4, <2>5, <2>6 DEF LoseFrame
<1>15. QED
    BY <1>4, <1>5, <1>6, <1>7, <1>8, <1>9, <1>10, <1>11, <1>12, <1>13, <1>14 DEF Next, Progress

\* What the reconciler has read of descriptors and owners stays true.
LEMMA StepRec == ASSUME CoreInv, [Next]_vars PROVE RecInv'
<1>1. Typed /\ WorkerInv /\ RecInv BY DEF CoreInv
<1>2. Published0 BY <1>1, StepWorker
<1>3. /\ rec \in RecLocals /\ rec.launch \subseteq Jobs /\ rec.adopt \subseteq Jobs
      /\ rec.legacy \subseteq Jobs /\ rec.final \subseteq Jobs
    BY <1>1 DEF Typed, HandlersTyped, RecLocals
<1>a. ASSUME \A j \in rec'.final : j \in Jobs /\ desc[j] \in FinalDesc,
             \A j \in rec'.adopt : j \in Jobs /\ owner[j] # 0,
             rec'.legacy # {} => rec'.pc \in {"section", "fatal"},
             rec'.pc = "drop" => rec'.job \in Jobs /\ desc[rec'.job] \in FinalDesc,
             rec'.pc \in {"identify", "accept", "uncertain", "check", "write"} =>
                rec'.job \in Jobs /\ owner[rec'.job] # 0,
             rec'.pc \in {"check", "write"} => rec'.want \in {"completed", "uncertain"}
      PROVE  RecInv'
    <2>1. \A j \in Jobs : /\ owner[j] # 0 => owner'[j] # 0
                          /\ desc[j] \in FinalDesc => desc'[j] \in FinalDesc
        BY <1>2 DEF Published0
    <2>2. QED BY <1>a, <2>1 DEF RecInv
<1>b. CASE rec' = rec BY <1>1, <1>3, <1>a, <1>b DEF RecInv
<1>c. ASSUME \E l, a : a \subseteq rec.adopt /\ rec' = GoOn(l, a) PROVE RecInv'
    <2>1. PICK l, a : a \subseteq rec.adopt /\ rec' = GoOn(l, a) BY <1>c
    <2>2. rec'.pc \in {"idle", "next"} /\ rec'.adopt \subseteq a /\ rec'.legacy = {} /\ rec'.final = {}
        BY <2>1, RecParts
    <2>3. QED BY <1>1, <1>3, <1>a, <2>1, <2>2 DEF RecInv
<1>d. CASE rec' = [IdleRec EXCEPT !.pc = "fatal"] \/ rec' = IdleRec
    <2>1. rec'.pc \in {"idle", "fatal"} /\ rec'.adopt = {} /\ rec'.legacy = {} /\ rec'.final = {}
        BY <1>d, RecParts
    <2>2. QED BY <1>a, <2>1
<1>e. ASSUME Reconcile PROVE RecInv'
    <2>1. \A j \in Jobs : desc[j] \in {"starting", "running"} => owner[j] # 0
        BY <1>1 DEF WorkerInv
    <2>2. Dispatching \cup LegacyClaims \subseteq Jobs BY DEF Dispatching, LegacyClaims
    <2>3. QED BY <1>a, <1>e, <2>1, <2>2, ReconcileParts
<1>f. ASSUME NEW pc \in {"accept", "uncertain", "check", "write"},
             rec.pc \in {"identify", "accept", "uncertain", "check"},
             \/ pc \in {"accept", "uncertain"} /\ rec' = [rec EXCEPT !.pc = pc]
             \/ pc = "write" /\ rec.pc = "check" /\ rec' = [rec EXCEPT !.pc = pc]
             \/ pc = "check" /\ (\E w \in {"completed", "uncertain"} : RecUpdate(w))
      PROVE  RecInv'
    <2>1. /\ rec'.pc = pc /\ rec'.job = rec.job /\ rec'.adopt = rec.adopt /\ rec'.legacy = rec.legacy
          /\ rec'.final = rec.final
          /\ pc \in {"check", "write"} => rec'.want \in {"completed", "uncertain"}
        BY <1>1, <1>3, <1>f DEF RecUpdate, RecLocals, RecInv
    <2>2. QED BY <1>1, <1>3, <1>a, <1>f, <2>1 DEF RecInv
<1>4. CASE UNCHANGED vars BY <1>4, <1>b DEF vars, handlers
<1>5. ASSUME NEW j \in Jobs, SubStep(j) PROVE RecInv'
    BY <1>1, <1>5, <1>b, SubFrames DEF SubFrame
<1>6. ASSUME NEW j \in Jobs, LauStep(j) PROVE RecInv'
    <2>1. LauFrame(j) BY <1>1, <1>6, LauFrames
    <2>2. QED BY <2>1, <1>b, <1>c, <1>d DEF LauFrame
<1>7. CASE RecStep
    <2>1. CASE Tick BY <1>e, <2>1 DEF Tick
    <2>2. CASE RecRelease
        <3>1. /\ rec'.pc = "section" /\ rec'.adopt = rec.adopt /\ rec'.legacy = rec.legacy
              /\ rec'.final = rec.final
            BY <1>3, <2>2 DEF RecRelease, RecLocals
        <3>2. QED BY <1>1, <1>3, <1>a, <3>1 DEF RecInv
    <2>3. CASE RecLeave BY <1>c, <2>3 DEF RecLeave, RecGoOn
    <2>4. CASE RecIdentify BY <1>f, <2>4 DEF RecIdentify, RecGoto
    <2>5. CASE RecAccept
        <3>1. CASE rec' = [rec EXCEPT !.pc = "fatal"]
            <4>1. /\ rec'.pc = "fatal" /\ rec'.adopt = rec.adopt /\ rec'.legacy = rec.legacy
                  /\ rec'.final = rec.final
                BY <1>3, <3>1 DEF RecLocals
            <4>2. QED BY <1>1, <1>3, <1>a, <4>1 DEF RecInv
        <3>2. CASE RecUpdate("completed") BY <1>f, <2>5, <3>2 DEF RecAccept
        <3>3. CASE RecGoOn BY <1>c, <3>3 DEF RecGoOn
        <3>4. QED BY <2>5, <3>1, <3>2, <3>3 DEF RecAccept, RecGoto
    <2>6. CASE RecUncertain
        <3>1. CASE RecUpdate("uncertain") BY <1>f, <2>6, <3>1 DEF RecUncertain
        <3>2. CASE RecGoOn BY <1>c, <3>2 DEF RecGoOn
        <3>3. QED BY <2>6, <3>1, <3>2 DEF RecUncertain
    <2>7. CASE RecCheck
        <3>1. CASE RecGoto("write") BY <1>f, <2>7, <3>1 DEF RecCheck, RecGoto
        <3>2. CASE RecUpdate("uncertain") BY <1>f, <2>7, <3>2 DEF RecCheck
        <3>3. CASE RecGoOn BY <1>c, <3>3 DEF RecGoOn
        <3>4. QED BY <2>7, <3>1, <3>2, <3>3 DEF RecCheck
    <2>8. CASE RecWrite BY <1>c, <2>8 DEF RecWrite, RecGoOn
    <2>9. CASE Listen BY <1>b, <2>9 DEF Listen
    <2>10. CASE RecFatal BY <1>d, <2>10 DEF RecFatal
    <2>11. ASSUME NEW j \in Jobs, RecLegacy(j) \/ RecDispatch(j) PROVE RecInv'
        <3>1. /\ rec.pc = "section" /\ rec'.pc \in {"section", "fatal"} /\ rec'.adopt = rec.adopt
              /\ rec'.final = rec.final
            <4>1. CASE RecLegacy(j) BY <1>3, <4>1 DEF RecLegacy, RecGoto, RecLocals
            <4>2. CASE RecDispatch(j) BY <1>3, <4>2 DEF RecDispatch, RecLocals
            <4>3. QED BY <2>11, <4>1, <4>2
        <3>2. QED BY <1>1, <1>3, <1>a, <3>1 DEF RecInv
    <2>12. ASSUME NEW j \in Jobs, RecDropClaim(j) PROVE RecInv'
        <3>1. rec'.pc = "fatal" \/ (rec'.pc = "drop" /\ rec'.job = j)
            BY <1>3, <2>12 DEF RecDropClaim, RecGoto, RecLocals
        <3>2. rec'.adopt = rec.adopt /\ rec'.final = rec.final /\ rec'.legacy = {} /\ j \in rec.final
            BY <1>3, <2>12 DEF RecDropClaim, RecGoto, RecLocals
        <3>3. QED BY <1>1, <1>3, <1>a, <3>1, <3>2 DEF RecInv
    <2>13. ASSUME NEW j \in Jobs, RecNext(j) PROVE RecInv'
        <3>1. /\ rec.pc = "next" /\ rec'.adopt \subseteq rec.adopt
              /\ rec'.final = rec.final /\ rec'.legacy = rec.legacy
            BY <1>3, <2>13, NextParts
        <3>2. rec'.pc = "await" \/ (rec'.pc = "identify" /\ rec'.job = j /\ j \in rec.adopt)
            BY <1>3, <2>13, NextParts
        <3>3. QED BY <1>1, <1>3, <1>a, <3>1, <3>2 DEF RecInv
    <2>14. QED
        BY <1>7, <2>1, <2>2, <2>3, <2>4, <2>5, <2>6, <2>7, <2>8, <2>9, <2>10, <2>11, <2>12, <2>13
        DEF RecStep
<1>8. ASSUME NEW p \in Procs, WorkerStep(p) \/ StatusAdopt(p) \/ Kill(p) PROVE RecInv'
    BY <1>1, <1>8, <1>b, WorkerFrames DEF WorkerFrame, handlers
<1>9. ASSUME NEW r \in Runs, CanStep(r) \/ Cancel(r) PROVE RecInv'
    BY <1>1, <1>9, <1>b, CanFrames DEF CanFrame, CanKept
<1>10. CASE Shutdown \/ Exit BY <1>10, <1>b DEF Shutdown, Exit, handlers
<1>11. CASE Restart BY <1>11, <1>e DEF Restart
<1>12. CASE Crash BY <1>12, <1>d DEF Crash, Handlers0
<1>13. ASSUME NEW j \in Jobs, Submit(j) PROVE RecInv'
    BY <1>13, <1>b DEF Submit
<1>14. ASSUME NEW j \in Jobs, Lose(j) PROVE RecInv'
    <2>1. LoseFrame(j) BY <1>1, <1>14, LoseFrames
    <2>2. QED BY <2>1, <1>b, <1>d, <1>f DEF LoseFrame
<1>15. QED
    BY <1>4, <1>5, <1>6, <1>7, <1>8, <1>9, <1>10, <1>11, <1>12, <1>13, <1>14 DEF Next, Progress

\* A launch that identifies or records a worker has found one.
LEMMA StepLau == ASSUME CoreInv, [Next]_vars PROVE LauInv'
<1> DEFINE P(k) == /\ lau'[k].pc = "poll" => lau'[k].child \in 1 .. MaxSpawns
                   /\ lau'[k].pc \in {"identify", "reidentify", "accept", "reaccept"} => owner[k] # 0
                   /\ lau'[k].pc = "update" => /\ lau'[k].want \in {"completed", "uncertain"}
                                               /\ lau'[k].want = "completed" => owner[k] # 0
<1>1. Typed /\ WorkerInv /\ LauInv BY DEF CoreInv
<1>2. Published0 BY <1>1, StepWorker
<1>3. lau \in [Jobs -> LauLocals] BY <1>1 DEF Typed, HandlersTyped
<1>a. ASSUME \A k \in Jobs : P(k) PROVE LauInv'
    BY <1>2, <1>a DEF LauInv, Published0
<1>b. ASSUME NEW k \in Jobs, lau'[k] = lau[k] PROVE P(k)
    BY <1>1, <1>b DEF LauInv
<1>c. ASSUME NEW k \in Jobs, lau'[k].pc \in {"idle", "claim", "spawn", "try", "uncertain"} PROVE P(k)
    BY <1>c
<1> HIDE DEF P
<1>4. ASSUME lau' = lau PROVE LauInv' BY <1>4, <1>a, <1>b
<1>5. ASSUME NEW j \in Jobs, SubStep(j) PROVE LauInv'
    <2>1. SubFrame(j) BY <1>1, <1>5, SubFrames
    <2>2. lau'[j] = lau[j] \/ lau'[j].pc = "claim"
        <3>1. CASE TryAccepted(j)
            <4>1. \/ lau' = lau
                  \/ lau' = [lau EXCEPT ![j] = [IdleLau EXCEPT !.pc = "claim", !.journal = sub[j].journal]]
                BY <3>1 DEF TryAccepted, WithoutWorker
            <4>2. QED BY <1>3, <4>1 DEF IdleLau
        <3>2. CASE AdmitAppend(j)
            <4>1. \/ lau' = lau
                  \/ lau' = [lau EXCEPT ![j] = [IdleLau EXCEPT !.pc = "claim", !.journal = "recorded"]]
                BY <3>2 DEF AdmitAppend
            <4>2. QED BY <1>3, <4>1 DEF IdleLau
        <3>3. CASE ~TryAccepted(j) /\ ~AdmitAppend(j)
            BY <1>5, <3>3 DEF SubStep, Look, AdmitRefused, SubIdentified, SubUnidentified,
               SubAccept, SubCheck, SubWrite, AdmitReplay, AdmitRejected, AdmitDecide,
               CommitRejection
        <3>4. QED BY <3>1, <3>2, <3>3
    <2>3. QED BY <1>a, <1>b, <1>c, <2>1, <2>2 DEF SubFrame
<1>6. ASSUME NEW j \in Jobs, LauStep(j) PROVE LauInv'
    <2>1. LauFrame(j) BY <1>1, <1>6, LauFrames
    <2>2. \A k \in Jobs \ {j} : P(k) BY <1>b, <2>1 DEF LauFrame
    <2>3. P(j)
        <3>a. \A pc \in LauPcs : LauGoto(j, pc) => lau'[j].pc = pc
            BY <1>3 DEF LauGoto, LauLocals
        <3>b. \A w \in CommandStatus : LauUpdate(j, w) => lau'[j].pc = "update" /\ lau'[j].want = w
            BY <1>3 DEF LauUpdate, LauLocals
        <3>c. \A a : Settle(j, a) => lau'[j].pc = "idle"
            BY <1>3 DEF Settle, IdleLau
        <3>d. IdentityReady(j) => owner[j] # 0 BY DEF IdentityReady
        <3> USE DEF LauPcs, CommandStatus
        <3>1. CASE LaunchClaim(j) BY <1>c, <3>a, <3>1 DEF LaunchClaim
        <3>2. CASE Spawn(j)
            <4>1. lau'[j].pc = "poll" /\ lau'[j].child \in 1 .. MaxSpawns
                BY <1>3, <3>2 DEF Spawn, LauLocals
            <4>2. QED BY <4>1 DEF P
        <3>3. CASE Poll(j)
            <4>1. lau[j].child # 0 BY <1>1, <3>3 DEF Poll, LauInv
            <4>2. lau'[j].pc = "try" \/ (lau'[j].pc = "identify" /\ owner[j] # 0)
                BY <3>a, <3>3, <4>1 DEF Poll
            <4>3. QED BY <4>2 DEF P
        <3>4. CASE LaunchTry(j)
            <4>1. lau'[j].pc = "uncertain" \/ (lau'[j].pc \in {"reaccept", "reidentify"} /\ owner[j] # 0)
                BY <1>1, <3>a, <3>4 DEF LaunchTry, WorkerInv
            <4>2. QED BY <4>1 DEF P
        <3>5. CASE LaunchIdentified(j)
            <4>1. lau'[j].pc \in {"accept", "reaccept"} BY <3>a, <3>5 DEF LaunchIdentified
            <4>2. QED BY <3>d, <3>5, <4>1 DEF P, LaunchIdentified
        <3>6. CASE LaunchUnidentified(j) BY <1>c, <3>a, <3>c, <3>6 DEF LaunchUnidentified
        <3>7. CASE LaunchAccept(j)
            <4>1. owner[j] # 0 BY <1>1, <3>7 DEF LaunchAccept, LauInv
            <4>2. \/ lau'[j].pc = "update" /\ lau'[j].want = "completed"
                  \/ lau'[j].pc \in {"try", "idle"}
                BY <3>a, <3>b, <3>c, <3>7 DEF LaunchAccept
            <4>3. QED BY <4>1, <4>2 DEF P
        <3>8. CASE LaunchUncertain(j)
            <4>1. lau'[j].pc = "update" /\ lau'[j].want = "uncertain"
                BY <3>b, <3>8 DEF LaunchUncertain
            <4>2. QED BY <4>1 DEF P
        <3>9. CASE LaunchJournal(j) BY <1>c, <3>c, <3>9 DEF LaunchJournal
        <3>10. QED
            BY <1>6, <3>1, <3>2, <3>3, <3>4, <3>5, <3>6, <3>7, <3>8, <3>9 DEF LauStep
    <2>4. QED BY <1>a, <2>2, <2>3
<1>7. CASE RecStep
    <2>1. RecFrame BY <1>1, <1>7, RecFrames
    <2>2. \A k \in Jobs : lau'[k] = lau[k] \/ lau'[k].pc = "claim"
        BY <2>1 DEF RecFrame, IdleLau
    <2>3. QED BY <1>a, <1>b, <1>c, <2>2
<1>8. ASSUME NEW p \in Procs, WorkerStep(p) \/ StatusAdopt(p) \/ Kill(p) PROVE LauInv'
    BY <1>1, <1>8, <1>4, WorkerFrames DEF WorkerFrame, handlers
<1>9. ASSUME NEW r \in Runs, CanStep(r) \/ Cancel(r) PROVE LauInv'
    BY <1>1, <1>9, <1>4, CanFrames DEF CanFrame, CanKept
<1>10. CASE Shutdown \/ Exit \/ Restart BY <1>10, <1>4 DEF Shutdown, Exit, Restart, handlers
<1>11. CASE Crash
    <2>1. \A k \in Jobs : lau'[k].pc = "idle" BY <1>11, RestPcs DEF Crash, Handlers0
    <2>2. QED BY <1>a, <1>c, <2>1
<1>12. ASSUME NEW j \in Jobs, Submit(j) PROVE LauInv'
    BY <1>12, <1>4 DEF Submit
<1>13. ASSUME NEW j \in Jobs, Lose(j) PROVE LauInv'
    <2>1. LoseFrame(j) BY <1>1, <1>13, LoseFrames
    <2>2. \A k \in Jobs : lau'[k] = lau[k] \/ lau'[k].pc \in {"idle", "try"} BY <2>1 DEF LoseFrame
    <2>3. QED BY <1>a, <1>b, <1>c, <2>2
<1>14. CASE UNCHANGED vars BY <1>14, <1>4 DEF vars, handlers
<1>15. QED
    BY <1>5, <1>6, <1>7, <1>8, <1>9, <1>10, <1>11, <1>12, <1>13, <1>14 DEF Next, Progress

\* A cancellation in its section works on a job that nobody else touches, and
\* only workers' processes are aborted.
LEMMA StepCan == ASSUME CoreInv, [Next]_vars PROVE CanInv'
<1> DEFINE R(r) == /\ can'[r].pc = "request" => can'[r].job \in Jobs
                   /\ can'[r].pc \in CanSection => /\ can'[r].job \in Jobs /\ runOf[can'[r].job] = r
                                                   /\ adm'[can'[r].job] = "queue_cancelling"
                   /\ can'[r].pc \in {"complete", "drop"} => cmd'[can'[r].job] \notin {"none", "recorded"}
<1>1. Typed /\ LockInv /\ CanInv /\ WorkerInv /\ BegunInv BY DEF CoreInv
<1>2. runOf' = runOf BY <1>1, StepScenario
<1>3. \A k \in Jobs : cmd[k] \notin {"none", "recorded"} => cmd'[k] \notin {"none", "recorded"}
    BY StepJobs DEF Forward
<1>4. can \in [Runs -> CanLocals] BY <1>1 DEF Typed, HandlersTyped
<1>a. ASSUME abort' \subseteq Procs, \A r \in Runs : R(r) PROVE CanInv'
    BY <1>2, <1>a DEF CanInv
<1>b. ASSUME NEW r \in Runs, can'[r] = can[r], can[r].pc \in CanSection => adm' = adm PROVE R(r)
    <2>1. can[r].pc \in {"complete", "drop"} => can[r].job \in Jobs BY <1>1 DEF CanInv, CanSection
    <2>2. QED BY <1>1, <1>3, <1>b, <2>1 DEF CanInv
<1>c. ASSUME NEW r \in Runs, can'[r].pc \notin CanSection \cup {"request"} PROVE R(r)
    BY <1>c DEF CanSection
<1>d. abort \subseteq Procs BY <1>1 DEF CanInv
<1> HIDE DEF R
<1>e. ASSUME can' = can, abort' = abort, lock => adm' = adm PROVE CanInv'
    <2>1. \A r \in Runs : can[r].pc \in CanSection => lock BY <1>1 DEF LockInv
    <2>2. QED BY <1>a, <1>b, <1>d, <1>e, <2>1
<1>5. CASE UNCHANGED vars BY <1>5, <1>e DEF vars, durable, workers, handlers
<1>6. ASSUME NEW j \in Jobs, SubStep(j) PROVE CanInv'
    <2>1. SubFrame(j) BY <1>1, <1>6, SubFrames
    <2>2. \A r \in Runs : can[r].pc \in CanSection => adm' = adm BY <1>1, <2>1 DEF SubFrame, LockInv
    <2>3. QED BY <1>a, <1>b, <1>d, <2>1, <2>2 DEF SubFrame, workers
<1>7. ASSUME NEW j \in Jobs, LauStep(j) PROVE CanInv'
    BY <1>1, <1>7, <1>e, LauFrames DEF LauFrame, LauOther
<1>8. CASE RecStep
    <2>1. RecFrame BY <1>1, <1>8, RecFrames
    <2>2. \A r \in Runs : can[r].pc \in CanSection => adm' = adm BY <1>1, <2>1 DEF RecFrame, LockInv
    <2>3. QED BY <1>a, <1>b, <1>d, <2>1, <2>2 DEF RecFrame, RecOther, workers
<1>9. ASSUME NEW p \in Procs, WorkerStep(p) \/ StatusAdopt(p) \/ Kill(p) PROVE CanInv'
    <2>1. WorkerFrame(p) BY <1>1, <1>9, WorkerFrames
    <2>2. abort' = abort
        BY <1>9 DEF WorkerStep, Bind, Publish, Adopt, AdoptionTimeout, Acknowledged,
           AcknowledgementTimeout, Finish, CloseServer, RenameClaim, StatusAdopt, Kill
    <2>3. QED BY <1>e, <2>1, <2>2 DEF WorkerFrame, handlers
<1>10. ASSUME NEW r \in Runs, CanStep(r) \/ Cancel(r) PROVE CanInv'
    <2>1. CanFrame(r) BY <1>1, <1>10, CanFrames
    <2>2. \A s \in Runs \ {r} : R(s)
        <3>1. \A s \in Runs \ {r} : can[s].pc \in CanSection => adm' = adm
            BY <1>1, <2>1 DEF CanFrame, LockInv
        <3>2. QED BY <1>b, <2>1, <3>1 DEF CanFrame
    <2>a. ASSUME NEW pc \in CanPcs, NEW j \in Jobs \cup {NoJob}, CanGoto(r, pc, j)
          PROVE  can'[r].pc = pc /\ can'[r].job = j
        BY <1>4, <2>a DEF CanGoto
    <2>b. CanEnd(r) => can'[r].pc = "idle" BY <1>4 DEF CanEnd, IdleCan
    <2>c. can[r].job \in Jobs \cup {NoJob} /\ claim[r] \in Jobs \cup {NoJob}
        BY <1>1 DEF Typed, FilesTyped, HandlersTyped, CanLocals
    <2> USE DEF CanPcs, CanSection
    <2>3. CASE ~CancelRequest(r)
        <3>1. abort' = abort
            BY <1>10, <2>3 DEF CanStep, Cancel, CancelSection, CancelReject, CancelComplete, CancelDrop,
               CancelFinalize, CancelLedger, CancelActive, CancelResponse, workers
        <3>2. R(r)
            <4>1. CASE Cancel(r) BY <1>c, <2>a, <4>1 DEF Cancel
            <4>2. CASE CancelSection(r)
                <5>1. CASE CanGoto(r, "active", NoJob) BY <1>c, <2>a, <5>1
                <5>2. CASE \E j \in AdmittedFor(r) : /\ adm[j] \in Cancellable
                                                     /\ adm' = [adm EXCEPT ![j] = "queue_cancelling"]
                                                     /\ lock' = TRUE /\ CanGoto(r, "reject", j)
                    <6>1. PICK j \in AdmittedFor(r) : /\ adm' = [adm EXCEPT ![j] = "queue_cancelling"]
                                                      /\ CanGoto(r, "reject", j)
                        BY <5>2
                    <6>2. j \in Jobs /\ runOf[j] = r BY DEF AdmittedFor
                    <6>3. can'[r].pc = "reject" /\ can'[r].job = j BY <2>a, <6>1, <6>2
                    <6>4. adm'[j] = "queue_cancelling" BY <1>1, <6>1, <6>2 DEF Typed, FilesTyped
                    <6>5. QED BY <6>2, <6>3, <6>4 DEF R
                <5>3. QED BY <4>2, <5>1, <5>2 DEF CancelSection
            <4>3. CASE CancelReject(r)
                <5>1. /\ can[r].job \in Jobs /\ runOf[can[r].job] = r
                      /\ adm[can[r].job] = "queue_cancelling" /\ adm' = adm
                    BY <1>1, <4>3 DEF CancelReject, CanInv
                <5>2. CASE CanEnd(r) BY <1>c, <2>b, <5>2
                <5>3. CASE CanGoto(r, "complete", can[r].job) /\ cmd[can[r].job] \in {"recorded", "queued", "cancelled"}
                    <6>1. cmd'[can[r].job] = "cancelled"
                        BY <1>1, <4>3, <5>1, <5>3 DEF CancelReject, Typed, FilesTyped
                    <6>2. can'[r].pc = "complete" /\ can'[r].job = can[r].job BY <2>a, <2>c, <5>3
                    <6>3. QED BY <5>1, <6>1, <6>2 DEF R
                <5>4. QED BY <4>3, <5>2, <5>3 DEF CancelReject
            <4>4. CASE CancelComplete(r)
                <5>1. can'[r].pc = "drop" /\ can'[r].job = can[r].job BY <2>a, <2>c, <4>4 DEF CancelComplete
                <5>2. QED BY <1>1, <4>4, <5>1 DEF CancelComplete, CanInv, R
            <4>5. CASE CancelActive(r)
                <5>1. CASE CanEnd(r) BY <1>c, <2>b, <5>1
                <5>2. CASE CanGoto(r, "request", claim[r]) /\ claim[r] # NoJob
                    <6>1. can'[r].pc = "request" /\ can'[r].job \in Jobs BY <2>a, <2>c, <5>2
                    <6>2. QED BY <6>1 DEF R
                <5>3. QED BY <4>5, <5>1, <5>2 DEF CancelActive
            <4>6. CASE CanEnd(r) BY <1>c, <2>b, <4>6
            <4>7. QED
                BY <1>10, <2>3, <4>1, <4>2, <4>3, <4>4, <4>5, <4>6
                DEF CanStep, CancelDrop, CancelFinalize, CancelLedger, CancelResponse
        <3>3. QED BY <1>a, <1>d, <2>2, <3>1, <3>2
    <2>4. CASE CancelRequest(r)
        <3>1. can[r].job \in Jobs BY <1>1, <2>4 DEF CancelRequest, CanInv
        <3>2. can'[r].pc \in {"idle", "response"} BY <2>a, <2>b, <2>c, <2>4 DEF CancelRequest
        <3>3. abort' \subseteq Procs
            <4>1. Answering(can[r].job) => Published(can[r].job) \in Procs
                BY <1>1, <3>1, SupervisorAssumption DEF Answering, Published, Procs, Typed, ProcessesTyped
            <4>2. QED BY <1>d, <2>4, <4>1 DEF CancelRequest
        <3>4. QED BY <1>a, <1>c, <2>2, <3>2, <3>3
    <2>5. QED BY <2>3, <2>4
<1>11. CASE Shutdown \/ Exit \/ Restart
    BY <1>11, <1>e DEF Shutdown, Exit, Restart, RecOther, handlers, durable, workers
<1>12. CASE Crash
    <2>1. \A r \in Runs : can'[r].pc = "idle" BY <1>12, RestPcs DEF Crash, Handlers0
    <2>2. QED BY <1>12, <1>a, <1>c, <1>d, <2>1 DEF Crash, workers, CanSection
<1>13. ASSUME NEW j \in Jobs, Submit(j) PROVE CanInv'
    BY <1>13, <1>e DEF Submit, workers
<1>14. ASSUME NEW j \in Jobs, Lose(j) PROVE CanInv'
    <2>1. LoseFrame(j) BY <1>1, <1>14, LoseFrames
    <2>2. \A r \in Runs : can'[r] = can[r] \/ can'[r].pc = "idle" BY <2>1, RestPcs DEF LoseFrame
    <2>3. adm' = adm /\ abort' = abort BY <2>1 DEF LoseFrame, workers
    <2>4. QED BY <1>a, <1>b, <1>c, <1>d, <2>2, <2>3 DEF CanSection
<1>15. QED
    BY <1>5, <1>6, <1>7, <1>8, <1>9, <1>10, <1>11, <1>12, <1>13, <1>14 DEF Next, Progress

\* The daemon, its workers and its journals start in agreement.
LEMMA InitCore == ASSUME Init PROVE CoreInv
<1>1. Typed /\ LockInv /\ LifeInv /\ WorkerInv BY InitTyped, InitLock, InitWorker
<1>2. /\ \A j \in Jobs : sub[j].pc = "idle" /\ lau[j].pc = "idle"
      /\ rec = IdleRec /\ \A r \in Runs : can[r].pc = "idle"
    BY DEF Init, NoHandlers, IdleSub, IdleLau, IdleCan
<1>3. scenario \in Scenarios /\ (scenario.legacy # {} => scenario.legacy = scenario.busy /\ scenario.queued = {})
    BY SupervisorAssumption DEF Init
<1>4. \A j \in Jobs :
         \/ /\ j \in scenario.busy /\ cmd[j] = "completed" /\ adm[j] \in {"none", "accepted"}
            /\ owner[j] = 1 /\ told[j] = {"accepted"} /\ j \in snap
         \/ /\ j \in scenario.queued /\ cmd[j] = "queued" /\ adm[j] = "queued"
            /\ owner[j] = 0 /\ told[j] = {"queued"} /\ j \in snap
         \/ /\ cmd[j] = "none" /\ adm[j] = "none" /\ owner[j] = 0 /\ told[j] = {}
    BY <1>3 DEF Init
<1>5. BegunInv
    <2>1. \A j \in Jobs, k \in 1 .. MaxSpawns : proc[<<j, k>>] # "none" => j \in scenario.busy
        BY DEF Init, Procs
    <2>2. \A r \in Runs : claim[r] # NoJob => claim[r] \in scenario.busy /\ runOf[claim[r]] = r
        BY DEF Init
    <2>3. scenario.busy \subseteq Jobs BY <1>3, SupervisorAssumption DEF ScenarioType
    <2>4. \A j \in scenario.busy : Begun(j) BY <2>3 DEF Init, Begun
    <2>5. rec.pc = "idle" /\ rec.launch = {} /\ rec.adopt = {} /\ rec.legacy = {}
        BY <1>2, RecParts
    <2>6. QED BY <1>2, <2>1, <2>2, <2>4, <2>5 DEF BegunInv
<1>6. RecInv
    <2>1. rec.pc = "idle" /\ rec.adopt = {} /\ rec.legacy = {} /\ rec.final = {} BY <1>2, RecParts
    <2>2. QED BY <2>1 DEF RecInv
<1>7. LauInv BY <1>2 DEF LauInv
<1>8. CanInv BY <1>2 DEF Init, CanInv, CanSection
<1>9. \A j \in Jobs : SubInv(j) BY <1>2 DEF SubInv
<1>10. \A j \in Jobs : JobInv(j)
    <2>1. \A j \in Jobs : ccmd[runOf[j]] = "none" BY <1>1, RunTyped DEF Init
    <2>2. {"accepted"} \cap Rejected = {} /\ {"queued"} \cap Rejected = {} BY DEF Rejected
    <2>3. QED BY <1>2, <1>4, <2>1, <2>2 DEF JobInv, Begun, Resting, ActiveStatus, Rejected
<1>11. QED BY <1>1, <1>5, <1>6, <1>7, <1>8, <1>9, <1>10 DEF CoreInv

\* Every step keeps the core invariant.
LEMMA StepCore == ASSUME CoreInv, [Next]_vars PROVE CoreInv'
<1>1. Typed' /\ LockInv' /\ LifeInv' /\ WorkerInv'
    BY StepTyped, StepLock, StepLife, StepWorker DEF CoreInv
<1>2. BegunInv' /\ RecInv' /\ LauInv' /\ CanInv' BY StepBegun, StepRec, StepLau, StepCan
<1>3. \A j \in Jobs : SubInv(j)' /\ JobInv(j)' BY StepJobs
<1>4. QED BY <1>1, <1>2, <1>3 DEF CoreInv

-----------------------------------------------------------------------------
(* The admission ledger keeps its limits.                                  *)

\* A step that gives nothing away keeps them.
LEMMA LimitShrink ==
    ASSUME Typed, LimitInv, scenario' = scenario,
           \A k \in Jobs : /\ adm'[k] \in ActiveStatus => adm[k] \in ActiveStatus
                           /\ adm'[k] = "queued" => adm[k] = "queued"
                           /\ adm'[k] # "none" => adm[k] # "none",
           \A k \in rejections' : k \in Jobs /\ (k \in rejections \/ adm[k] = "none")
    PROVE  LimitInv'
<1>1. Active' \subseteq Active /\ Queued' \subseteq Queued BY DEF Active, Queued
<1>2. Active \subseteq Jobs /\ Queued \subseteq Jobs BY DEF Active, Queued
<1>3. IsFiniteSet(Active) /\ IsFiniteSet(Queued) BY <1>2, SupervisorAssumption, FS_Subset
<1>4. /\ Cardinality(Active') <= Cardinality(Active) /\ Cardinality(Queued') <= Cardinality(Queued)
      /\ Cardinality(Active') \in Nat /\ Cardinality(Queued') \in Nat
      /\ Cardinality(Active) \in Nat /\ Cardinality(Queued) \in Nat
    BY <1>1, <1>3, FS_Subset, FS_CardinalityType
<1>5. maxActive' = maxActive /\ maxQueued' = maxQueued /\ runOf' = runOf
    BY DEF maxActive, maxQueued, runOf
<1>6. maxActive \in Nat /\ maxQueued \in Nat
    BY SupervisorAssumption DEF Typed, FilesTyped, ScenarioType, maxActive, maxQueued
<1>7. /\ Cardinality(Active') <= maxActive' /\ Cardinality(Queued') <= maxQueued'
    BY <1>4, <1>5, <1>6 DEF LimitInv
<1>8. QED BY <1>5, <1>7 DEF LimitInv

\* A place is given to a job of its own run, when there is one.
LEMMA LimitGrow ==
    ASSUME Typed, LimitInv, scenario' = scenario, rejections' = rejections,
           NEW j \in Jobs, NEW s \in {"dispatching", "queued"},
           adm' = [adm EXCEPT ![j] = s], adm[j] # "none" \/ NewJob(j),
           s = "dispatching" => Cardinality(Active) < maxActive,
           s = "queued" => Cardinality(Queued) < maxQueued
    PROVE  LimitInv'
<1>1. adm \in [Jobs -> AdmStatus] BY DEF Typed, FilesTyped
<1>2. /\ Active' \subseteq IF s = "dispatching" THEN Active \cup {j} ELSE Active
      /\ Queued' \subseteq IF s = "queued" THEN Queued \cup {j} ELSE Queued
    BY <1>1 DEF Active, Queued, ActiveStatus
<1>3. Active \subseteq Jobs /\ Queued \subseteq Jobs BY DEF Active, Queued
<1>4. IsFiniteSet(Active) /\ IsFiniteSet(Queued) BY <1>3, SupervisorAssumption, FS_Subset
<1>5. /\ Cardinality(Active) \in Nat /\ Cardinality(Queued) \in Nat
      /\ Cardinality(Active \cup {j}) <= Cardinality(Active) + 1
      /\ Cardinality(Queued \cup {j}) <= Cardinality(Queued) + 1
      /\ IsFiniteSet(Active \cup {j}) /\ IsFiniteSet(Queued \cup {j})
    <2>1. Cardinality(Active) \in Nat /\ Cardinality(Queued) \in Nat
        BY <1>4, FS_CardinalityType
    <2>2. /\ IsFiniteSet(Active \cup {j})
          /\ Cardinality(Active \cup {j}) = Cardinality(Active) \/ Cardinality(Active \cup {j}) = Cardinality(Active) + 1
        BY <1>4, FS_AddElement
    <2>3. /\ IsFiniteSet(Queued \cup {j})
          /\ Cardinality(Queued \cup {j}) = Cardinality(Queued) \/ Cardinality(Queued \cup {j}) = Cardinality(Queued) + 1
        BY <1>4, FS_AddElement
    <2>4. QED BY <2>1, <2>2, <2>3
<1>6. maxActive \in Nat /\ maxQueued \in Nat
    BY SupervisorAssumption DEF Typed, FilesTyped, ScenarioType, maxActive, maxQueued
<1>7. maxActive' = maxActive /\ maxQueued' = maxQueued /\ runOf' = runOf
    BY DEF maxActive, maxQueued, runOf
<1>8. Cardinality(Active') <= maxActive
    <2>1. CASE s = "dispatching"
        <3>1. Active' \subseteq Active \cup {j} BY <1>2, <2>1
        <3>2. /\ Cardinality(Active') <= Cardinality(Active \cup {j})
              /\ Cardinality(Active') \in Nat /\ Cardinality(Active \cup {j}) \in Nat
            BY <1>5, <3>1, FS_Subset, FS_CardinalityType
        <3>3. QED BY <1>5, <1>6, <2>1, <3>2
    <2>2. CASE s # "dispatching"
        <3>1. Active' \subseteq Active BY <1>2, <2>2
        <3>2. Cardinality(Active') <= Cardinality(Active) /\ Cardinality(Active') \in Nat
            BY <1>4, <3>1, FS_Subset, FS_CardinalityType
        <3>3. QED BY <1>5, <1>6, <3>2 DEF LimitInv
    <2>3. QED BY <2>1, <2>2
<1>9. Cardinality(Queued') <= maxQueued
    <2>1. CASE s = "queued"
        <3>1. Queued' \subseteq Queued \cup {j} BY <1>2, <2>1
        <3>2. /\ Cardinality(Queued') <= Cardinality(Queued \cup {j})
              /\ Cardinality(Queued') \in Nat /\ Cardinality(Queued \cup {j}) \in Nat
            BY <1>5, <3>1, FS_Subset, FS_CardinalityType
        <3>3. QED BY <1>5, <1>6, <2>1, <3>2
    <2>2. CASE s # "queued"
        <3>1. Queued' \subseteq Queued BY <1>2, <2>2
        <3>2. Cardinality(Queued') <= Cardinality(Queued) /\ Cardinality(Queued') \in Nat
            BY <1>4, <3>1, FS_Subset, FS_CardinalityType
        <3>3. QED BY <1>5, <1>6, <3>2 DEF LimitInv
    <2>3. QED BY <2>1, <2>2
<1>10. \A i, k \in Jobs : adm'[i] # "none" /\ adm'[k] # "none" /\ i # k => runOf[i] # runOf[k]
    BY <1>1 DEF LimitInv, NewJob
<1>11. \A i \in rejections : adm'[i] = "none" BY <1>1 DEF LimitInv, NewJob
<1>12. QED BY <1>7, <1>8, <1>9, <1>10, <1>11 DEF LimitInv

\* The ledger a first daemon finds is within its limits.
LEMMA InitLimit == ASSUME Init PROVE LimitInv
<1> DEFINE s == scenario
<1>1. /\ s \in ScenarioType /\ Cardinality(s.busy \ s.legacy) <= s.maxActive
      /\ (s.legacy # {} => s.queued = {}) /\ Cardinality(s.queued) <= s.maxQueued
      /\ s.busy \cap s.queued = {}
      /\ \A j, k \in s.busy \cup s.queued : s.runOf[j] = s.runOf[k] => j = k
    BY SupervisorAssumption DEF Init
<1>2. s.busy \subseteq Jobs /\ s.queued \subseteq Jobs BY <1>1 DEF ScenarioType
<1>3. \A j \in Jobs : adm[j] = IF j \in s.legacy THEN "none" ELSE IF j \in s.busy THEN "accepted"
                               ELSE IF j \in s.queued THEN "queued" ELSE "none"
    BY DEF Init
<1>4. Active = s.busy \ s.legacy BY <1>2, <1>3 DEF Active, ActiveStatus
<1>5. Queued = s.queued BY <1>1, <1>2, <1>3 DEF Queued
<1>6. \A j, k \in Jobs : adm[j] # "none" /\ adm[k] # "none" /\ j # k => runOf[j] # runOf[k]
    BY <1>1, <1>3 DEF runOf
<1>7. rejections = {} BY DEF Init
<1>8. QED BY <1>1, <1>4, <1>5, <1>6, <1>7 DEF LimitInv, maxActive, maxQueued

\* Every step keeps the limits: a submission appends what it classified in its
\* own section, the reconciler dispatches when there is room and reserves for
\* legacy workers only when there is room for all of them.
LEMMA StepLimit == ASSUME CoreInv, LimitInv, [Next]_vars PROVE LimitInv'
<1>1. Typed /\ Typed' /\ CanInv /\ RecInv /\ LockInv BY StepTyped DEF CoreInv
<1>2. scenario' = scenario BY <1>1, StepScenario
<1>3. adm \in [Jobs -> AdmStatus] /\ rejections \subseteq Jobs BY <1>1 DEF Typed, FilesTyped
<1>a. ASSUME \A k \in Jobs : /\ adm'[k] \in ActiveStatus => adm[k] \in ActiveStatus
                             /\ adm'[k] = "queued" => adm[k] = "queued"
                             /\ adm'[k] # "none" => adm[k] # "none",
             rejections' \subseteq rejections
      PROVE  LimitInv'
    BY <1>1, <1>2, <1>3, <1>a, LimitShrink
<1>b. ASSUME adm' = adm, rejections' \subseteq rejections PROVE LimitInv'
    BY <1>a, <1>b
<1>4. ASSUME NEW j \in Jobs, SubStep(j) PROVE LimitInv'
    <2>1. CASE SubAccept(j)
        BY <1>3, <1>a, <2>1 DEF SubAccept, RecordWorkerAccepted, ActiveStatus
    <2>2. CASE AdmitRejected(j) \/ CommitRejection(j)
        BY <1>b, <2>2 DEF AdmitRejected, CommitRejection
    <2>3. CASE AdmitDecide(j)
        <3>1. adm' = adm BY <2>3 DEF AdmitDecide
        <3>2. \A k \in rejections' : k \in Jobs /\ (k \in rejections \/ adm[k] = "none")
            BY <1>3, <2>3 DEF AdmitDecide
        <3>3. QED BY <1>1, <1>2, <3>1, <3>2, LimitShrink
    <2>4. CASE AdmitAppend(j)
        <3>1. NewJob(j) /\ ClassifyNewAdmission # "reject" BY <2>4 DEF AdmitAppend, CoreInv, SubInv
        <3>2. rejections' = rejections BY <2>4 DEF AdmitAppend
        <3>3. CASE ClassifyNewAdmission = "dispatch"
            <4>1. adm' = [adm EXCEPT ![j] = "dispatching"] /\ Cardinality(Active) < maxActive
                BY <2>4, <3>3 DEF AdmitAppend, ClassifyNewAdmission
            <4>2. QED BY <1>1, <1>2, <3>1, <3>2, <4>1, LimitGrow
        <3>4. CASE ClassifyNewAdmission # "dispatch"
            <4>1. adm' = [adm EXCEPT ![j] = "queued"] /\ Cardinality(Queued) < maxQueued
                BY <2>4, <3>1, <3>4 DEF AdmitAppend, ClassifyNewAdmission
            <4>2. QED BY <1>1, <1>2, <3>1, <3>2, <4>1, LimitGrow
        <3>5. QED BY <3>3, <3>4
    <2>5. CASE adm' = adm /\ rejections' = rejections BY <1>b, <2>5
    <2>6. QED
        BY <1>4, <2>1, <2>2, <2>3, <2>4, <2>5
        DEF SubStep, Look, TryAccepted, AdmitRefused, SubIdentified, SubUnidentified, SubCheck,
            SubWrite, AdmitReplay, durable
<1>5. ASSUME NEW j \in Jobs, LauStep(j) PROVE LimitInv'
    <2>1. LauFrame(j) BY <1>1, <1>5, LauFrames
    <2>2. rejections' = rejections BY <2>1 DEF LauFrame, LauOther
    <2>3. \A k \in Jobs : \/ adm'[k] = adm[k]
                          \/ adm[k] \in ActiveStatus /\ adm'[k] \in ActiveStatus
        BY <1>3, <1>5 DEF LauStep, LaunchClaim, Spawn, Poll, LaunchTry, LaunchIdentified,
           LaunchUnidentified, LaunchAccept, LaunchUncertain, LaunchJournal, RecordWorkerAccepted,
           RecordJobUncertain, ActiveStatus
    <2>4. QED BY <1>a, <2>2, <2>3 DEF ActiveStatus
<1>6. CASE RecStep
    <2>1. CASE RecRelease
        <3>1. rec.job \in Jobs BY <1>1, <2>1 DEF RecRelease, RecInv
        <3>2. QED BY <1>3, <1>a, <2>1, <3>1 DEF RecRelease, ActiveStatus
    <2>2. CASE RecAccept BY <1>3, <1>a, <2>2 DEF RecAccept, RecordWorkerAccepted, ActiveStatus
    <2>3. CASE RecUncertain BY <1>3, <1>a, <2>3 DEF RecUncertain, RecordJobUncertain, ActiveStatus
    <2>4. CASE Tick
        <3>1. rejections' \subseteq rejections BY <2>4, ReconcileParts DEF Tick
        <3>2. QED BY <1>b, <2>4, <3>1 DEF Tick
    <2>5. ASSUME NEW j \in Jobs, RecLegacy(j) PROVE LimitInv'
        <3>1. rejections' = rejections BY <2>5 DEF RecLegacy
        <3>2. CASE adm' = adm BY <1>b, <3>1, <3>2
        <3>3. CASE /\ j \in rec.legacy \ rec.final /\ NewJob(j)
                   /\ Cardinality(rec.legacy \ rec.final) <= maxActive - Cardinality(Active)
                   /\ adm' = [adm EXCEPT ![j] = "dispatching"]
            <4>1. rec.legacy \ rec.final \subseteq Jobs /\ Active \subseteq Jobs
                BY <1>1 DEF Typed, HandlersTyped, RecLocals, Active
            <4>2. IsFiniteSet(rec.legacy \ rec.final) /\ IsFiniteSet(Active)
                BY <4>1, SupervisorAssumption, FS_Subset
            <4>3. Cardinality(rec.legacy \ rec.final) \in Nat /\ Cardinality(Active) \in Nat
                BY <4>2, FS_CardinalityType
            <4>4. Cardinality(rec.legacy \ rec.final) # 0 BY <3>3, <4>2, FS_EmptySet
            <4>5. maxActive \in Nat
                BY <1>1, SupervisorAssumption DEF Typed, FilesTyped, ScenarioType, maxActive
            <4>6. Cardinality(Active) < maxActive BY <3>3, <4>3, <4>4, <4>5
            <4>7. QED BY <1>1, <1>2, <3>1, <3>3, <4>6, LimitGrow
        <3>4. QED BY <2>5, <3>2, <3>3 DEF RecLegacy
    <2>6. ASSUME NEW j \in Jobs, RecDispatch(j) PROVE LimitInv'
        <3>1. /\ adm' = [adm EXCEPT ![j] = "dispatching"] /\ adm[j] = "queued"
              /\ Cardinality(Active) < maxActive /\ rejections' = rejections
            BY <2>6 DEF RecDispatch, QueueReady, OldestQueued, Queued
        <3>2. QED BY <1>1, <1>2, <3>1, LimitGrow
    <2>7. CASE adm' = adm /\ rejections' = rejections BY <1>b, <2>7
    <2>8. QED
        BY <1>6, <2>1, <2>2, <2>3, <2>4, <2>5, <2>6, <2>7
        DEF RecStep, RecLeave, RecIdentify, RecCheck, RecWrite, Listen, RecFatal, RecDropClaim, RecNext
<1>7. ASSUME NEW p \in Procs, WorkerStep(p) \/ StatusAdopt(p) \/ Kill(p) PROVE LimitInv'
    BY <1>1, <1>7, <1>b, WorkerFrames DEF WorkerFrame
<1>8. ASSUME NEW r \in Runs, CanStep(r) \/ Cancel(r) PROVE LimitInv'
    <2>1. rejections' = rejections BY <1>1, <1>8, CanFrames DEF CanFrame, CanKept
    <2>2. CASE CancelSection(r)
        BY <1>3, <1>a, <2>1, <2>2 DEF CancelSection, AdmittedFor, ActiveStatus
    <2>3. CASE CancelDrop(r)
        BY <1>1, <1>3, <1>a, <2>1, <2>3 DEF CancelDrop, CanInv, CanSection, ActiveStatus
    <2>4. CASE CancelFinalize(r)
        BY <1>3, <1>a, <2>1, <2>4 DEF CancelFinalize, ActiveStatus
    <2>5. CASE adm' = adm BY <1>b, <2>1, <2>5
    <2>6. QED
        BY <1>8, <2>2, <2>3, <2>4, <2>5
        DEF CanStep, Cancel, CancelReject, CancelComplete, CancelLedger, CancelActive, CancelRequest,
            CancelResponse
<1>9. CASE Restart
    <2>1. rejections' \subseteq rejections BY <1>9, ReconcileParts DEF Restart
    <2>2. QED BY <1>9, <1>b, <2>1 DEF Restart
<1>10. CASE Shutdown \/ Exit \/ Crash BY <1>10, <1>b DEF Shutdown, Exit, Crash, durable
<1>11. ASSUME NEW j \in Jobs, Submit(j) \/ Lose(j) PROVE LimitInv'
    BY <1>11, <1>b DEF Submit, Lose
<1>12. CASE UNCHANGED vars BY <1>12, <1>b DEF vars, durable
<1>13. QED
    BY <1>4, <1>5, <1>6, <1>7, <1>8, <1>9, <1>10, <1>11, <1>12 DEF Next, Progress

-----------------------------------------------------------------------------
(* Capacity stays with live workers.                                       *)

\* Legacy workers are found by their claims, one per run.
LEMMA InitReserved == ASSUME Init PROVE ReservedInv
<1> DEFINE s == scenario
<1>1. /\ s \in ScenarioType /\ (s.legacy # {} => s.legacy = s.busy /\ s.queued = {})
      /\ \A j, k \in s.busy \cup s.queued : s.runOf[j] = s.runOf[k] => j = k
    BY SupervisorAssumption DEF Init
<1>2. s.busy \subseteq Jobs /\ s.queued \subseteq Jobs BY <1>1 DEF ScenarioType
<1>3. \A j \in Jobs : adm[j] = IF j \in s.legacy THEN "none" ELSE IF j \in s.busy THEN "accepted"
                               ELSE IF j \in s.queued THEN "queued" ELSE "none"
    BY DEF Init
<1>4. \A j \in Jobs : \/ j \in s.busy /\ desc[j] = "running"
                      \/ j \notin s.busy /\ desc[j] = "none" /\ owner[j] = 0
    BY DEF Init
<1>5. \A j \in Jobs : desc[j] \in Live => adm[j] \in ActiveStatus \/ Unmet(j)
    BY <1>3, <1>4 DEF Live, Unmet, ActiveStatus
<1>6. ASSUME NEW j \in Jobs, Unmet(j)
      PROVE  /\ daemon = "down" /\ claim[runOf[j]] = j
             /\ \A k \in Jobs \ {j} : runOf[k] = runOf[j] => adm[k] = "none" /\ owner[k] = 0
             /\ Queued = {}
    <2>1. j \in s.busy /\ s.legacy = s.busy /\ s.queued = {} /\ s.legacy # {}
        BY <1>1, <1>6 DEF Unmet
    <2>2. daemon = "down" BY <2>1 DEF Init
    <2>3. runOf[j] \in Runs BY InitTyped, RunTyped
    <2>4. claim[runOf[j]] = j
        <3>1. claim[runOf[j]] = CHOOSE k \in s.busy : runOf[k] = runOf[j]
            BY <2>1, <2>3 DEF Init
        <3>2. (CHOOSE k \in s.busy : runOf[k] = runOf[j]) \in s.busy
              /\ runOf[CHOOSE k \in s.busy : runOf[k] = runOf[j]] = runOf[j]
            BY <2>1
        <3>3. QED BY <1>1, <2>1, <3>1, <3>2 DEF runOf
    <2>5. \A k \in Jobs \ {j} : runOf[k] = runOf[j] => adm[k] = "none" /\ owner[k] = 0
        BY <1>1, <1>3, <1>4, <2>1 DEF runOf
    <2>6. Queued = {} BY <1>3, <2>1 DEF Queued
    <2>7. QED BY <2>2, <2>4, <2>5, <2>6
<1>7. QED BY <1>5, <1>6 DEF ReservedInv

\* While a legacy worker is unmet, only the reconciler at start, workers and
\* the daemon's own life go on.
LEMMA UnmetSteps ==
    ASSUME CoreInv, ReservedInv, [Next]_vars, NEW j \in Jobs, Unmet(j)
    PROVE  \/ UNCHANGED vars \/ Restart \/ Crash \/ (daemon = "starting" /\ RecFatal)
           \/ \E i \in Jobs : daemon = "starting" /\ RecLegacy(i)
           \/ \E p \in Procs : WorkerStep(p) \/ Kill(p)
<1>1. Typed /\ LifeInv /\ RecInv BY DEF CoreInv
<1>2. /\ daemon \in {"down", "starting"}
      /\ daemon = "starting" => rec.pc = "fatal" \/ j \in rec.legacy
    BY DEF ReservedInv
<1>3. /\ \A i \in Jobs : sub[i].pc = "idle" /\ lau[i].pc = "idle"
      /\ \A r \in Runs : can[r].pc = "idle"
      /\ rec.pc \in {"idle", "section", "fatal"}
      /\ rec.pc = "section" => j \in rec.legacy /\ daemon = "starting"
      /\ rec.pc = "idle" => daemon = "down"
      /\ rec.pc = "fatal" => daemon = "starting"
    BY <1>1, <1>2 DEF LifeInv, RecInv
<1>4. ~Serving BY <1>2 DEF Serving
<1>5. \A i \in Jobs : ~SubStep(i)
    BY <1>1, <1>3, SubFrames DEF SubFrame
<1>6. \A i \in Jobs : ~LauStep(i)
    BY <1>1, <1>3, LauFrames DEF LauFrame
<1>7. \A r \in Runs : ~CanStep(r) /\ ~Cancel(r)
    BY <1>1, <1>3, <1>4, CanFrames DEF CanFrame
<1>8. \A i \in Jobs : ~Submit(i) BY <1>4 DEF Submit
<1>9. \A i \in Jobs : ~Lose(i)
    BY <1>1, <1>3, RunTyped DEF Lose
<1>10. \A p \in Procs : ~StatusAdopt(p) BY <1>4 DEF StatusAdopt
<1>11. ~Shutdown BY <1>4 DEF Shutdown
<1>12. ~Exit BY <1>2 DEF Exit
<1>13. ASSUME RecStep PROVE daemon = "starting" /\ (RecFatal \/ \E i \in Jobs : RecLegacy(i))
    <2>1. ~Tick /\ ~RecRelease /\ ~RecLeave /\ ~RecIdentify /\ ~RecAccept /\ ~RecUncertain
          /\ ~RecCheck /\ ~RecWrite /\ ~Listen
        BY <1>3, <1>4 DEF Tick, RecRelease, RecLeave, RecIdentify, RecAccept, RecUncertain,
           RecCheck, RecWrite, Listen
    <2>2. \A i \in Jobs : ~RecDropClaim(i) /\ ~RecDispatch(i) /\ ~RecNext(i)
        BY <1>3 DEF RecDropClaim, RecDispatch, RecNext
    <2>3. RecFatal \/ \E i \in Jobs : RecLegacy(i) BY <1>13, <2>1, <2>2 DEF RecStep
    <2>4. QED BY <1>3, <2>3 DEF RecFatal, RecLegacy
<1>14. QED
    BY <1>5, <1>6, <1>7, <1>8, <1>9, <1>10, <1>11, <1>12, <1>13 DEF Next, Progress

\* Every step keeps the reservation of live workers: a first publication is of
\* a job with capacity, only ended jobs are released, and a starting daemon
\* reserves for the unmet workers or fails.
LEMMA StepReserved == ASSUME CoreInv, ReservedInv, [Next]_vars PROVE ReservedInv'
<1>1. Typed /\ Typed' /\ LifeInv /\ RecInv /\ WorkerInv /\ BegunInv BY StepTyped DEF CoreInv
<1>2. scenario' = scenario /\ runOf' = runOf BY <1>1, StepScenario
<1>3. Published0 BY <1>1, StepWorker
<1>4. ASSUME NEW j \in Jobs, desc'[j] \in Live PROVE adm'[j] \in ActiveStatus \/ Unmet(j)
    <2>1. CASE desc[j] \in Live /\ adm[j] \notin ActiveStatus BY <2>1 DEF ReservedInv
    <2>2. CASE desc[j] \in Live /\ adm[j] \in ActiveStatus
        <3>1. desc[j] \notin FinalDesc BY <2>2 DEF Live, FinalDesc
        <3>2. CASE Moves(j) BY <2>2, <3>1, <3>2 DEF Moves, AdmMove, ActiveStatus
        <3>3. CASE SubStep(j)
            <4>1. CASE SubAccept(j)
                BY <1>1, <2>2, <4>1 DEF SubAccept, RecordWorkerAccepted, ActiveStatus, Typed, FilesTyped
            <4>2. CASE AdmitAppend(j)
                BY <2>2, <4>2 DEF AdmitAppend, CoreInv, SubInv, NewJob, ActiveStatus
            <4>3. CASE adm' = adm BY <2>2, <4>3
            <4>4. QED
                BY <3>3, <4>1, <4>2, <4>3
                DEF SubStep, Look, TryAccepted, AdmitRefused, SubIdentified, SubUnidentified,
                    SubCheck, SubWrite, AdmitReplay, AdmitRejected, AdmitDecide, CommitRejection, durable
        <3>4. CASE Submit(j) BY <2>2, <3>4 DEF Submit
        <3>5. QED BY <3>2, <3>3, <3>4, StepMoves
    <2>3. CASE desc[j] \notin Live
        <3>1. owner'[j] # owner[j] /\ owner[j] = 0 BY <1>3, <1>4, <2>3 DEF Published0, Live
        <3>2. Begun(j) BY <1>1, <1>3, <3>1 DEF Published0, BegunInv
        <3>3. adm[j] \in ActiveStatus BY <3>1, <3>2 DEF Begun
        <3>4. ~SubStep(j) /\ ~Submit(j)
            <4>1. SubStep(j) => owner' = owner BY <1>1, SubFrames DEF SubFrame, workers
            <4>2. Submit(j) => owner' = owner BY DEF Submit, workers
            <4>3. QED BY <3>1, <4>1, <4>2
        <3>5. OwnerMove(j) BY <3>4, StepMoves DEF Moves
        <3>6. QED BY <3>1, <3>3, <3>5 DEF OwnerMove
    <2>4. QED BY <2>1, <2>2, <2>3
<1>5. ASSUME NEW j \in Jobs, Unmet(j), Unmet(j)'
      PROVE  /\ daemon' \in {"down", "starting"}
             /\ daemon' = "starting" => rec'.pc = "fatal" \/ j \in rec'.legacy
             /\ claim'[runOf[j]] = j
             /\ \A k \in Jobs \ {j} : runOf[k] = runOf[j] => adm'[k] = "none" /\ owner'[k] = 0
             /\ Queued' = {}
    <2>1. /\ daemon \in {"down", "starting"}
          /\ daemon = "starting" => rec.pc = "fatal" \/ j \in rec.legacy
          /\ claim[runOf[j]] = j
          /\ \A k \in Jobs \ {j} : runOf[k] = runOf[j] => adm[k] = "none" /\ owner[k] = 0
          /\ Queued = {}
        BY <1>5 DEF ReservedInv
    <2>2. runOf[j] \in Runs /\ claim \in [Runs -> Jobs \cup {NoJob}] /\ adm \in [Jobs -> AdmStatus]
        BY <1>1, RunTyped DEF Typed, FilesTyped
    <2>3. desc[j] \notin FinalDesc BY <1>5 DEF Unmet, Live, FinalDesc
    <2>4. CASE UNCHANGED vars
        BY <2>1, <2>4 DEF vars, durable, workers, handlers, Queued
    <2>5. CASE Restart
        <3>1. /\ daemon' = "starting" /\ claim' = claim /\ adm' = adm /\ owner' = owner /\ Reconcile
            BY <2>5 DEF Restart, RecOther, workers
        <3>2. j \in LegacyClaims BY <1>5, <2>1 DEF LegacyClaims, Unmet
        <3>3. rec'.pc = "fatal" \/ j \in rec'.legacy BY <3>1, <3>2, ReconcileParts
        <3>4. QED BY <2>1, <3>1, <3>3 DEF Queued
    <2>6. CASE Crash \/ (daemon = "starting" /\ RecFatal)
        BY <2>1, <2>6 DEF Crash, RecFatal, RecOther, durable, workers, Queued
    <2>7. ASSUME NEW i \in Jobs, daemon = "starting", RecLegacy(i)
          PROVE  /\ daemon' = "starting" /\ (rec'.pc = "fatal" \/ j \in rec'.legacy)
                 /\ claim'[runOf[j]] = j
                 /\ \A k \in Jobs \ {j} : runOf[k] = runOf[j] => adm'[k] = "none" /\ owner'[k] = 0
                 /\ Queued' = {}
        <3>1. rec.pc = "section" /\ i \in rec.legacy /\ daemon' = daemon /\ owner' = owner
            BY <2>7 DEF RecLegacy, RecOther, workers
        <3>2. rec \in RecLocals /\ j \in rec.legacy BY <1>1, <2>1, <2>7, <3>1 DEF Typed, HandlersTyped
        <3>3. Begun(i) BY <1>1, <3>1 DEF BegunInv
        <3>4. runOf[i] = runOf[j] => i = j
            BY <2>1, <3>3 DEF Begun, ActiveStatus
        <3>5. j \notin rec.final BY <1>1, <2>3 DEF RecInv
        <3>6. CASE i \in rec.final
            <4>1. /\ claim' = [claim EXCEPT ![runOf[i]] = NoJob] /\ adm' = adm
                  /\ rec' = [rec EXCEPT !.legacy = @ \ {i}]
                BY <2>7, <3>6 DEF RecLegacy
            <4>2. i # j BY <3>5, <3>6
            <4>3. j \in rec'.legacy BY <3>2, <4>1, <4>2 DEF RecLocals
            <4>4. claim'[runOf[j]] = j BY <2>1, <2>2, <3>4, <4>1, <4>2
            <4>5. QED BY <2>1, <2>7, <3>1, <4>1, <4>3, <4>4 DEF Queued
        <3>7. CASE i \notin rec.final /\ adm' # adm
            <4>1. /\ claim' = claim /\ adm' = [adm EXCEPT ![i] = "dispatching"]
                  /\ rec' = [rec EXCEPT !.legacy = @ \ {i}]
                BY <2>7, <3>7 DEF RecLegacy
            <4>2. i # j BY <1>5, <2>2, <4>1 DEF Unmet
            <4>3. j \in rec'.legacy BY <3>2, <4>1, <4>2 DEF RecLocals
            <4>4. \A k \in Jobs \ {j} : runOf[k] = runOf[j] => adm'[k] = "none"
                BY <2>1, <2>2, <3>4, <4>1, <4>2
            <4>5. Queued' = {} BY <2>1, <2>2, <4>1 DEF Queued
            <4>6. QED BY <2>1, <2>7, <3>1, <4>1, <4>3, <4>4, <4>5
        <3>8. CASE i \notin rec.final /\ adm' = adm
            <4>1. claim' = claim /\ (RecGoto("fatal") \/ rec' = [rec EXCEPT !.legacy = @ \ {i}])
                BY <2>7, <3>8 DEF RecLegacy
            <4>2. CASE RecGoto("fatal")
                <5>1. rec'.pc = "fatal" BY <3>2, <4>2 DEF RecGoto, RecLocals
                <5>2. QED BY <2>1, <2>7, <3>1, <3>8, <4>1, <5>1 DEF Queued
            <4>3. CASE ~RecGoto("fatal")
                <5>1. adm' = [adm EXCEPT ![i] = "dispatching"] /\ NewJob(i)
                    BY <2>7, <3>8, <4>3 DEF RecLegacy
                <5>2. FALSE BY <2>2, <3>8, <5>1 DEF NewJob
                <5>3. QED BY <5>2
            <4>4. QED BY <4>2, <4>3
        <3>9. QED BY <3>6, <3>7, <3>8
    <2>8. ASSUME NEW p \in Procs, WorkerStep(p) \/ Kill(p)
          PROVE  /\ UNCHANGED <<daemon, rec, adm>>
                 /\ claim'[runOf[j]] = j
                 /\ \A k \in Jobs \ {j} : runOf[k] = runOf[j] => owner'[k] = 0
        <3>1. WorkerFrame(p) BY <1>1, <2>8, WorkerFrames
        <3>2. PICK i \in Jobs, m \in 1 .. MaxSpawns : p = <<i, m>> BY DEF Procs
        <3>3. claim'[runOf[j]] = j
            <4>1. CASE claim' = claim BY <2>1, <4>1
            <4>2. CASE proc[p] = "releasing" /\ claim' = [claim EXCEPT ![runOf[i]] = NoJob]
                <5>1. m # 0 BY SupervisorAssumption
                <5>2. desc[i] \in FinalDesc /\ owner[i] = m
                    BY <1>1, <3>2, <4>2 DEF WorkerInv, Named
                <5>3. runOf[i] # runOf[j] BY <2>1, <2>3, <5>1, <5>2
                <5>4. QED BY <2>1, <2>2, <4>2, <5>3
            <4>3. QED BY <3>1, <3>2, <4>1, <4>2 DEF WorkerFrame
        <3>4. ASSUME NEW k \in Jobs \ {j}, runOf[k] = runOf[j] PROVE owner'[k] = 0
            <4>1. adm[k] = "none" /\ owner[k] = 0 BY <2>1, <3>4
            <4>2. ~Begun(k) BY <4>1 DEF Begun, ActiveStatus
            <4>3. owner'[k] = owner[k] BY <1>1, <1>3, <4>2 DEF Published0, BegunInv
            <4>4. QED BY <4>1, <4>3
        <3>5. QED BY <3>1, <3>3, <3>4 DEF WorkerFrame, handlers
    <2>9. CASE \E p \in Procs : WorkerStep(p) \/ Kill(p) BY <2>1, <2>8, <2>9 DEF Queued
    <2>10. QED BY <1>5, <2>1, <2>4, <2>5, <2>6, <2>7, <2>9, UnmetSteps
<1>6. ASSUME NEW j \in Jobs, Unmet(j)' PROVE Unmet(j)
    <2>1. desc'[j] \in Live /\ adm'[j] = "none" BY <1>6 DEF Unmet
    <2>2. QED BY <1>4, <2>1 DEF ActiveStatus
<1>7. ASSUME NEW j \in Jobs, desc'[j] \in Live, adm'[j] \notin ActiveStatus PROVE Unmet(j)'
    <2>1. Unmet(j) BY <1>4, <1>7
    <2>2. adm'[j] = "none"
        <3>1. adm[j] = "none" /\ ~Serving /\ sub[j].pc = "idle"
            BY <1>1, <2>1 DEF Unmet, ReservedInv, LifeInv, Serving
        <3>2. ~SubStep(j) /\ ~Submit(j) BY <1>1, <3>1, SubFrames DEF SubFrame, Submit
        <3>3. AdmMove(j) BY <3>2, StepMoves DEF Moves
        <3>4. QED BY <1>7, <3>1, <3>3 DEF AdmMove, ActiveStatus
    <2>3. QED BY <1>2, <1>7, <2>1, <2>2 DEF Unmet
<1>8. \A j \in Jobs : (desc[j] \in Live => adm[j] \in ActiveStatus \/ Unmet(j))'
    BY <1>7
<1>9. \A j \in Jobs : Unmet(j)' =>
         /\ daemon' \in {"down", "starting"}
         /\ daemon' = "starting" => rec'.pc = "fatal" \/ j \in rec'.legacy
         /\ claim'[runOf'[j]] = j
         /\ \A k \in Jobs \ {j} : runOf'[k] = runOf'[j] => adm'[k] = "none" /\ owner'[k] = 0
         /\ Queued' = {}
    BY <1>2, <1>5, <1>6
<1>10. QED BY <1>8, <1>9 DEF ReservedInv

-----------------------------------------------------------------------------
(* What the supervisor promises.                                           *)

\* The inductive invariant.
SupervisorInv == CoreInv /\ LimitInv /\ ReservedInv

\* Every reachable state satisfies it.
LEMMA Invariance == Spec => []SupervisorInv
<1>1. Init => SupervisorInv BY InitCore, InitLimit, InitReserved DEF SupervisorInv
<1>2. SupervisorInv /\ [Next]_vars => SupervisorInv'
    BY StepCore, StepLimit, StepReserved DEF SupervisorInv
<1>3. Spec => Init /\ [][Next]_vars BY DEF Spec
<1>4. QED BY <1>1, <1>2, <1>3, PTL

\* A job that rests has no process.
LEMMA RestingNeverSpawned ==
    ASSUME CoreInv, NEW j \in Jobs, Resting(j)
    PROVE  \A k \in 1 .. MaxSpawns : proc[<<j, k>>] = "none"
<1>1. ~Begun(j) BY DEF Resting, Begun, ActiveStatus
<1>2. QED BY <1>1 DEF CoreInv, BegunInv

\* Every variable keeps its type, and what the admission reducer refuses to hold
\* never arises (admission.ts finalizedState), for every policy: no more active
\* or queued jobs than allowed, one live job per run, no job that is also a
\* pending rejection.
THEOREM TypesAndLimits == Spec => []TypeOK
<1>1. SupervisorInv => TypeOK
    <2>1. CoreInv /\ LimitInv => TypeOK
        <3> SUFFICES ASSUME CoreInv, LimitInv PROVE TypeOK OBVIOUS
        <3>1. Typed /\ CanInv BY DEF CoreInv
        <3>2. /\ scenario \in Scenarios /\ budget \in [Faults -> Nat]
              /\ cmd \in [Jobs -> CommandStatus]
              /\ ccmd \in [Runs -> {"none", "recorded", "queued", "active", "uncertain"}]
              /\ snap \subseteq Jobs /\ rejections \subseteq Jobs /\ sock \subseteq Jobs
              /\ adm \in [Jobs -> {"none", "queued", "queue_cancelling"} \cup ActiveStatus]
              /\ claim \in [Runs -> Jobs \cup {NoJob}]
              /\ desc \in [Jobs -> {"none", "starting", "running"} \cup FinalDesc]
              /\ executed \subseteq Procs
            BY <3>1 DEF Typed, FilesTyped, ProcessesTyped, HandlersTyped, AdmStatus, DescStatus
        <3>3. abort \subseteq Procs BY <3>1 DEF CanInv
        <3>4. QED BY <3>2, <3>3 DEF TypeOK, LimitInv
    <2>2. QED BY <2>1 DEF SupervisorInv
<1>2. QED BY <1>1, Invariance, PTL

\* At most one worker process ever enters a job's workflow, and no two execute
\* one run at a time, however often the daemon is restarted and a job's worker
\* spawned again (worker.ts 183-186).
THEOREM ExecutesOnce == Spec => []OneExecution
<1>1. SupervisorInv => OneExecution
    <2> SUFFICES ASSUME CoreInv, LimitInv, ReservedInv PROVE OneExecution BY DEF SupervisorInv
    <2>1. Typed /\ WorkerInv BY DEF CoreInv
    <2>2. ASSUME NEW p \in executed, NEW q \in executed, p[1] = q[1] PROVE p = q
        <3>1. PICK i \in Jobs, a \in 1 .. MaxSpawns : p = <<i, a>>
            BY <2>1 DEF Typed, ProcessesTyped, Procs
        <3>2. PICK j \in Jobs, b \in 1 .. MaxSpawns : q = <<j, b>>
            BY <2>1 DEF Typed, ProcessesTyped, Procs
        <3>3. i = j /\ owner[i] = a /\ owner[j] = b BY <2>1, <2>2, <3>1, <3>2 DEF WorkerInv
        <3>4. QED BY <3>1, <3>2, <3>3
    <2>3. ASSUME NEW p \in Procs, NEW q \in Procs, proc[p] = "executing", proc[q] = "executing", p # q
          PROVE  runOf[p[1]] # runOf[q[1]]
        <3>1. PICK i \in Jobs, a \in 1 .. MaxSpawns : p = <<i, a>> BY DEF Procs
        <3>2. PICK j \in Jobs, b \in 1 .. MaxSpawns : q = <<j, b>> BY DEF Procs
        <3>3. a # 0 /\ b # 0 BY SupervisorAssumption
        <3>4. /\ owner[i] = a /\ owner[j] = b
              /\ desc[i] = "running" /\ desc[j] = "running"
            BY <2>1, <2>3, <3>1, <3>2 DEF WorkerInv, Named
        <3>5. i # j BY <2>3, <3>1, <3>2, <3>4
        <3>6. CASE Unmet(i) \/ Unmet(j) BY <3>3, <3>4, <3>5, <3>6, <3>1, <3>2 DEF ReservedInv
        <3>7. CASE ~Unmet(i) /\ ~Unmet(j)
            <4>1. adm[i] \in ActiveStatus /\ adm[j] \in ActiveStatus
                BY <3>4, <3>7 DEF ReservedInv, Live
            <4>2. adm[i] # "none" /\ adm[j] # "none" BY <4>1 DEF ActiveStatus
            <4>3. runOf[i] # runOf[j] BY <3>5, <4>2 DEF LimitInv
            <4>4. QED BY <3>1, <3>2, <4>3
        <3>8. QED BY <3>6, <3>7
    <2>4. QED BY <2>2, <2>3 DEF OneExecution
<1>2. QED BY <1>1, Invariance, PTL

\* Capacity is never given away under a live worker, and a daemon that serves
\* has reserved for every worker it did not start (service.ts 546-626).
THEOREM CapacityStays == Spec => []WorkerReserved
<1>1. SupervisorInv => WorkerReserved
    <2>1. ReservedInv => WorkerReserved
        BY DEF ReservedInv, WorkerReserved, Live, Unmet, Serving
    <2>2. QED BY <2>1 DEF SupervisorInv
<1>2. QED BY <1>1, Invariance, PTL

\* An accepted command has a published worker and a rejected one never spawned
\* any, in the journal and in what clients were told (service.ts 154-510).
THEOREM JournalsTellTheTruth == Spec => []JournalTruth
<1>1. SupervisorInv => JournalTruth
    <2> SUFFICES ASSUME CoreInv, NEW j \in Jobs
                 PROVE  /\ cmd[j] = "completed" \/ "accepted" \in told[j] => owner[j] # 0
                        /\ cmd[j] \in Rejected \/ told[j] \cap Rejected # {}
                           => \A k \in 1 .. MaxSpawns : proc[<<j, k>>] = "none"
        BY DEF SupervisorInv, JournalTruth
    <2>1. JobInv(j) BY DEF CoreInv
    <2>2. cmd[j] \in Rejected \/ told[j] \cap Rejected # {} => Resting(j)
        BY <2>1 DEF JobInv
    <2>3. QED BY <2>1, <2>2, RestingNeverSpawned DEF JobInv
<1>2. QED BY <1>1, Invariance, PTL

\* Retries of one command never get contradicting answers (service.ts 154-510).
THEOREM RetriesAgree == Spec => []AnswersAgree
<1>1. SupervisorInv => AnswersAgree
    <2> SUFFICES ASSUME CoreInv, NEW j \in Jobs
                 PROVE  /\ "accepted" \in told[j] => told[j] \cap Rejected = {}
                        /\ Cardinality(told[j] \cap Rejected) <= 1
                        /\ "queued" \in told[j] => "queue_full" \notin told[j]
                        /\ "conflict" \in told[j] => \E k \in Jobs \ {j} : runOf[k] = runOf[j]
        BY DEF SupervisorInv, AnswersAgree
    <2>1. JobInv(j) BY DEF CoreInv
    <2>2. told[j] \cap Rejected = {} \/ (told[j] \cap Rejected = {cmd[j]} /\ cmd[j] \in Rejected)
        BY <2>1 DEF JobInv
    <2>3. "accepted" \in told[j] => told[j] \cap Rejected = {}
        BY <2>1, <2>2 DEF JobInv, Resting
    <2>4. Cardinality(told[j] \cap Rejected) <= 1
        <3>1. CASE told[j] \cap Rejected = {} BY <3>1, FS_EmptySet
        <3>2. CASE told[j] \cap Rejected = {cmd[j]}
            <4>1. Cardinality({cmd[j]}) = 1 BY FS_Singleton
            <4>2. QED BY <3>2, <4>1
        <3>3. QED BY <2>2, <3>1, <3>2
    <2>5. "queued" \in told[j] => "queue_full" \notin told[j]
        BY <2>1, <2>2 DEF JobInv, Rejected
    <2>6. "conflict" \in told[j] => cmd[j] = "conflict" BY <2>2 DEF Rejected
    <2>7. QED BY <2>1, <2>3, <2>4, <2>5, <2>6 DEF JobInv, Shared
<1>2. QED BY <1>1, Invariance, PTL

\* A run whose cancellation completed in the queue never gets a worker, in
\* whatever order cancel, dispatch, retries and a restart take their steps.
THEOREM QueueCancellationHolds == Spec => []QueueCancelledNeverRuns
<1>1. SupervisorInv => QueueCancelledNeverRuns
    <2> SUFFICES ASSUME CoreInv, NEW j \in Jobs, ccmd[runOf[j]] = "queued",
                        \A k \in Jobs \ {j} : runOf[k] # runOf[j]
                 PROVE  \A k \in 1 .. MaxSpawns : proc[<<j, k>>] = "none"
        BY DEF SupervisorInv, QueueCancelledNeverRuns
    <2>1. JobInv(j) /\ ~Shared(j) BY DEF CoreInv, Shared
    <2>2. Resting(j) BY <2>1 DEF JobInv
    <2>3. QED BY <2>2, RestingNeverSpawned
<1>2. QED BY <1>1, Invariance, PTL

-----------------------------------------------------------------------------
(* Dispatch is first in, first out.                                        *)

\* A release that finds the claim of another job: a worker's late rename took
\* the job's own claim away and a late launch of the other one took its place.
\* The reconciler fails in the middle of its section, with capacity it has
\* released and not handed out.
ClaimLost == \E j \in Jobs : RecDropClaim(j) /\ claim[runOf[j]] \notin {NoJob, j}

\* A release and the append of a submission apart, a step frees no capacity and
\* queues nothing; only a reservation and a dispatch of the reconciler give any.
LEMMA AdmSteps ==
    ASSUME CoreInv, [Next]_vars, ~RecRelease, \A j \in Jobs : ~AdmitAppend(j)
    PROVE  /\ \A k \in Jobs : /\ adm[k] \in ActiveStatus => adm'[k] \in ActiveStatus
                              /\ adm'[k] = "queued" => adm[k] = "queued"
                              /\ adm[k] \notin ActiveStatus /\ adm'[k] = "dispatching"
                                 => RecLegacy(k) \/ RecDispatch(k)
           /\ ticket' = ticket
           /\ lastTicket' = lastTicket \/ \A k \in Jobs : adm'[k] = "none"
<1> DEFINE P == /\ \A k \in Jobs : /\ adm[k] \in ActiveStatus => adm'[k] \in ActiveStatus
                                   /\ adm'[k] = "queued" => adm[k] = "queued"
                                   /\ adm[k] \notin ActiveStatus /\ adm'[k] = "dispatching"
                                      => RecLegacy(k) \/ RecDispatch(k)
                /\ ticket' = ticket
                /\ lastTicket' = lastTicket \/ \A k \in Jobs : adm'[k] = "none"
<1>1. Typed /\ CanInv BY DEF CoreInv
<1>2. adm \in [Jobs -> AdmStatus] BY <1>1 DEF Typed, FilesTyped
<1>a. ASSUME UNCHANGED <<ticket, lastTicket>>,
             \A k \in Jobs : \/ adm'[k] = adm[k]
                             \/ adm[k] \in ActiveStatus /\ adm'[k] \in ActiveStatus
                             \/ /\ adm[k] \notin ActiveStatus
                                /\ adm'[k] \notin ActiveStatus \cup {"queued"}
      PROVE  P
    <2>1. "dispatching" \in ActiveStatus /\ "queued" \notin ActiveStatus BY DEF ActiveStatus
    <2>2. \A k \in Jobs : /\ adm[k] \in ActiveStatus => adm'[k] \in ActiveStatus
                          /\ adm'[k] = "queued" => adm[k] = "queued"
                          /\ ~(adm[k] \notin ActiveStatus /\ adm'[k] = "dispatching")
        BY <1>a, <2>1
    <2>3. QED BY <1>a, <2>2
<1>b. ASSUME UNCHANGED <<adm, ticket, lastTicket>> PROVE P BY <1>a, <1>b
<1> HIDE DEF P
<1>3. ASSUME NEW j \in Jobs, SubStep(j) PROVE P
    <2>1. CASE SubAccept(j)
        BY <1>2, <1>a, <2>1 DEF SubAccept, RecordWorkerAccepted, ActiveStatus
    <2>2. QED
        BY <1>3, <1>b, <2>1
        DEF SubStep, Look, TryAccepted, AdmitRefused, SubIdentified, SubUnidentified, SubCheck,
            SubWrite, AdmitReplay, AdmitRejected, AdmitDecide, CommitRejection, durable
<1>4. ASSUME NEW j \in Jobs, LauStep(j) PROVE P
    <2>1. UNCHANGED <<ticket, lastTicket>>
        BY <1>1, <1>4, LauFrames DEF LauFrame, LauOther
    <2>2. \A k \in Jobs : \/ adm'[k] = adm[k]
                          \/ adm[k] \in ActiveStatus /\ adm'[k] \in ActiveStatus
        BY <1>2, <1>4 DEF LauStep, LaunchClaim, Spawn, Poll, LaunchTry, LaunchIdentified,
           LaunchUnidentified, LaunchAccept, LaunchUncertain, LaunchJournal, RecordWorkerAccepted,
           RecordJobUncertain, ActiveStatus
    <2>3. QED BY <1>a, <2>1, <2>2
<1>5. ASSUME RecStep PROVE P
    <2>1. UNCHANGED <<ticket, lastTicket>> BY <1>1, <1>5, RecFrames DEF RecFrame, RecOther
    <2>2. CASE RecAccept BY <1>2, <1>a, <2>1, <2>2 DEF RecAccept, RecordWorkerAccepted, ActiveStatus
    <2>3. CASE RecUncertain
        BY <1>2, <1>a, <2>1, <2>3 DEF RecUncertain, RecordJobUncertain, ActiveStatus
    <2>4. ASSUME NEW j \in Jobs, RecLegacy(j) \/ RecDispatch(j) PROVE P
        <3>1. adm' = adm \/ adm' = [adm EXCEPT ![j] = "dispatching"]
            BY <2>4 DEF RecLegacy, RecDispatch
        <3>2. \A k \in Jobs : /\ adm[k] \in ActiveStatus => adm'[k] \in ActiveStatus
                              /\ adm'[k] = "queued" => adm[k] = "queued"
                              /\ adm[k] \notin ActiveStatus /\ adm'[k] = "dispatching" => k = j
            BY <1>2, <3>1 DEF ActiveStatus
        <3>3. QED BY <2>1, <2>4, <3>2 DEF P
    <2>5. CASE adm' = adm BY <1>b, <2>1, <2>5
    <2>6. QED
        BY <1>5, <2>2, <2>3, <2>4, <2>5
        DEF RecStep, Tick, RecLeave, RecIdentify, RecCheck, RecWrite, Listen, RecFatal, RecDropClaim,
            RecNext
<1>6. ASSUME NEW p \in Procs, WorkerStep(p) \/ StatusAdopt(p) \/ Kill(p) PROVE P
    BY <1>1, <1>6, <1>b, WorkerFrames DEF WorkerFrame
<1>7. ASSUME NEW r \in Runs, CanStep(r) \/ Cancel(r) PROVE P
    <2>1. UNCHANGED <<ticket, lastTicket>> BY <1>1, <1>7, CanFrames DEF CanFrame, CanKept
    <2>2. CASE CancelSection(r)
        BY <1>2, <1>a, <2>1, <2>2 DEF CancelSection, AdmittedFor, Cancellable, ActiveStatus
    <2>3. CASE CancelDrop(r)
        BY <1>1, <1>2, <1>a, <2>1, <2>3 DEF CancelDrop, CanInv, CanSection, ActiveStatus
    <2>4. CASE CancelFinalize(r)
        BY <1>2, <1>a, <2>1, <2>4 DEF CancelFinalize, ActiveStatus
    <2>5. CASE adm' = adm BY <1>b, <2>1, <2>5
    <2>6. QED
        BY <1>7, <2>2, <2>3, <2>4, <2>5
        DEF CanStep, Cancel, CancelReject, CancelComplete, CancelLedger, CancelActive, CancelRequest,
            CancelResponse
<1>8. ASSUME Shutdown PROVE P
    BY <1>8 DEF Shutdown, P, ActiveStatus
<1>9. ASSUME Exit \/ Restart \/ Crash PROVE P
    BY <1>9, <1>b DEF Exit, Restart, RecOther, Crash, durable
<1>10. ASSUME NEW j \in Jobs, Submit(j) \/ Lose(j) PROVE P
    BY <1>10, <1>b DEF Submit, Lose
<1>11. ASSUME UNCHANGED vars PROVE P
    BY <1>11, <1>b DEF vars, durable
<1>12. P
    BY <1>3, <1>4, <1>5, <1>6, <1>7, <1>8, <1>9, <1>10, <1>11 DEF Next, Progress
<1>13. QED BY <1>12 DEF P

\* The steps that enter, work in or leave the reconciler's section, and the
\* others.
LEMMA SectionSteps ==
    ASSUME CoreInv, [Next]_vars
    PROVE  \/ Tick \/ Restart \/ Crash \/ RecRelease \/ RecLeave \/ RecFatal
           \/ \E j \in Jobs : RecLegacy(j) \/ RecDropClaim(j) \/ RecDispatch(j)
           \/ rec.pc \notin RecSection \cup {"fatal"} /\ rec'.pc \notin RecSection /\ daemon # "down"
           \/ /\ rec' = rec
              /\ \/ daemon' = daemon \/ daemon \notin {"down", "starting"}
                 \/ daemon = "starting" /\ rec.pc = "idle"
<1>1. Typed /\ LifeInv BY DEF CoreInv
<1>2. ASSUME NEW j \in Jobs, SubStep(j) PROVE rec' = rec /\ daemon' = daemon
    BY <1>1, <1>2, SubFrames DEF SubFrame
<1>3. ASSUME NEW j \in Jobs, LauStep(j)
      PROVE  \/ rec' = rec /\ daemon' = daemon
             \/ rec.pc \notin RecSection \cup {"fatal"} /\ rec'.pc \notin RecSection /\ daemon # "down"
    <2>1. LauFrame(j) BY <1>1, <1>3, LauFrames
    <2>2. daemon' = daemon BY <2>1 DEF LauFrame, LauOther
    <2>3. CASE rec' # rec
        <3>1. rec.pc = "await" /\ daemon # "down" BY <1>1, <2>1, <2>3 DEF LauFrame, LifeInv
        <3>2. rec' = GoOn(rec.launch, rec.adopt) \/ rec' = [IdleRec EXCEPT !.pc = "fatal"]
            BY <2>1, <2>3 DEF LauFrame
        <3>3. rec'.pc \notin RecSection
            <4>1. CASE rec' = GoOn(rec.launch, rec.adopt)
                <5>1. rec'.pc \in {"idle", "next"} BY <4>1, RecParts
                <5>2. QED BY <5>1 DEF RecSection
            <4>2. CASE rec' = [IdleRec EXCEPT !.pc = "fatal"] BY <4>2, RecParts DEF RecSection
            <4>3. QED BY <3>2, <4>1, <4>2
        <3>4. QED BY <3>1, <3>3 DEF RecSection
    <2>4. QED BY <2>2, <2>3
<1>4. ASSUME RecStep, ~Tick, ~RecRelease, ~RecLeave, ~RecFatal,
             \A j \in Jobs : ~RecLegacy(j) /\ ~RecDropClaim(j) /\ ~RecDispatch(j)
      PROVE  \/ rec.pc \notin RecSection \cup {"fatal"} /\ rec'.pc \notin RecSection /\ daemon # "down"
             \/ rec' = rec /\ daemon = "starting" /\ rec.pc = "idle"
    <2>1. CASE Listen BY <2>1 DEF Listen
    <2>2. CASE ~Listen
        <3>1. rec.pc \in {"identify", "accept", "uncertain", "check", "write", "next"}
            BY <1>4, <2>2 DEF RecStep, RecIdentify, RecAccept, RecUncertain, RecCheck, RecWrite, RecNext
        <3>2. RecFrame BY <1>1, <1>4, RecFrames
        <3>3. rec'.pc \notin RecSection BY <3>1, <3>2 DEF RecFrame, RecSection
        <3>4. QED BY <1>1, <3>1, <3>3 DEF LifeInv, RecSection
    <2>3. QED BY <2>1, <2>2
<1>5. ASSUME NEW p \in Procs, WorkerStep(p) \/ StatusAdopt(p) \/ Kill(p)
      PROVE  rec' = rec /\ daemon' = daemon
    BY <1>1, <1>5, WorkerFrames DEF WorkerFrame, handlers
<1>6. ASSUME NEW r \in Runs, CanStep(r) \/ Cancel(r) PROVE rec' = rec /\ daemon' = daemon
    BY <1>1, <1>6, CanFrames DEF CanFrame, CanKept
<1>7. ASSUME Shutdown \/ Exit PROVE rec' = rec /\ daemon \notin {"down", "starting"}
    BY <1>7 DEF Shutdown, Exit, Serving, handlers
<1>8. ASSUME NEW j \in Jobs, Submit(j) PROVE rec' = rec /\ daemon' = daemon
    BY <1>8 DEF Submit
<1>9. ASSUME NEW j \in Jobs, Lose(j)
      PROVE  \/ rec' = rec /\ daemon' = daemon
             \/ rec.pc \notin RecSection \cup {"fatal"} /\ rec'.pc \notin RecSection /\ daemon # "down"
    <2>1. LoseFrame(j) BY <1>1, <1>9, LoseFrames
    <2>2. daemon' = daemon /\ daemon # "down" BY <1>9, <2>1 DEF LoseFrame, Lose, Running
    <2>3. CASE rec' = [IdleRec EXCEPT !.pc = "fatal"] /\ rec.pc = "await"
        BY <2>2, <2>3, RecParts DEF RecSection
    <2>4. CASE rec' = [rec EXCEPT !.pc = "uncertain"] /\ rec.pc = "identify"
        BY <1>1, <2>2, <2>4 DEF RecSection, Typed, HandlersTyped, RecLocals
    <2>5. QED BY <2>1, <2>2, <2>3, <2>4 DEF LoseFrame
<1>10. ASSUME UNCHANGED vars PROVE rec' = rec /\ daemon' = daemon
    BY <1>10 DEF vars, handlers
<1>11. QED
    BY <1>2, <1>3, <1>4, <1>5, <1>6, <1>7, <1>8, <1>9, <1>10 DEF Next, Progress

\* A queued job of the past holds the first ticket, and no capacity is free.
LEMMA InitQueue == ASSUME Init PROVE QueueInv
<1> DEFINE s == scenario
<1>1. /\ s \in ScenarioType /\ (s.legacy # {} => s.queued = {}) /\ Cardinality(s.queued) <= 1
      /\ s.busy \cap s.queued = {}
      /\ s.queued # {} => Cardinality(s.busy) = s.maxActive
    BY SupervisorAssumption DEF Init
<1>2. s.busy \subseteq Jobs /\ s.queued \subseteq Jobs BY <1>1 DEF ScenarioType
<1>3. \A j \in Jobs : adm[j] = IF j \in s.legacy THEN "none" ELSE IF j \in s.busy THEN "accepted"
                               ELSE IF j \in s.queued THEN "queued" ELSE "none"
    BY DEF Init
<1>4. Queued = s.queued BY <1>1, <1>2, <1>3 DEF Queued
<1>5. s.queued # {} => Active = s.busy BY <1>1, <1>2, <1>3 DEF Active, ActiveStatus
<1>6. IsFiniteSet(s.queued) BY <1>2, SupervisorAssumption, FS_Subset
<1>7. Cardinality(s.queued) \in Nat /\ (s.queued # {} => Cardinality(s.queued) # 0)
    BY <1>6, FS_EmptySet, FS_CardinalityType
<1>8. \A j \in s.queued : ticket[j] = 1 BY <1>1, <1>2 DEF Init
<1>9. \A j \in Queued : ticket[j] <= lastTicket
    BY <1>1, <1>4, <1>7, <1>8 DEF Init
<1>10. ASSUME NEW j \in s.queued, NEW k \in s.queued PROVE j = k
    <2> SUFFICES ASSUME j # k PROVE FALSE OBVIOUS
    <2>1. {j} \cup {k} \subseteq s.queued OBVIOUS
    <2>2. IsFiniteSet({j}) /\ Cardinality({j}) = 1 BY FS_Singleton
    <2>3. Cardinality({j} \cup {k}) = 2 BY <2>2, FS_AddElement
    <2>4. Cardinality({j} \cup {k}) <= Cardinality(s.queued) BY <1>6, <2>1, FS_Subset
    <2>5. QED BY <1>1, <1>7, <2>3, <2>4
<1>11. ~QueueReady
    <2>1. s.maxActive \in Nat BY <1>1 DEF ScenarioType
    <2>2. QED BY <1>1, <1>4, <1>5, <2>1 DEF QueueReady, maxActive
<1>12. rec.pc # "section" BY RestPcs DEF Init, NoHandlers
<1>13. QED BY <1>4, <1>9, <1>10, <1>11, <1>12 DEF QueueInv

\* Every step that loses no claim keeps the queue in order: capacity becomes
\* free in the reconciler's section, which hands it out before it ends.
LEMMA StepQueue ==
    ASSUME CoreInv, ReservedInv, QueueInv, [Next]_vars, ~ClaimLost
    PROVE  QueueInv'
<1>1. Typed /\ Typed' /\ LifeInv /\ RecInv /\ LockInv /\ BegunInv /\ WorkerInv
    BY StepTyped DEF CoreInv
<1>2. adm \in [Jobs -> AdmStatus] /\ ticket \in [Jobs -> Nat] /\ lastTicket \in Nat
    BY <1>1 DEF Typed, FilesTyped
<1>3. maxActive' = maxActive /\ maxActive \in Nat
    <2>1. scenario' = scenario BY <1>1, StepScenario
    <2>2. QED BY <1>1, <2>1, SupervisorAssumption DEF Typed, FilesTyped, ScenarioType, maxActive
<1>4. /\ IsFiniteSet(Active) /\ IsFiniteSet(Active')
      /\ Cardinality(Active) \in Nat /\ Cardinality(Active') \in Nat
    <2>1. Active \subseteq Jobs /\ Active' \subseteq Jobs BY DEF Active
    <2>2. QED BY <2>1, SupervisorAssumption, FS_Subset, FS_CardinalityType
<1>5. CASE \E j \in Jobs : AdmitAppend(j)
    <2>1. PICK j \in Jobs : AdmitAppend(j) BY <1>5
    <2>2. /\ sub[j].pc = "append" /\ rec' = rec /\ daemon' = daemon /\ adm[j] = "none"
        BY <2>1 DEF AdmitAppend, CoreInv, SubInv, NewJob
    <2>3. rec.pc \notin RecSection /\ daemon \notin {"down", "starting"}
        BY <1>1, <2>2 DEF LockInv, LifeInv
    <2>4. ~QueueReady BY <2>3 DEF QueueInv
    <2>5. rec'.pc # "section" BY <2>2, <2>3 DEF RecSection
    <2>6. CASE ClassifyNewAdmission = "dispatch"
        <3>1. /\ adm' = [adm EXCEPT ![j] = "dispatching"] /\ UNCHANGED <<ticket, lastTicket>>
              /\ Cardinality(Active) < maxActive
            BY <2>1, <2>6 DEF AdmitAppend, ClassifyNewAdmission
        <3>2. Queued' = {} BY <1>2, <2>4, <3>1 DEF Queued, QueueReady
        <3>3. QED BY <2>5, <3>2 DEF QueueInv, QueueReady
    <2>7. CASE ClassifyNewAdmission # "dispatch"
        <3>1. /\ adm' = [adm EXCEPT ![j] = "queued"] /\ lastTicket' = lastTicket + 1
              /\ ticket' = [ticket EXCEPT ![j] = lastTicket + 1]
              /\ ~(Cardinality(Active) < maxActive)
            BY <2>1, <2>7 DEF AdmitAppend, ClassifyNewAdmission
        <3>2. Queued' \subseteq Queued \cup {j} /\ j \notin Queued BY <1>2, <2>2, <3>1 DEF Queued
        <3>3. \A k \in Queued : k \in Jobs /\ ticket'[k] = ticket[k]
            BY <1>2, <3>1, <3>2 DEF Queued
        <3>4. ticket'[j] = lastTicket + 1 BY <1>2, <3>1
        <3>5. \A k \in Queued : ticket[k] \in Nat /\ ticket[k] <= lastTicket
            BY <1>2, <3>3 DEF QueueInv
        <3>6. \A k \in Queued' : ticket'[k] <= lastTicket'
            BY <1>2, <3>1, <3>2, <3>3, <3>4, <3>5
        <3>7. \A i, k \in Queued' : ticket'[i] = ticket'[k] => i = k
            BY <1>2, <3>2, <3>3, <3>4, <3>5 DEF QueueInv
        <3>8. Active' = Active BY <1>2, <2>2, <3>1 DEF Active, ActiveStatus
        <3>9. ~QueueReady' BY <1>3, <3>1, <3>8 DEF QueueReady
        <3>10. QED BY <2>5, <3>6, <3>7, <3>9 DEF QueueInv
    <2>8. QED BY <2>6, <2>7
<1>6. CASE RecRelease
    <2>1. /\ adm' = [adm EXCEPT ![rec.job] = "none"] /\ UNCHANGED <<ticket, lastTicket>>
          /\ rec' = [rec EXCEPT !.pc = "section", !.job = NoJob]
        BY <1>6 DEF RecRelease, RecOther
    <2>2. Queued' \subseteq Queued BY <1>2, <2>1 DEF Queued
    <2>3. rec \in RecLocals /\ rec.legacy = {}
        BY <1>1, <1>6 DEF RecRelease, RecInv, Typed, HandlersTyped
    <2>4. rec'.pc = "section" /\ rec'.legacy = {} BY <2>1, <2>3 DEF RecLocals
    <2>5. QED BY <2>1, <2>2, <2>4 DEF QueueInv, RecSection
<1>7. CASE ~RecRelease /\ \A j \in Jobs : ~AdmitAppend(j)
    <2>1. /\ \A k \in Jobs : /\ adm[k] \in ActiveStatus => adm'[k] \in ActiveStatus
                             /\ adm'[k] = "queued" => adm[k] = "queued"
          /\ ticket' = ticket
          /\ lastTicket' = lastTicket \/ \A k \in Jobs : adm'[k] = "none"
        BY <1>7, AdmSteps
    <2>2. Queued' \subseteq Queued /\ Active \subseteq Active'
        BY <2>1 DEF Queued, Active
    <2>3. lastTicket' = lastTicket \/ Queued' = {} BY <2>1 DEF Queued
    <2>4. /\ \A j \in Queued' : ticket'[j] <= lastTicket'
          /\ \A j, k \in Queued' : ticket'[j] = ticket'[k] => j = k
        BY <2>1, <2>2, <2>3 DEF QueueInv
    <2>5. QueueReady' => QueueReady
        <3>1. Cardinality(Active) <= Cardinality(Active') BY <1>4, <2>2, FS_Subset
        <3>2. QED BY <1>3, <1>4, <2>2, <3>1 DEF QueueReady
    <2>6. ASSUME QueueReady'
          PROVE  rec'.pc \in RecSection \/ daemon' = "down" \/ (daemon' = "starting" /\ rec'.pc = "fatal")
        <3>1. /\ QueueReady /\ Queued # {}
              /\ rec.pc \in RecSection \/ daemon = "down" \/ (daemon = "starting" /\ rec.pc = "fatal")
            BY <2>5, <2>6 DEF QueueInv, QueueReady
        <3>2. rec \in RecLocals BY <1>1 DEF Typed, HandlersTyped
        <3>3. CASE Crash BY <3>3 DEF Crash
        <3>4. CASE Restart
            <4>1. Reconcile /\ daemon' = "starting" BY <3>4 DEF Restart
            <4>2. QED BY <4>1, ReconcileParts DEF RecSection
        <3>5. CASE Tick
            BY <1>1, <3>1, <3>5 DEF Tick, Serving, RecSection
        <3>6. CASE RecLeave BY <3>1, <3>6 DEF RecLeave
        <3>7. CASE RecFatal
            BY <1>1, <3>1, <3>7 DEF RecFatal, RecSection, LifeInv
        <3>8. ASSUME NEW j \in Jobs, RecLegacy(j) PROVE rec'.pc \in RecSection
            <4>1. j \in rec.legacy /\ rec.pc = "section" BY <3>8 DEF RecLegacy
            <4>2. rec.legacy \ rec.final = {} BY <3>1, <4>1 DEF QueueInv
            <4>3. rec' = [rec EXCEPT !.legacy = @ \ {j}] BY <3>8, <4>1, <4>2 DEF RecLegacy
            <4>4. QED BY <3>2, <4>1, <4>3 DEF RecLocals, RecSection
        <3>9. ASSUME NEW j \in Jobs, RecDropClaim(j) PROVE rec'.pc \in RecSection
            <4>1. claim[runOf[j]] \in {NoJob, j} BY <3>9 DEF ClaimLost
            <4>2. rec' = [rec EXCEPT !.pc = "drop", !.job = j] BY <3>9, <4>1 DEF RecDropClaim
            <4>3. QED BY <3>2, <4>2 DEF RecLocals, RecSection
        <3>10. ASSUME NEW j \in Jobs, RecDispatch(j) PROVE rec'.pc \in RecSection
            BY <3>2, <3>10 DEF RecDispatch, RecLocals, RecSection
        <3>11. CASE rec.pc \notin RecSection \cup {"fatal"} /\ daemon # "down" BY <3>1, <3>11
        <3>12. CASE /\ rec' = rec
                    /\ \/ daemon' = daemon \/ daemon \notin {"down", "starting"}
                       \/ daemon = "starting" /\ rec.pc = "idle"
            BY <3>1, <3>12 DEF RecSection
        <3>13. QED
            BY <1>7, <3>3, <3>4, <3>5, <3>6, <3>7, <3>8, <3>9, <3>10, <3>11, <3>12, SectionSteps
    <2>7. ASSUME rec'.pc = "section", rec'.legacy \ rec'.final # {} PROVE Queued' = {}
        <3>1. rec \in RecLocals BY <1>1 DEF Typed, HandlersTyped
        <3>a. ASSUME rec.pc = "section", rec'.legacy \subseteq rec.legacy, rec'.final = rec.final
              PROVE  Queued' = {}
            BY <2>2, <2>7, <3>a DEF QueueInv
        <3>b. ASSUME Reconcile PROVE Queued' = {}
            <4>1. /\ rec'.final = {i \in Jobs : desc[i] \in FinalDesc} /\ rec'.legacy = LegacyClaims
                BY <2>7, <3>b, ReconcileParts
            <4>2. PICK j \in LegacyClaims : desc[j] \notin FinalDesc
                BY <2>7, <4>1 DEF LegacyClaims
            <4>3. j \in Jobs /\ j # NoJob /\ runOf[j] \in Runs /\ claim[runOf[j]] = j /\ adm[j] = "none"
                BY <1>1, RunTyped, SupervisorAssumption DEF LegacyClaims
            <4>4. owner[j] # 0 BY <1>1, <4>3 DEF BegunInv, Begun, ActiveStatus
            <4>5. desc[j] \in Live
                BY <1>1, <4>2, <4>3, <4>4 DEF WorkerInv, Live, FinalDesc, Typed, ProcessesTyped, DescStatus
            <4>6. Unmet(j) BY <4>3, <4>5 DEF ReservedInv, ActiveStatus
            <4>7. QED BY <2>2, <4>3, <4>6 DEF ReservedInv
        <3>2. CASE Tick \/ Restart BY <3>2, <3>b DEF Tick, Restart
        <3>3. CASE Crash \/ RecFatal BY <2>7, <3>3, RestPcs DEF Crash, Handlers0, RecFatal
        <3>4. CASE RecLeave
            <4>1. rec'.pc \in {"idle", "next"} BY <3>4, RecParts DEF RecLeave, RecGoOn
            <4>2. QED BY <2>7, <4>1
        <3>5. ASSUME NEW j \in Jobs, RecLegacy(j) \/ RecDispatch(j) PROVE Queued' = {}
            <4>1. rec.pc = "section" /\ rec'.legacy \subseteq rec.legacy /\ rec'.final = rec.final
                <5>1. CASE RecLegacy(j) BY <3>1, <5>1 DEF RecLegacy, RecGoto, RecLocals
                <5>2. CASE RecDispatch(j) BY <3>1, <5>2 DEF RecDispatch, RecLocals
                <5>3. QED BY <3>5, <5>1, <5>2
            <4>2. QED BY <3>a, <4>1
        <3>6. ASSUME NEW j \in Jobs, RecDropClaim(j) PROVE Queued' = {}
            <4>1. rec'.pc \in {"drop", "fatal"} BY <3>1, <3>6 DEF RecDropClaim, RecGoto, RecLocals
            <4>2. QED BY <2>7, <4>1
        <3>7. CASE rec'.pc \notin RecSection BY <2>7, <3>7 DEF RecSection
        <3>8. CASE rec' = rec BY <2>7, <3>8, <3>a
        <3>9. QED
            BY <1>7, <3>2, <3>3, <3>4, <3>5, <3>6, <3>7, <3>8, SectionSteps
    <2>8. QED BY <2>4, <2>6, <2>7 DEF QueueInv
<1>8. QED BY <1>5, <1>6, <1>7

\* No job gets capacity while an older one is queued, as long as no claim is
\* lost: the append of a submission, the reservation of a legacy worker and the
\* dispatch from the queue are the steps that give capacity.
LEMMA FifoStep ==
    ASSUME CoreInv, ReservedInv, QueueInv, [Next]_vars,
           NEW j \in Jobs, adm[j] \notin ActiveStatus, adm'[j] = "dispatching",
           NEW k \in Queued \ {j}
    PROVE  adm[j] = "queued" /\ ticket[j] < ticket[k]
<1>1. Typed /\ LockInv /\ LifeInv BY DEF CoreInv
<1>2. adm \in [Jobs -> AdmStatus] /\ ticket \in [Jobs -> Nat] BY <1>1 DEF Typed, FilesTyped
<1>3. CASE \E i \in Jobs : AdmitAppend(i)
    <2>1. PICK i \in Jobs : AdmitAppend(i) BY <1>3
    <2>2. i = j /\ ClassifyNewAdmission = "dispatch" /\ sub[j].pc = "append"
        BY <1>2, <2>1 DEF AdmitAppend, ActiveStatus
    <2>3. QueueReady BY <2>2 DEF ClassifyNewAdmission, QueueReady
    <2>4. FALSE BY <1>1, <2>2, <2>3 DEF QueueInv, LockInv, LifeInv
    <2>5. QED BY <2>4
<1>4. CASE RecRelease
    BY <1>2, <1>4 DEF RecRelease, ActiveStatus
<1>5. CASE RecLegacy(j)
    <2>1. rec.pc = "section" /\ j \in rec.legacy \ rec.final
        BY <1>2, <1>5 DEF RecLegacy, ActiveStatus
    <2>2. FALSE BY <2>1 DEF QueueInv
    <2>3. QED BY <2>2
<1>6. CASE RecDispatch(j)
    <2>1. j \in Queued /\ ticket[j] <= ticket[k] BY <1>6 DEF RecDispatch, OldestQueued
    <2>2. ticket[j] # ticket[k] BY <2>1 DEF QueueInv
    <2>3. QED BY <1>2, <2>1, <2>2 DEF Queued
<1>7. QED BY <1>3, <1>4, <1>5, <1>6, AdmSteps

\* Dispatch is first in, first out, in every behaviour that loses no claim:
\* neither a new submission nor a restarted daemon lets a younger job overtake
\* a queued one (service.ts 546-700, admission.ts).
THEOREM FifoUnlessClaimLost == Spec /\ [][~ClaimLost]_vars => FifoDispatch
<1> DEFINE FifoInv == SupervisorInv /\ QueueInv
           First == \A j \in Jobs : adm[j] \notin ActiveStatus /\ adm'[j] = "dispatching"
                       => \A k \in Queued \ {j} : adm[j] = "queued" /\ ticket[j] < ticket[k]
<1>1. Init => FifoInv BY InitCore, InitLimit, InitReserved, InitQueue DEF SupervisorInv
<1>2. FifoInv /\ [Next]_vars /\ [~ClaimLost]_vars => FifoInv'
    <2> SUFFICES ASSUME CoreInv, LimitInv, ReservedInv, QueueInv, [Next]_vars, [~ClaimLost]_vars
                 PROVE  CoreInv' /\ LimitInv' /\ ReservedInv' /\ QueueInv'
        BY DEF SupervisorInv
    <2>1. CoreInv' /\ LimitInv' /\ ReservedInv' BY StepCore, StepLimit, StepReserved
    <2>2. CASE UNCHANGED vars
        BY <2>1, <2>2 DEF vars, durable, handlers, QueueInv, QueueReady, Queued, Active, maxActive
    <2>3. CASE ~ClaimLost BY <2>1, <2>3, StepQueue
    <2>4. QED BY <2>2, <2>3
<1>3. FifoInv /\ [Next]_vars => [First]_vars
    <2>1. CoreInv /\ ReservedInv /\ QueueInv /\ [Next]_vars => First BY FifoStep
    <2>2. QED BY <2>1 DEF SupervisorInv
<1>4. Spec => Init /\ [][Next]_vars BY DEF Spec
<1>5. FifoDispatch <=> [][First]_vars BY DEF FifoDispatch
<1> HIDE DEF FifoInv, First
<1>6. QED BY <1>1, <1>2, <1>3, <1>4, <1>5, PTL
=============================================================================
