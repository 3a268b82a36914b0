------------------------- MODULE CandidatePromotion -------------------------
(***************************************************************************)
(* How an optimization check promotes a captured candidate into the parent *)
(* workspace: promoteCapturedCandidate and its reconciliation, driven by   *)
(* progressOptimizationCheck of the scheduler.  Two records must agree:    *)
(* the promotion journal next to the candidate and the events of the run's *)
(* ledger; the process may die between any two writes, a write may fail,   *)
(* and other programs edit the same files.                                 *)
(*                                                                         *)
(* One process at a time drives the run (RunStore), so one process at a    *)
(* time works on this promotion; promotions of other runs in the same      *)
(* workspace appear as holders of the lock and as edits.                   *)
(***************************************************************************)
EXTENDS Naturals, Sequences, FiniteSets, TLC

CONSTANTS
    Entries,      \* the paths of the delta, sorted: Seq of distinct paths
    Depth,        \* [Paths -> Nat]: number of path segments
    Parent,       \* [Paths -> Paths \cup {Root}]
    Root,         \* the workspace root, not a path of the delta
    Before,       \* [Paths -> Identity]: the captured preimage
    After,        \* [Paths -> Identity]: the candidate's version
    MaxCrashes,   \* bound: process deaths in a behaviour
    MaxFaults,    \* bound: failed writes in a behaviour
    MaxEdits      \* bound: edits of affected paths by other programs

Paths == {Entries[i] : i \in DOMAIN Entries}

\* WorkspaceEntryIdentity: the kind, and mode, content or target as one tag.
Kinds == {"missing", "directory", "file", "symlink"}
Missing == [kind |-> "missing", tag |-> "none"]
Tags == {Before[p].tag : p \in Paths} \cup {After[p].tag : p \in Paths} \cup {"masked", "foreign"}
Identities == {Missing} \cup [kind : Kinds \ {"missing"}, tag : Tags]
\* What mkdir leaves when the umask clears bits of the mode it is given.
Masked(id) == [id EXCEPT !.tag = "masked"]
Foreign == [kind |-> "file", tag |-> "foreign"]

\* loadCandidateDelta and the capture: a delta has no unchanged entry, its paths
\* are distinct, and every tree it describes is a tree.
ASSUME DeltaAssumption ==
    /\ Entries \in Seq(Paths) /\ Depth \in [Paths -> Nat] /\ Root \notin Paths
    /\ Before \in [Paths -> Identities] /\ After \in [Paths -> Identities]
    /\ \A i, j \in DOMAIN Entries : i # j => Entries[i] # Entries[j]
    /\ \A p \in Paths :
          /\ Before[p] # After[p]
          /\ Parent[p] \in (Paths \ {p}) \cup {Root}
          /\ Parent[p] # Root =>
                /\ Depth[Parent[p]] < Depth[p]
                /\ Before[p] # Missing => Before[Parent[p]].kind = "directory"
                /\ After[p] # Missing => After[Parent[p]].kind = "directory"
ASSUME BoundAssumption == MaxCrashes \in Nat /\ MaxFaults \in Nat /\ MaxEdits \in Nat

VARIABLES
    ws,        \* [Paths -> Identity]: the affected paths of the workspace
    extra,     \* directories of the delta holding an entry outside it
    temps,     \* promotion temporaries on disk: {<<step, direction>>}
    journal,   \* the promotion directory and its journal
    blobs,     \* paths whose preimage is saved in the rollback directory
    candidate, \* whether the candidate's identity directory still exists
    lock,      \* the workspace promotion lock file
    opt,       \* the check as the run's ledger records it
    pc,        \* where the process driving the check stands
    mode,      \* "promote" or "reconcile": which operation holds the lock
    cur,       \* the journal as the operation has it in memory
    res,       \* what the operation will return or throw
    poisoned,  \* publicationPoisoned: the process can append no more events
    crashes, faults, edits, \* the bounded counters
    blurred    \* whether a crash ever hit between a mkdir and its chmod

diskVars == <<ws, extra, temps, journal, blobs, candidate>>
callVars == <<mode, cur, res, poisoned>>
countVars == <<crashes, faults, edits, blurred>>
vars == <<diskVars, lock, opt, pc, callVars, countVars>>

-----------------------------------------------------------------------------
(* The steps of a promotion.                                               *)

Rank(p) == CHOOSE i \in DOMAIN Entries : Entries[i] = p
ShallowestFirst(p, q) == Depth[p] < Depth[q] \/ (Depth[p] = Depth[q] /\ Rank(p) < Rank(q))

\* An entry that goes away, or makes room for one of another kind.
Removed(p) == Before[p] # Missing /\ After[p].kind # Before[p].kind
AfterRemovals(p) == IF Removed(p) THEN Missing ELSE Before[p]
Made(p) == After[p] # Missing /\ AfterRemovals(p) # After[p]

Take(p) == [path |-> p, from |-> Before[p], to |-> Missing]
Place(p) == [path |-> p, from |-> AfterRemovals(p), to |-> After[p]]
StepSet == {Take(p) : p \in {q \in Paths : Removed(q)}} \cup {Place(p) : p \in {q \in Paths : Made(q)}}

\* Removals deepest first, then directories, then files and links, shallowest first.
Rung(s) == IF s.to = Missing THEN 1 ELSE IF s.to.kind = "directory" THEN 2 ELSE 3
Precedes(s, t) ==
    \/ Rung(s) < Rung(t)
    \/ /\ Rung(s) = Rung(t)
       /\ IF Rung(s) = 1 THEN ShallowestFirst(t.path, s.path) ELSE ShallowestFirst(s.path, t.path)

\* buildPromotionSteps: the steps in that order.
Position(s) == 1 + Cardinality({t \in StepSet : Precedes(t, s)})
N == Cardinality(StepSet)
Steps == [i \in 1 .. N |-> CHOOSE s \in StepSet : Position(s) = i]

\* stateMatches: what the affected paths hold once the first k steps are done.
\* Undoing r of a applied steps leaves what the first a - r steps make.
Expected(k) ==
    [p \in Paths |->
        LET touched == {i \in 1 .. k : Steps[i].path = p} IN
        IF touched = {} THEN Before[p]
        ELSE Steps[CHOOSE i \in touched : \A j \in touched : j <= i].to]

Matches(k) == ws = Expected(k)

\* detectForwardProgress and detectRollbackProgress: the journaled count or, for
\* the step whose record was lost, one more; as the set of counts that match.
ForwardProgress(journaled) ==
    {k \in {journaled, journaled + 1} : k <= N /\ Matches(k)}
RollbackProgress(j) ==
    {r \in {j.rollbackIndex, j.rollbackIndex + 1} :
        r <= j.appliedSteps /\ Matches(j.appliedSteps - r)}
First(S) == CHOOSE k \in S : \A m \in S : k <= m

Children(d) == {p \in Paths : Parent[p] = d}
HasParent(p) == Parent[p] # Root => ws[Parent[p]].kind = "directory"

\* requireRemovedDirectoryClosures
ClosuresHold ==
    \A d \in Paths : Before[d].kind = "directory" /\ After[d].kind # "directory" =>
        /\ ws[d].kind = "directory" /\ d \notin extra
        /\ \A p \in Children(d) : (ws[p] # Missing) = (Before[p] # Missing)

-----------------------------------------------------------------------------
(* The two records.                                                        *)

Statuses == {"prepared", "applying", "committed", "rolling_back", "rolled_back", "unknown"}
Journal(status) == [status |-> status, nextStep |-> 0, appliedSteps |-> 0, rollbackIndex |-> 0]
NoDirectory == Journal("no_directory")
NoJournal == Journal("no_journal")

Outcomes == {"none", "committed", "rolled_back", "unknown"}
Codes == {"none", "candidate_promotion_stale", "candidate_promotion_invalid",
          "candidate_promotion_missing", "candidate_promotion_failed",
          "candidate_promotion_rolled_back", "candidate_promotion_uncertain",
          "candidate_workspace_cleanup_failed"}
Result(outcome, code) == [outcome |-> outcome, code |-> code]
NoResult == Result("none", "none")

Phases == {"down", "dispatch", "lock", "opened", "fresh", "artifacts", "capture",
           "journal_prepared", "event_prepared", "refused", "enter", "observe", "mutate",
           "chmod", "rename", "record", "verify", "commit", "compensate", "reconcile",
           "rolling", "restored", "unknown", "event_settled", "unlock", "returned",
           "judge", "cleanup", "event_cleaned", "check"}

TypeOK ==
    /\ \A p \in Paths : ws[p].kind \in Kinds
    /\ extra \subseteq Paths /\ blobs \subseteq Paths
    /\ temps \subseteq (1 .. N) \X {"forward", "rollback"}
    /\ \A j \in {journal, cur} :
          /\ j.status \in Statuses \cup {"no_directory", "no_journal"}
          /\ j.nextStep \in 0 .. N /\ j.appliedSteps \in 0 .. N
          /\ j.rollbackIndex \in 0 .. j.appliedSteps
    /\ candidate \in BOOLEAN /\ poisoned \in BOOLEAN /\ blurred \in BOOLEAN
    /\ lock \in {"free", "opened", "mine", "other", "stale", "torn"}
    /\ opt \in [decision : {"promote", "reject"}, prepared : BOOLEAN, settlement : Outcomes,
                cleaned : BOOLEAN, status : {"pending", "accepted", "rejected", "failed"},
                sideEffect : {"none", "committed", "uncertain"}, code : Codes]
    /\ pc \in Phases /\ mode \in {"promote", "reconcile"}
    /\ res \in [outcome : Outcomes, code : Codes]
    /\ crashes \in 0 .. MaxCrashes /\ faults \in 0 .. MaxFaults /\ edits \in 0 .. MaxEdits

\* The evaluation event is durable and the candidate's workspace is retained.
Init ==
    /\ ws = Before /\ extra = {} /\ temps = {} /\ blobs = {}
    /\ journal = NoDirectory /\ candidate = TRUE /\ lock = "free"
    /\ \E d \in {"promote", "reject"} :
          opt = [decision |-> d, prepared |-> FALSE, settlement |-> "none", cleaned |-> FALSE,
                 status |-> "pending", sideEffect |-> "none", code |-> "none"]
    /\ pc = "down" /\ mode = "promote" /\ cur = NoDirectory /\ res = NoResult
    /\ poisoned = FALSE
    /\ crashes = 0 /\ faults = 0 /\ edits = 0 /\ blurred = FALSE

-----------------------------------------------------------------------------
(* How the operation moves, fails and writes.                              *)

GoTo(phase) == pc' = phase
NoCrash == UNCHANGED <<crashes, edits, blurred>>
NoFault == UNCHANGED countVars
Fault == faults < MaxFaults /\ faults' = faults + 1 /\ NoCrash

\* The operation throws: the lock is released and the error reaches the caller.
Throw(code) == /\ res' = Result("none", code)
               /\ GoTo("unlock")
               /\ UNCHANGED <<mode, poisoned>>
\* An error of a system call carries none of the promotion's codes.
ThrowRaw == Throw("candidate_promotion_failed")

\* writeJournal: a temporary, a sync, a rename, a sync of the directory.  A
\* failure is seen before or after the rename took effect.
Written(j) == journal' = j /\ NoFault
WriteFails(j) == journal' \in {journal, j} /\ Fault

\* An event appended to the run's ledger; a failed append may still be durable
\* and poisons every later publication of the process.
Recorded(state) == opt' = state /\ NoFault /\ UNCHANGED poisoned
RecordFails(state) == opt' \in {opt, state} /\ Fault /\ poisoned' = TRUE

-----------------------------------------------------------------------------
(* Resuming the run, and the promotion lock.                               *)

Resume ==
    /\ pc = "down" /\ opt.status = "pending"
    /\ GoTo("dispatch")
    /\ mode' = "promote" /\ cur' = NoDirectory /\ res' = NoResult /\ poisoned' = FALSE
    /\ NoFault /\ UNCHANGED <<diskVars, lock, opt>>

\* progressOptimizationCheck, from the durable evaluation on
Dispatch ==
    /\ pc = "dispatch"
    /\ \/ opt.decision = "reject" /\ GoTo("cleanup") /\ UNCHANGED mode
       \/ opt.decision = "promote" /\ opt.settlement # "none" /\ GoTo("judge") /\ UNCHANGED mode
       \/ /\ opt.decision = "promote" /\ opt.settlement = "none" /\ GoTo("lock")
          /\ mode' = IF opt.prepared THEN "reconcile" ELSE "promote"
    /\ NoFault /\ UNCHANGED <<diskVars, lock, opt, cur, res, poisoned>>

\* acquireLock: an exclusive create, then the owner is written into the file.
LockOpen ==
    /\ pc = "lock" /\ lock = "free"
    /\ lock' = "opened" /\ GoTo("opened")
    /\ NoFault /\ UNCHANGED <<diskVars, opt, callVars>>

\* removeStaleLock: the recorded owner is no longer a process of this host
LockRemoveStale ==
    /\ pc = "lock" /\ lock = "stale"
    /\ lock' = "free" /\ GoTo("lock")
    /\ NoFault /\ UNCHANGED <<diskVars, opt, callVars>>

\* A live owner, or a file its owner never wrote into, keeps the lock busy.
LockBusy ==
    /\ pc = "lock" /\ lock \in {"other", "torn"}
    /\ res' = Result("none", "candidate_promotion_uncertain") /\ GoTo("returned")
    /\ NoFault /\ UNCHANGED <<diskVars, lock, opt, mode, cur, poisoned>>

LockWrite ==
    /\ pc = "opened"
    /\ UNCHANGED <<diskVars, opt, mode, cur, poisoned>>
    /\ \/ /\ lock' = "mine" /\ GoTo(IF mode = "promote" THEN "fresh" ELSE "reconcile")
          /\ NoFault /\ UNCHANGED res
       \/ /\ lock' = "torn" /\ GoTo("returned")
          /\ res' = Result("none", "candidate_promotion_uncertain") /\ Fault

\* withPromotionLock: the lock is closed and unlinked whatever happened.
Unlock ==
    /\ pc = "unlock"
    /\ GoTo("returned")
    /\ UNCHANGED <<diskVars, opt, mode, cur, poisoned>>
    /\ \/ lock' = "free" /\ NoFault /\ UNCHANGED res
       \/ /\ lock' \in {"mine", "free"} /\ Fault
          /\ res' = Result("none", "candidate_promotion_failed")

-----------------------------------------------------------------------------
(* promoteCapturedCandidate, up to the durable prepare event.              *)

Freshness ==
    /\ pc = "fresh"
    /\ \/ ClosuresHold /\ Matches(0) /\ GoTo("artifacts") /\ UNCHANGED <<mode, res, poisoned>>
       \/ ~(ClosuresHold /\ Matches(0)) /\ Throw("candidate_promotion_stale")
    /\ NoFault /\ UNCHANGED <<diskVars, lock, opt, cur>>

\* preparePromotionArtifacts: the promotion directory is created exclusively
MakeDirectory ==
    /\ pc = "artifacts"
    /\ \/ /\ journal = NoDirectory /\ journal' = NoJournal /\ GoTo("capture")
          /\ UNCHANGED <<mode, res, poisoned>>
       \/ /\ journal # NoDirectory /\ UNCHANGED journal
          /\ Throw("candidate_promotion_invalid")
    /\ NoFault /\ UNCHANGED <<ws, extra, temps, blobs, candidate, lock, opt, cur>>

RemoveDirectory == journal' = NoDirectory /\ blobs' = {}
PreimageFiles == {p \in Paths : Before[p].kind = "file"}

\* copyVerifiedBlob for every file the delta replaces or removes
CaptureRollback ==
    /\ pc = "capture"
    /\ UNCHANGED <<ws, extra, temps, candidate, lock, opt, cur>>
    /\ \/ /\ \A p \in PreimageFiles : ws[p] = Before[p]
          /\ blobs' = PreimageFiles /\ GoTo("journal_prepared") /\ NoFault
          /\ UNCHANGED <<journal, mode, res, poisoned>>
       \/ /\ \E p \in PreimageFiles : ws[p] # Before[p]
          /\ RemoveDirectory /\ Throw("candidate_promotion_stale") /\ NoFault
       \/ RemoveDirectory /\ ThrowRaw /\ Fault

\* Mutant of JournalPrepared: the local journal is taken for the prepare.
JournalPreparedAndEntered ==
    /\ pc = "journal_prepared"
    /\ Written(Journal("prepared")) /\ GoTo("enter") /\ cur' = Journal("prepared")
    /\ UNCHANGED <<ws, extra, temps, candidate, lock, opt, blobs, mode, res, poisoned>>

JournalPrepared ==
    /\ pc = "journal_prepared"
    /\ UNCHANGED <<ws, extra, temps, candidate, lock, opt>>
    /\ \/ /\ Written(Journal("prepared")) /\ GoTo("event_prepared")
          /\ cur' = Journal("prepared") /\ UNCHANGED <<blobs, mode, res, poisoned>>
       \/ RemoveDirectory /\ ThrowRaw /\ Fault /\ UNCHANGED cur

\* lifecycle.prepare appends node_optimization_promotion_prepared
EventPrepared ==
    /\ pc = "event_prepared"
    /\ LET prepared == [opt EXCEPT !.prepared = TRUE] IN
       \/ Recorded(prepared) /\ GoTo("enter")
       \/ RecordFails(prepared) /\ GoTo("refused")
    /\ UNCHANGED <<diskVars, lock, mode, cur, res>>

\* prepare was refused: nothing was entered, and the journal says so.
Refused ==
    /\ pc = "refused"
    /\ LET j == Journal("rolled_back") IN
       \/ Written(j) /\ Throw("candidate_promotion_rolled_back")
       \/ WriteFails(j) /\ ThrowRaw
    /\ UNCHANGED <<ws, extra, temps, blobs, candidate, lock, opt, cur>>

\* Once the loop is through, the whole affected state is checked.
NextStep(j) == IF (j.status = "applying" /\ j.nextStep < N)
                  \/ (j.status = "rolling_back" /\ j.rollbackIndex < j.appliedSteps)
               THEN "observe" ELSE "verify"

Enter ==
    /\ pc = "enter"
    /\ cur' = Journal("applying")
    /\ \/ Written(cur') /\ GoTo(NextStep(cur')) /\ UNCHANGED <<mode, res, poisoned>>
       \/ WriteFails(cur') /\ ThrowRaw
    /\ UNCHANGED <<ws, extra, temps, blobs, candidate, lock, opt>>

-----------------------------------------------------------------------------
(* applyIdentityStep: the steps forward, or the applied ones in reverse.   *)

Forward == cur.status = "applying"
Direction == IF Forward THEN "forward" ELSE "rollback"
StepIndex == IF Forward THEN cur.nextStep + 1 ELSE cur.appliedSteps - cur.rollbackIndex
StepPath == Steps[StepIndex].path
From == IF Forward THEN Steps[StepIndex].from ELSE Steps[StepIndex].to
To == IF Forward THEN Steps[StepIndex].to ELSE Steps[StepIndex].from

\* Where an error leads: a failed step is compensated, a failed compensation is
\* recorded as unknown.
OnError == IF Forward THEN "compensate" ELSE "unknown"
StepObserve ==
    /\ pc = "observe"
    /\ \/ HasParent(StepPath) /\ ws[StepPath] = From /\ GoTo("mutate")
       \/ ~(HasParent(StepPath) /\ ws[StepPath] = From) /\ GoTo(OnError)
    /\ NoFault /\ UNCHANGED <<diskVars, lock, opt, callVars>>

CanRmdir(d) ==
    /\ ws[d].kind = "directory" /\ d \notin extra
    /\ \A p \in Children(d) : ws[p] = Missing
    /\ \A t \in temps : Steps[t[1]].path \notin Children(d)
CanUnlink(p) == ws[p].kind \in {"file", "symlink"}
BlobAvailable(p) ==
    To.kind = "file" => IF Forward THEN candidate ELSE p \in blobs

\* The entry goes away.
StepRemove ==
    /\ pc = "mutate" /\ To = Missing
    /\ LET p == StepPath
           possible == IF From.kind = "directory" THEN CanRmdir(p) ELSE CanUnlink(p)
       IN \/ possible /\ ws' = [ws EXCEPT ![p] = Missing] /\ GoTo("record")
          \/ ~possible /\ UNCHANGED ws /\ GoTo(OnError)
    /\ NoFault /\ UNCHANGED <<extra, temps, journal, blobs, candidate, lock, opt, callVars>>

\* A directory is made with the mode asked for less the umask, and its mode set
\* in a second call; one that exists only gets its mode.
StepMkdir ==
    /\ pc = "mutate" /\ To.kind = "directory"
    /\ LET p == StepPath IN
       \/ From # Missing /\ UNCHANGED ws /\ GoTo("chmod")
       \/ /\ From = Missing /\ ws[p] = Missing /\ GoTo("chmod")
          /\ \E made \in {To, Masked(To)} : ws' = [ws EXCEPT ![p] = made]
       \/ From = Missing /\ ws[p] # Missing /\ UNCHANGED ws /\ GoTo(OnError)
    /\ NoFault /\ UNCHANGED <<extra, temps, journal, blobs, candidate, lock, opt, callVars>>

StepChmod ==
    /\ pc = "chmod"
    /\ LET p == StepPath IN
       \/ ws[p].kind = "directory" /\ ws' = [ws EXCEPT ![p] = To] /\ GoTo("record")
       \/ ws[p].kind \in {"file", "symlink"} /\ UNCHANGED ws /\ GoTo("record")
       \/ ws[p] = Missing /\ UNCHANGED ws /\ GoTo(OnError)
    /\ NoFault /\ UNCHANGED <<extra, temps, journal, blobs, candidate, lock, opt, callVars>>

\* A file or link is completed under a temporary name,
StepTemporary ==
    /\ pc = "mutate" /\ To.kind \in {"file", "symlink"}
    /\ LET t == <<StepIndex, Direction>>
           possible == HasParent(StepPath) /\ t \notin temps /\ BlobAvailable(StepPath)
       IN \/ possible /\ temps' = temps \cup {t} /\ GoTo("rename")
          \/ ~possible /\ UNCHANGED temps /\ GoTo(OnError)
    /\ NoFault /\ UNCHANGED <<ws, extra, journal, blobs, candidate, lock, opt, callVars>>

\* and renamed over the target.
StepRename ==
    /\ pc = "rename"
    /\ temps' = temps \ {<<StepIndex, Direction>>}
    /\ LET possible == HasParent(StepPath) /\ ws[StepPath].kind # "directory" IN
       \/ possible /\ ws' = [ws EXCEPT ![StepPath] = To] /\ GoTo("record")
       \/ ~possible /\ UNCHANGED ws /\ GoTo(OnError)
    /\ NoFault /\ UNCHANGED <<extra, journal, blobs, candidate, lock, opt, callVars>>

\* A system call of the step fails, and its temporary is removed.
StepFails ==
    /\ pc \in {"mutate", "chmod", "rename"}
    /\ temps' = temps \ {<<StepIndex, Direction>>}
    /\ GoTo(OnError) /\ Fault
    /\ UNCHANGED <<ws, extra, journal, blobs, candidate, lock, opt, callVars>>

\* Mutant of Advanced: a step forward counts as a step back.
AdvancedWrongCount == [cur EXCEPT !.nextStep = @ + 1, !.rollbackIndex = @ + 1]

Advanced == IF Forward
            THEN [cur EXCEPT !.nextStep = @ + 1, !.appliedSteps = cur.nextStep + 1]
            ELSE [cur EXCEPT !.rollbackIndex = @ + 1]
StepRecord ==
    /\ pc = "record"
    /\ cur' = Advanced
    /\ \/ Written(Advanced) /\ GoTo(NextStep(Advanced))
       \/ WriteFails(Advanced) /\ GoTo(OnError)
    /\ UNCHANGED <<ws, extra, temps, blobs, candidate, lock, opt, mode, res, poisoned>>

\* requireAffectedState at the end of the forward and of the rollback loop
Verify ==
    /\ pc = "verify"
    /\ LET ok == Matches(IF Forward THEN N ELSE 0) IN
       \/ ok /\ GoTo(IF Forward THEN "commit" ELSE "restored")
       \/ ~ok /\ GoTo(OnError)
    /\ NoFault /\ UNCHANGED <<diskVars, lock, opt, callVars>>

Commit ==
    /\ pc = "commit"
    /\ cur' = [cur EXCEPT !.status = "committed"]
    /\ \/ Written(cur') /\ GoTo("event_settled") /\ res' = Result("committed", "none")
       \/ WriteFails(cur') /\ GoTo("compensate") /\ UNCHANGED res
    /\ UNCHANGED <<ws, extra, temps, blobs, candidate, lock, opt, mode, poisoned>>

-----------------------------------------------------------------------------
(* Compensation and reconciliation.                                        *)

\* A promotion settles through the ledger before it releases the lock; a
\* reconciliation returns its settlement to the caller.
Settle(outcome) ==
    /\ res' = Result(outcome, "none")
    /\ GoTo(IF mode = "promote" THEN "event_settled" ELSE "unlock")

\* Mutant of RollBack: the record of the last step is trusted.
RollBackJournaled(j) ==
    \/ /\ Matches(j.nextStep) /\ GoTo("rolling")
       /\ cur' = [j EXCEPT !.status = "rolling_back", !.appliedSteps = j.nextStep,
                           !.rollbackIndex = 0]
    \/ ~Matches(j.nextStep) /\ cur' = j /\ GoTo("unknown")

\* The applied steps are found from the files, and their undoing begins.
RollBack(j) ==
    LET progress == ForwardProgress(j.nextStep) IN
    \/ /\ progress # {} /\ GoTo("rolling")
       /\ cur' = [j EXCEPT !.status = "rolling_back", !.appliedSteps = First(progress),
                           !.rollbackIndex = 0]
    \/ progress = {} /\ cur' = j /\ GoTo("unknown")

\* cleanupPromotionTemporaries
CleanupTemporaries == temps' = {}

\* compensateForwardFailure
Compensate ==
    /\ pc = "compensate"
    /\ UNCHANGED <<ws, extra, journal, blobs, candidate, lock, opt>>
    /\ \/ /\ CleanupTemporaries /\ RollBack(cur) /\ NoFault
          /\ UNCHANGED <<mode, res, poisoned>>
       \/ UNCHANGED <<temps, cur>> /\ ThrowRaw /\ Fault

\* Mutant of SettledObservation: a commit the ledger does not know is undone.
SettledUndone ==
    /\ UNCHANGED res
    /\ \/ journal.status = "committed" /\ RollBack(journal)
       \/ journal.status = "rolled_back" /\ RollBack([journal EXCEPT !.nextStep = 0])

\* settledObservation: the files must be what the final status says
SettledObservation ==
    LET ok == Matches(IF journal.status = "committed" THEN N ELSE 0) IN
    /\ cur' = journal
    /\ \/ ok /\ Settle(journal.status)
       \/ ~ok /\ GoTo("unknown") /\ UNCHANGED res

\* reconcileCapturedCandidatePromotion, after the journal is read
Reconcile ==
    /\ pc = "reconcile" /\ candidate /\ journal.status \in Statuses
    /\ CleanupTemporaries
    /\ \/ /\ journal.status = "unknown" /\ Settle("unknown") /\ cur' = journal
       \/ journal.status \in {"committed", "rolled_back"} /\ SettledObservation
       \/ /\ journal.status = "rolling_back" /\ UNCHANGED res
          /\ LET progress == RollbackProgress(journal) IN
             \/ /\ progress # {} /\ GoTo("rolling")
                /\ cur' = [journal EXCEPT !.rollbackIndex = First(progress)]
             \/ progress = {} /\ cur' = journal /\ GoTo("unknown")
       \/ journal.status \in {"prepared", "applying"} /\ RollBack(journal) /\ UNCHANGED res
    /\ NoFault /\ UNCHANGED <<ws, extra, journal, blobs, candidate, lock, opt, mode, poisoned>>

\* The journal cannot be read.
ReconcileMissing ==
    /\ pc = "reconcile"
    /\ Throw("candidate_promotion_missing") /\ Fault
    /\ UNCHANGED <<diskVars, lock, opt, cur>>

\* The journal turns to rolling back before any step is undone.
Rolling ==
    /\ pc = "rolling"
    /\ \/ Written(cur) /\ GoTo(NextStep(cur)) /\ UNCHANGED <<mode, res, poisoned>>
       \/ WriteFails(cur) /\ ThrowRaw
    /\ UNCHANGED <<ws, extra, temps, blobs, candidate, lock, opt, cur>>

\* The end of finishRollback, or markUnknown
Conclude(phase, outcome) ==
    /\ pc = phase
    /\ cur' = [cur EXCEPT !.status = outcome]
    /\ \/ Written(cur') /\ Settle(outcome) /\ UNCHANGED <<mode, poisoned>>
       \/ WriteFails(cur') /\ ThrowRaw
    /\ UNCHANGED <<ws, extra, temps, blobs, candidate, lock, opt>>

Restored == Conclude("restored", "rolled_back")

\* Mutant of MarkUnknown: a rollback that stopped is reported as one that ended.
MarkRolledBack == Conclude("unknown", "rolled_back")

MarkUnknown == Conclude("unknown", "unknown")

-----------------------------------------------------------------------------
(* The caller.                                                             *)

\* The error a promotion throws once its settlement is on record.
SettledCode(outcome) == CASE outcome = "unknown" -> "candidate_promotion_uncertain"
                          [] outcome = "rolled_back" -> "candidate_promotion_rolled_back"
                          [] outcome = "committed" -> "none"

\* Mutant of EventSettled: a settlement that cannot be appended is compensated.
SettleOrCompensate ==
    /\ pc = "event_settled"
    /\ LET settled == [opt EXCEPT !.settlement = res.outcome] IN
       \/ /\ Recorded(settled) /\ GoTo("unlock")
          /\ res' = Result(res.outcome, SettledCode(res.outcome))
       \/ RecordFails(settled) /\ GoTo("compensate") /\ UNCHANGED res
    /\ UNCHANGED <<diskVars, lock, mode, cur>>

\* lifecycle.settle appends node_optimization_promotion_settled
EventSettled ==
    /\ pc = "event_settled"
    /\ GoTo("unlock")
    /\ LET settled == [opt EXCEPT !.settlement = res.outcome] IN
       \/ Recorded(settled) /\ res' = Result(res.outcome, SettledCode(res.outcome))
       \/ /\ RecordFails(settled)
          /\ res' = Result("none", IF res.outcome = "committed" THEN "candidate_promotion_uncertain"
                                   ELSE "candidate_promotion_failed")
    /\ UNCHANGED <<diskVars, lock, mode, cur>>

\* The process ends; a lock it could not unlink names a dead owner.
Exit == /\ GoTo("down")
        /\ lock' = CASE lock = "mine" -> "stale" [] lock = "opened" -> "torn" [] OTHER -> lock

SideEffect(code) ==
    CASE opt.settlement = "unknown" \/ code = "candidate_promotion_uncertain" -> "uncertain"
      [] opt.settlement = "committed" /\ code # "candidate_promotion_uncertain" -> "committed"
      [] OTHER -> "none"

\* failOptimizationCheck appends node_control_failed
Fail(code) ==
    LET failed == [opt EXCEPT !.status = "failed", !.code = code,
                              !.sideEffect = SideEffect(code)]
    IN \/ ~poisoned /\ Recorded(failed) /\ Exit
       \/ ~poisoned /\ RecordFails(failed) /\ Exit
       \/ poisoned /\ Exit /\ NoFault /\ UNCHANGED <<opt, poisoned>>

\* promoteCandidateDelta or reconcileCandidatePromotion threw
Caught ==
    /\ pc = "returned" /\ res.code # "none"
    /\ Fail(res.code)
    /\ UNCHANGED <<diskVars, mode, cur, res>>

\* One of them returned; a reconciled settlement is recorded now.
Returned ==
    /\ pc = "returned" /\ res.code = "none"
    /\ \/ /\ mode = "promote" /\ GoTo("judge") /\ NoFault /\ UNCHANGED <<opt, poisoned, lock>>
       \/ /\ mode = "reconcile" /\ GoTo("judge") /\ UNCHANGED lock
          /\ Recorded([opt EXCEPT !.settlement = res.outcome])
       \/ /\ mode = "reconcile" /\ Exit
          /\ RecordFails([opt EXCEPT !.settlement = res.outcome])
    /\ UNCHANGED <<diskVars, mode, cur, res>>

Judge ==
    /\ pc = "judge"
    /\ \/ /\ opt.settlement = "committed" /\ GoTo("cleanup") /\ NoFault
          /\ UNCHANGED <<opt, poisoned, lock>>
       \/ opt.settlement \in {"rolled_back", "unknown"} /\ Fail(SettledCode(opt.settlement))
    /\ UNCHANGED <<diskVars, mode, cur, res>>

\* The candidate's directory goes, its journal with it; nothing to do when an
\* earlier process recorded the cleanup.
Cleanup ==
    /\ pc = "cleanup"
    /\ UNCHANGED <<ws, extra, temps, mode, cur, res>>
    /\ \/ /\ opt.cleaned /\ GoTo("check") /\ NoFault
          /\ UNCHANGED <<candidate, journal, blobs, lock, opt, poisoned>>
       \/ /\ ~opt.cleaned /\ candidate' = FALSE /\ RemoveDirectory /\ GoTo("event_cleaned")
          /\ NoFault /\ UNCHANGED <<lock, opt, poisoned>>

CleanupFails ==
    /\ pc = "cleanup" /\ ~opt.cleaned
    /\ Fault /\ Exit
    /\ opt' = [opt EXCEPT !.status = "failed", !.code = "candidate_workspace_cleanup_failed",
                          !.sideEffect = IF opt.settlement = "committed" THEN "committed" ELSE "none"]
    /\ UNCHANGED <<diskVars, callVars>>

EventCleaned ==
    /\ pc = "event_cleaned"
    /\ LET cleaned == [opt EXCEPT !.cleaned = TRUE] IN
       \/ Recorded(cleaned) /\ GoTo("check") /\ UNCHANGED lock
       \/ RecordFails(cleaned) /\ Exit
    /\ UNCHANGED <<diskVars, mode, cur, res>>

\* node_optimization_checked
Check ==
    /\ pc = "check"
    /\ LET checked == [opt EXCEPT !.status = IF opt.decision = "promote" /\ opt.settlement = "committed"
                                             THEN "accepted" ELSE "rejected"]
       IN Recorded(checked) \/ RecordFails(checked)
    /\ Exit /\ UNCHANGED <<diskVars, mode, cur, res>>

-----------------------------------------------------------------------------
(* The world around the process.                                           *)

Crash ==
    /\ pc # "down" /\ crashes < MaxCrashes
    /\ crashes' = crashes + 1 /\ Exit
    /\ blurred' = (blurred \/ (pc = "chmod" /\ ws[StepPath] # To))
    /\ cur' = NoDirectory /\ res' = NoResult
    /\ UNCHANGED <<diskVars, opt, mode, poisoned, faults, edits>>

\* Another program replaces or removes an affected entry that is no directory
\* of the delta, or adds an entry to one that is.
EditPath(p) ==
    /\ edits < MaxEdits /\ edits' = edits + 1
    /\ Children(p) = {} /\ HasParent(p)
    /\ \E id \in {Foreign, Missing} \ {ws[p]} : ws' = [ws EXCEPT ![p] = id]
    /\ extra' = extra \ {p}
    /\ UNCHANGED <<temps, journal, blobs, candidate, lock, opt, pc, callVars, crashes, faults, blurred>>

AddEntry(d) ==
    /\ edits < MaxEdits /\ edits' = edits + 1
    /\ ws[d].kind = "directory" /\ d \notin extra
    /\ extra' = extra \cup {d}
    /\ UNCHANGED <<ws, temps, journal, blobs, candidate, lock, opt, pc, callVars, crashes, faults, blurred>>

\* Another run promotes in the same workspace.
OtherLocks == lock = "free" /\ lock' = "other"
              /\ UNCHANGED <<diskVars, opt, pc, callVars, countVars>>
OtherUnlocks == lock = "other" /\ lock' = "free"
                /\ UNCHANGED <<diskVars, opt, pc, callVars, countVars>>

Acquire == LockOpen \/ LockRemoveStale \/ LockBusy \/ LockWrite \/ Unlock
Prepare == Freshness \/ MakeDirectory \/ CaptureRollback \/ JournalPrepared
           \/ EventPrepared \/ Refused \/ Enter
Apply == StepObserve \/ StepRemove \/ StepMkdir \/ StepChmod \/ StepTemporary \/ StepRename
         \/ StepFails \/ StepRecord \/ Verify \/ Commit
Recover == Compensate \/ Reconcile \/ ReconcileMissing \/ Rolling \/ Restored \/ MarkUnknown
Caller == Dispatch \/ EventSettled \/ Caught \/ Returned \/ Judge \/ Cleanup \/ CleanupFails
          \/ EventCleaned \/ Check
Process == Resume \/ Acquire \/ Prepare \/ Apply \/ Recover \/ Caller

World == Crash \/ (\E p \in Paths : EditPath(p) \/ AddEntry(p)) \/ OtherLocks \/ OtherUnlocks

Next == Process \/ World

Spec == Init /\ [][Next]_vars

\* The process keeps running and a run left unfinished is resumed.
FairSpec == Spec /\ WF_vars(Process)

-----------------------------------------------------------------------------
(* What the promotion promises.                                            *)

Undisturbed == edits = 0
Settled == opt.settlement # "none"

\* A settlement on record says what the files are, whatever crashes and failed
\* writes came between the steps: a committed promotion is there entirely, a
\* rolled back one left nothing, and neither left a temporary behind.  A check
\* that failed with no side effects left the files as it found them, as long as
\* every write of the journal succeeded.
SettlementTellsFiles ==
    /\ opt.settlement \in {"committed", "rolled_back"} => temps = {}
    /\ Undisturbed => /\ opt.settlement = "committed" => Matches(N)
                      /\ opt.settlement = "rolled_back" => Matches(0)
                      /\ faults = 0 /\ opt.status = "failed" /\ opt.sideEffect = "none" => Matches(0)

\* No affected path is entered before the prepare event is durable, with the
\* bytes needed to restore it saved: recovery.md's write-ahead guarantee.
EnteredAfterPrepare ==
    Undisturbed /\ ws # Before =>
        /\ opt.prepared
        /\ opt.settlement # "committed" => PreimageFiles \subseteq blobs

\* Crashes alone, at whatever step of whichever recovery, never lose track of
\* the files: unknown is reached only after another program's edit, a failed
\* write or the window between a mkdir and its chmod.
ConclusiveUnlessDiverged ==
    Undisturbed /\ faults = 0 /\ ~blurred =>
        opt.settlement # "unknown" /\ journal.status # "unknown"

\* Once a settlement is on record no process changes an affected path again:
\* a committed promotion is neither applied again nor taken back.
SettledIsFinal == [][Settled /\ edits' = edits => ws' = ws /\ opt'.settlement = opt.settlement]_vars

\* A commit the local journal records is reconciled forward: it is settled, or
\* the check fails without claiming that nothing happened.
CommitAcknowledged ==
    (journal.status = "committed" /\ faults = 0 /\ Undisturbed)
        ~> (opt.settlement = "committed" \/ opt.sideEffect = "uncertain"
            \/ faults # 0 \/ ~Undisturbed)

\* workflow-spec.md: "Interruption before prepare retries promotion from the same
\* captured delta", so it never fails on what the interrupted attempt left.
InterruptionRetried == opt.code # "candidate_promotion_invalid"

=============================================================================
