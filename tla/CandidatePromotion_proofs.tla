----------------------- MODULE CandidatePromotion_proofs -----------------------
(***************************************************************************)
(* Proofs about candidate promotion, for every delta, every order of its   *)
(* steps and any number of crashes, failed writes and edits.               *)
(*                                                                         *)
(* First what each phase means for the ledger, the journal and the files   *)
(* (PromotionInv), then the bounds of the counters (RecordInv), then the   *)
(* order of the steps, and with it that files alone tell how far a process *)
(* that only ever crashed has come (QuietInv).                             *)
(***************************************************************************)
EXTENDS CandidatePromotion, FiniteSetTheorems, TLAPS

Journals == [status : Statuses \cup {"no_directory", "no_journal"}, nextStep : Nat,
             appliedSteps : Nat, rollbackIndex : Nat]
Checks == [decision : {"promote", "reject"}, prepared : BOOLEAN, settlement : Outcomes,
           cleaned : BOOLEAN, status : {"pending", "accepted", "rejected", "failed"},
           sideEffect : {"none", "committed", "uncertain"}, code : Codes]

ShapeOK ==
    /\ journal \in Journals /\ cur \in Journals
    /\ opt \in Checks /\ res \in [outcome : Outcomes, code : Codes]
    /\ pc \in Phases /\ mode \in {"promote", "reconcile"}
    /\ poisoned \in BOOLEAN
    /\ faults \in Nat /\ edits \in Nat

-----------------------------------------------------------------------------
(* Where the process stands and what the ledger says.                      *)

\* Outside the operation a settlement may be on record, inside it none is.
Outside == {"down", "dispatch", "unlock", "returned", "judge", "cleanup", "event_cleaned", "check"}
Preparing == {"fresh", "artifacts", "capture", "journal_prepared", "event_prepared"}
Loop == {"observe", "mutate", "chmod", "rename", "record", "verify"}
Entered == Loop \cup {"enter", "commit", "compensate", "reconcile", "rolling", "restored",
                      "unknown", "event_settled"}

PhaseInv ==
    /\ pc \notin Outside => opt.settlement = "none"
    /\ pc # "down" => opt.status = "pending"
    /\ opt.decision = "reject" =>
          ~opt.prepared /\ pc \in {"down", "dispatch", "cleanup", "event_cleaned", "check"}
    /\ opt.settlement # "none" => opt.prepared
    /\ pc \in {"lock", "opened"} => (mode = "reconcile" <=> opt.prepared)
    /\ pc \in Preparing => mode = "promote" /\ ~opt.prepared
    /\ pc \in Entered => opt.prepared
    /\ pc \in {"refused", "enter", "commit", "event_settled"} => mode = "promote"
    /\ pc = "reconcile" => mode = "reconcile"
    /\ pc \in {"unlock", "returned"} /\ mode = "reconcile" =>
          opt.settlement = "none" /\ opt.prepared
    /\ pc \in {"cleanup", "event_cleaned", "check"} =>
          opt.decision = "reject" \/ opt.settlement = "committed"
    /\ pc \in Loop \cup {"rolling"} =>
          /\ cur.status \in {"applying", "rolling_back"}
          /\ mode = "reconcile" => cur.status = "rolling_back"
    /\ pc = "event_settled" => res.outcome # "none"

\* The preimages are saved before the promotion is prepared, until it is settled.
BlobInv ==
    /\ pc \in {"journal_prepared", "event_prepared"} => PreimageFiles \subseteq blobs
    /\ opt.prepared /\ opt.settlement # "committed" => PreimageFiles \subseteq blobs

\* At most the temporary of the step at hand, unless a crash left one.
TempInv ==
    /\ ~opt.prepared => temps = {}
    /\ pc \in (Entered \ {"reconcile"}) \cup {"refused"} =>
          temps \subseteq (IF pc = "rename" THEN {<<StepIndex, Direction>>} ELSE {})
    /\ opt.settlement \in {"committed", "rolled_back"} => temps = {}
    /\ pc \in {"unlock", "returned"} /\ res.outcome \in {"committed", "rolled_back"} => temps = {}

\* What the files are, while no other program edits them.
FileInv ==
    edits = 0 =>
        /\ ~opt.prepared \/ pc = "refused" => ws = Before
        /\ pc = "commit" => Matches(N)
        /\ pc = "restored" => Matches(0)
        /\ opt.settlement = "committed" => Matches(N)
        /\ opt.settlement = "rolled_back" => Matches(0)
        /\ pc \in {"event_settled", "unlock", "returned"} =>
              /\ res.outcome = "committed" => Matches(N)
              /\ res.outcome = "rolled_back" => Matches(0)
        /\ faults = 0 =>
              /\ /\ pc \in {"unlock", "returned"} /\ opt.settlement = "none"
                 /\ res.code \notin {"none", "candidate_promotion_uncertain"}
                 => Matches(0)
              /\ opt.status = "failed" /\ opt.sideEffect = "none" => Matches(0)

PromotionInv == ShapeOK /\ PhaseInv /\ BlobInv /\ TempInv /\ FileInv

\* Nothing done leaves the preimage.
LEMMA NothingDone == Expected(0) = Before
<1>1. \A p \in Paths : {i \in 1 .. 0 : Steps[i].path = p} = {}
  OBVIOUS
<1>2. Expected(0) = [p \in Paths |-> Before[p]]
  BY <1>1 DEF Expected
<1> QED BY <1>2, DeltaAssumption

\* The count that the files show is the journaled one or the next.
LEMMA FirstOfTwo ==
    ASSUME NEW a \in Nat, NEW S \in SUBSET {a, a + 1}, S # {}
    PROVE  First(S) \in S /\ First(S) \in Nat
<1>1. \E k \in S : \A m \in S : k <= m
  <2>1. CASE a \in S
    <3>1. \A m \in S : a <= m
      OBVIOUS
    <3> QED BY <2>1, <3>1
  <2>2. CASE a \notin S
    <3>1. S = {a + 1}
      BY <2>2
    <3> QED BY <3>1
  <2> QED BY <2>1, <2>2
<1>2. First(S) \in S
  BY <1>1 DEF First
<1>3. \A x \in S : x \in Nat
  OBVIOUS
<1> QED BY <1>2, <1>3

\* The invariant holds when the evaluation is durable.
LEMMA InitPromotion == Init => PromotionInv
<1> SUFFICES ASSUME Init PROVE PromotionInv
  OBVIOUS
<1>1. PICK d \in {"promote", "reject"} :
         opt = [decision |-> d, prepared |-> FALSE, settlement |-> "none", cleaned |-> FALSE,
                status |-> "pending", sideEffect |-> "none", code |-> "none"]
  BY DEF Init
<1>2. opt \in Checks
  BY <1>1 DEF Checks, Outcomes, Codes
<1>3. NoDirectory \in Journals
  BY DEF Journals, NoDirectory, Journal
<1>4. NoResult \in [outcome : Outcomes, code : Codes]
  BY DEF NoResult, Result, Outcomes, Codes
<1>5. ShapeOK
  BY <1>2, <1>3, <1>4 DEF Init, ShapeOK, Phases
<1>6. /\ ~opt.prepared /\ opt.settlement = "none" /\ opt.status = "pending"
      /\ pc = "down" /\ ws = Before /\ temps = {}
  BY <1>1 DEF Init
<1>7. PhaseInv
  BY <1>6 DEF PhaseInv, Outside, Preparing, Entered, Loop
<1>8. BlobInv /\ TempInv /\ FileInv
  BY <1>6 DEF BlobInv, TempInv, FileInv, Entered, Loop
<1> QED BY <1>5, <1>7, <1>8 DEF PromotionInv

-----------------------------------------------------------------------------
(* The shape of the records.                                               *)

Results == [outcome : Outcomes, code : Codes]

\* Journals, results and checks made from well-formed ones are well formed.
LEMMA WellFormed ==
    /\ \A s \in Statuses \cup {"no_directory", "no_journal"} : Journal(s) \in Journals
    /\ \A j \in Journals : \A s \in Statuses : [j EXCEPT !.status = s] \in Journals
    /\ \A j \in Journals : \A k \in Nat : [j EXCEPT !.rollbackIndex = k] \in Journals
    /\ \A o \in Outcomes : \A c \in Codes : Result(o, c) \in Results
    /\ \A o \in Outcomes \ {"none"} : SettledCode(o) \in Codes
    /\ NoDirectory \in Journals /\ NoJournal \in Journals /\ NoResult \in Results
<1>1. \A s \in Statuses \cup {"no_directory", "no_journal"} : Journal(s) \in Journals
  BY DEF Journal, Journals
<1>2. \A j \in Journals : \A s \in Statuses : [j EXCEPT !.status = s] \in Journals
  BY DEF Journals
<1>6. \A j \in Journals : \A k \in Nat : [j EXCEPT !.rollbackIndex = k] \in Journals
  BY DEF Journals
<1>3. \A o \in Outcomes : \A c \in Codes : Result(o, c) \in Results
  BY DEF Result, Results
<1>4. \A o \in Outcomes \ {"none"} : SettledCode(o) \in Codes
  BY DEF Outcomes, SettledCode, Codes
<1>5. NoDirectory \in Journals /\ NoJournal \in Journals /\ NoResult \in Results
  BY <1>1, <1>3 DEF NoDirectory, NoJournal, NoResult, Outcomes, Codes
<1> QED BY <1>1, <1>2, <1>3, <1>4, <1>5, <1>6

\* Undoing starts from a journal.
LEMMA RollBackShape ==
    ASSUME NEW j \in Journals, RollBack(j)
    PROVE  /\ cur' \in Journals /\ pc' \in {"rolling", "unknown"}
           /\ pc' = "rolling" => cur'.status = "rolling_back"
<1>1. CASE ForwardProgress(j.nextStep) = {}
  BY <1>1 DEF RollBack, GoTo
<1>2. CASE ForwardProgress(j.nextStep) # {}
  <2>1. ForwardProgress(j.nextStep) \subseteq {j.nextStep, j.nextStep + 1} /\ j.nextStep \in Nat
    BY DEF ForwardProgress, Journals
  <2>2. First(ForwardProgress(j.nextStep)) \in Nat
    BY <1>2, <2>1, FirstOfTwo
  <2>3. /\ pc' = "rolling"
        /\ cur' = [j EXCEPT !.status = "rolling_back",
                            !.appliedSteps = First(ForwardProgress(j.nextStep)),
                            !.rollbackIndex = 0]
    BY <1>2 DEF RollBack, GoTo
  <2> QED BY <2>2, <2>3 DEF Journals, Statuses
<1> QED BY <1>1, <1>2

\* The counters.
LEMMA CountersKept ==
    ASSUME ShapeOK, NoFault \/ Fault
    PROVE  faults' \in Nat /\ edits' \in Nat /\ edits' = edits
BY DEF ShapeOK, NoFault, Fault, NoCrash, countVars

\* Steps up to the durable prepare keep the shape.
LEMMA PrepareShape ==
    ASSUME ShapeOK, Resume \/ Acquire \/ Prepare
    PROVE  ShapeOK'
<1> USE WellFormed DEF ShapeOK, Results
<1>1. faults' \in Nat /\ edits' \in Nat
  BY DEF Resume, Acquire, Prepare, LockOpen, LockRemoveStale, LockBusy, LockWrite, Unlock,
     Freshness, MakeDirectory, CaptureRollback, JournalPrepared, EventPrepared, Refused, Enter,
     NoFault, Fault, NoCrash, countVars, Written, WriteFails, Recorded, RecordFails
<1>2. pc' \in Phases /\ mode' \in {"promote", "reconcile"} /\ poisoned' \in BOOLEAN
  BY DEF Resume, Acquire, Prepare, LockOpen, LockRemoveStale, LockBusy, LockWrite, Unlock,
     Freshness, MakeDirectory, CaptureRollback, JournalPrepared, EventPrepared, Refused, Enter,
     GoTo, NextStep, Throw, ThrowRaw, Phases, callVars, Recorded, RecordFails
<1>3. res' \in Results
  <2>1. \/ res' = res \/ res' = NoResult
        \/ \E c \in Codes : res' = Result("none", c)
    <3> USE DEF Codes
    <3>1. CASE Resume \/ Acquire
      BY <3>1 DEF Resume, Acquire, LockOpen, LockRemoveStale, LockBusy, LockWrite, Unlock, callVars
    <3>2. CASE Prepare
      BY <3>2 DEF Prepare, Freshness, MakeDirectory, CaptureRollback, JournalPrepared,
         EventPrepared, Refused, Enter, Throw, ThrowRaw
    <3> QED BY <3>1, <3>2
  <2> QED BY <2>1 DEF Outcomes
<1>4. opt' \in Checks
  BY DEF Resume, Acquire, Prepare, LockOpen, LockRemoveStale, LockBusy, LockWrite, Unlock,
     Freshness, MakeDirectory, CaptureRollback, JournalPrepared, EventPrepared, Refused, Enter,
     Recorded, RecordFails, Checks
<1>5. journal' \in Journals /\ cur' \in Journals
  BY DEF Resume, Acquire, Prepare, LockOpen, LockRemoveStale, LockBusy, LockWrite, Unlock,
     Freshness, MakeDirectory, CaptureRollback, JournalPrepared, EventPrepared, Refused, Enter,
     diskVars, callVars, Written, WriteFails, RemoveDirectory, Statuses
<1> QED BY <1>1, <1>2, <1>3, <1>4, <1>5

\* Steps of the two loops keep the shape.
LEMMA ApplyShape ==
    ASSUME ShapeOK, Apply
    PROVE  ShapeOK'
<1> USE WellFormed DEF ShapeOK, Results
<1>1. faults' \in Nat /\ edits' \in Nat
  <2>1. NoFault \/ Fault
    BY DEF Apply, StepObserve, StepRemove, StepMkdir, StepChmod, StepTemporary, StepRename,
       StepFails, StepRecord, Verify, Commit, Written, WriteFails
  <2> QED BY <2>1, CountersKept
<1>2. pc' \in Phases
  BY DEF Apply, StepObserve, StepRemove, StepMkdir, StepChmod, StepTemporary, StepRename, StepFails,
     StepRecord, Verify, Commit, GoTo, OnError, NextStep, Phases
<1>3. mode' = mode /\ poisoned' = poisoned /\ opt' = opt
  BY DEF Apply, StepObserve, StepRemove, StepMkdir, StepChmod, StepTemporary, StepRename, StepFails,
     StepRecord, Verify, Commit, callVars
<1>4. Advanced \in Journals /\ Advanced.status = cur.status
  <2>1. cur.nextStep + 1 \in Nat /\ cur.rollbackIndex + 1 \in Nat
    BY DEF Journals
  <2>2. CASE Forward
    BY <2>1, <2>2 DEF Advanced, Journals
  <2>3. CASE ~Forward
    BY <2>1, <2>3 DEF Advanced, Journals
  <2> QED BY <2>2, <2>3
<1>5. journal' \in Journals /\ cur' \in Journals
  BY <1>4 DEF Apply, StepObserve, StepRemove, StepMkdir, StepChmod, StepTemporary, StepRename,
     StepFails, StepRecord, Verify, Commit, callVars, diskVars, Written, WriteFails, Statuses
<1>6. res' \in Results
  <2>1. res' = res \/ res' = Result("committed", "none")
    BY DEF Apply, StepObserve, StepRemove, StepMkdir, StepChmod, StepTemporary, StepRename,
       StepFails, StepRecord, Verify, Commit, callVars
  <2>2. "committed" \in Outcomes /\ "none" \in Codes
    BY DEF Outcomes, Codes
  <2> QED BY <2>1, <2>2
<1> QED BY <1>1, <1>2, <1>3, <1>5, <1>6

\* Compensation and reconciliation keep the shape.
LEMMA RecoverShape ==
    ASSUME ShapeOK, Recover
    PROVE  ShapeOK'
<1> USE WellFormed DEF ShapeOK, Results
<1>1. faults' \in Nat /\ edits' \in Nat
  BY DEF Recover, Compensate, Reconcile, ReconcileMissing, Rolling, Restored, MarkUnknown, Conclude,
     NoFault, Fault, NoCrash, countVars, Written, WriteFails
<1>2. mode' = mode /\ poisoned' = poisoned /\ opt' = opt
  BY DEF Recover, Compensate, Reconcile, ReconcileMissing, Rolling, Restored, MarkUnknown, Conclude,
     Throw, ThrowRaw, callVars
<1>3. journal.status \in Statuses => journal \in Journals /\ RollbackProgress(journal) \subseteq
         {journal.rollbackIndex, journal.rollbackIndex + 1} /\ journal.rollbackIndex \in Nat
  BY DEF RollbackProgress, Journals
<1>4. /\ pc' \in Phases /\ cur' \in Journals /\ journal' \in Journals
      /\ \/ res' = res \/ \E c \in Codes : res' = Result("none", c)
         \/ \E o \in Outcomes : res' = Result(o, "none")
  <2> USE DEF Outcomes, Codes
  <2>1. CASE Compensate
    BY <2>1, RollBackShape DEF Compensate, Throw, ThrowRaw, GoTo, Phases
  <2>2. CASE Reconcile
    <3>1. journal' = journal
      BY <2>2 DEF Reconcile
    <3>2. CASE journal.status = "unknown" /\ Settle("unknown") /\ cur' = journal
      BY <3>1, <3>2 DEF Settle, GoTo, Phases
    <3>3. CASE journal.status \in {"committed", "rolled_back"} /\ SettledObservation
      BY <3>1, <3>3 DEF SettledObservation, Settle, GoTo, Phases
    <3>4. CASE journal.status = "rolling_back" /\ UNCHANGED res /\
               (\/ /\ RollbackProgress(journal) # {} /\ GoTo("rolling")
                   /\ cur' = [journal EXCEPT !.rollbackIndex = First(RollbackProgress(journal))]
                \/ RollbackProgress(journal) = {} /\ cur' = journal /\ GoTo("unknown"))
      <4>1. RollbackProgress(journal) # {} => First(RollbackProgress(journal)) \in Nat
        BY <1>3, <3>4, FirstOfTwo DEF Statuses
      <4>2. cur' \in Journals
        <5>1. CASE RollbackProgress(journal) = {}
          BY <3>4, <5>1
        <5>2. CASE RollbackProgress(journal) # {}
          <6>1. [journal EXCEPT !.rollbackIndex = First(RollbackProgress(journal))] \in Journals
            BY <4>1, <5>2 DEF Journals
          <6> QED BY <3>4, <5>2, <6>1
        <5> QED BY <5>1, <5>2
      <4> QED BY <3>1, <3>4, <4>2 DEF GoTo, Phases
    <3>5. CASE RollBack(journal) /\ UNCHANGED res
      BY <3>1, <3>5, RollBackShape DEF Phases
    <3> QED BY <2>2, <3>2, <3>3, <3>4, <3>5 DEF Reconcile
  <2>3. CASE ReconcileMissing
    BY <2>3 DEF ReconcileMissing, Throw, GoTo, diskVars, Phases
  <2>4. CASE Rolling
    <3>1. pc' \in Phases
      BY <2>4 DEF Rolling, ThrowRaw, Throw, GoTo, NextStep, Phases
    <3>2. cur' \in Journals /\ journal' \in Journals
      BY <2>4 DEF Rolling, Written, WriteFails
    <3>3. res' = res \/ res' = Result("none", "candidate_promotion_failed")
      BY <2>4 DEF Rolling, ThrowRaw, Throw
    <3> QED BY <3>1, <3>2, <3>3
  <2>5. CASE Restored \/ MarkUnknown
    <3>1. pc' \in Phases
      BY <2>5 DEF Restored, MarkUnknown, Conclude, ThrowRaw, Throw, GoTo, Settle, Phases
    <3>2. PICK s \in {"rolled_back", "unknown"} :
             /\ cur' = [cur EXCEPT !.status = s] /\ journal' \in {journal, cur'}
             /\ res' = Result(s, "none") \/ res' = Result("none", "candidate_promotion_failed")
      BY <2>5 DEF Restored, MarkUnknown, Conclude, ThrowRaw, Throw, Settle, Written, WriteFails
    <3>3. cur' \in Journals /\ journal' \in Journals
      <4>1. s \in Statuses
        BY DEF Statuses
      <4>2. [cur EXCEPT !.status = s] \in Journals
        BY <4>1 DEF Journals
      <4>3. cur' \in Journals
        BY <3>2, <4>2
      <4>4. journal \in Journals /\ (journal' = journal \/ journal' = cur')
        BY <3>2
      <4> QED BY <4>3, <4>4
    <3> QED BY <3>1, <3>2, <3>3
  <2> QED BY <2>1, <2>2, <2>3, <2>4, <2>5 DEF Recover
<1>5. "none" \in Outcomes /\ "none" \in Codes
  BY DEF Outcomes, Codes
<1>6. res' \in Results
  BY <1>4, <1>5
<1> QED BY <1>1, <1>2, <1>4, <1>6

\* The caller keeps the shape, and so does the world.
LEMMA CallerShape ==
    ASSUME ShapeOK, PhaseInv, Caller \/ World
    PROVE  ShapeOK'
<1> USE WellFormed DEF ShapeOK, Results
<1>1. faults' \in Nat /\ edits' \in Nat
  <2>1. CASE Caller
    <3>1. NoFault \/ Fault
      BY <2>1 DEF Caller, Dispatch, EventSettled, Caught, Returned, Judge, Cleanup, CleanupFails,
         EventCleaned, Check, Fail, Recorded, RecordFails
    <3> QED BY <3>1, CountersKept
  <2>2. CASE World
    BY <2>2 DEF World, Crash, EditPath, AddEntry, OtherLocks, OtherUnlocks, countVars
  <2> QED BY <2>1, <2>2
<1>2. pc' \in Phases /\ mode' \in {"promote", "reconcile"} /\ poisoned' \in BOOLEAN
  <2>1. CASE Dispatch \/ EventSettled \/ Returned
    BY <2>1 DEF Dispatch, EventSettled, Returned, Exit, Recorded, RecordFails, GoTo, Phases
  <2>2. CASE Caught \/ Judge
    BY <2>2 DEF Caught, Judge, Fail, Exit, Recorded, RecordFails, GoTo, Phases
  <2>3. CASE Cleanup \/ CleanupFails \/ EventCleaned \/ Check
    BY <2>3 DEF Cleanup, CleanupFails, EventCleaned, Check, Exit, Recorded, RecordFails, GoTo,
       Phases, callVars
  <2>4. CASE World
    BY <2>4 DEF World, Crash, EditPath, AddEntry, OtherLocks, OtherUnlocks, Exit, GoTo, Phases,
       callVars
  <2> QED BY <2>1, <2>2, <2>3, <2>4 DEF Caller
<1>3. journal' \in Journals /\ cur' \in Journals
  BY DEF Caller, Dispatch, EventSettled, Caught, Returned, Judge, Cleanup, CleanupFails,
     EventCleaned, Check, RemoveDirectory, diskVars, callVars,
     World, Crash, EditPath, AddEntry, OtherLocks, OtherUnlocks
<1>4. res' \in Results
  <2>1. CASE EventSettled
    <3>1. res.outcome \in Outcomes /\ pc = "event_settled"
      BY <2>1 DEF EventSettled
    <3>2. res.outcome # "none" /\ SettledCode(res.outcome) \in Codes
      BY <3>1 DEF PhaseInv
    <3>3. {"candidate_promotion_uncertain", "candidate_promotion_failed"} \subseteq Codes
          /\ "none" \in Outcomes
      BY DEF Codes, Outcomes
    <3>4. \E o \in Outcomes, c \in Codes : res' = Result(o, c)
      BY <2>1, <3>1, <3>2, <3>3 DEF EventSettled
    <3> QED BY <3>4
  <2> QED BY <2>1 DEF Caller, Dispatch, Caught, Returned, Judge, Cleanup, CleanupFails,
     EventCleaned, Check, callVars, World, Crash, EditPath, AddEntry, OtherLocks, OtherUnlocks
<1>5. opt' \in Checks
  <2>1. \A c \in Codes : SideEffect(c) \in {"none", "committed", "uncertain"}
    BY DEF SideEffect
  <2>2. \A c \in Codes : [opt EXCEPT !.status = "failed", !.code = c, !.sideEffect = SideEffect(c)]
           \in Checks
    BY <2>1 DEF Checks
  <2>3. ASSUME NEW c \in Codes, Fail(c) PROVE opt' \in Checks
    BY <2>2, <2>3 DEF Fail, Recorded, RecordFails
  <2>4. CASE Caught
    BY <2>3, <2>4 DEF Caught
  <2>5. CASE Judge
    <3>1. opt.settlement \in {"rolled_back", "unknown"} => SettledCode(opt.settlement) \in Codes
      BY DEF Outcomes
    <3> QED BY <2>3, <2>5, <3>1 DEF Judge
  <2>6. CASE EventSettled \/ Returned
    BY <2>6 DEF EventSettled, Returned, Recorded, RecordFails, Checks
  <2>7. CASE CleanupFails \/ EventCleaned \/ Check
    <3>1. CASE EventCleaned \/ Check
      BY <3>1 DEF EventCleaned, Check, Recorded, RecordFails, Checks
    <3>2. CASE CleanupFails
      <4>1. "candidate_workspace_cleanup_failed" \in Codes
        BY DEF Codes
      <4> QED BY <3>2, <4>1 DEF CleanupFails, Checks
    <3> QED BY <2>7, <3>1, <3>2
  <2> QED BY <2>4, <2>5, <2>6, <2>7 DEF Caller, Dispatch, Cleanup, World, Crash, EditPath,
          AddEntry, OtherLocks, OtherUnlocks
<1> QED BY <1>1, <1>2, <1>3, <1>4, <1>5

\* Every step keeps the shape.
LEMMA StepShape ==
    ASSUME ShapeOK, PhaseInv, [Next]_vars
    PROVE  ShapeOK'
<1>1. CASE UNCHANGED vars
  BY <1>1 DEF ShapeOK, vars, diskVars, callVars, countVars
<1> QED BY <1>1, PrepareShape, ApplyShape, RecoverShape, CallerShape DEF Next, Process

-----------------------------------------------------------------------------
(* Phases.                                                                 *)

\* Taking the lock and preparing.
LEMMA PreparePhases ==
    ASSUME ShapeOK, PhaseInv, Resume \/ Acquire \/ Prepare
    PROVE  PhaseInv'
<1> USE DEF ShapeOK, Checks, PhaseInv, Outside, Preparing, Entered, Loop, GoTo
<1>1. CASE Resume
  BY <1>1 DEF Resume
<1>2. CASE LockOpen \/ LockRemoveStale \/ LockBusy \/ LockWrite
  BY <1>2 DEF LockOpen, LockRemoveStale, LockBusy, LockWrite, callVars
<1>3. CASE Unlock
  BY <1>3 DEF Unlock
<1>4. CASE Freshness \/ MakeDirectory \/ CaptureRollback \/ JournalPrepared
  BY <1>4 DEF Freshness, MakeDirectory, CaptureRollback, JournalPrepared, Throw, ThrowRaw
<1>5. CASE EventPrepared
  BY <1>5 DEF EventPrepared, Recorded, RecordFails
<1>6. CASE Refused
  BY <1>6 DEF Refused, Throw, ThrowRaw
<1>7. CASE Enter
  BY <1>7, WellFormed DEF Enter, NextStep, Throw, ThrowRaw, Journal
<1> QED BY <1>1, <1>2, <1>3, <1>4, <1>5, <1>6, <1>7 DEF Acquire, Prepare

\* The loops: forwards only in a promotion.
LEMMA ApplyPhases ==
    ASSUME ShapeOK, PhaseInv, Apply
    PROVE  PhaseInv'
<1> USE DEF ShapeOK, PhaseInv, Outside, Preparing, Entered, Loop, GoTo
<1>1. CASE StepObserve \/ StepRemove \/ StepMkdir \/ StepChmod \/ StepTemporary \/ StepRename
  <2>1. UNCHANGED <<opt, callVars>> /\ pc \in Loop /\ pc' \in Loop \cup {OnError}
    BY <1>1 DEF StepObserve, StepRemove, StepMkdir, StepChmod, StepTemporary, StepRename
  <2> QED BY <2>1 DEF OnError, callVars, Forward
<1>2. CASE StepFails
  BY <1>2 DEF StepFails, OnError, Forward, callVars
<1>3. CASE StepRecord
  <2>1. Advanced.status = cur.status
    BY DEF Advanced, Journals
  <2> QED BY <1>3, <2>1 DEF StepRecord, OnError, Forward, NextStep
<1>4. CASE Verify
  BY <1>4 DEF Verify, OnError, Forward, callVars
<1>5. CASE Commit
  BY <1>5 DEF Commit, Result
<1> QED BY <1>1, <1>2, <1>3, <1>4, <1>5 DEF Apply

\* Compensation and reconciliation: backwards only.
LEMMA RecoverPhases ==
    ASSUME ShapeOK, PhaseInv, Recover
    PROVE  PhaseInv'
<1> USE DEF ShapeOK, PhaseInv, Outside, Preparing, Entered, Loop, GoTo
<1>1. CASE Compensate
  BY <1>1, RollBackShape DEF Compensate, Throw, ThrowRaw
<1>2. CASE Reconcile
  <2>1. opt' = opt /\ mode' = mode /\ pc = "reconcile" /\ mode = "reconcile"
    BY <1>2 DEF Reconcile
  <2>2. pc' \in {"rolling", "unknown", "unlock"}
        /\ (pc' = "rolling" => cur'.status = "rolling_back")
    <3>1. CASE RollBack(journal)
      BY <3>1, RollBackShape
    <3>2. CASE SettledObservation \/ Settle("unknown")
      BY <2>1, <3>2 DEF SettledObservation, Settle
    <3> QED BY <1>2, <3>1, <3>2 DEF Reconcile, Journals
  <2> QED BY <2>1, <2>2
<1>3. CASE ReconcileMissing
  BY <1>3 DEF ReconcileMissing, Throw
<1>4. CASE Rolling
  BY <1>4 DEF Rolling, NextStep, Throw, ThrowRaw
<1>5. CASE Restored \/ MarkUnknown
  BY <1>5 DEF Restored, MarkUnknown, Conclude, Settle, Result, Throw, ThrowRaw
<1> QED BY <1>1, <1>2, <1>3, <1>4, <1>5 DEF Recover

\* The caller and the world.
LEMMA CallerPhases ==
    ASSUME ShapeOK, PhaseInv, Caller \/ World \/ UNCHANGED vars
    PROVE  PhaseInv'
<1> USE DEF ShapeOK, Checks, PhaseInv, Outside, Preparing, Entered, Loop, GoTo
<1>1. CASE Dispatch
  BY <1>1 DEF Dispatch
<1>2. CASE EventSettled
  BY <1>2 DEF EventSettled, Recorded, RecordFails
<1>3. ASSUME NEW c, Fail(c), pc \in {"returned", "judge"} PROVE PhaseInv'
  BY <1>3 DEF Fail, Recorded, RecordFails, Exit
<1>4. CASE Caught
  BY <1>3, <1>4 DEF Caught
<1>5. CASE Returned
  BY <1>5 DEF Returned, Recorded, RecordFails, Exit
<1>6. CASE Judge
  BY <1>3, <1>6 DEF Judge
<1>7. CASE Cleanup \/ CleanupFails
  BY <1>7 DEF Cleanup, CleanupFails, Exit, callVars
<1>8. CASE EventCleaned \/ Check
  BY <1>8 DEF EventCleaned, Check, Recorded, RecordFails, Exit
<1>9. CASE Crash
  BY <1>9 DEF Crash, Exit
<1>10. CASE UNCHANGED <<opt, pc, callVars>>
  BY <1>10 DEF callVars
<1> QED BY <1>1, <1>2, <1>4, <1>5, <1>6, <1>7, <1>8, <1>9, <1>10
       DEF Caller, World, EditPath, AddEntry, OtherLocks, OtherUnlocks, vars

\* Every step keeps the phases.
LEMMA StepPhases ==
    ASSUME ShapeOK, PhaseInv, [Next]_vars
    PROVE  PhaseInv'
BY PreparePhases, ApplyPhases, RecoverPhases, CallerPhases DEF Next, Process

-----------------------------------------------------------------------------
(* Preimages and temporaries.                                              *)

\* Every step keeps the preimages that may still be needed.
LEMMA StepBlobs ==
    ASSUME ShapeOK, PhaseInv, BlobInv, [Next]_vars
    PROVE  BlobInv'
<1> USE DEF ShapeOK, Checks, PhaseInv, Entered, Loop, Preparing, BlobInv, GoTo
<1>1. CASE CaptureRollback
  BY <1>1 DEF CaptureRollback, RemoveDirectory, Throw, ThrowRaw
<1>2. CASE JournalPrepared
  BY <1>2 DEF JournalPrepared, RemoveDirectory, Throw, ThrowRaw
<1>3. CASE EventPrepared
  BY <1>3 DEF EventPrepared, Recorded, RecordFails, diskVars
<1>4. CASE Cleanup
  BY <1>4 DEF Cleanup, RemoveDirectory
<1>5. ASSUME UNCHANGED blobs, opt'.prepared = opt.prepared,
             opt.settlement = "committed" => opt'.settlement = "committed",
             pc' \notin {"journal_prepared", "event_prepared"} \/ pc' = pc
      PROVE  BlobInv'
  BY <1>5
<1>6. CASE Resume \/ Acquire
  BY <1>5, <1>6 DEF Resume, Acquire, LockOpen, LockRemoveStale, LockBusy, LockWrite, Unlock, diskVars
<1>7. CASE Freshness \/ MakeDirectory \/ Refused \/ Enter
  BY <1>5, <1>7 DEF Freshness, MakeDirectory, Refused, Enter, NextStep, diskVars, Throw, ThrowRaw
<1>8. CASE Apply
  BY <1>5, <1>8 DEF Apply, StepObserve, StepRemove, StepMkdir, StepChmod, StepTemporary, StepRename,
     StepFails, StepRecord, Verify, Commit, OnError, NextStep, diskVars
<1>9. CASE Recover
  <2>1. UNCHANGED <<blobs, opt>>
    BY <1>9 DEF Recover, Compensate, Reconcile, ReconcileMissing, Rolling, Restored, MarkUnknown,
       Conclude, diskVars
  <2>2. pc' \notin {"journal_prepared", "event_prepared"}
    BY <1>9 DEF Recover, Compensate, Reconcile, ReconcileMissing, Rolling, Restored, MarkUnknown,
       Conclude, RollBack, Settle, SettledObservation, Throw, ThrowRaw, NextStep
  <2> QED BY <1>5, <2>1, <2>2
<1>10. CASE Dispatch \/ EventSettled \/ Returned
  BY <1>5, <1>10 DEF Dispatch, EventSettled, Returned, Recorded, RecordFails, Exit, diskVars, Outside
<1>11. CASE Caught \/ Judge
  <2>1. PICK c : \/ Fail(c) /\ UNCHANGED diskVars
                 \/ pc' = "cleanup" /\ UNCHANGED <<diskVars, opt>>
    BY <1>11 DEF Caught, Judge
  <2> QED BY <1>5, <2>1 DEF Fail, Recorded, RecordFails, Exit, diskVars
<1>12. CASE CleanupFails \/ EventCleaned \/ Check
  BY <1>5, <1>12 DEF CleanupFails, EventCleaned, Check, Recorded, RecordFails, Exit, diskVars
<1>13. CASE World \/ UNCHANGED vars
  BY <1>5, <1>13 DEF World, Crash, EditPath, AddEntry, OtherLocks, OtherUnlocks, Exit, diskVars, vars
<1> QED BY <1>1, <1>2, <1>3, <1>4, <1>6, <1>7, <1>8, <1>9, <1>10, <1>11, <1>12, <1>13
       DEF Next, Process, Prepare, Caller

\* Every step keeps the account of the temporaries.
LEMMA StepTemps ==
    ASSUME ShapeOK, PhaseInv, TempInv, [Next]_vars
    PROVE  TempInv'
<1> USE DEF ShapeOK, Checks, PhaseInv, Entered, Loop, Preparing, Outside, TempInv, GoTo
<1>1. CASE Resume \/ LockOpen \/ LockRemoveStale \/ LockBusy \/ LockWrite
  BY <1>1 DEF Resume, LockOpen, LockRemoveStale, LockBusy, LockWrite, diskVars, NoResult, Result
<1>2. CASE Unlock
  BY <1>2 DEF Unlock, diskVars, Result
<1>3. CASE Freshness \/ MakeDirectory \/ CaptureRollback \/ JournalPrepared
  BY <1>3 DEF Freshness, MakeDirectory, CaptureRollback, JournalPrepared, Throw, ThrowRaw, Result,
     diskVars
<1>4. CASE EventPrepared
  BY <1>4 DEF EventPrepared, Recorded, RecordFails, diskVars
<1>5. CASE Refused \/ Enter
  BY <1>5 DEF Refused, Enter, Throw, ThrowRaw, Result
<1>6. CASE StepObserve \/ StepRemove \/ StepMkdir \/ StepChmod \/ StepFails
  <2>1. temps' \subseteq temps /\ UNCHANGED <<opt, callVars>> /\ pc' \in Loop \cup {OnError}
        /\ pc' # "rename" /\ pc \in Loop /\ (pc = "rename" => temps' = {})
    BY <1>6 DEF StepObserve, StepRemove, StepMkdir, StepChmod, StepFails, OnError, diskVars
  <2> QED BY <2>1 DEF OnError, callVars
<1>7. CASE StepTemporary
  <2>1. UNCHANGED <<opt, callVars>> /\ temps = {} /\ opt.prepared /\ opt.settlement = "none"
    BY <1>7 DEF StepTemporary
  <2>2. CASE pc' = "rename"
    <3>1. temps' = {<<StepIndex, Direction>>}
      BY <1>7, <2>1, <2>2 DEF StepTemporary, OnError
    <3>2. StepIndex' = StepIndex /\ Direction' = Direction
      BY <2>1 DEF StepIndex, Direction, Forward, callVars
    <3> QED BY <2>1, <2>2, <3>1, <3>2
  <2>3. CASE pc' # "rename"
    <3>1. temps' = {} /\ pc' = OnError
      BY <1>7, <2>1, <2>3 DEF StepTemporary
    <3> QED BY <2>1, <3>1 DEF OnError
  <2> QED BY <2>2, <2>3
<1>8. CASE StepRename
  <2>1. UNCHANGED <<opt, callVars>> /\ temps' = {} /\ pc' \in {"record", OnError}
    BY <1>8 DEF StepRename
  <2> QED BY <2>1 DEF OnError
<1>9. CASE StepRecord \/ Verify \/ Commit
  <2>1. UNCHANGED <<opt, temps>> /\ temps = {}
    BY <1>9 DEF StepRecord, Verify, Commit, diskVars
  <2> QED BY <2>1
<1>10. CASE Recover
  <2>1. temps' = {} \/ ReconcileMissing
    BY <1>10 DEF Recover, Compensate, Reconcile, Rolling, Restored, MarkUnknown, Conclude,
       CleanupTemporaries, diskVars
  <2>2. CASE temps' = {}
    BY <2>2
  <2>3. CASE ReconcileMissing
    BY <2>3 DEF ReconcileMissing, Throw, Result, diskVars
  <2> QED BY <2>1, <2>2, <2>3
<1>11. CASE Dispatch
  BY <1>11 DEF Dispatch, diskVars
<1>12. CASE EventSettled
  <2>1. temps' = {}
    BY <1>12 DEF EventSettled, diskVars
  <2> QED BY <2>1
<1>13. CASE Returned
  BY <1>13 DEF Returned, Recorded, RecordFails, Exit, diskVars
<1>14. CASE Caught \/ Judge
  <2>1. PICK c : \/ Fail(c) /\ UNCHANGED <<diskVars, res>>
                 \/ pc' = "cleanup" /\ UNCHANGED <<diskVars, opt, res>>
    BY <1>14 DEF Caught, Judge
  <2>2. temps' = temps /\ pc' \in {"down", "cleanup"}
    BY <2>1 DEF Fail, Exit, diskVars
  <2>3. opt'.prepared = opt.prepared /\ opt'.settlement = opt.settlement
    BY <2>1 DEF Fail, Recorded, RecordFails
  <2> QED BY <2>2, <2>3
<1>15. CASE Cleanup \/ CleanupFails \/ EventCleaned \/ Check
  BY <1>15 DEF Cleanup, CleanupFails, EventCleaned, Check, Recorded, RecordFails, Exit, diskVars
<1>16. CASE Crash
  BY <1>16 DEF Crash, Exit, diskVars
<1>17. CASE UNCHANGED <<temps, opt, pc, callVars>>
  BY <1>17 DEF callVars, StepIndex, Direction, Forward
<1> QED BY <1>1, <1>2, <1>3, <1>4, <1>5, <1>6, <1>7, <1>8, <1>9, <1>10, <1>11, <1>12, <1>13,
          <1>14, <1>15, <1>16, <1>17
       DEF Next, Process, Acquire, Prepare, Apply, Caller, World, EditPath, AddEntry, OtherLocks,
           OtherUnlocks, vars, diskVars

-----------------------------------------------------------------------------
(* The files.                                                              *)

\* A failed write is one; nothing else touches the counters of a step.
LEMMA FaultCounted ==
    ASSUME ShapeOK, Fault
    PROVE  faults' # 0 /\ edits' = edits
BY DEF ShapeOK, Fault, NoCrash

\* Taking the lock and preparing leave the files alone.
LEMMA PrepareFiles ==
    ASSUME ShapeOK, PhaseInv, FileInv, Resume \/ Acquire \/ Prepare
    PROVE  FileInv'
<1> USE NothingDone, FaultCounted DEF Checks, PhaseInv, Entered, Loop, Preparing, Outside, FileInv,
        GoTo, Matches, NoFault, countVars
<1>1. CASE Resume
  BY <1>1 DEF Resume, diskVars
<1>2. CASE LockOpen \/ LockRemoveStale \/ LockBusy \/ LockWrite
  BY <1>2 DEF LockOpen, LockRemoveStale, LockBusy, LockWrite, diskVars, callVars, Result
<1>3. CASE Unlock
  BY <1>3 DEF Unlock, diskVars, Result
<1>4. CASE Freshness \/ MakeDirectory
  BY <1>4 DEF Freshness, MakeDirectory, Throw, Result, diskVars
<1>5. CASE CaptureRollback
  BY <1>5 DEF CaptureRollback, Throw, ThrowRaw, Result
<1>6. CASE JournalPrepared
  BY <1>6 DEF JournalPrepared, Written, Throw, ThrowRaw, Result
<1>7. CASE EventPrepared
  BY <1>7 DEF EventPrepared, Recorded, RecordFails, diskVars, ShapeOK
<1>8. CASE Refused
  BY <1>8 DEF Refused, Written, WriteFails, Throw, ThrowRaw, Result
<1>9. CASE Enter
  BY <1>9 DEF Enter, NextStep, Written, WriteFails, Throw, ThrowRaw, Result
<1> QED BY <1>1, <1>2, <1>3, <1>4, <1>5, <1>6, <1>7, <1>8, <1>9 DEF Acquire, Prepare

\* The loops change files only while nothing is said of them, and what is committed
\* or restored was verified.
LEMMA ApplyFiles ==
    ASSUME ShapeOK, PhaseInv, FileInv, Apply
    PROVE  FileInv'
<1> USE FaultCounted DEF ShapeOK, Checks, PhaseInv, Entered, Loop, Preparing, Outside, FileInv,
        GoTo, NoFault, countVars
<1>1. CASE \/ StepObserve \/ StepRemove \/ StepMkdir \/ StepChmod \/ StepTemporary \/ StepRename
           \/ StepFails \/ StepRecord
  <2>1. opt' = opt /\ pc \in Loop /\ pc' \in Loop \cup {"compensate", "unknown"}
    BY <1>1 DEF StepObserve, StepRemove, StepMkdir, StepChmod, StepTemporary, StepRename, StepFails,
       StepRecord, OnError, NextStep
  <2> QED BY <2>1
<1>2. CASE Verify
  <2>1. /\ opt' = opt /\ pc = "verify" /\ ws' = ws
        /\ \/ pc' = "commit" /\ Matches(N)
           \/ pc' = "restored" /\ Matches(0)
           \/ pc' \in {"compensate", "unknown"}
    BY <1>2 DEF Verify, OnError, diskVars
  <2> QED BY <2>1 DEF Matches
<1>3. CASE Commit
  BY <1>3 DEF Commit, Written, WriteFails, Result, Matches
<1> QED BY <1>1, <1>2, <1>3 DEF Apply

\* Compensation and reconciliation say of the files what they have verified.
LEMMA RecoverFiles ==
    ASSUME ShapeOK, PhaseInv, FileInv, Recover
    PROVE  FileInv'
<1> USE FaultCounted DEF ShapeOK, Checks, PhaseInv, Entered, Loop, Preparing, Outside, FileInv,
        GoTo, NoFault, countVars
<1>0. UNCHANGED <<ws, opt>> /\ opt.prepared /\ opt.settlement = "none" /\ opt.status = "pending"
  BY DEF Recover, Compensate, Reconcile, ReconcileMissing, Rolling, Restored, MarkUnknown,
     Conclude, diskVars
<1>1. CASE Compensate
  <2>1. pc' \in {"rolling", "unknown"} \/ (Fault /\ res'.outcome = "none" /\ pc' = "unlock")
    BY <1>1 DEF Compensate, RollBack, Throw, ThrowRaw, Result
  <2> QED BY <1>0, <2>1
<1>2. CASE Reconcile
  <2>1. \/ pc' \in {"rolling", "unknown"}
        \/ /\ pc' = "unlock" /\ res'.code = "none"
           /\ \/ res'.outcome = "unknown"
              \/ res'.outcome = "committed" /\ Matches(N)
              \/ res'.outcome = "rolled_back" /\ Matches(0)
    <3>1. mode = "reconcile"
      BY <1>2 DEF Reconcile
    <3>2. CASE SettledObservation /\ journal.status \in {"committed", "rolled_back"}
      BY <3>1, <3>2 DEF SettledObservation, Settle, Result
    <3> QED BY <1>2, <3>1, <3>2 DEF Reconcile, Settle, Result, RollBack
  <2>2. Matches(0)' = Matches(0) /\ Matches(N)' = Matches(N)
    BY <1>0 DEF Matches
  <2> QED BY <1>0, <2>1, <2>2
<1>3. CASE ReconcileMissing
  BY <1>0, <1>3 DEF ReconcileMissing, Throw, Result
<1>4. CASE Rolling
  BY <1>0, <1>4 DEF Rolling, NextStep, Written, WriteFails, Throw, ThrowRaw, Result
<1>5. CASE Restored \/ MarkUnknown
  BY <1>0, <1>5 DEF Restored, MarkUnknown, Conclude, Settle, Result, Written, WriteFails, Throw,
     ThrowRaw, Matches
<1> QED BY <1>1, <1>2, <1>3, <1>4, <1>5 DEF Recover

\* The caller records what the operation said.
LEMMA CallerFiles ==
    ASSUME ShapeOK, PhaseInv, FileInv, Caller
    PROVE  FileInv'
<1> USE FaultCounted DEF ShapeOK, Checks, PhaseInv, Entered, Loop, Preparing, Outside, FileInv,
        GoTo, NoFault, countVars
<1>0. ws' = ws /\ Matches(0)' = Matches(0) /\ Matches(N)' = Matches(N)
  BY DEF Caller, Dispatch, EventSettled, Caught, Returned, Judge, Cleanup, CleanupFails,
     EventCleaned, Check, diskVars, Matches
<1>1. CASE Dispatch
  BY <1>0, <1>1 DEF Dispatch
<1>2. CASE EventSettled
  BY <1>0, <1>2 DEF EventSettled, Recorded, RecordFails, Result
<1>3. ASSUME NEW c, Fail(c), pc \in {"returned", "judge"},
             edits = 0 /\ faults = 0 /\ opt.settlement = "none" /\
                c # "candidate_promotion_uncertain" => Matches(0)
      PROVE  FileInv'
  <2>1. UNCHANGED <<edits>> /\ pc' = "down"
    BY <1>3 DEF Fail, Recorded, RecordFails, Exit
  <2>2. \/ opt' = opt
        \/ opt' = [opt EXCEPT !.status = "failed", !.code = c, !.sideEffect = SideEffect(c)]
    BY <1>3 DEF Fail, Recorded, RecordFails
  <2>3. faults' = 0 => faults = 0
    BY <1>3 DEF Fail, Recorded, RecordFails
  <2>4. SideEffect(c) = "none" => opt.settlement \in {"none", "rolled_back"}
                                  /\ (opt.settlement = "none" => c # "candidate_promotion_uncertain")
    BY DEF SideEffect, Outcomes
  <2>5. CASE opt' = opt
    BY <1>0, <2>1, <2>3, <2>5
  <2>6. CASE opt' = [opt EXCEPT !.status = "failed", !.code = c, !.sideEffect = SideEffect(c)]
    <3>1. /\ opt'.prepared = opt.prepared /\ opt'.settlement = opt.settlement
          /\ opt'.sideEffect = SideEffect(c)
      BY <2>6
    <3> QED BY <1>0, <1>3, <2>1, <2>3, <2>4, <3>1
  <2> QED BY <2>2, <2>5, <2>6
<1>4. CASE Caught
  BY <1>3, <1>4 DEF Caught
<1>5. CASE Returned
  BY <1>0, <1>5 DEF Returned, Recorded, RecordFails, Exit
<1>6. CASE Judge
  BY <1>0, <1>3, <1>6 DEF Judge
<1>7. CASE Cleanup
  BY <1>0, <1>7 DEF Cleanup
<1>8. CASE CleanupFails
  BY <1>0, <1>8 DEF CleanupFails, Exit
<1>9. CASE EventCleaned \/ Check
  BY <1>0, <1>9 DEF EventCleaned, Check, Recorded, RecordFails, Exit
<1> QED BY <1>1, <1>2, <1>4, <1>5, <1>6, <1>7, <1>8, <1>9 DEF Caller

\* The world: an edit ends what is promised, a crash changes no file.
LEMMA WorldFiles ==
    ASSUME ShapeOK, PhaseInv, FileInv, World \/ UNCHANGED vars
    PROVE  FileInv'
<1> USE DEF ShapeOK, FileInv
<1>1. CASE Crash
  BY <1>1 DEF Crash, Exit, GoTo, diskVars, Matches
<1>2. ASSUME NEW p \in Paths, EditPath(p) \/ AddEntry(p) PROVE FileInv'
  BY <1>2 DEF EditPath, AddEntry
<1>3. CASE UNCHANGED <<ws, opt, pc, callVars, countVars>>
  BY <1>3 DEF callVars, countVars, Matches
<1> QED BY <1>1, <1>2, <1>3 DEF World, OtherLocks, OtherUnlocks, vars, diskVars

-----------------------------------------------------------------------------
(* What the promotion promises.                                            *)

\* The invariant holds throughout.
LEMMA PromotionInvariant == Spec => []PromotionInv
<1>1. PromotionInv /\ [Next]_vars => PromotionInv'
  <2> SUFFICES ASSUME PromotionInv, [Next]_vars PROVE PromotionInv'
    OBVIOUS
  <2>1. ShapeOK' /\ PhaseInv' /\ BlobInv' /\ TempInv'
    BY StepShape, StepPhases, StepBlobs, StepTemps DEF PromotionInv
  <2>2. FileInv'
    BY PrepareFiles, ApplyFiles, RecoverFiles, CallerFiles, WorldFiles
       DEF PromotionInv, Next, Process
  <2> QED BY <2>1, <2>2 DEF PromotionInv
<1> QED BY <1>1, InitPromotion, PTL DEF Spec

\* A settlement on record says what the files are, for every delta and whatever
\* crashes and failed writes came between.
THEOREM SettlementIsTrue == Spec => []SettlementTellsFiles
<1>1. PromotionInv => SettlementTellsFiles
  BY DEF PromotionInv, FileInv, TempInv, SettlementTellsFiles, Undisturbed
<1> QED BY <1>1, PromotionInvariant, PTL

\* No affected path is entered before the prepare event is durable and the bytes
\* needed to restore it are saved, for every delta.
THEOREM PreparedBeforeEntered == Spec => []EnteredAfterPrepare
<1>1. PromotionInv => EnteredAfterPrepare
  <2> SUFFICES ASSUME PromotionInv, edits = 0, ws # Before
               PROVE  /\ opt.prepared
                      /\ opt.settlement # "committed" => PreimageFiles \subseteq blobs
    BY DEF EnteredAfterPrepare, Undisturbed
  <2>1. opt.prepared \in BOOLEAN
    BY DEF PromotionInv, ShapeOK, Checks
  <2>2. opt.prepared
    BY <2>1 DEF PromotionInv, FileInv
  <2> QED BY <2>2 DEF PromotionInv, BlobInv
<1> QED BY <1>1, PromotionInvariant, PTL

\* A step that finds a settlement on record changes neither the files nor the
\* settlement, unless it is another program's edit.
LEMMA SettledStep ==
    ASSUME ShapeOK, PhaseInv, Next, Settled, edits' = edits
    PROVE  ws' = ws /\ opt'.settlement = opt.settlement
<1> USE DEF ShapeOK, Checks, PhaseInv, Entered, Loop, Preparing, Outside, Settled
<1>1. pc \in Outside
  OBVIOUS
<1>2. CASE Resume \/ Unlock
  BY <1>2 DEF Resume, Unlock, diskVars
<1>3. CASE Dispatch \/ Cleanup \/ CleanupFails \/ EventCleaned \/ Check
  BY <1>3 DEF Dispatch, Cleanup, CleanupFails, EventCleaned, Check, Recorded, RecordFails, diskVars
<1>4. CASE Caught \/ Judge
  <2>1. PICK c : UNCHANGED diskVars /\ (Fail(c) \/ UNCHANGED opt)
    BY <1>4 DEF Caught, Judge
  <2> QED BY <2>1 DEF Fail, Recorded, RecordFails, diskVars
<1>5. CASE Returned
  BY <1>5 DEF Returned, diskVars
<1>6. CASE Crash \/ OtherLocks \/ OtherUnlocks
  BY <1>6 DEF Crash, OtherLocks, OtherUnlocks, diskVars
<1>7. ASSUME NEW p \in Paths, EditPath(p) \/ AddEntry(p)
      PROVE  ws' = ws /\ opt'.settlement = opt.settlement
  BY <1>7 DEF EditPath, AddEntry
<1>8. ~LockOpen /\ ~LockRemoveStale /\ ~LockBusy /\ ~LockWrite /\ ~EventSettled
  BY <1>1 DEF LockOpen, LockRemoveStale, LockBusy, LockWrite, EventSettled
<1>9. ~Prepare
  BY <1>1 DEF Prepare, Freshness, MakeDirectory, CaptureRollback, JournalPrepared, EventPrepared,
     Refused, Enter
<1>10. ~Apply
  BY <1>1 DEF Apply, StepObserve, StepRemove, StepMkdir, StepChmod, StepTemporary, StepRename,
     StepFails, StepRecord, Verify, Commit
<1>11. ~Recover
  BY <1>1 DEF Recover, Compensate, Reconcile, ReconcileMissing, Rolling, Restored, MarkUnknown,
     Conclude
<1> QED BY <1>2, <1>3, <1>4, <1>5, <1>6, <1>7, <1>8, <1>9, <1>10, <1>11
       DEF Next, Process, Acquire, Caller, World

\* Once a settlement is on record no process changes an affected path again, for
\* every delta.
THEOREM SettlementsAreFinal == Spec => SettledIsFinal
<1>1. PromotionInv /\ [Next]_vars =>
         [Settled /\ edits' = edits => ws' = ws /\ opt'.settlement = opt.settlement]_vars
  BY SettledStep DEF PromotionInv
<1> QED BY <1>1, PromotionInvariant, PTL DEF Spec, SettledIsFinal

-----------------------------------------------------------------------------
(* The order of the steps.                                                 *)

\* The paths of the delta are finitely many, and each has one rank.
LEMMA PathsFinite ==
    /\ IsFiniteSet(Paths)
    /\ \A p \in Paths : Rank(p) \in Nat /\ Entries[Rank(p)] = p
<1>1. DOMAIN Entries = 1 .. Len(Entries) /\ Len(Entries) \in Nat
  BY DeltaAssumption
<1>2. IsFiniteSet(DOMAIN Entries)
  BY <1>1, FS_Interval
<1>3. Entries \in Surjection(DOMAIN Entries, Paths)
  <2>1. Entries \in [DOMAIN Entries -> Paths]
    BY <1>1, DeltaAssumption
  <2> QED BY <2>1 DEF Surjection, Paths
<1>4. IsFiniteSet(Paths)
  BY <1>2, <1>3, FS_Surjection
<1>5. \A p \in Paths : Rank(p) \in DOMAIN Entries /\ Entries[Rank(p)] = p
  BY DEF Paths, Rank
<1> QED BY <1>1, <1>4, <1>5

\* A step takes an entry away or puts one in place.
LEMMA StepKinds ==
    ASSUME NEW s \in StepSet
    PROVE  /\ s.path \in Paths /\ s.from \in Identities /\ s.to \in Identities
           /\ \/ Removed(s.path) /\ s = Take(s.path) /\ s.to = Missing /\ Rung(s) = 1
              \/ Made(s.path) /\ s = Place(s.path) /\ s.to # Missing
                 /\ Rung(s) = IF After[s.path].kind = "directory" THEN 2 ELSE 3
<1>1. Missing \in Identities
  BY DEF Identities
<1>2. CASE \E p \in Paths : Removed(p) /\ s = Take(p)
  <2>1. PICK p \in Paths : Removed(p) /\ s = Take(p)
    BY <1>2
  <2>2. s.path = p /\ s.from = Before[p] /\ s.to = Missing
    BY <2>1 DEF Take
  <2> QED BY <1>1, <2>1, <2>2, DeltaAssumption DEF Rung
<1>3. CASE \E p \in Paths : Made(p) /\ s = Place(p)
  <2>1. PICK p \in Paths : Made(p) /\ s = Place(p)
    BY <1>3
  <2>2. s.path = p /\ s.from = AfterRemovals(p) /\ s.to = After[p] /\ After[p] # Missing
    BY <2>1 DEF Place, Made
  <2>3. AfterRemovals(p) \in Identities
    BY <1>1, DeltaAssumption DEF AfterRemovals
  <2> QED BY <2>1, <2>2, <2>3, DeltaAssumption DEF Rung
<1> QED BY <1>2, <1>3 DEF StepSet

\* The steps are finitely many.
LEMMA StepsFinite == IsFiniteSet(StepSet) /\ N \in Nat
<1> DEFINE Gone == {q \in Paths : Removed(q)}
           Put == {q \in Paths : Made(q)}
           f == [q \in Gone |-> Take(q)]
           g == [q \in Put |-> Place(q)]
<1>1. IsFiniteSet(Gone) /\ IsFiniteSet(Put)
  BY PathsFinite, FS_Subset
<1>2. f \in Surjection(Gone, {Take(q) : q \in Gone})
  BY DEF Surjection
<1>3. g \in Surjection(Put, {Place(q) : q \in Put})
  BY DEF Surjection
<1>4. IsFiniteSet({Take(q) : q \in Gone}) /\ IsFiniteSet({Place(q) : q \in Put})
  BY <1>1, <1>2, <1>3, FS_Surjection
<1>5. IsFiniteSet(StepSet)
  BY <1>4, FS_Union DEF StepSet
<1> QED BY <1>5, FS_CardinalityType DEF N

\* Precedes is a strict total order of the steps.
LEMMA PrecedesOrders ==
    /\ \A s \in StepSet : ~Precedes(s, s)
    /\ \A s, t \in StepSet : s # t => Precedes(s, t) \/ Precedes(t, s)
    /\ \A s, t, u \in StepSet : Precedes(s, t) /\ Precedes(t, u) => Precedes(s, u)
<1>0. \A s \in StepSet : /\ Rung(s) \in {1, 2, 3} /\ s.path \in Paths
                         /\ Depth[s.path] \in Nat /\ Rank(s.path) \in Nat
  <2> TAKE s \in StepSet
  <2>1. Rung(s) \in {1, 2, 3}
    BY DEF Rung
  <2> QED BY <2>1, StepKinds, PathsFinite, DeltaAssumption
<1>1. \A s \in StepSet : ~Precedes(s, s)
  BY <1>0 DEF Precedes, ShallowestFirst
<1>2. \A s, t \in StepSet : Rung(s) = Rung(t) /\ s.path = t.path => s = t
  BY StepKinds
<1>3. \A p, q \in Paths : Rank(p) = Rank(q) => p = q
  BY PathsFinite
<1>4. \A s, t \in StepSet : s # t => Precedes(s, t) \/ Precedes(t, s)
  <2> TAKE s, t \in StepSet
  <2> HAVE s # t
  <2>1. CASE Rung(s) # Rung(t)
    BY <1>0, <2>1 DEF Precedes
  <2>2. CASE Rung(s) = Rung(t)
    <3>1. Rank(s.path) # Rank(t.path)
      BY <1>0, <1>2, <1>3, <2>2
    <3> QED BY <1>0, <2>2, <3>1 DEF Precedes, ShallowestFirst
  <2> QED BY <2>1, <2>2
<1>5. \A s, t, u \in StepSet : Precedes(s, t) /\ Precedes(t, u) => Precedes(s, u)
  BY <1>0 DEF Precedes, ShallowestFirst
<1> QED BY <1>1, <1>4, <1>5

\* Earlier steps have smaller positions, and every position is taken by one step.
LEMMA Positions ==
    /\ \A s \in StepSet : Position(s) \in 1 .. N
    /\ \A s, t \in StepSet : Precedes(s, t) => Position(s) < Position(t)
    /\ \A s, t \in StepSet : Position(s) = Position(t) => s = t
    /\ \A i \in 1 .. N : Steps[i] \in StepSet /\ Position(Steps[i]) = i
<1> DEFINE Earlier(s) == {t \in StepSet : Precedes(t, s)}
<1>1. \A s \in StepSet : IsFiniteSet(Earlier(s)) /\ Cardinality(Earlier(s)) \in Nat
  <2> TAKE s \in StepSet
  <2>1. IsFiniteSet(Earlier(s))
    BY StepsFinite, FS_Subset
  <2> QED BY <2>1, FS_CardinalityType
<1>2. \A s \in StepSet : Cardinality(Earlier(s)) < N
  <2> TAKE s \in StepSet
  <2>1. Earlier(s) \in SUBSET StepSet /\ Earlier(s) # StepSet
    BY PrecedesOrders
  <2>2. Cardinality(Earlier(s)) <= Cardinality(StepSet) /\ Cardinality(Earlier(s)) # Cardinality(StepSet)
    BY <2>1, StepsFinite, FS_Subset
  <2> QED BY <1>1, <2>2, StepsFinite DEF N
<1>3. \A s \in StepSet : Position(s) \in 1 .. N
  <2> TAKE s \in StepSet
  <2>1. Position(s) = 1 + Cardinality(Earlier(s))
    BY DEF Position
  <2>2. Cardinality(Earlier(s)) \in Nat /\ Cardinality(Earlier(s)) < N /\ N \in Nat
    BY <1>1, <1>2, StepsFinite
  <2> HIDE DEF Earlier
  <2> QED BY <2>1, <2>2
<1>4. \A s, t \in StepSet : Precedes(s, t) => Position(s) < Position(t)
  <2> TAKE s, t \in StepSet
  <2> HAVE Precedes(s, t)
  <2>1. Earlier(s) \in SUBSET Earlier(t) /\ Earlier(s) # Earlier(t)
    BY PrecedesOrders
  <2>2. Cardinality(Earlier(s)) <= Cardinality(Earlier(t)) /\ Cardinality(Earlier(s)) # Cardinality(Earlier(t))
    BY <1>1, <2>1, FS_Subset
  <2> QED BY <1>1, <2>2 DEF Position
<1>5. \A s, t \in StepSet : Position(s) = Position(t) => s = t
  <2> TAKE s, t \in StepSet
  <2> HAVE Position(s) = Position(t)
  <2>1. Position(s) \in Nat /\ Position(t) \in Nat
    BY <1>3, StepsFinite
  <2>2. ~Precedes(s, t) /\ ~Precedes(t, s)
    BY <1>4, <2>1
  <2> QED BY <2>2, PrecedesOrders
<1>6. \A i \in 1 .. N : \E s \in StepSet : Position(s) = i
  <2> DEFINE f == [s \in StepSet |-> Position(s)]
  <2>1. f \in Injection(StepSet, 1 .. N)
    BY <1>3, <1>5 DEF Injection, IsInjective
  <2>2. IsFiniteSet(1 .. N) /\ Cardinality(1 .. N) = N
    BY StepsFinite, FS_Interval
  <2>3. f \in Surjection(StepSet, 1 .. N)
    BY <2>1, <2>2, FS_Injection DEF N
  <2> QED BY <2>3 DEF Surjection
<1>7. \A i \in 1 .. N : Steps[i] \in StepSet /\ Position(Steps[i]) = i
  BY <1>6 DEF Steps
<1> QED BY <1>3, <1>4, <1>5, <1>7

-----------------------------------------------------------------------------
(* What the files hold after some of the steps.                            *)

Taken(p, k) == Removed(p) /\ Position(Take(p)) <= k
Placed(p, k) == Made(p) /\ Position(Place(p)) <= k

\* The steps of a path: an entry is taken before one is put in its place.
LEMMA StepsOfPath ==
    ASSUME NEW p \in Paths
    PROVE  /\ Removed(p) => Take(p) \in StepSet /\ Take(p).path = p
                            /\ Position(Take(p)) \in 1 .. N /\ Steps[Position(Take(p))] = Take(p)
           /\ Made(p) => Place(p) \in StepSet /\ Place(p).path = p
                         /\ Position(Place(p)) \in 1 .. N /\ Steps[Position(Place(p))] = Place(p)
           /\ Removed(p) /\ Made(p) => Position(Take(p)) < Position(Place(p))
           /\ \A i \in 1 .. N : Steps[i].path = p =>
                 \/ Removed(p) /\ Steps[i] = Take(p) /\ i = Position(Take(p))
                 \/ Made(p) /\ Steps[i] = Place(p) /\ i = Position(Place(p))
<1>1. /\ Removed(p) => Take(p) \in StepSet /\ Take(p).path = p
      /\ Made(p) => Place(p) \in StepSet /\ Place(p).path = p
  BY DEF StepSet, Take, Place
<1>2. \A s \in StepSet : Position(s) \in 1 .. N /\ Steps[Position(s)] = s
  BY Positions
<1>3. Removed(p) /\ Made(p) => Position(Take(p)) < Position(Place(p))
  <2> HAVE Removed(p) /\ Made(p)
  <2>1. Rung(Take(p)) = 1 /\ Rung(Place(p)) \in {2, 3}
    BY DEF Rung, Take, Place, Made
  <2>2. Precedes(Take(p), Place(p))
    BY <2>1 DEF Precedes
  <2> QED BY <1>1, <2>2, Positions
<1>4. ASSUME NEW i \in 1 .. N, Steps[i].path = p
      PROVE  \/ Removed(p) /\ Steps[i] = Take(p) /\ i = Position(Take(p))
             \/ Made(p) /\ Steps[i] = Place(p) /\ i = Position(Place(p))
  BY <1>4, Positions, StepKinds
<1> QED BY <1>1, <1>2, <1>3, <1>4

\* What a path holds after the first k steps.
LEMMA ExpectedValue ==
    ASSUME NEW p \in Paths, NEW k \in 0 .. N
    PROVE  Expected(k)[p] = IF Placed(p, k) THEN After[p] ELSE IF Taken(p, k) THEN Missing ELSE Before[p]
<1> DEFINE touched == {i \in 1 .. k : Steps[i].path = p}
           last == CHOOSE i \in touched : \A j \in touched : j <= i
<1>0. N \in Nat /\ k \in Nat /\ touched \subseteq Nat /\ \A i \in touched : i \in 1 .. N
  BY StepsFinite
<1>1. Expected(k)[p] = IF touched = {} THEN Before[p] ELSE Steps[last].to
  BY DEF Expected
<1>2. \A i \in touched : \/ Removed(p) /\ i = Position(Take(p)) /\ i <= k
                         \/ Made(p) /\ i = Position(Place(p)) /\ i <= k
  BY <1>0, StepsOfPath
<1>3. Taken(p, k) => Position(Take(p)) \in touched
  BY <1>0, StepsOfPath DEF Taken
<1>4. Placed(p, k) => Position(Place(p)) \in touched
  BY <1>0, StepsOfPath DEF Placed
<1>5. ASSUME NEW m \in touched, \A j \in touched : j <= m PROVE last = m
  <2>1. last \in touched /\ \A j \in touched : j <= last
    BY <1>5
  <2>2. m <= last /\ last <= m /\ m \in Nat /\ last \in Nat
    BY <1>0, <1>5, <2>1
  <2> QED BY <2>2
<1> HIDE DEF last, touched
<1>6. CASE Placed(p, k)
  <2>1. \A j \in touched : j <= Position(Place(p))
    BY <1>0, <1>2, <1>6, StepsOfPath DEF Placed
  <2>2. last = Position(Place(p))
    BY <1>4, <1>5, <1>6, <2>1
  <2>3. Steps[last].to = After[p]
    BY <1>6, <2>2, StepsOfPath DEF Placed, Place
  <2> QED BY <1>1, <1>4, <1>6, <2>3
<1>7. CASE ~Placed(p, k) /\ Taken(p, k)
  <2>1. \A j \in touched : j = Position(Take(p))
    BY <1>2, <1>7 DEF Placed
  <2>4. \A j \in touched : j <= Position(Take(p))
    BY <1>0, <2>1
  <2>2. last = Position(Take(p))
    BY <1>3, <1>5, <1>7, <2>4
  <2>3. Steps[last].to = Missing
    BY <1>7, <2>2, StepsOfPath DEF Taken, Take
  <2> QED BY <1>1, <1>3, <1>7, <2>3
<1>8. CASE ~Placed(p, k) /\ ~Taken(p, k)
  <2>1. touched = {}
    BY <1>2, <1>8 DEF Placed, Taken
  <2> QED BY <1>1, <1>8, <2>1
<1> QED BY <1>6, <1>7, <1>8

\* A step changes its own path only, from what the steps before it left.
LEMMA StepEffect ==
    ASSUME NEW i \in 1 .. N
    PROVE  /\ Steps[i].path \in Paths
           /\ Expected(i - 1)[Steps[i].path] = Steps[i].from
           /\ Expected(i)[Steps[i].path] = Steps[i].to
           /\ \A q \in Paths \ {Steps[i].path} : Expected(i)[q] = Expected(i - 1)[q]
           /\ Expected(i) = [Expected(i - 1) EXCEPT ![Steps[i].path] = Steps[i].to]
           /\ Expected(i - 1) = [Expected(i) EXCEPT ![Steps[i].path] = Steps[i].from]
<1> DEFINE s == Steps[i]
           p == s.path
<1>1. N \in Nat /\ i \in 0 .. N /\ i - 1 \in 0 .. N /\ i \in Nat
  BY StepsFinite
<1>2. s \in StepSet /\ Position(s) = i /\ p \in Paths
  BY Positions, StepKinds
<1> HIDE DEF s
<1>3. Expected(i - 1)[p] = s.from /\ Expected(i)[p] = s.to
  <2>1. CASE Removed(p) /\ s = Take(p)
    <3>1. ~Placed(p, i) /\ ~Placed(p, i - 1)
      BY <1>1, <1>2, <2>1, StepsOfPath DEF Placed
    <3>2. Taken(p, i) /\ ~Taken(p, i - 1)
      BY <1>1, <1>2, <2>1 DEF Taken
    <3>3. s.from = Before[p] /\ s.to = Missing
      BY <2>1 DEF Take
    <3> QED BY <1>1, <1>2, <3>1, <3>2, <3>3, ExpectedValue
  <2>2. CASE Made(p) /\ s = Place(p)
    <3>1. Placed(p, i) /\ ~Placed(p, i - 1)
      BY <1>1, <1>2, <2>2 DEF Placed
    <3>2. Taken(p, i - 1) <=> Removed(p)
      BY <1>1, <1>2, <2>2, StepsOfPath DEF Taken
    <3>3. s.from = AfterRemovals(p) /\ s.to = After[p]
      BY <2>2 DEF Place
    <3> QED BY <1>1, <1>2, <3>1, <3>2, <3>3, ExpectedValue DEF AfterRemovals
  <2> QED BY <1>2, <2>1, <2>2, StepKinds
<1>4. ASSUME NEW q \in Paths \ {p} PROVE Expected(i)[q] = Expected(i - 1)[q]
  <2>1. Removed(q) => Position(Take(q)) # i /\ Position(Take(q)) \in Nat
    BY <1>2, <1>4, StepsOfPath, StepsFinite DEF s
  <2>2. Made(q) => Position(Place(q)) # i /\ Position(Place(q)) \in Nat
    BY <1>2, <1>4, StepsOfPath, StepsFinite DEF s
  <2>3. (Taken(q, i) <=> Taken(q, i - 1)) /\ (Placed(q, i) <=> Placed(q, i - 1))
    BY <1>1, <2>1, <2>2 DEF Taken, Placed
  <2> QED BY <1>1, <2>3, ExpectedValue
<1>5. \A k : DOMAIN Expected(k) = Paths /\ Expected(k) = [q \in Paths |-> Expected(k)[q]]
  BY DEF Expected
<1>6. Expected(i) = [Expected(i - 1) EXCEPT ![p] = s.to]
  BY <1>2, <1>3, <1>4, <1>5
<1>7. Expected(i - 1) = [Expected(i) EXCEPT ![p] = s.from]
  BY <1>2, <1>3, <1>4, <1>5
<1> QED BY <1>2, <1>3, <1>4, <1>6, <1>7 DEF s

-----------------------------------------------------------------------------
(* Every step can be taken, and undone, where its turn comes.              *)

\* Removals go from the leaves up, and what is made goes from the root down.
LEMMA ParentOrder ==
    ASSUME NEW p \in Paths, Parent[p] # Root
    PROVE  /\ Parent[p] \in Paths \ {p}
           /\ Removed(p) /\ Removed(Parent[p]) => Position(Take(p)) < Position(Take(Parent[p]))
           /\ Made(p) /\ Made(Parent[p]) => Position(Place(Parent[p])) < Position(Place(p))
           /\ Removed(p) /\ Made(Parent[p]) => Position(Take(p)) < Position(Place(Parent[p]))
           /\ Removed(Parent[p]) /\ Made(p) => Position(Take(Parent[p])) < Position(Place(p))
<1> DEFINE q == Parent[p]
<1>1. q \in Paths \ {p} /\ Depth[q] < Depth[p] /\ Depth[q] \in Nat /\ Depth[p] \in Nat
  BY DeltaAssumption
<1>2. /\ \A r \in Paths : Removed(r) => Take(r) \in StepSet /\ Rung(Take(r)) = 1 /\ Take(r).path = r
      /\ \A r \in Paths : Made(r) => /\ Place(r) \in StepSet /\ Place(r).path = r
                                     /\ Rung(Place(r)) = IF After[r].kind = "directory" THEN 2 ELSE 3
  BY DEF StepSet, Take, Place, Rung, Made
<1>3. Made(p) => After[q].kind = "directory"
  BY DeltaAssumption DEF Made
<1>4. Removed(p) /\ Removed(q) => Precedes(Take(p), Take(q))
  BY <1>1, <1>2 DEF Precedes, ShallowestFirst
<1>5. Made(p) /\ Made(q) => Precedes(Place(q), Place(p))
  BY <1>1, <1>2, <1>3 DEF Precedes, ShallowestFirst
<1>6. Removed(p) /\ Made(q) => Precedes(Take(p), Place(q))
  BY <1>1, <1>2 DEF Precedes
<1>7. Removed(q) /\ Made(p) => Precedes(Take(q), Place(p))
  BY <1>1, <1>2 DEF Precedes
<1> QED BY <1>1, <1>2, <1>4, <1>5, <1>6, <1>7, Positions

\* The directory a step works in is there, before the step and after it.
LEMMA StepHasParent ==
    ASSUME NEW i \in 1 .. N, Parent[Steps[i].path] # Root
    PROVE  /\ Parent[Steps[i].path] \in Paths \ {Steps[i].path}
           /\ Expected(i - 1)[Parent[Steps[i].path]].kind = "directory"
           /\ Expected(i)[Parent[Steps[i].path]].kind = "directory"
<1> DEFINE s == Steps[i]
           p == s.path
           q == Parent[p]
<1>1. N \in Nat /\ i \in 0 .. N /\ i - 1 \in 0 .. N /\ i \in Nat
  BY StepsFinite
<1>2. s \in StepSet /\ Position(s) = i /\ p \in Paths /\ q \in Paths \ {p}
  BY Positions, StepKinds, ParentOrder
<1> HIDE DEF s
<1>3. q # Root
  BY DEF s
<1>4. Expected(i - 1)[q].kind = "directory"
  <2>0. /\ Removed(q) => Position(Take(q)) \in Nat
        /\ Made(q) => Position(Place(q)) \in Nat
    BY <1>1, <1>2, StepsOfPath
  <2>1. CASE Removed(p) /\ s = Take(p)
    <3>1. ~Placed(q, i - 1) /\ ~Taken(q, i - 1)
      BY <1>1, <1>2, <1>3, <2>0, <2>1, ParentOrder DEF Placed, Taken
    <3>2. Before[q].kind = "directory"
      BY <1>2, <1>3, <2>1, DeltaAssumption DEF Removed
    <3> QED BY <1>1, <1>2, <3>1, <3>2, ExpectedValue
  <2>2. CASE Made(p) /\ s = Place(p)
    <3>1. After[q].kind = "directory" /\ After[q] # Missing
      BY <1>2, <1>3, <2>2, DeltaAssumption DEF Made, Missing
    <3>2. CASE Made(q)
      <4>1. Placed(q, i - 1)
        BY <1>1, <1>2, <1>3, <2>0, <2>2, <3>2, ParentOrder DEF Placed
      <4> QED BY <1>1, <1>2, <3>1, <4>1, ExpectedValue
    <3>3. CASE ~Made(q)
      <4>1. ~Removed(q) /\ Before[q] = After[q]
        BY <3>1, <3>3 DEF Made, AfterRemovals
      <4>2. ~Placed(q, i - 1) /\ ~Taken(q, i - 1)
        BY <3>3, <4>1 DEF Placed, Taken
      <4> QED BY <1>1, <1>2, <3>1, <4>1, <4>2, ExpectedValue
    <3> QED BY <3>2, <3>3
  <2> QED BY <1>2, <2>1, <2>2, StepKinds
<1>5. Expected(i)[q] = Expected(i - 1)[q]
  BY <1>2, StepEffect DEF s
<1> QED BY <1>2, <1>4, <1>5 DEF s

\* A directory is empty when its turn to be removed comes, in either direction.
LEMMA StepEmptiesFirst ==
    ASSUME NEW i \in 1 .. N, NEW c \in Paths, Parent[c] = Steps[i].path
    PROVE  /\ Steps[i].to = Missing /\ Steps[i].from.kind = "directory" => Expected(i - 1)[c] = Missing
           /\ Steps[i].from = Missing /\ Steps[i].to.kind = "directory" => Expected(i)[c] = Missing
<1> DEFINE s == Steps[i]
           p == s.path
<1>1. N \in Nat /\ i \in 0 .. N /\ i - 1 \in 0 .. N /\ i \in Nat
  BY StepsFinite
<1>2. s \in StepSet /\ Position(s) = i /\ p \in Paths
  BY Positions, StepKinds
<1> HIDE DEF s
<1>3. Parent[c] = p /\ Parent[c] # Root
  BY <1>2, DeltaAssumption DEF s
<1>4. /\ Removed(c) => Position(Take(c)) \in Nat
      /\ Made(c) => Position(Place(c)) \in Nat
  BY <1>1, StepsOfPath
<1>5. ASSUME s.to = Missing, s.from.kind = "directory" PROVE Expected(i - 1)[c] = Missing
  <2>1. Removed(p) /\ s = Take(p)
    BY <1>2, <1>5, StepKinds
  <2>2. Before[p].kind = "directory" /\ After[p].kind # "directory"
    BY <1>5, <2>1 DEF Take, Removed
  <2>3. After[c] = Missing
    BY <1>3, <2>2, DeltaAssumption
  <2>4. ~Made(c)
    BY <2>3 DEF Made
  <2>5. CASE Before[c] = Missing
    <3>1. ~Placed(c, i - 1) /\ ~Taken(c, i - 1)
      BY <2>4, <2>5 DEF Placed, Taken, Removed
    <3> QED BY <1>1, <2>5, <3>1, ExpectedValue
  <2>6. CASE Before[c] # Missing
    <3>1. Before[c].kind # "missing"
      BY <2>6, DeltaAssumption DEF Identities
    <3>2. Removed(c)
      BY <2>3, <2>6, <3>1 DEF Removed, Missing
    <3>3. Taken(c, i - 1)
      BY <1>1, <1>2, <1>3, <1>4, <2>1, <3>2, ParentOrder DEF Taken
    <3>4. ~Placed(c, i - 1)
      BY <2>4 DEF Placed
    <3> QED BY <1>1, <3>3, <3>4, ExpectedValue
  <2> QED BY <2>5, <2>6
<1>6. ASSUME s.from = Missing, s.to.kind = "directory" PROVE Expected(i)[c] = Missing
  <2>0. s.to # Missing
    BY <1>6 DEF Missing
  <2>1. Made(p) /\ s = Place(p)
    BY <1>2, <2>0, StepKinds
  <2>2. AfterRemovals(p) = Missing /\ After[p].kind = "directory"
    BY <1>6, <2>1 DEF Place
  <2>3. ~Placed(c, i)
    BY <1>1, <1>2, <1>3, <1>4, <2>1, ParentOrder DEF Placed
  <2>4. CASE Removed(c)
    <3>1. Taken(c, i)
      BY <1>1, <1>2, <1>3, <1>4, <2>1, <2>4, ParentOrder DEF Taken
    <3> QED BY <1>1, <2>3, <3>1, ExpectedValue
  <2>5. CASE ~Removed(c)
    <3>1. Before[p].kind # "directory"
      BY <2>2 DEF AfterRemovals, Removed, Missing
    <3>2. Before[c] = Missing
      BY <1>3, <3>1, DeltaAssumption
    <3>3. ~Taken(c, i)
      BY <2>5 DEF Taken
    <3> QED BY <1>1, <2>3, <3>2, <3>3, ExpectedValue
  <2> QED BY <2>4, <2>5
<1> QED BY <1>5, <1>6 DEF s

\* A step never turns one kind of entry into another in place, and the bytes a
\* rollback restores were saved.
LEMMA StepIdentities ==
    ASSUME NEW i \in 1 .. N
    PROVE  /\ Steps[i].path \in Paths /\ Steps[i].from \in Identities /\ Steps[i].to \in Identities
           /\ Steps[i].from # Steps[i].to
           /\ Steps[i].from # Missing /\ Steps[i].to # Missing => Steps[i].from.kind = Steps[i].to.kind
           /\ Steps[i].from.kind = "file" => Steps[i].path \in PreimageFiles
<1> DEFINE s == Steps[i]
           p == s.path
<1>1. s \in StepSet
  BY Positions
<1> HIDE DEF s
<1>2. p \in Paths /\ s.from \in Identities /\ s.to \in Identities
  BY <1>1, StepKinds
<1>3. CASE Removed(p) /\ s = Take(p)
  BY <1>2, <1>3 DEF Take, Removed, s, PreimageFiles
<1>4. CASE Made(p) /\ s = Place(p)
  <2>1. s.from = AfterRemovals(p) /\ s.to = After[p] /\ s.from # s.to
    BY <1>4 DEF Place, Made
  <2>2. CASE Removed(p)
    BY <1>2, <2>1, <2>2 DEF AfterRemovals, Missing, s
  <2>3. CASE ~Removed(p)
    <3>1. s.from = Before[p]
      BY <2>1, <2>3 DEF AfterRemovals
    <3> QED BY <1>2, <2>1, <2>3, <3>1 DEF Removed, PreimageFiles, s
  <2> QED BY <2>2, <2>3
<1> QED BY <1>1, <1>3, <1>4, StepKinds

-----------------------------------------------------------------------------
(* The counts of the journal, and types.                                   *)

Counted(j) ==
    /\ j.nextStep \in 0 .. N /\ j.appliedSteps \in 0 .. N
    /\ j.rollbackIndex \in 0 .. j.appliedSteps
    /\ j.status = "applying" => j.rollbackIndex = 0

Stepping == {"observe", "mutate", "chmod", "rename", "record"}

CountInv ==
    /\ Counted(journal) /\ Counted(cur)
    /\ pc \in Stepping => IF Forward THEN cur.nextStep < N ELSE cur.rollbackIndex < cur.appliedSteps

TypeInv ==
    /\ ws \in [Paths -> Identities] /\ extra \subseteq Paths /\ blobs \subseteq Paths
    /\ temps \subseteq (1 .. N) \X {"forward", "rollback"}
    /\ candidate \in BOOLEAN /\ blurred \in BOOLEAN
    /\ lock \in {"free", "opened", "mine", "other", "stale", "torn"}
    /\ crashes \in 0 .. MaxCrashes /\ faults \in 0 .. MaxFaults /\ edits \in 0 .. MaxEdits

\* The step at hand is a step of the promotion.
LEMMA StepAtHand ==
    ASSUME ShapeOK, PhaseInv, CountInv, pc \in Stepping
    PROVE  /\ StepIndex \in 1 .. N /\ StepPath \in Paths
           /\ From \in Identities /\ To \in Identities
           /\ cur.status = IF Forward THEN "applying" ELSE "rolling_back"
<1>1. cur.status = IF Forward THEN "applying" ELSE "rolling_back"
  BY DEF PhaseInv, Stepping, Loop, Forward
<1>2. StepIndex \in 1 .. N
  <2>1. /\ N \in Nat /\ cur.nextStep \in Nat /\ cur.appliedSteps \in Nat /\ cur.rollbackIndex \in Nat
        /\ cur.appliedSteps <= N
    BY StepsFinite DEF CountInv, Counted, ShapeOK, Journals
  <2>2. CASE Forward
    BY <2>1, <2>2 DEF StepIndex, CountInv
  <2>3. CASE ~Forward
    BY <2>1, <2>3 DEF StepIndex, CountInv
  <2> QED BY <2>2, <2>3
<1> QED BY <1>1, <1>2, StepIdentities DEF StepPath, From, To

\* Undoing starts from as many steps as the files show.
LEMMA RollBackCounted ==
    ASSUME NEW j \in Journals, Counted(j), RollBack(j)
    PROVE  Counted(cur') /\ (pc' = "rolling" => cur'.status = "rolling_back")
<1>1. CASE ForwardProgress(j.nextStep) = {}
  BY <1>1 DEF RollBack, GoTo
<1>2. CASE ForwardProgress(j.nextStep) # {}
  <2>1. /\ ForwardProgress(j.nextStep) \subseteq {j.nextStep, j.nextStep + 1} /\ j.nextStep \in Nat
        /\ \A k \in ForwardProgress(j.nextStep) : k <= N
    BY DEF ForwardProgress, Journals
  <2>4. First(ForwardProgress(j.nextStep)) \in ForwardProgress(j.nextStep)
        /\ First(ForwardProgress(j.nextStep)) \in Nat
    BY <1>2, <2>1, FirstOfTwo
  <2>2. First(ForwardProgress(j.nextStep)) \in 0 .. N
    BY <2>1, <2>4, StepsFinite
  <2>3. cur' = [j EXCEPT !.status = "rolling_back",
                         !.appliedSteps = First(ForwardProgress(j.nextStep)),
                         !.rollbackIndex = 0]
    BY <1>2 DEF RollBack
  <2> QED BY <2>2, <2>3 DEF Journals, Counted
<1> QED BY <1>1, <1>2

\* The counts a written journal may hold.
LEMMA CountedJournals ==
    /\ \A s : Counted(Journal(s))
    /\ \A j \in Journals : \A s \in Statuses \ {"applying"} :
          Counted(j) => Counted([j EXCEPT !.status = s])
<1>1. \A s : Counted(Journal(s))
  BY StepsFinite DEF Counted, Journal
<1>2. \A j \in Journals : \A s \in Statuses \ {"applying"} :
          Counted(j) => Counted([j EXCEPT !.status = s])
  BY DEF Journals, Counted
<1> QED BY <1>1, <1>2

\* The loops and the recovery keep the counts within the steps.
LEMMA StepCounts ==
    ASSUME ShapeOK, PhaseInv, CountInv, [Next]_vars
    PROVE  CountInv'
<1> USE CountedJournals DEF CountInv, Stepping
<1>0. journal \in Journals /\ cur \in Journals /\ N \in Nat
  BY StepsFinite DEF ShapeOK
<1>1. CASE Resume
  BY <1>1 DEF Resume, GoTo, diskVars, NoDirectory
<1>2. CASE Acquire
  BY <1>2 DEF Acquire, LockOpen, LockRemoveStale, LockBusy, LockWrite, Unlock, GoTo, diskVars, callVars
<1>3. CASE Freshness \/ MakeDirectory \/ CaptureRollback \/ JournalPrepared \/ EventPrepared \/ Refused
  BY <1>3 DEF Freshness, MakeDirectory, CaptureRollback, JournalPrepared, EventPrepared, Refused,
     GoTo, Throw, ThrowRaw, RemoveDirectory, NoDirectory, NoJournal, Written, WriteFails, diskVars
<1>4. CASE Enter
  <2>1. cur' = Journal("applying") /\ journal' \in {journal, cur'}
        /\ pc' \in {NextStep(cur'), "unlock"}
    BY <1>4 DEF Enter, Written, WriteFails, GoTo, Throw, ThrowRaw
  <2>2. cur'.status = "applying" /\ (pc' \in Stepping => cur'.nextStep < N)
    BY <2>1 DEF NextStep, Journal
  <2> QED BY <2>1, <2>2 DEF Forward
<1>5. CASE StepObserve \/ StepRemove \/ StepMkdir \/ StepChmod \/ StepTemporary \/ StepRename \/ StepFails
           \/ Verify
  <2>1. UNCHANGED <<journal, cur>> /\ pc' \in Stepping \cup {"commit", "restored", "compensate", "unknown"}
        /\ (pc' \in Stepping => pc \in Stepping)
    BY <1>5 DEF StepObserve, StepRemove, StepMkdir, StepChmod, StepTemporary, StepRename, StepFails,
       Verify, OnError, GoTo, diskVars, callVars
  <2> QED BY <2>1 DEF Forward
<1>6. CASE StepRecord
  <2>1. pc = "record" /\ cur' = Advanced /\ journal' \in {journal, Advanced}
        /\ pc' \in {NextStep(Advanced), "compensate", "unknown"}
    BY <1>6 DEF StepRecord, Written, WriteFails, GoTo, OnError
  <2>2. CASE Forward
    <3>1. Advanced = [cur EXCEPT !.nextStep = cur.nextStep + 1, !.appliedSteps = cur.nextStep + 1]
      BY <2>2 DEF Advanced
    <3>2. /\ Advanced.status = "applying" /\ Advanced.nextStep = cur.nextStep + 1
          /\ Advanced.appliedSteps = cur.nextStep + 1 /\ Advanced.rollbackIndex = 0
      BY <1>0, <2>2, <3>1 DEF Journals, Forward, Counted
    <3>3. cur.nextStep \in Nat /\ cur.nextStep < N
      BY <1>0, <2>1, <2>2 DEF Journals
    <3>4. Counted(Advanced)
      BY <1>0, <3>2, <3>3 DEF Counted
    <3> QED BY <2>1, <3>2, <3>4 DEF NextStep, Forward
  <2>3. CASE ~Forward
    <3>1. Advanced = [cur EXCEPT !.rollbackIndex = cur.rollbackIndex + 1]
      BY <2>3 DEF Advanced
    <3>2. /\ Advanced.status = "rolling_back" /\ Advanced.nextStep = cur.nextStep
          /\ Advanced.appliedSteps = cur.appliedSteps /\ Advanced.rollbackIndex = cur.rollbackIndex + 1
      BY <1>0, <2>1, <2>3, <3>1, StepAtHand DEF Journals, Stepping
    <3>3. cur.rollbackIndex \in Nat /\ cur.rollbackIndex < cur.appliedSteps /\ cur.appliedSteps \in Nat
      BY <1>0, <2>1, <2>3 DEF Journals
    <3>4. Counted(Advanced)
      BY <1>0, <3>2, <3>3 DEF Counted
    <3> QED BY <2>1, <3>2, <3>4 DEF NextStep, Forward
  <2> QED BY <2>2, <2>3
<1>7. CASE Commit \/ Restored \/ MarkUnknown
  <2>1. PICK s \in {"committed", "rolled_back", "unknown"} :
           cur' = [cur EXCEPT !.status = s] /\ journal' \in {journal, cur'} /\ pc' \notin Stepping
    BY <1>7 DEF Commit, Restored, MarkUnknown, Conclude, Written, WriteFails, GoTo, Settle, Throw, ThrowRaw
  <2>2. Counted(cur')
    BY <1>0, <2>1 DEF Statuses
  <2> QED BY <2>1, <2>2
<1>8. CASE Compensate
  <2>1. journal' = journal /\ pc' \notin Stepping /\ (RollBack(cur) \/ cur' = cur)
    BY <1>8 DEF Compensate, RollBack, GoTo, Throw, ThrowRaw
  <2> QED BY <1>0, <2>1, RollBackCounted
<1>9. CASE Reconcile
  <2>1. journal' = journal /\ pc' \notin Stepping
    BY <1>9 DEF Reconcile, Settle, SettledObservation, RollBack, GoTo
  <2>2. \/ cur' = journal \/ RollBack(journal)
        \/ /\ RollbackProgress(journal) # {} /\ journal.status = "rolling_back"
           /\ cur' = [journal EXCEPT !.rollbackIndex = First(RollbackProgress(journal))]
    BY <1>9 DEF Reconcile, SettledObservation
  <2>3. CASE /\ RollbackProgress(journal) # {} /\ journal.status = "rolling_back"
             /\ cur' = [journal EXCEPT !.rollbackIndex = First(RollbackProgress(journal))]
    <3>1. RollbackProgress(journal) \subseteq {journal.rollbackIndex, journal.rollbackIndex + 1}
          /\ journal.rollbackIndex \in Nat /\ \A r \in RollbackProgress(journal) : r <= journal.appliedSteps
      BY <1>0 DEF RollbackProgress, Journals
    <3>2. First(RollbackProgress(journal)) \in 0 .. journal.appliedSteps
      BY <1>0, <2>3, <3>1, FirstOfTwo DEF Journals
    <3>3. Counted(cur')
      BY <1>0, <2>3, <3>2 DEF Journals, Counted
    <3> QED BY <2>1, <3>3
  <2> QED BY <1>0, <2>1, <2>2, <2>3, RollBackCounted
<1>10. CASE ReconcileMissing
  BY <1>10 DEF ReconcileMissing, Throw, GoTo, diskVars
<1>11. CASE Rolling
  <2>1. cur' = cur /\ journal' \in {journal, cur} /\ pc' \in {NextStep(cur), "unlock"}
    BY <1>11 DEF Rolling, Written, WriteFails, GoTo, Throw, ThrowRaw
  <2>2. pc' \in Stepping => \/ cur.status = "applying" /\ cur.nextStep < N
                            \/ cur.status = "rolling_back" /\ cur.rollbackIndex < cur.appliedSteps
    BY <2>1 DEF NextStep
  <2> QED BY <2>1, <2>2 DEF Forward
<1>12. CASE Caller
  <2>1. cur' = cur /\ pc' \notin Stepping /\ journal' \in {journal, NoDirectory}
    BY <1>12 DEF Caller, Dispatch, EventSettled, Caught, Returned, Judge, Cleanup, CleanupFails,
       EventCleaned, Check, Fail, GoTo, Exit, RemoveDirectory, diskVars, callVars
  <2> QED BY <2>1 DEF NoDirectory
<1>13. CASE Crash
  BY <1>13 DEF Crash, Exit, GoTo, diskVars, NoDirectory
<1>14. CASE UNCHANGED <<journal, cur, pc>>
  BY <1>14 DEF Forward
<1> QED BY <1>1, <1>2, <1>3, <1>4, <1>5, <1>6, <1>7, <1>8, <1>9, <1>10, <1>11, <1>12, <1>13, <1>14
       DEF Next, Process, Prepare, Apply, Recover, World, EditPath, AddEntry, OtherLocks,
           OtherUnlocks, vars, diskVars, callVars

\* What a step does to the counters.
LEMMA CountersMove ==
    ASSUME [Next]_vars
    PROVE  \/ NoFault \/ Fault \/ Crash \/ UNCHANGED countVars
           \/ edits < MaxEdits /\ edits' = edits + 1 /\ UNCHANGED <<crashes, faults, blurred>>
BY DEF Next, Process, Acquire, Prepare, Apply, Recover, Caller, World, Resume, LockOpen,
   LockRemoveStale, LockBusy, LockWrite, Unlock, Freshness, MakeDirectory, CaptureRollback,
   JournalPrepared, EventPrepared, Refused, Enter, StepObserve, StepRemove, StepMkdir, StepChmod,
   StepTemporary, StepRename, StepFails, StepRecord, Verify, Commit, Compensate, Reconcile,
   ReconcileMissing, Rolling, Restored, MarkUnknown, Conclude, Dispatch, EventSettled, Caught,
   Returned, Judge, Cleanup, CleanupFails, EventCleaned, Check, Fail, Written, WriteFails,
   Recorded, RecordFails, EditPath, AddEntry, OtherLocks, OtherUnlocks, vars

\* Every step keeps files, temporaries, lock and counters within their types.
LEMMA StepTypes ==
    ASSUME ShapeOK, PhaseInv, CountInv, TypeInv, [Next]_vars
    PROVE  TypeInv'
<1>1. crashes' \in 0 .. MaxCrashes /\ faults' \in 0 .. MaxFaults /\ edits' \in 0 .. MaxEdits
      /\ blurred' \in BOOLEAN
  <2>1. \/ NoFault \/ Fault \/ Crash \/ UNCHANGED countVars
        \/ edits < MaxEdits /\ edits' = edits + 1 /\ UNCHANGED <<crashes, faults, blurred>>
    BY CountersMove
  <2>2. CASE NoFault \/ UNCHANGED countVars
    BY <2>2 DEF NoFault, countVars, TypeInv
  <2>3. CASE Fault
    BY <2>3, BoundAssumption DEF Fault, NoCrash, TypeInv
  <2>4. CASE Crash
    BY <2>4, BoundAssumption DEF Crash, TypeInv
  <2>5. CASE edits < MaxEdits /\ edits' = edits + 1 /\ UNCHANGED <<crashes, faults, blurred>>
    BY <2>5, BoundAssumption DEF TypeInv
  <2> QED BY <2>1, <2>2, <2>3, <2>4, <2>5
<1>2. lock' \in {"free", "opened", "mine", "other", "stale", "torn"}
  <2>1. lock' \in {lock, "free", "opened", "mine", "other", "torn"} \/ Exit
    BY DEF Next, Process, Acquire, Prepare, Apply, Recover, Caller, World, Resume, LockOpen,
       LockRemoveStale, LockBusy, LockWrite, Unlock, Freshness, MakeDirectory, CaptureRollback,
       JournalPrepared, EventPrepared, Refused, Enter, StepObserve, StepRemove, StepMkdir, StepChmod,
       StepTemporary, StepRename, StepFails, StepRecord, Verify, Commit, Compensate, Reconcile,
       ReconcileMissing, Rolling, Restored, MarkUnknown, Conclude, Dispatch, EventSettled, Caught,
       Returned, Judge, Cleanup, CleanupFails, EventCleaned, Check, Fail, Crash, EditPath, AddEntry,
       OtherLocks, OtherUnlocks, vars
  <2> QED BY <2>1 DEF Exit, TypeInv
<1>3. extra' \subseteq Paths /\ blobs' \subseteq Paths /\ candidate' \in BOOLEAN
  <2>1. PreimageFiles \subseteq Paths
    BY DEF PreimageFiles
  <2>2. /\ blobs' \in {blobs, {}, PreimageFiles} /\ candidate' \in {candidate, FALSE}
        /\ \/ extra' \subseteq extra \/ \E d \in Paths : extra' = extra \cup {d}
    BY DEF Next, Process, Acquire, Prepare, Apply, Recover, Caller, World, Resume, LockOpen,
       LockRemoveStale, LockBusy, LockWrite, Unlock, Freshness, MakeDirectory, CaptureRollback,
       JournalPrepared, EventPrepared, Refused, Enter, StepObserve, StepRemove, StepMkdir, StepChmod,
       StepTemporary, StepRename, StepFails, StepRecord, Verify, Commit, Compensate, Reconcile,
       ReconcileMissing, Rolling, Restored, MarkUnknown, Conclude, Dispatch, EventSettled, Caught,
       Returned, Judge, Cleanup, CleanupFails, EventCleaned, Check, Crash, EditPath, AddEntry,
       OtherLocks, OtherUnlocks, RemoveDirectory, vars, diskVars
  <2> QED BY <2>1, <2>2 DEF TypeInv
<1>4. temps' \subseteq (1 .. N) \X {"forward", "rollback"}
  <2>1. CASE StepTemporary
    <3>1. temps' \subseteq temps \cup {<<StepIndex, Direction>>} /\ pc \in Stepping
      BY <2>1 DEF StepTemporary, Stepping
    <3>2. <<StepIndex, Direction>> \in (1 .. N) \X {"forward", "rollback"}
      BY <3>1, StepAtHand DEF Direction
    <3> QED BY <3>1, <3>2 DEF TypeInv
  <2>2. CASE ~StepTemporary
    <3>1. temps' \subseteq temps
      BY <2>2 DEF Next, Process, Acquire, Prepare, Apply, Recover, Caller, World, Resume, LockOpen,
       LockRemoveStale, LockBusy, LockWrite, Unlock, Freshness, MakeDirectory, CaptureRollback,
       JournalPrepared, EventPrepared, Refused, Enter, StepObserve, StepRemove, StepMkdir, StepChmod,
       StepRename, StepFails, StepRecord, Verify, Commit, Compensate, Reconcile,
       ReconcileMissing, Rolling, Restored, MarkUnknown, Conclude, Dispatch, EventSettled, Caught,
       Returned, Judge, Cleanup, CleanupFails, EventCleaned, Check, Crash, EditPath, AddEntry,
       OtherLocks, OtherUnlocks, CleanupTemporaries, vars, diskVars
    <3> QED BY <3>1 DEF TypeInv
  <2> QED BY <2>1, <2>2
<1>5. ws' \in [Paths -> Identities]
  <2>1. Missing \in Identities /\ Foreign \in Identities
    <3>1. "foreign" \in Tags /\ "file" \in Kinds \ {"missing"}
      BY DEF Tags, Kinds
    <3> QED BY <3>1 DEF Identities, Foreign
  <2>2. \/ ws' = ws
        \/ \E p \in Paths : \E id \in Identities : ws' = [ws EXCEPT ![p] = id]
    <3>1. CASE StepRemove \/ StepChmod \/ StepRename
      <4>1. pc \in Stepping
        BY <3>1 DEF StepRemove, StepChmod, StepRename, Stepping
      <4> QED BY <2>1, <3>1, <4>1, StepAtHand DEF StepRemove, StepChmod, StepRename
    <3>2. CASE StepMkdir
      <4>1. pc \in Stepping /\ To.kind = "directory"
        BY <3>2 DEF StepMkdir, Stepping
      <4>2. Masked(To) \in Identities
        <5>1. To \in [kind : Kinds \ {"missing"}, tag : Tags]
          BY <4>1, StepAtHand DEF Identities, Missing
        <5>2. "masked" \in Tags
          BY DEF Tags
        <5> QED BY <5>1, <5>2 DEF Identities, Masked
      <4> QED BY <3>2, <4>1, <4>2, StepAtHand DEF StepMkdir
    <3>3. ASSUME NEW p \in Paths, EditPath(p)
          PROVE  \E id \in Identities : ws' = [ws EXCEPT ![p] = id]
      BY <2>1, <3>3 DEF EditPath
    <3>4. CASE ~(\/ StepRemove \/ StepChmod \/ StepRename \/ StepMkdir \/ \E p \in Paths : EditPath(p))
      BY <3>4 DEF Next, Process, Acquire, Prepare, Apply, Recover, Caller, World, Resume, LockOpen,
       LockRemoveStale, LockBusy, LockWrite, Unlock, Freshness, MakeDirectory, CaptureRollback,
       JournalPrepared, EventPrepared, Refused, Enter, StepObserve, StepTemporary,
       StepFails, StepRecord, Verify, Commit, Compensate, Reconcile,
       ReconcileMissing, Rolling, Restored, MarkUnknown, Conclude, Dispatch, EventSettled, Caught,
       Returned, Judge, Cleanup, CleanupFails, EventCleaned, Check, Crash, AddEntry,
       OtherLocks, OtherUnlocks, vars, diskVars
    <3> QED BY <3>1, <3>2, <3>3, <3>4
  <2> QED BY <2>2 DEF TypeInv
<1> QED BY <1>1, <1>2, <1>3, <1>4, <1>5 DEF TypeInv

RecordInv == CountInv /\ TypeInv

\* The counts and the types hold throughout.
LEMMA RecordInvariant == Spec => []RecordInv
<1>1. Init => RecordInv
  <2> SUFFICES ASSUME Init PROVE RecordInv
    OBVIOUS
  <2>1. CountInv
    BY CountedJournals DEF Init, CountInv, Stepping, NoDirectory
  <2>2. TypeInv
    <3>1. ws \in [Paths -> Identities] /\ extra \subseteq Paths /\ blobs \subseteq Paths /\ temps = {}
      BY DeltaAssumption DEF Init
    <3>2. candidate \in BOOLEAN /\ blurred \in BOOLEAN /\ lock = "free"
      BY DEF Init
    <3>3. crashes \in 0 .. MaxCrashes /\ faults \in 0 .. MaxFaults /\ edits \in 0 .. MaxEdits
      BY BoundAssumption DEF Init
    <3> QED BY <3>1, <3>2, <3>3 DEF TypeInv
  <2> QED BY <2>1, <2>2 DEF RecordInv
<1>2. PromotionInv /\ RecordInv /\ [Next]_vars => RecordInv'
  BY StepCounts, StepTypes DEF PromotionInv, RecordInv
<1> QED BY <1>1, <1>2, PromotionInvariant, PTL DEF Spec

\* Type correctness: the journal's counts stay within the steps of the delta and
\* every affected path holds an entry of a known kind, for every delta.
THEOREM PromotionTyped == Spec => []TypeOK
<1>1. PromotionInv /\ RecordInv => TypeOK
  <2> SUFFICES ASSUME PromotionInv, RecordInv PROVE TypeOK
    OBVIOUS
  <2>1. \A p \in Paths : ws[p].kind \in Kinds
    <3>1. \A id \in Identities : id.kind \in Kinds
      BY DEF Identities, Missing, Kinds
    <3> QED BY <3>1 DEF RecordInv, TypeInv
  <2>2. \A j \in {journal, cur} :
          /\ j.status \in Statuses \cup {"no_directory", "no_journal"}
          /\ j.nextStep \in 0 .. N /\ j.appliedSteps \in 0 .. N
          /\ j.rollbackIndex \in 0 .. j.appliedSteps
    BY DEF PromotionInv, ShapeOK, Journals, RecordInv, CountInv, Counted
  <2> QED BY <2>1, <2>2 DEF TypeOK, PromotionInv, ShapeOK, Checks, RecordInv, TypeInv
<1> QED BY <1>1, PromotionInvariant, RecordInvariant, PTL

-----------------------------------------------------------------------------
(* Crashes alone.                                                          *)

Quiet == edits = 0 /\ faults = 0 /\ ~blurred

\* The steps whose effect is on disk when the record j is up to date.
Done(j) == IF j.status = "rolling_back" THEN j.appliedSteps - j.rollbackIndex ELSE j.nextStep

\* The files are what the record says or one step further.
Fits(j) ==
    /\ j.status \in Statuses \ {"unknown"}
    /\ j.status \in {"prepared", "rolled_back"} => Matches(0)
    /\ j.status = "prepared" => j.nextStep = 0
    /\ j.status = "committed" => Matches(N)
    /\ j.status = "applying" => \E k \in {j.nextStep, j.nextStep + 1} : k <= N /\ Matches(k)
    /\ j.status = "rolling_back" =>
          \E r \in {j.rollbackIndex, j.rollbackIndex + 1} :
             r <= j.appliedSteps /\ Matches(j.appliedSteps - r)

\* What the loop at hand has made of the files.
LoopFits ==
    /\ pc \in Loop \cup {"commit", "restored"} => journal = cur
    /\ pc \in {"observe", "mutate", "rename", "verify", "rolling"} => Matches(Done(cur))
    /\ pc = "rename" => To.kind \in {"file", "symlink"}
    /\ pc = "chmod" =>
          /\ To.kind = "directory"
          /\ ws[StepPath].kind = "directory"
          /\ ws = [Expected(Done(cur)) EXCEPT ![StepPath] = ws[StepPath]]
    /\ pc = "record" => Matches(IF Forward THEN Done(cur) + 1 ELSE Done(cur) - 1)
    /\ pc = "verify" => Done(cur) = IF Forward THEN N ELSE 0
    /\ pc = "rolling" => cur.status = "rolling_back"

\* What holds while the process is interrupted by nothing but crashes.
QuietFacts ==
    /\ extra = {}
    /\ pc \notin {"compensate", "unknown", "refused"}
    /\ journal.status # "unknown" /\ opt.settlement # "unknown" /\ res.outcome # "unknown"
    /\ pc = "event_prepared" => journal = Journal("prepared")
    /\ pc = "enter" => journal.status = "prepared"
    /\ opt.prepared /\ opt.settlement = "none" /\ pc # "chmod" => Fits(journal)
    /\ LoopFits

QuietInv == Quiet => QuietFacts

\* The candidate is kept until it is promoted or turned down.
CandidateInv == opt.decision = "promote" /\ opt.settlement # "committed" => candidate

\* The count the step at hand leads to.
Target == IF Forward THEN Done(cur) + 1 ELSE Done(cur) - 1

\* While nobody else writes, a step that fails or a file that differs is no outcome
\* of the code's own making: nothing that was quiet becomes so only later.
LEMMA QuietBefore ==
    ASSUME ShapeOK, TypeInv, [Next]_vars, Quiet'
    PROVE  Quiet /\ (NoFault \/ Crash \/ UNCHANGED countVars)
<1>1. ~Fault
  BY FaultCounted DEF Quiet
<1>2. ~(edits < MaxEdits /\ edits' = edits + 1)
  BY DEF Quiet, ShapeOK
<1>3. NoFault \/ Crash \/ UNCHANGED countVars
  BY <1>1, <1>2, CountersMove
<1>4. faults' = faults /\ edits' = edits /\ (blurred => blurred')
  <2>1. CASE Crash
    <3>1. faults' = faults /\ edits' = edits
      BY <2>1 DEF Crash
    <3>2. blurred => blurred'
      BY <2>1, Zenon DEF Crash
    <3> QED BY <3>1, <3>2
  <2>2. CASE NoFault \/ UNCHANGED countVars
    BY <2>2 DEF NoFault, countVars
  <2> QED BY <1>3, <2>1, <2>2
<1> QED BY <1>3, <1>4 DEF Quiet

\* Where the step at hand starts, what it leads to, and that nothing stands in its way.
LEMMA TurnOfStep ==
    ASSUME ShapeOK, PhaseInv, CountInv, pc \in Stepping
    PROVE  /\ Target \in 0 .. N /\ Done(cur) \in 0 .. N
           /\ Expected(Done(cur))[StepPath] = From
           /\ Expected(Target) = [Expected(Done(cur)) EXCEPT ![StepPath] = To]
           /\ Parent[StepPath] # Root => /\ Parent[StepPath] \in Paths \ {StepPath}
                                         /\ Expected(Done(cur))[Parent[StepPath]].kind = "directory"
           /\ To = Missing /\ From.kind = "directory" =>
                 \A c \in Children(StepPath) : Expected(Done(cur))[c] = Missing
           /\ From # To
           /\ From # Missing /\ To # Missing => From.kind = To.kind
           /\ ~Forward /\ To.kind = "file" => StepPath \in PreimageFiles
<1>1. /\ StepIndex \in 1 .. N /\ N \in Nat
      /\ cur.status = IF Forward THEN "applying" ELSE "rolling_back"
      /\ cur.nextStep \in Nat /\ cur.appliedSteps \in Nat /\ cur.rollbackIndex \in Nat
  BY StepAtHand, StepsFinite DEF ShapeOK, Journals
<1>2. CASE Forward
  <2>1. /\ Done(cur) = StepIndex - 1 /\ Target = StepIndex
        /\ From = Steps[StepIndex].from /\ To = Steps[StepIndex].to
    BY <1>1, <1>2 DEF Done, Target, StepIndex, From, To
  <2>2. Target \in 0 .. N /\ Done(cur) \in 0 .. N
    BY <1>1, <2>1
  <2>3. /\ Expected(Done(cur))[StepPath] = From
        /\ Expected(Target) = [Expected(Done(cur)) EXCEPT ![StepPath] = To]
    BY <1>1, <2>1, StepEffect DEF StepPath
  <2>4. Parent[StepPath] # Root => /\ Parent[StepPath] \in Paths \ {StepPath}
                                   /\ Expected(Done(cur))[Parent[StepPath]].kind = "directory"
    BY <1>1, <2>1, StepHasParent DEF StepPath
  <2>5. To = Missing /\ From.kind = "directory" =>
           \A c \in Children(StepPath) : Expected(Done(cur))[c] = Missing
    BY <1>1, <2>1, StepEmptiesFirst DEF StepPath, Children
  <2>6. /\ From # To
        /\ From # Missing /\ To # Missing => From.kind = To.kind
        /\ ~Forward /\ To.kind = "file" => StepPath \in PreimageFiles
    BY <1>1, <1>2, <2>1, StepIdentities DEF StepPath
  <2> QED BY <2>2, <2>3, <2>4, <2>5, <2>6
<1>3. CASE ~Forward
  <2>1. /\ Done(cur) = StepIndex /\ Target = StepIndex - 1
        /\ From = Steps[StepIndex].to /\ To = Steps[StepIndex].from
    BY <1>1, <1>3 DEF Done, Target, StepIndex, From, To
  <2>2. Target \in 0 .. N /\ Done(cur) \in 0 .. N
    BY <1>1, <2>1
  <2>3. /\ Expected(Done(cur))[StepPath] = From
        /\ Expected(Target) = [Expected(Done(cur)) EXCEPT ![StepPath] = To]
    BY <1>1, <2>1, StepEffect DEF StepPath
  <2>4. Parent[StepPath] # Root => /\ Parent[StepPath] \in Paths \ {StepPath}
                                   /\ Expected(Done(cur))[Parent[StepPath]].kind = "directory"
    BY <1>1, <2>1, StepHasParent DEF StepPath
  <2>5. To = Missing /\ From.kind = "directory" =>
           \A c \in Children(StepPath) : Expected(Done(cur))[c] = Missing
    BY <1>1, <2>1, StepEmptiesFirst DEF StepPath, Children
  <2>6. /\ From # To
        /\ From # Missing /\ To # Missing => From.kind = To.kind
        /\ ~Forward /\ To.kind = "file" => StepPath \in PreimageFiles
    BY <1>1, <1>3, <2>1, StepIdentities DEF StepPath
  <2> QED BY <2>2, <2>3, <2>4, <2>5, <2>6
<1> QED BY <1>2, <1>3

\* The record of the step at hand fits the files before and after the step.
LEMMA RecordFits ==
    ASSUME ShapeOK, PhaseInv, CountInv, pc \in Stepping, journal = cur, UNCHANGED journal,
           ws' = Expected(Done(cur)) \/ ws' = Expected(Target)
    PROVE  Fits(journal)'
<1>1. /\ cur.status = IF Forward THEN "applying" ELSE "rolling_back"
      /\ cur.nextStep \in Nat /\ cur.appliedSteps \in Nat /\ cur.rollbackIndex \in Nat
      /\ N \in Nat
  BY StepAtHand, StepsFinite DEF ShapeOK, Journals
<1>2. CASE Forward
  <2>1. ws' = Expected(cur.nextStep) \/ ws' = Expected(cur.nextStep + 1)
    BY <1>1, <1>2 DEF Done, Target
  <2>2. cur.nextStep < N
    BY <1>2 DEF CountInv
  <2> QED BY <1>1, <1>2, <2>1, <2>2 DEF Fits, Matches, Statuses
<1>3. CASE ~Forward
  <2>1. ws' = Expected(cur.appliedSteps - cur.rollbackIndex)
        \/ ws' = Expected(cur.appliedSteps - (cur.rollbackIndex + 1))
    <3>1. cur.appliedSteps - (cur.rollbackIndex + 1) = (cur.appliedSteps - cur.rollbackIndex) - 1
      BY <1>1
    <3> QED BY <1>1, <1>3, <3>1 DEF Done, Target
  <2>2. cur.rollbackIndex < cur.appliedSteps
    BY <1>3 DEF CountInv
  <2> QED BY <1>1, <1>3, <2>1, <2>2 DEF Fits, Matches, Statuses
<1> QED BY <1>2, <1>3

\* The candidate goes away only once it is promoted or rejected.
LEMMA StepCandidate ==
    ASSUME ShapeOK, PhaseInv, CandidateInv, [Next]_vars
    PROVE  CandidateInv'
<1> USE DEF ShapeOK, Checks, PhaseInv, Entered, Loop, Preparing, Outside, CandidateInv
<1>1. CASE Cleanup
  BY <1>1 DEF Cleanup
<1>2. CASE EventPrepared \/ EventSettled \/ Returned \/ CleanupFails \/ EventCleaned \/ Check
  BY <1>2 DEF EventPrepared, EventSettled, Returned, CleanupFails, EventCleaned, Check, Recorded,
     RecordFails, diskVars
<1>3. CASE Caught \/ Judge
  <2>1. PICK c : UNCHANGED diskVars /\ (Fail(c) \/ UNCHANGED opt)
    BY <1>3 DEF Caught, Judge
  <2> QED BY <2>1 DEF Fail, Recorded, RecordFails, diskVars
<1>4. CASE UNCHANGED <<opt, candidate>>
  BY <1>4
<1>5. CASE Resume \/ Acquire
  BY <1>4, <1>5 DEF Resume, Acquire, LockOpen, LockRemoveStale, LockBusy, LockWrite, Unlock, diskVars
<1>6. CASE Freshness \/ MakeDirectory \/ CaptureRollback \/ JournalPrepared \/ Refused \/ Enter
  BY <1>4, <1>6 DEF Freshness, MakeDirectory, CaptureRollback, JournalPrepared, Refused, Enter, diskVars
<1>7. CASE Apply
  BY <1>4, <1>7 DEF Apply, StepObserve, StepRemove, StepMkdir, StepChmod, StepTemporary, StepRename,
     StepFails, StepRecord, Verify, Commit, diskVars
<1>8. CASE Recover
  BY <1>4, <1>8 DEF Recover, Compensate, Reconcile, ReconcileMissing, Rolling, Restored, MarkUnknown,
     Conclude, diskVars
<1>9. CASE Dispatch \/ World \/ UNCHANGED vars
  BY <1>4, <1>9 DEF Dispatch, World, Crash, EditPath, AddEntry, OtherLocks, OtherUnlocks, vars, diskVars
<1> QED BY <1>1, <1>2, <1>3, <1>5, <1>6, <1>7, <1>8, <1>9 DEF Next, Process, Prepare, Caller

\* A record and files that do not change go on fitting.
LEMMA FitsKept ==
    ASSUME UNCHANGED <<ws, journal>>
    PROVE  Fits(journal)' <=> Fits(journal)
BY DEF Fits, Matches

\* Up to the durable prepare nothing is entered.
LEMMA QuietPrepare ==
    ASSUME ShapeOK, PhaseInv, FileInv, QuietFacts, Quiet, Quiet', Resume \/ Acquire \/ Prepare
    PROVE  QuietFacts'
<1>0. edits = 0 /\ ~Fault
  BY FaultCounted DEF Quiet
<1> USE DEF ShapeOK, Checks, PhaseInv, Entered, Loop, Preparing, Outside, QuietFacts, GoTo
<1>1. CASE Resume
  BY <1>1, FitsKept DEF Resume, diskVars, NoResult, Result, LoopFits
<1>2. CASE LockOpen \/ LockRemoveStale \/ LockBusy \/ LockWrite
  BY <1>2, FitsKept DEF LockOpen, LockRemoveStale, LockBusy, LockWrite, diskVars, callVars, Result, LoopFits
<1>3. CASE Unlock
  BY <1>3, FitsKept DEF Unlock, diskVars, Result, LoopFits
<1>4. CASE Freshness \/ MakeDirectory
  BY <1>4 DEF Freshness, MakeDirectory, Throw, Result, diskVars, LoopFits, NoJournal, Journal
<1>5. CASE CaptureRollback \/ JournalPrepared
  BY <1>0, <1>5 DEF CaptureRollback, JournalPrepared, Written, RemoveDirectory, NoDirectory, Journal,
     Throw, ThrowRaw, Result, LoopFits
<1>6. CASE EventPrepared
  <2>1. pc' = "enter" /\ UNCHANGED <<ws, extra, journal, res>> /\ opt'.settlement = opt.settlement
    BY <1>0, <1>6 DEF EventPrepared, Recorded, RecordFails, diskVars
  <2>2. journal = Journal("prepared") /\ Matches(0)
    BY <1>0, <1>6, NothingDone DEF EventPrepared, FileInv, Matches
  <2>3. Fits(journal)
    BY <2>2 DEF Fits, Journal, Statuses
  <2> QED BY <2>1, <2>2, <2>3, FitsKept DEF LoopFits, Journal
<1>7. CASE Refused
  BY <1>7 DEF Refused
<1>8. CASE Enter
  <2>1. /\ cur' = Journal("applying") /\ journal' = cur' /\ pc' = NextStep(cur')
        /\ UNCHANGED <<ws, extra, opt, res>>
    BY <1>0, <1>8 DEF Enter, Written, WriteFails
  <2>2. Matches(0)'
    BY <1>8, <2>1 DEF Enter, Fits, Matches
  <2>3. cur'.status = "applying" /\ cur'.nextStep = 0 /\ Done(cur)' = 0 /\ Forward'
    BY <2>1 DEF Journal, Done, Forward
  <2>4. pc' \in {"observe", "verify"} /\ (pc' = "verify" => N = 0) /\ N \in Nat
    BY <2>1, <2>3, StepsFinite DEF NextStep
  <2>5. Fits(journal)'
    BY <2>1, <2>2, <2>3, <2>4 DEF Fits, Statuses
  <2>6. LoopFits'
    BY <2>1, <2>2, <2>3, <2>4 DEF LoopFits
  <2> QED BY <2>1, <2>3, <2>4, <2>5, <2>6
<1> QED BY <1>1, <1>2, <1>3, <1>4, <1>5, <1>6, <1>7, <1>8 DEF Acquire, Prepare

\* The caller changes no file and no record but the ledger's.
LEMMA QuietCaller ==
    ASSUME ShapeOK, PhaseInv, QuietFacts, Quiet, Quiet', Caller
    PROVE  QuietFacts'
<1>0. edits = 0 /\ ~Fault
  BY FaultCounted DEF Quiet
<1> USE DEF ShapeOK, Checks, PhaseInv, Entered, Loop, Preparing, Outside, QuietFacts, GoTo
<1>1. CASE Dispatch
  BY <1>1, FitsKept DEF Dispatch, diskVars, LoopFits
<1>2. CASE EventSettled
  BY <1>0, <1>2, FitsKept DEF EventSettled, Recorded, RecordFails, Result, diskVars, LoopFits
<1>3. CASE Caught \/ Judge
  <2>1. PICK c : UNCHANGED <<diskVars, res>> /\ \/ Fail(c)
                                                \/ pc' = "cleanup" /\ UNCHANGED opt
    BY <1>3 DEF Caught, Judge
  <2>2. pc \in {"returned", "judge"} /\ pc' \in {"down", "cleanup"}
    BY <1>3, <2>1 DEF Fail, Exit, Caught, Judge
  <2>3. opt'.settlement = opt.settlement /\ opt'.prepared = opt.prepared
    BY <2>1 DEF Fail, Recorded, RecordFails
  <2> QED BY <2>1, <2>2, <2>3, FitsKept DEF diskVars, LoopFits
<1>4. CASE Returned
  <2>1. /\ pc' \in {"judge", "down"} /\ UNCHANGED <<diskVars, res>> /\ pc = "returned"
        /\ opt'.settlement \in {opt.settlement, res.outcome}
        /\ opt'.prepared = opt.prepared
        /\ opt'.settlement = "none" => opt.settlement = "none"
    BY <1>0, <1>4 DEF Returned, Recorded, RecordFails, Exit
  <2> QED BY <2>1, FitsKept DEF diskVars, LoopFits
<1>5. CASE Cleanup
  BY <1>5, FitsKept DEF Cleanup, RemoveDirectory, NoDirectory, Journal, LoopFits
<1>6. CASE CleanupFails
  BY <1>0, <1>6 DEF CleanupFails
<1>7. CASE EventCleaned \/ Check
  BY <1>0, <1>7, FitsKept DEF EventCleaned, Check, Recorded, RecordFails, Exit, diskVars, LoopFits
<1> QED BY <1>1, <1>2, <1>3, <1>4, <1>5, <1>6, <1>7 DEF Caller

\* Every step of a loop succeeds, forwards and backwards.
LEMMA QuietSteps ==
    ASSUME PromotionInv, RecordInv, CandidateInv, QuietFacts, Quiet, Quiet',
           \/ StepObserve \/ StepRemove \/ StepMkdir \/ StepChmod \/ StepTemporary \/ StepRename
    PROVE  QuietFacts'
<1>0. /\ ShapeOK /\ PhaseInv /\ BlobInv /\ TempInv /\ FileInv /\ CountInv /\ TypeInv /\ LoopFits
      /\ pc \in Stepping /\ pc \in Loop
  BY DEF PromotionInv, RecordInv, QuietFacts, StepObserve, StepRemove, StepMkdir, StepChmod,
     StepTemporary, StepRename, Stepping, Loop
<1>1. /\ UNCHANGED <<extra, journal, opt, cur, res>> /\ journal = cur
      /\ opt.prepared /\ opt.settlement = "none"
  BY <1>0 DEF StepObserve, StepRemove, StepMkdir, StepChmod, StepTemporary, StepRename, diskVars,
     callVars, LoopFits, PhaseInv, Loop, Entered, Outside
<1>2. UNCHANGED <<Forward, Done(cur), StepIndex, StepPath, From, To, Target>>
  BY <1>1 DEF Forward, Done, StepIndex, StepPath, From, To, Target
<1>3. /\ StepPath \in Paths /\ From \in Identities /\ To \in Identities
      /\ From # To /\ (From # Missing /\ To # Missing => From.kind = To.kind)
      /\ ws \in [Paths -> Identities]
      /\ Expected(Done(cur))[StepPath] = From
      /\ Expected(Target) = [Expected(Done(cur)) EXCEPT ![StepPath] = To]
  BY <1>0, StepAtHand, TurnOfStep DEF TypeInv
<1>4. /\ \A id \in Identities : id # Missing => id.kind \in {"directory", "file", "symlink"}
      /\ Missing.kind = "missing"
  BY DEF Identities, Kinds, Missing
<1>5. Matches(Done(cur)) => HasParent(StepPath) /\ ws[StepPath] = From
  BY <1>0, <1>3, TurnOfStep DEF Matches, HasParent
<1>6. ASSUME pc' \in {"mutate", "rename"}, UNCHANGED ws, Matches(Done(cur)),
             pc' = "rename" => To.kind \in {"file", "symlink"}
      PROVE  QuietFacts'
  <2>1. Fits(journal)'
    BY <1>0, <1>1, <1>6, RecordFits DEF Matches
  <2>2. LoopFits'
    BY <1>1, <1>2, <1>6 DEF LoopFits, Matches
  <2> QED BY <1>1, <1>6, <2>1, <2>2 DEF QuietFacts
<1>7. ASSUME pc' = "record", ws' = Expected(Target) PROVE QuietFacts'
  <2>1. Fits(journal)'
    BY <1>0, <1>1, <1>7, RecordFits
  <2>2. LoopFits'
    BY <1>1, <1>2, <1>7 DEF LoopFits, Matches, Target
  <2> QED BY <1>1, <1>7, <2>1, <2>2 DEF QuietFacts
<1>8. CASE StepObserve
  <2>1. Matches(Done(cur))
    BY <1>0, <1>8 DEF StepObserve, LoopFits
  <2>2. pc' = "mutate" /\ UNCHANGED ws
    BY <1>5, <1>8, <2>1 DEF StepObserve, GoTo, diskVars
  <2> QED BY <1>6, <2>1, <2>2
<1>9. CASE StepRemove
  <2>1. pc = "mutate" /\ To = Missing /\ Matches(Done(cur)) /\ ws[StepPath] = From /\ temps = {} /\ extra = {}
    BY <1>0, <1>5, <1>9 DEF StepRemove, LoopFits, TempInv, Entered, Loop, QuietFacts
  <2>2. IF From.kind = "directory" THEN CanRmdir(StepPath) ELSE CanUnlink(StepPath)
    BY <1>0, <1>3, <1>4, <2>1, TurnOfStep DEF CanRmdir, CanUnlink, Matches
  <2>3. pc' = "record" /\ ws' = [ws EXCEPT ![StepPath] = To]
    BY <1>9, <2>1, <2>2 DEF StepRemove, GoTo
  <2> QED BY <1>3, <1>7, <2>1, <2>3 DEF Matches
<1>10. CASE StepMkdir
  <2>1. pc = "mutate" /\ To.kind = "directory" /\ Matches(Done(cur)) /\ ws[StepPath] = From
        /\ To # Missing
    BY <1>0, <1>4, <1>5, <1>10 DEF StepMkdir, LoopFits
  <2>2. /\ pc' = "chmod" /\ ws'[StepPath].kind = "directory"
        /\ ws' = [ws EXCEPT ![StepPath] = ws'[StepPath]]
    <3>1. CASE From # Missing
      <4>1. pc' = "chmod" /\ ws' = ws
        BY <1>10, <3>1 DEF StepMkdir, GoTo
      <4>2. ws = [ws EXCEPT ![StepPath] = ws[StepPath]]
        BY <1>3
      <4> QED BY <1>3, <2>1, <3>1, <4>1, <4>2
    <3>2. CASE From = Missing
      <4>1. PICK made \in {To, Masked(To)} : pc' = "chmod" /\ ws' = [ws EXCEPT ![StepPath] = made]
        BY <1>10, <2>1, <3>2 DEF StepMkdir, GoTo
      <4>2. To \in [kind : Kinds \ {"missing"}, tag : Tags]
        BY <1>3, <2>1 DEF Identities
      <4>3. made.kind = "directory"
        BY <2>1, <4>1, <4>2 DEF Masked
      <4> QED BY <1>3, <4>1, <4>3
    <3> QED BY <3>1, <3>2
  <2>3. LoopFits'
    BY <1>1, <1>2, <2>1, <2>2 DEF LoopFits, Matches
  <2> QED BY <1>1, <2>2, <2>3 DEF QuietFacts
<1>11. CASE StepChmod
  <2>1. /\ pc = "chmod" /\ ws[StepPath].kind = "directory"
        /\ ws = [Expected(Done(cur)) EXCEPT ![StepPath] = ws[StepPath]]
    BY <1>0, <1>11 DEF StepChmod, LoopFits
  <2>2. pc' = "record" /\ ws' = [ws EXCEPT ![StepPath] = To]
    BY <1>4, <1>11, <2>1 DEF StepChmod, GoTo
  <2>3. ws' = Expected(Target)
    BY <1>3, <2>1, <2>2
  <2> QED BY <1>7, <2>2, <2>3
<1>12. CASE StepTemporary
  <2>1. pc = "mutate" /\ To.kind \in {"file", "symlink"} /\ Matches(Done(cur)) /\ temps = {}
    BY <1>0, <1>12 DEF StepTemporary, LoopFits, TempInv, Entered, Loop
  <2>2. BlobAvailable(StepPath)
    <3>1. Forward => candidate
      BY <1>0, <1>1 DEF CandidateInv, PhaseInv, ShapeOK, Checks
    <3>2. ~Forward /\ To.kind = "file" => StepPath \in blobs
      BY <1>0, <1>1, TurnOfStep DEF BlobInv
    <3> QED BY <3>1, <3>2 DEF BlobAvailable
  <2>3. pc' = "rename" /\ UNCHANGED ws
    BY <1>5, <1>12, <2>1, <2>2 DEF StepTemporary, GoTo
  <2> QED BY <1>6, <2>1, <2>3
<1>13. CASE StepRename
  <2>1. pc = "rename" /\ To.kind \in {"file", "symlink"} /\ Matches(Done(cur))
    BY <1>0, <1>13 DEF StepRename, LoopFits
  <2>2. To # Missing /\ From.kind # "directory"
    BY <1>3, <1>4, <2>1
  <2>3. pc' = "record" /\ ws' = [ws EXCEPT ![StepPath] = To]
    BY <1>5, <1>13, <2>1, <2>2 DEF StepRename, GoTo
  <2> QED BY <1>3, <1>7, <2>1, <2>3 DEF Matches
<1> QED BY <1>8, <1>9, <1>10, <1>11, <1>12, <1>13

\* A recorded step is the one that was done, and the end of a loop finds the files
\* it promised.
LEMMA QuietRecords ==
    ASSUME PromotionInv, RecordInv, CountInv', QuietFacts, Quiet, Quiet',
           StepFails \/ StepRecord \/ Verify \/ Commit
    PROVE  QuietFacts'
<1>0. /\ ShapeOK /\ PhaseInv /\ FileInv /\ CountInv /\ LoopFits /\ ~Fault /\ edits = 0 /\ N \in Nat
  BY FaultCounted, StepsFinite DEF PromotionInv, RecordInv, QuietFacts, Quiet
<1>1. CASE StepFails
  BY <1>0, <1>1 DEF StepFails
<1>2. CASE StepRecord
  <2>1. /\ pc = "record" /\ cur' = Advanced /\ journal' = Advanced /\ pc' = NextStep(Advanced)
        /\ UNCHANGED <<ws, extra, opt, res>> /\ pc \in Stepping
    BY <1>0, <1>2 DEF StepRecord, Written, WriteFails, GoTo, Stepping
  <2>2. /\ Matches(Target) /\ cur \in Journals
        /\ cur.status = IF Forward THEN "applying" ELSE "rolling_back"
    BY <1>0, <2>1, StepAtHand DEF LoopFits, Target, ShapeOK
  <2>3. /\ cur'.status = cur.status /\ Done(cur') = Target
        /\ cur'.nextStep \in Nat /\ cur'.appliedSteps \in Nat /\ cur'.rollbackIndex \in Nat
        /\ Forward => Target = cur'.nextStep
        /\ ~Forward => Target = cur'.appliedSteps - cur'.rollbackIndex
    <3>1. CASE Forward
      BY <2>1, <2>2, <3>1 DEF Advanced, Done, Target, Journals
    <3>2. CASE ~Forward
      <4>1. Advanced = [cur EXCEPT !.rollbackIndex = cur.rollbackIndex + 1]
        BY <3>2 DEF Advanced
      <4>2. /\ Advanced.appliedSteps = cur.appliedSteps /\ Advanced.nextStep = cur.nextStep
            /\ Advanced.rollbackIndex = cur.rollbackIndex + 1 /\ Advanced.status = cur.status
        BY <2>2, <4>1 DEF Journals
      <4>3. cur.appliedSteps \in Nat /\ cur.rollbackIndex \in Nat /\ cur.nextStep \in Nat
        BY <2>2 DEF Journals
      <4>4. Target = (cur.appliedSteps - cur.rollbackIndex) - 1
        BY <2>2, <3>2 DEF Target, Done
      <4>5. Done(Advanced) = cur.appliedSteps - (cur.rollbackIndex + 1)
        BY <2>2, <3>2, <4>2 DEF Done
      <4> QED BY <2>1, <3>2, <4>2, <4>3, <4>4, <4>5
    <3> QED BY <3>1, <3>2
  <2>4. Matches(Done(cur))' /\ (Forward' <=> Forward)
    BY <2>1, <2>2, <2>3 DEF Matches, Forward, Done
  <2>5. Counted(cur')
    BY DEF CountInv
  <2>6. pc' \in {"observe", "verify"} /\ (pc' = "verify" => Target = IF Forward THEN N ELSE 0)
    BY <1>0, <2>1, <2>2, <2>3, <2>5 DEF NextStep, Counted
  <2>7. Fits(journal)'
    <3>1. CASE Forward
      BY <1>0, <2>1, <2>2, <2>3, <2>4, <2>5, <3>1 DEF Fits, Counted, Statuses, Matches, Done
    <3>2. CASE ~Forward
      BY <1>0, <2>1, <2>2, <2>3, <2>4, <2>5, <3>2 DEF Fits, Counted, Statuses, Matches, Done
    <3> QED BY <3>1, <3>2
  <2>8. LoopFits'
    BY <2>1, <2>3, <2>4, <2>6 DEF LoopFits
  <2>9. journal'.status # "unknown"
    BY <2>1, <2>2, <2>3
  <2> QED BY <2>1, <2>6, <2>7, <2>8, <2>9 DEF QuietFacts
<1>3. CASE Verify
  <2>1. Matches(IF Forward THEN N ELSE 0) /\ journal = cur /\ opt.prepared
    BY <1>0, <1>3 DEF Verify, LoopFits, Loop, PhaseInv, Entered
  <2>2. pc' \in {"commit", "restored"} /\ UNCHANGED <<ws, extra, journal, cur, opt, res>>
    BY <1>3, <2>1 DEF Verify, GoTo, diskVars, callVars
  <2>3. Fits(journal)'
    BY <1>0, <1>3, <2>1, <2>2, FitsKept DEF Verify, QuietFacts, PhaseInv, Outside
  <2> QED BY <2>1, <2>2, <2>3 DEF QuietFacts, LoopFits, Loop
<1>4. CASE Commit
  <2>1. /\ pc = "commit" /\ pc' = "event_settled" /\ res'.outcome = "committed"
        /\ journal' = [cur EXCEPT !.status = "committed"] /\ UNCHANGED <<ws, extra, opt>>
    BY <1>0, <1>4 DEF Commit, Written, WriteFails, GoTo, Result
  <2>2. Matches(N)' /\ journal'.status = "committed"
    BY <1>0, <2>1 DEF FileInv, Matches, ShapeOK, Journals
  <2>3. Fits(journal)'
    BY <2>2 DEF Fits, Statuses
  <2> QED BY <2>1, <2>2, <2>3 DEF QuietFacts, LoopFits, Loop
<1> QED BY <1>1, <1>2, <1>3, <1>4

\* Compensation is not needed, and a reconciliation finds the files where the
\* journal says they are.
LEMMA QuietRecover ==
    ASSUME PromotionInv, RecordInv, QuietFacts, Quiet, Quiet', Recover
    PROVE  QuietFacts'
<1>0. /\ ShapeOK /\ PhaseInv /\ FileInv /\ CountInv /\ LoopFits /\ ~Fault /\ edits = 0 /\ N \in Nat
      /\ journal \in Journals /\ cur \in Journals
  BY FaultCounted, StepsFinite DEF PromotionInv, RecordInv, QuietFacts, Quiet, ShapeOK
<1>1. CASE Compensate \/ MarkUnknown \/ ReconcileMissing
  BY <1>0, <1>1 DEF Compensate, MarkUnknown, Conclude, ReconcileMissing, QuietFacts
<1>2. ASSUME Reconcile, pc' \in {"rolling", "unlock"}, res'.outcome # "unknown",
             pc' = "rolling" => cur'.status = "rolling_back" /\ Matches(Done(cur'))
      PROVE  QuietFacts'
  <2>1. pc = "reconcile" /\ UNCHANGED <<ws, extra, journal, opt>>
    BY <1>2 DEF Reconcile
  <2>2. Fits(journal)'
    BY <1>0, <2>1, FitsKept DEF QuietFacts, PhaseInv, Outside, Entered, Loop
  <2>3. LoopFits'
    <3>1. pc' = "rolling" => Matches(Done(cur))'
      BY <1>2, <2>1 DEF Matches, Done
    <3> QED BY <1>2, <3>1 DEF LoopFits, Loop
  <2> QED BY <1>2, <2>1, <2>2, <2>3 DEF QuietFacts
<1>3. CASE Reconcile
  <2>1. pc = "reconcile" /\ mode = "reconcile" /\ Fits(journal) /\ journal.status # "unknown"
    BY <1>0, <1>3 DEF Reconcile, QuietFacts, PhaseInv, Outside, Entered, Loop
  <2>2. CASE journal.status \in {"committed", "rolled_back"} /\ SettledObservation
    <3>1. Matches(IF journal.status = "committed" THEN N ELSE 0)
      BY <2>1, <2>2 DEF Fits
    <3>2. pc' = "unlock" /\ res'.outcome = journal.status
      BY <2>1, <2>2, <3>1 DEF SettledObservation, Settle, GoTo, Result
    <3> QED BY <1>2, <1>3, <2>2, <3>2
  <2>3. CASE journal.status = "rolling_back" /\ UNCHANGED res /\
               (\/ /\ RollbackProgress(journal) # {} /\ GoTo("rolling")
                   /\ cur' = [journal EXCEPT !.rollbackIndex = First(RollbackProgress(journal))]
                \/ RollbackProgress(journal) = {} /\ cur' = journal /\ GoTo("unknown"))
    <3>1. RollbackProgress(journal) # {}
      BY <2>1, <2>3 DEF Fits, RollbackProgress
    <3>2. /\ RollbackProgress(journal) \subseteq {journal.rollbackIndex, journal.rollbackIndex + 1}
          /\ journal.rollbackIndex \in Nat
      BY <1>0 DEF RollbackProgress, Journals
    <3>3. First(RollbackProgress(journal)) \in RollbackProgress(journal)
      BY <3>1, <3>2, FirstOfTwo
    <3>4. /\ pc' = "rolling" /\ cur'.status = "rolling_back"
          /\ Done(cur') = journal.appliedSteps - First(RollbackProgress(journal))
      BY <1>0, <2>3, <3>1 DEF GoTo, Done, Journals
    <3>5. Matches(Done(cur'))
      BY <3>3, <3>4 DEF RollbackProgress
    <3> QED BY <1>2, <1>3, <2>3, <3>4, <3>5 DEF QuietFacts
  <2>4. CASE journal.status \in {"prepared", "applying"} /\ RollBack(journal) /\ UNCHANGED res
    <3>1. ForwardProgress(journal.nextStep) # {}
      BY <1>0, <2>1, <2>4 DEF Fits, ForwardProgress
    <3>2. /\ ForwardProgress(journal.nextStep) \subseteq {journal.nextStep, journal.nextStep + 1}
          /\ journal.nextStep \in Nat
      BY <1>0 DEF ForwardProgress, Journals
    <3>3. /\ First(ForwardProgress(journal.nextStep)) \in ForwardProgress(journal.nextStep)
          /\ First(ForwardProgress(journal.nextStep)) \in Nat
      BY <3>1, <3>2, FirstOfTwo
    <3>4. /\ pc' = "rolling"
          /\ cur' = [journal EXCEPT !.status = "rolling_back",
                                    !.appliedSteps = First(ForwardProgress(journal.nextStep)),
                                    !.rollbackIndex = 0]
      BY <2>4, <3>1 DEF RollBack, GoTo
    <3>5. cur'.status = "rolling_back" /\ Done(cur') = First(ForwardProgress(journal.nextStep))
      BY <1>0, <3>3, <3>4 DEF Done, Journals
    <3>6. Matches(Done(cur'))
      BY <3>3, <3>5 DEF ForwardProgress
    <3> QED BY <1>2, <1>3, <2>4, <3>4, <3>5, <3>6 DEF QuietFacts
  <2> QED BY <1>3, <2>1, <2>2, <2>3, <2>4 DEF Reconcile
<1>4. CASE Rolling
  <2>1. /\ pc = "rolling" /\ journal' = cur /\ pc' = NextStep(cur)
        /\ UNCHANGED <<ws, extra, opt, cur, res>>
        /\ cur.status = "rolling_back" /\ Matches(Done(cur))
    BY <1>0, <1>4 DEF Rolling, Written, WriteFails, GoTo, LoopFits
  <2>2. /\ cur.appliedSteps \in Nat /\ cur.rollbackIndex \in Nat /\ cur.rollbackIndex <= cur.appliedSteps
        /\ Done(cur) = cur.appliedSteps - cur.rollbackIndex
    BY <1>0, <2>1 DEF CountInv, Counted, Journals, Done
  <2>3. pc' \in {"observe", "verify"} /\ (pc' = "verify" => Done(cur) = 0)
    BY <2>1, <2>2 DEF NextStep
  <2>4. Fits(journal)'
    BY <2>1, <2>2 DEF Fits, Statuses, Matches
  <2>5. LoopFits'
    BY <2>1, <2>2, <2>3 DEF LoopFits, Matches, Done, Forward
  <2> QED BY <2>1, <2>3, <2>4, <2>5 DEF QuietFacts
<1>5. CASE Restored
  <2>1. /\ pc = "restored" /\ journal' = [cur EXCEPT !.status = "rolled_back"]
        /\ res'.outcome = "rolled_back" /\ pc' \in {"event_settled", "unlock"}
        /\ UNCHANGED <<ws, extra, opt>>
    BY <1>0, <1>5 DEF Restored, Conclude, Written, WriteFails, Settle, GoTo, Result
  <2>2. Matches(0)' /\ journal'.status = "rolled_back"
    BY <1>0, <2>1 DEF FileInv, Matches, ShapeOK, Journals
  <2>3. Fits(journal)'
    BY <2>2 DEF Fits, Statuses
  <2> QED BY <2>1, <2>2, <2>3 DEF QuietFacts, LoopFits, Loop
<1> QED BY <1>1, <1>3, <1>4, <1>5 DEF Recover

\* A crash leaves the files where the journal can tell, outside the window between
\* a mkdir and its chmod.
LEMMA QuietWorld ==
    ASSUME PromotionInv, RecordInv, QuietFacts, Quiet, Quiet', World \/ UNCHANGED vars
    PROVE  QuietFacts'
<1>0. ShapeOK /\ PhaseInv /\ CountInv /\ TypeInv /\ LoopFits
  BY DEF PromotionInv, RecordInv, QuietFacts
<1>1. CASE Crash
  <2>1. pc' = "down" /\ UNCHANGED <<ws, extra, journal, opt>> /\ res'.outcome = "none"
    BY <1>1 DEF Crash, Exit, GoTo, diskVars, NoResult, Result
  <2>2. CASE pc # "chmod"
    BY <2>1, <2>2, FitsKept DEF QuietFacts, LoopFits, Loop
  <2>3. CASE pc = "chmod"
    <3>1. ws[StepPath] = To
      BY <1>1, <2>3, Zenon DEF Crash, Quiet
    <3>2. pc \in Stepping /\ journal = cur /\ ws = [Expected(Done(cur)) EXCEPT ![StepPath] = To]
      BY <1>0, <2>3, <3>1 DEF LoopFits, Loop, Stepping
    <3>3. ws' = Expected(Target)
      BY <1>0, <2>1, <3>2, TurnOfStep
    <3>4. Fits(journal)'
      BY <1>0, <2>1, <3>2, <3>3, RecordFits
    <3> QED BY <2>1, <3>4 DEF QuietFacts, LoopFits, Loop
  <2> QED BY <2>2, <2>3
<1>2. ASSUME NEW p \in Paths, EditPath(p) \/ AddEntry(p) PROVE FALSE
  BY <1>0, <1>2 DEF EditPath, AddEntry, Quiet, ShapeOK
<1>3. CASE UNCHANGED <<diskVars, opt, pc, callVars>>
  <2>1. LoopFits' <=> LoopFits
    BY <1>3 DEF diskVars, callVars, LoopFits, Matches, Done, Forward, To, StepPath, StepIndex
  <2> QED BY <1>3, <2>1, FitsKept DEF diskVars, callVars, QuietFacts
<1> QED BY <1>1, <1>2, <1>3 DEF World, OtherLocks, OtherUnlocks, vars

\* Crashes alone never lose track of the files, at whatever step of whichever
\* recovery they come, for every delta and any number of them.
THEOREM CrashesAreConclusive == Spec => []ConclusiveUnlessDiverged
<1>1. Init => CandidateInv /\ QuietInv
  <2> SUFFICES ASSUME Init PROVE CandidateInv /\ QuietInv
    OBVIOUS
  <2>1. /\ pc = "down" /\ extra = {} /\ journal = NoDirectory /\ res = NoResult /\ candidate
        /\ opt.settlement = "none" /\ ~opt.prepared
    BY DEF Init
  <2> QED BY <2>1 DEF CandidateInv, QuietInv, QuietFacts, LoopFits, Loop, NoDirectory, Journal,
          NoResult, Result
<1>2. PromotionInv /\ RecordInv /\ RecordInv' /\ CandidateInv /\ QuietInv /\ [Next]_vars
         => CandidateInv' /\ QuietInv'
  <2> SUFFICES ASSUME PromotionInv, RecordInv, RecordInv', CandidateInv, QuietInv, [Next]_vars
               PROVE  CandidateInv' /\ QuietInv'
    OBVIOUS
  <2>0. ShapeOK /\ PhaseInv /\ FileInv /\ CountInv' /\ TypeInv
    BY DEF PromotionInv, RecordInv
  <2>1. CandidateInv'
    BY <2>0, StepCandidate
  <2>2. ASSUME Quiet' PROVE QuietFacts'
    <3>1. Quiet /\ QuietFacts
      BY <2>0, <2>2, QuietBefore DEF QuietInv
    <3>2. CASE Resume \/ Acquire \/ Prepare
      BY <2>0, <2>2, <3>1, <3>2, QuietPrepare
    <3>3. CASE Apply
      BY <2>0, <2>2, <3>1, <3>3, QuietSteps, QuietRecords DEF Apply
    <3>4. CASE Recover
      BY <2>2, <3>1, <3>4, QuietRecover
    <3>5. CASE Caller
      BY <2>0, <2>2, <3>1, <3>5, QuietCaller
    <3>6. CASE World \/ UNCHANGED vars
      BY <2>2, <3>1, <3>6, QuietWorld
    <3> QED BY <3>2, <3>3, <3>4, <3>5, <3>6 DEF Next, Process
  <2> QED BY <2>1, <2>2 DEF QuietInv
<1>3. QuietInv => ConclusiveUnlessDiverged
  BY DEF QuietInv, QuietFacts, Quiet, ConclusiveUnlessDiverged, Undisturbed
<1> QED BY <1>1, <1>2, <1>3, PromotionInvariant, RecordInvariant, PTL DEF Spec
=============================================================================
