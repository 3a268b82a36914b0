--------------------------- MODULE RunStore_proofs ---------------------------
(***************************************************************************)
(* Proofs about the run store, for any number of processes and records.    *)
(*                                                                         *)
(* Two owners at once are possible in two ways.  A process that read a     *)
(* dead owner's record renames .owner away after another one has replaced  *)
(* it (the run store_race), or a release fails after its rename and the    *)
(* process goes on as the owner.  The proofs show that there is no third   *)
(* way, that with two processes the first cannot happen, and that as long  *)
(* as neither does, or no process that failed in the second way appends    *)
(* again, no reported append is ever lost.                                 *)
(***************************************************************************)
EXTENDS RunStore, SequenceTheorems, TLAPS

-----------------------------------------------------------------------------
(* Ownership.                                                              *)

\* #retireOwner renames a .owner directory that is not the one whose record was
\* read: another process has published its own in between.
StaleRetirement == \E p \in Procs : Retire(p) /\ owner \notin {observed[p], NoOwner}

\* #releaseOwnership fails after its rename: release keeps the run in #ownedRuns.
FailedRelease == \E p \in Procs : pc[p] = "finalize" /\ ReleaseFails(p)

\* The parts of the state that ownership depends on.
OwnershipTyped ==
    /\ owner \in Procs \cup {NoOwner}
    /\ pc \in [Procs -> Places]
    /\ observed \in [Procs -> Procs \cup {NoOwner}]
    /\ released \subseteq Procs /\ overstayed \in BOOLEAN

\* Where a process is that gave .owner away and still has the run: before its
\* first append it is where it may retry the release.  It is not on record.
ReleasedInv ==
    /\ \A p \in released :
          /\ owner # p
          /\ pc[p] \in {"owned", "truncate", "write", "sync", "release", "finalize"}
          /\ ~overstayed => pc[p] \in {"owned", "release", "finalize"}
    /\ \A p \in Procs : pc[p] = "finalize" => p \in released

\* A process about to judge its own record knows that it is its own.
JudgedInv ==
    \A p \in Procs : pc[p] \in {"judge", "rejudge"} =>
        /\ observed[p] \in Procs
        /\ owner = p => observed[p] = p

\* What no failure and no retirement disturbs.
BaseInv == OwnershipTyped /\ ReleasedInv /\ JudgedInv

\* Whoever acts as the owner is the owner on record.
OwnershipInv == \A p \in Procs : Acts(p) => owner = p

\* Every step keeps the types.
LEMMA StepOwnershipTyped ==
    ASSUME OwnershipTyped, [Next]_vars
    PROVE  OwnershipTyped'
<1> USE DEF OwnershipTyped, Places, Acquiring, Holding, Goto, Forget, told
<1>1. ASSUME NEW p \in Procs, Call(p) PROVE OwnershipTyped'
  BY <1>1 DEF Call, Start, Claim, ClaimOwned, Append1, Release
<1>2. ASSUME NEW p \in Procs, Fail(p) PROVE OwnershipTyped'
  BY <1>2 DEF Fail, AcquireFails, FirstFails, LoadFails, AppendFails, ReleaseFails, Die
<1>3. ASSUME NEW p \in Procs,
             ReadOwner(p) \/ Conflict(p) \/ Retire(p) \/ Publish(p) \/ PublishGivesUp(p) \/ SyncOwner(p)
      PROVE  OwnershipTyped'
  BY <1>3 DEF ReadOwner, Conflict, Retire, Publish, PublishGivesUp, SyncOwner
<1>4. ASSUME NEW p \in Procs, Create(p) \/ WriteFirst(p) \/ SyncFirst(p) \/ Load(p)
                              \/ Truncate(p) \/ Write(p) \/ Sync(p)
      PROVE  OwnershipTyped'
  BY <1>4 DEF Create, WriteFirst, SyncFirst, Load, Truncate, Write, Sync
<1>5. ASSUME NEW p \in Procs, ReadToken(p) \/ UnlinkOwner(p) \/ FinalizeRelease(p)
      PROVE  OwnershipTyped'
  BY <1>5 DEF ReadToken, UnlinkOwner, FinalizeRelease
<1>6. CASE PowerLoss
  BY <1>6 DEF PowerLoss
<1>7. CASE UNCHANGED vars
  BY <1>7 DEF vars
<1> QED BY <1>1, <1>2, <1>3, <1>4, <1>5, <1>6, <1>7 DEF Next, Advance

\* Every step keeps a process that gave .owner away where it may be, and what
\* was read of one's own record true.
LEMMA StepBase ==
    ASSUME BaseInv, [Next]_vars
    PROVE  BaseInv'
<1>0. OwnershipTyped /\ OwnershipTyped' /\ NoOwner \notin Procs
  BY StepOwnershipTyped, StoreConstants DEF BaseInv
<1> USE <1>0 DEF OwnershipTyped, BaseInv, ReleasedInv, JudgedInv, Places, Acquiring, Holding,
                 Goto, Forget, told
<1>1. ASSUME NEW p \in Procs, Call(p) PROVE ReleasedInv' /\ JudgedInv'
  BY <1>1 DEF Call, Start, Claim, ClaimOwned, Append1, Release
<1>2. ASSUME NEW p \in Procs, Fail(p) PROVE ReleasedInv' /\ JudgedInv'
  BY <1>2 DEF Fail, AcquireFails, FirstFails, LoadFails, AppendFails, ReleaseFails, Die
<1>3. ASSUME NEW p \in Procs,
             ReadOwner(p) \/ Conflict(p) \/ Retire(p) \/ Publish(p) \/ PublishGivesUp(p) \/ SyncOwner(p)
      PROVE  ReleasedInv' /\ JudgedInv'
  BY <1>3 DEF ReadOwner, Conflict, Retire, Publish, PublishGivesUp, SyncOwner
<1>4. ASSUME NEW p \in Procs, Create(p) \/ WriteFirst(p) \/ SyncFirst(p) \/ Load(p)
                              \/ Truncate(p) \/ Write(p) \/ Sync(p)
      PROVE  ReleasedInv' /\ JudgedInv'
  BY <1>4 DEF Create, WriteFirst, SyncFirst, Load, Truncate, Write, Sync
<1>5. ASSUME NEW p \in Procs, ReadToken(p) \/ UnlinkOwner(p) \/ FinalizeRelease(p)
      PROVE  ReleasedInv' /\ JudgedInv'
  <2>1. CASE ReadToken(p)
    <3>1. CASE owner = p
      BY <2>1, <3>1 DEF ReadToken
    <3>2. CASE owner # p /\ pc' = [pc EXCEPT ![p] = "idle"]
      BY <2>1, <3>2 DEF ReadToken
    <3>3. CASE owner # p /\ pc[p] = "release" /\ pc' = [pc EXCEPT ![p] = "owned"]
      BY <2>1, <3>3 DEF ReadToken
    <3> QED BY <2>1, <3>1, <3>2, <3>3 DEF ReadToken
  <2>2. CASE UnlinkOwner(p)
    BY <2>2 DEF UnlinkOwner
  <2>3. CASE FinalizeRelease(p)
    BY <2>3 DEF FinalizeRelease
  <2> QED BY <1>5, <2>1, <2>2, <2>3
<1>6. CASE PowerLoss
  BY <1>6 DEF PowerLoss
<1>7. CASE UNCHANGED vars
  BY <1>7 DEF vars
<1> QED BY <1>1, <1>2, <1>3, <1>4, <1>5, <1>6, <1>7 DEF Next, Advance

\* As long as no retirement is stale, whoever acts as the owner is the owner.
LEMMA StepOwnership ==
    ASSUME BaseInv, OwnershipInv, [Next]_vars, ~StaleRetirement
    PROVE  OwnershipInv'
<1>0. OwnershipTyped /\ OwnershipTyped' /\ ReleasedInv /\ JudgedInv /\ NoOwner \notin Procs
  BY StepOwnershipTyped, StoreConstants DEF BaseInv
<1> USE <1>0 DEF OwnershipTyped, ReleasedInv, Places, Acquiring, Holding, Goto, Forget, told,
                 OwnershipInv, Acts
<1>1. ASSUME NEW p \in Procs, Call(p) PROVE OwnershipInv'
  BY <1>1 DEF Call, Start, Claim, ClaimOwned, Append1, Release
<1>2. ASSUME NEW p \in Procs, Fail(p) PROVE OwnershipInv'
  <2>1. CASE AcquireFails(p) \/ FirstFails(p) \/ LoadFails(p) \/ AppendFails(p)
    BY <2>1 DEF AcquireFails, FirstFails, LoadFails, AppendFails
  <2>2. CASE ReleaseFails(p)
    BY <2>2 DEF ReleaseFails
  <2>3. CASE Die(p)
    BY <2>3 DEF Die
  <2> QED BY <1>2, <2>1, <2>2, <2>3 DEF Fail
<1>3. ASSUME NEW p \in Procs, ReadOwner(p) \/ Conflict(p) \/ PublishGivesUp(p) \/ SyncOwner(p)
      PROVE  OwnershipInv'
  BY <1>3 DEF ReadOwner, Conflict, PublishGivesUp, SyncOwner
<1>4. ASSUME NEW p \in Procs, Retire(p) PROVE OwnershipInv'
  <2>1. owner \in {observed[p], NoOwner} /\ observed[p] \in Procs
    BY <1>4 DEF StaleRetirement, Retire, JudgedInv
  <2>2. \A q \in Procs : ~Acts(q)
    BY <1>4, <2>1 DEF Retire
  <2> QED BY <1>4, <2>2 DEF Retire
<1>5. ASSUME NEW p \in Procs, Publish(p) PROVE OwnershipInv'
  BY <1>5 DEF Publish
<1>6. ASSUME NEW p \in Procs, Create(p) \/ WriteFirst(p) \/ SyncFirst(p) \/ Load(p)
                              \/ Truncate(p) \/ Write(p) \/ Sync(p)
      PROVE  OwnershipInv'
  BY <1>6 DEF Create, WriteFirst, SyncFirst, Load, Truncate, Write, Sync
<1>7. ASSUME NEW p \in Procs, ReadToken(p) \/ FinalizeRelease(p) PROVE OwnershipInv'
  BY <1>7 DEF ReadToken, FinalizeRelease
<1>8. ASSUME NEW p \in Procs, UnlinkOwner(p) PROVE OwnershipInv'
  BY <1>8 DEF UnlinkOwner
<1>9. CASE PowerLoss
  BY <1>9 DEF PowerLoss
<1>10. CASE UNCHANGED vars
  BY <1>10 DEF vars
<1> QED BY <1>1, <1>2, <1>3, <1>4, <1>5, <1>6, <1>7, <1>8, <1>9, <1>10 DEF Next, Advance

\* Nobody owns the run at first.
LEMMA InitOwnership == Init => BaseInv /\ OwnershipInv
BY DEF Init, BaseInv, OwnershipInv, OwnershipTyped, ReleasedInv, JudgedInv, Acts, Places,
       Acquiring, Holding

\* Whatever happens, the base of the arguments below holds.
LEMMA BaseAlways == Spec => []BaseInv
<1>1. BaseInv /\ [Next]_vars => BaseInv'
  BY StepBase
<1>2. Init => BaseInv
  BY InitOwnership
<1>3. Spec => Init /\ [][Next]_vars
  BY DEF Spec
<1> QED BY <1>1, <1>2, <1>3, PTL

\* One owner on record is one process that acts as the owner.
LEMMA OwnerIsSingle == OwnershipInv => SingleOwner
BY DEF OwnershipInv, SingleOwner

\* For any number of processes, two of them act as the owner, neither having
\* renamed its own .owner away, only after a retirement (#retireOwner) that
\* renames a directory other than the one that was judged.
THEOREM OneOwnerUnlessStale == Spec /\ [][~StaleRetirement]_vars => []SingleOwner
<1>1. BaseInv /\ OwnershipInv /\ [Next]_vars /\ [~StaleRetirement]_vars => OwnershipInv'
  <2>1. BaseInv /\ OwnershipInv /\ UNCHANGED vars => OwnershipInv'
    BY DEF OwnershipInv, Acts, vars
  <2> QED BY <2>1, StepOwnership
<1>2. Init => OwnershipInv
  BY InitOwnership
<1>3. Spec => Init /\ [][Next]_vars
  BY DEF Spec
<1> QED BY <1>1, <1>2, <1>3, BaseAlways, OwnerIsSingle, PTL

\* At most one process has the run, the one that retries a release included.
Exclusive == \A p, q \in Procs : pc[p] \in Holding /\ pc[q] \in Holding => p = q

\* No process goes on after renaming its .owner away.
NoneStayed == \A p \in released : pc[p] = "finalize"

\* Only a release that fails after its rename leaves a process behind.
LEMMA StepNoneStayed ==
    ASSUME BaseInv, NoneStayed, [Next]_vars, ~FailedRelease
    PROVE  NoneStayed'
<1> USE DEF BaseInv, OwnershipTyped, NoneStayed, Goto, Forget, told
<1>1. ASSUME NEW p \in Procs, Call(p) PROVE NoneStayed'
  BY <1>1 DEF Call, Start, Claim, ClaimOwned, Append1, Release
<1>2. ASSUME NEW p \in Procs, AcquireFails(p) \/ FirstFails(p) \/ LoadFails(p) \/ AppendFails(p) \/ Die(p)
      PROVE  NoneStayed'
  BY <1>2 DEF AcquireFails, FirstFails, LoadFails, AppendFails, Die, Acquiring
<1>3. ASSUME NEW p \in Procs, ReleaseFails(p) PROVE NoneStayed'
  BY <1>3 DEF FailedRelease, ReleaseFails
<1>4. ASSUME NEW p \in Procs,
             ReadOwner(p) \/ Conflict(p) \/ Retire(p) \/ Publish(p) \/ PublishGivesUp(p) \/ SyncOwner(p)
      PROVE  NoneStayed'
  BY <1>4 DEF ReadOwner, Conflict, Retire, Publish, PublishGivesUp, SyncOwner
<1>5. ASSUME NEW p \in Procs, Create(p) \/ WriteFirst(p) \/ SyncFirst(p) \/ Load(p)
                              \/ Truncate(p) \/ Write(p) \/ Sync(p)
      PROVE  NoneStayed'
  BY <1>5 DEF Create, WriteFirst, SyncFirst, Load, Truncate, Write, Sync
<1>6. ASSUME NEW p \in Procs, ReadToken(p) \/ UnlinkOwner(p) \/ FinalizeRelease(p)
      PROVE  NoneStayed'
  BY <1>6 DEF ReadToken, UnlinkOwner, FinalizeRelease
<1>7. CASE PowerLoss
  BY <1>7 DEF PowerLoss
<1>8. CASE UNCHANGED vars
  BY <1>8 DEF vars
<1> QED BY <1>1, <1>2, <1>3, <1>4, <1>5, <1>6, <1>7, <1>8 DEF Next, Advance, Fail

\* A process that is left behind is one of them; without one, whoever has the
\* run acts as the owner.
LEMMA NoneStayedAlways == Spec /\ [][~FailedRelease]_vars => []NoneStayed
<1>1. BaseInv /\ NoneStayed /\ [Next]_vars /\ [~FailedRelease]_vars => NoneStayed'
  <2>1. NoneStayed /\ UNCHANGED vars => NoneStayed'
    BY DEF NoneStayed, vars
  <2> QED BY <2>1, StepNoneStayed
<1>2. Init => NoneStayed
  BY DEF Init, NoneStayed
<1>3. Spec => Init /\ [][Next]_vars
  BY DEF Spec
<1> QED BY <1>1, <1>2, <1>3, BaseAlways, PTL

\* For any number of processes, there is no way for two of them to have the
\* run at once but two: a retirement that renames a directory other than the
\* one that was judged, and a release that fails after its rename.
THEOREM ExclusiveUnlessStaleOrFailed ==
    Spec /\ [][~StaleRetirement]_vars /\ [][~FailedRelease]_vars => [](SingleOwner /\ Exclusive)
<1>1. SingleOwner /\ NoneStayed => Exclusive
  BY DEF SingleOwner, Acts, NoneStayed, Exclusive, Holding
<1> QED BY <1>1, OneOwnerUnlessStale, NoneStayedAlways, PTL

\* With two processes nobody is left to publish between the reading and the
\* renaming of a dead owner's directory.
LEMMA TwoProcessesNeverStale ==
    ASSUME NEW CONSTANT a, NEW CONSTANT b, Procs = {a, b}, BaseInv
    PROVE  ~StaleRetirement
<1> SUFFICES ASSUME NEW p \in Procs, Retire(p), owner \notin {observed[p], NoOwner} PROVE FALSE
  BY DEF StaleRetirement
<1>1. /\ observed[p] \in Procs /\ observed[p] # p /\ owner \in Procs
      /\ pc[p] \in {"judge", "rejudge"}
  BY DEF Retire, BaseInv, JudgedInv, OwnershipTyped
<1>2. owner = p
  BY <1>1
<1> QED BY <1>1, <1>2 DEF BaseInv, JudgedInv

\* Two processes, whatever they do and however they fail, never act as the owner
\* at once, unless one of them has renamed its own .owner away; and when no
\* release fails after its rename, never have the run at once.
THEOREM TwoProcessesOneOwner ==
    ASSUME NEW CONSTANT a, NEW CONSTANT b, Procs = {a, b}
    PROVE  /\ Spec => []SingleOwner
           /\ Spec /\ [][~FailedRelease]_vars => []Exclusive
<1>1. BaseInv => [~StaleRetirement]_vars
  BY TwoProcessesNeverStale
<1>2. Spec => [][~StaleRetirement]_vars
  BY <1>1, BaseAlways, PTL
<1> QED BY <1>2, OneOwnerUnlessStale, ExclusiveUnlessStaleOrFailed, PTL

-----------------------------------------------------------------------------
(* Durability.                                                             *)

Remembering == {"owned", "truncate", "write", "sync", "release", "unlink"}

StoreTyped ==
    /\ exists \in BOOLEAN /\ torn \in BOOLEAN
    /\ lines \in Seq(Procs) /\ acked \in Seq(Procs) /\ synced \in Nat
    /\ memory \in [Procs -> Seq(Procs)]
    /\ intent \in [Procs -> {"fresh", "recovery"}]
    /\ attempt \in [Procs -> 0 .. PublishAttempts]

\* What a process relies on at each point of an append.
HolderInv(p) ==
    /\ pc[p] \in Remembering => IsPrefix(acked, memory[p]) /\ IsPrefix(memory[p], lines) /\ exists
    /\ pc[p] = "first" => lines = <<>> /\ exists
    /\ pc[p] = "firstSync" => lines = <<p>> /\ acked = <<>>
    /\ pc[p] = "truncate" => Len(memory[p]) < MaxEvents
    /\ pc[p] = "write" => lines = memory[p] /\ ~torn /\ Len(lines) < MaxEvents
    /\ pc[p] = "sync" => lines = Append(memory[p], p)

\* What was reported is flushed, and what is flushed is in the file.
FlushedInv ==
    /\ IsPrefix(acked, lines) /\ Len(acked) <= synced /\ synced <= Len(lines)
    /\ Len(lines) <= MaxEvents
    /\ ~exists => lines = <<>> /\ ~torn

\* It holds of the processes that have not given .owner away.
DurableInv == FlushedInv /\ \A p \in Procs \ released : HolderInv(p)

\* A prefix is as long or shorter and agrees at every place.
LEMMA PrefixByPlace ==
    ASSUME NEW S, NEW s \in Seq(S), NEW t \in Seq(S)
    PROVE  IsPrefix(s, t) <=> Len(s) <= Len(t) /\ \A i \in 1 .. Len(s) : s[i] = t[i]
<1>1. Len(s) \in Nat /\ Len(t) \in Nat
  BY LenProperties
<1>2. SubSeq(s, 1, Len(s)) = s
  BY SubSeqFull
<1>3. ASSUME Len(s) <= Len(t)
      PROVE  /\ SubSeq(t, 1, Len(s)) \in Seq(S) /\ Len(SubSeq(t, 1, Len(s))) = Len(s)
             /\ \A i \in 1 .. Len(s) : SubSeq(t, 1, Len(s))[i] = t[i]
  <2>1. \A i \in 1 .. Len(s) : t[i] \in S
    BY <1>1, <1>3, ElementOfSeq
  <2>2. /\ SubSeq(t, 1, Len(s)) \in Seq(S)
        /\ Len(SubSeq(t, 1, Len(s))) = IF 1 <= Len(s) THEN Len(s) - 1 + 1 ELSE 0
        /\ \A i \in 1 .. Len(s) - 1 + 1 : SubSeq(t, 1, Len(s))[i] = t[1 + i - 1]
    BY <1>1, <2>1, SubSeqProperties
  <2> QED BY <1>1, <2>2
<1>4. ASSUME Len(s) <= Len(t), \A i \in 1 .. Len(s) : s[i] = t[i]
      PROVE  s = SubSeq(t, 1, Len(s))
  BY <1>3, <1>4, SeqEqual
<1> QED BY <1>2, <1>3, <1>4 DEF IsPrefix

\* Prefixes: the empty one, the whole, the shorter by one, and prefixes of prefixes.
LEMMA PrefixFacts ==
    ASSUME NEW S
    PROVE  /\ \A t \in Seq(S) : IsPrefix(<<>>, t) /\ IsPrefix(t, t)
           /\ \A t \in Seq(S) : \A x \in S : IsPrefix(t, Append(t, x))
           /\ \A s, t, u \in Seq(S) : IsPrefix(s, t) /\ IsPrefix(t, u) => IsPrefix(s, u)
           /\ \A s, t \in Seq(S) : IsPrefix(s, t) => Len(s) <= Len(t)
<1>0. <<>> \in Seq(S) /\ Len(<<>>) = 0
  BY EmptySeq
<1>1. ASSUME NEW t \in Seq(S) PROVE IsPrefix(<<>>, t) /\ IsPrefix(t, t)
  <2>1. Len(t) \in Nat
    BY LenProperties
  <2>2. Len(<<>>) <= Len(t) /\ \A i \in 1 .. Len(<<>>) : <<>>[i] = t[i]
    BY <1>0, <2>1
  <2>3. IsPrefix(<<>>, t)
    BY <1>0, <2>2, PrefixByPlace
  <2>4. Len(t) <= Len(t) /\ \A i \in 1 .. Len(t) : t[i] = t[i]
    BY <2>1
  <2>5. IsPrefix(t, t)
    BY <2>4, PrefixByPlace
  <2> QED BY <2>3, <2>5
<1>2. ASSUME NEW t \in Seq(S), NEW x \in S PROVE IsPrefix(t, Append(t, x))
  <2>1. /\ Append(t, x) \in Seq(S) /\ Len(Append(t, x)) = Len(t) + 1 /\ Len(t) \in Nat
        /\ \A i \in 1 .. Len(t) : Append(t, x)[i] = t[i]
    BY AppendProperties, LenProperties
  <2>2. Len(t) <= Len(Append(t, x)) /\ \A i \in 1 .. Len(t) : t[i] = Append(t, x)[i]
    BY <2>1
  <2> QED BY <2>1, <2>2, PrefixByPlace
<1>3. ASSUME NEW s \in Seq(S), NEW t \in Seq(S), NEW u \in Seq(S), IsPrefix(s, t), IsPrefix(t, u)
      PROVE  IsPrefix(s, u)
  <2>1. Len(s) \in Nat /\ Len(t) \in Nat /\ Len(u) \in Nat
    BY LenProperties
  <2> QED BY <1>3, <2>1, PrefixByPlace
<1> QED BY <1>1, <1>2, <1>3, PrefixByPlace

\* What a cut leaves.
LEMMA CutFacts ==
    ASSUME NEW S, NEW t \in Seq(S), NEW k \in 0 .. Len(t)
    PROVE  /\ SubSeq(t, 1, k) \in Seq(S) /\ Len(SubSeq(t, 1, k)) = k
           /\ \A s \in Seq(S) : IsPrefix(s, t) /\ Len(s) <= k => IsPrefix(s, SubSeq(t, 1, k))
           /\ \A s \in Seq(S) : IsPrefix(s, t) /\ Len(s) = k => SubSeq(t, 1, k) = s
<1>1. Len(t) \in Nat /\ k \in Nat
  BY LenProperties
<1>2. \A i \in 1 .. k : t[i] \in S
  BY <1>1, ElementOfSeq
<1>3. /\ SubSeq(t, 1, k) \in Seq(S)
      /\ Len(SubSeq(t, 1, k)) = IF 1 <= k THEN k - 1 + 1 ELSE 0
      /\ \A i \in 1 .. k - 1 + 1 : SubSeq(t, 1, k)[i] = t[1 + i - 1]
  BY <1>1, <1>2, SubSeqProperties
<1>4. Len(SubSeq(t, 1, k)) = k /\ \A i \in 1 .. k : SubSeq(t, 1, k)[i] = t[i]
  BY <1>1, <1>3
<1>5. ASSUME NEW s \in Seq(S), IsPrefix(s, t), Len(s) <= k PROVE IsPrefix(s, SubSeq(t, 1, k))
  <2>1. Len(s) \in Nat /\ \A i \in 1 .. Len(s) : s[i] = t[i]
    BY <1>5, PrefixByPlace, LenProperties
  <2>2. \A i \in 1 .. Len(s) : s[i] = SubSeq(t, 1, k)[i]
    BY <1>1, <1>4, <1>5, <2>1
  <2> QED BY <1>3, <1>4, <1>5, <2>2, PrefixByPlace
<1>6. ASSUME NEW s \in Seq(S), IsPrefix(s, t), Len(s) = k PROVE SubSeq(t, 1, k) = s
  <2>1. \A i \in 1 .. Len(s) : s[i] = t[i]
    BY <1>6, PrefixByPlace
  <2> QED BY <1>3, <1>4, <1>6, <2>1, SeqEqual
<1> QED BY <1>3, <1>4, <1>5, <1>6

\* The smaller of two lengths.
LEMMA SmallerOf ==
    ASSUME NEW m \in Nat, NEW n \in Nat
    PROVE  Min({m, n}) \in Nat /\ Min({m, n}) = IF m <= n THEN m ELSE n
<1>1. \E x \in {m, n} : \A y \in {m, n} : x <= y
  OBVIOUS
<1>2. Min({m, n}) \in {m, n} /\ \A y \in {m, n} : Min({m, n}) <= y
  BY <1>1 DEF Min
<1> QED BY <1>2

\* Every step keeps the types of the disk and of what a process remembers.
LEMMA StepStoreTyped ==
    ASSUME OwnershipTyped, StoreTyped, [Next]_vars
    PROVE  StoreTyped'
<1>0. /\ PublishAttempts \in Nat /\ 0 \in 0 .. PublishAttempts /\ <<>> \in Seq(Procs)
      /\ Len(lines) \in Nat
  BY StoreConstants, EmptySeq, LenProperties DEF StoreTyped
<1> USE <1>0 DEF OwnershipTyped, StoreTyped, Goto, Forget, disk, told
<1>1. ASSUME NEW p \in Procs, Call(p) PROVE StoreTyped'
  BY <1>1 DEF Call, Start, Claim, ClaimOwned, Append1, Release
<1>2. ASSUME NEW p \in Procs, FirstFails(p) \/ LoadFails(p) \/ AppendFails(p) PROVE StoreTyped'
  BY <1>2 DEF FirstFails, LoadFails, AppendFails
<1>3. ASSUME NEW p \in Procs, Die(p) PROVE StoreTyped'
  BY <1>3 DEF Die
<1>4. ASSUME NEW p \in Procs, ReadOwner(p) \/ Conflict(p) \/ Retire(p) \/ PublishGivesUp(p)
                              \/ SyncOwner(p) \/ AcquireFails(p)
      PROVE  StoreTyped'
  <2>1. CASE ReadOwner(p) \/ Retire(p) \/ SyncOwner(p)
    BY <2>1 DEF ReadOwner, Retire, SyncOwner
  <2>2. CASE Conflict(p)
    BY <2>2 DEF Conflict
  <2>3. CASE PublishGivesUp(p)
    BY <2>3 DEF PublishGivesUp
  <2>4. CASE AcquireFails(p)
    BY <2>4 DEF AcquireFails
  <2> QED BY <1>4, <2>1, <2>2, <2>3, <2>4
<1>5. ASSUME NEW p \in Procs, Publish(p) PROVE StoreTyped'
  <2>1. attempt[p] \in Nat /\ attempt[p] < PublishAttempts
    BY <1>5 DEF Publish
  <2>2. attempt[p] + 1 \in 0 .. PublishAttempts
    BY <2>1
  <2>3. \/ attempt' = [attempt EXCEPT ![p] = 0]
        \/ attempt' = [attempt EXCEPT ![p] = attempt[p] + 1]
    BY <1>5 DEF Publish
  <2>4. attempt' \in [Procs -> 0 .. PublishAttempts]
    BY <2>2, <2>3
  <2> QED BY <1>5, <2>4 DEF Publish
<1>6. ASSUME NEW p \in Procs, Create(p) \/ Load(p) PROVE StoreTyped'
  BY <1>6 DEF Create, Load
<1>7. ASSUME NEW p \in Procs, WriteFirst(p) \/ SyncFirst(p) PROVE StoreTyped'
  <2>1. <<p>> \in Seq(Procs)
    OBVIOUS
  <2> QED BY <1>7, <2>1 DEF WriteFirst, SyncFirst
<1>8. ASSUME NEW p \in Procs, Truncate(p) PROVE StoreTyped'
  <2> DEFINE kept == Min({Len(memory[p]), Len(lines)})
  <2>1. Len(memory[p]) \in Nat /\ memory[p] \in Seq(Procs)
    BY LenProperties
  <2>a. kept \in Nat /\ kept = IF Len(memory[p]) <= Len(lines) THEN Len(memory[p]) ELSE Len(lines)
    BY <2>1, SmallerOf
  <2> HIDE DEF kept
  <2>b. Min({synced, kept}) \in Nat
    BY <2>a, SmallerOf
  <2>2. kept \in 0 .. Len(lines)
    BY <2>1, <2>a
  <2>3. SubSeq(lines, 1, kept) \in Seq(Procs)
    BY <2>2, CutFacts
  <2>4. lines' \in Seq(Procs) /\ torn' \in BOOLEAN /\ synced' \in Nat
    <3>1. lines' = SubSeq(lines, 1, kept) /\ torn' = (kept < Len(memory[p]))
          /\ synced' = Min({synced, kept})
      BY <1>8 DEF Truncate, kept
    <3>2. (kept < Len(memory[p])) \in BOOLEAN
      OBVIOUS
    <3> QED BY <2>b, <2>3, <3>1, <3>2
  <2> QED BY <1>8, <2>4 DEF Truncate
<1>9. ASSUME NEW p \in Procs, Write(p) \/ Sync(p) PROVE StoreTyped'
  <2>1. Append(lines, p) \in Seq(Procs) /\ Append(memory[p], p) \in Seq(Procs)
    BY AppendProperties
  <2>2. CASE Write(p)
    BY <2>1, <2>2 DEF Write
  <2>3. CASE Sync(p)
    BY <2>1, <2>3 DEF Sync
  <2> QED BY <1>9, <2>2, <2>3
<1>10. ASSUME NEW p \in Procs, ReadToken(p) \/ UnlinkOwner(p) \/ FinalizeRelease(p) \/ ReleaseFails(p)
       PROVE  StoreTyped'
  <2>1. /\ \/ /\ attempt' = [attempt EXCEPT ![p] = 0]
              /\ memory' = [memory EXCEPT ![p] = <<>>]
              /\ intent' = [intent EXCEPT ![p] = "fresh"]
           \/ UNCHANGED <<attempt, memory, intent>>
        /\ UNCHANGED <<exists, lines, torn, synced, acked>>
    <3>1. CASE ReadToken(p)
      BY <3>1 DEF ReadToken
    <3>2. CASE UnlinkOwner(p)
      BY <3>2 DEF UnlinkOwner
    <3>3. CASE FinalizeRelease(p)
      BY <3>3 DEF FinalizeRelease
    <3>4. CASE ReleaseFails(p)
      BY <3>4 DEF ReleaseFails
    <3> QED BY <1>10, <3>1, <3>2, <3>3, <3>4
  <2>2. attempt' \in [Procs -> 0 .. PublishAttempts]
    BY <2>1
  <2>3. memory' \in [Procs -> Seq(Procs)]
    BY <2>1
  <2>4. intent' \in [Procs -> {"fresh", "recovery"}]
    BY <2>1
  <2> QED BY <2>1, <2>2, <2>3, <2>4
<1>11. CASE PowerLoss
  <2>1. PICK k \in synced .. Len(lines) :
            /\ lines' = SubSeq(lines, 1, k)
            /\ torn' \in (IF k < Len(lines) THEN BOOLEAN ELSE {torn, FALSE})
            /\ exists' \in (IF k = 0 THEN {exists, FALSE} ELSE {exists})
    BY <1>11 DEF PowerLoss
  <2>2. k \in 0 .. Len(lines)
    OBVIOUS
  <2>3. lines' \in Seq(Procs)
    BY <2>1, <2>2, CutFacts
  <2>4. exists' \in BOOLEAN /\ torn' \in BOOLEAN
    BY <2>1
  <2> QED BY <1>11, <2>3, <2>4 DEF PowerLoss
<1>12. CASE UNCHANGED vars
  BY <1>12 DEF vars
<1> QED BY <1>1, <1>2, <1>3, <1>4, <1>5, <1>6, <1>7, <1>8, <1>9, <1>10, <1>11, <1>12
        DEF Next, Advance, Fail

\* The disk and the memories as they start.
LEMMA InitStoreTyped == Init => StoreTyped
<1>1. 0 \in 0 .. PublishAttempts /\ <<>> \in Seq(Procs) /\ 0 \in Nat
  BY StoreConstants, EmptySeq
<1> QED BY <1>1 DEF Init, StoreTyped

\* The types of the disk and of the memories hold always.
LEMMA StoreTypedAlways == Spec => []StoreTyped
<1>1. BaseInv /\ StoreTyped /\ [Next]_vars => StoreTyped'
  BY StepStoreTyped DEF BaseInv
<1>2. Init => StoreTyped
  BY InitStoreTyped
<1>3. Spec => Init /\ [][Next]_vars
  BY DEF Spec
<1> QED BY <1>1, <1>2, <1>3, BaseAlways, PTL

\* A step of the only process that acts as the owner has to restore only what
\* that process itself relies on.
LEMMA OnlyTheHolder ==
    ASSUME OwnershipTyped, SingleOwner, NEW p \in Procs, Acts(p), NEW where, Goto(p, where),
           UNCHANGED released
    PROVE  /\ pc'[p] = where
           /\ \A q \in Procs \ released' : q # p => HolderInv(q)'
<1> USE DEF OwnershipTyped, Goto
<1>1. pc'[p] = where
  OBVIOUS
<1>2. ASSUME NEW q \in Procs \ released', q # p PROVE HolderInv(q)'
  <2>1. pc[q] \notin Holding
    BY <1>2 DEF SingleOwner, Acts
  <2>2. pc'[q] = pc[q]
    BY <1>2
  <2>3. pc'[q] \notin Remembering \cup {"first", "firstSync", "truncate", "write", "sync"}
    BY <2>1, <2>2 DEF Remembering, Holding
  <2> QED BY <2>3 DEF HolderInv, Remembering
<1> QED BY <1>1, <1>2

\* A step that leaves the disk and the memories of others alone, and takes no
\* process to a point of an append, keeps what is flushed.
LEMMA QuietStep ==
    ASSUME OwnershipTyped, StoreTyped, DurableInv, NEW p \in Procs, NEW where, Goto(p, where),
           where \notin Remembering \cup {"first", "firstSync"},
           UNCHANGED <<exists, lines, torn, synced, acked>>,
           UNCHANGED memory \/ memory' = [memory EXCEPT ![p] = <<>>],
           released \ {p} \subseteq released'
    PROVE  DurableInv'
<1> USE DEF OwnershipTyped, StoreTyped, Goto
<1>1. FlushedInv'
  BY DEF FlushedInv, DurableInv
<1>2. ASSUME NEW q \in Procs \ released' PROVE HolderInv(q)'
  <2>1. CASE q = p
    BY <2>1 DEF HolderInv, Remembering
  <2>2. CASE q # p
    <3>1. pc'[q] = pc[q] /\ memory'[q] = memory[q] /\ HolderInv(q)
      BY <1>2, <2>2 DEF DurableInv
    <3> QED BY <3>1 DEF HolderInv
  <2> QED BY <2>1, <2>2
<1> QED BY <1>1, <1>2 DEF DurableInv

\* Nor does a step of a process that gave .owner away, until it appends.
LEMMA LeftBehindStep ==
    ASSUME OwnershipTyped, DurableInv, NEW p \in released, NEW where, Goto(p, where),
           UNCHANGED <<exists, lines, torn, synced, acked, released>>,
           \A q \in Procs : q # p => memory'[q] = memory[q]
    PROVE  DurableInv'
<1> USE DEF OwnershipTyped, Goto
<1>1. FlushedInv'
  BY DEF FlushedInv, DurableInv
<1>2. ASSUME NEW q \in Procs \ released' PROVE HolderInv(q)'
  <2>1. pc'[q] = pc[q] /\ memory'[q] = memory[q] /\ HolderInv(q)
    BY <1>2 DEF DurableInv
  <2> QED BY <2>1 DEF HolderInv
<1> QED BY <1>1, <1>2 DEF DurableInv

\* A process overstays only when one is left behind.
LEMMA StepNotOverstayed == ASSUME NoneStayed, ~overstayed, [Next]_vars PROVE ~overstayed'
<1>1. ASSUME NEW p \in Procs, Call(p) \/ Fail(p) PROVE ~overstayed'
  BY <1>1 DEF Call, Start, Claim, ClaimOwned, Append1, Release, Fail, AcquireFails, FirstFails,
     LoadFails, AppendFails, ReleaseFails, Die, told, NoneStayed
<1>2. ASSUME NEW p \in Procs, Advance(p) PROVE ~overstayed'
  BY <1>2 DEF Advance, ReadOwner, Conflict, Retire, Publish, PublishGivesUp, SyncOwner, Create,
     WriteFirst, SyncFirst, Load, Truncate, Write, Sync, ReadToken, UnlinkOwner, FinalizeRelease, told
<1>3. CASE PowerLoss
  BY <1>3 DEF PowerLoss, told
<1> QED BY <1>1, <1>2, <1>3 DEF Next, vars

\* Once a process has overstayed, it has.
LEMMA OverstayedForGood == ASSUME BaseInv, [Next]_vars, ~overstayed' PROVE ~overstayed
<1> SUFFICES ASSUME overstayed PROVE overstayed'
  OBVIOUS
<1>1. ASSUME NEW p \in Procs, Call(p) \/ Fail(p) PROVE overstayed'
  BY <1>1 DEF Call, Start, Claim, ClaimOwned, Append1, Release, Fail, AcquireFails, FirstFails,
     LoadFails, AppendFails, ReleaseFails, Die, told
<1>2. ASSUME NEW p \in Procs, Advance(p) PROVE overstayed'
  BY <1>2 DEF Advance, ReadOwner, Conflict, Retire, Publish, PublishGivesUp, SyncOwner, Create,
     WriteFirst, SyncFirst, Load, Truncate, Write, Sync, ReadToken, UnlinkOwner, FinalizeRelease, told
<1>3. CASE PowerLoss
  BY <1>3 DEF PowerLoss, told
<1> QED BY <1>1, <1>2, <1>3 DEF Next, vars

\* As long as one process acts as the owner and none that gave .owner away
\* appends, no step loses a reported record.
LEMMA StepDurable ==
    ASSUME BaseInv, StoreTyped, StoreTyped', DurableInv, SingleOwner, [Next]_vars, ~overstayed'
    PROVE  DurableInv'
<1>0. /\ MaxEvents \in Nat /\ 1 <= MaxEvents
      /\ <<>> \in Seq(Procs) /\ Len(<<>>) = 0
      /\ lines \in Seq(Procs) /\ acked \in Seq(Procs) /\ Len(lines) \in Nat /\ Len(acked) \in Nat
      /\ synced \in Nat
  BY StoreConstants, EmptySeq, LenProperties DEF StoreTyped
<1>a. \A q \in Procs : memory[q] \in Seq(Procs) /\ Len(memory[q]) \in Nat
  BY LenProperties DEF StoreTyped
<1>b. FlushedInv /\ \A q \in Procs \ released : HolderInv(q)
  BY DEF DurableInv
<1>c. ~overstayed /\ OwnershipTyped /\ ReleasedInv
  BY OverstayedForGood DEF BaseInv
<1>d. \A q \in Procs : pc[q] \in Holding /\ q \notin released => Acts(q) /\ HolderInv(q)
  BY <1>b DEF Acts
<1>e. \A q \in Procs : pc[q] \notin {"owned", "release", "finalize"} => q \notin released
  BY <1>c DEF ReleasedInv
<1>1. ASSUME NEW p \in Procs, Start(p) \/ Claim(p) \/ ReadOwner(p) \/ Retire(p) \/ SyncOwner(p)
                              \/ LoadFails(p)
      PROVE  DurableInv'
  <2>1. PICK where \in {"read", "publish", "judge", "rejudge", "create", "load", "abandon"} : Goto(p, where)
    BY <1>1 DEF Start, Claim, ReadOwner, Retire, SyncOwner, LoadFails
  <2>2. UNCHANGED <<exists, lines, torn, synced, acked, memory, released>>
    BY <1>1 DEF Start, Claim, ReadOwner, Retire, SyncOwner, LoadFails, disk, told
  <2> QED BY <1>c, <2>1, <2>2, QuietStep DEF Remembering
<1>2. ASSUME NEW p \in Procs, Conflict(p) \/ PublishGivesUp(p) \/ AcquireFails(p) \/ UnlinkOwner(p)
                              \/ FinalizeRelease(p)
      PROVE  DurableInv'
  <2>1. \/ Goto(p, "idle") /\ memory' = [memory EXCEPT ![p] = <<>>] /\ released' = released \ {p}
        \/ Goto(p, "finalize") /\ UNCHANGED memory /\ released' = released \cup {p}
    BY <1>2 DEF Conflict, PublishGivesUp, AcquireFails, UnlinkOwner, FinalizeRelease, Forget
  <2>2. UNCHANGED <<exists, lines, torn, synced, acked>>
    BY <1>2 DEF Conflict, PublishGivesUp, AcquireFails, UnlinkOwner, FinalizeRelease, disk, told
  <2>3. released \ {p} \subseteq released'
    BY <2>1
  <2> QED BY <1>c, <2>1, <2>2, <2>3, QuietStep DEF Remembering
<1>3. ASSUME NEW p \in Procs, Publish(p) PROVE DurableInv'
  <2>1. PICK where \in {"published", "reread"} : Goto(p, where)
    BY <1>3 DEF Publish
  <2>2. UNCHANGED <<exists, lines, torn, synced, acked, memory, released>>
    BY <1>3 DEF Publish, disk, told
  <2> QED BY <1>c, <2>1, <2>2, QuietStep DEF Remembering
<1>4. ASSUME NEW p \in Procs, Create(p) PROVE DurableInv'
  <2>1. CASE exists
    <3>1. Goto(p, "abandon") /\ UNCHANGED <<exists, lines, torn, synced, acked, memory, released>>
      BY <1>4, <2>1 DEF Create, told
    <3> QED BY <1>c, <3>1, QuietStep DEF Remembering
  <2>2. CASE ~exists
    <3>1. /\ Goto(p, "first") /\ exists' /\ UNCHANGED <<lines, torn, synced, acked, memory, released>>
          /\ Acts(p)
      BY <1>4, <1>d, <1>e, <2>2 DEF Create, Holding, told
    <3>2. lines = <<>>
      BY <1>b, <2>2 DEF FlushedInv
    <3>3. pc'[p] = "first" /\ \A q \in Procs \ released' : q # p => HolderInv(q)'
      BY <1>c, <3>1, OnlyTheHolder
    <3>4. HolderInv(p)'
      BY <3>1, <3>2, <3>3 DEF HolderInv, Remembering
    <3>5. FlushedInv'
      BY <1>b, <3>1 DEF FlushedInv
    <3> QED BY <3>3, <3>4, <3>5 DEF DurableInv
  <2> QED BY <2>1, <2>2
<1>5. ASSUME NEW p \in Procs, WriteFirst(p) PROVE DurableInv'
  <2>1. /\ Goto(p, "firstSync") /\ lines' = <<p>> /\ Acts(p)
        /\ UNCHANGED <<exists, torn, synced, acked, memory, released>>
    BY <1>5, <1>d, <1>e DEF WriteFirst, Holding, told
  <2>2. lines = <<>> /\ exists
    BY <1>5, <1>b, <1>e DEF WriteFirst, HolderInv
  <2>3. Len(acked) = 0 /\ synced = 0 /\ acked = <<>>
    <3>1. Len(acked) = 0 /\ synced = 0
      BY <1>0, <1>b, <2>2 DEF FlushedInv
    <3> QED BY <1>0, <3>1, EmptySeq
  <2>4. <<p>> \in Seq(Procs) /\ Len(<<p>>) = 1 /\ IsPrefix(<<>>, <<p>>)
    <3>1. <<p>> \in Seq(Procs) /\ Len(<<p>>) = 1
      OBVIOUS
    <3> QED BY <3>1, PrefixFacts
  <2>5. pc'[p] = "firstSync" /\ \A q \in Procs \ released' : q # p => HolderInv(q)'
    BY <1>c, <2>1, OnlyTheHolder
  <2>6. HolderInv(p)'
    BY <2>1, <2>3, <2>5 DEF HolderInv, Remembering
  <2>7. FlushedInv'
    BY <1>0, <2>1, <2>2, <2>3, <2>4 DEF FlushedInv
  <2> QED BY <2>5, <2>6, <2>7 DEF DurableInv
<1>6. ASSUME NEW p \in Procs, SyncFirst(p) PROVE DurableInv'
  <2>1. /\ Goto(p, "owned") /\ acked' = <<p>> /\ memory'[p] = <<p>> /\ synced' = Len(lines)
        /\ UNCHANGED <<exists, torn, lines, released>> /\ Acts(p)
    BY <1>6, <1>d, <1>e DEF SyncFirst, Holding, StoreTyped
  <2>2. lines = <<p>>
    BY <1>6, <1>b, <1>e DEF SyncFirst, HolderInv
  <2>3. Len(lines) = 1 /\ IsPrefix(lines, lines)
    <3>1. Len(<<p>>) = 1
      OBVIOUS
    <3> QED BY <1>0, <2>2, <3>1, PrefixFacts
  <2>4. exists
    <3>1. <<p>> # <<>>
      OBVIOUS
    <3> QED BY <1>b, <2>2, <3>1 DEF FlushedInv
  <2>5. pc'[p] = "owned" /\ \A q \in Procs \ released' : q # p => HolderInv(q)'
    BY <1>c, <2>1, OnlyTheHolder
  <2>6. HolderInv(p)'
    BY <2>1, <2>2, <2>3, <2>4, <2>5 DEF HolderInv
  <2>7. FlushedInv'
    BY <1>0, <1>b, <2>1, <2>2, <2>3, <2>4 DEF FlushedInv
  <2> QED BY <2>5, <2>6, <2>7 DEF DurableInv
<1>7. ASSUME NEW p \in Procs, Load(p) PROVE DurableInv'
  <2>1. CASE lines = <<>>
    <3>1. Goto(p, "abandon") /\ UNCHANGED <<exists, lines, torn, synced, acked, memory, released>>
      BY <1>7, <2>1 DEF Load, disk, told
    <3> QED BY <1>c, <3>1, QuietStep DEF Remembering
  <2>2. CASE lines # <<>>
    <3>1. /\ Goto(p, "owned") /\ UNCHANGED <<exists, lines, torn, synced, acked, released>>
          /\ memory'[p] = lines /\ Acts(p)
      BY <1>7, <1>d, <1>e, <2>2 DEF Load, disk, told, Holding, StoreTyped
    <3>2. exists /\ IsPrefix(lines, lines) /\ IsPrefix(acked, lines)
      BY <1>0, <1>b, <2>2, PrefixFacts DEF FlushedInv
    <3>3. pc'[p] = "owned" /\ \A q \in Procs \ released' : q # p => HolderInv(q)'
      BY <1>c, <3>1, OnlyTheHolder
    <3>4. HolderInv(p)'
      BY <3>1, <3>2, <3>3 DEF HolderInv
    <3>5. FlushedInv'
      BY <1>b, <3>1 DEF FlushedInv
    <3> QED BY <3>3, <3>4, <3>5 DEF DurableInv
  <2> QED BY <2>1, <2>2
<1>8. ASSUME NEW p \in Procs, ClaimOwned(p) PROVE DurableInv'
  <2>1. /\ pc[p] = "owned" /\ Goto(p, "owned") /\ memory'[p] = lines
        /\ \A q \in Procs : q # p => memory'[q] = memory[q]
        /\ UNCHANGED <<exists, lines, torn, synced, acked, released>>
    BY <1>8, <1>c DEF ClaimOwned, disk, told, Goto, OwnershipTyped, StoreTyped
  <2>2. CASE p \in released
    BY <1>c, <2>1, <2>2, LeftBehindStep
  <2>3. CASE p \notin released
    <3>1. Acts(p) /\ exists /\ IsPrefix(lines, lines) /\ IsPrefix(acked, lines)
      BY <1>0, <1>b, <1>d, <2>1, <2>3, PrefixFacts DEF FlushedInv, HolderInv, Remembering, Holding
    <3>2. pc'[p] = "owned" /\ \A q \in Procs \ released' : q # p => HolderInv(q)'
      BY <1>c, <2>1, <3>1, OnlyTheHolder
    <3>3. HolderInv(p)'
      BY <2>1, <3>1, <3>2 DEF HolderInv
    <3>4. FlushedInv'
      BY <1>b, <2>1 DEF FlushedInv
    <3> QED BY <3>2, <3>3, <3>4 DEF DurableInv
  <2> QED BY <2>2, <2>3
<1>9. ASSUME NEW p \in Procs, Append1(p) \/ Release(p) PROVE DurableInv'
  <2>1. /\ pc[p] = "owned" /\ UNCHANGED <<exists, lines, torn, synced, acked, memory, released>>
        /\ \/ Goto(p, "truncate") /\ Len(memory[p]) < MaxEvents /\ p \notin released
           \/ Goto(p, "release")
    BY <1>9 DEF Append1, Release, disk, told
  <2>2. CASE p \in released
    BY <1>c, <2>1, <2>2, LeftBehindStep
  <2>3. CASE p \notin released
    <3>1. Acts(p) /\ exists /\ IsPrefix(memory[p], lines) /\ IsPrefix(acked, memory[p])
      BY <1>b, <1>d, <2>1, <2>3 DEF HolderInv, Remembering, Holding
    <3>2. FlushedInv'
      BY <1>b, <2>1 DEF FlushedInv
    <3>3. PICK where \in {"truncate", "release"} :
              Goto(p, where) /\ (where = "truncate" => Len(memory[p]) < MaxEvents)
      BY <2>1
    <3>4. pc'[p] = where /\ \A q \in Procs \ released' : q # p => HolderInv(q)'
      BY <1>c, <2>1, <3>1, <3>3, OnlyTheHolder
    <3>5. HolderInv(p)'
      BY <2>1, <3>1, <3>3, <3>4 DEF HolderInv
    <3> QED BY <3>2, <3>4, <3>5 DEF DurableInv
  <2> QED BY <2>2, <2>3
<1>10. ASSUME NEW p \in Procs, FirstFails(p) PROVE DurableInv'
  <2>1. /\ Goto(p, "abandon") /\ UNCHANGED <<exists, lines, synced, acked, memory, released>>
        /\ Acts(p)
    BY <1>10, <1>d, <1>e DEF FirstFails, Holding, told
  <2>2. torn' = torn \/ exists
    BY <1>10, <1>b, <1>e DEF FirstFails, HolderInv
  <2>3. pc'[p] = "abandon" /\ \A q \in Procs \ released' : q # p => HolderInv(q)'
    BY <1>c, <2>1, OnlyTheHolder
  <2>4. HolderInv(p)'
    BY <2>3 DEF HolderInv, Remembering
  <2>5. FlushedInv'
    BY <1>b, <2>1, <2>2 DEF FlushedInv
  <2> QED BY <2>3, <2>4, <2>5 DEF DurableInv
<1>11. ASSUME NEW p \in Procs, Truncate(p) PROVE DurableInv'
  <2> DEFINE kept == Min({Len(memory[p]), Len(lines)})
  <2>1. /\ pc[p] = "truncate" /\ p \notin released /\ Acts(p) /\ Goto(p, "write")
        /\ lines' = SubSeq(lines, 1, kept) /\ torn' = (kept < Len(memory[p]))
        /\ synced' = Min({synced, kept}) /\ UNCHANGED <<exists, memory, acked, released>>
    BY <1>11, <1>d, <1>e DEF Truncate, Holding, told
  <2>2. /\ exists /\ IsPrefix(memory[p], lines) /\ IsPrefix(acked, memory[p])
        /\ Len(memory[p]) < MaxEvents
    BY <1>b, <2>1 DEF HolderInv, Remembering
  <2>3. Len(memory[p]) <= Len(lines) /\ Len(acked) <= Len(memory[p])
    BY <1>0, <1>a, <2>2, PrefixFacts
  <2>4. kept = Len(memory[p])
    <3>1. kept = IF Len(memory[p]) <= Len(lines) THEN Len(memory[p]) ELSE Len(lines)
      BY <1>0, <1>a, SmallerOf
    <3> QED BY <2>3, <3>1
  <2> HIDE DEF kept
  <2>5. lines' = memory[p]
    <3>1. kept \in 0 .. Len(lines)
      BY <1>0, <1>a, <2>3, <2>4
    <3> QED BY <1>0, <1>a, <2>1, <2>2, <2>4, <3>1, CutFacts
  <2>6. synced' = IF synced <= kept THEN synced ELSE kept
    BY <1>0, <1>a, <2>1, <2>4, SmallerOf
  <2>7. torn' = FALSE
    <3>1. ~(kept < Len(memory[p]))
      BY <1>a, <2>4
    <3>2. (kept < Len(memory[p])) = FALSE
      BY <3>1
    <3> QED BY <2>1, <3>2
  <2>8. Len(acked) <= synced' /\ synced' <= Len(lines')
    BY <1>0, <1>a, <1>b, <2>3, <2>4, <2>5, <2>6 DEF FlushedInv
  <2>9. pc'[p] = "write" /\ \A q \in Procs \ released' : q # p => HolderInv(q)'
    BY <1>c, <2>1, OnlyTheHolder
  <2>10. IsPrefix(memory[p], memory[p])
    BY <1>a, PrefixFacts
  <2>11. HolderInv(p)'
    BY <2>1, <2>2, <2>5, <2>7, <2>9, <2>10 DEF HolderInv
  <2>12. FlushedInv'
    <3>1. Len(lines') <= MaxEvents
      BY <1>0, <1>a, <2>2, <2>5
    <3>a. exists'
      BY <2>1, <2>2
    <3>2. IsPrefix(acked', lines') /\ Len(acked') <= synced' /\ synced' <= Len(lines')
      BY <2>1, <2>2, <2>5, <2>8
    <3> QED BY <3>1, <3>2, <3>a DEF FlushedInv
  <2> QED BY <2>9, <2>11, <2>12 DEF DurableInv
<1>12. ASSUME NEW p \in Procs, Write(p) PROVE DurableInv'
  <2>1. /\ pc[p] = "write" /\ p \notin released /\ Acts(p) /\ Goto(p, "sync")
        /\ UNCHANGED <<exists, torn, synced, memory, acked, released>>
    BY <1>12, <1>d, <1>e DEF Write, Holding, told
  <2>2. /\ exists /\ IsPrefix(acked, memory[p]) /\ lines = memory[p] /\ ~torn
        /\ Len(lines) < MaxEvents
    BY <1>b, <2>1 DEF HolderInv, Remembering
  <2>3. lines' = Append(lines, p)
    BY <1>12, <2>2 DEF Write
  <2>4. /\ Append(lines, p) \in Seq(Procs) /\ Len(Append(lines, p)) = Len(lines) + 1
        /\ IsPrefix(lines, Append(lines, p))
    BY <1>0, AppendProperties, PrefixFacts
  <2>5. IsPrefix(acked, Append(lines, p))
    BY <1>0, <2>2, <2>4, PrefixFacts
  <2>6. pc'[p] = "sync" /\ \A q \in Procs \ released' : q # p => HolderInv(q)'
    BY <1>c, <2>1, OnlyTheHolder
  <2>7. HolderInv(p)'
    BY <2>1, <2>2, <2>3, <2>4, <2>6 DEF HolderInv
  <2>8. FlushedInv'
    BY <1>0, <1>b, <2>1, <2>2, <2>3, <2>4, <2>5 DEF FlushedInv
  <2> QED BY <2>6, <2>7, <2>8 DEF DurableInv
<1>13. ASSUME NEW p \in Procs, Sync(p) PROVE DurableInv'
  <2>1. /\ pc[p] = "sync" /\ p \notin released /\ Acts(p) /\ Goto(p, "owned")
        /\ synced' = Len(lines) /\ memory'[p] = Append(memory[p], p)
        /\ acked' = Append(memory[p], p) /\ UNCHANGED <<exists, torn, lines, released>>
    BY <1>13, <1>d, <1>e DEF Sync, Holding, StoreTyped
  <2>2. exists /\ lines = Append(memory[p], p)
    BY <1>b, <2>1 DEF HolderInv, Remembering
  <2>3. IsPrefix(lines, lines)
    BY <1>0, PrefixFacts
  <2>4. pc'[p] = "owned" /\ \A q \in Procs \ released' : q # p => HolderInv(q)'
    BY <1>c, <2>1, OnlyTheHolder
  <2>5. HolderInv(p)'
    BY <2>1, <2>2, <2>3, <2>4 DEF HolderInv
  <2>6. FlushedInv'
    BY <1>0, <1>b, <2>1, <2>2, <2>3 DEF FlushedInv
  <2> QED BY <2>4, <2>5, <2>6 DEF DurableInv
<1>14. ASSUME NEW p \in Procs, AppendFails(p) PROVE DurableInv'
  <2>1. /\ pc[p] \in {"truncate", "write", "sync"} /\ p \notin released /\ Acts(p)
        /\ Goto(p, "owned") /\ UNCHANGED <<exists, lines, synced, memory, acked, released>>
    BY <1>14, <1>d, <1>e DEF AppendFails, Holding, told
  <2>2. exists /\ IsPrefix(acked, memory[p]) /\ IsPrefix(memory[p], lines)
    BY <1>b, <2>1 DEF HolderInv, Remembering
  <2>3. pc'[p] = "owned" /\ \A q \in Procs \ released' : q # p => HolderInv(q)'
    BY <1>c, <2>1, OnlyTheHolder
  <2>4. HolderInv(p)'
    BY <2>1, <2>2, <2>3 DEF HolderInv
  <2>5. FlushedInv'
    BY <1>b, <2>1, <2>2 DEF FlushedInv
  <2> QED BY <2>3, <2>4, <2>5 DEF DurableInv
<1>15. ASSUME NEW p \in Procs, ReadToken(p) \/ ReleaseFails(p) PROVE DurableInv'
  <2>1. UNCHANGED <<exists, lines, torn, synced, acked>>
    BY <1>15 DEF ReadToken, ReleaseFails, disk, told
  <2>2. \/ Goto(p, "idle") /\ memory' = [memory EXCEPT ![p] = <<>>] /\ released' = released \ {p}
        \/ /\ pc[p] \in {"abandon", "release", "unlink", "finalize"}
           /\ \E where \in {"abandonUnlink", "unlink", "owned"} :
                 /\ Goto(p, where) /\ UNCHANGED <<memory, released>>
                 /\ pc[p] = "abandon" => where = "abandonUnlink"
    BY <1>15 DEF ReadToken, ReleaseFails, Forget
  <2>3. CASE Goto(p, "idle") /\ memory' = [memory EXCEPT ![p] = <<>>] /\ released' = released \ {p}
    BY <1>c, <2>1, <2>3, QuietStep DEF Remembering
  <2>4. ASSUME pc[p] \in {"abandon", "release", "unlink", "finalize"},
               NEW where \in {"abandonUnlink", "unlink", "owned"},
               Goto(p, where), UNCHANGED <<memory, released>>,
               pc[p] = "abandon" => where = "abandonUnlink"
        PROVE  DurableInv'
    <3>1. CASE where = "abandonUnlink"
      BY <1>c, <2>1, <2>4, <3>1, QuietStep DEF Remembering
    <3>2. CASE p \in released
      BY <1>c, <2>1, <2>4, <3>2, LeftBehindStep
    <3>3. CASE where # "abandonUnlink" /\ p \notin released
      <4>1. pc[p] \in {"release", "unlink"}
        BY <1>c, <2>4, <3>3 DEF ReleasedInv
      <4>2. Acts(p) /\ exists /\ IsPrefix(acked, memory[p]) /\ IsPrefix(memory[p], lines)
        BY <1>d, <3>3, <4>1 DEF HolderInv, Remembering, Holding
      <4>3. pc'[p] = where /\ \A q \in Procs \ released' : q # p => HolderInv(q)'
        BY <1>c, <2>4, <4>2, OnlyTheHolder
      <4>4. HolderInv(p)'
        BY <2>1, <2>4, <3>3, <4>2, <4>3 DEF HolderInv
      <4>5. FlushedInv'
        BY <1>b, <2>1 DEF FlushedInv
      <4> QED BY <4>3, <4>4, <4>5 DEF DurableInv
    <3> QED BY <3>1, <3>2, <3>3
  <2> QED BY <2>2, <2>3, <2>4
<1>16. ASSUME NEW p \in Procs, Die(p) PROVE DurableInv'
  <2>1. /\ Goto(p, "dead") /\ memory' = [memory EXCEPT ![p] = <<>>]
        /\ UNCHANGED <<exists, lines, synced, acked>> /\ released' = released \ {p}
    BY <1>16 DEF Die, Goto, told
  <2>2. CASE pc[p] \in {"first", "write"}
    <3>1. exists /\ Acts(p) /\ UNCHANGED released
      BY <1>d, <1>e, <2>1, <2>2 DEF HolderInv, Remembering, Holding
    <3>2. pc'[p] = "dead" /\ \A q \in Procs \ released' : q # p => HolderInv(q)'
      BY <1>c, <2>1, <3>1, OnlyTheHolder
    <3>3. HolderInv(p)'
      BY <3>2 DEF HolderInv, Remembering
    <3>4. FlushedInv'
      BY <1>b, <2>1, <3>1 DEF FlushedInv
    <3> QED BY <3>2, <3>3, <3>4 DEF DurableInv
  <2>3. CASE pc[p] \notin {"first", "write"}
    <3>1. torn' = torn
      BY <1>16, <2>3 DEF Die
    <3> QED BY <1>c, <2>1, <3>1, QuietStep DEF Remembering
  <2> QED BY <2>2, <2>3
<1>17. CASE PowerLoss
  <2>1. PICK k \in synced .. Len(lines) :
            /\ lines' = SubSeq(lines, 1, k)
            /\ torn' \in (IF k < Len(lines) THEN BOOLEAN ELSE {torn, FALSE})
            /\ exists' \in (IF k = 0 THEN {exists, FALSE} ELSE {exists})
            /\ torn' => exists'
    BY <1>17 DEF PowerLoss
  <2>2. k \in 0 .. Len(lines) /\ k \in Nat
    BY <1>0
  <2>3. \A q \in Procs : pc'[q] \in {"idle", "dead"}
    BY <1>17 DEF PowerLoss
  <2>4. \A q \in Procs : HolderInv(q)'
    BY <2>3 DEF HolderInv, Remembering
  <2>5. synced' = synced /\ acked' = acked
    BY <1>17 DEF PowerLoss, told
  <2>6. Len(acked) <= k
    BY <1>0, <1>b DEF FlushedInv
  <2>7. Len(lines') = k /\ IsPrefix(acked, lines')
    BY <1>0, <1>b, <2>1, <2>2, <2>6, CutFacts DEF FlushedInv
  <2>8. Len(acked) <= synced /\ synced <= k /\ k <= MaxEvents
    BY <1>0, <1>b, <2>2 DEF FlushedInv
  <2>9. ~exists' => k = 0
    <3>1. ~exists => k = 0
      BY <1>0, <1>b, <2>2 DEF FlushedInv
    <3> QED BY <2>1, <3>1
  <2>10. ~exists' => lines' = <<>>
    <3>1. lines' \in Seq(Procs)
      BY DEF StoreTyped
    <3> QED BY <2>7, <2>9, <3>1, EmptySeq
  <2>11. ~exists' => ~torn'
    BY <2>1
  <2>12. FlushedInv'
    BY <2>5, <2>7, <2>8, <2>10, <2>11 DEF FlushedInv
  <2> QED BY <2>4, <2>12 DEF DurableInv
<1>18. CASE UNCHANGED vars
  <2>1. FlushedInv'
    BY <1>b, <1>18 DEF vars, FlushedInv
  <2>2. \A q \in Procs \ released' : HolderInv(q)'
    BY <1>b, <1>18 DEF vars, HolderInv
  <2> QED BY <2>1, <2>2 DEF DurableInv
<1> QED
  BY <1>1, <1>2, <1>3, <1>4, <1>5, <1>6, <1>7, <1>8, <1>9, <1>10, <1>11, <1>12, <1>13, <1>14,
     <1>15, <1>16, <1>17, <1>18 DEF Next, Advance, Call, Fail

\* The store as it starts.
LEMMA InitStore == Init => DurableInv
<1> SUFFICES ASSUME Init PROVE DurableInv
  OBVIOUS
<1>0. <<>> \in Seq(Procs) /\ Len(<<>>) = 0
  BY EmptySeq
<1>a. 0 \in 0 .. PublishAttempts /\ MaxEvents \in Nat
  BY StoreConstants
<1>b. IsPrefix(<<>>, <<>>)
  BY <1>0, PrefixFacts
<1>1. /\ 0 \in 0 .. PublishAttempts /\ MaxEvents \in Nat /\ <<>> \in Seq(Procs) /\ Len(<<>>) = 0
      /\ IsPrefix(<<>>, <<>>)
  BY <1>0, <1>a, <1>b
<1>3. FlushedInv
  BY <1>1 DEF Init, FlushedInv
<1>4. \A p \in Procs : HolderInv(p)
  BY DEF Init, HolderInv, Remembering
<1> QED BY <1>3, <1>4 DEF DurableInv

\* With one owner at a time, the durable state is as the invariants say until a
\* process that gave .owner away appends.
LEMMA OneOwnerDurable == Spec /\ []SingleOwner => [](overstayed \/ DurableInv)
<1>1. Init => overstayed \/ DurableInv
  BY InitStore
<1>2. SingleOwner /\ BaseInv /\ StoreTyped /\ StoreTyped' /\ (overstayed \/ DurableInv) /\ [Next]_vars
        => (overstayed \/ DurableInv)'
  <2> SUFFICES ASSUME SingleOwner, BaseInv, StoreTyped, StoreTyped', overstayed \/ DurableInv,
                      [Next]_vars, ~overstayed'
               PROVE  DurableInv'
    OBVIOUS
  <2>1. ~overstayed
    BY OverstayedForGood
  <2> QED BY <2>1, StepDurable
<1>3. Spec => Init /\ [][Next]_vars
  BY DEF Spec
<1> QED BY <1>1, <1>2, <1>3, BaseAlways, StoreTypedAlways, PTL

\* As long as one process acts as the owner at a time, a record whose append was
\* reported (#appendOwned resolved after handle.sync) is not lost before a
\* process whose release failed after its rename appends: not by failed writes,
\* deaths, power losses or the truncations of later owners.
THEOREM ReportedIsKept == Spec /\ []SingleOwner => []AckedKept
<1>1. overstayed \/ DurableInv => AckedKept
  BY DEF DurableInv, FlushedInv, AckedKept
<1> QED BY <1>1, OneOwnerDurable, PTL

\* As long as one process acts as the owner at a time, what it remembers is what
\* the file begins with, so #appendOwned's truncate never cuts a record before a
\* process whose release failed after its rename appends.
THEOREM MemoryIsTrue == Spec /\ []SingleOwner => []MemoryIsPrefix
<1>1. overstayed \/ DurableInv => MemoryIsPrefix
  BY DEF DurableInv, HolderInv, Remembering, MemoryIsPrefix
<1> QED BY <1>1, OneOwnerDurable, PTL

\* The state is well typed, whoever owns the run.
THEOREM StoreTypeCorrect == Spec => []TypeOK
<1>1. BaseInv /\ StoreTyped => TypeOK
  BY DEF BaseInv, OwnershipTyped, StoreTyped, TypeOK
<1> QED BY <1>1, BaseAlways, StoreTypedAlways, PTL

\* When no retirement takes another owner's directory and no release fails after
\* its rename, every reported record is in the file for good, and what the one
\* process that has the run remembers is what the file begins with.
THEOREM KeptUnlessStaleOrFailed ==
    Spec /\ [][~StaleRetirement]_vars /\ [][~FailedRelease]_vars
        => []( /\ IsPrefix(acked, lines)
               /\ \A p \in Procs : pc[p] \in {"owned", "truncate", "write", "sync", "release"} =>
                     IsPrefix(acked, memory[p]) /\ IsPrefix(memory[p], lines))
<1>1. BaseInv /\ NoneStayed /\ AckedKept /\ MemoryIsPrefix /\ ~overstayed
        => /\ IsPrefix(acked, lines)
           /\ \A p \in Procs : pc[p] \in {"owned", "truncate", "write", "sync", "release"} =>
                 IsPrefix(acked, memory[p]) /\ IsPrefix(memory[p], lines)
  BY DEF NoneStayed, AckedKept, MemoryIsPrefix
<1>2. NoneStayed /\ ~overstayed /\ [Next]_vars => ~overstayed'
  BY StepNotOverstayed
<1>3. Init => ~overstayed
  BY DEF Init
<1>4. Spec => Init /\ [][Next]_vars
  BY DEF Spec
<1> QED BY <1>1, <1>2, <1>3, <1>4, BaseAlways, NoneStayedAlways, OneOwnerUnlessStale,
           ReportedIsKept, MemoryIsTrue, PTL

\* Two processes, whatever they do and however they fail, lose no reported record
\* before one of them appends after a release that failed after its rename: their
\* store needs no further assumption.
THEOREM TwoProcessesKeepReported ==
    ASSUME NEW CONSTANT a, NEW CONSTANT b, Procs = {a, b}
    PROVE  Spec => [](TypeOK /\ AckedKept /\ MemoryIsPrefix)
<1>1. Spec => []SingleOwner
  BY TwoProcessesOneOwner
<1> QED BY <1>1, ReportedIsKept, MemoryIsTrue, StoreTypeCorrect, PTL
=============================================================================
