------------------------------ MODULE RunStore ------------------------------
(***************************************************************************)
(* The JSONL run store: how processes that share one run directory take    *)
(* ownership of the run's ledger, append to it and give it back.           *)
(*                                                                         *)
(* One run directory holds events.jsonl (the ledger, one record per line)  *)
(* and .owner (a directory whose owner.json names the owning process).     *)
(* Every file-system call that another process can tell of is one step:    *)
(* processes interleave between any two of them, a process may die between *)
(* any two of them, and every call may fail.  A process id is never        *)
(* reused; a process holds one store instance, so its id also stands for   *)
(* the random token of its current acquisition.                            *)
(***************************************************************************)
EXTENDS Naturals, Sequences, FiniteSets, SequencesExt

CONSTANTS
    Procs,            \* process ids that may ever touch the run directory
    NoOwner,          \* the .owner directory does not exist
    PublishAttempts,  \* rename attempts of one acquisition (16 in the code)
    MaxEvents         \* bound: records a ledger may hold in the model

ASSUME StoreConstants ==
    /\ NoOwner \notin Procs
    /\ PublishAttempts \in Nat \ {0}
    /\ MaxEvents \in Nat \ {0}

VARIABLES
    owner,     \* the process named by .owner/owner.json, or NoOwner
    exists,    \* events.jsonl exists
    lines,     \* its complete records, each known by the process that wrote it
    torn,      \* bytes without a final newline follow the complete records
    pc,        \* where each process is inside the store
    intent,    \* "fresh" or "recovery": why the process acquires
    observed,  \* owner record the process read last
    attempt,   \* renames the acquisition has tried
    memory,    \* #ownedRuns: the records the process believes are committed
    released,  \* processes whose release renamed .owner away and that still
               \* have the run in #ownedRuns
    synced,    \* records a power loss cannot take away
    acked,     \* records whose append was reported to the caller as done
    overstayed \* history: a released process has begun an append

vars == <<owner, exists, lines, torn, pc, intent, observed, attempt, memory,
          released, synced, acked, overstayed>>

\* Steps inside #acquireOwnership.
Acquiring == {"read", "judge", "publish", "reread", "rejudge", "published"}

\* Steps from the rename that publishes the candidate directory to the one that
\* takes .owner away again: the process acts as the owner.
Holding == {"published", "create", "first", "firstSync", "load", "owned",
            "truncate", "write", "sync", "release", "unlink", "abandon",
            "abandonUnlink"}

\* "finalize": a release whose rename is done.
Places == {"idle", "dead", "finalize"} \cup Acquiring \cup Holding

TypeOK ==
    /\ owner \in Procs \cup {NoOwner}
    /\ exists \in BOOLEAN
    /\ lines \in Seq(Procs)
    /\ torn \in BOOLEAN
    /\ pc \in [Procs -> Places]
    /\ intent \in [Procs -> {"fresh", "recovery"}]
    /\ observed \in [Procs -> Procs \cup {NoOwner}]
    /\ attempt \in [Procs -> 0 .. PublishAttempts]
    /\ memory \in [Procs -> Seq(Procs)]
    /\ released \subseteq Procs
    /\ synced \in Nat
    /\ acked \in Seq(Procs)
    /\ overstayed \in BOOLEAN

Init ==
    /\ owner = NoOwner /\ exists = FALSE /\ lines = <<>> /\ torn = FALSE
    /\ pc = [p \in Procs |-> "idle"]
    /\ intent = [p \in Procs |-> "fresh"]
    /\ observed = [p \in Procs |-> NoOwner]
    /\ attempt = [p \in Procs |-> 0]
    /\ memory = [p \in Procs |-> <<>>]
    /\ released = {} /\ synced = 0 /\ acked = <<>> /\ overstayed = FALSE

disk == <<exists, lines, torn, synced>>
told == <<acked, overstayed>>

Goto(p, where) == pc' = [pc EXCEPT ![p] = where]

\* A process that gives up or is done forgets everything it read or owned.
Forget(p) ==
    /\ Goto(p, "idle")
    /\ observed' = [observed EXCEPT ![p] = NoOwner]
    /\ attempt' = [attempt EXCEPT ![p] = 0]
    /\ memory' = [memory EXCEPT ![p] = <<>>]
    /\ intent' = [intent EXCEPT ![p] = "fresh"]
    /\ released' = released \ {p}

-----------------------------------------------------------------------------
(* Entry points.                                                           *)

\* append of sequence 1: #claimAndAppend acquires with intent "fresh".
Start(p) ==
    /\ pc[p] = "idle"
    /\ Goto(p, "read")
    /\ intent' = [intent EXCEPT ![p] = "fresh"]
    /\ UNCHANGED <<owner, disk, observed, attempt, memory, released, told>>

\* claim of a run this store does not own; the ledger file must exist.
Claim(p) ==
    /\ pc[p] = "idle" /\ exists
    /\ Goto(p, "read")
    /\ intent' = [intent EXCEPT ![p] = "recovery"]
    /\ UNCHANGED <<owner, disk, observed, attempt, memory, released, told>>

\* claim of a run this store already owns only rereads the ledger.
ClaimOwned(p) ==
    /\ pc[p] = "owned"
    /\ lines # <<>>
    /\ memory' = [memory EXCEPT ![p] = lines]
    /\ UNCHANGED <<owner, disk, pc, intent, observed, attempt, released, told>>

-----------------------------------------------------------------------------
(* #acquireOwnership                                                       *)

\* #readOwnerRecord, before the first rename and after each collision.
ReadOwner(p) ==
    /\ pc[p] \in {"read", "reread"}
    /\ observed' = [observed EXCEPT ![p] = owner]
    /\ Goto(p, IF owner = NoOwner THEN "publish"
               ELSE IF pc[p] = "read" THEN "judge" ELSE "rejudge")
    /\ UNCHANGED <<owner, disk, intent, attempt, memory, released, told>>

\* The recorded owner lives: ownershipConflict.
Conflict(p) ==
    /\ pc[p] \in {"judge", "rejudge"}
    /\ pc[observed[p]] # "dead"
    /\ Forget(p)
    /\ UNCHANGED <<owner, disk, told>>

\* The recorded owner is dead: #retireOwner renames .owner away.  The rename
\* takes whatever directory is there now, or none.
Retire(p) ==
    /\ pc[p] \in {"judge", "rejudge"}
    /\ pc[observed[p]] = "dead"
    /\ owner' = NoOwner
    /\ Goto(p, "publish")
    /\ UNCHANGED <<disk, intent, observed, attempt, memory, released, told>>

\* Mutant: the collision is not counted, so the loop has no bound.
PublishUncounted(p) ==
    /\ pc[p] = "publish"
    /\ \/ /\ owner = NoOwner
          /\ owner' = p
          /\ Goto(p, "published")
       \/ /\ owner # NoOwner
          /\ Goto(p, "reread")
          /\ UNCHANGED owner
    /\ UNCHANGED <<attempt, disk, intent, observed, memory, released, told>>

\* Mutant: the rename replaces an existing .owner directory.
PublishOver(p) ==
    /\ pc[p] = "publish"
    /\ owner' = p
    /\ Goto(p, "published")
    /\ UNCHANGED <<attempt, disk, intent, observed, memory, released, told>>

\* Mutant: one collision more than the loop allows.
PublishOnceMore(p) ==
    /\ pc[p] = "publish" /\ attempt[p] <= PublishAttempts
    /\ \/ /\ owner = NoOwner
          /\ owner' = p
          /\ attempt' = [attempt EXCEPT ![p] = 0]
          /\ Goto(p, "published")
       \/ /\ owner # NoOwner
          /\ attempt' = [attempt EXCEPT ![p] = @ + 1]
          /\ Goto(p, "reread")
          /\ UNCHANGED owner
    /\ UNCHANGED <<disk, intent, observed, memory, released, told>>

\* rename of the candidate directory onto .owner: it succeeds when none is
\* there and collides otherwise.
Publish(p) ==
    /\ pc[p] = "publish" /\ attempt[p] < PublishAttempts
    /\ \/ /\ owner = NoOwner
          /\ owner' = p
          /\ attempt' = [attempt EXCEPT ![p] = 0]
          /\ Goto(p, "published")
       \/ /\ owner # NoOwner
          /\ attempt' = [attempt EXCEPT ![p] = @ + 1]
          /\ Goto(p, "reread")
          /\ UNCHANGED owner
    /\ UNCHANGED <<disk, intent, observed, memory, released, told>>

\* syncDirectory, and the acquisition is done.
SyncOwner(p) ==
    /\ pc[p] = "published"
    /\ Goto(p, IF intent[p] = "fresh" THEN "create" ELSE "load")
    /\ UNCHANGED <<owner, disk, intent, observed, attempt, memory, released,
                   told>>

\* "ownership changed repeatedly; recovery was refused"
PublishGivesUp(p) ==
    /\ pc[p] = "publish" /\ attempt[p] = PublishAttempts
    /\ Forget(p)
    /\ UNCHANGED <<owner, disk, told>>

\* Writing the candidate, reading the owner's record, retiring a dead owner or
\* the rename itself fails, and with it the acquisition.  When it is the
\* directory sync after the rename, .owner is there already and nobody takes it
\* back: it names a live process that does not own the run.
AcquireFails(p) ==
    /\ pc[p] \in Acquiring
    /\ Forget(p)
    /\ UNCHANGED <<owner, disk, told>>

-----------------------------------------------------------------------------
(* After the rename: the first record of a fresh run, or the reread of an  *)
(* existing ledger.                                                        *)

\* open(path, "wx"): a ledger that is already there is never overwritten.
Create(p) ==
    /\ pc[p] = "create"
    /\ \/ ~exists /\ exists' = TRUE /\ Goto(p, "first")
       \/ exists /\ Goto(p, "abandon") /\ UNCHANGED exists
    /\ UNCHANGED <<owner, lines, torn, synced, intent, observed, attempt,
                   memory, released, told>>

WriteFirst(p) ==
    /\ pc[p] = "first"
    /\ lines' = <<p>>
    /\ Goto(p, "firstSync")
    /\ UNCHANGED <<owner, exists, torn, synced, intent, observed, attempt,
                   memory, released, told>>

\* handle.sync, the directory sync and the in-memory state.
SyncFirst(p) ==
    /\ pc[p] = "firstSync"
    /\ synced' = Len(lines)
    /\ memory' = [memory EXCEPT ![p] = <<p>>]
    /\ acked' = <<p>>
    /\ Goto(p, "owned")
    /\ UNCHANGED <<owner, exists, lines, torn, intent, observed, attempt,
                   released, overstayed>>

\* Opening, writing or syncing the first record fails: ownership is given
\* back and the file stays as the failed call left it.
FirstFails(p) ==
    /\ pc[p] \in {"create", "first", "firstSync"}
    /\ torn' \in (IF pc[p] = "first" THEN BOOLEAN ELSE {torn})
    /\ Goto(p, "abandon")
    /\ UNCHANGED <<owner, exists, lines, synced, intent, observed, attempt,
                   memory, released, told>>

\* Mutant: the torn tail's complete predecessor is dropped with it.
LoadShort(p) ==
    /\ pc[p] = "load"
    /\ IF lines = <<>>
       THEN Goto(p, "abandon") /\ UNCHANGED memory
       ELSE /\ Goto(p, "owned")
            /\ memory' = [memory EXCEPT ![p] = IF torn THEN Front(lines) ELSE lines]
    /\ UNCHANGED <<owner, disk, intent, observed, attempt, released, told>>

\* claim: #readCommitted ignores a torn tail and validateReplay refuses an
\* empty ledger, in which case ownership is given back.
Load(p) ==
    /\ pc[p] = "load"
    /\ IF lines = <<>>
       THEN Goto(p, "abandon") /\ UNCHANGED memory
       ELSE Goto(p, "owned") /\ memory' = [memory EXCEPT ![p] = lines]
    /\ UNCHANGED <<owner, disk, intent, observed, attempt, released, told>>

\* The ledger cannot be read: ownership is given back.
LoadFails(p) ==
    /\ pc[p] = "load"
    /\ Goto(p, "abandon")
    /\ UNCHANGED <<owner, disk, intent, observed, attempt, memory, released,
                   told>>

-----------------------------------------------------------------------------
(* #appendOwned                                                            *)

\* The candidate is the next record of the ledger the process remembers.  Only
\* #ownedRuns is asked, not .owner.
Append1(p) ==
    /\ pc[p] = "owned" /\ Len(memory[p]) < MaxEvents
    /\ Goto(p, "truncate")
    /\ overstayed' = (overstayed \/ p \in released)
    /\ UNCHANGED <<owner, disk, intent, observed, attempt, memory, released,
                   acked>>

\* Mutant: no truncation, so a torn tail stays in front of the next record.
TruncateNothing(p) ==
    /\ pc[p] = "truncate"
    /\ Goto(p, "write")
    /\ UNCHANGED <<lines, torn, synced, owner, exists, intent, observed,
                   attempt, memory, released, told>>

\* truncate(path, committedBytes) repairs what a failed append left behind; a
\* file shorter than that (another owner cut it) is filled up with zero bytes.
Truncate(p) ==
    /\ pc[p] = "truncate"
    /\ LET kept == Min({Len(memory[p]), Len(lines)}) IN
       /\ lines' = SubSeq(lines, 1, kept)
       /\ torn' = (kept < Len(memory[p]))
       /\ synced' = Min({synced, kept})
    /\ Goto(p, "write")
    /\ UNCHANGED <<owner, exists, intent, observed, attempt, memory, released,
                   told>>

\* handle.writeFile(line): the record is complete only if no partial bytes
\* precede it on its line.
Write(p) ==
    /\ pc[p] = "write"
    /\ lines' = IF torn THEN lines ELSE Append(lines, p)
    /\ Goto(p, "sync")
    /\ UNCHANGED <<owner, exists, torn, synced, intent, observed, attempt,
                   memory, released, told>>

\* Mutant: the append is reported before the file is flushed.
SyncSkipped(p) ==
    /\ pc[p] = "sync"
    /\ memory' = [memory EXCEPT ![p] = Append(@, p)]
    /\ acked' = Append(memory[p], p)
    /\ Goto(p, "owned")
    /\ UNCHANGED <<owner, exists, lines, torn, synced, intent, observed,
                   attempt, released, overstayed>>

\* handle.sync succeeds: memory advances and append resolves.
Sync(p) ==
    /\ pc[p] = "sync"
    /\ synced' = Len(lines)
    /\ memory' = [memory EXCEPT ![p] = Append(@, p)]
    /\ acked' = Append(memory[p], p)
    /\ Goto(p, "owned")
    /\ UNCHANGED <<owner, exists, lines, torn, intent, observed, attempt,
                   released, overstayed>>

\* A call of the append fails: a partial record may be in the file, and memory
\* does not advance, whatever reached the disk.
AppendFails(p) ==
    /\ pc[p] \in {"truncate", "write", "sync"}
    /\ torn' \in (IF pc[p] = "write" THEN BOOLEAN ELSE {torn})
    /\ Goto(p, "owned")
    /\ UNCHANGED <<owner, exists, lines, synced, intent, observed, attempt,
                   memory, released, told>>

-----------------------------------------------------------------------------
(* release and #releaseOwnership                                           *)

Release(p) ==
    /\ pc[p] = "owned"
    /\ Goto(p, "release")
    /\ UNCHANGED <<owner, disk, intent, observed, attempt, memory, released,
                   told>>

\* Read the token: gone means done, another's is not_owner (release keeps the
\* run in #ownedRuns, an abandoned acquisition swallows the error).
ReadToken(p) ==
    /\ pc[p] \in {"release", "abandon"}
    /\ \/ /\ owner = NoOwner
          /\ Forget(p)
       \/ /\ owner = p
          /\ Goto(p, IF pc[p] = "release" THEN "unlink" ELSE "abandonUnlink")
          /\ UNCHANGED <<observed, attempt, memory, intent, released>>
       \/ /\ owner \notin {p, NoOwner}
          /\ IF pc[p] = "release"
             THEN /\ Goto(p, "owned")
                  /\ UNCHANGED <<observed, attempt, memory, intent, released>>
             ELSE Forget(p)
    /\ UNCHANGED <<owner, disk, told>>

\* Rename .owner away, whatever it holds now.  A release still has to sync the
\* directory and remove what it renamed; it is done when there is nothing to
\* rename, and an abandoned acquisition when the rename is, since it swallows
\* what may fail after it.
UnlinkOwner(p) ==
    /\ pc[p] \in {"unlink", "abandonUnlink"}
    /\ owner' = NoOwner
    /\ IF pc[p] = "unlink" /\ owner # NoOwner
       THEN /\ Goto(p, "finalize")
            /\ released' = released \cup {p}
            /\ UNCHANGED <<observed, attempt, memory, intent>>
       ELSE Forget(p)
    /\ UNCHANGED <<disk, told>>

\* The syncs and the removal succeed: release deletes the run from #ownedRuns.
FinalizeRelease(p) ==
    /\ pc[p] = "finalize"
    /\ Forget(p)
    /\ UNCHANGED <<owner, disk, told>>

\* A call of #releaseOwnership fails.  A release then keeps the run in
\* #ownedRuns, even when its rename is done; an abandoned acquisition leaves
\* .owner to a live process that does not own the run.
ReleaseFails(p) ==
    /\ \/ /\ pc[p] \in {"release", "unlink", "finalize"}
          /\ Goto(p, "owned")
          /\ UNCHANGED <<observed, attempt, memory, intent, released>>
       \/ /\ pc[p] \in {"abandon", "abandonUnlink"}
          /\ Forget(p)
    /\ UNCHANGED <<owner, disk, told>>

-----------------------------------------------------------------------------
(* Failures.                                                               *)

\* The process dies: what it wrote stays in the page cache; a record it was
\* writing may be cut short.
Die(p) ==
    /\ pc[p] # "dead"
    /\ pc[p] # "idle" \/ owner = p
    /\ pc' = [pc EXCEPT ![p] = "dead"]
    /\ torn' \in (IF pc[p] \in {"first", "write"} THEN BOOLEAN ELSE {torn})
    /\ memory' = [memory EXCEPT ![p] = <<>>]
    /\ observed' = [observed EXCEPT ![p] = NoOwner]
    /\ attempt' = [attempt EXCEPT ![p] = 0]
    /\ intent' = [intent EXCEPT ![p] = "fresh"]
    /\ released' = released \ {p}
    /\ UNCHANGED <<owner, exists, lines, synced, told>>

\* The machine stops: every process that was inside the store or is named by
\* .owner dies; of what was not flushed any suffix may be lost, the file itself
\* included; and the last rename of .owner may be undone.  The other idle
\* processes stand for the ones started after the reboot.
PowerLoss ==
    LET died == {p \in Procs : pc[p] # "idle" \/ owner = p} IN
    /\ pc' = [p \in Procs |-> IF p \in died THEN "dead" ELSE "idle"]
    /\ owner' \in {owner, NoOwner} \cup released
    /\ \E k \in synced .. Len(lines) :
          /\ lines' = SubSeq(lines, 1, k)
          /\ torn' \in (IF k < Len(lines) THEN BOOLEAN ELSE {torn, FALSE})
          /\ exists' \in (IF k = 0 THEN {exists, FALSE} ELSE {exists})
          /\ torn' => exists'
    /\ memory' = [p \in Procs |-> <<>>]
    /\ observed' = [p \in Procs |-> NoOwner]
    /\ attempt' = [p \in Procs |-> 0]
    /\ intent' = [p \in Procs |-> "fresh"]
    /\ released' = {}
    /\ UNCHANGED <<synced, told>>

-----------------------------------------------------------------------------
\* What a live process does once it is inside a store call.
Advance(p) ==
    \/ ReadOwner(p) \/ Conflict(p) \/ Retire(p) \/ Publish(p) \/ PublishGivesUp(p)
    \/ SyncOwner(p)
    \/ Create(p) \/ WriteFirst(p) \/ SyncFirst(p) \/ Load(p)
    \/ Truncate(p) \/ Write(p) \/ Sync(p)
    \/ ReadToken(p) \/ UnlinkOwner(p) \/ FinalizeRelease(p)

Call(p) == Start(p) \/ Claim(p) \/ ClaimOwned(p) \/ Append1(p) \/ Release(p)

Fail(p) ==
    \/ AcquireFails(p) \/ FirstFails(p) \/ LoadFails(p) \/ AppendFails(p)
    \/ ReleaseFails(p) \/ Die(p)

Next ==
    \/ \E p \in Procs : Advance(p) \/ Call(p) \/ Fail(p)
    \/ PowerLoss

\* The runtime drives a call it has begun; callers may stop calling.
Fairness == \A p \in Procs : WF_vars(Advance(p))

Spec == Init /\ [][Next]_vars /\ Fairness

-----------------------------------------------------------------------------
(* Properties.  The code does not keep one owner at a time when a release  *)
(* fails after its rename: .owner is free for others while the failed      *)
(* process still has the run in #ownedRuns, and #appendOwned and claim ask *)
(* nothing else.  A second process then owns the run with it, and the      *)
(* former owner's next append truncates the ledger at the offset it        *)
(* remembers, through records the second one has reported.  The properties *)
(* say what holds nevertheless: SingleOwner leaves the processes in        *)
(* released out, and the ledger is safe as long as none of them appends.   *)

\* The process acts as the owner and has not renamed its .owner away.
Acts(p) == pc[p] \in Holding /\ p \notin released

\* At most one live process acts as the owner of the run, from the rename that
\* publishes its .owner directory to the one that removes it.
SingleOwner == \A p, q \in Procs : Acts(p) /\ Acts(q) => p = q

\* Every record whose append was reported as done is in the ledger, at its
\* place, whatever fails, dies or loses power afterwards: until a process whose
\* release has failed after its rename appends again.
AckedKept == ~overstayed => IsPrefix(acked, lines)

\* What a process that owns the run believes is committed is what the file
\* begins with, so the byte offset it truncates to never cuts a record in two
\* and never drops one that another owner added: until a process whose release
\* has failed after its rename appends again.
MemoryIsPrefix ==
    ~overstayed =>
        \A p \in Procs \ released :
            pc[p] \in {"owned", "truncate", "write", "sync", "release"} =>
                IsPrefix(acked, memory[p]) /\ IsPrefix(memory[p], lines)

\* Acquiring ownership ends: the process owns the run, was refused, or died.
AcquireTerminates ==
    \A p \in Procs : pc[p] \in Acquiring ~> pc[p] \notin Acquiring
=============================================================================
