------------------------ MODULE AgentCommands_proofs ------------------------
(***************************************************************************)
(* Proofs about commands of agents and their live approval, for waves of   *)
(* any size and any plan.                                                  *)
(***************************************************************************)
EXTENDS AgentCommands, FiniteSetTheorems, SequenceTheorems, TLAPS

RunStatus == {"running", "waiting", "succeeded", "failed", "cancelled", "exhausted"}
ApprovalStatus == {"pending", "granted", "denied", "cancelled", "expired", "consumed"}
Settlements == {"committed", "none", "uncertain", "unconfirmed"}
CommandStatus == {"open"} \cup Settlements
ToolStates == {"idle", "queued", "waiting", "granted", "executing"}
Results == [status : {"none", "succeeded", "failed"}, sideEffect : SideEffects]

LedgerTypeOK ==
    /\ run \in RunStatus
    /\ node \in [Agents -> {"running", "succeeded", "failed"}]
    /\ error \in [Agents -> SideEffects]
    /\ approvals \in [Agents -> Seq(ApprovalStatus)]
    /\ commands \in [Agents -> Seq(CommandStatus)]
    /\ artifacts \in Nat

AttemptTypeOK ==
    /\ tool \in [Agents -> ToolStates]
    /\ started \in [Agents -> Nat]
    /\ unsure \in [Agents -> BOOLEAN] /\ stopped \in [Agents -> BOOLEAN]
    /\ edited \in [Agents -> BOOLEAN]
    /\ result \in [Agents -> Results]
    /\ late \in SUBSET Agents

TypeOK ==
    /\ plan \in PlanType
    /\ LedgerTypeOK
    /\ seen \in SUBSET Requests
    /\ receipts \in [Requests -> {"none", "approve", "deny", "invalid"}]
    /\ call \in {"up", "ended"} /\ aborted \in BOOLEAN
    /\ poison \in {"none", "store", "refused", "budget"}
    /\ tail \in Seq(Agents)
    /\ AttemptTypeOK
    /\ faults \in Nat

-----------------------------------------------------------------------------
(* Sequences that are only appended to, or changed at their end.           *)

\* The end of a sequence replaced.
LEMMA LastReplaced ==
    ASSUME NEW S, NEW s \in Seq(S), s # <<>>, NEW x \in S, NEW t,
           t = [s EXCEPT ![Len(s)] = x]
    PROVE  /\ t \in Seq(S) /\ Len(t) = Len(s) /\ t # <<>>
           /\ Len(s) \in Nat \ {0} /\ DOMAIN s = 1 .. Len(s) /\ DOMAIN t = DOMAIN s
           /\ t[Len(s)] = x
           /\ \A i \in DOMAIN s : i # Len(s) => t[i] = s[i]
<1>1. Len(s) \in Nat \ {0}
  BY EmptySeq
<1>2. DOMAIN s = 1 .. Len(s) /\ Len(s) \in DOMAIN s
  BY <1>1, LenProperties
<1>3. t \in Seq(S) /\ Len(t) = Len(s)
  BY <1>2, ExceptSeq
<1> QED BY <1>1, <1>2, <1>3, EmptySeq

\* An element appended.
LEMMA Appended ==
    ASSUME NEW S, NEW s \in Seq(S), NEW x \in S, NEW t, t = Append(s, x)
    PROVE  /\ t \in Seq(S) /\ Len(s) \in Nat /\ Len(t) = Len(s) + 1
           /\ DOMAIN s = 1 .. Len(s) /\ DOMAIN t = 1 .. Len(s) + 1
           /\ t[Len(s) + 1] = x
           /\ \A i \in DOMAIN s : t[i] = s[i]
<1>1. DOMAIN s = 1 .. Len(s) /\ Len(s) \in Nat
  BY LenProperties
<1>2. t \in Seq(S) /\ Len(t) = Len(s) + 1 /\ t[Len(s) + 1] = x
      /\ \A i \in 1 .. Len(s) : t[i] = s[i]
  BY AppendProperties
<1>3. DOMAIN t = 1 .. Len(t)
  BY <1>2, LenProperties
<1> QED BY <1>1, <1>2, <1>3

AppendedTo(s, t, x) ==
    /\ Len(s) \in Nat /\ Len(t) = Len(s) + 1
    /\ DOMAIN s = 1 .. Len(s) /\ DOMAIN t = 1 .. Len(s) + 1
    /\ t[Len(s) + 1] = x /\ \A i \in DOMAIN s : t[i] = s[i]

ReplacedIn(s, t, x) ==
    /\ Len(s) \in Nat \ {0} /\ Len(t) = Len(s)
    /\ DOMAIN s = 1 .. Len(s) /\ DOMAIN t = DOMAIN s
    /\ t[Len(s)] = x /\ \A i \in DOMAIN s : i # Len(s) => t[i] = s[i]

-----------------------------------------------------------------------------
(* What the reducer accepts about one agent, and what each event changes.  *)

Recorded == [status : {"succeeded", "failed"}, sideEffect : SideEffects]

LedgerEvent(n) ==
    \/ ApprovalRequestedOk(n) /\ ApprovalRequested(n)
    \/ \E d \in {"granted", "denied", "cancelled"} : ApprovalDecidedOk(n) /\ ApprovalDecided(n, d)
    \/ ApprovalGrantOk(n) /\ ApprovalExpired(n)
    \/ CommandPreparedOk(n) /\ CommandPrepared(n)
    \/ \E s \in Settlements : CommandSettledOk(n) /\ CommandSettled(n, s)
    \/ \E o \in Recorded : OutcomeOk(n, o) /\ OutcomeRecorded(n, o)

OthersSame(n) ==
    \A m \in Agents \ {n} :
        /\ node'[m] = node[m] /\ error'[m] = error[m]
        /\ approvals'[m] = approvals[m] /\ commands'[m] = commands[m]

\* A request appends to the approvals of its agent.
LEMMA RequestedChanges ==
    ASSUME LedgerTypeOK, NEW n \in Agents, ApprovalRequested(n)
    PROVE  /\ LedgerTypeOK' /\ OthersSame(n)
           /\ AppendedTo(approvals[n], approvals'[n], "pending")
           /\ approvals'[n] # <<>> /\ LastApproval(n)' = "pending"
<1>1. approvals[n] \in Seq(ApprovalStatus) /\ "pending" \in ApprovalStatus
  BY DEF LedgerTypeOK, ApprovalStatus
<1>2. approvals' = [approvals EXCEPT ![n] = Append(approvals[n], "pending")]
      /\ approvals'[n] = Append(approvals[n], "pending")
  BY DEF ApprovalRequested, LedgerTypeOK
<1>3. /\ approvals'[n] \in Seq(ApprovalStatus)
      /\ AppendedTo(approvals[n], approvals'[n], "pending")
  BY <1>1, <1>2, Appended DEF AppendedTo
<1>4. approvals'[n] # <<>>
  BY <1>3, EmptySeq DEF AppendedTo
<1>5. LedgerTypeOK' /\ OthersSame(n)
  BY <1>2, <1>3 DEF ApprovalRequested, LedgerTypeOK, RunStatus, OthersSame
<1> QED BY <1>3, <1>4, <1>5 DEF LastApproval, AppendedTo

\* A decision, an expiry or a consumption replaces the last approval.
LEMMA ApprovalChanges ==
    ASSUME LedgerTypeOK, NEW n \in Agents, NEW x \in ApprovalStatus, SetApproval(n, x),
           LastApproval(n) \in {"pending", "granted"}
    PROVE  /\ approvals' \in [Agents -> Seq(ApprovalStatus)]
           /\ \A m \in Agents \ {n} : approvals'[m] = approvals[m]
           /\ ReplacedIn(approvals[n], approvals'[n], x)
           /\ approvals[n] # <<>> /\ approvals'[n] # <<>>
           /\ LastApproval(n) = approvals[n][Len(approvals[n])]
           /\ LastApproval(n)' = x
<1>1. approvals[n] \in Seq(ApprovalStatus) /\ approvals[n] # <<>>
      /\ LastApproval(n) = approvals[n][Len(approvals[n])]
  BY DEF LedgerTypeOK, LastApproval
<1>2. approvals'[n] = [approvals[n] EXCEPT ![Len(approvals[n])] = x]
  BY DEF SetApproval, LedgerTypeOK
<1>3. /\ approvals'[n] \in Seq(ApprovalStatus) /\ approvals'[n] # <<>>
      /\ ReplacedIn(approvals[n], approvals'[n], x)
  BY <1>1, <1>2, LastReplaced DEF ReplacedIn
<1>4. /\ approvals' \in [Agents -> Seq(ApprovalStatus)]
      /\ \A m \in Agents \ {n} : approvals'[m] = approvals[m]
  BY <1>2, <1>3 DEF SetApproval, LedgerTypeOK
<1> QED BY <1>1, <1>3, <1>4 DEF LastApproval, ReplacedIn

\* A preparation appends a command.
LEMMA PreparedChanges ==
    ASSUME LedgerTypeOK, NEW n \in Agents, CommandPrepared(n), CommandPreparedOk(n)
    PROVE  /\ LedgerTypeOK' /\ OthersSame(n)
           /\ AppendedTo(commands[n], commands'[n], "open")
           /\ commands'[n] # <<>> /\ commands'[n][Len(commands'[n])] = "open"
           /\ IF n \in plan.gated
              THEN /\ ReplacedIn(approvals[n], approvals'[n], "consumed")
                   /\ approvals[n][Len(approvals[n])] = "granted"
              ELSE approvals' = approvals
<1>1. commands[n] \in Seq(CommandStatus) /\ "open" \in CommandStatus
  BY DEF LedgerTypeOK, CommandStatus
<1>2. commands'[n] = Append(commands[n], "open")
  BY DEF CommandPrepared, LedgerTypeOK
<1>3. /\ commands'[n] \in Seq(CommandStatus)
      /\ AppendedTo(commands[n], commands'[n], "open")
  BY <1>1, <1>2, Appended DEF AppendedTo
<1>4. commands'[n] # <<>> /\ commands'[n][Len(commands'[n])] = "open"
  BY <1>3, EmptySeq DEF AppendedTo
<1>5. /\ approvals' \in [Agents -> Seq(ApprovalStatus)]
      /\ \A m \in Agents \ {n} : approvals'[m] = approvals[m]
      /\ IF n \in plan.gated
         THEN /\ ReplacedIn(approvals[n], approvals'[n], "consumed")
              /\ approvals[n][Len(approvals[n])] = "granted"
         ELSE approvals' = approvals
  <2>1. CASE n \in plan.gated
    BY <2>1, ApprovalChanges DEF CommandPrepared, CommandPreparedOk, ApprovalStatus
  <2>2. CASE n \notin plan.gated
    BY <2>2 DEF CommandPrepared, LedgerTypeOK
  <2> QED BY <2>1, <2>2
<1>6. LedgerTypeOK' /\ OthersSame(n)
  BY <1>3, <1>5 DEF CommandPrepared, LedgerTypeOK, OthersSame
<1> QED BY <1>3, <1>4, <1>5, <1>6

\* A settlement replaces the open command.
LEMMA SettledChanges ==
    ASSUME LedgerTypeOK, NEW n \in Agents, NEW s \in Settlements, CommandSettled(n, s),
           CommandSettledOk(n)
    PROVE  /\ LedgerTypeOK' /\ OthersSame(n)
           /\ ReplacedIn(commands[n], commands'[n], s) /\ commands'[n] # <<>>
           /\ artifacts' >= artifacts
<1>1. commands[n] \in Seq(CommandStatus) /\ s \in CommandStatus /\ commands[n] # <<>>
  BY DEF LedgerTypeOK, CommandStatus, CommandSettledOk
<1>2. commands'[n] = [commands[n] EXCEPT ![Len(commands[n])] = s]
  BY DEF CommandSettled, LedgerTypeOK
<1>3. /\ commands'[n] \in Seq(CommandStatus) /\ commands'[n] # <<>>
      /\ ReplacedIn(commands[n], commands'[n], s)
  BY <1>1, <1>2, LastReplaced DEF ReplacedIn
<1>4. artifacts' \in Nat /\ artifacts' >= artifacts
  BY DEF CommandSettled, LedgerTypeOK
<1>5. LedgerTypeOK' /\ OthersSame(n)
  BY <1>3, <1>4 DEF CommandSettled, LedgerTypeOK, OthersSame
<1> QED BY <1>3, <1>4, <1>5

\* Every accepted event keeps the types and touches one agent.
LEMMA EventChanges ==
    ASSUME LedgerTypeOK, NEW n \in Agents, LedgerEvent(n)
    PROVE  LedgerTypeOK' /\ OthersSame(n) /\ artifacts' >= artifacts
<1>1. CASE ApprovalRequestedOk(n) /\ ApprovalRequested(n)
  <2>1. artifacts' >= artifacts
    BY <1>1 DEF ApprovalRequested, LedgerTypeOK
  <2> QED BY <1>1, <2>1, RequestedChanges
<1>2. ASSUME NEW d \in {"granted", "denied", "cancelled"}, ApprovalDecidedOk(n),
             ApprovalDecided(n, d)
      PROVE  LedgerTypeOK' /\ OthersSame(n) /\ artifacts' >= artifacts
  <2>1. /\ approvals' \in [Agents -> Seq(ApprovalStatus)]
        /\ \A m \in Agents \ {n} : approvals'[m] = approvals[m]
    BY <1>2, ApprovalChanges DEF ApprovalDecided, ApprovalDecidedOk, ApprovalStatus
  <2> QED BY <1>2, <2>1 DEF ApprovalDecided, LedgerTypeOK, RunStatus, OthersSame
<1>3. CASE ApprovalGrantOk(n) /\ ApprovalExpired(n)
  <2>1. /\ approvals' \in [Agents -> Seq(ApprovalStatus)]
        /\ \A m \in Agents \ {n} : approvals'[m] = approvals[m]
    BY <1>3, ApprovalChanges DEF ApprovalExpired, ApprovalGrantOk, ApprovalStatus
  <2> QED BY <1>3, <2>1 DEF ApprovalExpired, LedgerTypeOK, OthersSame
<1>4. CASE CommandPreparedOk(n) /\ CommandPrepared(n)
  <2>1. artifacts' >= artifacts
    BY <1>4 DEF CommandPrepared, LedgerTypeOK
  <2> QED BY <1>4, <2>1, PreparedChanges
<1>5. ASSUME NEW s \in Settlements, CommandSettledOk(n), CommandSettled(n, s)
      PROVE  LedgerTypeOK' /\ OthersSame(n) /\ artifacts' >= artifacts
  BY <1>5, SettledChanges
<1>6. ASSUME NEW o \in Recorded, OutcomeOk(n, o), OutcomeRecorded(n, o)
      PROVE  LedgerTypeOK' /\ OthersSame(n) /\ artifacts' >= artifacts
  BY <1>6 DEF OutcomeRecorded, LedgerTypeOK, Recorded, SideEffects, OthersSame
<1> QED BY <1>1, <1>2, <1>3, <1>4, <1>5, <1>6 DEF LedgerEvent

-----------------------------------------------------------------------------
(* The run waits while one request is pending; a settled agent has none.   *)

ApprovalsBounded == \A n \in Agents : Len(approvals[n]) <= MaxCommands

WaitInv ==
    /\ run = "waiting" <=> Pending # {}
    /\ \A r, s \in Pending : r = s

SettledInv ==
    \A n \in Agents : node[n] # "running" =>
        /\ ~Contains(approvals[n], {"pending", "granted"})
        /\ ~Contains(commands[n], {"open"})

LedgerInv == ApprovalsBounded /\ WaitInv /\ SettledInv

\* The pending requests, by their positions.
LEMMA PendingPositions ==
    ASSUME LedgerTypeOK, ApprovalsBounded, NEW n \in Agents, NEW i \in DOMAIN approvals[n]
    PROVE  /\ <<n, i>> \in Requests
           /\ <<n, i>> \in Pending <=> approvals[n][i] = "pending"
<1>1. DOMAIN approvals[n] = 1 .. Len(approvals[n]) /\ Len(approvals[n]) \in Nat
  BY LenProperties DEF LedgerTypeOK
<1>2. i \in 1 .. MaxCommands
  BY <1>1, AgentCommandAssumption DEF ApprovalsBounded
<1> QED BY <1>2 DEF Pending, Requests

\* Replacing a status by another one that is not "pending" either.
LEMMA PendingStays ==
    ASSUME \A m \in Agents : DOMAIN approvals'[m] = DOMAIN approvals[m],
           \A m \in Agents : \A i \in DOMAIN approvals[m] :
              approvals'[m][i] = "pending" <=> approvals[m][i] = "pending"
    PROVE  Pending' = Pending
BY DEF Pending, Requests

\* Every accepted event keeps the ledger's invariant.
LEMMA EventKeepsLedger ==
    ASSUME LedgerTypeOK, LedgerInv, NEW n \in Agents, LedgerEvent(n)
    PROVE  LedgerInv'
<1> USE AgentCommandAssumption
<1>0. OthersSame(n) /\ LedgerTypeOK'
  BY EventChanges
<1>1. ASSUME Pending' = Pending, run' = run PROVE WaitInv'
  BY <1>1 DEF LedgerInv, WaitInv
<1>2. ASSUME node[n] = "running", node' = node PROVE SettledInv'
  BY <1>0, <1>2 DEF LedgerInv, SettledInv, OthersSame
<1>3. ASSUME Len(approvals'[n]) <= MaxCommands PROVE ApprovalsBounded'
  BY <1>0, <1>3 DEF LedgerInv, ApprovalsBounded, OthersSame
<1>4. ASSUME approvals' = approvals PROVE Pending' = Pending /\ ApprovalsBounded'
  BY <1>4 DEF LedgerInv, ApprovalsBounded, Pending
<1>5. ASSUME NEW x \in ApprovalStatus \ {"pending"}, SetApproval(n, x), LastApproval(n) = "granted"
      PROVE  Pending' = Pending /\ ApprovalsBounded'
  <2>1. /\ \A m \in Agents \ {n} : approvals'[m] = approvals[m]
        /\ ReplacedIn(approvals[n], approvals'[n], x)
        /\ approvals[n][Len(approvals[n])] = "granted"
    BY <1>5, ApprovalChanges
  <2>2. Pending' = Pending
    BY <2>1, PendingStays DEF ReplacedIn
  <2> QED BY <1>3, <2>1, <2>2 DEF ReplacedIn, LedgerInv, ApprovalsBounded
<1>6. CASE ApprovalRequestedOk(n) /\ ApprovalRequested(n)
  <2>1. /\ AppendedTo(approvals[n], approvals'[n], "pending") /\ run' = "waiting"
        /\ Len(approvals[n]) < MaxCommands /\ Pending = {}
        /\ node[n] = "running" /\ node' = node
    BY <1>6, RequestedChanges DEF ApprovalRequestedOk, ApprovalRequested
  <2>2. ApprovalsBounded'
    BY <1>3, <2>1 DEF AppendedTo
  <2>3. \A m \in Agents : \A i \in DOMAIN approvals'[m] :
           approvals'[m][i] = "pending" <=> m = n /\ i = Len(approvals[n]) + 1
    <3> SUFFICES ASSUME NEW m \in Agents, NEW i \in DOMAIN approvals'[m]
                 PROVE  approvals'[m][i] = "pending" <=> m = n /\ i = Len(approvals[n]) + 1
      OBVIOUS
    <3>1. ASSUME i \in DOMAIN approvals[m] PROVE approvals[m][i] # "pending"
      BY <2>1, <3>1, PendingPositions DEF LedgerInv
    <3>2. CASE m # n
      BY <1>0, <3>1, <3>2 DEF OthersSame
    <3>3. CASE m = n
      BY <2>1, <3>1, <3>3 DEF AppendedTo
    <3> QED BY <3>2, <3>3
  <2>4. <<n, Len(approvals[n]) + 1>> \in Pending'
    <3>1. Len(approvals[n]) + 1 \in DOMAIN approvals'[n] /\ Len(approvals[n]) + 1 \in 1 .. MaxCommands
      BY <2>1 DEF AppendedTo
    <3> QED BY <2>3, <3>1 DEF Pending, Requests
  <2>5. \A r \in Pending' : r = <<n, Len(approvals[n]) + 1>>
    BY <2>3 DEF Pending, Requests
  <2> QED BY <1>2, <2>1, <2>2, <2>4, <2>5 DEF LedgerInv, WaitInv
<1>7. ASSUME NEW d \in {"granted", "denied", "cancelled"}, ApprovalDecidedOk(n),
             ApprovalDecided(n, d)
      PROVE  LedgerInv'
  <2>1. /\ ReplacedIn(approvals[n], approvals'[n], d) /\ run' = "running"
        /\ approvals[n][Len(approvals[n])] = "pending"
        /\ node[n] = "running" /\ node' = node
    BY <1>7, ApprovalChanges DEF ApprovalDecided, ApprovalDecidedOk, ApprovalStatus
  <2>2. ApprovalsBounded'
    BY <1>3, <2>1 DEF ReplacedIn, LedgerInv, ApprovalsBounded
  <2>3. Len(approvals[n]) \in DOMAIN approvals[n]
    BY <2>1 DEF ReplacedIn
  <2>4. \A r \in Pending : r = <<n, Len(approvals[n])>>
    BY <2>1, <2>3, PendingPositions DEF LedgerInv, WaitInv
  <2>5. ASSUME NEW m \in Agents, NEW i \in DOMAIN approvals'[m] PROVE approvals'[m][i] # "pending"
    <3>1. CASE m # n
      <4>1. i \in DOMAIN approvals[m] /\ approvals'[m][i] = approvals[m][i]
        BY <1>0, <3>1 DEF OthersSame
      <4> QED BY <2>4, <3>1, <4>1, PendingPositions DEF LedgerInv
    <3>2. CASE m = n /\ i = Len(approvals[n])
      BY <2>1, <3>2 DEF ReplacedIn
    <3>3. CASE m = n /\ i # Len(approvals[n])
      <4>1. i \in DOMAIN approvals[m] /\ approvals'[m][i] = approvals[m][i]
        BY <2>1, <3>3 DEF ReplacedIn
      <4> QED BY <2>4, <3>3, <4>1, PendingPositions DEF LedgerInv
    <3> QED BY <3>1, <3>2, <3>3
  <2>6. Pending' = {}
    BY <2>5 DEF Pending, Requests
  <2> QED BY <1>2, <2>1, <2>2, <2>6 DEF LedgerInv, WaitInv
<1>8. CASE ApprovalGrantOk(n) /\ ApprovalExpired(n)
  <2>1. Pending' = Pending /\ ApprovalsBounded'
    BY <1>5, <1>8 DEF ApprovalGrantOk, ApprovalExpired, ApprovalStatus
  <2> QED BY <1>1, <1>2, <1>8, <2>1 DEF ApprovalGrantOk, ApprovalExpired, LedgerInv
<1>9. CASE CommandPreparedOk(n) /\ CommandPrepared(n)
  <2>1. Pending' = Pending /\ ApprovalsBounded'
    BY <1>4, <1>5, <1>9 DEF CommandPreparedOk, CommandPrepared, ApprovalStatus
  <2> QED BY <1>1, <1>2, <1>9, <2>1 DEF CommandPreparedOk, CommandPrepared, LedgerInv
<1>10. ASSUME NEW s \in Settlements, CommandSettledOk(n), CommandSettled(n, s) PROVE LedgerInv'
  BY <1>1, <1>2, <1>4, <1>10 DEF CommandSettledOk, CommandSettled, LedgerInv
<1>11. ASSUME NEW o \in Recorded, OutcomeOk(n, o), OutcomeRecorded(n, o) PROVE LedgerInv'
  <2>1. SettledInv'
    BY <1>0, <1>11 DEF OutcomeOk, OutcomeRecorded, LedgerInv, SettledInv, OthersSame
  <2> QED BY <1>1, <1>4, <1>11, <2>1 DEF OutcomeRecorded, LedgerInv
<1> QED BY <1>6, <1>7, <1>8, <1>9, <1>10, <1>11 DEF LedgerEvent

-----------------------------------------------------------------------------
(* Every step of the specification is at most one event of the ledger.     *)

\* What an executor returned has a status.
Returned == \A n \in Agents : result[n].status = "none" => result[n] = NoResult

AgentStep(n) ==
    \/ Authorize(n) \/ PrepareUngated(n) \/ ToolStep(n) \/ RetainFails(n)
    \/ Edit(n) \/ Deadline(n) \/ Finish(n) \/ CutOff(n)

\* The outcome that is recorded is a success or a failure.
LEMMA AuthoritativeType ==
    ASSUME TypeOK, NEW n \in Agents, result[n].status # "none"
    PROVE  Authoritative(n) \in Recorded
<1>1. result[n] \in Results
  BY DEF TypeOK, AttemptTypeOK
<1> QED BY <1>1 DEF Authoritative, Recorded, Results, Outcome, SideEffects

\* Steps of an agent.
LEMMA AgentStepIsEvent ==
    ASSUME NEW n \in Agents, AgentStep(n)
    PROVE  UNCHANGED ledgerVars \/ LedgerEvent(n)
<1>1. Decision(n) \in {"granted", "denied", "cancelled"}
  BY DEF Decision
<1>2. CASE PrepareUngated(n) \/ Prepare(n)
  BY <1>2 DEF PrepareUngated, Prepare, Published, Throws, Poisoned, Refused, Fails, LedgerEvent
<1>3. CASE Request(n)
  BY <1>3 DEF Request, Published, Throws, Poisoned, Refused, Fails, LedgerEvent
<1>4. CASE EndWait(n)
  BY <1>1, <1>4 DEF EndWait, Published, Throws, Poisoned, Refused, Fails, LedgerEvent
<1>5. CASE Settle(n)
  BY <1>5 DEF Settle, Published, Throws, Poisoned, Refused, Fails, LedgerEvent, Settlements
<1>6. CASE \/ Authorize(n) \/ TurnAborted(n) \/ RetainFails(n) \/ Edit(n) \/ Deadline(n)
           \/ Finish(n) \/ CutOff(n)
  BY <1>6 DEF Authorize, TurnAborted, RetainFails, Edit, Deadline, Finish, CutOff, Returns, Rest
<1> QED BY <1>2, <1>3, <1>4, <1>5, <1>6 DEF AgentStep, ToolStep

\* Steps of the call: settling an agent, or concluding the run.
LEMMA SettleIsEvent ==
    ASSUME TypeOK, Returned, SettleNext
    PROVE  \E n \in Agents :
              /\ node[n] = "running" /\ (UNCHANGED ledgerVars \/ LedgerEvent(n))
<1>1. PICK n \in Agents :
         /\ node[n] = "running"
         /\ LET o == Authoritative(n) IN
            \/ Published(OutcomeOk(n, o), OutcomeRecorded(n, o))
            \/ Throws(OutcomeOk(n, o), "refused", OutcomeRecorded(n, o))
  BY DEF SettleNext
<1>2. Authoritative(n) \in Recorded
  BY AuthoritativeType DEF SettleNext, AllReturned, Returned
<1> QED BY <1>1, <1>2 DEF Published, Throws, Poisoned, Refused, Fails, LedgerEvent

\* Every step keeps the types of the ledger.
LEMMA StepLedgerType ==
    ASSUME TypeOK, Returned, [Next]_vars
    PROVE  LedgerTypeOK'
<1>1. LedgerTypeOK
  BY DEF TypeOK
<1>2. ASSUME UNCHANGED ledgerVars PROVE LedgerTypeOK'
  BY <1>1, <1>2 DEF ledgerVars, LedgerTypeOK
<1>3. CASE SettleNext
  BY <1>1, <1>2, <1>3, SettleIsEvent, EventChanges
<1>4. CASE Conclude
  <2>1. UNCHANGED ledgerVars \/ Concluded
    BY <1>4 DEF Conclude, Published, Throws, Poisoned, Refused, Fails
  <2> QED BY <1>1, <1>2, <2>1 DEF Concluded, Conclusion, LedgerTypeOK, RunStatus
<1>5. ASSUME NEW n \in Agents, AgentStep(n) PROVE LedgerTypeOK'
  BY <1>1, <1>2, <1>5, AgentStepIsEvent, EventChanges
<1>6. ASSUME NEW r \in Requests, OperatorReads(r) \/ SubmitDecision(r) PROVE LedgerTypeOK'
  BY <1>2, <1>6 DEF OperatorReads, SubmitDecision, OperatorVars
<1>7. CASE Abort \/ UNCHANGED vars
  BY <1>2, <1>7 DEF Abort, vars
<1> QED BY <1>3, <1>4, <1>5, <1>6, <1>7 DEF Next, AgentStep

\* The agent whose request is pending is the first in the approval queue.
TailInv == \A n \in Agents : tool[n] = "waiting" => tail # <<>> /\ Head(tail) = n

\* Every step keeps the types of what is not in the ledger.
LEMMA StepType ==
    ASSUME TypeOK, Returned, TailInv, [Next]_vars
    PROVE  TypeOK' /\ Returned'
<1>1. LedgerTypeOK'
  BY StepLedgerType
<1>2. CASE UNCHANGED vars
  BY <1>1, <1>2 DEF TypeOK, AttemptTypeOK, vars, channelVars, attemptVars, Returned
<1>3. ASSUME NEW n \in Agents, Authorize(n) \/ PrepareUngated(n) PROVE TypeOK' /\ Returned'
  <2>1. /\ UNCHANGED <<plan, seen, receipts, call, aborted, unsure, stopped, edited, result, late>>
        /\ started' = [started EXCEPT ![n] = @ + 1]
    BY <1>3 DEF Authorize, PrepareUngated, CanBegin, channelVars
  <2>2. \E x \in ToolStates : tool' = [tool EXCEPT ![n] = x]
    BY <1>3 DEF Authorize, PrepareUngated, Goto, ToolStates
  <2>3. /\ tail' \in Seq(Agents) /\ faults' \in Nat
        /\ poison' \in {"none", "store", "refused", "budget"}
    <3>1. CASE Authorize(n)
      <4>1. tail' = Append(tail, n) /\ tail \in Seq(Agents) /\ UNCHANGED <<poison, faults>>
        BY <3>1 DEF Authorize, TypeOK
      <4> QED BY <4>1, AppendProperties DEF TypeOK
    <3>2. CASE PrepareUngated(n)
      BY <3>2 DEF PrepareUngated, Published, Throws, Poisoned, Refused, Fails, TypeOK
    <3> QED BY <1>3, <3>1, <3>2
  <2>4. AttemptTypeOK'
    BY <2>1, <2>2 DEF TypeOK, AttemptTypeOK
  <2> QED BY <1>1, <2>1, <2>3, <2>4 DEF TypeOK, Returned
<1>4. ASSUME NEW n \in Agents, ToolStep(n) \/ RetainFails(n) PROVE TypeOK' /\ Returned'
  <2>1. UNCHANGED <<plan, seen, receipts, call, aborted, started, edited, result, late>>
    BY <1>4 DEF ToolStep, TurnAborted, Request, EndWait, Prepare, Settle, RetainFails, Same,
       channelVars
  <2>2. \E x \in ToolStates : tool' = [tool EXCEPT ![n] = x]
    BY <1>4 DEF ToolStep, TurnAborted, Request, EndWait, Prepare, Settle, RetainFails, Goto,
       ToolStates
  <2>3. faults' \in Nat /\ poison' \in {"none", "store", "refused", "budget"}
    <3>1. CASE TurnAborted(n) \/ RetainFails(n)
      BY <3>1 DEF TurnAborted, RetainFails, TypeOK
    <3>2. CASE Request(n)
      BY <3>2 DEF Request, Published, Throws, Poisoned, Refused, Fails, TypeOK
    <3>3. CASE EndWait(n)
      BY <3>3 DEF EndWait, Published, Throws, Poisoned, Refused, Fails, TypeOK
    <3>4. CASE Prepare(n)
      BY <3>4 DEF Prepare, Published, Throws, Poisoned, Refused, Fails, TypeOK
    <3>5. CASE Settle(n)
      BY <3>5 DEF Settle, Published, Throws, Poisoned, Refused, Fails, TypeOK
    <3> QED BY <1>4, <3>1, <3>2, <3>3, <3>4, <3>5 DEF ToolStep
  <2>4. \E u, s \in BOOLEAN : /\ unsure' = [unsure EXCEPT ![n] = u]
                              /\ stopped' = [stopped EXCEPT ![n] = s]
    <3>1. /\ unsure = [unsure EXCEPT ![n] = unsure[n]] /\ unsure[n] \in BOOLEAN
          /\ stopped = [stopped EXCEPT ![n] = stopped[n]] /\ stopped[n] \in BOOLEAN
      BY DEF TypeOK, AttemptTypeOK
    <3>2. CASE TurnAborted(n) \/ Request(n) \/ EndWait(n) \/ Prepare(n)
      BY <3>1, <3>2 DEF TurnAborted, Request, EndWait, Prepare
    <3>3. CASE RetainFails(n)
      BY <3>1, <3>3 DEF RetainFails
    <3>4. CASE Settle(n)
      BY <3>1, <3>4 DEF Settle
    <3> QED BY <1>4, <3>2, <3>3, <3>4 DEF ToolStep
  <2>5. AttemptTypeOK'
    BY <2>1, <2>2, <2>4 DEF TypeOK, AttemptTypeOK
  <2>6. tail' = tail \/ (tail # <<>> /\ tail' = Tail(tail))
    BY <1>4 DEF ToolStep, TurnAborted, Request, EndWait, Prepare, Settle, RetainFails, Leave,
       MyTurn, TailInv
  <2>7. tail' \in Seq(Agents)
    BY <2>6, HeadTailProperties DEF TypeOK
  <2> QED BY <1>1, <2>1, <2>3, <2>5, <2>7 DEF TypeOK, Returned
<1>5. ASSUME NEW n \in Agents, Edit(n) \/ Deadline(n) \/ Finish(n) \/ CutOff(n)
      PROVE  TypeOK' /\ Returned'
  <2>1. UNCHANGED <<plan, seen, receipts, call, aborted, poison, tail, tool, started, unsure, faults>>
    BY <1>5 DEF Edit, Deadline, Finish, CutOff, Returns, Rest, channelVars
  <2>2. /\ \E b \in BOOLEAN : stopped' = stopped \/ stopped' = [stopped EXCEPT ![n] = b]
        /\ \E b \in BOOLEAN : edited' = edited \/ edited' = [edited EXCEPT ![n] = b]
        /\ late' = late \/ late' = late \cup {n}
        /\ \/ result' = result
           \/ \E o \in Recorded : result' = [result EXCEPT ![n] = o]
    <3>1. SideEffect(n) \in SideEffects
      BY DEF SideEffect, SideEffects
    <3>2. CASE Edit(n) \/ Deadline(n)
      BY <3>2 DEF Edit, Deadline
    <3>3. CASE Finish(n) \/ CutOff(n)
      <4>1. PICK s \in {"succeeded", "failed"}, x \in SideEffects \cup {"uncertain"} :
               Returns(n, Outcome(s, x))
        BY <3>1, <3>3 DEF Finish, CutOff
      <4>2. Outcome(s, x) \in Recorded
        BY DEF Outcome, Recorded, SideEffects
      <4> QED BY <3>3, <4>1, <4>2 DEF Finish, CutOff, Returns
    <3> QED BY <1>5, <3>2, <3>3
  <2>3. result' \in [Agents -> Results] /\ Returned'
    <3>1. CASE result' = result
      BY <3>1 DEF TypeOK, AttemptTypeOK, Returned
    <3>2. ASSUME NEW o \in Recorded, result' = [result EXCEPT ![n] = o]
          PROVE  result' \in [Agents -> Results] /\ Returned'
      BY <3>2 DEF TypeOK, AttemptTypeOK, Returned, Recorded, Results
    <3> QED BY <2>2, <3>1, <3>2
  <2>4. AttemptTypeOK'
    <3>1. stopped' \in [Agents -> BOOLEAN]
      BY <2>2 DEF TypeOK, AttemptTypeOK
    <3>2. edited' \in [Agents -> BOOLEAN]
      BY <2>2 DEF TypeOK, AttemptTypeOK
    <3>3. late' \in SUBSET Agents
      BY <2>2 DEF TypeOK, AttemptTypeOK
    <3> QED BY <2>1, <2>3, <3>1, <3>2, <3>3 DEF TypeOK, AttemptTypeOK
  <2> QED BY <1>1, <2>1, <2>3, <2>4 DEF TypeOK
<1>6. CASE SettleNext \/ Conclude
  <2>1. UNCHANGED <<plan, seen, receipts, aborted, tail, attemptVars>> /\ call' \in {"up", "ended"}
    BY <1>6 DEF SettleNext, Conclude, Frame, channelVars, TypeOK
  <2>2. faults' \in Nat /\ poison' \in {"none", "store", "refused", "budget"}
    BY <1>6 DEF SettleNext, Conclude, Published, Throws, Poisoned, Refused, Fails, TypeOK
  <2> QED BY <1>1, <2>1, <2>2 DEF TypeOK, AttemptTypeOK, attemptVars, Returned
<1>7. CASE Abort
  BY <1>1, <1>7 DEF Abort, TypeOK, AttemptTypeOK, attemptVars, channelVars, Returned
<1>8. ASSUME NEW r \in Requests, OperatorReads(r) \/ SubmitDecision(r) PROVE TypeOK' /\ Returned'
  BY <1>1, <1>8 DEF OperatorReads, SubmitDecision, OperatorVars, TypeOK, AttemptTypeOK,
     attemptVars, Returned
<1> QED BY <1>2, <1>3, <1>4, <1>5, <1>6, <1>7, <1>8 DEF Next

-----------------------------------------------------------------------------
(* A tool call past its request has a durable counterpart, and an outcome  *)
(* that denies side effects comes from an attempt that had none.           *)

ToolInv(n) ==
    /\ tool[n] \in {"queued", "waiting", "granted"} => n \in plan.gated
    /\ tool[n] = "waiting" => LastApproval(n) = "pending"
    /\ tool[n] = "granted" => LastApproval(n) = "granted"
    /\ tool[n] = "executing" => commands[n] # <<>> /\ commands[n][Len(commands[n])] = "open"

OutcomeInv(n) ==
    /\ node[n] # "running" => result[n] # NoResult
    /\ result[n].status = "failed" /\ result[n].sideEffect = "none" => ~edited[n]
    /\ node[n] = "failed" /\ error[n] = "none" =>
          ~edited[n] /\ ~Contains(commands[n], {"committed", "uncertain", "unconfirmed"})

AgentInv == \A n \in Agents : ToolInv(n) /\ OutcomeInv(n)

\* What the invariants say of an agent is what these are.
AgentSame(m) ==
    /\ node'[m] = node[m] /\ error'[m] = error[m]
    /\ approvals'[m] = approvals[m] /\ commands'[m] = commands[m]
    /\ tool'[m] = tool[m] /\ result'[m] = result[m] /\ edited'[m] = edited[m]
    /\ started'[m] = started[m] /\ stopped'[m] = stopped[m] /\ unsure'[m] = unsure[m]

\* The steps of one agent leave the others alone.
LEMMA OthersKept ==
    ASSUME TypeOK, NEW n \in Agents, AgentStep(n), NEW m \in Agents \ {n}
    PROVE  AgentSame(m) /\ plan' = plan /\ call' = call /\ call = "up" /\ UNCHANGED aborted
<1>1. node'[m] = node[m] /\ error'[m] = error[m]
      /\ approvals'[m] = approvals[m] /\ commands'[m] = commands[m]
  BY AgentStepIsEvent, EventChanges DEF OthersSame, TypeOK, ledgerVars
<1>2. /\ tool'[m] = tool[m] /\ result'[m] = result[m] /\ edited'[m] = edited[m]
      /\ started'[m] = started[m] /\ plan' = plan /\ call' = call /\ call = "up"
      /\ UNCHANGED aborted
  BY DEF AgentStep, ToolStep, Authorize, PrepareUngated, CanBegin, TurnAborted, Request, EndWait,
     Prepare, Settle, RetainFails, MyTurn, Goto, Same, Edit, Deadline, Finish, CutOff, Returns,
     Rest, TypeOK, AttemptTypeOK
<1>3. stopped'[m] = stopped[m] /\ unsure'[m] = unsure[m]
  BY DEF AgentStep, ToolStep, Authorize, PrepareUngated, CanBegin, TurnAborted, Request, EndWait,
     Prepare, Settle, RetainFails, Edit, Deadline, Finish, CutOff, Returns, Rest, TypeOK,
     AttemptTypeOK
<1> QED BY <1>1, <1>2, <1>3 DEF AgentSame

\* An agent that a step leaves alone keeps its invariant.
LEMMA AgentFrame ==
    ASSUME NEW m \in Agents, AgentSame(m), plan' = plan, ToolInv(m), OutcomeInv(m)
    PROVE  ToolInv(m)' /\ OutcomeInv(m)'
BY DEF AgentSame, ToolInv, OutcomeInv, LastApproval, Contains

\* While an agent has not returned, only what its tool stands for has to be kept.
LEMMA BeforeReturn ==
    ASSUME Returned, NEW n \in Agents, node'[n] = "running", result[n] = NoResult, result' = result
    PROVE  OutcomeInv(n)'
BY DEF OutcomeInv, NoResult, Outcome

\* Events about commands and approvals keep the outcome part.
LEMMA BeforeSettlement ==
    ASSUME NEW n \in Agents, OutcomeInv(n), node[n] = "running", node' = node,
           result' = result, edited' = edited
    PROVE  OutcomeInv(n)'
BY DEF OutcomeInv

\* The call of a tool begins.
LEMMA BeginKeepsAgent ==
    ASSUME TypeOK, Returned, NEW n \in Agents, ToolInv(n), OutcomeInv(n),
           Authorize(n) \/ PrepareUngated(n)
    PROVE  ToolInv(n)' /\ OutcomeInv(n)'
<1>1. LedgerTypeOK
  BY DEF TypeOK
<1>2. /\ UNCHANGED <<plan, result>> /\ result[n] = NoResult /\ tool[n] = "idle"
      /\ node[n] = "running"
  BY DEF Authorize, PrepareUngated, CanBegin, OutcomeInv, TypeOK, LedgerTypeOK
<1>3. CASE Authorize(n)
  <2>1. tool'[n] = "queued" /\ UNCHANGED ledgerVars /\ n \in plan.gated
    BY <1>3 DEF Authorize, Goto, TypeOK, AttemptTypeOK
  <2> QED BY <1>2, <2>1, BeforeReturn DEF ToolInv, ledgerVars
<1>4. CASE PrepareUngated(n)
  <2>1. \/ tool'[n] = "executing" /\ CommandPreparedOk(n) /\ CommandPrepared(n)
        \/ tool'[n] = "idle" /\ UNCHANGED ledgerVars
        \/ tool'[n] = "idle" /\ CommandPreparedOk(n) /\ CommandPrepared(n)
    BY <1>4 DEF PrepareUngated, Published, Throws, Poisoned, Refused, Fails, Goto, TypeOK,
       AttemptTypeOK
  <2>2. node' = node
    BY <2>1 DEF CommandPrepared, ledgerVars
  <2>3. ToolInv(n)'
    BY <1>1, <2>1, PreparedChanges DEF ToolInv
  <2> QED BY <1>2, <2>2, <2>3, BeforeReturn
<1> QED BY <1>3, <1>4

\* The gate: a request becomes pending with its waiter, a grant is held by the call
\* that asked for it.
LEMMA GateKeepsAgent ==
    ASSUME TypeOK, NEW n \in Agents, ToolInv(n), OutcomeInv(n),
           TurnAborted(n) \/ Request(n) \/ EndWait(n)
    PROVE  ToolInv(n)' /\ OutcomeInv(n)'
<1>1. LedgerTypeOK
  BY DEF TypeOK
<1>2. UNCHANGED <<plan, result, edited>> /\ n \in plan.gated
  BY DEF TurnAborted, Request, EndWait, MyTurn, Same, ToolInv
<1>3. CASE TurnAborted(n)
  <2>1. tool'[n] = "idle" /\ UNCHANGED ledgerVars
    BY <1>3 DEF TurnAborted, Goto, TypeOK, AttemptTypeOK
  <2> QED BY <1>2, <2>1 DEF ToolInv, OutcomeInv, ledgerVars, Contains
<1>4. CASE Request(n)
  <2>1. \/ tool'[n] = "waiting" /\ ApprovalRequestedOk(n) /\ ApprovalRequested(n)
        \/ tool'[n] = "idle" /\ UNCHANGED ledgerVars
        \/ tool'[n] = "idle" /\ ApprovalRequestedOk(n) /\ ApprovalRequested(n)
    BY <1>4 DEF Request, Published, Throws, Poisoned, Refused, Fails, Goto, TypeOK, AttemptTypeOK
  <2>2. ToolInv(n)'
    BY <1>1, <1>2, <2>1, RequestedChanges DEF ToolInv
  <2>3. CASE UNCHANGED ledgerVars
    BY <1>2, <2>2, <2>3 DEF OutcomeInv, ledgerVars, Contains
  <2>4. CASE ApprovalRequestedOk(n) /\ ApprovalRequested(n)
    BY <1>2, <2>2, <2>4, BeforeSettlement DEF ApprovalRequestedOk, ApprovalRequested
  <2> QED BY <2>1, <2>3, <2>4
<1>5. CASE EndWait(n)
  <2>1. \/ /\ tool'[n] = IF Decision(n) = "granted" THEN "granted" ELSE "idle"
           /\ ApprovalDecidedOk(n) /\ ApprovalDecided(n, Decision(n))
        \/ tool'[n] = "idle" /\ UNCHANGED ledgerVars
        \/ tool'[n] = "idle" /\ ApprovalDecidedOk(n) /\ ApprovalDecided(n, Decision(n))
    BY <1>5 DEF EndWait, Published, Throws, Poisoned, Refused, Fails, Goto, TypeOK, AttemptTypeOK
  <2>2. CASE UNCHANGED ledgerVars /\ tool'[n] = "idle"
    BY <1>2, <2>2 DEF ToolInv, OutcomeInv, ledgerVars, Contains
  <2>3. CASE ApprovalDecidedOk(n) /\ ApprovalDecided(n, Decision(n))
    <3>1. Decision(n) \in ApprovalStatus
      BY DEF Decision, ApprovalStatus
    <3>2. LastApproval(n)' = Decision(n)
      BY <1>1, <2>3, <3>1, ApprovalChanges DEF ApprovalDecidedOk, ApprovalDecided
    <3>3. OutcomeInv(n)'
      BY <1>2, <2>3, BeforeSettlement DEF ApprovalDecidedOk, ApprovalDecided
    <3>4. ToolInv(n)'
      BY <1>2, <2>1, <3>2 DEF ToolInv
    <3> QED BY <3>3, <3>4
  <2> QED BY <2>1, <2>2, <2>3
<1> QED BY <1>3, <1>4, <1>5

\* The journal: a prepared command is open while its tool executes it.
LEMMA JournalKeepsAgent ==
    ASSUME TypeOK, NEW n \in Agents, ToolInv(n), OutcomeInv(n),
           Prepare(n) \/ Settle(n) \/ RetainFails(n)
    PROVE  ToolInv(n)' /\ OutcomeInv(n)'
<1>1. LedgerTypeOK
  BY DEF TypeOK
<1>2. UNCHANGED <<plan, result, edited>>
  BY DEF Prepare, Settle, RetainFails, Same
<1>3. CASE Prepare(n)
  <2>1. \/ tool'[n] = "executing" /\ CommandPreparedOk(n) /\ CommandPrepared(n)
        \/ tool'[n] = "idle" /\ ApprovalGrantOk(n) /\ ApprovalExpired(n)
        \/ tool'[n] = "idle" /\ UNCHANGED ledgerVars
        \/ tool'[n] = "idle" /\ CommandPreparedOk(n) /\ CommandPrepared(n)
    BY <1>3 DEF Prepare, Published, Throws, Poisoned, Refused, Fails, Goto, TypeOK, AttemptTypeOK
  <2>2. ToolInv(n)'
    BY <1>1, <2>1, PreparedChanges DEF ToolInv
  <2>3. CASE UNCHANGED ledgerVars
    BY <1>2, <2>2, <2>3 DEF OutcomeInv, ledgerVars, Contains
  <2>4. CASE CommandPreparedOk(n) /\ CommandPrepared(n)
    BY <1>2, <2>2, <2>4, BeforeSettlement DEF CommandPreparedOk, CommandPrepared
  <2>5. CASE ApprovalGrantOk(n) /\ ApprovalExpired(n)
    BY <1>2, <2>2, <2>5, BeforeSettlement DEF ApprovalGrantOk, ApprovalExpired
  <2> QED BY <2>1, <2>3, <2>4, <2>5
<1>4. CASE Settle(n)
  <2>1. /\ tool'[n] = "idle"
        /\ \/ UNCHANGED ledgerVars
           \/ \E s \in Settlements : CommandSettledOk(n) /\ CommandSettled(n, s)
    BY <1>4 DEF Settle, Published, Throws, Poisoned, Refused, Fails, Goto, TypeOK, AttemptTypeOK,
       Settlements
  <2>2. CASE UNCHANGED ledgerVars
    BY <1>2, <2>1, <2>2 DEF ToolInv, OutcomeInv, ledgerVars, Contains
  <2>3. CASE \E s \in Settlements : CommandSettledOk(n) /\ CommandSettled(n, s)
    BY <1>2, <2>1, <2>3, BeforeSettlement DEF CommandSettledOk, CommandSettled, ToolInv
  <2> QED BY <2>1, <2>2, <2>3
<1>5. CASE RetainFails(n)
  <2>1. tool'[n] = "idle" /\ UNCHANGED ledgerVars
    BY <1>5 DEF RetainFails, Goto, TypeOK, AttemptTypeOK
  <2> QED BY <1>2, <2>1 DEF ToolInv, OutcomeInv, ledgerVars, Contains
<1> QED BY <1>3, <1>4, <1>5

\* The executor: what it returns accounts for the edits made so far, and no edit
\* comes after it.
LEMMA ExecutorKeepsAgent ==
    ASSUME TypeOK, Returned, NEW n \in Agents, ToolInv(n), OutcomeInv(n),
           Edit(n) \/ Deadline(n) \/ Finish(n) \/ CutOff(n)
    PROVE  ToolInv(n)' /\ OutcomeInv(n)'
<1>1. UNCHANGED <<plan, tool, ledgerVars>> /\ result[n] = NoResult /\ node[n] = "running"
  BY DEF Edit, Deadline, Finish, CutOff, Returns, Rest, OutcomeInv, TypeOK, LedgerTypeOK
<1>2. ToolInv(n)'
  BY <1>1 DEF ToolInv, LastApproval, ledgerVars
<1>3. node'[n] = "running"
  BY <1>1 DEF ledgerVars
<1>4. CASE Edit(n) \/ Deadline(n)
  BY <1>1, <1>2, <1>3, <1>4, BeforeReturn DEF Edit, Deadline
<1>5. CASE Finish(n) \/ CutOff(n)
  <2>1. PICK s \in {"succeeded", "failed"}, x \in {SideEffect(n), "uncertain"} :
           result' = [result EXCEPT ![n] = Outcome(s, x)] /\ edited' = edited
    BY <1>5 DEF Finish, CutOff, Returns
  <2>2. result'[n].sideEffect = x
    BY <2>1 DEF Outcome, TypeOK, AttemptTypeOK
  <2>3. x = "none" => ~edited[n]
    BY DEF SideEffect
  <2> QED BY <1>2, <1>3, <2>1, <2>2, <2>3 DEF OutcomeInv
<1> QED BY <1>4, <1>5

\* A recorded outcome is the executor's, or the abort's, which knows the edits.
LEMMA SettlementKeepsAgents ==
    ASSUME TypeOK, Returned, AgentInv, SettleNext
    PROVE  AgentInv'
<1>1. PICK n \in Agents :
         /\ node[n] = "running" /\ result[n] # NoResult
         /\ LET o == Authoritative(n) IN
            \/ Published(OutcomeOk(n, o), OutcomeRecorded(n, o))
            \/ Throws(OutcomeOk(n, o), "refused", OutcomeRecorded(n, o))
  BY DEF SettleNext, AllReturned
<1> DEFINE o == Authoritative(n)
<1>2. UNCHANGED ledgerVars \/ (OutcomeOk(n, o) /\ OutcomeRecorded(n, o))
  BY <1>1 DEF Published, Throws, Poisoned, Refused, Fails
<1>3. UNCHANGED <<plan, tool, started, unsure, stopped, edited, result>>
  BY DEF SettleNext, Frame, attemptVars
<1>4. ASSUME NEW m \in Agents, AgentSame(m) PROVE ToolInv(m)' /\ OutcomeInv(m)'
  BY <1>3, <1>4, AgentFrame DEF AgentInv
<1>5. CASE UNCHANGED ledgerVars
  BY <1>3, <1>4, <1>5 DEF ledgerVars, AgentSame, AgentInv
<1>6. CASE OutcomeOk(n, o) /\ OutcomeRecorded(n, o)
  <2>1. /\ UNCHANGED <<approvals, commands>> /\ node'[n] = o.status /\ error'[n] = o.sideEffect
        /\ \A m \in Agents \ {n} : node'[m] = node[m] /\ error'[m] = error[m]
    BY <1>6 DEF OutcomeRecorded, TypeOK, LedgerTypeOK
  <2>2. ASSUME NEW m \in Agents \ {n} PROVE ToolInv(m)' /\ OutcomeInv(m)'
    BY <1>3, <1>4, <2>1, <2>2 DEF AgentSame
  <2>3. ToolInv(n)'
    BY <1>3, <2>1 DEF AgentInv, ToolInv, LastApproval
  <2>4. o \in Recorded
    BY <1>1, AuthoritativeType DEF Returned
  <2>5. o.status = "failed" /\ o.sideEffect = "none" =>
           ~edited[n] /\ ~Contains(commands[n], {"committed", "uncertain", "unconfirmed"})
    <3>1. o.status = "failed" /\ o.sideEffect = "none" => ~edited[n]
      BY DEF Authoritative, Outcome, AgentInv, OutcomeInv
    <3>2. o.status = "failed" /\ o.sideEffect = "none" =>
             ~Contains(commands[n], {"committed", "uncertain", "unconfirmed"})
      BY <1>6 DEF OutcomeOk, Contains
    <3> QED BY <3>1, <3>2
  <2>6. OutcomeInv(n)'
    BY <1>1, <1>3, <2>1, <2>5 DEF AgentInv, OutcomeInv, Contains
  <2> QED BY <2>2, <2>3, <2>6 DEF AgentInv
<1> QED BY <1>2, <1>5, <1>6

\* Every step keeps what tools and outcomes stand for.
LEMMA StepAgents ==
    ASSUME TypeOK, Returned, AgentInv, [Next]_vars
    PROVE  AgentInv'
<1>1. ASSUME UNCHANGED <<plan, node, error, approvals, commands, attemptVars>> PROVE AgentInv'
  BY <1>1, AgentFrame DEF AgentInv, AgentSame, attemptVars
<1>2. ASSUME NEW n \in Agents, AgentStep(n) PROVE AgentInv'
  <2>1. ASSUME NEW m \in Agents \ {n} PROVE ToolInv(m)' /\ OutcomeInv(m)'
    BY <1>2, <2>1, OthersKept, AgentFrame DEF AgentInv
  <2>2. ToolInv(n) /\ OutcomeInv(n)
    BY DEF AgentInv
  <2>3. ToolInv(n)' /\ OutcomeInv(n)'
    BY <1>2, <2>2, BeginKeepsAgent, GateKeepsAgent, JournalKeepsAgent, ExecutorKeepsAgent
       DEF AgentStep, ToolStep
  <2> QED BY <2>1, <2>3 DEF AgentInv
<1>3. CASE SettleNext
  BY <1>3, SettlementKeepsAgents
<1>4. CASE Conclude
  <2>1. UNCHANGED ledgerVars \/ Concluded
    BY <1>4 DEF Conclude, Published, Throws, Poisoned, Refused, Fails
  <2> QED BY <1>1, <1>4, <2>1 DEF Conclude, Concluded, Frame, ledgerVars
<1>5. CASE Abort \/ UNCHANGED vars
  BY <1>1, <1>5 DEF Abort, vars, ledgerVars
<1>6. ASSUME NEW r \in Requests, OperatorReads(r) \/ SubmitDecision(r) PROVE AgentInv'
  BY <1>1, <1>6 DEF OperatorReads, SubmitDecision, OperatorVars, ledgerVars
<1> QED BY <1>2, <1>3, <1>4, <1>5, <1>6 DEF Next, AgentStep

\* The queue: whoever leaves it is its first, so a waiting agent keeps its place.
LEMMA StepTail ==
    ASSUME TypeOK, TailInv, [Next]_vars
    PROVE  TailInv'
<1> USE DEF TypeOK, AttemptTypeOK
<1>1. ASSUME UNCHANGED tail, \A m \in Agents : tool'[m] = "waiting" => tool[m] = "waiting"
      PROVE  TailInv'
  BY <1>1 DEF TailInv
<1>2. ASSUME NEW n \in Agents, Authorize(n) PROVE TailInv'
  <2>1. /\ tail' = Append(tail, n) /\ tail \in Seq(Agents)
        /\ \A m \in Agents : tool'[m] = "waiting" => tool[m] = "waiting"
    BY <1>2 DEF Authorize, Goto
  <2>2. tail # <<>> => tail' # <<>> /\ Head(tail') = Head(tail)
    <3>1. tail' \in Seq(Agents) /\ Len(tail') = Len(tail) + 1 /\ Len(tail) \in Nat
          /\ \A i \in 1 .. Len(tail) : tail'[i] = tail[i]
      BY <2>1, AppendProperties, LenProperties
    <3>2. tail # <<>> => Len(tail) \in Nat \ {0} /\ Head(tail) = tail[1] /\ tail' # <<>>
      BY <2>1, <3>1, EmptySeq
    <3>3. tail # <<>> => Head(tail') = tail'[1]
      BY <3>1, <3>2
    <3> QED BY <3>1, <3>2, <3>3
  <2> QED BY <2>1, <2>2 DEF TailInv
<1>3. ASSUME NEW n \in Agents, PrepareUngated(n) \/ Prepare(n) \/ Settle(n) \/ RetainFails(n)
      PROVE  TailInv'
  BY <1>1, <1>3 DEF PrepareUngated, Prepare, Settle, RetainFails, Goto
<1>4. ASSUME NEW n \in Agents, tail # <<>>, Head(tail) = n, tool'[n] # "waiting",
             \A m \in Agents \ {n} : tool'[m] = tool[m]
      PROVE  TailInv'
  BY <1>4 DEF TailInv
<1>5. ASSUME NEW n \in Agents, TurnAborted(n) PROVE TailInv'
  BY <1>4, <1>5 DEF TurnAborted, MyTurn, Goto
<1>6. ASSUME NEW n \in Agents, Request(n) PROVE TailInv'
  <2>1. /\ tail # <<>> /\ Head(tail) = n /\ \A m \in Agents \ {n} : tool'[m] = tool[m]
        /\ (tool'[n] = "waiting" /\ tail' = tail) \/ tool'[n] = "idle"
    BY <1>6 DEF Request, MyTurn, Goto
  <2>2. CASE tool'[n] = "waiting" /\ tail' = tail
    BY <2>1, <2>2 DEF TailInv
  <2> QED BY <1>4, <2>1, <2>2
<1>7. ASSUME NEW n \in Agents, EndWait(n) PROVE TailInv'
  <2>1. /\ tool[n] = "waiting" /\ tool'[n] \in {"granted", "idle"}
        /\ \A m \in Agents \ {n} : tool'[m] = tool[m]
    BY <1>7 DEF EndWait, Goto
  <2> QED BY <1>4, <2>1 DEF TailInv
<1>8. ASSUME NEW n \in Agents, Edit(n) \/ Deadline(n) \/ Finish(n) \/ CutOff(n) PROVE TailInv'
  BY <1>1, <1>8 DEF Edit, Deadline, Finish, CutOff, Returns, Rest
<1>9. CASE SettleNext \/ Conclude \/ Abort \/ UNCHANGED vars
  BY <1>1, <1>9 DEF SettleNext, Conclude, Abort, Frame, vars, attemptVars
<1>10. ASSUME NEW r \in Requests, OperatorReads(r) \/ SubmitDecision(r) PROVE TailInv'
  BY <1>1, <1>10 DEF OperatorReads, SubmitDecision, OperatorVars, attemptVars
<1> QED BY <1>2, <1>3, <1>5, <1>6, <1>7, <1>8, <1>9, <1>10 DEF Next, ToolStep

\* A call that has not ended drives a run that has not concluded.
CallInv == call = "up" => run \in {"running", "waiting"}

\* Every step keeps the ledger's invariant.
LEMMA StepLedger ==
    ASSUME TypeOK, Returned, LedgerInv, CallInv, [Next]_vars
    PROVE  LedgerInv' /\ CallInv'
<1>1. LedgerTypeOK
  BY DEF TypeOK
<1>2. ASSUME UNCHANGED ledgerVars, call' = "up" => call = "up" PROVE LedgerInv' /\ CallInv'
  BY <1>2 DEF ledgerVars, LedgerInv, ApprovalsBounded, WaitInv, Pending, SettledInv, Contains,
     CallInv
<1>3. ASSUME NEW n \in Agents, LedgerEvent(n), call' = "up" => call = "up"
      PROVE  LedgerInv' /\ CallInv'
  <2>1. run' \in {"running", "waiting", run}
    BY <1>3 DEF LedgerEvent, ApprovalRequested, ApprovalDecided, ApprovalExpired, CommandPrepared,
       CommandSettled, OutcomeRecorded
  <2> QED BY <1>1, <1>3, <2>1, EventKeepsLedger DEF CallInv
<1>4. CASE SettleNext
  <2>1. call' = "up" => call = "up"
    BY <1>4 DEF SettleNext
  <2> QED BY <1>2, <1>3, <1>4, <2>1, SettleIsEvent
<1>5. CASE Conclude
  <2>1. UNCHANGED ledgerVars \/ Concluded
    BY <1>5 DEF Conclude, Published, Throws, Poisoned, Refused, Fails
  <2>2. call' = "ended" /\ \A n \in Agents : node[n] # "running"
    BY <1>5 DEF Conclude
  <2>3. CASE Concluded
    <3>1. Pending = {}
      BY <2>2 DEF LedgerInv, SettledInv, Contains, Pending, Requests
    <3>2. run' # "waiting" /\ UNCHANGED <<node, approvals, commands>>
      BY <2>3 DEF Concluded, Conclusion
    <3>3. Pending' = {}
      BY <3>1, <3>2 DEF Pending
    <3>4. WaitInv'
      BY <3>2, <3>3 DEF WaitInv
    <3> QED BY <2>2, <3>2, <3>4 DEF LedgerInv, ApprovalsBounded, SettledInv, Contains, CallInv
  <2> QED BY <1>2, <2>1, <2>2, <2>3
<1>6. ASSUME NEW n \in Agents, AgentStep(n) PROVE LedgerInv' /\ CallInv'
  <2>1. call' = "up" => call = "up"
    BY <1>6 DEF AgentStep, ToolStep, Authorize, PrepareUngated, CanBegin, TurnAborted, Request,
       EndWait, Prepare, Settle, RetainFails, Same, Edit, Deadline, Finish, CutOff, Returns, Rest
  <2> QED BY <1>2, <1>3, <1>6, <2>1, AgentStepIsEvent
<1>7. CASE Abort \/ UNCHANGED vars
  BY <1>2, <1>7 DEF Abort, vars
<1>8. ASSUME NEW r \in Requests, OperatorReads(r) \/ SubmitDecision(r)
      PROVE  LedgerInv' /\ CallInv'
  BY <1>2, <1>8 DEF OperatorReads, SubmitDecision, OperatorVars
<1> QED BY <1>4, <1>5, <1>6, <1>7, <1>8 DEF Next, AgentStep

CommandInv == TypeOK /\ Returned /\ TailInv /\ LedgerInv /\ CallInv /\ AgentInv

\* The invariant holds when a wave starts.
LEMMA InitCommand == Init => CommandInv
<1> SUFFICES ASSUME Init PROVE CommandInv
  OBVIOUS
<1> USE AgentCommandAssumption DEF Init
<1>1. <<>> \in Seq(ApprovalStatus) /\ <<>> \in Seq(CommandStatus) /\ <<>> \in Seq(Agents)
      /\ Len(<<>>) = 0 /\ DOMAIN <<>> = {}
  BY EmptySeq
<1>2. NoResult \in Results /\ NoResult.status = "none"
  BY DEF NoResult, Outcome, Results, SideEffects
<1>3. LedgerTypeOK
  BY <1>1 DEF LedgerTypeOK, RunStatus, SideEffects
<1>4. AttemptTypeOK
  BY <1>2 DEF AttemptTypeOK, ToolStates
<1>5. TypeOK
  BY <1>1, <1>3, <1>4 DEF TypeOK
<1>6. Pending = {}
  BY <1>1 DEF Pending, Requests
<1>7. LedgerInv
  BY <1>1, <1>6 DEF LedgerInv, ApprovalsBounded, WaitInv, SettledInv
<1>8. Returned /\ TailInv /\ CallInv
  BY DEF Returned, TailInv, CallInv
<1>9. AgentInv
  BY <1>2 DEF AgentInv, ToolInv, OutcomeInv
<1> QED BY <1>5, <1>7, <1>8, <1>9 DEF CommandInv

\* Every wave keeps it.
LEMMA CommandInvariant == Spec => []CommandInv
<1>1. CommandInv /\ [Next]_vars => CommandInv'
  BY StepType, StepTail, StepLedger, StepAgents DEF CommandInv
<1> QED BY <1>1, InitCommand, PTL DEF Spec

\* The run says it waits exactly while one request is pending, in every wave.
THEOREM WaitingIsPending == Spec => []WaitingMeansPending
<1>1. CommandInv => WaitingMeansPending
  <2> SUFFICES ASSUME CommandInv PROVE WaitingMeansPending
    OBVIOUS
  <2>1. (run = "waiting" <=> Pending # {}) /\ \A r, s \in Pending : r = s
    BY DEF CommandInv, LedgerInv, WaitInv
  <2>2. Cardinality(Pending) <= 1
    <3>1. CASE Pending = {}
      BY <3>1, FS_EmptySet
    <3>2. ASSUME NEW r \in Pending PROVE Cardinality(Pending) <= 1
      <4>1. Pending = {r}
        BY <2>1, <3>2
      <4> QED BY <4>1, FS_Singleton
    <3> QED BY <3>1, <3>2
  <2> QED BY <2>1, <2>2 DEF WaitingMeansPending
<1> QED BY <1>1, CommandInvariant, PTL

\* A recorded outcome is final and true: no command of the attempt is running, and
\* a failure that denies side effects had none, in every wave.
THEOREM OutcomeIsTrue == Spec => []OutcomeTellsCommands
<1>1. CommandInv => OutcomeTellsCommands
  <2> SUFFICES ASSUME CommandInv, NEW n \in Agents, node[n] # "running"
               PROVE  /\ tool[n] \in {"idle", "queued"}
                      /\ ~Contains(commands[n], {"open"})
                      /\ node[n] = "failed" /\ error[n] = "none" =>
                            ~edited[n] /\ ~Contains(commands[n], {"committed", "uncertain", "unconfirmed"})
    BY DEF OutcomeTellsCommands
  <2>1. ~Contains(approvals[n], {"pending", "granted"}) /\ ~Contains(commands[n], {"open"})
    BY DEF CommandInv, LedgerInv, SettledInv
  <2>2. ToolInv(n) /\ OutcomeInv(n) /\ tool[n] \in ToolStates
    BY DEF CommandInv, AgentInv, TypeOK, AttemptTypeOK
  <2>3. /\ approvals[n] # <<>> => Len(approvals[n]) \in DOMAIN approvals[n]
        /\ commands[n] # <<>> => Len(commands[n]) \in DOMAIN commands[n]
    <3>1. approvals[n] \in Seq(ApprovalStatus) /\ commands[n] \in Seq(CommandStatus)
      BY DEF CommandInv, TypeOK, LedgerTypeOK
    <3> QED BY <3>1, EmptySeq, LenProperties
  <2>4. tool[n] \notin {"waiting", "granted", "executing"}
    BY <2>1, <2>2, <2>3 DEF ToolInv, LastApproval, Contains
  <2> QED BY <2>1, <2>2, <2>4 DEF ToolStates, OutcomeInv
<1> QED BY <1>1, CommandInvariant, PTL

-----------------------------------------------------------------------------
(* Approvals and the commands they let run.                                *)

Consumed(n) == {i \in DOMAIN approvals[n] : approvals[n][i] = "consumed"}

Justified(n, i) ==
    /\ approvals[n][i] \in {"granted", "consumed", "expired"} => receipts[<<n, i>>] = "approve"
    /\ approvals[n][i] = "denied" => receipts[<<n, i>>] = "deny"
    /\ approvals[n][i] = "cancelled" => Aborted(n) \/ receipts[<<n, i>>] = "invalid"

ApprovedInv(n) ==
    /\ Len(commands[n]) = Cardinality(Consumed(n))
    /\ \A i \in DOMAIN approvals[n] : Justified(n, i)

\* Receipts, once linked, and aborts stay.
Monotone ==
    /\ plan' = plan
    /\ \A r \in Requests : receipts[r] # "none" => receipts'[r] = receipts[r]
    /\ \A n \in Agents : Aborted(n) => Aborted(n)'

\* No step takes back a receipt or an abort.
LEMMA StepMonotone ==
    ASSUME TypeOK, [Next]_vars
    PROVE  Monotone
<1> USE DEF TypeOK, AttemptTypeOK
<1>1. CASE SettleNext \/ Conclude \/ Abort \/ UNCHANGED vars
  BY <1>1 DEF SettleNext, Conclude, Abort, Frame, vars, attemptVars, channelVars, Monotone, Aborted
<1>2. ASSUME NEW r \in Requests, OperatorReads(r) \/ SubmitDecision(r) PROVE Monotone
  BY <1>2 DEF OperatorReads, SubmitDecision, OperatorVars, attemptVars, Monotone, Aborted
<1>3. ASSUME NEW n \in Agents, AgentStep(n) PROVE Monotone
  <2>1. plan' = plan /\ receipts' = receipts /\ aborted' = aborted
    BY <1>3 DEF AgentStep, ToolStep, Authorize, PrepareUngated, CanBegin, TurnAborted, Request,
       EndWait, Prepare, Settle, RetainFails, Same, Edit, Deadline, Finish, CutOff, Returns, Rest,
       channelVars
  <2>2. CASE Settle(n)
    BY <2>1, <2>2 DEF Settle, Monotone, Aborted
  <2>3. CASE ~Settle(n)
    <3>1. stopped' = stopped \/ stopped' = [stopped EXCEPT ![n] = TRUE]
      BY <1>3, <2>3 DEF AgentStep, ToolStep, Authorize, PrepareUngated, CanBegin, TurnAborted,
         Request, EndWait, Prepare, RetainFails, Edit, Deadline, Finish, CutOff, Returns, Rest
    <3> QED BY <2>1, <3>1 DEF Monotone, Aborted
  <2> QED BY <2>2, <2>3
<1> QED BY <1>1, <1>2, <1>3 DEF Next, AgentStep

\* A status that was justified stays so.
LEMMA JustifiedStays ==
    ASSUME TypeOK, ApprovalsBounded, Monotone, NEW n \in Agents, NEW i \in DOMAIN approvals[n],
           Justified(n, i), approvals'[n][i] = approvals[n][i]
    PROVE  Justified(n, i)'
<1>1. <<n, i>> \in Requests
  BY PendingPositions DEF TypeOK
<1> QED BY <1>1 DEF Justified, Monotone

\* An agent whose approvals and commands stay.
LEMMA ApprovedFrame ==
    ASSUME TypeOK, ApprovalsBounded, Monotone, NEW n \in Agents, ApprovedInv(n),
           approvals'[n] = approvals[n], Len(commands'[n]) = Len(commands[n])
    PROVE  ApprovedInv(n)'
<1>1. Consumed(n)' = Consumed(n)
  BY DEF Consumed
<1>2. \A i \in DOMAIN approvals[n] : Justified(n, i)'
  BY JustifiedStays DEF ApprovedInv
<1> QED BY <1>1, <1>2 DEF ApprovedInv

\* The last status replaced by one that consumes nothing.
LEMMA ApprovedReplaced ==
    ASSUME TypeOK, ApprovalsBounded, Monotone, NEW n \in Agents, ApprovedInv(n),
           NEW x \in ApprovalStatus \ {"consumed"}, ReplacedIn(approvals[n], approvals'[n], x),
           approvals[n][Len(approvals[n])] # "consumed", commands' = commands,
           Justified(n, Len(approvals[n]))'
    PROVE  ApprovedInv(n)'
<1>1. Consumed(n)' = Consumed(n)
  BY DEF Consumed, ReplacedIn
<1>2. ASSUME NEW i \in DOMAIN approvals[n], i # Len(approvals[n]) PROVE Justified(n, i)'
  BY <1>2, JustifiedStays DEF ApprovedInv, ReplacedIn
<1>3. \A i \in DOMAIN approvals'[n] : Justified(n, i)'
  <2> SUFFICES ASSUME NEW i \in DOMAIN approvals'[n] PROVE Justified(n, i)'
    OBVIOUS
  <2>1. i \in DOMAIN approvals[n] /\ Len(approvals'[n]) = Len(approvals[n])
    BY DEF ReplacedIn
  <2>2. CASE i = Len(approvals[n])
    BY <2>1, <2>2 DEF Justified
  <2> QED BY <1>2, <2>1, <2>2
<1> QED BY <1>1, <1>3 DEF ApprovedInv

\* A new request consumes nothing and needs no reason.
LEMMA RequestApproved ==
    ASSUME TypeOK, ApprovalsBounded, Monotone, NEW n \in Agents, ApprovedInv(n),
           ApprovalRequested(n)
    PROVE  ApprovedInv(n)'
<1>1. AppendedTo(approvals[n], approvals'[n], "pending") /\ commands' = commands
  BY RequestedChanges DEF TypeOK, ApprovalRequested
<1>2. Consumed(n)' = Consumed(n)
  BY <1>1 DEF Consumed, AppendedTo
<1>3. ASSUME NEW i \in DOMAIN approvals'[n] PROVE Justified(n, i)'
  <2>1. CASE i \in DOMAIN approvals[n]
    BY <1>1, <2>1, JustifiedStays DEF ApprovedInv, AppendedTo
  <2>2. CASE i = Len(approvals[n]) + 1
    BY <1>1, <2>2 DEF Justified, AppendedTo
  <2> QED BY <1>1, <2>1, <2>2 DEF AppendedTo
<1> QED BY <1>1, <1>2, <1>3 DEF ApprovedInv

\* A decision follows the receipt of its own request, or the abort.
LEMMA DecisionApproved ==
    ASSUME TypeOK, ApprovalsBounded, Monotone, NEW n \in Agents, ApprovedInv(n),
           receipts' = receipts, Aborted(n) \/ Receipt(n) # "none",
           ApprovalDecidedOk(n), ApprovalDecided(n, Decision(n))
    PROVE  ApprovedInv(n)'
<1>1. Decision(n) \in ApprovalStatus \ {"consumed", "expired", "pending"}
  BY DEF Decision, ApprovalStatus
<1>2. /\ ReplacedIn(approvals[n], approvals'[n], Decision(n)) /\ commands' = commands
      /\ approvals[n][Len(approvals[n])] = "pending"
  BY <1>1, ApprovalChanges DEF TypeOK, ApprovalDecided, ApprovalDecidedOk
<1>3. <<n, Len(approvals[n])>> \in Requests
  BY <1>2, PendingPositions DEF ReplacedIn, TypeOK
<1>4. /\ Decision(n) = "granted" => Receipt(n) = "approve"
      /\ Decision(n) = "denied" => Receipt(n) = "deny"
      /\ Decision(n) = "cancelled" => Aborted(n) \/ Receipt(n) \notin {"approve", "deny", "none"}
  BY DEF Decision
<1>5. Receipt(n) \in {"none", "approve", "deny", "invalid"}
  BY <1>3 DEF Receipt, OpenRequest, TypeOK
<1>6. Justified(n, Len(approvals[n]))'
  BY <1>1, <1>2, <1>4, <1>5 DEF Justified, ReplacedIn, Receipt, OpenRequest, Monotone
<1> QED BY <1>1, <1>2, <1>6, ApprovedReplaced

\* A grant that expires was approved.
LEMMA ExpiryApproved ==
    ASSUME TypeOK, ApprovalsBounded, Monotone, NEW n \in Agents, ApprovedInv(n),
           receipts' = receipts, ApprovalGrantOk(n), ApprovalExpired(n)
    PROVE  ApprovedInv(n)'
<1>1. /\ ReplacedIn(approvals[n], approvals'[n], "expired") /\ commands' = commands
      /\ approvals[n][Len(approvals[n])] = "granted" /\ "expired" \in ApprovalStatus \ {"consumed"}
  BY ApprovalChanges DEF TypeOK, ApprovalGrantOk, ApprovalExpired, ApprovalStatus
<1>2. Justified(n, Len(approvals[n]))
  BY <1>1 DEF ApprovedInv, ReplacedIn
<1>3. Justified(n, Len(approvals[n]))'
  BY <1>1, <1>2 DEF Justified, ReplacedIn
<1> QED BY <1>1, <1>3, ApprovedReplaced

\* A gated command consumes one approved request.
LEMMA PreparationApproved ==
    ASSUME TypeOK, ApprovalsBounded, Monotone, NEW n \in plan.gated, n \in Agents, ApprovedInv(n),
           receipts' = receipts, CommandPreparedOk(n), CommandPrepared(n)
    PROVE  ApprovedInv(n)'
<1>1. /\ ReplacedIn(approvals[n], approvals'[n], "consumed")
      /\ approvals[n][Len(approvals[n])] = "granted"
      /\ AppendedTo(commands[n], commands'[n], "open")
  BY PreparedChanges DEF TypeOK
<1> DEFINE last == Len(approvals[n])
<1>2. last \in DOMAIN approvals[n] /\ last \notin Consumed(n)
  BY <1>1 DEF ReplacedIn, Consumed
<1>3. Consumed(n)' = Consumed(n) \cup {last}
  BY <1>1 DEF Consumed, ReplacedIn
<1>4. IsFiniteSet(Consumed(n))
  <2>1. Consumed(n) \subseteq 1 .. last /\ last \in Nat
    BY <1>1 DEF Consumed, ReplacedIn
  <2>2. IsFiniteSet(1 .. last)
    BY <2>1, FS_Interval
  <2> QED BY <2>1, <2>2, FS_Subset
<1>5. Cardinality(Consumed(n)') = Cardinality(Consumed(n)) + 1
  BY <1>2, <1>3, <1>4, FS_AddElement
<1>6. Len(commands'[n]) = Len(commands[n]) + 1
  BY <1>1 DEF AppendedTo
<1>7. ASSUME NEW i \in DOMAIN approvals'[n] PROVE Justified(n, i)'
  <2>1. i \in DOMAIN approvals[n] /\ Justified(n, i)
    BY <1>1 DEF ReplacedIn, ApprovedInv
  <2>2. CASE i = last
    BY <1>1, <2>1, <2>2 DEF Justified, ReplacedIn
  <2>3. CASE i # last
    BY <1>1, <2>1, <2>3, JustifiedStays DEF ReplacedIn
  <2> QED BY <2>2, <2>3
<1> QED BY <1>5, <1>6, <1>7 DEF ApprovedInv

\* Every step keeps the approvals of every gated agent accounted for.
LEMMA StepApproved ==
    ASSUME CommandInv, \A n \in plan.gated : ApprovedInv(n), [Next]_vars
    PROVE  (\A n \in plan.gated : ApprovedInv(n))'
<1>1. TypeOK /\ LedgerTypeOK /\ ApprovalsBounded /\ plan.gated \subseteq Agents /\ Returned
  BY DEF CommandInv, LedgerInv, TypeOK, PlanType
<1>2. Monotone /\ plan' = plan
  BY <1>1, StepMonotone DEF Monotone
<1> SUFFICES ASSUME NEW k \in plan.gated PROVE ApprovedInv(k)'
  BY <1>2
<1>3. ApprovedInv(k) /\ k \in Agents
  BY <1>1
<1>4. ASSUME approvals'[k] = approvals[k], Len(commands'[k]) = Len(commands[k])
      PROVE  ApprovedInv(k)'
  BY <1>1, <1>2, <1>3, <1>4, ApprovedFrame
<1>5. ASSUME UNCHANGED <<approvals, commands>> PROVE ApprovedInv(k)'
  BY <1>4, <1>5
<1>6. CASE Abort \/ UNCHANGED vars
  BY <1>5, <1>6 DEF Abort, vars, ledgerVars
<1>7. ASSUME NEW r \in Requests, OperatorReads(r) \/ SubmitDecision(r) PROVE ApprovedInv(k)'
  BY <1>5, <1>7 DEF OperatorReads, SubmitDecision, OperatorVars, ledgerVars
<1>8. CASE SettleNext \/ Conclude
  BY <1>5, <1>8 DEF SettleNext, Conclude, Published, Throws, Poisoned, Refused, Fails, Concluded,
     OutcomeRecorded, ledgerVars
<1>9. ASSUME NEW n \in Agents \ {k}, AgentStep(n) PROVE ApprovedInv(k)'
  BY <1>1, <1>3, <1>4, <1>9, OthersKept DEF AgentSame
<1>10. CASE \/ Authorize(k) \/ TurnAborted(k) \/ RetainFails(k) \/ Edit(k) \/ Deadline(k)
            \/ Finish(k) \/ CutOff(k) \/ PrepareUngated(k)
  BY <1>5, <1>10 DEF Authorize, TurnAborted, RetainFails, Edit, Deadline, Finish, CutOff, Returns,
     Rest, ledgerVars, PrepareUngated
<1>11. CASE Request(k)
  <2>1. UNCHANGED ledgerVars \/ ApprovalRequested(k)
    BY <1>11 DEF Request, Published, Throws, Poisoned, Refused, Fails
  <2> QED BY <1>1, <1>2, <1>3, <1>5, <2>1, RequestApproved DEF ledgerVars
<1>12. CASE EndWait(k)
  <2>1. /\ UNCHANGED ledgerVars \/ (ApprovalDecidedOk(k) /\ ApprovalDecided(k, Decision(k)))
        /\ receipts' = receipts
        /\ Aborted(k) \/ Receipt(k) # "none"
    BY <1>12 DEF EndWait, Published, Throws, Poisoned, Refused, Fails, Same, channelVars
  <2> QED BY <1>1, <1>2, <1>3, <1>5, <2>1, DecisionApproved DEF ledgerVars
<1>13. CASE Prepare(k)
  <2>1. /\ \/ UNCHANGED ledgerVars
           \/ CommandPreparedOk(k) /\ CommandPrepared(k)
           \/ ApprovalGrantOk(k) /\ ApprovalExpired(k)
        /\ receipts' = receipts
    BY <1>13 DEF Prepare, Published, Throws, Poisoned, Refused, Fails, Same, channelVars
  <2> QED BY <1>1, <1>2, <1>3, <1>5, <2>1, PreparationApproved, ExpiryApproved DEF ledgerVars
<1>14. CASE Settle(k)
  <2>1. \/ UNCHANGED ledgerVars
        \/ \E s \in Settlements : CommandSettledOk(k) /\ CommandSettled(k, s)
    BY <1>14 DEF Settle, Published, Throws, Poisoned, Refused, Fails, Settlements
  <2>2. ASSUME NEW s \in Settlements, CommandSettledOk(k), CommandSettled(k, s)
        PROVE  approvals' = approvals /\ Len(commands'[k]) = Len(commands[k])
    BY <1>1, <1>3, <2>2, SettledChanges DEF ReplacedIn, CommandSettled
  <2> QED BY <1>4, <1>5, <2>1, <2>2 DEF ledgerVars
<1> QED BY <1>3, <1>6, <1>7, <1>8, <1>9, <1>10, <1>11, <1>12, <1>13, <1>14
       DEF Next, AgentStep, ToolStep

\* No command of a gated agent runs without an approval of its own, in every wave.
THEOREM ApprovedBeforeRun == Spec => []OnlyApprovedRan
<1>1. Init => \A n \in plan.gated : ApprovedInv(n)
  <2> SUFFICES ASSUME Init, NEW n \in plan.gated PROVE ApprovedInv(n)
    OBVIOUS
  <2>1. n \in Agents
    BY AgentCommandAssumption DEF Init, PlanType
  <2>2. approvals[n] = <<>> /\ commands[n] = <<>> /\ Len(<<>>) = 0 /\ DOMAIN <<>> = {}
    BY <2>1, EmptySeq DEF Init
  <2>3. Consumed(n) = {}
    BY <2>2 DEF Consumed
  <2> QED BY <2>2, <2>3, FS_EmptySet DEF ApprovedInv
<1>2. CommandInv /\ (\A n \in plan.gated : ApprovedInv(n)) /\ [Next]_vars =>
         (\A n \in plan.gated : ApprovedInv(n))'
  BY StepApproved
<1>3. (\A n \in plan.gated : ApprovedInv(n)) => OnlyApprovedRan
  BY DEF ApprovedInv, Consumed, Justified, OnlyApprovedRan
<1> QED BY <1>1, <1>2, <1>3, CommandInvariant, PTL DEF Spec

-----------------------------------------------------------------------------
(* Refusals.  As long as no store failed, no tool outlived its executor    *)
(* and nothing was refused, the ledger and the attempts agree on every     *)
(* request, every command and every outcome.                               *)

CleanState == faults = 0 /\ late = {} /\ poison = "none"

\* The reducer's rule for an outcome and the commands of its attempt.
Fits(o, s) ==
    /\ o.status = "succeeded" => ~Contains(s, {"unconfirmed"})
    /\ o.status = "failed" =>
          /\ Contains(s, {"uncertain", "unconfirmed"}) => o.sideEffect = "uncertain"
          /\ Contains(s, {"committed"}) => o.sideEffect # "none"

JournalAgrees(n) ==
    /\ \A i \in DOMAIN approvals[n] :
          /\ approvals[n][i] = "pending" => i = Len(approvals[n]) /\ tool[n] = "waiting"
          /\ approvals[n][i] = "granted" => i = Len(approvals[n]) /\ tool[n] = "granted"
    /\ \A i \in DOMAIN commands[n] :
          /\ commands[n][i] = "open" => i = Len(commands[n]) /\ tool[n] = "executing"
          /\ commands[n][i] = "unconfirmed" =>
                stopped[n] /\ tool[n] \notin {"queued", "waiting", "granted"}

CallsCounted(n) ==
    /\ started[n] <= plan.calls[n]
    /\ Len(approvals[n]) <= started[n] /\ Len(commands[n]) <= started[n]
    /\ tool[n] = "queued" => Len(approvals[n]) < started[n]
    /\ tool[n] \in {"queued", "waiting", "granted"} => Len(commands[n]) < started[n]

ResultFits(n) ==
    /\ tool[n] # "idle" => result[n] = NoResult
    /\ result[n] # NoResult => Fits(result[n], commands[n])

AgreeInv(n) == JournalAgrees(n) /\ CallsCounted(n) /\ ResultFits(n)

CleanInv == CleanState => \A n \in Agents : AgreeInv(n)

\* A clean state was always clean.
LEMMA CleanBefore ==
    ASSUME TypeOK, [Next]_vars, CleanState'
    PROVE  CleanState
<1> USE DEF TypeOK, AttemptTypeOK, CleanState
<1>1. CASE SettleNext \/ Conclude \/ Abort \/ UNCHANGED vars
  BY <1>1 DEF SettleNext, Conclude, Abort, Frame, vars, attemptVars, Published, Throws, Poisoned,
     Refused, Fails
<1>2. ASSUME NEW r \in Requests, OperatorReads(r) \/ SubmitDecision(r) PROVE CleanState
  BY <1>2 DEF OperatorReads, SubmitDecision, OperatorVars, attemptVars
<1>3. ASSUME NEW n \in Agents, Authorize(n) \/ PrepareUngated(n) PROVE CleanState
  BY <1>3 DEF Authorize, PrepareUngated, CanBegin, Published, Throws, Poisoned, Refused, Fails
<1>4. ASSUME NEW n \in Agents, ToolStep(n) \/ RetainFails(n) PROVE CleanState
  <2>1. late' = late
    BY <1>4 DEF ToolStep, TurnAborted, Request, EndWait, Prepare, Settle, RetainFails, Same
  <2>2. CASE TurnAborted(n) \/ RetainFails(n)
    BY <2>1, <2>2 DEF TurnAborted, RetainFails
  <2>3. CASE Request(n)
    BY <2>1, <2>3 DEF Request, Published, Throws, Poisoned, Refused, Fails
  <2>4. CASE EndWait(n)
    BY <2>1, <2>4 DEF EndWait, Published, Throws, Poisoned, Refused, Fails
  <2>5. CASE Prepare(n)
    BY <2>1, <2>5 DEF Prepare, Published, Throws, Poisoned, Refused, Fails
  <2>6. CASE Settle(n)
    BY <2>1, <2>6 DEF Settle, Published, Throws, Poisoned, Refused, Fails
  <2> QED BY <1>4, <2>2, <2>3, <2>4, <2>5, <2>6 DEF ToolStep
<1>5. ASSUME NEW n \in Agents, Edit(n) \/ Deadline(n) \/ Finish(n) \/ CutOff(n) PROVE CleanState
  BY <1>5 DEF Edit, Deadline, Finish, CutOff, Returns, Rest
<1> QED BY <1>1, <1>2, <1>3, <1>4, <1>5 DEF Next

\* What the calls of an agent leave room for.
LEMMA CallsFit ==
    ASSUME TypeOK, NEW n \in Agents
    PROVE  /\ started[n] \in Nat /\ plan.calls[n] \in Nat /\ plan.calls[n] <= MaxCommands
           /\ Len(approvals[n]) \in Nat /\ Len(commands[n]) \in Nat
           /\ DOMAIN approvals[n] = 1 .. Len(approvals[n])
           /\ DOMAIN commands[n] = 1 .. Len(commands[n])
<1>1. approvals[n] \in Seq(ApprovalStatus) /\ commands[n] \in Seq(CommandStatus)
  BY DEF TypeOK, LedgerTypeOK
<1>2. started[n] \in Nat /\ plan.calls[n] \in 0 .. MaxCommands
  BY DEF TypeOK, AttemptTypeOK, PlanType
<1> QED BY <1>1, <1>2, LenProperties, AgentCommandAssumption

\* What the agreement of an agent depends on.
LEMMA AgreeFrame ==
    ASSUME NEW m \in Agents, AgreeInv(m), plan' = plan,
           approvals'[m] = approvals[m], commands'[m] = commands[m], tool'[m] = tool[m],
           started'[m] = started[m], result'[m] = result[m], stopped[m] => stopped'[m]
    PROVE  AgreeInv(m)'
<1>1. JournalAgrees(m)'
  BY DEF AgreeInv, JournalAgrees
<1>2. CallsCounted(m)' /\ ResultFits(m)'
  BY DEF AgreeInv, CallsCounted, ResultFits, Fits, Contains
<1> QED BY <1>1, <1>2 DEF AgreeInv

\* A call begins: nothing of the agent is open, and one more call is counted.
LEMMA BeginAgrees ==
    ASSUME TypeOK, NEW n \in Agents, AgreeInv(n), CleanState', Authorize(n) \/ PrepareUngated(n)
    PROVE  AgreeInv(n)'
<1>1. /\ plan' = plan /\ result' = result /\ result[n] = NoResult /\ tool[n] = "idle"
      /\ stopped' = stopped /\ ~stopped[n]
      /\ started[n] < plan.calls[n] /\ started'[n] = started[n] + 1
  BY DEF Authorize, PrepareUngated, CanBegin, Aborted, TypeOK, AttemptTypeOK
<1>2. /\ \A i \in DOMAIN approvals[n] : approvals[n][i] \notin {"pending", "granted"}
      /\ \A i \in DOMAIN commands[n] : commands[n][i] \notin {"open", "unconfirmed"}
  BY <1>1 DEF AgreeInv, JournalAgrees
<1>3. /\ started[n] \in Nat /\ plan.calls[n] \in Nat
      /\ Len(approvals[n]) \in Nat /\ Len(commands[n]) \in Nat
      /\ Len(approvals[n]) <= started[n] /\ Len(commands[n]) <= started[n]
  BY CallsFit DEF AgreeInv, CallsCounted
<1>4. ResultFits(n)'
  BY <1>1 DEF ResultFits
<1>5. CASE Authorize(n)
  <2>1. tool'[n] = "queued" /\ approvals' = approvals /\ commands' = commands
    BY <1>5 DEF Authorize, Goto, ledgerVars, TypeOK, AttemptTypeOK
  <2>2. JournalAgrees(n)'
    BY <1>2, <2>1 DEF JournalAgrees
  <2>3. CallsCounted(n)'
    BY <1>1, <1>3, <2>1 DEF CallsCounted
  <2> QED BY <1>4, <2>2, <2>3 DEF AgreeInv
<1>6. CASE PrepareUngated(n)
  <2>1. /\ tool'[n] = "executing" /\ CommandPreparedOk(n) /\ CommandPrepared(n)
        /\ n \notin plan.gated
    BY <1>6 DEF PrepareUngated, Published, Throws, Poisoned, Refused, Fails, CleanState, Goto,
       TypeOK, AttemptTypeOK
  <2>2. AppendedTo(commands[n], commands'[n], "open") /\ approvals' = approvals
    BY <2>1, PreparedChanges DEF TypeOK
  <2>3. JournalAgrees(n)'
    BY <1>2, <2>1, <2>2 DEF JournalAgrees, AppendedTo
  <2>4. CallsCounted(n)'
    BY <1>1, <1>3, <2>1, <2>2 DEF CallsCounted, AppendedTo
  <2> QED BY <1>4, <2>3, <2>4 DEF AgreeInv
<1> QED BY <1>5, <1>6

\* The gate keeps one request per call.
LEMMA GateAgrees ==
    ASSUME TypeOK, NEW n \in Agents, AgreeInv(n), CleanState',
           TurnAborted(n) \/ Request(n) \/ EndWait(n)
    PROVE  AgreeInv(n)'
<1>1. /\ plan' = plan /\ result' = result /\ stopped' = stopped /\ started' = started
      /\ tool[n] \in {"queued", "waiting"} /\ result[n] = NoResult
  BY DEF TurnAborted, Request, EndWait, MyTurn, Same, AgreeInv, ResultFits
<1>2. \A i \in DOMAIN commands[n] : commands[n][i] \notin {"open", "unconfirmed"}
  BY <1>1 DEF AgreeInv, JournalAgrees
<1>3. /\ started[n] \in Nat /\ plan.calls[n] \in Nat /\ started[n] <= plan.calls[n]
      /\ Len(approvals[n]) \in Nat /\ Len(commands[n]) \in Nat
      /\ Len(approvals[n]) <= started[n] /\ Len(commands[n]) < started[n]
      /\ tool[n] = "queued" => Len(approvals[n]) < started[n]
  BY <1>1, CallsFit DEF AgreeInv, CallsCounted
<1>4. ResultFits(n)'
  BY <1>1 DEF ResultFits
<1>5. CASE TurnAborted(n)
  <2>1. tool'[n] = "idle" /\ approvals' = approvals /\ commands' = commands /\ tool[n] = "queued"
    BY <1>5 DEF TurnAborted, MyTurn, Goto, ledgerVars, TypeOK, AttemptTypeOK
  <2>2. JournalAgrees(n)'
    BY <1>2, <2>1 DEF AgreeInv, JournalAgrees
  <2>3. CallsCounted(n)'
    BY <1>1, <1>3, <2>1 DEF CallsCounted
  <2> QED BY <1>4, <2>2, <2>3 DEF AgreeInv
<1>6. CASE Request(n)
  <2>1. tool'[n] = "waiting" /\ ApprovalRequested(n) /\ tool[n] = "queued"
    BY <1>6 DEF Request, MyTurn, Published, Throws, Poisoned, Refused, Fails, CleanState, Goto,
       TypeOK, AttemptTypeOK
  <2>2. AppendedTo(approvals[n], approvals'[n], "pending") /\ commands' = commands
    BY <2>1, RequestedChanges DEF TypeOK, ApprovalRequested
  <2>3. \A i \in DOMAIN approvals[n] : approvals[n][i] \notin {"pending", "granted"}
    BY <2>1 DEF AgreeInv, JournalAgrees
  <2>4. JournalAgrees(n)'
    BY <1>2, <2>1, <2>2, <2>3 DEF JournalAgrees, AppendedTo
  <2>5. CallsCounted(n)'
    BY <1>1, <1>3, <2>1, <2>2 DEF CallsCounted, AppendedTo
  <2> QED BY <1>4, <2>4, <2>5 DEF AgreeInv
<1>7. CASE EndWait(n)
  <2>1. /\ tool'[n] = IF Decision(n) = "granted" THEN "granted" ELSE "idle"
        /\ ApprovalDecidedOk(n) /\ ApprovalDecided(n, Decision(n)) /\ tool[n] = "waiting"
    BY <1>7 DEF EndWait, Published, Throws, Poisoned, Refused, Fails, CleanState, Goto,
       TypeOK, AttemptTypeOK
  <2>2. Decision(n) \in ApprovalStatus \ {"pending"}
    BY DEF Decision, ApprovalStatus
  <2>3. ReplacedIn(approvals[n], approvals'[n], Decision(n)) /\ commands' = commands
    BY <2>1, <2>2, ApprovalChanges DEF TypeOK, ApprovalDecided, ApprovalDecidedOk
  <2>4. \A i \in DOMAIN approvals[n] : i # Len(approvals[n]) =>
           approvals[n][i] \notin {"pending", "granted"}
    BY <2>1 DEF AgreeInv, JournalAgrees
  <2>5. JournalAgrees(n)'
    BY <1>2, <2>1, <2>2, <2>3, <2>4 DEF JournalAgrees, ReplacedIn
  <2>6. CallsCounted(n)'
    BY <1>1, <1>3, <2>1, <2>3 DEF CallsCounted, ReplacedIn
  <2> QED BY <1>4, <2>5, <2>6 DEF AgreeInv
<1> QED BY <1>5, <1>6, <1>7

\* The journal keeps one open command per call; none follows an unconfirmed one.
LEMMA JournalStepAgrees ==
    ASSUME TypeOK, NEW n \in Agents, AgreeInv(n), ToolInv(n), CleanState', CleanState,
           Prepare(n) \/ Settle(n) \/ RetainFails(n)
    PROVE  AgreeInv(n)'
<1>1. /\ plan' = plan /\ result' = result /\ started' = started
      /\ tool[n] \in {"granted", "executing"} /\ result[n] = NoResult
  BY DEF Prepare, Settle, RetainFails, Same, AgreeInv, ResultFits
<1>2. /\ started[n] \in Nat /\ plan.calls[n] \in Nat /\ started[n] <= plan.calls[n]
      /\ Len(approvals[n]) \in Nat /\ Len(commands[n]) \in Nat
      /\ Len(approvals[n]) <= started[n] /\ Len(commands[n]) <= started[n]
      /\ tool[n] = "granted" => Len(commands[n]) < started[n]
  BY CallsFit DEF AgreeInv, CallsCounted
<1>3. ResultFits(n)'
  BY <1>1 DEF ResultFits
<1>4. CASE Prepare(n)
  <2>1. /\ tool[n] = "granted" /\ n \in plan.gated /\ stopped' = stopped
        /\ \/ tool'[n] = "executing" /\ CommandPreparedOk(n) /\ CommandPrepared(n)
           \/ tool'[n] = "idle" /\ ApprovalGrantOk(n) /\ ApprovalExpired(n)
    BY <1>4 DEF Prepare, Published, Throws, Poisoned, Refused, Fails, CleanState, Goto, ToolInv,
       TypeOK, AttemptTypeOK
  <2>2. /\ \A i \in DOMAIN approvals[n] : i # Len(approvals[n]) =>
              approvals[n][i] \notin {"pending", "granted"}
        /\ \A i \in DOMAIN commands[n] : commands[n][i] \notin {"open", "unconfirmed"}
    BY <2>1 DEF AgreeInv, JournalAgrees
  <2>3. CASE tool'[n] = "executing" /\ CommandPreparedOk(n) /\ CommandPrepared(n)
    <3>1. /\ AppendedTo(commands[n], commands'[n], "open")
          /\ ReplacedIn(approvals[n], approvals'[n], "consumed")
      BY <2>1, <2>3, PreparedChanges DEF TypeOK
    <3>a. \A i \in DOMAIN approvals'[n] : approvals'[n][i] \notin {"pending", "granted"}
      BY <2>2, <3>1 DEF ReplacedIn
    <3>b. \A i \in DOMAIN commands'[n] :
             /\ commands'[n][i] # "unconfirmed"
             /\ commands'[n][i] = "open" => i = Len(commands'[n])
      BY <2>2, <3>1 DEF AppendedTo
    <3>2. JournalAgrees(n)'
      BY <2>3, <3>a, <3>b DEF JournalAgrees
    <3>3. CallsCounted(n)'
      BY <1>1, <1>2, <2>1, <2>3, <3>1 DEF CallsCounted, AppendedTo, ReplacedIn
    <3> QED BY <1>3, <3>2, <3>3 DEF AgreeInv
  <2>4. CASE tool'[n] = "idle" /\ ApprovalGrantOk(n) /\ ApprovalExpired(n)
    <3>1. ReplacedIn(approvals[n], approvals'[n], "expired") /\ commands' = commands
      BY <2>4, ApprovalChanges DEF TypeOK, ApprovalGrantOk, ApprovalExpired, ApprovalStatus
    <3>2. JournalAgrees(n)'
      BY <2>2, <2>4, <3>1 DEF JournalAgrees, ReplacedIn
    <3>3. CallsCounted(n)'
      BY <1>1, <1>2, <2>4, <3>1 DEF CallsCounted, ReplacedIn
    <3> QED BY <1>3, <3>2, <3>3 DEF AgreeInv
  <2> QED BY <2>1, <2>3, <2>4
<1>5. CASE Settle(n)
  <2>1. PICK s \in Settlements :
           /\ tool'[n] = "idle" /\ tool[n] = "executing"
           /\ CommandSettledOk(n) /\ CommandSettled(n, s)
           /\ stopped'[n] = (\/ stopped[n] \/ s = "unconfirmed"
                             \/ plan.artifacts > 0 /\ artifacts' >= plan.artifacts)
    BY <1>5 DEF Settle, Published, Throws, Poisoned, Refused, Fails, CleanState, Goto, Settlements,
       TypeOK, AttemptTypeOK
  <2>2. ReplacedIn(commands[n], commands'[n], s) /\ approvals' = approvals
    BY <2>1, SettledChanges DEF TypeOK, CommandSettled
  <2>3. /\ \A i \in DOMAIN approvals[n] : approvals[n][i] \notin {"pending", "granted"}
        /\ \A i \in DOMAIN commands[n] :
              /\ i # Len(commands[n]) => commands[n][i] # "open"
              /\ commands[n][i] = "unconfirmed" => stopped[n]
    BY <2>1 DEF AgreeInv, JournalAgrees
  <2>4. s # "open"
    BY DEF Settlements
  <2>5. JournalAgrees(n)'
    BY <2>1, <2>2, <2>3, <2>4 DEF JournalAgrees, ReplacedIn
  <2>6. CallsCounted(n)'
    BY <1>1, <1>2, <2>1, <2>2 DEF CallsCounted, ReplacedIn
  <2> QED BY <1>3, <2>5, <2>6 DEF AgreeInv
<1>6. CASE RetainFails(n)
  BY <1>6 DEF RetainFails, CleanState
<1> QED BY <1>4, <1>5, <1>6

\* What an executor returns fits what its commands came to.
LEMMA ExecutorAgrees ==
    ASSUME TypeOK, NEW n \in Agents, AgreeInv(n), CleanState',
           Edit(n) \/ Deadline(n) \/ Finish(n) \/ CutOff(n)
    PROVE  AgreeInv(n)'
<1>1. UNCHANGED <<plan, ledgerVars, tool, started>>
  BY DEF Edit, Deadline, Finish, CutOff, Returns, Rest
<1>2. CASE Edit(n) \/ Deadline(n)
  BY <1>1, <1>2, AgreeFrame DEF Edit, Deadline, ledgerVars, TypeOK, AttemptTypeOK
<1>3. CASE Finish(n) \/ CutOff(n)
  <2>1. tool[n] = "idle"
    BY <1>3 DEF Finish, CutOff, CleanState
  <2>2. PICK s \in {"succeeded", "failed"} :
           /\ result'[n] = Outcome(s, SideEffect(n)) /\ stopped' = stopped
           /\ s = "succeeded" => ~stopped[n]
    BY <1>3, <2>1 DEF Finish, CutOff, Returns, Aborted, TypeOK, AttemptTypeOK
  <2>3. \A i \in DOMAIN commands[n] : commands[n][i] = "unconfirmed" => stopped[n]
    BY DEF AgreeInv, JournalAgrees
  <2>4. Fits(result'[n], commands[n])
    <3>1. s = "succeeded" => ~Contains(commands[n], {"unconfirmed"})
      BY <2>2, <2>3 DEF Contains
    <3>2. /\ Contains(commands[n], {"uncertain", "unconfirmed"}) => SideEffect(n) = "uncertain"
          /\ Contains(commands[n], {"committed"}) => SideEffect(n) # "none"
      BY DEF SideEffect
    <3> QED BY <2>2, <3>1, <3>2 DEF Fits, Outcome
  <2>5. ResultFits(n)'
    BY <1>1, <2>1, <2>4 DEF ResultFits, ledgerVars, Fits, Contains
  <2>6. JournalAgrees(n)' /\ CallsCounted(n)'
    BY <1>1, <2>2 DEF AgreeInv, JournalAgrees, CallsCounted, ledgerVars
  <2> QED BY <2>5, <2>6 DEF AgreeInv
<1> QED BY <1>2, <1>3

\* Every step keeps the agreement, as long as the state is clean.
LEMMA StepClean ==
    ASSUME CommandInv, CleanInv, [Next]_vars
    PROVE  CleanInv'
<1> SUFFICES ASSUME CleanState', NEW k \in Agents PROVE AgreeInv(k)'
  BY DEF CleanInv
<1>1. TypeOK /\ ToolInv(k)
  BY DEF CommandInv, AgentInv
<1>2. CleanState /\ AgreeInv(k)
  BY <1>1, CleanBefore DEF CleanInv
<1>3. ASSUME UNCHANGED <<plan, approvals, commands, attemptVars>> PROVE AgreeInv(k)'
  BY <1>2, <1>3, AgreeFrame DEF attemptVars
<1>4. CASE SettleNext \/ Conclude
  <2>1. UNCHANGED <<plan, attemptVars>>
    BY <1>4 DEF SettleNext, Conclude, Frame
  <2>2. UNCHANGED <<approvals, commands>>
    BY <1>4 DEF SettleNext, Conclude, Published, Throws, Poisoned, Refused, Fails, Concluded,
       OutcomeRecorded, ledgerVars
  <2> QED BY <1>3, <2>1, <2>2
<1>5. CASE Abort \/ UNCHANGED vars
  BY <1>3, <1>5 DEF Abort, vars, ledgerVars
<1>6. ASSUME NEW r \in Requests, OperatorReads(r) \/ SubmitDecision(r) PROVE AgreeInv(k)'
  BY <1>3, <1>6 DEF OperatorReads, SubmitDecision, OperatorVars, ledgerVars
<1>7. ASSUME NEW n \in Agents \ {k}, AgentStep(n) PROVE AgreeInv(k)'
  BY <1>1, <1>2, <1>7, OthersKept, AgreeFrame DEF AgentSame
<1>8. CASE AgentStep(k)
  BY <1>1, <1>2, <1>8, BeginAgrees, GateAgrees, JournalStepAgrees, ExecutorAgrees
     DEF AgentStep, ToolStep
<1> QED BY <1>4, <1>5, <1>6, <1>7, <1>8 DEF Next, AgentStep

\* What a refusal may be blamed on is never taken back.
Growth ==
    /\ plan' = plan /\ (faults > 0 => faults' > 0) /\ late \subseteq late' /\ (aborted => aborted')
    /\ \A n \in Agents : (unsure[n] => unsure'[n]) /\ (edited[n] => edited'[n])

\* Every step lets them grow, and a poisoned queue changes the ledger no more.
LEMMA StepGrowth ==
    ASSUME TypeOK, [Next]_vars
    PROVE  /\ Growth
           /\ poison # "none" => UNCHANGED <<poison, ledgerVars>>
<1> USE DEF TypeOK, AttemptTypeOK
<1>1. CASE SettleNext \/ Conclude
  <2>1. UNCHANGED <<plan, aborted, attemptVars>> /\ (faults > 0 => faults' > 0)
    BY <1>1 DEF SettleNext, Conclude, Frame, Published, Throws, Poisoned, Refused, Fails
  <2>2. poison # "none" => UNCHANGED <<poison, ledgerVars>>
    BY <1>1 DEF SettleNext, Conclude, Published, Throws, Poisoned, Refused, Fails
  <2> QED BY <2>1, <2>2 DEF Growth, attemptVars
<1>2. CASE Abort \/ UNCHANGED vars
  BY <1>2 DEF Abort, vars, attemptVars, Growth
<1>3. ASSUME NEW r \in Requests, OperatorReads(r) \/ SubmitDecision(r)
      PROVE  Growth /\ UNCHANGED <<poison, ledgerVars>>
  BY <1>3 DEF OperatorReads, SubmitDecision, OperatorVars, attemptVars, Growth
<1>4. ASSUME NEW n \in Agents, Authorize(n) \/ PrepareUngated(n)
      PROVE  Growth /\ (poison # "none" => UNCHANGED <<poison, ledgerVars>>)
  <2>1. UNCHANGED <<plan, aborted, unsure, edited, late>>
    BY <1>4 DEF Authorize, PrepareUngated, CanBegin
  <2>2. (faults > 0 => faults' > 0) /\ (poison # "none" => UNCHANGED <<poison, ledgerVars>>)
    BY <1>4 DEF Authorize, PrepareUngated, Published, Throws, Poisoned, Refused, Fails
  <2> QED BY <2>1, <2>2 DEF Growth
<1>5. ASSUME NEW n \in Agents, ToolStep(n) \/ RetainFails(n)
      PROVE  Growth /\ (poison # "none" => UNCHANGED <<poison, ledgerVars>>)
  <2>1. UNCHANGED <<plan, aborted, edited, late>>
    BY <1>5 DEF ToolStep, TurnAborted, Request, EndWait, Prepare, Settle, RetainFails, Same
  <2>2. unsure' = unsure \/ unsure' = [unsure EXCEPT ![n] = TRUE]
    BY <1>5 DEF ToolStep, TurnAborted, Request, EndWait, Prepare, Settle, RetainFails
  <2>3. (faults > 0 => faults' > 0) /\ (poison # "none" => UNCHANGED <<poison, ledgerVars>>)
    <3>1. CASE TurnAborted(n) \/ RetainFails(n)
      BY <3>1 DEF TurnAborted, RetainFails
    <3>2. CASE Request(n)
      BY <3>2 DEF Request, Published, Throws, Poisoned, Refused, Fails
    <3>3. CASE EndWait(n)
      BY <3>3 DEF EndWait, Published, Throws, Poisoned, Refused, Fails
    <3>4. CASE Prepare(n)
      BY <3>4 DEF Prepare, Published, Throws, Poisoned, Refused, Fails
    <3>5. CASE Settle(n)
      BY <3>5 DEF Settle, Published, Throws, Poisoned, Refused, Fails
    <3> QED BY <1>5, <3>1, <3>2, <3>3, <3>4, <3>5 DEF ToolStep
  <2> QED BY <2>1, <2>2, <2>3 DEF Growth
<1>6. ASSUME NEW n \in Agents, Edit(n) \/ Deadline(n) \/ Finish(n) \/ CutOff(n)
      PROVE  Growth /\ UNCHANGED <<poison, ledgerVars>>
  <2>1. UNCHANGED <<plan, aborted, unsure, poison, ledgerVars, faults>>
    BY <1>6 DEF Edit, Deadline, Finish, CutOff, Returns, Rest
  <2>2. /\ edited' = edited \/ edited' = [edited EXCEPT ![n] = TRUE]
        /\ late \subseteq late'
    BY <1>6 DEF Edit, Deadline, Finish, CutOff, Returns, Rest
  <2> QED BY <2>1, <2>2 DEF Growth
<1> QED BY <1>1, <1>2, <1>3, <1>4, <1>5, <1>6 DEF Next

\* In a clean state the reducer accepts what a tool publishes.
LEMMA ToolsAccepted ==
    ASSUME CommandInv, CleanState, CleanInv, NEW n \in Agents, call = "up"
    PROVE  /\ (n \notin plan.gated /\ tool[n] = "idle" /\ ~stopped[n] /\ result[n] = NoResult
                 /\ started[n] < plan.calls[n]) => CommandPreparedOk(n)
           /\ tool[n] = "granted" => CommandPreparedOk(n)
           /\ tool[n] = "executing" => CommandSettledOk(n)
           /\ tool[n] = "waiting" => ApprovalDecidedOk(n)
           /\ MyTurn(n) /\ ~Exhausted => ApprovalRequestedOk(n)
<1>1. TypeOK /\ LedgerTypeOK /\ ApprovalsBounded /\ ToolInv(n) /\ OutcomeInv(n)
  BY DEF CommandInv, AgentInv, LedgerInv, TypeOK
<1>2. AgreeInv(n)
  BY DEF CleanInv
<1>3. /\ started[n] \in Nat /\ plan.calls[n] \in Nat /\ plan.calls[n] <= MaxCommands
      /\ MaxCommands \in Nat
      /\ Len(approvals[n]) \in Nat /\ Len(commands[n]) \in Nat
      /\ started[n] <= plan.calls[n] /\ Len(commands[n]) <= started[n]
      /\ tool[n] = "queued" => Len(approvals[n]) < started[n]
      /\ tool[n] = "granted" => Len(commands[n]) < started[n]
  BY <1>1, <1>2, CallsFit, AgentCommandAssumption DEF AgreeInv, CallsCounted
<1>4. tool[n] # "idle" => result[n] = NoResult
  BY <1>2 DEF AgreeInv, ResultFits
<1>5. result[n] = NoResult => node[n] = "running"
  BY <1>1 DEF OutcomeInv
<1>6. ASSUME n \notin plan.gated, tool[n] = "idle", ~stopped[n], result[n] = NoResult,
             started[n] < plan.calls[n]
      PROVE  CommandPreparedOk(n)
  <2>1. ~Contains(commands[n], {"open", "unconfirmed"})
    BY <1>2, <1>6 DEF AgreeInv, JournalAgrees, Contains
  <2>2. Len(commands[n]) < MaxCommands
    BY <1>3, <1>6
  <2> QED BY <1>5, <1>6, <2>1, <2>2 DEF CommandPreparedOk
<1>7. ASSUME tool[n] = "granted" PROVE CommandPreparedOk(n)
  <2>1. ~Contains(commands[n], {"open", "unconfirmed"})
    BY <1>2, <1>7 DEF AgreeInv, JournalAgrees, Contains
  <2>2. Len(commands[n]) < MaxCommands
    BY <1>3, <1>7
  <2> QED BY <1>1, <1>4, <1>5, <1>7, <2>1, <2>2 DEF CommandPreparedOk, ToolInv
<1>8. ASSUME tool[n] = "executing" PROVE CommandSettledOk(n)
  BY <1>1, <1>4, <1>5, <1>8 DEF CommandSettledOk, ToolInv
<1>9. ASSUME tool[n] = "waiting" PROVE ApprovalDecidedOk(n)
  <2>1. LastApproval(n) = "pending"
    BY <1>1, <1>9 DEF ToolInv
  <2>2. /\ Len(approvals[n]) \in DOMAIN approvals[n]
        /\ approvals[n][Len(approvals[n])] = "pending"
    <3>1. approvals[n] # <<>> /\ approvals[n][Len(approvals[n])] = "pending"
          /\ approvals[n] \in Seq(ApprovalStatus)
      BY <1>1, <2>1 DEF LastApproval, LedgerTypeOK
    <3>2. Len(approvals[n]) \in Nat \ {0} /\ DOMAIN approvals[n] = 1 .. Len(approvals[n])
      BY <3>1, EmptySeq, LenProperties
    <3> QED BY <3>1, <3>2
  <2>3. <<n, Len(approvals[n])>> \in Pending
    BY <1>1, <2>2, PendingPositions
  <2>4. run = "waiting"
    BY <2>3 DEF CommandInv, LedgerInv, WaitInv
  <2> QED BY <1>4, <1>5, <1>9, <2>1, <2>4 DEF ApprovalDecidedOk
<1>10. ASSUME MyTurn(n), ~Exhausted PROVE ApprovalRequestedOk(n)
  <2>1. tool[n] = "queued" /\ Head(tail) = n
    BY <1>10 DEF MyTurn
  <2>2. ASSUME NEW r \in Pending PROVE FALSE
    <3>1. r[1] \in Agents /\ r[2] \in DOMAIN approvals[r[1]] /\ approvals[r[1]][r[2]] = "pending"
      BY <2>2 DEF Pending, Requests
    <3>2. tool[r[1]] = "waiting"
      BY <3>1 DEF CleanInv, AgreeInv, JournalAgrees
    <3>3. Head(tail) = r[1]
      BY <3>1, <3>2 DEF CommandInv, TailInv
    <3> QED BY <2>1, <3>2, <3>3
  <2>3. run = "running"
    BY <2>2 DEF CommandInv, CallInv, LedgerInv, WaitInv
  <2>4. Len(approvals[n]) < MaxCommands
    BY <1>3, <2>1
  <2> QED BY <1>4, <1>5, <1>10, <2>1, <2>2, <2>3, <2>4 DEF ApprovalRequestedOk
<1> QED BY <1>6, <1>7, <1>8, <1>9, <1>10

\* An outcome is accepted unless an abort has replaced the success of an editing
\* agent that ran commands with side effects.
LEMMA OutcomeAccepted ==
    ASSUME CommandInv, CleanState, CleanInv, NEW n \in Agents, node[n] = "running",
           \A m \in 1 .. n - 1 : node[m] # "running", result[n] # NoResult,
           ~OutcomeOk(n, Authoritative(n))
    PROVE  aborted /\ n \in plan.editing /\ SideEffect(n) # "none"
<1>1. AgreeInv(n)
  BY DEF CleanInv
<1>2. tool[n] = "idle" /\ Fits(result[n], commands[n])
  BY <1>1 DEF AgreeInv, ResultFits
<1>3. ~Contains(approvals[n], {"pending", "granted"}) /\ ~Contains(commands[n], {"open"})
  BY <1>1, <1>2 DEF AgreeInv, JournalAgrees, Contains
<1>4. ~Fits(Authoritative(n), commands[n])
  BY <1>3 DEF OutcomeOk, Fits
<1>5. aborted /\ result[n].status = "succeeded"
  BY <1>2, <1>4 DEF Authoritative
<1>6. Authoritative(n) = Outcome("failed", IF n \notin plan.editing THEN "uncertain"
                                            ELSE IF edited[n] THEN "committed" ELSE "none")
  BY <1>5 DEF Authoritative
<1>7. Contains(commands[n], {"uncertain", "unconfirmed"}) \/ Contains(commands[n], {"committed"})
  BY <1>4, <1>6 DEF Fits, Outcome
<1>8. n \in plan.editing
  BY <1>4, <1>6 DEF Fits, Outcome
<1> QED BY <1>5, <1>7, <1>8 DEF SideEffect

\* A step that poisons the queue has its reason.
LEMMA PoisonedForAReason ==
    ASSUME CommandInv, CleanInv, Next, poison = "none"
    PROVE  /\ poison' = "refused" =>
                 \/ faults > 0 \/ late # {}
                 \/ /\ aborted /\ UNCHANGED ledgerVars
                    /\ \E n \in plan.editing : node[n] = "running" /\ SideEffect(n) # "none"
           /\ poison' = "budget" => Exhausted /\ UNCHANGED ledgerVars
<1>1. TypeOK /\ faults \in Nat
  BY DEF CommandInv, TypeOK
<1>2. CASE Abort \/ \E r \in Requests : OperatorReads(r) \/ SubmitDecision(r)
  BY <1>2 DEF Abort, OperatorReads, SubmitDecision, OperatorVars
<1>3. CASE Conclude
  BY <1>3 DEF Conclude, Published, Throws, Poisoned, Refused, Fails
<1>4. CASE SettleNext
  <2>1. PICK n \in Agents :
           /\ node[n] = "running" /\ \A m \in 1 .. n - 1 : node[m] # "running"
           /\ LET o == Authoritative(n) IN
              \/ Published(OutcomeOk(n, o), OutcomeRecorded(n, o)) /\ UNCHANGED call
              \/ Throws(OutcomeOk(n, o), "refused", OutcomeRecorded(n, o)) /\ call' = "ended"
    BY <1>4 DEF SettleNext
  <2>2. result[n] # NoResult
    BY <1>4 DEF SettleNext, AllReturned
  <2>3. /\ poison' # "budget"
        /\ poison' = "refused" => ~OutcomeOk(n, Authoritative(n)) /\ UNCHANGED ledgerVars
    BY <2>1 DEF Published, Throws, Poisoned, Refused, Fails
  <2>4. poison' = "refused" /\ CleanState =>
           aborted /\ n \in plan.editing /\ SideEffect(n) # "none"
    BY <2>1, <2>2, <2>3, OutcomeAccepted
  <2> QED BY <1>1, <2>1, <2>3, <2>4 DEF CleanState
<1>5. ASSUME NEW n \in Agents, AgentStep(n)
      PROVE  /\ poison' = "refused" => ~CleanState
             /\ poison' = "budget" => Exhausted /\ UNCHANGED ledgerVars
  <2>1. CASE \/ Authorize(n) \/ TurnAborted(n) \/ RetainFails(n) \/ Edit(n) \/ Deadline(n)
             \/ Finish(n) \/ CutOff(n)
    BY <2>1 DEF Authorize, TurnAborted, RetainFails, Edit, Deadline, Finish, CutOff, Returns, Rest
  <2>2. CASE PrepareUngated(n)
    <3>1. /\ n \notin plan.gated /\ tool[n] = "idle" /\ ~stopped[n] /\ result[n] = NoResult
          /\ started[n] < plan.calls[n] /\ call = "up"
      BY <2>2 DEF PrepareUngated, CanBegin, Aborted
    <3>2. CleanState => CommandPreparedOk(n)
      BY <3>1, ToolsAccepted
    <3> QED BY <2>2, <3>2 DEF PrepareUngated, Published, Throws, Poisoned, Refused, Fails
  <2>3. CASE Request(n)
    <3>1. CleanState /\ ~Exhausted => ApprovalRequestedOk(n)
      BY <2>3, ToolsAccepted DEF Request, MyTurn
    <3> QED BY <2>3, <3>1 DEF Request, Published, Throws, Poisoned, Refused, Fails
  <2>4. CASE EndWait(n)
    <3>1. CleanState => ApprovalDecidedOk(n)
      BY <2>4, ToolsAccepted DEF EndWait
    <3> QED BY <2>4, <3>1 DEF EndWait, Published, Throws, Poisoned, Refused, Fails
  <2>5. CASE Prepare(n)
    <3>1. CleanState => CommandPreparedOk(n)
      BY <2>5, ToolsAccepted DEF Prepare
    <3> QED BY <2>5, <3>1 DEF Prepare, Published, Throws, Poisoned, Refused, Fails
  <2>6. CASE Settle(n)
    <3>1. CleanState => CommandSettledOk(n)
      BY <2>6, ToolsAccepted DEF Settle
    <3> QED BY <2>6, <3>1 DEF Settle, Published, Throws, Poisoned, Refused, Fails
  <2> QED BY <1>5, <2>1, <2>2, <2>3, <2>4, <2>5, <2>6 DEF AgentStep, ToolStep
<1>6. ASSUME NEW n \in Agents, AgentStep(n)
      PROVE  /\ poison' = "refused" => faults > 0 \/ late # {}
             /\ poison' = "budget" => Exhausted /\ UNCHANGED ledgerVars
  BY <1>1, <1>5, <1>6 DEF CleanState
<1> QED BY <1>2, <1>3, <1>4, <1>6 DEF Next, AgentStep

\* A reason stays one: the ledger of a poisoned call is frozen and the rest grows.
LEMMA ReasonStays ==
    ASSUME TypeOK, Growth, UNCHANGED ledgerVars
    PROVE  /\ faults > 0 => faults' > 0
           /\ late # {} => late' # {}
           /\ aborted => aborted'
           /\ Exhausted => Exhausted'
           /\ \A n \in plan.editing : node[n] = "running" /\ SideEffect(n) # "none" =>
                 n \in plan'.editing /\ node'[n] = "running" /\ SideEffect(n)' # "none"
<1>1. faults > 0 => faults' > 0
  BY DEF Growth, TypeOK
<1>2. Exhausted => Exhausted'
  BY DEF Growth, Exhausted, ledgerVars
<1>3. plan.editing \subseteq Agents
  BY DEF TypeOK, PlanType
<1>4. ASSUME NEW n \in plan.editing, node[n] = "running", SideEffect(n) # "none"
      PROVE  n \in plan'.editing /\ node'[n] = "running" /\ SideEffect(n)' # "none"
  BY <1>3, <1>4 DEF Growth, ledgerVars, SideEffect, Contains
<1> QED BY <1>1, <1>2, <1>4 DEF Growth

\* The reducer refuses what the owner publishes for known reasons only, in every wave.
THEOREM RefusalsHaveReasons == Spec => []RefusedForAReason
<1>1. Init => CleanInv /\ RefusedForAReason
  <2> SUFFICES ASSUME Init PROVE CleanInv /\ RefusedForAReason
    OBVIOUS
  <2>1. RefusedForAReason
    BY DEF Init, RefusedForAReason
  <2>2. ASSUME NEW n \in Agents PROVE AgreeInv(n)
    <3>1. /\ approvals[n] = <<>> /\ commands[n] = <<>> /\ Len(<<>>) = 0 /\ DOMAIN <<>> = {}
          /\ tool[n] = "idle" /\ started[n] = 0 /\ result[n] = NoResult
      BY EmptySeq DEF Init
    <3>2. plan.calls[n] \in Nat
      BY AgentCommandAssumption DEF Init, PlanType
    <3> QED BY <3>1, <3>2 DEF AgreeInv, JournalAgrees, CallsCounted, ResultFits
  <2> QED BY <2>1, <2>2 DEF CleanInv
<1>2. CommandInv /\ CleanInv /\ [Next]_vars => CleanInv'
  BY StepClean
<1>3. CommandInv /\ CleanInv /\ RefusedForAReason /\ [Next]_vars => RefusedForAReason'
  <2> SUFFICES ASSUME CommandInv, CleanInv, RefusedForAReason, [Next]_vars
               PROVE  RefusedForAReason'
    OBVIOUS
  <2>1. TypeOK /\ Growth /\ (poison # "none" => UNCHANGED <<poison, ledgerVars>>)
    BY StepGrowth DEF CommandInv
  <2>2. ASSUME UNCHANGED <<poison, ledgerVars>> PROVE RefusedForAReason'
    BY <2>1, <2>2, ReasonStays DEF RefusedForAReason
  <2>3. CASE UNCHANGED vars
    BY <2>2, <2>3 DEF vars
  <2>4. CASE Next /\ poison = "none"
    <3>1. /\ faults > 0 => faults' > 0
          /\ late # {} => late' # {}
      BY <2>1 DEF Growth, TypeOK
    <3> QED BY <2>1, <2>4, <3>1, PoisonedForAReason, ReasonStays DEF RefusedForAReason
  <2> QED BY <2>1, <2>2, <2>3, <2>4
<1> QED BY <1>1, <1>2, <1>3, CommandInvariant, PTL DEF Spec
=============================================================================
