---------------------------- MODULE MCSupervisor ----------------------------
(* Small instances of Supervisor: scenarios.                               *)
EXTENDS Supervisor

MCJobs == {"j1", "j2", "j3"}
MCRuns == {"r1", "r2", "r3"}

OwnRun == [j \in MCJobs |-> IF j = "j1" THEN "r1" ELSE IF j = "j2" THEN "r2" ELSE "r3"]
SameRun == [OwnRun EXCEPT !["j2"] = "r1"]

Scenario(runs, active, queued, busy, first, submitted, cancelled, stop, kill, loss, retry) ==
    [runOf |-> runs, maxActive |-> active, maxQueued |-> queued,
     busy |-> busy, legacy |-> {}, queued |-> first, submitted |-> submitted, cancelled |-> cancelled,
     budget |-> [f \in Faults |-> IF f = "stop" THEN stop ELSE IF f = "kill" THEN kill
                                  ELSE IF f = "loss" THEN loss ELSE retry]]

\* Fresh commands with a daemon crash, a killed worker or a lost response, and
\* a repeated request.
Fresh == {Scenario(OwnRun, 1, 1, {}, {}, {"j1"}, {"r1"}, 1, 0, 0, 0),
          Scenario(OwnRun, 1, 1, {}, {}, {"j1"}, {}, 1, 1, 0, 1),
          Scenario(OwnRun, 1, 1, {}, {}, {"j1"}, {"r1"}, 0, 0, 1, 0),
          Scenario(OwnRun, 1, 1, {}, {}, {"j1"}, {}, 1, 0, 1, 1)}

\* The queue: a younger submission, a cancellation and a repeated command
\* against a queued job while the busy one ends, with a crash; and a full queue.
Queueing == {Scenario(OwnRun, 1, 1, {"j1"}, {"j2"}, {"j3"}, {}, 1, 0, 0, 0),
             Scenario(OwnRun, 1, 1, {"j1"}, {"j2"}, {}, {"r2"}, 1, 1, 0, 0),
             Scenario(OwnRun, 1, 1, {"j1"}, {"j2"}, {"j2"}, {"r2"}, 1, 0, 0, 1),
             Scenario(OwnRun, 1, 0, {"j1"}, {}, {"j2"}, {}, 1, 0, 0, 1)}

\* Two commands for one run.
Contending == {Scenario(SameRun, 1, 1, {"j1"}, {}, {"j2"}, {}, 1, 0, 0, 1)}

\* Workers of a daemon that kept no admission ledger: one that fits, and two
\* where the policy allows one.
Legacy == LET s == Scenario(OwnRun, 1, 1, {"j1"}, {}, {"j2"}, {}, 0, 0, 0, 0) IN
          {[s EXCEPT !.legacy = {"j1"}],
           [s EXCEPT !.busy = {"j1", "j3"}, !.legacy = {"j1", "j3"}, !.submitted = {}]}

\* One command, a daemon crash and a retry.
Retried == {Scenario(OwnRun, 1, 1, {}, {}, {"j1"}, {}, 1, 0, 0, 1)}

MCScenarios == Fresh \cup Queueing \cup Contending \cup Legacy
=============================================================================
