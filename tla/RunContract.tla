---------------------------- MODULE RunContract -----------------------------
(***************************************************************************)
(* What a run promises, whatever happens to the processes that drive it:   *)
(* each node is worked on only when everything it needs is done, finished  *)
(* work is never redone or taken back, and the run concludes once, when    *)
(* nobody works, with a conclusion that matches the work.                  *)
(***************************************************************************)
EXTENDS FiniteSets

CONSTANTS
    Nodes,   \* the units of work
    Needs    \* [Nodes -> SUBSET Nodes]: what must be done before the work starts

VARIABLES
    conclusion,  \* "none" before the run, "open" during it, then the result
    work         \* [Nodes -> progress of each unit]

contractVars == <<conclusion, work>>

Progress == {"todo", "doing", "done", "skipped", "broken"}
Results == {"succeeded", "failed", "cancelled", "resource_exhausted"}

ContractInit == conclusion = "none" /\ work = [n \in Nodes |-> "todo"]

Begin == conclusion = "none" /\ conclusion' = "open" /\ UNCHANGED work

Ready(n) == \A m \in Needs[n] : work[m] = "done"

Move(n, from, to) ==
    /\ conclusion = "open"
    /\ work[n] \in from
    /\ work' = [work EXCEPT ![n] = to]
    /\ UNCHANGED conclusion

Undertake(n) == Ready(n) /\ Move(n, {"todo"}, "doing")
Finish(n) == Ready(n) /\ Move(n, {"todo", "doing"}, "done")
Skip(n) == Move(n, {"todo"}, "skipped")
Break(n) == Move(n, {"todo", "doing"}, "broken")
Retry(n) == Move(n, {"doing", "broken"}, "todo")

\* The result says what happened to the work.
Conclude(result) ==
    /\ conclusion = "open"
    /\ \A n \in Nodes : work[n] # "doing"
    /\ result = "succeeded" => \A n \in Nodes : work[n] \in {"done", "skipped"}
    /\ result = "failed" => \E n \in Nodes : work[n] = "broken"
    /\ conclusion' = result
    /\ UNCHANGED work

ContractNext ==
    \/ Begin
    \/ \E r \in Results : Conclude(r)
    \/ \E n \in Nodes : Undertake(n) \/ Finish(n) \/ Skip(n) \/ Break(n) \/ Retry(n)

ContractSpec == ContractInit /\ [][ContractNext]_contractVars
=============================================================================
