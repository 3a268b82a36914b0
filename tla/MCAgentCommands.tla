-------------------------- MODULE MCAgentCommands ---------------------------
(* Waves of two agents for TLC; the first of them edits files.              *)
EXTENDS AgentCommands

Plan(gated, calls, starts, artifactLimit, failures) ==
    [gated |-> gated, editing |-> {1}, starts |-> starts, artifacts |-> artifactLimit,
     calls |-> calls, failures |-> failures]

\* One agent asks again while the other's request is in the way.
Approvals == Plan({1, 2}, <<2, 1>>, FALSE, 0, 0)
\* The store fails once, anywhere.
Unreliable == Plan({1, 2}, <<1, 1>>, FALSE, 0, 1)
\* The wave's own starts have exhausted the budget.
LastStart == Plan({1, 2}, <<1, 1>>, TRUE, 0, 0)
\* The output of one agent's command exhausts it while another decides; the first
\* agent needs no approval.
OneOutput == Plan({2}, <<1, 1>>, FALSE, 1, 1)

MCPlans == {Approvals, Unreliable, LastStart, OneOutput}
CancelPlans == {Plan({2}, <<1, 1>>, FALSE, 0, 0)}
=============================================================================
