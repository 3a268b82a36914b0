--------------------------- MODULE MCRunWorkflow ----------------------------
(* The scheduler with the workflows of MCGraphs, for TLC.                  *)
EXTENDS RunWorkflow, MCGraphs

\* The workflows of the passing runs nest their branches; Crossed does not.
ASSUME InstancesNest ==
    /\ Nodes = PairNodes => BranchesNest([n \in PairNodes |-> {}])
    /\ Nodes = GraphNodes => BranchesNest(GraphScope)
=============================================================================
