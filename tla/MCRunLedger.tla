---------------------------- MODULE MCRunLedger -----------------------------
(* The run ledger with the workflows of MCGraphs, for TLC.                 *)
EXTENDS RunLedger, MCGraphs
=============================================================================
