----------------------------- MODULE MCRunStore -----------------------------
(* Instances of RunStore for TLC.                                          *)
EXTENDS RunStore, TLC

\* Processes are interchangeable in the safety runs.
Symmetry == Permutations(Procs)
=============================================================================
