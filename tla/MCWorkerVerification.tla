------------------------- MODULE MCWorkerVerification -------------------------
(***************************************************************************)
(* Instances of WorkerVerification for TLC.                                *)
(***************************************************************************)
EXTENDS WorkerVerification, TLC

CONSTANTS ada, bob

\* ada administers; after a restart bob may as well.
Promotion == {{ada}, {ada, bob}}

TaskSymmetry == Permutations(Task)
=============================================================================
