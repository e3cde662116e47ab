-------------------------- MODULE MCDurableWorker --------------------------
(***************************************************************************)
(* Model-checking instances of the durable worker.                         *)
(***************************************************************************)
EXTENDS DurableWorker, TLC

WorkerSymmetry == Permutations(Worker)
=============================================================================
