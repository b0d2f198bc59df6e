-------------------------- MODULE MCWorkerOwnership --------------------------
(* Instances of WorkerOwnership for TLC. *)
EXTENDS WorkerOwnership, TLC

Symm == Permutations(Pids)
=============================================================================
