---------------------------- MODULE MCWorkerPool ----------------------------
(* Instances of the worker pool for TLC. *)
EXTENDS WorkerPool, TLC

Symmetry == Permutations(Workers) \cup Permutations(Threads) \cup Permutations(Jobs)
=============================================================================
