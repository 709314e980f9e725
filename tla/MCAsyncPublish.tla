--------------------------- MODULE MCAsyncPublish ---------------------------
(* Instances of asynchronous publishing for TLC. *)
EXTENDS AsyncPublish, TLC

Symmetry == Permutations(Workers) \cup Permutations(Threads) \cup Permutations(Jobs)
                \cup Permutations(Lineages)
=============================================================================
