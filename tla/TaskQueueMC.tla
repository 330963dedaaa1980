---------------------------- MODULE TaskQueueMC -----------------------------
(* Small instances of TaskQueue for TLC. *)
EXTENDS TaskQueue, TLC

Symmetry == Permutations(Tasks) \cup Permutations(Workers) \cup Permutations(Sweepers)
=============================================================================
