---------------------------- MODULE MCQueueMode ----------------------------
(* Instances of QueueMode for TLC. *)
EXTENDS QueueMode, TLC

(* Used for safety properties only. *)
Symmetry == Permutations(Jobs) \cup Permutations(Workers)
=============================================================================
