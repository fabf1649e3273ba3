------------------------------ MODULE MCWorker ------------------------------
(* Small instances of Worker: distinct lock keys, or one key for all jobs. *)
EXTENDS Worker, TLC

CONSTANT SharedKey

OwnKey == [j \in Jobs |-> j]
OneKey == [j \in Jobs |-> SharedKey]

Symmetry == Permutations(Workers) \cup Permutations(Jobs) \cup Permutations(Slots)
=============================================================================
