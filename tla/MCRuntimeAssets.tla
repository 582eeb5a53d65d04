-------------------------- MODULE MCRuntimeAssets --------------------------
(* Instances of RuntimeAssets for TLC. *)
EXTENDS RuntimeAssets, TLC

CONSTANTS t1, t2, s1, s2, b1, b2

OneTask == [s \in Slots |-> t1]
TwoTasks == [s \in Slots |-> IF s = s1 THEN t1 ELSE t2]

Symmetry == Permutations(Threads) \cup Permutations(Bytes) \cup Permutations(Assets)
=============================================================================
