--------------------------- MODULE MCConfiguration ---------------------------
(* Configuration, for TLC: the request threads, the configurations and the options may be swapped. *)
EXTENDS Configuration, TLC

Symmetry == Permutations(Threads) \cup Permutations(Confs) \cup Permutations(Options)
=============================================================================
