----------------------------- MODULE MCLibrary -----------------------------
(* Instances of Library for TLC. *)
EXTENDS Library, TLC

CONSTANTS t1, t2, i1, i2

(* One item per task. *)
MCTaskOf == i1 :> t1 @@ i2 :> t2
(* The searchers are alike, and so are the two tasks with their items. *)
Swap == t1 :> t2 @@ t2 :> t1 @@ i1 :> i2 @@ i2 :> i1
Same == t1 :> t1 @@ t2 :> t2 @@ i1 :> i1 @@ i2 :> i2
Alike == {f @@ g : f \in Permutations(Searchers), g \in {Swap, Same}}
=============================================================================
