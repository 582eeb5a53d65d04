---------------------------- MODULE MCStageQueue ----------------------------
(* Instances of StageQueue for TLC. *)
EXTENDS StageQueue, TLC

CONSTANTS t1, t2, i1, i2

OneTask == [i \in {i1} |-> t1]
TwoItems == [i \in {i1, i2} |-> t1]
TwoTasks == (i1 :> t1) @@ (i2 :> t2)

Transcript == [t \in Tasks |-> {"source", "transcribe"}]
Notes == [t \in Tasks |-> {"source", "transcribe", "notes"}]
Audio == [t \in Tasks |-> {"source"}]

Order == [i \in Items |-> IF i = i1 THEN 1 ELSE 2]

Symmetry == Permutations(Workers)
=============================================================================
