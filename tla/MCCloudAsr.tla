----------------------------- MODULE MCCloudAsr -----------------------------
(* Instances of CloudAsr for TLC. *)
EXTENDS CloudAsr, TLC

Symmetry == Permutations(Workers)
=============================================================================
