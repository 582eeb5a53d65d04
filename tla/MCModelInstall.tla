--------------------------- MODULE MCModelInstall ---------------------------
(* Instances of ModelInstall for TLC. *)
EXTENDS ModelInstall, TLC
=============================================================================
