--------------------------- MODULE MCInvalidation ---------------------------
(* InvalidationHistory on small instances. *)
EXTENDS InvalidationHistory, TLC

CallSymmetry == Permutations(Call)
=============================================================================
