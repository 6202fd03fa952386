--------------------------- MODULE MCRegistration ---------------------------
(* Registration on a small instance. *)
EXTENDS Registration, TLC

Symmetry == Permutations(Request) \cup Permutations(Email) \cup Permutations(Username)
=============================================================================
