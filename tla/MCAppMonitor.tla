---------------------------- MODULE MCAppMonitor ----------------------------
(* AppMonitor, with its pipeline, on small instances. *)
EXTENDS AppMonitor, TLC

RequestSymmetry == Permutations(Request)
=============================================================================
