--------------------------- MODULE MCAuthFailures ---------------------------
(* BurstHistory, with the monitor it watches, on a small instance. *)
EXTENDS BurstHistory

MCThreshold == [kind \in Kind |-> 1]
=============================================================================
