---------------------------- MODULE MCQueueMonitor ----------------------------
(* QueueMonitor on a small instance. *)
EXTENDS QueueMonitor
=============================================================================
