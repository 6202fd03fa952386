-------------------------- MODULE MCGuardedService --------------------------
(* GuardedService on a small instance: one flag that is off or has no row, *)
(* a flagged and an open route, two processes of which one may restart.    *)
(* Nobody calls invalidate(), as in src/ today.                            *)
EXTENDS GuardedService

CONSTANTS feed, health, flag

MCRoute == {feed, health}
MCFlagOf == [h \in MCRoute |-> IF h = feed THEN flag ELSE None]
MCValue == {[type |-> "boolean", text |-> "false"]}
=============================================================================
