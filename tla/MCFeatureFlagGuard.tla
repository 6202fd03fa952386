------------------------- MODULE MCFeatureFlagGuard -------------------------
(* FeatureFlagGuard on a small instance: one flag, a flagged and an open   *)
(* route, and values of each kind that isEnabled() tells apart.            *)
EXTENDS FeatureFlagGuard

CONSTANTS feed, health, flag

MCRoute == {feed, health}
MCFlagOf == [h \in MCRoute |-> IF h = feed THEN flag ELSE None]
MCValue == {[type |-> "boolean", text |-> "false"],
            [type |-> "string", text |-> "true"],
            [type |-> "string", text |-> "false"],
            [type |-> "number", text |-> "0"]}
=============================================================================
