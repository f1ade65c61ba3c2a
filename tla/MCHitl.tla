------------------------------- MODULE MCHitl -------------------------------
(* A run that waits for a tool and then for two gates of its plan. *)
EXTENDS Hitl

CONSTANTS p1

ToolThenGates == <<"tool", "gate", "gate">>

=============================================================================
