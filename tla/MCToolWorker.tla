----------------------------- MODULE MCToolWorker -----------------------------
(* Two workers on one step (an engine's and a stand-alone one), or on the two steps of a wave. *)
EXTENDS ToolWorker

CONSTANTS w1, w2, s1, s2, a, b, f

SameStep == [w \in Workers |-> s1]
OwnStep == [w \in Workers |-> IF w = w1 THEN s1 ELSE s2]

=============================================================================
