------------------------------ MODULE MCCouncil ------------------------------
(* A council for TLC: the members are numbers, only the commands need values. *)
EXTENDS Council

CONSTANTS p1

=============================================================================
