---------------------------- MODULE MCPlanRunner ----------------------------
(* Small plans for TLC: a step that writes an artifact, a gate on it, a step after. *)
EXTENDS PlanRunner

CONSTANTS p1, p2

\* 1 <- 2 (gate) <- 3: the plan the repository's own tests and templates have.
DepsChain == [i \in 1 .. 3 |-> IF i = 1 THEN {} ELSE {i - 1}]

\* Two independent steps and one that needs both.
DepsJoin == [i \in 1 .. 3 |-> IF i = 3 THEN {1, 2} ELSE {}]

=============================================================================
