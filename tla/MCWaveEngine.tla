----------------------------- MODULE MCWaveEngine -----------------------------
(* Small plans for TLC. *)
EXTENDS WaveEngine

\* The plan of test_approval.py's B1: a copy, then in one wave a gate on it and an image,
\* then a step that needs both.
Diamond == [deps |-> [s \in 1 .. 4 |-> CASE s = 1 -> {} [] s = 4 -> {2, 3} [] OTHER -> {1}],
            gates |-> {2}]

\* The last step names both of the others, which are in different waves; the middle one
\* is a gate on the first, or an ordinary step.
Skip(gates) == [deps |-> [s \in 1 .. 3 |-> CASE s = 1 -> {} [] s = 2 -> {1} [] s = 3 -> {1, 2}],
                gates |-> gates]

PlansChecked == {Diamond, Skip({})}
PlansSkip == {Skip({2})}

=============================================================================
