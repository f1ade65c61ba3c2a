----------------------------- MODULE RunContract -----------------------------
(***************************************************************************)
(* What a run promises to somebody who only looks at its status.json and at  *)
(* the gate decisions of its log: the CLI's status, the office page, the MCP *)
(* server.  PlanRunner implements it when one engine process has the         *)
(* directory at a time and nobody aborts the run (ImplementsContract).       *)
(***************************************************************************)
EXTENDS Naturals

CONSTANTS N, Gates

VARIABLES
    run,        \* the run in the directory, 0 if status.json is absent or unreadable
    state,      \* its state
    done,       \* how many steps of topo_order it has completed
    approved    \* <<run, gate>> pairs that a decision approved

vars == <<run, state, done, approved>>

Open == {"running", "waiting_external", "paused_human_gate", "paused_budget"}
Closed == {"done", "failed", "rejected", "aborted_budget"}

Init ==
    /\ run = 0
    /\ state = "absent"
    /\ done = 0
    /\ approved = {}

\* Waiting for the decision on the gate that comes next.
AtGate == state = "paused_human_gate" /\ done + 1 \in Gates

\* A new run in an empty directory, or in the place of one that is still open.
Begin ==
    /\ state \in Open \union {"absent"}
    /\ run' \in Nat /\ run' > run
    /\ state' = "running"
    /\ done' = 0
    /\ UNCHANGED approved

Approve ==
    /\ AtGate
    /\ approved' = approved \union {<<run, done + 1>>}
    /\ UNCHANGED <<run, state, done>>

\* One step at a time, in order; a gate only when it was approved in this run.
Advance ==
    /\ state \in Open
    /\ done < N
    /\ done + 1 \in Gates => AtGate /\ <<run, done + 1>> \in approved
    /\ state' = "running"
    /\ done' = done + 1
    /\ UNCHANGED <<run, approved>>

\* Waiting and going on, except past a gate.
Move ==
    /\ state \in Open /\ ~AtGate
    /\ state' \in Open
    /\ UNCHANGED <<run, done, approved>>

\* The end, of which there is no way back; a gate that waits can only be rejected.
Close ==
    /\ state \in Open
    /\ state' \in Closed
    /\ state' = "rejected" <=> AtGate
    /\ state' = "done" => done = N
    /\ UNCHANGED <<run, done, approved>>

\* A kill while status.json is being written.
Lose ==
    /\ state \in Open
    /\ run' = 0
    /\ state' = "absent"
    /\ done' = 0
    /\ UNCHANGED approved

Next == Begin \/ Approve \/ Advance \/ Move \/ Close \/ Lose

Spec == Init /\ [][Next]_vars

=============================================================================
