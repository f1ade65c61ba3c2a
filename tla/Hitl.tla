-------------------------------- MODULE Hitl --------------------------------
(***************************************************************************)
(* How a decision reaches a run that waits for a person: the request and    *)
(* decision files of the HITL contract (hitl.py, hitlwright) and `resume`   *)
(* of the CLI, which picks a decision and hands it to resume_run.           *)
(*                                                                         *)
(* A run meets its waits in the order of Waits.  A "gate" is a step of the  *)
(* plan, a "tool" an act call of a model: resume_run writes the person's    *)
(* answer to a tool request into the decision file, the answer to a gate    *)
(* only into events.jsonl.  The policy of hitl.py (validate_decision_policy) *)
(* is strict for requests of source node_api alone; the runner writes all   *)
(* of its own with source plan_runner, so it refuses nothing here.          *)
(*                                                                         *)
(* The steps between two waits, the fingerprints of the approvals and what  *)
(* a worker does with an approved call are modelled in PlanRunner and       *)
(* ToolWorker.                                                              *)
(***************************************************************************)
EXTENDS Integers, Sequences, SequencesExt

CONSTANTS
    Procs,      \* `resume` commands that may run at the same time
    Waits,      \* what the run waits for, in order: "gate" or "tool"
    MaxNode     \* bound: decisions the Node side writes

VARIABLES
    requests,   \* hitl-requests.jsonl: the kind of each, its id is its place
    decisions,  \* hitl-decisions.jsonl: [id, response]
    status,     \* status.json: state, and the request waited for
    cmd,        \* the `resume` of each process: what it read and chose
    resolved    \* human_gate_resolved of events.jsonl, and where the answer came from

vars == <<requests, decisions, status, cmd, resolved>>

VALID_DECISIONS == {"approve", "reject", "edit"}

\* --decision of the command line; none is not given.
Flags == {"none", "approve", "reject"}

Ids == 1 .. Len(Waits)

Idle == [at |-> "idle", decision |-> "none", from |-> 0]

Init ==
    /\ requests = << >> /\ decisions = << >> /\ resolved = << >>
    /\ status = [state |-> "running", waits |-> 0]
    /\ cmd = [p \in Procs |-> Idle]

-----------------------------------------------------------------------------
(* The run, between two waits.                                              *)

\* The step is a gate of the plan: the request is appended and the run pauses on it.
RequestGate(k) ==
    /\ k = "gate"
    /\ requests' = Append(requests, k)

\* A worker meets an act call: the request goes into the file before the engine pauses.
OpenToolApproval(k) ==
    /\ k = "tool"
    /\ requests' = Append(requests, k)

Advance ==
    LET next == Len(requests) + 1 IN
    /\ status.state = "running"
    /\ next \in Ids
    /\ RequestGate(Waits[next]) \/ OpenToolApproval(Waits[next])
    /\ status' = [state |-> "paused_human_gate", waits |-> next]
    /\ UNCHANGED <<decisions, cmd, resolved>>

Finish ==
    /\ status.state = "running" /\ Len(requests) = Len(Waits)
    /\ status' = [state |-> "done", waits |-> 0]
    /\ UNCHANGED <<requests, decisions, cmd, resolved>>

\* The Node side answers a request it has read, the pending one or an older one.
NodeDecides(id, response) ==
    /\ id \in DOMAIN requests
    /\ Len(SelectSeq(decisions, LAMBDA d : d.by = "node")) < MaxNode
    /\ decisions' = Append(decisions, [id |-> id, response |-> response, by |-> "node"])
    /\ UNCHANGED <<requests, status, cmd, resolved>>

-----------------------------------------------------------------------------
(* `resume` of a waiting run: choose a decision, then apply it to the status *)
(* as it is by then.                                                        *)

\* The last of the decisions that satisfy Valid, as [decision, from]; none if there is none.
LastOf(Valid(_)) ==
    LET i == SelectLastInSeq(decisions, Valid) IN
    IF i = 0 THEN [decision |-> "none", from |-> 0]
    ELSE [decision |-> decisions[i].response, from |-> decisions[i].id]

\* read_decision: the last valid decision of the file, whatever it decides.
ReadDecision == LastOf(LAMBDA d : d.response \in VALID_DECISIONS)

\* For a tool: the last decision of this request.
DecisionOf(id) == LastOf(LAMBDA d : d.id = id)

\* The file first, then the flag; without either a gate is approved and a tool is refused.
Choice(file, flag, default) ==
    IF file.decision # "none" THEN file
    ELSE [decision |-> IF flag = "none" THEN default ELSE flag, from |-> 0]

WaitsForTool == status.waits # 0 /\ requests[status.waits] = "tool"

Resume(p, flag) ==
    LET chosen == IF WaitsForTool
                  THEN Choice(DecisionOf(status.waits), flag, "none")
                  ELSE Choice(ReadDecision, flag, "approve") IN
    /\ cmd[p] = Idle /\ status.state = "paused_human_gate"
    /\ chosen.decision # "none"         \* else PlanError: pass --decision
    /\ cmd' = [cmd EXCEPT ![p] = [at |-> "chosen", decision |-> chosen.decision,
                                  from |-> chosen.from]]
    /\ UNCHANGED <<requests, decisions, status, resolved>>

Record(p) ==
    resolved' = Append(resolved, [request |-> status.waits, decision |-> cmd[p].decision,
                                  from |-> cmd[p].from])

\* An answer to a tool request is kept as a decision, unless the Node side has written one.
ResolveToolApproval(p) ==
    /\ WaitsForTool
    /\ cmd[p].decision \in {"approve", "reject"}
    /\ decisions' = IF \E d \in ToSet(decisions) : d.id = status.waits THEN decisions
                    ELSE Append(decisions, [id |-> status.waits, response |-> cmd[p].decision,
                                            by |-> "cli"])
    /\ Record(p)
    /\ status' = [state |-> "running", waits |-> 0]

ResolveGate(p) ==
    /\ ~WaitsForTool /\ status.state = "paused_human_gate"
    /\ Record(p)
    /\ status' = [state |-> IF cmd[p].decision = "reject" THEN "rejected" ELSE "running",
                  waits |-> 0]
    /\ UNCHANGED decisions

\* An edit of a tool request, or a run that has come to an end: PlanError.
Refused(p) ==
    /\ \/ WaitsForTool /\ cmd[p].decision = "edit"
       \/ status.state \in {"done", "rejected"}
    /\ UNCHANGED <<decisions, status, resolved>>

\* Someone else has answered: the run is taken for interrupted and goes on.
GoesOn(p) ==
    /\ status.state = "running"
    /\ UNCHANGED <<decisions, status, resolved>>

ResumeRun(p) ==
    /\ cmd[p].at = "chosen"
    /\ ResolveToolApproval(p) \/ ResolveGate(p) \/ Refused(p) \/ GoesOn(p)
    /\ cmd' = [cmd EXCEPT ![p] = Idle]
    /\ UNCHANGED requests

Next ==
    \/ Advance \/ Finish
    \/ \E id \in Ids, r \in VALID_DECISIONS : NodeDecides(id, r)
    \/ \E p \in Procs, f \in Flags : Resume(p, f)
    \/ \E p \in Procs : ResumeRun(p)

Spec == Init /\ [][Next]_vars

-----------------------------------------------------------------------------
\* What the comment in `resume` and the worker's guide say: a decision of the file is one for
\* the request the run waits for, and without one the person's --decision counts.  No wait is
\* resolved with the decision of another request.
DecisionsKeepTheirRequest ==
    \A i \in DOMAIN resolved : resolved[i].from \in {0, resolved[i].request}

=============================================================================
