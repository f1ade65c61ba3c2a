------------------------------ MODULE WaveEngine ------------------------------
(***************************************************************************)
(* The LangGraph engine of plan_runner (langgraph_engine.py): the steps of  *)
(* a plan are the nodes of a graph, LangGraph runs them in supersteps and   *)
(* keeps a checkpoint of its own beside status.json and events.jsonl, and a *)
(* person's one decision answers whatever gates the checkpoint waits at.    *)
(*                                                                         *)
(* Two records of one run that can disagree: the checkpoint (which steps    *)
(* are done, which nodes run next, what the finished nodes of an unfinished *)
(* superstep wrote) and the status (written only when a call ends).  A kill *)
(* or an exception leaves them apart; the fallback, which runs the waves    *)
(* without LangGraph, moves only the second.                                *)
(*                                                                         *)
(* LangGraph itself is outside the repository; it is modelled as the engine *)
(* uses it: a node runs in the superstep after ANY node with an edge to it, *)
(* a superstep ends when all its nodes have, a finished node's writes       *)
(* survive an interrupt or an exception of another, and Command(resume=d)   *)
(* is the answer of interrupt() in the first superstep of that invocation.  *)
(* There is one engine process; the nodes of a superstep run in parallel.   *)
(***************************************************************************)
EXTENDS Integers, FiniteSets

CONSTANTS
    N,             \* the most steps a plan has
    Plans,         \* the plans run_plan may be called with: deps[s] is the depends_on of
                   \* step s, in the order of the file; gates have a human_gate
    Artifacts,     \* the steps with an output_artifact that are no gates
    DoneFiles,     \* done_when: "<artifact of step> exists"
    DoneGates,     \* done_when: "human_gate_resolved on <step>"
    Budgets,       \* the budget.max_steps that run_plan may be called with
    Answers,       \* what a worker may leave in result.json: "ok", "bad", "torn"
    Pauses,        \* how a step without a result may stop: "wait", "budget", "tool"
    MaxRuns,       \* bound: runs started over the directory
    MaxVer,        \* bound: distinct contents of a file
    MaxTrouble     \* bound: edits of files, torn results and kills, together

PlanFile == 0
Files == {PlanFile} \union Artifacts
Vers == 0 .. MaxVer                  \* 0: the file does not exist

ASSUME PlanAssumption ==
    /\ N \in Nat \ {0}
    /\ \A p \in Plans : \E n \in 1 .. N :
           /\ p.deps \in [1 .. n -> SUBSET (1 .. n)]
           /\ p.gates \subseteq 1 .. n
           /\ Artifacts \intersect p.gates = {}
           /\ \A S \in SUBSET (1 .. n) :       \* validate_plan: depends_on has no cycle
                  S # {} => \E s \in S : p.deps[s] \intersect S = {}
    /\ Artifacts \subseteq 1 .. N
    /\ DoneFiles \subseteq Artifacts
    /\ DoneGates \subseteq 1 .. N
    /\ Budgets \subseteq Nat
    /\ Answers \subseteq {"ok", "bad", "torn"}
    /\ Pauses \subseteq {"wait", "budget", "tool"}
    /\ MaxRuns \in Nat /\ MaxVer \in Nat \ {0} /\ MaxTrouble \in Nat

VARIABLES
    plan,        \* plan.yaml, one of Plans
    status,      \* status.json
    cp,          \* the checkpoint of the run in checkpoints.db
    asked,       \* asked[g]: fingerprint of the last human_gate_requested of this run
    resolved,    \* human_gate_resolved events of this run
    finished,    \* step_finished events of this run
    failed,      \* step_failed events of this run
    requested,   \* steps with a pending_steps/<id>/request.json
    result,      \* result[s]: pending_steps/<s>/result.json
    ver,         \* ver[f]: content of plan.yaml (0) and of each artifact
    pc,          \* where the engine process is
    node,        \* node[s]: where node s is in the superstep
    raised,      \* exceptions that came out of nodes, as <<step, kind>>
    call,        \* the invocation: its answer, and what the engine read before it
    runs, trouble

log == <<asked, resolved, finished, failed>>
steps == <<requested, result, ver>>
graph == <<node, raised, call>>
bounds == <<runs, trouble>>
vars == <<plan, status, cp, log, steps, pc, graph, bounds>>

-----------------------------------------------------------------------------
(* The plan as a graph *)

Steps == DOMAIN plan.deps
Deps == plan.deps
Gates == plan.gates

\* The wave of parallel_groups a step falls in (the graph of Deps has no cycle).
Wave[s \in Steps] ==
    IF Deps[s] = {} THEN 0
    ELSE 1 + Wave[CHOOSE d \in Deps[s] : \A e \in Deps[s] : Wave[e] <= Wave[d]]

Roots == {s \in Steps : Deps[s] = {}}

\* add_edge(p, b) for each p in b.depends_on, one by one: b runs after any of them.
Successors(ran) == {s \in Steps : Deps[s] \intersect ran # {}}

\* plan.steps filtered, its first element.
First(S) == CHOOSE s \in S : \A t \in S : s <= t

-----------------------------------------------------------------------------
(* approval.py, done_when.py *)

NoFingerprint == [f \in Files |-> 0]
Fingerprint == ver

\* changed_since: only the files the fingerprint has; none at all counts as changed.
Differ(fp, now) == fp = NoFingerprint \/ \E f \in Files : fp[f] # 0 /\ fp[f] # now[f]
Changed(fp) == Differ(fp, ver)

Approved == {"approve", "edit"}
Decisions == Approved \union {"reject"}

\* A resolution has the gate, the decision and the fingerprint of the event; `asked' (what the
\* last request of the gate showed) and `waited' (an earlier call made that request, so that
\* somebody could see it, and it had no decision yet) are there for the properties.
PastHolds == \A r \in resolved : r.decision \in Approved => ~Changed(r.fp)

ResolvedGates == {r.step : r \in resolved}
ApprovedGates == {r.step : r \in {x \in resolved : x.decision \in Approved}}

\* Mutant: only the gate that status.json names is checked.
PendingOfStatus == {g \in Gates : g = status.paused /\ asked[g] # NoFingerprint} \ ResolvedGates

\* pending_gates: asked in this run and without a decision.
Pending == {g \in Gates : asked[g] # NoFingerprint} \ ResolvedGates

DoneWhen == /\ \A s \in DoneFiles \intersect Steps : ver[s] # 0
            /\ DoneGates \intersect Gates \subseteq ResolvedGates

-----------------------------------------------------------------------------
Resumable == {"paused_human_gate", "waiting_external", "running"}
Terminal == {"done", "failed", "rejected", "aborted_budget"}

Absent == [state |-> "absent", engine |-> "graph", completed |-> {}, paused |-> 0, tool |-> FALSE]

\* Of the checkpoint, made: the thread has one; done, error: its channels; next: the nodes of the
\* superstep; saved: those of them whose writes are stored; bad: those that wrote an error.
NoCheckpoint == [made |-> FALSE, done |-> {}, error |-> FALSE, next |-> {}, saved |-> {}, bad |-> {}]

\* Of a call, answer: "run" in run_plan_langgraph, the decision in the first superstep of a resume,
\* "spent" after it; pending, fp: the gates checked before the resume and what was on
\* disk then; new: the gates asked in that superstep.
NoCall == [answer |-> "spent", pending |-> {}, fp |-> NoFingerprint, new |-> {}]

AllOff == [s \in Steps |-> "off"]

\* Mutant: the stored writes of an unfinished superstep are not looked at.
SuperstepFresh(c) == [s \in Steps |-> IF s \in c.next THEN "todo" ELSE "off"]

\* prepare_next_tasks: the nodes of the superstep whose writes are not stored yet.
Superstep(c) == [s \in Steps |-> IF s \notin c.next THEN "off"
                                 ELSE IF s \in c.saved THEN "saved" ELSE "todo"]

Init ==
    /\ plan \in Plans
    /\ status = Absent
    /\ cp = NoCheckpoint
    /\ asked = [g \in Gates |-> NoFingerprint]
    /\ resolved = {} /\ finished = {} /\ failed = {}
    /\ requested = {}
    /\ result = [s \in Steps |-> "none"]
    /\ ver = [f \in Files |-> 0]
    /\ pc = "idle"
    /\ node = AllOff /\ raised = {} /\ call = NoCall
    /\ runs = 0 /\ trouble = 0

\* The call is over: what the process had in memory is gone.
Return ==
    /\ pc' = "idle"
    /\ node' = AllOff /\ raised' = {} /\ call' = NoCall

-----------------------------------------------------------------------------
(* run_plan_langgraph, before the graph *)

\* Over an empty directory or a resumable run.  The old status.json is removed and only
\* Launch writes a new one; the log, the thread and the run id are new, the pending_steps
\* and the artifacts are those found there.
RunPlan ==
    /\ pc = "idle" /\ runs < MaxRuns
    /\ runs = 0 \/ status.state \in Resumable
    /\ runs' = runs + 1
    /\ status' = Absent
    /\ cp' = NoCheckpoint
    /\ asked' = [g \in Gates |-> NoFingerprint]
    /\ resolved' = {} /\ finished' = {} /\ failed' = {}
    /\ ver' = [ver EXCEPT ![PlanFile] = 1]
    /\ pc' = "launch"
    /\ UNCHANGED <<requested, result, graph, trouble>>

\* AU-22: a plan with more steps than its budget runs none of them.
RefuseLarge(max) ==
    /\ pc = "launch" /\ Cardinality(Steps \ Gates) > max
    /\ status' = [Absent EXCEPT !.state = "aborted_budget"]
    /\ Return
    /\ UNCHANGED <<cp, log, steps, bounds>>

Launch(max) ==
    /\ pc = "launch" /\ Cardinality(Steps \ Gates) <= max
    /\ status' = [Absent EXCEPT !.state = "running"]
    /\ call' = [NoCall EXCEPT !.answer = "run"]
    /\ pc' = "invoke"
    /\ UNCHANGED <<cp, log, steps, node, raised, bounds>>

\* graph.invoke: a new thread starts at the roots, a resumed one where its checkpoint is.
Invoke ==
    /\ pc = "invoke" /\ (call.answer = "run" \/ cp.made)
    /\ cp' = IF call.answer = "run" THEN [NoCheckpoint EXCEPT !.made = TRUE, !.next = Roots] ELSE cp
    /\ node' = Superstep(cp')
    /\ pc' = "graph"
    /\ UNCHANGED <<status, log, steps, raised, call, bounds>>

\* No checkpoint to resume from: the error goes to the caller.
InvokeFails ==
    /\ pc = "invoke" /\ call.answer # "run" /\ ~cp.made
    /\ Return
    /\ UNCHANGED <<status, cp, log, steps, bounds>>

-----------------------------------------------------------------------------
(* node_runner: what each node of the superstep does *)

At(s, place) == pc = "graph" /\ node[s] = place
Goto(s, place) == node' = [node EXCEPT ![s] = place]

\* `if step.id in completed: return {}'
AlreadyDone(s) ==
    /\ At(s, "todo") /\ s \in cp.done
    /\ Goto(s, "ok")
    /\ UNCHANGED <<status, cp, log, steps, pc, raised, call, bounds>>

Asked(g) ==
    /\ asked' = IF asked[g] = NoFingerprint THEN [asked EXCEPT ![g] = Fingerprint] ELSE asked
    /\ call' = IF asked[g] = NoFingerprint /\ call.answer \in Approved
               THEN [call EXCEPT !.new = @ \union {g}] ELSE call

\* The request is logged unless it was before, and interrupt() ends the node.  Versions of
\* LangGraph differ in how many waiting gates one answer reaches, so a gate may be left
\* waiting although there is an answer.
GateStops(g) ==
    /\ g \in Gates \ cp.done /\ At(g, "todo")
    /\ Asked(g)
    /\ Goto(g, "stopped")
    /\ UNCHANGED <<status, cp, resolved, finished, failed, steps, pc, raised, bounds>>

\* interrupt() returns the answer.  The fingerprint is the one check_pending took before
\* the invocation if the gate was pending then, else one of this moment.
GateDecides(g) ==
    /\ g \in Gates \ cp.done /\ At(g, "todo")
    /\ call.answer \in Approved
    /\ Asked(g)
    /\ resolved' = resolved \union
           {[step |-> g, decision |-> call.answer,
             fp |-> IF g \in call.pending THEN call.fp ELSE Fingerprint,
             asked |-> asked'[g], waited |-> g \notin call'.new \union ResolvedGates]}
    /\ Goto(g, "ok")
    /\ UNCHANGED <<status, cp, finished, failed, steps, pc, raised, bounds>>

\* execute_external_request writes request.json and looks for result.json.
Request(s) ==
    /\ s \notin Gates \union cp.done /\ At(s, "todo")
    /\ requested' = requested \union {s}
    /\ Goto(s, "working")
    /\ UNCHANGED <<status, cp, log, result, ver, pc, raised, call, bounds>>

WriteArtifact(s) == ver' = IF s \in Artifacts THEN [ver EXCEPT ![s] = 1] ELSE ver

Work(s) ==
    /\ At(s, "working") /\ result[s] = "ok"
    /\ WriteArtifact(s)
    /\ finished' = finished \union {s}
    /\ Goto(s, "ok")
    /\ UNCHANGED <<status, cp, asked, resolved, failed, requested, result, pc, raised, call, bounds>>

\* Mutant: a failing node that returns nothing.
ReturnsNothing(s) == Goto(s, "ok")

ReturnsError(s) == Goto(s, "err")

\* The node returns {"error": ...}: its edges fire all the same.
Fail(s) ==
    /\ At(s, "working") /\ result[s] = "bad"
    /\ failed' = failed \union {s}
    /\ ReturnsError(s)
    /\ UNCHANGED <<status, cp, asked, resolved, finished, steps, pc, raised, call, bounds>>

\* _external raises _WaitExternal, _PausedBudget or _ToolApproval.
Pause(s, kind) ==
    /\ At(s, "working") /\ result[s] = "none" /\ kind \in Pauses
    /\ raised' = raised \union {<<s, kind>>}
    /\ Goto(s, "raised")
    /\ UNCHANGED <<status, cp, log, steps, pc, call, bounds>>

\* A result.json that is read while it is being written does not parse.
Tear(s) ==
    /\ At(s, "working") /\ result[s] = "torn"
    /\ raised' = raised \union {<<s, "other">>}
    /\ Goto(s, "raised")
    /\ UNCHANGED <<status, cp, log, steps, pc, call, bounds>>

\* put_writes: what a node returned is stored beside the checkpoint.
SaveWrites(s) ==
    /\ At(s, "ok") \/ At(s, "err")
    /\ cp' = [cp EXCEPT !.saved = @ \union {s},
                        !.bad = IF node[s] = "err" THEN @ \union {s} ELSE @]
    /\ Goto(s, "saved")
    /\ UNCHANGED <<status, log, steps, pc, raised, call, bounds>>

-----------------------------------------------------------------------------
(* The superstep ends *)

\* Mutant: the superstep waits for the whole plan.
SettledPlan == raised = {} /\ \A s \in Steps : node[s] = "saved"

Settled == raised = {} /\ \A s \in Steps : node[s] \in {"off", "saved"}

Stopped == /\ raised = {} /\ \A s \in Steps : node[s] \in {"off", "saved", "stopped"}
           /\ \E s \in Steps : node[s] = "stopped"

\* Mutant: an error is not kept.
ApplyNoError(c) ==
    [c EXCEPT !.done = @ \union (c.saved \ c.bad),
              !.next = Successors(c.next), !.saved = {}, !.bad = {}]

\* apply_writes: the reducers, then the nodes the edges of this superstep lead to.
Apply(c) ==
    [c EXCEPT !.done = @ \union (c.saved \ c.bad), !.error = @ \/ c.bad # {},
              !.next = Successors(c.next), !.saved = {}, !.bad = {}]

Barrier ==
    /\ pc = "graph" /\ cp.next # {} /\ Settled
    /\ Cardinality(cp.bad) <= 1
    /\ cp' = Apply(cp)
    /\ node' = Superstep(cp')
    /\ call' = IF call.answer = "run" THEN call ELSE NoCall
    /\ UNCHANGED <<status, log, steps, pc, raised, bounds>>

\* `error' has no reducer: two nodes writing it in one superstep is InvalidUpdateError,
\* with the checkpoint left where it was.
Clash ==
    /\ pc = "graph" /\ Settled
    /\ Cardinality(cp.bad) > 1
    /\ raised' = {<<0, "other">>}
    /\ UNCHANGED <<status, cp, log, steps, pc, node, call, bounds>>

\* Mutant: a resume reports what its graph says is done and nothing else.
CompletedOfGraph(done) == done

\* A resume adds what its graph says is done to what the status had.
CompletedWith(done) == status.completed \union done

\* The status of a call whose graph came back with these channels.
Verdict(done, error) ==
    LET s == [status EXCEPT !.completed = CompletedWith(done)]
    IN  IF error THEN [s EXCEPT !.state = "failed"]
        ELSE IF Gates \ done # {}
        THEN [s EXCEPT !.state = "paused_human_gate", !.paused = First(Gates \ done)]
        ELSE [s EXCEPT !.state = IF DoneWhen THEN "done" ELSE "failed"]

\* The graph is over.
Conclude ==
    /\ pc = "graph" /\ cp.next = {}
    /\ status' = Verdict(cp.done, cp.error)
    /\ Return
    /\ UNCHANGED <<cp, log, steps, bounds>>

\* Gates interrupted the superstep.  The state LangGraph returns may or may not count the
\* stored writes of the nodes that did finish.
Interrupted(counted) ==
    /\ pc = "graph" /\ Stopped
    /\ counted => Cardinality(cp.bad) <= 1
    /\ status' = IF counted THEN Verdict(Apply(cp).done, Apply(cp).error)
                 ELSE Verdict(cp.done, cp.error)
    /\ Return
    /\ UNCHANGED <<cp, log, steps, bounds>>

StateOf(kind) == CASE kind = "wait" -> "waiting_external"
                   [] kind = "budget" -> "paused_budget"
                   [] kind = "tool" -> "paused_human_gate"

\* The handlers of the three exceptions.  Nodes that had not begun do not, and what the
\* finished ones returned may not have been stored.
StepStops(s, kind) ==
    /\ pc = "graph" /\ <<s, kind>> \in raised /\ kind # "other"
    /\ status' = [status EXCEPT !.state = StateOf(kind), !.paused = s, !.tool = (kind = "tool"),
                                !.completed = CompletedWith(cp.done)]
    /\ Return
    /\ UNCHANGED <<cp, log, steps, bounds>>

\* Any other exception: a resume logs it and raises, and status.json stays as it was.
ResumeRaises(s) ==
    /\ pc = "graph" /\ <<s, "other">> \in raised /\ call.answer # "run"
    /\ Return
    /\ UNCHANGED <<status, cp, log, steps, bounds>>

\* run_plan_langgraph goes on without LangGraph.
Fallback(s) ==
    /\ pc = "graph" /\ <<s, "other">> \in raised /\ call.answer = "run"
    /\ status' = [status EXCEPT !.engine = "fallback"]
    /\ pc' = "fallback"
    /\ node' = AllOff /\ raised' = {}
    /\ UNCHANGED <<cp, log, steps, call, bounds>>

-----------------------------------------------------------------------------
(* _run_waves_fallback: the waves one after the other, from no step completed *)

FallbackAt(s) ==
    /\ pc = "fallback" /\ s \in Steps \ status.completed
    /\ \A t \in Steps \ status.completed : Wave[s] < Wave[t] \/ (Wave[s] = Wave[t] /\ s <= t)

\* A gate is asked again, even one the graph had asked before.
FallbackGate(s) ==
    /\ FallbackAt(s) /\ s \in Gates
    /\ asked' = [asked EXCEPT ![s] = Fingerprint]
    /\ status' = [status EXCEPT !.state = "paused_human_gate", !.paused = s]
    /\ Return
    /\ UNCHANGED <<cp, resolved, finished, failed, steps, bounds>>

FallbackStep(s) ==
    /\ FallbackAt(s) /\ s \notin Gates /\ result[s] = "ok"
    /\ requested' = requested \union {s}
    /\ WriteArtifact(s)
    /\ finished' = finished \union {s}
    /\ status' = [status EXCEPT !.completed = @ \union {s}]
    /\ UNCHANGED <<cp, asked, resolved, failed, result, pc, graph, bounds>>

\* No step_failed event here.
FallbackFails(s) ==
    /\ FallbackAt(s) /\ s \notin Gates /\ result[s] = "bad"
    /\ requested' = requested \union {s}
    /\ status' = [status EXCEPT !.state = "failed"]
    /\ Return
    /\ UNCHANGED <<cp, log, result, ver, bounds>>

FallbackPauses(s, kind) ==
    /\ FallbackAt(s) /\ s \notin Gates /\ result[s] = "none" /\ kind \in Pauses
    /\ requested' = requested \union {s}
    /\ status' = [status EXCEPT !.state = StateOf(kind), !.paused = s, !.tool = (kind = "tool")]
    /\ Return
    /\ UNCHANGED <<cp, log, result, ver, bounds>>

\* Nothing catches an exception here.
FallbackRaises(s) ==
    /\ FallbackAt(s) /\ s \notin Gates /\ result[s] = "torn"
    /\ Return
    /\ UNCHANGED <<status, cp, log, steps, bounds>>

FallbackEnds ==
    /\ pc = "fallback" /\ status.completed = Steps
    /\ status' = [status EXCEPT !.state = IF DoneWhen THEN "done" ELSE "failed"]
    /\ Return
    /\ UNCHANGED <<cp, log, steps, bounds>>

-----------------------------------------------------------------------------
(* resume_plan_langgraph, before the graph *)

Load(d) ==
    /\ pc = "idle" /\ status.state \in Resumable \union {"paused_budget"}
    /\ d # "reject" => PastHolds
    /\ ~(status.tool /\ Pending # {})

\* An approve of a gate whose content changed since it was asked (one of them, when there
\* are several): asked again, and the resume is refused.
RenewRequest(g) ==
    /\ Load("approve") /\ g \in Pending /\ Changed(asked[g])
    /\ asked' = [asked EXCEPT ![g] = Fingerprint]
    /\ UNCHANGED <<status, cp, resolved, finished, failed, steps, pc, graph, bounds>>

StillAsAsked(d) == d = "approve" => \A g \in Pending : ~Changed(asked[g])

\* Without a tool approval in the status a reject ends the run, whatever it waits for.
RejectRun ==
    /\ Load("reject") /\ ~status.tool
    /\ resolved' = resolved \union
           {[step |-> status.paused, decision |-> "reject", fp |-> NoFingerprint,
             asked |-> NoFingerprint, waited |-> FALSE]}
    /\ status' = [status EXCEPT !.state = "rejected"]
    /\ UNCHANGED <<cp, asked, finished, failed, steps, pc, graph, bounds>>

NewCall(d) == [answer |-> d, pending |-> Pending, fp |-> Fingerprint, new |-> {}]

\* The tool's decision goes to the worker; the graph is resumed with "approve".
ResumeTool(d) ==
    /\ Load(d) /\ status.tool /\ d \in {"approve", "reject"}
    /\ status' = [status EXCEPT !.state = "running", !.tool = FALSE]
    /\ call' = NewCall("approve")
    /\ pc' = "invoke"
    /\ UNCHANGED <<cp, log, steps, node, raised, bounds>>

Resume(d) ==
    /\ Load(d) /\ ~status.tool /\ d \in Approved
    /\ StillAsAsked(d)
    /\ call' = NewCall(d)
    /\ pc' = "invoke"
    /\ UNCHANGED <<status, cp, log, steps, node, raised, bounds>>

-----------------------------------------------------------------------------
(* The rest of the world *)

\* A worker, inline or of another process, answers; a torn file is completed later.
\* (What comes after the end of the run is left out, here and in EditFile.)
ExternalResult(s, r) ==
    /\ status.state \notin Terminal
    /\ s \in requested /\ result[s] \in {"none", "torn"} /\ r \in Answers
    /\ r = "torn" => result[s] = "none" /\ trouble < MaxTrouble
    /\ trouble' = IF r = "torn" THEN trouble + 1 ELSE trouble
    /\ result' = [result EXCEPT ![s] = r]
    /\ UNCHANGED <<status, cp, log, requested, ver, pc, graph, runs>>

EditFile(f, v) ==
    /\ status.state \notin Terminal
    /\ trouble < MaxTrouble /\ ver[f] # 0 /\ v # ver[f]
    /\ f = PlanFile => v # 0
    /\ ver' = [ver EXCEPT ![f] = v]
    /\ trouble' = trouble + 1
    /\ UNCHANGED <<status, cp, log, requested, result, pc, graph, runs>>

Kill ==
    /\ pc # "idle" /\ trouble < MaxTrouble
    /\ trouble' = trouble + 1
    /\ Return
    /\ UNCHANGED <<status, cp, log, steps, runs>>

Node(s) ==
    \/ AlreadyDone(s) \/ GateStops(s) \/ GateDecides(s)
    \/ Request(s) \/ Work(s) \/ Fail(s) \/ Tear(s)
    \/ \E kind \in Pauses : Pause(s, kind)
    \/ SaveWrites(s)

FallbackNode(s) ==
    \/ FallbackGate(s) \/ FallbackStep(s) \/ FallbackFails(s) \/ FallbackRaises(s)
    \/ \E kind \in Pauses : FallbackPauses(s, kind)

Engine ==
    /\ \/ \E max \in Budgets : RefuseLarge(max) \/ Launch(max)
       \/ Invoke \/ InvokeFails
       \/ \E s \in Steps : Node(s) \/ FallbackNode(s)
       \/ Barrier \/ Clash \/ Conclude
       \/ \E counted \in BOOLEAN : Interrupted(counted)
       \/ \E s \in Steps, kind \in Pauses : StepStops(s, kind)
       \/ \E s \in 0 .. N : ResumeRaises(s) \/ Fallback(s)
       \/ FallbackEnds
    /\ UNCHANGED plan

World ==
    \/ RunPlan
    \/ \E g \in Gates : RenewRequest(g)
    \/ RejectRun
    \/ \E d \in Decisions : ResumeTool(d) \/ Resume(d)
    \/ \E s \in Steps, r \in Answers : ExternalResult(s, r)
    \/ \E f \in Files, v \in Vers : EditFile(f, v)
    \/ Kill

Next == Engine \/ (World /\ UNCHANGED plan)

\* The engine's own process is scheduled; people, workers and kills come as they like.
Spec == Init /\ [][Next]_vars /\ WF_vars(Engine)

-----------------------------------------------------------------------------
\* What status.json or the checkpoint counts as completed was done in this run: a step
\* has its step_finished event, a gate an approval.
CompletedIsBacked ==
    status.completed \union cp.done \subseteq finished \union ApprovedGates

\* M-009: a decision made on a request somebody could see approves what that request
\* showed, also when the decision was given for something else and LangGraph handed it to
\* the gate too.  (An edit is the person's own change.)
ApprovesWhatWasAsked ==
    \A r \in resolved : r.waited /\ r.decision = "approve" => ~Differ(r.asked, r.fp)

\* A run that says done has done every step and passed every gate, with no step failed.
DoneIsComplete ==
    status.state = "done" =>
        /\ status.completed = Steps
        /\ failed \subseteq finished
        /\ Gates \subseteq ApprovedGates

\* "Respeita depends_on como um grafo": every gate a step depends on is approved before
\* the step runs, whatever the shape of the plan.
GatesComeFirst == \A s \in finished : Deps[s] \intersect Gates \subseteq ApprovedGates

\* Within a run the status never forgets a completed step, although it is rebuilt at the
\* end of each call from a checkpoint that may be behind it.
ProgressKept ==
    [][runs' = runs /\ status.state # "absent" => status.completed \subseteq status'.completed]_vars

\* A step the status counts as completed is not executed again.  The exception is a run
\* that fell back: its checkpoint is behind what the fallback did.
NoRework ==
    [][\A s \in Steps : node[s] = "todo" /\ node'[s] = "working" /\ s \in status.completed
           => status.engine = "fallback"]_vars

\* Every call that is not killed comes to an end.
CallReturns == pc # "idle" ~> pc = "idle"

=============================================================================
