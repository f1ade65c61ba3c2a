------------------------------ MODULE PlanRunner ------------------------------
(***************************************************************************)
(* The native engine of plan_runner (runner/plan_runner/engine.py) over one *)
(* run directory: run_plan, resume_run, the executor it calls, the operator *)
(* abort, and what the rest of the world does to the same directory.        *)
(*                                                                         *)
(* Everything the engine knows about a run is in files.  status.json is one *)
(* dictionary which every engine process loads once, keeps in memory and    *)
(* writes back whole; events.jsonl only grows.  There is no lock: several   *)
(* processes (a CLI, an MCP server, the stand-alone worker's --resume) may   *)
(* have the directory open, any of them may be killed between two writes,   *)
(* and the approvals are bound to file contents that people can edit.       *)
(*                                                                         *)
(* A step is named by its place in topo_order (PlanGraph), so its           *)
(* dependencies come before it.  File contents are version numbers.         *)
(***************************************************************************)
EXTENDS Integers, FiniteSets

CONSTANTS
    N,                \* number of steps of the plan
    Deps,             \* Deps[i]: the depends_on of step i
    Gates,            \* the steps with a human_gate
    Artifacts,        \* the steps with an output_artifact: of its own, which nothing checks
    NeedsKnowledge,   \* the steps that policy R6 wants grounded
    BadMode,          \* the steps whose mode: does not resolve to a skill mode
    DoneFiles,        \* done_when: "<artifact of step> exists"
    DoneGates,        \* done_when: "human_gate_resolved on <step>"
    BudgetSteps,      \* plan.budget_max_steps
    RunModes,         \* the modes run_plan is called with
    Procs,            \* the engine processes that may open the directory
    MaxRuns,          \* bound: runs started over the directory
    MaxVer,           \* bound: distinct contents of a file
    MaxEdits,         \* bound: edits made by people
    MaxCrashes,       \* bound: engine processes killed
    MaxAborts,        \* bound: operator aborts
    MaxWorkers        \* bound: stand-alone workers started with --resume

Steps == 1 .. N
Runs == 1 .. MaxRuns
PlanFile == 0
Files == {PlanFile} \union Artifacts
Vers == 0 .. MaxVer                       \* 0: the file does not exist

ASSUME PlanAssumption ==
    /\ N \in Nat \ {0}
    /\ Deps \in [Steps -> SUBSET Steps]
    /\ \A i \in Steps : \A d \in Deps[i] : d < i
    /\ Gates \subseteq Steps
    /\ Artifacts \subseteq Steps
    /\ NeedsKnowledge \subseteq Steps
    /\ BadMode \subseteq Steps
    /\ DoneFiles \subseteq Artifacts
    /\ DoneGates \subseteq Gates
    /\ BudgetSteps \in Nat \ {0}

ASSUME BoundAssumption ==
    /\ RunModes \subseteq {"stub", "external"}
    /\ MaxRuns \in Nat \ {0}
    /\ MaxVer \in Nat \ {0}
    /\ MaxEdits \in Nat
    /\ MaxCrashes \in Nat
    /\ MaxAborts \in Nat
    /\ MaxWorkers \in Nat

(***************************************************************************)
(* Events of events.jsonl that the code reads back or that a reader of the  *)
(* trace relies on.  `asked' keeps the last human_gate_requested of a gate; *)
(* the log of each run is append-only, so the others are sets that grow.    *)
(***************************************************************************)
VARIABLES
    status,      \* status.json
    ver,         \* ver[f]: content of plan.yaml (0) and of each artifact
    requested,   \* steps with a pending_steps/<id>/request.json
    result,      \* result[i]: pending_steps/<i>/result.json
    asked,       \* asked[r][g]: fingerprint in the last request of gate g
    resolved,    \* human_gate_resolved events
    finished,    \* step_finished events, as <<run, step>>
    planDone,    \* runs with a plan_done event
    runs,        \* run ids handed out so far
    pc,          \* pc[p]: what engine process p does next
    mem,         \* mem[p]: its copy of status.json
    pos,         \* pos[p]: its place in the loop over topo_order
    ran,         \* ran[p]: its steps_run
    abort,       \* abort_run: the status it read, or Absent
    worker,      \* the stand-alone worker: 0, the step it works on, or ToResume
    edits, crashes, aborts, workers    \* counters for the bounds

disk == <<status, ver, requested, result>>
log == <<asked, resolved, finished, planDone>>
local == <<pc, mem, pos, ran>>
bounds == <<edits, crashes, aborts, workers>>
vars == <<status, ver, requested, result, asked, resolved, finished, planDone,
          runs, pc, mem, pos, ran, abort, worker, edits, crashes, aborts, workers>>

Resumable == {"running", "waiting_external", "paused_human_gate", "paused_budget"}
Terminal == {"done", "failed", "rejected", "aborted_budget", "aborted_operator"}
Approved == {"approve", "edit"}
Decisions == {"approve", "reject", "edit"}

Statuses == [run : 0 .. MaxRuns, mode : {"stub", "external"},
             state : {"absent"} \union Resumable \union Terminal,
             completed : SUBSET Steps, current : 0 .. N, paused : 0 .. N,
             tool : BOOLEAN]

\* No status.json, or one that does not parse: load_status returns None for both.
Absent == [run |-> 0, mode |-> "stub", state |-> "absent", completed |-> {},
           current |-> 0, paused |-> 0, tool |-> FALSE]

-----------------------------------------------------------------------------
(* approval.py *)

\* The gate's own artifact records the decision and is left out.
Approvable == Files \ Gates
Fingerprints == [Approvable -> Vers]
Fingerprint == [f \in Approvable |-> ver[f]]
NoFingerprint == [f \in Approvable |-> 0]

\* changed_since: only the files the fingerprint has; none at all counts as changed.
Changed(fp) ==
    \/ fp = NoFingerprint
    \/ \E f \in Approvable : fp[f] # 0 /\ fp[f] # ver[f]

\* `by' is not in the event (its actor is always human/cli): it says who called resume_run.
Resolutions == [run : Runs, step : Steps, decision : Decisions, by : {"person", "worker"},
                kind : {"gate", "tool"}, fp : Fingerprints]

\* verify_past finds nothing: every approval given still matches the files.
PastHolds(run) ==
    \A r \in resolved :
        (r.run = run /\ r.kind = "gate" /\ r.decision \in Approved) => ~Changed(r.fp)

ApprovedIn(run, g) ==
    \E r \in resolved : r.run = run /\ r.step = g /\ r.kind = "gate" /\ r.decision \in Approved

\* EventLog.has_event("human_gate_resolved", run_id, step_id=g): any decision.
ResolvedIn(run, g) == \E r \in resolved : r.run = run /\ r.step = g

\* done_when.evaluate has no failed condition.
DoneWhen(run) ==
    /\ \A i \in DoneFiles : ver[i] # 0
    /\ \A g \in DoneGates : ResolvedIn(run, g)

-----------------------------------------------------------------------------
Init ==
    /\ status = Absent
    /\ ver = [f \in Files |-> 0]
    /\ requested = {}
    /\ result = [i \in Steps |-> "none"]
    /\ asked = [r \in Runs |-> [g \in Gates |-> NoFingerprint]]
    /\ resolved = {}
    /\ finished = {}
    /\ planDone = {}
    /\ runs = 0
    /\ pc = [p \in Procs |-> "idle"]
    /\ mem = [p \in Procs |-> Absent]
    /\ pos = [p \in Procs |-> 1]
    /\ ran = [p \in Procs |-> 0]
    /\ abort = Absent
    /\ edits = 0
    /\ crashes = 0
    /\ aborts = 0
    /\ worker = 0
    /\ workers = 0

Goto(p, label) == pc' = [pc EXCEPT ![p] = label]

\* The status of a run that has just been given its id: nothing is completed yet.
NewRun(run, mode) ==
    [run |-> run, mode |-> mode, state |-> "running", completed |-> {},
     current |-> 0, paused |-> 0, tool |-> FALSE]

\* Mutant: completed.add lost.
CompleteNothing(s, i) == s

\* completed.add(step.id)
Complete(s, i) == [s EXCEPT !.completed = @ \union {i}]

\* Mutant: status.get where the code has status.pop.
KeepTool(s) == s

\* status.pop("tool_approval")
ClearTool(s) == [s EXCEPT !.tool = FALSE]

\* The call is over, and what the process had in memory with it.
Return(p) ==
    /\ Goto(p, "idle")
    /\ mem' = [mem EXCEPT ![p] = Absent]
    /\ pos' = [pos EXCEPT ![p] = 1]
    /\ ran' = [ran EXCEPT ![p] = 0]

\* status["state"] = ...; the next thing p does is save_status.
SaveNext(p, s) == mem' = [mem EXCEPT ![p] = s] /\ Goto(p, "save")

\* Mutant: steps_run from zero on every resume.
EnterLoopFromZero(p, s, n) ==
    /\ pos' = [pos EXCEPT ![p] = 1]
    /\ ran' = [ran EXCEPT ![p] = 0]
    /\ mem' = [mem EXCEPT ![p] = s]

\* p goes on with the loop over topo_order, from its first step.
EnterLoop(p, s, n) ==
    /\ pos' = [pos EXCEPT ![p] = 1]
    /\ ran' = [ran EXCEPT ![p] = n]
    /\ mem' = [mem EXCEPT ![p] = s]

(***************************************************************************)
(* run_plan: a new run id over an empty directory, or over one whose status *)
(* is resumable; the requests, results and artifacts found there stay.      *)
(* plan.yaml is copied again.  Nothing is saved before the first step.      *)
(***************************************************************************)
RunPlan(p, mode) ==
    /\ pc[p] = "idle"
    /\ runs < MaxRuns
    /\ runs = 0 \/ status.state \in Resumable
    /\ runs' = runs + 1
    /\ ver' = [ver EXCEPT ![PlanFile] = 1]
    /\ EnterLoop(p, NewRun(runs + 1, mode), 0)
    /\ Goto(p, "loop")
    /\ UNCHANGED <<status, requested, result, log, abort, worker, bounds>>

\* save_status writes p's copy over whatever is on disk; a run that is not
\* "running" any more returns to the caller.
Save(p) ==
    /\ pc[p] = "save"
    /\ status' = mem[p]
    /\ IF mem[p].state = "running" THEN Goto(p, "loop") /\ UNCHANGED <<mem, pos, ran>>
       ELSE Return(p)
    /\ UNCHANGED <<ver, requested, result, log, runs, abort, worker, bounds>>

(***************************************************************************)
(* The loop, one action per way an iteration can go.                        *)
(***************************************************************************)
AtStep(p) == pc[p] = "loop" /\ pos[p] <= N

\* Mutant: resume_run without its `if step.id in completed: continue'.
NeverDone(p) == FALSE

AlreadyDone(p) == pos[p] \in mem[p].completed

\* Mutant: the gate branch is missing and the step goes to the executor.
AlwaysExec(i) == "exec"

\* A step with a human_gate is only ever asked about, never executed.
HowToRun(i) == IF i \in Gates THEN "gate" ELSE "exec"

\* `continue': already completed, or (resume_run) dependencies not met, which
\* run_plan treats as an internal error.  NothingSkipped says the second never happens.
SkipStep(p) ==
    /\ AtStep(p)
    /\ LET missing == Deps[pos[p]] \ mem[p].completed
       IN  AlreadyDone(p) \/ (ran[p] < BudgetSteps /\ missing # {})
    /\ pos' = [pos EXCEPT ![p] = @ + 1]
    /\ UNCHANGED <<disk, log, runs, pc, mem, ran, abort, worker, bounds>>

OverMaxSteps(p) ==
    /\ AtStep(p)
    /\ ~AlreadyDone(p)
    /\ ran[p] >= BudgetSteps
    /\ SaveNext(p, [mem[p] EXCEPT !.state = "aborted_budget"])
    /\ UNCHANGED <<disk, log, runs, pos, ran, abort, worker, bounds>>

\* current_step is saved, step_started logged and the knowledge context injected: one step here,
\* since this save changes nothing but `current'.
StartStep(p) ==
    /\ AtStep(p)
    /\ ~AlreadyDone(p)
    /\ ran[p] < BudgetSteps
    /\ Deps[pos[p]] \subseteq mem[p].completed
    /\ mem' = [mem EXCEPT ![p].current = pos[p]]
    /\ status' = mem'[p]
    /\ Goto(p, HowToRun(pos[p]))
    /\ UNCHANGED <<ver, requested, result, log, runs, pos, ran, abort, worker, bounds>>

\* A gate: the request, with the fingerprint of what is on the table, goes to the
\* event log and to hitl-requests.jsonl before status.json says the run is paused.
RequestGate(p) ==
    /\ pc[p] = "gate"
    /\ asked' = [asked EXCEPT ![mem[p].run][pos[p]] = Fingerprint]
    /\ SaveNext(p, [mem[p] EXCEPT !.state = "paused_human_gate", !.paused = pos[p]])
    /\ UNCHANGED <<disk, resolved, finished, planDone, runs, pos, ran, abort, worker, bounds>>

-----------------------------------------------------------------------------
(* executor.py *)

\* step_finished is logged, then the step joins completed and the status is saved.
FinishStep(p, written) ==
    /\ ver' = IF written THEN [ver EXCEPT ![pos[p]] = 1] ELSE ver
    /\ finished' = finished \union {<<mem[p].run, pos[p]>>}
    /\ SaveNext(p, Complete(mem[p], pos[p]))
    /\ ran' = [ran EXCEPT ![p] = @ + 1]
    /\ pos' = [pos EXCEPT ![p] = @ + 1]

\* Mutant: a failed step leaves the run running.
FailIgnored(p) == SaveNext(p, mem[p]) /\ UNCHANGED ran

FailStep(p) ==
    /\ SaveNext(p, [mem[p] EXCEPT !.state = "failed"])
    /\ ran' = [ran EXCEPT ![p] = @ + 1]

StubStep(p) ==
    /\ pc[p] = "exec" /\ mem[p].mode = "stub" /\ pos[p] \notin BadMode
    /\ FinishStep(p, pos[p] \in Artifacts)
    /\ UNCHANGED <<status, requested, result, asked, resolved, planDone, runs, abort, worker, bounds>>

\* Fail-closed before any worker: the step's mode does not exist, or the knowledge
\* R6 asks for did not come (and then an old request is withdrawn).  A result.json
\* that is already there comes from a request that passed the knowledge check.
RefuseStep(p) ==
    /\ pc[p] = "exec"
    /\ LET i == pos[p]
           ungrounded == mem[p].mode = "external" /\ i \in NeedsKnowledge /\ result[i] = "none"
       IN  /\ i \in BadMode \/ ungrounded
           /\ requested' = IF mem[p].mode = "stub" THEN requested
                           ELSE IF i \in BadMode THEN requested \union {i}
                           ELSE requested \ {i}
    /\ FailStep(p)
    /\ UNCHANGED <<status, ver, result, log, runs, pos, abort, worker, bounds>>

\* request.json is there for a worker, inline or outside.
RequestStep(p) ==
    /\ pc[p] = "exec" /\ mem[p].mode = "external" /\ pos[p] \notin BadMode
    /\ requested' = requested \union {pos[p]}
    /\ Goto(p, "work")
    /\ UNCHANGED <<status, ver, result, log, runs, mem, pos, ran, abort, worker, bounds>>

\* Nobody answered yet, and the inline worker is called, which looks once (check_hitl)
\* whether the run waits for a human; meanwhile somebody else may answer.
CallWorker(p) ==
    /\ pc[p] = "work" /\ result[pos[p]] = "none"
    /\ status.state # "paused_human_gate"
    /\ Goto(p, "ask")
    /\ UNCHANGED <<disk, log, runs, mem, pos, ran, abort, worker, bounds>>

\* GeminiWorker.process writes its result.json, over one that came in the meantime.
WorkerAnswers(p) ==
    /\ pc[p] = "ask"
    /\ result' = [result EXCEPT ![pos[p]] = "ok"]
    /\ Goto(p, "work")
    /\ UNCHANGED <<status, ver, requested, log, runs, mem, pos, ran, abort, worker, bounds>>

\* No worker and no answer, or the worker raised: WorkerError, a budget reached, or an
\* `act' tool that waits for a human.  The run pauses with the step not done.
WorkerPauses(p, state, tool) ==
    /\ \/ pc[p] = "work" /\ result[pos[p]] = "none" /\ state = "waiting_external"
       \/ pc[p] = "ask"
    /\ <<state, tool>> \in {<<"waiting_external", FALSE>>, <<"paused_budget", FALSE>>,
                            <<"paused_human_gate", TRUE>>}
    /\ SaveNext(p, [mem[p] EXCEPT !.state = state, !.paused = pos[p], !.tool = tool])
    /\ UNCHANGED <<disk, log, runs, pos, ran, abort, worker, bounds>>

\* Mutant: no look at whether result.json exists.
CollectUnanswered(p) ==
    /\ pc[p] = "work" /\ result[pos[p]] # "fail"
    /\ FinishStep(p, pos[p] \in Artifacts)
    /\ UNCHANGED <<status, requested, result, asked, resolved, planDone, runs, abort, worker, bounds>>

\* A result may say ok without an artifact_content: then no artifact is written.
CollectResult(p) ==
    /\ pc[p] = "work" /\ result[pos[p]] \in {"ok", "bare"}
    /\ FinishStep(p, pos[p] \in Artifacts /\ result[pos[p]] = "ok")
    /\ UNCHANGED <<status, requested, result, asked, resolved, planDone, runs, abort, worker, bounds>>

CollectFailure(p) ==
    /\ pc[p] = "work" /\ result[pos[p]] = "fail"
    /\ FailStep(p)
    /\ UNCHANGED <<disk, log, runs, pos, abort, worker, bounds>>

\* After the last step: done_when, then plan_done in the log, then the status.
FinishRun(p) ==
    /\ pc[p] = "loop" /\ pos[p] > N
    /\ LET ok == DoneWhen(mem[p].run)
           s  == [mem[p] EXCEPT !.paused = 0, !.current = 0]
       IN  /\ planDone' = IF ok THEN planDone \union {s.run} ELSE planDone
           /\ SaveNext(p, [s EXCEPT !.state = IF ok THEN "done" ELSE "failed"])
    /\ UNCHANGED <<disk, asked, resolved, finished, runs, pos, ran, abort, worker, bounds>>

-----------------------------------------------------------------------------
(* resume_run, by what the run was paused at *)

Load(p) == pc[p] = "idle" /\ status.state \in Resumable

\* "um reject pode sempre parar o run": a reject is not checked against the past.
MayContinue(d) == d # "reject" => PastHolds(status.run)

Resolution(step, d, by, kind, fp) ==
    [run |-> status.run, step |-> step, decision |-> d, by |-> by, kind |-> kind, fp |-> fp]

AtGate == status.state = "paused_human_gate" /\ ~status.tool

\* approve or edit: logged, the gate joins completed, its artifact is written if absent.
ApproveGate(p, d, by) ==
    /\ Load(p) /\ AtGate /\ d \in Approved
    /\ MayContinue(d)
    /\ d = "approve" => ~Changed(asked[status.run][status.paused])
    /\ resolved' = resolved \union {Resolution(status.paused, d, by, "gate", Fingerprint)}
    /\ ver' = IF status.paused \in Artifacts /\ ver[status.paused] = 0
              THEN [ver EXCEPT ![status.paused] = 1] ELSE ver
    /\ LET s == Complete([status EXCEPT !.state = "running"], status.paused)
       IN  EnterLoop(p, s, Cardinality(s.completed))
    /\ Goto(p, "save")
    /\ UNCHANGED <<status, requested, result, asked, finished, planDone, runs, abort, bounds>>

RejectGate(p) ==
    /\ Load(p) /\ AtGate
    /\ resolved' = resolved \union {Resolution(status.paused, "reject", "person", "gate", Fingerprint)}
    /\ SaveNext(p, [status EXCEPT !.state = "rejected"])
    /\ UNCHANGED <<disk, asked, finished, planDone, runs, pos, ran, abort, bounds>>

\* An approve of something that changed since it was asked: asked again, not accepted.
RenewRequest(p) ==
    /\ Load(p) /\ AtGate
    /\ MayContinue("approve")
    /\ Changed(asked[status.run][status.paused])
    /\ asked' = [asked EXCEPT ![status.run][status.paused] = Fingerprint]
    /\ UNCHANGED <<disk, resolved, finished, planDone, runs, local, abort, bounds>>

\* A tool approval: reject refuses the call, not the run; the step runs again.
ResumeTool(p, d, by) ==
    /\ Load(p) /\ status.state = "paused_human_gate" /\ status.tool
    /\ d \in {"approve", "reject"}
    /\ MayContinue(d)
    /\ resolved' = resolved \union {Resolution(status.paused, d, by, "tool", NoFingerprint)}
    /\ EnterLoop(p, ClearTool([status EXCEPT !.state = "running"]),
                 Cardinality(status.completed))
    /\ Goto(p, "save")
    /\ UNCHANGED <<disk, asked, finished, planDone, runs, abort, bounds>>

\* waiting_external, paused_budget, or left "running" by a crash: the decision is not used.
ResumeStep(p, d) ==
    /\ Load(p) /\ status.state # "paused_human_gate"
    /\ MayContinue(d)
    /\ EnterLoop(p, [status EXCEPT !.state = "running"], Cardinality(status.completed))
    /\ Goto(p, "save")
    /\ UNCHANGED <<disk, log, runs, abort, bounds>>

-----------------------------------------------------------------------------
(* The rest of the world *)

\* abort_run loads the status, then logs plan_aborted and writes the status back.
AbortReads ==
    /\ abort = Absent /\ aborts < MaxAborts
    /\ status.state \in Resumable
    /\ abort' = status
    /\ aborts' = aborts + 1
    /\ UNCHANGED <<disk, log, runs, local, worker, edits, crashes, workers>>

AbortWrites ==
    /\ abort # Absent
    /\ status' = [abort EXCEPT !.state = "aborted_operator", !.current = 0]
    /\ abort' = Absent
    /\ UNCHANGED <<ver, requested, result, log, runs, local, worker, bounds>>

\* A worker of another process, or a person, answers a request it finds.
ExternalResult(i, r) ==
    /\ i \in requested /\ result[i] = "none"
    /\ r = "bare" => i \in Artifacts
    /\ result' = [result EXCEPT ![i] = r]
    /\ UNCHANGED <<status, ver, requested, log, runs, local, abort, worker, bounds>>

(***************************************************************************)
(* `python -m plan_runner.external_worker <run> --resume': it reads the      *)
(* status once, has the model do the paused step, and resumes the run.       *)
(***************************************************************************)
ToResume == N + 1

\* A step that has its result by now is not done again.
WorkerStarts ==
    /\ worker = 0 /\ workers < MaxWorkers
    /\ status.state \in {"waiting_external", "paused_budget"}
    /\ worker' = IF result[status.paused] = "none" THEN status.paused ELSE ToResume
    /\ workers' = workers + 1
    /\ UNCHANGED <<disk, log, runs, local, abort, edits, crashes, aborts>>

WorkerDone ==
    /\ worker \in Steps
    /\ result' = [result EXCEPT ![worker] = "ok"]
    /\ worker' = ToResume
    /\ UNCHANGED <<status, ver, requested, log, runs, local, abort, bounds>>

\* It raised, or was killed, or resume_run refused.
WorkerGivesUp ==
    /\ worker # 0
    /\ worker' = 0
    /\ UNCHANGED <<disk, log, runs, local, abort, bounds>>

\* resume_run(out, decision="approve"), whatever the run has come to wait for.
WorkerResumes(p) ==
    /\ worker = ToResume
    /\ worker' = 0
    /\ \/ ApproveGate(p, "approve", "worker") \/ ResumeTool(p, "approve", "worker")
       \/ ResumeStep(p, "approve") \/ RenewRequest(p)

\* Somebody edits, restores or (artifacts only) deletes a file of the run.
EditFile(f, v) ==
    /\ edits < MaxEdits
    /\ ver[f] # 0 /\ ver[f] # v /\ (f = PlanFile => v # 0)
    /\ ver' = [ver EXCEPT ![f] = v]
    /\ edits' = edits + 1
    /\ UNCHANGED <<status, requested, result, log, runs, local, abort, worker, crashes, aborts, workers>>

\* The process is killed.  save_status truncates the file before it writes it, so a
\* kill inside a save may leave a status.json that does not parse.
Kill(p) ==
    /\ pc[p] # "idle" /\ crashes < MaxCrashes
    /\ crashes' = crashes + 1
    /\ Return(p)

Crash(p) ==
    /\ Kill(p)
    /\ UNCHANGED <<disk, log, runs, abort, worker, edits, aborts, workers>>

CrashInSave(p) ==
    /\ pc[p] = "save"
    /\ Kill(p)
    /\ status' = Absent
    /\ UNCHANGED <<ver, requested, result, log, runs, abort, worker, edits, aborts, workers>>

-----------------------------------------------------------------------------
LoopStep(p) ==
    \/ Save(p) \/ SkipStep(p) \/ OverMaxSteps(p) \/ StartStep(p) \/ RequestGate(p)
    \/ FinishRun(p)

ExecStep(p) ==
    \/ StubStep(p) \/ RefuseStep(p) \/ RequestStep(p) \/ CallWorker(p) \/ WorkerAnswers(p)
    \/ CollectResult(p) \/ CollectFailure(p)
    \/ \E state \in Resumable, tool \in BOOLEAN : WorkerPauses(p, state, tool)

Resume(p) ==
    /\ UNCHANGED worker
    /\ \/ \E d \in Decisions : \/ ApproveGate(p, d, "person") \/ ResumeTool(p, d, "person")
                               \/ ResumeStep(p, d)
       \/ RejectGate(p) \/ RenewRequest(p)

StandAlone ==
    \/ WorkerStarts \/ WorkerDone \/ WorkerGivesUp
    \/ \E p \in Procs : WorkerResumes(p)

World ==
    \/ StandAlone
    \/ AbortReads \/ AbortWrites
    \/ \E i \in Steps, r \in {"ok", "bare", "fail"} : ExternalResult(i, r)
    \/ \E f \in Files, v \in Vers : EditFile(f, v)

Next ==
    \/ \E p \in Procs : \/ \E mode \in RunModes : RunPlan(p, mode)
                        \/ LoopStep(p) \/ ExecStep(p) \/ Resume(p)
                        \/ Crash(p) \/ CrashInSave(p)
    \/ World

Spec == Init /\ [][Next]_vars

\* An engine process that is not killed keeps going: each of its calls returns.
FairSpec == Spec /\ \A p \in Procs : WF_vars(LoopStep(p) \/ ExecStep(p))

-----------------------------------------------------------------------------
(* Properties *)

DiskTypes ==
    /\ status \in Statuses
    /\ ver \in [Files -> Vers]
    /\ requested \subseteq Steps
    /\ result \in [Steps -> {"none", "ok", "bare", "fail"}]

LogTypes ==
    /\ asked \in [Runs -> [Gates -> Fingerprints]]
    /\ resolved \subseteq Resolutions
    /\ finished \subseteq Runs \X Steps
    /\ planDone \subseteq Runs
    /\ runs \in 0 .. MaxRuns

ProcTypes ==
    /\ pc \in [Procs -> {"idle", "loop", "save", "gate", "exec", "work", "ask"}]
    /\ mem \in [Procs -> Statuses]
    /\ pos \in [Procs -> 1 .. N + 1]
    /\ ran \in [Procs -> 0 .. N]

WorldTypes ==
    /\ abort \in Statuses
    /\ worker \in 0 .. ToResume
    /\ edits \in 0 .. MaxEdits /\ crashes \in 0 .. MaxCrashes
    /\ aborts \in 0 .. MaxAborts /\ workers \in 0 .. MaxWorkers

\* Every variable has its type; in particular no process counts more steps than there are.
TypeOK == DiskTypes /\ LogTypes /\ ProcTypes /\ WorldTypes

\* Every copy of the status there is: on disk, in an engine process, in abort_run.
Copies == {status, abort} \union {mem[p] : p \in Procs}

\* A run cannot skip a human gate: whatever is killed, resumed twice or started again
\* over the same directory, a gate is completed only in a run in which a person
\* approved or edited that gate.
GateNeedsApproval ==
    \A s \in Copies : \A g \in s.completed \cap Gates : ApprovedIn(s.run, g)

\* Steps are completed in topo_order without holes, so a step never runs before its
\* dependencies, resume's "continue" on missing dependencies is never taken, and a
\* run that says done or logs plan_done has completed every step.
NothingSkipped ==
    /\ \A s \in Copies : \A i \in s.completed : 1 .. i \subseteq s.completed
    /\ \A p \in Procs : pc[p] \in {"loop", "gate", "exec", "work", "ask"} =>
                            1 .. (pos[p] - 1) \subseteq mem[p].completed
    /\ \A s \in Copies : s.state = "done" => s.completed = Steps /\ s.run \in planDone

\* budget.max_steps bounds the whole run, gates included, however often it is resumed.
WithinMaxSteps == \A s \in Copies : Cardinality(s.completed) <= BudgetSteps

\* A step that is no gate is in completed only after its step_finished event of that
\* same run and, in external mode, only with a result.json that says ok.
CompletedIsBacked ==
    \A s \in Copies : \A i \in s.completed \ Gates :
        /\ <<s.run, i>> \in finished
        /\ s.mode = "external" => result[i] \in {"ok", "bare"}

\* What status.json says it waits for is what resume_run will ask about: the paused
\* step is the first one not completed, it is a gate exactly when the pause is not for
\* a tool, and then the request with its fingerprint is in the log.
PauseIsAnswerable ==
    \A s \in {status, abort} :
        s.state \in Resumable \ {"running"} =>
            /\ s.completed = 1 .. (s.paused - 1)
            /\ s.state = "paused_human_gate" => (s.tool <=> s.paused \notin Gates)
            /\ s.paused \in Gates => asked[s.run][s.paused] # NoFingerprint

\* A step that status.json counts as completed is not started again in that run
\* (RUNTIME-HARDENING.md: "Passos em completed nao reexecutam").
Starts(p) == pc[p] = "loop" /\ pc'[p] \in {"gate", "exec"}
NoRework ==
    [][\A p \in Procs : Starts(p) /\ mem[p].run = status.run => pos[p] \notin status.completed]_vars

\* Only people invalidate approvals: in a directory that has seen one run, no write of the
\* engine itself (a step, a retry after a crash, the gate's own artifact) changes a file an
\* approval is bound to.  A second run finds the artifacts of its own later steps there,
\* its gates approve those too (fingerprint takes the artifacts of all steps), and its later
\* steps write them again.
EngineKeepsApprovals ==
    [][edits' = edits /\ runs' = runs =>
         \A r \in resolved : r.run = status.run /\ r.kind = "gate" /\ r.decision \in Approved
                              /\ ~Changed(r.fp) => ~Changed(r.fp)']_vars

\* external_worker.py: the worker "nunca ... avanca um run em paused_human_gate -- a
\* decisao e humana": no approval of a gate comes from a worker's own resume.
PeopleDecideGates == \A r \in resolved : r.kind = "gate" => r.by = "person"

\* Every run_plan and resume_run call that is not killed returns to its caller.
CallReturns == \A p \in Procs : pc[p] # "idle" ~> pc[p] = "idle"

-----------------------------------------------------------------------------
(* What a reader of status.json and of the gate decisions sees of the engine *)

Contract == INSTANCE RunContract WITH
    run <- status.run,
    state <- status.state,
    done <- Cardinality(status.completed),
    approved <- {<<r.run, r.step>> :
                    r \in {x \in resolved : x.kind = "gate" /\ x.decision \in Approved}}

\* With one engine process at a time and no operator abort, the engine with its files,
\* its kills and its retries is a run of RunContract: the status only moves forward, one
\* step at a time, and past a gate only by the decision on that gate.
ImplementsContract == Contract!Spec

-----------------------------------------------------------------------------
(* The inductive invariant behind the safety properties (PlanRunnerProofs) *)

\* What status.json, or a copy of it, may say at any time.
CopyOK(s) ==
    /\ s \in Statuses
    /\ s.state = "absent" => s = Absent
    /\ s.state # "absent" => s.run \in 1 .. runs
    /\ \E k \in 0 .. N : k <= BudgetSteps /\ s.completed = 1 .. k
    /\ \A g \in s.completed \cap Gates : ApprovedIn(s.run, g)
    /\ \A i \in s.completed \ Gates :
            /\ <<s.run, i>> \in finished
            /\ s.mode = "external" => result[i] \in {"ok", "bare"}
    /\ s.state \in Resumable /\ s.tool => s.state = "paused_human_gate"
    /\ s.state \in Resumable \ {"running"} =>
            /\ s.paused \in Steps /\ s.paused <= BudgetSteps
            /\ s.completed = 1 .. (s.paused - 1)
            /\ s.state = "paused_human_gate" => (s.tool <=> s.paused \notin Gates)
            /\ s.paused \in Gates => asked[s.run][s.paused] # NoFingerprint
    /\ s.state = "done" => s.completed = Steps /\ s.run \in planDone

\* Where an engine process can be, and what it then has in memory.
ProcOK(p) ==
    /\ pc[p] # "idle" => mem[p].state # "absent"
    /\ pc[p] \in {"loop", "gate", "exec", "work", "ask"} => mem[p].state = "running"
    /\ pc[p] # "idle" /\ mem[p].state = "running" =>
            mem[p].completed = 1 .. ran[p] /\ pos[p] <= ran[p] + 1
    /\ pc[p] \in {"gate", "exec", "work", "ask"} =>
            ran[p] = pos[p] - 1 /\ pos[p] <= N /\ pos[p] <= BudgetSteps
    /\ pc[p] = "gate" => pos[p] \in Gates
    /\ pc[p] \in {"exec", "work", "ask"} => pos[p] \notin Gates
    /\ pc[p] \in {"work", "ask"} => mem[p].mode = "external"

IInv ==
    /\ TypeOK
    /\ \A s \in Copies : CopyOK(s)
    /\ \A p \in Procs : ProcOK(p)
    /\ runs > 0 => ver[PlanFile] # 0

=============================================================================
