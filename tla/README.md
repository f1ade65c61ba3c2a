# Verification of network-agents-setup

TLA+ models, TLC runs and TLAPS proofs for the programs of this repository: `plan_runner`
(`src/runner/plan_runner`), which executes a plan of agent steps over a run directory, stops at
human gates, and is resumed by people, by other programs and by workers that call a language model;
what stands around it and decides what it may do (the router, the plan policy, the council, the
memory, the knowledge base); and `economia-trader`, the one of the `oss/` programs that acts on an
outside system for money. The agents, skills, documents and vendored code are data.

Contents: [the system](#the-system) · [the modules](#the-modules) · [the runs](#the-runs) ·
[what was found](#what-was-found) · [what is proved](#what-is-proved) ·
[what is only model-checked](#what-is-only-model-checked) ·
[abstractions](#abstractions-and-what-they-leave-out) · [what is not modelled](#what-is-not-modelled) ·
[the plan](#the-plan)

To run it: `tlc -workers 2 -config PlanRunner_crash.cfg MCPlanRunner.tla` (likewise the other runs of
`PROJECT.json`; the longest take two to four minutes), and `tlapm PlanRunnerProofs.tla`
(likewise the other `*Proofs` modules, up to some minutes each).

## The system

All of a run's state is in the files of its directory. There is no lock and no daemon: every command
opens the files, works, and writes them back.

| Component | State | Operations | What it must guarantee |
|---|---|---|---|
| Native engine: `engine.py`, `executor.py`, `approval.py`, `done_when.py`, `events.py`, `abort_ops.py` | `status.json` (one dictionary, loaded once and written back whole), `plan.yaml`, `events.jsonl` (append-only), `pending_steps/<id>/request.json` and `result.json`, the artifacts | `run_plan`, `resume_run(decision)`, `abort_run`; inside: start a step, request a gate, execute, collect a result, finish | no gate without a decision in this run; steps in order, none skipped, none repeated; approvals bound to file contents; `max_steps` for the whole run |
| Plan files: `graph.py`, `langgraph_compile.py`, `policy.py`, `models.py` | none between calls | `validate_plan` (ids, unknown dependencies, depth-first cycle search), `check_plan` (the rules of `plan-policy.yaml`), `topo_order` (Kahn), `parallel_groups` | cycles refused, dependencies first, both engines agree; what is delivered was reviewed and approved after all the work it contains |
| Router: `router.py`, `areas.py` | none between calls | `route`, `clarify`, `escalate`, `build_plan`, `execute` | every request ends; a plan it makes is refused by the engine only for a repeated dependency or by the policy; risky areas end in an approval |
| External worker: `external_worker.py`, `tool_executor.py` | `result.json`, `tool_approval.json` (a paused conversation), `token_usage.jsonl`, `hitl-requests.jsonl` | `process` (one step), `run_tool_loop`, open and take up a tool approval, check the budget; stand-alone with `--resume` | `act` tools only after a human decided on a request that showed them, one execution each time a decision is taken up, limits respected and the token cap passed by one call of each worker at most, human gates left to humans |
| CLI and HITL contract: `cli.py`, `hitl.py`, `oss/hitlwright` | `hitl-requests.jsonl`, `hitl-decisions.jsonl` | choose the decision of a resume; write requests and decisions | the decision is one of this request |
| LangGraph engine: `langgraph_engine.py` | the same directory plus LangGraph's checkpoint | run, resume, waves in parallel, fallback | the same promises as the native engine, while two records of one run can disagree |
| Council: `council_session.py` | `council.json`, ledger, requests, decisions, `verdict.json`, a candidate in the memory | phases of a session, `decide`, `resume`, promotion of the candidate | vetoes hold, what is published was approved, no round is paid twice |
| L4 memory: `memory_l4.py`, `memory_wiring.py` | one append-only table in Postgres, promotion requests and decisions in files | `remember`, `promote`, `forget`, `decide`; a worker's `write_memories` | a fact goes only for a promoted correction; decisions are carried out; proposals reach a person |
| Knowledge base L5: `ingest_document.py`, `ingest_apply.py`, `supabase_writer.py`, `provenance.py` | `.md` files with sidecars in git, the MANIFEST, `knowledge_sources` and `knowledge_chunks` in Postgres | convert, validate, merge; a run over the MANIFEST: look, embed, replace, refresh | what is found of a source is one whole document; a run leaves what git says; the quota delays and does not starve |
| economia-trader: `trader.py`, `runner.py`, `grid.py`, `safety.py` | `state.json`, the kill-switch file; on the venue: orders and balances | ticks: reconcile, stop, exits, entries; submit, sync the venue's stop order | no fill booked twice, at most the market order already decided on is placed after the kill switch, a position gets its stop back |
| Skills, publishing, reports, MCP server, other `oss/` packages | outside services or none | I/O, rendering | |

How they interact: the router writes a plan file, `load_plan` checks it, an engine runs it. The CLI,
the MCP server and the stand-alone worker all call `resume_run` in processes of their own. The engine
calls a worker inline through the executor, or leaves a request and returns; the answer comes as a
`result.json` from anywhere. People decide gates by `resume --decision` or by a line in
`hitl-decisions.jsonl`, and they edit artifacts and the plan between the calls. A worker's step may
propose facts to the memory and a council writes its verdict there. Documents go through git into the
knowledge base, which workers read.

What is hard: two processes over one directory or one table; a kill between any two writes; a decision,
result or edit that arrives while somebody works on what was read before it; retries of work that was
partly done; a venue that fills at any moment. The hazards, each at its line and with the properties
aimed at it, are in `PROJECT.json`.

## The modules

| Module | Models |
|---|---|
| `PlanRunner` | the native engine over one run directory, any number of engine processes, the operator's abort, edits, kills, outside results and the stand-alone worker's `--resume` |
| `RunContract` | the abstract specification: what a reader of `status.json` and of the gate decisions is promised |
| `PlanGraph` | `validate_plan`, `topo_order` and `parallel_groups`, one action per call, return or turn of the queue |
| `PlanPolicy` (extends `PlanGraph`) | `load_plan`: the rules of `check_plan` between the search and the order |
| `Router` (extends `PlanPolicy`) | a request, the decision about it, the plan that comes out, and what `load_plan` makes of that |
| `ToolWorker` | `GeminiWorker.process`, the tool loop, tool approvals and the token cap, several workers |
| `Hitl` | the two files of the HITL contract and the choice `resume` makes from them |
| `WaveEngine` | the LangGraph engine: supersteps, checkpoint, status, fallback |
| `Council` | the council's session, its commands, and the memory they write |
| `MemoryL4` | the memory's table, commands on it, promotion requests and workers |
| `Convert` | how a document and its sidecar come into git: conversion, edits, merge |
| `Ingest` (extends `Convert`) | how the knowledge base follows main: runs of `ingest_apply` against Postgres |
| `Trader` | `economia-trader` under its two loops, on a venue |
| `PlanRunnerProofs`, `PlanGraphProofs` (also of `PlanPolicy` and `Router`), `ToolWorkerProofs`, `WaveEngineProofs`, `CouncilProofs`, `MemoryL4Proofs`, `IngestProofs`, `TraderProofs` | inductive invariants and theorems |
| `MCPlanRunner`, `MCRouter`, `MCToolWorker`, `MCHitl`, `MCWaveEngine`, `MCCouncil`, `MCStores`, `MCTrader`, `MCWaves`, `MCApart` | the instances for TLC |

Two compositions: `PlanGraph` → `PlanPolicy` → `Router` is the way of a plan from a request to the
order an engine walks, each module adding its step between those of the one below; and `Convert` →
`Ingest` is the way of a document from a file on somebody's disk to the rows that are found. `Council`
contains the part of `memory_l4.py` it calls. Three instances put modules side by side that share no
state, each behaviour being about one of them, so that one run checks them both: `MCStores` (memory and
knowledge base), `MCWaves` (LangGraph engine and workers) and `MCApart` (router and trader).

### PlanRunner and the code

A step is named by its place in `topo_order`, so that a dependency always has a smaller number (an
assumption of the module, and what `PlanGraph` shows of the order). Contents of files are version
numbers; `ver[0]` is `plan.yaml`. `status` is `status.json`; `mem[p]` is the dictionary that the
process `p` loaded and writes back; `pos[p]` and `ran[p]` are the loop over the order and `steps_run`.
`pc[p]` is where the process is between two effects that somebody else can see:

- `loop`: before an iteration. `SkipStep`, `OverMaxSteps`, `StartStep` and `FinishRun` are the ways it
  can go (`engine.py:262-282` and its copy in `resume_run`, `455-469`).
- `save`: the status is about to be written. Each `save_status` is an action of its own (`Save`),
  since this is where another process' write is lost and where a kill truncates the file.
- `gate`: `RequestGate` logs the request with the fingerprint of plan and artifacts.
- `exec`, `work`, `ask`: the executor. It refuses (`RefuseStep`), writes the request (`RequestStep`),
  calls the inline worker (`CallWorker` until `WorkerAnswers` or `WorkerPauses`), and collects
  (`CollectResult`, `CollectFailure`).

`resume_run` is one action per kind of pause: `ApproveGate`, `RejectGate`, `RenewRequest`,
`ResumeTool`, `ResumeStep`. `MayContinue` is `verify_past`, `Changed` is `changed_since`.
`AbortReads` and `AbortWrites` are the two halves of `abort_run`. `WorkerStarts` to `WorkerResumes` are
`python -m plan_runner.external_worker <run> --resume`. `resolved` has one field the event does not
have, `by`: who called `resume_run` (the event always says `human/cli`). Only `PeopleDecideGates`
reads it.

`RunContract` has six actions: begin a run, approve the gate that comes next, advance by one step, move
between open states, close, lose the file. `ImplementsContract` maps `run`, `state` and the number of
completed steps to `status.json` and `approved` to the decisions in the log. It holds of one engine
process at a time without aborts; with more processes the status does move back, and what remains then
is what is proved below for every number of processes.

### PlanGraph, PlanPolicy, Router and the code

The recursion of `dfs` is an explicit stack. In-degrees are counted as the code does, by entries of
`depends_on`, while the queue takes an id off once: that is how a repeated entry makes a plan that
`validate_plan` accepts unorderable (`OnlyRepeatsAreUnorderable`). The waves are a recursive function.

`PlanPolicy` knows a step by what its action is to the rules (a gate, the leader of the vertical with a
profile, a reviewer, a publication, other work). `CheckPlan` takes the rules over the graph one by one
(`CoveredOrAfter`, `DeliveryRule`, `ReviewRule`, `LeaderRule`); those over one field are one choice to
refuse. `Files` is every plan file over the ids.

`Router`'s `route` is the `RouteDecision` and how far it has come; each branch of `route` is an action
(`NoKeyword`, `OneArea`, `AmbiguousArea`, `Escalate`, `OneAgent`, `NoSpecialist`, `AsksModel`, ...).
What a model answers and which area an embedding finds are inputs. `Clarify` is a new round with the
words of both, `Approval` is the gate `build_plan` appends, `Execute` hands the plan to `Load`.

### ToolWorker, Hitl and the code

`phase[w]`: `load` is `_tool_approval_resume`, `turn` to `act` is `run_tool_loop`, `save` and `asked` are
`_open_tool_approval` and the pause that follows, `final` and `write` are the end of `_run`. The loop's
`state` that is saved in `tool_approval.json` is `loop[w]` with its batch; `answered` stands for the
length of the conversation and `calls` for the counter that the code keeps beside it. A call is a
`call_key`. Invalid, unknown or refused calls are among `Free`: they are answered with an error and
change nothing. `executed` and `tries` are history counters that stop at `Often`. The guard of `Ask` on
`MaxRequests` and the other `Max...` constants are bounds and no part of the code.

Of what a decision is good for there are two statements. `OneCallPerTakeUp` holds and is proved: each time a
worker reads a decision from the file it executes the call at most once. `OneCallPerDecision` is what
`WORKER-EXTERNAL.md:440` says, one call for one decision; it is violated (`twice`). Likewise for the cap:
`OvershootIsOneCallEach` is what the check before each call achieves, `OvershootIsOneCall` what `BUDGET.md`
says, and the latter is violated (`overshoot`).

In `Hitl` a run meets waits of two kinds in a given order. `Resume` is the command line: what it reads
and chooses; `ResumeRun` is what the engine does with it, `ResolveToolApproval` writing into the
decisions file and `ResolveGate` only into the log.

### WaveEngine and the code

`cp` is the checkpoint (steps done, nodes to run next, writes of the finished nodes of a superstep that
is not over), `status` what `status.json` says, `node[s]` where the node of step `s` is. A node goes
`todo`, `working`, `done`, or stops at an interrupt, at a pause or with an error; `Barrier` ends a
superstep in which every node has. `Conclude` and `Interrupted` write the status at the end of a
call. `FallbackAt` to `FallbackEnds` are the second way through the waves, which a call takes when the
graph failed. `InvokeFails` is not that: it is a resume that finds no checkpoint, and its error goes to
the caller. `Load` to `Resume` are `resume_plan_langgraph`. What LangGraph itself does is external and in the
module's header.

### Council and the code

`disk` is `council.json`, `sess[p]` a command's copy. `pc[p]` follows `advance` through the stages;
`Enter` dispatches on the stage, `Asking`/`Answered`/`CallFails`/`SaveAnswer` are the calls of
`independent` and `peer_rank`, `Synthesize` the chairman, `Gate` is `run_gate`, `Remember` to `Await`
open the request, `PromoteReads` to `Close` and `Revise` carry a decision out. `paid` counts the
calls of a round and stands for the ledger.

### MemoryL4, Convert, Ingest and the code

A statement of SQL, or the statements up to a commit, is a step; what a SELECT returned may be stale
when it is used. In `MemoryL4`, `PromoteReads`/`PromoteWrites`, `ApproveReads`/`ApproveWrites` and
`RememberReads`/`RememberWrites` are such pairs. `ConnectionFails` is the exception in
`write_memories`, which includes an answer to a commit that does not arrive.

In `Convert`, `conv` is a conversion: the child writes a `.part` file piece by piece and renames it,
the parent reads it, then the `.md` and the `.meta.yaml` are written one after the other. `Merge` is the
pull request's test. In `Ingest`, `run[r].at` follows `apply_one`: `next` (`LeaveOut`, `Look`), `count`
(`Count`, `OverBudget`, `Embed`), `same` (`Refresh`), and the transaction of `replace_chunks`: `upsert`
(which locks the row), `delete` (which sees what is committed), `insert` (`Commit`). The rows a commit
inserted are one batch, with who inserted them, their text and their number. `alone`, `wrote`,
`skipped` and `failed` only serve the properties.

### Trader and the code

A tick is a walk through phases in `pc`; `back` is where `reconcile`, which submitting an order runs
again, returns to. `book` and `stop` are the position the trader believes in and whether it has a stop
price, `rest` the stop order it knows of, `orders` the venue's side, `disk` is `state.json`. A failed call has both outcomes: nothing
arrived, or the order did; `PlaceStopFails` keeps the symbol noted in both, as the code does for a refusal.
`late` counts the market orders that `submit` places after the kill switch. Stop orders are placed by
`PlaceStop` without a look at the switch, as in the code (see what was noticed, below).

## The runs

| Run | Bounds | Shows |
|---|---|---|
| `crash` | 1 engine process, 3 steps in a chain, step 2 a gate, two artifacts, 2 kills, 2 edits, `max_steps` 3 | no gate and no step is skipped, work that counts is not done again, the engine's own writes never invalidate an approval, a pause can be answered; `RunContract` is implemented. 1.5 million states |
| `rerun` | 1 process, 2 runs in the directory, a gate and a step without dependencies and a step after both, both modes, `max_steps` 2 of 3 steps, knowledge needed, 1 abort, 1 stand-alone worker; fairness | a completed step has its event in its own run and a result that says ok, `max_steps` holds for each run over its resumes, each call returns. A `result.json` that the first run left may be collected in the second, as the code does |
| `apart` | plan files: every file of 3 steps with up to 2 `depends_on` entries over 3 ids and an unknown one, also with a repeated id; routed plans of up to 2 steps and an approval, 4 areas, 2 hits per area, 2 rounds of questions. Or the trader: both loops, buys of 1 or 2 units, 2 lots, 1 unit the owner had, 3 orders, 1 failed call, expired order, kill, sale by hand or switch; fairness | plan files: search, order and waves are right; what is ordered was reviewed and approved in that order; a routed plan is never refused for its ids, an unknown dependency or a cycle, but only for a repeated dependency or by the policy, and every request ends. Trader: fills are booked once, one market order after the kill switch, the book follows the account, the stop order comes back. 0.4 million states together |
| `waves` | LangGraph: a diamond with a gate beside a step, and a plan whose last step is triggered twice; 2 runs, one edit, kill or torn result, all pauses and answers; fairness. Or workers: 2 on 1 step, one `act` and one other call, batches up to 2, 3 turns, 2 calls, cap 2, and either 2 requests and 1 kill or 1 request and the cap raised to 3 | LangGraph: status, checkpoint and log agree, an `approve` is of what its request showed for every gate whose request could be seen when it was given (gates first asked in the same superstep are exempt: the code hands one answer to them all), nothing done is lost (`ProgressKept`), a run that says done is (`DoneIsComplete`), every call ends. Workers: approvals, limits and cap under retries and races. 0.4 million states together |
| `council` | 1 command at a time, 2 members of which one is required, 2 rounds, 4 commands, 2 kills or failures; fairness | vetoes hold, what is active or published was approved, no round is paid twice, every command ends. 0.5 million states |
| `stores` | memory: 2 processes, 3 facts of which agents write 2, a step proposes 2, 1 cut off; knowledge base: 2 runs, a document and a pack, texts of 1 and 2 chunks, 2 agents, budget 2, 1 edit or conversion, 1 kill, cancel or lost row | memory: corrections wait for their promotion, decisions are carried out, proposals are asked about. Knowledge base: a source is whole, and a run leaves what its checkout says. 2.8 million states together |
| `worker`, `oldgate`, `twice`, `overshoot`, `joins`, `nostop` | the smallest instances that show them | the disagreements below |

Why the bounds are enough to see the cases that matter. A chain of three has a step before, at and
after a gate, so that a repeat, a skip, a stale approval and a wrong resume are all possible; two kills
allow one in the work and one in its repeat; two edits allow a change and its undoing. In `apart`, three
steps have every shape a cycle, a diamond's half or a repeated entry needs, and routed plans add the
approval that `build_plan` appends to its sinks. For the workers of `waves`, three turns are one before the approval,
the approved one and one after, and two requests allow the workers to race for `tool_approval.json`. A
council of two has a member with a veto and one without, and needs two rounds for a revision. In
the trader of `apart` the smaller size fills at once and the larger in parts, and three orders are an entry, an exit
and the stop. In `stores`, two processes suffice for every race over a row (one looks, one writes), three
facts are an original and two corrections or a step's two facts and a correction, and a budget of two
chunks takes both sources or only one. Where more processes matter, the proofs remove the bound.

Two things shorten `stores`, and leave nothing out. `Undisturbed` lets a process that has only made up
its mind (what it will remember, how many facts it will write) do so just before its first statement;
`Untouched` lets what happens in the repository happen before a run has begun its work, since a run
sees the repository only through the checkout it starts with. `FewProposals` is a bound. Commands,
workers and runs are interchangeable, so symmetry is sound: no property of the run is temporal.

`InTime` shortens the workers' part of `waves` in the same way: a person's answer comes when the request is
the one the run pauses for or the one a worker is about to look up, and the cap is raised when it is
reached. Before that nobody reads either. `RaisedAlone` is a bound.

Deadlock is not checked: a run that is finished, or waits for people who never come, stops, and every
bound ends a behaviour.

Fairness is that of the operating system's scheduler: a process of the code that was not killed takes
its next step (`WF` of the engine's loop and executor in `FairSpec` of `PlanRunner`, `Engine` in
`WaveEngine`, `Loop` in `Trader`, `Work(p)` in `Council`, `Works` in `Router`; `GoesOn` of `MCApart` is
`Works` or `Loop`, whichever the behaviour is about). Calls to a model or
a venue are steps of it, with their failure: the HTTP clients have timeouts. Nothing is assumed of
people, of outside workers, of a venue's fills, or of starting a call: `Works` puts no request and
answers no question, and a question that waits for its answer is one of the ends in `EveryRequestEnds`.

## What was found

Each of these is a run that TLC ends with a counterexample; the quotes are in `PROJECT.json`.

- `worker` (`PeopleDecideGates`): the stand-alone worker resumes with `approve` whatever the run has come to wait for, the
  next gate included.
- `oldgate` (`DecisionsKeepTheirRequest`): at a gate the command line takes the last decision of the file, whatever request it
  answers, and the engine itself writes answers to tool requests there.
- `twice` (`OneCallPerDecision`): a decision is taken up again when the step is retried after the call was
  executed, and the approved call is executed a second time; `WORKER-EXTERNAL.md:440` says each
  decision is for one call.
- `overshoot` (`OvershootIsOneCall`): the cap is checked before a call and the tokens are recorded after it, so
  two workers pass it by two calls; `BUDGET.md:17` and `:42` say one.
- `joins` (`GatesComeFirst`): with LangGraph, a step that depends on a gate and on the gate's own predecessor runs
  beside the gate, before anybody approved it.
- `nostop` (`PositionHasStop`): a buy still pending when the stop closes the position brings it back without a stop.

Noticed while modelling and visible in the models, without a run of their own:

- An abort while an engine works is overwritten by the engine's next save, and `abort_run` has the same
  gap the other way (`engine.py:517-519`, `abort_ops.py:20`).
- `reject` skips the check of past approvals (`approval.py:14-15`); at a pause that is no gate the run
  continues although an approved file changed.
- The strict policy of `hitl.py` never applies to what the runner asks, since every request has source
  `plan_runner`.
- The router's token record drops the usage of the first round after a `clarify`, and `execute` records
  it after `run_plan`, so that a resume counts it again.
- A model's plan whose `depends_on` lists a step twice passes the router's and the graph's checks and
  fails in `topo_order`; and one whose agents publish, or do not all depend on the leader, is refused by
  `check_plan`, which the router does not consult. `RoutedPlanIsKept` states that these are the only
  refusals left.
- The trader places its stop orders on the venue without reading the kill switch (`trader.py:244`), where
  `economia-trader/README.md:74` says that the switch "blocks every new order, all modes". A stop order
  reduces the position, so this may be meant; `OneMarketOrderAfterKill` is about market orders only.
- An exit cancels the venue's stop so as to "never sell twice" (`trader.py:137`), and the reconcile that
  follows places it again while the sell is still open. No property covers it (it is listed as a hazard).
- `plan-policy.yaml` says an approval covers all the other steps; in the code other gates are exempt.
- A council killed between the save of a new round (`council_session.py:868`) and the first save of the
  next stage awaits a person and has no request.
- In the memory, `promote` does not look at the status again when it writes (`memory_l4.py:261-283`): a
  fact forgotten or superseded in between comes back active. `decide` stops at such a fact, and the
  request can then not be approved any more.
- Nothing calls `purge_one`: a source that leaves the MANIFEST stays in the knowledge base. A merge
  that changes only a `.meta.yaml` starts no ingest run, since the workflow's paths are `docs/**/*.md`
  and the code. A source with more chunks than `--max-chunks` is passed over in every run, without a
  failure, and a changed file that is passed over does not get its sidecar's new status either.
- The chunks embedded of a source that fails half-way are not counted in the budget
  (`ingest_apply.py:255-259`). `apply_one` reads the text and the hash one after the other, which in a
  working tree that changes could store an old text under a new hash (a workflow's checkout does not).

## What is proved

Each theorem is for every value of the module's constants, from its named assumptions (types, shapes
that the code guarantees), and for every bound: any number of processes, kills, edits, rows.

| Module | Theorems | Properties |
|---|---|---|
| `PlanRunnerProofs` | `TypeCorrect`, `GatesAreApproved`, `NoStepSkipped`, `MaxStepsKept`, `CompletedWorkIsBacked`, `PausesAreAnswerable` | `TypeOK`, `GateNeedsApproval`, `NothingSkipped`, `WithinMaxSteps`, `CompletedIsBacked`, `PauseIsAnswerable` |
| (one engine process) | `ContractIsImplemented`, `StepsRunOnce`, `ApprovalsOutliveTheEngine` | `ImplementsContract`, `NoRework`, `EngineKeepsApprovals` |
| `ToolWorkerProofs` | `TypeCorrect`, `ActsAreApproved`, `OneCallEach`, `CallsAreBounded`, `OvershootIsBounded`, `DecisionsComeFirst` | `WorkerTypeOK`, `ActNeedsApproval`, `OneCallPerTakeUp`, `WithinMaxCalls`, `OvershootIsOneCallEach`, `NothingBeforeDecision` |
| `PlanGraphProofs` | `SearchFindsCycles`, `OrderIsTopological`, `RepeatsAlone`, `WavesFollowTheOrder`; of `PlanPolicy` `ReviewPrecedesApproval`, `CheckedOrderIsTopological`; of `Router` `RoutedPlansAreKept`, `RoutedPlansAreOrdered` | `CycleIsFound`, `OrderRespectsDeps`, `OnlyRepeatsAreUnorderable`, `WavesAgree`; `WorkIsReviewed`; `RoutedPlanIsKept` |
| `WaveEngineProofs` | `CompletedWorkIsBacked`, `ApprovalsAreOfWhatWasAsked`, `DoneRunsAreComplete`, `StatusKeepsProgress`, `NothingDoneTwice` | `CompletedIsBacked`, `ApprovesWhatWasAsked`, `DoneIsComplete`, `ProgressKept`, `NoRework` |
| `CouncilProofs` | `ApprovalsComeFromPeople`, `VetoesHold`; of one command at a time `RoundsCostTheirCalls` | `ApprovedByAPerson`, `VetoHolds`, `CostPerRound` |
| `MemoryL4Proofs` | `CorrectionsWait`, `DecisionsAreCarriedOut`, `ProposalsAreAsked` | `CorrectionWaits`, `DecisionsTakeEffect`, `EveryProposalIsAsked` |
| `IngestProofs` | `SourcesStayWhole`, `BudgetStarvesNone`, `RunsLeaveTheirCheckout` | `SourcesAreWhole`, `SkippedForProgress`, `RunLeavesCheckout` |
| `TraderProofs` | `KillSwitchHolds`, `FillsAreBookedOnce` | `OneMarketOrderAfterKill`, `NothingBookedTwice` |

None of the properties is inductive; each module states its inductive invariant as a theorem too.

**PlanRunner.** A save copies a process' memory over the disk, a resume copies the disk into memory, an
abort keeps a copy of its own, so a property of `status.json` needs the same of every copy. `IInv` is
therefore stated of *copies*: `CopyOK(s)` holds of the disk, of the abort's copy and of every process'
memory. It says that the completed steps are a prefix `1 .. k` with `k <= max_steps`, that their gates
were approved in that copy's run and the other steps have their event and result, and what a paused
copy waits for. Everything it refers to outside the copy only grows, so a copy that is OK stays OK
whatever the others write (lemma `Carry`). `ProcOK(p)` adds where a process may be.

Three theorems have a hypothesis on the constants. `OneEngine` is one process and no operator abort:
with a second writer of `status.json` the status moves back and a step is done again (a hazard of its own),
so the contract cannot hold. `SoloInv` says what is left of the copies then: outside a save the process
has in memory what is on disk, and in a save it is one step of `RunContract` ahead (`OneWriteAhead`). A
step of the engine is therefore a step of the contract or changes nothing it speaks of, and a step
that is started is the one after the completed ones. `EngineKeepsApprovals` needs `OneRun` as well, a
directory that has seen one run: in a second run the artifacts of later steps are still there from the
first, the fingerprint of a gate includes them, and the engine's own next step rewrites one (TLC shows it
with `MaxRuns = 2`; the gate is then asked again, which is safe). `FilesInv` says that in a first run no
step that the run has not come to has an artifact.

**ToolWorker.** A saved loop (`SaveOK`) has executed none of its batch and waits for exactly the `act`
calls of the batch, which are those its request shows; so taking it up decides every one of them. In
`act` (`DecisionsOK`) a decision is about a call still to come, hence none survives into the next turn.
The two counting properties need the set of those who may still act: `UsesOK` adds to the executions of a
call the workers that hold its approval, `SpentOK` adds to the tokens spent one call for each worker
that was already checked against the cap; every step keeps the sums.

**PlanGraph.** The search: the call stack is a path of the graph, `visiting` are the steps on it, and
the ancestors of a finished step are finished and without it, so that a step met twice while visited
closes a cycle and a search that ends has found none. The queue: an in-degree is the length of the
`depends_on` less the entries that were ordered, each entry counted once; a queue that runs dry leaves
steps that each wait for another or repeat an entry, and in a graph without cycles the strict inclusion
of ancestors finds one that waits for nobody, so that only a repetition is left.

The waves: `Placed` is a recursive function, so that it exists for a plan of any length has to be shown
(`WavesExist`) before its equations can be used (`PlacedIs`), and both that and what it holds are
inductions over the wave. The library's induction theorems cannot be applied here, so a set of counterexamples
is given its least element instead (`NatLeast`, from the well-foundedness of `<`). A step whose
dependencies are all placed joins the next wave (`PlacedGrows`), and the order of `topo_order` never meets
a step before its dependencies, so after `k` waves the first `k` steps of the order are placed
(`OrderIsPlaced`).

**PlanPolicy.** What is ordered is the plan that `check_plan` accepted; its rules speak of `depends_on`,
and the order respects that, directly and through ancestors.

**Router.** `RouterInv` is `PolicyInv`, which each action of the router keeps because it either leaves the
plan alone or hands one over (`PolicyLoadInv`), and what the router knows of its decision: one that
delegates (`Delegates`) has an area, that area's risk and at most its limit of steps, each depending on
earlier ones (`Named`). Of such steps `build_plan` makes distinct ids, a graph that goes forward and an
approval that depends on every step nobody depends on (`PlanIsBuilt`). A forward graph has no cycle
(`ForwardIsAcyclic`), so nothing but a repeated dependency or a rule can refuse it, and the rules over the
graph hold of it unless an agent publishes or does not depend on
its leader (`AgainstPolicy`); and the latest step
that is not behind the approval would have one after it that is not either (`AllBehindGate`), so the
approval has all the others before it in the order. That the ids suffice for the limits, differ from one
another and from the approval's (`RouterAssumption`) is what `p1_...`, `p2_...` are.

**Council.** Every copy of the session, on disk or in a process, is backed (`Backed`) by the row and the
request it names, rows keep their verdict and veto, requests never change; so whichever copy is
written back last, an approval is one on a request that shows the row that becomes active.
`RoundsCostTheirCalls` assumes one command at a time, because two at once both call the members and the
round is paid twice. `CostInv`: what was paid of a round is what the copy of the session in memory holds of it
(`Worth`: positions, ballots, verdict) and the failures, and the file holds all but one answer of that
(`Pending`), so a kill costs one call more and is a failure itself.

**WaveEngine.** `IInv` relates three records. `Tasks`: the nodes of a superstep are those the checkpoint
names, less those whose writes it stored. `Backed`: what status and checkpoint count is in the log.
`Ahead`: the status is ahead of the checkpoint in a run that fell back only, which is why no superstep
repeats work (`NothingDoneTwice`). `Answered`: when an approving answer is taken up, every asked gate that is still
undecided is one of this call's request or was asked during the call, and after `approve` the files of
those in the request are as they were shown. `Reached`: a
step the graph has not come to waits for dependencies of which none is done, and in a plan without a
cycle the set of such steps is empty once nothing is left to run; that is `DoneRunsAreComplete`, and
why the module assumes of a plan what `validate_plan` guarantees.

**MemoryL4.** `TableOK` are the links between facts: who supersedes says whom it corrects, and was
promoted. `Done` is what no later step undoes (promoted once, archived once), so a decision that is
recorded over facts that are done stays carried out, also when two commands decide at once. A fact of
an agent is with one worker, in one request or lost.

**Ingest.** From its upsert to its commit a run has the lock of the row of the source, so nothing else
changes its batches; what its DELETE saw (`gone`) is therefore all there is when it commits (`Fine`), and
the source has one batch, of the text its row names. `Good` carries through the repository that a
converted document which the MANIFEST lists on main is not torn. `Thrifty` is the budget: what is used
up was written, or is about to be, or belongs to a source that failed. `CheckoutInv` is about a run
that is alone: what it read of a row is still so when it is used (`Current`), and each source it has been
through has the row of its checkout and one full batch (`Mirrors`), whether it wrote it or found it so.
That a source found in place is complete rests on `Regular`, which every row ever written has: it counts
the chunks of its own text. The number of rows is a sum over batches, of which only that of no batch and of
one are needed (`NoRows`, `RowsOfOne`); these are shown by giving the function the fold recurs through.

**Trader.** The kill switch: an order on its way was authorised while the switch was open, and no
market order was placed since. The book: that it is not above what was bought does not carry itself through a reconcile, which
adds what an order filled since it was last asked about. `Keeps` adds that to it: the book, with all that the
orders waited for have filled and it has not counted yet, is not above what was bought. This must hold of the
book in memory and of the one in `state.json` (`BookInv`), since a kill makes the second the first and the
same fills are asked about again. A fill moves both sides by one unit, booking moves owed to booked, and an
order whose number comes back (`Place`, an order that arrived although the call failed) is in nobody's book.

No RECURSIVE operator occurs in the modules under the proofs; recursive definitions are functions, and
what one computes is proved only where a least counterexample or a given function shows it, as above.

## What is only model-checked

- Liveness (`CallReturns`, `CommandReturns`, `EveryRequestEnds`, `BookComesDown`, `ProtectedAgain`),
  which is out of reach of the proof system as used here.

## Abstractions and what they leave out

- `PlanRunner`: the steps of the plan do not change while the model runs. A person may edit `plan.yaml`
  (its version changes and approvals notice), but the effect of different steps is not modelled.
  `SkipStep` takes the `continue` of `resume_run` for unmet dependencies also where `run_plan` raises;
  `NothingSkipped` shows that neither is reached. A step's artifact and its `step_finished` event are one
  action, as are a gate's decision in the log and its artifact: a kill between them leaves less than the
  model's state before the save, and the step or the decision is repeated in both. A result that says
  ok without content (`bare`) writes no artifact; that the worker wrote the file itself is covered by
  edits. An exception that is not one of the engine's own errors ends a process like a kill.
  `result.json` is written in one piece; `status.json` and `tool_approval.json` can be torn.
  No two steps share an `output_artifact`: files are keyed by step. Nothing in `validate_plan`,
  `check_plan` or the schema forbids it, and `EngineKeepsApprovals` rests on it, since a later step that
  writes a file a gate has seen takes the approval away. `StartStep` saves `current` and logs
  `step_started` in one action, so that save (`engine.py:272-273`, `466-467`) cannot be torn.
- `ToolWorker`: prices (the cap in USD), the projected budget, prompts, memory and sources are left out;
  the cap is in tokens and is only raised.
- `PlanPolicy`, `Router`: rules over one field of a step are a choice to refuse; prompts, skill modes, token
  amounts and the log of decisions are left out.
- `WaveEngine`: one engine process; LangGraph as the module's header says. The saves of the fallback between
  its waves (`current_wave`, `current_step`; the state stays running) are left out, and `status.json` is
  not torn here (it is in `PlanRunner`).
- `Council`: a call costs one unit; what members say is a vote, a veto or an error; ballots have no
  content. `save` writes `council.json` and then `status.json` (`council_session.py:618`, `627`); the model
  writes both at once and tears neither. `max_tokens` is one value, not a field of each copy.
- `MemoryL4`: one scope; no expiry, recall or embeddings; a fact's text is its place.
- `Ingest`: a text stands for its hash, so a run's checkout is fixed and the two reads of a file agree; the
  migration runs between runs only; provenance is one value; `--only`, `--dry-run` and `--force` are not
  used. Retries after HTTP 429 are inside `Embed`.
- `Trader`: one symbol, market orders, prices as choices; the paper broker is left out. A call that failed
  and one that was refused both leave a stop order to the client side, as in the code; `ProtectedAgain`
  accepts either.

## What is not modelled

Listed with reasons in `PROJECT.json`. In short: retrieval from the knowledge base and the memory,
chunking and embeddings are queries and I/O; publishing is an HTTP client; skills are texts and a static
scanner; reports, inventory and dashboards only read; `plan_import` turns a text into a plan; the MCP
server is one more engine process; the other `oss/` packages are programs of their own, and the trader's
forecasting, tuning and backtests are computations over prices; the TypeScript packages are archived;
agents, skills, docs and configuration are data.

## The plan

In order of importance, with what each should state:

1. (done) The native engine, its contract, plan files and router, tool worker, HITL contract, LangGraph
   engine, council, both stores, trader, and the proofs above.
2. `WaveEngine` against `RunContract`, with a second process.
3. `Trader`: several symbols, the drawdown halt of `risk.py`, the paper broker.
4. The memory's expiry and scopes; the council's second process in a run of its own.
