------------------------------ MODULE ToolWorker ------------------------------
(***************************************************************************)
(* The external worker of plan_runner (external_worker.py) with the tool     *)
(* loop it runs (tool_executor.py): what one call of GeminiWorker.process    *)
(* does for a step, and what several of them do to the files they share.    *)
(*                                                                         *)
(* A worker may be inline (called by an engine process, or by one node of a  *)
(* LangGraph wave) or stand-alone.  They share the ledger of tokens, whose   *)
(* sum is compared with the cap before each call of the model, and, when     *)
(* they work on the same step, its result.json and tool_approval.json.       *)
(*                                                                         *)
(* A tool call is identified by call_key (id, name and arguments): here a    *)
(* member of Calls.  Those in Act are of level `act', change things, and     *)
(* wait for a human; the others run at once.                                *)
(***************************************************************************)
EXTENDS Integers, Sequences, FiniteSets

CONSTANTS
    Workers,
    Alone,          \* the workers that no engine called
    ToolSteps,
    StepOf,         \* StepOf[w]: the step that worker w is given
    Act,            \* the `act' calls the model may ask for, valid and allowed in the step
    Free,           \* every other call
    MaxBatch,       \* bound: calls the model asks for in one turn
    MaxTurns,       \* tool_limits.max_turns
    MaxCalls,       \* tool_limits.max_tool_calls
    MaxCost,        \* bound: tokens of one call of the model
    FirstCap,       \* budget.max_tokens of the plan
    MaxCap,         \* bound: the cap a person may raise it to
    MaxRequests,    \* bound: approval requests opened
    MaxAnswers,     \* bound: decisions written for one request
    MaxWorkerKills, \* bound: workers killed
    Often           \* bound: where the two history counters stop counting

Calls == Act \union Free
Requests == 1 .. MaxRequests
Responses == {"approve", "reject", "edit"}
Batches == UNION {[1 .. k -> Calls] : k \in 0 .. MaxBatch}

ASSUME WorkerAssumption ==
    /\ IsFiniteSet(Workers) /\ Workers # {}
    /\ Alone \subseteq Workers
    /\ StepOf \in [Workers -> ToolSteps]
    /\ Act \cap Free = {}
    /\ MaxTurns \in Nat \ {0} /\ MaxCalls \in Nat \ {0}
    /\ MaxBatch \in Nat \ {0} /\ MaxCost \in Nat \ {0}
    /\ FirstCap \in Nat /\ MaxCap \in Nat /\ FirstCap <= MaxCap
    /\ MaxRequests \in Nat /\ MaxAnswers \in Nat /\ MaxWorkerKills \in Nat
    /\ Often \in Nat \ {0}

VARIABLES
    hasResult,  \* hasResult[s]: there is a result.json
    saved,      \* saved[s]: tool_approval.json
    spent,      \* the sum of token_usage.jsonl
    cap,        \* token_cap
    opened,     \* requests in hitl-requests.jsonl so far
    shown,      \* shown[r]: the calls request r shows to the human
    answers,    \* answers[r]: its lines in hitl-decisions.jsonl, oldest first
    paused,     \* the request of status.tool_approval while paused_human_gate, or 0
    phase,      \* phase[w]: what w does next
    loop,       \* loop[w]: the state of its run_tool_loop
    approvals,  \* approvals[w]: the decisions it has not used up
    req,        \* req[w]: the request they come from, or the one it has just opened
    executed,   \* history: executed[r][a], how often `act' call a was executed on request r
    tries,      \* history: tries[r], how often the decision on r was taken up
    kills       \* counter for the bound

files == <<hasResult, saved>>
money == <<spent, cap>>
hitl == <<opened, shown, answers, paused>>
inMemory == <<phase, loop, approvals, req>>
history == <<executed, tries>>
workerVars ==
    <<hasResult, saved, spent, cap, opened, shown, answers, paused, phase, loop, approvals, req,
      executed, tries, kills>>

\* turn and calls are the counters of run_tool_loop; answered is how many calls the
\* conversation (contents) has responses for; batch is the model's last request, of which
\* `at' is the next call.
Loops == [turn : 0 .. MaxTurns, calls : 0 .. MaxCalls, answered : Nat, batch : Seq(Calls),
          at : 1 .. MaxBatch]
Fresh == [turn |-> 0, calls |-> 0, answered |-> 0, batch |-> <<>>, at |-> 1]

NoApprovals == [a \in Act |-> "none"]

\* tool_approval.json: absent, or cut short by a kill (req -1), or a paused loop.
Saves == [req : -1 .. MaxRequests, pending : SUBSET Act, state : Loops]
NoSave == [req |-> 0, pending |-> {}, state |-> Fresh]
TornSave == [NoSave EXCEPT !.req = -1]

WorkerInit ==
    /\ hasResult = [s \in ToolSteps |-> FALSE]
    /\ saved = [s \in ToolSteps |-> NoSave]
    /\ spent = 0
    /\ cap = FirstCap
    /\ opened = 0
    /\ shown = [r \in Requests |-> {}]
    /\ answers = [r \in Requests |-> <<>>]
    /\ paused = 0
    /\ phase = [w \in Workers |-> "idle"]
    /\ loop = [w \in Workers |-> Fresh]
    /\ approvals = [w \in Workers |-> NoApprovals]
    /\ req = [w \in Workers |-> 0]
    /\ executed = [r \in Requests |-> [a \in Act |-> 0]]
    /\ tries = [r \in Requests |-> 0]
    /\ kills = 0

Goes(w, label) == phase' = [phase EXCEPT ![w] = label]

\* process returns or raises; what the worker had in memory is gone.
Leave(w) ==
    /\ Goes(w, "idle")
    /\ loop' = [loop EXCEPT ![w] = Fresh]
    /\ approvals' = [approvals EXCEPT ![w] = NoApprovals]
    /\ req' = [req EXCEPT ![w] = 0]

OnceMore(n) == IF n < Often THEN n + 1 ELSE n

-----------------------------------------------------------------------------
(* process, up to the tool loop *)

\* A result is there: nothing to do.  check_hitl and check_budget come next.
Start(w) ==
    /\ phase[w] = "idle"
    /\ ~hasResult[StepOf[w]]
    /\ paused = 0
    /\ spent < cap
    /\ Goes(w, "load")
    /\ UNCHANGED <<files, money, hitl, loop, approvals, req, history, kills>>

SaveOf(w) == saved[StepOf[w]]

BeginLoop(w) ==
    /\ phase[w] = "load" /\ SaveOf(w) = NoSave
    /\ Goes(w, "turn")
    /\ UNCHANGED <<files, money, hitl, loop, approvals, req, history, kills>>

\* _read_json raises, every time.
CannotLoad(w) ==
    /\ phase[w] = "load" /\ SaveOf(w) = TornSave
    /\ Leave(w)
    /\ UNCHANGED <<files, money, hitl, history, kills>>

\* Nobody decided: ToolApprovalPending for the request that is there.
StillPending(w) ==
    /\ phase[w] = "load" /\ SaveOf(w).req > 0
    /\ answers[SaveOf(w).req] = <<>>
    /\ req' = [req EXCEPT ![w] = SaveOf(w).req]
    /\ Goes(w, "asked")
    /\ UNCHANGED <<files, money, hitl, loop, approvals, history, kills>>

\* Mutant: everything that is not a reject approves.
AnswerOfEdit(r) == IF answers[r][Len(answers[r])] # "reject" THEN "approve" ELSE "reject"

\* The last decision on that request; only `approve' approves.
LastAnswer(r) == IF answers[r][Len(answers[r])] = "approve" THEN "approve" ELSE "reject"

\* Mutant: the counters start again after an approval.
ResumeStateForgets(save) == [save.state EXCEPT !.turn = 0, !.calls = 0]

\* The loop goes on where it stopped: at the model's request, none of it executed.
ResumeState(save) == save.state

TakeUp(w) ==
    /\ phase[w] = "load" /\ SaveOf(w).req > 0
    /\ LET r == SaveOf(w).req
       IN  /\ answers[r] # <<>>
           /\ req' = [req EXCEPT ![w] = r]
           /\ loop' = [loop EXCEPT ![w] = ResumeState(SaveOf(w))]
           /\ approvals' = [approvals EXCEPT ![w] =
                  [a \in Act |-> IF a \in SaveOf(w).pending THEN LastAnswer(r) ELSE "none"]]
           /\ tries' = [tries EXCEPT ![r] = OnceMore(@)]
    /\ Goes(w, "act")
    /\ UNCHANGED <<files, money, hitl, executed, kills>>

-----------------------------------------------------------------------------
(* run_tool_loop *)

\* Mutant: the budget is only looked at before the first turn.
MayCallAlways(w) == TRUE

\* before_turn: the first turn was checked by process.
MayCall(w) == loop[w].turn = 0 \/ spent < cap

NextTurn(w) ==
    /\ phase[w] = "turn"
    /\ MayCall(w)
    /\ loop' = [loop EXCEPT ![w].turn = @ + 1]
    /\ Goes(w, "call")
    /\ UNCHANGED <<files, money, hitl, approvals, req, history, kills>>

\* BudgetExceeded: the conversation is lost, tool_approval.json is not.
OverBudget(w) ==
    /\ phase[w] = "turn"
    /\ ~MayCall(w)
    /\ Leave(w)
    /\ UNCHANGED <<files, money, hitl, history, kills>>

\* ToolLoopError, a WorkerError of the step.
TooMuch(w, batch) ==
    loop[w].turn >= MaxTurns \/ loop[w].calls + Len(batch) > MaxCalls

\* The model answers and the ledger gets its row: a final answer (no calls) or a batch.
Respond(w, batch, cost) ==
    /\ phase[w] = "call"
    /\ spent' = spent + cost
    /\ \/ batch = <<>> /\ Goes(w, "final") /\ UNCHANGED <<loop, approvals, req>>
       \/ batch # <<>> /\ TooMuch(w, batch) /\ Leave(w)
       \/ /\ batch # <<>> /\ ~TooMuch(w, batch)
          /\ loop' = [loop EXCEPT ![w].batch = batch, ![w].at = 1]
          /\ Goes(w, "act")
          /\ UNCHANGED <<approvals, req>>
    /\ UNCHANGED <<files, cap, hitl, history, kills>>

\* Network, HTTP status, timeout: a WorkerError without a row in the ledger.
ModelFails(w) ==
    /\ phase[w] = "call"
    /\ Leave(w)
    /\ UNCHANGED <<files, money, hitl, history, kills>>

ActsOf(batch) == {a \in Act : \E i \in DOMAIN batch : batch[i] = a}

\* Mutant: only the call that is about to run is looked at.
UndecidedAtHand(w) ==
    {a \in ActsOf(loop[w].batch) : a = loop[w].batch[1] /\ approvals[w][a] = "none"}

\* _pending_approvals: the `act' calls of the batch that have no decision.
Undecided(w) == {a \in ActsOf(loop[w].batch) : approvals[w][a] = "none"}

\* context.tool_calls of the request.
Show(w) == Undecided(w)

\* Before any call of the batch runs: the request is appended, then the loop is saved.
Ask(w) ==
    /\ phase[w] = "act" /\ loop[w].at = 1 /\ Undecided(w) # {}
    /\ opened < MaxRequests
    /\ opened' = opened + 1
    /\ shown' = [shown EXCEPT ![opened + 1] = Show(w)]
    /\ req' = [req EXCEPT ![w] = opened + 1]
    /\ Goes(w, "save")
    /\ UNCHANGED <<files, money, answers, paused, loop, approvals, history, kills>>

SaveLoop(w) ==
    /\ phase[w] = "save"
    /\ saved' = [saved EXCEPT ![StepOf[w]] =
                    [req |-> req[w], pending |-> Undecided(w), state |-> loop[w]]]
    /\ Goes(w, "asked")
    /\ UNCHANGED <<hasResult, money, hitl, loop, approvals, req, history, kills>>

\* Mutant: approvals.get for approvals.pop.
UsedUpNever(w, call) == approvals

\* approvals.pop(call_key(call), None)
UsedUp(w, call) == [approvals EXCEPT ![w] = [a \in Act |-> IF a = call THEN "none" ELSE @[a]]]

\* execute_call for the next call of the batch; a call that is not executed (rejected, or
\* asked for twice in one batch) is answered with an error.
Execute(w) ==
    /\ phase[w] = "act"
    /\ loop[w].at = 1 => Undecided(w) = {}
    /\ LET call == loop[w].batch[loop[w].at]
           last == loop[w].at = Len(loop[w].batch)
       IN  /\ executed' = IF call \in Act /\ approvals[w][call] = "approve"
                     THEN [executed EXCEPT ![req[w]][call] = OnceMore(@)] ELSE executed
           /\ approvals' = UsedUp(w, call)
           /\ IF last
              THEN /\ loop' = [loop EXCEPT ![w] = [Fresh EXCEPT
                                  !.turn = loop[w].turn, !.calls = loop[w].calls + 1,
                                  !.answered = loop[w].answered + Len(loop[w].batch)]]
                   /\ Goes(w, "turn")
              ELSE loop' = [loop EXCEPT ![w].calls = @ + 1, ![w].at = @ + 1] /\ UNCHANGED phase
    /\ UNCHANGED <<files, money, hitl, req, tries, kills>>

\* The loop is over: only now is tool_approval.json removed.
Finish(w) ==
    /\ phase[w] = "final"
    /\ saved' = [saved EXCEPT ![StepOf[w]] = NoSave]
    /\ Goes(w, "write")
    /\ UNCHANGED <<hasResult, money, hitl, loop, approvals, req, history, kills>>

WriteResult(w) ==
    /\ phase[w] = "write"
    /\ hasResult' = [hasResult EXCEPT ![StepOf[w]] = TRUE]
    /\ Leave(w)
    /\ UNCHANGED <<saved, money, hitl, history, kills>>

\* An empty answer, or invalid JSON: a WorkerError after all the work.
BadAnswer(w) ==
    /\ phase[w] = "write"
    /\ Leave(w)
    /\ UNCHANGED <<files, money, hitl, history, kills>>

\* ToolApprovalPending: the engine pauses the run on that request; a stand-alone
\* worker only exits.
PausesStep(w) ==
    /\ phase[w] = "asked"
    /\ paused' = IF w \in Alone THEN paused ELSE req[w]
    /\ Leave(w)
    /\ UNCHANGED <<files, money, opened, shown, answers, history, kills>>

-----------------------------------------------------------------------------
(* People, and what kills *)

\* A line of hitl-decisions.jsonl, from the Node side or by hand, at any time.
Decide(r, d) ==
    /\ r <= opened /\ Len(answers[r]) < MaxAnswers
    /\ answers' = [answers EXCEPT ![r] = Append(@, d)]
    /\ UNCHANGED <<files, money, opened, shown, paused, inMemory, history, kills>>

\* resume_run of a tool approval: the decision is written unless there is one.
ResumeApproval(d) ==
    /\ paused # 0 /\ d \in {"approve", "reject"}
    /\ paused' = 0
    /\ answers' = IF answers[paused] # <<>> THEN answers
                  ELSE [answers EXCEPT ![paused] = <<d>>]
    /\ UNCHANGED <<files, money, opened, shown, inMemory, history, kills>>

\* resume --max-tokens, with a larger cap.
RaiseCap ==
    /\ cap < MaxCap
    /\ cap' = MaxCap
    /\ UNCHANGED <<files, spent, hitl, inMemory, history, kills>>

KillWorker(w) ==
    /\ phase[w] # "idle" /\ kills < MaxWorkerKills
    /\ kills' = kills + 1
    /\ Leave(w)
    /\ UNCHANGED <<hasResult, money, hitl, history>>

CrashWorker(w) == KillWorker(w) /\ UNCHANGED saved

CrashInSaveLoop(w) ==
    /\ phase[w] = "save"
    /\ KillWorker(w)
    /\ saved' = [saved EXCEPT ![StepOf[w]] = TornSave]

-----------------------------------------------------------------------------
WorkerStep(w) ==
    \/ BeginLoop(w) \/ CannotLoad(w) \/ StillPending(w) \/ TakeUp(w)
    \/ NextTurn(w) \/ OverBudget(w) \/ ModelFails(w)
    \/ \E batch \in Batches, cost \in 1 .. MaxCost : Respond(w, batch, cost)
    \/ Ask(w) \/ SaveLoop(w) \/ Execute(w)
    \/ Finish(w) \/ WriteResult(w) \/ BadAnswer(w) \/ PausesStep(w)

People ==
    \/ \E r \in Requests, d \in Responses : Decide(r, d)
    \/ \E d \in Responses : ResumeApproval(d)
    \/ RaiseCap

WorkerNext ==
    \/ \E w \in Workers : Start(w) \/ WorkerStep(w) \/ CrashWorker(w) \/ CrashInSaveLoop(w)
    \/ People

WorkerSpec == WorkerInit /\ [][WorkerNext]_workerVars

-----------------------------------------------------------------------------
(* Properties *)

\* Every variable has its type; the loop's turns and calls stay within max_turns and
\* max_tool_calls.
WorkerTypeOK ==
    /\ hasResult \in [ToolSteps -> BOOLEAN]
    /\ saved \in [ToolSteps -> Saves]
    /\ spent \in Nat /\ cap \in 0 .. MaxCap
    /\ opened \in 0 .. MaxRequests
    /\ shown \in [Requests -> SUBSET Act]
    /\ answers \in [Requests -> Seq(Responses)]
    /\ paused \in 0 .. MaxRequests
    /\ phase \in [Workers -> {"idle", "load", "turn", "call", "act", "save", "asked", "final",
                           "write"}]
    /\ loop \in [Workers -> Loops]
    /\ approvals \in [Workers -> [Act -> {"none", "approve", "reject"}]]
    /\ req \in [Workers -> 0 .. MaxRequests]
    /\ executed \in [Requests -> [Act -> 0 .. Often]]
    /\ tries \in [Requests -> 0 .. Often]
    /\ kills \in 0 .. MaxWorkerKills

Approves(r) == \E i \in DOMAIN answers[r] : answers[r][i] = "approve"

\* "O humano tem de ver o que aprova": an `act' call is executed only on a request that
\* showed that call and that somebody answered with approve, whoever restarted in between.
ActNeedsApproval ==
    \A r \in Requests, a \in Act : executed[r][a] > 0 =>
        a \in shown[r] /\ Approves(r)

\* Each time the loop takes a decision up it executes the call at most once, also when the
\* model repeats it in that batch or later, whoever shares the files: `tries' counts how often
\* process read an answered tool_approval.json.  It says nothing of how often that happens.
OneCallPerTakeUp == \A r \in Requests, a \in Act : executed[r][a] <= tries[r]

\* "Cada decisao vale para uma chamada e para o seu pedido": a call is executed on a request at
\* most as often as somebody decided it.  tool_approval.json is removed when the loop has ended,
\* so a step that stops after the call (the next call of the model fails or finds the budget
\* spent, a kill), or a second worker, takes the same decision up once more.
OneCallPerDecision == \A r \in Requests, a \in Act : executed[r][a] <= Len(answers[r])

\* "O loop para antes de correr qualquer chamada desse turno": when a call of a batch runs,
\* reads included, every `act' call of that batch has been shown and decided.
RunsCall(w) == phase[w] = "act" /\ loop'[w].calls = loop[w].calls + 1
NothingBeforeDecision ==
    [][\A w \in Workers : RunsCall(w) /\ ActsOf(loop[w].batch) # {} =>
           /\ req[w] # 0 /\ answers[req[w]] # <<>>
           /\ ActsOf(loop[w].batch) \subseteq shown[req[w]]]_workerVars

\* max_tool_calls bounds the conversation, approvals in between or not: what the model was
\* answered in it never exceeds the limit.
WithinMaxCalls == \A w \in Workers : loop[w].answered <= MaxCalls

\* The cap is looked at before each call of the model and the ledger written after it, by
\* workers that do not know of each other: what is spent passes the cap by less than one call
\* of each worker there is.
OvershootIsOneCallEach == spent < cap + MaxCost * Cardinality(Workers)

\* "O gasto final pode passar o tecto no maximo em uma chamada", of the run: whoever works on it.
OvershootIsOneCall == spent < cap + MaxCost

-----------------------------------------------------------------------------
(* The inductive invariant *)

\* A loop at a batch it may execute: calls counts what was answered before this batch
\* and the calls of the batch that have run.
WorkOK(l) ==
    /\ l.turn \in 1 .. MaxTurns - 1
    /\ Len(l.batch) <= MaxBatch /\ l.at <= Len(l.batch)
    /\ l.calls = l.answered + l.at - 1
    /\ l.answered + Len(l.batch) <= MaxCalls

\* A loop that is to be resumed: none of its batch has run, and its request shows every
\* `act' call of the batch, which are what it waits for.
AsksFor(r, l) ==
    /\ WorkOK(l) /\ l.at = 1
    /\ r \in 1 .. opened
    /\ ActsOf(l.batch) # {} /\ shown[r] = ActsOf(l.batch)

SaveOK(s) == s.req > 0 => AsksFor(s.req, s.state) /\ s.pending = ActsOf(s.state.batch)

\* Every `act' call of the batch of w was shown in a request that somebody answered.
Decided(w) ==
    /\ req[w] # 0
    /\ ActsOf(loop[w].batch) \subseteq shown[req[w]]
    /\ answers[req[w]] # <<>>

ToCome(l) == {l.batch[i] : i \in l.at .. Len(l.batch)}

\* Decisions are of calls that are still to come in a batch that was shown and answered;
\* at the first call either every one is there or none.
DecisionsOK(w) ==
    /\ \A a \in Act : approvals[w][a] # "none" => a \in ToCome(loop[w]) /\ Decided(w)
    /\ \A a \in Act : approvals[w][a] = "approve" => Approves(req[w])
    /\ loop[w].at = 1 => approvals[w] = NoApprovals \/ Undecided(w) = {}
    /\ loop[w].at > 1 => ActsOf(loop[w].batch) = {} \/ Decided(w)

WorkerOK(w) ==
    /\ req[w] <= opened
    /\ phase[w] = "act" => WorkOK(loop[w]) /\ DecisionsOK(w)
    /\ phase[w] # "act" => approvals[w] = NoApprovals
    /\ phase[w] = "save" => AsksFor(req[w], loop[w])
    /\ phase[w] = "turn" => loop[w].turn < MaxTurns
    /\ phase[w] \in {"call", "final", "write"} => loop[w].turn >= 1
    /\ phase[w] \in {"turn", "call", "final", "write"} => loop[w].calls = loop[w].answered
    /\ phase[w] \in {"idle", "load"} => loop[w] = Fresh
    /\ phase[w] = "asked" => loop[w].answered <= MaxCalls

\* Who holds an approval of a that came from r and has not used it.
Holders(r, a) == {w \in Workers : req[w] = r /\ approvals[w][a] = "approve"}

UsesOK ==
    \A r \in Requests, a \in Act :
        tries[r] < Often => executed[r][a] + Cardinality(Holders(r, a)) <= tries[r]

\* The workers whose next call of the model has been checked against the cap.
InFlight(w) == phase[w] \in {"load", "call"} \/ (phase[w] = "turn" /\ loop[w].turn = 0)
Checked == {w \in Workers : InFlight(w)}

SpentOK == spent + MaxCost * Cardinality(Checked) < cap + MaxCost * Cardinality(Workers)

WorkerInv ==
    /\ WorkerTypeOK
    /\ \A s \in ToolSteps : SaveOK(saved[s])
    /\ \A w \in Workers : WorkerOK(w)
    /\ \A r \in Requests : r > opened => \A a \in Act : executed[r][a] = 0
    /\ ActNeedsApproval
    /\ UsesOK
    /\ SpentOK

=============================================================================
