------------------------------- MODULE Council -------------------------------
(***************************************************************************)
(* A council session (council_session.py) and the memory it writes          *)
(* (memory_l4.py).  Members give positions, rank each other, a chairman     *)
(* writes a verdict, a gate without any model judges it, the verdict        *)
(* becomes a candidate in the memory and a person approves it, rejects it   *)
(* or sends it back for one more round.                                     *)
(*                                                                         *)
(* Every command of the CLI is a process: it loads council.json, works on   *)
(* its copy and writes the copy back whole, without a lock.  It may be      *)
(* killed between any two steps.  The ledger, the requests, the decisions,  *)
(* verdict.json and the rows of the memory are written at once, council.json *)
(* only by save().                                                          *)
(*                                                                         *)
(* A position is a vote or an error; a required member's may be a veto.  A  *)
(* verdict is for or against the subject, or weak: invalid, incomplete or   *)
(* below the threshold.  A call costs one unit of the budget.               *)
(***************************************************************************)
EXTENDS Integers, FiniteSets, FiniteSetsExt

CONSTANTS
    Procs,        \* commands that may run at the same time
    N,            \* members, asked in this order
    Required,     \* those whose position the gate needs
    MinMembers,   \* MIN_MEMBERS
    MaxRounds,    \* max_rounds
    Cap, Raise,   \* max_tokens in calls, and what a resume may raise it by
    MaxCommands,  \* bound: commands run, and so rows and requests made
    MaxTrouble    \* bound: kills, failed calls, failed writes and rows forgotten by hand

ASSUME CouncilAssumption ==
    /\ N \in Nat /\ Required \subseteq 1 .. N
    /\ MinMembers \in Nat /\ MaxRounds \in Nat \ {0}
    /\ Cap \in Nat /\ Raise \in Nat
    /\ MaxCommands \in Nat /\ MaxTrouble \in Nat

VARIABLES
    disk,       \* council.json
    sess,       \* CouncilSession.state of each process
    pc,         \* where each process is
    turn,       \* the member whose turn it is in the stage
    rows,       \* memory_l4: status, and the verdict and veto written with it
    requests,   \* hitl-requests.jsonl
    decisions,  \* hitl-decisions.jsonl: the responses given to each request, and the last one
    final,      \* verdict.json: the round, the request and the row it names
    paid, cap,  \* the ledger: calls paid in each round; max_tokens in status.json
    commands, trouble

vars == <<disk, sess, pc, turn, rows, requests, decisions, final, paid, cap, commands, trouble>>

Members == 1 .. N
Ids == 1 .. MaxCommands
Responses == {"approve", "reject", "edit"}
Votes == {"vote", "veto"}
Next1(stage) == [independent |-> "peer_rank", peer_rank |-> "synthesize", synthesize |-> "gate",
                 gate |-> "hitl"][stage]

\* The current round is all of the session that is ever used again.
NewRound(n) ==
    [round |-> n, stage |-> "independent", status |-> "awaiting",
     pos |-> [m \in Members |-> "none"], ballot |-> [m \in Members |-> "none"],
     verdict |-> "none", gate |-> "none", hitl |-> 0, row |-> 0, mem |-> "none"]

NoSession == [NewRound(0) EXCEPT !.status = "absent"]
NoRow == [status |-> "none", verdict |-> "none", veto |-> FALSE]
NoRequest == [round |-> 0, row |-> 0, allow |-> {}]
NoVerdict == [round |-> 0, request |-> 0, row |-> 0]

NoAnswer == [given |-> {}, last |-> "none"]

Init ==
    /\ disk = NoSession
    /\ sess = [p \in Procs |-> NoSession]
    /\ pc = [p \in Procs |-> "idle"] /\ turn = [p \in Procs |-> 1]
    /\ rows = [i \in Ids |-> NoRow]
    /\ requests = [i \in Ids |-> NoRequest] /\ decisions = [i \in Ids |-> NoAnswer]
    /\ final = NoVerdict
    /\ paid = [n \in 1 .. MaxRounds |-> 0] /\ cap = Cap
    /\ commands = 0 /\ trouble = 0

Fault == trouble < MaxTrouble /\ trouble' = trouble + 1

Go(p, phase) == pc' = [pc EXCEPT ![p] = phase]
Keep(p, s) == sess' = [sess EXCEPT ![p] = s]

\* save(), and the end of the command.
Ends(p, s) ==
    /\ disk' = s
    /\ sess' = [sess EXCEPT ![p] = NoSession]
    /\ pc' = [pc EXCEPT ![p] = "idle"] /\ turn' = [turn EXCEPT ![p] = 1]

\* check_budget: what the ledger says was spent, in every round.
Spent == MapThenSumSet(LAMBDA n : paid[n], 1 .. MaxRounds)
Pay(p) == paid' = [paid EXCEPT ![sess[p].round] = @ + 1]

Respond(i, r) == decisions' = [decisions EXCEPT ![i] = [given |-> @.given \cup {r}, last |-> r]]

Command(p) == pc[p] = "idle" /\ commands < MaxCommands /\ commands' = commands + 1

-----------------------------------------------------------------------------
(* The commands *)

\* run: refused where a session is.
Start(p) ==
    /\ Command(p) /\ disk.status = "absent"
    /\ disk' = [NewRound(1) EXCEPT !.status = "running"]
    /\ Keep(p, disk') /\ Go(p, "enter")
    /\ UNCHANGED <<turn, rows, requests, decisions, final, paid, cap, trouble>>

\* resume of a session that does not wait for a person.  One that is closed stays closed.
Resume(p) ==
    /\ Command(p) /\ disk.status \in {"running", "paused_budget", "error"}
    /\ Keep(p, disk) /\ Go(p, "enter")
    /\ cap' \in {cap, Cap + Raise}
    /\ UNCHANGED <<disk, turn, rows, requests, decisions, final, paid, trouble>>

Allowed(s) == IF s.hitl = 0 THEN {} ELSE requests[s.hitl].allow

\* decide, and resume when the answer to its request is in the file.
Decide(p, r) ==
    /\ Command(p) /\ disk.status = "awaiting" /\ r \in Allowed(disk)
    /\ Respond(disk.hitl, r)
    /\ Keep(p, disk) /\ Go(p, r)
    /\ UNCHANGED <<disk, turn, rows, requests, final, paid, cap, trouble>>

ResumeDecided(p) ==
    /\ Command(p) /\ disk.status = "awaiting" /\ disk.hitl # 0
    /\ decisions[disk.hitl].last \in Allowed(disk)
    /\ Keep(p, disk) /\ Go(p, decisions[disk.hitl].last)
    /\ cap' \in {cap, Cap + Raise}
    /\ UNCHANGED <<disk, turn, rows, requests, decisions, final, paid, trouble>>

\* resume --max-tokens of a session that waits and has no answer it may act on.
ResumeWaiting(p) ==
    /\ Command(p) /\ disk.status = "awaiting"
    /\ disk.hitl # 0 => decisions[disk.hitl].last \notin Allowed(disk)
    /\ cap' = Cap + Raise
    /\ UNCHANGED <<disk, sess, pc, turn, rows, requests, decisions, final, paid, trouble>>

\* The Node side answers a request that has no answer yet; what it allows is checked later.
NodeDecides(i, r) ==
    /\ requests[i] # NoRequest /\ decisions[i] = NoAnswer
    /\ Respond(i, r)
    /\ UNCHANGED <<disk, sess, pc, turn, rows, requests, final, paid, cap, commands, trouble>>

-----------------------------------------------------------------------------
(* advance: the stages *)

Enter(p) ==
    /\ pc[p] = "enter"
    /\ disk' = [sess[p] EXCEPT !.status = "running"]
    /\ Keep(p, disk') /\ Go(p, sess[p].stage)
    /\ turn' = [turn EXCEPT ![p] = 1]
    /\ UNCHANGED <<rows, requests, decisions, final, paid, cap, commands, trouble>>

\* Mutant: the stage is saved before it is counted as done.
LeavesInPlace(p, s) == Keep(p, s) /\ Go(p, "enter")

Leaves(p, s) == Keep(p, [s EXCEPT !.stage = Next1(s.stage)]) /\ Go(p, "enter")

\* Mutant: a resume asks every member again.
DueAll(s, stage) == IF stage = "independent" THEN Members ELSE {m \in Members : s.ballot[m] = "none"}

\* Who is still to be asked: errors of positions are asked again by a resume, of ballots not.
Due(s, stage) ==
    IF stage = "independent" THEN {m \in Members : s.pos[m] \notin Votes}
    ELSE {m \in Members : s.ballot[m] = "none" /\ s.pos[m] \in Votes}

Asking(p) == pc[p] \in {"independent", "peer_rank"} /\ turn[p] \in Due(sess[p], pc[p])

WithAnswer(s, stage, m, a) ==
    IF stage = "independent" THEN [s EXCEPT !.pos[m] = a] ELSE [s EXCEPT !.ballot[m] = a]

Answers(stage, m) ==
    IF stage = "peer_rank" THEN {"ballot"}
    ELSE IF m \in Required THEN Votes ELSE {"vote"}

\* The answer is paid and in the ledger; council.json has it after the save.
Answered(p) ==
    /\ Asking(p) /\ Spent < cap
    /\ \/ \E a \in Answers(pc[p], turn[p]) :
              Keep(p, WithAnswer(sess[p], pc[p], turn[p], a)) /\ trouble' = trouble
       \/ Keep(p, WithAnswer(sess[p], pc[p], turn[p], "error")) /\ Fault
    /\ Pay(p)
    /\ Go(p, "save")
    /\ UNCHANGED <<disk, turn, rows, requests, decisions, final, cap, commands>>

\* No answer, nothing paid.
CallFails(p) ==
    /\ Asking(p) /\ Spent < cap /\ Fault
    /\ Keep(p, WithAnswer(sess[p], pc[p], turn[p], "error"))
    /\ Go(p, "save")
    /\ UNCHANGED <<disk, turn, rows, requests, decisions, final, paid, cap, commands>>

SaveAnswer(p) ==
    /\ pc[p] = "save"
    /\ disk' = sess[p]
    /\ turn' = [turn EXCEPT ![p] = @ + 1]
    /\ Go(p, sess[p].stage)
    /\ UNCHANGED <<sess, rows, requests, decisions, final, paid, cap, commands, trouble>>

Skips(p) ==
    /\ pc[p] \in {"independent", "peer_rank"} /\ turn[p] \in Members /\ ~Asking(p)
    /\ turn' = [turn EXCEPT ![p] = @ + 1]
    /\ UNCHANGED <<disk, sess, pc, rows, requests, decisions, final, paid, cap, commands, trouble>>

Quorum(s) ==
    /\ Cardinality({m \in Members : s.pos[m] \in Votes}) >= MinMembers
    /\ \A m \in Required : s.pos[m] \in Votes

StageDone(p) ==
    /\ pc[p] \in {"independent", "peer_rank"} /\ turn[p] \notin Members
    /\ pc[p] = "independent" => Quorum(sess[p])
    /\ Leaves(p, sess[p])
    /\ UNCHANGED <<disk, turn, rows, requests, decisions, final, paid, cap, commands, trouble>>

NoQuorum(p) ==
    /\ pc[p] = "independent" /\ turn[p] \notin Members /\ ~Quorum(sess[p])
    /\ Ends(p, [sess[p] EXCEPT !.status = "error"])
    /\ UNCHANGED <<rows, requests, decisions, final, paid, cap, commands, trouble>>

\* check_budget before a call.
OverBudget(p) ==
    /\ Asking(p) \/ pc[p] = "synthesize"
    /\ Spent >= cap
    /\ Ends(p, [sess[p] EXCEPT !.status = "paused_budget"])
    /\ UNCHANGED <<rows, requests, decisions, final, paid, cap, commands, trouble>>

\* The chairman's verdict is saved when the next stage begins, so no session that is loaded
\* at this stage has one yet.
Synthesize(p) ==
    /\ pc[p] = "synthesize" /\ Spent < cap
    /\ \E v \in {"for", "against", "weak"} : Leaves(p, [sess[p] EXCEPT !.verdict = v])
    /\ Pay(p)
    /\ UNCHANGED <<disk, turn, rows, requests, decisions, final, cap, commands, trouble>>

ChairmanFails(p) ==
    /\ pc[p] = "synthesize" /\ Spent < cap /\ Fault
    /\ Pay(p) \/ paid' = paid
    /\ Ends(p, [sess[p] EXCEPT !.status = "error"])
    /\ UNCHANGED <<rows, requests, decisions, final, cap, commands>>

Vetoed(s) == \E m \in Required : s.pos[m] = "veto"

\* Mutant: a verdict that goes against a veto passes.
RunGateNoVeto(s) == IF s.verdict = "weak" THEN "held" ELSE "pass"

\* run_gate.
RunGate(s) ==
    IF \/ s.verdict = "weak"
       \/ \E m \in Required : s.pos[m] \notin Votes
       \/ Vetoed(s) /\ s.verdict = "for"
    THEN "held" ELSE "pass"

Gate(p) ==
    /\ pc[p] = "gate"
    /\ Leaves(p, [sess[p] EXCEPT !.gate = RunGate(sess[p])])
    /\ UNCHANGED <<disk, turn, rows, requests, decisions, final, paid, cap, commands, trouble>>

\* What the person may answer.
Allow(s) ==
    {"reject"} \cup (IF s.gate = "pass" THEN {"approve"} ELSE {})
               \cup (IF s.round < MaxRounds THEN {"edit"} ELSE {})

FirstFree(f, free, i) == f[i] = free /\ \A j \in 1 .. i - 1 : f[j] # free

\* open_hitl, if this round has no request yet: first the candidate.
Remember(p) ==
    /\ pc[p] = "hitl" /\ sess[p].hitl = 0
    /\ \E i \in Ids :
           /\ FirstFree(rows, NoRow, i)
           /\ rows' = [rows EXCEPT ![i] =
                  [status |-> "candidate", verdict |-> sess[p].verdict, veto |-> Vetoed(sess[p])]]
           /\ Keep(p, [sess[p] EXCEPT !.row = i, !.mem = "candidate"])
    /\ Go(p, "ask")
    /\ UNCHANGED <<disk, turn, requests, decisions, final, paid, cap, commands, trouble>>

\* Without the memory the council goes on.
RememberFails(p) ==
    /\ pc[p] = "hitl" /\ sess[p].hitl = 0 /\ Fault
    /\ Keep(p, [sess[p] EXCEPT !.row = 0, !.mem = "none"]) /\ Go(p, "ask")
    /\ UNCHANGED <<disk, turn, rows, requests, decisions, final, paid, cap, commands>>

Ask(p) ==
    /\ pc[p] = "ask"
    /\ \E i \in Ids :
           /\ FirstFree(requests, NoRequest, i)
           /\ requests' = [requests EXCEPT ![i] =
                  [round |-> sess[p].round, row |-> sess[p].row, allow |-> Allow(sess[p])]]
           /\ Keep(p, [sess[p] EXCEPT !.hitl = i])
    /\ Go(p, "await")
    /\ UNCHANGED <<disk, turn, rows, decisions, final, paid, cap, commands, trouble>>

Await(p) ==
    /\ pc[p] = "await" \/ (pc[p] = "hitl" /\ sess[p].hitl # 0)
    /\ Ends(p, [sess[p] EXCEPT !.status = "awaiting"])
    /\ UNCHANGED <<rows, requests, decisions, final, paid, cap, commands, trouble>>

-----------------------------------------------------------------------------
(* _apply: the memory first, then verdict.json, then the session *)

After == [approve |-> "publish", promote |-> "publish", reject |-> "refuse", edit |-> "revise"]

RowOf(p) == rows[sess[p].row].status
HasCandidate(p) == sess[p].mem = "candidate" /\ sess[p].row # 0

SetRow(p, status) == rows' = [rows EXCEPT ![sess[p].row].status = status]

\* promote reads the row; one that is archived is refused, and the decision stands.
PromoteReads(p) ==
    /\ pc[p] = "approve" /\ HasCandidate(p)
    /\ Go(p, IF RowOf(p) = "candidate" THEN "promote" ELSE "publish")
    /\ Keep(p, IF RowOf(p) = "active" THEN [sess[p] EXCEPT !.mem = "active"] ELSE sess[p])
    /\ UNCHANGED <<disk, turn, rows, requests, decisions, final, paid, cap, commands, trouble>>

\* It updates the row whatever that has become since.
PromoteWrites(p) ==
    /\ pc[p] = "promote"
    /\ SetRow(p, "active") /\ Keep(p, [sess[p] EXCEPT !.mem = "active"])
    /\ Go(p, After[pc[p]])
    /\ UNCHANGED <<disk, turn, requests, decisions, final, paid, cap, commands, trouble>>

Forgets(p) ==
    /\ pc[p] \in {"reject", "edit"} /\ HasCandidate(p)
    /\ SetRow(p, "archived") /\ Keep(p, [sess[p] EXCEPT !.mem = "archived"])
    /\ Go(p, After[pc[p]])
    /\ UNCHANGED <<disk, turn, requests, decisions, final, paid, cap, commands, trouble>>

\* Nothing of this round is in the memory, or the memory cannot be reached.
MemoryUntouched(p) ==
    /\ pc[p] \in {"approve", "promote", "reject", "edit"}
    /\ IF HasCandidate(p) THEN Fault ELSE UNCHANGED trouble
    /\ Go(p, After[pc[p]])
    /\ UNCHANGED <<disk, sess, turn, rows, requests, decisions, final, paid, cap, commands>>

Publish(p) ==
    /\ pc[p] = "publish"
    /\ final' = [round |-> sess[p].round, request |-> sess[p].hitl, row |-> sess[p].row]
    /\ Go(p, "done")
    /\ UNCHANGED <<disk, sess, turn, rows, requests, decisions, paid, cap, commands, trouble>>

Close(p) ==
    /\ \/ pc[p] = "done" /\ Ends(p, [sess[p] EXCEPT !.status = "done"])
       \/ pc[p] = "refuse" /\ Ends(p, [sess[p] EXCEPT !.status = "rejected"])
    /\ UNCHANGED <<rows, requests, decisions, final, paid, cap, commands, trouble>>

\* Mutant: the new round keeps the request and the row of the old one.
RevisedKeepsRequest(s) == [NewRound(s.round + 1) EXCEPT !.hitl = s.hitl, !.row = s.row]

\* _new_round.
Revised(s) == NewRound(s.round + 1)

\* The new round is saved with the status of the old one; advance changes it.
Revise(p) ==
    /\ pc[p] = "revise"
    /\ disk' = Revised(sess[p])
    /\ Keep(p, disk') /\ Go(p, "enter")
    /\ UNCHANGED <<turn, rows, requests, decisions, final, paid, cap, commands, trouble>>

-----------------------------------------------------------------------------
Kill(p) ==
    /\ pc[p] # "idle" /\ Fault
    /\ sess' = [sess EXCEPT ![p] = NoSession]
    /\ Go(p, "idle") /\ turn' = [turn EXCEPT ![p] = 1]
    /\ UNCHANGED <<disk, rows, requests, decisions, final, paid, cap, commands>>

\* Somebody runs memory_l4 forget.
ForgottenByHand(i) ==
    /\ rows[i].status \in {"candidate", "active"} /\ Fault
    /\ rows' = [rows EXCEPT ![i].status = "archived"]
    /\ UNCHANGED <<disk, sess, pc, turn, requests, decisions, final, paid, cap, commands>>

Work(p) ==
    \/ Enter(p) \/ Answered(p) \/ CallFails(p) \/ SaveAnswer(p) \/ Skips(p) \/ StageDone(p)
    \/ NoQuorum(p) \/ OverBudget(p) \/ Synthesize(p) \/ ChairmanFails(p)
    \/ Gate(p) \/ Remember(p) \/ RememberFails(p) \/ Ask(p) \/ Await(p)
    \/ PromoteReads(p) \/ PromoteWrites(p) \/ Forgets(p) \/ MemoryUntouched(p)
    \/ Publish(p) \/ Close(p) \/ Revise(p)

People ==
    \/ \E p \in Procs : Start(p) \/ Resume(p) \/ ResumeDecided(p) \/ ResumeWaiting(p) \/ Kill(p)
    \/ \E p \in Procs, r \in Responses : Decide(p, r)
    \/ \E i \in Ids, r \in Responses : NodeDecides(i, r)
    \/ \E i \in Ids : ForgottenByHand(i)

Next == (\E p \in Procs : Work(p)) \/ People

\* A command that runs goes on; nobody is obliged to start one.
Spec == Init /\ [][Next]_vars /\ \A p \in Procs : WF_vars(Work(p))

-----------------------------------------------------------------------------
Phases == {"idle", "enter", "independent", "peer_rank", "save", "synthesize", "gate", "hitl",
           "ask", "await", "approve", "promote", "reject", "edit", "publish", "done", "refuse", "revise"}

Session ==
    [round : 0 .. MaxRounds,
     stage : {"independent", "peer_rank", "synthesize", "gate", "hitl"},
     status : {"absent", "running", "awaiting", "paused_budget", "error", "done", "rejected"},
     pos : [Members -> {"none", "error"} \cup Votes],
     ballot : [Members -> {"none", "error", "ballot"}],
     verdict : {"none", "for", "against", "weak"}, gate : {"none", "pass", "held"},
     hitl : 0 .. MaxCommands, row : 0 .. MaxCommands,
     mem : {"none", "candidate", "active", "archived"}]

Row == [status : {"none", "candidate", "active", "archived"},
        verdict : {"none", "for", "against", "weak"}, veto : BOOLEAN]
Request == [round : 0 .. MaxRounds, row : 0 .. MaxCommands, allow : SUBSET Responses]
Answer == [given : SUBSET Responses, last : Responses \cup {"none"}]

TypeOK ==
    /\ disk \in Session /\ sess \in [Procs -> Session]
    /\ pc \in [Procs -> Phases] /\ turn \in [Procs -> 1 .. N + 1]
    /\ rows \in [Ids -> Row] /\ requests \in [Ids -> Request] /\ decisions \in [Ids -> Answer]
    /\ final \in [round : 0 .. MaxRounds, request : 0 .. MaxCommands, row : 0 .. MaxCommands]
    /\ paid \in [1 .. MaxRounds -> Nat] /\ cap \in Nat
    /\ commands \in 0 .. MaxCommands /\ trouble \in 0 .. MaxTrouble

\* A verdict that a required member vetoed, or a weak one, never becomes active memory,
\* whoever approves, whatever copy of the session is written back last.
VetoHolds ==
    \A i \in Ids : rows[i].status = "active" =>
        rows[i].verdict \in {"for", "against"} /\ ~(rows[i].veto /\ rows[i].verdict = "for")

\* What is active in the memory, and what verdict.json publishes, was approved by a person:
\* the request that shows this very row and round was answered with approve, and allowed it.
ApprovedOn(i) == "approve" \in decisions[i].given /\ "approve" \in requests[i].allow

ApprovedByAPerson ==
    /\ \A i \in Ids : rows[i].status = "active" => \E q \in Ids : requests[q].row = i /\ ApprovedOn(q)
    /\ final # NoVerdict =>
           /\ ApprovedOn(final.request)
           /\ requests[final.request].row = final.row /\ requests[final.request].round = final.round

\* "Custo por ronda: 2N + 1 chamadas", "um resume nunca repaga o que ja tem": however often
\* the session is stopped and resumed, a round pays no more, but for one call per failure.
CostPerRound == \A n \in 1 .. MaxRounds : paid[n] <= 2 * N + 1 + trouble

\* A command ends: in a verdict, a refusal, an error, a pause or at the person.
CommandReturns == \A p \in Procs : pc[p] # "idle" ~> pc[p] = "idle"

=============================================================================
