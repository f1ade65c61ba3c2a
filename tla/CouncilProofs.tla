---------------------------- MODULE CouncilProofs ----------------------------
(***************************************************************************)
(* Theorems about Council, for any number of commands at once, members,     *)
(* rounds, kills and failures: nothing is active in the memory, and nothing *)
(* is published, without an approval of a request that shows it, and a veto *)
(* is never approved over.                                                  *)
(*                                                                         *)
(* Commands overwrite each other's council.json, so the invariant speaks of *)
(* every copy of the session at once: whichever is written last, its        *)
(* request shows its own round and row, and its row holds its own verdict.  *)
(***************************************************************************)
EXTENDS Council, FiniteSetTheorems, TLAPS

Good(r) == r.verdict \in {"for", "against"} /\ ~(r.veto /\ r.verdict = "for")

Backed(s, rw, rq) ==
    /\ s.stage \in {"gate", "hitl"} => s.verdict # "none"
    /\ s.stage = "hitl" => s.gate = RunGate(s)
    /\ (s.hitl # 0 \/ s.row # 0) => s.stage = "hitl"
    /\ s.row # 0 => /\ rw[s.row].status # "none"
                    /\ rw[s.row].verdict = s.verdict /\ rw[s.row].veto = Vetoed(s)
    /\ s.hitl # 0 => /\ rq[s.hitl].row = s.row /\ rq[s.hitl].round = s.round
                     /\ rq[s.hitl].allow = Allow(s)

Shown(rw, rq) ==
    \A i \in Ids : rq[i].row # 0 =>
        /\ rw[rq[i].row].status # "none"
        /\ "approve" \in rq[i].allow => Good(rw[rq[i].row])

Recorded == \A i \in Ids : decisions[i].last # "none" => decisions[i].last \in decisions[i].given

Published == final # NoVerdict => final.request # 0

At(p) ==
    /\ pc[p] \in {"independent", "peer_rank", "synthesize", "gate", "hitl"} => sess[p].stage = pc[p]
    /\ pc[p] = "save" => sess[p].stage \in {"independent", "peer_rank"} /\ turn[p] \in Members
    /\ pc[p] \in {"ask", "await"} => sess[p].stage = "hitl"
    /\ pc[p] \in {"approve", "promote", "publish"} => sess[p].hitl # 0 /\ ApprovedOn(sess[p].hitl)
    /\ pc[p] \in {"edit", "revise"} => sess[p].round < MaxRounds

IInv ==
    /\ TypeOK
    /\ Backed(disk, rows, requests) /\ \A p \in Procs : Backed(sess[p], rows, requests)
    /\ Shown(rows, requests) /\ Recorded
    /\ \A p \in Procs : At(p)
    /\ ApprovedByAPerson /\ Published

RowsKept(rw, rw2) ==
    \A i \in Ids : rw[i].status # "none" =>
        rw2[i].status # "none" /\ rw2[i].verdict = rw[i].verdict /\ rw2[i].veto = rw[i].veto

RequestsKept(rq, rq2) == \A i \in Ids : rq[i].allow # {} => rq2[i] = rq[i]

Alike(s, t) ==
    /\ t.round = s.round /\ t.stage = s.stage /\ t.pos = s.pos /\ t.verdict = s.verdict
    /\ t.gate = s.gate /\ t.hitl = s.hitl /\ t.row = s.row

-----------------------------------------------------------------------------
(* What keeps a copy of the session true to the memory and the requests *)

\* A copy that differs in nothing the memory and the requests know stays backed.
LEMMA BackedAlike ==
    ASSUME NEW s, NEW t, NEW rw, NEW rq, Alike(s, t), Backed(s, rw, rq)
    PROVE  Backed(t, rw, rq)
BY DEF Alike, Backed, RunGate, Vetoed, Allow

\* Before the gate a copy names neither a row nor a request.
LEMMA BackedEarly ==
    ASSUME NEW s, NEW rw, NEW rq, s.stage \notin {"gate", "hitl"}, s.hitl = 0, s.row = 0
    PROVE  Backed(s, rw, rq)
BY DEF Backed

\* A request that was made allows something.
LEMMA AllowSomething == ASSUME NEW s PROVE Allow(s) # {}
BY DEF Allow

\* Rows only change their status and requests not at all.
LEMMA BackedKept ==
    ASSUME NEW s \in Session, NEW rw, NEW rw2, NEW rq, NEW rq2,
           RowsKept(rw, rw2), RequestsKept(rq, rq2), Backed(s, rw, rq)
    PROVE  Backed(s, rw2, rq2)
<1>1. s.row # 0 => s.row \in Ids
  BY DEF Session, Ids
<1>2. s.hitl # 0 => s.hitl \in Ids
  BY DEF Session, Ids
<1>3. s.row # 0 => /\ rw2[s.row].status # "none"
                   /\ rw2[s.row].verdict = s.verdict /\ rw2[s.row].veto = Vetoed(s)
  BY <1>1 DEF RowsKept, Backed
<1>4. s.hitl # 0 => rq2[s.hitl] = rq[s.hitl]
  BY <1>2, AllowSomething DEF RequestsKept, Backed
<1>5. QED
  BY <1>3, <1>4 DEF Backed

\* What the request that a person may approve says of its row.
LEMMA PassIsGood ==
    ASSUME NEW s \in Session, NEW rw, NEW rq, Backed(s, rw, rq), s.stage = "hitl", s.row # 0,
           "approve" \in Allow(s)
    PROVE  Good(rw[s.row])
<1>1. s.gate = "pass"
  BY DEF Allow
<1>2. RunGate(s) = "pass"
  BY <1>1 DEF Backed
<1>3. s.verdict # "weak" /\ ~(Vetoed(s) /\ s.verdict = "for")
  BY <1>2 DEF RunGate
<1>4. s.verdict \in {"for", "against"}
  BY <1>3 DEF Backed, Session
<1>5. QED
  BY <1>3, <1>4 DEF Good, Backed

-----------------------------------------------------------------------------
(* The shapes of a step *)

DecisionsGrow ==
    /\ decisions' \in [Ids -> Answer]
    /\ \A i \in Ids : decisions[i].given \subseteq decisions'[i].given
    /\ Recorded'

CountersOK ==
    /\ paid' \in [1 .. MaxRounds -> Nat] /\ cap' \in Nat
    /\ commands' \in 0 .. MaxCommands /\ trouble' \in 0 .. MaxTrouble

\* p alone moves.
Moves(p) ==
    /\ sess' = [sess EXCEPT ![p] = sess'[p]] /\ sess'[p] \in Session
    /\ pc' = [pc EXCEPT ![p] = pc'[p]] /\ pc'[p] \in Phases
    /\ turn' = [turn EXCEPT ![p] = turn'[p]] /\ turn'[p] \in 1 .. N + 1

\* What a command waits to do with an approval stays approved.
LEMMA AtKept ==
    ASSUME IInv, NEW q \in Procs, DecisionsGrow, RequestsKept(requests, requests'),
           sess'[q] = sess[q], pc'[q] = pc[q], turn'[q] = turn[q]
    PROVE  At(q)'
<1>1. At(q) /\ sess[q] \in Session
  BY DEF IInv, TypeOK
<1>2. ASSUME pc[q] \in {"approve", "promote", "publish"} PROVE ApprovedOn(sess[q].hitl)'
  <2>1. sess[q].hitl # 0 /\ ApprovedOn(sess[q].hitl)
    BY <1>1, <1>2 DEF At
  <2>2. sess[q].hitl \in Ids
    BY <2>1, <1>1 DEF Session, Ids
  <2>3. requests'[sess[q].hitl] = requests[sess[q].hitl]
    BY <2>1, <2>2 DEF RequestsKept, ApprovedOn
  <2>4. "approve" \in decisions'[sess[q].hitl].given
    BY <2>1, <2>2 DEF DecisionsGrow, ApprovedOn
  <2>5. QED
    BY <2>1, <2>3, <2>4 DEF ApprovedOn
<1>3. QED
  BY <1>1, <1>2 DEF At

\* A step of one command, whatever else it writes, keeps the invariant if its own copies
\* are right and what the other copies rely on is kept.
LEMMA ProcStep ==
    ASSUME IInv, NEW p \in Procs, Moves(p), DecisionsGrow, CountersOK,
           disk' \in Session, Backed(disk', rows', requests'),
           Backed(sess'[p], rows', requests'), At(p)',
           rows' \in [Ids -> Row], requests' \in [Ids -> Request],
           RowsKept(rows, rows'), RequestsKept(requests, requests'), Shown(rows', requests'),
           final' \in [round : 0 .. MaxRounds, request : 0 .. MaxCommands, row : 0 .. MaxCommands],
           ApprovedByAPerson', Published'
    PROVE  IInv'
<1>1. TypeOK
  BY DEF IInv
<1>2. TypeOK'
  <2>1. sess' \in [Procs -> Session]
    BY <1>1 DEF Moves, TypeOK
  <2>2. pc' \in [Procs -> Phases]
    BY <1>1 DEF Moves, TypeOK
  <2>3. turn' \in [Procs -> 1 .. N + 1]
    BY <1>1 DEF Moves, TypeOK
  <2>4. decisions' \in [Ids -> Answer]
    BY DEF DecisionsGrow
  <2>5. QED
    BY <2>1, <2>2, <2>3, <2>4 DEF TypeOK, CountersOK
<1>3. ASSUME NEW q \in Procs PROVE Backed(sess[q], rows, requests)' /\ At(q)'
  <2>1. CASE q = p
    BY <2>1
  <2>2. CASE q # p
    <3>1. sess'[q] = sess[q] /\ pc'[q] = pc[q] /\ turn'[q] = turn[q] /\ sess[q] \in Session
      BY <2>2, <1>1 DEF Moves, TypeOK
    <3>2. Backed(sess[q], rows', requests')
      BY <3>1, BackedKept DEF IInv
    <3>3. QED
      BY <3>1, <3>2, AtKept
  <2>3. QED
    BY <2>1, <2>2
<1>4. QED
  BY <1>2, <1>3 DEF IInv, DecisionsGrow

\* What was approved stays approved while no row becomes active and nothing is published.
LEMMA ApprovalsKept ==
    ASSUME IInv, DecisionsGrow, RequestsKept(requests, requests'), final' = final,
           requests' \in [Ids -> Request],
           \A i \in Ids : rows'[i].status = "active" => rows[i].status = "active"
    PROVE  ApprovedByAPerson'
<1>1. ASSUME NEW i \in Ids, ApprovedOn(i) PROVE requests'[i] = requests[i] /\ ApprovedOn(i)'
  <2>1. requests'[i] = requests[i]
    BY <1>1 DEF ApprovedOn, RequestsKept
  <2>2. QED
    BY <2>1, <1>1 DEF ApprovedOn, DecisionsGrow
<1>2. ASSUME NEW i \in Ids, rows'[i].status = "active"
      PROVE  \E q \in Ids : requests'[q].row = i /\ ApprovedOn(q)'
  BY <1>1, <1>2 DEF IInv, ApprovedByAPerson
<1>3. ASSUME final # NoVerdict
      PROVE  /\ ApprovedOn(final.request)'
             /\ requests'[final.request].row = final.row
             /\ requests'[final.request].round = final.round
  <2>1. final.request \in Ids
    <3>1. final.request \in 0 .. MaxCommands /\ ApprovedOn(final.request)
      BY <1>3 DEF IInv, TypeOK, ApprovedByAPerson
    <3>2. final.request # 0
      BY <1>3 DEF IInv, Published
    <3>3. QED
      BY <3>1, <3>2 DEF Ids
  <2>2. QED
    BY <2>1, <1>1, <1>3 DEF IInv, ApprovedByAPerson
<1>4. QED
  BY <1>2, <1>3 DEF ApprovedByAPerson

\* A step that touches neither the memory, the requests nor verdict.json.
LEMMA SessionStep ==
    ASSUME IInv, NEW p \in Procs, Moves(p), DecisionsGrow, CountersOK,
           disk' \in Session, Backed(disk', rows, requests),
           Backed(sess'[p], rows, requests), At(p)', UNCHANGED <<rows, requests, final>>
    PROVE  IInv'
<1>1. /\ rows' = rows /\ requests' = requests /\ final' = final
      /\ RowsKept(rows, rows') /\ RequestsKept(requests, requests')
  BY DEF RowsKept, RequestsKept
<1>2. ApprovedByAPerson'
  BY <1>1, ApprovalsKept DEF IInv, TypeOK
<1>3. Shown(rows', requests') /\ Published'
  BY <1>1 DEF IInv, Published
<1>4. QED
  BY <1>1, <1>2, <1>3, ProcStep DEF IInv, TypeOK

LEMMA NothingDecided ==
    ASSUME IInv, decisions' = decisions PROVE DecisionsGrow
BY DEF IInv, TypeOK, DecisionsGrow, Recorded

LEMMA NothingCounted ==
    ASSUME IInv, UNCHANGED <<paid, cap, commands, trouble>> PROVE CountersOK
BY DEF IInv, TypeOK, CountersOK

\* A command begins or a call is paid.
LEMMA CountsOn ==
    ASSUME IInv, paid' = paid \/ \E p \in Procs : Pay(p), cap' \in {cap, Cap + Raise},
           commands' = commands \/ (commands < MaxCommands /\ commands' = commands + 1),
           trouble' = trouble \/ Fault
    PROVE  CountersOK
<1>1. TypeOK
  BY DEF IInv
<1>2. cap' \in Nat /\ commands' \in 0 .. MaxCommands /\ trouble' \in 0 .. MaxTrouble
  BY <1>1, CouncilAssumption, SMTT(30) DEF TypeOK, Fault
<1>3. paid' \in [1 .. MaxRounds -> Nat]
  BY <1>1 DEF TypeOK, Pay
<1>4. QED
  BY <1>2, <1>3 DEF CountersOK

LEMMA NewRoundOK ==
    ASSUME NEW n \in 0 .. MaxRounds
    PROVE  /\ NewRound(n) \in Session /\ NewRound(n).stage = "independent"
           /\ NewRound(n).hitl = 0 /\ NewRound(n).row = 0
BY CouncilAssumption DEF NewRound, Session, Votes

LEMMA NoSessionOK ==
    /\ NoSession \in Session /\ NoSession.stage = "independent"
    /\ NoSession.hitl = 0 /\ NoSession.row = 0
<1>1. NewRound(0) \in Session /\ NewRound(0).stage = "independent"
      /\ NewRound(0).hitl = 0 /\ NewRound(0).row = 0
  BY NewRoundOK, CouncilAssumption
<1>2. QED
  BY <1>1 DEF NoSession, Session

\* A command that ends leaves a copy on disk that differs in its status only.
LEMMA EndStep ==
    ASSUME IInv, NEW p \in Procs, NEW st \in {"awaiting", "paused_budget", "error", "done", "rejected"},
           Ends(p, [sess[p] EXCEPT !.status = st]), CountersOK,
           UNCHANGED <<rows, requests, decisions, final>>
    PROVE  IInv'
<1>1. TypeOK /\ sess[p] \in Session /\ Backed(sess[p], rows, requests)
  BY DEF IInv, TypeOK
<1>2. disk' \in Session
  BY <1>1 DEF Ends, Session
<1>3. Alike(sess[p], disk')
  BY <1>1 DEF Ends, Session, Alike
<1>4. Backed(disk', rows, requests)
  BY <1>1, <1>3, BackedAlike
<1>5. sess'[p] = NoSession /\ pc'[p] = "idle" /\ turn'[p] = 1
  BY <1>1 DEF TypeOK, Ends
<1>6. Moves(p)
  <2>1. sess'[p] \in Session /\ pc'[p] \in Phases /\ turn'[p] \in 1 .. N + 1
    BY <1>5, NoSessionOK, CouncilAssumption DEF Phases
  <2>2. sess' = [sess EXCEPT ![p] = sess'[p]]
    BY <1>5 DEF Ends
  <2>3. pc' = [pc EXCEPT ![p] = pc'[p]] /\ turn' = [turn EXCEPT ![p] = turn'[p]]
    BY <1>5 DEF Ends
  <2>4. QED
    BY <2>1, <2>2, <2>3 DEF Moves
<1>7. Backed(sess'[p], rows, requests)
  BY <1>5, NoSessionOK, BackedEarly
<1>8. At(p)'
  BY <1>5 DEF At
<1>9. QED
  BY <1>2, <1>4, <1>6, <1>7, <1>8, NothingDecided, SessionStep

\* The next stage begins with what the one before has put into the session.
LEMMA LeaveStep ==
    ASSUME IInv, NEW p \in Procs, NEW s \in Session, Leaves(p, s), CountersOK,
           s.stage \in {"independent", "peer_rank", "synthesize", "gate"}, s.hitl = 0, s.row = 0,
           s.stage \in {"synthesize", "gate"} => s.verdict # "none",
           s.stage = "gate" => s.gate = RunGate(s),
           UNCHANGED <<disk, turn, rows, requests, decisions, final>>
    PROVE  IInv'
<1>1. TypeOK
  BY DEF IInv
<1>2. sess'[p] = [s EXCEPT !.stage = Next1(s.stage)] /\ pc'[p] = "enter"
  BY <1>1 DEF TypeOK, Leaves, Keep, Go
<1>3. Next1(s.stage) \in {"peer_rank", "synthesize", "gate", "hitl"}
      /\ (Next1(s.stage) = "gate" => s.stage = "synthesize") /\ (Next1(s.stage) = "hitl" => s.stage = "gate")
  BY DEF Next1
<1>4. sess'[p] \in Session
  BY <1>2, <1>3 DEF Session
<1>5. /\ sess'[p].stage = Next1(s.stage) /\ sess'[p].hitl = 0 /\ sess'[p].row = 0
      /\ sess'[p].verdict = s.verdict /\ sess'[p].gate = s.gate /\ sess'[p].pos = s.pos
  BY <1>2 DEF Session
<1>6. RunGate(sess'[p]) = RunGate(s)
  BY <1>5 DEF RunGate, Vetoed
<1>7. Backed(sess'[p], rows, requests)
  BY <1>3, <1>5, <1>6 DEF Backed
<1>8. Moves(p)
  <2>1. pc'[p] \in Phases /\ turn'[p] \in 1 .. N + 1
    BY <1>1, <1>2 DEF TypeOK, Phases
  <2>2. sess' = [sess EXCEPT ![p] = sess'[p]] /\ pc' = [pc EXCEPT ![p] = pc'[p]]
    BY <1>2 DEF Leaves, Keep, Go
  <2>3. turn' = [turn EXCEPT ![p] = turn'[p]]
    BY <1>1 DEF TypeOK
  <2>4. QED
    BY <1>4, <2>1, <2>2, <2>3 DEF Moves
<1>9. At(p)'
  BY <1>2 DEF At
<1>10. QED
  BY <1>1, <1>7, <1>8, <1>9, NothingDecided, SessionStep DEF IInv, TypeOK

\* Only the phase of p changes, and what p may do there is known.
LEMMA PhaseStep ==
    ASSUME IInv, NEW p \in Procs, NEW ph \in Phases, Go(p, ph), CountersOK, At(p)',
           UNCHANGED <<disk, sess, turn, rows, requests, decisions, final>>
    PROVE  IInv'
<1>1. TypeOK /\ sess[p] \in Session
  BY DEF IInv, TypeOK
<1>2. Moves(p)
  <2>1. pc'[p] = ph /\ pc' = [pc EXCEPT ![p] = pc'[p]]
    BY <1>1 DEF TypeOK, Go
  <2>2. sess' = [sess EXCEPT ![p] = sess'[p]] /\ turn' = [turn EXCEPT ![p] = turn'[p]]
    BY <1>1 DEF TypeOK
  <2>3. sess'[p] \in Session /\ turn'[p] \in 1 .. N + 1
    BY <1>1 DEF TypeOK
  <2>4. QED
    BY <2>1, <2>2, <2>3 DEF Moves
<1>3. Backed(sess'[p], rows, requests)
  BY DEF IInv
<1>4. QED
  BY <1>1, <1>2, <1>3, NothingDecided, SessionStep DEF IInv, TypeOK

\* A command takes up a copy that is right, and stays at the turn where it is.
LEMMA TakeUpStep ==
    ASSUME IInv, NEW p \in Procs, NEW ph \in Phases, Go(p, ph), CountersOK, DecisionsGrow,
           sess' = [sess EXCEPT ![p] = sess'[p]], sess'[p] \in Session,
           disk' \in Session, Backed(disk', rows, requests), Backed(sess'[p], rows, requests),
           At(p)', UNCHANGED <<turn, rows, requests, final>>
    PROVE  IInv'
<1>1. TypeOK
  BY DEF IInv
<1>2. pc'[p] = ph /\ pc' = [pc EXCEPT ![p] = pc'[p]]
  BY <1>1 DEF TypeOK, Go
<1>3. turn' = [turn EXCEPT ![p] = turn'[p]] /\ turn'[p] \in 1 .. N + 1
  BY <1>1 DEF TypeOK
<1>4. Moves(p)
  BY <1>2, <1>3 DEF Moves
<1>5. QED
  BY <1>4, SessionStep

-----------------------------------------------------------------------------
(* One lemma per action: the commands *)

LEMMA StartStep ==
    ASSUME IInv, NEW p \in Procs, Start(p) PROVE IInv'
<1>1. TypeOK
  BY DEF IInv
<1>2. disk' = [NewRound(1) EXCEPT !.status = "running"] /\ sess'[p] = disk' /\ pc'[p] = "enter"
  BY <1>1 DEF Start, Keep, Go, TypeOK
<1>3. /\ disk' \in Session /\ disk'.stage = "independent" /\ disk'.hitl = 0 /\ disk'.row = 0
  <2>1. NewRound(1) \in Session /\ NewRound(1).stage = "independent"
        /\ NewRound(1).hitl = 0 /\ NewRound(1).row = 0
    BY NewRoundOK, CouncilAssumption
  <2>2. QED
    BY <1>2, <2>1 DEF Session
<1>4. Backed(disk', rows, requests)
  BY <1>3, BackedEarly
<1>5. At(p)'
  BY <1>2 DEF At
<1>6. CountersOK /\ DecisionsGrow
  <2>1. CountersOK
    BY CountsOn DEF Start, Command
  <2>2. QED
    BY <2>1, NothingDecided DEF Start
<1>7. sess' = [sess EXCEPT ![p] = sess'[p]] /\ Go(p, "enter") /\ UNCHANGED <<turn, rows, requests, final>>
  BY <1>2 DEF Start, Keep
<1>8. QED
  BY <1>2, <1>3, <1>4, <1>5, <1>6, <1>7, TakeUpStep DEF Phases

LEMMA ResumeStep ==
    ASSUME IInv, NEW p \in Procs, Resume(p) PROVE IInv'
<1>1. TypeOK
  BY DEF IInv
<1>2. sess'[p] = disk /\ pc'[p] = "enter" /\ sess' = [sess EXCEPT ![p] = sess'[p]]
  BY <1>1 DEF Resume, Keep, Go, TypeOK
<1>3. disk' = disk /\ disk \in Session /\ Backed(disk, rows, requests)
  BY <1>1 DEF IInv, TypeOK, Resume
<1>4. At(p)'
  BY <1>2 DEF At
<1>5. CountersOK
  BY CountsOn DEF Resume, Command
<1>6. DecisionsGrow
  BY NothingDecided DEF Resume
<1>7. Go(p, "enter") /\ UNCHANGED <<turn, rows, requests, final>>
  BY DEF Resume
<1>8. QED
  BY <1>2, <1>3, <1>4, <1>5, <1>6, <1>7, TakeUpStep DEF Phases

\* The response taken from disk leads to where its guard allows.
LEMMA TakesResponse ==
    ASSUME IInv, NEW p \in Procs, NEW r \in Responses, r \in Allowed(disk), DecisionsGrow,
           r \in decisions'[disk.hitl].given, Keep(p, disk), Go(p, r), CountersOK,
           UNCHANGED <<disk, turn, rows, requests, final>>
    PROVE  IInv'
<1>1. TypeOK /\ disk \in Session /\ Backed(disk, rows, requests)
  BY DEF IInv, TypeOK
<1>2. sess'[p] = disk /\ pc'[p] = r /\ sess' = [sess EXCEPT ![p] = sess'[p]]
  BY <1>1 DEF Keep, Go, TypeOK
<1>3. disk.hitl # 0 /\ r \in requests[disk.hitl].allow /\ r \in Allow(disk)
  BY <1>1 DEF Allowed, Backed
<1>4. r = "edit" => disk.round < MaxRounds
  BY <1>3 DEF Allow
<1>5. r = "approve" => ApprovedOn(disk.hitl)'
  BY <1>3 DEF ApprovedOn
<1>6. At(p)'
  BY <1>2, <1>3, <1>4, <1>5 DEF At, Responses, ApprovedOn
<1>7. r \in Phases
  BY DEF Responses, Phases
<1>8. QED
  BY <1>1, <1>2, <1>6, <1>7, TakeUpStep

LEMMA DecideStep ==
    ASSUME IInv, NEW p \in Procs, NEW r \in Responses, Decide(p, r) PROVE IInv'
<1>1. TypeOK /\ disk.hitl \in Ids
  <2>1. disk.hitl # 0
    BY DEF Decide, Allowed
  <2>2. QED
    BY <2>1, SMTT(30) DEF IInv, TypeOK, Session, Ids
<1>2. decisions' = [decisions EXCEPT ![disk.hitl] =
                       [given |-> decisions[disk.hitl].given \cup {r}, last |-> r]]
  BY DEF Decide, Respond
<1>3. DecisionsGrow /\ r \in decisions'[disk.hitl].given
  <2>1. decisions' \in [Ids -> Answer]
    BY <1>1, <1>2 DEF TypeOK, Answer
  <2>2. \A i \in Ids : decisions[i].given \subseteq decisions'[i].given
    BY <1>1, <1>2 DEF TypeOK, Answer
  <2>3. Recorded'
    BY <1>1, <1>2 DEF TypeOK, Answer, IInv, Recorded
  <2>4. QED
    BY <1>1, <1>2, <2>1, <2>2, <2>3 DEF DecisionsGrow, TypeOK
<1>4. CountersOK
  BY CountsOn DEF Decide, Command
<1>5. r \in Allowed(disk) /\ Keep(p, disk) /\ Go(p, r) /\ UNCHANGED <<disk, turn, rows, requests, final>>
  BY DEF Decide
<1>6. QED
  BY <1>3, <1>4, <1>5, TakesResponse

LEMMA ResumeDecidedStep ==
    ASSUME IInv, NEW p \in Procs, ResumeDecided(p) PROVE IInv'
<1> DEFINE r == decisions[disk.hitl].last
<1>1. TypeOK /\ disk.hitl \in Ids
  BY SMTT(30) DEF IInv, TypeOK, Session, Ids, ResumeDecided
<1>2. r \in Allowed(disk) /\ Allowed(disk) \subseteq Responses
  BY <1>1 DEF ResumeDecided, Allowed, TypeOK, Request
<1>3. r \in decisions[disk.hitl].given
  BY <1>1, <1>2 DEF IInv, Recorded, Responses
<1>4. DecisionsGrow /\ decisions' = decisions
  BY NothingDecided DEF ResumeDecided
<1>5. CountersOK
  BY CountsOn DEF ResumeDecided, Command
<1>6. Keep(p, disk) /\ Go(p, r) /\ UNCHANGED <<disk, turn, rows, requests, final>>
  BY DEF ResumeDecided
<1>7. disk' = disk /\ r \in decisions'[disk.hitl].given /\ r \in Responses
  BY <1>2, <1>3, <1>4, <1>6
<1> HIDE DEF r
<1>8. QED
  BY <1>2, <1>4, <1>5, <1>6, <1>7, TakesResponse

LEMMA ResumeWaitingStep ==
    ASSUME IInv, NEW p \in Procs, ResumeWaiting(p) PROVE IInv'
<1>1. TypeOK /\ At(p)
  BY DEF IInv
<1>2. UNCHANGED <<disk, sess, pc, turn, rows, requests, decisions, final>>
  BY DEF ResumeWaiting
<1>3. Moves(p)
  BY <1>1, <1>2 DEF Moves, TypeOK
<1>4. sess'[p] = sess[p] /\ Backed(sess[p], rows, requests)
  BY <1>2 DEF IInv
<1>5. CountersOK
  BY CountsOn DEF ResumeWaiting, Command
<1>6. DecisionsGrow /\ At(p)'
  BY <1>1, <1>2, NothingDecided DEF At, ApprovedOn
<1>7. disk' \in Session /\ Backed(disk', rows, requests)
  BY <1>1, <1>2 DEF IInv, TypeOK
<1>8. QED
  BY <1>2, <1>3, <1>4, <1>5, <1>6, <1>7, SessionStep

LEMMA NodeDecidesStep ==
    ASSUME IInv, NEW i \in Ids, NEW r \in Responses, NodeDecides(i, r) PROVE IInv'
<1>1. TypeOK
  BY DEF IInv
<1>2. decisions' = [decisions EXCEPT ![i] = [given |-> decisions[i].given \cup {r}, last |-> r]]
  BY DEF NodeDecides, Respond
<1>3. DecisionsGrow
  <2>1. decisions' \in [Ids -> Answer]
    BY <1>1, <1>2 DEF TypeOK, Answer
  <2>2. \A j \in Ids : decisions[j].given \subseteq decisions'[j].given
    BY <1>1, <1>2 DEF TypeOK, Answer
  <2>3. Recorded'
    BY <1>1, <1>2 DEF TypeOK, Answer, IInv, Recorded
  <2>4. QED
    BY <2>1, <2>2, <2>3 DEF DecisionsGrow
<1>4. UNCHANGED <<disk, sess, pc, turn, rows, requests, final, paid, cap, commands, trouble>>
  BY DEF NodeDecides
<1>5. RequestsKept(requests, requests')
  BY <1>4 DEF RequestsKept
<1>6. TypeOK'
  BY <1>1, <1>3, <1>4 DEF TypeOK, DecisionsGrow
<1>7. ASSUME NEW q \in Procs PROVE At(q)'
  BY <1>3, <1>4, <1>5, AtKept
<1>8. ApprovedByAPerson'
  BY <1>1, <1>3, <1>4, <1>5, ApprovalsKept DEF TypeOK
<1>9. QED
  BY <1>3, <1>4, <1>6, <1>7, <1>8 DEF IInv, DecisionsGrow, Published

-----------------------------------------------------------------------------
(* The stages *)

LEMMA EnterStep ==
    ASSUME IInv, NEW p \in Procs, Enter(p) PROVE IInv'
<1>1. TypeOK /\ sess[p] \in Session /\ Backed(sess[p], rows, requests)
  BY DEF IInv, TypeOK
<1>2. /\ disk' = [sess[p] EXCEPT !.status = "running"] /\ sess'[p] = disk'
      /\ pc'[p] = sess[p].stage /\ turn'[p] = 1
  BY <1>1 DEF Enter, Keep, Go, TypeOK
<1>3. disk' \in Session /\ Alike(sess[p], disk')
  BY <1>1, <1>2 DEF Session, Alike
<1>4. Backed(disk', rows, requests)
  BY <1>1, <1>3, BackedAlike
<1>5. sess[p].stage \in {"independent", "peer_rank", "synthesize", "gate", "hitl"}
  BY <1>1 DEF Session
<1>6. Moves(p)
  <2>1. pc'[p] \in Phases /\ turn'[p] \in 1 .. N + 1
    BY <1>2, <1>5, CouncilAssumption DEF Phases
  <2>2. sess' = [sess EXCEPT ![p] = sess'[p]] /\ turn' = [turn EXCEPT ![p] = turn'[p]]
    BY <1>2 DEF Enter, Keep
  <2>3. pc' = [pc EXCEPT ![p] = pc'[p]]
    BY <1>2 DEF Enter, Go
  <2>4. QED
    BY <1>2, <1>3, <2>1, <2>2, <2>3 DEF Moves
<1>7. At(p)'
  BY <1>2, <1>3, <1>5 DEF At, Alike
<1>8. CountersOK /\ DecisionsGrow /\ UNCHANGED <<rows, requests, final>>
  BY NothingCounted, NothingDecided DEF Enter
<1>9. QED
  BY <1>2, <1>3, <1>4, <1>6, <1>7, <1>8, SessionStep

LEMMA WithAnswerOK ==
    ASSUME NEW s \in Session, NEW m \in Members, NEW stage \in {"independent", "peer_rank"},
           NEW a \in Answers(stage, m) \cup {"error"}
    PROVE  /\ WithAnswer(s, stage, m, a) \in Session
           /\ WithAnswer(s, stage, m, a).stage = s.stage
           /\ WithAnswer(s, stage, m, a).hitl = s.hitl /\ WithAnswer(s, stage, m, a).row = s.row
<1>1. CASE stage = "independent"
  <2>1. a \in {"none", "error"} \cup Votes
    BY <1>1 DEF Answers, Votes
  <2>2. [s.pos EXCEPT ![m] = a] \in [Members -> {"none", "error"} \cup Votes]
    BY <2>1 DEF Session
  <2>3. WithAnswer(s, stage, m, a) = [s EXCEPT !.pos = [s.pos EXCEPT ![m] = a]]
    BY <1>1 DEF WithAnswer
  <2>4. QED
    BY <2>2, <2>3 DEF Session
<1>2. CASE stage = "peer_rank"
  <2>1. a \in {"none", "error", "ballot"}
    BY <1>2 DEF Answers
  <2>2. [s.ballot EXCEPT ![m] = a] \in [Members -> {"none", "error", "ballot"}]
    BY <2>1 DEF Session
  <2>3. WithAnswer(s, stage, m, a) = [s EXCEPT !.ballot = [s.ballot EXCEPT ![m] = a]]
    BY <1>2 DEF WithAnswer
  <2>4. QED
    BY <2>2, <2>3 DEF Session
<1>3. QED
  BY <1>1, <1>2

\* A member's answer, or the failure to get one, is in the copy and waits to be saved.
LEMMA AnswerStep ==
    ASSUME IInv, NEW p \in Procs, Asking(p), NEW a \in Answers(pc[p], turn[p]) \cup {"error"},
           Keep(p, WithAnswer(sess[p], pc[p], turn[p], a)), Go(p, "save"), CountersOK,
           UNCHANGED <<disk, turn, rows, requests, decisions, final>>
    PROVE  IInv'
<1>1. TypeOK /\ sess[p] \in Session /\ Backed(sess[p], rows, requests) /\ sess[p].stage = pc[p]
  BY DEF IInv, TypeOK, At, Asking
<1>2. pc[p] \in {"independent", "peer_rank"} /\ turn[p] \in Members
  BY DEF Asking, Due
<1>3. sess'[p] = WithAnswer(sess[p], pc[p], turn[p], a) /\ pc'[p] = "save"
      /\ sess' = [sess EXCEPT ![p] = sess'[p]]
  BY <1>1 DEF Keep, Go, TypeOK
<1>4. /\ sess'[p] \in Session /\ sess'[p].stage = sess[p].stage
      /\ sess'[p].hitl = sess[p].hitl /\ sess'[p].row = sess[p].row
  BY <1>1, <1>2, <1>3, WithAnswerOK
<1>5. sess[p].hitl = 0 /\ sess[p].row = 0
  BY <1>1, <1>2 DEF Backed
<1>6. Backed(sess'[p], rows, requests)
  BY <1>1, <1>2, <1>4, <1>5, BackedEarly
<1>7. At(p)'
  BY <1>1, <1>2, <1>3, <1>4 DEF At
<1>8. disk' = disk /\ disk \in Session /\ Backed(disk, rows, requests)
  BY <1>1 DEF IInv, TypeOK
<1>9. QED
  BY <1>3, <1>4, <1>6, <1>7, <1>8, NothingDecided, TakeUpStep DEF Phases

LEMMA AnsweredStep ==
    ASSUME IInv, NEW p \in Procs, Answered(p) \/ CallFails(p) PROVE IInv'
<1>1. CountersOK
  BY CountsOn DEF Answered, CallFails
<1>2. CASE Answered(p)
  <2>1. PICK a \in Answers(pc[p], turn[p]) \cup {"error"} :
            Keep(p, WithAnswer(sess[p], pc[p], turn[p], a))
    BY <1>2 DEF Answered
  <2>2. Asking(p) /\ Go(p, "save") /\ UNCHANGED <<disk, turn, rows, requests, decisions, final>>
    BY <1>2 DEF Answered
  <2>3. QED
    BY <1>1, <2>1, <2>2, AnswerStep
<1>3. CASE CallFails(p)
  <2>1. /\ Asking(p) /\ Keep(p, WithAnswer(sess[p], pc[p], turn[p], "error")) /\ Go(p, "save")
        /\ UNCHANGED <<disk, turn, rows, requests, decisions, final>>
    BY <1>3 DEF CallFails
  <2>2. QED
    BY <1>1, <2>1, AnswerStep
<1>4. QED
  BY <1>2, <1>3

LEMMA SaveAnswerStep ==
    ASSUME IInv, NEW p \in Procs, SaveAnswer(p) PROVE IInv'
<1>1. TypeOK /\ sess[p] \in Session /\ Backed(sess[p], rows, requests)
  BY DEF IInv, TypeOK
<1>2. sess[p].stage \in {"independent", "peer_rank"} /\ turn[p] \in Members
  BY DEF IInv, At, SaveAnswer
<1>3. disk' = sess[p] /\ sess' = sess /\ pc'[p] = sess[p].stage /\ turn'[p] = turn[p] + 1
  BY <1>1 DEF SaveAnswer, Go, TypeOK
<1>4. Moves(p)
  <2>1. pc'[p] \in Phases /\ turn'[p] \in 1 .. N + 1
    BY <1>2, <1>3, CouncilAssumption DEF Phases, Members
  <2>2. sess'[p] = sess[p] /\ sess' = [sess EXCEPT ![p] = sess'[p]]
    BY <1>1, <1>3 DEF TypeOK
  <2>3. pc' = [pc EXCEPT ![p] = pc'[p]] /\ turn' = [turn EXCEPT ![p] = turn'[p]]
    BY <1>3 DEF SaveAnswer, Go
  <2>4. QED
    BY <1>1, <2>1, <2>2, <2>3 DEF Moves
<1>5. At(p)'
  BY <1>2, <1>3 DEF At
<1>6. CountersOK /\ DecisionsGrow /\ UNCHANGED <<rows, requests, final>>
  BY NothingCounted, NothingDecided DEF SaveAnswer
<1>7. QED
  BY <1>1, <1>3, <1>4, <1>5, <1>6, SessionStep

LEMMA SkipsStep ==
    ASSUME IInv, NEW p \in Procs, Skips(p) PROVE IInv'
<1>1. TypeOK /\ At(p)
  BY DEF IInv
<1>2. turn'[p] = turn[p] + 1 /\ turn[p] \in Members /\ turn' = [turn EXCEPT ![p] = turn'[p]]
  BY <1>1 DEF Skips, TypeOK
<1>3. UNCHANGED <<disk, sess, pc, rows, requests, decisions, final, paid, cap, commands, trouble>>
  BY DEF Skips
<1>4. Moves(p)
  <2>1. turn'[p] \in 1 .. N + 1
    BY <1>2, CouncilAssumption DEF Members
  <2>2. sess' = [sess EXCEPT ![p] = sess'[p]] /\ pc' = [pc EXCEPT ![p] = pc'[p]]
    BY <1>1, <1>3 DEF TypeOK
  <2>3. sess'[p] \in Session /\ pc'[p] \in Phases
    BY <1>1, <1>3 DEF TypeOK
  <2>4. QED
    BY <1>2, <2>1, <2>2, <2>3 DEF Moves
<1>5. At(p)'
  BY <1>1, <1>2, <1>3 DEF At, Skips, ApprovedOn
<1>6. CountersOK /\ DecisionsGrow
  BY <1>3, NothingCounted, NothingDecided
<1>7. disk' \in Session /\ Backed(disk', rows, requests) /\ Backed(sess'[p], rows, requests)
  BY <1>1, <1>3 DEF IInv, TypeOK
<1>8. QED
  BY <1>3, <1>4, <1>5, <1>6, <1>7, SessionStep

LEMMA StageDoneStep ==
    ASSUME IInv, NEW p \in Procs, StageDone(p) PROVE IInv'
<1>1. sess[p] \in Session /\ Backed(sess[p], rows, requests) /\ At(p)
  BY DEF IInv, TypeOK
<1>2. sess[p].stage \in {"independent", "peer_rank"}
  BY <1>1 DEF StageDone, At
<1>3. sess[p].hitl = 0 /\ sess[p].row = 0
  BY <1>1, <1>2 DEF Backed
<1>4. Leaves(p, sess[p]) /\ UNCHANGED <<disk, turn, rows, requests, decisions, final>>
  BY DEF StageDone
<1>5. CountersOK
  BY NothingCounted DEF StageDone
<1>6. QED
  BY <1>1, <1>2, <1>3, <1>4, <1>5, LeaveStep

LEMMA SynthesizeStep ==
    ASSUME IInv, NEW p \in Procs, Synthesize(p) PROVE IInv'
<1>1. sess[p] \in Session /\ Backed(sess[p], rows, requests) /\ At(p)
  BY DEF IInv, TypeOK
<1>2. sess[p].stage = "synthesize"
  BY <1>1 DEF Synthesize, At
<1>3. sess[p].hitl = 0 /\ sess[p].row = 0
  BY <1>1, <1>2 DEF Backed
<1>4. PICK v \in {"for", "against", "weak"} : Leaves(p, [sess[p] EXCEPT !.verdict = v])
  BY DEF Synthesize
<1> DEFINE s == [sess[p] EXCEPT !.verdict = v]
<1>5. s \in Session /\ s.verdict = v /\ s.stage = "synthesize" /\ s.hitl = 0 /\ s.row = 0
  BY <1>1, <1>2, <1>3 DEF Session
<1>6. CountersOK
  BY CountsOn DEF Synthesize
<1>7. Leaves(p, s) /\ UNCHANGED <<disk, turn, rows, requests, decisions, final>>
  BY <1>4 DEF Synthesize
<1> HIDE DEF s
<1>8. QED
  BY <1>5, <1>6, <1>7, LeaveStep

LEMMA GateStep ==
    ASSUME IInv, NEW p \in Procs, Gate(p) PROVE IInv'
<1>1. sess[p] \in Session /\ Backed(sess[p], rows, requests) /\ At(p)
  BY DEF IInv, TypeOK
<1>2. sess[p].stage = "gate" /\ sess[p].verdict # "none"
  BY <1>1 DEF Gate, At, Backed
<1>3. sess[p].hitl = 0 /\ sess[p].row = 0
  BY <1>1, <1>2 DEF Backed
<1> DEFINE s == [sess[p] EXCEPT !.gate = RunGate(sess[p])]
<1>4. RunGate(sess[p]) \in {"none", "pass", "held"}
  BY DEF RunGate
<1>5. /\ s \in Session /\ s.verdict = sess[p].verdict /\ s.pos = sess[p].pos
      /\ s.gate = RunGate(sess[p]) /\ s.stage = "gate" /\ s.hitl = 0 /\ s.row = 0
  BY <1>1, <1>2, <1>3, <1>4 DEF Session
<1>6. s.gate = RunGate(s)
  BY <1>5 DEF RunGate, Vetoed
<1>7. CountersOK
  BY NothingCounted DEF Gate
<1>8. Leaves(p, s) /\ UNCHANGED <<disk, turn, rows, requests, decisions, final>>
  BY DEF Gate
<1> HIDE DEF s
<1>9. QED
  BY <1>2, <1>5, <1>6, <1>7, <1>8, LeaveStep

LEMMA EndsStep ==
    ASSUME IInv, NEW p \in Procs,
           NoQuorum(p) \/ OverBudget(p) \/ ChairmanFails(p) \/ Await(p) \/ Close(p)
    PROVE  IInv'
<1>1. CountersOK
  BY CountsOn DEF NoQuorum, OverBudget, ChairmanFails, Await, Close
<1>2. \E st \in {"awaiting", "paused_budget", "error", "done", "rejected"} :
          Ends(p, [sess[p] EXCEPT !.status = st])
  BY DEF NoQuorum, OverBudget, ChairmanFails, Await, Close
<1>3. UNCHANGED <<rows, requests, decisions, final>>
  BY DEF NoQuorum, OverBudget, ChairmanFails, Await, Close
<1>4. QED
  BY <1>1, <1>2, <1>3, EndStep

-----------------------------------------------------------------------------
(* The candidate and the request *)

LEMMA RememberStep ==
    ASSUME IInv, NEW p \in Procs, Remember(p) PROVE IInv'
<1> DEFINE s == sess[p]
           new == [status |-> "candidate", verdict |-> s.verdict, veto |-> Vetoed(s)]
<1>1. TypeOK /\ s \in Session /\ Backed(s, rows, requests) /\ s.stage = "hitl" /\ s.hitl = 0
  BY DEF IInv, TypeOK, At, Remember
<1>2. PICK i \in Ids : /\ rows[i] = NoRow /\ rows' = [rows EXCEPT ![i] = new]
                       /\ Keep(p, [s EXCEPT !.row = i, !.mem = "candidate"])
  BY DEF Remember, FirstFree
<1>3. sess'[p] = [s EXCEPT !.row = i, !.mem = "candidate"] /\ sess' = [sess EXCEPT ![p] = sess'[p]]
      /\ pc'[p] = "ask" /\ Go(p, "ask")
  BY <1>1, <1>2 DEF Remember, Keep, Go, TypeOK
<1>4. i # 0 /\ i \in 0 .. MaxCommands
  BY DEF Ids
<1>5. new \in Row
  BY <1>1 DEF Row, Session, Vetoed
<1>6. sess'[p] \in Session
  <2>1. [s EXCEPT !.row = i] \in Session
    BY <1>1, <1>4 DEF Session
  <2>2. [[s EXCEPT !.row = i] EXCEPT !.mem = "candidate"] \in Session
    BY <2>1 DEF Session
  <2>3. QED
    BY <1>3, <2>2
<1>7. /\ sess'[p].row = i /\ sess'[p].hitl = 0 /\ sess'[p].stage = "hitl" /\ sess'[p].pos = s.pos
      /\ sess'[p].verdict = s.verdict /\ sess'[p].gate = s.gate /\ sess'[p].round = s.round
  BY <1>1, <1>3 DEF Session
<1>8. rows' \in [Ids -> Row] /\ rows'[i] = new
  BY <1>1, <1>2, <1>5 DEF TypeOK
<1>9. RowsKept(rows, rows')
  BY <1>1, <1>2 DEF RowsKept, TypeOK, NoRow
<1>10. UNCHANGED <<disk, turn, requests, decisions, final, paid, cap, commands, trouble>>
  BY DEF Remember
<1>11. RequestsKept(requests, requests') /\ requests' \in [Ids -> Request]
  BY <1>1, <1>10 DEF RequestsKept, TypeOK
<1>12. Backed(sess'[p], rows', requests')
  <2>1. RunGate(sess'[p]) = RunGate(s) /\ Vetoed(sess'[p]) = Vetoed(s)
    BY <1>7 DEF RunGate, Vetoed
  <2>2. rows'[i].status = "candidate" /\ rows'[i].verdict = s.verdict /\ rows'[i].veto = Vetoed(s)
    BY <1>8
  <2> HIDE DEF s, new
  <2>3. QED
    BY <1>1, <1>4, <1>7, <2>1, <2>2 DEF Backed
<1>13. Backed(disk', rows', requests') /\ disk' \in Session
  BY <1>1, <1>9, <1>10, <1>11, BackedKept DEF IInv, TypeOK
<1>14. Shown(rows', requests')
  <2>1. ASSUME NEW j \in Ids, requests[j].row # 0 PROVE requests[j].row \in Ids \ {i}
    <3>1. requests[j].row \in 0 .. MaxCommands
      BY <1>1 DEF TypeOK, Request
    <3>2. rows[requests[j].row].status # "none"
      BY <2>1 DEF IInv, Shown
    <3>3. QED
      BY <1>2, <2>1, <3>1, <3>2 DEF Ids, NoRow
  <2>2. \A j \in Ids \ {i} : rows'[j] = rows[j]
    BY <1>1, <1>2 DEF TypeOK
  <2>3. QED
    BY <1>10, <2>1, <2>2 DEF IInv, Shown
<1>15. ApprovedByAPerson' /\ Published' /\ CountersOK /\ DecisionsGrow
  <2>1. DecisionsGrow /\ CountersOK
    BY <1>10, NothingDecided, NothingCounted
  <2>2. \A j \in Ids : rows'[j].status = "active" => rows[j].status = "active"
    BY <1>1, <1>2, <1>8 DEF TypeOK
  <2>3. ApprovedByAPerson'
    BY <1>10, <1>11, <2>1, <2>2, ApprovalsKept
  <2>4. QED
    BY <1>10, <2>1, <2>3 DEF IInv, Published
<1>16. Moves(p) /\ At(p)'
  <2>1. turn' = [turn EXCEPT ![p] = turn'[p]] /\ turn'[p] \in 1 .. N + 1
    BY <1>1, <1>10 DEF TypeOK
  <2>2. pc' = [pc EXCEPT ![p] = pc'[p]] /\ pc'[p] \in Phases
    BY <1>3 DEF Go, Phases
  <2>3. QED
    BY <1>3, <1>6, <1>7, <2>1, <2>2 DEF Moves, At
<1>17. final' \in [round : 0 .. MaxRounds, request : 0 .. MaxCommands, row : 0 .. MaxCommands]
  BY <1>1, <1>10 DEF TypeOK
<1>18. QED
  BY <1>6, <1>8, <1>9, <1>11, <1>12, <1>13, <1>14, <1>15, <1>16, <1>17, ProcStep

LEMMA RememberFailsStep ==
    ASSUME IInv, NEW p \in Procs, RememberFails(p) PROVE IInv'
<1>1. TypeOK /\ sess[p] \in Session /\ Backed(sess[p], rows, requests) /\ sess[p].stage = "hitl"
  BY DEF IInv, TypeOK, At, RememberFails
<1>2. sess'[p] = [sess[p] EXCEPT !.row = 0, !.mem = "none"] /\ pc'[p] = "ask"
      /\ sess' = [sess EXCEPT ![p] = sess'[p]] /\ Go(p, "ask") /\ sess[p].hitl = 0
  BY <1>1 DEF RememberFails, Keep, Go, TypeOK
<1>3. sess'[p] \in Session
  <2>1. 0 \in 0 .. MaxCommands
    BY CouncilAssumption
  <2>2. [sess[p] EXCEPT !.row = 0] \in Session
    BY <1>1, <2>1 DEF Session
  <2>3. [[sess[p] EXCEPT !.row = 0] EXCEPT !.mem = "none"] \in Session
    BY <2>2 DEF Session
  <2>4. QED
    BY <1>2, <2>3
<1>4. /\ sess'[p].row = 0 /\ sess'[p].hitl = 0 /\ sess'[p].stage = "hitl"
      /\ sess'[p].verdict = sess[p].verdict /\ sess'[p].gate = sess[p].gate /\ sess'[p].pos = sess[p].pos
  BY <1>1, <1>2 DEF Session
<1>5. Backed(sess'[p], rows, requests)
  <2>1. RunGate(sess'[p]) = RunGate(sess[p])
    BY <1>4 DEF RunGate, Vetoed
  <2>2. QED
    BY <1>1, <1>4, <2>1 DEF Backed
<1>6. CountersOK /\ DecisionsGrow /\ At(p)'
  <2>1. CountersOK
    BY CountsOn DEF RememberFails
  <2>2. QED
    BY <1>2, <1>4, <2>1, NothingDecided DEF RememberFails, At
<1>7. disk' \in Session /\ Backed(disk', rows, requests) /\ UNCHANGED <<turn, rows, requests, final>>
  BY <1>1 DEF IInv, TypeOK, RememberFails
<1>8. QED
  BY <1>2, <1>3, <1>5, <1>6, <1>7, TakeUpStep DEF Phases

LEMMA AskStep ==
    ASSUME IInv, NEW p \in Procs, Ask(p) PROVE IInv'
<1> DEFINE s == sess[p]
           new == [round |-> s.round, row |-> s.row, allow |-> Allow(s)]
<1>1. TypeOK /\ s \in Session /\ Backed(s, rows, requests) /\ s.stage = "hitl"
  BY DEF IInv, TypeOK, At, Ask
<1>2. PICK i \in Ids : /\ requests[i] = NoRequest /\ requests' = [requests EXCEPT ![i] = new]
                       /\ Keep(p, [s EXCEPT !.hitl = i])
  BY DEF Ask, FirstFree
<1>3. sess'[p] = [s EXCEPT !.hitl = i] /\ sess' = [sess EXCEPT ![p] = sess'[p]]
      /\ pc'[p] = "await" /\ Go(p, "await")
  BY <1>1, <1>2 DEF Ask, Keep, Go, TypeOK
<1>4. i # 0 /\ i \in 0 .. MaxCommands
  BY DEF Ids
<1>5. new \in Request
  BY <1>1 DEF Request, Session, Allow, Responses
<1>6. sess'[p] \in Session
  BY <1>1, <1>3, <1>4 DEF Session
<1>7. /\ sess'[p].hitl = i /\ sess'[p].row = s.row /\ sess'[p].stage = "hitl" /\ sess'[p].pos = s.pos
      /\ sess'[p].verdict = s.verdict /\ sess'[p].gate = s.gate /\ sess'[p].round = s.round
  BY <1>1, <1>3 DEF Session
<1>8. requests' \in [Ids -> Request] /\ requests'[i] = new
  BY <1>1, <1>2, <1>5 DEF TypeOK
<1>9. RequestsKept(requests, requests')
  BY <1>1, <1>2 DEF RequestsKept, TypeOK, NoRequest
<1>10. UNCHANGED <<disk, turn, rows, decisions, final, paid, cap, commands, trouble>>
  BY DEF Ask
<1>11. RowsKept(rows, rows') /\ rows' \in [Ids -> Row]
  BY <1>1, <1>10 DEF RowsKept, TypeOK
<1>12. Backed(sess'[p], rows', requests')
  <2>1. RunGate(sess'[p]) = RunGate(s) /\ Vetoed(sess'[p]) = Vetoed(s) /\ Allow(sess'[p]) = Allow(s)
    BY <1>7 DEF RunGate, Vetoed, Allow
  <2>2. requests'[i].row = s.row /\ requests'[i].round = s.round /\ requests'[i].allow = Allow(s)
    BY <1>8
  <2> HIDE DEF s, new
  <2>3. QED
    BY <1>1, <1>4, <1>7, <1>10, <2>1, <2>2 DEF Backed
<1>13. Backed(disk', rows', requests') /\ disk' \in Session
  BY <1>1, <1>9, <1>10, <1>11, BackedKept DEF IInv, TypeOK
<1>14. Shown(rows', requests')
  <2>1. s.row # 0 => /\ rows[s.row].status # "none"
                     /\ "approve" \in Allow(s) => Good(rows[s.row])
    BY <1>1, PassIsGood DEF Backed
  <2>2. \A j \in Ids \ {i} : requests'[j] = requests[j]
    BY <1>1, <1>2 DEF TypeOK
  <2>3. requests'[i].row = s.row /\ requests'[i].allow = Allow(s)
    BY <1>8
  <2> HIDE DEF s, new
  <2>4. QED
    BY <1>10, <2>1, <2>2, <2>3 DEF IInv, Shown
<1>15. ApprovedByAPerson' /\ Published' /\ CountersOK /\ DecisionsGrow
  <2>1. DecisionsGrow /\ CountersOK
    BY <1>10, NothingDecided, NothingCounted
  <2>2. ApprovedByAPerson'
    BY <1>8, <1>9, <1>10, <2>1, ApprovalsKept
  <2>3. QED
    BY <1>10, <2>1, <2>2 DEF IInv, Published
<1>16. Moves(p) /\ At(p)'
  <2>1. turn' = [turn EXCEPT ![p] = turn'[p]] /\ turn'[p] \in 1 .. N + 1
    BY <1>1, <1>10 DEF TypeOK
  <2>2. pc' = [pc EXCEPT ![p] = pc'[p]] /\ pc'[p] \in Phases
    BY <1>3 DEF Go, Phases
  <2>3. QED
    BY <1>3, <1>6, <1>7, <2>1, <2>2 DEF Moves, At
<1>17. final' \in [round : 0 .. MaxRounds, request : 0 .. MaxCommands, row : 0 .. MaxCommands]
  BY <1>1, <1>10 DEF TypeOK
<1>18. QED
  BY <1>6, <1>8, <1>9, <1>11, <1>12, <1>13, <1>14, <1>15, <1>16, <1>17, ProcStep

-----------------------------------------------------------------------------
(* The memory *)

\* One row changes its status, or none where the copy names none.
LEMMA StatusChange ==
    ASSUME IInv, NEW i \in 0 .. MaxCommands, NEW st \in {"active", "archived"},
           rows' = [rows EXCEPT ![i].status = st], i # 0 => rows[i].status # "none"
    PROVE  /\ rows' \in [Ids -> Row] /\ RowsKept(rows, rows') /\ Shown(rows', requests)
           /\ \A j \in Ids : rows'[j].status = "active" =>
                  rows[j].status = "active" \/ (j = i /\ st = "active")
<1>1. rows \in [Ids -> Row] /\ requests \in [Ids -> Request] /\ Shown(rows, requests)
  BY DEF IInv, TypeOK
<1>2. CASE i = 0
  <2>1. rows' = rows
    BY <1>1, <1>2 DEF Ids
  <2>2. QED
    BY <1>1, <2>1 DEF RowsKept
<1>3. CASE i # 0
  <2>1. i \in Ids /\ rows[i] \in Row
    BY <1>1, <1>3 DEF Ids
  <2>2. [rows[i] EXCEPT !.status = st] \in Row
    BY <2>1 DEF Row
  <2>3. rows' \in [Ids -> Row]
    BY <1>1, <2>1, <2>2
  <2>4. \A j \in Ids \ {i} : rows'[j] = rows[j]
    BY <1>1
  <2>5. rows'[i].status = st /\ rows'[i].verdict = rows[i].verdict /\ rows'[i].veto = rows[i].veto
    BY <1>1, <2>1 DEF Row
  <2>6. RowsKept(rows, rows')
    BY <2>4, <2>5 DEF RowsKept
  <2>7. Shown(rows', requests)
    <3>1. ASSUME NEW j \in Ids, requests[j].row # 0
          PROVE  /\ rows'[requests[j].row].status # "none"
                 /\ "approve" \in requests[j].allow => Good(rows'[requests[j].row])
      <4>1. requests[j].row \in Ids
        BY <1>1, <3>1 DEF Request, Ids
      <4>2. /\ rows[requests[j].row].status # "none"
            /\ "approve" \in requests[j].allow => Good(rows[requests[j].row])
        BY <1>1, <3>1 DEF Shown
      <4>3. QED
        BY <2>4, <2>5, <4>1, <4>2 DEF Good
    <3>2. QED
      BY <3>1 DEF Shown
  <2>8. QED
    BY <2>3, <2>4, <2>5, <2>6, <2>7
<1>4. QED
  BY <1>2, <1>3

LEMMA PromoteReadsStep ==
    ASSUME IInv, NEW p \in Procs, PromoteReads(p) PROVE IInv'
<1>1. TypeOK /\ sess[p] \in Session /\ Backed(sess[p], rows, requests) /\ At(p) /\ pc[p] = "approve"
  BY DEF IInv, TypeOK, PromoteReads
<1>2. PICK ph \in {"promote", "publish"} : Go(p, ph)
  BY DEF PromoteReads
<1>3. PICK t \in {sess[p], [sess[p] EXCEPT !.mem = "active"]} : Keep(p, t)
  BY DEF PromoteReads
<1>4. t \in Session /\ Alike(sess[p], t)
  <2>1. /\ [sess[p] EXCEPT !.mem = "active"] \in Session
        /\ Alike(sess[p], [sess[p] EXCEPT !.mem = "active"])
    BY <1>1 DEF Session, Alike
  <2>2. Alike(sess[p], sess[p])
    BY DEF Alike
  <2>3. QED
    BY <1>1, <1>3, <2>1, <2>2
<1>5. sess'[p] = t /\ pc'[p] = ph /\ sess' = [sess EXCEPT ![p] = sess'[p]]
  BY <1>1, <1>2, <1>3 DEF Keep, Go, TypeOK
<1>6. sess'[p] \in Session /\ Backed(sess'[p], rows, requests) /\ Alike(sess[p], sess'[p])
  BY <1>1, <1>4, <1>5, BackedAlike
<1>7. UNCHANGED <<disk, turn, rows, requests, decisions, final, paid, cap, commands, trouble>>
  BY DEF PromoteReads
<1>8. At(p)'
  BY <1>1, <1>5, <1>6, <1>7 DEF At, Alike, ApprovedOn
<1>9. CountersOK /\ DecisionsGrow /\ disk' \in Session /\ Backed(disk', rows, requests)
  BY <1>1, <1>7, NothingCounted, NothingDecided DEF IInv, TypeOK
<1>10. ph \in Phases
  BY DEF Phases
<1>11. QED
  BY <1>2, <1>5, <1>6, <1>7, <1>8, <1>9, <1>10, TakeUpStep

\* The row of the copy changes, and the copy knows.
LEMMA RowStep ==
    ASSUME IInv, NEW p \in Procs, NEW st \in {"active", "archived"}, NEW ph \in Phases,
           SetRow(p, st), Keep(p, [sess[p] EXCEPT !.mem = st]), Go(p, ph),
           st = "active" => sess[p].hitl # 0 /\ ApprovedOn(sess[p].hitl), At(p)',
           UNCHANGED <<disk, turn, requests, decisions, final, paid, cap, commands, trouble>>
    PROVE  IInv'
<1>1. TypeOK /\ sess[p] \in Session /\ Backed(sess[p], rows, requests)
  BY DEF IInv, TypeOK
<1>2. sess[p].row \in 0 .. MaxCommands /\ (sess[p].row # 0 => rows[sess[p].row].status # "none")
  BY <1>1 DEF Session, Backed
<1>3. /\ rows' \in [Ids -> Row] /\ RowsKept(rows, rows') /\ Shown(rows', requests)
      /\ \A j \in Ids : rows'[j].status = "active" =>
             rows[j].status = "active" \/ (j = sess[p].row /\ st = "active")
  BY <1>2, StatusChange DEF SetRow
<1>4. /\ sess'[p] = [sess[p] EXCEPT !.mem = st] /\ sess' = [sess EXCEPT ![p] = sess'[p]]
      /\ pc'[p] = ph /\ pc' = [pc EXCEPT ![p] = pc'[p]]
  BY <1>1 DEF Keep, Go, TypeOK
<1>5. sess'[p] \in Session /\ Alike(sess[p], sess'[p])
  BY <1>1, <1>4 DEF Session, Alike
<1>6. RequestsKept(requests, requests') /\ requests' = requests /\ requests \in [Ids -> Request]
  BY <1>1 DEF RequestsKept, TypeOK
<1>7. Backed(sess'[p], rows', requests') /\ Backed(disk', rows', requests') /\ disk' \in Session
  <2>1. Backed(sess'[p], rows, requests)
    BY <1>1, <1>5, BackedAlike
  <2>2. disk' = disk /\ disk \in Session /\ Backed(disk, rows, requests)
    BY <1>1 DEF IInv, TypeOK
  <2>3. QED
    BY <1>3, <1>5, <1>6, <2>1, <2>2, BackedKept
<1>8. DecisionsGrow /\ CountersOK
  BY NothingDecided, NothingCounted
<1>9. ApprovedByAPerson'
  <2>1. CASE st = "archived"
    BY <1>3, <1>6, <1>8, <2>1, ApprovalsKept
  <2>2. CASE st = "active"
    <3>1. sess[p].hitl \in Ids /\ ApprovedOn(sess[p].hitl)
      BY <1>1, <2>2 DEF Session, Ids
    <3>2. requests[sess[p].hitl].row = sess[p].row
      BY <1>1, <2>2 DEF Backed
    <3>3. \A j \in Ids : ApprovedOn(j)' <=> ApprovedOn(j)
      BY DEF ApprovedOn
    <3>4. ASSUME NEW j \in Ids, rows'[j].status = "active"
          PROVE  \E q \in Ids : requests'[q].row = j /\ ApprovedOn(q)'
      BY <1>3, <1>6, <3>1, <3>2, <3>3, <3>4 DEF IInv, ApprovedByAPerson
    <3>5. final # NoVerdict => /\ ApprovedOn(final.request)'
                               /\ requests'[final.request].row = final.row
                               /\ requests'[final.request].round = final.round
      BY <1>6 DEF IInv, ApprovedByAPerson, ApprovedOn
    <3>6. QED
      BY <3>4, <3>5 DEF ApprovedByAPerson
  <2>3. QED
    BY <2>1, <2>2
<1>10. Moves(p)
  BY <1>1, <1>4, <1>5 DEF Moves, TypeOK
<1>11. Published' /\ final' \in [round : 0 .. MaxRounds, request : 0 .. MaxCommands, row : 0 .. MaxCommands]
  BY <1>1 DEF IInv, Published, TypeOK
<1>12. QED
  BY <1>3, <1>5, <1>6, <1>7, <1>8, <1>9, <1>10, <1>11, ProcStep

LEMMA PromoteWritesStep ==
    ASSUME IInv, NEW p \in Procs, PromoteWrites(p) PROVE IInv'
<1>1. TypeOK /\ sess[p] \in Session /\ At(p) /\ pc[p] = "promote"
  BY DEF IInv, TypeOK, PromoteWrites
<1>2. SetRow(p, "active") /\ Keep(p, [sess[p] EXCEPT !.mem = "active"]) /\ Go(p, "publish")
  BY <1>1 DEF PromoteWrites, After
<1>3. sess[p].hitl # 0 /\ ApprovedOn(sess[p].hitl)
  BY <1>1 DEF At
<1>4. UNCHANGED <<disk, turn, requests, decisions, final, paid, cap, commands, trouble>>
  BY DEF PromoteWrites
<1>5. At(p)'
  <2>1. sess'[p].hitl = sess[p].hitl /\ pc'[p] = "publish"
    BY <1>1, <1>2 DEF Keep, Go, TypeOK, Session
  <2>2. QED
    BY <1>3, <1>4, <2>1 DEF At, ApprovedOn
<1>6. QED
  BY <1>2, <1>3, <1>4, <1>5, RowStep DEF Phases

LEMMA ForgetsStep ==
    ASSUME IInv, NEW p \in Procs, Forgets(p) PROVE IInv'
<1>1. TypeOK /\ sess[p] \in Session /\ At(p) /\ pc[p] \in {"reject", "edit"}
  BY DEF IInv, TypeOK, Forgets
<1>2. PICK ph \in {"refuse", "revise"} : Go(p, ph) /\ (ph = "revise" => pc[p] = "edit")
  BY <1>1 DEF Forgets, After
<1>3. SetRow(p, "archived") /\ Keep(p, [sess[p] EXCEPT !.mem = "archived"])
  BY DEF Forgets
<1>4. UNCHANGED <<disk, turn, requests, decisions, final, paid, cap, commands, trouble>>
  BY DEF Forgets
<1>5. At(p)'
  <2>1. sess'[p].round = sess[p].round /\ pc'[p] = ph
    BY <1>1, <1>2, <1>3 DEF Keep, Go, TypeOK, Session
  <2>2. QED
    BY <1>1, <1>2, <2>1 DEF At
<1>6. ph \in Phases
  BY DEF Phases
<1>7. QED
  BY <1>2, <1>3, <1>4, <1>5, <1>6, RowStep

LEMMA MemoryUntouchedStep ==
    ASSUME IInv, NEW p \in Procs, MemoryUntouched(p) PROVE IInv'
<1>1. TypeOK /\ At(p) /\ pc[p] \in {"approve", "promote", "reject", "edit"}
  BY DEF IInv, MemoryUntouched
<1>2. PICK ph \in {"publish", "refuse", "revise"} :
          /\ Go(p, ph) /\ (ph = "revise" => pc[p] = "edit")
          /\ (ph = "publish" => pc[p] \in {"approve", "promote"})
  BY <1>1 DEF MemoryUntouched, After
<1>3. UNCHANGED <<disk, sess, turn, rows, requests, decisions, final, paid, cap, commands>>
  BY DEF MemoryUntouched
<1>4. At(p)'
  <2>1. pc'[p] = ph
    BY <1>1, <1>2 DEF Go, TypeOK
  <2>2. QED
    BY <1>1, <1>2, <1>3, <2>1 DEF At, ApprovedOn
<1>5. CountersOK
  BY CountsOn DEF MemoryUntouched
<1>6. ph \in Phases
  BY DEF Phases
<1>7. QED
  BY <1>2, <1>3, <1>4, <1>5, <1>6, PhaseStep

LEMMA PublishStep ==
    ASSUME IInv, NEW p \in Procs, Publish(p) PROVE IInv'
<1>1. TypeOK /\ sess[p] \in Session /\ Backed(sess[p], rows, requests) /\ At(p)
  BY DEF IInv, TypeOK
<1>2. sess[p].hitl # 0 /\ sess[p].hitl \in Ids /\ ApprovedOn(sess[p].hitl)
  BY <1>1 DEF Publish, At, Session, Ids
<1>3. final' = [round |-> sess[p].round, request |-> sess[p].hitl, row |-> sess[p].row]
  BY DEF Publish
<1>4. UNCHANGED <<disk, sess, turn, rows, requests, decisions, paid, cap, commands, trouble>>
  BY DEF Publish
<1>5. pc'[p] = "done" /\ pc' = [pc EXCEPT ![p] = pc'[p]]
  BY <1>1 DEF Publish, Go, TypeOK
<1>6. final' \in [round : 0 .. MaxRounds, request : 0 .. MaxCommands, row : 0 .. MaxCommands]
  BY <1>1, <1>3 DEF Session
<1>7. ApprovedByAPerson' /\ Published'
  <2>1. \A i \in Ids : ApprovedOn(i)' <=> ApprovedOn(i)
    BY <1>4 DEF ApprovedOn
  <2>2. \A i \in Ids : rows'[i].status = "active" =>
            \E q \in Ids : requests'[q].row = i /\ ApprovedOn(q)'
    BY <1>4, <2>1 DEF IInv, ApprovedByAPerson
  <2>3. /\ ApprovedOn(final.request)' /\ requests'[final'.request].row = final'.row
        /\ requests'[final'.request].round = final'.round
    <3>1. final'.request = sess[p].hitl /\ final'.row = sess[p].row /\ final'.round = sess[p].round
      BY <1>3
    <3>2. /\ requests'[sess[p].hitl].row = sess[p].row
          /\ requests'[sess[p].hitl].round = sess[p].round
      BY <1>1, <1>2, <1>4 DEF Backed
    <3>3. QED
      BY <1>2, <1>4, <3>1, <3>2 DEF ApprovedOn
  <2>4. QED
    BY <1>2, <1>3, <2>2, <2>3 DEF ApprovedByAPerson, Published
<1>8. RowsKept(rows, rows') /\ RequestsKept(requests, requests') /\ Shown(rows', requests')
  BY <1>4 DEF RowsKept, RequestsKept, IInv
<1>9. Moves(p) /\ At(p)'
  <2>1. sess' = [sess EXCEPT ![p] = sess'[p]] /\ turn' = [turn EXCEPT ![p] = turn'[p]]
    BY <1>1, <1>4 DEF TypeOK
  <2>2. sess'[p] \in Session /\ turn'[p] \in 1 .. N + 1 /\ pc'[p] \in Phases
    BY <1>1, <1>4, <1>5 DEF TypeOK, Phases
  <2>3. QED
    BY <1>5, <2>1, <2>2 DEF Moves, At
<1>10. DecisionsGrow /\ CountersOK
  BY <1>4, NothingDecided, NothingCounted
<1>11. /\ disk' \in Session /\ Backed(disk', rows', requests') /\ Backed(sess'[p], rows', requests')
       /\ rows' \in [Ids -> Row] /\ requests' \in [Ids -> Request]
  BY <1>1, <1>4 DEF IInv, TypeOK
<1>12. QED
  BY <1>6, <1>7, <1>8, <1>9, <1>10, <1>11, ProcStep

LEMMA ReviseStep ==
    ASSUME IInv, NEW p \in Procs, Revise(p) PROVE IInv'
<1>1. TypeOK /\ sess[p] \in Session /\ At(p)
  BY DEF IInv, TypeOK
<1>2. sess[p].round + 1 \in 0 .. MaxRounds
  BY <1>1, CouncilAssumption DEF Revise, At, Session
<1>3. disk' = NewRound(sess[p].round + 1) /\ sess'[p] = disk' /\ pc'[p] = "enter"
      /\ sess' = [sess EXCEPT ![p] = sess'[p]] /\ Go(p, "enter")
  BY <1>1 DEF Revise, Revised, Keep, Go, TypeOK
<1>4. disk' \in Session /\ disk'.stage = "independent" /\ disk'.hitl = 0 /\ disk'.row = 0
  BY <1>2, <1>3, NewRoundOK
<1>5. Backed(disk', rows, requests)
  BY <1>4, BackedEarly
<1>6. At(p)' /\ CountersOK /\ DecisionsGrow /\ UNCHANGED <<turn, rows, requests, final>>
  BY <1>3, NothingDecided, NothingCounted DEF Revise, At
<1>7. QED
  BY <1>3, <1>4, <1>5, <1>6, TakeUpStep DEF Phases

-----------------------------------------------------------------------------
(* Faults *)

LEMMA KillStep ==
    ASSUME IInv, NEW p \in Procs, Kill(p) PROVE IInv'
<1>1. TypeOK
  BY DEF IInv
<1>2. sess'[p] = NoSession /\ pc'[p] = "idle" /\ turn'[p] = 1
  BY <1>1 DEF Kill, Go, TypeOK
<1>3. Moves(p)
  <2>1. sess'[p] \in Session /\ pc'[p] \in Phases /\ turn'[p] \in 1 .. N + 1
    BY <1>2, NoSessionOK, CouncilAssumption DEF Phases
  <2>2. sess' = [sess EXCEPT ![p] = sess'[p]]
    BY <1>2 DEF Kill
  <2>3. pc' = [pc EXCEPT ![p] = pc'[p]] /\ turn' = [turn EXCEPT ![p] = turn'[p]]
    BY <1>2 DEF Kill, Go
  <2>4. QED
    BY <2>1, <2>2, <2>3 DEF Moves
<1>4. Backed(sess'[p], rows, requests)
  BY <1>2, NoSessionOK, BackedEarly
<1>5. CountersOK
  BY CountsOn DEF Kill
<1>6. /\ At(p)' /\ DecisionsGrow /\ disk' \in Session /\ Backed(disk', rows, requests)
      /\ UNCHANGED <<rows, requests, final>>
  BY <1>1, <1>2, NothingDecided DEF Kill, At, IInv, TypeOK
<1>7. QED
  BY <1>3, <1>4, <1>5, <1>6, SessionStep

LEMMA ForgottenByHandStep ==
    ASSUME IInv, NEW i \in Ids, ForgottenByHand(i) PROVE IInv'
<1>1. TypeOK
  BY DEF IInv
<1>2. UNCHANGED <<disk, sess, pc, turn, requests, decisions, final, paid, cap, commands>>
  BY DEF ForgottenByHand
<1>3. /\ rows' \in [Ids -> Row] /\ RowsKept(rows, rows') /\ Shown(rows', requests)
      /\ \A j \in Ids : rows'[j].status = "active" => rows[j].status = "active"
  <2>1. rows' = [rows EXCEPT ![i].status = "archived"] /\ rows[i].status # "none"
    BY DEF ForgottenByHand
  <2>2. i \in 0 .. MaxCommands
    BY DEF Ids
  <2>3. QED
    BY <2>1, <2>2, StatusChange
<1>4. RequestsKept(requests, requests') /\ DecisionsGrow /\ CountersOK
  BY <1>2, NothingDecided, CountsOn DEF RequestsKept, ForgottenByHand
<1>5. TypeOK'
  BY <1>1, <1>2, <1>3, <1>4 DEF TypeOK, CountersOK
<1>6. Backed(disk, rows, requests)'
  BY <1>1, <1>2, <1>3, <1>4, BackedKept DEF IInv, TypeOK
<1>7. ASSUME NEW q \in Procs PROVE Backed(sess[q], rows, requests)' /\ At(q)'
  <2>1. sess[q] \in Session /\ Backed(sess[q], rows, requests)
    BY <1>1 DEF IInv, TypeOK
  <2>2. Backed(sess[q], rows', requests')
    BY <1>3, <1>4, <2>1, BackedKept
  <2>3. At(q)'
    BY <1>2, <1>4, AtKept
  <2>4. QED
    BY <1>2, <2>2, <2>3
<1>8. ApprovedByAPerson'
  BY <1>1, <1>2, <1>3, <1>4, ApprovalsKept DEF TypeOK
<1>9. QED
  BY <1>2, <1>3, <1>4, <1>5, <1>6, <1>7, <1>8 DEF IInv, DecisionsGrow, Published

-----------------------------------------------------------------------------
(* The theorems *)

LEMMA InitOK == Init => IInv
<1> SUFFICES ASSUME Init PROVE IInv
  OBVIOUS
<1>1. NoSession \in Session /\ Backed(NoSession, rows, requests)
  BY NoSessionOK, BackedEarly
<1>2. TypeOK
  <2>1. NoRow \in Row /\ NoRequest \in Request /\ NoAnswer \in Answer
    BY CouncilAssumption DEF NoRow, Row, NoRequest, Request, NoAnswer, Answer
  <2>2. NoVerdict \in [round : 0 .. MaxRounds, request : 0 .. MaxCommands, row : 0 .. MaxCommands]
    BY CouncilAssumption DEF NoVerdict
  <2>3. pc \in [Procs -> Phases] /\ turn \in [Procs -> 1 .. N + 1]
    BY CouncilAssumption DEF Init, Phases
  <2>4. disk \in Session /\ sess \in [Procs -> Session]
    BY <1>1 DEF Init
  <2>5. /\ rows \in [Ids -> Row] /\ requests \in [Ids -> Request] /\ decisions \in [Ids -> Answer]
        /\ paid \in [1 .. MaxRounds -> Nat]
    BY <2>1 DEF Init
  <2>6. cap \in Nat /\ commands \in 0 .. MaxCommands /\ trouble \in 0 .. MaxTrouble
    BY CouncilAssumption DEF Init
  <2>7. QED
    BY <2>2, <2>3, <2>4, <2>5, <2>6 DEF Init, TypeOK
<1>3. Shown(rows, requests) /\ Recorded /\ Published /\ \A p \in Procs : At(p)
  BY DEF Init, Shown, Recorded, Published, At, NoRequest, NoAnswer
<1>4. ApprovedByAPerson
  BY DEF Init, ApprovedByAPerson, NoRow
<1>5. QED
  BY <1>1, <1>2, <1>3, <1>4 DEF Init, IInv

LEMMA NextOK == IInv /\ [Next]_vars => IInv'
<1> SUFFICES ASSUME IInv, [Next]_vars PROVE IInv'
  OBVIOUS
<1>1. ASSUME NEW p \in Procs, Work(p) PROVE IInv'
  BY <1>1, EnterStep, AnsweredStep, SaveAnswerStep, SkipsStep, StageDoneStep, EndsStep,
     SynthesizeStep, GateStep, RememberStep, RememberFailsStep, AskStep, PromoteReadsStep,
     PromoteWritesStep, ForgetsStep, MemoryUntouchedStep, PublishStep, ReviseStep DEF Work
<1>2. ASSUME People PROVE IInv'
  BY <1>2, StartStep, ResumeStep, ResumeDecidedStep, ResumeWaitingStep, KillStep, DecideStep, NodeDecidesStep,
     ForgottenByHandStep DEF People
<1>3. CASE UNCHANGED vars
  <2>1. TypeOK'
    BY <1>3 DEF IInv, TypeOK, vars
  <2>2. Backed(disk, rows, requests)' /\ \A p \in Procs : Backed(sess[p], rows, requests)'
    BY <1>3 DEF IInv, vars
  <2>3. Shown(rows, requests)' /\ Recorded' /\ Published'
    BY <1>3 DEF IInv, vars, Recorded, Published
  <2>4. (\A p \in Procs : At(p)') /\ ApprovedByAPerson'
    BY <1>3 DEF IInv, vars, At, ApprovedByAPerson, ApprovedOn
  <2>5. QED
    BY <2>1, <2>2, <2>3, <2>4 DEF IInv
<1>4. QED
  BY <1>1, <1>2, <1>3 DEF Next

\* The inductive invariant of the council: every copy of the session agrees with the
\* memory and the requests it names.
THEOREM Inductive == Spec => []IInv
<1>1. QED
  BY InitOK, NextOK, PTL DEF Spec

\* The memory never holds as active, and verdict.json never publishes, what no person
\* approved on the request that shows it (_apply), however many commands overwrite each
\* other's council.json and wherever they are killed.
THEOREM ApprovalsComeFromPeople == Spec => []ApprovedByAPerson
<1>1. IInv => ApprovedByAPerson
  BY DEF IInv
<1>2. QED
  BY <1>1, Inductive, PTL

\* A verdict that goes against a required member's veto, or that is weak, never becomes
\* active memory (run_gate, _apply).
THEOREM VetoesHold == Spec => []VetoHolds
<1>1. IInv => VetoHolds
  <2> SUFFICES ASSUME IInv, NEW i \in Ids, rows[i].status = "active" PROVE Good(rows[i])
    BY DEF VetoHolds, Good
  <2>1. PICK q \in Ids : requests[q].row = i /\ ApprovedOn(q)
    BY DEF IInv, ApprovedByAPerson
  <2>2. i # 0
    BY DEF Ids
  <2>3. QED
    BY <2>1, <2>2 DEF IInv, Shown, ApprovedOn
<1>2. QED
  BY <1>1, Inductive, PTL

-----------------------------------------------------------------------------
(* One command at a time: what a round costs *)

OneCommand == \A p, q \in Procs : p = q

Voted(s) == {m \in Members : s.pos[m] \in Votes}
Balloted(s) == {m \in Members : s.ballot[m] = "ballot"}
Verdicts(s) == IF s.stage \in {"gate", "hitl"} THEN 1 ELSE 0

\* The calls whose answers a copy of the session holds.
Worth(s) == Cardinality(Voted(s)) + Cardinality(Balloted(s)) + Verdicts(s)

\* An answer that was paid and is not in council.json yet.
Pending(p) == IF pc[p] = "save" \/ (pc[p] = "enter" /\ sess[p].stage = "gate") THEN 1 ELSE 0

\* Of what a round has paid, all but the failures is in the copy of the command, and all but
\* the failures and one answer in council.json.
CostAt(p) ==
    /\ sess[p].status # "absent" /\ sess[p].round = disk.round
    /\ paid[disk.round] <= Worth(sess[p]) + trouble
    /\ paid[disk.round] <= Worth(disk) + trouble + Pending(p)

CostInv ==
    /\ disk.round = 0 <=> disk.status = "absent"
    /\ \A n \in 1 .. MaxRounds : /\ n > disk.round => paid[n] = 0
                                 /\ n < disk.round => paid[n] <= 2 * N + 1 + trouble
    /\ disk.round # 0 /\ (\A p \in Procs : pc[p] = "idle") => paid[disk.round] <= Worth(disk) + trouble
    /\ \A p \in Procs : pc[p] # "idle" => disk.round # 0 /\ CostAt(p)

LEMMA MembersFinite == IsFiniteSet(Members) /\ Cardinality(Members) = N
BY CouncilAssumption, FS_Interval DEF Members

LEMMA CountMembers ==
    ASSUME NEW S \in SUBSET Members
    PROVE  /\ IsFiniteSet(S) /\ Cardinality(S) \in 0 .. N
           /\ \A m \in Members \ S : Cardinality(S \cup {m}) = Cardinality(S) + 1
<1>1. IsFiniteSet(S) /\ Cardinality(S) <= N
  BY MembersFinite, FS_Subset
<1>2. Cardinality(S) \in Nat
  BY <1>1, FS_CardinalityType
<1>3. \A m \in Members \ S : Cardinality(S \cup {m}) = Cardinality(S) + 1
  BY <1>1, FS_AddElement
<1>4. QED
  BY <1>1, <1>2, <1>3, CouncilAssumption

\* N positions, N ballots and a verdict are all that a round can hold.
LEMMA WorthType == ASSUME NEW s PROVE Worth(s) \in 0 .. 2 * N + 1
<1>1. Cardinality(Voted(s)) \in 0 .. N /\ Cardinality(Balloted(s)) \in 0 .. N
  BY CountMembers DEF Voted, Balloted
<1>2. Verdicts(s) \in 0 .. 1
  BY DEF Verdicts
<1>3. QED
  BY <1>1, <1>2, CouncilAssumption DEF Worth

\* What the answers and the stage do not show costs nothing.
SameWorth(s, t) == t.pos = s.pos /\ t.ballot = s.ballot /\ Verdicts(t) = Verdicts(s)

LEMMA WorthSame == ASSUME NEW s, NEW t, SameWorth(s, t) PROVE Worth(t) = Worth(s)
BY DEF SameWorth, Worth, Voted, Balloted

LEMMA WorthNew ==
    ASSUME NEW n
    PROVE  /\ Worth(NewRound(n)) = 0 /\ NewRound(n).round = n /\ NewRound(n).status = "awaiting"
<1>1. Voted(NewRound(n)) = {} /\ Balloted(NewRound(n)) = {} /\ Verdicts(NewRound(n)) = 0
  BY DEF NewRound, Voted, Balloted, Verdicts, Votes
<1>2. Cardinality({}) = 0
  BY FS_EmptySet
<1>3. QED
  BY <1>1, <1>2 DEF Worth, NewRound

\* An answer adds one, its failure nothing.
LEMMA WorthAnswered ==
    ASSUME NEW s \in Session, NEW stage \in {"independent", "peer_rank"}, NEW m \in Due(s, stage),
           NEW a \in Answers(stage, m) \cup {"error"}
    PROVE  /\ Worth(WithAnswer(s, stage, m, a)) = Worth(s) + (IF a = "error" THEN 0 ELSE 1)
           /\ WithAnswer(s, stage, m, a).round = s.round
           /\ WithAnswer(s, stage, m, a).status = s.status
<1> DEFINE t == WithAnswer(s, stage, m, a)
<1>1. m \in Members /\ Voted(s) \in SUBSET Members /\ Balloted(s) \in SUBSET Members
  BY DEF Due, Voted, Balloted
<1>2. /\ Cardinality(Voted(s)) \in Nat /\ Cardinality(Balloted(s)) \in Nat
      /\ m \notin Voted(s) => Cardinality(Voted(s) \cup {m}) = Cardinality(Voted(s)) + 1
      /\ m \notin Balloted(s) => Cardinality(Balloted(s) \cup {m}) = Cardinality(Balloted(s)) + 1
  BY <1>1, CountMembers
<1>3. CASE stage = "independent"
  <2>1. /\ t.pos = [s.pos EXCEPT ![m] = a] /\ t.ballot = s.ballot /\ t.stage = s.stage
        /\ t.round = s.round /\ t.status = s.status
    BY <1>3 DEF WithAnswer, Session
  <2>2. s.pos \in [Members -> {"none", "error"} \cup Votes] /\ s.pos[m] \notin Votes
    BY <1>3 DEF Session, Due
  <2> HIDE DEF t
  <2>3. Balloted(t) = Balloted(s) /\ Verdicts(t) = Verdicts(s)
    BY <2>1 DEF Balloted, Verdicts
  <2>4. CASE a = "error"
    <3>1. Voted(t) = Voted(s)
      BY <1>1, <2>1, <2>2, <2>4 DEF Voted, Votes
    <3>2. QED
      BY <1>2, <2>1, <2>3, <2>4, <3>1 DEF Worth, Verdicts, t
  <2>5. CASE a # "error"
    <3>1. a \in Votes
      BY <1>3, <2>5 DEF Answers, Votes
    <3>2. Voted(t) = Voted(s) \cup {m} /\ m \notin Voted(s)
      BY <1>1, <2>1, <2>2, <3>1 DEF Voted
    <3>3. QED
      BY <1>2, <2>1, <2>3, <2>5, <3>2 DEF Worth, Verdicts, t
  <2>6. QED
    BY <2>4, <2>5
<1>4. CASE stage = "peer_rank"
  <2>1. /\ t.ballot = [s.ballot EXCEPT ![m] = a] /\ t.pos = s.pos /\ t.stage = s.stage
        /\ t.round = s.round /\ t.status = s.status
    BY <1>4 DEF WithAnswer, Session
  <2>2. s.ballot \in [Members -> {"none", "error", "ballot"}] /\ s.ballot[m] = "none"
    BY <1>4 DEF Session, Due
  <2> HIDE DEF t
  <2>3. Voted(t) = Voted(s) /\ Verdicts(t) = Verdicts(s)
    BY <2>1 DEF Voted, Verdicts
  <2>4. CASE a = "error"
    <3>1. Balloted(t) = Balloted(s)
      BY <1>1, <2>1, <2>2, <2>4 DEF Balloted
    <3>2. QED
      BY <1>2, <2>1, <2>3, <2>4, <3>1 DEF Worth, Verdicts, t
  <2>5. CASE a # "error"
    <3>1. a = "ballot"
      BY <1>4, <2>5 DEF Answers
    <3>2. Balloted(t) = Balloted(s) \cup {m} /\ m \notin Balloted(s)
      BY <1>1, <2>1, <2>2, <3>1 DEF Balloted
    <3>3. QED
      BY <1>2, <2>1, <2>3, <2>5, <3>2 DEF Worth, Verdicts, t
  <2>6. QED
    BY <2>4, <2>5
<1>5. QED
  BY <1>3, <1>4

\* The numbers of the state are numbers.
LEMMA CostTypes ==
    ASSUME IInv
    PROVE  /\ paid \in [1 .. MaxRounds -> Nat] /\ trouble \in Nat /\ disk \in Session
           /\ disk.round \in 0 .. MaxRounds /\ MaxRounds \in Nat
           /\ \A p \in Procs : sess[p] \in Session /\ pc[p] \in Phases /\ At(p)
BY CouncilAssumption, SMTT(30) DEF IInv, TypeOK, Session

LEMMA CostTypesNext ==
    ASSUME IInv' PROVE trouble' \in Nat /\ paid' \in [1 .. MaxRounds -> Nat]
<1>1. TypeOK'
  BY DEF IInv
<1>2. trouble' \in 0 .. MaxTrouble
  BY <1>1 DEF TypeOK
<1>3. QED
  BY <1>1, <1>2, CouncilAssumption DEF TypeOK

\* The command that moves leaves the round as it is, and what it paid is in the copies.
LEMMA CostStep ==
    ASSUME OneCommand, IInv, IInv', CostInv, NEW p \in Procs, disk.round # 0,
           disk'.round = disk.round, disk'.status # "absent", trouble <= trouble',
           \A n \in 1 .. MaxRounds : n # disk.round => paid'[n] = paid[n],
           IF pc'[p] = "idle" THEN paid'[disk.round] <= Worth(disk') + trouble' ELSE CostAt(p)'
    PROVE  CostInv'
<1>1. /\ trouble \in Nat /\ trouble' \in Nat /\ N \in Nat
      /\ paid \in [1 .. MaxRounds -> Nat] /\ paid' \in [1 .. MaxRounds -> Nat]
  BY CostTypes, CostTypesNext, CouncilAssumption
<1>2. \A q \in Procs : q = p
  BY DEF OneCommand
<1>3. disk'.round = 0 <=> disk'.status = "absent"
  OBVIOUS
<1>4. ASSUME NEW n \in 1 .. MaxRounds
      PROVE  /\ n > disk'.round => paid'[n] = 0
             /\ n < disk'.round => paid'[n] <= 2 * N + 1 + trouble'
  <2>1. disk.round \in 0 .. MaxRounds
    BY CostTypes
  <2>2. CASE n > disk.round
    BY <1>1, <2>1, <2>2 DEF CostInv
  <2>3. CASE n < disk.round
    <3>1. paid'[n] = paid[n] /\ paid[n] <= 2 * N + 1 + trouble
      BY <2>1, <2>3 DEF CostInv
    <3>2. QED
      BY <1>1, <2>1, <2>3, <3>1
  <2>4. QED
    BY <2>1, <2>2, <2>3
<1>5. Worth(disk)' = Worth(disk')
  BY DEF Worth, Voted, Balloted, Verdicts
<1>6. disk'.round # 0 /\ (\A q \in Procs : pc'[q] = "idle") => paid'[disk'.round] <= Worth(disk)' + trouble'
  BY <1>5
<1>7. \A q \in Procs : pc'[q] # "idle" => disk'.round # 0 /\ CostAt(q)'
  BY <1>2
<1>8. QED
  BY <1>3, <1>4, <1>6, <1>7 DEF CostInv

\* What the command that moves knows of the ledger.
LEMMA CostNow ==
    ASSUME IInv, CostInv, NEW p \in Procs, pc[p] # "idle"
    PROVE  /\ disk.round \in 1 .. MaxRounds /\ disk.status # "absent" /\ CostAt(p)
           /\ sess[p].round = disk.round /\ sess[p].status # "absent"
           /\ paid[disk.round] \in Nat /\ trouble \in Nat
           /\ Worth(sess[p]) \in Nat /\ Worth(disk) \in Nat /\ sess[p] \in Session
<1>1. disk.round \in 1 .. MaxRounds /\ disk.status # "absent" /\ CostAt(p)
  BY CostTypes DEF CostInv
<1>2. paid[disk.round] \in Nat
  BY <1>1, CostTypes
<1>3. QED
  BY <1>1, <1>2, CostTypes, WorthType, CouncilAssumption DEF CostAt

\* The command goes on with the same answers, and nothing is saved.
LEMMA CostStill ==
    ASSUME OneCommand, IInv, IInv', CostInv, NEW p \in Procs,
           pc[p] \notin {"idle", "save", "enter"}, pc'[p] \notin {"idle"},
           SameWorth(sess[p], sess'[p]), sess'[p].round = sess[p].round,
           sess'[p].status = sess[p].status,
           UNCHANGED <<disk, paid>>, trouble <= trouble'
    PROVE  CostInv'
<1>1. Worth(sess'[p]) = Worth(sess[p])
  BY WorthSame
<1>2. Worth(sess[p])' = Worth(sess'[p]) /\ Worth(disk)' = Worth(disk')
  BY DEF Worth, Voted, Balloted, Verdicts
<1>3. paid[disk.round] <= Worth(sess[p]) + trouble /\ paid[disk.round] <= Worth(disk) + trouble
  BY CostNow DEF CostAt, Pending
<1>4. trouble' \in Nat
  BY CouncilAssumption DEF IInv, TypeOK
<1>5. Pending(p)' \in 0 .. 1
  BY DEF Pending
<1>6. CostAt(p)'
  <2>1. sess'[p].status # "absent" /\ sess'[p].round = disk'.round
    BY CostNow
  <2>2. paid'[disk'.round] <= Worth(sess[p])' + trouble'
    BY <1>1, <1>2, <1>3, <1>4, CostNow
  <2>3. paid'[disk'.round] <= Worth(disk)' + trouble' + Pending(p)'
    BY <1>2, <1>3, <1>4, <1>5, CostNow
  <2>4. QED
    BY <2>1, <2>2, <2>3 DEF CostAt
<1>7. QED
  BY <1>4, <1>6, CostNow, CostStep

\* The command saves the answers it has; a call that it paid for meanwhile has failed.
LEMMA CostSaves ==
    ASSUME OneCommand, IInv, IInv', CostInv, NEW p \in Procs, pc[p] # "idle",
           SameWorth(sess[p], disk'), disk'.round = sess[p].round, disk'.status # "absent",
           pc'[p] = "idle" \/ sess'[p] = disk',
           \A n \in 1 .. MaxRounds : n # disk.round => paid'[n] = paid[n],
           \/ paid' = paid /\ trouble <= trouble'
           \/ paid'[disk.round] = paid[disk.round] + 1 /\ trouble' = trouble + 1
    PROVE  CostInv'
<1>1. Worth(disk') = Worth(sess[p])
  BY WorthSame
<1>2. Worth(sess[p])' = Worth(sess'[p]) /\ Worth(disk)' = Worth(disk')
  BY DEF Worth, Voted, Balloted, Verdicts
<1>3. paid[disk.round] <= Worth(sess[p]) + trouble
  BY CostNow DEF CostAt
<1>4. trouble' \in Nat
  BY CouncilAssumption DEF IInv, TypeOK
<1>5. paid'[disk.round] <= Worth(disk') + trouble'
  BY <1>1, <1>3, <1>4, CostNow
<1>6. Pending(p)' \in 0 .. 1
  BY DEF Pending
<1>7. ASSUME pc'[p] # "idle" PROVE CostAt(p)'
  <2>1. sess'[p] = disk' /\ disk'.round = disk.round
    BY <1>7, CostNow
  <2>2. Worth(disk') \in Nat /\ paid'[disk.round] \in Nat
    BY <1>1, CostNow
  <2>3. QED
    BY <1>2, <1>4, <1>5, <1>6, <2>1, <2>2 DEF CostAt
<1>8. QED
  BY <1>4, <1>5, <1>7, CostNow, CostStep

\* Only the ledger of the round of the command is written.
LEMMA PayOne ==
    ASSUME IInv, CostInv, NEW p \in Procs, pc[p] # "idle", Pay(p)
    PROVE  /\ paid'[disk.round] = paid[disk.round] + 1
           /\ \A n \in 1 .. MaxRounds : n # disk.round => paid'[n] = paid[n]
BY CostNow, CostTypes DEF Pay

\* A call is paid and its answer is in the copy of the command, or it has failed.
LEMMA CostPays ==
    ASSUME OneCommand, IInv, IInv', CostInv, NEW p \in Procs,
           pc[p] \notin {"idle", "save", "enter"}, pc'[p] # "idle", Pending(p)' = 1,
           sess'[p].round = sess[p].round, sess'[p].status = sess[p].status, disk' = disk,
           \/ Pay(p) /\ Worth(sess'[p]) = Worth(sess[p]) + 1 /\ trouble' = trouble
           \/ Pay(p) /\ Worth(sess'[p]) = Worth(sess[p]) /\ trouble' = trouble + 1
           \/ paid' = paid /\ Worth(sess'[p]) = Worth(sess[p]) /\ trouble' = trouble + 1
    PROVE  CostInv'
<1>1. Worth(sess[p])' = Worth(sess'[p]) /\ Worth(disk)' = Worth(disk')
  BY DEF Worth, Voted, Balloted, Verdicts
<1>2. paid[disk.round] <= Worth(sess[p]) + trouble /\ paid[disk.round] <= Worth(disk) + trouble
  BY CostNow DEF CostAt, Pending
<1>3. /\ paid'[disk.round] = paid[disk.round] + 1 \/ paid' = paid
      /\ \A n \in 1 .. MaxRounds : n # disk.round => paid'[n] = paid[n]
  BY PayOne
<1>4. CostAt(p)'
  <2>1. paid'[disk'.round] <= Worth(sess[p])' + trouble'
    BY <1>1, <1>2, CostNow, PayOne
  <2>2. paid'[disk'.round] <= Worth(disk)' + trouble' + Pending(p)'
    BY <1>1, <1>2, <1>3, CostNow
  <2>3. QED
    BY <2>1, <2>2, CostNow DEF CostAt
<1>5. trouble <= trouble'
  BY CostNow
<1>6. QED
  BY <1>3, <1>4, <1>5, CostNow, CostStep

\* One lemma per kind of step.

LEMMA CostKeeps ==
    ASSUME OneCommand, IInv, IInv', CostInv, NEW p \in Procs,
           Skips(p) \/ Remember(p) \/ RememberFails(p) \/ Ask(p) \/ PromoteReads(p)
           \/ PromoteWrites(p) \/ Forgets(p) \/ MemoryUntouched(p) \/ Publish(p)
    PROVE  CostInv'
<1>1. trouble \in Nat /\ sess[p] \in Session /\ sess \in [Procs -> Session] /\ pc \in [Procs -> Phases]
  BY CostTypes DEF IInv, TypeOK
<1>2. /\ pc[p] \notin {"idle", "save", "enter"} /\ UNCHANGED <<disk, paid>> /\ trouble <= trouble'
      /\ pc'[p] # "idle"
  <2>1. CASE Skips(p)
    <3>1. pc[p] \in {"independent", "peer_rank"} /\ UNCHANGED <<disk, paid, pc, trouble>>
      BY <2>1 DEF Skips
    <3>2. QED
      BY <1>1, <3>1
  <2>2. CASE Remember(p) \/ RememberFails(p) \/ Ask(p)
    <3>1. pc[p] \in {"hitl", "ask"} /\ (Go(p, "ask") \/ Go(p, "await"))
      BY <2>2 DEF Remember, RememberFails, Ask
    <3>2. UNCHANGED <<disk, paid>> /\ (trouble' = trouble \/ trouble' = trouble + 1)
      BY <2>2 DEF Remember, RememberFails, Ask, Fault
    <3>3. QED
      BY <1>1, <3>1, <3>2 DEF Go
  <2>3. CASE PromoteReads(p)
    BY <1>1, <2>3 DEF PromoteReads, Go
  <2>4. CASE PromoteWrites(p)
    BY <1>1, <2>4 DEF PromoteWrites, Go, After
  <2>5. CASE Forgets(p)
    BY <1>1, <2>5 DEF Forgets, Go, After
  <2>6. CASE MemoryUntouched(p)
    <3>1. pc[p] \in {"approve", "promote", "reject", "edit"} /\ pc' = [pc EXCEPT ![p] = After[pc[p]]]
      BY <2>6 DEF MemoryUntouched, Go
    <3>2. UNCHANGED <<disk, paid>> /\ trouble <= trouble'
      BY <1>1, <2>6 DEF MemoryUntouched, Fault
    <3>3. QED
      BY <1>1, <3>1, <3>2 DEF After
  <2>7. CASE Publish(p)
    BY <1>1, <2>7 DEF Publish, Go
  <2>8. QED
    BY <2>1, <2>2, <2>3, <2>4, <2>5, <2>6, <2>7
<1>4. /\ sess'[p].pos = sess[p].pos /\ sess'[p].ballot = sess[p].ballot
      /\ sess'[p].stage = sess[p].stage /\ sess'[p].round = sess[p].round
      /\ sess'[p].status = sess[p].status
  <2>1. CASE Skips(p) \/ MemoryUntouched(p) \/ Publish(p)
    <3>1. sess' = sess
      BY <2>1 DEF Skips, MemoryUntouched, Publish
    <3>2. QED
      BY <3>1
  <2>2. CASE Remember(p)
    <3>1. PICK i \in Ids : Keep(p, [sess[p] EXCEPT !.row = i, !.mem = "candidate"])
      BY <2>2 DEF Remember
    <3>2. QED
      BY <1>1, <3>1 DEF Keep, Session
  <2>3. CASE RememberFails(p)
    BY <1>1, <2>3 DEF RememberFails, Keep, Session
  <2>4. CASE Ask(p)
    BY <1>1, <2>4 DEF Ask, Keep, Session
  <2>5. CASE PromoteReads(p) \/ PromoteWrites(p) \/ Forgets(p)
    BY <1>1, <2>5 DEF PromoteReads, PromoteWrites, Forgets, Keep, Session
  <2>6. QED
    BY <2>1, <2>2, <2>3, <2>4, <2>5
<1>5. SameWorth(sess[p], sess'[p])
  BY <1>4 DEF SameWorth, Verdicts
<1>6. QED
  BY <1>2, <1>4, <1>5, CostStill

LEMMA CostLeaves ==
    ASSUME OneCommand, IInv, IInv', CostInv, NEW p \in Procs, StageDone(p) \/ Gate(p)
    PROVE  CostInv'
<1>1. /\ trouble \in Nat /\ sess[p] \in Session /\ At(p)
      /\ sess \in [Procs -> Session] /\ pc \in [Procs -> Phases]
  BY CostTypes DEF IInv, TypeOK
<1>2. /\ pc[p] \in {"independent", "peer_rank", "gate"} /\ sess[p].stage = pc[p]
      /\ UNCHANGED <<disk, paid>> /\ trouble' = trouble /\ pc'[p] = "enter"
  BY <1>1 DEF StageDone, Gate, Leaves, Go, At
<1>3. /\ sess'[p].pos = sess[p].pos /\ sess'[p].ballot = sess[p].ballot
      /\ sess'[p].stage = Next1(sess[p].stage) /\ sess'[p].round = sess[p].round
      /\ sess'[p].status = sess[p].status
  <2>1. CASE StageDone(p)
    BY <1>1, <2>1 DEF StageDone, Leaves, Keep, Session
  <2>2. CASE Gate(p)
    BY <1>1, <2>2 DEF Gate, Leaves, Keep, Session
  <2>3. QED
    BY <2>1, <2>2
<1>4. SameWorth(sess[p], sess'[p])
  BY <1>2, <1>3 DEF SameWorth, Verdicts, Next1
<1>5. QED
  BY <1>1, <1>2, <1>3, <1>4, CostStill

LEMMA CostEnters ==
    ASSUME OneCommand, IInv, IInv', CostInv, NEW p \in Procs, Enter(p) \/ SaveAnswer(p)
    PROVE  CostInv'
<1>1. trouble \in Nat /\ sess[p] \in Session /\ sess \in [Procs -> Session] /\ pc[p] # "idle"
  BY CostTypes DEF IInv, TypeOK, Enter, SaveAnswer
<1>2. sess[p].status # "absent"
  BY <1>1, CostNow
<1>3. /\ disk'.pos = sess[p].pos /\ disk'.ballot = sess[p].ballot /\ disk'.stage = sess[p].stage
      /\ disk'.round = sess[p].round /\ disk'.status # "absent" /\ sess'[p] = disk'
      /\ UNCHANGED <<paid, trouble>>
  BY <1>1, <1>2 DEF Enter, SaveAnswer, Keep, Session
<1>4. SameWorth(sess[p], disk')
  BY <1>3 DEF SameWorth, Verdicts
<1>5. QED
  BY <1>1, <1>3, <1>4, CostSaves

LEMMA CostEnds ==
    ASSUME OneCommand, IInv, IInv', CostInv, NEW p \in Procs,
           NoQuorum(p) \/ OverBudget(p) \/ ChairmanFails(p) \/ Await(p) \/ Close(p)
    PROVE  CostInv'
<1>1. trouble \in Nat /\ sess[p] \in Session /\ pc \in [Procs -> Phases]
  BY CostTypes DEF IInv, TypeOK
<1>2. pc[p] # "idle"
  BY DEF NoQuorum, OverBudget, ChairmanFails, Await, Close, Asking
<1>3. PICK st \in {"error", "paused_budget", "awaiting", "done", "rejected"} :
          Ends(p, [sess[p] EXCEPT !.status = st])
  BY DEF NoQuorum, OverBudget, ChairmanFails, Await, Close
<1>4. /\ disk'.pos = sess[p].pos /\ disk'.ballot = sess[p].ballot /\ disk'.stage = sess[p].stage
      /\ disk'.round = sess[p].round /\ disk'.status # "absent" /\ pc'[p] = "idle"
  BY <1>1, <1>3 DEF Ends, Session
<1>5. /\ \/ paid' = paid /\ trouble <= trouble'
         \/ paid'[disk.round] = paid[disk.round] + 1 /\ trouble' = trouble + 1
      /\ \A n \in 1 .. MaxRounds : n # disk.round => paid'[n] = paid[n]
  <2>1. CASE ChairmanFails(p)
    BY <1>1, <1>2, <2>1, PayOne DEF ChairmanFails, Fault
  <2>2. CASE ~ChairmanFails(p)
    BY <1>1, <2>2 DEF NoQuorum, OverBudget, Await, Close
  <2>3. QED
    BY <2>1, <2>2
<1>6. SameWorth(sess[p], disk')
  BY <1>4 DEF SameWorth, Verdicts
<1>7. QED
  BY <1>2, <1>4, <1>5, <1>6, CostSaves

LEMMA CostAsks ==
    ASSUME OneCommand, IInv, IInv', CostInv, NEW p \in Procs, Answered(p) \/ CallFails(p)
    PROVE  CostInv'
<1>1. /\ pc[p] \in {"independent", "peer_rank"} /\ turn[p] \in Due(sess[p], pc[p])
      /\ disk' = disk /\ pc' = [pc EXCEPT ![p] = "save"]
  BY DEF Answered, CallFails, Asking, Go
<1>2. sess[p] \in Session /\ sess \in [Procs -> Session] /\ pc'[p] = "save"
  BY <1>1, CostTypes DEF IInv, TypeOK
<1>3. PICK a \in Answers(pc[p], turn[p]) \cup {"error"} :
          /\ Keep(p, WithAnswer(sess[p], pc[p], turn[p], a))
          /\ \/ Pay(p) /\ a # "error" /\ trouble' = trouble
             \/ Pay(p) /\ a = "error" /\ trouble' = trouble + 1
             \/ paid' = paid /\ a = "error" /\ trouble' = trouble + 1
  BY DEF Answered, CallFails, Fault, Answers, Votes
<1>4. sess'[p] = WithAnswer(sess[p], pc[p], turn[p], a)
  BY <1>2, <1>3 DEF Keep
<1>5. /\ Worth(sess'[p]) = Worth(sess[p]) + (IF a = "error" THEN 0 ELSE 1)
      /\ sess'[p].round = sess[p].round /\ sess'[p].status = sess[p].status
  BY <1>1, <1>2, <1>4, WorthAnswered
<1>6. Worth(sess[p]) \in Nat
  BY WorthType
<1>7. Pending(p)' = 1
  BY <1>2 DEF Pending
<1>8. QED
  BY <1>1, <1>2, <1>3, <1>5, <1>6, <1>7, CostPays

LEMMA CostSynthesizes ==
    ASSUME OneCommand, IInv, IInv', CostInv, NEW p \in Procs, Synthesize(p)
    PROVE  CostInv'
<1>1. /\ sess[p] \in Session /\ At(p) /\ sess \in [Procs -> Session] /\ pc \in [Procs -> Phases]
  BY CostTypes DEF IInv, TypeOK
<1>2. pc[p] = "synthesize" /\ sess[p].stage = "synthesize" /\ Pay(p) /\ UNCHANGED <<disk, trouble>>
  BY <1>1 DEF Synthesize, At
<1>3. PICK v \in {"for", "against", "weak"} : Leaves(p, [sess[p] EXCEPT !.verdict = v])
  BY DEF Synthesize
<1>4. /\ sess'[p].pos = sess[p].pos /\ sess'[p].ballot = sess[p].ballot /\ sess'[p].stage = "gate"
      /\ sess'[p].round = sess[p].round /\ sess'[p].status = sess[p].status /\ pc'[p] = "enter"
  BY <1>1, <1>2, <1>3 DEF Leaves, Keep, Go, Session, Next1
<1>5. Worth(sess'[p]) = Worth(sess[p]) + 1
  <2>1. Voted(sess'[p]) = Voted(sess[p]) /\ Balloted(sess'[p]) = Balloted(sess[p])
    BY <1>4 DEF Voted, Balloted
  <2>2. Verdicts(sess[p]) = 0 /\ Verdicts(sess'[p]) = 1
    BY <1>2, <1>4 DEF Verdicts
  <2>3. Cardinality(Voted(sess[p])) \in Nat /\ Cardinality(Balloted(sess[p])) \in Nat
    BY CountMembers DEF Voted, Balloted
  <2>4. QED
    BY <2>1, <2>2, <2>3 DEF Worth
<1>6. Pending(p)' = 1
  BY <1>4 DEF Pending
<1>7. QED
  BY <1>2, <1>4, <1>5, <1>6, CostPays

\* A new round has paid nothing, and the old one all that it ever will.
LEMMA CostRevises ==
    ASSUME OneCommand, IInv, IInv', CostInv, NEW p \in Procs, Revise(p)
    PROVE  CostInv'
<1>1. /\ pc[p] = "revise" /\ disk' = NewRound(sess[p].round + 1) /\ sess' = [sess EXCEPT ![p] = disk']
      /\ UNCHANGED <<paid, trouble>>
  BY DEF Revise, Revised, Keep
<1>2. /\ sess'[p] = disk' /\ disk'.round = disk.round + 1 /\ disk'.status = "awaiting" /\ Worth(disk') = 0
  BY <1>1, CostNow, WorthNew DEF IInv, TypeOK
<1>3. disk'.round \in 1 .. MaxRounds
  <2>1. disk'.round \in 0 .. MaxRounds
    BY DEF IInv, TypeOK, Session
  <2>2. QED
    BY <1>1, <1>2, <2>1, CostNow
<1>4. \A n \in 1 .. MaxRounds : /\ n > disk'.round => paid'[n] = 0
                                /\ n < disk'.round => paid'[n] <= 2 * N + 1 + trouble'
  <2> SUFFICES ASSUME NEW n \in 1 .. MaxRounds
               PROVE  /\ n > disk.round + 1 => paid[n] = 0
                      /\ n < disk.round + 1 => paid[n] <= 2 * N + 1 + trouble
    BY <1>1, <1>2
  <2>1. disk.round \in 1 .. MaxRounds
    BY <1>1, CostNow
  <2>2. paid[disk.round] <= Worth(sess[p]) + trouble /\ Worth(sess[p]) \in 0 .. 2 * N + 1
    BY <1>1, CostNow, WorthType DEF CostAt
  <2>3. paid[disk.round] <= 2 * N + 1 + trouble
    BY <1>1, <2>2, CostNow, CouncilAssumption
  <2>4. CASE n = disk.round
    BY <2>1, <2>3, <2>4
  <2>5. CASE n # disk.round
    BY <2>1, <2>5 DEF CostInv
  <2>6. QED
    BY <2>4, <2>5
<1>5. paid'[disk'.round] = 0
  BY <1>1, <1>2, <1>3, CostNow DEF CostInv
<1>6. trouble' \in Nat /\ Pending(p)' \in 0 .. 1
  BY <1>1, CostNow DEF Pending
<1>7. Worth(sess[p])' = 0 /\ Worth(disk)' = 0
  BY <1>2 DEF Worth, Voted, Balloted, Verdicts
<1>8. CostAt(p)'
  <2>1. sess'[p].status # "absent" /\ sess'[p].round = disk'.round
    BY <1>2
  <2>2. \A t, d \in Nat : 0 <= 0 + t /\ 0 <= 0 + t + d
    OBVIOUS
  <2>3. Pending(p)' \in Nat /\ trouble' \in Nat
    BY <1>6
  <2>4. 0 <= 0 + trouble' /\ 0 <= 0 + trouble' + Pending(p)'
    BY <2>2, <2>3, Zenon
  <2>5. paid'[disk'.round] <= Worth(sess[p])' + trouble'
    BY <1>5, <1>7, <2>4, Zenon
  <2>6. paid'[disk'.round] <= Worth(disk)' + trouble' + Pending(p)'
    BY <1>5, <1>7, <2>4, Zenon
  <2>7. QED
    BY <2>1, <2>5, <2>6 DEF CostAt
<1>9. \A q \in Procs : q = p
  BY DEF OneCommand
<1>10. disk'.round # 0 /\ disk'.status # "absent"
  BY <1>2, <1>3
<1>11. pc'[p] # "idle"
  BY DEF Revise, Go, IInv, TypeOK
<1>12. QED
  BY <1>4, <1>8, <1>9, <1>10, <1>11 DEF CostInv

LEMMA CostStarts ==
    ASSUME OneCommand, IInv, IInv', CostInv, NEW p \in Procs, Start(p)
    PROVE  CostInv'
<1>1. /\ disk.status = "absent" /\ disk' = [NewRound(1) EXCEPT !.status = "running"]
      /\ sess' = [sess EXCEPT ![p] = disk'] /\ UNCHANGED <<paid, trouble>>
  BY DEF Start, Keep
<1>2. /\ sess'[p] = disk' /\ disk'.round = 1 /\ disk'.status = "running" /\ SameWorth(NewRound(1), disk')
  BY <1>1 DEF IInv, TypeOK, NewRound, SameWorth, Verdicts
<1>3. Worth(disk') = 0
  BY <1>2, WorthSame, WorthNew
<1>4. Worth(sess[p])' = 0 /\ Worth(disk)' = 0
  BY <1>2, <1>3 DEF Worth, Voted, Balloted, Verdicts
<1>5. disk.round = 0
  BY <1>1 DEF CostInv
<1>6. \A n \in 1 .. MaxRounds : paid'[n] = 0
  BY <1>1, <1>5 DEF CostInv
<1>7. trouble' \in Nat /\ Pending(p)' \in 0 .. 1 /\ N \in Nat /\ 1 \in 1 .. MaxRounds
  BY <1>1, CostTypes, CouncilAssumption DEF Pending
<1>8. CostAt(p)'
  BY <1>2, <1>4, <1>6, <1>7 DEF CostAt
<1>9. \A q \in Procs : q = p
  BY DEF OneCommand
<1>10. QED
  BY <1>2, <1>4, <1>6, <1>7, <1>8, <1>9 DEF CostInv

\* Nobody runs, or nobody runs any more: what is on disk is all there is.
LEMMA CostOnDisk ==
    ASSUME OneCommand, IInv, CostInv, NEW p \in Procs, disk.round # 0
    PROVE  /\ disk.round \in 1 .. MaxRounds /\ disk.status # "absent"
           /\ paid[disk.round] <= Worth(disk) + trouble + 1
           /\ pc[p] = "idle" => paid[disk.round] <= Worth(disk) + trouble
           /\ paid[disk.round] \in Nat /\ trouble \in Nat /\ Worth(disk) \in Nat
<1>1. /\ disk.round \in 1 .. MaxRounds /\ disk.status # "absent" /\ trouble \in Nat
      /\ paid[disk.round] \in Nat /\ Worth(disk) \in Nat
  BY CostTypes, WorthType, CouncilAssumption DEF CostInv
<1>2. CASE pc[p] = "idle"
  <2>1. \A q \in Procs : pc[q] = "idle"
    BY <1>2 DEF OneCommand
  <2>2. QED
    BY <1>1, <2>1 DEF CostInv
<1>3. CASE pc[p] # "idle"
  <2>1. paid[disk.round] <= Worth(disk) + trouble + Pending(p) /\ Pending(p) \in 0 .. 1
    BY <1>3 DEF CostInv, CostAt, Pending
  <2>2. QED
    BY <1>1, <1>3, <2>1
<1>4. QED
  BY <1>2, <1>3

LEMMA CostTakesUp ==
    ASSUME OneCommand, IInv, IInv', CostInv, NEW p \in Procs,
           Resume(p) \/ ResumeDecided(p) \/ \E r \in Responses : Decide(p, r)
    PROVE  CostInv'
<1>1. /\ pc[p] = "idle" /\ disk.status # "absent" /\ sess' = [sess EXCEPT ![p] = disk]
      /\ UNCHANGED <<disk, paid, trouble>>
  BY DEF Resume, ResumeDecided, Decide, Command, Keep
<1>2. sess'[p] = disk /\ disk.round # 0
  BY <1>1 DEF IInv, TypeOK, CostInv
<1>3. paid[disk.round] <= Worth(disk) + trouble /\ trouble \in Nat /\ Worth(disk) \in Nat
      /\ paid[disk.round] \in Nat
  BY <1>1, <1>2, CostOnDisk
<1>4. Worth(sess[p])' = Worth(disk) /\ Worth(disk)' = Worth(disk)
  BY <1>1, <1>2 DEF Worth, Voted, Balloted, Verdicts
<1>5. Pending(p)' \in 0 .. 1
  BY DEF Pending
<1>6. CostAt(p)'
  BY <1>1, <1>2, <1>3, <1>4, <1>5 DEF CostAt
<1>7. QED
  BY <1>1, <1>2, <1>3, <1>6, CostStep

LEMMA CostKilled ==
    ASSUME OneCommand, IInv, IInv', CostInv, NEW p \in Procs, Kill(p)
    PROVE  CostInv'
<1>1. /\ pc[p] # "idle" /\ pc'[p] = "idle" /\ UNCHANGED <<disk, paid>> /\ trouble' = trouble + 1
  BY DEF Kill, Go, Fault, IInv, TypeOK
<1>2. disk.round # 0
  BY <1>1 DEF CostInv
<1>3. paid[disk.round] <= Worth(disk) + trouble + 1 /\ trouble \in Nat /\ Worth(disk) \in Nat
      /\ paid[disk.round] \in Nat /\ disk.status # "absent"
  BY <1>2, CostOnDisk
<1>4. QED
  BY <1>1, <1>2, <1>3, CostStep

\* The people at the side write neither the session nor the ledger.
LEMMA CostBeside ==
    ASSUME IInv, CostInv, UNCHANGED <<disk, sess, pc, paid>>,
           trouble' = trouble \/ trouble' = trouble + 1
    PROVE  CostInv'
<1>1. /\ trouble \in Nat /\ N \in Nat /\ paid \in [1 .. MaxRounds -> Nat] /\ disk.round \in 0 .. MaxRounds
      /\ Worth(disk) \in Nat
  BY CostTypes, WorthType, CouncilAssumption
<1>2. Worth(disk)' = Worth(disk) /\ \A p \in Procs : Worth(sess[p])' = Worth(sess[p])
  BY DEF Worth, Voted, Balloted, Verdicts
<1>3. ASSUME NEW p \in Procs, pc'[p] # "idle" PROVE disk'.round # 0 /\ CostAt(p)'
  <2>1. disk.round # 0 /\ CostAt(p) /\ Worth(sess[p]) \in Nat /\ paid[disk.round] \in Nat
    BY <1>3, CostNow DEF CostInv
  <2>2. Pending(p) \in 0 .. 1 /\ Pending(p)' = Pending(p)
    BY DEF Pending
  <2>3. QED
    BY <1>1, <1>2, <2>1, <2>2 DEF CostAt
<1>4. ASSUME NEW n \in 1 .. MaxRounds
      PROVE  /\ n > disk.round => paid[n] = 0
             /\ n < disk.round => paid[n] <= 2 * N + 1 + trouble'
  <2>1. paid[n] \in Nat /\ n > disk.round => paid[n] = 0
    BY <1>1 DEF CostInv
  <2>2. n < disk.round => paid[n] <= 2 * N + 1 + trouble
    BY DEF CostInv
  <2>3. QED
    BY <1>1, <2>1, <2>2 DEF CostInv
<1>5. disk.round # 0 /\ (\A p \in Procs : pc[p] = "idle") => paid[disk.round] <= Worth(disk) + trouble'
  <2> SUFFICES ASSUME disk.round # 0, \A p \in Procs : pc[p] = "idle"
               PROVE  paid[disk.round] <= Worth(disk) + trouble'
    OBVIOUS
  <2>1. paid[disk.round] \in Nat /\ paid[disk.round] <= Worth(disk) + trouble
    BY <1>1 DEF CostInv
  <2>2. QED
    BY <1>1, <2>1
<1>6. QED
  BY <1>2, <1>3, <1>4, <1>5 DEF CostInv

LEMMA CostNext ==
    ASSUME OneCommand, IInv, IInv', CostInv, [Next]_vars
    PROVE  CostInv'
<1>1. ASSUME NEW p \in Procs, Work(p) PROVE CostInv'
  BY <1>1, CostKeeps, CostLeaves, CostEnters, CostEnds, CostAsks, CostSynthesizes, CostRevises DEF Work
<1>2. CASE \E i \in Ids, r \in Responses : NodeDecides(i, r)
  BY <1>2, CostBeside DEF NodeDecides
<1>3. CASE \E i \in Ids : ForgottenByHand(i)
  BY <1>3, CostBeside DEF ForgottenByHand, Fault
<1>4. CASE \E p \in Procs : ResumeWaiting(p)
  BY <1>4, CostBeside DEF ResumeWaiting
<1>5. CASE UNCHANGED vars
  BY <1>5, CostBeside DEF vars
<1>6. QED
  BY <1>1, <1>2, <1>3, <1>4, <1>5, CostStarts, CostTakesUp, CostKilled DEF Next, People

\* With one command at a time, whatever is killed and resumed, a round pays 2N + 1 calls and
\* one more for each failure: an answer that is in council.json is not paid again.
THEOREM RoundsCostTheirCalls == ASSUME OneCommand PROVE Spec => []CostPerRound
<1>1. Init => CostInv
  BY DEF Init, CostInv, NoSession, NewRound
<1>2. IInv /\ IInv' /\ CostInv /\ [Next]_vars => CostInv'
  BY CostNext
<1>3. IInv /\ CostInv => CostPerRound
  <2> SUFFICES ASSUME IInv, CostInv, NEW n \in 1 .. MaxRounds PROVE paid[n] <= 2 * N + 1 + trouble
    BY DEF CostPerRound
  <2>1. /\ trouble \in Nat /\ N \in Nat /\ paid[n] \in Nat /\ disk.round \in 0 .. MaxRounds
    BY CostTypes, CouncilAssumption
  <2>2. CASE n = disk.round
    <3>1. CASE \A p \in Procs : pc[p] = "idle"
      <4>1. paid[n] <= Worth(disk) + trouble /\ Worth(disk) \in 0 .. 2 * N + 1
        BY <2>2, <3>1, WorthType DEF CostInv
      <4>2. QED
        BY <2>1, <4>1
    <3>2. ASSUME NEW p \in Procs, pc[p] # "idle" PROVE paid[n] <= 2 * N + 1 + trouble
      <4>1. paid[n] <= Worth(sess[p]) + trouble /\ Worth(sess[p]) \in 0 .. 2 * N + 1
        BY <2>2, <3>2, WorthType DEF CostInv, CostAt
      <4>2. QED
        BY <2>1, <4>1
    <3>3. QED
      BY <3>1, <3>2
  <2>3. CASE n # disk.round
    BY <2>1, <2>3 DEF CostInv
  <2>4. QED
    BY <2>2, <2>3
<1>4. QED
  BY <1>1, <1>2, <1>3, Inductive, PTL DEF Spec

=============================================================================
