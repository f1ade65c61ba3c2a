--------------------------- MODULE ToolWorkerProofs ---------------------------
(***************************************************************************)
(* The safety of the tool loop for any number of workers, steps, calls,      *)
(* requests, answers and kills: WorkerInv is inductive, and what the runs    *)
(* check of approvals, limits and the cap follows from it.                   *)
(***************************************************************************)
EXTENDS ToolWorker, FiniteSetTheorems, TLAPS

USE WorkerAssumption

-----------------------------------------------------------------------------
(* Facts about the data *)

LEMMA FreshOK == Fresh \in Loops
  BY DEF Fresh, Loops, Calls

LEMMA TurnSet ==
  ASSUME NEW l \in Loops, NEW n \in 0 .. MaxTurns
  PROVE  [l EXCEPT !.turn = n] \in Loops
  BY DEF Loops

\* The loop takes a batch up, and leaves it for the next turn.
LEMMA BatchSet ==
  ASSUME NEW l \in Loops, NEW b \in Seq(Calls)
  PROVE  LET k == [l EXCEPT !.batch = b, !.at = 1]
         IN  /\ k \in Loops /\ k.batch = b /\ k.at = 1
             /\ k.turn = l.turn /\ k.calls = l.calls /\ k.answered = l.answered
<1>1. [l EXCEPT !.batch = b] \in Loops
  BY DEF Loops
<1>2. 1 \in 1 .. MaxBatch
  OBVIOUS
<1>3. [[l EXCEPT !.batch = b] EXCEPT !.at = 1] \in Loops
  BY <1>1, <1>2 DEF Loops
<1> QED
  BY <1>3 DEF Loops

\* The place in a batch and the counter of calls stay within their bounds.
LEMMA CountsFit ==
  ASSUME NEW calls \in Nat, NEW answered \in Nat, NEW len \in Nat, NEW i \in 1 .. len,
         len <= MaxBatch, calls = answered + i - 1, answered + len <= MaxCalls
  PROVE  /\ calls + 1 \in 0 .. MaxCalls /\ i \in 1 .. MaxBatch
         /\ answered + len \in Nat /\ calls + 1 = answered + (i + 1) - 1
         /\ i = len => calls + 1 = answered + len
         /\ i # len => i + 1 \in 1 .. MaxBatch /\ i + 1 <= len
  OBVIOUS

\* A history counter stays within its bound, and below it has counted every time.
LEMMA CountsOn ==
  \A n \in 0 .. Often :
    /\ OnceMore(n) \in 0 .. Often /\ OnceMore(n) <= n + 1
    /\ OnceMore(n) < Often => n < Often /\ OnceMore(n) = n + 1
  BY DEF OnceMore

LEMMA NoApprovalsOK ==
  /\ NoApprovals \in [Act -> {"none", "approve", "reject"}]
  /\ \A a \in Act : NoApprovals[a] = "none"
  BY DEF NoApprovals

LEMMA BatchOK ==
  ASSUME NEW batch \in Batches
  PROVE  batch \in Seq(Calls) /\ Len(batch) <= MaxBatch /\ Len(batch) \in Nat
<1>1. PICK k \in 0 .. MaxBatch : batch \in [1 .. k -> Calls]
  BY DEF Batches
<1> QED
  BY <1>1

LEMMA MoreCosts ==
  ASSUME NEW m \in Nat, NEW i \in Nat, NEW j \in Nat, i <= j
  PROVE  m * i \in Nat /\ m * j \in Nat /\ m * i <= m * j /\ m * (i + 1) = m * i + m
<1>1. m * i \in Nat /\ m * (j - i) \in Nat
  OBVIOUS
<1>2. m * j = m * i + m * (j - i)
  OBVIOUS
<1> QED
  BY <1>1, <1>2

-----------------------------------------------------------------------------
(* What a step leaves alone *)

\* Requests, what they show, and answers are only added.
Keeps ==
    /\ opened <= opened'
    /\ \A r \in 1 .. opened :
           /\ shown'[r] = shown[r]
           /\ answers[r] # <<>> => answers'[r] # <<>>
           /\ Approves(r) => Approves(r)'

\* What v has in memory stays.
Unmoved(v) ==
    /\ phase'[v] = phase[v] /\ loop'[v] = loop[v]
    /\ approvals'[v] = approvals[v] /\ req'[v] = req[v]

LEMMA HitlStays ==
  ASSUME WorkerTypeOK, UNCHANGED hitl PROVE Keeps
<1>1. opened' = opened /\ shown' = shown /\ answers' = answers
  BY DEF hitl
<1>2. \A r : Approves(r)' <=> Approves(r)
  BY <1>1 DEF Approves
<1> QED
  BY <1>1, <1>2 DEF Keeps, WorkerTypeOK

\* A saved loop that is OK stays so.
LEMMA KeptSaves ==
  ASSUME WorkerInv, Keeps, opened' \in 0 .. MaxRequests, NEW s \in ToolSteps, saved'[s] = saved[s]
  PROVE  SaveOK(saved[s])'
<1>1. SaveOK(saved[s]) /\ saved[s].req \in -1 .. MaxRequests /\ opened \in 0 .. MaxRequests
  BY DEF WorkerInv, WorkerTypeOK, Saves
<1>2. ASSUME saved[s].req > 0
      PROVE  AsksFor(saved[s].req, saved[s].state)'
  <2>1. AsksFor(saved[s].req, saved[s].state) /\ saved[s].req \in 1 .. opened
    BY <1>1, <1>2 DEF SaveOK, AsksFor
  <2>2. shown'[saved[s].req] = shown[saved[s].req] /\ saved[s].req \in 1 .. opened'
    BY <1>1, <2>1 DEF Keeps
  <2> QED
    BY <2>1, <2>2 DEF AsksFor, ActsOf, WorkOK
<1> QED
  BY <1>1, <1>2 DEF SaveOK, ActsOf

LEMMA UnmovedOK ==
  ASSUME WorkerInv, Keeps, opened' \in 0 .. MaxRequests, NEW v \in Workers, Unmoved(v)
  PROVE  WorkerOK(v)'
<1>1. WorkerOK(v) /\ req[v] \in 0 .. MaxRequests /\ opened \in 0 .. MaxRequests
  BY DEF WorkerInv, WorkerTypeOK
<1>2. AsksFor(req[v], loop[v]) => AsksFor(req[v], loop[v])'
  BY <1>1, SMTT(30) DEF AsksFor, Keeps, Unmoved, ActsOf, WorkOK
<1>3. Decided(v) => Decided(v)'
  BY <1>1 DEF Decided, WorkerOK, Keeps, Unmoved, ActsOf
<1>4. Undecided(v)' = Undecided(v)
  BY DEF Undecided, Unmoved, ActsOf
<1>5. Approves(req[v]) /\ req[v] # 0 => Approves(req[v])'
  BY <1>1 DEF WorkerOK, Keeps, Unmoved
<1>6. DecisionsOK(v) => DecisionsOK(v)'
  BY <1>1, <1>3, <1>4, <1>5 DEF DecisionsOK, Unmoved, ToCome, Decided, ActsOf, NoApprovals
<1>7. WorkOK(loop[v])' = WorkOK(loop[v])
  BY DEF WorkOK, Unmoved
<1> QED
  BY <1>1, <1>2, <1>6, <1>7 DEF WorkerOK, Unmoved, Keeps, NoApprovals

LEMMA Subsets ==
  ASSUME NEW S, NEW T, IsFiniteSet(T), S \subseteq T
  PROVE  Cardinality(S) \in Nat /\ Cardinality(T) \in Nat /\ Cardinality(S) <= Cardinality(T)
  BY FS_Subset, FS_CardinalityType

LEMMA SpentStays ==
  ASSUME WorkerInv, spent' = spent, cap' \in Nat, cap <= cap',
         Checked' \subseteq Checked \/ spent < cap
  PROVE  SpentOK'
<1>1. IsFiniteSet(Workers) /\ Checked \subseteq Workers /\ Checked' \subseteq Workers
  BY DEF Checked
<1>2. IsFiniteSet(Checked)
  BY <1>1, FS_Subset
<1> DEFINE n == Cardinality(Workers)
           k == Cardinality(Checked)
           l == Cardinality(Checked')
<1>3. n \in Nat /\ k \in Nat /\ l \in Nat /\ l <= n
  BY <1>1, Subsets
<1>4. spent \in Nat /\ cap \in Nat /\ MaxCost \in Nat
  BY DEF WorkerInv, WorkerTypeOK
<1>5. spent + MaxCost * k < cap + MaxCost * n
  BY DEF WorkerInv, SpentOK
<1>6. CASE Checked' \subseteq Checked
  <2>1. l <= k
    BY <1>2, <1>6, Subsets
  <2>2. MaxCost * l <= MaxCost * k /\ MaxCost * l \in Nat /\ MaxCost * k \in Nat /\ MaxCost * n \in Nat
    BY <2>1, <1>3, <1>4, MoreCosts
  <2>3. spent + MaxCost * l < cap' + MaxCost * n
    BY <1>4, <1>5, <2>2
  <2> QED
    BY <2>3 DEF SpentOK
<1>7. CASE spent < cap
  <2>1. MaxCost * l <= MaxCost * n /\ MaxCost * l \in Nat /\ MaxCost * n \in Nat
    BY <1>3, <1>4, MoreCosts
  <2>2. spent + MaxCost * l < cap' + MaxCost * n
    BY <1>4, <1>7, <2>1
  <2> QED
    BY <2>2 DEF SpentOK
<1> QED
  BY <1>6, <1>7

LEMMA UsesStay ==
  ASSUME WorkerInv, UNCHANGED <<executed, tries>>,
         \A r \in Requests, a \in Act : Holders(r, a)' \subseteq Holders(r, a)
  PROVE  UsesOK'
<1> SUFFICES ASSUME NEW r \in Requests, NEW a \in Act, tries[r] < Often
             PROVE  executed[r][a] + Cardinality(Holders(r, a)') <= tries[r]
  BY DEF UsesOK, Holders
<1>1. IsFiniteSet(Holders(r, a))
  BY FS_Subset DEF Holders
<1>2. /\ Cardinality(Holders(r, a)') \in Nat /\ Cardinality(Holders(r, a)) \in Nat
      /\ Cardinality(Holders(r, a)') <= Cardinality(Holders(r, a))
  BY <1>1, Subsets
<1>3. executed[r][a] \in Nat /\ tries[r] \in Nat /\ executed[r][a] + Cardinality(Holders(r, a)) <= tries[r]
  BY DEF WorkerInv, WorkerTypeOK, UsesOK
<1> QED
  BY <1>2, <1>3

\* A step that executes no call and takes no decision up.
LEMMA Quiet ==
  ASSUME WorkerInv, WorkerTypeOK', Keeps, UNCHANGED <<executed, tries>>,
         (\A s \in ToolSteps : SaveOK(saved[s]))', (\A v \in Workers : WorkerOK(v))',
         \A r \in Requests, a \in Act : Holders(r, a)' \subseteq Holders(r, a), SpentOK'
  PROVE  WorkerInv'
<1>1. opened \in Nat /\ opened' \in Nat
  BY DEF WorkerInv, WorkerTypeOK
<1>2. (\A r \in Requests : r > opened => \A a \in Act : executed[r][a] = 0)'
  BY <1>1 DEF WorkerInv, Keeps, Requests
<1>3. ActNeedsApproval'
  <2> SUFFICES ASSUME NEW r \in Requests, NEW a \in Act, executed[r][a] > 0
               PROVE  a \in shown'[r] /\ Approves(r)'
    BY DEF ActNeedsApproval
  <2>1. a \in shown[r] /\ Approves(r)
    BY DEF WorkerInv, ActNeedsApproval
  <2>2. r \in 1 .. opened
    BY <1>1 DEF WorkerInv, Requests, WorkerTypeOK
  <2> QED
    BY <2>1, <2>2 DEF Keeps
<1> QED
  BY <1>2, <1>3, UsesStay DEF WorkerInv

\* What the loop's variables look like in a state that has its types.
LocalTypes(w) ==
    /\ phase[w] \in {"idle", "load", "turn", "call", "act", "save", "asked", "final", "write"}
    /\ loop[w] \in Loops
    /\ approvals[w] \in [Act -> {"none", "approve", "reject"}]
    /\ req[w] \in 0 .. MaxRequests

LEMMA Typed ==
  ASSUME WorkerTypeOK, NEW w \in Workers
  PROVE  LocalTypes(w)
  BY DEF WorkerTypeOK, LocalTypes

\* A step of w alone, which executes no call and takes no decision up.
LEMMA QuietStep ==
  ASSUME WorkerInv, WorkerTypeOK', Keeps, UNCHANGED <<executed, tries, spent, cap>>,
         NEW w \in Workers, \A v \in Workers \ {w} : Unmoved(v), WorkerOK(w)',
         (\A s \in ToolSteps : SaveOK(saved[s]))',
         approvals'[w] = NoApprovals \/ (approvals'[w] = approvals[w] /\ req'[w] = req[w]),
         InFlight(w)' => InFlight(w) \/ spent < cap
  PROVE  WorkerInv'
<1>1. opened' \in 0 .. MaxRequests /\ cap' \in Nat /\ cap <= cap' /\ spent' = spent
  BY DEF WorkerInv, WorkerTypeOK
<1>2. \A v \in Workers : WorkerOK(v)'
  BY <1>1, UnmovedOK
<1>3. \A r \in Requests, a \in Act : Holders(r, a)' \subseteq Holders(r, a)
  BY DEF Holders, Unmoved, NoApprovals
<1>4. \A v \in Workers \ {w} : InFlight(v)' = InFlight(v)
  BY DEF Unmoved, InFlight
<1>5. Checked' \subseteq Checked \/ spent < cap
  BY <1>4 DEF Checked
<1>6. SpentOK'
  BY <1>1, <1>5, SpentStays
<1> QED
  BY <1>2, <1>3, <1>6, Quiet

\* The same, when w returns: nothing is left to show of w.
LEMMA Returns ==
  ASSUME WorkerInv, NEW w \in Workers, Leave(w), Keeps, UNCHANGED <<executed, tries, spent, cap>>,
         hasResult' \in [ToolSteps -> BOOLEAN], saved' \in [ToolSteps -> Saves],
         (\A s \in ToolSteps : SaveOK(saved[s]))',
         opened' \in 0 .. MaxRequests, shown' \in [Requests -> SUBSET Act],
         answers' \in [Requests -> Seq(Responses)], paused' \in 0 .. MaxRequests,
         kills' \in 0 .. MaxWorkerKills
  PROVE  WorkerInv'
<1>1. /\ phase' = [phase EXCEPT ![w] = "idle"] /\ loop' = [loop EXCEPT ![w] = Fresh]
      /\ approvals' = [approvals EXCEPT ![w] = NoApprovals] /\ req' = [req EXCEPT ![w] = 0]
  BY DEF Leave, Goes
<1>2. WorkerTypeOK'
  BY <1>1, FreshOK, NoApprovalsOK DEF WorkerInv, WorkerTypeOK
<1>3. phase'[w] = "idle" /\ loop'[w] = Fresh /\ approvals'[w] = NoApprovals /\ req'[w] = 0
  BY <1>1 DEF WorkerInv, WorkerTypeOK
<1>4. WorkerOK(w)'
  BY <1>2, <1>3 DEF WorkerOK, Fresh, NoApprovals, WorkerTypeOK
<1>5. InFlight(w)' => InFlight(w) \/ spent < cap
  BY <1>3 DEF InFlight
<1>6. approvals'[w] = NoApprovals \/ (approvals'[w] = approvals[w] /\ req'[w] = req[w])
  BY <1>3
<1>7. \A v \in Workers \ {w} : Unmoved(v)
  BY <1>1 DEF WorkerInv, WorkerTypeOK, Unmoved
<1> QED
  BY <1>2, <1>4, <1>5, <1>6, <1>7, QuietStep

\* And when no file of the step, of the approvals or of the counters changes.
LEMMA OnlyReturns ==
  ASSUME WorkerInv, NEW w \in Workers, Leave(w),
         UNCHANGED <<hasResult, saved, spent, cap, opened, shown, answers, executed, tries>>,
         paused' \in 0 .. MaxRequests, kills' \in 0 .. MaxWorkerKills
  PROVE  WorkerInv'
<1>1. Keeps
  BY DEF Keeps, Approves, WorkerInv, WorkerTypeOK
<1>2. \A s \in ToolSteps : SaveOK(saved[s])'
  BY <1>1, KeptSaves DEF WorkerInv, WorkerTypeOK
<1>3. /\ hasResult' \in [ToolSteps -> BOOLEAN] /\ saved' \in [ToolSteps -> Saves]
      /\ opened' \in 0 .. MaxRequests /\ shown' \in [Requests -> SUBSET Act]
      /\ answers' \in [Requests -> Seq(Responses)]
  BY DEF WorkerInv, WorkerTypeOK
<1> QED
  BY <1>1, <1>2, <1>3, Returns

-----------------------------------------------------------------------------
(* Init and each action *)

LEMMA InitIInv == WorkerInit => WorkerInv
<1> SUFFICES ASSUME WorkerInit PROVE WorkerInv
  OBVIOUS
<1>1. WorkerTypeOK
  <2>1. NoSave \in Saves
    BY FreshOK DEF NoSave, Saves
  <2>2. <<>> \in Seq(Responses)
    OBVIOUS
  <2>3. 0 \in 0 .. MaxRequests /\ 0 \in 0 .. Often /\ 0 \in 0 .. MaxWorkerKills /\ FirstCap \in 0 .. MaxCap
    OBVIOUS
  <2> QED
    BY <2>1, <2>2, <2>3, FreshOK, NoApprovalsOK DEF WorkerInit, WorkerTypeOK
<1>2. \A s \in ToolSteps : SaveOK(saved[s])
  BY DEF WorkerInit, SaveOK, NoSave
<1>3. \A w \in Workers : WorkerOK(w)
  BY DEF WorkerInit, WorkerOK, Fresh
<1>4. ActNeedsApproval /\ \A r \in Requests : r > opened => \A a \in Act : executed[r][a] = 0
  BY DEF WorkerInit, ActNeedsApproval
<1>5. UsesOK
  <2> SUFFICES ASSUME NEW r \in Requests, NEW a \in Act
               PROVE  executed[r][a] + Cardinality(Holders(r, a)) <= tries[r]
    BY DEF UsesOK
  <2>1. Holders(r, a) = {} /\ executed[r][a] = 0 /\ tries[r] = 0
    BY DEF WorkerInit, Holders, Requests
  <2> QED
    BY <2>1, FS_EmptySet
<1>6. SpentOK
  <2>1. Checked = {} /\ spent = 0 /\ cap = FirstCap
    BY DEF WorkerInit, Checked, InFlight
  <2>2. Cardinality(Workers) \in Nat /\ Cardinality(Workers) # 0
    BY FS_EmptySet, FS_CardinalityType
  <2>3. MaxCost * Cardinality(Workers) >= MaxCost * 1 /\ MaxCost * Cardinality(Workers) \in Nat
    BY <2>2, MoreCosts
  <2>4. MaxCost * 1 = MaxCost /\ MaxCost * 0 = 0
    OBVIOUS
  <2> QED
    BY <2>1, <2>3, <2>4, FS_EmptySet DEF SpentOK
<1> QED
  BY <1>1, <1>2, <1>3, <1>4, <1>5, <1>6 DEF WorkerInv

\* A step of w that touches neither requests nor ledger nor counters.
LEMMA Local ==
  ASSUME WorkerInv, NEW w \in Workers, NEW label, NEW l \in Loops, NEW r \in 0 .. MaxRequests,
         phase' = [phase EXCEPT ![w] = label],
         label \in {"idle", "load", "turn", "call", "act", "save", "asked", "final", "write"},
         loop' = [loop EXCEPT ![w] = l], req' = [req EXCEPT ![w] = r], approvals' = approvals,
         UNCHANGED <<hasResult, money, hitl, history, kills>>,
         saved' \in [ToolSteps -> Saves], \A s \in ToolSteps : saved'[s] = saved[s] \/ saved'[s] = NoSave,
         WorkerOK(w)', approvals[w] = NoApprovals, InFlight(w)' => InFlight(w) \/ spent < cap
  PROVE  WorkerInv'
<1>1. WorkerTypeOK'
  BY DEF WorkerInv, WorkerTypeOK, money, hitl, history
<1>2. Keeps
  BY HitlStays DEF WorkerInv
<1>3. \A v \in Workers \ {w} : Unmoved(v)
  BY DEF WorkerInv, WorkerTypeOK, Unmoved
<1>4. \A s \in ToolSteps : SaveOK(saved[s])'
  <2> SUFFICES ASSUME NEW s \in ToolSteps PROVE SaveOK(saved[s])'
    OBVIOUS
  <2>1. CASE saved'[s] = saved[s]
    BY <1>1, <1>2, <2>1, KeptSaves DEF WorkerTypeOK
  <2>2. CASE saved'[s] = NoSave
    BY <2>2 DEF SaveOK, NoSave
  <2> QED
    BY <2>1, <2>2
<1>5. UNCHANGED <<executed, tries, spent, cap>> /\ approvals'[w] = NoApprovals
  BY DEF history, money
<1> QED
  BY <1>1, <1>2, <1>3, <1>4, <1>5, QuietStep

LEMMA StartIInv == ASSUME WorkerInv, NEW w \in Workers, Start(w) PROVE WorkerInv'
<1>1. WorkerOK(w) /\ LocalTypes(w) /\ phase[w] = "idle" /\ spent < cap /\ phase' = [phase EXCEPT ![w] = "load"]
  BY Typed DEF WorkerInv, Start, Goes
<1>2. loop' = [loop EXCEPT ![w] = loop[w]] /\ req' = [req EXCEPT ![w] = req[w]]
  BY DEF Start, WorkerInv, WorkerTypeOK
<1>3. UNCHANGED <<hasResult, saved, money, hitl, history, approvals, kills>>
  BY DEF Start, files
<1>4. WorkerOK(w)'
  BY <1>1, <1>2, <1>3 DEF WorkerOK, hitl, LocalTypes, WorkerInv, WorkerTypeOK
<1> QED
  BY <1>1, <1>2, <1>3, <1>4, Local DEF WorkerOK, LocalTypes, WorkerInv, WorkerTypeOK

LEMMA BeginIInv == ASSUME WorkerInv, NEW w \in Workers, BeginLoop(w) PROVE WorkerInv'
<1>1. WorkerOK(w) /\ LocalTypes(w) /\ phase[w] = "load" /\ phase' = [phase EXCEPT ![w] = "turn"]
  BY Typed DEF WorkerInv, BeginLoop, Goes
<1>2. loop' = [loop EXCEPT ![w] = loop[w]] /\ req' = [req EXCEPT ![w] = req[w]]
  BY DEF BeginLoop, WorkerInv, WorkerTypeOK
<1>3. UNCHANGED <<hasResult, saved, money, hitl, history, approvals, kills>>
  BY DEF BeginLoop, files
<1>4. loop[w] = Fresh
  BY <1>1 DEF WorkerOK
<1>5. WorkerOK(w)'
  BY <1>1, <1>2, <1>3, <1>4 DEF WorkerOK, hitl, LocalTypes, WorkerInv, WorkerTypeOK, Fresh
<1> QED
  BY <1>1, <1>2, <1>3, <1>5, Local DEF WorkerOK, LocalTypes, WorkerInv, WorkerTypeOK, InFlight

LEMMA CannotLoadIInv == ASSUME WorkerInv, NEW w \in Workers, CannotLoad(w) PROVE WorkerInv'
  BY OnlyReturns DEF CannotLoad, files, money, hitl, history, WorkerInv, WorkerTypeOK

LEMMA StillPendingIInv == ASSUME WorkerInv, NEW w \in Workers, StillPending(w) PROVE WorkerInv'
<1> DEFINE r == SaveOf(w).req
<1>1. /\ WorkerOK(w) /\ LocalTypes(w) /\ phase[w] = "load" /\ phase' = [phase EXCEPT ![w] = "asked"]
      /\ req' = [req EXCEPT ![w] = r] /\ loop' = [loop EXCEPT ![w] = loop[w]]
      /\ UNCHANGED <<hasResult, saved, money, hitl, history, approvals, kills>>
  BY Typed DEF WorkerInv, WorkerTypeOK, StillPending, Goes, files
<1>2. SaveOf(w) \in Saves /\ SaveOK(SaveOf(w)) /\ r > 0
  BY DEF SaveOf, WorkerInv, WorkerTypeOK, StillPending
<1>3. r \in 0 .. MaxRequests /\ r <= opened
  BY <1>2 DEF SaveOK, AsksFor, Saves, WorkerInv, WorkerTypeOK
<1>4. loop[w] = Fresh /\ approvals[w] = NoApprovals
  BY <1>1 DEF WorkerOK
<1>5. WorkerOK(w)'
  BY <1>1, <1>3, <1>4 DEF WorkerOK, hitl, LocalTypes, WorkerInv, WorkerTypeOK, Fresh
<1>6. ~InFlight(w)'
  BY <1>1 DEF InFlight, WorkerInv, WorkerTypeOK
<1> HIDE DEF r
<1> QED
  BY <1>1, <1>3, <1>4, <1>5, <1>6, Local DEF LocalTypes, WorkerInv, WorkerTypeOK

LEMMA NextTurnIInv == ASSUME WorkerInv, NEW w \in Workers, NextTurn(w) PROVE WorkerInv'
<1> DEFINE l == [loop[w] EXCEPT !.turn = @ + 1]
<1>1. /\ WorkerOK(w) /\ LocalTypes(w) /\ phase[w] = "turn" /\ phase' = [phase EXCEPT ![w] = "call"]
      /\ req' = [req EXCEPT ![w] = req[w]] /\ loop' = [loop EXCEPT ![w] = l]
      /\ UNCHANGED <<hasResult, saved, money, hitl, history, approvals, kills>>
  BY Typed DEF WorkerInv, WorkerTypeOK, NextTurn, Goes, files
<1>2. /\ l \in Loops /\ l.turn >= 1 /\ l.calls = loop[w].calls /\ l.answered = loop[w].answered
  <2>1. loop[w] \in Loops /\ loop[w].turn < MaxTurns
    BY <1>1 DEF WorkerOK, LocalTypes
  <2> DEFINE t == loop[w].turn
  <2>7. t \in 0 .. MaxTurns /\ t < MaxTurns
    BY <2>1 DEF Loops
  <2> HIDE DEF t
  <2>8. t \in Nat /\ t + 1 \in 1 .. MaxTurns
    BY <2>7
  <2>2. loop[w].turn \in Nat /\ loop[w].turn + 1 \in 1 .. MaxTurns
    BY <2>8 DEF t
  <2>3. l.turn = loop[w].turn + 1 /\ l.calls = loop[w].calls /\ l.answered = loop[w].answered
    BY <2>1 DEF Loops
  <2>4. loop[w].turn + 1 \in 0 .. MaxTurns
    BY <2>2
  <2>5. l = [loop[w] EXCEPT !.turn = loop[w].turn + 1]
    OBVIOUS
  <2>6. l \in Loops
    BY <2>1, <2>4, <2>5, TurnSet
  <2> QED
    BY <2>2, <2>3, <2>6
<1>3. approvals[w] = NoApprovals /\ loop[w].calls = loop[w].answered /\ req[w] \in 0 .. MaxRequests
  BY <1>1 DEF WorkerOK, LocalTypes
<1>4. InFlight(w) \/ spent < cap
  BY <1>1 DEF NextTurn, MayCall, InFlight
<1>5. loop'[w] = l /\ phase'[w] = "call" /\ req'[w] = req[w] /\ opened' = opened /\ approvals' = approvals
  BY <1>1 DEF WorkerInv, WorkerTypeOK, hitl
<1> HIDE DEF l
<1>6. WorkerOK(w)'
  BY <1>1, <1>2, <1>3, <1>5 DEF WorkerOK, NoApprovals
<1> QED
  BY <1>1, <1>2, <1>3, <1>4, <1>6, Local DEF WorkerInv, WorkerTypeOK

LEMMA OverBudgetIInv == ASSUME WorkerInv, NEW w \in Workers, OverBudget(w) PROVE WorkerInv'
  BY OnlyReturns DEF OverBudget, files, money, hitl, history, WorkerInv, WorkerTypeOK

LEMMA ModelFailsIInv == ASSUME WorkerInv, NEW w \in Workers, ModelFails(w) PROVE WorkerInv'
  BY OnlyReturns DEF ModelFails, files, money, hitl, history, WorkerInv, WorkerTypeOK

LEMMA BadAnswerIInv == ASSUME WorkerInv, NEW w \in Workers, BadAnswer(w) PROVE WorkerInv'
  BY OnlyReturns DEF BadAnswer, files, money, hitl, history, WorkerInv, WorkerTypeOK

LEMMA PauseIInv == ASSUME WorkerInv, NEW w \in Workers, PausesStep(w) PROVE WorkerInv'
  BY OnlyReturns DEF PausesStep, files, money, history, WorkerInv, WorkerTypeOK

LEMMA CrashIInv == ASSUME WorkerInv, NEW w \in Workers, CrashWorker(w) PROVE WorkerInv'
  BY OnlyReturns DEF CrashWorker, KillWorker, money, hitl, history, WorkerInv, WorkerTypeOK

LEMMA WriteResultIInv == ASSUME WorkerInv, NEW w \in Workers, WriteResult(w) PROVE WorkerInv'
<1>1. /\ Leave(w) /\ hasResult' \in [ToolSteps -> BOOLEAN]
      /\ UNCHANGED <<saved, spent, cap, opened, shown, answers, paused, executed, tries, kills>>
  BY DEF WriteResult, money, hitl, history, WorkerInv, WorkerTypeOK
<1>2. Keeps
  BY <1>1, HitlStays DEF WorkerInv, hitl
<1>3. (\A s \in ToolSteps : SaveOK(saved[s]))'
  BY <1>1, <1>2, KeptSaves DEF WorkerInv, WorkerTypeOK
<1> QED
  BY <1>1, <1>2, <1>3, Returns DEF WorkerInv, WorkerTypeOK

LEMMA CrashInSaveIInv == ASSUME WorkerInv, NEW w \in Workers, CrashInSaveLoop(w) PROVE WorkerInv'
<1>1. /\ Leave(w) /\ saved' = [saved EXCEPT ![StepOf[w]] = TornSave] /\ kills' \in 0 .. MaxWorkerKills
      /\ UNCHANGED <<hasResult, spent, cap, opened, shown, answers, paused, executed, tries>>
  BY DEF CrashInSaveLoop, KillWorker, money, hitl, history, WorkerInv, WorkerTypeOK
<1>2. Keeps
  BY <1>1, HitlStays DEF WorkerInv, hitl
<1>3. TornSave \in Saves /\ TornSave.req = -1
  BY FreshOK DEF TornSave, NoSave, Saves
<1>4. (\A s \in ToolSteps : SaveOK(saved[s]))'
  <2> SUFFICES ASSUME NEW s \in ToolSteps PROVE SaveOK(saved[s])'
    OBVIOUS
  <2>1. CASE s = StepOf[w]
    BY <1>1, <1>3, <2>1 DEF SaveOK, WorkerInv, WorkerTypeOK
  <2>2. CASE s # StepOf[w]
    BY <1>1, <1>2, <2>2, KeptSaves DEF WorkerInv, WorkerTypeOK
  <2> QED
    BY <2>1, <2>2
<1> QED
  BY <1>1, <1>2, <1>3, <1>4, Returns DEF WorkerInv, WorkerTypeOK

LEMMA FinishIInv == ASSUME WorkerInv, NEW w \in Workers, Finish(w) PROVE WorkerInv'
<1>1. /\ WorkerOK(w) /\ LocalTypes(w) /\ phase[w] = "final" /\ phase' = [phase EXCEPT ![w] = "write"]
      /\ req' = [req EXCEPT ![w] = req[w]] /\ loop' = [loop EXCEPT ![w] = loop[w]]
      /\ UNCHANGED <<hasResult, money, hitl, history, approvals, kills>>
  BY Typed DEF WorkerInv, WorkerTypeOK, Finish, Goes
<1>2. NoSave \in Saves
  BY FreshOK DEF NoSave, Saves
<1>3. /\ saved' \in [ToolSteps -> Saves] /\ \A s \in ToolSteps : saved'[s] = saved[s] \/ saved'[s] = NoSave
  BY <1>2 DEF Finish, WorkerInv, WorkerTypeOK
<1>4. WorkerOK(w)'
  BY <1>1 DEF WorkerOK, hitl, LocalTypes, WorkerInv, WorkerTypeOK
<1>5. ~InFlight(w)'
  BY <1>1 DEF InFlight, WorkerInv, WorkerTypeOK
<1> QED
  BY <1>1, <1>3, <1>4, <1>5, Local DEF LocalTypes, WorkerOK, WorkerInv, WorkerTypeOK

LEMMA SaveLoopIInv == ASSUME WorkerInv, NEW w \in Workers, SaveLoop(w) PROVE WorkerInv'
<1> DEFINE t == [req |-> req[w], pending |-> Undecided(w), state |-> loop[w]]
<1>1. /\ WorkerOK(w) /\ LocalTypes(w) /\ phase[w] = "save" /\ phase' = [phase EXCEPT ![w] = "asked"]
      /\ saved' = [saved EXCEPT ![StepOf[w]] = t]
      /\ UNCHANGED <<hasResult, money, hitl, loop, approvals, req, history, kills>>
  BY Typed DEF WorkerInv, WorkerTypeOK, SaveLoop, Goes
<1>2. AsksFor(req[w], loop[w]) /\ approvals[w] = NoApprovals
  BY <1>1 DEF WorkerOK
<1>3. Undecided(w) = ActsOf(loop[w].batch) /\ Undecided(w) \in SUBSET Act
  BY <1>2, NoApprovalsOK DEF Undecided, ActsOf
<1>4. t \in Saves
  BY <1>1, <1>3 DEF LocalTypes, Saves
<1>5. WorkerTypeOK'
  <2> HIDE DEF t
  <2> QED
    BY <1>1, <1>4 DEF WorkerInv, WorkerTypeOK, money, hitl, history
<1>6. Keeps
  BY <1>1, HitlStays DEF WorkerInv
<1>7. \A v \in Workers \ {w} : Unmoved(v)
  BY <1>1 DEF WorkerInv, WorkerTypeOK, Unmoved
<1>8. \A s \in ToolSteps : SaveOK(saved[s])'
  <2> SUFFICES ASSUME NEW s \in ToolSteps PROVE SaveOK(saved[s])'
    OBVIOUS
  <2>1. CASE s = StepOf[w]
    <3>1. saved'[s] = t
      BY <1>1, <2>1 DEF WorkerInv, WorkerTypeOK
    <3>2. saved'[s].req = req[w] /\ saved'[s].pending = Undecided(w) /\ saved'[s].state = loop[w]
      BY <3>1
    <3>3. opened' = opened /\ shown' = shown
      BY <1>1 DEF hitl
    <3>4. AsksFor(saved[s].req, saved[s].state)'
      BY <1>2, <3>2, <3>3 DEF AsksFor, ActsOf, WorkOK
    <3> QED
      BY <1>3, <3>2, <3>4 DEF SaveOK, ActsOf
  <2>2. CASE s # StepOf[w]
    BY <1>1, <1>5, <1>6, <2>2, KeptSaves DEF WorkerInv, WorkerTypeOK
  <2> QED
    BY <2>1, <2>2
<1>9. WorkerOK(w)'
  <2>1. loop[w].answered <= MaxCalls
    BY <1>1, <1>2 DEF AsksFor, WorkOK, LocalTypes, Loops
  <2> QED
    BY <1>1, <1>2, <2>1 DEF WorkerOK, hitl, LocalTypes, WorkerInv, WorkerTypeOK
<1>10. ~InFlight(w)'
  BY <1>1 DEF InFlight, WorkerInv, WorkerTypeOK
<1> QED
  BY <1>1, <1>5, <1>6, <1>7, <1>8, <1>9, <1>10, QuietStep DEF money, history

LEMMA AskIInv == ASSUME WorkerInv, NEW w \in Workers, Ask(w) PROVE WorkerInv'
<1>1. /\ WorkerOK(w) /\ LocalTypes(w) /\ phase[w] = "act" /\ loop[w].at = 1 /\ Undecided(w) # {}
      /\ opened < MaxRequests /\ opened' = opened + 1
      /\ shown' = [shown EXCEPT ![opened + 1] = Undecided(w)]
      /\ req' = [req EXCEPT ![w] = opened + 1] /\ phase' = [phase EXCEPT ![w] = "save"]
      /\ UNCHANGED <<hasResult, saved, money, answers, paused, loop, approvals, history, kills>>
  BY Typed DEF WorkerInv, Ask, Goes, Show, files
<1>2. WorkOK(loop[w]) /\ DecisionsOK(w)
  BY <1>1 DEF WorkerOK
<1>3. approvals[w] = NoApprovals
  BY <1>1, <1>2 DEF DecisionsOK
<1>4. Undecided(w) = ActsOf(loop[w].batch) /\ Undecided(w) \in SUBSET Act
  BY <1>3, NoApprovalsOK DEF Undecided, ActsOf
<1>5. opened \in Nat /\ opened + 1 \in Requests /\ opened' \in 0 .. MaxRequests
  BY <1>1 DEF WorkerInv, WorkerTypeOK, Requests
<1>6. WorkerTypeOK'
  BY <1>1, <1>4, <1>5 DEF WorkerInv, WorkerTypeOK, money, history, Requests
<1>7. Keeps
  <2>1. \A r : Approves(r)' <=> Approves(r)
    BY <1>1 DEF Approves
  <2>2. \A r \in 1 .. opened : shown'[r] = shown[r]
    BY <1>1, <1>5 DEF WorkerInv, WorkerTypeOK, Requests
  <2> QED
    BY <1>1, <1>5, <2>1, <2>2 DEF Keeps
<1>8. \A v \in Workers \ {w} : Unmoved(v)
  BY <1>1 DEF WorkerInv, WorkerTypeOK, Unmoved
<1>9. (\A s \in ToolSteps : SaveOK(saved[s]))'
  BY <1>1, <1>5, <1>7, KeptSaves
<1>10. WorkerOK(w)'
  <2>1. phase'[w] = "save" /\ loop' = loop /\ req'[w] = opened + 1 /\ approvals' = approvals
    BY <1>1 DEF WorkerInv, WorkerTypeOK
  <2>2. shown'[opened + 1] = Undecided(w)
    BY <1>1, <1>5 DEF WorkerInv, WorkerTypeOK
  <2>3. AsksFor(req[w], loop[w])'
    BY <1>1, <1>2, <1>4, <1>5, <2>1, <2>2 DEF AsksFor, ActsOf, WorkOK
  <2> QED
    BY <1>1, <1>3, <1>5, <2>1, <2>3 DEF WorkerOK, NoApprovals
<1>11. ~InFlight(w)'
  BY <1>1 DEF InFlight, WorkerInv, WorkerTypeOK
<1> QED
  BY <1>1, <1>3, <1>6, <1>7, <1>8, <1>9, <1>10, <1>11, QuietStep DEF money, history

LEMMA RaiseCapIInv == ASSUME WorkerInv, RaiseCap PROVE WorkerInv'
<1>1. /\ cap < MaxCap /\ cap' = MaxCap
      /\ UNCHANGED <<hasResult, saved, spent, hitl, phase, loop, approvals, req, executed, tries, kills>>
  BY DEF RaiseCap, files, inMemory, history
<1>2. WorkerTypeOK'
  BY <1>1 DEF WorkerInv, WorkerTypeOK, hitl
<1>3. Keeps
  BY <1>1, HitlStays DEF WorkerInv
<1>4. (\A s \in ToolSteps : SaveOK(saved[s]))' /\ opened' \in 0 .. MaxRequests
  BY <1>1, <1>2, <1>3, KeptSaves DEF WorkerTypeOK
<1>5. \A v \in Workers : WorkerOK(v)'
  BY <1>1, <1>3, <1>4, UnmovedOK DEF Unmoved
<1>6. \A r \in Requests, a \in Act : Holders(r, a)' \subseteq Holders(r, a)
  BY <1>1 DEF Holders
<1>7. SpentOK'
  <2>1. Checked' \subseteq Checked
    BY <1>1 DEF Checked, InFlight
  <2> QED
    BY <1>1, <2>1, SpentStays DEF WorkerInv, WorkerTypeOK
<1> QED
  BY <1>1, <1>2, <1>3, <1>4, <1>5, <1>6, <1>7, Quiet

\* Answers are added to requests that nobody takes up in this step.
LEMMA Answered ==
  ASSUME WorkerInv, Keeps, answers' \in [Requests -> Seq(Responses)], paused' \in 0 .. MaxRequests,
         UNCHANGED <<hasResult, saved, spent, cap, opened, shown, phase, loop, approvals, req, executed, tries, kills>>
  PROVE  WorkerInv'
<1>1. WorkerTypeOK'
  BY DEF WorkerInv, WorkerTypeOK
<1>2. (\A s \in ToolSteps : SaveOK(saved[s]))' /\ opened' \in 0 .. MaxRequests
  BY <1>1, KeptSaves DEF WorkerTypeOK
<1>3. \A v \in Workers : WorkerOK(v)'
  BY <1>2, UnmovedOK DEF Unmoved
<1>4. \A r \in Requests, a \in Act : Holders(r, a)' \subseteq Holders(r, a)
  BY DEF Holders
<1>5. SpentOK'
  <2>1. Checked' \subseteq Checked
    BY DEF Checked, InFlight
  <2> QED
    BY <2>1, SpentStays DEF WorkerInv, WorkerTypeOK
<1> QED
  BY <1>1, <1>2, <1>3, <1>4, <1>5, Quiet

LEMMA DecideIInv == ASSUME WorkerInv, NEW r \in Requests, NEW d \in Responses, Decide(r, d) PROVE WorkerInv'
<1>1. /\ r <= opened /\ answers' = [answers EXCEPT ![r] = Append(answers[r], d)]
      /\ UNCHANGED <<hasResult, saved, spent, cap, opened, shown, paused, phase, loop,
                      approvals, req, executed, tries, kills>>
  BY DEF Decide, files, money, inMemory, history
<1>2. answers[r] \in Seq(Responses) /\ answers \in [Requests -> Seq(Responses)]
  BY DEF WorkerInv, WorkerTypeOK
<1>3. answers' \in [Requests -> Seq(Responses)] /\ answers'[r] = Append(answers[r], d)
  BY <1>1, <1>2
<1>4. answers'[r] # <<>> /\ (Approves(r) => Approves(r)')
  <2>1. Len(answers'[r]) = Len(answers[r]) + 1 /\ Len(answers[r]) \in Nat
    BY <1>2, <1>3
  <2>2. \A i \in 1 .. Len(answers[r]) : answers'[r][i] = answers[r][i]
    BY <1>2, <1>3
  <2>3. DOMAIN answers[r] = 1 .. Len(answers[r]) /\ DOMAIN answers'[r] = 1 .. Len(answers'[r])
    BY <1>2, <1>3
  <2> QED
    BY <2>1, <2>2, <2>3 DEF Approves
<1>5. \A q \in Requests \ {r} : answers'[q] = answers[q] /\ (Approves(q) => Approves(q)')
  BY <1>1, <1>2 DEF Approves
<1>6. Keeps
  <2>1. opened' = opened /\ shown' = shown /\ opened \in 0 .. MaxRequests /\ 1 .. opened \subseteq Requests
    BY <1>1 DEF WorkerInv, WorkerTypeOK, Requests
  <2> QED
    BY <2>1, <1>4, <1>5 DEF Keeps
<1> QED
  BY <1>1, <1>3, <1>6, Answered DEF WorkerInv, WorkerTypeOK

LEMMA ResumeIInv == ASSUME WorkerInv, NEW d \in Responses, ResumeApproval(d) PROVE WorkerInv'
<1>1. /\ paused # 0 /\ paused' = 0
      /\ answers' = IF answers[paused] # <<>> THEN answers ELSE [answers EXCEPT ![paused] = <<d>>]
      /\ UNCHANGED <<hasResult, saved, spent, cap, opened, shown, phase, loop, approvals, req, executed, tries, kills>>
  BY DEF ResumeApproval, files, money, inMemory, history
<1>2. paused \in Requests /\ answers \in [Requests -> Seq(Responses)]
  BY <1>1 DEF WorkerInv, WorkerTypeOK, Requests
<1>3. answers' \in [Requests -> Seq(Responses)]
  BY <1>1, <1>2
<1>4. \A q \in Requests : answers[q] # <<>> => answers'[q] = answers[q]
  BY <1>1, <1>2
<1>5. \A q \in Requests : Approves(q) => answers[q] # <<>> /\ Approves(q)'
  BY <1>2, <1>4 DEF Approves
<1>6. Keeps
  <2>1. opened' = opened /\ shown' = shown /\ opened \in 0 .. MaxRequests /\ 1 .. opened \subseteq Requests
    BY <1>1 DEF WorkerInv, WorkerTypeOK, Requests
  <2> QED
    BY <2>1, <1>4, <1>5 DEF Keeps
<1>7. paused' \in 0 .. MaxRequests
  BY <1>1 DEF WorkerInv, WorkerTypeOK
<1> QED
  BY <1>1, <1>3, <1>6, <1>7, Answered

LEMMA TakeUpIInv == ASSUME WorkerInv, NEW w \in Workers, TakeUp(w) PROVE WorkerInv'
<1> DEFINE r == SaveOf(w).req
           l == SaveOf(w).state
           given == [a \in Act |-> IF a \in SaveOf(w).pending THEN LastAnswer(r) ELSE "none"]
<1>1. /\ WorkerOK(w) /\ LocalTypes(w) /\ phase[w] = "load" /\ phase' = [phase EXCEPT ![w] = "act"]
      /\ r > 0 /\ answers[r] # <<>>
      /\ req' = [req EXCEPT ![w] = r] /\ loop' = [loop EXCEPT ![w] = l]
      /\ approvals' = [approvals EXCEPT ![w] = given]
      /\ tries' = [tries EXCEPT ![r] = OnceMore(tries[r])]
      /\ UNCHANGED <<hasResult, saved, spent, cap, hitl, executed, kills>>
  BY Typed DEF WorkerInv, TakeUp, Goes, ResumeState, files, money
<1>2. SaveOf(w) \in Saves /\ SaveOK(SaveOf(w))
  BY DEF SaveOf, WorkerInv, WorkerTypeOK
<1>3. AsksFor(r, l) /\ SaveOf(w).pending = ActsOf(l.batch) /\ l \in Loops
  BY <1>1, <1>2 DEF SaveOK, Saves
<1>4. r \in Requests /\ r \in 0 .. MaxRequests /\ r \in 1 .. opened
  BY <1>3 DEF AsksFor, WorkerInv, WorkerTypeOK, Requests
<1>5. LastAnswer(r) \in {"approve", "reject"} /\ (LastAnswer(r) = "approve" => Approves(r))
  <2>1. answers[r] \in Seq(Responses)
    BY <1>4 DEF WorkerInv, WorkerTypeOK
  <2>2. Len(answers[r]) \in DOMAIN answers[r]
    BY <1>1, <2>1
  <2> QED
    BY <2>2 DEF LastAnswer, Approves
<1>6. given \in [Act -> {"none", "approve", "reject"}]
  BY <1>5
<1>7. \A a \in Act : given[a] = IF a \in ActsOf(l.batch) THEN LastAnswer(r) ELSE "none"
  BY <1>3
<1>8. approvals[w] = NoApprovals
  BY <1>1 DEF WorkerOK
<1> HIDE DEF r, l, given
<1>9. phase'[w] = "act" /\ req'[w] = r /\ loop'[w] = l /\ approvals'[w] = given
  BY <1>1 DEF WorkerInv, WorkerTypeOK
<1>10. WorkerTypeOK'
  <2>1. tries' \in [Requests -> 0 .. Often]
    BY <1>1, CountsOn DEF WorkerInv, WorkerTypeOK
  <2> QED
    BY <1>1, <1>3, <1>4, <1>6, <2>1 DEF WorkerInv, WorkerTypeOK, hitl
<1>11. Keeps
  BY <1>1, HitlStays DEF WorkerInv
<1>12. \A v \in Workers \ {w} : Unmoved(v)
  BY <1>1 DEF WorkerInv, WorkerTypeOK, Unmoved
<1>13. opened' \in 0 .. MaxRequests /\ opened' = opened /\ shown' = shown /\ answers' = answers
  BY <1>1, <1>10 DEF hitl, WorkerTypeOK
<1>14. (\A s \in ToolSteps : SaveOK(saved[s]))'
  BY <1>1, <1>11, <1>13, KeptSaves
<1>15. WorkerOK(w)'
  <2>1. Decided(w)'
    BY <1>1, <1>3, <1>4, <1>9, <1>13 DEF Decided, AsksFor, ActsOf
  <2>2. ActsOf(loop'[w].batch) = ActsOf(l.batch) /\ ToCome(loop[w])' = ToCome(l)
    BY <1>9 DEF ToCome
  <2>3. ActsOf(l.batch) \subseteq ToCome(l)
    <3>1. l.at = 1 /\ l.batch \in Seq(Calls)
      BY <1>3 DEF AsksFor, Loops
    <3>2. DOMAIN l.batch = l.at .. Len(l.batch)
      BY <3>1
    <3> QED
      BY <3>2 DEF ActsOf, ToCome
  <2>4. Undecided(w)' = {}
    BY <1>5, <1>7, <1>9 DEF Undecided, ActsOf
  <2>5. \A a \in Act : approvals'[w][a] # "none" => a \in ToCome(loop[w])' /\ Decided(w)'
    BY <1>7, <1>9, <2>1, <2>2, <2>3
  <2>6. \A a \in Act : approvals'[w][a] = "approve" => Approves(req[w])'
    BY <1>5, <1>7, <1>9, <1>13 DEF Approves
  <2>7. loop'[w].at = 1
    BY <1>3, <1>9 DEF AsksFor
  <2>8. DecisionsOK(w)'
    BY <2>4, <2>5, <2>6, <2>7 DEF DecisionsOK
  <2>9. WorkOK(loop[w])'
    BY <1>3, <1>9 DEF AsksFor, WorkOK
  <2> QED
    BY <1>4, <1>9, <1>13, <2>8, <2>9 DEF WorkerOK
<1>16. \A v \in Workers : WorkerOK(v)'
  BY <1>11, <1>12, <1>13, <1>15, UnmovedOK
<1>17. UsesOK'
  <2> SUFFICES ASSUME NEW q \in Requests, NEW a \in Act, tries'[q] < Often
               PROVE  executed'[q][a] + Cardinality(Holders(q, a)') <= tries'[q]
    BY DEF UsesOK, Holders
  <2>1. executed' = executed /\ executed[q][a] \in Nat /\ tries[q] \in Nat
    BY <1>1 DEF WorkerInv, WorkerTypeOK
  <2>2. IsFiniteSet(Holders(q, a)) /\ IsFiniteSet(Holders(q, a) \union {w})
    BY FS_Subset, FS_AddElement DEF Holders
  <2>3. CASE q = r
    <3>1. tries'[q] = tries[q] + 1 /\ tries[q] < Often
      <4>1. tries'[q] = OnceMore(tries[q]) /\ tries[q] \in 0 .. Often
        BY <1>1, <1>4, <2>3 DEF WorkerInv, WorkerTypeOK
      <4> QED
        BY <4>1, CountsOn
    <3>2. Holders(q, a)' \subseteq Holders(q, a) \union {w}
      BY <1>12 DEF Holders, Unmoved
    <3>3. Cardinality(Holders(q, a)') <= Cardinality(Holders(q, a)) + 1
      <4>1. /\ Cardinality(Holders(q, a)') \in Nat /\ Cardinality(Holders(q, a) \union {w}) \in Nat
            /\ Cardinality(Holders(q, a)') <= Cardinality(Holders(q, a) \union {w})
        BY <2>2, <3>2, Subsets
      <4>2. Cardinality(Holders(q, a)) \in Nat
        BY <2>2, FS_CardinalityType
      <4>3. Cardinality(Holders(q, a) \union {w}) <= Cardinality(Holders(q, a)) + 1
        BY <2>2, <4>2, FS_AddElement
      <4> QED
        BY <4>1, <4>2, <4>3
    <3>4. executed[q][a] + Cardinality(Holders(q, a)) <= tries[q]
      BY <3>1 DEF WorkerInv, UsesOK
    <3>5. Cardinality(Holders(q, a)') \in Nat /\ Cardinality(Holders(q, a)) \in Nat
      BY <2>2, <3>2, Subsets
    <3> QED
      BY <2>1, <3>1, <3>3, <3>4, <3>5
  <2>4. CASE q # r
    <3>1. tries'[q] = tries[q]
      BY <1>1, <2>4 DEF WorkerInv, WorkerTypeOK
    <3>2. Holders(q, a)' \subseteq Holders(q, a)
      BY <1>9, <1>12, <2>4 DEF Holders, Unmoved
    <3>3. executed[q][a] + Cardinality(Holders(q, a)) <= tries[q]
      BY <3>1 DEF WorkerInv, UsesOK
    <3>4. /\ Cardinality(Holders(q, a)') \in Nat /\ Cardinality(Holders(q, a)) \in Nat
          /\ Cardinality(Holders(q, a)') <= Cardinality(Holders(q, a))
      BY <2>2, <3>2, Subsets
    <3> QED
      BY <2>1, <3>1, <3>3, <3>4
  <2> QED
    BY <2>3, <2>4
<1>18. SpentOK'
  <2>1. ~InFlight(w)'
    BY <1>9 DEF InFlight
  <2>2. Checked' \subseteq Checked
    BY <1>12, <2>1 DEF Checked, InFlight, Unmoved
  <2> QED
    BY <1>1, <2>2, SpentStays DEF WorkerInv, WorkerTypeOK
<1>19. ActNeedsApproval' /\ (\A q \in Requests : q > opened => \A a \in Act : executed[q][a] = 0)'
  BY <1>1, <1>13 DEF ActNeedsApproval, Approves, WorkerInv
<1> QED
  BY <1>10, <1>14, <1>16, <1>17, <1>18, <1>19 DEF WorkerInv

LEMMA RespondIInv ==
  ASSUME WorkerInv, NEW w \in Workers, NEW batch \in Batches, NEW cost \in 1 .. MaxCost,
         Respond(w, batch, cost)
  PROVE  WorkerInv'
<1>1. /\ WorkerOK(w) /\ LocalTypes(w) /\ phase[w] = "call" /\ spent' = spent + cost
      /\ UNCHANGED <<hasResult, saved, cap, hitl, executed, tries, kills>>
  BY Typed DEF WorkerInv, Respond, files, history
<1>2. batch \in Seq(Calls) /\ Len(batch) \in Nat /\ Len(batch) <= MaxBatch
  BY BatchOK
<1>3. /\ loop[w] \in Loops /\ loop[w].turn >= 1 /\ loop[w].calls = loop[w].answered
      /\ approvals[w] = NoApprovals /\ req[w] <= opened
  BY <1>1 DEF WorkerOK, LocalTypes
<1>4. Keeps
  BY <1>1, HitlStays DEF WorkerInv
<1>5. spent' \in Nat /\ opened' = opened /\ opened \in 0 .. MaxRequests
  BY <1>1 DEF WorkerInv, WorkerTypeOK, hitl
<1>6. \/ phase' = [phase EXCEPT ![w] = "final"] /\ UNCHANGED <<loop, approvals, req>>
      \/ Leave(w)
      \/ /\ batch # <<>> /\ ~TooMuch(w, batch)
         /\ loop' = [loop EXCEPT ![w] = [loop[w] EXCEPT !.batch = batch, !.at = 1]]
         /\ phase' = [phase EXCEPT ![w] = "act"] /\ UNCHANGED <<approvals, req>>
  BY <1>1 DEF Respond, Goes, LocalTypes, WorkerInv, WorkerTypeOK
<1>7. /\ WorkerTypeOK' /\ (\A v \in Workers \ {w} : Unmoved(v)) /\ WorkerOK(w)'
      /\ phase'[w] \in {"final", "idle", "act"}
      /\ (approvals'[w] = NoApprovals \/ (approvals' = approvals /\ req' = req))
  <2>1. CASE phase' = [phase EXCEPT ![w] = "final"] /\ UNCHANGED <<loop, approvals, req>>
    <3>1. WorkerTypeOK'
      BY <1>1, <1>5, <2>1 DEF WorkerInv, WorkerTypeOK, hitl
    <3>2. \A v \in Workers \ {w} : Unmoved(v)
      BY <2>1 DEF WorkerInv, WorkerTypeOK, Unmoved
    <3>3. WorkerOK(w)' /\ phase'[w] = "final"
      BY <1>1, <1>3, <1>5, <2>1 DEF WorkerOK, WorkerInv, WorkerTypeOK
    <3> QED
      BY <2>1, <3>1, <3>2, <3>3
  <2>2. CASE Leave(w)
    <3>1. /\ phase' = [phase EXCEPT ![w] = "idle"] /\ loop' = [loop EXCEPT ![w] = Fresh]
          /\ approvals' = [approvals EXCEPT ![w] = NoApprovals] /\ req' = [req EXCEPT ![w] = 0]
      BY <2>2 DEF Leave, Goes
    <3>2. WorkerTypeOK'
      BY <1>1, <1>5, <3>1, FreshOK, NoApprovalsOK DEF WorkerInv, WorkerTypeOK, hitl
    <3>3. \A v \in Workers \ {w} : Unmoved(v)
      BY <3>1 DEF WorkerInv, WorkerTypeOK, Unmoved
    <3>4. phase'[w] = "idle" /\ loop'[w] = Fresh /\ approvals'[w] = NoApprovals /\ req'[w] = 0
      BY <3>1 DEF WorkerInv, WorkerTypeOK
    <3>5. WorkerOK(w)'
      BY <1>5, <3>4 DEF WorkerOK, NoApprovals
    <3> QED
      BY <3>2, <3>3, <3>4, <3>5
  <2>3. CASE /\ batch # <<>> /\ ~TooMuch(w, batch)
             /\ loop' = [loop EXCEPT ![w] = [loop[w] EXCEPT !.batch = batch, !.at = 1]]
             /\ phase' = [phase EXCEPT ![w] = "act"] /\ UNCHANGED <<approvals, req>>
    <3> DEFINE l == [loop[w] EXCEPT !.batch = batch, !.at = 1]
    <3>1. /\ l \in Loops /\ l.batch = batch /\ l.at = 1
          /\ l.turn = loop[w].turn /\ l.calls = loop[w].calls /\ l.answered = loop[w].answered
      BY <1>2, <1>3, BatchSet
    <3> HIDE DEF l
    <3>2. loop' = [loop EXCEPT ![w] = l]
      BY <2>3 DEF l
    <3>3. WorkerTypeOK'
      <4>1. /\ phase' = [phase EXCEPT ![w] = "act"] /\ loop' \in [Workers -> Loops]
            /\ approvals' = approvals /\ req' = req
        BY <2>3, <3>1, <3>2 DEF WorkerInv, WorkerTypeOK
      <4> QED
        BY <1>1, <1>5, <4>1 DEF WorkerInv, WorkerTypeOK, hitl
    <3>4. \A v \in Workers \ {w} : Unmoved(v)
      BY <2>3, <3>2 DEF WorkerInv, WorkerTypeOK, Unmoved
    <3>5. /\ phase'[w] = "act" /\ loop'[w] = l /\ approvals'[w] = NoApprovals /\ req'[w] = req[w]
      BY <1>3, <2>3, <3>2 DEF WorkerInv, WorkerTypeOK
    <3>6. WorkOK(loop[w])'
      <4>1. loop[w].turn \in Nat /\ loop[w].calls \in Nat /\ Len(batch) >= 1
        BY <1>2, <1>3, <2>3 DEF Loops
      <4>2. l.turn \in 1 .. MaxTurns - 1 /\ l.answered + Len(l.batch) <= MaxCalls
        <5>1. ~(loop[w].turn >= MaxTurns) /\ ~(loop[w].calls + Len(batch) > MaxCalls)
          BY <2>3 DEF TooMuch
        <5> QED
          BY <1>2, <1>3, <3>1, <4>1, <5>1
      <4>3. l.calls = l.answered + l.at - 1 /\ l.at <= Len(l.batch) /\ Len(l.batch) <= MaxBatch
        BY <1>2, <1>3, <3>1, <4>1
      <4> QED
        BY <3>5, <4>2, <4>3 DEF WorkOK
    <3>7. DecisionsOK(w)'
      BY <3>1, <3>5, NoApprovalsOK DEF DecisionsOK, NoApprovals
    <3>8. WorkerOK(w)'
      BY <1>3, <1>5, <3>5, <3>6, <3>7 DEF WorkerOK
    <3> QED
      BY <2>3, <3>3, <3>4, <3>5, <3>8
  <2> QED
    BY <1>6, <2>1, <2>2, <2>3
<1>8. (\A s \in ToolSteps : SaveOK(saved[s]))'
  BY <1>1, <1>4, <1>5, KeptSaves
<1>9. \A v \in Workers : WorkerOK(v)'
  BY <1>4, <1>5, <1>7, UnmovedOK
<1>10. \A r \in Requests, a \in Act : Holders(r, a)' \subseteq Holders(r, a)
  BY <1>7 DEF Holders, Unmoved, NoApprovals
<1>11. SpentOK'
  <2> DEFINE n == Cardinality(Workers)
             k == Cardinality(Checked)
             m == Cardinality(Checked')
  <2>1. w \in Checked /\ Checked \subseteq Workers /\ w \notin Checked'
    BY <1>1, <1>7 DEF Checked, InFlight
  <2>2. Checked' \subseteq Checked \ {w}
    BY <1>7, <2>1 DEF Checked, InFlight, Unmoved
  <2>3. IsFiniteSet(Checked) /\ IsFiniteSet(Checked \ {w}) /\ Cardinality(Checked \ {w}) = k - 1
    BY <2>1, FS_Subset, FS_RemoveElement
  <2>4. k \in Nat /\ m \in Nat /\ n \in Nat /\ m <= k - 1
    BY <2>2, <2>3, Subsets, FS_CardinalityType
  <2>5. spent + MaxCost * k < cap + MaxCost * n /\ spent \in Nat /\ cap \in Nat /\ cap' = cap
    BY <1>1 DEF WorkerInv, WorkerTypeOK, SpentOK
  <2> HIDE DEF n, k, m
  <2>6. MaxCost * (m + 1) <= MaxCost * k /\ MaxCost * (m + 1) = MaxCost * m + MaxCost
    BY <2>4, MoreCosts
  <2>7. MaxCost * k \in Nat /\ MaxCost * n \in Nat /\ MaxCost * m \in Nat /\ MaxCost \in Nat
    BY <2>4, MoreCosts
  <2>8. spent' + MaxCost * m < cap' + MaxCost * n
    BY <1>1, <2>5, <2>6, <2>7
  <2> QED
    BY <2>8 DEF SpentOK, n, m
<1> QED
  BY <1>1, <1>4, <1>7, <1>8, <1>9, <1>10, <1>11, Quiet

\* No call of a batch runs before the act calls of the batch were shown and answered.
LEMMA BatchDecided ==
  ASSUME WorkerInv, NEW w \in Workers, Execute(w), ActsOf(loop[w].batch) # {} PROVE Decided(w)
<1>1. /\ DecisionsOK(w) /\ (loop[w].at = 1 => Undecided(w) = {}) /\ loop[w].at \in 1 .. MaxBatch
  BY DEF Execute, WorkerInv, WorkerOK, WorkerTypeOK, Loops
<1>2. CASE loop[w].at = 1
  <2>1. PICK a \in ActsOf(loop[w].batch) : TRUE
    OBVIOUS
  <2>2. a \in Act /\ approvals[w][a] # "none"
    BY <1>1, <1>2, <2>1 DEF Undecided, ActsOf
  <2> QED
    BY <1>1, <2>2 DEF DecisionsOK
<1>3. CASE loop[w].at > 1
  BY <1>1, <1>3 DEF DecisionsOK
<1> QED
  BY <1>1, <1>2, <1>3

LEMMA ExecuteIInv == ASSUME WorkerInv, NEW w \in Workers, Execute(w) PROVE WorkerInv'
<1> DEFINE b == loop[w].batch
           i == loop[w].at
           call == b[i]
           r == req[w]
           used == [a \in Act |-> IF a = call THEN "none" ELSE approvals[w][a]]
           runs == call \in Act /\ approvals[w][call] = "approve"
           next == [loop[w] EXCEPT !.calls = loop[w].calls + 1, !.at = i + 1]
           turn == [Fresh EXCEPT !.turn = loop[w].turn, !.calls = loop[w].calls + 1,
                                 !.answered = loop[w].answered + Len(b)]
<1>1. /\ WorkerOK(w) /\ LocalTypes(w) /\ phase[w] = "act" /\ (i = 1 => Undecided(w) = {})
      /\ executed' = IF runs THEN [executed EXCEPT ![r][call] = OnceMore(executed[r][call])] ELSE executed
      /\ approvals' = [approvals EXCEPT ![w] = used]
      /\ UNCHANGED <<hasResult, saved, spent, cap, hitl, req, tries, kills>>
  BY Typed DEF WorkerInv, Execute, UsedUp, files, money, LocalTypes, WorkerTypeOK
<1>2. \/ /\ i = Len(b) /\ loop' = [loop EXCEPT ![w] = turn] /\ phase' = [phase EXCEPT ![w] = "turn"]
      \/ /\ i # Len(b) /\ loop' = [loop EXCEPT ![w] = next] /\ phase' = phase
  BY DEF Execute, Goes, WorkerInv, WorkerTypeOK
<1>3. /\ WorkOK(loop[w]) /\ DecisionsOK(w) /\ loop[w] \in Loops /\ r <= opened /\ r \in 0 .. MaxRequests
      /\ approvals[w] \in [Act -> {"none", "approve", "reject"}]
  BY <1>1 DEF WorkerOK, LocalTypes
<1>4. /\ b \in Seq(Calls) /\ Len(b) \in Nat /\ i \in 1 .. Len(b) /\ Len(b) <= MaxBatch
      /\ loop[w].calls \in Nat /\ loop[w].answered \in Nat /\ loop[w].turn \in 1 .. MaxTurns - 1
      /\ loop[w].calls = loop[w].answered + i - 1 /\ loop[w].answered + Len(b) <= MaxCalls
  BY <1>3 DEF WorkOK, Loops
<1>5. used \in [Act -> {"none", "approve", "reject"}]
  BY <1>3
<1> DEFINE more == loop[w].calls + 1
           all == loop[w].answered + Len(b)
<1>20. /\ more \in 0 .. MaxCalls /\ all \in Nat /\ more = loop[w].answered + (i + 1) - 1
       /\ i = Len(b) => more = all
       /\ i # Len(b) => i + 1 \in 1 .. MaxBatch /\ i + 1 <= Len(b)
  <2> DEFINE n == Len(b)
             c == loop[w].calls
             m == loop[w].answered
  <2>1. /\ n \in Nat /\ i \in 1 .. n /\ n <= MaxBatch /\ c \in Nat /\ m \in Nat
        /\ c = m + i - 1 /\ m + n <= MaxCalls
    BY <1>4
  <2> HIDE DEF n, c, m, i
  <2>2. /\ c + 1 \in 0 .. MaxCalls /\ m + n \in Nat /\ c + 1 = m + (i + 1) - 1
        /\ i = n => c + 1 = m + n
        /\ i # n => i + 1 \in 1 .. MaxBatch /\ i + 1 <= n
    BY <2>1, CountsFit
  <2> QED
    BY <2>2 DEF n, c, m
<1>6. /\ turn \in Loops /\ turn.turn = loop[w].turn /\ turn.calls = loop[w].calls + 1
      /\ turn.answered = loop[w].answered + Len(b)
  <2> DEFINE t == loop[w].turn
  <2>1. t \in 0 .. MaxTurns
    BY <1>4
  <2>2. more \in 0 .. MaxCalls /\ all \in Nat
    BY <1>20
  <2> HIDE DEF t, more, all
  <2>3. LET k == [Fresh EXCEPT !.turn = t, !.calls = more, !.answered = all]
        IN  k \in Loops /\ k.turn = t /\ k.calls = more /\ k.answered = all
    BY <2>1, <2>2, FreshOK DEF Fresh, Loops
  <2> QED
    BY <2>3 DEF t, more, all
<1>7. i # Len(b) => /\ next \in Loops /\ next.calls = loop[w].calls + 1 /\ next.at = i + 1
                    /\ next.batch = b /\ next.turn = loop[w].turn /\ next.answered = loop[w].answered
  <2>1. i # Len(b) => more \in 0 .. MaxCalls /\ i + 1 \in 1 .. MaxBatch
    BY <1>20
  <2>2. loop[w] \in Loops
    BY <1>3
  <2> DEFINE l == loop[w]
             j == i + 1
  <2>3. i # Len(b) => j \in 1 .. MaxBatch
    BY <2>1
  <2> HIDE DEF more, j, l
  <2>4. i # Len(b) => [l EXCEPT !.calls = more] \in Loops
    BY <2>1, <2>2 DEF Loops, l
  <2>5. i # Len(b) => [[l EXCEPT !.calls = more] EXCEPT !.at = j] \in Loops
    BY <2>3, <2>4 DEF Loops
  <2>6. i # Len(b) =>
          LET k == [l EXCEPT !.calls = more, !.at = j]
          IN  /\ k \in Loops /\ k.calls = more /\ k.at = j /\ k.batch = l.batch
              /\ k.turn = l.turn /\ k.answered = l.answered
    BY <2>2, <2>5 DEF Loops, l
  <2> QED
    BY <2>6 DEF more, j, l
<1>8. runs => /\ r \in Requests /\ r \in 1 .. opened /\ call \in shown[r] /\ Approves(r)
  <2> SUFFICES ASSUME runs PROVE r \in Requests /\ r \in 1 .. opened /\ call \in shown[r] /\ Approves(r)
    OBVIOUS
  <2>1. Decided(w) /\ Approves(r)
    BY <1>3 DEF DecisionsOK
  <2>2. call \in ActsOf(b)
    BY <1>4, SMTT(30) DEF ActsOf
  <2> QED
    BY <1>3, <2>1, <2>2 DEF Decided, Requests, WorkerInv, WorkerTypeOK
<1>9. ActsOf(b) # {} => Decided(w)
  BY BatchDecided
<1> HIDE DEF next, turn, used
<1>10. WorkerTypeOK'
  <2>1. executed' \in [Requests -> [Act -> 0 .. Often]]
    <3>1. executed \in [Requests -> [Act -> 0 .. Often]]
      BY DEF WorkerInv, WorkerTypeOK
    <3>2. CASE runs
      <4>1. executed[r] \in [Act -> 0 .. Often] /\ executed[r][call] \in 0 .. Often
        BY <1>8, <3>1, <3>2
      <4>2. OnceMore(executed[r][call]) \in 0 .. Often
        BY <4>1, CountsOn, SMTT(30)
      <4>3. [executed[r] EXCEPT ![call] = OnceMore(executed[r][call])] \in [Act -> 0 .. Often]
        BY <4>1, <4>2
      <4> QED
        BY <1>1, <3>1, <3>2, <4>3
    <3>3. CASE ~runs
      BY <1>1, <3>1, <3>3
    <3> QED
      BY <3>2, <3>3
  <2>2. loop' \in [Workers -> Loops]
    BY <1>2, <1>6, <1>7 DEF WorkerInv, WorkerTypeOK
  <2>3. /\ phase' \in [Workers -> {"idle", "load", "turn", "call", "act", "save", "asked", "final", "write"}]
        /\ approvals' \in [Workers -> [Act -> {"none", "approve", "reject"}]]
    BY <1>1, <1>2, <1>5 DEF WorkerInv, WorkerTypeOK
  <2> QED
    BY <1>1, <2>1, <2>2, <2>3 DEF WorkerInv, WorkerTypeOK, hitl
<1>11. Keeps /\ opened' = opened /\ shown' = shown /\ answers' = answers /\ req' = req
  BY <1>1, HitlStays DEF WorkerInv, hitl
<1>12. \A v \in Workers \ {w} : Unmoved(v)
  BY <1>1, <1>2 DEF WorkerInv, WorkerTypeOK, Unmoved
<1>13. \A s \in ToolSteps : SaveOK(saved[s])'
  BY <1>1, <1>10, <1>11, KeptSaves DEF WorkerTypeOK
<1>14. approvals'[w] = used
  BY <1>1 DEF WorkerInv, WorkerTypeOK
<1>15. WorkerOK(w)'
  <2>1. CASE i = Len(b) /\ loop' = [loop EXCEPT ![w] = turn] /\ phase' = [phase EXCEPT ![w] = "turn"]
    <3>1. loop'[w] = turn /\ phase'[w] = "turn"
      BY <2>1 DEF WorkerInv, WorkerTypeOK
    <3>2. used = NoApprovals
      <4> SUFFICES ASSUME NEW a \in Act PROVE used[a] = "none"
        BY <1>5 DEF used, NoApprovals
      <4>1. approvals[w][a] # "none" => a \in ToCome(loop[w])
        BY <1>3 DEF DecisionsOK
      <4>2. ToCome(loop[w]) = {call}
        BY <1>4, <2>1 DEF ToCome
      <4> QED
        BY <4>1, <4>2 DEF used
    <3>3. turn.turn < MaxTurns /\ turn.calls = turn.answered
      BY <1>4, <1>6, <2>1
    <3> QED
      BY <1>3, <1>11, <1>14, <3>1, <3>2, <3>3 DEF WorkerOK, NoApprovals
  <2>2. CASE i # Len(b) /\ loop' = [loop EXCEPT ![w] = next] /\ phase' = phase
    <3>1. loop'[w] = next /\ phase'[w] = "act"
      BY <1>1, <2>2 DEF WorkerInv, WorkerTypeOK
    <3>2. WorkOK(next)
      BY <1>4, <1>7, <1>20, <2>2 DEF WorkOK
    <3>3. Decided(w)' = Decided(w)
      BY <1>7, <1>11, <2>2, <3>1 DEF Decided, ActsOf
    <3>4. ASSUME NEW a \in Act, used[a] # "none"
          PROVE  a \in ToCome(next) /\ Decided(w)
      <4>1. approvals[w][a] # "none" /\ a # call
        BY <3>4 DEF used
      <4>2. a \in ToCome(loop[w]) /\ Decided(w)
        BY <1>3, <4>1 DEF DecisionsOK
      <4>3. PICK j \in i .. Len(b) : b[j] = a
        BY <4>2 DEF ToCome
      <4>4. j \in i + 1 .. Len(b)
        BY <1>4, <4>1, <4>3, SMTT(30)
      <4> QED
        BY <1>7, <2>2, <4>2, <4>3, <4>4 DEF ToCome
    <3>5. \A a \in Act : used[a] = "approve" => Approves(r)
      BY <1>3 DEF used, DecisionsOK
    <3>6. next.at # 1 /\ ActsOf(next.batch) = ActsOf(b)
      BY <1>4, <1>7, <2>2
    <3>7. ToCome(loop[w])' = ToCome(next) /\ Approves(req[w])' = Approves(r)
      BY <1>11, <3>1 DEF ToCome, Approves
    <3>8. DecisionsOK(w)'
      BY <1>9, <1>14, <3>1, <3>3, <3>4, <3>5, <3>6, <3>7 DEF DecisionsOK, ActsOf
    <3>9. WorkOK(loop[w])'
      BY <3>1, <3>2 DEF WorkOK
    <3> QED
      BY <1>3, <1>11, <3>1, <3>8, <3>9 DEF WorkerOK
  <2> QED
    BY <1>2, <2>1, <2>2
<1>16. \A v \in Workers : WorkerOK(v)'
  BY <1>10, <1>11, <1>12, <1>15, UnmovedOK DEF WorkerTypeOK
<1>17. \A q \in Requests, a \in Act : Holders(q, a)' \subseteq Holders(q, a)
  BY <1>11, <1>12, <1>14 DEF Holders, Unmoved, used
<1>18. UsesOK'
  <2> SUFFICES ASSUME NEW q \in Requests, NEW a \in Act, tries[q] < Often
               PROVE  executed'[q][a] + Cardinality(Holders(q, a)') <= tries[q]
    BY <1>1 DEF UsesOK, Holders
  <2>1. /\ executed[q][a] \in Nat /\ tries[q] \in Nat
        /\ executed[q][a] + Cardinality(Holders(q, a)) <= tries[q]
    BY DEF WorkerInv, WorkerTypeOK, UsesOK
  <2>2. IsFiniteSet(Holders(q, a)) /\ Cardinality(Holders(q, a)) \in Nat
    BY FS_Subset, FS_CardinalityType DEF Holders
  <2>3. CASE runs /\ q = r /\ a = call
    <3>1. w \in Holders(q, a) /\ w \notin Holders(q, a)'
      BY <1>14, <2>3 DEF Holders, used
    <3>2. Holders(q, a)' \subseteq Holders(q, a) \ {w}
      BY <1>17, <3>1
    <3>3. /\ IsFiniteSet(Holders(q, a) \ {w})
          /\ Cardinality(Holders(q, a) \ {w}) = Cardinality(Holders(q, a)) - 1
      BY <2>2, <3>1, FS_RemoveElement
    <3>4. /\ Cardinality(Holders(q, a)') \in Nat
          /\ Cardinality(Holders(q, a)') <= Cardinality(Holders(q, a)) - 1
      BY <3>2, <3>3, Subsets
    <3>5. executed'[q][a] <= executed[q][a] + 1 /\ executed'[q][a] \in Nat
      <4>1. executed'[q][a] = OnceMore(executed[q][a]) /\ executed[q][a] \in 0 .. Often
        BY <1>1, <2>3 DEF WorkerInv, WorkerTypeOK
      <4>2. OnceMore(executed[q][a]) \in 0 .. Often /\ OnceMore(executed[q][a]) <= executed[q][a] + 1
        BY <4>1, CountsOn
      <4> QED
        BY <4>1, <4>2
    <3> QED
      BY <2>1, <2>2, <3>4, <3>5
  <2>4. CASE ~(runs /\ q = r /\ a = call)
    <3>1. executed'[q][a] = executed[q][a]
      BY <1>1, <2>4 DEF WorkerInv, WorkerTypeOK
    <3>2. /\ Cardinality(Holders(q, a)') \in Nat
          /\ Cardinality(Holders(q, a)') <= Cardinality(Holders(q, a))
      BY <1>17, <2>2, Subsets
    <3> QED
      BY <2>1, <2>2, <3>1, <3>2
  <2> QED
    BY <2>3, <2>4, SMTT(30)
<1>19. ActNeedsApproval' /\ (\A q \in Requests : q > opened => \A a \in Act : executed[q][a] = 0)'
  <2> SUFFICES ASSUME NEW q \in Requests, NEW a \in Act
               PROVE  /\ executed'[q][a] > 0 => a \in shown[q] /\ Approves(q)
                      /\ q > opened => executed'[q][a] = 0
    BY <1>11 DEF ActNeedsApproval, Approves
  <2>1. CASE runs /\ q = r /\ a = call
    BY <1>8, <2>1 DEF WorkerInv, WorkerTypeOK
  <2>2. CASE ~(runs /\ q = r /\ a = call)
    <3>1. executed'[q][a] = executed[q][a]
      BY <1>1, <2>2 DEF WorkerInv, WorkerTypeOK
    <3> QED
      BY <3>1 DEF WorkerInv, ActNeedsApproval
  <2> QED
    BY <2>1, <2>2
<1>21. SpentOK'
  <2>1. InFlight(w)' => InFlight(w)
    <3>1. CASE i = Len(b) /\ loop' = [loop EXCEPT ![w] = turn] /\ phase' = [phase EXCEPT ![w] = "turn"]
      BY <1>4, <1>6, <3>1 DEF InFlight, WorkerInv, WorkerTypeOK
    <3>2. CASE phase' = phase
      BY <1>1, <3>2 DEF InFlight
    <3> QED
      BY <1>2, <3>1, <3>2
  <2>2. Checked' \subseteq Checked
    BY <1>12, <2>1 DEF Checked, InFlight, Unmoved
  <2> QED
    BY <1>1, <2>2, SpentStays DEF WorkerInv, WorkerTypeOK
<1> QED
  BY <1>10, <1>13, <1>16, <1>18, <1>19, <1>21 DEF WorkerInv

-----------------------------------------------------------------------------
(* Every step, and the theorems *)

LEMMA NextIInv == WorkerInv /\ [WorkerNext]_workerVars => WorkerInv'
<1> SUFFICES ASSUME WorkerInv, [WorkerNext]_workerVars PROVE WorkerInv'
  OBVIOUS
<1>1. ASSUME NEW w \in Workers, Start(w) PROVE WorkerInv'
  BY <1>1, StartIInv
<1>2. ASSUME NEW w \in Workers, WorkerStep(w) PROVE WorkerInv'
  <2>1. CASE BeginLoop(w) \/ CannotLoad(w) \/ StillPending(w) \/ TakeUp(w)
    BY <2>1, BeginIInv, CannotLoadIInv, StillPendingIInv, TakeUpIInv
  <2>2. CASE NextTurn(w) \/ OverBudget(w) \/ ModelFails(w)
    BY <2>2, NextTurnIInv, OverBudgetIInv, ModelFailsIInv
  <2>3. ASSUME NEW batch \in Batches, NEW cost \in 1 .. MaxCost, Respond(w, batch, cost) PROVE WorkerInv'
    BY <2>3, RespondIInv
  <2>4. CASE Ask(w) \/ SaveLoop(w) \/ Execute(w)
    BY <2>4, AskIInv, SaveLoopIInv, ExecuteIInv
  <2>5. CASE Finish(w) \/ WriteResult(w) \/ BadAnswer(w) \/ PausesStep(w)
    BY <2>5, FinishIInv, WriteResultIInv, BadAnswerIInv, PauseIInv
  <2> QED
    BY <1>2, <2>1, <2>2, <2>3, <2>4, <2>5 DEF WorkerStep
<1>3. ASSUME NEW w \in Workers, CrashWorker(w) PROVE WorkerInv'
  BY <1>3, CrashIInv
<1>4. ASSUME NEW w \in Workers, CrashInSaveLoop(w) PROVE WorkerInv'
  BY <1>4, CrashInSaveIInv
<1>5. CASE People
  <2>1. ASSUME NEW r \in Requests, NEW d \in Responses, Decide(r, d) PROVE WorkerInv'
    BY <2>1, DecideIInv
  <2>2. ASSUME NEW d \in Responses, ResumeApproval(d) PROVE WorkerInv'
    BY <2>2, ResumeIInv
  <2>3. CASE RaiseCap
    BY <2>3, RaiseCapIInv
  <2> QED
    BY <1>5, <2>1, <2>2, <2>3 DEF People
<1>6. CASE UNCHANGED workerVars
  <2>1. UNCHANGED <<hasResult, saved, spent, cap, opened, shown, answers, paused, phase, loop, approvals,
                    req, executed, tries, kills>>
    BY <1>6 DEF workerVars
  <2>2. Keeps
    BY <2>1, HitlStays DEF WorkerInv, hitl
  <2> QED
    BY <2>1, <2>2, Answered DEF WorkerInv, WorkerTypeOK
<1> QED
  BY <1>1, <1>2, <1>3, <1>4, <1>5, <1>6 DEF WorkerNext

\* The invariant behind the others holds in every reachable state.
THEOREM Inductive == WorkerSpec => []WorkerInv
<1> QED
  BY InitIInv, NextIInv, PTL DEF WorkerSpec

\* Types, with max_turns and max_tool_calls as the ranges of the loop's counters:
\* neither is passed, whatever is saved and taken up again.
THEOREM TypeCorrect == WorkerSpec => []WorkerTypeOK
<1>1. WorkerInv => WorkerTypeOK
  BY DEF WorkerInv
<1> QED
  BY <1>1, Inductive, PTL

\* The human sees what is approved: an `act' call runs only on a request that showed it
\* and that was approved, with any number of workers on the step.
THEOREM ActsAreApproved == WorkerSpec => []ActNeedsApproval
<1>1. WorkerInv => ActNeedsApproval
  BY DEF WorkerInv
<1> QED
  BY <1>1, Inductive, PTL

\* Each time a decision is taken up its call is executed once at most, by whichever worker.
THEOREM OneCallEach == WorkerSpec => []OneCallPerTakeUp
<1>1. WorkerInv => OneCallPerTakeUp
  <2> SUFFICES ASSUME WorkerInv, NEW r \in Requests, NEW a \in Act PROVE executed[r][a] <= tries[r]
    BY DEF OneCallPerTakeUp
  <2>1. executed[r][a] \in 0 .. Often /\ tries[r] \in 0 .. Often
    BY DEF WorkerInv, WorkerTypeOK
  <2>2. Cardinality(Holders(r, a)) \in Nat
    BY FS_Subset, FS_CardinalityType DEF Holders
  <2>3. tries[r] < Often => executed[r][a] + Cardinality(Holders(r, a)) <= tries[r]
    BY DEF WorkerInv, UsesOK
  <2> QED
    BY <2>1, <2>2, <2>3
<1> QED
  BY <1>1, Inductive, PTL

\* max_tool_calls bounds the whole conversation, with approvals in between.
THEOREM CallsAreBounded == WorkerSpec => []WithinMaxCalls
<1>1. WorkerInv => WithinMaxCalls
  <2> SUFFICES ASSUME WorkerInv, NEW w \in Workers PROVE loop[w].answered <= MaxCalls
    BY DEF WithinMaxCalls
  <2>1. WorkerOK(w) /\ LocalTypes(w)
    BY Typed DEF WorkerInv
  <2>2. loop[w].calls \in 0 .. MaxCalls /\ loop[w].answered \in Nat /\ Len(loop[w].batch) \in Nat
    BY <2>1 DEF LocalTypes, Loops
  <2>3. WorkOK(loop[w]) => loop[w].answered <= MaxCalls
    BY <2>2 DEF WorkOK
  <2>4. Fresh.answered <= MaxCalls
    BY DEF Fresh
  <2> QED
    BY <2>1, <2>2, <2>3, <2>4 DEF WorkerOK, LocalTypes, AsksFor
<1> QED
  BY <1>1, Inductive, PTL

\* What is spent passes the cap by less than one call of each worker.
THEOREM OvershootIsBounded == WorkerSpec => []OvershootIsOneCallEach
<1>1. WorkerInv => OvershootIsOneCallEach
  <2> SUFFICES ASSUME WorkerInv PROVE spent < cap + MaxCost * Cardinality(Workers)
    BY DEF OvershootIsOneCallEach
  <2>1. Cardinality(Checked) \in Nat /\ Cardinality(Workers) \in Nat
    BY FS_Subset, FS_CardinalityType DEF Checked
  <2>2. MaxCost * Cardinality(Checked) \in Nat /\ MaxCost * Cardinality(Workers) \in Nat
    BY <2>1, MoreCosts
  <2>3. spent \in Nat /\ cap \in Nat
    BY DEF WorkerInv, WorkerTypeOK
  <2> QED
    BY <2>2, <2>3 DEF WorkerInv, SpentOK
<1> QED
  BY <1>1, Inductive, PTL

\* Only Execute counts a call: the other steps of w that find it at a batch leave the
\* loop as it is or end it.
LEMMA RunsExecute ==
  ASSUME WorkerInv, WorkerNext, NEW w \in Workers, RunsCall(w) PROVE Execute(w)
<1>1. phase[w] = "act" /\ loop'[w].calls = loop[w].calls + 1 /\ loop[w].calls \in Nat
  BY DEF RunsCall, WorkerInv, WorkerTypeOK, Loops
<1>2. loop'[w] # loop[w] /\ loop'[w] # Fresh
  BY <1>1 DEF Fresh
<1>3. ~People
  BY <1>2 DEF People, Decide, ResumeApproval, RaiseCap, inMemory
<1>4. ASSUME NEW v \in Workers \ {w} PROVE ~(Start(v) \/ WorkerStep(v) \/ CrashWorker(v) \/ CrashInSaveLoop(v))
  <2>1. (Start(v) \/ WorkerStep(v) \/ CrashWorker(v) \/ CrashInSaveLoop(v)) =>
           \/ loop' = loop
           \/ \E l : loop' = [loop EXCEPT ![v] = l]
    BY DEF Start, WorkerStep, CrashWorker, CrashInSaveLoop, KillWorker, Leave, BeginLoop, CannotLoad, StillPending, TakeUp,
           NextTurn, OverBudget, ModelFails, Respond, Ask, SaveLoop, Execute, Finish, WriteResult,
           BadAnswer, PausesStep
  <2> QED
    BY <1>2, <2>1 DEF WorkerInv, WorkerTypeOK
<1>5. Start(w) \/ WorkerStep(w) \/ CrashWorker(w) \/ CrashInSaveLoop(w)
  BY <1>3, <1>4 DEF WorkerNext
<1>6. ~(Start(w) \/ CrashWorker(w) \/ CrashInSaveLoop(w))
  BY <1>1, <1>2 DEF Start, CrashWorker, CrashInSaveLoop, KillWorker, Leave, WorkerInv, WorkerTypeOK
<1>7. ~(\E batch \in Batches, cost \in 1 .. MaxCost : Respond(w, batch, cost))
  BY <1>1 DEF Respond
<1>8. ~(BeginLoop(w) \/ CannotLoad(w) \/ StillPending(w) \/ TakeUp(w) \/ NextTurn(w) \/ OverBudget(w)
        \/ ModelFails(w) \/ SaveLoop(w) \/ Finish(w) \/ WriteResult(w) \/ BadAnswer(w) \/ PausesStep(w))
  BY <1>1 DEF BeginLoop, CannotLoad, StillPending, TakeUp, NextTurn, OverBudget, ModelFails, SaveLoop,
              Finish, WriteResult, BadAnswer, PausesStep
<1>9. ~Ask(w)
  BY <1>2 DEF Ask
<1> QED
  BY <1>5, <1>6, <1>7, <1>8, <1>9 DEF WorkerStep

\* No call of a turn runs, not even one that needs no approval, before every `act' call
\* of that turn has been shown to a human and answered.
THEOREM DecisionsComeFirst == WorkerSpec => NothingBeforeDecision
<1> DEFINE First == \A w \in Workers : RunsCall(w) /\ ActsOf(loop[w].batch) # {} =>
             /\ req[w] # 0 /\ answers[req[w]] # <<>>
             /\ ActsOf(loop[w].batch) \subseteq shown[req[w]]
<1>1. WorkerInv /\ [WorkerNext]_workerVars => [First]_workerVars
  <2> SUFFICES ASSUME WorkerInv, WorkerNext, NEW w \in Workers, RunsCall(w), ActsOf(loop[w].batch) # {}
               PROVE  /\ req[w] # 0 /\ answers[req[w]] # <<>>
                      /\ ActsOf(loop[w].batch) \subseteq shown[req[w]]
    OBVIOUS
  <2>1. Execute(w)
    BY RunsExecute
  <2> QED
    BY <2>1, BatchDecided DEF Decided
<1> QED
  BY <1>1, Inductive, PTL DEF WorkerSpec, NothingBeforeDecision

=============================================================================
