-------------------------- MODULE WaveEngineProofs --------------------------
(***************************************************************************)
(* The LangGraph engine for plans of any shape and length.  IInv relates the *)
(* three records that can disagree (the log, the checkpoint, status.json) to *)
(* each other and to what the running process has in memory; the invariants  *)
(* and action properties that the run waves checks on small plans follow     *)
(* from it.                                                                  *)
(***************************************************************************)
EXTENDS WaveEngine, TLAPS

-----------------------------------------------------------------------------
(* The invariant *)

States == Resumable \union Terminal \union {"absent", "paused_budget"}
Fingerprints == [Files -> Vers]

\* paused is left out: it names a step, but nothing here depends on which.
Statuses == [state : States, engine : {"graph", "fallback"}, completed : SUBSET Steps,
             paused : {status.paused}, tool : BOOLEAN]

Checkpoints == [made : BOOLEAN, done : SUBSET Steps, error : BOOLEAN,
                next : SUBSET Steps, saved : SUBSET Steps, bad : SUBSET Steps]

Calls == [answer : {"spent", "run"} \union Approved, pending : SUBSET Gates,
          fp : Fingerprints, new : SUBSET Gates]

Places == {"off", "todo", "working", "ok", "err", "stopped", "raised", "saved"}

TypeOK ==
    /\ plan \in Plans
    /\ status \in Statuses
    /\ cp \in Checkpoints
    /\ call \in Calls
    /\ asked \in [Gates -> Fingerprints]
    /\ ver \in [Files -> Vers]
    /\ node \in [Steps -> Places]
    /\ pc \in {"idle", "launch", "invoke", "graph", "fallback"}

\* What the process has in memory, and what status.json says, at each place it may be.
Memory ==
    /\ pc # "graph" => node = AllOff
    /\ pc \in {"idle", "launch"} => call = NoCall
    /\ pc = "launch" => status = Absent
    /\ pc = "invoke" /\ call.answer = "run" => status.completed = {}
    /\ pc = "fallback" => call.answer = "run" /\ status.engine = "fallback"
    /\ status.state = "done" => pc = "idle" /\ status.completed = Steps

\* The nodes of a superstep are those of the checkpoint, less those whose writes are stored.
Tasks ==
    /\ cp.saved \subseteq cp.next /\ cp.bad \subseteq cp.saved
    /\ pc = "graph" =>
           /\ cp.made
           /\ \A s \in Steps : /\ node[s] = "off" <=> s \notin cp.next
                               /\ node[s] = "saved" <=> s \in cp.saved
                               /\ node[s] = "stopped" => s \in Gates \ cp.done
                               /\ node[s] = "working" => s \notin Gates \union cp.done

\* What the checkpoint will count as done when this superstep is applied.
WillBeDone == cp.done \union (cp.saved \ cp.bad)

Backed ==
    /\ ApprovedGates \subseteq Gates
    /\ finished \intersect Gates = {}
    /\ status.completed \union WillBeDone \subseteq finished \union ApprovedGates
    /\ \A s \in Steps : node[s] = "ok" => s \in finished \union ApprovedGates

\* A step that the graph has not come to has dependencies, none of them done.
Reached ==
    cp.made /\ ~cp.error =>
        \A s \in Steps \ (cp.done \union cp.next) : Deps[s] # {} /\ Deps[s] \intersect cp.done = {}

\* A gate without a decision was asked in this call, or was checked before it.
Answered ==
    /\ ApprovesWhatWasAsked
    /\ call.answer \in Approved =>
           \A g \in Gates : asked[g] # NoFingerprint /\ g \notin ResolvedGates
                                => g \in call.pending \union call.new
    /\ call.answer = "approve" =>
           \A g \in call.pending : asked[g] # NoFingerprint /\ ~Differ(asked[g], call.fp)

\* Only the fallback gets ahead of the checkpoint.
Ahead == status.engine # "fallback" => status.completed \subseteq WillBeDone

IInv == TypeOK /\ Memory /\ Tasks /\ Backed /\ Reached /\ Answered /\ Ahead

-----------------------------------------------------------------------------
(* Facts about the data *)

LEMMA PlanFacts ==
  ASSUME plan \in Plans
  PROVE  /\ Deps \in [Steps -> SUBSET Steps] /\ Gates \subseteq Steps
         /\ Artifacts \intersect Gates = {}
         /\ \A S \in SUBSET Steps : S # {} => \E s \in S : Deps[s] \intersect S = {}
<1>1. PICK n \in 1 .. N :
          /\ plan.deps \in [1 .. n -> SUBSET (1 .. n)]
          /\ plan.gates \subseteq 1 .. n
          /\ Artifacts \intersect plan.gates = {}
          /\ \A S \in SUBSET (1 .. n) : S # {} => \E s \in S : plan.deps[s] \intersect S = {}
  BY PlanAssumption
<1>2. Steps = 1 .. n
  BY <1>1 DEF Steps
<1> QED
  BY <1>1, <1>2 DEF Deps, Gates

LEMMA SamePlan ==
  ASSUME plan' = plan
  PROVE  Steps' = Steps /\ Gates' = Gates /\ Deps' = Deps /\ AllOff' = AllOff
BY DEF Steps, Gates, Deps, AllOff

LEMMA NoCallOK == NoCall \in Calls /\ NoFingerprint \in Fingerprints
<1>1. NoFingerprint \in Fingerprints
  BY PlanAssumption DEF NoFingerprint, Fingerprints, Vers
<1> QED
  BY <1>1 DEF NoCall, Calls

LEMMA AllOffOK == AllOff \in [Steps -> Places] /\ \A s \in Steps : AllOff[s] = "off"
BY DEF AllOff, Places

\* A call ends, by itself or by a kill.
LEMMA ReturnOK ==
  ASSUME IInv, Return, UNCHANGED <<plan, cp, resolved, finished>>,
         asked' \in [Gates -> Fingerprints], ver' \in [Files -> Vers],
         status' \in Statuses',
         status'.completed \subseteq status.completed \union WillBeDone,
         status'.engine = status.engine,
         status'.state = "done" => status'.completed = Steps
  PROVE  IInv'
<1>1. Steps' = Steps /\ Gates' = Gates /\ Deps' = Deps /\ AllOff' = AllOff
  BY SamePlan
<1>2. TypeOK'
  BY <1>1, NoCallOK, AllOffOK DEF IInv, TypeOK, Return, Calls, Checkpoints, NoCall, Fingerprints, NoFingerprint
<1>3. Memory'
  BY <1>1 DEF Return, Memory, NoCall
<1>4. Tasks'
  BY <1>1 DEF IInv, Tasks, Return
<1>5. Backed'
  BY <1>1, AllOffOK DEF IInv, Backed, Return, WillBeDone, ApprovedGates
<1>6. Reached'
  BY <1>1 DEF IInv, Reached
<1>7. Answered'
  BY DEF IInv, Answered, ApprovesWhatWasAsked, Return, NoCall, Approved, Differ, NoFingerprint
<1>8. Ahead'
  BY DEF IInv, Ahead, WillBeDone
<1> QED
  BY <1>2, <1>3, <1>4, <1>5, <1>6, <1>7, <1>8 DEF IInv

-----------------------------------------------------------------------------
(* One step at a time *)

LEMMA InitIInv == Init => IInv
<1> SUFFICES ASSUME Init PROVE IInv
  OBVIOUS
<1>1. TypeOK
  <2>1. 0 \in Vers
    BY PlanAssumption DEF Vers
  <2>2. status \in Statuses
    BY DEF Init, Statuses, States, Absent
  <2>3. cp \in Checkpoints
    BY DEF Init, Checkpoints, NoCheckpoint
  <2> QED
    BY <2>1, <2>2, <2>3, NoCallOK, AllOffOK DEF Init, TypeOK
<1>2. Memory /\ Tasks /\ Backed /\ Reached /\ Answered /\ Ahead
  BY AllOffOK DEF Init, Memory, Tasks, Backed, Reached, Answered, Ahead, Absent, NoCheckpoint, NoCall,
     WillBeDone, ApprovedGates, ApprovesWhatWasAsked, Resumable, Approved
<1> QED
  BY <1>1, <1>2 DEF IInv

\* What the end of a call may write over the status.
LEMMA VerdictOK ==
  ASSUME IInv, NEW done \in SUBSET Steps, NEW error \in BOOLEAN,
         cp.done \subseteq done, done \subseteq WillBeDone,
         error \/ Gates \ done # {} \/ done = Steps
  PROVE  LET s == Verdict(done, error)
         IN  /\ s = [state |-> s.state, engine |-> status.engine, paused |-> s.paused, tool |-> status.tool,
                     completed |-> status.completed \union done]
             /\ s.state \in {"failed", "paused_human_gate", "done"}
             /\ s.completed = status.completed \union done
             /\ s.engine = status.engine
             /\ s.state = "done" => s.completed = Steps
<1>1. status.completed \subseteq Steps
  BY DEF IInv, TypeOK, Statuses
<1> DEFINE t == [status EXCEPT !.completed = CompletedWith(done)]
<1>2. t = [state |-> status.state, engine |-> status.engine, paused |-> status.paused, tool |-> status.tool,
           completed |-> status.completed \union done]
  BY DEF IInv, TypeOK, Statuses, CompletedWith
<1>3. CASE error
  BY <1>2, <1>3 DEF Verdict
<1>4. CASE ~error /\ Gates \ done # {}
  BY <1>2, <1>4 DEF Verdict
<1>5. CASE ~error /\ Gates \ done = {}
  BY <1>1, <1>2, <1>5 DEF Verdict
<1> QED
  BY <1>3, <1>4, <1>5

\* A graph that comes to its end without an error has come to every step.
LEMMA ConcludeIInv == IInv /\ UNCHANGED plan /\ Conclude => IInv'
<1> SUFFICES ASSUME IInv, UNCHANGED plan, Conclude PROVE IInv'
  OBVIOUS
<1>1. cp.error \/ cp.done = Steps
  <2> SUFFICES ASSUME ~cp.error, Steps \ cp.done # {} PROVE FALSE
    BY DEF IInv, TypeOK, Checkpoints
  <2>1. cp.made /\ cp.next = {} /\ plan \in Plans
    BY DEF IInv, TypeOK, Tasks, Conclude
  <2>2. \A s \in Steps \ cp.done : Deps[s] # {} /\ Deps[s] \intersect cp.done = {}
    BY <2>1 DEF IInv, Reached
  <2>3. \A s \in Steps \ cp.done : Deps[s] \subseteq Steps
    BY <2>1, PlanFacts
  <2> QED
    BY <2>1, <2>2, <2>3, PlanFacts
<1>2. cp.done \subseteq WillBeDone /\ cp.done \in SUBSET Steps /\ cp.error \in BOOLEAN
  BY DEF IInv, TypeOK, Checkpoints, WillBeDone
<1>3. Steps' = Steps
  BY SamePlan
<1>4. status' \in Statuses'
  BY <1>1, <1>2, <1>3, VerdictOK DEF IInv, TypeOK, Statuses, States, Resumable, Terminal, Conclude
<1>5. asked' \in [Gates -> Fingerprints] /\ ver' \in [Files -> Vers]
  BY DEF IInv, TypeOK, Conclude, log, steps
<1> QED
  BY <1>1, <1>2, <1>3, <1>4, <1>5, VerdictOK, ReturnOK DEF Conclude, log

\* An interrupted superstep has a gate that is not done, so the run does not say done.
LEMMA InterruptedIInv ==
  ASSUME IInv, UNCHANGED plan, NEW counted \in BOOLEAN, Interrupted(counted)
  PROVE  IInv'
<1> DEFINE done == IF counted THEN Apply(cp).done ELSE cp.done
<1> DEFINE error == IF counted THEN Apply(cp).error ELSE cp.error
<1>1. status' = Verdict(done, error) /\ UNCHANGED <<cp, log, ver>> /\ Return
  BY DEF Interrupted, steps
<1>2. Apply(cp).done = WillBeDone /\ Apply(cp).error = (cp.error \/ cp.bad # {})
  BY DEF IInv, TypeOK, Checkpoints, Apply, WillBeDone
<1>3. done \in SUBSET Steps /\ error \in BOOLEAN /\ cp.done \subseteq done /\ done \subseteq WillBeDone
  BY <1>2 DEF IInv, TypeOK, Checkpoints, WillBeDone
<1>4. Gates \ done # {}
  BY <1>3 DEF IInv, Tasks, Interrupted, Stopped, WillBeDone
<1> HIDE DEF done, error
<1>5. Steps' = Steps
  BY SamePlan
<1>6. status' \in Statuses'
  <2>1. /\ status' = [state |-> status'.state, engine |-> status.engine, paused |-> status'.paused,
                      tool |-> status.tool, completed |-> status.completed \union done]
        /\ status'.state \in {"failed", "paused_human_gate", "done"}
    BY <1>1, <1>3, <1>4, VerdictOK
  <2>2. status.engine \in {"graph", "fallback"} /\ status.tool \in BOOLEAN
        /\ status.completed \union done \in SUBSET Steps
    BY <1>3 DEF IInv, TypeOK, Statuses
  <2> QED
    BY <1>5, <2>1, <2>2 DEF Statuses, States, Resumable, Terminal
<1>7. asked' \in [Gates -> Fingerprints] /\ ver' \in [Files -> Vers]
  BY <1>1 DEF IInv, TypeOK, log
<1> QED
  BY <1>1, <1>3, <1>4, <1>5, <1>6, <1>7, VerdictOK, ReturnOK DEF log

\* A step, or the fallback, stops the call and says why in the status.
LEMMA PausedStatus ==
  ASSUME IInv, UNCHANGED plan, NEW s, NEW kind \in {"wait", "budget", "tool"}, NEW C \in SUBSET Steps,
         status' = [status EXCEPT !.state = StateOf(kind), !.paused = s, !.tool = (kind = "tool"),
                                  !.completed = C]
  PROVE  /\ status' \in Statuses' /\ status'.completed = C /\ status'.engine = status.engine
         /\ status'.state # "done"
<1>1. StateOf(kind) \in {"waiting_external", "paused_budget", "paused_human_gate"}
  BY DEF StateOf
<1>2. Steps' = Steps
  BY SamePlan
<1> QED
  BY <1>1, <1>2 DEF IInv, TypeOK, Statuses, States, Resumable

LEMMA StepStopsIInv ==
  ASSUME IInv, UNCHANGED plan, NEW s \in Steps, NEW kind \in Pauses, StepStops(s, kind)
  PROVE  IInv'
<1>1. kind \in {"wait", "budget", "tool"}
  BY PlanAssumption
<1>2. cp.done \subseteq WillBeDone /\ status.completed \union cp.done \in SUBSET Steps
  BY DEF IInv, TypeOK, Checkpoints, Statuses, WillBeDone
<1>3. asked' \in [Gates -> Fingerprints] /\ ver' \in [Files -> Vers]
  BY DEF IInv, TypeOK, StepStops, log, steps
<1>4. /\ status' \in Statuses' /\ status'.completed = status.completed \union cp.done
      /\ status'.engine = status.engine /\ status'.state # "done"
  BY <1>1, <1>2, PausedStatus, ZenonT(40) DEF StepStops, CompletedWith
<1> QED
  BY <1>2, <1>3, <1>4, ReturnOK DEF StepStops, log

\* The calls that end without writing the status.
LEMMA SameStatus ==
  ASSUME IInv, UNCHANGED <<plan, status, cp, log, ver>>, Return
  PROVE  IInv'
<1>1. Steps' = Steps
  BY SamePlan
<1>2. status' \in Statuses'
  BY <1>1 DEF IInv, TypeOK, Statuses
<1>3. asked' \in [Gates -> Fingerprints] /\ ver' \in [Files -> Vers]
  BY DEF IInv, TypeOK, log
<1> QED
  BY <1>2, <1>3, ReturnOK DEF IInv, Memory, log

LEMMA RefuseLargeIInv == ASSUME IInv, UNCHANGED plan, NEW max, RefuseLarge(max) PROVE IInv'
<1>1. status = Absent
  BY DEF IInv, Memory, RefuseLarge
<1>2. status' = [Absent EXCEPT !.state = "aborted_budget"]
  BY DEF RefuseLarge
<1>3. status' \in Statuses' /\ status'.completed = {} /\ status'.engine = status.engine
      /\ status'.state # "done"
  BY <1>1, <1>2 DEF Absent, Statuses, States, Terminal
<1>4. asked' \in [Gates -> Fingerprints] /\ ver' \in [Files -> Vers]
  BY DEF IInv, TypeOK, RefuseLarge, log, steps
<1> QED
  BY <1>3, <1>4, ReturnOK DEF RefuseLarge, log

LEMMA LaunchIInv == ASSUME IInv, UNCHANGED plan, NEW max, Launch(max) PROVE IInv'
<1>1. Steps' = Steps /\ Gates' = Gates /\ Deps' = Deps /\ AllOff' = AllOff
  BY SamePlan
<1>2. status' = [Absent EXCEPT !.state = "running"] /\ status = Absent
  BY DEF IInv, Memory, Launch
<1>3. status' \in Statuses' /\ status'.completed = {} /\ status'.engine = "graph" /\ status'.state = "running"
  BY <1>2 DEF Absent, Statuses, States, Resumable
<1>4. call' \in Calls' /\ call'.answer = "run" /\ call'.answer \notin Approved
  BY <1>1, NoCallOK DEF Launch, Calls, NoCall, Approved, Fingerprints
<1>5. status.completed = {} /\ status.engine = "graph"
  BY <1>2 DEF Absent
<1>6. TypeOK'
  BY <1>1, <1>3, <1>4 DEF IInv, TypeOK, Launch, log, steps, Checkpoints, Fingerprints
<1>7. Memory' /\ Tasks' /\ Reached'
  BY <1>1, <1>3, <1>4 DEF IInv, Memory, Tasks, Reached, Launch
<1>8. Backed'
  BY <1>1, <1>3, <1>5 DEF IInv, Backed, Launch, log, WillBeDone, ApprovedGates
<1>9. Answered'
  BY <1>4 DEF IInv, Answered, ApprovesWhatWasAsked, Launch, log, Differ, NoFingerprint, Approved
<1>10. Ahead'
  BY <1>3 DEF Ahead
<1> QED
  BY <1>6, <1>7, <1>8, <1>9, <1>10 DEF IInv

\* The nodes of the superstep that begins.
LEMMA SuperstepOK ==
  ASSUME NEW c, c.saved \subseteq c.next
  PROVE  /\ Superstep(c) \in [Steps -> {"off", "saved", "todo"}]
         /\ \A s \in Steps : /\ Superstep(c)[s] = "off" <=> s \notin c.next
                             /\ Superstep(c)[s] = "saved" <=> s \in c.saved
BY DEF Superstep

LEMMA BeginsIInv ==
  ASSUME IInv, UNCHANGED <<plan, status, log, ver>>, pc \in {"invoke", "graph"}, pc' = "graph",
         cp' \in Checkpoints, cp'.made, cp'.saved \subseteq cp'.next, cp'.bad \subseteq cp'.saved,
         node' = Superstep(cp'),
         call' = call \/ call' = NoCall,
         WillBeDone' \subseteq WillBeDone,
         Reached', Ahead'
  PROVE  IInv'
<1>1. Steps' = Steps /\ Gates' = Gates /\ Deps' = Deps /\ AllOff' = AllOff
  BY SamePlan
<1>2. node' \in [Steps -> {"off", "saved", "todo"}]
  BY SuperstepOK
<1>3. TypeOK'
  BY <1>1, <1>2, NoCallOK DEF IInv, TypeOK, log, Places, Checkpoints, Statuses, Fingerprints, Calls
<1>4. Memory'
  BY <1>1 DEF IInv, Memory
<1>5. Tasks'
  BY <1>1, <1>2, SuperstepOK DEF Tasks
<1>6. Backed'
  BY <1>1, <1>2 DEF IInv, Backed, log, ApprovedGates
<1>7. Answered'
  BY <1>1 DEF IInv, Answered, ApprovesWhatWasAsked, log, Differ, NoFingerprint, NoCall, Approved, ResolvedGates
<1> QED
  BY <1>3, <1>4, <1>5, <1>6, <1>7 DEF IInv

LEMMA InvokeIInv == IInv /\ UNCHANGED plan /\ Invoke => IInv'
<1> SUFFICES ASSUME IInv, UNCHANGED plan, Invoke PROVE IInv'
  OBVIOUS
<1>1. CASE call.answer = "run"
  <2>1. cp' = [NoCheckpoint EXCEPT !.made = TRUE, !.next = Roots]
    BY <1>1 DEF Invoke
  <2>2. Roots \subseteq Steps
    BY DEF Roots
  <2>3. /\ cp' \in Checkpoints /\ cp'.made /\ cp'.next = Roots
        /\ cp'.done = {} /\ cp'.saved = {} /\ cp'.bad = {}
    BY <2>1, <2>2 DEF Checkpoints, NoCheckpoint
  <2>4. WillBeDone' = {}
    BY <2>3 DEF WillBeDone
  <2>5. Reached'
    BY <2>3, SamePlan DEF Reached, Roots
  <2>6. Ahead'
    BY <1>1 DEF IInv, Memory, Ahead, Invoke
  <2> QED
    BY <2>3, <2>4, <2>5, <2>6, BeginsIInv DEF Invoke, steps
<1>2. CASE call.answer # "run"
  <2>1. cp' = cp /\ cp.made
    BY <1>2 DEF Invoke
  <2>2. WillBeDone' = WillBeDone
    BY <2>1 DEF WillBeDone
  <2>3. Reached' /\ Ahead'
    BY <2>1, <2>2, SamePlan DEF IInv, Reached, Ahead, Invoke
  <2> QED
    BY <2>1, <2>2, <2>3, BeginsIInv DEF IInv, TypeOK, Tasks, Invoke, steps
<1> QED
  BY <1>1, <1>2

\* The superstep is over: all its nodes are behind, and what depends on one of them is next.
LEMMA BarrierIInv == IInv /\ UNCHANGED plan /\ Barrier => IInv'
<1> SUFFICES ASSUME IInv, UNCHANGED plan, Barrier PROVE IInv'
  OBVIOUS
<1>1. cp \in Checkpoints /\ cp.made /\ pc = "graph"
  BY DEF IInv, TypeOK, Tasks, Barrier
<1>2. Successors(cp.next) \subseteq Steps
  BY DEF Successors
<1>3. cp' = Apply(cp)
  BY DEF Barrier
<1>4. /\ cp'.made /\ cp'.done = WillBeDone /\ cp'.next = Successors(cp.next)
      /\ cp'.saved = {} /\ cp'.bad = {}
      /\ cp'.error <=> cp.error \/ cp.bad # {}
      /\ cp' \in Checkpoints
  BY <1>1, <1>2, <1>3 DEF Apply, Checkpoints, WillBeDone
<1>5. WillBeDone' = WillBeDone
  BY <1>4 DEF WillBeDone
<1>6. Ahead'
  BY <1>5 DEF IInv, Ahead, Barrier
<1>7. cp.saved = cp.next
  BY <1>1 DEF IInv, Tasks, Barrier, Settled, Checkpoints
<1>8. Reached'
  <2> SUFFICES ASSUME ~cp'.error, NEW s \in Steps, s \notin cp'.done, s \notin cp'.next
               PROVE  Deps[s] # {} /\ Deps[s] \intersect cp'.done = {}
    BY SamePlan DEF Reached
  <2>1. cp.bad = {} /\ ~cp.error
    BY <1>4
  <2>2. WillBeDone = cp.done \union cp.next
    BY <1>7, <2>1 DEF WillBeDone
  <2>3. Deps[s] # {} /\ Deps[s] \intersect cp.done = {}
    BY <1>1, <1>4, <2>1, <2>2 DEF IInv, Reached
  <2>4. Deps[s] \intersect cp.next = {}
    BY <1>4 DEF Successors
  <2> QED
    BY <1>4, <2>2, <2>3, <2>4
<1> QED
  BY <1>1, <1>4, <1>5, <1>6, <1>8, BeginsIInv DEF Barrier, steps

-----------------------------------------------------------------------------
(* The nodes of a superstep *)

\* A node moves, and whatever else it does is in the log, in memory or in a file.
LEMMA NodeIInv ==
  ASSUME IInv, UNCHANGED <<plan, status, cp, pc>>,
         NEW s \in Steps, NEW place \in Places, pc = "graph", Goto(s, place),
         node[s] \notin {"off", "saved"}, place \notin {"off", "saved"},
         place = "stopped" => s \in Gates \ cp.done,
         place = "working" => s \notin Gates \union cp.done,
         ver' \in [Files -> Vers], asked' \in [Gates -> Fingerprints], call' \in Calls',
         finished \subseteq finished', ApprovedGates \subseteq ApprovedGates',
         ApprovedGates' \subseteq Gates, finished' \intersect Gates = {},
         place = "ok" => s \in finished' \union ApprovedGates',
         Answered'
  PROVE  IInv'
<1>1. Steps' = Steps /\ Gates' = Gates /\ Deps' = Deps /\ AllOff' = AllOff
  BY SamePlan
<1>2. node' \in [Steps -> Places] /\ node'[s] = place /\ \A t \in Steps \ {s} : node'[t] = node[t]
  BY DEF IInv, TypeOK, Goto
<1>3. WillBeDone' = WillBeDone
  BY DEF WillBeDone
<1>4. TypeOK'
  BY <1>1, <1>2 DEF IInv, TypeOK, Checkpoints, Statuses, Fingerprints
<1>5. Memory'
  BY <1>1 DEF IInv, Memory
<1>6. Tasks'
  BY <1>1, <1>2 DEF IInv, Tasks
<1>7. Backed'
  BY <1>1, <1>2, <1>3 DEF IInv, Backed
<1>8. Reached'
  BY <1>1 DEF IInv, Reached
<1>9. Ahead'
  BY <1>3 DEF IInv, Ahead
<1> QED
  BY <1>4, <1>5, <1>6, <1>7, <1>8, <1>9 DEF IInv

\* What is decided stays decided while nobody asks or decides anything.
LEMMA SameAnswers ==
  ASSUME Answered, UNCHANGED <<plan, asked, resolved, call>>
  PROVE  Answered'
<1>1. Gates' = Gates
  BY SamePlan
<1> QED
  BY <1>1 DEF Answered, ApprovesWhatWasAsked, ResolvedGates, Differ, NoFingerprint

LEMMA SameCall == ASSUME IInv, UNCHANGED <<plan, call>> PROVE call' \in Calls'
<1>1. Gates' = Gates
  BY SamePlan
<1> QED
  BY <1>1 DEF IInv, TypeOK, Calls, Fingerprints

LEMMA QuietNodeIInv ==
  ASSUME IInv, UNCHANGED <<plan, status, cp, pc, ver, asked, resolved, finished, call>>,
         NEW s \in Steps, NEW place \in {"working", "ok", "err", "raised"}, pc = "graph", Goto(s, place),
         node[s] \notin {"off", "saved"},
         place = "working" => s \notin Gates \union cp.done,
         place = "ok" => s \in cp.done
  PROVE  IInv'
<1>1. Answered' /\ call' \in Calls'
  BY SameAnswers, SameCall DEF IInv
<1>2. /\ ver' \in [Files -> Vers] /\ asked' \in [Gates -> Fingerprints]
      /\ ApprovedGates' = ApprovedGates /\ ApprovedGates \subseteq Gates /\ finished \intersect Gates = {}
  BY DEF IInv, TypeOK, Backed, ApprovedGates
<1>3. place = "ok" => s \in finished \union ApprovedGates
  BY DEF IInv, Backed, WillBeDone
<1>4. place \in Places
  BY DEF Places
<1> QED
  BY <1>1, <1>2, <1>3, <1>4, NodeIInv

LEMMA AlreadyDoneIInv == ASSUME IInv, UNCHANGED plan, NEW s \in Steps, AlreadyDone(s) PROVE IInv'
BY QuietNodeIInv DEF AlreadyDone, At, log, steps

LEMMA RequestIInv == ASSUME IInv, UNCHANGED plan, NEW s \in Steps, Request(s) PROVE IInv'
BY QuietNodeIInv DEF Request, At, log

LEMMA FailIInv == ASSUME IInv, UNCHANGED plan, NEW s \in Steps, Fail(s) PROVE IInv'
BY QuietNodeIInv DEF Fail, ReturnsError, At, steps

LEMMA PauseIInv == ASSUME IInv, UNCHANGED plan, NEW s \in Steps, NEW kind, Pause(s, kind) PROVE IInv'
BY QuietNodeIInv DEF Pause, At, log, steps

LEMMA TearIInv == ASSUME IInv, UNCHANGED plan, NEW s \in Steps, Tear(s) PROVE IInv'
BY QuietNodeIInv DEF Tear, At, log, steps

LEMMA WriteArtifactOK ==
  ASSUME ver \in [Files -> Vers], NEW s, WriteArtifact(s)
  PROVE  ver' \in [Files -> Vers]
<1>1. 1 \in Vers
  BY PlanAssumption DEF Vers
<1> QED
  BY <1>1 DEF WriteArtifact

LEMMA WorkIInv == ASSUME IInv, UNCHANGED plan, NEW s \in Steps, Work(s) PROVE IInv'
<1>1. Answered' /\ call' \in Calls'
  BY SameAnswers, SameCall DEF IInv, Work
<1>2. ver' \in [Files -> Vers] /\ asked' \in [Gates -> Fingerprints]
  BY WriteArtifactOK DEF IInv, TypeOK, Work
<1>3. s \notin Gates
  BY DEF IInv, Tasks, Work, At
<1>4. /\ finished \subseteq finished' /\ s \in finished' /\ finished' \intersect Gates = {}
      /\ ApprovedGates' = ApprovedGates /\ ApprovedGates \subseteq Gates
  BY <1>3 DEF IInv, Backed, Work, ApprovedGates
<1> QED
  BY <1>1, <1>2, <1>4, NodeIInv DEF Work, At, Places

\* A gate is asked: what the answer of this call was checked for is asked already.
LEMMA AskedOK ==
  ASSUME IInv, UNCHANGED plan, NEW g \in Gates, Asked(g)
  PROVE  /\ asked' \in [Gates -> Fingerprints] /\ call' \in Calls'
         /\ call'.answer = call.answer /\ call'.pending = call.pending /\ call'.fp = call.fp
         /\ \A h \in Gates : asked[h] # NoFingerprint => asked'[h] = asked[h]
         /\ call.answer \in Approved =>
                \A h \in Gates : asked'[h] # NoFingerprint /\ h \notin ResolvedGates
                                     => h \in call'.pending \union call'.new
         /\ call.answer \in Approved /\ g \notin call'.new => asked[g] # NoFingerprint /\ call'.new = call.new
<1>1. Gates' = Gates
  BY SamePlan
<1>2. ver \in Fingerprints /\ asked \in [Gates -> Fingerprints] /\ call \in Calls
  BY DEF IInv, TypeOK, Fingerprints
<1>3. CASE asked[g] = NoFingerprint /\ call.answer \in Approved
  <2>1. asked' = [asked EXCEPT ![g] = ver] /\ call' = [call EXCEPT !.new = @ \union {g}]
    BY <1>3 DEF Asked, Fingerprint
  <2>2. /\ call' \in Calls /\ call'.answer = call.answer /\ call'.pending = call.pending
        /\ call'.fp = call.fp /\ call'.new = call.new \union {g}
    BY <1>2, <2>1 DEF Calls
  <2>3. call' \in Calls'
    BY <1>1, <2>2 DEF Calls, Fingerprints
  <2> QED
    BY <1>2, <1>3, <2>1, <2>2, <2>3 DEF IInv, Answered
<1>4. CASE asked[g] = NoFingerprint /\ call.answer \notin Approved
  <2>1. asked' = [asked EXCEPT ![g] = ver] /\ call' = call
    BY <1>4 DEF Asked, Fingerprint
  <2> QED
    BY <1>2, <1>4, <2>1, SameCall
<1>5. CASE asked[g] # NoFingerprint
  <2>1. asked' = asked /\ call' = call
    BY <1>5 DEF Asked
  <2> QED
    BY <1>2, <1>5, <2>1, SameCall DEF IInv, Answered
<1> QED
  BY <1>3, <1>4, <1>5

LEMMA GateStopsIInv == ASSUME IInv, UNCHANGED plan, NEW g \in Steps, GateStops(g) PROVE IInv'
<1>1. g \in Gates \ cp.done /\ Asked(g) /\ UNCHANGED <<resolved, finished, ver>>
  BY DEF GateStops, steps
<1>2. Gates' = Gates
  BY SamePlan
<1>3. Answered'
  <2>1. ApprovesWhatWasAsked' /\ ResolvedGates' = ResolvedGates
    BY <1>1 DEF IInv, Answered, ApprovesWhatWasAsked, ResolvedGates, Differ, NoFingerprint
  <2>2. call'.answer = "approve" =>
            \A h \in call'.pending : asked'[h] # NoFingerprint /\ ~Differ(asked'[h], call'.fp)
    <3>1. call.pending \subseteq Gates
      BY DEF IInv, TypeOK, Calls
    <3> QED
      BY <1>1, <3>1, AskedOK DEF IInv, Answered
  <2>3. NoFingerprint' = NoFingerprint
    BY DEF NoFingerprint
  <2> QED
    BY <1>1, <1>2, <2>1, <2>2, <2>3, AskedOK DEF Answered, Differ
<1>4. ApprovedGates' = ApprovedGates /\ ApprovedGates \subseteq Gates /\ finished \intersect Gates = {}
  BY <1>1 DEF IInv, Backed, ApprovedGates
<1> QED
  BY <1>1, <1>3, <1>4, AskedOK, NodeIInv DEF GateStops, At, Places, IInv, TypeOK

\* The gate that takes the answer was checked for it, or its request is of this very call.
LEMMA GateDecidesIInv == ASSUME IInv, UNCHANGED plan, NEW g \in Steps, GateDecides(g) PROVE IInv'
<1> DEFINE r == [step |-> g, decision |-> call.answer,
                 fp |-> IF g \in call.pending THEN call.fp ELSE Fingerprint,
                 asked |-> asked'[g], waited |-> g \notin call'.new \union ResolvedGates]
<1>1. /\ g \in Gates \ cp.done /\ Asked(g) /\ resolved' = resolved \union {r} /\ call.answer \in Approved
      /\ UNCHANGED <<finished, ver>>
  BY DEF GateDecides, steps
<1>2. Gates' = Gates
  BY SamePlan
<1>3. /\ r.step = g /\ r.decision = call.answer /\ r.asked = asked'[g]
      /\ r.waited <=> g \notin call'.new \union ResolvedGates
      /\ g \in call.pending => r.fp = call.fp
  OBVIOUS
<1> HIDE DEF r
<1>4. ResolvedGates' = ResolvedGates \union {g} /\ ApprovedGates' = ApprovedGates \union {g}
  BY <1>1, <1>3 DEF ResolvedGates, ApprovedGates
<1>5. NoFingerprint' = NoFingerprint
  BY DEF NoFingerprint
<1>6. Answered'
  <2>1. r.waited /\ r.decision = "approve" => ~Differ(r.asked, r.fp)
    <3> SUFFICES ASSUME r.waited, call.answer = "approve" PROVE ~Differ(asked'[g], call.fp) /\ g \in call.pending
      BY <1>3
    <3>1. g \notin call'.new /\ g \notin ResolvedGates
      BY <1>3
    <3>2. asked[g] # NoFingerprint /\ call'.new = call.new /\ asked'[g] = asked[g]
      BY <1>1, <3>1, AskedOK
    <3>3. g \in call.pending
      BY <1>1, <3>1, <3>2 DEF IInv, Answered
    <3> QED
      BY <3>2, <3>3 DEF IInv, Answered
  <2>2. ApprovesWhatWasAsked'
    BY <1>1, <2>1 DEF IInv, Answered, ApprovesWhatWasAsked, Differ, NoFingerprint
  <2>3. call'.answer = "approve" =>
            \A h \in call'.pending : asked'[h] # NoFingerprint /\ ~Differ(asked'[h], call'.fp)
    <3>1. call.pending \subseteq Gates
      BY DEF IInv, TypeOK, Calls
    <3> QED
      BY <1>1, <3>1, AskedOK DEF IInv, Answered
  <2> QED
    BY <1>1, <1>2, <1>4, <1>5, <2>2, <2>3, AskedOK DEF Answered, Differ
<1>7. /\ ApprovedGates \subseteq ApprovedGates' /\ ApprovedGates' \subseteq Gates
      /\ g \in ApprovedGates' /\ finished' \intersect Gates = {}
  BY <1>1, <1>4 DEF IInv, Backed
<1> QED
  BY <1>1, <1>6, <1>7, AskedOK, NodeIInv DEF GateDecides, At, Places, IInv, TypeOK

\* What a node returned is stored.
LEMMA SaveWritesIInv == ASSUME IInv, UNCHANGED plan, NEW s \in Steps, SaveWrites(s) PROVE IInv'
<1>1. Steps' = Steps /\ Gates' = Gates /\ Deps' = Deps /\ AllOff' = AllOff
  BY SamePlan
<1>2. /\ pc = "graph" /\ node[s] \in {"ok", "err"} /\ cp \in Checkpoints
      /\ UNCHANGED <<status, asked, resolved, finished, ver, pc, call>>
  BY DEF IInv, TypeOK, SaveWrites, At, log, steps
<1>3. node' \in [Steps -> Places] /\ node'[s] = "saved" /\ \A t \in Steps \ {s} : node'[t] = node[t]
  BY DEF IInv, TypeOK, SaveWrites, Goto, Places
<1>4. s \in cp.next /\ s \notin cp.saved /\ s \notin cp.bad
  BY <1>2 DEF IInv, Tasks
<1>5. /\ cp' \in Checkpoints /\ cp'.made = cp.made /\ cp'.done = cp.done /\ cp'.error = cp.error
      /\ cp'.next = cp.next /\ cp'.saved = cp.saved \union {s}
      /\ cp'.bad = IF node[s] = "err" THEN cp.bad \union {s} ELSE cp.bad
  <2>1. cp' = [cp EXCEPT !.saved = @ \union {s}, !.bad = IF node[s] = "err" THEN @ \union {s} ELSE @]
    BY DEF SaveWrites
  <2>2. (IF node[s] = "err" THEN cp.bad \union {s} ELSE cp.bad) \in SUBSET Steps
    BY <1>2 DEF Checkpoints
  <2> QED
    BY <1>2, <2>1, <2>2 DEF Checkpoints
<1>6. /\ WillBeDone \subseteq WillBeDone' /\ WillBeDone' \subseteq WillBeDone \union {s}
      /\ node[s] # "ok" => WillBeDone' = WillBeDone
  BY <1>2, <1>4, <1>5 DEF WillBeDone
<1>7. TypeOK'
  BY <1>1, <1>2, <1>3, <1>5, SameCall DEF IInv, TypeOK, Checkpoints, Statuses, Fingerprints
<1>8. Memory'
  BY <1>1, <1>2 DEF IInv, Memory
<1>9. Tasks'
  BY <1>1, <1>2, <1>3, <1>4, <1>5 DEF IInv, Tasks
<1>10. Backed'
  BY <1>1, <1>2, <1>3, <1>6 DEF IInv, Backed, ApprovedGates
<1>11. Reached'
  BY <1>1, <1>5 DEF IInv, Reached
<1>12. Answered'
  BY <1>2, SameAnswers DEF IInv
<1>13. Ahead'
  BY <1>2, <1>6 DEF IInv, Ahead
<1> QED
  BY <1>7, <1>8, <1>9, <1>10, <1>11, <1>12, <1>13 DEF IInv

LEMMA ClashIInv == IInv /\ UNCHANGED plan /\ Clash => IInv'
<1> SUFFICES ASSUME IInv, UNCHANGED plan, Clash PROVE IInv'
  OBVIOUS
<1>1. UNCHANGED <<plan, status, cp, asked, resolved, finished, ver, pc, node, call>>
  BY DEF Clash, log, steps
<1>2. Steps' = Steps /\ Gates' = Gates /\ Deps' = Deps /\ AllOff' = AllOff
  BY SamePlan
<1>3. TypeOK' /\ Answered'
  BY <1>1, <1>2, SameCall, SameAnswers DEF IInv, TypeOK, Checkpoints, Statuses, Fingerprints
<1>4. Memory' /\ Tasks' /\ Reached'
  BY <1>1, <1>2 DEF IInv, Memory, Tasks, Reached
<1>5. Backed' /\ Ahead'
  BY <1>1, <1>2 DEF IInv, Backed, Ahead, ApprovedGates, WillBeDone
<1> QED
  BY <1>3, <1>4, <1>5 DEF IInv

-----------------------------------------------------------------------------
(* The waves without LangGraph *)

\* What is neither in the checkpoint nor in the log of gates changes, between supersteps.
LEMMA OutsideIInv ==
  ASSUME IInv, UNCHANGED <<plan, cp, node, resolved>>, pc # "graph", pc' # "graph",
         status' \in Statuses', call' \in Calls', ver' \in [Files -> Vers],
         asked' \in [Gates -> Fingerprints],
         pc' \in {"idle", "invoke", "fallback"}, Memory',
         finished \subseteq finished', finished' \intersect Gates = {},
         status'.completed \subseteq status.completed \union finished',
         status'.engine = "graph" => status.engine = "graph" /\ status'.completed = status.completed,
         Answered'
  PROVE  IInv'
<1>1. Steps' = Steps /\ Gates' = Gates /\ Deps' = Deps /\ AllOff' = AllOff
  BY SamePlan
<1>2. TypeOK'
  BY <1>1 DEF IInv, TypeOK, Checkpoints, Fingerprints
<1>3. Tasks' /\ Reached'
  BY <1>1 DEF IInv, Tasks, Reached
<1>4. Backed'
  BY <1>1 DEF IInv, Backed, ApprovedGates, WillBeDone
<1>5. Ahead'
  <2>1. status'.engine \in {"graph", "fallback"}
    BY DEF Statuses
  <2> QED
    BY <2>1 DEF IInv, Ahead, WillBeDone
<1> QED
  BY <1>2, <1>3, <1>4, <1>5 DEF IInv

LEMMA FallbackIInv == ASSUME IInv, UNCHANGED plan, NEW s, Fallback(s) PROVE IInv'
<1>1. Steps' = Steps /\ Gates' = Gates /\ Deps' = Deps /\ AllOff' = AllOff
  BY SamePlan
<1>2. /\ status' = [status EXCEPT !.engine = "fallback"] /\ node' = AllOff /\ pc' = "fallback"
      /\ pc = "graph" /\ UNCHANGED <<cp, asked, resolved, finished, ver, call>> /\ call.answer = "run"
  BY DEF Fallback, log, steps
<1>3. status' \in Statuses' /\ status'.completed = status.completed /\ status'.engine = "fallback"
      /\ status'.state = status.state
  BY <1>1, <1>2 DEF IInv, TypeOK, Statuses
<1>4. TypeOK' /\ Answered'
  BY <1>1, <1>2, <1>3, SameCall, SameAnswers, AllOffOK DEF IInv, TypeOK, Checkpoints, Fingerprints
<1>5. Memory' /\ Tasks' /\ Reached'
  BY <1>1, <1>2, <1>3 DEF IInv, Memory, Tasks, Reached
<1>6. Backed' /\ Ahead'
  BY <1>1, <1>2, <1>3, AllOffOK DEF IInv, Backed, Ahead, ApprovedGates, WillBeDone
<1> QED
  BY <1>4, <1>5, <1>6 DEF IInv

LEMMA FallbackGateIInv == ASSUME IInv, UNCHANGED plan, NEW s \in Steps, FallbackGate(s) PROVE IInv'
<1>1. Steps' = Steps
  BY SamePlan
<1>2. status' = [status EXCEPT !.state = "paused_human_gate", !.paused = s]
  BY DEF FallbackGate
<1>3. status' \in Statuses' /\ status'.completed = status.completed /\ status'.engine = status.engine
      /\ status'.state # "done"
  BY <1>1, <1>2 DEF IInv, TypeOK, Statuses, States, Resumable
<1>4. asked' \in [Gates -> Fingerprints] /\ ver' \in [Files -> Vers]
  BY DEF IInv, TypeOK, FallbackGate, steps, Fingerprint, Fingerprints
<1> QED
  BY <1>3, <1>4, ReturnOK DEF FallbackGate

LEMMA FallbackStepIInv == ASSUME IInv, UNCHANGED plan, NEW s \in Steps, FallbackStep(s) PROVE IInv'
<1>1. Steps' = Steps
  BY SamePlan
<1>2. /\ status' = [status EXCEPT !.completed = @ \union {s}] /\ finished' = finished \union {s}
      /\ s \notin Gates /\ pc = "fallback" /\ UNCHANGED <<pc, cp, asked, resolved, node, call>>
  BY DEF FallbackStep, FallbackAt, graph
<1>3. /\ status' \in Statuses' /\ status'.completed = status.completed \union {s}
      /\ status'.engine = status.engine /\ status'.state = status.state
  BY <1>1, <1>2 DEF IInv, TypeOK, Statuses
<1>4. call' \in Calls' /\ Answered'
  BY <1>2, SameCall, SameAnswers DEF IInv
<1>5. ver' \in [Files -> Vers] /\ asked' \in [Gates -> Fingerprints]
  BY <1>2, WriteArtifactOK DEF IInv, TypeOK, FallbackStep
<1>6. Memory' /\ status.engine = "fallback"
  BY <1>1, <1>2, <1>3, SamePlan DEF IInv, Memory
<1>7. finished' \intersect Gates = {}
  BY <1>2 DEF IInv, Backed
<1> QED
  BY <1>2, <1>3, <1>4, <1>5, <1>6, <1>7, OutsideIInv

LEMMA FallbackFailsIInv == ASSUME IInv, UNCHANGED plan, NEW s \in Steps, FallbackFails(s) PROVE IInv'
<1>1. Steps' = Steps
  BY SamePlan
<1>2. status' = [status EXCEPT !.state = "failed"]
  BY DEF FallbackFails
<1>3. status' \in Statuses' /\ status'.completed = status.completed /\ status'.engine = status.engine
      /\ status'.state # "done"
  BY <1>1, <1>2 DEF IInv, TypeOK, Statuses, States, Terminal
<1>4. asked' \in [Gates -> Fingerprints] /\ ver' \in [Files -> Vers]
  BY DEF IInv, TypeOK, FallbackFails, log
<1> QED
  BY <1>3, <1>4, ReturnOK DEF FallbackFails, log

LEMMA FallbackPausesIInv ==
  ASSUME IInv, UNCHANGED plan, NEW s \in Steps, NEW kind \in Pauses, FallbackPauses(s, kind)
  PROVE  IInv'
<1>1. kind \in {"wait", "budget", "tool"}
  BY PlanAssumption
<1>2. StateOf(kind) \in {"waiting_external", "paused_budget", "paused_human_gate"}
  BY <1>1 DEF StateOf
<1>3. Steps' = Steps
  BY SamePlan
<1>4. status' \in Statuses' /\ status'.completed = status.completed /\ status'.engine = status.engine
      /\ status'.state # "done"
  BY <1>2, <1>3 DEF IInv, TypeOK, Statuses, States, Resumable, FallbackPauses
<1>5. asked' \in [Gates -> Fingerprints] /\ ver' \in [Files -> Vers]
  BY DEF IInv, TypeOK, FallbackPauses, log
<1> QED
  BY <1>4, <1>5, ReturnOK DEF FallbackPauses, log

\* The fallback comes to its end when it has completed every step.
LEMMA FallbackEndsIInv == IInv /\ UNCHANGED plan /\ FallbackEnds => IInv'
<1> SUFFICES ASSUME IInv, UNCHANGED plan, FallbackEnds PROVE IInv'
  OBVIOUS
<1>1. Steps' = Steps
  BY SamePlan
<1>2. PICK state \in {"done", "failed"} : status' = [status EXCEPT !.state = state]
  BY DEF FallbackEnds
<1>3. status' \in Statuses' /\ status'.completed = Steps /\ status'.completed = status.completed
      /\ status'.engine = status.engine
  BY <1>1, <1>2 DEF IInv, TypeOK, Statuses, States, Terminal, FallbackEnds
<1>4. asked' \in [Gates -> Fingerprints] /\ ver' \in [Files -> Vers]
  BY DEF IInv, TypeOK, FallbackEnds, log, steps
<1> QED
  BY <1>3, <1>4, ReturnOK DEF FallbackEnds, log

-----------------------------------------------------------------------------
(* People, workers, kills *)

LEMMA RunPlanIInv == IInv /\ UNCHANGED plan /\ RunPlan => IInv'
<1> SUFFICES ASSUME IInv, UNCHANGED plan, RunPlan PROVE IInv'
  OBVIOUS
<1>1. Steps' = Steps /\ Gates' = Gates /\ Deps' = Deps /\ AllOff' = AllOff
  BY SamePlan
<1>2. /\ pc = "idle" /\ pc' = "launch" /\ status' = Absent /\ cp' = NoCheckpoint
      /\ asked' = [g \in Gates |-> NoFingerprint]
      /\ resolved' = {} /\ finished' = {} /\ ver' = [ver EXCEPT ![PlanFile] = 1]
      /\ UNCHANGED <<node, call>>
  BY DEF RunPlan, graph
<1>3. node = AllOff /\ call = NoCall
  BY <1>2 DEF IInv, Memory
<1>4. TypeOK'
  <2>1. status' \in Statuses'
    BY <1>2 DEF Statuses, States, Absent
  <2>2. cp' \in Checkpoints'
    BY <1>2 DEF Checkpoints, NoCheckpoint
  <2>3. ver' \in [Files -> Vers]
    <3>1. 1 \in Vers
      BY PlanAssumption DEF Vers
    <3> QED
      BY <1>2, <3>1 DEF IInv, TypeOK
  <2>4. asked' \in [Gates -> Fingerprints]
    BY <1>2, NoCallOK
  <2> QED
    BY <1>1, <1>2, <2>1, <2>2, <2>3, <2>4, SameCall DEF IInv, TypeOK, Fingerprints
<1>5. Memory' /\ Tasks' /\ Reached'
  BY <1>1, <1>2, <1>3 DEF Memory, Tasks, Reached, NoCheckpoint, Absent, NoCall
<1>6. Backed' /\ Ahead'
  BY <1>1, <1>2, <1>3, AllOffOK DEF Backed, Ahead, WillBeDone, ApprovedGates, Absent, NoCheckpoint
<1>7. Answered'
  BY <1>2, <1>3 DEF Answered, ApprovesWhatWasAsked, NoCall, Approved
<1> QED
  BY <1>4, <1>5, <1>6, <1>7 DEF IInv

LEMMA RenewRequestIInv == ASSUME IInv, UNCHANGED plan, NEW g \in Gates, RenewRequest(g) PROVE IInv'
<1>1. /\ pc = "idle" /\ asked' = [asked EXCEPT ![g] = ver]
      /\ UNCHANGED <<status, cp, resolved, finished, ver, pc, node, call>>
  BY DEF RenewRequest, Load, Fingerprint, graph, steps
<1>2. call = NoCall
  BY <1>1 DEF IInv, Memory
<1>3. asked' \in [Gates -> Fingerprints]
  BY <1>1 DEF IInv, TypeOK, Fingerprints
<1>4. status' \in Statuses' /\ Memory'
  BY <1>1, SamePlan DEF IInv, TypeOK, Statuses, Memory
<1>5. Answered'
  BY <1>1, <1>2 DEF IInv, Answered, ApprovesWhatWasAsked, NoCall, Approved, Differ, NoFingerprint
<1> QED
  BY <1>1, <1>3, <1>4, <1>5, SameCall, OutsideIInv DEF IInv, TypeOK, Backed

LEMMA RejectRunIInv == IInv /\ UNCHANGED plan /\ RejectRun => IInv'
<1> SUFFICES ASSUME IInv, UNCHANGED plan, RejectRun PROVE IInv'
  OBVIOUS
<1>1. Steps' = Steps /\ Gates' = Gates /\ Deps' = Deps /\ AllOff' = AllOff
  BY SamePlan
<1> DEFINE r == [step |-> status.paused, decision |-> "reject", fp |-> NoFingerprint,
                 asked |-> NoFingerprint, waited |-> FALSE]
<1>2. resolved' = resolved \union {r} /\ r.decision = "reject"
  BY DEF RejectRun
<1> HIDE DEF r
<1>3. /\ pc = "idle" /\ status' = [status EXCEPT !.state = "rejected"]
      /\ UNCHANGED <<cp, asked, finished, ver, pc, node, call>>
  BY DEF RejectRun, Load, graph, steps
<1>4. status' \in Statuses' /\ status'.completed = status.completed /\ status'.engine = status.engine
      /\ status'.state # "done"
  BY <1>1, <1>3 DEF IInv, TypeOK, Statuses, States, Terminal
<1>5. ApprovedGates' = ApprovedGates
  BY <1>2 DEF ApprovedGates, Approved
<1>6. call = NoCall
  BY <1>3 DEF IInv, Memory
<1>7. TypeOK'
  BY <1>1, <1>3, <1>4, SameCall DEF IInv, TypeOK, Checkpoints, Fingerprints
<1>8. Memory' /\ Tasks' /\ Reached'
  BY <1>1, <1>3, <1>4 DEF IInv, Memory, Tasks, Reached
<1>9. Backed' /\ Ahead'
  BY <1>1, <1>3, <1>4, <1>5 DEF IInv, Backed, Ahead, WillBeDone
<1>10. Answered'
  BY <1>2, <1>3, <1>6 DEF IInv, Answered, ApprovesWhatWasAsked, NoCall, Approved, Differ, NoFingerprint
<1> QED
  BY <1>7, <1>8, <1>9, <1>10 DEF IInv

\* What a resume takes along: the gates that wait, and what was on disk when it was checked.
LEMMA NewCallOK ==
  ASSUME IInv, UNCHANGED <<plan, asked, resolved>>, NEW d \in Approved, call' = NewCall(d),
         StillAsAsked(d)
  PROVE  call' \in Calls' /\ call'.answer = d /\ Answered'
<1>1. Gates' = Gates
  BY SamePlan
<1>2. Pending \subseteq Gates /\ ver \in Fingerprints
  BY DEF IInv, TypeOK, Pending, Fingerprints
<1>3. call' = [answer |-> d, pending |-> Pending, fp |-> ver, new |-> {}]
  BY DEF NewCall, Fingerprint
<1>4. call' \in Calls'
  BY <1>1, <1>2, <1>3 DEF Calls, Fingerprints
<1>5. Answered'
  BY <1>1, <1>3 DEF IInv, Answered, ApprovesWhatWasAsked, Pending, ResolvedGates, StillAsAsked, Changed,
     Differ, NoFingerprint
<1> QED
  BY <1>3, <1>4, <1>5

LEMMA ResumeToolIInv == ASSUME IInv, UNCHANGED plan, NEW d, ResumeTool(d) PROVE IInv'
<1>1. /\ pc = "idle" /\ pc' = "invoke" /\ status' = [status EXCEPT !.state = "running", !.tool = FALSE]
      /\ call' = NewCall("approve") /\ UNCHANGED <<cp, asked, resolved, finished, ver, node>>
      /\ Pending = {}
  BY DEF ResumeTool, Load, log, steps
<1>2. Steps' = Steps
  BY SamePlan
<1>3. status' \in Statuses' /\ status'.completed = status.completed /\ status'.engine = status.engine
      /\ status'.state # "done"
  BY <1>1, <1>2 DEF IInv, TypeOK, Statuses, States, Resumable
<1>4. call' \in Calls' /\ call'.answer = "approve" /\ Answered'
  BY <1>1, NewCallOK DEF StillAsAsked, Approved
<1>5. Memory'
  BY <1>1, <1>3, <1>4, SamePlan DEF IInv, Memory
<1> QED
  BY <1>1, <1>3, <1>4, <1>5, OutsideIInv DEF IInv, TypeOK, Backed

LEMMA ResumeIInv == ASSUME IInv, UNCHANGED plan, NEW d, Resume(d) PROVE IInv'
<1>1. /\ pc = "idle" /\ pc' = "invoke" /\ call' = NewCall(d) /\ d \in Approved /\ StillAsAsked(d)
      /\ UNCHANGED <<status, cp, asked, resolved, finished, ver, node>>
      /\ status.state \in Resumable \union {"paused_budget"}
  BY DEF Resume, Load, log, steps
<1>2. status' \in Statuses'
  BY <1>1, SamePlan DEF IInv, TypeOK, Statuses
<1>3. call' \in Calls' /\ call'.answer = d /\ Answered'
  BY <1>1, NewCallOK
<1>4. Memory'
  BY <1>1, <1>3, SamePlan DEF IInv, Memory, Approved, Resumable
<1> QED
  BY <1>1, <1>2, <1>3, <1>4, OutsideIInv DEF IInv, TypeOK, Backed

\* Files that the invariant does not speak of.
LEMMA WorldIInv ==
  ASSUME IInv, UNCHANGED <<plan, status, cp, log, pc, graph>>, ver' \in [Files -> Vers]
  PROVE  IInv'
<1>1. Steps' = Steps /\ Gates' = Gates /\ Deps' = Deps /\ AllOff' = AllOff
  BY SamePlan
<1>2. UNCHANGED <<asked, resolved, finished, node, call>>
  BY DEF log, graph
<1>3. TypeOK' /\ Answered'
  BY <1>1, <1>2, SameCall, SameAnswers DEF IInv, TypeOK, Checkpoints, Statuses, Fingerprints
<1>4. Memory' /\ Tasks' /\ Reached'
  BY <1>1, <1>2 DEF IInv, Memory, Tasks, Reached
<1>5. Backed' /\ Ahead'
  BY <1>1, <1>2 DEF IInv, Backed, Ahead, ApprovedGates, WillBeDone
<1> QED
  BY <1>3, <1>4, <1>5 DEF IInv

-----------------------------------------------------------------------------
(* Every step *)

LEMMA NodesIInv == ASSUME IInv, UNCHANGED plan, NEW s \in Steps, Node(s) PROVE IInv'
BY AlreadyDoneIInv, GateStopsIInv, GateDecidesIInv, RequestIInv, WorkIInv, FailIInv, TearIInv,
   PauseIInv, SaveWritesIInv DEF Node

LEMMA FallbackNodesIInv == ASSUME IInv, UNCHANGED plan, NEW s \in Steps, FallbackNode(s) PROVE IInv'
<1>1. CASE FallbackRaises(s)
  BY <1>1, SameStatus DEF FallbackRaises, steps
<1> QED
  BY <1>1, FallbackGateIInv, FallbackStepIInv, FallbackFailsIInv, FallbackPausesIInv DEF FallbackNode

LEMMA EngineIInv == IInv /\ Engine => IInv'
<1> SUFFICES ASSUME IInv, Engine PROVE IInv'
  OBVIOUS
<1>1. UNCHANGED plan
  BY DEF Engine
<1>2. ASSUME NEW max \in Budgets, RefuseLarge(max) \/ Launch(max) PROVE IInv'
  BY <1>1, <1>2, RefuseLargeIInv, LaunchIInv
<1>3. CASE InvokeFails
  BY <1>1, <1>3, SameStatus DEF InvokeFails, steps
<1>4. ASSUME NEW s \in Steps, Node(s) \/ FallbackNode(s) PROVE IInv'
  BY <1>1, <1>4, NodesIInv, FallbackNodesIInv
<1>5. ASSUME NEW s \in 0 .. N, ResumeRaises(s) \/ Fallback(s) PROVE IInv'
  <2>1. CASE ResumeRaises(s)
    BY <1>1, <2>1, SameStatus DEF ResumeRaises, steps
  <2> QED
    BY <1>1, <1>5, <2>1, FallbackIInv
<1>6. ASSUME NEW counted \in BOOLEAN, Interrupted(counted) PROVE IInv'
  BY <1>1, <1>6, InterruptedIInv
<1>7. ASSUME NEW s \in Steps, NEW kind \in Pauses, StepStops(s, kind) PROVE IInv'
  BY <1>1, <1>7, StepStopsIInv
<1> QED
  BY <1>1, <1>2, <1>3, <1>4, <1>5, <1>6, <1>7, InvokeIInv, BarrierIInv, ClashIInv, ConcludeIInv,
     FallbackEndsIInv DEF Engine

LEMMA OthersIInv == IInv /\ World /\ UNCHANGED plan => IInv'
<1> SUFFICES ASSUME IInv, World, UNCHANGED plan PROVE IInv'
  OBVIOUS
<1>1. ASSUME NEW s \in Steps, NEW r \in Answers, ExternalResult(s, r) PROVE IInv'
  BY <1>1, WorldIInv DEF ExternalResult, IInv, TypeOK
<1>2. ASSUME NEW f \in Files, NEW v \in Vers, EditFile(f, v) PROVE IInv'
  BY <1>2, WorldIInv DEF EditFile, IInv, TypeOK
<1>3. CASE Kill
  BY <1>3, SameStatus DEF Kill, steps
<1>4. ASSUME NEW g \in Gates, RenewRequest(g) PROVE IInv'
  BY <1>4, RenewRequestIInv
<1>5. ASSUME NEW d \in Decisions, ResumeTool(d) \/ Resume(d) PROVE IInv'
  BY <1>5, ResumeToolIInv, ResumeIInv
<1> QED
  BY <1>1, <1>2, <1>3, <1>4, <1>5, RunPlanIInv, RejectRunIInv DEF World

LEMMA NextIInv == IInv /\ [Next]_vars => IInv'
<1>1. CASE Next
  BY <1>1, EngineIInv, OthersIInv DEF Next
<1>2. ASSUME IInv, UNCHANGED vars PROVE IInv'
  BY <1>2, WorldIInv DEF vars, log, graph, steps, IInv, TypeOK
<1> QED
  BY <1>1, <1>2

-----------------------------------------------------------------------------
(* The theorems *)

\* The log, the checkpoint, the status and the process agree as IInv says they do, for
\* every plan without a cycle, every number of runs, edits and kills.
THEOREM Inductive == Spec => []IInv
BY InitIInv, NextIInv, PTL DEF Spec

\* What status.json or the checkpoint counts as completed was done in this run.
THEOREM CompletedWorkIsBacked == Spec => []CompletedIsBacked
<1>1. IInv => CompletedIsBacked
  BY DEF IInv, Backed, WillBeDone, CompletedIsBacked
<1> QED
  BY <1>1, Inductive, PTL

\* An approve that a gate takes from a resume is of what the gate's request showed, though
\* the resume may have been meant for another gate or for a tool.
THEOREM ApprovalsAreOfWhatWasAsked == Spec => []ApprovesWhatWasAsked
<1>1. IInv => ApprovesWhatWasAsked
  BY DEF IInv, Answered
<1> QED
  BY <1>1, Inductive, PTL

\* Only a step of the plan that is no gate fails, and runs counts runs.
FailedIsWork == failed \subseteq Steps \ Gates /\ runs \in Nat

LEMMA FailedStep == IInv /\ FailedIsWork /\ [Next]_vars => FailedIsWork'
<1> SUFFICES ASSUME IInv, FailedIsWork, [Next]_vars PROVE FailedIsWork'
  OBVIOUS
<1>1. Steps' = Steps /\ Gates' = Gates
  BY SamePlan DEF Next, Engine, vars
<1>2. /\ failed' = failed \/ failed' = {} \/ \E s \in Steps : Fail(s)
      /\ runs' = runs \/ RunPlan
  <2>1. ASSUME NEW s \in Steps, Node(s) PROVE (failed' = failed \/ Fail(s)) /\ runs' = runs
    <3>1. CASE AlreadyDone(s) \/ GateStops(s) \/ GateDecides(s)
      BY <3>1 DEF AlreadyDone, GateStops, GateDecides, log, bounds
    <3>2. CASE Request(s) \/ Work(s) \/ Fail(s) \/ Tear(s) \/ SaveWrites(s)
      BY <3>2 DEF Request, Work, Fail, Tear, SaveWrites, log, bounds
    <3>3. ASSUME NEW kind, Pause(s, kind) PROVE failed' = failed /\ runs' = runs
      BY <3>3 DEF Pause, log, bounds
    <3> QED
      BY <2>1, <3>1, <3>2, <3>3 DEF Node
  <2>2. ASSUME NEW s \in Steps, FallbackNode(s) PROVE failed' = failed /\ runs' = runs
    BY <2>2 DEF FallbackNode, log, bounds, FallbackGate, FallbackStep, FallbackFails, FallbackPauses, FallbackRaises
  <2>3. ASSUME NEW max, RefuseLarge(max) \/ Launch(max) PROVE failed' = failed /\ runs' = runs
    BY <2>3 DEF RefuseLarge, Launch, log, bounds
  <2>4. ASSUME NEW s, ResumeRaises(s) \/ Fallback(s) PROVE failed' = failed /\ runs' = runs
    BY <2>4 DEF ResumeRaises, Fallback, log, bounds
  <2>5. CASE Invoke \/ InvokeFails \/ Barrier \/ Clash \/ Conclude \/ FallbackEnds
    BY <2>5 DEF Invoke, InvokeFails, Barrier, Clash, Conclude, FallbackEnds, log, bounds
  <2>6. ASSUME NEW counted, Interrupted(counted) PROVE failed' = failed /\ runs' = runs
    BY <2>6 DEF Interrupted, log, bounds
  <2>7. ASSUME NEW s, NEW kind, StepStops(s, kind) PROVE failed' = failed /\ runs' = runs
    BY <2>7 DEF StepStops, log, bounds
  <2>8. CASE Engine
    BY <2>1, <2>2, <2>3, <2>4, <2>5, <2>6, <2>7, <2>8 DEF Engine
  <2>9. ASSUME World PROVE (failed' = failed \/ failed' = {}) /\ (runs' = runs \/ RunPlan)
    BY <2>9 DEF World, RunPlan, RenewRequest, RejectRun, ResumeTool, Resume, ExternalResult, EditFile, Kill, log, bounds
  <2> QED
    BY <2>8, <2>9 DEF Next, vars, log, bounds
<1>3. ASSUME NEW s \in Steps, Fail(s) PROVE failed' \subseteq Steps \ Gates
  BY <1>3 DEF IInv, Tasks, Fail, At, FailedIsWork
<1> QED
  BY <1>1, <1>2, <1>3 DEF FailedIsWork, RunPlan

LEMMA LoggedWork == Spec => []FailedIsWork
<1>1. Init => FailedIsWork
  BY DEF Init, FailedIsWork
<1> QED
  BY <1>1, FailedStep, Inductive, PTL DEF Spec

\* A run that says done has done every step and passed every gate, whatever the shape of
\* the plan: the graph is not over before every step was reached.
THEOREM DoneRunsAreComplete == Spec => []DoneIsComplete
<1>1. IInv /\ FailedIsWork => DoneIsComplete
  <2> SUFFICES ASSUME IInv, FailedIsWork, status.state = "done"
               PROVE  status.completed = Steps /\ failed \subseteq finished /\ Gates \subseteq ApprovedGates
    BY DEF DoneIsComplete
  <2>1. status.completed = Steps
    BY DEF IInv, Memory
  <2>2. Steps \subseteq finished \union ApprovedGates /\ finished \intersect Gates = {}
        /\ ApprovedGates \subseteq Gates
    BY <2>1 DEF IInv, Backed
  <2>3. Gates \subseteq Steps
    BY PlanFacts DEF IInv, TypeOK
  <2> QED
    BY <2>1, <2>2, <2>3 DEF FailedIsWork
<1> QED
  BY <1>1, LoggedWork, Inductive, PTL

\* The steps a status counts as completed are not forgotten within a run, by whatever call
\* writes it next.
THEOREM StatusKeepsProgress == Spec => ProgressKept
<1> DEFINE Step == runs' = runs /\ status.state # "absent" => status.completed \subseteq status'.completed
<1>1. IInv /\ FailedIsWork /\ [Next]_vars => [Step]_vars
  <2> SUFFICES ASSUME IInv, FailedIsWork, Next, runs' = runs, status.state # "absent"
               PROVE  status.completed \subseteq status'.completed
    BY DEF vars
  <2>1. status \in Statuses /\ pc # "launch"
    BY DEF IInv, TypeOK, Memory, Absent
  <2>2. status \in [state : States, engine : {"graph", "fallback"}, completed : SUBSET Steps,
                    paused : {status.paused}, tool : BOOLEAN]
    BY <2>1 DEF Statuses
  <2>3. ASSUME NEW done, NEW error PROVE Verdict(done, error).completed = status.completed \union done
    BY <2>2 DEF Verdict, CompletedWith
  <2>4. ASSUME NEW s \in Steps, Node(s) PROVE status' = status
    BY <2>4 DEF Node, AlreadyDone, GateStops, GateDecides, Request, Work, Fail, Pause, Tear, SaveWrites
  <2>5. ASSUME NEW s \in Steps, FallbackNode(s) PROVE status.completed \subseteq status'.completed
    BY <2>2, <2>5 DEF FallbackNode, FallbackGate, FallbackStep, FallbackFails, FallbackPauses, FallbackRaises
  <2>6. ASSUME NEW max, RefuseLarge(max) \/ Launch(max) PROVE FALSE
    BY <2>1, <2>6 DEF RefuseLarge, Launch
  <2>7. ASSUME NEW s, ResumeRaises(s) \/ Fallback(s) PROVE status.completed \subseteq status'.completed
    BY <2>2, <2>7 DEF ResumeRaises, Fallback
  <2>8. CASE Invoke \/ InvokeFails \/ Barrier \/ Clash
    BY <2>8 DEF Invoke, InvokeFails, Barrier, Clash
  <2>9. CASE Conclude \/ FallbackEnds
    BY <2>2, <2>3, <2>9 DEF Conclude, FallbackEnds
  <2>10. ASSUME NEW counted, Interrupted(counted) PROVE status.completed \subseteq status'.completed
    BY <2>3, <2>10 DEF Interrupted
  <2>11. ASSUME NEW s, NEW kind, StepStops(s, kind) PROVE status.completed \subseteq status'.completed
    BY <2>2, <2>11 DEF StepStops, CompletedWith
  <2>12. CASE Engine
    BY <2>4, <2>5, <2>6, <2>7, <2>8, <2>9, <2>10, <2>11, <2>12 DEF Engine
  <2>13. ~RunPlan
    BY DEF RunPlan, FailedIsWork
  <2>14. CASE World
    BY <2>2, <2>13, <2>14 DEF World, RenewRequest, RejectRun, ResumeTool, Resume, ExternalResult, EditFile, Kill
  <2> QED
    BY <2>12, <2>14 DEF Next
<1> QED
  BY <1>1, Inductive, LoggedWork, PTL DEF Spec, ProgressKept

\* A step the status counts as completed is in the checkpoint, as done or in its stored
\* writes, so no superstep works on it again; only a run that fell back has more in its
\* status than in its checkpoint.
THEOREM NothingDoneTwice == Spec => NoRework
<1> DEFINE Step == \A s \in Steps : node[s] = "todo" /\ node'[s] = "working" /\ s \in status.completed
                                      => status.engine = "fallback"
<1>1. IInv /\ [Next]_vars => [Step]_vars
  <2> SUFFICES ASSUME IInv, Next, NEW s \in Steps, node[s] = "todo", node'[s] = "working",
                      s \in status.completed
               PROVE  status.engine = "fallback"
    BY DEF vars
  <2>1. node \in [Steps -> Places] /\ pc = "graph" /\ s \in cp.next /\ s \notin cp.saved
    BY AllOffOK DEF IInv, TypeOK, Memory, Tasks
  <2>2. ASSUME NEW t \in Steps, Node(t) PROVE Request(s)
    <3>1. ASSUME NEW place \in Places \ {"working"}, Goto(t, place) PROVE FALSE
      BY <2>1, <3>1 DEF Goto
    <3>2. Request(t)
      <4>1. CASE AlreadyDone(t) \/ GateStops(t) \/ GateDecides(t)
        BY <3>1, <4>1 DEF AlreadyDone, GateStops, GateDecides, Places
      <4>2. CASE Work(t) \/ Fail(t) \/ Tear(t) \/ SaveWrites(t)
        BY <3>1, <4>2 DEF Work, Fail, ReturnsError, Tear, SaveWrites, Places
      <4>3. ASSUME NEW kind, Pause(t, kind) PROVE FALSE
        BY <3>1, <4>3 DEF Pause, Places
      <4> QED
        BY <2>2, <4>1, <4>2, <4>3 DEF Node
    <3> QED
      BY <2>1, <3>2 DEF Request, Goto
  <2>3. ASSUME Return PROVE FALSE
    BY <2>3, SamePlan, AllOffOK DEF Return, Next, Engine
  <2>4. ASSUME node' = node \/ node' = AllOff PROVE FALSE
    BY <2>1, <2>4, AllOffOK
  <2>5. ASSUME node' = Superstep(cp') PROVE FALSE
    <3>1. Steps' = Steps
      BY SamePlan DEF Next, Engine
    <3> QED
      BY <2>5 DEF Superstep
  <2>6. PICK t \in Steps : Node(t)
    <3>1. ASSUME NEW t \in Steps, FallbackNode(t) PROVE FALSE
      BY <2>3, <2>4, <3>1 DEF FallbackNode, graph, FallbackGate, FallbackStep, FallbackFails, FallbackPauses,
         FallbackRaises
    <3>2. ASSUME NEW max, RefuseLarge(max) \/ Launch(max) PROVE FALSE
      BY <2>3, <2>4, <3>2 DEF RefuseLarge, Launch
    <3>3. ASSUME NEW t, ResumeRaises(t) \/ Fallback(t) PROVE FALSE
      BY <2>3, <2>4, <3>3 DEF ResumeRaises, Fallback
    <3>4. ~(Invoke \/ InvokeFails \/ Barrier \/ Clash \/ Conclude \/ FallbackEnds)
      BY <2>3, <2>4, <2>5 DEF Invoke, InvokeFails, Barrier, Clash, Conclude, FallbackEnds
    <3>5. ASSUME NEW counted, Interrupted(counted) PROVE FALSE
      BY <2>3, <3>5 DEF Interrupted
    <3>6. ASSUME NEW t, NEW kind, StepStops(t, kind) PROVE FALSE
      BY <2>3, <3>6 DEF StepStops
    <3>7. ~World
      BY <2>3, <2>4 DEF World, RunPlan, RenewRequest, RejectRun, ResumeTool, Resume, ExternalResult, EditFile,
         Kill, graph
    <3> QED
      BY <3>1, <3>2, <3>3, <3>4, <3>5, <3>6, <3>7 DEF Next, Engine
  <2>7. s \notin cp.done
    BY <2>2, <2>6 DEF Request
  <2> QED
    BY <2>1, <2>7 DEF IInv, Ahead, WillBeDone
<1> QED
  BY <1>1, Inductive, PTL DEF Spec, NoRework

=============================================================================
