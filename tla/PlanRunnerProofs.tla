-------------------------- MODULE PlanRunnerProofs --------------------------
(***************************************************************************)
(* The safety of the native engine for every plan, every number of engine   *)
(* processes and every bound: IInv of PlanRunner is inductive, and the      *)
(* invariants that the runs check on small plans follow from it.            *)
(***************************************************************************)
EXTENDS PlanRunner, FiniteSetTheorems, TLAPS

USE PlanAssumption, BoundAssumption

-----------------------------------------------------------------------------
(* Facts about the data *)

LEMMA CardInitial == ASSUME NEW k \in Nat PROVE Cardinality(1 .. k) = k
  BY FS_Interval

LEMMA AbsentOK == Absent \in Statuses /\ Absent.state = "absent" /\ Absent.completed = {}
  BY DEF Absent, Statuses, Resumable, Terminal

\* What a pause writes is a status.
LEMMA PausedStatus ==
  ASSUME NEW s \in Statuses, NEW state \in Resumable, NEW i \in Steps, NEW tool \in BOOLEAN
  PROVE  /\ [s EXCEPT !.state = state, !.paused = i] \in Statuses
         /\ [s EXCEPT !.state = state, !.paused = i, !.tool = tool] \in Statuses
<1>1. i \in 0 .. N
  BY DEF Steps
<1>2. [s EXCEPT !.state = state] \in Statuses
  BY DEF Statuses
<1>3. [[s EXCEPT !.state = state] EXCEPT !.paused = i] \in Statuses
  BY <1>1, <1>2 DEF Statuses
<1>4. [[[s EXCEPT !.state = state] EXCEPT !.paused = i] EXCEPT !.tool = tool] \in Statuses
  BY <1>3 DEF Statuses
<1> QED
  BY <1>3, <1>4

LEMMA AbsentCopy == CopyOK(Absent)
<1>1. 0 \in 0 .. N /\ 0 <= BudgetSteps /\ {} = 1 .. 0
  OBVIOUS
<1> QED
  BY <1>1, AbsentOK DEF CopyOK, Resumable

\* The copy of plan.yaml is in every fingerprint.
LEMMA FingerprintOK ==
  ASSUME ver \in [Files -> Vers]
  PROVE  /\ Fingerprint \in Fingerprints
         /\ NoFingerprint \in Fingerprints
         /\ ver[PlanFile] # 0 => Fingerprint # NoFingerprint
<1>1. PlanFile \in Approvable
  BY DEF PlanFile, Approvable, Files, Steps
<1>2. Approvable \subseteq Files
  BY DEF Approvable
<1>3. Fingerprint \in Fingerprints /\ NoFingerprint \in Fingerprints
  BY <1>2 DEF Fingerprint, NoFingerprint, Fingerprints, Vers
<1>4. Fingerprint[PlanFile] = ver[PlanFile] /\ NoFingerprint[PlanFile] = 0
  BY <1>1 DEF Fingerprint, NoFingerprint
<1> QED
  BY <1>3, <1>4

\* The logs, the results and the requests only grow.
Grows ==
    /\ runs' \in Nat /\ runs <= runs'
    /\ resolved \subseteq resolved'
    /\ finished \subseteq finished'
    /\ planDone \subseteq planDone'
    /\ \A i \in Steps : result[i] \in {"ok", "bare"} => result'[i] \in {"ok", "bare"}
    /\ \A r \in Runs, g \in Gates :
           asked[r][g] # NoFingerprint => asked'[r][g] # NoFingerprint

\* So what was true of a copy of the status stays true of it.
LEMMA Carry ==
  ASSUME TypeOK, Grows, NEW s, CopyOK(s)
  PROVE  CopyOK(s)'
<1>1. CopyOK(s)
  OBVIOUS
<1>2. runs \in Nat /\ runs' \in Nat /\ runs <= runs' /\ 1 .. runs \subseteq Runs
  BY DEF TypeOK, LogTypes, Grows, Runs
<1>3. s.state # "absent" => s.run \in 1 .. runs'
  BY <1>1, <1>2 DEF CopyOK
<1>4. \A g \in s.completed \cap Gates : ApprovedIn(s.run, g)'
  BY <1>1 DEF CopyOK, Grows, ApprovedIn
<1>5. \A i \in s.completed \ Gates :
          /\ <<s.run, i>> \in finished'
          /\ s.mode = "external" => result'[i] \in {"ok", "bare"}
  <2>1. s.completed \subseteq Steps
    BY <1>1 DEF CopyOK, Statuses
  <2> QED
    BY <1>1, <2>1 DEF CopyOK, Grows
<1>6. s.state \in Resumable \ {"running"} /\ s.paused \in Gates =>
          asked'[s.run][s.paused] # NoFingerprint'
  <2>1. NoFingerprint' = NoFingerprint
    BY DEF NoFingerprint
  <2>2. s.state \in Resumable => s.run \in Runs
    BY <1>1, <1>2 DEF CopyOK, Resumable
  <2> QED
    BY <1>1, <2>1, <2>2 DEF CopyOK, Grows
<1>7. s.state = "done" => s.completed = Steps /\ s.run \in planDone'
  BY <1>1 DEF CopyOK, Grows
<1> QED
  BY <1>1, <1>3, <1>4, <1>5, <1>6, <1>7 DEF CopyOK

\* A run ends without being done, or goes on with the same work behind it.
LEMMA SameWork ==
  ASSUME TypeOK, Grows, NEW s, CopyOK(s), s.state # "absent",
         NEW t \in Statuses,
         t.run = s.run, t.mode = s.mode, t.completed = s.completed,
         \/ t.state \in {"failed", "rejected", "aborted_budget", "aborted_operator"}
         \/ t.state = "running" /\ ~t.tool
  PROVE  CopyOK(t)'
<1>1. CopyOK(s)'
  BY Carry
<1>2. t.state \notin {"absent", "done"} /\ t.state \notin Resumable \ {"running"}
  BY DEF Resumable
<1>3. t.state \in Resumable => ~t.tool
  BY DEF Resumable
<1> QED
  BY <1>1, <1>2, <1>3 DEF CopyOK

\* A run pauses at its first step that is not completed.
LEMMA Pauses ==
  ASSUME TypeOK, Grows, NEW s, CopyOK(s), s.state # "absent",
         NEW t \in Statuses,
         t.run = s.run, t.mode = s.mode, t.completed = s.completed,
         t.state \in Resumable \ {"running"},
         t.paused \in Steps, t.paused <= BudgetSteps,
         t.completed = 1 .. (t.paused - 1),
         t.tool <=> t.state = "paused_human_gate" /\ t.paused \notin Gates,
         t.paused \in Gates => t.state = "paused_human_gate"
                                /\ asked'[t.run][t.paused] # NoFingerprint
  PROVE  CopyOK(t)'
<1>1. CopyOK(s)'
  BY Carry
<1>2. t.state \notin {"absent", "done"}
  BY DEF Resumable
<1>3. NoFingerprint' = NoFingerprint
  BY DEF NoFingerprint
<1> QED
  BY <1>1, <1>2, <1>3 DEF CopyOK

\* The first step that is not completed is completed.
LEMMA Completes ==
  ASSUME TypeOK, Grows, NEW s, CopyOK(s), s.state # "absent",
         NEW t \in Statuses, NEW i \in Steps,
         t.run = s.run, t.mode = s.mode, t.state = "running", ~t.tool,
         i <= BudgetSteps, s.completed = 1 .. (i - 1), t.completed = 1 .. i,
         i \in Gates => ApprovedIn(t.run, i)',
         i \notin Gates => /\ <<t.run, i>> \in finished'
                           /\ t.mode = "external" => result'[i] \in {"ok", "bare"}
  PROVE  CopyOK(t)'
<1>1. CopyOK(s)'
  BY Carry
<1>2. i \in 0 .. N /\ t.completed = s.completed \union {i}
  BY DEF Steps
<1>3. \A g \in t.completed \cap Gates : ApprovedIn(t.run, g)'
  BY <1>1, <1>2 DEF CopyOK
<1>4. \A j \in t.completed \ Gates :
          /\ <<t.run, j>> \in finished'
          /\ t.mode = "external" => result'[j] \in {"ok", "bare"}
  <2> SUFFICES ASSUME NEW j \in t.completed \ Gates
               PROVE  /\ <<t.run, j>> \in finished'
                      /\ t.mode = "external" => result'[j] \in {"ok", "bare"}
    OBVIOUS
  <2>1. CASE j = i
    <3>1. i \notin Gates
      BY <2>1
    <3> QED
      BY <2>1, <3>1
  <2>2. CASE j # i
    <3>1. j \in s.completed \ Gates
      BY <1>2, <2>2
    <3> QED
      BY <1>1, <3>1 DEF CopyOK
  <2> QED
    BY <2>1, <2>2
<1>5. t.run \in 1 .. runs'
  BY <1>1 DEF CopyOK
<1> QED
  BY <1>2, <1>3, <1>4, <1>5 DEF CopyOK

\* A run whose every step is completed is done.
LEMMA Ends ==
  ASSUME TypeOK, Grows, NEW s, CopyOK(s), s.state # "absent",
         NEW t \in Statuses,
         t.run = s.run, t.mode = s.mode, t.completed = s.completed,
         t.state = "done", t.completed = Steps, t.run \in planDone'
  PROVE  CopyOK(t)'
<1>1. CopyOK(s)'
  BY Carry
<1>2. t.state \notin Resumable
  BY DEF Resumable
<1> QED
  BY <1>1, <1>2 DEF CopyOK

\* A process that does not move stays where it was.
Unmoved(q) ==
    /\ pc'[q] = pc[q] /\ mem'[q] = mem[q] /\ pos'[q] = pos[q] /\ ran'[q] = ran[q]

LEMMA UnmovedOK == ASSUME NEW q \in Procs, ProcOK(q), Unmoved(q) PROVE ProcOK(q)'
  BY DEF ProcOK, Unmoved

-----------------------------------------------------------------------------
(* The initial state *)

LEMMA InitIInv == Init => IInv
<1> SUFFICES ASSUME Init PROVE IInv
  OBVIOUS
<1>1. TypeOK
  <2>1. DiskTypes
    BY AbsentOK DEF DiskTypes, Init, Vers, Fingerprints, NoFingerprint, Approvable, Runs
  <2>2. LogTypes
    BY AbsentOK DEF LogTypes, Init, Vers, Fingerprints, NoFingerprint, Approvable, Runs
  <2>3. ProcTypes
    BY AbsentOK DEF ProcTypes, Init, Vers, Fingerprints, NoFingerprint, Approvable, Runs
  <2>4. WorldTypes
    BY AbsentOK, BoundAssumption, PlanAssumption DEF WorldTypes, ToResume, Init, Vers,
          Fingerprints, NoFingerprint, Approvable, Runs
  <2> QED
    BY <2>1, <2>2, <2>3, <2>4 DEF TypeOK
<1>2. Copies = {Absent}
  BY DEF Init, Copies
<1>3. CopyOK(Absent)
  BY AbsentCopy
<1>4. \A p \in Procs : ProcOK(p)
  BY DEF Init, ProcOK
<1> QED
  BY <1>1, <1>2, <1>3, <1>4 DEF IInv, Init

-----------------------------------------------------------------------------
(* One lemma per action *)

LEMMA SaveIInv ==
  ASSUME IInv, NEW p \in Procs, Save(p)
  PROVE  IInv'
<1> USE DEF IInv
<1>1. CopyOK(mem[p]) /\ ProcOK(p) /\ mem[p] \in Statuses
  BY DEF Copies, TypeOK, ProcTypes
<1>2. TypeOK'
  <2>1. DiskTypes'
    BY <1>1, AbsentOK DEF TypeOK, DiskTypes, Save, Goto, Return, local, log, bounds
  <2>2. LogTypes'
    BY <1>1, AbsentOK DEF TypeOK, LogTypes, Save, Goto, Return, local, log, bounds
  <2>3. ProcTypes'
    BY <1>1, AbsentOK DEF TypeOK, ProcTypes, Save, Goto, Return, local, log, bounds
  <2>4. WorldTypes'
    BY <1>1, AbsentOK DEF TypeOK, WorldTypes, Save, Goto, Return, local, log, bounds
  <2> QED
    BY <2>1, <2>2, <2>3, <2>4 DEF TypeOK
<1>3. Grows
  BY DEF Grows, Save, log, TypeOK, LogTypes
<1>4. Copies' \subseteq Copies \union {Absent}
  BY DEF Copies, Save, Return, local, log, TypeOK, ProcTypes
<1>5. \A s \in Copies' : CopyOK(s)'
  BY <1>3, <1>4, Carry, AbsentCopy
<1>6. \A q \in Procs : ProcOK(q)'
  <2>1. ProcOK(p)'
    BY <1>1, AbsentOK DEF ProcOK, Save, Goto, Return, TypeOK, ProcTypes
  <2>2. \A q \in Procs \ {p} : Unmoved(q)
    BY DEF Unmoved, Save, Goto, Return, TypeOK, ProcTypes
  <2> QED
    BY <2>1, <2>2, UnmovedOK
<1> QED
  BY <1>2, <1>5, <1>6 DEF Save

\* The step that is looked at and not completed is the first that is not completed.
LEMMA AtFirstOpen ==
  ASSUME IInv, NEW p \in Procs, pc[p] = "loop", pos[p] <= N, ~AlreadyDone(p)
  PROVE  /\ ran[p] = pos[p] - 1 /\ mem[p].completed = 1 .. (pos[p] - 1)
         /\ Deps[pos[p]] \subseteq mem[p].completed
<1>1. pos[p] \in 1 .. N /\ ran[p] \in 0 .. N
  BY DEF IInv, TypeOK, ProcTypes
<1>2. mem[p].completed = 1 .. ran[p] /\ pos[p] <= ran[p] + 1
  BY DEF IInv, ProcOK
<1>3. ran[p] = pos[p] - 1
  BY <1>1, <1>2 DEF AlreadyDone
<1>4. \A d \in Deps[pos[p]] : d \in 1 .. (pos[p] - 1)
  BY <1>1 DEF Steps
<1> QED
  BY <1>2, <1>3, <1>4

LEMMA RunPlanIInv ==
  ASSUME IInv, NEW p \in Procs, NEW mode \in RunModes, RunPlan(p, mode)
  PROVE  IInv'
<1> USE DEF IInv
<1> DEFINE new == NewRun(runs + 1, mode)
<1>1. /\ new \in Statuses /\ new.state = "running" /\ new.completed = {}
      /\ new.run = runs + 1 /\ new.tool = FALSE
  <2>1. runs + 1 \in 0 .. MaxRuns /\ mode \in {"stub", "external"}
    BY DEF RunPlan, TypeOK, LogTypes
  <2> QED
    BY <2>1 DEF NewRun, Statuses, Resumable
<1>2. TypeOK'
  <2>1. DiskTypes'
    BY <1>1 DEF TypeOK, DiskTypes, RunPlan, EnterLoop, Goto, log, bounds, Runs, Vers, Files
  <2>2. LogTypes'
    BY <1>1 DEF TypeOK, LogTypes, RunPlan, EnterLoop, Goto, log, bounds, Runs, Vers, Files
  <2>3. ProcTypes'
    BY <1>1 DEF TypeOK, ProcTypes, RunPlan, EnterLoop, Goto, log, bounds, Runs, Vers, Files
  <2>4. WorldTypes'
    BY <1>1 DEF TypeOK, WorldTypes, RunPlan, EnterLoop, Goto, log, bounds, Runs, Vers, Files
  <2> QED
    BY <2>1, <2>2, <2>3, <2>4 DEF TypeOK
<1>3. Grows
  BY DEF Grows, RunPlan, log, TypeOK, LogTypes
<1>4. Copies' \subseteq Copies \union {new}
  BY DEF Copies, RunPlan, EnterLoop, TypeOK
<1>5. \A s \in Copies' : CopyOK(s)'
  <2> SUFFICES ASSUME NEW s, s = new PROVE CopyOK(s)'
    BY <1>3, <1>4, Carry
  <2>1. s.run \in 1 .. runs'
    BY <1>1 DEF RunPlan, TypeOK, LogTypes
  <2>2. 0 \in 0 .. N /\ 0 <= BudgetSteps /\ {} = 1 .. 0
    OBVIOUS
  <2> QED
    BY <1>1, <2>1, <2>2 DEF CopyOK
<1>6. \A q \in Procs : ProcOK(q)'
  <2>1. ProcOK(p)'
    BY <1>1 DEF ProcOK, RunPlan, EnterLoop, Goto, TypeOK, ProcTypes
  <2>2. \A q \in Procs \ {p} : Unmoved(q)
    BY DEF Unmoved, RunPlan, EnterLoop, Goto, TypeOK
  <2> QED
    BY <2>1, <2>2, UnmovedOK
<1>7. ver'[PlanFile] # 0
  BY DEF RunPlan, TypeOK, DiskTypes, Files
<1> QED
  BY <1>2, <1>5, <1>6, <1>7

LEMMA SkipStepIInv ==
  ASSUME IInv, NEW p \in Procs, SkipStep(p)
  PROVE  IInv'
<1> USE DEF IInv
<1>1. pos[p] \in 1 .. N /\ pos'[p] = pos[p] + 1
  BY DEF SkipStep, AtStep, TypeOK, ProcTypes
<1>2. AlreadyDone(p)
  BY AtFirstOpen DEF SkipStep, AtStep
<1>3. TypeOK'
  <2>1. DiskTypes'
    BY <1>1 DEF TypeOK, DiskTypes, SkipStep, disk, log, bounds
  <2>2. LogTypes'
    BY <1>1 DEF TypeOK, LogTypes, SkipStep, disk, log, bounds
  <2>3. ProcTypes'
    BY <1>1 DEF TypeOK, ProcTypes, SkipStep, disk, log, bounds
  <2>4. WorldTypes'
    BY <1>1 DEF TypeOK, WorldTypes, SkipStep, disk, log, bounds
  <2> QED
    BY <2>1, <2>2, <2>3, <2>4 DEF TypeOK
<1>4. Grows
  BY DEF Grows, SkipStep, disk, log, TypeOK, LogTypes
<1>5. Copies' \subseteq Copies
  BY DEF Copies, SkipStep, disk
<1>6. \A q \in Procs : ProcOK(q)'
  <2>1. ProcOK(p)'
    BY <1>1, <1>2 DEF ProcOK, SkipStep, AtStep, AlreadyDone, TypeOK, ProcTypes
  <2>2. \A q \in Procs \ {p} : Unmoved(q)
    BY DEF Unmoved, SkipStep, TypeOK
  <2> QED
    BY <2>1, <2>2, UnmovedOK
<1> QED
  BY <1>3, <1>4, <1>5, <1>6, Carry DEF SkipStep, disk

LEMMA OverMaxStepsIInv ==
  ASSUME IInv, NEW p \in Procs, OverMaxSteps(p)
  PROVE  IInv'
<1> USE DEF IInv
<1> DEFINE new == [mem[p] EXCEPT !.state = "aborted_budget"]
<1>1. mem[p] \in Statuses /\ CopyOK(mem[p]) /\ mem[p].state # "absent"
  BY DEF OverMaxSteps, AtStep, TypeOK, ProcTypes, Copies, ProcOK
<1>2. /\ new \in Statuses /\ new.state = "aborted_budget" /\ new.run = mem[p].run
      /\ new.mode = mem[p].mode /\ new.completed = mem[p].completed
  BY <1>1 DEF Statuses, Terminal
<1>3. TypeOK'
  <2>1. DiskTypes'
    BY <1>2 DEF TypeOK, DiskTypes, OverMaxSteps, SaveNext, Goto, disk, log, bounds
  <2>2. LogTypes'
    BY <1>2 DEF TypeOK, LogTypes, OverMaxSteps, SaveNext, Goto, disk, log, bounds
  <2>3. ProcTypes'
    BY <1>2 DEF TypeOK, ProcTypes, OverMaxSteps, SaveNext, Goto, disk, log, bounds
  <2>4. WorldTypes'
    BY <1>2 DEF TypeOK, WorldTypes, OverMaxSteps, SaveNext, Goto, disk, log, bounds
  <2> QED
    BY <2>1, <2>2, <2>3, <2>4 DEF TypeOK
<1>4. Grows
  BY DEF Grows, OverMaxSteps, disk, log, TypeOK, LogTypes
<1>5. Copies' \subseteq Copies \union {new}
  BY DEF Copies, OverMaxSteps, SaveNext, disk, TypeOK
<1>6. \A s \in Copies' : CopyOK(s)'
  <2> SUFFICES ASSUME NEW s, s = new PROVE CopyOK(s)'
    BY <1>4, <1>5, Carry
  <2> QED
    BY <1>1, <1>2, <1>4, SameWork
<1>7. \A q \in Procs : ProcOK(q)'
  <2>1. ProcOK(p)'
    BY <1>2 DEF ProcOK, OverMaxSteps, SaveNext, Goto, TypeOK, ProcTypes
  <2>2. \A q \in Procs \ {p} : Unmoved(q)
    BY DEF Unmoved, OverMaxSteps, SaveNext, Goto, TypeOK
  <2> QED
    BY <2>1, <2>2, UnmovedOK
<1> QED
  BY <1>3, <1>6, <1>7 DEF OverMaxSteps, disk

LEMMA StartStepIInv ==
  ASSUME IInv, NEW p \in Procs, StartStep(p)
  PROVE  IInv'
<1> USE DEF IInv
<1> DEFINE new == [mem[p] EXCEPT !.current = pos[p]]
<1>1. /\ mem[p] \in Statuses /\ CopyOK(mem[p]) /\ mem[p].state = "running"
      /\ pos[p] \in 1 .. N
  BY DEF StartStep, AtStep, TypeOK, ProcTypes, Copies, ProcOK
<1>2. ~mem[p].tool
  BY <1>1 DEF CopyOK, Resumable
<1>3. /\ new \in Statuses /\ new.state = "running" /\ new.run = mem[p].run
      /\ new.mode = mem[p].mode /\ new.completed = mem[p].completed /\ new.tool = mem[p].tool
  BY <1>1 DEF Statuses
<1>4. mem' = [mem EXCEPT ![p] = new] /\ status' = new
  BY DEF StartStep, TypeOK, ProcTypes
<1>5. TypeOK'
  <2>1. DiskTypes'
    BY <1>3, <1>4 DEF TypeOK, DiskTypes, StartStep, Goto, HowToRun, log, bounds
  <2>2. LogTypes'
    BY <1>3, <1>4 DEF TypeOK, LogTypes, StartStep, Goto, HowToRun, log, bounds
  <2>3. ProcTypes'
    BY <1>3, <1>4 DEF TypeOK, ProcTypes, StartStep, Goto, HowToRun, log, bounds
  <2>4. WorldTypes'
    BY <1>3, <1>4 DEF TypeOK, WorldTypes, StartStep, Goto, HowToRun, log, bounds
  <2> QED
    BY <2>1, <2>2, <2>3, <2>4 DEF TypeOK
<1>6. Grows
  BY DEF Grows, StartStep, log, TypeOK, LogTypes
<1>7. Copies' \subseteq Copies \union {new}
  BY <1>4 DEF Copies, StartStep, TypeOK
<1>8. \A s \in Copies' : CopyOK(s)'
  <2> SUFFICES ASSUME NEW s, s = new PROVE CopyOK(s)'
    BY <1>6, <1>7, Carry
  <2> QED
    BY <1>1, <1>2, <1>3, <1>6, SameWork
<1>9. \A q \in Procs : ProcOK(q)'
  <2>1. ran[p] = pos[p] - 1 /\ mem[p].completed = 1 .. (pos[p] - 1)
    BY AtFirstOpen DEF StartStep, AtStep
  <2>2. pc' = [pc EXCEPT ![p] = HowToRun(pos[p])] /\ pos' = pos /\ ran' = ran
    BY DEF StartStep, Goto
  <2>3. ProcOK(p)'
    BY <1>1, <1>3, <1>4, <2>1, <2>2 DEF ProcOK, StartStep, HowToRun, TypeOK
  <2>4. \A q \in Procs \ {p} : Unmoved(q)
    BY <1>4, <2>2 DEF Unmoved, TypeOK
  <2> QED
    BY <2>3, <2>4, UnmovedOK
<1> QED
  BY <1>5, <1>8, <1>9 DEF StartStep

LEMMA RequestGateIInv ==
  ASSUME IInv, NEW p \in Procs, RequestGate(p)
  PROVE  IInv'
<1> USE DEF IInv
<1> DEFINE new == [mem[p] EXCEPT !.state = "paused_human_gate", !.paused = pos[p]]
<1>1. /\ mem[p] \in Statuses /\ CopyOK(mem[p]) /\ mem[p].state = "running"
      /\ pos[p] \in 1 .. N /\ pos[p] \in Gates /\ pos[p] <= BudgetSteps
      /\ mem[p].completed = 1 .. (pos[p] - 1)
  BY DEF RequestGate, TypeOK, ProcTypes, Copies, ProcOK
<1>2. ~mem[p].tool /\ mem[p].run \in Runs /\ mem[p].run \in 1 .. runs
  BY <1>1 DEF CopyOK, Resumable, Runs, TypeOK, LogTypes
<1>3. /\ new \in Statuses /\ new.state = "paused_human_gate" /\ new.run = mem[p].run
      /\ new.mode = mem[p].mode /\ new.completed = mem[p].completed /\ new.tool = mem[p].tool
      /\ new.paused = pos[p]
  <2>1. new \in Statuses
    BY <1>1, PausedStatus DEF Resumable, Steps
  <2> QED
    BY <1>1, <2>1, SMTT(30) DEF Statuses
<1>4. Fingerprint \in Fingerprints /\ Fingerprint # NoFingerprint
  BY <1>2, FingerprintOK DEF TypeOK, DiskTypes, LogTypes
<1>5. /\ asked' \in [Runs -> [Gates -> Fingerprints]]
      /\ asked'[mem[p].run][pos[p]] = Fingerprint
      /\ \A r \in Runs, g \in Gates :
             asked[r][g] # NoFingerprint => asked'[r][g] # NoFingerprint
  BY <1>1, <1>2, <1>4 DEF RequestGate, TypeOK, LogTypes
<1>6. TypeOK'
  <2>1. DiskTypes'
    BY <1>3, <1>5 DEF TypeOK, DiskTypes, RequestGate, SaveNext, Goto, disk, bounds
  <2>2. LogTypes'
    BY <1>3, <1>5 DEF TypeOK, LogTypes, RequestGate, SaveNext, Goto, disk, bounds
  <2>3. ProcTypes'
    BY <1>3, <1>5 DEF TypeOK, ProcTypes, RequestGate, SaveNext, Goto, disk, bounds
  <2>4. WorldTypes'
    BY <1>3, <1>5 DEF TypeOK, WorldTypes, RequestGate, SaveNext, Goto, disk, bounds
  <2> QED
    BY <2>1, <2>2, <2>3, <2>4 DEF TypeOK
<1>7. Grows
  BY <1>5 DEF Grows, RequestGate, disk, TypeOK, LogTypes
<1>8. Copies' \subseteq Copies \union {new}
  BY DEF Copies, RequestGate, SaveNext, disk, TypeOK
<1>9. \A s \in Copies' : CopyOK(s)'
  <2> SUFFICES ASSUME NEW s, s = new PROVE CopyOK(s)'
    BY <1>7, <1>8, Carry
  <2> QED
    BY <1>1, <1>2, <1>3, <1>4, <1>5, <1>7, Pauses DEF Resumable, Steps
<1>10. \A q \in Procs : ProcOK(q)'
  <2>1. ProcOK(p)'
    BY <1>3 DEF ProcOK, RequestGate, SaveNext, Goto, TypeOK, ProcTypes
  <2>2. \A q \in Procs \ {p} : Unmoved(q)
    BY DEF Unmoved, RequestGate, SaveNext, Goto, TypeOK
  <2> QED
    BY <2>1, <2>2, UnmovedOK
<1> QED
  BY <1>6, <1>9, <1>10 DEF RequestGate, disk

\* A step that succeeds, with a worker or as a stub.
LEMMA FinishStepIInv ==
  ASSUME IInv, NEW p \in Procs, pc[p] \in {"exec", "work"},
         NEW written \in BOOLEAN, written => pos[p] \in Artifacts, FinishStep(p, written),
         mem[p].mode = "external" => result[pos[p]] \in {"ok", "bare"},
         UNCHANGED <<status, requested, result, asked, resolved, planDone, runs, abort, worker, bounds>>
  PROVE  IInv'
<1> USE DEF IInv
<1> DEFINE new == Complete(mem[p], pos[p])
<1>1. /\ mem[p] \in Statuses /\ CopyOK(mem[p]) /\ mem[p].state = "running"
      /\ pos[p] \in 1 .. N /\ pos[p] \notin Gates /\ pos[p] <= BudgetSteps
      /\ mem[p].completed = 1 .. (pos[p] - 1) /\ ran[p] = pos[p] - 1
  BY DEF TypeOK, ProcTypes, Copies, ProcOK
<1>2. ~mem[p].tool /\ mem[p].run \in Runs /\ mem[p].run \in 1 .. runs
  BY <1>1 DEF CopyOK, Resumable, Runs, TypeOK, LogTypes
<1>3. /\ new \in Statuses /\ new.state = "running" /\ new.run = mem[p].run
      /\ new.mode = mem[p].mode /\ new.completed = 1 .. pos[p] /\ new.tool = mem[p].tool
  <2>1. 1 .. pos[p] = 1 .. (pos[p] - 1) \union {pos[p]}
    BY <1>1
  <2>2. new.completed = 1 .. pos[p]
    BY <1>1, <2>1 DEF Complete, Statuses
  <2> QED
    BY <1>1, <2>2 DEF Complete, Statuses, Steps
<1>4. finished' = finished \union {<<mem[p].run, pos[p]>>} /\ finished' \subseteq Runs \X Steps
  BY <1>1, <1>2 DEF FinishStep, TypeOK, LogTypes, Steps
<1>5. ver' \in [Files -> Vers] /\ ver'[PlanFile] = ver[PlanFile]
  BY DEF FinishStep, TypeOK, DiskTypes, Files, Vers, PlanFile, Steps
<1>6. TypeOK'
  <2>1. DiskTypes'
    BY <1>1, <1>3, <1>4, <1>5 DEF TypeOK, DiskTypes, FinishStep, SaveNext, Goto, bounds
  <2>2. LogTypes'
    BY <1>1, <1>3, <1>4, <1>5 DEF TypeOK, LogTypes, FinishStep, SaveNext, Goto, bounds
  <2>3. ProcTypes'
    BY <1>1, <1>3, <1>4, <1>5 DEF TypeOK, ProcTypes, FinishStep, SaveNext, Goto, bounds
  <2>4. WorldTypes'
    BY <1>1, <1>3, <1>4, <1>5 DEF TypeOK, WorldTypes, ToResume, FinishStep, SaveNext, Goto, bounds
  <2> QED
    BY <2>1, <2>2, <2>3, <2>4 DEF TypeOK
<1>7. Grows
  BY <1>4 DEF Grows, TypeOK, LogTypes
<1>8. Copies' \subseteq Copies \union {new}
  BY DEF Copies, FinishStep, SaveNext, TypeOK
<1>9. \A s \in Copies' : CopyOK(s)'
  <2> SUFFICES ASSUME NEW s, s = new PROVE CopyOK(s)'
    BY <1>7, <1>8, Carry
  <2> QED
    BY <1>1, <1>2, <1>3, <1>4, <1>7, Completes DEF Steps
<1>10. \A q \in Procs : ProcOK(q)'
  <2>1. ProcOK(p)'
    BY <1>1, <1>3 DEF ProcOK, FinishStep, SaveNext, Goto, TypeOK, ProcTypes
  <2>2. \A q \in Procs \ {p} : Unmoved(q)
    BY DEF Unmoved, FinishStep, SaveNext, Goto, TypeOK
  <2> QED
    BY <2>1, <2>2, UnmovedOK
<1> QED
  BY <1>5, <1>6, <1>9, <1>10

LEMMA StubStepIInv ==
  ASSUME IInv, NEW p \in Procs, StubStep(p)
  PROVE  IInv'
<1>1. mem[p].mode # "external" /\ pc[p] \in {"exec", "work"} /\ (pos[p] \in Artifacts) \in BOOLEAN
  BY DEF StubStep
<1> QED
  BY <1>1, FinishStepIInv DEF StubStep

LEMMA CollectResultIInv ==
  ASSUME IInv, NEW p \in Procs, CollectResult(p)
  PROVE  IInv'
  BY FinishStepIInv DEF CollectResult

\* A step that fails.
LEMMA FailStepIInv ==
  ASSUME IInv, NEW p \in Procs, pc[p] \in {"exec", "work"}, FailStep(p),
         requested' \subseteq Steps,
         UNCHANGED <<status, ver, result, log, runs, pos, abort, worker, bounds>>
  PROVE  IInv'
<1> USE DEF IInv
<1> DEFINE new == [mem[p] EXCEPT !.state = "failed"]
<1>1. /\ mem[p] \in Statuses /\ CopyOK(mem[p]) /\ mem[p].state = "running"
      /\ pos[p] \in 1 .. N /\ ran[p] = pos[p] - 1
  BY DEF TypeOK, ProcTypes, Copies, ProcOK
<1>2. /\ new \in Statuses /\ new.state = "failed" /\ new.run = mem[p].run
      /\ new.mode = mem[p].mode /\ new.completed = mem[p].completed
  BY <1>1 DEF Statuses, Terminal
<1>3. TypeOK'
  <2>1. DiskTypes'
    BY <1>1, <1>2 DEF TypeOK, DiskTypes, FailStep, SaveNext, Goto, log, bounds
  <2>2. LogTypes'
    BY <1>1, <1>2 DEF TypeOK, LogTypes, FailStep, SaveNext, Goto, log, bounds
  <2>3. ProcTypes'
    BY <1>1, <1>2 DEF TypeOK, ProcTypes, FailStep, SaveNext, Goto, log, bounds
  <2>4. WorldTypes'
    BY <1>1, <1>2 DEF TypeOK, WorldTypes, ToResume, FailStep, SaveNext, Goto, log, bounds
  <2> QED
    BY <2>1, <2>2, <2>3, <2>4 DEF TypeOK
<1>4. Grows
  BY DEF Grows, log, TypeOK, LogTypes
<1>5. Copies' \subseteq Copies \union {new}
  BY DEF Copies, FailStep, SaveNext, TypeOK
<1>6. \A s \in Copies' : CopyOK(s)'
  <2> SUFFICES ASSUME NEW s, s = new PROVE CopyOK(s)'
    BY <1>4, <1>5, Carry
  <2> QED
    BY <1>1, <1>2, <1>4, SameWork
<1>7. \A q \in Procs : ProcOK(q)'
  <2>1. ProcOK(p)'
    BY <1>1, <1>2 DEF ProcOK, FailStep, SaveNext, Goto, TypeOK, ProcTypes
  <2>2. \A q \in Procs \ {p} : Unmoved(q)
    BY DEF Unmoved, FailStep, SaveNext, Goto, TypeOK
  <2> QED
    BY <2>1, <2>2, UnmovedOK
<1> QED
  BY <1>3, <1>6, <1>7

LEMMA RefuseStepIInv ==
  ASSUME IInv, NEW p \in Procs, RefuseStep(p)
  PROVE  IInv'
<1>1. requested' \subseteq Steps
  BY DEF RefuseStep, IInv, TypeOK, DiskTypes
<1> QED
  BY <1>1, FailStepIInv DEF RefuseStep

LEMMA CollectFailureIInv ==
  ASSUME IInv, NEW p \in Procs, CollectFailure(p)
  PROVE  IInv'
<1>1. requested' \subseteq Steps
  BY DEF CollectFailure, disk, IInv, TypeOK, DiskTypes
<1> QED
  BY <1>1, FailStepIInv DEF CollectFailure, disk

LEMMA RequestStepIInv ==
  ASSUME IInv, NEW p \in Procs, RequestStep(p)
  PROVE  IInv'
<1> USE DEF IInv
<1>1. pos[p] \in Steps
  BY DEF RequestStep, ProcOK, TypeOK, ProcTypes, Steps
<1>2. TypeOK'
  <2>1. DiskTypes'
    BY <1>1 DEF TypeOK, DiskTypes, RequestStep, Goto, log, bounds
  <2>2. LogTypes'
    BY <1>1 DEF TypeOK, LogTypes, RequestStep, Goto, log, bounds
  <2>3. ProcTypes'
    BY <1>1 DEF TypeOK, ProcTypes, RequestStep, Goto, log, bounds
  <2>4. WorldTypes'
    BY <1>1 DEF TypeOK, WorldTypes, RequestStep, Goto, log, bounds
  <2> QED
    BY <2>1, <2>2, <2>3, <2>4 DEF TypeOK
<1>3. Grows
  BY DEF Grows, RequestStep, log, TypeOK, LogTypes
<1>4. Copies' \subseteq Copies
  BY DEF Copies, RequestStep
<1>5. \A q \in Procs : ProcOK(q)'
  <2>1. ProcOK(p)'
    BY DEF ProcOK, RequestStep, Goto, TypeOK
  <2>2. \A q \in Procs \ {p} : Unmoved(q)
    BY DEF Unmoved, RequestStep, Goto, TypeOK
  <2> QED
    BY <2>1, <2>2, UnmovedOK
<1> QED
  BY <1>2, <1>3, <1>4, <1>5, Carry DEF RequestStep

\* Whatever leaves every process and every copy of the status alone.
LEMMA NobodyMoves ==
  ASSUME IInv, TypeOK', Grows, UNCHANGED <<status, local, abort, runs>>,
         ver'[PlanFile] = 0 => ver[PlanFile] = 0
  PROVE  IInv'
<1> USE DEF IInv
<1>1. Copies' \subseteq Copies
  BY DEF Copies, local
<1>2. \A q \in Procs : ProcOK(q)'
  BY UnmovedOK DEF Unmoved, local
<1> QED
  BY <1>1, <1>2, Carry

LEMMA CallWorkerIInv ==
  ASSUME IInv, NEW p \in Procs, CallWorker(p)
  PROVE  IInv'
<1> USE DEF IInv
<1>1. pos[p] \in Steps
  BY DEF CallWorker, ProcOK, TypeOK, ProcTypes, Steps
<1>2. TypeOK'
  <2>1. DiskTypes'
    BY <1>1 DEF TypeOK, DiskTypes, CallWorker, Goto, log, bounds, disk
  <2>2. LogTypes'
    BY <1>1 DEF TypeOK, LogTypes, CallWorker, Goto, log, bounds, disk
  <2>3. ProcTypes'
    BY <1>1 DEF TypeOK, ProcTypes, CallWorker, Goto, log, bounds, disk
  <2>4. WorldTypes'
    BY <1>1 DEF TypeOK, WorldTypes, CallWorker, Goto, log, bounds, disk
  <2> QED
    BY <2>1, <2>2, <2>3, <2>4 DEF TypeOK
<1>3. Grows
  BY <1>1 DEF Grows, CallWorker, log, TypeOK, LogTypes, disk
<1>4. Copies' \subseteq Copies
  BY DEF Copies, CallWorker, disk
<1>5. \A q \in Procs : ProcOK(q)'
  <2>1. ProcOK(p)'
    BY DEF ProcOK, CallWorker, Goto, TypeOK
  <2>2. \A q \in Procs \ {p} : Unmoved(q)
    BY DEF Unmoved, CallWorker, Goto, TypeOK
  <2> QED
    BY <2>1, <2>2, UnmovedOK
<1> QED
  BY <1>2, <1>3, <1>4, <1>5, Carry DEF CallWorker, disk

LEMMA WorkerAnswersIInv ==
  ASSUME IInv, NEW p \in Procs, WorkerAnswers(p)
  PROVE  IInv'
<1> USE DEF IInv
<1>1. pos[p] \in Steps
  BY DEF WorkerAnswers, ProcOK, TypeOK, ProcTypes, Steps
<1>2. TypeOK'
  <2>1. DiskTypes'
    BY <1>1 DEF TypeOK, DiskTypes, WorkerAnswers, Goto, log, bounds
  <2>2. LogTypes'
    BY <1>1 DEF TypeOK, LogTypes, WorkerAnswers, Goto, log, bounds
  <2>3. ProcTypes'
    BY <1>1 DEF TypeOK, ProcTypes, WorkerAnswers, Goto, log, bounds
  <2>4. WorldTypes'
    BY <1>1 DEF TypeOK, WorldTypes, WorkerAnswers, Goto, log, bounds
  <2> QED
    BY <2>1, <2>2, <2>3, <2>4 DEF TypeOK
<1>3. Grows
  BY <1>1 DEF Grows, WorkerAnswers, log, TypeOK, LogTypes
<1>4. Copies' \subseteq Copies
  BY DEF Copies, WorkerAnswers
<1>5. \A q \in Procs : ProcOK(q)'
  <2>1. ProcOK(p)'
    BY DEF ProcOK, WorkerAnswers, Goto, TypeOK
  <2>2. \A q \in Procs \ {p} : Unmoved(q)
    BY DEF Unmoved, WorkerAnswers, Goto, TypeOK
  <2> QED
    BY <2>1, <2>2, UnmovedOK
<1> QED
  BY <1>2, <1>3, <1>4, <1>5, Carry DEF WorkerAnswers

LEMMA ExternalResultIInv ==
  ASSUME IInv, NEW i \in Steps, NEW r \in {"ok", "bare", "fail"}, ExternalResult(i, r)
  PROVE  IInv'
<1>1. TypeOK'
  <2>1. DiskTypes'
    BY DEF TypeOK, DiskTypes, IInv, ExternalResult, log, local, bounds
  <2>2. LogTypes'
    BY DEF TypeOK, LogTypes, IInv, ExternalResult, log, local, bounds
  <2>3. ProcTypes'
    BY DEF TypeOK, ProcTypes, IInv, ExternalResult, log, local, bounds
  <2>4. WorldTypes'
    BY DEF TypeOK, WorldTypes, IInv, ExternalResult, log, local, bounds
  <2> QED
    BY <2>1, <2>2, <2>3, <2>4 DEF TypeOK
<1>2. Grows
  BY DEF Grows, ExternalResult, log, IInv, TypeOK, LogTypes
<1> QED
  BY <1>1, <1>2, NobodyMoves DEF ExternalResult

LEMMA EditFileIInv ==
  ASSUME IInv, NEW f \in Files, NEW v \in Vers, EditFile(f, v)
  PROVE  IInv'
<1>1. TypeOK'
  <2>1. DiskTypes'
    BY DEF TypeOK, DiskTypes, IInv, EditFile, log, local
  <2>2. LogTypes'
    BY DEF TypeOK, LogTypes, IInv, EditFile, log, local
  <2>3. ProcTypes'
    BY DEF TypeOK, ProcTypes, IInv, EditFile, log, local
  <2>4. WorldTypes'
    BY DEF TypeOK, WorldTypes, IInv, EditFile, log, local
  <2> QED
    BY <2>1, <2>2, <2>3, <2>4 DEF TypeOK
<1>2. Grows
  BY DEF Grows, EditFile, log, IInv, TypeOK, LogTypes
<1>3. ver'[PlanFile] = 0 => ver[PlanFile] = 0
  BY DEF EditFile, IInv, TypeOK, Files
<1> QED
  BY <1>1, <1>2, <1>3, NobodyMoves DEF EditFile

LEMMA RenewRequestIInv ==
  ASSUME IInv, NEW p \in Procs, RenewRequest(p),
         worker' \in 0 .. ToResume
  PROVE  IInv'
<1>1. CopyOK(status) /\ status \in Statuses /\ status.state = "paused_human_gate" /\ ~status.tool
  BY DEF RenewRequest, AtGate, IInv, TypeOK, DiskTypes, Copies
<1>2. status.run \in 1 .. runs /\ status.paused \in Gates
  BY <1>1 DEF CopyOK, Resumable
<1>3. Fingerprint \in Fingerprints /\ Fingerprint # NoFingerprint
  BY <1>2, FingerprintOK DEF IInv, TypeOK, DiskTypes, LogTypes
<1>4. /\ asked' \in [Runs -> [Gates -> Fingerprints]]
      /\ \A r \in Runs, g \in Gates :
             asked[r][g] # NoFingerprint => asked'[r][g] # NoFingerprint
  BY <1>2, <1>3 DEF RenewRequest, IInv, TypeOK, LogTypes, Runs
<1>5. TypeOK'
  <2>1. DiskTypes'
    BY <1>4 DEF TypeOK, DiskTypes, IInv, RenewRequest, disk, local, bounds
  <2>2. LogTypes'
    BY <1>4 DEF TypeOK, LogTypes, IInv, RenewRequest, disk, local, bounds
  <2>3. ProcTypes'
    BY <1>4 DEF TypeOK, ProcTypes, IInv, RenewRequest, disk, local, bounds
  <2>4. WorldTypes'
    BY <1>4 DEF TypeOK, WorldTypes, IInv, RenewRequest, disk, local, bounds
  <2> QED
    BY <2>1, <2>2, <2>3, <2>4 DEF TypeOK
<1>6. Grows
  BY <1>4 DEF Grows, RenewRequest, disk, IInv, TypeOK, LogTypes
<1> QED
  BY <1>5, <1>6, NobodyMoves DEF RenewRequest, disk

LEMMA WorkerAloneIInv ==
  ASSUME IInv, WorkerStarts \/ WorkerDone \/ WorkerGivesUp
  PROVE  IInv'
<1> USE DEF IInv
<1>1. worker' \in 0 .. ToResume /\ result' \in [Steps -> {"none", "ok", "bare", "fail"}]
  <2>1. status.state \in {"waiting_external", "paused_budget"} => status.paused \in Steps
    BY DEF Copies, CopyOK, Resumable
  <2> QED
    BY <2>1, PlanAssumption DEF WorkerStarts, WorkerDone, WorkerGivesUp, disk,
          TypeOK, DiskTypes, ToResume, Steps
<1>2. TypeOK'
  <2>1. DiskTypes'
    BY <1>1 DEF TypeOK, DiskTypes, WorkerStarts, WorkerDone, WorkerGivesUp, disk, log, local,
       bounds
  <2>2. LogTypes'
    BY <1>1 DEF TypeOK, LogTypes, WorkerStarts, WorkerDone, WorkerGivesUp, disk, log, local,
       bounds
  <2>3. ProcTypes'
    BY <1>1 DEF TypeOK, ProcTypes, WorkerStarts, WorkerDone, WorkerGivesUp, disk, log, local,
       bounds
  <2>4. WorldTypes'
    BY <1>1 DEF TypeOK, WorldTypes, WorkerStarts, WorkerDone, WorkerGivesUp, disk, log, local,
       bounds
  <2> QED
    BY <2>1, <2>2, <2>3, <2>4 DEF TypeOK
<1>3. Grows
  BY DEF Grows, WorkerStarts, WorkerDone, WorkerGivesUp, disk, log, TypeOK, DiskTypes, LogTypes
<1> QED
  BY <1>2, <1>3, NobodyMoves DEF WorkerStarts, WorkerDone, WorkerGivesUp, disk

LEMMA AbortReadsIInv ==
  ASSUME IInv, AbortReads
  PROVE  IInv'
<1> USE DEF IInv
<1>1. TypeOK'
  <2>1. DiskTypes'
    BY DEF TypeOK, DiskTypes, AbortReads, disk, log, local
  <2>2. LogTypes'
    BY DEF TypeOK, LogTypes, AbortReads, disk, log, local
  <2>3. ProcTypes'
    BY DEF TypeOK, ProcTypes, AbortReads, disk, log, local
  <2>4. WorldTypes'
    BY DEF TypeOK, DiskTypes, WorldTypes, ToResume, AbortReads, disk, log, local
  <2> QED
    BY <2>1, <2>2, <2>3, <2>4 DEF TypeOK
<1>2. Grows
  BY DEF Grows, AbortReads, disk, log, TypeOK, LogTypes
<1>3. Copies' \subseteq Copies
  BY DEF Copies, AbortReads, disk, local
<1>4. \A q \in Procs : ProcOK(q)'
  BY UnmovedOK DEF Unmoved, AbortReads, local
<1> QED
  BY <1>1, <1>2, <1>3, <1>4, Carry DEF AbortReads, disk

LEMMA AbortWritesIInv ==
  ASSUME IInv, AbortWrites
  PROVE  IInv'
<1> USE DEF IInv
<1> DEFINE new == [abort EXCEPT !.state = "aborted_operator", !.current = 0]
<1>1. abort \in Statuses /\ CopyOK(abort) /\ abort.state # "absent"
  BY DEF AbortWrites, TypeOK, Copies, CopyOK
<1>2. /\ new \in Statuses /\ new.state = "aborted_operator" /\ new.run = abort.run
      /\ new.mode = abort.mode /\ new.completed = abort.completed
  <2>1. [abort EXCEPT !.state = "aborted_operator"] \in Statuses
    BY <1>1 DEF Statuses, Terminal
  <2>2. 0 \in 0 .. N
    OBVIOUS
  <2>3. [[abort EXCEPT !.state = "aborted_operator"] EXCEPT !.current = 0] \in Statuses
    BY <2>1, <2>2 DEF Statuses
  <2>4. new \in Statuses
    BY <2>3
  <2> QED
    BY <1>1, <2>4 DEF Statuses
<1>3. TypeOK'
  <2>1. DiskTypes'
    BY <1>2, AbsentOK DEF TypeOK, DiskTypes, AbortWrites, log, local, bounds
  <2>2. LogTypes'
    BY <1>2, AbsentOK DEF TypeOK, LogTypes, AbortWrites, log, local, bounds
  <2>3. ProcTypes'
    BY <1>2, AbsentOK DEF TypeOK, ProcTypes, AbortWrites, log, local, bounds
  <2>4. WorldTypes'
    BY <1>2, AbsentOK DEF TypeOK, WorldTypes, AbortWrites, log, local, bounds
  <2> QED
    BY <2>1, <2>2, <2>3, <2>4 DEF TypeOK
<1>4. Grows
  BY DEF Grows, AbortWrites, log, TypeOK, LogTypes
<1>5. Copies' \subseteq Copies \union {new, Absent}
  BY DEF Copies, AbortWrites, local
<1>6. \A s \in Copies' : CopyOK(s)'
  <2>1. ASSUME NEW s, s = new PROVE CopyOK(s)'
    BY <1>1, <1>2, <1>4, <2>1, SameWork
  <2>2. CopyOK(Absent)'
    BY <1>4, AbsentCopy, Carry
  <2> QED
    BY <1>4, <1>5, <2>1, <2>2, Carry
<1>7. \A q \in Procs : ProcOK(q)'
  BY UnmovedOK DEF Unmoved, AbortWrites, local
<1> QED
  BY <1>3, <1>6, <1>7 DEF AbortWrites

LEMMA WorkerPausesIInv ==
  ASSUME IInv, NEW p \in Procs, NEW state \in Resumable, NEW tool \in BOOLEAN,
         WorkerPauses(p, state, tool)
  PROVE  IInv'
<1> USE DEF IInv
<1> DEFINE new == [mem[p] EXCEPT !.state = state, !.paused = pos[p], !.tool = tool]
<1>1. /\ mem[p] \in Statuses /\ CopyOK(mem[p]) /\ mem[p].state = "running"
      /\ pos[p] \in Steps /\ pos[p] \notin Gates /\ pos[p] <= BudgetSteps
      /\ mem[p].completed = 1 .. (pos[p] - 1)
  BY DEF WorkerPauses, TypeOK, ProcTypes, Copies, ProcOK, Steps
<1>2. /\ new \in Statuses /\ new.state = state /\ new.run = mem[p].run
      /\ new.mode = mem[p].mode /\ new.completed = mem[p].completed /\ new.tool = tool
      /\ new.paused = pos[p]
  <2>1. new \in Statuses
    BY <1>1, PausedStatus
  <2> QED
    BY <1>1, <2>1 DEF Statuses
<1>3. state # "running" /\ (tool <=> state = "paused_human_gate")
  BY DEF WorkerPauses
<1>4. TypeOK'
  <2>1. DiskTypes'
    BY <1>2 DEF TypeOK, DiskTypes, WorkerPauses, SaveNext, Goto, disk, log, bounds
  <2>2. LogTypes'
    BY <1>2 DEF TypeOK, LogTypes, WorkerPauses, SaveNext, Goto, disk, log, bounds
  <2>3. ProcTypes'
    BY <1>2 DEF TypeOK, ProcTypes, WorkerPauses, SaveNext, Goto, disk, log, bounds
  <2>4. WorldTypes'
    BY <1>2 DEF TypeOK, WorldTypes, WorkerPauses, SaveNext, Goto, disk, log, bounds
  <2> QED
    BY <2>1, <2>2, <2>3, <2>4 DEF TypeOK
<1>5. Grows
  BY DEF Grows, WorkerPauses, disk, log, TypeOK, LogTypes
<1>6. Copies' \subseteq Copies \union {new}
  BY DEF Copies, WorkerPauses, SaveNext, disk, TypeOK
<1>7. \A s \in Copies' : CopyOK(s)'
  <2> SUFFICES ASSUME NEW s, s = new PROVE CopyOK(s)'
    BY <1>5, <1>6, Carry
  <2> QED
    BY <1>1, <1>2, <1>3, <1>5, Pauses
<1>8. \A q \in Procs : ProcOK(q)'
  <2>1. ProcOK(p)'
    BY <1>2, <1>3 DEF ProcOK, WorkerPauses, SaveNext, Goto, TypeOK, ProcTypes, Resumable
  <2>2. \A q \in Procs \ {p} : Unmoved(q)
    BY DEF Unmoved, WorkerPauses, SaveNext, Goto, TypeOK
  <2> QED
    BY <2>1, <2>2, UnmovedOK
<1> QED
  BY <1>4, <1>7, <1>8 DEF WorkerPauses, disk

LEMMA FinishRunIInv ==
  ASSUME IInv, NEW p \in Procs, FinishRun(p)
  PROVE  IInv'
<1> USE DEF IInv
<1> DEFINE ok == DoneWhen(mem[p].run)
           state == IF ok THEN "done" ELSE "failed"
           s0 == [mem[p] EXCEPT !.paused = 0, !.current = 0]
           new == [s0 EXCEPT !.state = state]
<1>1. /\ mem[p] \in Statuses /\ CopyOK(mem[p]) /\ mem[p].state = "running"
      /\ pos[p] = N + 1 /\ mem[p].completed = 1 .. ran[p] /\ pos[p] <= ran[p] + 1
      /\ ran[p] \in 0 .. N
  BY DEF FinishRun, TypeOK, ProcTypes, Copies, ProcOK
<1>2. mem[p].completed = Steps /\ mem[p].run \in Runs
  <2>1. ran[p] = N
    BY <1>1
  <2>2. mem[p].run \in 1 .. runs
    BY <1>1 DEF CopyOK
  <2> QED
    BY <1>1, <2>1, <2>2 DEF Steps, Runs, TypeOK, LogTypes
<1>3. s0 \in Statuses /\ s0.run = mem[p].run /\ s0.mode = mem[p].mode
      /\ s0.completed = mem[p].completed
  <2>1. 0 \in 0 .. N
    OBVIOUS
  <2>2. s0 \in Statuses
    BY <1>1, <2>1 DEF Statuses
  <2> QED
    BY <1>1, <2>2 DEF Statuses
<1>4. /\ new \in Statuses /\ new.state = state /\ new.run = mem[p].run
      /\ new.mode = mem[p].mode /\ new.completed = mem[p].completed
  <2>1. state \in {"done", "failed"}
    OBVIOUS
  <2> HIDE DEF s0, state
  <2> QED
    BY <1>3, <2>1 DEF Statuses, Terminal
<1>5. /\ mem' = [mem EXCEPT ![p] = new] /\ pc' = [pc EXCEPT ![p] = "save"]
      /\ planDone' = IF ok THEN planDone \union {mem[p].run} ELSE planDone
      /\ UNCHANGED <<disk, asked, resolved, finished, runs, pos, ran, abort, worker, bounds>>
  BY <1>3 DEF FinishRun, SaveNext, Goto
<1>6. TypeOK'
  <2>1. DiskTypes'
    BY <1>2, <1>4, <1>5 DEF TypeOK, DiskTypes, disk, bounds
  <2>2. LogTypes'
    BY <1>2, <1>4, <1>5 DEF TypeOK, LogTypes, disk, bounds
  <2>3. ProcTypes'
    BY <1>2, <1>4, <1>5 DEF TypeOK, ProcTypes, disk, bounds
  <2>4. WorldTypes'
    BY <1>2, <1>4, <1>5 DEF TypeOK, WorldTypes, ToResume, disk, bounds
  <2> QED
    BY <2>1, <2>2, <2>3, <2>4 DEF TypeOK
<1>7. Grows
  BY <1>5 DEF Grows, disk, TypeOK, LogTypes
<1>8. Copies' \subseteq Copies \union {new}
  BY <1>5 DEF Copies, disk, TypeOK
<1>9. \A s \in Copies' : CopyOK(s)'
  <2> SUFFICES ASSUME NEW s, s = new PROVE CopyOK(s)'
    BY <1>7, <1>8, Carry
  <2>1. CASE ok
    <3>1. new.state = "done" /\ new.completed = Steps /\ new.run \in planDone'
      BY <1>2, <1>4, <1>5, <2>1
    <3> QED
      BY <1>1, <1>4, <1>7, <3>1, Ends
  <2>2. CASE ~ok
    BY <1>1, <1>2, <1>4, <1>7, <2>2, SameWork
  <2> QED
    BY <2>1, <2>2
<1>10. \A q \in Procs : ProcOK(q)'
  <2>1. ProcOK(p)'
    BY <1>4, <1>5 DEF ProcOK, TypeOK, ProcTypes
  <2>2. \A q \in Procs \ {p} : Unmoved(q)
    BY <1>5 DEF Unmoved, TypeOK
  <2> QED
    BY <2>1, <2>2, UnmovedOK
<1> QED
  BY <1>5, <1>6, <1>9, <1>10 DEF disk

LEMMA ApproveGateIInv ==
  ASSUME IInv, NEW p \in Procs, NEW d \in Decisions, NEW by \in {"person", "worker"},
         ApproveGate(p, d, by),
         worker' \in 0 .. ToResume
  PROVE  IInv'
<1> USE DEF IInv
<1> DEFINE s0 == [status EXCEPT !.state = "running"]
<1>1. /\ status \in Statuses /\ CopyOK(status) /\ status.state = "paused_human_gate"
      /\ ~status.tool /\ d \in Approved
  BY DEF ApproveGate, AtGate, TypeOK, DiskTypes, Copies
<1>2. PICK i \in Steps : /\ i = status.paused /\ i \in Gates /\ i <= BudgetSteps
                         /\ status.completed = 1 .. (i - 1) /\ status.run \in Runs
  BY <1>1 DEF CopyOK, Resumable, TypeOK, LogTypes, Runs
<1> DEFINE new == Complete(s0, i)
           given == Resolution(i, d, by, "gate", Fingerprint)
<1>3. /\ new \in Statuses /\ new.state = "running" /\ new.run = status.run
      /\ new.mode = status.mode /\ new.completed = 1 .. i /\ new.tool = FALSE
  <2>1. /\ s0 \in Statuses /\ s0.state = "running" /\ s0.run = status.run
        /\ s0.mode = status.mode /\ s0.completed = status.completed /\ s0.tool = FALSE
    BY <1>1 DEF Statuses, Resumable
  <2>2. 1 .. i = 1 .. (i - 1) \union {i}
    BY <1>2 DEF Steps
  <2>3. new.completed = 1 .. i
    BY <1>2, <2>1, <2>2 DEF Complete, Statuses
  <2> QED
    BY <1>2, <2>1, <2>3 DEF Complete, Statuses, Steps
<1>4. Cardinality(new.completed) = i
  BY <1>2, <1>3, CardInitial DEF Steps
<1>5. /\ mem' = [mem EXCEPT ![p] = new] /\ pc' = [pc EXCEPT ![p] = "save"]
      /\ pos' = [pos EXCEPT ![p] = 1] /\ ran' = [ran EXCEPT ![p] = i]
      /\ UNCHANGED <<status, requested, result, asked, finished, planDone, runs, abort, bounds>>
  BY <1>2, <1>4 DEF ApproveGate, EnterLoop, Goto
<1>6. /\ given \in Resolutions /\ resolved' = resolved \union {given}
      /\ given.run = status.run /\ given.step = i /\ given.decision = d /\ given.kind = "gate"
  BY <1>1, <1>2, FingerprintOK DEF ApproveGate, Resolution, Resolutions,
        TypeOK, DiskTypes, Approved, Decisions
<1>7. ver' \in [Files -> Vers] /\ ver'[PlanFile] = ver[PlanFile]
  <2>1. ver' = IF i \in Artifacts /\ ver[i] = 0 THEN [ver EXCEPT ![i] = 1] ELSE ver
    BY <1>2 DEF ApproveGate
  <2> QED
    BY <2>1 DEF TypeOK, DiskTypes, Files, Vers, PlanFile, Steps
<1>8. TypeOK'
  <2> HIDE DEF new, given
  <2>1. /\ mem' \in [Procs -> Statuses]
        /\ pc' \in [Procs -> {"idle", "loop", "save", "gate", "exec", "work", "ask"}]
    BY <1>3, <1>5 DEF TypeOK, ProcTypes
  <2>2. pos' \in [Procs -> 1 .. N + 1] /\ ran' \in [Procs -> 0 .. N]
    BY <1>2, <1>5 DEF TypeOK, ProcTypes, Steps
  <2>3. resolved' \subseteq Resolutions
    BY <1>6 DEF TypeOK, LogTypes
  <2> QED
    BY <1>5, <1>7, <2>1, <2>2, <2>3 DEF TypeOK, DiskTypes, LogTypes, ProcTypes, WorldTypes, ToResume, bounds
<1>9. Grows
  BY <1>5, <1>6 DEF Grows, TypeOK, LogTypes
<1>10. Copies' \subseteq Copies \union {new}
  BY <1>5 DEF Copies, TypeOK
<1>11. \A s \in Copies' : CopyOK(s)'
  <2> SUFFICES ASSUME NEW s, s = new PROVE CopyOK(s)'
    BY <1>9, <1>10, Carry
  <2> HIDE DEF new
  <2>1. ApprovedIn(s.run, i)'
    <3>1. PICK r : r = given
      OBVIOUS
    <3>2. r \in resolved' /\ r.run = s.run /\ r.step = i /\ r.kind = "gate" /\ r.decision \in Approved
      BY <1>1, <1>3, <1>6, <3>1
    <3> QED
      BY <3>2 DEF ApprovedIn
  <2>2. /\ s \in Statuses /\ s.run = status.run /\ s.mode = status.mode /\ s.state = "running"
        /\ ~s.tool /\ s.completed = 1 .. i
    BY <1>3
  <2> QED
    BY <1>1, <1>2, <1>9, <2>1, <2>2, Completes
<1>12. \A q \in Procs : ProcOK(q)'
  <2>1. ProcOK(p)'
    BY <1>2, <1>3, <1>5 DEF ProcOK, TypeOK, ProcTypes, Steps
  <2>2. \A q \in Procs \ {p} : Unmoved(q)
    BY <1>5 DEF Unmoved, TypeOK
  <2> QED
    BY <2>1, <2>2, UnmovedOK
<1> QED
  BY <1>5, <1>7, <1>8, <1>11, <1>12

LEMMA RejectGateIInv ==
  ASSUME IInv, NEW p \in Procs, RejectGate(p),
         worker' \in 0 .. ToResume
  PROVE  IInv'
<1> USE DEF IInv
<1> DEFINE new == [status EXCEPT !.state = "rejected"]
           given == Resolution(status.paused, "reject", "person", "gate", Fingerprint)
<1>1. /\ status \in Statuses /\ CopyOK(status) /\ status.state = "paused_human_gate"
      /\ ~status.tool
  BY DEF RejectGate, AtGate, TypeOK, DiskTypes, Copies
<1>2. status.paused \in Steps /\ status.run \in Runs
  BY <1>1 DEF CopyOK, Resumable, TypeOK, LogTypes, Runs
<1>3. /\ new \in Statuses /\ new.state = "rejected" /\ new.run = status.run
      /\ new.mode = status.mode /\ new.completed = status.completed
  BY <1>1 DEF Statuses, Terminal
<1>4. given \in Resolutions /\ resolved' = resolved \union {given}
  BY <1>2, FingerprintOK DEF RejectGate, Resolution, Resolutions, TypeOK, DiskTypes, Decisions
<1>5. TypeOK'
  <2>1. DiskTypes'
    BY <1>3, <1>4 DEF TypeOK, DiskTypes, RejectGate, SaveNext, Goto, disk, bounds
  <2>2. LogTypes'
    BY <1>3, <1>4 DEF TypeOK, LogTypes, RejectGate, SaveNext, Goto, disk, bounds
  <2>3. ProcTypes'
    BY <1>3, <1>4 DEF TypeOK, ProcTypes, RejectGate, SaveNext, Goto, disk, bounds
  <2>4. WorldTypes'
    BY <1>3, <1>4 DEF TypeOK, WorldTypes, RejectGate, SaveNext, Goto, disk, bounds
  <2> QED
    BY <2>1, <2>2, <2>3, <2>4 DEF TypeOK
<1>6. Grows
  BY <1>4 DEF Grows, RejectGate, disk, TypeOK, LogTypes
<1>7. Copies' \subseteq Copies \union {new}
  BY DEF Copies, RejectGate, SaveNext, disk, TypeOK
<1>8. \A s \in Copies' : CopyOK(s)'
  <2> SUFFICES ASSUME NEW s, s = new PROVE CopyOK(s)'
    BY <1>6, <1>7, Carry
  <2> QED
    BY <1>1, <1>3, <1>6, SameWork
<1>9. \A q \in Procs : ProcOK(q)'
  <2>1. ProcOK(p)'
    BY <1>3 DEF ProcOK, RejectGate, SaveNext, Goto, TypeOK, ProcTypes
  <2>2. \A q \in Procs \ {p} : Unmoved(q)
    BY DEF Unmoved, RejectGate, SaveNext, Goto, TypeOK
  <2> QED
    BY <2>1, <2>2, UnmovedOK
<1> QED
  BY <1>5, <1>8, <1>9 DEF RejectGate, disk

\* What both other ways to resume do: the loop starts again behind the same work.
LEMMA GoesOn ==
  ASSUME IInv, NEW p \in Procs, Load(p),
         NEW new \in Statuses, new.state = "running", ~new.tool, new.run = status.run,
         new.mode = status.mode, new.completed = status.completed,
         EnterLoop(p, new, Cardinality(status.completed)), Goto(p, "save"),
         resolved \subseteq resolved', resolved' \subseteq Resolutions,
         worker' \in 0 .. ToResume,
         UNCHANGED <<disk, asked, finished, planDone, runs, abort, bounds>>
  PROVE  IInv'
<1> USE DEF IInv
<1>1. CopyOK(status) /\ status.state # "absent" /\ status \in Statuses
  BY DEF Load, Resumable, TypeOK, DiskTypes, Copies
<1>2. PICK k \in 0 .. N : status.completed = 1 .. k
  BY <1>1 DEF CopyOK
<1>3. Cardinality(status.completed) = k
  BY <1>2, CardInitial
<1>4. /\ mem' = [mem EXCEPT ![p] = new] /\ pc' = [pc EXCEPT ![p] = "save"]
      /\ pos' = [pos EXCEPT ![p] = 1] /\ ran' = [ran EXCEPT ![p] = k]
  BY <1>3 DEF EnterLoop, Goto
<1>5. TypeOK'
  <2>1. DiskTypes'
    BY <1>4 DEF TypeOK, DiskTypes, disk, bounds
  <2>2. LogTypes'
    BY <1>4 DEF TypeOK, LogTypes, disk, bounds
  <2>3. ProcTypes'
    BY <1>4 DEF TypeOK, ProcTypes, disk, bounds
  <2>4. WorldTypes'
    BY <1>4 DEF TypeOK, WorldTypes, ToResume, disk, bounds
  <2> QED
    BY <2>1, <2>2, <2>3, <2>4 DEF TypeOK
<1>6. Grows
  BY DEF Grows, disk, TypeOK, LogTypes
<1>7. Copies' \subseteq Copies \union {new}
  BY <1>4 DEF Copies, disk, TypeOK
<1>8. \A s \in Copies' : CopyOK(s)'
  BY <1>1, <1>6, <1>7, Carry, SameWork
<1>9. \A q \in Procs : ProcOK(q)'
  <2>1. ProcOK(p)'
    BY <1>2, <1>4 DEF ProcOK, TypeOK, ProcTypes
  <2>2. \A q \in Procs \ {p} : Unmoved(q)
    BY <1>4 DEF Unmoved, TypeOK
  <2> QED
    BY <2>1, <2>2, UnmovedOK
<1> QED
  BY <1>5, <1>8, <1>9 DEF disk

LEMMA ResumeToolIInv ==
  ASSUME IInv, NEW p \in Procs, NEW d \in Decisions, NEW by \in {"person", "worker"},
         ResumeTool(p, d, by),
         worker' \in 0 .. ToResume
  PROVE  IInv'
<1> DEFINE s0 == [status EXCEPT !.state = "running"]
           new == ClearTool(s0)
           given == Resolution(status.paused, d, by, "tool", NoFingerprint)
<1>1. /\ status \in Statuses /\ CopyOK(status) /\ status.state = "paused_human_gate"
  BY DEF ResumeTool, IInv, TypeOK, DiskTypes, Copies
<1>2. status.paused \in Steps /\ status.run \in Runs
  BY <1>1 DEF CopyOK, Resumable, IInv, TypeOK, LogTypes, Runs
<1>3. /\ s0 \in Statuses /\ s0.state = "running" /\ s0.run = status.run
      /\ s0.mode = status.mode /\ s0.completed = status.completed
  BY <1>1 DEF Statuses, Resumable
<1>4. /\ new \in Statuses /\ new.state = "running" /\ ~new.tool /\ new.run = status.run
      /\ new.mode = status.mode /\ new.completed = status.completed
  BY <1>3 DEF ClearTool, Statuses
<1>5. given \in Resolutions /\ resolved' = resolved \union {given}
  BY <1>2, FingerprintOK DEF ResumeTool, Resolution, Resolutions, IInv, TypeOK, DiskTypes
<1>6. resolved \subseteq resolved' /\ resolved' \subseteq Resolutions
  BY <1>5 DEF IInv, TypeOK, LogTypes
<1> HIDE DEF new
<1> QED
  BY <1>4, <1>6, GoesOn DEF ResumeTool, new

LEMMA ResumeStepIInv ==
  ASSUME IInv, NEW p \in Procs, NEW d \in Decisions, ResumeStep(p, d),
         worker' \in 0 .. ToResume
  PROVE  IInv'
<1> DEFINE new == [status EXCEPT !.state = "running"]
<1>1. status \in Statuses /\ CopyOK(status) /\ status.state \in Resumable \ {"paused_human_gate"}
  BY DEF ResumeStep, Load, IInv, TypeOK, DiskTypes, Copies
<1>2. ~status.tool
  BY <1>1 DEF CopyOK
<1>3. /\ new \in Statuses /\ new.state = "running" /\ ~new.tool /\ new.run = status.run
      /\ new.mode = status.mode /\ new.completed = status.completed
  BY <1>1, <1>2 DEF Statuses, Resumable
<1>4. resolved \subseteq resolved' /\ resolved' \subseteq Resolutions
  BY DEF ResumeStep, log, IInv, TypeOK, LogTypes
<1> QED
  BY <1>3, <1>4, GoesOn DEF ResumeStep, log

LEMMA CrashIInv ==
  ASSUME IInv, NEW p \in Procs, Crash(p) \/ CrashInSave(p)
  PROVE  IInv'
<1> USE DEF IInv
<1>1. TypeOK'
  <2>1. /\ pc' \in [Procs -> {"idle", "loop", "save", "gate", "exec", "work", "ask"}]
        /\ mem' \in [Procs -> Statuses]
        /\ pos' \in [Procs -> 1 .. N + 1] /\ ran' \in [Procs -> 0 .. N]
    BY AbsentOK DEF TypeOK, DiskTypes, ProcTypes, Crash, CrashInSave, Kill, Return, Goto
  <2>2. status' \in Statuses /\ crashes' \in 0 .. MaxCrashes
    BY AbsentOK DEF TypeOK, DiskTypes, WorldTypes, Crash, CrashInSave, Kill, disk
  <2> QED
    BY <2>1, <2>2 DEF TypeOK, DiskTypes, LogTypes, ProcTypes, WorldTypes,
          ToResume, Crash, CrashInSave, disk, log
<1>2. Grows
  BY DEF Grows, Crash, CrashInSave, disk, log, TypeOK, LogTypes
<1>3. Copies' \subseteq Copies \union {Absent}
  BY DEF Copies, Crash, CrashInSave, Kill, Return, disk, TypeOK, ProcTypes
<1>4. \A s \in Copies' : CopyOK(s)'
  BY <1>2, <1>3, Carry, AbsentCopy
<1>5. \A q \in Procs : ProcOK(q)'
  <2>1. ProcOK(p)'
    BY DEF ProcOK, Crash, CrashInSave, Kill, Return, Goto, TypeOK, ProcTypes
  <2>2. \A q \in Procs \ {p} : Unmoved(q)
    BY DEF Unmoved, Crash, CrashInSave, Kill, Return, Goto, TypeOK, ProcTypes
  <2> QED
    BY <2>1, <2>2, UnmovedOK
<1> QED
  BY <1>1, <1>4, <1>5 DEF Crash, CrashInSave, disk

-----------------------------------------------------------------------------
(* The invariant and what follows from it *)

LEMMA NextIInv == IInv /\ [Next]_vars => IInv'
<1> SUFFICES ASSUME IInv, [Next]_vars PROVE IInv'
  OBVIOUS
<1>1. CASE UNCHANGED vars
  <2>1. TypeOK'
    BY <1>1 DEF IInv, TypeOK, DiskTypes, LogTypes, ProcTypes, WorldTypes, vars
  <2>2. Grows
    BY <1>1 DEF Grows, vars, IInv, TypeOK, LogTypes
  <2> QED
    BY <1>1, <2>1, <2>2, NobodyMoves DEF vars, local
<1>2. ASSUME NEW p \in Procs, NEW mode \in RunModes, RunPlan(p, mode) PROVE IInv'
  BY <1>2, RunPlanIInv
<1>3. ASSUME NEW p \in Procs, LoopStep(p) PROVE IInv'
  BY <1>3, SaveIInv, SkipStepIInv, OverMaxStepsIInv, StartStepIInv, RequestGateIInv,
     FinishRunIInv DEF LoopStep
<1>4. ASSUME NEW p \in Procs, ExecStep(p) PROVE IInv'
  BY <1>4, StubStepIInv, RefuseStepIInv, RequestStepIInv, CallWorkerIInv, WorkerAnswersIInv,
     CollectResultIInv, CollectFailureIInv, WorkerPausesIInv DEF ExecStep
<1>5. ASSUME NEW p \in Procs, Resume(p) PROVE IInv'
  <2>1. worker' \in 0 .. ToResume
    BY <1>5 DEF Resume, IInv, TypeOK, WorldTypes
  <2> QED
    BY <1>5, <2>1, ApproveGateIInv, ResumeToolIInv, ResumeStepIInv, RejectGateIInv,
       RenewRequestIInv DEF Resume
<1>6. ASSUME NEW p \in Procs, Crash(p) \/ CrashInSave(p) PROVE IInv'
  BY <1>6, CrashIInv
<1>7. ASSUME World PROVE IInv'
  <2>1. ASSUME NEW p \in Procs, WorkerResumes(p) PROVE IInv'
    <3>1. worker' \in 0 .. ToResume
      BY <2>1, PlanAssumption DEF WorkerResumes, ToResume
    <3>2. "approve" \in Decisions
      BY DEF Decisions
    <3> QED
      BY <2>1, <3>1, <3>2, ApproveGateIInv, ResumeToolIInv, ResumeStepIInv, RenewRequestIInv
         DEF WorkerResumes
  <2> QED
    BY <1>7, <2>1, WorkerAloneIInv, AbortReadsIInv, AbortWritesIInv, ExternalResultIInv,
       EditFileIInv DEF World, StandAlone
<1> QED
  BY <1>1, <1>2, <1>3, <1>4, <1>5, <1>6, <1>7 DEF Next

\* IInv holds in every reachable state, for every plan and any number of processes.
THEOREM Inductive == Spec => []IInv
  BY InitIInv, NextIInv, PTL DEF Spec

\* The types of the engine's state, the position in the loop and steps_run among them.
THEOREM TypeCorrect == Spec => []TypeOK
<1>1. IInv => TypeOK
  BY DEF IInv
<1> QED
  BY <1>1, Inductive, PTL

\* No run gets past a human gate without an approve or an edit of that gate in that run,
\* with any number of engine processes, crashes, edits, aborts and runs.
THEOREM GatesAreApproved == Spec => []GateNeedsApproval
<1>1. IInv => GateNeedsApproval
  BY DEF IInv, GateNeedsApproval, CopyOK
<1> QED
  BY <1>1, Inductive, PTL

\* Steps are completed in order and without holes, and done means all of them.
THEOREM NoStepSkipped == Spec => []NothingSkipped
<1>1. IInv => NothingSkipped
  <2> SUFFICES ASSUME IInv PROVE NothingSkipped
    OBVIOUS
  <2>1. \A s \in Copies : \A i \in s.completed : 1 .. i \subseteq s.completed
    <3> SUFFICES ASSUME NEW s \in Copies, NEW i \in s.completed PROVE 1 .. i \subseteq s.completed
      OBVIOUS
    <3>1. PICK k \in 0 .. N : s.completed = 1 .. k
      BY DEF IInv, CopyOK
    <3> QED
      BY <3>1
  <2>2. \A p \in Procs : pc[p] \in {"loop", "gate", "exec", "work", "ask"} =>
                             1 .. (pos[p] - 1) \subseteq mem[p].completed
    <3> SUFFICES ASSUME NEW p \in Procs, pc[p] \in {"loop", "gate", "exec", "work", "ask"}
                 PROVE  1 .. (pos[p] - 1) \subseteq mem[p].completed
      OBVIOUS
    <3>1. pos[p] \in 1 .. N + 1 /\ ran[p] \in 0 .. N
      BY DEF IInv, TypeOK, ProcTypes
    <3>2. mem[p].completed = 1 .. ran[p] /\ pos[p] <= ran[p] + 1
      BY DEF IInv, ProcOK
    <3> QED
      BY <3>1, <3>2
  <2>3. \A s \in Copies : s.state = "done" => s.completed = Steps /\ s.run \in planDone
    BY DEF IInv, CopyOK
  <2> QED
    BY <2>1, <2>2, <2>3 DEF NothingSkipped
<1> QED
  BY <1>1, Inductive, PTL

\* budget.max_steps is a bound on the run, not on one call of run_plan or resume_run.
THEOREM MaxStepsKept == Spec => []WithinMaxSteps
<1>1. IInv => WithinMaxSteps
  <2> SUFFICES ASSUME IInv, NEW s \in Copies PROVE Cardinality(s.completed) <= BudgetSteps
    BY DEF WithinMaxSteps
  <2>1. PICK k \in 0 .. N : k <= BudgetSteps /\ s.completed = 1 .. k
    BY DEF IInv, CopyOK
  <2> QED
    BY <2>1, CardInitial
<1> QED
  BY <1>1, Inductive, PTL

\* What is completed is in the log of the run and, with a worker, in its result.json.
THEOREM CompletedWorkIsBacked == Spec => []CompletedIsBacked
<1>1. IInv => CompletedIsBacked
  BY DEF IInv, CompletedIsBacked, CopyOK
<1> QED
  BY <1>1, Inductive, PTL

\* Every pause is one that resume_run can answer.
THEOREM PausesAreAnswerable == Spec => []PauseIsAnswerable
<1>1. IInv => PauseIsAnswerable
  BY DEF IInv, PauseIsAnswerable, Copies, CopyOK
<1> QED
  BY <1>1, Inductive, PTL

-----------------------------------------------------------------------------
(* One engine process at a time, and no operator abort *)

\* What most directories see: one CLI or worker at a time has the run open.
OneEngine == (\A p, q \in Procs : p = q) /\ MaxAborts = 0

Done(s) == Cardinality(s.completed)

\* A run that has been given its id and has written nothing yet.
Unwritten(p) ==
    /\ pc[p] = "loop" /\ pos[p] = 1 /\ mem[p].completed = {}
    /\ status.run < mem[p].run
    /\ status.state \in Resumable \union {"absent"}

\* What the process is about to save is status.json with its next step completed, or as far
\* as it and waiting, going on or at an end.
OneWriteAhead(p) ==
    /\ mem[p].run = status.run /\ status.state \in Resumable
    /\ \/ /\ mem[p].state = "running" /\ Done(mem[p]) = Done(status) + 1
          /\ Done(status) + 1 \in Gates =>
                 Contract!AtGate /\ ApprovedIn(status.run, Done(status) + 1)
       \/ mem[p].completed = status.completed /\ mem[p].state \in Resumable /\ ~Contract!AtGate
       \/ /\ mem[p].completed = status.completed /\ mem[p].state \in Contract!Closed
          /\ mem[p].state = "rejected" <=> Contract!AtGate
          /\ mem[p].state = "done" => Done(mem[p]) = N

\* Outside a save the process has in memory what is on disk.
SoloAt(p) ==
    /\ pc[p] = "save" => OneWriteAhead(p)
    /\ pc[p] \notin {"idle", "save"} => status = mem[p] \/ Unwritten(p)

SoloInv == abort = Absent /\ status.state # "aborted_operator" /\ \A p \in Procs : SoloAt(p)

\* A step of the engine is one of the contract, or nothing that the contract speaks of.
ContractStep == Contract!Next \/ UNCHANGED Contract!vars

LEMMA Completed ==
  ASSUME NEW s, CopyOK(s)
  PROVE  /\ s.completed = 1 .. Done(s) /\ Done(s) \in 0 .. N
         /\ \A k \in 0 .. N : s.completed = 1 .. k => Done(s) = k
<1>1. PICK k \in 0 .. N : s.completed = 1 .. k
  BY DEF CopyOK
<1>2. \A j \in 0 .. N : Cardinality(1 .. j) = j
  BY CardInitial
<1> QED
  BY <1>1, <1>2 DEF Done

\* The process and the files as IInv and SoloInv have them, for the process that moves.
LEMMA SoloFacts ==
  ASSUME IInv, SoloInv, NEW p \in Procs
  PROVE  /\ CopyOK(status) /\ CopyOK(mem[p]) /\ status \in Statuses /\ mem[p] \in Statuses
         /\ ProcOK(p) /\ SoloAt(p) /\ abort = Absent /\ status.state # "aborted_operator"
         /\ pos[p] \in 1 .. N + 1 /\ ran[p] \in 0 .. N /\ runs \in 0 .. MaxRuns
BY DEF IInv, SoloInv, Copies, TypeOK, DiskTypes, ProcTypes, LogTypes

\* Only one process can have moved.
LEMMA SoloAfter ==
  ASSUME OneEngine, NEW p \in Procs, SoloAt(p)', abort' = Absent, status'.state # "aborted_operator"
  PROVE  SoloInv'
BY DEF OneEngine, SoloInv

LEMMA Unseen == ASSUME UNCHANGED <<status, resolved>> PROVE ContractStep
BY DEF ContractStep, Contract!vars

\* p moves on with the same status, on disk and in memory.
LEMMA GoesOnSolo ==
  ASSUME OneEngine, IInv, SoloInv, NEW p \in Procs, pc[p] \notin {"idle", "save"}, status = mem[p],
         UNCHANGED <<status, resolved, abort, mem>>, pc'[p] \notin {"idle", "save"}
  PROVE  SoloInv' /\ ContractStep
<1>1. SoloAt(p)'
  BY DEF SoloAt
<1> QED
  BY <1>1, SoloFacts, SoloAfter, Unseen

\* p is about to save.
LEMMA SavesNext ==
  ASSUME OneEngine, IInv, SoloInv, NEW p \in Procs, pc'[p] = "save", OneWriteAhead(p)',
         UNCHANGED <<status, resolved, abort>>
  PROVE  SoloInv' /\ ContractStep
<1>1. SoloAt(p)'
  BY DEF SoloAt
<1> QED
  BY <1>1, SoloFacts, SoloAfter, Unseen

\* A run that runs pauses or ends: status.json does not say that it waits at a gate.
LEMMA StopsSolo ==
  ASSUME OneEngine, IInv, SoloInv, NEW p \in Procs, status = mem[p], mem[p].state = "running",
         pc'[p] = "save", UNCHANGED <<status, resolved, abort>>,
         mem'[p].run = mem[p].run, mem'[p].completed = mem[p].completed,
         \/ mem'[p].state \in Resumable
         \/ mem'[p].state \in {"failed", "aborted_budget"}
         \/ mem'[p].state = "done" /\ Done(mem[p]) = N
  PROVE  SoloInv' /\ ContractStep
<1>1. ~Contract!AtGate /\ ~Contract!AtGate'
  BY DEF Contract!AtGate
<1>2. OneWriteAhead(p)'
  BY <1>1 DEF OneWriteAhead, Contract!Closed, Resumable, Done
<1> QED
  BY <1>2, SavesNext

LEMMA RunPlanSolo ==
  ASSUME OneEngine, IInv, SoloInv, NEW p \in Procs, NEW mode, RunPlan(p, mode)
  PROVE  SoloInv' /\ ContractStep
<1>1. /\ pc' = [pc EXCEPT ![p] = "loop"] /\ mem' = [mem EXCEPT ![p] = NewRun(runs + 1, mode)]
      /\ pos' = [pos EXCEPT ![p] = 1] /\ UNCHANGED <<status, resolved, abort>>
      /\ runs = 0 \/ status.state \in Resumable
  BY DEF RunPlan, EnterLoop, Goto, log
<1>2. pc'[p] = "loop" /\ pos'[p] = 1 /\ mem'[p].completed = {} /\ mem'[p].run = runs + 1
  BY <1>1 DEF IInv, TypeOK, ProcTypes, NewRun
<1>3. status.run < runs + 1 /\ status.state \in Resumable \union {"absent"}
  <2>1. status.state = "absent" => status.run = 0
    BY SoloFacts DEF CopyOK, Absent
  <2>2. status.state # "absent" => status.run \in 1 .. runs
    BY SoloFacts DEF CopyOK
  <2> QED
    BY <1>1, <2>1, <2>2, SoloFacts
<1>4. SoloAt(p)'
  BY <1>1, <1>2, <1>3 DEF SoloAt, Unwritten
<1> QED
  BY <1>1, <1>4, SoloFacts, SoloAfter, Unseen

\* The write that the process was about to make is a step of the contract.
LEMMA SaveSolo ==
  ASSUME OneEngine, IInv, SoloInv, NEW p \in Procs, Save(p)
  PROVE  SoloInv' /\ ContractStep
<1>1. /\ pc[p] = "save" /\ status' = mem[p] /\ OneWriteAhead(p)
      /\ UNCHANGED <<resolved, abort>>
  BY SoloFacts DEF Save, SoloAt, log
<1>2. SoloInv'
  <2>1. SoloAt(p)'
    BY <1>1 DEF Save, SoloAt, Goto, Return, IInv, TypeOK, ProcTypes
  <2>2. status'.state # "aborted_operator"
    BY <1>1 DEF OneWriteAhead, Resumable, Contract!Closed
  <2> QED
    BY <1>1, <2>1, <2>2, SoloFacts, SoloAfter
<1>3. Done(status) \in 0 .. N /\ Done(mem[p]) \in 0 .. N
  BY SoloFacts, Completed
<1>4. status.state \in Contract!Open /\ status'.run = status.run
  BY <1>1 DEF OneWriteAhead, Contract!Open, Resumable
<1>5. CASE /\ mem[p].state = "running" /\ Done(mem[p]) = Done(status) + 1
           /\ Done(status) + 1 \in Gates =>
                  Contract!AtGate /\ ApprovedIn(status.run, Done(status) + 1)
  <2>1. ASSUME ApprovedIn(status.run, Done(status) + 1)
        PROVE  <<status.run, Done(status) + 1>> \in
                   {<<r.run, r.step>> : r \in {x \in resolved : x.kind = "gate" /\ x.decision \in Approved}}
    BY <2>1 DEF ApprovedIn
  <2>2. Contract!Advance
    BY <1>1, <1>3, <1>4, <1>5, <2>1 DEF Contract!Advance, Done
  <2> QED
    BY <1>2, <2>2 DEF ContractStep, Contract!Next
<1>6. CASE mem[p].completed = status.completed /\ mem[p].state \in Resumable /\ ~Contract!AtGate
  <2>1. Contract!Move
    BY <1>1, <1>4, <1>6 DEF Contract!Move, Contract!Open, Resumable
  <2> QED
    BY <1>2, <2>1 DEF ContractStep, Contract!Next
<1>7. CASE /\ mem[p].completed = status.completed /\ mem[p].state \in Contract!Closed
           /\ mem[p].state = "rejected" <=> Contract!AtGate
           /\ mem[p].state = "done" => Done(mem[p]) = N
  <2>1. Contract!Close
    BY <1>1, <1>4, <1>7 DEF Contract!Close, Done
  <2> QED
    BY <1>2, <2>1 DEF ContractStep, Contract!Next
<1> QED
  BY <1>1, <1>5, <1>6, <1>7 DEF OneWriteAhead

\* A run that has written nothing is at its first step, and no step stands before that.
LEMMA SkipStepSolo ==
  ASSUME OneEngine, IInv, SoloInv, NEW p \in Procs, SkipStep(p)
  PROVE  SoloInv' /\ ContractStep
<1>1. pc[p] = "loop" /\ pos[p] <= N /\ UNCHANGED <<status, resolved, abort, mem, pc>>
  BY DEF SkipStep, AtStep, disk, log
<1>2. AlreadyDone(p)
  BY <1>1, AtFirstOpen DEF SkipStep
<1>3. status = mem[p]
  BY <1>1, <1>2, SoloFacts DEF SoloAt, Unwritten, AlreadyDone
<1> QED
  BY <1>1, <1>3, GoesOnSolo

LEMMA OverMaxStepsSolo ==
  ASSUME OneEngine, IInv, SoloInv, NEW p \in Procs, OverMaxSteps(p)
  PROVE  SoloInv' /\ ContractStep
<1>1. /\ pc[p] = "loop" /\ ran[p] >= BudgetSteps /\ ran[p] = pos[p] - 1
      /\ mem' = [mem EXCEPT ![p] = [mem[p] EXCEPT !.state = "aborted_budget"]]
      /\ pc' = [pc EXCEPT ![p] = "save"] /\ UNCHANGED <<status, resolved, abort>>
  BY AtFirstOpen DEF OverMaxSteps, AtStep, SaveNext, Goto, disk, log
<1>2. status = mem[p]
  BY <1>1, SoloFacts DEF SoloAt, Unwritten
<1>3. pc'[p] = "save" /\ mem'[p] = [mem[p] EXCEPT !.state = "aborted_budget"]
  BY <1>1 DEF IInv, TypeOK, ProcTypes
<1>4. mem'[p].run = mem[p].run /\ mem'[p].completed = mem[p].completed /\ mem'[p].state = "aborted_budget"
  BY <1>3, SoloFacts DEF Statuses
<1> QED
  BY <1>1, <1>2, <1>3, <1>4, SoloFacts, StopsSolo DEF ProcOK

\* The first write of a new run is where the contract begins one.
LEMMA StartStepSolo ==
  ASSUME OneEngine, IInv, SoloInv, NEW p \in Procs, StartStep(p)
  PROVE  SoloInv' /\ ContractStep
<1>1. /\ pc[p] = "loop" /\ mem' = [mem EXCEPT ![p].current = pos[p]] /\ status' = mem'[p]
      /\ pc' = [pc EXCEPT ![p] = HowToRun(pos[p])] /\ UNCHANGED <<resolved, abort>>
  BY DEF StartStep, AtStep, Goto, log
<1>2. status' = [mem[p] EXCEPT !.current = pos[p]] /\ pc'[p] = HowToRun(pos[p])
  BY <1>1 DEF IInv, TypeOK, ProcTypes
<1>3. /\ status'.run = mem[p].run /\ status'.state = mem[p].state /\ mem[p].state = "running"
      /\ status'.completed = mem[p].completed
  BY <1>1, <1>2, SoloFacts DEF Statuses, ProcOK
<1>4. SoloInv'
  <2>1. SoloAt(p)'
    BY <1>1, <1>2 DEF SoloAt, HowToRun
  <2> QED
    BY <1>1, <1>3, <2>1, SoloFacts, SoloAfter
<1>5. CASE status = mem[p]
  BY <1>1, <1>3, <1>4, <1>5 DEF ContractStep, Contract!vars
<1>6. CASE Unwritten(p)
  <2>1. Cardinality({}) = 0
    BY FS_EmptySet
  <2>2. mem[p].run \in Nat
    BY SoloFacts DEF Statuses
  <2>3. Contract!Begin
    BY <1>1, <1>3, <1>6, <2>1, <2>2 DEF Unwritten, Contract!Begin, Contract!Open, Resumable
  <2> QED
    BY <1>4, <2>3 DEF ContractStep, Contract!Next
<1> QED
  BY <1>1, <1>5, <1>6, SoloFacts DEF SoloAt

\* Past the loop the run is on disk.
LEMMA OnDisk ==
  ASSUME IInv, SoloInv, NEW p \in Procs, pc[p] \in {"gate", "exec", "work", "ask"}
  PROVE  status = mem[p] /\ mem[p].state = "running"
BY SoloFacts DEF SoloAt, Unwritten, ProcOK

LEMMA RequestGateSolo ==
  ASSUME OneEngine, IInv, SoloInv, NEW p \in Procs, RequestGate(p)
  PROVE  SoloInv' /\ ContractStep
<1>1. /\ pc[p] = "gate" /\ UNCHANGED <<status, resolved, abort>> /\ pc' = [pc EXCEPT ![p] = "save"]
      /\ mem' = [mem EXCEPT ![p] = [mem[p] EXCEPT !.state = "paused_human_gate", !.paused = pos[p]]]
  BY DEF RequestGate, SaveNext, Goto, disk
<1>2. /\ pc'[p] = "save"
      /\ mem'[p] = [mem[p] EXCEPT !.state = "paused_human_gate", !.paused = pos[p]]
  BY <1>1 DEF IInv, TypeOK, ProcTypes
<1>3. mem'[p].run = mem[p].run /\ mem'[p].completed = mem[p].completed /\ mem'[p].state \in Resumable
  BY <1>2, SoloFacts DEF Statuses, Resumable
<1> QED
  BY <1>1, <1>2, <1>3, OnDisk, StopsSolo

LEMMA WorkerPausesSolo ==
  ASSUME OneEngine, IInv, SoloInv, NEW p \in Procs, NEW state \in Resumable, NEW tool,
         WorkerPauses(p, state, tool)
  PROVE  SoloInv' /\ ContractStep
<1>1. /\ pc[p] \in {"work", "ask"} /\ UNCHANGED <<status, resolved, abort>>
      /\ pc' = [pc EXCEPT ![p] = "save"]
      /\ mem' = [mem EXCEPT ![p] = [mem[p] EXCEPT !.state = state, !.paused = pos[p], !.tool = tool]]
  BY DEF WorkerPauses, SaveNext, Goto, disk, log
<1>2. /\ pc'[p] = "save"
      /\ mem'[p] = [mem[p] EXCEPT !.state = state, !.paused = pos[p], !.tool = tool]
  BY <1>1 DEF IInv, TypeOK, ProcTypes
<1>3. mem'[p].run = mem[p].run /\ mem'[p].completed = mem[p].completed /\ mem'[p].state \in Resumable
  BY <1>2, SoloFacts DEF Statuses
<1> QED
  BY <1>1, <1>2, <1>3, OnDisk, StopsSolo

LEMMA FailStepSolo ==
  ASSUME OneEngine, IInv, SoloInv, NEW p \in Procs, pc[p] \in {"exec", "work"}, FailStep(p),
         UNCHANGED <<status, resolved, abort>>
  PROVE  SoloInv' /\ ContractStep
<1>1. pc'[p] = "save" /\ mem'[p] = [mem[p] EXCEPT !.state = "failed"]
  BY DEF FailStep, SaveNext, Goto, IInv, TypeOK, ProcTypes
<1>2. mem'[p].run = mem[p].run /\ mem'[p].completed = mem[p].completed /\ mem'[p].state = "failed"
  BY <1>1, SoloFacts DEF Statuses
<1> QED
  BY <1>1, <1>2, OnDisk, StopsSolo

\* A step that is no gate is the next one to be completed.
LEMMA FinishStepSolo ==
  ASSUME OneEngine, IInv, SoloInv, NEW p \in Procs, pc[p] \in {"exec", "work"}, NEW written,
         FinishStep(p, written), UNCHANGED <<status, resolved, abort>>
  PROVE  SoloInv' /\ ContractStep
<1>1. pc'[p] = "save" /\ mem'[p] = [mem[p] EXCEPT !.completed = @ \union {pos[p]}]
  BY DEF FinishStep, SaveNext, Complete, Goto, IInv, TypeOK, ProcTypes
<1>2. mem'[p].run = mem[p].run /\ mem'[p].state = mem[p].state
      /\ mem'[p].completed = mem[p].completed \union {pos[p]}
  BY <1>1, SoloFacts DEF Statuses
<1>3. status = mem[p] /\ mem[p].state = "running"
  BY OnDisk
<1>4. /\ pos[p] \in 1 .. N /\ pos[p] \notin Gates /\ mem[p].completed = 1 .. pos[p] - 1
  BY <1>3, SoloFacts DEF ProcOK
<1>5. mem'[p].completed = 1 .. pos[p]
  BY <1>2, <1>4
<1>6. Done(status) = pos[p] - 1 /\ Done(mem'[p]) = pos[p]
  <2>1. Cardinality(1 .. pos[p] - 1) = pos[p] - 1 /\ Cardinality(1 .. pos[p]) = pos[p]
    BY <1>4, CardInitial
  <2> QED
    BY <1>3, <1>4, <1>5, <2>1 DEF Done
<1>7. OneWriteAhead(p)'
  <2>1. Done(mem[p])' = Done(status)' + 1 /\ Done(status)' + 1 \notin Gates
    BY <1>4, <1>6 DEF Done
  <2> QED
    BY <1>2, <1>3, <2>1 DEF OneWriteAhead, Resumable
<1> QED
  BY <1>1, <1>7, SavesNext

LEMMA FinishRunSolo ==
  ASSUME OneEngine, IInv, SoloInv, NEW p \in Procs, FinishRun(p)
  PROVE  SoloInv' /\ ContractStep
<1> DEFINE s == [mem[p] EXCEPT !.paused = 0, !.current = 0]
<1> DEFINE state == IF DoneWhen(mem[p].run) THEN "done" ELSE "failed"
<1> DEFINE new == [s EXCEPT !.state = state]
<1>1. /\ pc[p] = "loop" /\ pos[p] > N /\ UNCHANGED <<status, resolved, abort>>
      /\ pc' = [pc EXCEPT ![p] = "save"] /\ mem' = [mem EXCEPT ![p] = new]
  BY DEF FinishRun, SaveNext, Goto, disk
<1>2. pc'[p] = "save" /\ mem'[p] = new
  BY <1>1 DEF IInv, TypeOK, ProcTypes
<1>3. new.run = mem[p].run /\ new.completed = mem[p].completed /\ new.state \in {"done", "failed"}
  <2>1. mem[p] \in Statuses
    BY SoloFacts
  <2>2. s \in Statuses /\ s.run = mem[p].run /\ s.completed = mem[p].completed
    <3>1. 0 \in 0 .. N
      BY PlanAssumption
    <3> QED
      BY <2>1, <3>1 DEF Statuses
  <2>3. state \in {"done", "failed"}
    OBVIOUS
  <2> HIDE DEF s, state
  <2>4. new = [s EXCEPT !.state = state]
    OBVIOUS
  <2> HIDE DEF new
  <2>5. new.run = s.run /\ new.completed = s.completed
    BY <2>2, <2>4 DEF Statuses
  <2>6. new.state = state
    BY <2>2, <2>4 DEF Statuses
  <2> QED
    BY <2>2, <2>3, <2>5, <2>6
<1> HIDE DEF new, s, state
<1>4. pos[p] = N + 1 /\ ran[p] = N /\ mem[p].completed = 1 .. N /\ mem[p].state = "running"
  <2>1. pc[p] = "loop" /\ pos[p] > N
    BY <1>1
  <2> QED
    BY <2>1, SoloFacts DEF ProcOK
<1>5. status = mem[p]
  BY <1>1, <1>4, SoloFacts DEF SoloAt, Unwritten
<1>6. Done(mem[p]) = N
  BY <1>4, CardInitial DEF Done
<1> QED
  BY <1>1, <1>2, <1>3, <1>4, <1>5, <1>6, StopsSolo

\* A gate that waits: the step after the completed ones.
LEMMA WaitingGate ==
  ASSUME IInv, SoloInv, NEW p \in Procs, Load(p), status.state = "paused_human_gate"
  PROVE  /\ status.paused \in Steps /\ Done(status) = status.paused - 1
         /\ Contract!AtGate <=> ~status.tool
         /\ ~status.tool => status.paused \in Gates
<1>1. /\ status.paused \in Steps /\ status.completed = 1 .. (status.paused - 1)
      /\ status.tool <=> status.paused \notin Gates
  BY SoloFacts DEF CopyOK, Resumable
<1>2. Done(status) = status.paused - 1
  BY <1>1, CardInitial DEF Done, Steps
<1> QED
  BY <1>1, <1>2 DEF Contract!AtGate, Done, Steps

LEMMA ApproveGateSolo ==
  ASSUME OneEngine, IInv, SoloInv, NEW p \in Procs, NEW d, NEW by, ApproveGate(p, d, by)
  PROVE  SoloInv' /\ ContractStep
<1> DEFINE new == Complete([status EXCEPT !.state = "running"], status.paused)
<1> DEFINE r == Resolution(status.paused, d, by, "gate", Fingerprint)
<1>1. /\ Load(p) /\ status.state = "paused_human_gate" /\ ~status.tool /\ d \in Approved
      /\ resolved' = resolved \union {r} /\ mem' = [mem EXCEPT ![p] = new]
      /\ pc' = [pc EXCEPT ![p] = "save"] /\ UNCHANGED <<status, abort>>
  BY DEF ApproveGate, AtGate, EnterLoop, Goto
<1>2. /\ status.paused \in Steps /\ status.paused \in Gates /\ Done(status) = status.paused - 1
      /\ Contract!AtGate
  BY <1>1, WaitingGate
<1>3. r.run = status.run /\ r.step = status.paused /\ r.kind = "gate" /\ r.decision = d
  BY DEF Resolution
<1>4. /\ new.run = status.run /\ new.state = "running"
      /\ new.completed = status.completed \union {status.paused}
  BY SoloFacts DEF Statuses, Complete
<1> HIDE DEF new, r
<1>5. pc'[p] = "save" /\ mem'[p] = new
  BY <1>1 DEF IInv, TypeOK, ProcTypes
<1>6. Done(new) = Done(status) + 1
  <2>1. status.completed = 1 .. (status.paused - 1)
    BY <1>2, SoloFacts, Completed
  <2>2. new.completed = 1 .. status.paused
    BY <1>2, <1>4, <2>1 DEF Steps
  <2> QED
    BY <1>2, <2>2, CardInitial DEF Done, Steps
<1>7. OneWriteAhead(p)'
  <2>1. ApprovedIn(status.run, status.paused)'
    BY <1>1, <1>3 DEF ApprovedIn
  <2>2. Done(status) + 1 = status.paused
    BY <1>2 DEF Steps
  <2>3. Contract!AtGate'
    BY <1>1, <1>2 DEF Contract!AtGate
  <2> QED
    BY <1>1, <1>4, <1>5, <1>6, <2>1, <2>2, <2>3 DEF OneWriteAhead, Done, Resumable
<1>8. SoloInv'
  <2>1. SoloAt(p)'
    BY <1>5, <1>7 DEF SoloAt
  <2> QED
    BY <1>1, <2>1, SoloFacts, SoloAfter
<1>9. Contract!Approve
  <2>1. {<<x.run, x.step>> : x \in {y \in resolved' : y.kind = "gate" /\ y.decision \in Approved}}
            = {<<x.run, x.step>> : x \in {y \in resolved : y.kind = "gate" /\ y.decision \in Approved}}
              \union {<<status.run, status.paused>>}
    BY <1>1, <1>3
  <2>2. Cardinality(status.completed) + 1 = status.paused
    BY <1>2 DEF Steps, Done
  <2> QED
    BY <1>1, <1>2, <2>1, <2>2 DEF Contract!Approve
<1> QED
  BY <1>8, <1>9 DEF ContractStep, Contract!Next

\* A decision that approves no gate is not in the contract.
LEMMA NotApproved ==
  ASSUME NEW r, resolved' = resolved \union {r}, r.kind # "gate" \/ r.decision \notin Approved,
         status' = status
  PROVE  ContractStep
<1>1. {<<x.run, x.step>> : x \in {y \in resolved' : y.kind = "gate" /\ y.decision \in Approved}}
          = {<<x.run, x.step>> : x \in {y \in resolved : y.kind = "gate" /\ y.decision \in Approved}}
  OBVIOUS
<1> QED
  BY <1>1 DEF ContractStep, Contract!vars

LEMMA RejectGateSolo ==
  ASSUME OneEngine, IInv, SoloInv, NEW p \in Procs, RejectGate(p)
  PROVE  SoloInv' /\ ContractStep
<1> DEFINE r == Resolution(status.paused, "reject", "person", "gate", Fingerprint)
<1>1. /\ Load(p) /\ status.state = "paused_human_gate" /\ ~status.tool
      /\ resolved' = resolved \union {r} /\ mem' = [mem EXCEPT ![p] = [status EXCEPT !.state = "rejected"]]
      /\ pc' = [pc EXCEPT ![p] = "save"] /\ UNCHANGED <<status, abort>>
  BY DEF RejectGate, AtGate, SaveNext, Goto, disk
<1>2. r.decision \notin Approved
  BY DEF Resolution, Approved
<1> HIDE DEF r
<1>3. Contract!AtGate'
  BY <1>1, WaitingGate DEF Contract!AtGate
<1>4. pc'[p] = "save" /\ mem'[p] = [status EXCEPT !.state = "rejected"]
  BY <1>1 DEF IInv, TypeOK, ProcTypes
<1>5. mem'[p].run = status.run /\ mem'[p].completed = status.completed /\ mem'[p].state = "rejected"
  BY <1>4, SoloFacts DEF Statuses
<1>6. SoloAt(p)'
  BY <1>1, <1>3, <1>4, <1>5 DEF SoloAt, OneWriteAhead, Contract!Closed, Resumable, Done
<1> QED
  BY <1>1, <1>2, <1>6, NotApproved, SoloFacts, SoloAfter

LEMMA ResumeToolSolo ==
  ASSUME OneEngine, IInv, SoloInv, NEW p \in Procs, NEW d, NEW by, ResumeTool(p, d, by)
  PROVE  SoloInv' /\ ContractStep
<1> DEFINE r == Resolution(status.paused, d, by, "tool", NoFingerprint)
<1> DEFINE new == ClearTool([status EXCEPT !.state = "running"])
<1>1. /\ Load(p) /\ status.state = "paused_human_gate" /\ status.tool
      /\ resolved' = resolved \union {r} /\ mem' = [mem EXCEPT ![p] = new]
      /\ pc' = [pc EXCEPT ![p] = "save"] /\ UNCHANGED <<status, abort>>
  BY DEF ResumeTool, EnterLoop, Goto, disk
<1>2. r.kind # "gate"
  BY DEF Resolution
<1>3. ~Contract!AtGate'
  BY <1>1, WaitingGate DEF Contract!AtGate
<1>4. new.run = status.run /\ new.completed = status.completed /\ new.state = "running"
  BY SoloFacts DEF Statuses, ClearTool
<1> HIDE DEF r, new
<1>5. pc'[p] = "save" /\ mem'[p] = new
  BY <1>1 DEF IInv, TypeOK, ProcTypes
<1>6. SoloAt(p)'
  BY <1>1, <1>3, <1>4, <1>5 DEF SoloAt, OneWriteAhead, Resumable
<1> QED
  BY <1>1, <1>2, <1>6, NotApproved, SoloFacts, SoloAfter

LEMMA ResumeStepSolo ==
  ASSUME OneEngine, IInv, SoloInv, NEW p \in Procs, NEW d, ResumeStep(p, d)
  PROVE  SoloInv' /\ ContractStep
<1>1. /\ status.state \in Resumable /\ status.state # "paused_human_gate"
      /\ mem' = [mem EXCEPT ![p] = [status EXCEPT !.state = "running"]]
      /\ pc' = [pc EXCEPT ![p] = "save"] /\ UNCHANGED <<status, resolved, abort>>
  BY DEF ResumeStep, Load, EnterLoop, Goto, disk, log
<1>2. ~Contract!AtGate'
  BY <1>1 DEF Contract!AtGate
<1>3. pc'[p] = "save" /\ mem'[p] = [status EXCEPT !.state = "running"]
  BY <1>1 DEF IInv, TypeOK, ProcTypes
<1>4. mem'[p].run = status.run /\ mem'[p].completed = status.completed /\ mem'[p].state = "running"
  BY <1>3, SoloFacts DEF Statuses
<1>5. OneWriteAhead(p)'
  BY <1>1, <1>2, <1>4 DEF OneWriteAhead, Resumable
<1> QED
  BY <1>1, <1>3, <1>5, SavesNext

LEMMA CrashSolo ==
  ASSUME OneEngine, IInv, SoloInv, NEW p \in Procs, Crash(p) \/ CrashInSave(p)
  PROVE  SoloInv' /\ ContractStep
<1>1. pc'[p] = "idle" /\ UNCHANGED <<resolved, abort>>
  BY DEF Crash, CrashInSave, Kill, Return, Goto, IInv, TypeOK, ProcTypes, log
<1>2. status' = status \/ (pc[p] = "save" /\ status' = Absent)
  BY DEF Crash, CrashInSave, disk
<1>3. SoloInv'
  <2>1. SoloAt(p)'
    BY <1>1 DEF SoloAt
  <2> QED
    BY <1>1, <1>2, <2>1, SoloFacts, SoloAfter, AbsentOK
<1>4. CASE status' = status
  BY <1>1, <1>3, <1>4, Unseen
<1>5. CASE pc[p] = "save" /\ status' = Absent
  <2>1. status.state \in Resumable
    BY <1>5, SoloFacts DEF SoloAt, OneWriteAhead
  <2>2. Cardinality({}) = 0
    BY FS_EmptySet
  <2>3. Contract!Lose
    BY <1>1, <1>5, <2>1, <2>2 DEF Contract!Lose, Contract!Open, Resumable, Absent
  <2> QED
    BY <1>3, <2>3 DEF ContractStep, Contract!Next
<1> QED
  BY <1>2, <1>4, <1>5

\* Files change, or the stand-alone worker moves, and no process does.
LEMMA OthersSolo ==
  ASSUME SoloInv, UNCHANGED <<status, resolved, abort, pc, mem, pos>>
  PROVE  SoloInv' /\ ContractStep
<1>1. ASSUME NEW p \in Procs PROVE SoloAt(p)'
  <2>1. SoloAt(p)
    BY DEF SoloInv
  <2> QED
    BY <2>1 DEF SoloAt, OneWriteAhead, Unwritten, ApprovedIn, Done, Contract!AtGate
<1> QED
  BY <1>1, Unseen DEF SoloInv

LEMMA LoopSolo ==
  ASSUME OneEngine, IInv, SoloInv, NEW p \in Procs, LoopStep(p)
  PROVE  SoloInv' /\ ContractStep
BY SaveSolo, SkipStepSolo, OverMaxStepsSolo, StartStepSolo, RequestGateSolo, FinishRunSolo DEF LoopStep

LEMMA ExecSolo ==
  ASSUME OneEngine, IInv, SoloInv, NEW p \in Procs, ExecStep(p)
  PROVE  SoloInv' /\ ContractStep
<1>1. CASE StubStep(p) \/ CollectResult(p)
  BY <1>1, FinishStepSolo DEF StubStep, CollectResult
<1>2. CASE RefuseStep(p) \/ CollectFailure(p)
  BY <1>2, FailStepSolo DEF RefuseStep, CollectFailure, disk, log
<1>3. CASE RequestStep(p) \/ CallWorker(p) \/ WorkerAnswers(p)
  <2>1. /\ pc[p] \in {"exec", "work", "ask"} /\ pc'[p] \notin {"idle", "save"}
        /\ UNCHANGED <<status, resolved, abort, mem>>
    BY <1>3 DEF RequestStep, CallWorker, WorkerAnswers, Goto, disk, log, IInv, TypeOK, ProcTypes
  <2> QED
    BY <2>1, OnDisk, GoesOnSolo
<1> QED
  BY <1>1, <1>2, <1>3, WorkerPausesSolo DEF ExecStep

LEMMA WorldSolo ==
  ASSUME OneEngine, IInv, SoloInv, World
  PROVE  SoloInv' /\ ContractStep
<1>1. CASE \E p \in Procs : WorkerResumes(p)
  <2>1. PICK p \in Procs : WorkerResumes(p)
    BY <1>1
  <2>2. CASE RenewRequest(p)
    BY <2>2, OthersSolo DEF RenewRequest, disk, local
  <2> QED
    BY <2>1, <2>2, ApproveGateSolo, ResumeToolSolo, ResumeStepSolo DEF WorkerResumes
<1>2. CASE AbortReads \/ AbortWrites
  <2>1. ~AbortReads
    BY DEF OneEngine, AbortReads, IInv, TypeOK, WorldTypes
  <2>2. ~AbortWrites
    BY DEF SoloInv, AbortWrites
  <2> QED
    BY <1>2, <2>1, <2>2
<1>3. CASE WorkerStarts \/ WorkerDone \/ WorkerGivesUp
  BY <1>3, OthersSolo DEF WorkerStarts, WorkerDone, WorkerGivesUp, disk, log, local
<1>4. ASSUME NEW i, NEW r, ExternalResult(i, r) PROVE SoloInv' /\ ContractStep
  BY <1>4, OthersSolo DEF ExternalResult, log, local
<1>5. ASSUME NEW f, NEW v, EditFile(f, v) PROVE SoloInv' /\ ContractStep
  BY <1>5, OthersSolo DEF EditFile, log, local
<1> QED
  BY <1>1, <1>2, <1>3, <1>4, <1>5 DEF World, StandAlone

LEMMA NextSolo ==
  ASSUME OneEngine, IInv, SoloInv, [Next]_vars
  PROVE  SoloInv' /\ ContractStep
<1>1. CASE UNCHANGED vars
  BY <1>1, OthersSolo DEF vars
<1>2. ASSUME NEW p \in Procs, NEW mode \in RunModes, RunPlan(p, mode) PROVE SoloInv' /\ ContractStep
  BY <1>2, RunPlanSolo
<1>3. ASSUME NEW p \in Procs, Resume(p) PROVE SoloInv' /\ ContractStep
  <2>1. CASE RenewRequest(p)
    BY <2>1, OthersSolo DEF RenewRequest, disk, local
  <2> QED
    BY <1>3, <2>1, ApproveGateSolo, ResumeToolSolo, ResumeStepSolo, RejectGateSolo DEF Resume
<1> QED
  BY <1>1, <1>2, <1>3, LoopSolo, ExecSolo, CrashSolo, WorldSolo DEF Next

LEMMA InitSolo == Init => SoloInv
BY AbsentOK DEF Init, SoloInv, SoloAt

\* With one engine process at a time and no operator abort the process never has more in
\* memory than status.json and the one write it is about to make.
THEOREM MemoryIsOneWriteAhead == ASSUME OneEngine PROVE Spec => []SoloInv
<1>1. IInv /\ SoloInv /\ [Next]_vars => SoloInv'
  BY NextSolo
<1> QED
  BY <1>1, InitSolo, Inductive, PTL DEF Spec

\* Then the engine, with its files, kills, retries and workers, does what RunContract says:
\* every write of status.json is one step of the contract.
THEOREM ContractIsImplemented == ASSUME OneEngine PROVE Spec => ImplementsContract
<1>1. Init => Contract!Init
  <2>1. Cardinality({}) = 0
    BY FS_EmptySet
  <2> QED
    BY <2>1 DEF Init, Contract!Init, Absent
<1>2. IInv /\ SoloInv /\ [Next]_vars => [Contract!Next]_(Contract!vars)
  BY NextSolo DEF ContractStep
<1> QED
  BY <1>1, <1>2, Inductive, MemoryIsOneWriteAhead, PTL DEF Spec, ImplementsContract, Contract!Spec

\* A step is started only by StartStep: from the loop every other action goes to the loop,
\* to a save or back to the caller.
LEMMA OnlyStartStep ==
  ASSUME OneEngine, IInv, Next, NEW p \in Procs, pc[p] = "loop", pc'[p] \in {"gate", "exec"}
  PROVE  StartStep(p)
<1>1. \A q \in Procs : q = p
  BY DEF OneEngine
<1>2. pc \in [Procs -> {"idle", "loop", "save", "gate", "exec", "work", "ask"}]
  BY DEF IInv, TypeOK, ProcTypes
<1>3. ~ \E mode \in RunModes : RunPlan(p, mode)
  BY DEF RunPlan
<1>4. ~ExecStep(p)
  BY DEF ExecStep, StubStep, RefuseStep, RequestStep, CallWorker, WorkerAnswers, CollectResult,
        CollectFailure, WorkerPauses
<1>5. ~Resume(p)
  BY DEF Resume, ApproveGate, ResumeTool, ResumeStep, RejectGate, RenewRequest, Load
<1>6. ~Crash(p) /\ ~CrashInSave(p)
  BY <1>2 DEF Crash, CrashInSave, Kill, Return, Goto
<1>7. ~World
  BY <1>1 DEF World, StandAlone, WorkerStarts, WorkerDone, WorkerGivesUp, WorkerResumes, AbortReads,
        AbortWrites, ExternalResult, EditFile, ApproveGate, ResumeTool, ResumeStep, RenewRequest,
        Load, local
<1>8. LoopStep(p)
  BY <1>1, <1>3, <1>4, <1>5, <1>6, <1>7 DEF Next
<1> QED
  BY <1>2, <1>8 DEF LoopStep, Save, SkipStep, OverMaxSteps, RequestGate, FinishRun, SaveNext, Goto

\* Then a step that status.json counts as completed is not started again in that run,
\* whatever is killed or resumed.
THEOREM StepsRunOnce == ASSUME OneEngine PROVE Spec => NoRework
<1> DEFINE Step == \A p \in Procs : Starts(p) /\ mem[p].run = status.run => pos[p] \notin status.completed
<1>1. IInv /\ SoloInv /\ [Next]_vars => [Step]_vars
  <2> SUFFICES ASSUME IInv, SoloInv, Next, NEW p \in Procs, Starts(p), mem[p].run = status.run
               PROVE  pos[p] \notin status.completed
    BY DEF vars
  <2>1. pc[p] = "loop" /\ pc'[p] \in {"gate", "exec"}
    BY DEF Starts
  <2>2. StartStep(p)
    BY <2>1, OnlyStartStep
  <2>3. pos[p] \notin mem[p].completed
    BY <2>2 DEF StartStep, AlreadyDone
  <2>4. ~Unwritten(p)
    BY SoloFacts DEF Unwritten, Statuses
  <2> QED
    BY <2>1, <2>3, <2>4, SoloFacts DEF SoloAt
<1> QED
  BY <1>1, Inductive, MemoryIsOneWriteAhead, PTL DEF Spec, NoRework

-----------------------------------------------------------------------------
(* One engine process in a directory that has seen one run *)

OneRun == OneEngine /\ MaxRuns = 1

\* Nobody has been here, or the process that came is still here.
Fresh == runs = 0 \/ \E p \in Procs : pc[p] # "idle"

ApprovesGate(r) == r.kind = "gate" /\ r.decision \in Approved

\* There is no artifact of a step that the run has not come to, so a decision is bound to
\* artifacts of the steps before its gate.
FilesInv ==
    /\ status.state = "absent" /\ Fresh => resolved = {} /\ \A f \in Artifacts : ver[f] = 0
    /\ status.state # "absent" =>
           \A f \in Artifacts \ Gates : ver[f] # 0 => f <= Done(status) + 1
    /\ \A r \in resolved : ApprovesGate(r) =>
           /\ status.state # "absent" => r.step <= Done(status) + 1
           /\ \A f \in Artifacts \ Gates : r.fp[f] # 0 => f < r.step

\* What a step does to status.json, to the files and to the decisions.
StatusMoves ==
    \/ status' = status /\ (status.state = "absent" /\ Fresh' => Fresh)
    \/ status.state # "absent" /\ status'.state # "absent" /\ Done(status) <= Done(status')
    \/ status.state = "absent" /\ Fresh /\ status'.state # "absent"
    \/ status'.state = "absent" /\ ~Fresh'

NextStepsFile(f) == status.state # "absent" /\ status' = status /\ f = Done(status) + 1

FilesMove ==
    /\ \A f \in Artifacts \ Gates : ver'[f] # 0 => ver[f] # 0 \/ NextStepsFile(f)
    /\ \A f \in Artifacts \cap Gates :
           ver'[f] # 0 => ver[f] # 0 \/ (status.state # "absent" /\ status' = status)
    /\ edits' = edits /\ runs' = runs =>
           \A f \in Approvable : ver'[f] = ver[f] \/ NextStepsFile(f)

Decides ==
    \A r \in resolved' : r \in resolved \/
        /\ status.state # "absent" /\ status' = status
        /\ ApprovesGate(r) => r.step = Done(status) + 1 /\ r.step \in Gates /\ r.fp = Fingerprint

Effect == StatusMoves /\ FilesMove /\ Decides /\ resolved \subseteq resolved'

\* The decisions that stand go on standing.
Standing ==
    edits' = edits /\ runs' = runs =>
        \A r \in resolved : r.run = status.run /\ r.kind = "gate" /\ r.decision \in Approved
                             /\ ~Changed(r.fp) => ~Changed(r.fp)'

LEMMA EffectKeeps ==
  ASSUME IInv, IInv', FilesInv, Effect
  PROVE  FilesInv' /\ Standing
<1>1. Done(status) \in Nat /\ Done(status') \in Nat /\ Done(Absent) \in Nat
  <2>1. CopyOK(status) /\ CopyOK(status)'
    BY DEF IInv, Copies
  <2>2. Done(status)' \in 0 .. N
    <3>1. PICK k \in 0 .. N : status'.completed = 1 .. k
      BY <2>1 DEF CopyOK
    <3> QED
      BY <3>1, CardInitial DEF Done
  <2>3. Done(Absent) = 0
    BY AbsentOK, FS_EmptySet DEF Done
  <2> QED
    BY <2>1, <2>2, <2>3, Completed DEF Done
<1>2. Artifacts \subseteq Steps /\ Steps \subseteq Nat
  BY DEF Steps
<1>3. status'.state = "absent" /\ Fresh' => resolved' = {} /\ \A f \in Artifacts : ver'[f] = 0
  <2> SUFFICES ASSUME status'.state = "absent", Fresh'
               PROVE  resolved' = {} /\ \A f \in Artifacts : ver'[f] = 0
    OBVIOUS
  <2>1. status' = status /\ status.state = "absent" /\ Fresh
    BY DEF Effect, StatusMoves
  <2> QED
    BY <2>1 DEF Effect, FilesMove, Decides, NextStepsFile, FilesInv
<1>4. ASSUME status'.state # "absent", NEW f \in Artifacts \ Gates, ver'[f] # 0
      PROVE  f <= Done(status') + 1
  <2>1. CASE status.state = "absent"
    BY <1>4, <2>1 DEF Effect, StatusMoves, FilesMove, NextStepsFile, FilesInv
  <2>2. CASE status.state # "absent"
    <3>1. Done(status) <= Done(status')
      BY <1>1, <1>4, <2>2 DEF Effect, StatusMoves
    <3>2. f <= Done(status) + 1
      BY <1>1, <1>4, <2>2 DEF Effect, FilesMove, NextStepsFile, FilesInv
    <3> QED
      BY <1>1, <1>2, <3>1, <3>2
  <2> QED
    BY <2>1, <2>2
<1>5. ASSUME NEW r \in resolved', ApprovesGate(r)
      PROVE  /\ status'.state # "absent" => r.step <= Done(status') + 1
             /\ \A f \in Artifacts \ Gates : r.fp[f] # 0 => f < r.step
  <2>1. CASE r \in resolved
    <3>1. \A f \in Artifacts \ Gates : r.fp[f] # 0 => f < r.step
      BY <1>5, <2>1 DEF FilesInv
    <3>2. ASSUME status'.state # "absent" PROVE r.step <= Done(status') + 1
      <4>1. status.state # "absent"
        BY <2>1, <3>2 DEF Effect, StatusMoves, FilesInv
      <4>2. r.step <= Done(status) + 1 /\ Done(status) <= Done(status')
        BY <1>1, <1>5, <2>1, <3>2, <4>1 DEF Effect, StatusMoves, FilesInv
      <4>3. r.step \in Nat
        BY <2>1, <1>2 DEF IInv, TypeOK, LogTypes, Resolutions
      <4> QED
        BY <1>1, <4>2, <4>3
    <3> QED
      BY <3>1, <3>2
  <2>2. CASE r \notin resolved
    <3>1. /\ status.state # "absent" /\ status' = status
          /\ r.step = Done(status) + 1 /\ r.step \in Gates /\ r.fp = Fingerprint
      BY <1>5, <2>2 DEF Effect, Decides
    <3>2. \A f \in Artifacts \ Gates : r.fp[f] = ver[f]
      BY <3>1 DEF Fingerprint, Approvable, Files
    <3>3. \A f \in Artifacts \ Gates : ver[f] # 0 => f <= r.step /\ f # r.step
      BY <3>1 DEF FilesInv
    <3> QED
      BY <1>1, <1>2, <3>1, <3>2, <3>3
  <2> QED
    BY <2>1, <2>2
<1>6. FilesInv'
  <2>1. Done(status)' = Done(status')
    BY DEF Done
  <2>2. \A r : ApprovesGate(r)' <=> ApprovesGate(r)
    BY DEF ApprovesGate
  <2> QED
    BY <1>3, <1>4, <1>5, <2>1, <2>2 DEF FilesInv
<1>7. Standing
  <2> SUFFICES ASSUME edits' = edits, runs' = runs, NEW r \in resolved, r.kind = "gate",
                      r.decision \in Approved, ~Changed(r.fp)
               PROVE  ~Changed(r.fp)'
    BY DEF Standing
  <2>1. ASSUME NEW f \in Approvable, r.fp[f] # 0 PROVE ver'[f] = ver[f]
    <3> SUFFICES ASSUME NextStepsFile(f) PROVE FALSE
      BY <2>1 DEF Effect, FilesMove
    <3>1. f \in Artifacts \ Gates
      BY <1>1 DEF NextStepsFile, Approvable, Files, PlanFile
    <3>2. f < r.step /\ r.step <= Done(status) + 1
      BY <2>1, <3>1 DEF FilesInv, ApprovesGate, NextStepsFile
    <3>3. r.step \in Nat
      BY <1>2 DEF IInv, TypeOK, LogTypes, Resolutions
    <3> QED
      BY <1>1, <3>2, <3>3 DEF NextStepsFile
  <2> QED
    BY <2>1 DEF Changed, NoFingerprint
<1> QED
  BY <1>6, <1>7

\* Nothing moves that an approval depends on.
LEMMA CalmEffect ==
  ASSUME UNCHANGED <<status, ver, resolved, runs>>,
         Fresh \/ status.state # "absent" \/ UNCHANGED pc
  PROVE  Effect
BY DEF Effect, StatusMoves, FilesMove, Decides, Fresh

LEMMA RunPlanEffect ==
  ASSUME OneRun, IInv, NEW p \in Procs, NEW mode, RunPlan(p, mode)
  PROVE  Effect
<1>1. /\ UNCHANGED <<status, resolved>> /\ ver' = [ver EXCEPT ![PlanFile] = 1]
      /\ runs' = runs + 1 /\ runs < 1
  BY DEF RunPlan, log, OneRun
<1>2. runs = 0
  BY <1>1 DEF IInv, TypeOK, LogTypes
<1>3. \A f \in Artifacts : ver'[f] = ver[f]
  BY <1>1 DEF PlanFile, Steps, IInv, TypeOK, DiskTypes, Files
<1> QED
  BY <1>1, <1>2, <1>3 DEF Effect, StatusMoves, FilesMove, Decides, Fresh

LEMMA SaveEffect ==
  ASSUME OneRun, IInv, SoloInv, NEW p \in Procs, Save(p)
  PROVE  Effect
<1>1. /\ status' = mem[p] /\ UNCHANGED <<ver, resolved, runs>>
      /\ OneWriteAhead(p) /\ mem[p].state # "absent"
  BY SoloFacts DEF Save, SoloAt, ProcOK, log
<1>2. status.state # "absent"
  BY <1>1 DEF OneWriteAhead, Resumable
<1>3. Done(status) \in Nat
  BY SoloFacts, Completed
<1>4. Done(status) <= Done(mem[p])
  BY <1>1, <1>3 DEF OneWriteAhead, Done
<1> QED
  BY <1>1, <1>2, <1>4 DEF Effect, StatusMoves, FilesMove, Decides

LEMMA StartStepEffect ==
  ASSUME OneRun, IInv, SoloInv, NEW p \in Procs, StartStep(p)
  PROVE  Effect
<1>1. /\ pc[p] = "loop" /\ mem' = [mem EXCEPT ![p].current = pos[p]] /\ status' = mem'[p]
      /\ UNCHANGED <<ver, resolved, runs>>
  BY DEF StartStep, AtStep, log
<1>2. status'.completed = mem[p].completed /\ status'.state = mem[p].state /\ mem[p].state = "running"
  BY <1>1, SoloFacts DEF IInv, TypeOK, ProcTypes, Statuses, ProcOK
<1>3. CASE status = mem[p]
  <2>1. Done(status') = Done(status) /\ Done(status) \in Nat
    BY <1>2, <1>3, SoloFacts, Completed DEF Done
  <2> QED
    BY <1>1, <1>2, <1>3, <2>1 DEF Effect, StatusMoves, FilesMove, Decides
<1>4. CASE Unwritten(p)
  <2>1. status.state = "absent"
    <3>1. mem[p].run \in 0 .. 1 /\ status.run \in Nat /\ status.run < mem[p].run
      BY <1>4, SoloFacts DEF Unwritten, OneRun, Statuses
    <3>2. status.run = 0
      BY <3>1
    <3> QED
      BY <3>2, SoloFacts DEF CopyOK
  <2> QED
    BY <1>1, <1>2, <2>1 DEF Effect, StatusMoves, FilesMove, Decides, Fresh
<1> QED
  BY <1>1, <1>3, <1>4, SoloFacts DEF SoloAt

\* The engine's own step writes the artifact that comes next.
LEMMA FinishStepEffect ==
  ASSUME IInv, SoloInv, NEW p \in Procs, pc[p] \in {"exec", "work"}, NEW written,
         FinishStep(p, written), UNCHANGED <<status, resolved, runs>>
  PROVE  Effect
<1>1. status = mem[p] /\ mem[p].state = "running"
  BY OnDisk
<1>2. pos[p] \in 1 .. N /\ pos[p] \notin Gates /\ mem[p].completed = 1 .. pos[p] - 1
  BY <1>1, SoloFacts DEF ProcOK
<1>3. Done(status) = pos[p] - 1
  BY <1>1, <1>2, CardInitial DEF Done
<1>4. \A f \in Files : ver'[f] = ver[f] \/ f = pos[p]
  BY DEF FinishStep, IInv, TypeOK, DiskTypes
<1>5. NextStepsFile(pos[p])
  BY <1>1, <1>2, <1>3 DEF NextStepsFile
<1> QED
  BY <1>2, <1>4, <1>5 DEF Effect, StatusMoves, FilesMove, Decides, Fresh, Approvable, Files

\* A gate's own artifact is in no fingerprint.
LEMMA ApproveGateEffect ==
  ASSUME IInv, SoloInv, NEW p \in Procs, NEW d, NEW by, ApproveGate(p, d, by)
  PROVE  Effect
<1> DEFINE r == Resolution(status.paused, d, by, "gate", Fingerprint)
<1>1. /\ Load(p) /\ status.state = "paused_human_gate" /\ ~status.tool
      /\ resolved' = resolved \union {r} /\ UNCHANGED status
      /\ ver' = IF status.paused \in Artifacts /\ ver[status.paused] = 0
                THEN [ver EXCEPT ![status.paused] = 1] ELSE ver
  BY DEF ApproveGate, AtGate
<1>2. status.paused \in Steps /\ status.paused \in Gates /\ Done(status) + 1 = status.paused
  BY <1>1, WaitingGate DEF Steps
<1>3. r.step = status.paused /\ r.fp = Fingerprint
  BY DEF Resolution
<1>4. \A f \in Files : ver'[f] = ver[f] \/ f = status.paused
  BY <1>1 DEF IInv, TypeOK, DiskTypes
<1> HIDE DEF r
<1>5. StatusMoves /\ Decides /\ resolved \subseteq resolved'
  BY <1>1, <1>2, <1>3 DEF StatusMoves, Decides
<1>6. FilesMove
  BY <1>1, <1>2, <1>4 DEF FilesMove, Approvable, Files
<1> QED
  BY <1>5, <1>6 DEF Effect

LEMMA OtherDecisionEffect ==
  ASSUME NEW r, status.state # "absent", resolved' = resolved \union {r}, ~ApprovesGate(r),
         UNCHANGED <<status, ver, runs>>
  PROVE  Effect
BY DEF Effect, StatusMoves, FilesMove, Decides

LEMMA RejectGateEffect ==
  ASSUME NEW p \in Procs, RejectGate(p)
  PROVE  Effect
<1> DEFINE r == Resolution(status.paused, "reject", "person", "gate", Fingerprint)
<1>1. status.state # "absent" /\ resolved' = resolved \union {r} /\ UNCHANGED <<status, ver, runs>>
  BY DEF RejectGate, AtGate, disk
<1>2. ~ApprovesGate(r)
  BY DEF Resolution, ApprovesGate, Approved
<1> QED
  BY <1>1, <1>2, OtherDecisionEffect

LEMMA ResumeToolEffect ==
  ASSUME NEW p \in Procs, NEW d, NEW by, ResumeTool(p, d, by)
  PROVE  Effect
<1> DEFINE r == Resolution(status.paused, d, by, "tool", NoFingerprint)
<1>1. status.state # "absent" /\ resolved' = resolved \union {r} /\ UNCHANGED <<status, ver, runs>>
  BY DEF ResumeTool, disk
<1>2. ~ApprovesGate(r)
  BY DEF Resolution, ApprovesGate
<1> QED
  BY <1>1, <1>2, OtherDecisionEffect

\* The run has its id, and its process is gone.
LEMMA CrashInSaveEffect ==
  ASSUME OneRun, IInv, SoloInv, NEW p \in Procs, CrashInSave(p)
  PROVE  Effect
<1>1. /\ pc[p] = "save" /\ status' = Absent /\ UNCHANGED <<ver, resolved, runs>>
      /\ pc' = [pc EXCEPT ![p] = "idle"]
  BY DEF CrashInSave, Kill, Return, Goto, log
<1>2. status.state \in Resumable /\ status.run \in 1 .. runs
  BY <1>1, SoloFacts DEF SoloAt, OneWriteAhead, CopyOK, Resumable
<1>3. runs # 0
  BY <1>2
<1>4. \A q \in Procs : pc'[q] = "idle"
  BY <1>1 DEF OneRun, OneEngine, IInv, TypeOK, ProcTypes
<1> QED
  BY <1>1, <1>3, <1>4, AbsentOK DEF Effect, StatusMoves, FilesMove, Decides, Fresh

LEMMA EditFileEffect ==
  ASSUME IInv, NEW f, NEW v, EditFile(f, v)
  PROVE  Effect
<1>1. /\ ver[f] # 0 /\ ver' = [ver EXCEPT ![f] = v] /\ edits' = edits + 1
      /\ UNCHANGED <<status, resolved, runs, pc>>
  BY DEF EditFile, log, local
<1>2. \A g \in Artifacts : ver'[g] # 0 => ver[g] # 0
  BY <1>1 DEF IInv, TypeOK, DiskTypes, Files
<1>3. edits' # edits
  BY <1>1 DEF IInv, TypeOK, WorldTypes
<1> QED
  BY <1>1, <1>2, <1>3 DEF Effect, StatusMoves, FilesMove, Decides, Fresh

LEMMA ResumeEffect ==
  ASSUME OneRun, IInv, SoloInv, NEW p \in Procs,
         \/ \E d \in Decisions, by \in {"person", "worker"} :
               ApproveGate(p, d, by) \/ ResumeTool(p, d, by) \/ ResumeStep(p, d)
         \/ RejectGate(p) \/ RenewRequest(p)
  PROVE  Effect
<1>1. ASSUME NEW d, ResumeStep(p, d) PROVE Effect
  BY <1>1, CalmEffect DEF ResumeStep, Load, Resumable, disk, log
<1>2. CASE RenewRequest(p)
  BY <1>2, CalmEffect DEF RenewRequest, Load, Resumable, disk
<1> QED
  BY <1>1, <1>2, ApproveGateEffect, ResumeToolEffect, RejectGateEffect

LEMMA ProcessEffect ==
  ASSUME OneRun, IInv, SoloInv, NEW p \in Procs, LoopStep(p) \/ ExecStep(p) \/ Crash(p)
  PROVE  Effect
<1>1. CASE SkipStep(p) \/ OverMaxSteps(p) \/ RequestGate(p) \/ FinishRun(p) \/ Crash(p)
  <2>1. Fresh /\ UNCHANGED <<status, ver, resolved, runs>>
    BY <1>1 DEF SkipStep, OverMaxSteps, RequestGate, FinishRun, Crash, Kill, AtStep, Fresh, disk, log
  <2> QED
    BY <2>1, CalmEffect
<1>2. CASE RefuseStep(p) \/ RequestStep(p) \/ CallWorker(p) \/ WorkerAnswers(p) \/ CollectFailure(p)
  <2>1. Fresh /\ UNCHANGED <<status, ver, resolved, runs>>
    BY <1>2 DEF RefuseStep, RequestStep, CallWorker, WorkerAnswers, CollectFailure, Fresh, disk, log
  <2> QED
    BY <2>1, CalmEffect
<1>3. ASSUME NEW state, NEW tool, WorkerPauses(p, state, tool) PROVE Effect
  <2>1. Fresh /\ UNCHANGED <<status, ver, resolved, runs>>
    BY <1>3 DEF WorkerPauses, Fresh, disk, log
  <2> QED
    BY <2>1, CalmEffect
<1>4. CASE StubStep(p) \/ CollectResult(p)
  BY <1>4, FinishStepEffect DEF StubStep, CollectResult
<1> QED
  BY <1>1, <1>2, <1>3, <1>4, SaveEffect, StartStepEffect DEF LoopStep, ExecStep

LEMMA WorldEffect ==
  ASSUME OneRun, IInv, SoloInv, World
  PROVE  Effect
<1>1. ASSUME NEW p \in Procs, WorkerResumes(p) PROVE Effect
  BY <1>1, ResumeEffect DEF WorkerResumes, Decisions
<1>2. CASE WorkerStarts \/ WorkerDone \/ WorkerGivesUp
  BY <1>2, CalmEffect DEF WorkerStarts, WorkerDone, WorkerGivesUp, disk, log, local
<1>3. ASSUME NEW i, NEW r, ExternalResult(i, r) PROVE Effect
  BY <1>3, CalmEffect DEF ExternalResult, log, local
<1>4. ~AbortReads /\ ~AbortWrites
  BY DEF OneRun, OneEngine, AbortReads, AbortWrites, SoloInv, IInv, TypeOK, WorldTypes
<1> QED
  BY <1>1, <1>2, <1>3, <1>4, EditFileEffect DEF World, StandAlone

LEMMA NextEffect ==
  ASSUME OneRun, IInv, SoloInv, [Next]_vars
  PROVE  Effect
<1>1. CASE UNCHANGED vars
  BY <1>1, CalmEffect DEF vars
<1>2. ASSUME NEW p \in Procs, Resume(p) PROVE Effect
  BY <1>2, ResumeEffect DEF Resume
<1> QED
  BY <1>1, <1>2, RunPlanEffect, ProcessEffect, CrashInSaveEffect, WorldEffect DEF Next

\* With one engine process and one run no write of the engine itself, after a crash or not,
\* changes a file that a standing approval is bound to.  A second run over the directory
\* breaks it: it finds artifacts of its own later steps, approves them with its gates and
\* writes them again.
THEOREM ApprovalsOutliveTheEngine == ASSUME OneRun PROVE Spec => EngineKeepsApprovals
<1>1. Init => FilesInv
  BY AbsentOK DEF Init, FilesInv, Files
<1>2. IInv /\ SoloInv /\ FilesInv /\ [Next]_vars => FilesInv' /\ Standing
  BY NextIInv, NextEffect, EffectKeeps
<1>3. OneEngine
  BY DEF OneRun
<1>4. Spec => []SoloInv
  BY <1>3, MemoryIsOneWriteAhead
<1> QED
  BY <1>1, <1>2, <1>4, Inductive, PTL DEF Spec, EngineKeepsApprovals, Standing

=============================================================================
