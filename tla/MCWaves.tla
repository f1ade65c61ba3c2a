-------------------------------- MODULE MCWaves --------------------------------
(***************************************************************************)
(* The waves of a plan and what works in them, for TLC: the LangGraph engine *)
(* over its checkpoint, or the workers that call the model for a step.  The  *)
(* engine sees of a worker its result, its error or its pause, which are      *)
(* inputs of WaveEngine (and actions of PlanRunner), so every behaviour is   *)
(* about one of the two, and the other stays as it was.                      *)
(***************************************************************************)
EXTENDS MCWaveEngine, MCToolWorker

VARIABLE part

waves == <<vars, workerVars, part>>

\* For the workers the plan does not matter.
WavesInit ==
    /\ Init /\ WorkerInit
    /\ part \in {"engine", "worker"}
    /\ part = "worker" => plan = Diamond

\* A person's answer and a larger cap matter when they are read: it is enough to let them
\* come just before.
InTime ==
    /\ answers' # answers => \E r \in Requests :
           /\ answers'[r] # answers[r]
           /\ paused = r \/ \E w \in Workers : phase[w] = "load" /\ saved[StepOf[w]].req = r
    /\ cap' # cap => spent >= cap

\* Bound: the cap is raised only where no worker was killed and at most one request opened.
RaisedAlone == cap' = FirstCap \/ (kills' = 0 /\ opened' <= 1)

WavesNext ==
    /\ \/ part = "engine" /\ Next /\ UNCHANGED workerVars
       \/ part = "worker" /\ WorkerNext /\ InTime /\ RaisedAlone /\ UNCHANGED vars
    /\ UNCHANGED part

GoesOn == part = "engine" /\ Engine /\ UNCHANGED <<workerVars, part>>

WavesSpec == WavesInit /\ [][WavesNext]_waves /\ WF_waves(GoesOn)

=============================================================================
