------------------------------ MODULE PlanGraph ------------------------------
(***************************************************************************)
(* What happens to a plan's graph before anything runs (graph.py): the      *)
(* depth-first search of validate_plan, with its two sets and its call      *)
(* stack, then the queue of topo_order (Kahn).  A plan is a list of steps,   *)
(* each with an id and a list of depends_on taken from the YAML as it is:    *)
(* ids may repeat or be unknown, and so may the entries of a depends_on.     *)
(*                                                                         *)
(* parallel_groups (langgraph_compile.py) is an operator, and a recursive    *)
(* function so that the module can be proved about.                          *)
(***************************************************************************)
EXTENDS Naturals, Sequences, SequencesExt, FiniteSets

CONSTANTS
    Ids,          \* the ids a plan is written with
    IdLists,      \* the lists of step ids of the plans that are checked
    MaxDeps       \* bound: entries in a depends_on

DepLists == UNION {[1 .. k -> Ids] : k \in 0 .. MaxDeps}

ASSUME GraphAssumption ==
    /\ IdLists \subseteq Seq(Ids)
    /\ MaxDeps \in Nat

VARIABLES
    ids,        \* ids[i]: the id of the i-th step of the file
    deps,       \* deps[i]: its depends_on
    phase,      \* "unread", "check" (ids), "dfs", "valid", "kahn", "ordered" or "raised"
    error,      \* what PlanError says, "none" before
    root,       \* dfs: the step of the outer loop
    stack,      \* dfs: the calls, innermost last; each a step and how many deps it has done
    visiting, done,
    indeg,      \* kahn: what is left of each in-degree
    ready,      \* kahn: the queue of ids
    at,         \* kahn: the place the loop over plan.steps has come to
    seen,
    order       \* kahn: the answer so far

vars == <<ids, deps, phase, error, root, stack, visiting, done, indeg, ready, at, seen, order>>
plan == <<ids, deps>>
dfs == <<root, stack, visiting, done>>
kahn == <<indeg, ready, at, seen, order>>

Places == 1 .. Len(ids)
StepIds == ToSet(ids)
PlaceOf(sid) == CHOOSE i \in Places : ids[i] = sid       \* by_id

Init ==
    /\ ids = <<>> /\ deps = <<>>
    /\ phase = "unread" /\ error = "none"
    /\ root = 0 /\ stack = <<>> /\ visiting = {} /\ done = {}
    /\ indeg = <<>> /\ ready = <<>> /\ at = 1 /\ seen = {} /\ order = <<>>

\* Plan.from_dict: the steps as the file has them.
LoadPlan(steps, dependsOn) ==
    /\ phase' = "check"
    /\ ids' = steps /\ deps' = dependsOn
    /\ UNCHANGED <<error, dfs, kahn>>

ReadFile ==
    /\ phase = "unread"
    /\ \E steps \in IdLists : \E d \in [1 .. Len(steps) -> DepLists] : LoadPlan(steps, d)

Raise(what) == phase' = "raised" /\ error' = what

-----------------------------------------------------------------------------
(* validate_plan *)

\* Ids first, then every depends_on, then the search.
CheckIds ==
    /\ phase = "check"
    /\ LET unique == Cardinality(StepIds) = Len(ids)
           known  == \A i \in Places : ToSet(deps[i]) \subseteq StepIds
       IN  CASE ~unique         -> Raise("step ids must be unique")
             [] unique /\ ~known -> Raise("depends on unknown")
             [] OTHER            -> phase' = "dfs" /\ UNCHANGED error
    /\ UNCHANGED <<plan, dfs, kahn>>

Top == stack[Len(stack)]

\* Mutant: every step that was ever entered counts as done.
EnterOnce(sid, below) ==
    IF sid \in done \union visiting
    THEN stack' = below /\ UNCHANGED <<visiting, phase, error>>
    ELSE /\ stack' = Append(below, [sid |-> sid, next |-> 1])
         /\ visiting' = visiting \union {sid}
         /\ UNCHANGED <<phase, error>>

\* dfs(sid): done, a cycle, or one more call.  `below' is the caller's stack, which
\* goes on with its next entry.
Enter(sid, below) ==
    IF sid \in done THEN stack' = below /\ UNCHANGED <<visiting, phase, error>>
    ELSE IF sid \in visiting
    THEN Raise("cycle detected") /\ UNCHANGED <<stack, visiting>>
    ELSE /\ stack' = Append(below, [sid |-> sid, next |-> 1])
         /\ visiting' = visiting \union {sid}
         /\ UNCHANGED <<phase, error>>

\* for s in plan.steps: dfs(s.id)
DfsRoot ==
    /\ phase = "dfs" /\ stack = <<>> /\ root < Len(ids)
    /\ root' = root + 1
    /\ Enter(ids[root + 1], <<>>)
    /\ UNCHANGED <<plan, done, kahn>>

\* for d in by_id[sid].depends_on: dfs(d)
DfsCall ==
    /\ phase = "dfs" /\ stack # <<>>
    /\ LET after == deps[PlaceOf(Top.sid)]
       IN  /\ Top.next <= Len(after)
           /\ Enter(after[Top.next], [stack EXCEPT ![Len(stack)].next = @ + 1])
    /\ UNCHANGED <<plan, root, done, kahn>>

DfsReturn ==
    /\ phase = "dfs" /\ stack # <<>>
    /\ Top.next > Len(deps[PlaceOf(Top.sid)])
    /\ visiting' = visiting \ {Top.sid}
    /\ done' = done \union {Top.sid}
    /\ stack' = Front(stack)
    /\ UNCHANGED <<plan, phase, error, root, kahn>>

\* Every root is done: validate_plan returns.
DfsEnd ==
    /\ phase = "dfs" /\ stack = <<>> /\ root = Len(ids)
    /\ phase' = "valid"
    /\ UNCHANGED <<plan, error, dfs, kahn>>

-----------------------------------------------------------------------------
(* topo_order *)

Needs(i, sid) == sid \in ToSet(deps[i])

\* In-degrees count the entries of depends_on, an id that is listed twice twice.
StartKahn ==
    /\ phase = "valid"
    /\ phase' = "kahn"
    /\ indeg' = [i \in Places |-> Len(deps[i])]
    /\ UNCHANGED <<plan, error, dfs, ready, at, seen, order>>

\* ready = [s.id for s in plan.steps if indeg[s.id] == 0], one step at a time.
KahnRoots ==
    /\ phase = "kahn" /\ at \in Places /\ order = <<>>
    /\ at' = at + 1
    /\ ready' = IF indeg[at] = 0 THEN Append(ready, ids[at]) ELSE ready
    /\ UNCHANGED <<plan, phase, error, dfs, indeg, seen, order>>

\* Mutant: a step joins the queue as soon as one of its dependencies is ordered.
KahnAny ==
    /\ phase = "kahn" /\ at \in Places /\ order # <<>>
    /\ at' = at + 1
    /\ IF Needs(at, Last(order))
       THEN /\ indeg' = [indeg EXCEPT ![at] = @ - 1]
            /\ ready' = Append(ready, ids[at])
       ELSE UNCHANGED <<indeg, ready>>
    /\ UNCHANGED <<plan, phase, error, dfs, seen, order>>

\* The inner loop, for the step that was just popped: one step of the plan at a time.
KahnFollow ==
    /\ phase = "kahn" /\ at \in Places /\ order # <<>>
    /\ at' = at + 1
    /\ IF Needs(at, Last(order))
       THEN /\ indeg' = [indeg EXCEPT ![at] = @ - 1]
            /\ ready' = IF indeg[at] = 1 THEN Append(ready, ids[at]) ELSE ready
       ELSE UNCHANGED <<indeg, ready>>
    /\ UNCHANGED <<plan, phase, error, dfs, seen, order>>

\* Mutant: ready[0] for ready.pop(0).
KahnPeek ==
    /\ phase = "kahn" /\ at \notin Places /\ ready # <<>>
    /\ IF Head(ready) \in seen THEN UNCHANGED <<at, seen, order>>
       ELSE /\ seen' = seen \union {Head(ready)}
            /\ order' = Append(order, Head(ready))
            /\ at' = 1
    /\ UNCHANGED <<plan, phase, error, dfs, indeg, ready>>

\* `while ready': an id that was already popped is dropped.
KahnPop ==
    /\ phase = "kahn" /\ at \notin Places /\ ready # <<>>
    /\ ready' = Tail(ready)
    /\ IF Head(ready) \in seen THEN UNCHANGED <<at, seen, order>>
       ELSE /\ seen' = seen \union {Head(ready)}
            /\ order' = Append(order, Head(ready))
            /\ at' = 1
    /\ UNCHANGED <<plan, phase, error, dfs, indeg>>

KahnEnd ==
    /\ phase = "kahn" /\ at \notin Places /\ ready = <<>>
    /\ IF Len(order) = Len(ids) THEN phase' = "ordered" /\ UNCHANGED error
       ELSE Raise("could not order steps")
    /\ UNCHANGED <<plan, dfs, kahn>>

Finished == phase \in {"ordered", "raised"} /\ UNCHANGED vars

Validate == CheckIds \/ DfsRoot \/ DfsCall \/ DfsReturn \/ DfsEnd
TopoOrder == StartKahn \/ KahnRoots \/ KahnFollow \/ KahnPop \/ KahnEnd

Next == ReadFile \/ Validate \/ TopoOrder \/ Finished

Spec == Init /\ [][Next]_vars

-----------------------------------------------------------------------------
(* parallel_groups: the waves of the same plan, as sets of places *)

\* Mutant: any() for all().
WaveAfterAny(before) ==
    {i \in Places \ before : deps[i] = <<>> \/ ToSet(deps[i]) \cap {ids[j] : j \in before} # {}}

WaveAfter(before) == {i \in Places \ before : ToSet(deps[i]) \subseteq {ids[j] : j \in before}}

\* Placed[k]: what the first k waves hold.
Placed == LET placed[k \in 0 .. Len(ids)] ==
                  IF k = 0 THEN {} ELSE placed[k - 1] \union WaveAfter(placed[k - 1])
          IN  placed

WaveOf(i) == CHOOSE k \in 1 .. Len(ids) : i \in Placed[k] \ Placed[k - 1]

-----------------------------------------------------------------------------
(* Properties *)

\* The steps that step i depends on, directly or not (i among them on a cycle): what every
\* set holds that holds its direct ones and, with a step, the direct ones of that step.
Direct(i) == {j \in Places : Needs(i, ids[j])}
Ancestors(i) ==
    LET closed == {S \in SUBSET Places : /\ Direct(i) \subseteq S
                                         /\ \A k \in S : Direct(k) \subseteq S}
    IN  {j \in Places : \A S \in closed : j \in S}

HasCycle == \E i \in Places : i \in Ancestors(i)
NothingTwice == \A i \in Places : Cardinality(ToSet(deps[i])) = Len(deps[i])

\* The search refuses a plan exactly when its graph has a cycle, and a diamond (a step
\* reached twice) is not taken for one.
CycleIsFound ==
    /\ error = "cycle detected" => HasCycle
    /\ phase = "valid" => ~HasCycle

\* The order the engine walks is a permutation of the steps with every dependency before
\* its step: the assumption PlanRunner makes of Deps.
OrderRespectsDeps ==
    phase = "ordered" =>
        /\ ToSet(order) = StepIds /\ Len(order) = Len(ids)
        /\ \A i, j \in DOMAIN order : Needs(PlaceOf(order[j]), order[i]) => i < j

\* "could not order steps" is not a second cycle check: it is what a plan gets whose
\* depends_on lists an id twice, and no other plan, which validate_plan lets through.
OnlyRepeatsAreUnorderable ==
    /\ error = "could not order steps" => ~NothingTwice
    /\ phase = "ordered" => NothingTwice

\* LangGraph's waves and the native engine's order agree: a plan that has an order has a
\* wave for each step, and no step is in the wave of a dependency or in an earlier one.
WavesAgree ==
    phase = "ordered" =>
        /\ Placed[Len(ids)] = Places
        /\ \A i, j \in Places : Needs(j, ids[i]) => WaveOf(i) < WaveOf(j)

=============================================================================
