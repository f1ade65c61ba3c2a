------------------------------- MODULE Router -------------------------------
(***************************************************************************)
(* From a request to the order a run walks: the router (router.py) decides  *)
(* on an area, an agent or a plan, asks back or calls for a person, writes  *)
(* the plan, and load_plan and topo_order take it like any other file.       *)
(*                                                                         *)
(* A request is what its words do: how many keywords of each area they hit  *)
(* and whether they are those of an escalation to a council.  An agent is   *)
(* what its action is to the rules of PlanPolicy.  What the model answers,   *)
(* and what an embedding finds, is any of the answers the code reads.  Left  *)
(* out: prompts, modes of a skill, token usage, the golden set.              *)
(***************************************************************************)
EXTENDS PlanPolicy

CONSTANTS
    Areas,              \* areas.yaml
    Fallback,           \* routing.fallback_area
    Risky,              \* areas with hitl: required
    Councils,           \* areas some council takes structural requests of
    Agents, Horizontals,\* agents[] and horizontals[] of each area: kinds of steps
    Delegation,         \* "auto", "agent" or "plan"
    AreaSteps,          \* budget.max_steps, 0 where the area has no budget
    DefaultSteps,       \* DEFAULT_MAX_PLAN_STEPS
    MaxClarify,         \* MAX_CLARIFY_ROUNDS
    RouterIds,          \* the ids of a routed plan's steps (p1_..., p2_...)
    GateId,             \* triagem, aprovacao
    MaxHits             \* bound: keywords of an area that a request hits

ASSUME RouterAssumption ==
    /\ Fallback \in Areas /\ Risky \union Councils \subseteq Areas
    /\ \A a \in Areas : Agents[a] \union Horizontals[a] \subseteq Kinds \ {"gate"}
    /\ AreaSteps \in [Areas -> Nat] /\ DefaultSteps \in Nat \ {0}
    /\ \A a \in Areas : AreaSteps[a] <= Len(RouterIds) /\ DefaultSteps <= Len(RouterIds)
    /\ RouterIds \in Seq(Ids) /\ GateId \in Ids
    /\ \A i, j \in 1 .. Len(RouterIds) : RouterIds[i] = RouterIds[j] => i = j
    /\ \A i \in 1 .. Len(RouterIds) : RouterIds[i] # GateId
    /\ MaxClarify \in Nat /\ MaxHits \in Nat

VARIABLE route      \* the RouteDecision and how far it has come: words are the keywords hit,
                    \* hits the scores, which the embeddings may give instead

NoHits == [a \in Areas |-> 0]
Idle == [at |-> "idle", outcome |-> "none", area |-> "none", words |-> NoHits, hits |-> NoHits,
         structural |-> FALSE, close |-> {}, steps |-> <<>>, risk |-> FALSE,
         rounds |-> 0, maxSteps |-> 0]

RouterInit == PolicyInit /\ route = Idle

PlanUntouched == UNCHANGED <<vars, policyVars>>

Candidates(a) == Agents[a] \union Horizontals[a]
StepsOf(a) == IF AreaSteps[a] = 0 THEN DefaultSteps ELSE AreaSteps[a]

\* The decision is made.  After MaxClarify answers a question becomes a case for a person.
Decide(d) ==
    /\ route' = IF d.outcome = "clarify" /\ d.rounds >= MaxClarify
                THEN [d EXCEPT !.at = "decided", !.outcome = "hitl", !.risk = TRUE]
                ELSE [d EXCEPT !.at = "decided"]
    /\ PlanUntouched

Goes(d, stage) == route' = [d EXCEPT !.at = stage] /\ PlanUntouched

-----------------------------------------------------------------------------
(* The area                                                                 *)

\* confidence >= area_min_confidence (0.6) for scores `best' and `second'.
Clear(best, second) == best > 0 /\ 10 * best >= 6 * (best + second)

Best(h) == CHOOSE s \in {h[a] : a \in Areas} : \A a \in Areas : h[a] <= s

\* The areas that tie, or nearly so, with the best.
Close(h) == {a \in Areas : h[a] > 0 /\ ~Clear(Best(h), h[a])}

Unambiguous(h, a) == \A b \in Areas \ {a} : Clear(h[a], h[b])

\* A blank request is an error.
Route ==
    /\ phase = "unread" /\ route.at = "idle"
    /\ \/ Decide([Idle EXCEPT !.outcome = "error"])
       \/ \E h \in [Areas -> 0 .. MaxHits], s \in BOOLEAN :
           Goes([Idle EXCEPT !.words = h, !.hits = h, !.structural = s], "area")

\* No keyword: the embeddings score the areas instead, or the call fails.
Embed ==
    /\ route.at = "area" /\ route.hits = NoHits
    /\ \/ \E h \in [Areas -> 0 .. MaxHits] : h # NoHits /\ Goes([route EXCEPT !.hits = h], "area")
       \/ Decide([route EXCEPT !.outcome = "error"])

NoKeyword ==
    /\ route.at = "area" /\ route.hits = NoHits
    /\ Goes([route EXCEPT !.area = Fallback], "escalate")

OneArea ==
    /\ route.at = "area"
    /\ \E a \in Areas : Unambiguous(route.hits, a) /\ Goes([route EXCEPT !.area = a], "escalate")

\* Ambiguous: a person decides if one of the areas is risky, else the requester is asked.
AmbiguousArea ==
    /\ route.at = "area" /\ route.hits # NoHits
    /\ \A a \in Areas : ~Unambiguous(route.hits, a)
    /\ LET risky == Close(route.hits) \cap Risky # {} IN
       Decide([route EXCEPT !.outcome = IF risky THEN "hitl" ELSE "clarify",
                            !.close = Close(route.hits), !.risk = risky])

\* A structural request of an area with a council goes to it; that run is Council's.
Escalate ==
    /\ route.at = "escalate"
    /\ IF route.structural /\ route.area \in Councils
       THEN Decide([route EXCEPT !.outcome = "council", !.risk = TRUE])
       ELSE Goes([route EXCEPT !.risk = route.area \in Risky], "agent")

-----------------------------------------------------------------------------
(* The agent or the plan                                                    *)

OneAgent(a) == <<[agent |-> a, deps |-> <<>>]>>

NoSpecialist ==
    /\ route.at = "agent" /\ Agents[route.area] = {}
    /\ Decide([route EXCEPT !.outcome = "hitl", !.risk = TRUE])

OnlyCandidate ==
    /\ route.at = "agent" /\ Agents[route.area] # {}
    /\ Delegation[route.area] # "plan"
    /\ \E a \in Kinds : /\ Candidates(route.area) = {a}
                        /\ Decide([route EXCEPT !.outcome = "agent", !.steps = OneAgent(a)])

AsksModel ==
    /\ route.at = "agent" /\ Agents[route.area] # {}
    /\ ~(\E a \in Kinds : Candidates(route.area) = {a}) \/ Delegation[route.area] = "plan"

\* The call fails, the answer is no JSON object, its mode, its agent or its steps are refused.
ModelFails == AsksModel /\ Decide([route EXCEPT !.outcome = "error"])

\* The model asks back or is not sure enough.
ModelUnsure ==
    /\ AsksModel
    /\ Decide([route EXCEPT !.outcome = IF route.area \in Risky THEN "hitl" ELSE "clarify"])

ModelAgent ==
    /\ AsksModel /\ Delegation[route.area] # "plan"
    /\ \E a \in Candidates(route.area) :
        Decide([route EXCEPT !.outcome = "agent", !.steps = OneAgent(a)])

\* What _validate_steps lets through of an answer: agents of the area, not too many steps, and
\* only earlier steps to depend on, though one of them more than once.  An answer without
\* depends_on is sequential, which is one of these.
ValidSteps(a) ==
    UNION {{raw \in [1 .. n -> [agent : Candidates(a),
                               deps : UNION {[1 .. k -> 1 .. n - 1] : k \in 0 .. MaxDeps}]] :
               \A i \in 1 .. n, d \in 1 .. n : d \in ToSet(raw[i].deps) => d < i} :
             n \in 1 .. StepsOf(a)}

\* A single agent of an area that wants plans is a plan of one step, and the other way round.
ModelPlan ==
    /\ AsksModel /\ Delegation[route.area] # "agent"
    /\ \E raw \in ValidSteps(route.area) :
        Decide([route EXCEPT
               !.outcome = IF Len(raw) = 1 /\ Delegation[route.area] # "plan" THEN "agent" ELSE "plan",
               !.steps = raw])

-----------------------------------------------------------------------------
(* Clarification                                                            *)

\* Mutant: each answer counts from the question it answers.
OneRound(d) == 1

Rounds(d) == d.rounds + 1

\* The answer to a question: a new decision that keeps the request, and the area if it was
\* not the question.  An answer that settles the area names one of the candidates; any other
\* is read together with the request and the question, which can only hit more keywords.  A
\* blank answer is an error.
Clarify ==
    /\ route.at = "decided" /\ route.outcome = "clarify"
    /\ \E s \in BOOLEAN :
        LET next == [Idle EXCEPT !.rounds = Rounds(route), !.structural = route.structural \/ s] IN
        \/ Decide([next EXCEPT !.outcome = "error"])
        \/ /\ route.area # "none"
           /\ Goes([next EXCEPT !.area = route.area], "escalate")
        \/ /\ route.area = "none"
           /\ \E a \in route.close : Goes([next EXCEPT !.area = a], "escalate")
        \/ /\ route.area = "none"
           /\ \E h \in [Areas -> 0 .. MaxHits] :
               /\ \A a \in Areas : h[a] >= route.words[a]
               /\ Goes([next EXCEPT !.words = h, !.hits = h], "area")

-----------------------------------------------------------------------------
(* Execution                                                                *)

\* Mutant: the approval depends on the last step of the list.
LastStepOnly(steps) == {i \in DOMAIN steps : i = Len(steps)}

\* The steps no other step depends on.
Sinks(steps) == DOMAIN steps \ UNION {ToSet(steps[i].deps) : i \in DOMAIN steps}

InOrder(S) == [k \in 1 .. Cardinality(S) |-> CHOOSE i \in S : Cardinality({j \in S : j < i}) = k - 1]
IdsOf(places) == [k \in DOMAIN places |-> RouterIds[places[k]]]
Approval(steps) == IdsOf(InOrder(Sinks(steps)))

\* build_plan.  Its delivery is internal, and it has no done_when.  execute calls check_plan
\* before it hands the plan over; load_plan asks the same again, which is CheckPlan.
BuildPlan(steps, gate) ==
    LET work  == [i \in DOMAIN steps |-> IdsOf(steps[i].deps)]
        kinds == [i \in DOMAIN steps |-> steps[i].agent]
    IN  /\ LoadPlan(SubSeq(RouterIds, 1, Len(steps)) \o (IF gate THEN <<GateId>> ELSE <<>>),
                    work \o (IF gate THEN <<Approval(steps)>> ELSE <<>>))
        /\ file' = FileOf(kinds \o (IF gate THEN <<"gate">> ELSE <<>>), "internal", {}, {})
        /\ UNCHANGED checked

\* The limit of a routed plan: the area's, with room for the approval, or its own length.
PlanSteps(d, n) ==
    IF d.area = "none" \/ AreaSteps[d.area] = 0 THEN n
    ELSE AreaSteps[d.area] + (IF d.risk THEN 1 ELSE 0)

Execute ==
    /\ route.at = "decided" /\ phase = "unread"
    /\ route.outcome \in {"agent", "plan", "hitl"}
    /\ LET steps == IF route.outcome = "hitl" THEN <<>> ELSE route.steps
           gate  == route.outcome = "hitl" \/ route.risk
       IN  /\ BuildPlan(steps, gate)
           /\ route' = [Idle EXCEPT !.at = "run", !.area = route.area, !.risk = gate,
                                    !.maxSteps = PlanSteps(route, Len(steps) + (IF gate THEN 1 ELSE 0))]

RouterStep ==
    \/ Route \/ Embed \/ NoKeyword \/ OneArea \/ AmbiguousArea \/ Escalate
    \/ NoSpecialist \/ OnlyCandidate \/ ModelFails \/ ModelUnsure \/ ModelAgent \/ ModelPlan
    \/ Execute

RouterNext ==
    \/ RouterStep
    \/ Clarify
    \/ route.at = "idle" /\ Load /\ UNCHANGED route
    \/ Validate /\ UNCHANGED <<policyVars, route>>
    \/ CheckPlan /\ UNCHANGED route
    \/ Order /\ UNCHANGED route

\* A request that was put and a plan that was loaded are worked on to the end; nobody has to
\* put a request or to answer a question.
Works ==
    \/ route.at # "idle" /\ RouterStep
    \/ ((Validate /\ UNCHANGED policyVars) \/ CheckPlan \/ Order) /\ UNCHANGED route

RouterSpec ==
    /\ RouterInit /\ [][RouterNext]_<<vars, policyVars, route>>
    /\ WF_<<vars, policyVars, route>>(Works)

-----------------------------------------------------------------------------
(* Properties *)

\* What check_plan has against a plan of internal delivery and no type: a publication, or a leader
\* that some step does not depend on.
AgainstPolicy(f) == (\E i \in Places : f.kind[i] = "publish") \/ ~LeaderRule(f)

\* A plan of the router is never refused for its ids, an unknown dependency or a cycle.  Two
\* refusals are left, since _validate_steps looks at less than load_plan does: a model's answer
\* that lists a dependency twice, which topo_order cannot order, and one whose agents publish or
\* do not all depend on the leader, which check_plan refuses.  And when the area or the doubt
\* calls for a person, the approval has all the work behind it and comes last, within max_steps.
RoutedPlanIsKept ==
    route.at = "run" =>
        /\ error \in {"none", "policy", "could not order steps"}
        /\ error = "policy" => AgainstPolicy(file)
        /\ error = "could not order steps" => ~NothingTwice
        /\ phase = "ordered" =>
             /\ Len(order) <= route.maxSteps
             /\ (route.risk \/ route.area \in Risky) =>
                    /\ Last(order) = GateId
                    /\ Places \ {PlaceOf(GateId)} \subseteq Ancestors(PlaceOf(GateId))

\* Every request and every plan comes to an end, also when each question is answered: an
\* order, an error or a decision that runs no plan here.
Ended ==
    \/ phase \in {"ordered", "raised"}
    \/ route.at = "decided" /\ route.outcome \in {"clarify", "council", "error"}
EveryRequestEnds == (route.at # "idle" \/ phase # "unread") ~> []Ended

=============================================================================
