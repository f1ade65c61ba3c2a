----------------------------- MODULE PlanPolicy -----------------------------
(***************************************************************************)
(* The rules a plan must satisfy before it runs (policy.py, with the values *)
(* of config/plan-policy.yaml): load_plan calls check_plan between the      *)
(* search of validate_plan and the ordering of topo_order.                  *)
(*                                                                         *)
(* A step is known by what its action is to the rules: "gate" has a         *)
(* human_gate, "lead" is a lider_* of the one vertical with a profile,       *)
(* "publish" prepares a publication, "citability" is the citability action,  *)
(* the kinds of ReviewBeforeGate are reviewers, "work" is any other action  *)
(* of that vertical, "other" one of a vertical without a profile.  The rules *)
(* that look at one field alone (R1 tools, R3 max_steps, R6 knowledge, R9    *)
(* unknown actions, an unreadable rule file) are one choice: the plan keeps  *)
(* them or is refused.                                                      *)
(***************************************************************************)
EXTENDS PlanGraph

CONSTANTS
    ReviewBeforeGate,    \* review_before_gate: kinds of steps
    Types                \* deliverable_type: what it is to the rules, e.g. area_site_seo is both

Kinds == {"gate", "lead", "work", "publish", "citability", "other"} \union ReviewBeforeGate

ASSUME PolicyAssumption ==
    /\ Types \subseteq SUBSET {"area", "indexable"}
    /\ ReviewBeforeGate \cap {"gate", "lead", "work", "publish", "citability", "other"} = {}

VARIABLES
    file,       \* what the plan says besides its graph
    checked     \* whether check_plan has let it through

policyVars == <<file, checked>>

Deliveries == {"none", "internal", "external"}

\* `gates' are the places of the gates that done_when asks for.
FileOf(kind, delivery, type, gates) ==
    [kind |-> kind, delivery |-> delivery, type |-> type, gates |-> gates]

Unread == FileOf(<<>>, "none", {}, {})

PolicyInit == Init /\ file = Unread /\ checked = FALSE

-----------------------------------------------------------------------------
Gates(f) == {i \in Places : f.kind[i] = "gate"}
InVertical(f) == {i \in Places : f.kind[i] \notin {"gate", "other"}}

\* Mutant: a step may also stand beside the final approvals if it depends on one of them.
CoveredOrAfter(f) ==
    f.gates \union UNION {Ancestors(g) : g \in f.gates}
            \union {i \in Places : Ancestors(i) \cap f.gates # {}}

\* What the final approvals have before them, and they themselves.
Covered(f) == f.gates \union UNION {Ancestors(g) : g \in f.gates}

\* R2: a publication is an external delivery, and nothing of an external delivery is left
\* beside its final approvals or after them.
DeliveryRule(f) ==
    /\ (\E i \in Places : f.kind[i] = "publish") => f.delivery = "external"
    /\ InVertical(f) # {} => f.delivery # "none"
    /\ f.delivery = "external" =>
           /\ f.gates # {}
           /\ \A i \in Places \ Covered(f) : f.kind[i] = "gate"

Needed(f) == ReviewBeforeGate \union (IF "indexable" \in f.type THEN {"citability"} ELSE {})

\* What the reviewers of a final approval must have seen.
WorkBehind(f, g) == {i \in Ancestors(g) : f.kind[i] \notin Needed(f) \union {"gate"}}

\* R4 and R5: a final approval has each reviewer among its direct dependencies, and each of
\* them has all the work the approval covers before it.
ReviewRule(f) ==
    (InVertical(f) # {} /\ f.delivery = "external") =>
        \A g \in f.gates :
            /\ \A r \in Needed(f) : \E d \in Direct(g) : f.kind[d] = r
            /\ \A d \in Direct(g) : f.kind[d] \in Needed(f) => WorkBehind(f, g) \subseteq Ancestors(d)

\* R7: the plan of an area has a leader; there is at most one, and all others depend on it.
LeaderRule(f) ==
    LET leaders == {i \in Places : f.kind[i] = "lead"} IN
    /\ (InVertical(f) # {} /\ "area" \in f.type) => leaders # {}
    /\ \A l \in leaders, i \in Places : i # l => (i \notin leaders /\ l \in Ancestors(i))

\* check_plan: R9 (a plan has steps) and the rules above.
Accepts(f) == Places # {} /\ DeliveryRule(f) /\ ReviewRule(f) /\ LeaderRule(f)

\* What a plan with this graph may say.  Nothing looks at it before check_plan does, so it is
\* chosen there; done_when is read for an external delivery alone.
Files ==
    {f \in [kind : [Places -> Kinds], delivery : Deliveries, type : Types, gates : SUBSET Places] :
        /\ f.gates \subseteq Gates(f)
        /\ f.delivery # "external" => f.gates = {}}

Refuse == Raise("policy") /\ UNCHANGED <<plan, dfs, kahn, policyVars>>

\* A plan that the router built says what the router wrote; any other says anything.
CheckPlan ==
    /\ phase = "valid" /\ ~checked
    /\ \/ (file # Unread => ~Accepts(file)) /\ Refuse
       \/ /\ IF file = Unread THEN file' \in Files ELSE UNCHANGED file
          /\ Accepts(file')
          /\ checked' = TRUE
          /\ UNCHANGED vars

Load == ReadFile /\ UNCHANGED policyVars
Order == (phase = "valid" => checked) /\ TopoOrder /\ UNCHANGED policyVars

PolicyNext ==
    \/ Load
    \/ Validate /\ UNCHANGED policyVars
    \/ CheckPlan
    \/ Order
    \/ Finished /\ UNCHANGED policyVars

PolicySpec == PolicyInit /\ [][PolicyNext]_<<vars, policyVars>>

-----------------------------------------------------------------------------
(* Properties *)

\* The place in the order the engine walks.
At(i) == CHOOSE k \in DOMAIN order : order[k] = ids[i]

\* The rules speak of depends_on, the run follows the order of topo_order: in an external
\* delivery that is let through, every step comes before a final approval, all the work an
\* approval covers comes before its reviewers and these before it, and a leader comes first.
WorkIsReviewed ==
    phase = "ordered" =>
        /\ \A l \in Places : file.kind[l] = "lead" => At(l) = 1
        /\ file.delivery = "external" =>
             /\ \A i \in Places \ Gates(file) : \E g \in file.gates : At(i) < At(g)
             /\ InVertical(file) # {} =>
                  \A g \in file.gates, r \in Needed(file) : \E d \in Direct(g) :
                      /\ file.kind[d] = r /\ At(d) < At(g)
                      /\ \A i \in WorkBehind(file, g) : At(i) < At(d)

=============================================================================
