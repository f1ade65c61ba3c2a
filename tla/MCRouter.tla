------------------------------ MODULE MCRouter ------------------------------
(***************************************************************************)
(* Every plan file of three steps whose depends_on have at most two entries, *)
(* and every request to a network of four areas: one with a leader, a risky  *)
(* one that wants plans, one without agents and the fallback with one agent. *)
(***************************************************************************)
EXTENDS Router

CONSTANTS a, b, c, other

\* A plan with three ids, and one whose author used an id twice.  `other' is unknown to both.
IdListsThree == {<<a, b, c>>, <<a, b, a>>}

\* p1 and p2 of a routed plan; its approval is the last id.
TwoSteps == <<a, b>>

TypesTwo == {{}, {"area", "indexable"}}

AgentsOf == [growth |-> {"lead", "work"}, money |-> {"other"}, legal |-> {}, desk |-> {"publish"}]
HorizontalsOf == [growth |-> {"critic"}, money |-> {"critic"}, legal |-> {"critic"}, desk |-> {}]
DelegationOf == [growth |-> "auto", money |-> "plan", legal |-> "auto", desk |-> "agent"]
AreaStepsOf == [growth |-> 0, money |-> 2, legal |-> 1, desk |-> 1]

=============================================================================
