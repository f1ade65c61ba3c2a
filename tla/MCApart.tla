-------------------------------- MODULE MCApart --------------------------------
(***************************************************************************)
(* What works without a run directory, for TLC: the way from a request or a *)
(* plan file to the order of a run, or the trader on its venue.  They share *)
(* nothing, so every behaviour is about one of the two, and the other stays *)
(* as it was.                                                               *)
(***************************************************************************)
EXTENDS MCRouter, Trader

VARIABLE program

planFile == <<vars, policyVars, route>>
apart == <<planFile, traderVars, program>>

\* For the router it does not matter which loop the trader would run.
ApartInit ==
    /\ RouterInit /\ TraderInit
    /\ program \in {"router", "trader"}
    /\ program = "router" => loop = "runner" /\ lot = 1

ApartNext ==
    /\ \/ program = "router" /\ RouterNext /\ UNCHANGED traderVars
       \/ program = "trader" /\ TraderNext /\ UNCHANGED planFile
    /\ UNCHANGED program

\* Each goes on: the router with what was put to it, the trader with its tick.
GoesOn ==
    /\ \/ program = "router" /\ Works /\ UNCHANGED traderVars
       \/ program = "trader" /\ Loop /\ UNCHANGED planFile
    /\ UNCHANGED program

ApartSpec == ApartInit /\ [][ApartNext]_apart /\ WF_apart(GoesOn)

=============================================================================
