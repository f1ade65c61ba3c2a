------------------------------- MODULE MCTrader -------------------------------
(* A small venue for TLC: lots of two units, so that orders fill in parts. *)
EXTENDS Trader

=============================================================================
