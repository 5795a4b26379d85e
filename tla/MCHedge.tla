------------------------------ MODULE MCHedge ------------------------------
(* Instances of Hedge for TLC. *)
EXTENDS Hedge
=============================================================================
