---------------------------- MODULE MCReplayRing ----------------------------
(* A small instance of ReplayRing: chunks of one or two bytes, a control that *)
(* costs as much as two bytes, budgets from "0 is treated as 1" upwards.      *)
EXTENDS ReplayRing

MCBudgets == {0, 3, 5, 8}
MCReadSizes == {1, 3}
=============================================================================
