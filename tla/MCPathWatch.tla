---- MODULE MCPathWatch ----
(* The path watchdog with the probe interval as the unit of time, two strikes *)
(* and a tick at most two intervals late.                                     *)
EXTENDS PathWatch
====
