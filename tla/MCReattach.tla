----------------------------- MODULE MCReattach -----------------------------
(* Reattach for TLC.                                                        *)
EXTENDS Reattach
=============================================================================
