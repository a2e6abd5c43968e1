--------------------------- MODULE MCSessionActor ---------------------------
(* SessionActor for TLC: every kind of first signal that escalates differently. *)
EXTENDS SessionActor

MCFirstSignals == {"HUP", "TERM", "KILL"}
=============================================================================
