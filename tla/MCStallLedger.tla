---- MODULE MCStallLedger ----
(* A connection window of three stream windows, so that two streams may be *)
(* stalled, with three watched streams.                                    *)
EXTENDS StallLedger
====
