---- MODULE MCReverseListen ----
(* Reverse registrations of two peers that both may use the one name. *)
EXTENDS ReverseListen, TLC

EveryPeerMayUseEveryName == Peers \X Names
====
