---- MODULE MCControlHub ----
(* The control hub with two conduits that reuse one forward_id. *)
EXTENDS ControlHub, TLC

Symmetry == Permutations(Conduits) \cup Permutations(Claims)
====
