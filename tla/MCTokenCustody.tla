---- MODULE MCTokenCustody ----
(* Two processes of one user, their sessions and their one resume.json. *)
EXTENDS TokenCustody, TLC

Symmetry == Permutations(Procs) \cup Permutations(Sessions)
====
