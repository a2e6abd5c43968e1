------------------------------ MODULE MCBroker ------------------------------
(* Broker for TLC.  Sessions, handlers and principals are interchangeable.  *)
EXTENDS Broker, TLC

Symmetry == Permutations(Sessions) \union Permutations(Handlers)
                \union Permutations(Principals)
=============================================================================
