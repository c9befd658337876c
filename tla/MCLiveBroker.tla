---------------------------- MODULE MCLiveBroker ----------------------------
(* Model values for checking LiveBroker. *)
EXTENDS LiveBroker, TLC

Symmetry == Permutations(Caller)
============================================================================
