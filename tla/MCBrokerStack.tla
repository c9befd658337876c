--------------------------- MODULE MCBrokerStack ---------------------------
(* Model values for checking BrokerStack. *)
EXTENDS BrokerStack, TLC

(* DEFAULT_EVENTS has both events; a bridge may want the switch's alone. *)
Both == [b \in Bridge |-> Event]
SecondSwitchOnly == [b \in Bridge |-> IF b = "b2" THEN SwitchEvent ELSE Event]

FirstRaises == [b \in Bridge |-> IF b = "b1" THEN "callable" ELSE "webhook"]
AllSwallow  == [b \in Bridge |-> "composite"]

Symmetry == Permutations(Caller)
============================================================================
