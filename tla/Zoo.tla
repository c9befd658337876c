---------------------------------- MODULE Zoo ----------------------------------
(***************************************************************************)
(* From the calendar to the gate: bars come in on the trading days of the  *)
(* calendar, the signals of oq-backtest are computed over them again and   *)
(* again, and at last the panel they make is what oq-zoo gates strategies  *)
(* on.                                                                     *)
(***************************************************************************)
EXTENDS Strategies, Gate

zooVars == <<strategyVars, gateVars>>

Init == StrategiesInit /\ GateInit

(* Another day of the research. *)
Research ==
    /\ panel = 0
    /\ StrategiesNext
    /\ UNCHANGED gateVars

(* The bars of all days become the panel, and the gate is called for with   *)
(* some options; the next research starts afresh.                           *)
HandOver ==
    /\ panel = 0 /\ index # <<>>
    /\ day = LastDay
    /\ panel' = Len(index)
    /\ config' \in Config
    /\ day' = 0 /\ index' = <<>> /\ prices' = <<>>
    /\ UNCHANGED <<cal, registry, specs, stage, report, fold, oos, reports, exit, evidence>>

GateStep ==
    /\ panel > 0
    /\ GateNext
    /\ UNCHANGED strategyVars

Next == Research \/ HandOver \/ GateStep

Spec == Init /\ [][Next]_zooVars
=============================================================================
