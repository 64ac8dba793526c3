------------------------- MODULE MCStrategyCircuit -------------------------
(* Instances of StrategyCircuit for TLC.                                   *)
EXTENDS StrategyCircuit

CONSTANTS c1, c2, p1, p2

TwoStrategies == 1 .. 2
=============================================================================
