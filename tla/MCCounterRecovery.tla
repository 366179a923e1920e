-------------------------- MODULE MCCounterRecovery --------------------------
(* Two copies of the service, each answering one call: commands of one copy *)
(* share a connection and are answered in order, those of two copies not.   *)
EXTENDS CounterRecovery, TLC

CONSTANTS i1, i2, milk, bread

TwoInstances == {i1, i2}
OneCallEach == {i1, i2}
ServedByItself(c) == c
AsksFor(c) == IF c = i1 THEN milk ELSE bread
MilkThenBread == <<{milk}, {bread}>>
=============================================================================
