----------------------------- MODULE MCCostLedger -----------------------------
(* CostLedger on four days, with weeks that begin on every fourth day and a  *)
(* second month that begins on the third, inside a week.                    *)
EXTENDS CostLedger

MCMonthStarts == {1, 3}
MCSamples     == {5, 10}
=============================================================================
