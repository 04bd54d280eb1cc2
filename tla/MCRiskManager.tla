--------------------------- MODULE MCRiskManager ---------------------------
(* Finite instances of RiskManager for TLC.                                *)
EXTENDS RiskManager, TLC

ThreadSymmetry == Permutations(Thread)
MCQuantity == {2, 3}
MCPrice == {1}
MCPnl == {-2, 1}
=============================================================================
