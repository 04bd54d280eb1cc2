----------------------------- MODULE MCPaperRun -----------------------------
(* Finite instances of PaperRun for TLC.                                   *)
EXTENDS PaperRun, TLC

CONSTANTS s1, s2
OneStrategy == [r \in Run |-> s1]
Symmetry == Permutations(Worker) \cup Permutations(Run)
=============================================================================
