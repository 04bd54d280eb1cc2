-------------------------- MODULE MCChoiceSession --------------------------
(* ChoiceSession for TLC: threads are interchangeable, and so are objects.  *)
EXTENDS ChoiceSession, TLC

Symmetry == Permutations(Thread) \cup Permutations(Object)
=============================================================================
