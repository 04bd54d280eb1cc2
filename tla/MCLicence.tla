----------------------------- MODULE MCLicence ------------------------------
(* Licence for TLC: machines, keys and ids are interchangeable.            *)
EXTENDS Licence, TLC

Symmetry == Permutations(Machine) \cup Permutations(Key) \cup Permutations(Id)
=============================================================================
