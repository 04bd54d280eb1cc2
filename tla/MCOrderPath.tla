---------------------------- MODULE MCOrderPath ----------------------------
(* Finite instances of OrderPath for TLC.                                  *)
EXTENDS OrderPath, TLC

CONSTANTS a1, r1

(* Every order is of one account, or r1 of the first account and the rest  *)
(* of another.                                                             *)
OneAccount == [r \in Request |-> a1]
TwoAccounts == [r \in Request |-> IF r = r1 THEN a1
                                  ELSE CHOOSE a \in Account : a # a1]
=============================================================================
