--------------------------- MODULE MCCreditLedger ---------------------------
(***************************************************************************)
(* CreditLedger for TLC.  Prices and amounts may be negative, which a      *)
(* configuration cannot write.                                             *)
(***************************************************************************)
EXTENDS CreditLedger

SomePrices == {-1, 0, 1}
SomeAmounts == {-2, 2}
Symmetry == Permutations(Procs) \cup Permutations(Users)
=============================================================================
