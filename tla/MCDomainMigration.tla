-------------------------- MODULE MCDomainMigration --------------------------
(***************************************************************************)
(* DomainMigration for TLC.  Goroutines and accounts are interchangeable   *)
(* model values; the symmetry serves the run without liveness.             *)
(***************************************************************************)
EXTENDS DomainMigration

Symmetry == Permutations(Runners) \cup Permutations(Admins) \cup Permutations(Accts)
=============================================================================
