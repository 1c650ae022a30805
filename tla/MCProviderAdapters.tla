------------------------ MODULE MCProviderAdapters ------------------------
(* Small instances of ProviderAdapters. *)
EXTENDS ProviderAdapters, TLC

Symmetry == Permutations(Workers) \cup Permutations(Twins)
=============================================================================
