---------------------------- MODULE MCMaintenance ----------------------------
(* A small instance of Maintenance: three requests that export or restore.    *)
EXTENDS Maintenance

CONSTANTS w1, w2, o1, o2, o3

Symmetry == Permutations(Writers) \cup Permutations(Operators)
=============================================================================
