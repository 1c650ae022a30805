---------------------------- MODULE MCUserAdmin ----------------------------
(* A small instance of UserAdmin: two administrators and one user.           *)
EXTENDS UserAdmin

CONSTANTS a1, a2, m1, s1, s2, r1, r2, r3, g1, g2

Interchangeable == Permutations({a1, a2}) \cup Permutations({s1, s2}) \cup Permutations({r1, r2, r3})
=============================================================================
