---------------------------- MODULE MCAccounts ----------------------------
(* A small instance of Accounts: two addresses that are alike, two requests at *)
(* a time.                                                                     *)
EXTENDS Accounts

CONSTANTS a1, a2, p1, p2, w1, w2

Interchangeable == Permutations({a1, a2}) \cup Permutations({p1, p2}) \cup Permutations({w1, w2})
=============================================================================
