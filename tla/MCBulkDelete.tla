---------------------------- MODULE MCBulkDelete ----------------------------
(* A small instance of BulkDelete: two jobs over two records, of which a      *)
(* restart takes up one.                                                      *)
EXTENDS BulkDelete

CONSTANTS r1, r2, p1, p2
=============================================================================
