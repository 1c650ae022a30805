---------------------------- MODULE MCDNSRecords ----------------------------
(***************************************************************************)
(* DNSRecords for TLC.  Workers, keys and the records that are no CNAMEs   *)
(* are interchangeable model values; the symmetry serves the run without   *)
(* liveness.                                                               *)
(***************************************************************************)
EXTENDS DNSRecords, TLC

Symmetry ==
    Permutations(Workers) \cup Permutations(Keys) \cup Permutations(Recs \ Cnames)
=============================================================================
