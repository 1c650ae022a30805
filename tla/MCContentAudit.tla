--------------------------- MODULE MCContentAudit ---------------------------
(* A small instance of ContentAudit: two subdomains of one user, each of one  *)
(* record, and two goroutines.                                                *)
EXTENDS ContentAudit, TLC

CONSTANTS s1, s2, ra, rb, w1, w2

MCSubOf == ra :> s1 @@ rb :> s2
SuspendUser == [enabled |-> TRUE, exempt |-> TRUE, action |-> "user"]
DeleteDNS == [enabled |-> TRUE, exempt |-> FALSE, action |-> "delete_dns"]
Off == [enabled |-> FALSE, exempt |-> TRUE, action |-> "user"]
MCRules == {SuspendUser, Off, DeleteDNS}

SwapSubs == s1 :> s2 @@ s2 :> s1 @@ ra :> rb @@ rb :> ra
SwapWorkers == w1 :> w2 @@ w2 :> w1
Symmetry == {SwapSubs, SwapWorkers, SwapSubs @@ SwapWorkers}
=============================================================================
