----------------------------- MODULE MCRealname -----------------------------
(* A small instance of Realname: one user, two applications, and two requests *)
(* under way at a time.                                                       *)
EXTENDS Realname

CONSTANTS u1, p1, p2

MCFirstSettings ==
    {[enabled |-> TRUE, fee |-> TRUE, provider |-> "aliyun"],
     [enabled |-> TRUE, fee |-> FALSE, provider |-> "manual"]}
Symmetry == Permutations(Procs)
=============================================================================
