------------------------- MODULE IdempotentRequests -------------------------
(***************************************************************************)
(* What ExecuteIdempotent promises to the callers of every mutating DNS    *)
(* and administration endpoint.  A key stands for one (scope, idempotency  *)
(* key) pair, the unique index of the dns_operation_requests table.        *)
(*                                                                         *)
(*  - the operation behind a key starts at most once, whatever the number  *)
(*    of concurrent or repeated calls and of restarts of the server;       *)
(*  - once a verdict is stored it never changes, and every later call with *)
(*    the key is answered with that verdict;                               *)
(*  - while there is no verdict, a repeated call is told that the          *)
(*    operation is in progress: a step that changes nothing here.          *)
(*                                                                         *)
(* A verdict may never be stored: the server can stop, or the final write  *)
(* can fail.  The key then stays "running".                                *)
(***************************************************************************)
EXTENDS Integers, FiniteSets

CONSTANTS Keys,      \* (scope, idempotency key) pairs
          Verdicts   \* the results an operation can end with

VARIABLES reqs,      \* key -> "none", "running" or the stored verdict
          runs,      \* key -> how many times the operation was started
          told       \* key -> the verdict its callers were told, or "none"

vars == <<reqs, runs, told>>

Init ==
    /\ reqs = [k \in Keys |-> "none"]
    /\ runs = [k \in Keys |-> 0]
    /\ told = [k \in Keys |-> "none"]

\* The call that inserts the row owns the execution.
Start(k) ==
    /\ reqs[k] = "none"
    /\ reqs' = [reqs EXCEPT ![k] = "running"]
    /\ runs' = [runs EXCEPT ![k] = @ + 1]
    /\ UNCHANGED told

\* The owner stores the verdict and returns it to its caller.
Finish(k, v) ==
    /\ reqs[k] = "running"
    /\ reqs' = [reqs EXCEPT ![k] = v]
    /\ told' = [told EXCEPT ![k] = v]
    /\ UNCHANGED runs

\* A repeated call finds the verdict.
Replay(k) ==
    /\ reqs[k] \notin {"none", "running"}
    /\ told' = [told EXCEPT ![k] = reqs[k]]
    /\ UNCHANGED <<reqs, runs>>

Next ==
    \E k \in Keys :
        \/ Start(k)
        \/ \E v \in Verdicts : Finish(k, v)
        \/ Replay(k)

Spec == Init /\ [][Next]_vars

-----------------------------------------------------------------------------
\* The operation behind a key never starts twice (TryCreateDNSOperationRequest
\* inserts the row once).
RunsOnce == \A k \in Keys : runs[k] <= 1

\* A caller of a key is never told anything but the stored verdict, and that
\* verdict never changes (ExecuteIdempotent, decodeOperationResult).
OneVerdict ==
    [][\A k \in Keys : told[k] # "none" => told'[k] = told[k]]_vars
=============================================================================
