----------------------------- MODULE BulkDelete -----------------------------
(***************************************************************************)
(* The queued deletion of a batch of records: a job with its items is      *)
(* stored, a goroutine runs it, and a restarted server resets what was     *)
(* running and starts every pending job again, while it already serves     *)
(* requests that store new jobs.  What every module has (Init, Next, the   *)
(* type invariant, ...) has its own name here, so that the module can be   *)
(* extended beside another component.                                      *)
(***************************************************************************)
EXTENDS Integers, FiniteSets, TLC

CONSTANTS
    Records,
    Jobs,         \* bound: jobs ever stored
    Runs,         \* bound: goroutines at one time
    MaxAttempts,
    ResumeLimit,  \* jobs a restart takes up, 200 in the code
    MaxFailures,  \* bound: calls that fail
    MaxStops,     \* bound: stops of the server
    Absent

ASSUME BulkConstants ==
    /\ {MaxAttempts, ResumeLimit, MaxFailures, MaxStops} \subseteq Nat
    /\ MaxAttempts > 0
    /\ Absent \notin Records \cup Jobs
    /\ Jobs \subseteq Nat

VARIABLES
    jobs,         \* dns_bulk_jobs: the status of each
    item,         \* dns_bulk_job_items: the status of each record in each job
    served,       \* records the provider serves
    rows,         \* records with a row
    revived,      \* ghost: records a failed deletion has made anew without their row
    launched,     \* jobs stored whose goroutine the handler is about to start
    run,          \* goroutines of runBulkDeleteJob
    server,       \* "up", "down", or at the steps of resumePendingBulkJobs
    toStart,      \* jobs the resumption has listed and not yet started
    left,         \* ghost: jobs an error or the limit leaves for the next restart
    failures, stops

records == <<served, rows, revived>>
process == <<launched, run, server, toStart>>
bulkVars == <<jobs, item, records, process, left, failures, stops>>

NoRun == [job |-> Absent, step |-> "none", todo |-> {}, at |-> Absent,
          attempt |-> 0, failed |-> FALSE]

ItemsOf(j) == {x \in Records : item[j][x] # "none"}
Finished(j) == jobs[j] \in {"succeeded", "failed"}
Serving == server # "down"
CallFails == failures < MaxFailures /\ failures' = failures + 1
SetRun(p, r) == run' = [run EXCEPT ![p] = r]

-----------------------------------------------------------------------------

\* enqueueBulkDeleteJob: job and items in one transaction.
EnqueueJob(j, recs) ==
    /\ Serving
    /\ jobs[j] = "none"
    /\ \A k \in Jobs : k < j => jobs[k] # "none"
    /\ recs # {} /\ recs \subseteq rows
    /\ jobs' = [jobs EXCEPT ![j] = "pending"]
    /\ item' = [item EXCEPT ![j] = [x \in Records |-> IF x \in recs THEN "pending" ELSE "none"]]
    /\ launched' = launched \cup {j}
    /\ UNCHANGED <<records, run, server, toStart, left, failures, stops>>

\* "go s.runBulkDeleteJob(id)", by the handler or by the resumption.
Go(p, j) ==
    /\ run[p] = NoRun
    /\ \/ j \in launched /\ launched' = launched \ {j} /\ UNCHANGED toStart
       \/ j \in toStart /\ toStart' = toStart \ {j} /\ UNCHANGED launched
    /\ SetRun(p, [NoRun EXCEPT !.job = j, !.step = "try"])
    /\ UNCHANGED <<jobs, item, records, server, left, failures, stops>>

\* TryStartDNSBulkJob takes a pending job only; an error leaves it pending.
TryStart(p) ==
    /\ run[p].step = "try"
    /\ LET j == run[p].job
       IN \/ /\ jobs[j] = "pending"
             /\ jobs' = [jobs EXCEPT ![j] = "running"]
             /\ SetRun(p, [run[p] EXCEPT !.step = "list"])
             /\ left' = left \ {j}
             /\ UNCHANGED failures
          \/ /\ jobs[j] # "pending"
             /\ SetRun(p, NoRun)
             /\ UNCHANGED <<jobs, left, failures>>
          \/ /\ CallFails
             /\ SetRun(p, NoRun)
             /\ left' = left \cup {j}
             /\ UNCHANGED jobs
    /\ UNCHANGED <<item, records, launched, server, toStart, stops>>

\* Every item of the job, whatever its status: a resumed job redoes them all.
ListItems(p) ==
    /\ run[p].step = "list"
    /\ LET j == run[p].job
       IN \/ /\ SetRun(p, [run[p] EXCEPT !.step = "next", !.todo = ItemsOf(j)])
             /\ UNCHANGED <<jobs, failures>>
          \/ /\ CallFails
             /\ jobs' = [jobs EXCEPT ![j] = "failed"]
             /\ SetRun(p, NoRun)
    /\ UNCHANGED <<item, records, launched, server, toStart, left, stops>>

TakeItem(p) ==
    /\ run[p].step = "next"
    /\ \E x \in run[p].todo :
          /\ item' = [item EXCEPT ![run[p].job][x] = "running"]
          /\ SetRun(p, [run[p] EXCEPT !.step = "delete", !.at = x, !.attempt = 1, !.todo = @ \ {x}])
    /\ UNCHANGED <<jobs, records, launched, server, toStart, left, failures, stops>>

\* deleteSingle went through: the provider no longer serves the record (or did
\* not any more), and its row is gone.
Deleted(x) ==
    /\ served' = served \ {x}
    /\ rows' = rows \ {x}
    /\ revived' = revived \ {x}

\* It failed at the provider, before or after the record went, or at the row: then
\* the compensation makes the record anew, even for a row another goroutine has
\* removed meanwhile.
NotDeleted(x) ==
    /\ CallFails
    /\ served' \in {served, served \ {x}, served \cup {x}}
    /\ revived' = revived \cup ({x} \cap (served' \ (served \cup rows)))
    /\ UNCHANGED rows

\* One attempt of deleteSingleWithRetryDetailed; some errors are not worth another.
DeleteItem(p) ==
    /\ run[p].step = "delete"
    /\ LET x == run[p].at
       IN \/ /\ Deleted(x)
             /\ SetRun(p, [run[p] EXCEPT !.step = "succeeded"])
             /\ UNCHANGED failures
          \/ /\ NotDeleted(x)
             /\ \/ /\ run[p].attempt < MaxAttempts
                   /\ SetRun(p, [run[p] EXCEPT !.attempt = @ + 1])
                \/ SetRun(p, [run[p] EXCEPT !.step = "failed", !.failed = TRUE])
    /\ UNCHANGED <<jobs, item, launched, server, toStart, left, stops>>

\* The item's status and the counters; errors are ignored.
NoteItem(p) ==
    /\ run[p].step \in {"succeeded", "failed"}
    /\ \/ item' = [item EXCEPT ![run[p].job][run[p].at] = run[p].step] /\ UNCHANGED failures
       \/ CallFails /\ UNCHANGED item
    /\ SetRun(p, [run[p] EXCEPT !.step = "next", !.at = Absent, !.attempt = 0])
    /\ UNCHANGED <<jobs, records, launched, server, toStart, left, stops>>

\* Mutant: the job is judged by the items stored as failed.
OutcomeOfItems(p) ==
    IF \E x \in ItemsOf(run[p].job) : item[run[p].job][x] = "failed" THEN "failed" ELSE "succeeded"

Outcome(p) == IF run[p].failed THEN "failed" ELSE "succeeded"

FinishJob(p) ==
    /\ run[p].step = "next" /\ run[p].todo = {}
    /\ LET j == run[p].job
       IN \/ jobs' = [jobs EXCEPT ![j] = Outcome(p)] /\ UNCHANGED <<left, failures>>
          \/ CallFails /\ left' = left \cup {j} /\ UNCHANGED jobs
    /\ SetRun(p, NoRun)
    /\ UNCHANGED <<item, records, launched, server, toStart, stops>>

-----------------------------------------------------------------------------

StopServer ==
    /\ Serving /\ stops < MaxStops
    /\ stops' = stops + 1
    /\ server' = "down"
    /\ launched' = {}
    /\ run' = [p \in Runs |-> NoRun]
    /\ toStart' = {}
    /\ UNCHANGED <<jobs, item, records, left, failures>>

Start ==
    /\ server = "down"
    /\ server' = "reset"
    /\ UNCHANGED <<jobs, item, records, launched, run, toStart, left, failures, stops>>

\* Mutant: what was running when the server stopped is not run again.
NothingReset ==
    /\ server = "reset"
    /\ server' = "list"
    /\ UNCHANGED <<jobs, item, records, launched, run, toStart, left, failures, stops>>

\* Whatever is running becomes pending, a job started since the restart too.
ResetRunning ==
    /\ server = "reset"
    /\ \/ /\ jobs' = [j \in Jobs |-> IF jobs[j] = "running" THEN "pending" ELSE jobs[j]]
          /\ UNCHANGED <<left, failures>>
       \/ /\ CallFails
          /\ left' = left \cup {j \in Jobs : jobs[j] = "running"}
          /\ UNCHANGED jobs
    /\ server' = "list"
    /\ UNCHANGED <<item, records, launched, run, toStart, stops>>

\* The oldest pending jobs, up to the limit.
ListPending ==
    /\ server = "list"
    /\ LET pending == {j \in Jobs : jobs[j] = "pending"}
           first == {j \in pending : Cardinality({k \in pending : k < j}) < ResumeLimit}
       IN \/ toStart' = first /\ left' = left \cup (pending \ first) /\ UNCHANGED failures
          \/ CallFails /\ left' = left \cup pending /\ UNCHANGED toStart
    /\ server' = "up"
    /\ UNCHANGED <<jobs, item, records, launched, run, stops>>

BulkInit ==
    /\ jobs = [j \in Jobs |-> "none"]
    /\ item = [j \in Jobs |-> [x \in Records |-> "none"]]
    /\ served = Records
    /\ rows = Records
    /\ revived = {}
    /\ launched = {}
    /\ run = [p \in Runs |-> NoRun]
    /\ server = "up"
    /\ toStart = {}
    /\ left = {}
    /\ failures = 0 /\ stops = 0

RunStep(p) ==
    \/ \E j \in Jobs : Go(p, j)
    \/ TryStart(p) \/ ListItems(p) \/ TakeItem(p) \/ DeleteItem(p) \/ NoteItem(p) \/ FinishJob(p)

Resumption == Start \/ ResetRunning \/ ListPending

BulkNext ==
    \/ \E j \in Jobs, recs \in SUBSET Records : EnqueueJob(j, recs)
    \/ \E p \in Runs : RunStep(p)
    \/ StopServer
    \/ Resumption

\* A goroutine that can run does, a stopped server is started again and its
\* resumption goes on; nothing makes requests arrive or the server stop.
Fairness == (\A p \in Runs : WF_bulkVars(RunStep(p))) /\ WF_bulkVars(Resumption)

BulkSpec == BulkInit /\ [][BulkNext]_bulkVars /\ Fairness

-----------------------------------------------------------------------------

\* A job runs only when it is stored, each goroutine is at one of its items,
\* and nothing runs while the server is down.
BulkTypeOK ==
    /\ jobs \in [Jobs -> {"none", "pending", "running", "succeeded", "failed"}]
    /\ item \in [Jobs -> [Records -> {"none", "pending", "running", "succeeded", "failed"}]]
    /\ served \subseteq Records /\ rows \subseteq Records
    /\ server \in {"up", "down", "reset", "list"}
    /\ \A p \in Runs : run[p] # NoRun =>
          /\ Serving
          /\ jobs[run[p].job] # "none"
          /\ run[p].todo \subseteq ItemsOf(run[p].job)
    /\ \A j \in Jobs : jobs[j] = "none" <=> ItemsOf(j) = {}

\* "retry after job succeeds" is good advice: once a job says succeeded, none of
\* its records has a row or is served, also when it was run twice or the server
\* stopped in the middle of it, but for a record that a deletion by another
\* goroutine, failing later, has made anew.
SucceededMeansGone ==
    /\ BulkTypeOK
    /\ \A j \in Jobs : jobs[j] = "succeeded" =>
          ItemsOf(j) \cap rows = {} /\ ItemsOf(j) \cap served \subseteq revived

\* Every stored job ends, through any number of stops that come to an end,
\* unless an error of the database or the limit left it for the next restart.
EveryJobEnds == \A j \in Jobs : jobs[j] \in {"pending", "running"} ~> (Finished(j) \/ j \in left)
=============================================================================
