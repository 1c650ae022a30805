----------------------------- MODULE DNSRecords -----------------------------
(***************************************************************************)
(* The records of one subdomain, kept twice: as rows of the database and   *)
(* as records of the zone at the DNS provider.  The request handlers       *)
(* (create, update, delete a record, release the subdomain) run in         *)
(* parallel, change the provider first and the database second, and        *)
(* compensate at the provider when the database refuses.  Every handler    *)
(* runs inside ExecuteIdempotent.                                          *)
(*                                                                         *)
(* A worker is a goroutine serving one request.  pc[w] names the next call *)
(* it makes; each action is one provider call or one database transaction. *)
(* The provider may refuse a call, or apply it and lose the answer; the    *)
(* database may refuse a transaction; the server may stop anywhere.        *)
(***************************************************************************)
EXTENDS Integers, FiniteSets

CONSTANTS
    Recs,              \* logical records (type, content) under the subdomain's name
    Cnames,            \* those of type CNAME
    NoRec,
    Workers, NoWorker,
    Keys, NoKey,       \* (scope, idempotency key) pairs
    MaxDNSRecords,     \* record limit of the user's group
    DeleteAttempts,    \* singleOperationAttempts: whole-delete attempts of DeleteRecord
    BatchAttempts,     \* attempts per record of a release
    CallAttempts,      \* attempts of one provider call inside retryValue
    MaxRows,           \* bound: row ids the database hands out
    MaxPids,           \* bound: provider record ids handed out
    MaxFaults          \* bound: refused calls, lost answers, failed transactions, restarts

ASSUME ConstantsAssumption ==
    /\ Cnames \subseteq Recs
    /\ NoRec \notin Recs
    /\ NoWorker \notin Workers
    /\ NoKey \notin Keys
    /\ MaxDNSRecords \in Nat \ {0}
    /\ DeleteAttempts \in Nat \ {0}
    /\ BatchAttempts \in Nat \ {0}
    /\ CallAttempts \in Nat \ {0}
    /\ MaxRows \in Nat \ {0}
    /\ MaxPids \in Nat \ {0}
    /\ MaxFaults \in Nat

VARIABLES
    rows,      \* dns_records: row id -> [rec, pid]; absent rows hold NoRow
    nextRow,   \* the sequence behind dns_records.id
    sub,       \* the subdomain row: "active" or "gone"
    lock,      \* worker whose transaction holds the subdomain row FOR UPDATE
    zone,      \* the provider: record -> provider record id, 0 when absent
    nextPid,
    reqs,      \* dns_operation_requests: key -> "none", "running" or the verdict
    pc, key, job,
    runs,      \* ghost: key -> executions started
    told,      \* ghost: key -> the verdict its callers were told, or "none"
    revived,   \* ghost: row ids that Save inserted again after a delete
    mishaps,   \* ghost: which faults and races happened so far
    faults     \* how many faults happened, against MaxFaults

dbVars == <<rows, nextRow, sub>>
provVars == <<zone, nextPid>>
reqVars == <<reqs, runs, told>>
vars == <<rows, nextRow, sub, lock, zone, nextPid, reqs, pc, key, job,
          runs, told, revived, mishaps, faults>>

RowIds == 1..MaxRows
Pids == 1..MaxPids
NoRow == [rec |-> NoRec, pid |-> 0]
NoItem == [id |-> 0, rec |-> NoRec, pid |-> 0]
Items == [id : RowIds, rec : Recs, pid : Pids]
Verdicts == {"ok", "rejected", "failed"}
Mishaps == {"overlap", "crash", "lost", "outage", "undo", "db", "sweep", "beside"}

Steps == {"c_provider", "c_check", "c_insert", "c_undo",
          "u_provider", "u_save", "u_undo",
          "d_next", "d_del", "d_look", "d_del2", "d_row", "d_recreate", "d_repoint",
          "r_sweep", "reply"}
ProviderSteps == {"c_provider", "c_undo", "u_provider", "u_undo",
                  "d_del", "d_look", "d_del2", "d_recreate"}

Idle == [op |-> "none", item |-> NoItem, new |-> NoRec, pid |-> 0, todo |-> {},
         left |-> 0, tries |-> 0, lost |-> FALSE, res |-> "none"]

Present == {i \in RowIds : rows[i].rec # NoRec}
ItemOf(i) == [id |-> i, rec |-> rows[i].rec, pid |-> rows[i].pid]
Busy(w) == pc[w] # "idle"
SameType(r, s) == r \in Cnames <=> s \in Cnames

-----------------------------------------------------------------------------
\* The zone at the provider.  A create looks for the same record first and
\* adopts it; deleting an unknown id succeeds; an update needs its id.

PCreate(r) ==
    IF zone[r] = 0
    THEN /\ nextPid <= MaxPids
         /\ zone' = [zone EXCEPT ![r] = nextPid]
         /\ nextPid' = nextPid + 1
    ELSE UNCHANGED provVars

PDelete(p) ==
    /\ zone' = [r \in Recs |-> IF zone[r] = p THEN 0 ELSE zone[r]]
    /\ UNCHANGED nextPid

Updatable(p, r, new) == zone[r] = p /\ (new = r \/ zone[new] = 0)

PUpdate(p, new) ==
    \E r \in Recs :
        /\ Updatable(p, r, new)
        /\ zone' = [zone EXCEPT ![r] = 0, ![new] = p]
        /\ UNCHANGED nextPid

UpdateTo(w) == IF pc[w] = "u_provider" THEN job[w].new ELSE job[w].item.rec

\* The provider call worker w is about to make.
Effect(w) ==
    LET j == job[w] IN
    \/ /\ pc[w] = "c_provider"
       /\ PCreate(j.new)
    \/ /\ pc[w] = "d_recreate"
       /\ PCreate(j.item.rec)
    \/ /\ pc[w] \in {"c_undo", "d_del", "d_del2"}
       /\ PDelete(j.pid)
    \/ /\ pc[w] \in {"u_provider", "u_undo"}
       /\ PUpdate(j.item.pid, UpdateTo(w))
    \/ /\ pc[w] = "d_look"
       /\ UNCHANGED provVars

-----------------------------------------------------------------------------
\* Bookkeeping of a worker: go to the next step with a changed job.

Goto(w, step, j) ==
    /\ pc' = [pc EXCEPT ![w] = step]
    /\ job' = [job EXCEPT ![w] = [j EXCEPT !.tries = CallAttempts, !.lost = FALSE]]
    /\ UNCHANGED key

Note(m) == mishaps' = mishaps \cup m

\* ghost: an update puts a record back that a delete has looked for already
PastLook(v) == pc[v] \in {"d_del2", "d_row"}
Crossing(w) ==
    IF pc[w] \in {"u_provider", "u_undo"}
       /\ \E v \in Workers : PastLook(v) /\ job[v].item.rec = UpdateTo(w)
    THEN {"beside"} ELSE {}

Fault == faults < MaxFaults /\ faults' = faults + 1
NoFault == UNCHANGED faults

Init ==
    /\ \E r \in Recs \cup {NoRec} :
          /\ rows = [i \in RowIds |->
                        IF i = 1 /\ r # NoRec THEN [rec |-> r, pid |-> 1] ELSE NoRow]
          /\ zone = [s \in Recs |-> IF s = r THEN 1 ELSE 0]
    /\ nextRow = 2
    /\ nextPid = 2
    /\ sub = "active"
    /\ lock = NoWorker
    /\ reqs = [k \in Keys |-> "none"]
    /\ runs = [k \in Keys |-> 0]
    /\ told = [k \in Keys |-> "none"]
    /\ pc = [w \in Workers |-> "idle"]
    /\ key = [w \in Workers |-> NoKey]
    /\ job = [w \in Workers |-> Idle]
    /\ revived = {}
    /\ mishaps = {}
    /\ faults = 0

-----------------------------------------------------------------------------
\* ExecuteIdempotent.  The insert of the request row decides who executes.

\* Mutant: INSERT without ON CONFLICT DO NOTHING deciding the owner.
TryCreateNoConflict(w, k) ==
    /\ pc[w] = "idle"
    /\ reqs' = [reqs EXCEPT ![k] = "running"]
    /\ runs' = [runs EXCEPT ![k] = @ + 1]
    /\ key' = [key EXCEPT ![w] = k]
    /\ UNCHANGED told

TryCreate(w, k) ==
    /\ pc[w] = "idle"
    /\ reqs[k] = "none"
    /\ reqs' = [reqs EXCEPT ![k] = "running"]
    /\ runs' = [runs EXCEPT ![k] = @ + 1]
    /\ key' = [key EXCEPT ![w] = k]
    /\ UNCHANGED told

Begin(w, k, step, j) ==
    /\ TryCreate(w, k)
    /\ pc' = [pc EXCEPT ![w] = step]
    /\ job' = [job EXCEPT ![w] = [j EXCEPT !.tries = CallAttempts]]
    /\ Note(IF \E v \in Workers \ {w} : Busy(v) THEN {"overlap"} ELSE {})
    /\ UNCHANGED <<dbVars, provVars, lock, revived, faults>>

Tell(k, verdict) == told' = [told EXCEPT ![k] = verdict]

\* A caller of a finished execution gets its verdict.  (A caller of a running
\* one is told "operation is in progress", which changes nothing.)
AnswerRepeat ==
    \E k \in Keys :
        /\ reqs[k] \in Verdicts
        /\ Tell(k, reqs[k])
        /\ UNCHANGED <<dbVars, provVars, lock, reqs, runs, pc, key, job, revived, mishaps, faults>>

\* The verdict is stored and returned, or storing it fails.
Reply(w) ==
    /\ pc[w] = "reply"
    /\ \/ /\ reqs' = [reqs EXCEPT ![key[w]] = job[w].res]
          /\ Tell(key[w], job[w].res)
          /\ NoFault
       \/ /\ Fault
          /\ UNCHANGED <<reqs, told>>
    /\ pc' = [pc EXCEPT ![w] = "idle"]
    /\ key' = [key EXCEPT ![w] = NoKey]
    /\ job' = [job EXCEPT ![w] = Idle]
    /\ UNCHANGED <<dbVars, provVars, lock, runs, revived, mishaps>>

EndWith(w, j, verdict) == Goto(w, "reply", [j EXCEPT !.res = verdict])

-----------------------------------------------------------------------------
\* A provider call fails: refused, or applied with the answer lost.  It is
\* repeated while attempts are left and the error looks transient.

FailAttempt(w, j) ==
    \/ /\ j.left > 1
       /\ Goto(w, "d_del", [j EXCEPT !.left = @ - 1, !.pid = j.item.pid])
    \/ Goto(w, "d_next", [j EXCEPT !.res = IF j.op = "release" THEN "rejected" ELSE "failed"])

GiveUp(w, lost) ==
    LET j == job[w] IN
    \/ /\ pc[w] \in {"c_provider", "u_provider"}
       /\ EndWith(w, j, "failed")
       /\ Note(IF lost THEN {"lost"} \cup Crossing(w) ELSE {})
    \/ /\ pc[w] \in {"c_undo", "u_undo"}
       /\ EndWith(w, j, "failed")
       /\ Note({"undo"} \cup Crossing(w))
    \/ /\ pc[w] \in {"d_del", "d_look", "d_del2"}
       /\ FailAttempt(w, j)
       /\ Note(IF lost THEN {"lost"} ELSE {})
    \/ /\ pc[w] = "d_recreate"
       /\ FailAttempt(w, j)
       /\ Note({"undo"})

ProviderFails(w) ==
    /\ pc[w] \in ProviderSteps
    /\ Fault
    /\ \E applied \in BOOLEAN :
          LET lost == job[w].lost \/ applied IN
          /\ IF applied THEN Effect(w) ELSE UNCHANGED provVars
          /\ \/ /\ job[w].tries > 1
                /\ job' = [job EXCEPT ![w] = [job[w] EXCEPT !.tries = @ - 1, !.lost = lost]]
                /\ Note(IF applied THEN Crossing(w) ELSE {})
                /\ UNCHANGED <<pc, key>>
             \/ GiveUp(w, lost)
    /\ UNCHANGED <<dbVars, reqVars, lock, revived>>

\* The provider has no record with the id, or holds the new content already.
UpdateRefused(w) ==
    /\ pc[w] \in {"u_provider", "u_undo"}
    /\ \A r \in Recs : ~Updatable(job[w].item.pid, r, UpdateTo(w))
    /\ GiveUp(w, job[w].lost)
    /\ UNCHANGED <<dbVars, provVars, reqVars, lock, revived, faults>>

\* The provider's DELETE fails and so does the read that should tell whether
\* the record is still there: the client reports the record as deleted.
AfterDelete(w) ==
    LET j == job[w] IN
    \/ /\ pc[w] = "c_undo"
       /\ EndWith(w, j, j.res)
    \/ /\ pc[w] = "d_del"
       /\ Goto(w, "d_look", j)
    \/ /\ pc[w] = "d_del2"
       /\ Goto(w, "d_row", j)

DeletePresumed(w) ==
    /\ AfterDelete(w)
    /\ Fault
    /\ Note({"outage"})
    /\ UNCHANGED <<dbVars, provVars, reqVars, lock, revived>>

\* DeleteRecord at the provider: a create's rollback, the delete by the
\* snapshot's id, and the delete of what the lookup found.
DeleteAtProvider(w) ==
    /\ AfterDelete(w)
    /\ PDelete(job[w].pid)
    /\ UNCHANGED <<dbVars, reqVars, lock, revived, mishaps, faults>>

-----------------------------------------------------------------------------
\* Create a record.

CreateBegin(w, k) ==
    \E r \in Recs :
        /\ sub = "active"
        /\ Begin(w, k, "c_provider", [Idle EXCEPT !.op = "create", !.new = r])

CreateAtProvider(w) ==
    /\ pc[w] = "c_provider"
    /\ PCreate(job[w].new)
    /\ Goto(w, "c_check", [job[w] EXCEPT !.pid = zone'[job[w].new]])
    /\ UNCHANGED <<dbVars, reqVars, lock, revived, mishaps, faults>>

\* beforePersist: the rows it counts, under the lock of the subdomain row.
CnameAllows(r) ==
    IF r \in Cnames THEN Present = {} ELSE \A i \in Present : rows[i].rec \notin Cnames

\* Mutant: the limit is compared with > instead of >=.
AcceptableOffByOne(r) ==
    /\ CnameAllows(r)
    /\ \A i \in Present : rows[i].rec # r
    /\ Cardinality(Present) <= MaxDNSRecords

Acceptable(r) ==
    /\ CnameAllows(r)
    /\ \A i \in Present : rows[i].rec # r
    /\ Cardinality(Present) < MaxDNSRecords

\* Mutant: the rows are counted without LockSubdomainForUpdate.
CreateCheckUnlocked(w) ==
    LET j == job[w] IN
    /\ pc[w] = "c_check"
    /\ \/ /\ sub = "active"
          /\ Acceptable(j.new)
          /\ Goto(w, "c_insert", j)
       \/ /\ ~Acceptable(j.new)
          /\ Goto(w, "c_undo", [j EXCEPT !.res = "rejected"])
    /\ UNCHANGED <<dbVars, provVars, reqVars, lock, revived, mishaps, faults>>

CreateCheck(w) ==
    LET j == job[w] IN
    /\ pc[w] = "c_check"
    /\ lock = NoWorker
    /\ \/ /\ sub = "active"
          /\ Acceptable(j.new)
          /\ lock' = w
          /\ Goto(w, "c_insert", j)
          /\ NoFault
       \/ /\ sub = "gone" \/ ~Acceptable(j.new)
          /\ Goto(w, "c_undo", [j EXCEPT !.res = "rejected"])
          /\ NoFault
          /\ UNCHANGED lock
       \/ /\ Fault
          /\ Goto(w, "c_undo", [j EXCEPT !.res = "failed"])
          /\ UNCHANGED lock
    /\ UNCHANGED <<dbVars, provVars, reqVars, revived, mishaps>>

\* The two unique indexes of dns_records, for a new row with record r.
UniqueFor(r, others) ==
    /\ \A i \in others : rows[i].rec # r
    /\ r \in Cnames => \A i \in others : rows[i].rec \notin Cnames

\* Mutant: a refused insert is answered without the provider's rollback.
CreateInsertNoUndo(w) ==
    LET j == job[w] IN
    /\ pc[w] = "c_insert"
    /\ lock' = NoWorker
    /\ Fault
    /\ EndWith(w, j, "failed")
    /\ UNCHANGED <<dbVars, provVars, reqVars, revived, mishaps>>

\* Mutant: a failed insert leaves its transaction open.
CreateInsertLeaksLock(w) ==
    LET j == job[w] IN
    /\ pc[w] = "c_insert"
    /\ \/ /\ UniqueFor(j.new, Present)
          /\ rows' = [rows EXCEPT ![nextRow] = [rec |-> j.new, pid |-> j.pid]]
          /\ nextRow' = nextRow + 1
          /\ lock' = NoWorker
          /\ EndWith(w, j, "ok")
          /\ NoFault
       \/ /\ Fault
          /\ Goto(w, "c_undo", [j EXCEPT !.res = "failed"])
          /\ UNCHANGED <<rows, nextRow, lock>>
    /\ UNCHANGED <<sub, provVars, reqVars, revived, mishaps>>

\* Mutant: the row is built without the id that the provider answered.
CreateInsertNoId(w) ==
    LET j == job[w] IN
    /\ pc[w] = "c_insert"
    /\ lock' = NoWorker
    /\ UniqueFor(j.new, Present)
    /\ nextRow <= MaxRows
    /\ rows' = [rows EXCEPT ![nextRow] = [rec |-> j.new, pid |-> 0]]
    /\ nextRow' = nextRow + 1
    /\ EndWith(w, j, "ok")
    /\ NoFault
    /\ UNCHANGED <<sub, provVars, reqVars, revived, mishaps>>

\* The insert and the commit that releases the lock.
CreateInsert(w) ==
    LET j == job[w] IN
    /\ pc[w] = "c_insert"
    /\ lock' = NoWorker
    /\ \/ /\ UniqueFor(j.new, Present)
          /\ nextRow <= MaxRows
          /\ rows' = [rows EXCEPT ![nextRow] = [rec |-> j.new, pid |-> j.pid]]
          /\ nextRow' = nextRow + 1
          /\ EndWith(w, j, "ok")
          /\ NoFault
       \/ /\ ~UniqueFor(j.new, Present)
          /\ Goto(w, "c_undo", [j EXCEPT !.res = "rejected"])
          /\ NoFault
          /\ UNCHANGED <<rows, nextRow>>
       \/ /\ Fault
          /\ Goto(w, "c_undo", [j EXCEPT !.res = "failed"])
          /\ UNCHANGED <<rows, nextRow>>
    /\ UNCHANGED <<sub, provVars, reqVars, revived, mishaps>>

-----------------------------------------------------------------------------
\* Update the content of a record.  The row, and the duplicate check, are
\* read before anything is written.

UpdateBegin(w, k) ==
    \E i \in Present, r \in Recs :
        /\ SameType(r, rows[i].rec)
        /\ \A o \in Present \ {i} : rows[o].rec # r
        /\ Begin(w, k, "u_provider", [Idle EXCEPT !.op = "update", !.item = ItemOf(i), !.new = r])

UpdateAtProvider(w) ==
    /\ pc[w] = "u_provider"
    /\ PUpdate(job[w].item.pid, job[w].new)
    /\ Goto(w, "u_save", job[w])
    /\ Note(Crossing(w))
    /\ UNCHANGED <<dbVars, reqVars, lock, revived, faults>>

\* gorm's Save: UPDATE by id and, when no row was hit, an insert with the
\* same id, which needs the subdomain row.
SaveUpdates(j) ==
    /\ j.item.id \in Present
    /\ \A i \in Present \ {j.item.id} : rows[i].rec # j.new
    /\ UNCHANGED revived

SaveInserts(j) ==
    /\ j.item.id \notin Present
    /\ sub = "active"
    /\ lock = NoWorker
    /\ UniqueFor(j.new, Present)
    /\ revived' = revived \cup {j.item.id}

SaveClashes(j) ==
    \E i \in Present \ {j.item.id} :
        \/ rows[i].rec = j.new
        \/ {j.new, rows[i].rec} \subseteq Cnames /\ j.item.id \notin Present

UpdateSave(w) ==
    LET j == job[w] IN
    /\ pc[w] = "u_save"
    /\ \/ /\ SaveUpdates(j) \/ SaveInserts(j)
          /\ rows' = [rows EXCEPT ![j.item.id] = [rec |-> j.new, pid |-> j.item.pid]]
          /\ EndWith(w, j, "ok")
          /\ NoFault
       \/ /\ SaveClashes(j)
          /\ Goto(w, "u_undo", [j EXCEPT !.res = "rejected"])
          /\ NoFault
          /\ UNCHANGED <<rows, revived>>
       \/ /\ (j.item.id \notin Present /\ sub = "gone" /\ NoFault) \/ Fault
          /\ Goto(w, "u_undo", [j EXCEPT !.res = "failed"])
          /\ UNCHANGED <<rows, revived>>
    /\ UNCHANGED <<nextRow, sub, lock, provVars, reqVars, mishaps>>

UpdateUndo(w) ==
    /\ pc[w] = "u_undo"
    /\ PUpdate(job[w].item.pid, job[w].item.rec)
    /\ EndWith(w, job[w], job[w].res)
    /\ Note(Crossing(w))
    /\ UNCHANGED <<dbVars, reqVars, lock, revived, faults>>

-----------------------------------------------------------------------------
\* Delete one record, or all of a snapshot (release).

DeleteBegin(w, k) ==
    \E i \in Present :
        Begin(w, k, "d_next", [Idle EXCEPT !.op = "delete", !.todo = {ItemOf(i)}, !.res = "ok"])

ReleaseBegin(w, k) ==
    /\ sub = "active"
    /\ Begin(w, k, "d_next", [Idle EXCEPT !.op = "release", !.res = "ok",
                                          !.todo = {ItemOf(i) : i \in Present}])

Attempts(op) == IF op = "release" THEN BatchAttempts ELSE DeleteAttempts

DeleteNext(w) ==
    LET j == job[w] IN
    /\ pc[w] = "d_next"
    /\ \/ \E it \in j.todo :
             Goto(w, "d_del", [j EXCEPT !.item = it, !.pid = it.pid, !.todo = @ \ {it},
                                        !.left = Attempts(j.op)])
       \/ /\ j.todo = {}
          /\ IF j.op = "release" /\ j.res = "ok"
             THEN Goto(w, "r_sweep", j)
             ELSE EndWith(w, j, j.res)
    /\ UNCHANGED <<dbVars, provVars, reqVars, lock, revived, mishaps, faults>>

\* Mutant: what the delete by id answered is taken to be enough.
DeleteLookSkipped(w) ==
    /\ pc[w] = "d_look"
    /\ Goto(w, "d_row", job[w])
    /\ UNCHANGED <<dbVars, provVars, reqVars, lock, revived, mishaps, faults>>

\* The id may be stale: look the record up by what it says, delete it again.
DeleteLook(w) ==
    LET j == job[w] IN
    /\ pc[w] = "d_look"
    /\ IF zone[j.item.rec] = 0
       THEN Goto(w, "d_row", j)
       ELSE Goto(w, "d_del2", [j EXCEPT !.pid = zone[j.item.rec]])
    /\ UNCHANGED <<dbVars, provVars, reqVars, lock, revived, mishaps, faults>>

DeleteRow(w) ==
    LET j == job[w] IN
    /\ pc[w] = "d_row"
    /\ \/ /\ rows' = [rows EXCEPT ![j.item.id] = NoRow]
          /\ Goto(w, "d_next", j)
          /\ NoFault
          /\ UNCHANGED mishaps
       \/ /\ Fault
          /\ Goto(w, "d_recreate", j)
          /\ Note({"db"})
          /\ UNCHANGED rows
    /\ UNCHANGED <<nextRow, sub, provVars, reqVars, lock, revived>>

DeleteRecreate(w) ==
    LET j == job[w] IN
    /\ pc[w] = "d_recreate"
    /\ PCreate(j.item.rec)
    /\ IF zone'[j.item.rec] = j.item.pid
       THEN FailAttempt(w, j)
       ELSE Goto(w, "d_repoint", [j EXCEPT !.pid = zone'[j.item.rec]])
    /\ UNCHANGED <<dbVars, reqVars, lock, revived, mishaps, faults>>

\* Mutant: the id of the recreated provider record is not stored.
DeleteRepointForgotten(w) ==
    /\ pc[w] = "d_repoint"
    /\ FailAttempt(w, job[w])
    /\ UNCHANGED <<dbVars, provVars, reqVars, lock, revived, mishaps, faults>>

DeleteRepoint(w) ==
    LET j == job[w] IN
    /\ pc[w] = "d_repoint"
    /\ FailAttempt(w, j)
    /\ \/ /\ rows' = [rows EXCEPT ![j.item.id].pid = IF j.item.id \in Present THEN j.pid ELSE 0]
          /\ Note(IF \E v \in Workers : PastLook(v) /\ job[v].item.id = j.item.id
                  THEN {"beside"} ELSE {})
          /\ NoFault
       \/ /\ Fault
          /\ Note({"undo"})
          /\ UNCHANGED rows
    /\ UNCHANGED <<nextRow, sub, provVars, reqVars, lock, revived>>

\* The final transaction of a release takes every row of the subdomain, also
\* the rows its snapshot did not hold, but for one that a create inserts
\* meanwhile: its foreign key refuses the release.
ReleaseSweep(w) ==
    LET j == job[w] IN
    /\ pc[w] = "r_sweep"
    /\ \/ /\ lock = NoWorker
          /\ rows' = [i \in RowIds |-> NoRow]
          /\ sub' = "gone"
          /\ Note(IF Present = {} THEN {} ELSE {"sweep"})
          /\ EndWith(w, j, "ok")
          /\ NoFault
       \/ /\ lock # NoWorker
          /\ EndWith(w, j, "failed")
          /\ NoFault
          /\ UNCHANGED <<rows, sub, mishaps>>
       \/ /\ Fault
          /\ EndWith(w, j, "failed")
          /\ UNCHANGED <<rows, sub, mishaps>>
    /\ UNCHANGED <<nextRow, lock, provVars, reqVars, revived>>

-----------------------------------------------------------------------------
\* The server stops: the goroutines are lost, open transactions roll back.
Crash ==
    /\ Fault
    /\ lock' = NoWorker
    /\ pc' = [w \in Workers |-> "idle"]
    /\ key' = [w \in Workers |-> NoKey]
    /\ job' = [w \in Workers |-> Idle]
    /\ Note({"crash"})
    /\ UNCHANGED <<dbVars, provVars, reqVars, revived>>

CreateStep(w) == CreateAtProvider(w) \/ CreateCheck(w) \/ CreateInsert(w)
UpdateStep(w) == UpdateAtProvider(w) \/ UpdateSave(w) \/ UpdateUndo(w)
DeleteStep(w) ==
    \/ DeleteNext(w) \/ DeleteLook(w) \/ DeleteRow(w)
    \/ DeleteRecreate(w) \/ DeleteRepoint(w) \/ ReleaseSweep(w)

WorkerStep(w) ==
    \/ CreateStep(w) \/ UpdateStep(w) \/ DeleteStep(w)
    \/ DeleteAtProvider(w) \/ DeletePresumed(w)
    \/ ProviderFails(w) \/ UpdateRefused(w)
    \/ Reply(w)

BeginSome(w, k) ==
    CreateBegin(w, k) \/ UpdateBegin(w, k) \/ DeleteBegin(w, k) \/ ReleaseBegin(w, k)

Next ==
    \/ \E w \in Workers, k \in Keys : BeginSome(w, k)
    \/ \E w \in Workers : WorkerStep(w)
    \/ AnswerRepeat
    \/ Crash

Spec == Init /\ [][Next]_vars

\* A goroutine keeps running: every call it makes has a deadline (3 s, 8 s for
\* compensations) and answers or fails.  Nothing forces a client to call.
FairSpec == Spec /\ \A w \in Workers : WF_vars(WorkerStep(w))

-----------------------------------------------------------------------------
Jobs == [op : {"none", "create", "update", "delete", "release"},
         item : Items \cup {NoItem}, new : Recs \cup {NoRec}, pid : 0..MaxPids,
         todo : SUBSET Items, left : 0..(DeleteAttempts + BatchAttempts),
         tries : 0..CallAttempts, lost : BOOLEAN, res : Verdicts \cup {"none"}]

\* What the next step of a job relies on: the record it creates or updates
\* to, the provider id it works on, the row it changes, the verdict so far.
Fits(step, j) ==
    /\ step \in {"c_provider", "c_check", "c_insert", "u_provider", "u_save"} => j.new \in Recs
    /\ step \in {"c_check", "c_insert", "c_undo", "d_repoint"} => j.pid \in Pids
    /\ step \in {"u_provider", "u_save", "u_undo", "d_del", "d_look", "d_del2",
                "d_row", "d_recreate", "d_repoint"} => j.item \in Items
    /\ step \in {"c_undo", "u_undo", "d_next", "d_del", "d_look", "d_del2", "d_row",
                "d_recreate", "d_repoint", "r_sweep", "reply"} => j.res \in Verdicts

\* Every variable keeps its type: every row names a provider record, whichever
\* handler wrote it.  A worker has a key exactly while busy, and its job holds
\* what its next step needs.
TypeOK ==
    /\ rows \in [RowIds -> [rec : Recs, pid : Pids] \cup {NoRow}]
    /\ nextRow \in 1..(MaxRows + 1)
    /\ sub \in {"active", "gone"}
    /\ lock \in Workers \cup {NoWorker}
    /\ zone \in [Recs -> 0..MaxPids]
    /\ nextPid \in 1..(MaxPids + 1)
    /\ reqs \in [Keys -> {"none", "running"} \cup Verdicts]
    /\ pc \in [Workers -> {"idle"} \cup Steps]
    /\ key \in [Workers -> Keys \cup {NoKey}]
    /\ job \in [Workers -> Jobs]
    /\ runs \in [Keys -> Nat]
    /\ told \in [Keys -> {"none"} \cup Verdicts]
    /\ revived \subseteq RowIds
    /\ mishaps \subseteq Mishaps
    /\ faults \in 0..MaxFaults
    /\ \A w \in Workers : key[w] = NoKey <=> pc[w] = "idle"
    /\ \A w \in Workers : Fits(pc[w], job[w])

Settled == Present \ revived

\* A CNAME stands alone, whatever creates, updates, deletes, failures and
\* restarts interleave (beforePersist, CreateRecord): the count of the rows
\* and the insert are one transaction under the subdomain's row lock.  Rows
\* that Save brought back after a concurrent delete passed no such check.
CnameExclusive ==
    \A i, j \in Settled : i # j => rows[i].rec \notin Cnames

\* Concurrent creates never exceed the group's record limit (beforePersist).
RowLimit ==
    revived = {} => Cardinality(Present) <= MaxDNSRecords

\* The provider ids that somebody answers for: a row, a handler about to save
\* or to undo its provider call, and a create that repeats a call whose answer
\* was lost, which will find and adopt what the lost call made.
Owned ==
    {rows[i].pid : i \in Present}
    \cup {job[w].pid : w \in {v \in Workers : pc[v] \in {"c_check", "c_insert", "c_undo", "d_repoint"}}}
    \cup {zone[job[w].new] : w \in {v \in Workers : pc[v] = "c_provider" /\ job[v].lost}}

\* No provider call refused half-way, no database failure, no restart: then
\* whatever the handlers' interleaving, the zone holds no record that neither a
\* row nor a running handler answers for (CreateRecordAtomic, deleteSingle).
NoOrphan ==
    mishaps \subseteq {"overlap", "beside"} => \A r \in Recs : zone[r] # 0 => zone[r] \in Owned

\* When handlers do not overlap, a failed database delete is compensated in
\* full: the recreated provider record is the row's again (deleteSingle).
NoOrphanSequential ==
    (mishaps \subseteq {"db"} /\ \A w \in Workers : ~Busy(w)) =>
        \A r \in Recs : zone[r] # 0 => zone[r] \in Owned

\* A row is deleted only when no record has the id the delete began with, nor the
\* record the id that its row names by then, whatever was refused, lost or
\* repeated on the way, and whoever compensated and stored another id meanwhile
\* (deleteSingle looks the record up again).  Two exemptions: the client's
\* guess in an outage (DeleteRecord, RecordExists), and a handler that puts the
\* record back between the look and the row (beside).
DeletedStaysDeleted ==
    [][\A w \in Workers :
          LET it == job[w].item IN
          (pc[w] = "d_row" /\ pc'[w] = "d_next" /\ "outage" \notin mishaps)
             => /\ \A r \in Recs : zone'[r] # it.pid
                /\ "beside" \in mishaps \/ rows[it.id].pid = 0
                   \/ zone'[it.rec] # rows[it.id].pid]_vars

\* A key's row, the runs of its operation and what callers were told.
Idem == INSTANCE IdempotentRequests
        WITH Keys <- Keys, Verdicts <- Verdicts, reqs <- reqs, runs <- runs, told <- told

\* The handlers keep the promise of ExecuteIdempotent: one execution per key,
\* one verdict, repeats answered "in progress" or with that verdict.
ImplementsIdempotent == Idem!Spec

\* Every request that was begun is answered or lost with the server: no worker
\* waits for the row lock, or retries, for ever.
EveryExecutionEnds ==
    \A w \in Workers : Busy(w) ~> ~Busy(w)
=============================================================================
