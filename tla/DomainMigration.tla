--------------------------- MODULE DomainMigration ---------------------------
(***************************************************************************)
(* Moving a domain's DNS records from one provider account to another.     *)
(* CreateMigration switches the domain at once, marks it read-only and     *)
(* starts a goroutine that creates every record at the target, one by one; *)
(* failed items can be retried, and the source cleaned up, later.  The     *)
(* server may stop anywhere; at the next start, unfinished tasks resume.   *)
(*                                                                         *)
(* One domain.  run[g] is a goroutine executing runTask, adm[d] a request  *)
(* of administrators in progress (no lock holds one back while another     *)
(* runs), usr one request that creates or deletes a record (its own        *)
(* failures are DNSRecords' business).  Each action is one statement sent  *)
(* to the database or one provider call.                                   *)
(***************************************************************************)
EXTENDS Integers, Sequences, SequencesExt

CONSTANTS
    Accts,        \* provider accounts with a zone for the domain
    Recs,         \* records (type, name, content) of the domain's subdomains
    Runners,      \* goroutines for runTask
    Admins,       \* administrators' requests in progress at one time
    MaxTasks,     \* bound: migration tasks
    MaxIds,       \* bound: provider record ids
    MaxItems,     \* bound: items of one task
    MaxRequests,  \* bound: requests besides the creation of migrations
    MaxFaults,    \* bound: failed statements and calls, restarts
    AdminMay,     \* the administrators' requests that may happen
    UserMay,      \* the users' requests that may happen
    FaultKinds    \* what may fail: subset of {"db", "provider", "crash"}

ASSUME ConstantsAssumption ==
    /\ IsFiniteSet(Recs) /\ Cardinality(Recs) <= MaxIds
    /\ {MaxTasks, MaxIds, MaxItems} \subseteq Nat \ {0}
    /\ {MaxRequests, MaxFaults} \subseteq Nat
    /\ AdminMay \subseteq {"retry", "cleanup", "update"} /\ UserMay \subseteq {"create", "delete"}
    /\ FaultKinds \subseteq {"db", "provider", "crash"}

VARIABLES
    dom,       \* the domains row: home account, migration_state, read-only flag
    tasks,     \* domain_dns_migration_tasks
    items,     \* domain_dns_migration_items of each task, ORDER BY id
    rows,      \* dns_records: the provider id a record's row holds
    zone,      \* the providers: account -> record -> provider id, 0 when absent
    nextId,
    run, adm, usr,
    boot,      \* resumePendingTasks: "up" when it is done
    mishaps,   \* ghost: races and faults that happened
    requests, faults

data == <<tasks, items, rows>>
provider == <<zone, nextId>>
vars == <<dom, data, provider, run, adm, usr, boot, mishaps, requests, faults>>

TaskIds == 1..MaxTasks
Never == 0          \* a record that had no row yet
Deleted == -1       \* one whose row was deleted
Final == {"succeeded", "partial_failed", "failed"}
States == {"idle", "running", "partial_failed", "failed"}
Absent == [status |-> "none"]
NoRows == [r \in Recs |-> Never]
Idle == [pc |-> "idle"]

Present == {r \in Recs : rows[r] > 0}
Exists(t) == tasks[t].status # "none"
Unfinished(t) == tasks[t].status \in {"pending", "running"}
Migrating == \E t \in TaskIds : Unfinished(t)
WorksOn(g, t) == run[g].pc # "idle" /\ run[g].task = t

Fault(kind) == kind \in FaultKinds /\ faults < MaxFaults /\ faults' = faults + 1
Note(m) == mishaps' = mishaps \cup m
When(c, m) == IF c THEN {m} ELSE {}
First(S) == CHOOSE t \in S : \A s \in S : t <= s
Others(S) == S \ {First(S)}
Fine == UNCHANGED <<faults, mishaps>>
Request == requests < MaxRequests /\ requests' = requests + 1
SqlFails == Fault("db") /\ Note({"db"})

\* What CreateRecord of a provider answers: an identical record is adopted.
IdAt(a, r) == IF zone[a][r] # 0 THEN zone[a][r] ELSE nextId
Put(a, r) ==
    /\ IdAt(a, r) <= MaxIds
    /\ zone' = [zone EXCEPT ![a][r] = IdAt(a, r)]
    /\ nextId' = IF zone[a][r] # 0 THEN nextId ELSE nextId + 1

TakeOut(a, r, id) == zone' = IF zone[a][r] = id THEN [zone EXCEPT ![a][r] = 0] ELSE zone

\* The row, while it exists, follows the record to its new id.
Repointed(r, id) == IF r \in Present THEN [rows EXCEPT ![r] = id] ELSE rows

-----------------------------------------------------------------------------
(* Starting a migration *)

Starting(t) == [pc |-> "start", task |-> t, snap |-> NoRows, todo |-> {},
                won |-> FALSE, lost |-> FALSE, id |-> 0, out |-> "none"]

\* Mutant: a task that waits to be started does not block.
BlocksWhenRunning(t) == tasks[t].status = "running"

Blocks(t) == Unfinished(t)

\* Mutant: read-only is left to the goroutine.
SwitchedWritable(dst) == [home |-> dst, state |-> "running", ro |-> FALSE]

\* Mutant: the domain keeps its account.
SwitchedInPlace(dst) == [home |-> dom.home, state |-> "running", ro |-> TRUE]

Switched(dst) == [home |-> dst, state |-> "running", ro |-> TRUE]

\* One transaction that holds the domain's row, then `go runTask`.
CreateMigration(dst, g) ==
    /\ \A t \in TaskIds : ~Blocks(t)
    /\ run[g].pc = "idle"
    /\ \E t \in TaskIds :
          /\ ~Exists(t) /\ \A s \in 1..(t - 1) : Exists(s)
          /\ tasks' = [tasks EXCEPT ![t] = [status |-> "pending", src |-> dom.home, dst |-> dst]]
          /\ run' = [run EXCEPT ![g] = Starting(t)]
    /\ dom' = Switched(dst)
    /\ Fine
    /\ UNCHANGED <<items, rows, provider, adm, usr, boot, requests>>

-----------------------------------------------------------------------------
(* runTask *)

At(g, pc) == run[g].pc = pc
Become(g, r) == run' = [run EXCEPT ![g] = r]
To(g, pc) == Become(g, [run[g] EXCEPT !.pc = pc])
Finish(g, out) == Become(g, [run[g] EXCEPT !.pc = "finish", !.out = out, !.todo = {}, !.snap = NoRows])
TaskOf(g) == tasks[run[g].task]
SetStatus(t, s) == tasks' = [tasks EXCEPT ![t].status = s]
SetItem(t, i, s) == items' = [items EXCEPT ![t][i].st = s]

\* A partial unique index lets one task of a domain be running.
RunStart(g) ==
    /\ At(g, "start")
    /\ \/ /\ \A t \in TaskIds \ {run[g].task} : tasks[t].status # "running"
          /\ SetStatus(run[g].task, "running")
          /\ To(g, "domain")
          /\ Fine
       \/ /\ \E t \in TaskIds \ {run[g].task} : tasks[t].status = "running"
          /\ Become(g, Idle)
          /\ Fine
          /\ UNCHANGED tasks
       \/ /\ SqlFails
          /\ Become(g, Idle)
          /\ UNCHANGED tasks
    /\ UNCHANGED <<dom, items, rows, provider, adm, usr, boot, requests>>

RunDomain(g) ==
    /\ At(g, "domain")
    /\ \/ /\ dom' = [dom EXCEPT !.state = "running", !.ro = TRUE]
          /\ Fine
       \/ /\ SqlFails
          /\ UNCHANGED dom
    /\ To(g, "load")
    /\ UNCHANGED <<data, provider, adm, usr, boot, requests>>

\* Those the loop will work on; it only counts the others.
Todo(its) == {i \in DOMAIN its : its[i].st # "succeeded"}

Listed(g, its) ==
    [run[g] EXCEPT !.pc = "client", !.snap = NoRows, !.todo = Todo(its),
                   !.won = \E i \in DOMAIN its : its[i].st = "succeeded"]

\* loadDomainRecords, then ListMigrationItems, whose error is ignored and
\* leaves no items.
RunLoad(g) ==
    /\ At(g, "load")
    /\ \/ \E its \in {items[run[g].task], <<>>} :
             /\ IF its = items[run[g].task] THEN Fine ELSE SqlFails
             /\ IF its = <<>> /\ Present # {}
                   THEN Become(g, [run[g] EXCEPT !.pc = "create", !.snap = rows])
                   ELSE Become(g, Listed(g, its))
       \/ SqlFails /\ Finish(g, "failed")
    /\ UNCHANGED <<dom, data, provider, adm, usr, boot, requests>>

NewItems(snap) ==
    LET recs == SetToSeq({r \in Recs : snap[r] > 0})
    IN [i \in 1..Len(recs) |-> [rec |-> recs[i], from |-> snap[recs[i]], st |-> "pending"]]

RunCreate(g) ==
    /\ At(g, "create")
    /\ \/ /\ items' = [items EXCEPT ![run[g].task] = @ \o NewItems(run[g].snap)]
          /\ Len(items'[run[g].task]) <= MaxItems
          /\ To(g, "reload")
          /\ Fine
       \/ /\ SqlFails
          /\ Finish(g, "failed")
          /\ UNCHANGED items
    /\ UNCHANGED <<dom, tasks, rows, provider, adm, usr, boot, requests>>

RunReload(g) ==
    /\ At(g, "reload")
    /\ \/ /\ Become(g, Listed(g, items[run[g].task]))
          /\ Fine
       \/ /\ SqlFails
          /\ Become(g, Listed(g, <<>>))
    /\ UNCHANGED <<dom, data, provider, adm, usr, boot, requests>>

RunClient(g) ==
    /\ At(g, "client")
    /\ \/ /\ To(g, "item")
          /\ UNCHANGED faults
       \/ /\ Fault("provider")
          /\ Finish(g, "failed")
    /\ UNCHANGED <<dom, data, provider, adm, usr, boot, mishaps, requests>>

\* Mutant: partial failure counts as success.
OutcomeNoPartial(won, lost) == IF lost /\ ~won THEN "failed" ELSE "succeeded"

Outcome(won, lost) ==
    IF ~lost THEN "succeeded" ELSE IF won THEN "partial_failed" ELSE "failed"

RunItem(g) ==
    /\ At(g, "item")
    /\ IF run[g].todo = {}
          THEN /\ Finish(g, Outcome(run[g].won, run[g].lost))
               /\ Fine
               /\ UNCHANGED items
          ELSE /\ To(g, "call")
               /\ \/ SetItem(run[g].task, First(run[g].todo), "running") /\ Fine
                  \/ SqlFails /\ UNCHANGED items
    /\ UNCHANGED <<dom, tasks, rows, provider, adm, usr, boot, requests>>

Current(g) == items[run[g].task][First(run[g].todo)]

\* A call that fails may have been applied.
RunCall(g) ==
    /\ At(g, "call")
    /\ LET a == TaskOf(g).dst
           r == Current(g).rec
       IN \/ /\ Put(a, r)
             /\ Become(g, [run[g] EXCEPT !.pc = "save", !.id = IdAt(a, r), !.won = TRUE])
             /\ UNCHANGED faults
          \/ /\ Fault("provider")
             /\ Put(a, r) \/ UNCHANGED provider
             /\ Become(g, [run[g] EXCEPT !.pc = "bad", !.lost = TRUE])
    /\ UNCHANGED <<dom, data, adm, usr, boot, mishaps, requests>>

RunSave(g) ==
    /\ At(g, "save")
    /\ \/ SetItem(run[g].task, First(run[g].todo), "succeeded") /\ Fine
       \/ SqlFails /\ UNCHANGED items
    /\ To(g, "point")
    /\ UNCHANGED <<dom, tasks, rows, provider, adm, usr, boot, requests>>

NextItem(g) == Become(g, [run[g] EXCEPT !.pc = "item", !.todo = Others(@), !.id = 0])

RunPoint(g) ==
    /\ At(g, "point")
    /\ \/ rows' = Repointed(Current(g).rec, run[g].id) /\ Fine
       \/ SqlFails /\ UNCHANGED rows
    /\ NextItem(g)
    /\ UNCHANGED <<dom, tasks, items, provider, adm, usr, boot, requests>>

RunBad(g) ==
    /\ At(g, "bad")
    /\ \/ SetItem(run[g].task, First(run[g].todo), "failed") /\ Fine
       \/ SqlFails /\ UNCHANGED items
    /\ NextItem(g)
    /\ UNCHANGED <<dom, tasks, rows, provider, adm, usr, boot, requests>>

RunFinish(g) ==
    /\ At(g, "finish")
    /\ \/ SetStatus(run[g].task, run[g].out) /\ Fine
       \/ SqlFails /\ UNCHANGED tasks
    /\ To(g, "close")
    /\ UNCHANGED <<dom, items, rows, provider, adm, usr, boot, requests>>

StateFor(out) == IF out = "succeeded" THEN "idle" ELSE out

Closed(out) == [dom EXCEPT !.state = StateFor(out), !.ro = FALSE]

\* The domain's row says the outcome of whichever task was closed last.
Superseded(t) == \E s \in TaskIds : s > t /\ Exists(s)

RunClose(g) ==
    /\ At(g, "close")
    /\ \/ /\ dom' = Closed(run[g].out)
          /\ Note(When(Superseded(run[g].task), "late"))
          /\ UNCHANGED faults
       \/ /\ SqlFails
          /\ UNCHANGED dom
    /\ To(g, "next")
    /\ UNCHANGED <<data, provider, adm, usr, boot, requests>>

Pending == {t \in TaskIds : tasks[t].status = "pending"}

Spawn(g, t) ==
    /\ Become(g, Starting(t))
    /\ Note(When(\E h \in Runners \ {g} : WorksOn(h, t), "overlap"))

\* FindNextPendingMigrationTask, its error ignored; g ends and, where there
\* is a next task, stands for the goroutine started for it.
RunNext(g) ==
    /\ At(g, "next")
    /\ \/ /\ Pending # {}
          /\ Spawn(g, First(Pending))
          /\ UNCHANGED faults
       \/ Pending = {} /\ Become(g, Idle) /\ Fine
       \/ SqlFails /\ Become(g, Idle)
    /\ UNCHANGED <<dom, data, provider, adm, usr, boot, requests>>

RunStep(g) ==
    \/ RunStart(g) \/ RunDomain(g) \/ RunLoad(g) \/ RunCreate(g)
    \/ RunReload(g) \/ RunClient(g) \/ RunItem(g) \/ RunCall(g) \/ RunSave(g)
    \/ RunPoint(g) \/ RunBad(g) \/ RunFinish(g) \/ RunClose(g) \/ RunNext(g)

-----------------------------------------------------------------------------
(* Restart *)

\* What a stop can leave half done: an item without its row, a final task
\* whose domain is not closed, a retry, a record without its row.
HalfDone ==
    \/ \E g \in Runners : run[g].pc \in {"point", "close"}
    \/ \E d \in Admins : adm[d].pc \in {"call", "mark", "update", "close"}
    \/ usr.pc \in {"look", "row"}

Crash ==
    /\ Fault("crash")
    /\ Note(When(HalfDone, "torn"))
    /\ run' = [g \in Runners |-> Idle]
    /\ adm' = [d \in Admins |-> Idle]
    /\ usr' = Idle
    /\ boot' = "reset"
    /\ UNCHANGED <<dom, data, provider, requests>>

\* Mutant: running tasks are not reset.
ResetNothing(t) == tasks[t]

Reset(t) == IF tasks[t].status = "running" THEN [tasks[t] EXCEPT !.status = "pending"] ELSE tasks[t]

\* The goroutine of resumePendingTasks runs beside the requests.
BootReset ==
    /\ boot = "reset"
    /\ \/ tasks' = [t \in TaskIds |-> Reset(t)] /\ Fine
       \/ SqlFails /\ UNCHANGED tasks
    /\ boot' = "list"
    /\ UNCHANGED <<dom, items, rows, provider, run, adm, usr, requests>>

BootList ==
    /\ boot = "list"
    /\ \/ \E g \in Runners :
             /\ run[g].pc = "idle"
             /\ Pending # {}
             /\ Spawn(g, First(Pending))
             /\ UNCHANGED faults
       \/ Pending = {} /\ Fine /\ UNCHANGED run
       \/ SqlFails /\ UNCHANGED run
    /\ boot' = "up"
    /\ UNCHANGED <<dom, data, provider, adm, usr, requests>>

-----------------------------------------------------------------------------
(* The administrators' other requests *)

Turn(d, a) == adm' = [adm EXCEPT ![d] = a]
Done(d) == Turn(d, Idle)

Failed(t) == {i \in DOMAIN items[t] : items[t][i].st = "failed"}

\* A retry is no part of the migration's lock: any task that has ended may be
\* retried, whatever the domain has become since and whoever retries it too.
RetryBegin(d, t) ==
    /\ "retry" \in AdminMay
    /\ adm[d].pc = "idle"
    /\ tasks[t].status \in Final
    /\ Failed(t) # {}
    /\ Turn(d, [pc |-> "call", task |-> t, todo |-> Failed(t), id |-> 0])
    /\ Fine /\ Request
    /\ UNCHANGED <<dom, data, provider, run, usr, boot>>

Retried(d) == items[adm[d].task][First(adm[d].todo)].rec

\* FindRecord, then UpdateRecord of what it found or CreateRecord.
RetryCall(d) ==
    /\ adm[d].pc = "call" /\ adm[d].todo # {}
    /\ LET a == tasks[adm[d].task].dst
       IN \/ /\ Put(a, Retried(d))
             /\ Turn(d, [adm[d] EXCEPT !.pc = "mark", !.id = IdAt(a, Retried(d))])
             /\ UNCHANGED faults
          \/ /\ Fault("provider")
             /\ Put(a, Retried(d)) \/ UNCHANGED provider
             /\ Turn(d, [adm[d] EXCEPT !.todo = Others(@)])
    /\ UNCHANGED <<dom, data, run, usr, boot, mishaps, requests>>

\* The item and the row in one transaction.
RetryMark(d) ==
    /\ adm[d].pc = "mark"
    /\ \/ /\ SetItem(adm[d].task, First(adm[d].todo), "succeeded")
          /\ rows' = Repointed(Retried(d), adm[d].id)
          /\ Fine
       \/ SqlFails /\ UNCHANGED <<items, rows>>
    /\ Turn(d, [adm[d] EXCEPT !.pc = "call", !.todo = Others(@), !.id = 0])
    /\ UNCHANGED <<dom, tasks, provider, run, usr, boot, requests>>

Counted(t) ==
    Outcome(\E i \in DOMAIN items[t] : items[t][i].st = "succeeded",
            \E i \in DOMAIN items[t] : items[t][i].st = "failed")

Untried(t) == \E i \in DOMAIN items[t] : items[t][i].st \in {"pending", "running"}

\* recountMigrationItemOutcomes
RetryCount(d) ==
    /\ adm[d].pc = "call" /\ adm[d].todo = {}
    /\ LET t == adm[d].task
       IN \/ /\ Turn(d, [pc |-> "update", task |-> t, out |-> Counted(t)])
             /\ Note(When(Untried(t), "uncounted"))
             /\ UNCHANGED faults
          \/ SqlFails /\ Done(d)
    /\ UNCHANGED <<dom, data, provider, run, usr, boot, requests>>

\* The retry d will yet write the task's true count.
Counting(d, t) ==
    /\ adm[d].pc \in {"call", "mark", "update"} /\ adm[d].task = t
    /\ adm[d].pc = "update" => adm[d].out = Counted(t)

\* UpdateMigrationTask, with a count that another retry may have made old.
RetryUpdate(d) ==
    /\ adm[d].pc = "update"
    /\ LET t == adm[d].task
           old == adm[d].out # Counted(t) /\ ~\E e \in Admins : Counting(e, t)
       IN \/ /\ SetStatus(t, adm[d].out)
             /\ Turn(d, [pc |-> "close", task |-> t, out |-> adm[d].out])
             /\ Note(When(old, "crossed"))
             /\ UNCHANGED faults
          \/ SqlFails /\ Done(d) /\ UNCHANGED tasks
    /\ UNCHANGED <<dom, items, rows, provider, run, usr, boot, requests>>

RetryClose(d) ==
    /\ adm[d].pc = "close"
    /\ \/ /\ dom' = Closed(adm[d].out)
          /\ Note(When(Superseded(adm[d].task), "late"))
          /\ UNCHANGED faults
       \/ /\ SqlFails
          /\ UNCHANGED dom
    /\ Done(d)
    /\ UNCHANGED <<data, provider, run, usr, boot, requests>>

\* CleanupSource asks nothing of the task's state.
CleanupBegin(d, t) ==
    /\ "cleanup" \in AdminMay
    /\ adm[d].pc = "idle"
    /\ Exists(t) /\ items[t] # <<>>
    /\ Turn(d, [pc |-> "cleanup", task |-> t, todo |-> DOMAIN items[t]])
    /\ Fine /\ Request
    /\ UNCHANGED <<dom, data, provider, run, usr, boot>>

CleanupDelete(d) ==
    /\ adm[d].pc = "cleanup"
    /\ LET it == items[adm[d].task][First(adm[d].todo)]
           a == tasks[adm[d].task].src
       IN \/ /\ TakeOut(a, it.rec, it.from)
             /\ Note(When(a = dom.home, "cleaned"))
             /\ UNCHANGED faults
          \/ /\ Fault("provider")
             /\ UNCHANGED <<zone, mishaps>>
    /\ Turn(d, IF Others(adm[d].todo) = {} THEN Idle ELSE [adm[d] EXCEPT !.todo = Others(@)])
    /\ UNCHANGED <<dom, data, nextId, run, usr, boot, requests>>

\* AdminUpdate reads the whole row, then saves the whole row.
UpdateBegin(d, home) ==
    /\ "update" \in AdminMay
    /\ adm[d].pc = "idle"
    /\ Turn(d, [pc |-> "save", read |-> dom, home |-> home])
    /\ Fine /\ Request
    /\ UNCHANGED <<dom, data, provider, run, usr, boot>>

UpdateSave(d) ==
    /\ adm[d].pc = "save"
    /\ dom' = [adm[d].read EXCEPT !.home = adm[d].home]
    /\ Done(d)
    /\ Note(When(dom # adm[d].read, "overwritten") \cup When(adm[d].home # adm[d].read.home, "moved"))
    /\ UNCHANGED <<data, provider, run, usr, boot, faults, requests>>

-----------------------------------------------------------------------------
(* A request that creates or deletes a record *)

\* Both flag and home are those of the row read at the beginning.
UsrCreate(r) ==
    /\ "create" \in UserMay
    /\ usr.pc = "idle"
    /\ rows[r] = Never
    /\ ~dom.ro
    /\ usr' = [pc |-> "create", rec |-> r, home |-> dom.home, id |-> 0]
    /\ Fine /\ Request
    /\ UNCHANGED <<dom, data, provider, run, adm, boot>>

UsrCreateCall ==
    /\ usr.pc = "create"
    /\ Put(usr.home, usr.rec)
    /\ usr' = [usr EXCEPT !.pc = "row", !.id = IdAt(usr.home, usr.rec)]
    /\ Fine
    /\ UNCHANGED <<dom, data, run, adm, boot, requests>>

\* DeleteRecord asks for the flag, Release and the administrator's deletions
\* do not: the flag is no guard.
UsrDelete(r) ==
    /\ "delete" \in UserMay
    /\ usr.pc = "idle"
    /\ r \in Present
    /\ usr' = [pc |-> "delete", rec |-> r, home |-> dom.home, id |-> rows[r]]
    /\ Fine /\ Request
    /\ UNCHANGED <<dom, data, provider, run, adm, boot>>

\* A record of that id that is not there counts as deleted.
UsrDeleteCall ==
    /\ usr.pc = "delete"
    /\ TakeOut(usr.home, usr.rec, usr.id)
    /\ usr' = [usr EXCEPT !.pc = "look"]
    /\ Fine
    /\ UNCHANGED <<dom, data, nextId, run, adm, boot, requests>>

\* FindRecord by name and content, and DeleteRecord of what it found.
UsrDeleteLook ==
    /\ usr.pc = "look"
    /\ TakeOut(usr.home, usr.rec, zone[usr.home][usr.rec])
    /\ usr' = [usr EXCEPT !.pc = "row", !.id = Deleted]
    /\ Fine
    /\ UNCHANGED <<dom, data, nextId, run, adm, boot, requests>>

UsrRow ==
    /\ usr.pc = "row"
    /\ rows' = [rows EXCEPT ![usr.rec] = usr.id]
    /\ usr' = Idle
    /\ Note(When(usr.home # dom.home \/ Migrating, "stale"))
    /\ UNCHANGED <<dom, tasks, items, provider, run, adm, boot, faults, requests>>

-----------------------------------------------------------------------------
(* Specification *)

\* Rows and provider agree before the first migration.
Init ==
    /\ \E home \in Accts, owned \in SUBSET Recs, id \in [Recs -> 1..Cardinality(Recs)] :
          /\ \A r, s \in Recs : r # s => id[r] # id[s]
          /\ dom = [home |-> home, state |-> "idle", ro |-> FALSE]
          /\ rows = [r \in Recs |-> IF r \in owned THEN id[r] ELSE Never]
          /\ zone = [a \in Accts |-> [r \in Recs |-> IF a = home /\ r \in owned THEN id[r] ELSE 0]]
    /\ nextId = Cardinality(Recs) + 1
    /\ tasks = [t \in TaskIds |-> Absent]
    /\ items = [t \in TaskIds |-> <<>>]
    /\ run = [g \in Runners |-> Idle]
    /\ adm = [d \in Admins |-> Idle]
    /\ usr = Idle
    /\ boot = "up"
    /\ mishaps = {}
    /\ requests = 0
    /\ faults = 0

AdminStep(d) ==
    \/ \E t \in TaskIds : RetryBegin(d, t) \/ CleanupBegin(d, t)
    \/ RetryCall(d) \/ RetryMark(d) \/ RetryCount(d) \/ RetryUpdate(d) \/ RetryClose(d)
    \/ CleanupDelete(d)
    \/ \E home \in Accts : UpdateBegin(d, home)
    \/ UpdateSave(d)

UserStep ==
    \/ \E r \in Recs : UsrCreate(r) \/ UsrDelete(r)
    \/ UsrCreateCall \/ UsrDeleteCall \/ UsrDeleteLook \/ UsrRow

BootStep == BootReset \/ BootList

Next ==
    \/ \E dst \in Accts, g \in Runners : CreateMigration(dst, g)
    \/ \E g \in Runners : RunStep(g)
    \/ Crash
    \/ BootStep
    \/ \E d \in Admins : AdminStep(d)
    \/ UserStep

Spec == Init /\ [][Next]_vars

\* Goroutines of the server run on: every call has a timeout of 30 seconds,
\* every statement is answered.  Requests may stay away.
FairSpec ==
    /\ Spec
    /\ \A g \in Runners : WF_vars(RunStep(g))
    /\ WF_vars(BootStep)

-----------------------------------------------------------------------------
(* Properties *)

Without(m) == mishaps \cap m = {}

\* The domains row, the tasks and their items keep to the values model/
\* domain_dns_migration.go gives them; the ids are the providers'.
TypeOK ==
    /\ dom \in [home : Accts, state : States, ro : BOOLEAN]
    /\ \A t \in TaskIds :
          /\ tasks[t] = Absent \/ tasks[t] \in [status : Final \cup {"pending", "running"}, src : Accts, dst : Accts]
          /\ \A i \in DOMAIN items[t] :
                items[t][i] \in [rec : Recs, from : 1..MaxIds, st : {"pending", "running", "succeeded", "failed"}]
    /\ rows \in [Recs -> Deleted..MaxIds]
    /\ zone \in [Accts -> [Recs -> 0..MaxIds]]
    /\ nextId \in 1..(MaxIds + 1)
    /\ \A g \in Runners : run[g] = Idle \/ run[g].task \in TaskIds

\* A domain has one unfinished task at a time, however finishing, restarting
\* and creating interleave (CreateMigration's guard, the unique index); two
\* goroutines on one task may break it, because runTask starts what has ended.
OneUnfinished ==
    /\ TypeOK
    /\ Without({"overlap"}) =>
          \A s, t \in TaskIds : Unfinished(s) /\ Unfinished(t) => s = t

\* A task's status tells what became of its items (runTask, RetryFailures,
\* resumed tasks): success leaves none behind, partial failure has some of
\* each, unless a retry has yet to count or was cut off, or two retries of one
\* task crossed and the older count was written last.  A retry that counts while
\* items wait, those of a task cut off and then refused its client, calls a
\* success what was never tried.
OutcomeMatchesItems ==
    Without({"db", "overlap", "uncounted"}) =>
        \A t \in TaskIds :
            /\ tasks[t].status = "succeeded" =>
                  \A i \in DOMAIN items[t] : items[t][i].st = "succeeded"
            /\ /\ tasks[t].status = "partial_failed"
               /\ Without({"torn", "crossed"})
               /\ ~\E d \in Admins : Counting(d, t)
               => {"succeeded", "failed"} \subseteq {items[t][i].st : i \in DOMAIN items[t]}

Quiet ==
    /\ ~Migrating
    /\ \A g \in Runners : run[g].pc = "idle"
    /\ \A d \in Admins : adm[d].pc = "idle"
    /\ usr.pc = "idle"
    /\ boot = "up"

\* What a migration is for.  When a domain is at rest and says so, each row
\* holds the id its record has at the account that now serves the domain:
\* through any number of migrations, failures, retries, restarts.  The mishaps
\* named are the ways to lose this.
ServedAtHome ==
    /\ Quiet /\ dom.state = "idle"
    /\ Without({"db", "overlap", "uncounted", "late", "torn", "cleaned", "overwritten", "moved", "stale"})
    => \A r \in Present : rows[r] = zone[dom.home][r]

\* A domain with an unfinished task refuses its users' writes (FR-015), unless
\* a full-row save or the end of an earlier task wrote over the flag.
ReadOnlyWhileMigrating ==
    Without({"db", "overlap", "late", "overwritten"}) =>
        (Migrating => dom.ro)

\* A task ends, restarts included, if the database answers: no request has to
\* help it (runTask, finishTask, resumePendingTasks).  Read-only ends with it,
\* whatever its outcome (FR-020); a stop between finishTask's two statements, or
\* a stale save, may leave it on.
MigrationEnds ==
    /\ \A t \in TaskIds : Unfinished(t) ~> (~Unfinished(t) \/ "db" \in mishaps)
    /\ dom.ro ~> (~dom.ro \/ ~Without({"db", "torn", "overwritten", "overlap"}))
=============================================================================
