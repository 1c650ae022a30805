# Verification of the HL6 server

HL6 hands out subdomains: users claim names under the operator's domains, pay
in credits, and edit DNS records that live in the database *and* at a DNS
provider. The server is a Go program (`src/server`) over PostgreSQL, optionally
Redis, and ten DNS provider APIs. This directory models its stateful core in
TLA+, checks it with TLC and proves most of its safety properties with TLAPS.

Two facts about the code shape every module. First, a request handler is a
goroutine that does one *database statement* or one *provider call* at a time,
and nothing but row locks, unique indexes and foreign keys stands between two
of them; those are the atomic actions here. Second, database and provider have
no common transaction: the handlers change one, then the other, and compensate.

Contents: [1 inventory](#1-inventory) - [2 plan](#2-plan) -
[3 modules](#3-modules-and-code) - [4 runs](#4-runs) -
[5 disagreements](#5-where-code-and-documents-disagree) -
[6 proofs](#6-proofs) - [7 limits](#7-what-is-not-shown) - [8 running](#8-running-it)

## 1. Inventory

`internal/x` is `src/server/internal/x`. The forty main hazards, each at its
line, are in `PROJECT.json`: with the properties that watch it or, where the code
has no guard, with the ghost by which the properties leave it out. Further ones
follow the table.

| Component | State it keeps | Operations | Talks to | What is hard | What makes it correct | Module |
|---|---|---|---|---|---|---|
| DNS operation service (`service/dns_operation_service.go`, `handler/dns.go`) | `dns_records`, `dns_operation_requests` | create, update, delete a record; `ExecuteIdempotent`; retries, compensation | provider client; row lock on `subdomains` | provider and rows out of step; lost answers; repeats; restarts | one execution per key, a CNAME alone, record limit, no orphan at the provider | `DNSRecords`; proved but for liveness |
| Subdomain release (`handler/subdomain.go`, `service/subdomain_service.go`) | `subdomains` | release, administrator's release | DNS operation service | snapshot taken before the provider calls | the same | in `DNSRecords`; the claim in `CreditLedger` |
| Provider clients (`service/cloudflare.go` and nine more) | the zone (external) | create, update, delete, find | HTTP APIs | repeated creates, read-modify-write of sets, stale ids | no copy added, what is deleted is gone, other records stay | `ProviderAdapters`, proved |
| Bulk delete jobs (`dns_operation_service.go`, `repository/dns_bulk_job.go`) | jobs and items | queue, run, resume after a restart | provider client | a resumed job repeats what was done, beside new ones | succeeded means gone; every job ends | `BulkDelete`, proved |
| Domain migration (`service/domain_migration_service.go`, `repository/domain_migration.go`) | tasks, items, the domain's account, state and read-only flag | create, run, resume, retry, clean up | provider clients, record handlers, `AdminUpdate` | goroutine against requests and restarts, retries at once, status and flag in two statements | rows follow the records; outcome tells the truth; read-only while migrating | `DomainMigration`, proved |
| Credits and ledger (`repository/credit.go`, `handler/credit.go`) | `credit_balances`, `credit_transactions`, `daily_checkin_claims` | deduct, grant, refund, check-in, administrator's grant | every handler that charges | concurrent statements on one balance | the ledger explains the balance; nothing negative, nothing twice | `CreditLedger` (partly), proved |
| Payment orders (`handler/payment.go`) | `payment_orders` | create, settle on notification | gateways; ledger; real-name | repeated and concurrent notifications, failure after payment | paid exactly once | `CreditLedger`, `Realname` (partly) |
| Email authentication (`handler/email_auth.go`, `handler/sessions.go`, `repository/auth.go`, `middleware/auth.go`) | credentials, tokens, sessions | register, activate, reset, log in, log out | mail, ledger | sibling links, rehash racing reset, first administrator | links in order, sessions follow the password, one first administrator | `Accounts`, proved |
| User administration (`handler/admin_users.go`, `admin_ban_helper.go`, `repository/usergroup.go`) | users, groups, bans | ban, unban, delete, groups | records, bulk jobs | two administrators at once, users busy meanwhile | an active administrator remains, nothing is left behind, one default group | `UserAdmin`, proved |
| Content audit, AI audit, audit administration (`service/audit_*.go`, `service/ai_audit_service.go`, `worker/`, `pkg/queue/`, `handler/audit.go`) | scans, exemptions, suspended rows, task queue | scan, excuse, suspend, delete, release, restore, rescan, review | provider clients, Redis | at-least-once tasks, compensation, state in memory gone stale | suspended is not served, active is, a recheck is under way, a skip is safe | `ContentAudit` (the last two partly), proved |
| Real-name verification (`service/realname_service.go`, `handler/realname.go`, `payment.go`) | applications, the user's status, orders | submit, pay, verify, retry, review, decide | payment, paid API | status read before an unlocked write; two rows without a transaction | the last verdict stands, a paid fee counts, nobody is stranded | `Realname` (partly), proved |
| Database maintenance (`service/database_maintenance.go`, `middleware/maintenance.go`) | gate, restore jobs, archives | export, validate, restore | the whole database, `pg_dump`, `pg_restore` | writes during a restore, rows that are replaced with it, gate after failure | one restore at a time, from an archive that agrees with itself, nothing lost unseen, API closed over half-restored tables | `Maintenance`, proved |
| Mail, cutover tool | - | send a link; move old accounts | SMTP | an answer lost after the mail is out | see authentication | in `Accounts` (partly) |
| Provider accounts, notifications, settings, start-up, logging, captcha | mostly single rows | | | little interaction | | not modelled; reasons in `PROJECT.json` |
| Web front end (`src/web`) | none of its own | | server API | | | not modelled |

Further hazards, which no property states:

- records: two updates of one record may reach provider and database in
  different orders (`dns_operation_service.go:290`); a delete looks its record
  up by content after deleting by id and may take away a concurrent create's
  (`:599`); a release whose deletion was queued answers 409 and stores that for
  the key, so the same key never releases (`handler/subdomain.go:265`);
- domains: two deletions with different keys both list the subdomains
  (`handler/domain.go:504`) and lock balances in different orders (`:554`);
  `ClaimCost` 0 means both "free" and "before the column" (`:472`);
- accounts: a login's rehash may replace a newer password
  (`email_auth.go:398`, ghost `overwritten`); `LogoutAll` may delete the rows
  and fail on the version (`handler/sessions.go:120`);
- providers: DNSLA reports some refusals as success (`dnsla.go:87`); Route53's
  lookups take the first value of a set (`route53.go:176`);
- users: a deletion counts administrators without a lock (`admin_users.go:533`,
  ghost `hasty`); a profile is saved with its whole row (`handler/auth.go:88`),
  an expired ban lifted on a row read before (`middleware/auth.go:165`);
- bulk jobs: a restart takes up 200 pending jobs only
  (`dns_operation_service.go:114`, ghost `left`);
- audit: compensation drops the recreated records' ids
  (`audit_service.go:428`, ghost `unnamed`); a record created during a
  suspension stays (`:280`, ghost `late`); the roll-back of a user's suspension
  always refuses (`:350`); a completed exemption forgives for good
  (`repository/audit.go:440`); the scheduler's dedup key outlives a failed
  enqueue (`service/audit_enqueue.go:93`);
- real-name: `pending_payment` has no end (`realname_service.go:260`);
- maintenance: the gate lives in memory, so a restart reopens it over a half
  restored database (`database_maintenance.go:61`, ghost `reopened`); a job row
  is finished by an id that the restored table may have given to another.

## 2. Plan

Most important behaviour first: records (what users see), then moving them,
then money, then accounts and the background machinery.

| # | Module | Composes with | Theorems | State |
|---|---|---|---|---|
| 1 | `DNSRecords` | implements `IdempotentRequests` | type, refinement, CNAME rule, limit, deletes, orphans | proved |
| 2 | `DomainMigration` | its own zones and record requests | `OneUnfinished`, `ReadOnlyWhileMigrating`, `OutcomeMatchesItems`, `ServedAtHome` | proved |
| 3 | `CreditLedger` | claims, orders, deletions over one ledger | all four invariants | proved |
| 4 | `BulkDelete` | `deleteSingle` of module 1 as one step | `SucceededMeansGone` | proved |
| 5 | `ContentAudit` | scans, queue, exemptions, suspension and the administrator in one module, because its hazards lie between them | all four invariants | proved |
| 6 | `Accounts` | - | `OneFirstAdmin`, `SessionsFollowPassword`, `LinksInOrder` | proved |
| 7 | `Maintenance` | gate over abstract writing requests | all four invariants | proved |
| 8 | `Realname` | its orders are those of `payment.go` | all three invariants and `VerifiedStays` | proved |
| 9 | `UserAdmin` | bulk jobs as `JobDeletes` | all three invariants | proved |
| 10 | `ProviderAdapters` | what module 1 assumes of a client, client by client | all three invariants | proved |

No proved module reaches a `RECURSIVE` operator. Left of the model: records without a provider
id, user deletion in the ledger, the restore challenge, the administrator's
verdicts on AI reviews.

The number of runs is kept small, one per question. In most modules the type
invariant is a conjunct of another invariant that the run checks (its comment
says so), since it is what that invariant's proof will rest on.

## 3. Modules and code

`PROJECT.json` maps every definition to the lines it stands for. Definitions
marked *Mutant* in a comment are plausible bugs of the code; they belong to no
specification and serve to show that the properties notice them.

### DNSRecords (refines IdempotentRequests)

The records of one subdomain. `rows` is `dns_records` (a row's content and the
provider id it remembers), `zone` the provider, `sub` and `lock` the
subdomain's row and its `FOR UPDATE` lock, `reqs` the table
`dns_operation_requests`. A *worker* is one request: `pc` names its next call,
`job` the local variables of the Go function.

- **Create** (`CreateRecordAtomic`): provider first, then one transaction in
  two steps, `CreateCheck` (`beforePersist`: lock the subdomain, compare with
  the rows) and `CreateInsert`; on refusal the provider record is undone.
- **Update** (`UpdateRecordAtomic`): provider, then `tx.Save` of a row read
  earlier; `Save` inserts when the row has gone, which `revived` remembers.
- **Delete** (`deleteSingleWithRetry`): by id, then by what the record says,
  then the row; a failed row deletion recreates the provider record and repoints
  the row. **Release** deletes a snapshot record by record, then
  sweeps all rows and the subdomain in one transaction, which a row that a
  create inserts meanwhile refuses by its foreign key.
- **Faults**: `ProviderFails` refuses a call or applies it and loses the
  answer (`retryValue` then repeats it); a transaction may fail; `Crash` drops
  the goroutines. `DeletePresumed` is the client that takes a failed read as
  proof of absence.
- `mishaps` remembers these and two crossings: `overlap` (handlers run side by
  side) and `beside`, when an update or another delete's compensation puts a
  record back that a delete has looked for already and whose row it is about
  to remove.

The client's create adopts an identical record (`PCreate`), its delete of an
unknown id succeeds (`PDelete`), as in `cloudflare.go`. Contents are model
values; only "is it a CNAME" and equality matter to the rules.

`IdempotentRequests` says what callers may rely on: a key's operation starts at
most once, a stored verdict never changes, repeats get it or "in progress".
`DNSRecords` instantiates it with its own `reqs`, `runs`, `told`.

### DomainMigration

One domain, its accounts, and the tasks that move it. `run[g]` is a goroutine
in `runTask`; its actions `RunStart` ... `RunNext` are that function's and
`finishTask`'s statements in order, `RunCall` its provider call. Two
goroutines may hold the same task, because the code lets them
(`finishTask` starts any pending task it finds). `adm[d]` is a request of an
administrator (`RetryFailures`, `CleanupSource`, or `AdminUpdate`, which
saves the whole domain row it read before); no lock or idempotency key keeps two
apart, so `RetryCount` (the recount) and `RetryUpdate` (the task's row) are steps of
their own. `usr` is one record request that tested the flag earlier; its delete
is two provider calls, by id and by what it then finds. `Crash` stops everything;
`BootReset` and `BootList` are `resumePendingTasks`. What a loop has still to do
(`todo`) is a set of item numbers, taken smallest first where the code goes by id. The
variable `mishaps` records which races and faults have happened; three of them,
`overlap` (two goroutines ran one task), `uncounted` (a retry counted while a
task's items had never been tried) and `crossed` (of two retries of a task the
one with the older count wrote last, and nobody will count again), are the code's
own races.

### CreditLedger

Balances, ledger and the requests that move them. Here the unit is the
PostgreSQL transaction: a request reads what it needs (`Claim`, `Callback`,
`AdminDelete`, ... one action each, up to the handler's `Transaction` call) and
leaves in `tx[p].steps` the statements still to be sent; `tx[p].log` holds, per
user, the entries it has inserted and not committed. A domain's deletion comes
with or without refunds, pays the subdomains in any order, and sends the
statement that erases them only if it listed any. `MoveCredits` is
`DeductCredits`, `GrantCredits` or `RefundCredits`: it waits for the balance's
row lock, reads, checks, writes. `HoldKey` inserts a row whose unique index or
lock makes others wait; `Commit` publishes everything at once, `Abort` nothing.
`DomainInUse` is the foreign key that refuses to delete a domain under which a
name was claimed in the meantime. `txns` keeps each user's entries in order
with their `balance_after`; the ghost `given` the claims whose subdomain was
inserted; `told` the orders whose gateway was answered
"success". Amounts are small integers, `MaxBalance` is the overflow limit. One
reward stands for the check-in's, the registration's and an order's credits;
one price for the group's.

### ProviderAdapters

Ten clients behind one interface, several operations at once on records of one
name. `adapter` and `refuses` (whether the provider rejects a second copy) are
chosen in `Init` and never change. The providers fall in two families: eight
keep one value per id, Route53 and Google keep all values of a type as one
*set*, which their clients read and write back. `zone` is what the provider
serves, `held` the ids in `dns_records`; `pc[w]` names a goroutine's next HTTP
call, so that each client's check-before-create, create, look-up-after and
repeat (`retryValue`) stand as the calls they are. A delete is
`DNSOperationService`'s: by id, then by value (`Verify`). `mishaps` lists what
the code cannot recover from: a create that adds after a failed look
(`blind`), an update onto a value that is served already (`collided`), Google's
id that still names the value from before an update (`stale`, `misnamed`), a
failed existence check taken for absence (`guess`), an update given up after
it had removed the old value (`torn`), DNSLA's refusals that pass for empty
answers (`silent`), and a lookup that takes a value for one differing in case
only (`mixed`): all clients but Cloudflare compare with `strings.EqualFold`. A
creation may then adopt another row's id, and that row's next update or
deletion takes the other value with it; at Google a second update, which goes by
the value the id still names, removes a value that has become another row's.
It takes three values of one type to see either. `OthersServed` speaks of
what happens before any such lookup, and then of every row.

### BulkDelete

Jobs and items as rows (`job`, `item`), the goroutines `run`, and the server's
start as two steps (`ResetRunning`, `ListPending`) that run beside new requests,
as `main.go` starts them. `DeleteItem` is an attempt of `deleteSingle`: it takes
record and row (`Deleted`), or fails at the provider, before or after the record
went, or at the row and then makes the record anew (`NotDeleted`). If
another goroutine has removed the row meanwhile, that record is served without
one until it is deleted again: the ghost `revived`.
A job may be run by two goroutines: the resumption lists what a handler has just
stored and is about to start itself.

### Accounts

A worker is a request; `pc` and `job` are its next statement and locals. Links
(`tokens`) register, activate an account the cutover or an administrator
left without a password, or reset. Hashing takes long, so `HashDone` and
`StorePassword` are apart: what a request read may be old when it stores. The
transactions of `repository/auth.go` are one step each, but registration counts
under an advisory lock (`Enlist`) and inserts later (`CreateUser`).
`sessions` are the JWTs with the version they carry; `listed` is their row in
`user_sessions`. `events` is the table the limit per address counts
(`RateLimit`); the code's sliding 15 minutes are a window that passes at any
time. The limit per network address has the same form and is left out.
`overwritten` remembers what a login's rehash has put back: the "password", or
the "time" (`password_set_at`) against which links are compared.

### UserAdmin

`job[r]` is a request: a ban or a deletion lists an account's holdings, removes
each record, and then writes; beside it run unbans, profile saves (the whole row,
as `gorm`'s `Save` does), claims, records and changes of groups. `guard` is the
ban that holds the advisory lock and its target's row. More records than
`Threshold` go to a job (`JobDeletes`), and the request ends with 409. Every
deletion of a record, the request's, the job's or the administrator's
(`AdminDeleteRecord`, which reads the record a step before), is `deleteSingle`
with its compensation: `Struck` or `NotStruck`, whose ghost `orphaned` marks a record
made anew when another request had removed its row.

### ContentAudit

The audit of one user's subdomains. A message (`task`) is a scan; `job[w]` a call
of `ScanSubdomain`: fetch and match (`Judge`), store, excuse once, review by the
model, act. The queue is a Redis stream, which keeps what was not acknowledged
(`Reclaim`), or a channel, which a stop empties; `durable` says which.
Suspension takes the records one by one from the provider (`CutRecord`), then
writes the rows; a failure runs `Compensate`. `restoration` is an
administrator's `RestoreSubdomain`. Each provider call may fail before or after
it was applied: a deletion whose answer is lost is not put back, a creation whose
answer is lost has no id to undo it by (`Revert`), and `deleteSingle` may fail at
any of its steps (`NotStruck`). `ghost` names what has gone wrong beyond
repair: two actors at one subdomain (`crossed`), a recheck whose message was
lost (`orphaned`), a scan overtaken by a change of the rules (`hurried`), a
record that a failed call or a failed compensation left deleted (`torn`), a
record created during a suspension (`late`), a copy under an id that no active row
holds (`unnamed`).

### Realname

A user's applications, their orders, and two rows per answer: the application and
the user (`Answer`, `Finish`), with no lock and no transaction around them,
since the row lock the code asks for (`gorm:query_option`) has no effect in
gorm 2. `Callback` is a repeated payment notice, `Review` and `UpdateUser` an
administrator, `ChangeSettings` the switch between fee and none, provider and
by-hand. The ghost `verdict` is the last answer pronounced; `left` are the
applications that were handed to administrators or cut short; `mishap` marks users for
whom two requests crossed (`crossed`), an application was stored or an old one
verified anew beside an unfinished one or after the user was verified
(`doubled`), or one of the two rows failed (`torn`).

### Maintenance

`op[o]` is an administrator's export or restore: take the maintenance lock,
validate the upload, export first, close the gate, `pg_restore`, check, write
the rows the restore has replaced. `disk` are the archives. An archive is
modelled by what its validation tells apart (entries, manifest, two levels of
checksums); an upload is one with any part altered, or one made anew with a
manifest and checksums of its own (`Repacked`), which the validation cannot tell from
an export. The ghost `tables.own` is whether the tables hold nothing from such a one. Tables hold `rows` (one per
writing request), restore jobs and recorded exports, so a restore also replaces
the record of itself. Requests that passed the gate write later (`Write`), also
into tables under `pg_restore`. Job creation and validation are one step, as
are extraction and start: nothing else reads what lies between.

## 4. Runs

| Run | Bounds | Shows |
|---|---|---|
| `dns_records` | 4 records (one CNAME), limit 2, 2 workers, 3 keys, 1 fault | `CnameExclusive`, `RowLimit`, `NoOrphan`, `DeletedStaysDeleted`, refinement of `IdempotentRequests` |
| `dns_faults` | 2 records, 2 keys, 2 faults, 2 attempts per call | `NoOrphanSequential`, `EveryExecutionEnds` (liveness) |
| `providers` | an address and 3 other values, two of them equal but for case, 3 operations, 2 at a time, 2 faults, all ten clients | no copy is added (`OneCopy`), what was reported deleted is not served (`GoneIsGone`), other records stay (`OthersServed`) |
| `bulk` | 2 jobs, 2 records, 2 goroutines, 2 attempts, resume limit 1, 1 fault, 1 stop | `SucceededMeansGone`, `EveryJobEnds` (liveness) |
| `migration` | 1 task, 2 records, retries by 2 administrators, 3 faults of any kind | outcome and items agree; task and read-only end (liveness) |
| `migration_again` | 2 tasks, 1 record, 2 goroutines, 1 further request of an administrator or user, 1 fault | one unfinished task, `ServedAtHome` across two moves, `ReadOnlyWhileMigrating` |
| `ledger` | 2 users, 2 requests at a time, 4 in all, 1 name, 1 order, 2 days, 1 fault | `LedgerExplainsBalance` (with bounds and types), `GrantedOnce` (check-in and order), `ClaimsPaid`, `RefundsWhatWasPaid` |
| `accounts` | 2 addresses, 2 passwords, 3 links, 4 requests, 2 at a time, 1 fault | `SessionsFollowPassword`, `OneFirstAdmin`, `LinksInOrder`, and (in the type invariant) the bound on mails |
| `users` | 2 administrators, 1 user, 2 groups, 2 subdomains, 3 requests, 1 fault | `AnAdminIsLeft`, `NothingLeftBehind`, `OneDefaultGroup` |
| `audit` | 2 subdomains with a record each, 2 workers, 2 messages, 2 events | `SuspendedNotServed`, `ActiveServed`, `RecheckUnderway`, `SkipIsSafe` |
| `realname` | 1 user, 2 applications, 2 requests at once, 2 rulings, 1 event | `OneUnfinished`, `VerdictStands`, `NobodyStranded`, `VerifiedStays` |
| `maintenance` | 3 operators, 2 writers, 2 events | `GateFollowsTables`, `OneRestore`, `NothingLostUnseen`, `ArchivesSound` |

**Why these bounds.** The rules about rows concern pairs: two handlers that
race, a third key for a repeat, one record more than the limit allows
(with `MaxDNSRecords` 2 and four records the third insert must be
refused). A set at a provider needs a value to change, one to change
it to and one to lose, hence three of one type; the
twins differ in case because all clients but one compare without it. A migration needs
two records for "some succeeded, some failed", two tasks for "there and
back" (further ones repeat the second), and two retries for the older count to
come last. With a resume limit of 1 two jobs
suffice for one to be left out. Every race on a balance is between two
transactions; four requests make a claim, the deletion of its domain and two
rivals. Links need three for an older, a newer and the reset that follows;
bans need two administrators who ban each other and a third request that
changes the count. A user's suspension meets
another scan with two subdomains and two workers. A third operator is the one
that finds the lock taken, or the tables already replaced. One fault can strike
between any two steps, two can strike a compensation. Row ids, provider ids,
requests and faults are bounded by the constants marked *bound* in the modules.
Symmetry is used where only safety is checked (`VerifiedStays`, `LinksInOrder`,
`DeletedStaysDeleted` and the refinement are step properties), over sets whose
members no definition chooses among. Deadlock checking is off because a system
whose clients have stopped calling stops, and so does a model at its bounds;
that requests, tasks and jobs do not hang is what the liveness properties say.

**Fairness.** `DNSRecords!FairSpec`: a worker's next step is taken, since each
provider call has a deadline (3 s, 8 s for compensation) and then answers or
fails. `DomainMigration!FairSpec`: the same for the migration's goroutine (30 s)
and for the start-up code. `BulkDelete`: the same for a job's goroutine, and a
stopped server is started again. Never for clients, administrators, stops or
faults; weak fairness suffices as no step is repeatedly disabled by others.

**Excluded mishaps.** Some properties are stated "unless this race happened",
each race a ghost set where the code permits it. Every name
was tried: without it TLC finds the property violated, in the run's bounds or,
where those are too small, in larger ones. So no exclusion is idle: each is a way
in which the *code* loses the property, which therefore does not catch it.
`NoOrphan` holds under interleaving alone, `DeletedStaysDeleted` but for an outage and
`beside`; lost answers, failed compensations,
and the release's sweep can each strand a provider record. `ServedAtHome` is
lost to a failed statement (`db`), a task's late end (`late`), a
stop between two statements (`torn`), a cleanup of the account in use
(`cleaned`), a full-row save (`overwritten`), a superseded task's retry
(`moved`), a request that read the account before the move (`stale`), and two
that its run is too small for: `overlap` needs a third task, `uncounted` three
faults. `OutcomeMatchesItems` excludes the last two as well; of a partial failure
it also excludes `torn` (a retry cut off) and `crossed`.
`LinksInOrder` excludes a rehash that sets `password_set_at` back to before a
newer link's (`overwritten` holds "time").
`RefundsWhatWasPaid` excludes two deletions of one domain at once (`twice`) and
free claims refunded at today's price (`fallback`); `GrantedOnce` two
notifications read as pending at once (`duplicate`). The other modules name theirs
in section 3; one of them, `guess`, needs four failed calls, more than the run of
`providers` has.

## 5. Where code and documents disagree

Each is reachable in the models; the properties leave them out by name, or speak
of the other rows.

1. Creating a record that exists already deletes the existing one at the
   provider: the client adopts it (`cloudflare.go:116`), the database refuses the
   duplicate, the rollback deletes the adopted id (`dns_operation_service.go:254`).
2. An update overtaken by its row's deletion saves the row again
   (`dns_operation_service.go:312`), beside a CNAME, against the rule that
   `handler/dns.go:176` enforces elsewhere.
3. A stop between `finishTask`'s two statements leaves the domain read-only
   (`domain_migration_service.go:343`); the specification says the end of the
   task lifts it (FR-020, `specs/001-add-dns-providers/spec.md:111`).
4. Records are added and deleted while a task is unfinished (FR-015, `spec.md:106`),
   by requests that tested the flag early or never (`handler/subdomain.go:223`).
5. Two notifications of one order handled at once both credit it
   (`handler/payment.go:418`); the release notes promise "idempotent credit
   settlement" (`.github/release-notes/v1.0.0.md:100`).
6. A failed settlement is answered "success" (`handler/payment.go:387`), so the
   gateway does not retry as the comment at `:475` expects.
7. `Logout` deletes the session's row but does not raise `session_version`
   (`handler/email_auth.go:425`), as `docs/authentication.md:31` and
   `docs/api.md:48` say it does.
8. The comment in `middleware/maintenance.go` has the operator "see the final
   state" of a restore; `pg_restore` replaces the table that records it, and when it
   fails half-way there may be no row to see.
9. A login's rehash takes its `password_set_at` before it waits for the row's lock
   (`repository/auth.go:219`) and may set it back below that of a reset which
   went first; a link older than that reset then passes the comparison at `:241`,
   which `docs/authentication.md:31` says refuses it.
10. `RetryFailures` counts only succeeded and failed items
   (`domain_migration_service.go:522`) and calls a task a success in which nothing
   failed (`:445`); items that a stopped run never tried are not counted. Of two retries
   of one task the older count may be written last (`:470`).
11. A failed application may be verified again (`handler/realname.go:226`, `:438`)
    whatever has become of its user meanwhile: when another application has verified
    him, a mismatch takes that verification away (`VerifiedStays` shows that, of
    what is not an administrator's doing, only this and its like do).
12. `validateBackupArchive` compares an archive with its own manifest and checksums
    (`database_maintenance.go:511`): one made anew in the same form is restored.

## 6. Proofs

Eight modules `...Proofs` hold the theorems TLAPS checks. Each extends the
module it is about and assumes only that module's `ConstantsAssumption`: the sets
are arbitrary and the numbers any naturals, so what TLC shows for a handful of
requests, faults and restarts holds for any number of them. (`ProviderAdapters`
wants finitely many records and an id for each of them, which its initial states
need.) `BackgroundProofs` extends three modules, `ContentAudit`, `BulkDelete` and
`Maintenance`; the names of the last two differ from the first's where they would meet
(`BulkSpec`, `MaintenanceSpec` and so on).

| Proofs | Theorem | Statement |
|---|---|---|
| `DNSRecords` | `TypeCorrect` | `Spec => []TypeOK` |
| | `RequestsImplemented` | `Spec => Idem!Spec`: every step is a start, finish or replay of a key, or a stutter |
| | `ExecutedOnce` | no key's operation starts twice |
| | `CnameSafe`, `LimitSafe` | `[]CnameExclusive`, `[]RowLimit` |
| | `DeletedIsGone` | `DeletedStaysDeleted`, an action property |
| | `NoneOrphaned` | `[]NoOrphan` |
| | `SequentialRestored` | `[]NoOrphanSequential` |
| `DomainMigration` | `OneAtATimeOnly` | `[]OneUnfinished` |
| | `ReadOnlyMeanwhile` | `[]ReadOnlyWhileMigrating` |
| | `OutcomesTold` | `[]OutcomeMatchesItems` |
| | `RecordsServedAtHome` | `[]ServedAtHome` |
| `CreditLedger` | `LedgerExplains` | `[]LedgerExplainsBalance` |
| | `GrantsOnce` | `[]GrantedOnce` |
| | `ClaimsArePaid` | `[]ClaimsPaid` |
| | `RefundsMatch` | `[]RefundsWhatWasPaid` |
| `Accounts` | `FirstAdminAlone` | `[]OneFirstAdmin` |
| | `SessionsCurrent` | `[]SessionsFollowPassword` |
| | `YoungerLinkStays` | `LinksInOrder`, an action property |
| `Background` | `SucceededIsGone` | `BulkSpec => []SucceededMeansGone` |
| | `SuspendedIsNotServed` | `[]SuspendedNotServed` |
| | `ActiveIsServed` | `[]ActiveServed` |
| | `RecheckIsUnderway` | `[]RecheckUnderway` |
| | `SkippingIsSafe` | `[]SkipIsSafe` |
| | `ClosedWhileHalfRestored` | `MaintenanceSpec => []GateFollowsTables` |
| | `RestoresAreAlone` | `[]OneRestore` |
| | `CopyBeforeReplacing` | `[]NothingLostUnseen` |
| | `RestoredIsWhole` | `[]ArchivesSound` |
| `UserAdmin` | `AnAdministratorRemains` | `[]AnAdminIsLeft` |
| | `BanTakesAllListed` | `[]NothingLeftBehind` |
| | `DefaultGroupIsAlone` | `[]OneDefaultGroup` |
| `Realname` | `OneAtATime`, `VerdictHolds`, `NobodyWaits` | `[]OneUnfinished`, `[]VerdictStands`, `[]NobodyStranded` |
| | `VerifiedRemains` | `VerifiedStays`, an action property |
| `ProviderAdapters` | `NoCopyAdded` | `[]OneCopy` |
| | `ReportedIsGone` | `[]GoneIsGone` |
| | `OthersStayServed` | `[]OthersServed` |

**How the proofs go.** None of these properties is inductive: a handler acts on
what it learned some statements ago. In each module an invariant (`IInv`, or
several in layers) adds what the handlers' local variables say about the tables, and TLC
checked it on the run's bounds before it was proved. A lemma per action, or
per group of actions alike, shows that a step keeps it; lemmas about what all
those steps share (one request changes its own job only, rows are only added, ...)
are stated once. The last theorem of each kind is `PTL` over those.

*DNSRecords.* `TypeOK` is inductive because it also says what a worker's local
variables hold at its next step (`Fits`): a worker about to undo a create does
have a provider id. For the refinement, `KeysInv` and `OnceInv` strengthen it: a busy
worker's key is "running" and no two workers share one; a key that never started
has no verdict. Without the first, a worker could finish a key that another had
finished. For the rows, an insert is allowed by a check made a step earlier, so
`RowsInv` adds what the lock buys: a worker is at `c_insert` exactly when it holds
`lock` (`LockInv`), and then what it checked is still true (`CheckedInv`); no row
has an id from `nextRow` on (`IdsInv`), so an insert overwrites nothing; updates
in flight keep their row's type (`UpdatesInv`). Rows that came back by `Save` are
counted apart. The limit also needs two lemmas on the cardinality of the set of
rows, `PresentFinite` and `FewerRows`.

The zone needs three more layers. `PidsInv`: no provider id is above the counter that
hands them out, so a record that left the zone stays gone under its old id
(`StaysGone`); `WorkerChange` says once for all handlers what a step may do to the
zone, to the ids in the rows and to those a job remembers. With these, a delete at
`d_row` finds its id absent (`GoneInv`). That id may be old: another delete's
compensation has stored a new one in the row. But then either the look came
after that and took the record away, or the compensation came after the look, which
is `beside`: so the record's zone entry is not the row's id (`Parted`, `PartInv`; rows' ids
are handed out once, `KnownIds`). `NamesInv`: while there are no faults, a row
id and a provider id are paired once, so a delete that has its id gone removes
the row of that id and of no other; then each way a record enters the zone or loses its row is followed
to the one who answers for it (`ZoneOwned`). The attempt also found an error of the
property: with retries, a create whose call was applied and whose answer was lost has
made a record it does not know of, and will adopt when it asks again; `Owned` now counts
it. `SeqInv` is for one handler at a time with a failing database: every record but the
one the handler stands on is backed by its own row (`Backed`), and for that one
`Stands` says, step by step, whether it is absent, the row's or the handler's own.
The compensation is sound because the recreated record's id is fresh: it
never equals the old one, so the repoint is never skipped.

*DomainMigration* has five layers, each proved with those below. `Shapes`:
types, tasks numbered without gaps, goroutines at tasks that exist. `Alone`: a
goroutine works only on the newest task, and alone on it, while that is
unfinished. `Shut`: while one is, the domain is read-only. `Truthful`: what an
item's status and a goroutine's list of items still to do say of each other, so
that the final count is right, and for retries: items only ever go from failed to
succeeded, so a count of success stays true whoever writes it (`Reckons`), and a
partial failure that no longer fits the items has a retry that will count again
(`Counting`, `Answers`). `Served`: the domain is at the newest task's target,
and idle only once that task has left no item behind (`Complete`, `Moved`; its status may
be an older count); every record has an item of
the newest task or its row is right already, a succeeded item's row is right or
a goroutine is about to point it at the new id, and a goroutine between two
statements knows the id of the record in its hands (`Placed`); a record without a row
has no item (`Fresh`). A retry of a superseded task is the one actor that may
spoil this (`Poisoned`), which its end records as `late`. The proof asks that record ids suffice for one
migration (`Cardinality(Recs) <= MaxIds`).

*CreditLedger.* The ledger explains the balance only if the entries of an open
transaction continue the committed ones, so `TxsOK` says they chain from the
balance their transaction read, and `LocksOK` that the balance's row lock has one holder,
so that nobody else commits in between. What the entries are *for* is a second
layer, `Books`, over the first. `Tidy` says of an open transaction that it moves
credits for its own purpose only, for no purpose twice, and will hold the key of
the unique index or the order's row before it commits; `KeysOK` that a key has
one holder, who found it free and still would (an order's row is not read
again under its lock, so there the ghost `duplicate` is the way out);
`NumbersOK` that a claim's number belongs to one request or one subdomain and
that nobody is charged for it before it commits; `Charged` that who has a charge
has been given the subdomain; `BooksOK` is what the
tables and the committed entries then say of each other. That a refund belongs to a paid
claim has to be known when the deletion begins (`RefundsBacked`), because by its
commit the subdomains it listed may be gone.

*Accounts.* `LockOK`: the advisory lock is held from the count of administrators to the
commit that uses it. `SessionsOK`: a `session_version` stands for one password, so a
session with the current version was opened with the current password. `LinksOK`:
`password_set_at` is not below the birth of the link that set it; `Past`: no
timestamp is ahead of the clock. `MailsOK` counts the mails under way, which
bounds the mails sent; it needs finitely many workers.

*BulkDelete.* A job's last status is written by a goroutine that saw only its own
items. `WorkDone` says that what a goroutine has behind it and did not fail on is
gone whatever others of the same job do: a record may be served again only by a deletion
that fails at its row, and if that row is gone by then, it is `revived`; rows never
come back.

*ContentAudit.* Half of the invariant is about the queue. A worker's message stays
as it was taken until somebody acknowledges it (`MessageOK`), which may be another
worker that took it over from a stream; so the message, and not the worker, is
what a claimed recheck hangs on, and `RecheckUnderway` now says no less. A scan about
to be stored knows whether the rule changed since it judged (`VerdictsOK`), else its
ghost is `hurried`. The other half, `WorldOK`, relates three tables: a subdomain's
status, its rows and the provider. Its core is that as long as nobody crossed
at a subdomain it has one actor, a worker or the administrator (`OneActor`), and
that this actor's lists are true. A worker yet to cut a record holds it in its list
(`ToBeCut`), or a record would be missed and stay behind; every active row has its copy or
is in the hand of the worker that cut it (`ServedOrCut`), so the compensation
puts back exactly what it took; a suspended subdomain's copies are those that the
restoration has made (`GoneOrMade`), and what that restoration has to do and has done
are together its suspended rows (`RestorationOK`). Copies under ids that no row
has are the restoration's own, or are `unnamed`: made by a compensation, by a creation
whose answer was lost, or by a deletion that failed (`StrayKnown`). What a failed
deletion has taken is `torn`. The proof asks
that the model's opinion is one of the three the code knows
(`ai_audit_service.go:215`).

*UserAdmin.* `CountOK`: a request that trusts its count of administrators leaves
two, because the ban that counts holds the lock and its target's row
(`GuardOK`); a deletion goes on a count without the lock, which the ghost `hasty` records
when it is out of date. `ListOK`: what a removal has not listed came later; a record served
without a row came later too, or is `orphaned`.
`ChangeOK`: a group change knows the default as it is, unless two overlap.

*Realname.* For a user whom no mishap struck: `CurrentOK` (a request knows its
application's status), `OnlyOK` (at most one application is unfinished, and one
being verified is that one and its user not verified yet), `SaidOK` (the last verdict
is in both rows, or the request that pronounced it is about to write the second).
`TakenUp` is `NobodyStranded` with the steps at which a request has an application
in hand.

*Maintenance.* `GateOK`: a restore past the gate is the only one and the gate is
closed on its behalf. `Sound`: tables, and every copy of them in an archive or an
upload, name only archives that stay on the disk, unless they come from an archive
made anew. `ArchivesSound` therefore does not say that only exports of this system are
restored: it says that a part altered without the others is noticed, and that while
the tables are the system's own the rows `pg_restore` replaced have been written
again. `KeptOK`: a written row is in the
tables or copied to an archive that has its row or is about to.

*ProviderAdapters.* `Base` holds whatever fails: one value per id or one set per
type (`ZoneOK`), no id named before the provider gave it (`IdsOK`), and no
two operations with a value in common, which is how operations begin (`Begin`,
hence `HandsApart`, `HandOK`). On it rest four parts, each
under the mishaps its property leaves out. `CopiesOK`: no two entries are
alike, and what is about to be added is not served. `GoneOK`: a row's id, and
the one a repeated delete names, is the only copy of its record, so that
what a lookup no longer finds is gone. `KeyedOK`: an id names its own row's value, so
that no call touches another's. `GoogleOK`: while every
call is answered, a row is served unless its own delete has just taken it, as a
set is written back only if it still is what was read. The proof does not go
client by client: it shows that every call of every client either adds, rewrites or
erases one entry by its id and then leaves its worker's row and id in
one of a few ways (`KeyedStep`), or replaces one set by what its worker's
own values make of it (`SetStep`), and that steps of these two kinds keep the
invariant. Stating `OthersServed` for the proof showed the exemption of the
twins to be too narrow: the value lost by a mixed-up lookup need not be a twin.

**Only model-checked.** Liveness (`EveryExecutionEnds`, `EveryJobEnds`, the ends of
tasks and of read-only): reasoning under fairness is outside the prover's
reach. Every safety invariant and every action property of the runs is a
theorem.

## 7. What is not shown

- *General.* PostgreSQL is taken to keep its word: row locks, unique indexes,
  foreign keys, rollback. Its deadlock detector appears only as a failing
  statement. One domain and one price at a time: lock order between domains and
  different limits per group are out of sight. Components are composed where they
  share rows (claims, orders and deletions in `CreditLedger`, jobs and bans in
  `UserAdmin`); elsewhere one stands in the other as a single step.
- *Records.* Records without a provider id. *Providers.* Listing zones, zones
  of more than 100 records (first page only), the classes of provider errors.
  `OthersServed` makes no claim for Route53, whose client keeps one value
  per type, nor for Google once a call has failed (a repeated delete takes the
  last value), nor once a lookup has mixed up two values equal but for case.
- *Ledger and payment.* Deletion of users, rewards configured to zero, display
  rounding, gateway signatures, product lists.
- *Accounts.* The limit per network address; a login with a failing captcha
  leaves no event. The mail's delivery and the event that counts it are one step
  (`SendLink`, `MailGoesOut`), with the outcome that only the first happened. *Users.* `is_admin` of a group is fixed; idempotency keys.
- *Audit.* One rule, one user, pages that begin as violations, one restoration
  at a time; how a page is fetched and matched is whether the rule matches it;
  trimming of the Redis stream, the scheduler's dedup key, notifications, the
  model's prompts, verdicts and appeals. A record's deletion is one step with the
  outcomes of `deleteSingle` (likewise in `BulkDelete` and `UserAdmin`).
- *Real-name.* Encryption, masked views, the check that a claim's user is
  verified. A retry of one application may take back what another has verified:
  an administrator's counts as his decision, the user's own is the exception
  `VerifiedStays` names.
- *Maintenance.* The restore challenge (a one-time token), password, sizes, audit
  log. Checksums are taken to be free of collisions; who may upload an archive made
  anew is a matter of access. A job's row is known by its request: that a restored
  sequence may hand out its id again is not modelled. An export taken beside a
  restore, once past the gate, may hold half-replaced tables; rows of jobs cut by a
  stop stay as they are.
- *No state of their own, or input and output only:* provider accounts (one row
  under the idempotency protocol), notifications, templates, settings, start-up,
  logging, captcha, the web front end, the one-time cutover migration.

## 8. Running it

    tlc -config MCDNSRecords.cfg MCDNSRecords.tla
    tlc -config MCMigration.cfg  MCDomainMigration.tla
    tlc -config MCLedger.cfg     MCCreditLedger.tla
    tlc -config MCAccounts.cfg   MCAccounts.tla        (and so for the others)
    tlapm DNSRecordsProofs.tla                         (and so for the other ...Proofs)

Each run takes two to three minutes at most on two cores; `PROJECT.json` lists runs,
properties, mutants, the map to the source and the hazards.
