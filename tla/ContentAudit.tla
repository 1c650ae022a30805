---------------------------- MODULE ContentAudit ----------------------------
(***************************************************************************)
(* The content audit of one user's subdomains: a scheduler and the admin   *)
(* queue scans, workers fetch a page, match it against the rules, store a  *)
(* clean or a violating scan, give a violation one grace period, and then  *)
(* act on the rule: suspend all the user's subdomains, release the         *)
(* subdomain, delete its records or only observe.  A clean scan is read by *)
(* a model that may ask for an action too.  The admin restores suspended   *)
(* subdomains.  The queue is a Redis stream, which keeps what was          *)
(* delivered and not acknowledged, or a channel of the process.            *)
(***************************************************************************)
EXTENDS Integers, FiniteSets

CONSTANTS
    Subs,         \* the subdomains of one user
    Recs,         \* their scannable records
    SubOf,        \* Recs -> Subs
    Workers,      \* goroutines that handle messages, two to a scan worker
    Tasks,        \* bound: messages outstanding
    MaxMessages,  \* bound: messages ever queued
    Rules,        \* what the one rule may be set to
    Opinions,     \* what the model may ask for: "none", "user", "site"
    MaxEvents,    \* bound: calls that fail, stops of the server, and changes of
                  \* pages, rules and records, together
    Nothing

ASSUME ConstantsAssumption ==
    /\ SubOf \in [Recs -> Subs]
    /\ {MaxMessages, MaxEvents} \subseteq Nat
    /\ Nothing \notin Subs \cup Tasks
    /\ Opinions \subseteq {"none", "user", "site"}
    /\ Rules \subseteq [enabled : BOOLEAN, exempt : BOOLEAN,
                        action : {"user", "site", "delete_dns", "observe"}]

VARIABLES
    page,         \* what each subdomain serves: "fine", or "shady", which the
                  \* rule matches
    rule,
    verdict,      \* the page of its latest clean scan
    since,        \* that scan is later than the rule's last update
    status,
    row,          \* the records' rows
    live,         \* the provider's copy: "known" by the id in the row, "stray"
                  \* under another id
    exempt,       \* audit_exemption_pendings
    task,         \* the messages
    durable,      \* the queue is the Redis stream
    claimed,      \* in the exemption worker's hand
    job,          \* the workers' calls of ScanSubdomain
    restoration,  \* the admin's call of RestoreSubdomain
    adding,       \* records in the middle of being created
    ghost,        \* what went wrong beyond the properties' reach
    sent, events

scans == <<verdict, since>>
world == <<status, row, live>>
actors == <<task, durable, claimed, job, sent>>
vars == <<page, rule, scans, world, exempt, actors, restoration, adding, ghost, events>>

NoJob == [pc |-> "idle", task |-> Nothing, sub |-> Nothing, recheck |-> FALSE,
          page |-> "fine", lax |-> FALSE, act |-> "none", todo |-> {},
          at |-> Nothing, held |-> {}, cut |-> {}]
NoMessage == [sub |-> Nothing, recheck |-> FALSE, at |-> "done"]
NoRestoration == [sub |-> Nothing, todo |-> {}, made |-> {}]

RecsOf(s) == {r \in Recs : SubOf[r] = s}
Active(s) == {r \in RecsOf(s) : row[r] = "active"}
Scannable(s) == status[s] = "active" /\ Active(s) # {}

Set(w, j) == job' = [job EXCEPT ![w] = j]
Ended(w) == [NoJob EXCEPT !.pc = "finish", !.task = job[w].task, !.sub = job[w].sub,
                          !.recheck = job[w].recheck]
At(w, pc) == job[w].pc = pc
Event == events < MaxEvents /\ events' = events + 1
Fault == Event

\* The subdomain is being changed at the provider by an actor.
ActedOnBy(w, s) ==
    /\ job[w].pc \in {"pick", "cut", "undo", "strike"}
    /\ s = job[w].at \/ s \in job[w].todo
Busy(s) == restoration.sub = s \/ \E w \in Workers : ActedOnBy(w, s)

\* ghost: two actors at one subdomain
Crossing(S) == [ghost EXCEPT !.crossed = @ \cup {s \in S : Busy(s)}]

-----------------------------------------------------------------------------
\* The queue.

Free(i) == task[i].at = "done" /\ \A w \in Workers : job[w].task # i

Enqueue(s, recheck) ==
    \E i \in Tasks :
        /\ Free(i)
        /\ sent < MaxMessages
        /\ sent' = sent + 1
        /\ task' = [task EXCEPT ![i] = [sub |-> s, recheck |-> recheck, at |-> "queued"]]

\* enqueueAll, of one target
Schedule(s) ==
    /\ Scannable(s)
    /\ exempt[s] \notin {"pending", "rechecking"}
    /\ Enqueue(s, FALSE)
    /\ UNCHANGED <<page, rule, scans, world, exempt, durable, claimed, job,
                   restoration, adding, ghost, events>>

\* RescanSubdomain and BulkRescan of the admin, Claim and CreateRecord of the user
Rescan(s) ==
    /\ Scannable(s)
    /\ Enqueue(s, FALSE)
    /\ UNCHANGED <<page, rule, scans, world, exempt, durable, claimed, job,
                   restoration, adding, ghost, events>>

\* handleMessage up to the fetched page: ScanSubdomain loads the subdomain with its
\* records, and goes on if it is active and has one to scan.
Deliver(w, i) ==
    LET s == task[i].sub
        loaded == [NoJob EXCEPT !.task = i, !.sub = s, !.recheck = task[i].recheck]
    IN
    Set(w, IF Scannable(s)
           THEN [loaded EXCEPT !.pc = "judge", !.page = page[s],
                               !.held = {r \in RecsOf(s) : row[r] # "none"}]
           ELSE [loaded EXCEPT !.pc = "finish"])

Take(w) ==
    \E i \in Tasks :
        /\ At(w, "idle")
        /\ task[i].at = "queued"
        /\ task' = [task EXCEPT ![i].at = "taken"]
        /\ Deliver(w, i)
        /\ UNCHANGED <<page, rule, scans, world, exempt, durable, sent, claimed,
                       restoration, adding, ghost, events>>

\* AutoClaim: what was delivered long ago and is not acknowledged, whether its
\* worker is gone or still at it.
Reclaim(w) ==
    \E i \in Tasks :
        /\ durable
        /\ At(w, "idle")
        /\ task[i].at = "taken"
        /\ Deliver(w, i)
        /\ UNCHANGED <<page, rule, scans, world, exempt, task, durable, sent, claimed,
                       restoration, adding, ghost, events>>

-----------------------------------------------------------------------------
\* One scan.

\* Mutant: the same page is never judged again.
SamePageForGood(s, p) == verdict[s] = p

\* The page of the latest clean scan is not judged again unless an enabled rule
\* was updated since.
SamePage(s, p) == verdict[s] = p /\ (rule.enabled => since[s])

Violates(p) == rule.enabled /\ p = "shady"

\* What the rule or the model asks for: suspendUserSubdomains lists all that is
\* active; a release and delete_dns go over the records as they were loaded (a
\* suspended row of an active subdomain, which only two actors at once can leave, is
\* not told apart).
TakeAction(w, act, recs) ==
    LET s == job[w].sub
        targets == {t \in Subs : status[t] = "active"}
    IN
    \/ act = "observe" /\ Set(w, Ended(w)) /\ UNCHANGED ghost
    \/ /\ act = "user"
       /\ Set(w, [job[w] EXCEPT !.pc = "pick", !.page = "fine", !.todo = targets,
                                !.held = UNION {Active(t) : t \in targets}])
       /\ ghost' = Crossing(targets)
    \/ /\ act \in {"site", "delete_dns"}
       /\ Set(w, [job[w] EXCEPT !.pc = "strike", !.page = "fine", !.act = act,
                                !.at = s, !.held = recs])
       /\ ghost' = Crossing({s})

\* MatchAll; a violation is stored at once, and acted on.  A rule that cannot be
\* read counts as one that does not match.
Judge(w) ==
    LET s == job[w].sub
        p == job[w].page
        same == SamePage(s, p)
        clean(lax) == [job[w] EXCEPT !.pc = "store", !.lax = lax]
    IN
    /\ At(w, "judge")
    /\ \/ /\ same \/ ~Violates(p)
          /\ Set(w, clean(same /\ s \in ghost.hurried))
          /\ UNCHANGED <<ghost, events>>
       \/ /\ ~same /\ Violates(p)
          /\ IF rule.exempt /\ ~job[w].recheck
             THEN /\ Set(w, [job[w] EXCEPT !.pc = "excuse", !.act = rule.action])
                  /\ UNCHANGED ghost
             ELSE TakeAction(w, rule.action, job[w].held)
          /\ UNCHANGED events
       \/ /\ ~same
          /\ Fault
          /\ \/ Set(w, clean(TRUE))                            \* the rules
             \/ Set(w, Ended(w))                              \* the scan's row
          /\ UNCHANGED ghost
    /\ UNCHANGED <<page, rule, scans, world, exempt, task, durable, sent, claimed,
                   restoration, adding>>

\* ReviewSubdomain by the model
Reviewed(w) ==
    \E opinion \in Opinions :
        Set(w, IF opinion = "none" THEN Ended(w)
               ELSE [job[w] EXCEPT !.pc = "review", !.act = opinion])

\* The clean scan's row, and a review unless this is a recheck.
Store(w) ==
    LET s == job[w].sub IN
    /\ At(w, "store")
    /\ verdict' = [verdict EXCEPT ![s] = job[w].page]
    /\ since' = [since EXCEPT ![s] = TRUE]
    /\ ghost' = [ghost EXCEPT !.hurried = IF job[w].lax THEN @ \cup {s} ELSE @ \ {s}]
    /\ IF job[w].recheck THEN Set(w, Ended(w)) ELSE Reviewed(w)
    /\ UNCHANGED <<page, rule, world, exempt, task, durable, sent, claimed,
                   restoration, adding, events>>

\* handleViolation: the subdomain is loaded again, and whatever its status is acted
\* on.
Review(w) ==
    LET s == job[w].sub IN
    /\ At(w, "review")
    /\ IF status[s] = "gone" THEN Set(w, Ended(w)) /\ UNCHANGED ghost
       ELSE TakeAction(w, job[w].act, {r \in RecsOf(s) : row[r] # "none"})
    /\ UNCHANGED <<page, rule, scans, world, exempt, task, durable, sent, claimed,
                   restoration, adding, events>>

\* CreateExemptionPending: a row that is there stays as it is, and the unique index's
\* refusal of another counts as success.
Exempted(s) == [exempt EXCEPT ![s] = IF @ = "none" THEN "pending" ELSE @]
Completed(s) == [exempt EXCEPT ![s] = IF @ = "rechecking" THEN "completed" ELSE @]

\* tryHandleViolationExemption: the first violation is excused until a recheck,
\* others while that is due, and, the row being there, any later one too.
Excuse(w) ==
    LET s == job[w].sub IN
    /\ At(w, "excuse")
    /\ \/ /\ exempt' = Exempted(s)
          /\ Set(w, Ended(w))
          /\ UNCHANGED <<ghost, events>>
       \/ /\ Fault
          /\ TakeAction(w, job[w].act, job[w].held)
          /\ UNCHANGED exempt
    /\ UNCHANGED <<page, rule, scans, world, task, durable, sent, claimed,
                   restoration, adding>>

\* CompleteExemptionPending of a recheck, and the acknowledgement.
Finish(w) ==
    LET s == job[w].sub
        i == job[w].task
        completed == Completed(s)
        acked == [task EXCEPT ![i] = NoMessage]
    IN
    /\ At(w, "finish")
    /\ Set(w, NoJob)
    /\ \/ /\ exempt' = IF job[w].recheck THEN completed ELSE exempt
          /\ task' = acked
          /\ UNCHANGED <<ghost, events>>
       \/ /\ Fault
          /\ \/ /\ job[w].recheck                              \* the completion
                /\ task' = acked
                /\ ghost' = [ghost EXCEPT !.orphaned = @ \cup {s}]
                /\ UNCHANGED exempt
             \/ /\ exempt' = IF job[w].recheck THEN completed ELSE exempt
                /\ UNCHANGED <<task, ghost>>                   \* the acknowledgement
    /\ UNCHANGED <<page, rule, scans, world, durable, sent, claimed, restoration, adding>>
-----------------------------------------------------------------------------
\* The actions on a violation.

\* suspendUserSubdomains, the next subdomain.
Pick(w) ==
    /\ At(w, "pick")
    /\ \/ \E s \in job[w].todo :
             Set(w, [job[w] EXCEPT !.pc = "cut", !.at = s, !.todo = @ \ {s}, !.cut = {}])
       \/ /\ job[w].todo = {}
          /\ Set(w, Ended(w))
    /\ UNCHANGED <<page, rule, scans, world, exempt, task, durable, sent, claimed,
                   restoration, adding, ghost, events>>

ToCut(w) == (job[w].held \cap RecsOf(job[w].at)) \ job[w].cut
Undo(w) == [job[w] EXCEPT !.pc = "undo"]

\* Mutant: a record the provider does not delete counts as deleted.
CutAnyway(w) ==
    /\ At(w, "cut")
    /\ \E r \in ToCut(w) :
          /\ \/ live' = [live EXCEPT ![r] = IF @ = "known" THEN "none" ELSE @] /\ UNCHANGED events
             \/ Fault /\ UNCHANGED live
          /\ Set(w, [job[w] EXCEPT !.cut = @ \cup {r}])
    /\ UNCHANGED <<page, rule, scans, status, row, exempt, task, durable, claimed, sent,
                   restoration, adding, ghost>>

\* suspendSubdomain deletes each record at the provider by the id it holds.  One
\* whose deletion fails is not put back, also when the provider had carried it out.
CutRecord(w) ==
    /\ At(w, "cut")
    /\ \E r \in ToCut(w) :
          LET deleted == [live EXCEPT ![r] = IF @ = "known" THEN "none" ELSE @] IN
          \/ /\ live' = deleted
             /\ Set(w, [job[w] EXCEPT !.cut = @ \cup {r}])
             /\ UNCHANGED <<ghost, events>>
          \/ /\ Fault
             /\ Set(w, Undo(w))
             /\ \/ UNCHANGED <<live, ghost>>
                \/ /\ live' = deleted
                   /\ ghost' = [ghost EXCEPT !.torn = @ \cup {r}]
    /\ UNCHANGED <<page, rule, scans, status, row, exempt, task, durable, sent, claimed,
                   restoration, adding>>

Suspended(w) ==
    /\ row' = [r \in Recs |-> IF r \in job[w].cut /\ row[r] # "none" THEN "suspended"
                              ELSE row[r]]
    /\ status' = [status EXCEPT ![job[w].at] = IF @ = "gone" THEN @ ELSE "suspended"]

\* suspendSubdomain's transaction
Suspend(w) ==
    /\ At(w, "cut")
    /\ ToCut(w) = {}
    /\ \/ /\ Suspended(w)
          /\ Set(w, [job[w] EXCEPT !.pc = "pick", !.at = Nothing, !.cut = {}])
          /\ UNCHANGED events
       \/ /\ Fault
          /\ Set(w, Undo(w))
          /\ UNCHANGED <<row, status>>
    /\ UNCHANGED <<page, rule, scans, live, exempt, task, durable, sent, claimed,
                   restoration, adding, ghost>>

\* Mutant: what was deleted is not created again.
RecreateNone(w, r) ==
    /\ UNCHANGED <<live, events, ghost>>

\* recreateProviderRecord in compensateProviderRecords: the new id is dropped, so
\* that an answer that is lost makes no difference.
Recreate(w, r) ==
    \/ /\ live' = [live EXCEPT ![r] = IF @ = "none" THEN "stray" ELSE @]
       /\ ghost' = [ghost EXCEPT !.unnamed = @ \cup {r}]
       /\ Fault \/ UNCHANGED events
    \/ /\ Fault
       /\ ghost' = [ghost EXCEPT !.torn = @ \cup {r}]
       /\ UNCHANGED live

\* compensateProviderRecords.  The subdomains suspended before are then handed to
\* RestoreSubdomain as they were listed, active, and it refuses each.
Compensate(w) ==
    /\ At(w, "undo")
    /\ \/ \E r \in job[w].cut :
             /\ Recreate(w, r)
             /\ Set(w, [job[w] EXCEPT !.cut = @ \ {r}])
       \/ /\ job[w].cut = {}
          /\ Set(w, Ended(w))
          /\ UNCHANGED <<live, events, ghost>>
    /\ UNCHANGED <<page, rule, scans, status, row, exempt, task, durable, sent, claimed,
                   restoration, adding>>

\* deleteSingle (DNSRecords has its steps): the record, by its id and by its content,
\* and its row.
Struck(r) ==
    /\ live' = [live EXCEPT ![r] = "none"]
    /\ row' = [row EXCEPT ![r] = "none"]

\* It fails at the provider, before or after the record went; or at the row, which
\* then keeps its record, made anew under an id the row may not have been given, or
\* is not made again.
NotStruck(r, g) ==
    /\ Fault
    /\ UNCHANGED row
    /\ \/ /\ ghost' = g
          /\ UNCHANGED live
       \/ /\ live' = [live EXCEPT ![r] = "none"]
          /\ ghost' = [g EXCEPT !.torn = @ \cup {r}]
       \/ /\ row[r] # "none"
          /\ live' = [live EXCEPT ![r] = "known"]
          /\ ghost' = [g EXCEPT !.unnamed =
                 IF row[r] = "active" /\ status[SubOf[r]] = "active" THEN @ ELSE @ \cup {r}]
       \/ /\ live' = [live EXCEPT ![r] = "stray"]
          /\ ghost' = [g EXCEPT !.unnamed = @ \cup {r}]

\* DeleteRecordsBatch or DeleteRecordAtomic, one record.  A failure stops the rule
\* that deletes records, and spoils a release.
StrikeRecord(w) ==
    /\ At(w, "strike")
    /\ \E r \in job[w].held :
          \/ /\ Struck(r)
             /\ Set(w, [job[w] EXCEPT !.held = @ \ {r}])
             /\ UNCHANGED <<ghost, events>>
          \/ /\ NotStruck(r, ghost)
             /\ IF job[w].act = "delete_dns"
                THEN Set(w, Ended(w))
                ELSE Set(w, [job[w] EXCEPT !.held = @ \ {r}, !.act = "spoilt"])
    /\ UNCHANGED <<page, rule, scans, status, exempt, task, durable, sent, claimed,
                   restoration, adding>>

\* ReleaseSubdomain's transaction
Release(w) ==
    LET s == job[w].sub IN
    /\ At(w, "strike")
    /\ job[w].held = {}
    /\ Set(w, Ended(w))
    /\ \/ /\ job[w].act = "site"
          /\ row' = [r \in Recs |-> IF r \in RecsOf(s) THEN "none" ELSE row[r]]
          /\ status' = [status EXCEPT ![s] = "gone"]
          /\ UNCHANGED events
       \/ job[w].act \in {"delete_dns", "spoilt"} /\ UNCHANGED <<row, status, events>>
       \/ job[w].act = "site" /\ Fault /\ UNCHANGED <<row, status>>
    /\ UNCHANGED <<page, rule, scans, live, exempt, task, durable, sent, claimed,
                   restoration, adding, ghost>>

-----------------------------------------------------------------------------
\* RestoreSubdomain of the admin, one at a time.

StartRestore(s) ==
    /\ restoration = NoRestoration
    /\ status[s] = "suspended"
    /\ restoration' = [sub |-> s, made |-> {},
                       todo |-> {r \in RecsOf(s) : row[r] = "suspended"}]
    /\ ghost' = Crossing({s})
    /\ UNCHANGED <<page, rule, scans, world, exempt, actors, adding, events>>

\* compensateRestoredProviderRecords: each is deleted by its new id, and a failure
\* is only logged.  What was created with its answer lost has no id to delete it by.
Revert(lost) ==
    /\ \E kept \in {{}, restoration.made} :
          /\ live' = [r \in Recs |-> IF r \in restoration.made \ kept THEN "none"
                                     ELSE IF r \in lost /\ live[r] = "none" THEN "stray"
                                     ELSE live[r]]
          /\ ghost' = [ghost EXCEPT !.unnamed = @ \cup kept \cup lost]
    /\ restoration' = NoRestoration

\* A copy that is there already is taken over, or refused.
RestoreRecord ==
    /\ \E r \in restoration.todo :
          \/ /\ live' = [live EXCEPT ![r] = IF @ = "none" THEN "stray" ELSE @]
             /\ restoration' = [restoration EXCEPT !.todo = @ \ {r}, !.made = @ \cup {r}]
             /\ UNCHANGED <<ghost, events>>
          \/ live[r] # "none" /\ Revert({}) /\ UNCHANGED events
          \/ Fault /\ \E lost \in {{}, {r}} : Revert(lost)
    /\ UNCHANGED <<page, rule, scans, status, row, exempt, actors, adding>>

\* UpdateDNSRecordStatus with the new id
Restored ==
    /\ row' = [r \in Recs |-> IF r \in restoration.made /\ row[r] # "none"
                              THEN "active" ELSE row[r]]
    /\ live' = [r \in Recs |-> IF r \in restoration.made /\ live[r] = "stray"
                               THEN "known" ELSE live[r]]

\* RestoreSubdomain's transaction
Restore ==
    LET s == restoration.sub IN
    /\ s # Nothing
    /\ restoration.todo = {}
    /\ \/ /\ Restored
          /\ status' = [status EXCEPT ![s] = IF @ = "gone" THEN @ ELSE "active"]
          /\ restoration' = NoRestoration
          /\ ghost' = [ghost EXCEPT !.unnamed = @ \ restoration.made]
          /\ UNCHANGED events
       \/ Fault /\ Revert({}) /\ UNCHANGED <<row, status>>
    /\ UNCHANGED <<page, rule, scans, exempt, actors, adding>>
-----------------------------------------------------------------------------
\* The exemption worker.

\* ClaimDueExemptions, of one that is due
ClaimDue(s) ==
    /\ exempt[s] = "pending"
    /\ exempt' = [exempt EXCEPT ![s] = "rechecking"]
    /\ claimed' = claimed \cup {s}
    /\ UNCHANGED <<page, rule, scans, world, task, durable, sent, job, restoration, adding,
                   ghost, events>>

\* Mutant: a message that cannot be queued leaves the exemption as claimed.
NotQueuedLost(s) ==
    /\ Fault
    /\ UNCHANGED <<exempt, task, ghost>>

\* A message that cannot be queued sets the exemption back to pending; that may
\* fail as well.
NotQueued(s) ==
    /\ UNCHANGED task
    /\ \/ /\ Fault
          /\ exempt' = [exempt EXCEPT ![s] = IF @ = "rechecking" THEN "pending" ELSE @]
          /\ UNCHANGED ghost
       \/ /\ Fault
          /\ ghost' = [ghost EXCEPT !.orphaned = @ \cup {s}]
          /\ UNCHANGED exempt

\* processDue, one claimed exemption
Requeue(s) ==
    /\ s \in claimed
    /\ claimed' = claimed \ {s}
    /\ \/ /\ status[s] = "gone"
          /\ exempt' = Completed(s)
          /\ UNCHANGED <<task, sent, ghost, events>>
       \/ /\ status[s] # "gone"
          /\ Enqueue(s, TRUE)
          /\ UNCHANGED <<exempt, ghost, events>>
       \/ status[s] # "gone" /\ NotQueued(s) /\ UNCHANGED sent
    /\ UNCHANGED <<page, rule, scans, world, durable, job, restoration, adding>>

-----------------------------------------------------------------------------
\* The user and the rules.

ChangePage(s) ==
    /\ Event
    /\ page' = [page EXCEPT ![s] = IF @ = "fine" THEN "shady" ELSE "fine"]
    /\ UNCHANGED <<rule, scans, world, exempt, actors, restoration, adding, ghost>>

\* UpdateRule and ToggleRule.  A clean scan whose judgement is older is stored
\* later than this update.
UpdateRule ==
    /\ Event
    /\ rule' \in Rules \ {rule}
    /\ since' = [s \in Subs |-> FALSE]
    /\ job' = [w \in Workers |-> IF At(w, "store") THEN [job[w] EXCEPT !.lax = TRUE]
                                 ELSE job[w]]
    /\ UNCHANGED <<page, verdict, world, exempt, task, durable, sent, claimed, restoration,
                   adding, ghost>>

\* CreateRecord of the user up to the provider's call, and its transaction.
AddRecord(r) ==
    /\ Event
    /\ row[r] = "none" /\ r \notin adding
    /\ status[SubOf[r]] = "active"
    /\ adding' = adding \cup {r}
    /\ UNCHANGED <<page, rule, scans, world, exempt, actors, restoration, ghost>>

RecordAdded(r) ==
    LET s == SubOf[r] IN
    /\ r \in adding
    /\ adding' = adding \ {r}
    /\ IF status[s] = "gone" THEN UNCHANGED <<row, live, ghost>>
       ELSE /\ row' = [row EXCEPT ![r] = "active"]
            /\ live' = [live EXCEPT ![r] = "known"]
            /\ ghost' = [ghost EXCEPT !.torn = @ \ {r}, !.unnamed = @ \ {r},
                   !.late = IF Busy(s) \/ status[s] # "active" THEN @ \cup {r} ELSE @ \ {r}]
    /\ UNCHANGED <<page, rule, scans, status, exempt, actors, restoration, events>>

\* DeleteRecord of the user; one that fails may cross a suspension or restoration.
DeleteRecord(r) ==
    /\ row[r] = "active"
    /\ status[SubOf[r]] = "active"
    /\ \/ Event /\ Struck(r) /\ UNCHANGED ghost
       \/ NotStruck(r, Crossing({SubOf[r]}))
    /\ UNCHANGED <<page, rule, scans, status, exempt, actors, restoration, adding>>

\* The server stops and starts again: the stream keeps its messages, the channel
\* does not, and what the goroutines held is gone.
Stop ==
    LET halved == UNION {job[w].cut : w \in Workers} IN
    /\ Event
    /\ job' = [w \in Workers |-> NoJob]
    /\ claimed' = {}
    /\ restoration' = NoRestoration
    /\ adding' = {}
    /\ task' = IF durable THEN task ELSE [i \in Tasks |-> NoMessage]
    /\ ghost' = [ghost EXCEPT
           !.torn = @ \cup halved,
           !.unnamed = @ \cup restoration.made,
           !.orphaned = @ \cup claimed \cup
                        {s \in Subs : ~durable /\ exempt[s] = "rechecking"}]
    /\ UNCHANGED <<page, rule, scans, world, exempt, durable, sent>>

-----------------------------------------------------------------------------

Init ==
    /\ page = [s \in Subs |-> "shady"]
    /\ rule \in Rules
    /\ verdict = [s \in Subs |-> "none"]
    /\ since = [s \in Subs |-> FALSE]
    /\ status = [s \in Subs |-> "active"]
    /\ row = [r \in Recs |-> "active"]
    /\ live = [r \in Recs |-> "known"]
    /\ exempt = [s \in Subs |-> "none"]
    /\ task = [i \in Tasks |-> NoMessage]
    /\ durable \in BOOLEAN
    /\ claimed = {}
    /\ job = [w \in Workers |-> NoJob]
    /\ restoration = NoRestoration
    /\ adding = {}
    /\ ghost = [crossed |-> {}, orphaned |-> {}, hurried |-> {}, torn |-> {},
               late |-> {}, unnamed |-> {}]
    /\ sent = 0 /\ events = 0

WorkerStep(w) ==
    \/ Take(w) \/ Reclaim(w) \/ Judge(w) \/ Store(w) \/ Excuse(w)
    \/ Review(w) \/ Pick(w) \/ CutRecord(w) \/ Suspend(w) \/ Compensate(w)
    \/ StrikeRecord(w) \/ Release(w) \/ Finish(w)

Next ==
    \/ \E w \in Workers : WorkerStep(w)
    \/ \E s \in Subs : \/ Schedule(s) \/ Rescan(s) \/ StartRestore(s) \/ ClaimDue(s)
                       \/ Requeue(s) \/ ChangePage(s)
    \/ RestoreRecord \/ Restore
    \/ UpdateRule
    \/ \E r \in Recs : AddRecord(r) \/ RecordAdded(r) \/ DeleteRecord(r)
    \/ Stop

Spec == Init /\ [][Next]_vars

-----------------------------------------------------------------------------

JobType ==
    [pc : {"idle", "judge", "store", "excuse", "review", "pick", "cut", "undo",
           "strike", "finish"},
     task : Tasks \cup {Nothing}, sub : Subs \cup {Nothing}, recheck : BOOLEAN,
     page : {"fine", "shady"}, lax : BOOLEAN,
     act : {"none", "user", "site", "delete_dns", "observe", "spoilt"},
     at : Subs \cup {Nothing}, todo : SUBSET Subs, held : SUBSET Recs, cut : SUBSET Recs]

\* The variables have their types, a message not yet handled names a subdomain, and a
\* record's row has its subdomain's (the foreign key).
TypeOK ==
    /\ page \in [Subs -> {"fine", "shady"}]
    /\ rule \in Rules
    /\ verdict \in [Subs -> {"none", "fine", "shady"}]
    /\ since \in [Subs -> BOOLEAN]
    /\ status \in [Subs -> {"active", "suspended", "gone"}]
    /\ row \in [Recs -> {"none", "active", "suspended"}]
    /\ live \in [Recs -> {"none", "known", "stray"}]
    /\ exempt \in [Subs -> {"none", "pending", "rechecking", "completed"}]
    /\ task \in [Tasks -> [sub : Subs \cup {Nothing}, recheck : BOOLEAN,
                           at : {"queued", "taken", "done"}]]
    /\ \A i \in Tasks : task[i].at # "done" => task[i].sub \in Subs
    /\ \A r \in Recs : row[r] # "none" => status[SubOf[r]] # "gone"
    /\ durable \in BOOLEAN
    /\ claimed \subseteq Subs
    /\ job \in [Workers -> JobType]
    /\ restoration \in [sub : Subs \cup {Nothing}, todo : SUBSET Recs, made : SUBSET Recs]
    /\ adding \subseteq Recs
    /\ ghost \in [crossed : SUBSET Subs, orphaned : SUBSET Subs, hurried : SUBSET Subs,
                  torn : SUBSET Recs, late : SUBSET Recs,
                  unnamed : SUBSET Recs]
    /\ sent \in 0..MaxMessages /\ events \in 0..MaxEvents

\* suspendSubdomain and RestoreSubdomain: no record of a suspended subdomain is served.
\* Left out: a record whose creation was under way when the subdomain was suspended
\* (late), two actors at one subdomain (crossed), and a copy made under an id that no
\* active row holds (unnamed), by a compensation, by a creation whose answer was lost,
\* or by a failed deletion.
SuspendedNotServed ==
    \A r \in Recs : LET s == SubOf[r] IN
        status[s] = "suspended" /\ restoration.sub # s /\ s \notin ghost.crossed
            /\ r \notin ghost.late \cup ghost.unnamed
        => live[r] = "none"

\* compensateProviderRecords and RestoreSubdomain: when nobody is changing an active
\* subdomain, every active record of it is served, also after a suspension, a
\* restoration or a deletion that failed on the way.  Left out (torn): a record the
\* provider deleted for a call that failed, one that a failed compensation did not
\* make again, and one that a stop left deleted in the middle of a suspension.
ActiveServed ==
    \A r \in Recs : LET s == SubOf[r] IN
        status[s] = "active" /\ row[r] = "active" /\ ~Busy(s) /\ s \notin ghost.crossed
            /\ r \notin ghost.torn
        => live[r] # "none"

\* The exemption worker and ScanSubdomain: a recheck that was claimed is on its way,
\* in the worker's hand or in a message that is not acknowledged, whoever scans it,
\* unless the server stopped before the message was stored or the write that ends it
\* failed.
RecheckUnderway ==
    TypeOK /\ \A s \in Subs : exempt[s] = "rechecking" =>
        \/ s \in claimed \cup ghost.orphaned
        \/ \E i \in Tasks : task[i].at # "done" /\ task[i].sub = s /\ task[i].recheck

\* ScanSubdomain skips a page it judged clean: the page that would be skipped breaks no
\* rule in force.  Left out: a clean scan whose judgement was overtaken by a change of
\* the rules before the scan's row was stored, or made without rules because they could
\* not be read; later scans then skip that page for good.
SkipIsSafe ==
    \A s \in Subs : s \notin ghost.hurried /\ SamePage(s, page[s]) => ~Violates(page[s])
=============================================================================
