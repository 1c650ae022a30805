------------------------------ MODULE UserAdmin ------------------------------
(***************************************************************************)
(* What administrators do to accounts: ban and delete, which first take    *)
(* every record of the account down, unban, and the user groups; beside    *)
(* what the account itself does at the same time: a profile change, a      *)
(* claim, a record.                                                        *)
(*                                                                         *)
(* Every request is one process.  Between its steps it keeps what it read: *)
(* the list of subdomains to remove, the row it will save.  A transaction  *)
(* is one step, except a ban's, which locks, counts and only then writes.  *)
(***************************************************************************)
EXTENDS Integers, FiniteSets, TLC

CONSTANTS
    Users,
    Admins,        \* users whose role is admin
    Groups,
    AdminGroups,   \* groups with is_admin
    Subs,          \* subdomains, each with at most one record
    Requests,      \* bound: requests ever made
    Threshold,     \* DNSBatchThreshold: more records than this are queued
    MaxFaults,     \* bound: calls that fail
    Nobody

ASSUME ConstantsAssumption ==
    /\ Admins \subseteq Users /\ Admins # {} /\ IsFiniteSet(Admins)
    /\ AdminGroups \subseteq Groups
    /\ Threshold \in Nat /\ MaxFaults \in Nat
    /\ Nobody \notin Users \cup Groups \cup Requests

VARIABLES
    users,     \* rows of users
    groups,    \* rows of user_groups
    owner,     \* rows of subdomains: who holds each
    claimed,   \* identifiers of subdomains given out
    rows,      \* subdomains with a row in dns_records
    served,    \* subdomains whose record the provider serves
    recorded,  \* subdomains that ever had their record
    orphaned,  \* ghost: subdomains whose record a failed deletion made anew without its row
    queued,    \* records in the items of a bulk job
    guard,     \* the ban that holds the advisory lock and its target's row
    job,       \* what each request holds
    late,      \* ghost: claimed or recorded after its holder's holdings were listed
    hasty,     \* ghost: an administrator went on a count that was out of date
    tangled,   \* ghost: two changes of groups overlapped
    faults

holdings == <<owner, claimed, rows, served, recorded, queued, orphaned>>
ghosts == <<late, hasty, tangled>>
vars == <<users, groups, holdings, guard, job, ghosts, faults>>

NoRow == [banned |-> "none", group |-> Nobody]
NoJob == [step |-> "new", kind |-> "none", on |-> Nobody, until |-> "no",
          subs |-> {}, recs |-> {}, failed |-> FALSE, sure |-> TRUE,
          row |-> NoRow, group |-> Nobody, other |-> Nobody, image |-> "none"]
Ended == [NoJob EXCEPT !.step = "done"]

HasRow(u) == users[u] # NoRow
Barred(u) == users[u].banned \in {"timed", "forever", "over"}
ActiveAdmins == {u \in Admins : users[u].banned = "no"}
Exists(g) == groups[g] \in {"plain", "default"}
Owned(u) == {s \in Subs : owner[s] = u}
\* SELECT ... FOR UPDATE on the target of the ban that holds the lock.
Locked(u) == guard # Nobody /\ job[guard].on = u

New(r) == job[r] = NoJob
At(r, step) == job[r].step = step
Become(r, j) == job' = [job EXCEPT ![r] = j]
End(r) == Become(r, Ended)
Fault == faults < MaxFaults /\ faults' = faults + 1

\* RequireAdmin, behind Required.
Acting(a) == users[a].banned = "no" /\ (a \in Admins \/ users[a].group \in AdminGroups)

-----------------------------------------------------------------------------
(* Ban and deletion of an account *)

BanUser(r, a, u, until) ==
    /\ New(r) /\ Acting(a) /\ a # u /\ HasRow(u)
    /\ Become(r, [NoJob EXCEPT !.step = "list", !.kind = "ban", !.on = u, !.until = until])
    /\ UNCHANGED <<users, groups, holdings, guard, ghosts, faults>>

\* The count is taken here, before the records are taken down, and not again.
DeleteUser(r, a, u) ==
    /\ New(r) /\ Acting(a) /\ a # u /\ HasRow(u)
    /\ u \in Admins \/ users[u].group \in AdminGroups => Cardinality(ActiveAdmins) > 1
    /\ Become(r, [NoJob EXCEPT !.step = "list", !.kind = "delete", !.on = u])
    /\ UNCHANGED <<users, groups, holdings, guard, ghosts, faults>>

\* ListSubdomainsByUserWithRecords; a batch above the threshold becomes a job
\* and the request answers 409.  A failed read, a missing provider account or a
\* job that cannot be stored ends it as well.
ListHoldings(r) ==
    /\ At(r, "list")
    /\ LET subs == Owned(job[r].on)
           recs == subs \cap rows
       IN \/ /\ Cardinality(recs) > Threshold
             /\ queued' = queued \cup recs
             /\ End(r)
             /\ UNCHANGED faults
          \/ /\ Cardinality(recs) <= Threshold
             /\ Become(r, [job[r] EXCEPT !.step = "clean", !.subs = subs, !.recs = recs])
             /\ UNCHANGED <<queued, faults>>
          \/ Fault /\ End(r) /\ UNCHANGED queued
    /\ UNCHANGED <<users, groups, owner, claimed, rows, served, recorded, orphaned, guard, ghosts>>

\* deleteSingle takes the record and its row away, whether or not they are still there.
Struck(s) ==
    /\ served' = served \ {s}
    /\ rows' = rows \ {s}
    /\ UNCHANGED <<orphaned, faults>>

\* It fails at the provider, before or after the record went, or at the row:
\* then the compensation makes the record anew, even for a row another request
\* has removed meanwhile.
NotStruck(s) ==
    /\ Fault
    /\ served' \in {served, served \ {s}, served \cup {s}}
    /\ orphaned' = orphaned \cup ({s} \cap (served' \ (served \cup rows)))
    /\ UNCHANGED rows

\* One item of DeleteRecordsBatch.
CleanOne(r) ==
    /\ At(r, "clean")
    /\ \E s \in job[r].recs :
         \/ Struck(s) /\ Become(r, [job[r] EXCEPT !.recs = @ \ {s}])
         \/ NotStruck(s) /\ Become(r, [job[r] EXCEPT !.recs = @ \ {s}, !.failed = TRUE])
    /\ UNCHANGED <<users, groups, owner, claimed, recorded, queued, guard, ghosts>>

\* Mutant: records that could not be deleted do not stop the request.
CleanedUp(r) == At(r, "clean") /\ job[r].recs = {}

Cleaned(r) == At(r, "clean") /\ job[r].recs = {} /\ ~job[r].failed

\* deleteResult.Failed > 0: the answer is 409 and nothing else happens.
CleaningFailed(r) ==
    /\ At(r, "clean") /\ job[r].recs = {} /\ job[r].failed
    /\ End(r)
    /\ UNCHANGED <<users, groups, holdings, guard, ghosts, faults>>

\* Mutant: the count of administrators is not taken under one lock.
BanCounts(r) ==
    /\ job[r].kind = "ban" /\ Cleaned(r)
    /\ LET u == job[r].on
       IN IF ~HasRow(u) \/ (u \in ActiveAdmins /\ Cardinality(ActiveAdmins) <= 1)
          THEN End(r) /\ UNCHANGED guard
          ELSE guard' = r /\ Become(r, [job[r] EXCEPT !.step = "commit", !.sure = TRUE])
    /\ UNCHANGED <<users, groups, holdings, ghosts, faults>>

\* The ban's transaction up to the count: pg_advisory_xact_lock, the target's
\* row FOR UPDATE, and the number of active administrators.
BanGuard(r) ==
    /\ job[r].kind = "ban" /\ Cleaned(r)
    /\ guard = Nobody
    /\ LET u == job[r].on
       IN IF ~HasRow(u) \/ (u \in ActiveAdmins /\ Cardinality(ActiveAdmins) <= 1)
          THEN End(r) /\ UNCHANGED guard
          ELSE guard' = r /\ Become(r, [job[r] EXCEPT !.step = "commit", !.sure = TRUE])
    /\ UNCHANGED <<users, groups, holdings, ghosts, faults>>

\* The rows of the listed subdomains go, with whatever records they have now.
DropRows(subs) ==
    /\ rows' = rows \ subs
    /\ owner' = [s \in Subs |-> IF s \in subs THEN Nobody ELSE owner[s]]

\* Counts are out of date once an administrator is gone: bans wait for each
\* other, but neither a deletion for a ban nor a ban for a deletion.
AdminGoes(r, u) ==
    /\ hasty' = (hasty \/ (u \in ActiveAdmins /\ ~job[r].sure))
    /\ job' = [q \in Requests |-> IF q = r THEN Ended
                                  ELSE IF u \in ActiveAdmins /\ "delete" \in {job[r].kind, job[q].kind}
                                          /\ job[q].step \notin {"new", "done"}
                                       THEN [job[q] EXCEPT !.sure = FALSE]
                                       ELSE job[q]]

\* The rest of the transaction, or its rollback.
BanCommit(r) ==
    /\ At(r, "commit")
    /\ \/ /\ users' = [users EXCEPT ![job[r].on].banned = job[r].until]
          /\ DropRows(job[r].subs)
          /\ AdminGoes(r, job[r].on)
          /\ UNCHANGED faults
       \/ Fault /\ End(r) /\ UNCHANGED <<users, owner, rows, hasty>>
    /\ guard' = Nobody
    /\ UNCHANGED <<groups, claimed, served, recorded, queued, orphaned, late, tangled>>

\* A subdomain claimed since the listing still refers to the row of the user:
\* the foreign key rolls the transaction back.
DeleteCommit(r) ==
    /\ job[r].kind = "delete" /\ Cleaned(r) /\ ~Locked(job[r].on)
    /\ \/ /\ Owned(job[r].on) \subseteq job[r].subs
          /\ users' = [users EXCEPT ![job[r].on] = NoRow]
          /\ DropRows(job[r].subs)
          /\ AdminGoes(r, job[r].on)
          /\ UNCHANGED faults
       \/ /\ ~(Owned(job[r].on) \subseteq job[r].subs)
          /\ End(r)
          /\ UNCHANGED <<users, owner, rows, hasty, faults>>
       \/ Fault /\ End(r) /\ UNCHANGED <<users, owner, rows, hasty>>
    /\ UNCHANGED <<groups, claimed, served, recorded, queued, orphaned, guard, late, tangled>>

\* A bulk job reaches the item; it may give up after its attempts.
JobDeletes(s) ==
    /\ s \in queued
    /\ queued' = queued \ {s}
    /\ Struck(s) \/ NotStruck(s)
    /\ UNCHANGED <<users, groups, owner, claimed, recorded, guard, job, ghosts>>

\* An administrator deletes one record, or bans its holder for good.
AdminDeleteRecord(r, a, s) ==
    /\ New(r) /\ Acting(a) /\ s \in rows
    /\ \/ /\ a # owner[s]
          /\ Become(r, [NoJob EXCEPT !.step = "list", !.kind = "ban", !.on = owner[s],
                                     !.until = "forever"])
       \/ Become(r, [NoJob EXCEPT !.step = "strike", !.recs = {s}])
    /\ UNCHANGED <<users, groups, holdings, guard, ghosts, faults>>

\* deleteSingle for the record the request has read.
StrikeRecord(r) ==
    /\ At(r, "strike")
    /\ \E s \in job[r].recs : Struck(s) \/ NotStruck(s)
    /\ End(r)
    /\ UNCHANGED <<users, groups, owner, claimed, recorded, queued, guard, ghosts>>

-----------------------------------------------------------------------------
(* Lifting a ban, and the requests of the account itself *)

Unbanned(u) == [users EXCEPT ![u].banned = IF HasRow(u) THEN "no" ELSE @]

UnbanUser(r, a, u) ==
    /\ New(r) /\ Acting(a) /\ HasRow(u) /\ ~Locked(u)
    /\ users' = Unbanned(u)
    /\ End(r)
    /\ UNCHANGED <<groups, holdings, guard, ghosts, faults>>

\* The end of a temporary ban passes.
BanElapses(u) ==
    /\ users[u].banned = "timed" /\ ~Locked(u)
    /\ users' = [users EXCEPT ![u].banned = "over"]
    /\ UNCHANGED <<groups, holdings, guard, job, ghosts, faults>>

\* Required reads the row the handler will use; a ban that is over is lifted
\* first, by a second statement that asks for nothing but the identifier.
Enter(r, u, what) ==
    /\ New(r) /\ HasRow(u)
    /\ users[u].banned \in {"no", "over"}
    /\ Become(r, [NoJob EXCEPT !.step = IF users[u].banned = "over" THEN "lift" ELSE what,
                               !.kind = what, !.on = u,
                               !.row = [users[u] EXCEPT !.banned = "no"],
                               !.image = groups[users[u].group]])
    /\ UNCHANGED <<users, groups, holdings, guard, ghosts, faults>>

LiftExpiredBan(r) ==
    /\ At(r, "lift") /\ ~Locked(job[r].on)
    /\ users' = Unbanned(job[r].on)
    /\ Become(r, [job[r] EXCEPT !.step = job[r].kind])
    /\ UNCHANGED <<groups, holdings, guard, ghosts, faults>>

\* Save writes every column as it was read, stores a row that is no longer
\* there anew, and the group read with it when that is gone.
SaveProfile(r) ==
    /\ At(r, "profile") /\ ~Locked(job[r].on)
    /\ LET g == job[r].row.group
       IN /\ users' = [users EXCEPT ![job[r].on] = job[r].row]
          /\ groups' = [groups EXCEPT ![g] = IF Exists(g) THEN @ ELSE job[r].image]
          /\ tangled' = (tangled \/ ~Exists(g))
    /\ End(r)
    /\ UNCHANGED <<holdings, guard, late, hasty, faults>>

Listed(u) == Barred(u) \/ \E q \in Requests : job[q].on = u /\ job[q].step \in {"clean", "commit"}
                                              /\ job[q].kind \in {"ban", "delete"}

Claim(r, s) ==
    /\ At(r, "claim") /\ s \notin claimed
    /\ HasRow(job[r].on) /\ ~Locked(job[r].on)
    /\ owner' = [owner EXCEPT ![s] = job[r].on]
    /\ claimed' = claimed \cup {s}
    /\ late' = IF Listed(job[r].on) THEN late \cup {s} ELSE late
    /\ End(r)
    /\ UNCHANGED <<users, groups, rows, served, recorded, queued, orphaned, guard, hasty, tangled, faults>>

AddRecord(r, s) ==
    /\ At(r, "record") /\ owner[s] = job[r].on /\ s \notin recorded
    /\ served' = served \cup {s}
    /\ rows' = rows \cup {s}
    /\ recorded' = recorded \cup {s}
    /\ late' = IF Listed(job[r].on) THEN late \cup {s} ELSE late
    /\ End(r)
    /\ UNCHANGED <<users, groups, owner, claimed, queued, orphaned, guard, hasty, tangled, faults>>

-----------------------------------------------------------------------------
(* User groups *)

GroupSteps == {"setdefault", "savegroup", "dropgroup"}
Tangles(r) == \E q \in Requests \ {r} : job[q].step \in GroupSteps
NotesTangle(r) == tangled' = (tangled \/ Tangles(r))

CreateGroup(r, a, g, makeDefault) ==
    /\ New(r) /\ Acting(a) /\ groups[g] = "unborn"
    /\ groups' = [groups EXCEPT ![g] = "plain"]
    /\ IF makeDefault
       THEN Become(r, [NoJob EXCEPT !.step = "setdefault", !.kind = "create", !.group = g])
       ELSE End(r)
    /\ NotesTangle(r)
    /\ UNCHANGED <<users, holdings, guard, late, hasty, faults>>

\* SetDefaultUserGroup, one transaction; a failure ends the request.
SetDefault(r) ==
    /\ At(r, "setdefault")
    /\ \/ /\ groups' = [h \in Groups |-> IF ~Exists(h) THEN groups[h]
                                         ELSE IF h = job[r].group THEN "default" ELSE "plain"]
          /\ IF job[r].kind = "create" THEN End(r)
             ELSE Become(r, [job[r] EXCEPT !.step = "savegroup", !.image = "default"])
          /\ UNCHANGED faults
       \/ Fault /\ End(r) /\ UNCHANGED groups
    /\ NotesTangle(r)
    /\ UNCHANGED <<users, holdings, guard, late, hasty>>

UpdateGroup(r, a, g, makeDefault) ==
    /\ New(r) /\ Acting(a) /\ Exists(g)
    /\ Become(r, [NoJob EXCEPT !.step = IF makeDefault THEN "setdefault" ELSE "savegroup",
                               !.kind = "update", !.group = g, !.image = groups[g]])
    /\ NotesTangle(r)
    /\ UNCHANGED <<users, groups, holdings, guard, late, hasty, faults>>

SaveGroup(r) ==
    /\ At(r, "savegroup")
    /\ groups' = [groups EXCEPT ![job[r].group] = job[r].image]
    /\ End(r)
    /\ NotesTangle(r)
    /\ UNCHANGED <<users, holdings, guard, late, hasty, faults>>

DeleteGroup(r, a, g, h) ==
    /\ New(r) /\ Acting(a) /\ g # h /\ Exists(g) /\ Exists(h)
    /\ Cardinality({x \in Groups : Exists(x)}) > 1
    /\ Become(r, [NoJob EXCEPT !.step = "dropgroup", !.group = g, !.other = h, !.image = groups[g]])
    /\ NotesTangle(r)
    /\ UNCHANGED <<users, groups, holdings, guard, late, hasty, faults>>

Members(g) == {u \in Users : users[u].group = g}

\* Mutant: the default is not handed on.
DropGroupOnly(r) ==
    /\ At(r, "dropgroup")
    /\ users' = [u \in Users |-> IF users[u].group = job[r].group
                                 THEN [users[u] EXCEPT !.group = job[r].other] ELSE users[u]]
    /\ groups' = [groups EXCEPT ![job[r].group] = "gone"]
    /\ End(r)
    /\ NotesTangle(r)
    /\ UNCHANGED <<holdings, guard, late, hasty, faults>>

\* Members move first: with the other group gone their foreign key refuses it.
DropGroup(r) ==
    /\ At(r, "dropgroup")
    /\ LET g == job[r].group
           h == job[r].other
       IN \/ /\ Exists(h) \/ Members(g) = {}
             /\ \A u \in Members(g) : ~Locked(u)
             /\ users' = [u \in Users |-> IF u \in Members(g)
                                          THEN [users[u] EXCEPT !.group = h] ELSE users[u]]
             /\ groups' = [x \in Groups |-> IF x = g THEN "gone"
                                ELSE IF x = h /\ Exists(h) /\ job[r].image = "default"
                                     THEN "default" ELSE groups[x]]
             /\ UNCHANGED faults
          \/ ~Exists(h) /\ Members(g) # {} /\ UNCHANGED <<users, groups, faults>>
          \/ Fault /\ UNCHANGED <<users, groups>>
    /\ End(r)
    /\ NotesTangle(r)
    /\ UNCHANGED <<holdings, guard, late, hasty>>

UpdateUserGroup(r, a, u, g) ==
    /\ New(r) /\ Acting(a) /\ Exists(g) /\ HasRow(u) /\ ~Locked(u)
    /\ users' = [users EXCEPT ![u].group = g]
    /\ End(r)
    /\ UNCHANGED <<groups, holdings, guard, ghosts, faults>>

-----------------------------------------------------------------------------

\* An installation at work: everyone in the default group, subdomains in use.
Init ==
    /\ \E g \in Groups, late0 \in SUBSET Groups :
         /\ g \notin late0
         /\ groups = [x \in Groups |-> IF x = g THEN "default"
                                       ELSE IF x \in late0 THEN "unborn" ELSE "plain"]
         /\ users = [u \in Users |-> [banned |-> "no", group |-> g]]
    /\ owner \in [Subs -> (Users \ Admins) \cup {Nobody}]
    /\ claimed = {s \in Subs : owner[s] # Nobody}
    /\ rows = claimed
    /\ served = rows
    /\ recorded = rows
    /\ queued = {}
    /\ orphaned = {}
    /\ guard = Nobody
    /\ job = [r \in Requests |-> NoJob]
    /\ late = {}
    /\ hasty = FALSE
    /\ tangled = FALSE
    /\ faults = 0

Removal(r) ==
    \/ \E a, u \in Users : \/ \E until \in {"timed", "forever"} : BanUser(r, a, u, until)
                           \/ DeleteUser(r, a, u)
                           \/ \E s \in Subs : AdminDeleteRecord(r, a, s)
    \/ ListHoldings(r)
    \/ CleanOne(r)
    \/ StrikeRecord(r)
    \/ CleaningFailed(r)
    \/ BanGuard(r)
    \/ BanCommit(r)
    \/ DeleteCommit(r)

OwnRequest(r) ==
    \/ \E u \in Users, what \in {"profile", "claim", "record"} : Enter(r, u, what)
    \/ LiftExpiredBan(r)
    \/ SaveProfile(r)
    \/ \E s \in Subs : Claim(r, s) \/ AddRecord(r, s)

GroupRequest(r) ==
    \/ \E a \in Users, g \in Groups :
         \/ \E makeDefault \in BOOLEAN :
              CreateGroup(r, a, g, makeDefault) \/ UpdateGroup(r, a, g, makeDefault)
         \/ \E h \in Groups : DeleteGroup(r, a, g, h)
         \/ \E u \in Users : UpdateUserGroup(r, a, u, g)
    \/ SetDefault(r)
    \/ SaveGroup(r)
    \/ DropGroup(r)

Next ==
    \/ \E r \in Requests : Removal(r) \/ OwnRequest(r) \/ GroupRequest(r)
    \/ \E r \in Requests, a, u \in Users : UnbanUser(r, a, u)
    \/ \E s \in Subs : JobDeletes(s)
    \/ \E u \in Users : BanElapses(u)

Spec == Init /\ [][Next]_vars

-----------------------------------------------------------------------------

Rows == [banned : {"no", "timed", "forever", "over"}, group : Groups] \cup {NoRow}

\* Rows are rows, nobody holds a subdomain without one, and the lock is held
\* by a ban that is about to write.
TypeOK ==
    /\ users \in [Users -> Rows]
    /\ groups \in [Groups -> {"unborn", "gone", "plain", "default"}]
    /\ owner \in [Subs -> {u \in Users : HasRow(u)} \cup {Nobody}]
    /\ \A u \in Users : HasRow(u) => Exists(users[u].group)
    /\ rows \subseteq {s \in Subs : owner[s] # Nobody}
    /\ \A r \in Requests : At(r, "commit") <=> guard = r

\* However bans cross each other, an active administrator remains, unless one
\* was deleted on a count that was no longer true (DeleteUser takes no lock).
AnAdminIsLeft == hasty \/ ActiveAdmins # {}

\* A banned account holds nothing, and what the provider serves has a row by
\* which it can still be managed and deleted, but for what was added after a ban
\* or deletion had listed an account's subdomains and records (late), and for a
\* record that a failed deletion made anew when its row was gone (orphaned).
NothingLeftBehind ==
    /\ \A u \in Users : Barred(u) => Owned(u) \subseteq late
    /\ served \ rows \subseteq late \cup orphaned

\* New accounts find exactly one default group, as long as changes of groups
\* are made one after the other.
OneDefaultGroup ==
    /\ TypeOK
    /\ tangled \/ Cardinality({g \in Groups : groups[g] = "default"}) = 1
=============================================================================
