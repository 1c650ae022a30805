------------------------- MODULE UserAdminProofs -------------------------
(***************************************************************************)
(* Machine-checked proofs about UserAdmin, for every set of users, groups, *)
(* subdomains and requests, every threshold and every number of faults.    *)
(***************************************************************************)
EXTENDS UserAdmin, FiniteSetTheorems, TLAPS

RemovalSteps == {"list", "clean", "commit"}
OwnSteps == {"profile", "claim", "record"}
Steps == {"new", "done", "lift", "strike"} \cup RemovalSteps \cup OwnSteps \cup GroupSteps
GroupStates == {"unborn", "gone", "plain", "default"}
Fresh == [banned : {"no"}, group : Groups]
JobType == [step : Steps, kind : OwnSteps \cup {"none", "ban", "delete", "create", "update"},
            on : Users \cup {Nobody}, until : {"no", "timed", "forever"},
            subs : SUBSET Subs, recs : SUBSET Subs, failed : BOOLEAN, sure : BOOLEAN,
            row : Fresh \cup {NoRow}, group : Groups \cup {Nobody}, other : Groups \cup {Nobody},
            image : GroupStates \cup {"none"}]

RowsTyped ==
    /\ users \in [Users -> Rows]
    /\ owner \in [Subs -> Users \cup {Nobody}]
    /\ claimed \subseteq Subs /\ rows \subseteq Subs /\ served \subseteq Subs
    /\ hasty \in BOOLEAN /\ tangled \in BOOLEAN

\* Holders have rows, and records have subdomains.
OwnersOK ==
    /\ \A s \in Subs : owner[s] # Nobody => HasRow(owner[s]) /\ s \in claimed
    /\ \A s \in rows : owner[s] # Nobody

\* What the next step of a request takes from the steps before it.
JobOK(r) ==
    /\ job[r].step \in RemovalSteps => job[r].kind \in {"ban", "delete"} /\ job[r].on \in Users
    /\ job[r].kind = "ban" => job[r].until \in {"timed", "forever"}
    /\ job[r].step = "lift" => job[r].kind \in OwnSteps
    /\ job[r].step \in OwnSteps \cup {"lift"} =>
          /\ job[r].on \in Users /\ job[r].row \in Fresh
          /\ job[r].image \in {"plain", "default"}
    /\ job[r].step \in GroupSteps => job[r].group \in Groups
    /\ job[r].step \in {"savegroup", "dropgroup"} => job[r].image \in {"plain", "default"}
    /\ job[r].step = "dropgroup" => job[r].other \in Groups \ {job[r].group}

\* The ban that holds the lock has counted, and its target's row stays.
GuardOK ==
    /\ guard \in Requests \cup {Nobody}
    /\ \A r \in Requests : At(r, "commit") <=> guard = r
    /\ \A r \in Requests : At(r, "commit") =>
          HasRow(job[r].on) /\ job[r].kind = "ban" /\ job[r].recs = {} /\ ~job[r].failed

JobsOK == job \in [Requests -> JobType] /\ \A r \in Requests : JobOK(r)

Two(S) == \E x, y \in S : x # y

\* A request that still trusts its count leaves an administrator behind.
CountOK(r) ==
    /\ At(r, "commit") /\ job[r].sure /\ job[r].on \in ActiveAdmins => Two(ActiveAdmins)
    /\ job[r].kind = "delete" /\ job[r].step \in {"list", "clean"}
          /\ job[r].sure /\ job[r].on \in Admins => Two(ActiveAdmins)

AdminsOK == AnAdminIsLeft /\ \A r \in Requests : CountOK(r)

\* Whatever a listed account has beyond the list came late, and what the list
\* holds is taken down, is still to be, or could not be.
ListOK(r) ==
    job[r].step \in {"clean", "commit"} =>
        /\ Owned(job[r].on) \subseteq job[r].subs \cup late
        /\ \A s \in job[r].subs : owner[s] \in {job[r].on, Nobody} /\ s \in claimed
        /\ job[r].failed \/ job[r].subs \cap (served \cup rows)
                             \subseteq job[r].recs \cup late \cup orphaned

HoldingsOK == NothingLeftBehind /\ \A r \in Requests : ListOK(r)

\* Untangled, a change of groups finds the groups as it left them.
GroupsTyped ==
    /\ groups \in [Groups -> GroupStates]
    /\ \A u \in Users : HasRow(u) => Exists(users[u].group)

ChangeOK(r) ==
    /\ At(r, "setdefault") => Exists(job[r].group)
    /\ At(r, "savegroup") => job[r].image = groups[job[r].group]
    /\ At(r, "dropgroup") => /\ job[r].image = groups[job[r].group] /\ Exists(job[r].group)
                             /\ Exists(job[r].other) /\ job[r].group # job[r].other

DefaultOK ==
    ~tangled =>
        /\ \E g \in Groups : \A h \in Groups : groups[h] = "default" <=> h = g
        /\ \A r \in Requests : ChangeOK(r)
        /\ \A r, q \in Requests : job[r].step \in GroupSteps /\ job[q].step \in GroupSteps => r = q

IInv ==
    /\ RowsTyped /\ OwnersOK /\ JobsOK /\ GuardOK
    /\ AdminsOK /\ HoldingsOK
    /\ GroupsTyped /\ DefaultOK

-----------------------------------------------------------------------------
\* Lemmas about the operators of the model.

LEMMA EmptyJobs ==
    /\ NoJob \in JobType /\ Ended \in JobType
    /\ NoJob.step = "new" /\ NoJob.kind = "none" /\ NoJob.on = Nobody
    /\ Ended.step = "done" /\ Ended.kind = "none"
    /\ NoRow.banned = "none" /\ NoRow.group = Nobody
BY DEF NoJob, Ended, JobType, Steps, NoRow, RemovalSteps, OwnSteps, GroupSteps

LEMMA FreshRows ==
    /\ Fresh \subseteq Rows /\ NoRow \notin Fresh
    /\ \A row \in Rows : row # NoRow => /\ row.group \in Groups
                                        /\ row.banned \in {"no", "timed", "forever", "over"}
                                        /\ [row EXCEPT !.banned = "no"] \in Fresh
                                        /\ [row EXCEPT !.banned = "no"].group = row.group
    /\ \A row \in Fresh : row.banned = "no" /\ row.group \in Groups
<1>1. \A row \in Fresh : row.banned = "no" /\ row.group \in Groups
  BY DEF Fresh
<1>2. Fresh \subseteq Rows
  BY DEF Fresh, Rows
<1>3. NoRow \notin Fresh
  BY <1>1, EmptyJobs
<1>4. ASSUME NEW row \in Rows, row # NoRow
      PROVE  /\ row.group \in Groups
             /\ row.banned \in {"no", "timed", "forever", "over"}
             /\ [row EXCEPT !.banned = "no"] \in Fresh
             /\ [row EXCEPT !.banned = "no"].group = row.group
  <2>1. row \in [banned : {"no", "timed", "forever", "over"}, group : Groups]
    BY <1>4 DEF Rows
  <2> QED
    BY <2>1 DEF Fresh
<1> QED
  BY <1>1, <1>2, <1>3, <1>4

LEMMA NobodyApart == Nobody \notin Users /\ Nobody \notin Groups /\ Nobody \notin Requests
BY ConstantsAssumption

\* A row that is there has a group and one of the four states of a ban.
LEMMA RowKnown ==
    ASSUME RowsTyped, NEW u \in Users
    PROVE  /\ users[u] \in Rows
           /\ HasRow(u) => /\ users[u].group \in Groups
                           /\ users[u].banned \in {"no", "timed", "forever", "over"}
           /\ ~HasRow(u) => users[u].banned = "none" /\ users[u].group = Nobody
           /\ users[u].banned \in {"no", "timed", "forever", "over"} => HasRow(u)
           /\ users[u].group \in Groups => HasRow(u)
<1>1. users[u] \in Rows
  BY DEF RowsTyped
<1>2. CASE HasRow(u)
  <2>1. users[u].group \in Groups /\ users[u].banned \in {"no", "timed", "forever", "over"}
    BY <1>1, <1>2, FreshRows DEF HasRow
  <2> QED
    BY <1>1, <1>2, <2>1
<1>3. CASE ~HasRow(u)
  <2>1. users[u].banned = "none" /\ users[u].group = Nobody
    BY <1>3, EmptyJobs DEF HasRow
  <2> QED
    BY <1>1, <1>3, <2>1, NobodyApart
<1> QED
  BY <1>2, <1>3

\* Of finitely many administrators, more than one is two.
LEMMA TwoAdmins ==
    /\ Cardinality(ActiveAdmins) > 1 => Two(ActiveAdmins)
    /\ ~(Cardinality(ActiveAdmins) <= 1) => Two(ActiveAdmins)
<1>1. IsFiniteSet(ActiveAdmins) /\ Cardinality(ActiveAdmins) \in Nat
  BY FS_Subset, FS_CardinalityType, ConstantsAssumption DEF ActiveAdmins
<1>2. ASSUME ~Two(ActiveAdmins) PROVE Cardinality(ActiveAdmins) <= 1
  <2>1. CASE ActiveAdmins = {}
    BY <2>1, FS_EmptySet
  <2>2. CASE ActiveAdmins # {}
    <3>1. PICK a \in ActiveAdmins : TRUE
      BY <2>2
    <3>2. ActiveAdmins = {a}
      BY <1>2, <3>1 DEF Two
    <3>3. Cardinality({a}) = 1
      BY FS_Singleton
    <3> QED
      BY <3>2, <3>3
  <2> QED
    BY <2>1, <2>2
<1> QED
  BY <1>1, <1>2

LEMMA BecomeMoves ==
    ASSUME JobsOK, NEW r \in Requests, NEW j \in JobType, Become(r, j)
    PROVE  /\ job' \in [Requests -> JobType] /\ job'[r] = j
           /\ \A q \in Requests \ {r} : job'[q] = job[q]
BY DEF JobsOK, Become

\* One default group is a set of one.
LEMMA OneIsOne ==
    ASSUME NEW g \in Groups, \A h \in Groups : groups[h] = "default" <=> h = g
    PROVE  Cardinality({h \in Groups : groups[h] = "default"}) = 1
<1>1. {h \in Groups : groups[h] = "default"} = {g}
  OBVIOUS
<1>2. Cardinality({g}) = 1
  BY FS_Singleton
<1> QED
  BY <1>1, <1>2

-----------------------------------------------------------------------------
\* The invariant holds at first and gives the properties.

LEMMA IInvImplies == IInv => AnAdminIsLeft /\ NothingLeftBehind /\ OneDefaultGroup
<1> SUFFICES ASSUME IInv PROVE AnAdminIsLeft /\ NothingLeftBehind /\ OneDefaultGroup
  OBVIOUS
<1>1. TypeOK
  BY DEF IInv, RowsTyped, OwnersOK, JobsOK, GuardOK, GroupsTyped, GroupStates, TypeOK
<1>2. ~tangled => Cardinality({g \in Groups : groups[g] = "default"}) = 1
  BY OneIsOne DEF IInv, DefaultOK
<1> QED
  BY <1>1, <1>2 DEF IInv, AdminsOK, HoldingsOK, OneDefaultGroup

LEMMA IInvInit == Init => IInv
<1> SUFFICES ASSUME Init PROVE IInv
  OBVIOUS
<1>1. PICK g \in Groups, late0 \in SUBSET Groups :
         /\ g \notin late0
         /\ groups = [x \in Groups |-> IF x = g THEN "default"
                                       ELSE IF x \in late0 THEN "unborn" ELSE "plain"]
         /\ users = [u \in Users |-> [banned |-> "no", group |-> g]]
  BY DEF Init
<1>2. \A u \in Users : users[u] \in Fresh /\ users[u].banned = "no" /\ users[u].group = g
  BY <1>1 DEF Fresh
<1>3. \A u \in Users : HasRow(u) /\ ~Barred(u)
  BY <1>2, FreshRows DEF HasRow, Barred
<1>4. owner \in [Subs -> Users \cup {Nobody}]
  BY DEF Init
<1>5. RowsTyped
  BY <1>1, <1>2, <1>4, FreshRows DEF Init, RowsTyped
<1>6. OwnersOK
  BY <1>3, <1>4, NobodyApart DEF Init, OwnersOK
<1>7. \A r \in Requests : job[r] = NoJob
  BY DEF Init
<1>8. JobsOK
  BY <1>7, EmptyJobs DEF Init, JobsOK, JobOK, RemovalSteps, OwnSteps, GroupSteps
<1>9. GuardOK
  BY <1>7, EmptyJobs, NobodyApart DEF Init, GuardOK, At
<1>10. AdminsOK
  <2>1. ActiveAdmins # {}
    BY <1>2, ConstantsAssumption DEF ActiveAdmins
  <2> QED
    BY <1>7, <2>1, EmptyJobs DEF AdminsOK, AnAdminIsLeft, CountOK, At
<1>11. HoldingsOK
  BY <1>3, <1>7, EmptyJobs DEF Init, HoldingsOK, NothingLeftBehind, ListOK
<1>12. GroupsTyped
  BY <1>1, <1>2 DEF GroupsTyped, GroupStates, Exists
<1>13. DefaultOK
  <2>1. \A h \in Groups : groups[h] = "default" <=> h = g
    BY <1>1
  <2> QED
    BY <1>7, <2>1, EmptyJobs DEF DefaultOK, ChangeOK, At, GroupSteps
<1> QED
  BY <1>5, <1>6, <1>8, <1>9, <1>10, <1>11, <1>12, <1>13 DEF IInv

-----------------------------------------------------------------------------
\* What most steps leave as it was.

LEMMA JobsMove ==
    ASSUME IInv, NEW r \in Requests, NEW j \in JobType, Become(r, j), JobOK(r)'
    PROVE  JobsOK'
BY BecomeMoves DEF IInv, JobsOK, JobOK

LEMMA GuardKept ==
    ASSUME IInv, NEW r \in Requests, NEW j \in JobType, Become(r, j), UNCHANGED guard,
           job[r].step # "commit", j.step # "commit",
           \A u \in Users : HasRow(u) /\ Locked(u) => HasRow(u)'
    PROVE  GuardOK'
<1>1. job'[r] = j /\ \A q \in Requests \ {r} : job'[q] = job[q]
  BY BecomeMoves DEF IInv
<1>2. \A q \in Requests : At(q, "commit")' <=> At(q, "commit") /\ q # r
  BY <1>1 DEF At
<1>3. \A q \in Requests : At(q, "commit") => HasRow(job[q].on)'
  <2> SUFFICES ASSUME NEW q \in Requests, At(q, "commit") PROVE HasRow(job[q].on)'
    OBVIOUS
  <2>1. q # r /\ guard = q /\ HasRow(job[q].on) /\ job[q].on \in Users /\ job'[q] = job[q]
    BY <1>1 DEF IInv, GuardOK, JobsOK, JobOK, At, RemovalSteps
  <2>2. Locked(job[q].on)
    BY <2>1, NobodyApart DEF Locked
  <2>3. \A u \in Users : u = job[q].on => HasRow(u)'
    BY <2>1, <2>2
  <2> QED
    BY <2>1, <2>3 DEF HasRow
<1>4. \A q \in Requests : q # r \/ ~At(q, "commit")
  BY DEF At
<1> QED
  BY <1>1, <1>2, <1>3, <1>4 DEF IInv, GuardOK, HasRow

\* No administrator goes, and the target of a ban that has counted does not come
\* back under its lock.
LEMMA AdminsKept ==
    ASSUME IInv, NEW r \in Requests, NEW j \in JobType, Become(r, j), UNCHANGED hasty,
           ActiveAdmins \subseteq ActiveAdmins',
           \A u \in ActiveAdmins' : Locked(u) => u \in ActiveAdmins,
           CountOK(r)'
    PROVE  AdminsOK'
<1>1. job'[r] = j /\ \A q \in Requests \ {r} : job'[q] = job[q]
  BY BecomeMoves DEF IInv
<1>2. Two(ActiveAdmins) => Two(ActiveAdmins')
  BY DEF Two
<1>3. ASSUME NEW q \in Requests \ {r} PROVE CountOK(q)'
  <2>1. At(q, "commit") => Locked(job[q].on)
    BY NobodyApart DEF IInv, GuardOK, Locked
  <2>2. CountOK(q)
    BY DEF IInv, AdminsOK
  <2> QED
    BY <1>1, <1>2, <2>1, <2>2 DEF CountOK, At, Two
<1>4. AnAdminIsLeft'
  BY DEF IInv, AdminsOK, AnAdminIsLeft
<1> QED
  BY <1>3, <1>4 DEF AdminsOK

\* Nobody holds more, and nothing is served anew but what is orphaned by it.
Shrinks ==
    /\ rows' \subseteq rows /\ served' \subseteq Subs /\ orphaned \subseteq orphaned'
    /\ served' \subseteq served \cup rows \cup orphaned'
    /\ served' \ rows' \subseteq late \cup orphaned'

LEMMA HoldingsKept ==
    ASSUME IInv, NEW r \in Requests, NEW j \in JobType, Become(r, j),
           UNCHANGED <<owner, claimed, late>>, Shrinks,
           \A u \in Users : Barred(u)' => Barred(u),
           ListOK(r)'
    PROVE  HoldingsOK'
<1>1. job'[r] = j /\ \A q \in Requests \ {r} : job'[q] = job[q]
  BY BecomeMoves DEF IInv
<1>2. ASSUME NEW q \in Requests \ {r} PROVE ListOK(q)'
  <2>1. ListOK(q)
    BY DEF IInv, HoldingsOK
  <2> QED
    BY <1>1, <2>1 DEF ListOK, Owned, Shrinks
<1>3. NothingLeftBehind'
  BY DEF IInv, HoldingsOK, NothingLeftBehind, Owned, Shrinks
<1> QED
  BY <1>2, <1>3 DEF HoldingsOK

LEMMA HoldingsSame ==
    ASSUME IInv, UNCHANGED <<rows, served, orphaned>>
    PROVE  Shrinks
BY DEF IInv, RowsTyped, HoldingsOK, NothingLeftBehind, Shrinks

\* A deletion shrinks them, and when it succeeds the record and its row are gone.
LEMMA DeletionShrinks ==
    ASSUME IInv, NEW s \in Subs, Struck(s) \/ NotStruck(s)
    PROVE  /\ Shrinks
           /\ Struck(s) => s \notin served' \cup rows' /\ served' \cup rows' \subseteq served \cup rows
BY DEF IInv, RowsTyped, HoldingsOK, NothingLeftBehind, Shrinks, Struck, NotStruck

\* A request that does not change groups.
LEMMA DefaultKept ==
    ASSUME IInv, NEW r \in Requests, NEW j \in JobType, Become(r, j), UNCHANGED groups,
           tangled => tangled', tangled' \in BOOLEAN, j.step \notin GroupSteps
    PROVE  DefaultOK'
<1>1. job'[r] = j /\ \A q \in Requests \ {r} : job'[q] = job[q]
  BY BecomeMoves DEF IInv
<1> SUFFICES ASSUME ~tangled' PROVE DefaultOK'
  BY DEF DefaultOK
<1>2. \A q \in Requests : ChangeOK(q)'
  BY <1>1 DEF IInv, DefaultOK, ChangeOK, At, GroupSteps, Exists
<1> QED
  BY <1>1, <1>2 DEF IInv, DefaultOK

LEMMA GroupsSame ==
    ASSUME IInv, UNCHANGED groups,
           \A u \in Users : HasRow(u)' => users'[u].group = users[u].group /\ HasRow(u)
    PROVE  GroupsTyped'
BY DEF IInv, GroupsTyped, Exists

-----------------------------------------------------------------------------
\* Ban and deletion.

\* A request that moves on while users, groups and holdings stay.
LEMMA OnlyMoves ==
    ASSUME IInv, NEW r \in Requests, NEW j \in JobType, Become(r, j),
           UNCHANGED <<users, groups, owner, claimed, guard, ghosts>>,
           Shrinks,
           job[r].step # "commit", j.step # "commit", j.step \notin GroupSteps,
           JobOK(r)', CountOK(r)', ListOK(r)'
    PROVE  IInv'
<1> USE DEF ghosts
<1>1. RowsTyped' /\ OwnersOK'
  BY DEF IInv, RowsTyped, OwnersOK, HasRow, Shrinks
<1>2. JobsOK'
  BY JobsMove
<1>3. GuardOK'
  BY GuardKept DEF HasRow
<1>4. AdminsOK'
  BY AdminsKept DEF ActiveAdmins
<1>5. HoldingsOK'
  BY HoldingsKept DEF Barred
<1>6. GroupsTyped'
  BY GroupsSame DEF HasRow
<1>7. DefaultOK'
  BY DefaultKept DEF IInv, RowsTyped
<1> QED
  BY <1>1, <1>2, <1>3, <1>4, <1>5, <1>6, <1>7 DEF IInv

\* A request that ends leaves nothing to claim of it.
LEMMA EndClaims ==
    ASSUME JobsOK, NEW r \in Requests, End(r)
    PROVE  /\ Become(r, Ended) /\ job'[r] = Ended
           /\ JobOK(r)' /\ CountOK(r)' /\ ListOK(r)' /\ ChangeOK(r)'
           /\ Ended.step \notin GroupSteps
<1>1. Become(r, Ended) /\ job'[r] = Ended
  BY BecomeMoves, EmptyJobs DEF End
<1> QED
  BY <1>1, EmptyJobs
     DEF JobOK, CountOK, ListOK, ChangeOK, At, RemovalSteps, OwnSteps, GroupSteps

LEMMA OnlyEnds ==
    ASSUME IInv, NEW r \in Requests, End(r),
           UNCHANGED <<users, groups, owner, claimed, guard, ghosts>>,
           Shrinks, job[r].step # "commit"
    PROVE  IInv'
BY EndClaims, EmptyJobs, OnlyMoves DEF IInv

\* A ban or deletion that begins has listed nothing yet.
LEMMA RemovalBegins ==
    ASSUME IInv, NEW r \in Requests, NEW j \in JobType, Become(r, j), New(r),
           j.step = "list", j.kind \in {"ban", "delete"}, j.on \in Users,
           j.kind = "ban" => j.until \in {"timed", "forever"},
           j.kind = "delete" /\ j.on \in Admins => Two(ActiveAdmins),
           UNCHANGED <<users, groups, holdings, guard, ghosts>>
    PROVE  IInv'
<1>1. job'[r] = j
  BY BecomeMoves DEF IInv
<1>2. JobOK(r)' /\ CountOK(r)' /\ ListOK(r)'
  BY <1>1
     DEF JobOK, CountOK, ListOK, At, RemovalSteps, OwnSteps, GroupSteps, ActiveAdmins, ghosts, Two
<1>3. j.step \notin GroupSteps /\ job[r].step # "commit"
  BY EmptyJobs DEF GroupSteps, New
<1> QED
  BY <1>2, <1>3, OnlyMoves, HoldingsSame DEF holdings, ghosts

LEMMA BanUserStep ==
    ASSUME IInv, NEW r \in Requests, NEW a, NEW u \in Users, NEW until \in {"timed", "forever"},
           BanUser(r, a, u, until)
    PROVE  IInv'
<1> DEFINE j == [NoJob EXCEPT !.step = "list", !.kind = "ban", !.on = u, !.until = until]
<1>1. j \in JobType /\ j.step = "list" /\ j.kind = "ban" /\ j.on = u /\ j.until = until
  BY DEF NoJob, JobType, Steps, NoRow, RemovalSteps, OwnSteps, GroupSteps
<1>2. Become(r, j)
  BY DEF BanUser
<1> HIDE DEF j
<1> QED
  BY <1>1, <1>2, RemovalBegins DEF BanUser

LEMMA DeleteUserStep ==
    ASSUME IInv, NEW r \in Requests, NEW a, NEW u \in Users, DeleteUser(r, a, u)
    PROVE  IInv'
<1> DEFINE j == [NoJob EXCEPT !.step = "list", !.kind = "delete", !.on = u]
<1>1. j \in JobType /\ j.step = "list" /\ j.kind = "delete" /\ j.on = u
  BY DEF NoJob, JobType, Steps, NoRow, RemovalSteps, OwnSteps, GroupSteps
<1>2. Become(r, j)
  BY DEF DeleteUser
<1>3. u \in Admins => Two(ActiveAdmins)
  BY TwoAdmins DEF DeleteUser
<1> HIDE DEF j
<1> QED
  BY <1>1, <1>2, <1>3, RemovalBegins DEF DeleteUser

LEMMA ListHoldingsStep ==
    ASSUME IInv, NEW r \in Requests, ListHoldings(r)
    PROVE  IInv'
<1> DEFINE subs == Owned(job[r].on)
           recs == subs \cap rows
           j == [job[r] EXCEPT !.step = "clean", !.subs = subs, !.recs = recs]
<1>1. /\ At(r, "list") /\ UNCHANGED <<users, groups, owner, claimed, rows, served, orphaned, guard, ghosts>>
  BY DEF ListHoldings, ghosts
<1>2. Shrinks
  BY <1>1, HoldingsSame
<1>3. CASE End(r)
  BY <1>1, <1>2, <1>3, OnlyEnds DEF At
<1>4. CASE Become(r, j)
  <2>1. /\ job[r] \in JobType /\ job[r].on \in Users /\ job[r].kind \in {"ban", "delete"}
        /\ job[r].kind = "ban" => job[r].until \in {"timed", "forever"}
    BY <1>1 DEF IInv, JobsOK, JobOK, At, RemovalSteps
  <2>2. subs \subseteq Subs /\ recs \subseteq Subs
    BY DEF Owned
  <2>3. /\ j \in JobType /\ j.step = "clean" /\ j.subs = subs /\ j.recs = recs
        /\ j.kind = job[r].kind /\ j.on = job[r].on /\ j.until = job[r].until
        /\ j.sure = job[r].sure
    <3> HIDE DEF subs, recs
    <3> QED
      BY <2>1, <2>2 DEF JobType, Steps, RemovalSteps
  <2> HIDE DEF j
  <2>4. job'[r] = j
    BY <1>4, <2>3, BecomeMoves DEF IInv
  <2>5. JobOK(r)'
    BY <2>1, <2>3, <2>4 DEF JobOK, RemovalSteps, OwnSteps, GroupSteps
  <2>6. CountOK(r)'
    <3>1. CountOK(r)
      BY DEF IInv, AdminsOK
    <3> QED
      BY <1>1, <2>3, <2>4, <3>1 DEF CountOK, At, ActiveAdmins, Two
  <2>7. ListOK(r)'
    <3>1. \A s \in subs : owner[s] = job[r].on /\ s \in claimed
      BY <2>1, NobodyApart DEF Owned, IInv, OwnersOK
    <3>2. subs \cap (served \cup rows) \subseteq recs \cup late \cup orphaned
      BY DEF IInv, HoldingsOK, NothingLeftBehind
    <3> QED
      BY <1>1, <2>3, <2>4, <3>1, <3>2 DEF ListOK, Owned, ghosts
  <2>8. j.step \notin GroupSteps /\ j.step # "commit" /\ job[r].step # "commit"
    BY <1>1, <2>3 DEF GroupSteps, At
  <2> QED
    BY <1>1, <1>2, <1>4, <2>3, <2>5, <2>6, <2>7, <2>8, OnlyMoves
<1> QED
  BY <1>3, <1>4 DEF ListHoldings

LEMMA CleanOneStep ==
    ASSUME IInv, NEW r \in Requests, CleanOne(r)
    PROVE  IInv'
<1>1. At(r, "clean") /\ UNCHANGED <<users, groups, owner, claimed, guard, ghosts>>
  BY DEF CleanOne
<1>2. PICK s \in job[r].recs :
         \/ Struck(s) /\ Become(r, [job[r] EXCEPT !.recs = @ \ {s}])
         \/ NotStruck(s) /\ Become(r, [job[r] EXCEPT !.recs = @ \ {s}, !.failed = TRUE])
  BY DEF CleanOne
<1>3. /\ job[r] \in JobType /\ job[r].step = "clean" /\ JobOK(r) /\ CountOK(r) /\ ListOK(r)
  BY <1>1 DEF IInv, JobsOK, AdminsOK, HoldingsOK, At
<1>4. s \in Subs /\ Shrinks
  <2>1. s \in Subs
    BY <1>3 DEF JobType
  <2> QED
    BY <1>2, <2>1, DeletionShrinks
<1>5. ASSUME NEW j \in JobType, Become(r, j), j.step = "clean", j.kind = job[r].kind, j.on = job[r].on,
             j.until = job[r].until, j.sure = job[r].sure, j.subs = job[r].subs,
             \/ j.failed
             \/ j.failed = job[r].failed /\ j.recs = job[r].recs \ {s} /\ Struck(s)
      PROVE  IInv'
  <2>1. job'[r] = j
    BY <1>5, BecomeMoves DEF IInv
  <2>2. JobOK(r)'
    BY <1>3, <1>5, <2>1 DEF JobOK, RemovalSteps, OwnSteps, GroupSteps
  <2>3. CountOK(r)'
    BY <1>1, <1>3, <1>5, <2>1 DEF CountOK, At, ActiveAdmins, Two
  <2>4. ListOK(r)'
    <3>1. \/ j.failed
          \/ job[r].subs \cap (served' \cup rows') \subseteq j.recs \cup late \cup orphaned'
      BY <1>3, <1>4, <1>5, DeletionShrinks DEF ListOK, Shrinks
    <3> QED
      BY <1>1, <1>3, <1>5, <2>1, <3>1 DEF ListOK, Owned, ghosts
  <2>5. j.step \notin GroupSteps /\ j.step # "commit" /\ job[r].step # "commit"
    BY <1>3, <1>5 DEF GroupSteps
  <2> QED
    BY <1>1, <1>4, <1>5, <2>2, <2>3, <2>4, <2>5, OnlyMoves
<1>6. CASE Struck(s) /\ Become(r, [job[r] EXCEPT !.recs = @ \ {s}])
  <2> DEFINE j == [job[r] EXCEPT !.recs = @ \ {s}]
  <2>1. /\ j \in JobType /\ j.step = "clean" /\ j.kind = job[r].kind /\ j.on = job[r].on
        /\ j.until = job[r].until /\ j.sure = job[r].sure /\ j.subs = job[r].subs
        /\ j.recs = job[r].recs \ {s} /\ j.failed = job[r].failed
    BY <1>3 DEF JobType
  <2> HIDE DEF j
  <2> QED
    BY <1>5, <1>6, <2>1 DEF j
<1>7. CASE NotStruck(s) /\ Become(r, [job[r] EXCEPT !.recs = @ \ {s}, !.failed = TRUE])
  <2> DEFINE j == [job[r] EXCEPT !.recs = @ \ {s}, !.failed = TRUE]
  <2>1. /\ j \in JobType /\ j.step = "clean" /\ j.kind = job[r].kind /\ j.on = job[r].on
        /\ j.until = job[r].until /\ j.sure = job[r].sure /\ j.subs = job[r].subs
        /\ j.failed
    BY <1>3 DEF JobType
  <2> HIDE DEF j
  <2> QED
    BY <1>5, <1>7, <2>1 DEF j
<1> QED
  BY <1>2, <1>6, <1>7

LEMMA CleaningFailedStep ==
    ASSUME IInv, NEW r \in Requests, CleaningFailed(r)
    PROVE  IInv'
BY OnlyEnds, HoldingsSame DEF CleaningFailed, At, holdings, ghosts

LEMMA AdminDeleteRecordStep ==
    ASSUME IInv, NEW r \in Requests, NEW a, NEW s \in Subs, AdminDeleteRecord(r, a, s)
    PROVE  IInv'
<1>1. /\ New(r) /\ s \in rows /\ job[r].step # "commit"
      /\ UNCHANGED <<users, groups, holdings, guard, ghosts>>
  BY EmptyJobs DEF AdminDeleteRecord, New
<1>2. owner[s] \in Users
  BY <1>1 DEF IInv, OwnersOK, RowsTyped
<1> DEFINE ban == [NoJob EXCEPT !.step = "list", !.kind = "ban", !.on = owner[s], !.until = "forever"]
           strike == [NoJob EXCEPT !.step = "strike", !.recs = {s}]
<1>3. CASE Become(r, ban)
  <2>1. ban \in JobType /\ ban.step = "list" /\ ban.kind = "ban" /\ ban.on = owner[s] /\ ban.until = "forever"
    BY <1>2 DEF NoJob, JobType, Steps, NoRow, RemovalSteps, OwnSteps, GroupSteps
  <2> HIDE DEF ban
  <2> QED
    BY <1>1, <1>2, <1>3, <2>1, RemovalBegins
<1>4. CASE Become(r, strike)
  <2>1. strike \in JobType /\ strike.step = "strike" /\ strike.kind = "none"
    BY DEF NoJob, JobType, Steps, NoRow, RemovalSteps, OwnSteps, GroupSteps
  <2> HIDE DEF strike
  <2>2. job'[r] = strike
    BY <1>4, <2>1, BecomeMoves DEF IInv
  <2>3. JobOK(r)' /\ CountOK(r)' /\ ListOK(r)'
    BY <2>1, <2>2 DEF JobOK, CountOK, ListOK, At, RemovalSteps, OwnSteps, GroupSteps
  <2>4. strike.step \notin GroupSteps /\ strike.step # "commit"
    BY <2>1 DEF GroupSteps
  <2> QED
    BY <1>1, <1>4, <2>1, <2>3, <2>4, OnlyMoves, HoldingsSame DEF holdings
<1> QED
  BY <1>3, <1>4 DEF AdminDeleteRecord

LEMMA StrikeRecordStep ==
    ASSUME IInv, NEW r \in Requests, StrikeRecord(r)
    PROVE  IInv'
<1>1. At(r, "strike") /\ End(r) /\ UNCHANGED <<users, groups, owner, claimed, guard, ghosts>>
  BY DEF StrikeRecord
<1>2. PICK s \in job[r].recs : Struck(s) \/ NotStruck(s)
  BY DEF StrikeRecord
<1>3. s \in Subs
  BY DEF IInv, JobsOK, JobType
<1> QED
  BY <1>1, <1>2, <1>3, DeletionShrinks, OnlyEnds DEF At

LEMMA BanGuardStep ==
    ASSUME IInv, NEW r \in Requests, BanGuard(r)
    PROVE  IInv'
<1>1. /\ At(r, "clean") /\ job[r].recs = {} /\ ~job[r].failed /\ job[r].kind = "ban"
      /\ guard = Nobody /\ UNCHANGED <<users, groups, holdings, ghosts>>
  BY DEF BanGuard, Cleaned
<1>2. Shrinks
  BY <1>1, HoldingsSame DEF holdings
<1>3. CASE End(r) /\ UNCHANGED guard
  BY <1>1, <1>2, <1>3, OnlyEnds DEF holdings, At
<1> DEFINE j == [job[r] EXCEPT !.step = "commit", !.sure = TRUE]
<1>4. CASE /\ HasRow(job[r].on) /\ guard' = r /\ Become(r, j)
           /\ ~(job[r].on \in ActiveAdmins /\ Cardinality(ActiveAdmins) <= 1)
  <2>1. job[r] \in JobType /\ JobOK(r) /\ ListOK(r)
    BY DEF IInv, JobsOK, HoldingsOK
  <2>2. /\ j \in JobType /\ j.step = "commit" /\ j.kind = "ban" /\ j.on = job[r].on
        /\ j.until = job[r].until /\ j.subs = job[r].subs /\ j.recs = {} /\ ~j.failed
    BY <1>1, <2>1 DEF JobType, Steps, RemovalSteps
  <2> HIDE DEF j
  <2>3. job' \in [Requests -> JobType] /\ job'[r] = j /\ \A q \in Requests \ {r} : job'[q] = job[q]
    BY <1>4, <2>2, BecomeMoves DEF IInv
  <2>4. Two(ActiveAdmins) \/ job[r].on \notin ActiveAdmins
    BY <1>4, TwoAdmins
  <2>5. RowsTyped' /\ OwnersOK'
    BY <1>1 DEF IInv, RowsTyped, OwnersOK, HasRow, holdings, ghosts
  <2>6. JobsOK'
    BY <1>1, <1>4, <2>1, <2>2, <2>3, JobsMove DEF JobOK, At, RemovalSteps, OwnSteps, GroupSteps
  <2>7. GuardOK'
    <3>1. \A q \in Requests : ~At(q, "commit")
      BY <1>1, NobodyApart DEF IInv, GuardOK
    <3> QED
      BY <1>1, <1>4, <2>2, <2>3, <3>1 DEF GuardOK, At, HasRow
  <2>8. AdminsOK'
    <3>1. CountOK(r)'
      BY <1>1, <2>2, <2>3, <2>4 DEF CountOK, At, ActiveAdmins, Two
    <3> QED
      BY <1>1, <1>4, <2>2, <3>1, AdminsKept DEF ActiveAdmins, ghosts
  <2>9. HoldingsOK'
    <3>1. ListOK(r)'
      BY <1>1, <2>1, <2>2, <2>3 DEF ListOK, Owned, At, holdings, ghosts
    <3> QED
      BY <1>1, <1>2, <1>4, <2>2, <3>1, HoldingsKept DEF Barred, holdings, ghosts
  <2>10. GroupsTyped' /\ DefaultOK'
    BY <1>1, <1>4, <2>2, GroupsSame, DefaultKept DEF HasRow, ghosts, IInv, RowsTyped, GroupSteps
  <2> QED
    BY <2>5, <2>6, <2>7, <2>8, <2>9, <2>10 DEF IInv
<1> QED
  BY <1>3, <1>4 DEF BanGuard

\* When an administrator goes, the counts others took are not trusted any more;
\* nothing else about their requests changes.
LEMMA CountsExpire ==
    ASSUME IInv, NEW r \in Requests, NEW u, AdminGoes(r, u)
    PROVE  /\ job' \in [Requests -> JobType] /\ job'[r] = Ended
           /\ \A q \in Requests \ {r} :
                /\ job'[q].step = job[q].step /\ job'[q].kind = job[q].kind
                /\ job'[q].on = job[q].on /\ job'[q].until = job[q].until
                /\ job'[q].subs = job[q].subs /\ job'[q].recs = job[q].recs
                /\ job'[q].failed = job[q].failed /\ job'[q].row = job[q].row
                /\ job'[q].group = job[q].group /\ job'[q].other = job[q].other
                /\ job'[q].image = job[q].image
                /\ job'[q].sure => job[q].sure
                /\ u \in ActiveAdmins /\ "delete" \in {job[r].kind, job[q].kind}
                     /\ job[q].step \notin {"new", "done"} => ~job'[q].sure
<1>1. \A q \in Requests : job[q] \in JobType
  BY DEF IInv, JobsOK
<1>2. ASSUME NEW q \in Requests, job'[q] = [job[q] EXCEPT !.sure = FALSE]
      PROVE  /\ job'[q] \in JobType
             /\ job'[q].step = job[q].step /\ job'[q].kind = job[q].kind
             /\ job'[q].on = job[q].on /\ job'[q].until = job[q].until
             /\ job'[q].subs = job[q].subs /\ job'[q].recs = job[q].recs
             /\ job'[q].failed = job[q].failed /\ job'[q].row = job[q].row
             /\ job'[q].group = job[q].group /\ job'[q].other = job[q].other
             /\ job'[q].image = job[q].image /\ job'[q].sure = FALSE
  BY <1>1, <1>2 DEF JobType
<1>3. job'[r] = Ended
  BY DEF AdminGoes
<1>4. ASSUME NEW q \in Requests \ {r}
      PROVE  \/ job'[q] = [job[q] EXCEPT !.sure = FALSE]
             \/ /\ job'[q] = job[q]
                /\ ~(u \in ActiveAdmins /\ "delete" \in {job[r].kind, job[q].kind}
                       /\ job[q].step \notin {"new", "done"})
  BY DEF AdminGoes
<1>5. job' = [q \in Requests |-> job'[q]]
  BY DEF AdminGoes
<1>6. \A q \in Requests : job'[q] \in JobType
  BY <1>1, <1>2, <1>3, <1>4, EmptyJobs
<1>7. job' \in [Requests -> JobType]
  BY <1>5, <1>6
<1> QED
  BY <1>2, <1>3, <1>4, <1>7

\* The rows a removal writes at its end.
LEMMA RemovalCommits ==
    ASSUME IInv, NEW r \in Requests, NEW u \in Users, job[r].on = u, NEW row \in Rows,
           \/ job[r].kind = "ban" /\ At(r, "commit")
           \/ job[r].kind = "delete" /\ Cleaned(r) /\ ~Locked(u),
           AdminGoes(r, u), DropRows(job[r].subs), users' = [users EXCEPT ![u] = row],
           row.banned # "no", row # NoRow => HasRow(u) /\ row.group = users[u].group,
           row = NoRow => job[r].kind = "delete" /\ Owned(u) \subseteq job[r].subs,
           guard' = IF guard = r THEN Nobody ELSE guard,
           UNCHANGED <<groups, claimed, served, orphaned, late, tangled>>
    PROVE  IInv'
<1>1. /\ job[r] \in JobType /\ JobOK(r) /\ ListOK(r) /\ CountOK(r)
      /\ job[r].recs = {} /\ ~job[r].failed /\ job[r].step \in {"clean", "commit"}
      /\ job[r].subs \subseteq Subs
  BY DEF IInv, JobsOK, AdminsOK, HoldingsOK, GuardOK, Cleaned, At, JobType
<1>2. /\ users' \in [Users -> Rows] /\ users'[u] = row
      /\ \A v \in Users \ {u} : users'[v] = users[v]
  BY DEF IInv, RowsTyped
<1>3. \A s \in Subs : owner'[s] = IF s \in job[r].subs THEN Nobody ELSE owner[s]
  BY DEF DropRows
<1>4. rows' = rows \ job[r].subs
  BY DEF DropRows
<1>5. RowsTyped'
  <2>1. owner' \in [Subs -> Users \cup {Nobody}]
    BY <1>3 DEF DropRows, IInv, RowsTyped
  <2>2. hasty' \in BOOLEAN
    BY DEF AdminGoes, IInv, RowsTyped
  <2> QED
    BY <1>2, <1>4, <2>1, <2>2 DEF IInv, RowsTyped
<1>6. OwnersOK'
  <2>1. ASSUME NEW s \in Subs, owner'[s] # Nobody PROVE users'[owner'[s]] # NoRow /\ s \in claimed'
    <3>1. owner'[s] = owner[s] /\ s \notin job[r].subs /\ owner[s] \in Users
      BY <1>3, <2>1 DEF IInv, RowsTyped
    <3>2. HasRow(owner[s]) /\ s \in claimed
      BY <2>1, <3>1 DEF IInv, OwnersOK
    <3>3. owner[s] = u => row # NoRow
      BY <3>1 DEF Owned
    <3> QED
      BY <1>2, <3>1, <3>2, <3>3 DEF HasRow
  <2>2. \A s \in rows' : owner'[s] # Nobody
    BY <1>3, <1>4 DEF IInv, OwnersOK, RowsTyped
  <2> QED
    BY <2>1, <2>2 DEF OwnersOK, HasRow
<1>7. JobsOK'
  BY CountsExpire, EmptyJobs DEF IInv, JobsOK, JobOK, RemovalSteps, OwnSteps, GroupSteps
<1>8. \A q \in Requests \ {r} : At(q, "commit") => job[q].on # u /\ job[r].kind = "delete" /\ guard = q
  BY NobodyApart DEF IInv, GuardOK, Locked
<1>9. GuardOK'
  <2>1. \A q \in Requests : At(q, "commit")' <=> q # r /\ At(q, "commit")
    BY CountsExpire, EmptyJobs DEF At
  <2>2. ASSUME NEW q \in Requests, q # r, At(q, "commit")
        PROVE  users'[job[q].on] # NoRow
    <3>1. job[q].on \in Users /\ HasRow(job[q].on)
      BY <2>2 DEF IInv, GuardOK, JobsOK, JobOK, At, RemovalSteps
    <3> QED
      BY <1>2, <1>8, <2>2, <3>1 DEF HasRow
  <2>3. guard' \in Requests \cup {Nobody} /\ \A q \in Requests : guard' = q <=> q # r /\ guard = q
    BY NobodyApart DEF IInv, GuardOK
  <2>4. \A q \in Requests : q # r /\ At(q, "commit") =>
          /\ job'[q].on = job[q].on /\ job'[q].kind = "ban" /\ job'[q].recs = {} /\ ~job'[q].failed
    BY CountsExpire DEF IInv, GuardOK
  <2> QED
    BY <2>1, <2>2, <2>3, <2>4 DEF GuardOK, IInv, HasRow
<1>10. AdminsOK'
  <2>1. ActiveAdmins' = ActiveAdmins \ {u}
    BY <1>2 DEF ActiveAdmins
  <2>2. CASE u \notin ActiveAdmins
    <3>1. ActiveAdmins' = ActiveAdmins /\ hasty' = hasty
      BY <2>1, <2>2 DEF AdminGoes, IInv, RowsTyped
    <3>2. \A q \in Requests : CountOK(q)'
      BY <3>1, CountsExpire, EmptyJobs DEF IInv, AdminsOK, CountOK, At, Two
    <3> QED
      BY <3>1, <3>2 DEF IInv, AdminsOK, AnAdminIsLeft
  <2>3. CASE u \in ActiveAdmins
    <3>1. hasty' \/ ActiveAdmins' # {}
      <4>1. CASE job[r].sure
        <5>1. Two(ActiveAdmins)
          BY <1>1, <2>3, <4>1 DEF CountOK, At, Cleaned, ActiveAdmins
        <5> QED
          BY <2>1, <5>1 DEF Two
      <4>2. CASE ~job[r].sure
        BY <2>3, <4>2 DEF AdminGoes
      <4> QED
        BY <4>1, <4>2
    <3>2. ASSUME NEW q \in Requests \ {r} PROVE CountOK(q)'
      <4>1. job'[q].kind = "delete" /\ job'[q].step \in {"list", "clean"} => ~job'[q].sure
        BY <2>3, CountsExpire
      <4>2. At(q, "commit")' => ~job'[q].sure
        <5>1. At(q, "commit")' => job[q].step = "commit" /\ job[r].kind = "delete"
          BY <1>8, CountsExpire DEF At
        <5> QED
          BY <2>3, <5>1, CountsExpire
      <4> QED
        BY <4>1, <4>2 DEF CountOK
    <3>3. CountOK(r)'
      BY CountsExpire, EmptyJobs DEF CountOK, At
    <3> QED
      BY <3>1, <3>2, <3>3 DEF AdminsOK, AnAdminIsLeft
  <2> QED
    BY <2>2, <2>3
<1>11. HoldingsOK'
  <2>1. \A v : Owned(v)' \subseteq Owned(v) \/ v = Nobody
    BY <1>3 DEF Owned
  <2>2. Owned(u)' \subseteq late
    BY <1>1, <1>3, NobodyApart DEF ListOK, Owned
  <2>3. \A v \in Users : Barred(v)' => Owned(v)' \subseteq late'
    BY <1>2, <2>1, <2>2, NobodyApart DEF IInv, HoldingsOK, NothingLeftBehind, Barred
  <2>4. served' \ rows' \subseteq late' \cup orphaned'
    BY <1>1, <1>4 DEF ListOK, IInv, HoldingsOK, NothingLeftBehind
  <2>5. ASSUME NEW q \in Requests \ {r} PROVE ListOK(q)'
    <3>1. ListOK(q) /\ JobOK(q)
      BY DEF IInv, HoldingsOK, JobsOK
    <3>2. job[q].step \in {"clean", "commit"} => job[q].on \in Users /\ job[q].subs \subseteq Subs
      BY <3>1 DEF JobOK, RemovalSteps, IInv, JobsOK, JobType
    <3> QED
      BY <1>3, <1>4, <2>1, <3>1, <3>2, CountsExpire, NobodyApart DEF ListOK
  <2>6. ListOK(r)'
    BY CountsExpire, EmptyJobs DEF ListOK
  <2> QED
    BY <2>3, <2>4, <2>5, <2>6 DEF HoldingsOK, NothingLeftBehind
<1>12. GroupsTyped'
  <2>1. \A v \in Users : HasRow(v)' => users'[v].group = users[v].group /\ HasRow(v)
    BY <1>2 DEF HasRow
  <2> QED
    BY <2>1, GroupsSame
<1>13. DefaultOK'
  <2> SUFFICES ASSUME ~tangled PROVE DefaultOK'
    BY DEF DefaultOK
  <2>1. \A q \in Requests : ChangeOK(q)'
    BY CountsExpire, EmptyJobs DEF IInv, DefaultOK, ChangeOK, At, Exists
  <2>2. \A q \in Requests : job'[q].step \in GroupSteps => job[q].step \in GroupSteps
    BY CountsExpire, EmptyJobs DEF GroupSteps
  <2> QED
    BY <2>1, <2>2 DEF IInv, DefaultOK
<1> QED
  BY <1>5, <1>6, <1>7, <1>9, <1>10, <1>11, <1>12, <1>13 DEF IInv

LEMMA BanCommitStep ==
    ASSUME IInv, NEW r \in Requests, BanCommit(r)
    PROVE  IInv'
<1> DEFINE u == job[r].on
<1>1. /\ At(r, "commit") /\ guard = r /\ u \in Users /\ HasRow(u) /\ job[r].kind = "ban"
      /\ job[r].until \in {"timed", "forever"} /\ guard' = Nobody
      /\ UNCHANGED <<groups, claimed, served, recorded, queued, orphaned, late, tangled>>
  BY DEF BanCommit, IInv, GuardOK, JobsOK, JobOK, At, RemovalSteps
<1>2. CASE /\ users' = [users EXCEPT ![u].banned = job[r].until]
           /\ DropRows(job[r].subs) /\ AdminGoes(r, u)
  <2> DEFINE row == [users[u] EXCEPT !.banned = job[r].until]
  <2>1. users' = [users EXCEPT ![u] = row]
    BY <1>2
  <2>2. row \in Rows /\ row.banned = job[r].until /\ row.group = users[u].group
    <3>1. users[u] \in [banned : {"no", "timed", "forever", "over"}, group : Groups]
      BY <1>1 DEF IInv, RowsTyped, HasRow, Rows
    <3> QED
      BY <1>1, <3>1 DEF Rows
  <2> HIDE DEF row
  <2>3. row # NoRow /\ row.banned # "no"
    BY <1>1, <2>2, EmptyJobs
  <2> QED
    BY <1>1, <1>2, <2>1, <2>2, <2>3, RemovalCommits
<1>3. CASE End(r) /\ UNCHANGED <<users, owner, rows, hasty>>
  <2>1. /\ job' \in [Requests -> JobType] /\ job'[r] = Ended
        /\ \A q \in Requests \ {r} : job'[q] = job[q]
    BY <1>3, EndClaims, BecomeMoves, EmptyJobs DEF IInv
  <2>2. RowsTyped' /\ OwnersOK'
    BY <1>1, <1>3 DEF IInv, RowsTyped, OwnersOK, HasRow
  <2>3. JobsOK'
    BY <1>3, EndClaims, EmptyJobs, JobsMove DEF IInv
  <2>4. GuardOK'
    <3>1. \A q \in Requests : ~At(q, "commit")'
      BY <1>1, <2>1, EmptyJobs DEF IInv, GuardOK, At
    <3> QED
      BY <1>1, <3>1, NobodyApart DEF GuardOK
  <2>5. AdminsOK'
    BY <1>3, EndClaims, EmptyJobs, AdminsKept DEF IInv, ActiveAdmins
  <2>6. HoldingsOK'
    BY <1>1, <1>3, EndClaims, EmptyJobs, HoldingsKept, HoldingsSame DEF IInv, Barred
  <2>7. GroupsTyped' /\ DefaultOK'
    BY <1>1, <1>3, EndClaims, EmptyJobs, GroupsSame, DefaultKept DEF HasRow, IInv, RowsTyped
  <2> QED
    BY <2>2, <2>3, <2>4, <2>5, <2>6, <2>7 DEF IInv
<1> QED
  BY <1>2, <1>3 DEF BanCommit

LEMMA DeleteCommitStep ==
    ASSUME IInv, NEW r \in Requests, DeleteCommit(r)
    PROVE  IInv'
<1> DEFINE u == job[r].on
<1>1. /\ job[r].kind = "delete" /\ Cleaned(r) /\ ~Locked(u) /\ u \in Users /\ ~At(r, "commit")
      /\ UNCHANGED <<groups, claimed, served, recorded, queued, orphaned, guard, late, tangled>>
  BY DEF DeleteCommit, Cleaned, IInv, JobsOK, JobOK, At, RemovalSteps
<1>2. CASE /\ Owned(u) \subseteq job[r].subs /\ users' = [users EXCEPT ![u] = NoRow]
           /\ DropRows(job[r].subs) /\ AdminGoes(r, u)
  <2>1. NoRow \in Rows /\ NoRow.banned # "no" /\ guard # r
    BY <1>1, EmptyJobs DEF Rows, IInv, GuardOK
  <2>2. guard' = IF guard = r THEN Nobody ELSE guard
    BY <1>1, <2>1
  <2> QED
    BY <1>1, <1>2, <2>1, <2>2, RemovalCommits
<1>3. CASE End(r) /\ UNCHANGED <<users, owner, rows, hasty>>
  <2>1. Shrinks
    BY <1>1, <1>3, HoldingsSame
  <2> QED
    BY <1>1, <1>3, <2>1, OnlyEnds DEF ghosts, At
<1> QED
  BY <1>2, <1>3 DEF DeleteCommit

LEMMA JobDeletesStep ==
    ASSUME IInv, NEW s \in Subs, JobDeletes(s)
    PROVE  IInv'
<1>1. UNCHANGED <<users, groups, owner, claimed, guard, job, ghosts>> /\ Shrinks
  BY DeletionShrinks DEF JobDeletes
<1> USE <1>1 DEF ghosts
<1>2. RowsTyped' /\ OwnersOK'
  BY DEF IInv, RowsTyped, OwnersOK, HasRow, Shrinks
<1>3. JobsOK' /\ GuardOK' /\ AdminsOK'
  BY DEF IInv, JobsOK, JobOK, GuardOK, AdminsOK, AnAdminIsLeft, ActiveAdmins, CountOK, At, HasRow, Two
<1>4. HoldingsOK'
  BY DEF IInv, HoldingsOK, NothingLeftBehind, ListOK, Barred, Owned, Shrinks
<1>5. GroupsTyped' /\ DefaultOK'
  BY DEF IInv, GroupsTyped, DefaultOK, ChangeOK, Exists, HasRow, At
<1> QED
  BY <1>2, <1>3, <1>4, <1>5 DEF IInv

-----------------------------------------------------------------------------
\* Lifting a ban, and the account's own requests.

\* A row is written with the ban it had or with none.
LEMMA RowChanges ==
    ASSUME IInv, NEW r \in Requests, NEW j \in JobType, Become(r, j),
           NEW u \in Users, NEW row \in Rows, users' = [users EXCEPT ![u] = row], ~Locked(u),
           HasRow(u) => row # NoRow, row.banned \in {"no", users[u].banned},
           UNCHANGED <<owner, claimed, rows, served, orphaned, guard, late, hasty>>, tangled' \in BOOLEAN,
           job[r].step # "commit", j.step # "commit",
           JobOK(r)', CountOK(r)', ListOK(r)', GroupsTyped', DefaultOK'
    PROVE  IInv'
<1>1. /\ users' \in [Users -> Rows] /\ users'[u] = row
      /\ \A v \in Users \ {u} : users'[v] = users[v]
  BY DEF IInv, RowsTyped
<1>2. \A v \in Users : HasRow(v) => HasRow(v)'
  BY <1>1 DEF HasRow
<1>3. RowsTyped'
  BY <1>1 DEF IInv, RowsTyped
<1>4. OwnersOK'
  <2>1. ASSUME NEW s \in Subs, owner[s] # Nobody PROVE users'[owner[s]] # NoRow /\ s \in claimed
    BY <1>2, <2>1 DEF IInv, OwnersOK, RowsTyped, HasRow
  <2> QED
    BY <2>1 DEF IInv, OwnersOK, HasRow
<1>5. JobsOK'
  BY JobsMove
<1>6. GuardOK'
  BY <1>2, GuardKept
<1>7. AdminsOK'
  <2>1. ActiveAdmins \subseteq ActiveAdmins'
    BY <1>1, ConstantsAssumption DEF ActiveAdmins
  <2>2. \A v \in ActiveAdmins' : Locked(v) => v \in ActiveAdmins
    BY <1>1, ConstantsAssumption DEF ActiveAdmins
  <2> QED
    BY <2>1, <2>2, AdminsKept
<1>8. HoldingsOK'
  <2>1. \A v \in Users : Barred(v)' => Barred(v)
    BY <1>1 DEF Barred
  <2> QED
    BY <2>1, HoldingsSame, HoldingsKept
<1> QED
  BY <1>3, <1>4, <1>5, <1>6, <1>7, <1>8 DEF IInv

\* A ban is lifted for an account that is there.
LEMMA UnbannedRow ==
    ASSUME IInv, NEW u \in Users
    PROVE  \E row \in Rows : /\ Unbanned(u) = [users EXCEPT ![u] = row]
                             /\ HasRow(u) => row # NoRow
                             /\ row.banned \in {"no", users[u].banned}
                             /\ row.group = users[u].group
                             /\ row # NoRow => HasRow(u)
<1>1. CASE HasRow(u)
  <2> DEFINE row == [users[u] EXCEPT !.banned = "no"]
  <2>1. Unbanned(u) = [users EXCEPT ![u] = row]
    BY <1>1 DEF Unbanned
  <2>2. row \in Fresh /\ row.group = users[u].group
    BY <1>1, RowKnown, FreshRows DEF IInv, HasRow
  <2> HIDE DEF row
  <2>3. row \in Rows /\ row # NoRow /\ row.banned = "no"
    BY <2>2, FreshRows
  <2> QED
    BY <1>1, <2>1, <2>2, <2>3
<1>2. CASE ~HasRow(u)
  <2>1. users[u] = NoRow /\ users \in [Users -> Rows]
    BY <1>2 DEF HasRow, IInv, RowsTyped
  <2>2. [NoRow EXCEPT !.banned = @] = NoRow
    BY DEF NoRow
  <2>3. Unbanned(u) = [users EXCEPT ![u] = NoRow]
    BY <1>2, <2>1, <2>2 DEF Unbanned
  <2> QED
    BY <1>2, <2>1, <2>3 DEF Rows
<1> QED
  BY <1>1, <1>2

LEMMA Unban ==
    ASSUME IInv, NEW r \in Requests, NEW j \in JobType, Become(r, j), NEW u \in Users,
           users' = Unbanned(u), ~Locked(u),
           UNCHANGED <<groups, holdings, guard, ghosts>>,
           job[r].step # "commit", j.step # "commit", j.step \notin GroupSteps,
           JobOK(r)', CountOK(r)', ListOK(r)'
    PROVE  IInv'
<1>1. PICK row \in Rows : /\ users' = [users EXCEPT ![u] = row]
                          /\ HasRow(u) => row # NoRow
                          /\ row.banned \in {"no", users[u].banned}
                          /\ row.group = users[u].group
                          /\ row # NoRow => HasRow(u)
  BY UnbannedRow
<1>2. \A v \in Users : HasRow(v)' => users'[v].group = users[v].group /\ HasRow(v)
  BY <1>1 DEF HasRow, IInv, RowsTyped
<1>3. GroupsTyped'
  BY <1>2, GroupsSame
<1>4. DefaultOK' /\ tangled' \in BOOLEAN
  BY DefaultKept DEF ghosts, IInv, RowsTyped
<1> QED
  BY <1>1, <1>3, <1>4, RowChanges DEF holdings, ghosts

LEMMA UnbanUserStep ==
    ASSUME IInv, NEW r \in Requests, NEW a, NEW u \in Users, UnbanUser(r, a, u)
    PROVE  IInv'
<1>1. job[r].step = "new"
  BY EmptyJobs DEF UnbanUser, New
<1> QED
  BY <1>1, EndClaims, EmptyJobs, Unban DEF UnbanUser, IInv

LEMMA BanElapsesStep ==
    ASSUME IInv, NEW u \in Users, BanElapses(u)
    PROVE  IInv'
<1> DEFINE row == [users[u] EXCEPT !.banned = "over"]
<1>1. /\ users' = [users EXCEPT ![u] = row] /\ users[u].banned = "timed"
      /\ UNCHANGED <<groups, owner, claimed, rows, served, orphaned, guard, job, late, hasty, tangled>>
  BY DEF BanElapses, holdings, ghosts
<1>2. row \in Rows /\ row.banned = "over" /\ row.group = users[u].group
  <2>1. HasRow(u)
    BY <1>1, RowKnown DEF IInv
  <2>2. users[u] \in [banned : {"no", "timed", "forever", "over"}, group : Groups]
    BY <2>1 DEF IInv, RowsTyped, HasRow, Rows
  <2> QED
    BY <2>2 DEF Rows
<1> HIDE DEF row
<1>3. row # NoRow /\ HasRow(u)
  BY <1>1, <1>2, EmptyJobs, RowKnown DEF IInv
<1>4. /\ users' \in [Users -> Rows] /\ users'[u] = row
      /\ \A v \in Users \ {u} : users'[v] = users[v]
  BY <1>1, <1>2 DEF IInv, RowsTyped
<1>5. \A v \in Users : HasRow(v) <=> HasRow(v)'
  BY <1>3, <1>4 DEF HasRow
<1>6. RowsTyped'
  BY <1>1, <1>4 DEF IInv, RowsTyped
<1>7. OwnersOK'
  <2>1. ASSUME NEW s \in Subs, owner[s] # Nobody PROVE users'[owner[s]] # NoRow /\ s \in claimed
    BY <1>5, <2>1 DEF IInv, OwnersOK, RowsTyped, HasRow
  <2> QED
    BY <1>1, <2>1 DEF IInv, OwnersOK, HasRow
<1>8. JobsOK' /\ GuardOK'
  <2>1. ASSUME NEW q \in Requests, At(q, "commit") PROVE users'[job[q].on] # NoRow
    <3>1. job[q].on \in Users /\ HasRow(job[q].on)
      BY <2>1 DEF IInv, GuardOK, JobsOK, JobOK, At, RemovalSteps
    <3> QED
      BY <1>5, <3>1 DEF HasRow
  <2> QED
    BY <1>1, <2>1 DEF IInv, JobsOK, JobOK, GuardOK, At, HasRow
<1>9. AdminsOK'
  <2>1. ActiveAdmins' = ActiveAdmins
    BY <1>1, <1>2, <1>4, ConstantsAssumption DEF ActiveAdmins
  <2> QED
    BY <1>1, <2>1 DEF IInv, AdminsOK, AnAdminIsLeft, CountOK, At
<1>10. HoldingsOK'
  <2>1. \A v \in Users : Barred(v)' => Barred(v)
    BY <1>1, <1>4 DEF Barred
  <2> QED
    BY <1>1, <2>1 DEF IInv, HoldingsOK, NothingLeftBehind, ListOK, Owned
<1>11. GroupsTyped'
  <2>1. \A v \in Users : HasRow(v)' => users'[v].group = users[v].group /\ HasRow(v)
    BY <1>2, <1>4, <1>5
  <2> QED
    BY <1>1, <2>1, GroupsSame
<1>12. DefaultOK'
  BY <1>1 DEF IInv, DefaultOK, ChangeOK, At, Exists
<1> QED
  BY <1>6, <1>7, <1>8, <1>9, <1>10, <1>11, <1>12 DEF IInv

LEMMA EnterStep ==
    ASSUME IInv, NEW r \in Requests, NEW u \in Users, NEW what \in OwnSteps, Enter(r, u, what)
    PROVE  IInv'
<1> DEFINE step == IF users[u].banned = "over" THEN "lift" ELSE what
           row == [users[u] EXCEPT !.banned = "no"]
           image == groups[users[u].group]
           j == [NoJob EXCEPT !.step = step, !.kind = what, !.on = u, !.row = row, !.image = image]
<1>1. /\ New(r) /\ Become(r, j) /\ HasRow(u)
      /\ UNCHANGED <<users, groups, holdings, guard, ghosts>>
  BY DEF Enter
<1>2. row \in Fresh /\ image \in {"plain", "default"} /\ step \in OwnSteps \cup {"lift"}
  BY <1>1, RowKnown, FreshRows DEF IInv, GroupsTyped, Exists, HasRow
<1>3. /\ j \in JobType /\ j.step = step /\ j.kind = what /\ j.on = u /\ j.row = row
      /\ j.image = image
  <2> HIDE DEF step, row, image
  <2> QED
    BY <1>2 DEF NoJob, JobType, Steps, NoRow, RemovalSteps, OwnSteps, GroupSteps, GroupStates
<1> HIDE DEF j, step, row, image
<1>4. job'[r] = j
  BY <1>1, <1>3, BecomeMoves DEF IInv
<1>5. JobOK(r)' /\ CountOK(r)' /\ ListOK(r)'
  BY <1>2, <1>3, <1>4 DEF JobOK, CountOK, ListOK, At, RemovalSteps, OwnSteps, GroupSteps
<1>6. job[r].step # "commit" /\ j.step # "commit" /\ j.step \notin GroupSteps
  BY <1>1, <1>2, <1>3, EmptyJobs DEF New, OwnSteps, GroupSteps
<1> QED
  BY <1>1, <1>3, <1>5, <1>6, OnlyMoves, HoldingsSame DEF holdings, ghosts

LEMMA LiftExpiredBanStep ==
    ASSUME IInv, NEW r \in Requests, LiftExpiredBan(r)
    PROVE  IInv'
<1> DEFINE j == [job[r] EXCEPT !.step = job[r].kind]
<1>1. /\ At(r, "lift") /\ Become(r, j) /\ ~Locked(job[r].on) /\ users' = Unbanned(job[r].on)
      /\ UNCHANGED <<groups, holdings, guard, ghosts>>
  BY DEF LiftExpiredBan
<1>2. job[r] \in JobType /\ JobOK(r) /\ job[r].kind \in OwnSteps /\ job[r].on \in Users
  BY <1>1 DEF IInv, JobsOK, JobOK, At
<1>3. /\ j \in JobType /\ j.step = job[r].kind /\ j.kind = job[r].kind /\ j.on = job[r].on
      /\ j.row = job[r].row /\ j.image = job[r].image
  BY <1>2 DEF JobType, Steps
<1> HIDE DEF j
<1>4. job'[r] = j
  BY <1>1, <1>3, BecomeMoves DEF IInv
<1>5. JobOK(r)' /\ CountOK(r)' /\ ListOK(r)'
  BY <1>1, <1>2, <1>3, <1>4 DEF JobOK, CountOK, ListOK, At, RemovalSteps, OwnSteps, GroupSteps
<1>6. job[r].step # "commit" /\ j.step # "commit" /\ j.step \notin GroupSteps
  BY <1>1, <1>2, <1>3 DEF At, OwnSteps, GroupSteps
<1> QED
  BY <1>1, <1>2, <1>3, <1>5, <1>6, Unban

LEMMA SaveProfileStep ==
    ASSUME IInv, NEW r \in Requests, SaveProfile(r)
    PROVE  IInv'
<1> DEFINE u == job[r].on
           row == job[r].row
           g == job[r].row.group
<1>1. /\ At(r, "profile") /\ ~Locked(u) /\ users' = [users EXCEPT ![u] = row]
      /\ groups' = [groups EXCEPT ![g] = IF Exists(g) THEN @ ELSE job[r].image]
      /\ tangled' = (tangled \/ ~Exists(g)) /\ End(r)
      /\ UNCHANGED <<owner, claimed, rows, served, orphaned, guard, late, hasty>>
  BY DEF SaveProfile, holdings
<1>2. u \in Users /\ row \in Fresh /\ job[r].image \in {"plain", "default"}
  BY <1>1 DEF IInv, JobsOK, JobOK, At, OwnSteps
<1>3. row \in Rows /\ row # NoRow /\ row.banned = "no" /\ g \in Groups
  BY <1>2, FreshRows
<1> HIDE DEF u, row, g
<1>4. Become(r, Ended) /\ JobOK(r)' /\ CountOK(r)' /\ ListOK(r)'
  BY <1>1, EndClaims DEF IInv
<1>5. tangled' \in BOOLEAN
  BY <1>1 DEF IInv, RowsTyped
<1>6. GroupsTyped'
  <2>1. /\ groups' \in [Groups -> GroupStates] /\ groups'[g] \in {"plain", "default"}
        /\ \A h \in Groups : Exists(h) => Exists(h)'
    BY <1>1, <1>2, <1>3 DEF IInv, GroupsTyped, GroupStates, Exists
  <2>2. \A v \in Users : HasRow(v)' => users'[v].group = g \/ (HasRow(v) /\ users'[v].group = users[v].group)
    BY <1>1, <1>2, <1>3 DEF IInv, RowsTyped, HasRow, row, g
  <2>3. \A v \in Users : HasRow(v) => users[v].group \in Groups
    BY RowKnown DEF IInv
  <2> QED
    BY <2>1, <2>2, <2>3 DEF IInv, GroupsTyped, Exists
<1>7. DefaultOK'
  <2>1. CASE Exists(g)
    <3>1. groups' = groups
      BY <1>1, <1>3, <2>1 DEF IInv, GroupsTyped
    <3> QED
      BY <1>1, <1>4, <1>5, <3>1, EmptyJobs, EndClaims, DefaultKept DEF IInv
  <2>2. CASE ~Exists(g)
    BY <1>1, <2>2 DEF DefaultOK
  <2> QED
    BY <2>1, <2>2
<1>8. job[r].step # "commit" /\ Ended.step # "commit"
  BY <1>1, EmptyJobs DEF At
<1> QED
  BY <1>1, <1>2, <1>3, <1>4, <1>5, <1>6, <1>7, <1>8, EmptyJobs, RowChanges

\* A subdomain or record that comes while users and groups stay.
LEMMA HoldingsGrow ==
    ASSUME IInv, NEW r \in Requests, End(r), job[r].step # "commit",
           UNCHANGED <<users, groups, guard, hasty, tangled>>,
           RowsTyped', OwnersOK', NothingLeftBehind',
           \A q \in Requests \ {r} : job'[q] = job[q] => ListOK(q)'
    PROVE  IInv'
<1>1. Become(r, Ended) /\ JobOK(r)' /\ CountOK(r)' /\ ListOK(r)'
  BY EndClaims DEF IInv
<1>2. Ended \in JobType /\ Ended.step # "commit" /\ Ended.step \notin GroupSteps
  BY EmptyJobs DEF GroupSteps
<1>3. JobsOK'
  BY <1>1, <1>2, JobsMove
<1>4. GuardOK'
  BY <1>1, <1>2, GuardKept DEF HasRow
<1>5. AdminsOK'
  BY <1>1, <1>2, AdminsKept DEF ActiveAdmins
<1>6. HoldingsOK'
  BY <1>1, <1>2, BecomeMoves DEF HoldingsOK, IInv
<1>7. GroupsTyped'
  BY GroupsSame DEF HasRow
<1>8. DefaultOK'
  BY <1>1, <1>2, DefaultKept DEF IInv, RowsTyped
<1> QED
  BY <1>3, <1>4, <1>5, <1>6, <1>7, <1>8 DEF IInv

\* What comes to an account that was listed is late.
LEMMA LateIfListed ==
    ASSUME IInv, NEW u \in Users
    PROVE  /\ Barred(u) => Listed(u)
           /\ \A q \in Requests : job[q].on = u /\ job[q].step \in {"clean", "commit"} => Listed(u)
BY DEF Listed, IInv, JobsOK, JobOK, RemovalSteps

LEMMA ClaimStep ==
    ASSUME IInv, NEW r \in Requests, NEW s \in Subs, Claim(r, s)
    PROVE  IInv'
<1> DEFINE u == job[r].on
<1>1. /\ At(r, "claim") /\ s \notin claimed /\ HasRow(u) /\ End(r)
      /\ owner' = [owner EXCEPT ![s] = u] /\ claimed' = claimed \cup {s}
      /\ late' = IF Listed(u) THEN late \cup {s} ELSE late
      /\ UNCHANGED <<users, groups, rows, served, orphaned, guard, hasty, tangled>>
  BY DEF Claim
<1>2. u \in Users
  BY <1>1 DEF IInv, JobsOK, JobOK, At, OwnSteps
<1> HIDE DEF u
<1>3. owner' \in [Subs -> Users \cup {Nobody}] /\ owner'[s] = u /\ \A t \in Subs \ {s} : owner'[t] = owner[t]
  BY <1>1, <1>2 DEF IInv, RowsTyped
<1>4. RowsTyped'
  BY <1>1, <1>3 DEF IInv, RowsTyped
<1>5. OwnersOK'
  <2>1. \A t \in Subs : owner'[t] # Nobody => users[owner'[t]] # NoRow /\ t \in claimed'
    BY <1>1, <1>3 DEF IInv, OwnersOK, HasRow
  <2>2. \A t \in rows : owner'[t] # Nobody
    BY <1>2, <1>3, NobodyApart DEF IInv, OwnersOK, RowsTyped
  <2> QED
    BY <1>1, <2>1, <2>2 DEF OwnersOK, HasRow
<1>6. \A v : Owned(v)' = IF v = u THEN Owned(v) \cup {s} ELSE Owned(v) \ {s}
  BY <1>3 DEF Owned
<1>7. late \subseteq late' /\ (Listed(u) => s \in late')
  BY <1>1
<1>8. NothingLeftBehind'
  <2>1. \A v \in Users : Barred(v) => Owned(v)' \subseteq late'
    BY <1>2, <1>6, <1>7, LateIfListed DEF IInv, HoldingsOK, NothingLeftBehind
  <2> QED
    BY <1>1, <1>7, <2>1 DEF NothingLeftBehind, IInv, HoldingsOK, Barred
<1>9. ASSUME NEW q \in Requests \ {r}, job'[q] = job[q] PROVE ListOK(q)'
  <2>1. ListOK(q) /\ job[q] \in JobType
    BY DEF IInv, HoldingsOK, JobsOK
  <2>2. job[q].subs \subseteq Subs
    BY <2>1 DEF JobType
  <2> SUFFICES ASSUME job[q].step \in {"clean", "commit"}
               PROVE  /\ Owned(job[q].on)' \subseteq job[q].subs \cup late'
                      /\ \A t \in job[q].subs : owner'[t] \in {job[q].on, Nobody} /\ t \in claimed'
                      /\ job[q].failed \/ job[q].subs \cap (served' \cup rows')
                                           \subseteq job[q].recs \cup late' \cup orphaned'
    BY <1>9 DEF ListOK, Owned
  <2>3. {t \in Subs : owner'[t] = job[q].on} \subseteq job[q].subs \cup late'
    BY <1>2, <1>3, <1>7, <2>1, LateIfListed DEF ListOK, Owned
  <2>4. \A t \in job[q].subs : t # s /\ owner'[t] \in {job[q].on, Nobody} /\ t \in claimed'
    BY <1>1, <1>3, <2>1, <2>2 DEF ListOK
  <2>5. job[q].failed \/ job[q].subs \cap (served' \cup rows')
                            \subseteq job[q].recs \cup late' \cup orphaned'
    BY <1>1, <1>7, <2>1 DEF ListOK
  <2> QED
    BY <1>9, <2>3, <2>4, <2>5 DEF Owned
<1>10. job[r].step # "commit"
  BY <1>1 DEF At
<1> QED
  BY <1>1, <1>4, <1>5, <1>8, <1>9, <1>10, HoldingsGrow

LEMMA AddRecordStep ==
    ASSUME IInv, NEW r \in Requests, NEW s \in Subs, AddRecord(r, s)
    PROVE  IInv'
<1> DEFINE u == job[r].on
<1>1. /\ At(r, "record") /\ owner[s] = u /\ End(r)
      /\ served' = served \cup {s} /\ rows' = rows \cup {s}
      /\ late' = IF Listed(u) THEN late \cup {s} ELSE late
      /\ UNCHANGED <<users, groups, owner, claimed, orphaned, guard, hasty, tangled>>
  BY DEF AddRecord
<1>2. u \in Users
  BY <1>1 DEF IInv, JobsOK, JobOK, At, OwnSteps
<1> HIDE DEF u
<1>3. RowsTyped'
  BY <1>1 DEF IInv, RowsTyped
<1>4. OwnersOK'
  BY <1>1, <1>2, NobodyApart DEF IInv, OwnersOK, HasRow
<1>5. late \subseteq late' /\ (Listed(u) => s \in late')
  BY <1>1
<1>6. NothingLeftBehind'
  BY <1>1, <1>5 DEF NothingLeftBehind, IInv, HoldingsOK, Barred, Owned
<1>7. ASSUME NEW q \in Requests \ {r}, job'[q] = job[q] PROVE ListOK(q)'
  <2>1. ListOK(q)
    BY DEF IInv, HoldingsOK
  <2>2. job[q].step \in {"clean", "commit"} /\ s \in job[q].subs => s \in late'
    BY <1>1, <1>2, <1>5, <2>1, LateIfListed, NobodyApart DEF ListOK
  <2>3. job[q].step \in {"clean", "commit"} =>
          job[q].failed \/ job[q].subs \cap (served' \cup rows')
                              \subseteq job[q].recs \cup late' \cup orphaned'
    BY <1>1, <1>5, <2>1, <2>2 DEF ListOK
  <2> QED
    BY <1>1, <1>5, <1>7, <2>1, <2>3 DEF ListOK, Owned
<1>8. job[r].step # "commit"
  BY <1>1 DEF At
<1> QED
  BY <1>1, <1>3, <1>4, <1>6, <1>7, <1>8, HoldingsGrow

-----------------------------------------------------------------------------
\* User groups.

\* A request about groups moves members between groups at most.
LEMMA GroupStep ==
    ASSUME IInv, NEW r \in Requests, NEW j \in JobType, Become(r, j),
           UNCHANGED <<holdings, guard, late, hasty>>, tangled' \in BOOLEAN,
           users' \in [Users -> Rows],
           \A u \in Users : users'[u].banned = users[u].banned /\ (HasRow(u) => users'[u] # NoRow),
           job[r].step # "commit", j.step \notin {"list", "clean", "commit"},
           JobOK(r)', GroupsTyped', DefaultOK'
    PROVE  IInv'
<1>1. job'[r] = j
  BY BecomeMoves DEF IInv
<1>2. RowsTyped'
  BY DEF IInv, RowsTyped, holdings
<1>3. OwnersOK'
  <2>1. ASSUME NEW s \in Subs, owner[s] # Nobody PROVE users'[owner[s]] # NoRow /\ s \in claimed
    BY <2>1 DEF IInv, OwnersOK, RowsTyped
  <2> QED
    BY <2>1 DEF IInv, OwnersOK, HasRow, holdings
<1>4. JobsOK'
  BY JobsMove
<1>5. GuardOK'
  BY GuardKept DEF HasRow
<1>6. AdminsOK'
  <2>1. ActiveAdmins' = ActiveAdmins
    BY ConstantsAssumption DEF ActiveAdmins
  <2>2. CountOK(r)'
    BY <1>1 DEF CountOK, At
  <2> QED
    BY <2>1, <2>2, AdminsKept
<1>7. HoldingsOK'
  <2>1. ListOK(r)'
    BY <1>1 DEF ListOK
  <2>2. Shrinks /\ \A u \in Users : Barred(u)' => Barred(u)
    BY HoldingsSame DEF holdings, Barred
  <2> QED
    BY <2>1, <2>2, HoldingsKept DEF holdings
<1> QED
  BY <1>2, <1>3, <1>4, <1>5, <1>6, <1>7 DEF IInv

LEMMA UpdateUserGroupStep ==
    ASSUME IInv, NEW r \in Requests, NEW a, NEW u \in Users, NEW g \in Groups,
           UpdateUserGroup(r, a, u, g)
    PROVE  IInv'
<1> DEFINE row == [users[u] EXCEPT !.group = g]
<1>1. /\ New(r) /\ Exists(g) /\ HasRow(u) /\ users' = [users EXCEPT ![u] = row] /\ End(r)
      /\ UNCHANGED <<groups, holdings, guard, ghosts>>
  BY DEF UpdateUserGroup
<1>2. row \in Rows /\ row.group = g /\ row.banned = users[u].banned
  <2>1. users[u] \in [banned : {"no", "timed", "forever", "over"}, group : Groups]
    BY <1>1 DEF IInv, RowsTyped, HasRow, Rows
  <2> QED
    BY <2>1 DEF Rows
<1> HIDE DEF row
<1>3. /\ users' \in [Users -> Rows] /\ users'[u] = row
      /\ \A v \in Users \ {u} : users'[v] = users[v]
  BY <1>1, <1>2 DEF IInv, RowsTyped
<1>4. row # NoRow
  BY <1>2, EmptyJobs, NobodyApart
<1>5. GroupsTyped'
  BY <1>1, <1>2, <1>3 DEF IInv, GroupsTyped, Exists, HasRow
<1>6. Become(r, Ended) /\ JobOK(r)' /\ Ended \in JobType
  BY <1>1, EndClaims, EmptyJobs DEF IInv
<1>7. DefaultOK' /\ tangled' \in BOOLEAN
  BY <1>1, <1>6, EmptyJobs, EndClaims, DefaultKept DEF ghosts, IInv, RowsTyped
<1>8. \A v \in Users : users'[v].banned = users[v].banned /\ (HasRow(v) => users'[v] # NoRow)
  BY <1>2, <1>3, <1>4 DEF HasRow
<1>9. job[r].step # "commit" /\ Ended.step \notin {"list", "clean", "commit"}
  BY <1>1, EmptyJobs DEF New
<1> QED
  BY <1>1, <1>3, <1>5, <1>6, <1>7, <1>8, <1>9, GroupStep DEF ghosts

\* Alone in its change, a request that leaves one default leaves the groups in order.
LEMMA OneChanges ==
    ASSUME IInv, NEW r \in Requests, NEW j \in JobType, Become(r, j), NotesTangle(r),
           ~tangled => (\E g \in Groups : \A h \in Groups : groups'[h] = "default" <=> h = g),
           ~tangled => ChangeOK(r)'
    PROVE  DefaultOK' /\ tangled' \in BOOLEAN
<1>1. tangled' = (tangled \/ Tangles(r))
  BY DEF NotesTangle
<1>2. tangled' \in BOOLEAN
  BY <1>1 DEF IInv, RowsTyped, Tangles
<1>3. ASSUME ~tangled' PROVE DefaultOK'
  <2>1. \A q \in Requests \ {r} : job'[q].step \notin GroupSteps
    BY <1>1, <1>3, BecomeMoves DEF Tangles, IInv
  <2>2. \A q \in Requests : ChangeOK(q)'
    BY <1>1, <1>3, <2>1 DEF ChangeOK, At, GroupSteps
  <2> QED
    BY <1>1, <1>3, <2>1, <2>2 DEF DefaultOK
<1> QED
  BY <1>2, <1>3 DEF DefaultOK

\* Groups that stay there keep everyone's row in order.
LEMMA GroupsLast ==
    ASSUME IInv, UNCHANGED users, groups' \in [Groups -> GroupStates],
           \A g \in Groups : Exists(g) => groups'[g] \in {"plain", "default"}
    PROVE  /\ GroupsTyped' /\ users' \in [Users -> Rows]
           /\ \A u \in Users : users'[u].banned = users[u].banned /\ (HasRow(u) => users'[u] # NoRow)
BY RowKnown DEF IInv, GroupsTyped, Exists, HasRow, RowsTyped

LEMMA CreateGroupStep ==
    ASSUME IInv, NEW r \in Requests, NEW a, NEW g \in Groups, NEW makeDefault \in BOOLEAN,
           CreateGroup(r, a, g, makeDefault)
    PROVE  IInv'
<1> DEFINE j == [NoJob EXCEPT !.step = "setdefault", !.kind = "create", !.group = g]
<1>1. /\ New(r) /\ groups[g] = "unborn" /\ groups' = [groups EXCEPT ![g] = "plain"]
      /\ Become(r, j) \/ End(r)
      /\ NotesTangle(r) /\ UNCHANGED <<users, holdings, guard, late, hasty>>
  BY DEF CreateGroup
<1>2. /\ j \in JobType /\ j.step = "setdefault" /\ j.group = g /\ j.kind = "create"
  BY DEF NoJob, JobType, Steps, NoRow, RemovalSteps, OwnSteps, GroupSteps
<1> HIDE DEF j
<1>3. groups' \in [Groups -> GroupStates] /\ \A h \in Groups : Exists(h) => groups'[h] \in {"plain", "default"}
  BY <1>1 DEF IInv, GroupsTyped, GroupStates, Exists
<1>4. \A h \in Groups : groups'[h] = "default" <=> groups[h] = "default"
  BY <1>1 DEF IInv, GroupsTyped
<1>5. ~tangled => (\E x \in Groups : \A h \in Groups : groups'[h] = "default" <=> h = x)
  BY <1>4 DEF IInv, DefaultOK
<1>6. job[r].step # "commit"
  BY <1>1, EmptyJobs DEF New
<1>7. CASE Become(r, j)
  <2>1. job'[r] = j
    BY <1>2, <1>7, BecomeMoves DEF IInv
  <2>2. JobOK(r)' /\ ChangeOK(r)'
    BY <1>1, <1>2, <2>1
       DEF JobOK, ChangeOK, At, Exists, RemovalSteps, OwnSteps, GroupSteps, IInv, GroupsTyped
  <2>3. DefaultOK' /\ tangled' \in BOOLEAN
    BY <1>1, <1>2, <1>5, <1>7, <2>2, OneChanges
  <2> QED
    BY <1>1, <1>2, <1>3, <1>6, <1>7, <2>2, <2>3, GroupsLast, GroupStep
<1>8. CASE End(r)
  <2>1. Become(r, Ended) /\ JobOK(r)' /\ ChangeOK(r)' /\ Ended \in JobType /\ Ended.step = "done"
    BY <1>8, EndClaims, EmptyJobs DEF IInv
  <2>2. DefaultOK' /\ tangled' \in BOOLEAN
    BY <1>1, <1>5, <2>1, OneChanges
  <2> QED
    BY <1>1, <1>3, <1>6, <2>1, <2>2, GroupsLast, GroupStep
<1> QED
  BY <1>1, <1>7, <1>8

LEMMA SetDefaultStep ==
    ASSUME IInv, NEW r \in Requests, SetDefault(r)
    PROVE  IInv'
<1> DEFINE g == job[r].group
           j == [job[r] EXCEPT !.step = "savegroup", !.image = "default"]
<1>1. /\ At(r, "setdefault") /\ job[r].step # "commit" /\ NotesTangle(r)
      /\ UNCHANGED <<users, holdings, guard, late, hasty>>
  BY DEF SetDefault, At
<1>2. job[r] \in JobType /\ JobOK(r) /\ g \in Groups
  BY <1>1 DEF IInv, JobsOK, JobOK, At, GroupSteps
<1>3. /\ j \in JobType /\ j.step = "savegroup" /\ j.image = "default" /\ j.group = g
      /\ j.kind = job[r].kind /\ j.until = job[r].until
  BY <1>2 DEF JobType, Steps, GroupSteps, GroupStates
<1> HIDE DEF j
<1>4. CASE UNCHANGED groups /\ End(r)
  <2>1. Become(r, Ended) /\ JobOK(r)' /\ ChangeOK(r)' /\ Ended \in JobType /\ Ended.step = "done"
    BY <1>4, EndClaims, EmptyJobs DEF IInv
  <2>2. DefaultOK' /\ tangled' \in BOOLEAN
    BY <1>1, <1>4, <2>1, OneChanges DEF IInv, DefaultOK
  <2>3. groups' \in [Groups -> GroupStates] /\ \A h \in Groups : Exists(h) => groups'[h] \in {"plain", "default"}
    BY <1>4 DEF IInv, GroupsTyped, Exists
  <2> QED
    BY <1>1, <2>1, <2>2, <2>3, GroupsLast, GroupStep
<1>5. CASE /\ groups' = [h \in Groups |-> IF ~Exists(h) THEN groups[h]
                                          ELSE IF h = g THEN "default" ELSE "plain"]
           /\ Become(r, j) \/ End(r)
  <2>1. groups' \in [Groups -> GroupStates] /\ \A h \in Groups : Exists(h) => groups'[h] \in {"plain", "default"}
    BY <1>5 DEF IInv, GroupsTyped, GroupStates, Exists
  <2>2. ASSUME ~tangled
        PROVE  groups'[g] = "default" /\ \A h \in Groups : groups'[h] = "default" <=> h = g
    <3>1. Exists(g)
      BY <1>1, <2>2 DEF IInv, DefaultOK, ChangeOK
    <3> HIDE DEF g
    <3> QED
      BY <1>2, <1>5, <3>1 DEF Exists
  <2>3. ~tangled => (\E x \in Groups : \A h \in Groups : groups'[h] = "default" <=> h = x)
    BY <1>2, <2>2
  <2>4. CASE Become(r, j)
    <3>1. job'[r] = j
      BY <1>3, <2>4, BecomeMoves DEF IInv
    <3>2. JobOK(r)'
      BY <1>2, <1>3, <3>1 DEF JobOK, RemovalSteps, OwnSteps, GroupSteps
    <3>3. ~tangled => ChangeOK(r)'
      BY <1>3, <2>2, <3>1 DEF ChangeOK, At
    <3>4. DefaultOK' /\ tangled' \in BOOLEAN
      BY <1>1, <1>3, <2>3, <2>4, <3>3, OneChanges
    <3> QED
      BY <1>1, <1>3, <2>1, <2>4, <3>2, <3>4, GroupsLast, GroupStep
  <2>5. CASE End(r)
    <3>1. Become(r, Ended) /\ JobOK(r)' /\ ChangeOK(r)' /\ Ended \in JobType /\ Ended.step = "done"
      BY <2>5, EndClaims, EmptyJobs DEF IInv
    <3>2. DefaultOK' /\ tangled' \in BOOLEAN
      BY <1>1, <2>3, <3>1, OneChanges
    <3> QED
      BY <1>1, <2>1, <3>1, <3>2, GroupsLast, GroupStep
  <2> QED
    BY <1>5, <2>4, <2>5
<1> QED
  BY <1>4, <1>5 DEF SetDefault, j

LEMMA UpdateGroupStep ==
    ASSUME IInv, NEW r \in Requests, NEW a, NEW g \in Groups, NEW makeDefault \in BOOLEAN,
           UpdateGroup(r, a, g, makeDefault)
    PROVE  IInv'
<1> DEFINE step == IF makeDefault THEN "setdefault" ELSE "savegroup"
           image == groups[g]
           j == [NoJob EXCEPT !.step = step, !.kind = "update", !.group = g, !.image = image]
<1>1. /\ New(r) /\ Exists(g) /\ Become(r, j) /\ NotesTangle(r)
      /\ UNCHANGED <<users, groups, holdings, guard, late, hasty>>
  BY DEF UpdateGroup
<1>2. step \in {"setdefault", "savegroup"} /\ image \in {"plain", "default"}
  BY <1>1 DEF Exists
<1>3. /\ j \in JobType /\ j.step = step /\ j.kind = "update" /\ j.group = g /\ j.image = image
  <2> HIDE DEF step, image
  <2> QED
    BY <1>2 DEF NoJob, JobType, Steps, NoRow, RemovalSteps, OwnSteps, GroupSteps, GroupStates
<1> HIDE DEF j, step
<1>4. job'[r] = j /\ job[r].step # "commit"
  BY <1>1, <1>3, BecomeMoves, EmptyJobs DEF IInv, New
<1>5. JobOK(r)'
  BY <1>2, <1>3, <1>4 DEF JobOK, RemovalSteps, OwnSteps, GroupSteps
<1>6. ChangeOK(r)'
  BY <1>1, <1>2, <1>3, <1>4 DEF ChangeOK, At, Exists
<1>7. DefaultOK' /\ tangled' \in BOOLEAN
  BY <1>1, <1>3, <1>6, OneChanges DEF IInv, DefaultOK
<1>8. groups' \in [Groups -> GroupStates] /\ \A h \in Groups : Exists(h) => groups'[h] \in {"plain", "default"}
  BY <1>1 DEF IInv, GroupsTyped, Exists
<1> QED
  BY <1>1, <1>2, <1>3, <1>4, <1>5, <1>7, <1>8, GroupsLast, GroupStep

LEMMA SaveGroupStep ==
    ASSUME IInv, NEW r \in Requests, SaveGroup(r)
    PROVE  IInv'
<1>1. /\ At(r, "savegroup") /\ job[r].step # "commit" /\ NotesTangle(r) /\ End(r)
      /\ groups' = [groups EXCEPT ![job[r].group] = job[r].image]
      /\ UNCHANGED <<users, holdings, guard, late, hasty>>
  BY DEF SaveGroup, At
<1>2. job[r].group \in Groups /\ job[r].image \in {"plain", "default"}
  BY <1>1 DEF IInv, JobsOK, JobOK, At, GroupSteps
<1>3. Become(r, Ended) /\ JobOK(r)' /\ ChangeOK(r)' /\ Ended \in JobType /\ Ended.step = "done"
  BY <1>1, EndClaims, EmptyJobs DEF IInv
<1>4. groups' \in [Groups -> GroupStates] /\ \A h \in Groups : Exists(h) => groups'[h] \in {"plain", "default"}
  BY <1>1, <1>2 DEF IInv, GroupsTyped, GroupStates, Exists
<1>5. ~tangled => groups' = groups
  <2>1. ~tangled => job[r].image = groups[job[r].group]
    BY <1>1 DEF IInv, DefaultOK, ChangeOK
  <2> QED
    BY <1>1, <1>2, <2>1 DEF IInv, GroupsTyped
<1>6. DefaultOK' /\ tangled' \in BOOLEAN
  BY <1>1, <1>3, <1>5, OneChanges DEF IInv, DefaultOK
<1> QED
  BY <1>1, <1>3, <1>4, <1>6, GroupsLast, GroupStep

LEMMA DeleteGroupStep ==
    ASSUME IInv, NEW r \in Requests, NEW a, NEW g \in Groups, NEW h \in Groups,
           DeleteGroup(r, a, g, h)
    PROVE  IInv'
<1> DEFINE image == groups[g]
           j == [NoJob EXCEPT !.step = "dropgroup", !.group = g, !.other = h, !.image = image]
<1>1. /\ New(r) /\ g # h /\ Exists(g) /\ Exists(h) /\ Become(r, j) /\ NotesTangle(r)
      /\ UNCHANGED <<users, groups, holdings, guard, late, hasty>>
  BY DEF DeleteGroup
<1>2. image \in {"plain", "default"}
  BY <1>1 DEF Exists
<1>3. /\ j \in JobType /\ j.step = "dropgroup" /\ j.kind = "none" /\ j.group = g /\ j.other = h
      /\ j.image = image
  <2> HIDE DEF image
  <2> QED
    BY <1>2 DEF NoJob, JobType, Steps, NoRow, RemovalSteps, OwnSteps, GroupSteps, GroupStates
<1> HIDE DEF j
<1>4. job'[r] = j /\ job[r].step # "commit"
  BY <1>1, <1>3, BecomeMoves, EmptyJobs DEF IInv, New
<1>5. JobOK(r)' /\ ChangeOK(r)'
  BY <1>1, <1>2, <1>3, <1>4 DEF JobOK, ChangeOK, At, Exists, RemovalSteps, OwnSteps, GroupSteps
<1>6. DefaultOK' /\ tangled' \in BOOLEAN
  BY <1>1, <1>3, <1>5, OneChanges DEF IInv, DefaultOK
<1>7. groups' \in [Groups -> GroupStates] /\ \A x \in Groups : Exists(x) => groups'[x] \in {"plain", "default"}
  BY <1>1 DEF IInv, GroupsTyped, Exists
<1> QED
  BY <1>1, <1>3, <1>4, <1>5, <1>6, <1>7, GroupsLast, GroupStep

LEMMA DropGroupStep ==
    ASSUME IInv, NEW r \in Requests, DropGroup(r)
    PROVE  IInv'
<1>1. PICK g, h, image : g = job[r].group /\ h = job[r].other /\ image = job[r].image
  OBVIOUS
<1>2. /\ At(r, "dropgroup") /\ job[r].step # "commit" /\ NotesTangle(r) /\ End(r)
      /\ UNCHANGED <<holdings, guard, late, hasty>>
  BY DEF DropGroup, At
<1>3. g \in Groups /\ h \in Groups /\ g # h /\ image \in {"plain", "default"}
  BY <1>1, <1>2 DEF IInv, JobsOK, JobOK, At, GroupSteps
<1>4. Become(r, Ended) /\ JobOK(r)' /\ ChangeOK(r)' /\ Ended \in JobType /\ Ended.step = "done"
  BY <1>2, EndClaims, EmptyJobs DEF IInv
<1>5. CASE UNCHANGED <<users, groups>>
  <2>1. DefaultOK' /\ tangled' \in BOOLEAN
    BY <1>2, <1>4, <1>5, OneChanges DEF IInv, DefaultOK
  <2>2. groups' \in [Groups -> GroupStates] /\ \A x \in Groups : Exists(x) => groups'[x] \in {"plain", "default"}
    BY <1>5 DEF IInv, GroupsTyped, Exists
  <2> QED
    BY <1>2, <1>4, <1>5, <2>1, <2>2, GroupsLast, GroupStep
<1>6. CASE /\ Exists(h) \/ Members(g) = {}
           /\ users' = [u \in Users |-> IF u \in Members(g)
                                        THEN [users[u] EXCEPT !.group = h] ELSE users[u]]
           /\ groups' = [x \in Groups |-> IF x = g THEN "gone"
                              ELSE IF x = h /\ Exists(h) /\ image = "default"
                                   THEN "default" ELSE groups[x]]
  <2>1. /\ groups' \in [Groups -> GroupStates] /\ groups'[g] = "gone"
        /\ \A x \in Groups \ {g} : Exists(x) => groups'[x] \in {"plain", "default"}
    BY <1>3, <1>6 DEF IInv, GroupsTyped, GroupStates, Exists
  <2>2. ASSUME NEW u \in Users
        PROVE  /\ users'[u] \in Rows /\ users'[u].banned = users[u].banned
               /\ HasRow(u) => users'[u] # NoRow
               /\ users'[u] # NoRow => users'[u].group \in Groups \ {g} /\ Exists(users'[u].group)
    <3>1. CASE u \in Members(g)
      <4>1. users[u].group = g /\ HasRow(u) /\ Exists(h)
        BY <1>3, <1>6, <3>1, RowKnown DEF Members, IInv
      <4>2. users[u] \in [banned : {"no", "timed", "forever", "over"}, group : Groups]
        BY <4>1 DEF IInv, RowsTyped, HasRow, Rows
      <4>3. users'[u] = [users[u] EXCEPT !.group = h]
        BY <1>6, <3>1
      <4>4. users'[u] \in Rows /\ users'[u].group = h /\ users'[u].banned = users[u].banned
        BY <1>3, <4>2, <4>3 DEF Rows
      <4> QED
        BY <1>3, <4>1, <4>4, EmptyJobs, NobodyApart
    <3>2. CASE u \notin Members(g)
      <4>1. users'[u] = users[u] /\ users[u].group # g
        BY <1>6, <3>2 DEF Members
      <4> QED
        BY <4>1, RowKnown DEF IInv, RowsTyped, GroupsTyped, HasRow
    <3> QED
      BY <3>1, <3>2
  <2>3. GroupsTyped'
    BY <2>1, <2>2 DEF GroupsTyped, HasRow, Exists
  <2>4. users' \in [Users -> Rows]
    <3>1. users' = [u \in Users |-> users'[u]]
      BY <1>6
    <3> QED
      BY <2>2, <3>1
  <2>5. ~tangled => (\E y \in Groups : \A x \in Groups : groups'[x] = "default" <=> x = y)
    <3> SUFFICES ASSUME ~tangled
                 PROVE  \E y \in Groups : \A x \in Groups : groups'[x] = "default" <=> x = y
      OBVIOUS
    <3>1. /\ image = groups[g] /\ Exists(h)
      BY <1>1, <1>2 DEF IInv, DefaultOK, ChangeOK
    <3>2. PICK d \in Groups : \A x \in Groups : groups[x] = "default" <=> x = d
      BY DEF IInv, DefaultOK
    <3>3. CASE image = "default"
      BY <1>3, <1>6, <3>1, <3>2, <3>3
    <3>4. CASE image # "default"
      BY <1>3, <1>6, <3>1, <3>2, <3>4
    <3> QED
      BY <3>3, <3>4
  <2>6. DefaultOK' /\ tangled' \in BOOLEAN
    BY <1>2, <1>4, <2>5, OneChanges
  <2> QED
    BY <1>2, <1>4, <2>2, <2>3, <2>4, <2>6, GroupStep
<1> QED
  BY <1>1, <1>5, <1>6 DEF DropGroup

-----------------------------------------------------------------------------
\* Every step keeps the invariant.

LEMMA RequestStep ==
    ASSUME IInv, NEW r \in Requests, Removal(r) \/ OwnRequest(r) \/ GroupRequest(r)
    PROVE  IInv'
<1>1. CASE Removal(r)
  BY <1>1, BanUserStep, DeleteUserStep, AdminDeleteRecordStep, ListHoldingsStep, CleanOneStep,
     StrikeRecordStep,
     CleaningFailedStep, BanGuardStep, BanCommitStep, DeleteCommitStep DEF Removal
<1>2. CASE OwnRequest(r)
  BY <1>2, EnterStep, LiftExpiredBanStep, SaveProfileStep, ClaimStep, AddRecordStep
     DEF OwnRequest, OwnSteps
<1>3. CASE GroupRequest(r)
  BY <1>3, CreateGroupStep, UpdateGroupStep, DeleteGroupStep, UpdateUserGroupStep,
     SetDefaultStep, SaveGroupStep, DropGroupStep DEF GroupRequest
<1> QED
  BY <1>1, <1>2, <1>3

LEMMA StutterStep == IInv /\ UNCHANGED vars => IInv'
<1> SUFFICES ASSUME IInv, UNCHANGED vars PROVE IInv'
  OBVIOUS
<1> USE DEF vars, holdings, ghosts
<1>1. RowsTyped' /\ OwnersOK' /\ JobsOK' /\ GuardOK'
  BY DEF IInv, RowsTyped, OwnersOK, JobsOK, JobOK, GuardOK, HasRow, At
<1>2. AdminsOK' /\ HoldingsOK'
  BY DEF IInv, AdminsOK, AnAdminIsLeft, CountOK, HoldingsOK, NothingLeftBehind, ListOK,
         ActiveAdmins, At, Two, Owned, Barred
<1>3. GroupsTyped' /\ DefaultOK'
  BY DEF IInv, GroupsTyped, DefaultOK, ChangeOK, Exists, HasRow, At
<1> QED
  BY <1>1, <1>2, <1>3 DEF IInv

LEMMA IInvStep == IInv /\ [Next]_vars => IInv'
<1> SUFFICES ASSUME IInv, [Next]_vars PROVE IInv'
  OBVIOUS
<1>1. CASE Next
  BY <1>1, RequestStep, UnbanUserStep, JobDeletesStep, BanElapsesStep DEF Next
<1>2. CASE UNCHANGED vars
  BY <1>2, StutterStep
<1> QED
  BY <1>1, <1>2

LEMMA Invariance == Spec => []IInv
BY IInvInit, IInvStep, PTL DEF Spec

\* An active administrator is left, whatever bans and deletions cross each other,
\* unless one went on a count that another had made untrue: the advisory lock of
\* BanUser is enough for bans, and DeleteUser's early count is not.
THEOREM AnAdministratorRemains == Spec => []AnAdminIsLeft
BY Invariance, IInvImplies, PTL

\* A banned account holds no subdomain and the provider serves no record that has
\* no row, but for what came after a ban or deletion had listed the account, and
\* for a record that a failing deletion of another request or job made anew after
\* its row had gone.
THEOREM BanTakesAllListed == Spec => []NothingLeftBehind
BY Invariance, IInvImplies, PTL

\* The rows are well formed, and as long as no two changes of groups overlap there
\* is exactly one default group, whatever else is deleted, renamed or saved.
THEOREM DefaultGroupIsAlone == Spec => []OneDefaultGroup
BY Invariance, IInvImplies, PTL
=============================================================================
