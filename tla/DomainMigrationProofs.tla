----------------------- MODULE DomainMigrationProofs -----------------------
(***************************************************************************)
(* Machine-checked proofs about DomainMigration, for every set of          *)
(* accounts, records and goroutines and any number of migrations,          *)
(* requests and faults.  The invariant is built in layers, each proved     *)
(* with the help of those below it.                                        *)
(***************************************************************************)
EXTENDS DomainMigration, FiniteSetTheorems, WellFoundedInduction, TLAPS

Statuses == Final \cup {"pending", "running"}
ItemStates == {"pending", "running", "succeeded", "failed"}
Domain == [home : Accts, state : States, ro : BOOLEAN]
Task == [status : Statuses, src : Accts, dst : Accts]
Item == [rec : Recs, from : 1..MaxIds, st : ItemStates]
Rows == [Recs -> Deleted..MaxIds]
Looping == {"client", "item", "call", "save", "point", "bad"}
Working == {"start", "domain", "load", "create", "reload", "finish"} \cup Looping
Job == [pc : Working \cup {"close", "next"}, task : TaskIds, snap : Rows, todo : SUBSET Nat,
        won : BOOLEAN, lost : BOOLEAN, id : 0..MaxIds, out : Final \cup {"none"}]
Retry == [pc : {"call", "mark"}, task : TaskIds, todo : SUBSET Nat, id : 0..MaxIds]
Closing == [pc : {"update", "close"}, task : TaskIds, out : Final]
Cleaning == [pc : {"cleanup"}, task : TaskIds, todo : SUBSET Nat]
Saving == [pc : {"save"}, read : Domain, home : Accts]
Doing == {Idle} \cup Retry \cup Closing \cup Cleaning \cup Saving
Change == [pc : {"create", "delete", "look", "row"}, rec : Recs, home : Accts, id : Deleted..MaxIds]

-----------------------------------------------------------------------------
(* The first layer: shapes *)

Typed ==
    /\ dom \in Domain
    /\ tasks \in [TaskIds -> Task \cup {Absent}]
    /\ items \in [TaskIds -> Seq(Item)]
    /\ rows \in Rows
    /\ zone \in [Accts -> [Recs -> 0..MaxIds]]
    /\ nextId \in 1..(MaxIds + 1)
    /\ run \in [Runners -> Job \cup {Idle}]
    /\ adm \in [Admins -> Doing]
    /\ usr \in {Idle} \cup Change

\* Tasks are numbered without gaps, and only a task that exists has items.
TasksOK ==
    \A t \in TaskIds :
        /\ Exists(t) => \A s \in 1..(t - 1) : Exists(s)
        /\ items[t] # <<>> => Exists(t)

\* What a goroutine holds at its step.
Holds(j, its) ==
    /\ j.todo \subseteq DOMAIN its
    /\ j.pc \in {"call", "save", "point", "bad"} => j.todo # {}
    /\ j.pc \in {"save", "point"} => j.id > 0
    /\ j.pc \in {"finish", "close"} => j.out \in Final

RunsOK == \A g \in Runners : run[g].pc # "idle" => Exists(run[g].task) /\ Holds(run[g], items[run[g].task])

\* What an administrator's request holds at its step.
Bears(a, there, its) ==
    /\ a.pc \in {"call", "mark", "update", "close", "cleanup"} => there
    /\ a.pc \in {"call", "mark", "update", "close", "cleanup"} => its # <<>>
    /\ a.pc \in {"call", "mark", "cleanup"} => a.todo \subseteq DOMAIN its
    /\ a.pc \in {"mark", "cleanup"} => a.todo # {}
    /\ a.pc = "mark" => a.id > 0

AdmOK == \A d \in Admins : Bears(adm[d], Exists(adm[d].task), items[adm[d].task])

Shapes == Typed /\ TasksOK /\ RunsOK /\ AdmOK

-----------------------------------------------------------------------------
(* The second layer: one goroutine to a task *)

Retrying == {"call", "mark", "update", "close"}

\* Goroutines have tasks of their own and are at work on what is unfinished,
\* which is the newest task; retries are about what has ended.
Apart ==
    /\ \A g, h \in Runners : run[g].pc # "idle" /\ run[h].pc # "idle" /\ run[g].task = run[h].task => g = h
    /\ \A g \in Runners : run[g].pc \in Working => Unfinished(run[g].task)
    /\ \A t \in TaskIds : Unfinished(t) => ~Superseded(t)
    /\ \A d \in Admins : adm[d].pc \in Retrying => tasks[adm[d].task].status \in Final

Alone == Without({"overlap"}) => Apart

-----------------------------------------------------------------------------
(* The third layer: the flag *)

Shut ==
    Without({"db", "overlap", "late", "overwritten"}) =>
        /\ Migrating => dom.ro
        /\ \A g \in Runners : run[g].pc = "close" => tasks[run[g].task].status \in Final

-----------------------------------------------------------------------------
(* The fourth layer: what became of the items *)

Some(its, S, st) == \E i \in S : its[i].st = st

\* A status as an answer about the items.
Told(status, its) ==
    /\ status = "succeeded" => \A i \in DOMAIN its : its[i].st = "succeeded"
    /\ status = "partial_failed" => Some(its, DOMAIN its, "succeeded") /\ Some(its, DOMAIN its, "failed")

\* How far a goroutine has got with the items.
Progress(j, its) ==
    /\ j.pc \in {"start", "domain", "load", "create", "reload", "client"} => ~j.lost
    /\ j.pc \in Looping =>
          /\ \A i \in DOMAIN its \ j.todo : its[i].st = "succeeded" \/ (j.lost /\ its[i].st = "failed")
          /\ j.won /\ j.pc \notin {"save", "point"} => Some(its, DOMAIN its \ j.todo, "succeeded")
          /\ j.lost /\ j.pc # "bad" => Some(its, DOMAIN its \ j.todo, "failed")
    /\ j.pc = "point" => its[First(j.todo)].st = "succeeded"
    /\ j.pc = "bad" => j.lost
    /\ j.pc = "finish" => Told(j.out, its)

Whole(its) == \A i \in DOMAIN its : its[i].st = "succeeded"

\* A task that has ended and left no item behind, whatever a crossed retry
\* wrote of it.
Complete(t) ==
    /\ tasks[t].status \in Final
    /\ Whole(items[t])
    /\ tasks[t].status = "succeeded" \/ items[t] # <<>>

\* What a retry knows when it has counted.
Reckons(a, its) ==
    /\ a.pc = "update" => \A i \in DOMAIN its : its[i].st \in {"succeeded", "failed"}
    /\ a.pc \in {"update", "close"} /\ a.out = "succeeded" => Whole(its)

\* The status tells of the items, or of those of a retry that has yet to count.
Answers(t) ==
    \/ Told(tasks[t].status, items[t])
    \/ /\ tasks[t].status = "partial_failed"
       /\ ~Without({"torn", "crossed"}) \/ \E d \in Admins : Counting(d, t)

Honest ==
    /\ \A g \in Runners : run[g].pc # "idle" => Progress(run[g], items[run[g].task])
    /\ \A t \in TaskIds : Answers(t)
    /\ \A g \in Runners : run[g].pc = "close" /\ run[g].out = "succeeded" => Complete(run[g].task)
    /\ \A d \in Admins : Reckons(adm[d], items[adm[d].task])

Truthful == Without({"db", "overlap", "uncounted"}) => Honest

-----------------------------------------------------------------------------
(* The fifth layer: the rows *)

\* A record that had no row has no item; the row of one being created will
\* hold the id it was given.
Fresh ==
    /\ \A r \in Recs : rows[r] = Never =>
          /\ \A t \in TaskIds : \A i \in DOMAIN items[t] : items[t][i].rec # r
          /\ \A g \in Runners : run[g].pc = "create" => run[g].snap[r] <= 0
    /\ usr.pc = "create" => rows[usr.rec] = Never
    /\ usr.pc = "row" =>
          \/ usr.id = Deleted
          \/ usr.id > 0 /\ rows[usr.rec] = Never /\ zone[usr.home][usr.rec] = usr.id

Newest(t) == Exists(t) /\ ~Superseded(t)
Settled == \A t \in TaskIds : Newest(t) => Complete(t)

\* A retry of a superseded task, which the end of the retry owns up to.
Poisoned == \E d \in Admins : adm[d].pc \in Retrying /\ Superseded(adm[d].task)

\* The record has been deleted at the provider, its row is about to go.
Leaving(r) == usr.pc \in {"look", "row"} /\ usr.rec = r

\* A row is right, and an id is the right one for it.
Right(r) == r \in Present => rows[r] = zone[dom.home][r] \/ Leaving(r)
RightId(r, id) == r \in Present => zone[dom.home][r] = id \/ Leaving(r)

Covered(t) == \A r \in Recs : (\E i \in DOMAIN items[t] : items[t][i].rec = r) \/ Right(r)

Pointing(t, i) == \E g \in Runners : run[g].pc = "point" /\ run[g].task = t /\ First(run[g].todo) = i

Misplaced == {"db", "overlap", "uncounted", "late", "torn", "cleaned", "overwritten", "moved", "stale"}

\* What a goroutine knows of the rows at its step.
Knows(j) ==
    /\ j.pc \in {"reload"} \cup Looping => Covered(j.task)
    /\ j.pc = "finish" /\ j.out = "succeeded" => Covered(j.task)
    /\ j.pc = "create" => \A r \in Present : j.snap[r] > 0
    /\ j.pc \in {"save", "point"} => RightId(items[j.task][First(j.todo)].rec, j.id)

Placed ==
    /\ Settled => \A r \in Recs : Right(r)
    /\ \A t \in TaskIds : Newest(t) =>
          /\ \A i \in DOMAIN items[t] :
                items[t][i].st = "succeeded" => Right(items[t][i].rec) \/ Pointing(t, i)
          /\ items[t] # <<>> => Covered(t)
    /\ \A g \in Runners : run[g].pc # "idle" => Knows(run[g])
    /\ \A d \in Admins : adm[d].pc = "mark" => RightId(items[adm[d].task][First(adm[d].todo)].rec, adm[d].id)

\* The domain is at the newest target, and idle only once that has succeeded.
Moved ==
    \A t \in TaskIds : Newest(t) =>
        /\ dom.home = tasks[t].dst
        /\ dom.state = "idle" => Complete(t)

Served == Without(Misplaced) => Moved /\ (Poisoned \/ Placed)

-----------------------------------------------------------------------------
(* What the model's operators do *)

LEMMA Constants ==
    /\ MaxTasks \in Nat \ {0} /\ MaxIds \in Nat \ {0} /\ MaxItems \in Nat
    /\ TaskIds = 1..MaxTasks /\ IsFiniteSet(Recs) /\ Cardinality(Recs) \in Nat /\ Cardinality(Recs) <= MaxIds
BY ConstantsAssumption, FS_CardinalityType DEF ConstantsAssumption, TaskIds

LEMMA Least ==
    ASSUME NEW S \in SUBSET Nat, S # {}
    PROVE  First(S) \in S /\ \A s \in S : First(S) <= s
<1>1. PICK n \in S : \A m \in S : ~(<<m, n>> \in OpToRel(<, Nat))
  BY NatLessThanWellFounded, WFMin
<1>2. \A m \in S : n <= m
  <2> TAKE m \in S
  <2>1. m \in Nat /\ n \in Nat
    OBVIOUS
  <2>2. ~(m < n)
    BY <1>1, <2>1 DEF OpToRel
  <2> QED
    BY <2>1, <2>2
<1> QED
  BY <1>2 DEF First

LEMMA OthersLess == ASSUME NEW S \in SUBSET Nat PROVE Others(S) \in SUBSET Nat /\ Others(S) \subseteq S
BY DEF Others

LEMMA IdleIsIdle == Idle.pc = "idle"
BY DEF Idle

\* Who is at a step is at work.
LEMMA AtJob == ASSUME Typed, NEW g \in Runners, run[g].pc # "idle" PROVE run[g] \in Job
BY IdleIsIdle DEF Typed

LEMMA Starts ==
    ASSUME NEW t \in TaskIds
    PROVE  /\ Starting(t) \in Job /\ Starting(t).pc = "start" /\ Starting(t).task = t /\ Starting(t).todo = {}
           /\ ~Starting(t).lost
<1>1. NoRows \in Rows
  BY Constants DEF NoRows, Rows, Never, Deleted
<1> QED
  BY <1>1, Constants DEF Starting, Job, Working

LEMMA RunMoves ==
    ASSUME Typed, NEW g \in Runners, NEW j \in Job \cup {Idle}, Become(g, j)
    PROVE  /\ run' \in [Runners -> Job \cup {Idle}]
           /\ run'[g] = j
           /\ \A h \in Runners : h # g => run'[h] = run[h]
BY DEF Typed, Become

LEMMA NoItems == ASSUME NEW s \in Seq(Item) PROVE /\ s = <<>> <=> DOMAIN s = {}
                                                  /\ DOMAIN s \in SUBSET Nat
                                                  /\ \A i \in DOMAIN s : s[i] \in Item
OBVIOUS

LEMMA ItemSet ==
    ASSUME Typed, NEW t \in TaskIds, NEW i \in DOMAIN items[t], NEW st \in ItemStates, SetItem(t, i, st)
    PROVE  /\ items' \in [TaskIds -> Seq(Item)]
           /\ \A s \in TaskIds : s # t => items'[s] = items[s]
           /\ \A s \in TaskIds : DOMAIN items'[s] = DOMAIN items[s]
           /\ \A s \in TaskIds : \A k \in DOMAIN items[s] : items'[s][k].rec = items[s][k].rec
           /\ \A k \in DOMAIN items[t] : k # i => items'[t][k] = items[t][k]
           /\ items'[t][i].st = st
<1>1. items[t] \in Seq(Item)
  BY DEF Typed
<1> DEFINE f == [items[t] EXCEPT ![i].st = st]
<1>2. items[t][i] \in Item
  BY <1>1, NoItems
<1>3. [items[t][i] EXCEPT !.st = st] \in Item /\ [items[t][i] EXCEPT !.st = st].rec = items[t][i].rec
      /\ [items[t][i] EXCEPT !.st = st].st = st
  BY <1>2 DEF Item
<1>4. f = [items[t] EXCEPT ![i] = [items[t][i] EXCEPT !.st = st]]
  OBVIOUS
<1>5. DOMAIN f = DOMAIN items[t] /\ f[i] = [items[t][i] EXCEPT !.st = st] /\ \A k \in DOMAIN items[t] : k # i => f[k] = items[t][k]
  BY <1>1, <1>4
<1>6. f \in Seq(Item)
  BY <1>1, <1>3, <1>4
<1>7. items' = [items EXCEPT ![t] = f]
  BY DEF SetItem
<1> HIDE DEF f
<1>8. items'[t] = f /\ items' \in [TaskIds -> Seq(Item)] /\ \A s \in TaskIds : s # t => items'[s] = items[s]
  BY <1>6, <1>7 DEF Typed
<1> QED
  BY <1>3, <1>5, <1>8

LEMMA StatusSet ==
    ASSUME Typed, NEW t \in TaskIds, Exists(t), NEW st \in Statuses, SetStatus(t, st)
    PROVE  /\ tasks' \in [TaskIds -> Task \cup {Absent}]
           /\ \A s \in TaskIds : s # t => tasks'[s] = tasks[s]
           /\ tasks'[t] \in Task /\ tasks'[t].status = st
           /\ tasks'[t].dst = tasks[t].dst /\ tasks'[t].src = tasks[t].src
<1>1. tasks[t] \in Task
  BY DEF Typed, Exists, Absent
<1>2. [tasks[t] EXCEPT !.status = st] \in Task
      /\ [tasks[t] EXCEPT !.status = st].status = st
      /\ [tasks[t] EXCEPT !.status = st].src = tasks[t].src
      /\ [tasks[t] EXCEPT !.status = st].dst = tasks[t].dst
  BY <1>1 DEF Task
<1>3. tasks' = [tasks EXCEPT ![t] = [tasks[t] EXCEPT !.status = st]]
  BY DEF SetStatus
<1> QED
  BY <1>2, <1>3 DEF Typed

LEMMA TaskThere == ASSUME Typed, NEW t \in TaskIds, Exists(t)
                   PROVE  /\ tasks[t] \in Task /\ tasks[t].status \in Statuses
                          /\ tasks[t].src \in Accts /\ tasks[t].dst \in Accts
BY DEF Typed, Exists, Absent, Task

LEMMA PutDoes ==
    ASSUME Typed, NEW a \in Accts, NEW r \in Recs, Put(a, r)
    PROVE  /\ IdAt(a, r) \in 1..MaxIds
           /\ zone' \in [Accts -> [Recs -> 0..MaxIds]]
           /\ nextId' \in 1..(MaxIds + 1)
           /\ zone'[a][r] = IdAt(a, r)
           /\ \A b \in Accts, s \in Recs : zone[b][s] # 0 => zone'[b][s] = zone[b][s]
           /\ \A b \in Accts, s \in Recs : b # a \/ s # r => zone'[b][s] = zone[b][s]
<1>1. zone[a][r] \in 0..MaxIds /\ zone[a] \in [Recs -> 0..MaxIds] /\ nextId \in 1..(MaxIds + 1)
  BY DEF Typed
<1>2. IdAt(a, r) \in 1..MaxIds
  BY <1>1, Constants DEF Put, IdAt
<1>3. nextId' \in 1..(MaxIds + 1)
  BY <1>1, Constants DEF Put, IdAt
<1>4. zone' = [zone EXCEPT ![a] = [zone[a] EXCEPT ![r] = IdAt(a, r)]]
  BY DEF Put
<1>5. zone' \in [Accts -> [Recs -> 0..MaxIds]] /\ zone'[a][r] = IdAt(a, r)
  BY <1>1, <1>2, <1>4, Constants DEF Typed
<1>6. \A b \in Accts, s \in Recs : b # a \/ s # r => zone'[b][s] = zone[b][s]
  BY <1>1, <1>4 DEF Typed
<1>7. zone[a][r] # 0 => IdAt(a, r) = zone[a][r]
  BY DEF IdAt
<1> QED
  BY <1>2, <1>3, <1>5, <1>6, <1>7

LEMMA TakeOutDoes ==
    ASSUME Typed, NEW a \in Accts, NEW r \in Recs, NEW id, TakeOut(a, r, id)
    PROVE  /\ zone' \in [Accts -> [Recs -> 0..MaxIds]]
           /\ \A b \in Accts, s \in Recs : b # a \/ s # r => zone'[b][s] = zone[b][s]
<1>1. CASE zone[a][r] = id
  <2>1. zone' = [zone EXCEPT ![a] = [zone[a] EXCEPT ![r] = 0]]
    BY <1>1 DEF TakeOut
  <2> QED
    BY <2>1, Constants DEF Typed
<1>2. CASE zone[a][r] # id
  BY <1>2 DEF TakeOut, Typed
<1> QED
  BY <1>1, <1>2

LEMMA PointDoes ==
    ASSUME Typed, NEW r \in Recs, NEW id \in 1..MaxIds
    PROVE  /\ Repointed(r, id) \in Rows
           /\ \A s \in Recs : s # r => Repointed(r, id)[s] = rows[s]
           /\ r \in Present => Repointed(r, id)[r] = id
           /\ r \notin Present => Repointed(r, id)[r] = rows[r]
<1>1. id \in Deleted..MaxIds
  BY Constants DEF Deleted
<1> QED
  BY <1>1 DEF Repointed, Typed, Rows

\* Every record of the snapshot gets an item of its own.
LEMMA ItemsMade ==
    ASSUME NEW snap \in Rows
    PROVE  /\ NewItems(snap) \in Seq(Item)
           /\ \A r \in Recs : snap[r] > 0 => \E i \in DOMAIN NewItems(snap) : NewItems(snap)[i].rec = r
           /\ \A i \in DOMAIN NewItems(snap) : snap[NewItems(snap)[i].rec] > 0 /\ NewItems(snap)[i].st = "pending"
<1> DEFINE S == {r \in Recs : snap[r] > 0}
           n == Cardinality(S)
           f == SetToSeq(S)
           new == [i \in 1..n |-> [rec |-> f[i], from |-> snap[f[i]], st |-> "pending"]]
<1>1. IsFiniteSet(S) /\ n \in Nat /\ ExistsBijection(1..n, S)
  <2>1. S \subseteq Recs
    OBVIOUS
  <2>2. IsFiniteSet(S)
    BY <2>1, Constants, FS_Subset
  <2> QED
    BY <2>2, FS_CardinalityType
<1>2. PICK b \in [1..n -> S] : IsInjective(b)
  <2>1. PICK b \in Bijection(1..n, S) : TRUE
    BY <1>1 DEF ExistsBijection
  <2>2. b \in Injection(1..n, S)
    BY <2>1 DEF Bijection
  <2>3. b \in [1..n -> S] /\ \A i, k \in 1..n : b[i] = b[k] => i = k
    BY <2>2 DEF Injection, IsInjective
  <2>4. IsInjective(b)
    BY <2>3 DEF IsInjective
  <2> QED
    BY <2>3, <2>4
<1>3. f \in [1..n -> S] /\ IsInjective(f)
  BY <1>2 DEF SetToSeq
<1>4. f \in Injection(1..n, S)
  BY <1>3 DEF IsInjective, Injection
<1>5. f \in Surjection(1..n, S)
  <2>1. IsFiniteSet(1..n) /\ Cardinality(1..n) = n
    BY <1>1, FS_Interval
  <2> QED
    BY <1>1, <1>4, <2>1, FS_Injection
<1>6. \A r \in S : \E i \in 1..n : f[i] = r
  BY <1>5 DEF Surjection
<1>7. f \in Seq(S) /\ Len(f) = n
  BY <1>1, <1>3
<1>8. NewItems(snap) = new
  BY <1>7 DEF NewItems
<1>9. \A i \in 1..n : f[i] \in Recs /\ snap[f[i]] \in 1..MaxIds
  <2> TAKE i \in 1..n
  <2>1. f[i] \in Recs /\ snap[f[i]] > 0
    BY <1>3
  <2>2. snap[f[i]] \in Deleted..MaxIds
    BY <2>1 DEF Rows
  <2> QED
    BY <2>1, <2>2, Constants DEF Deleted
<1>10. \A i \in 1..n : new[i] \in Item
  BY <1>9 DEF Item, ItemStates
<1> HIDE DEF f, n
<1>11. new \in Seq(Item) /\ DOMAIN new = 1..n
  BY <1>1, <1>10
<1>12. \A i \in 1..n : new[i].rec = f[i] /\ new[i].st = "pending"
  OBVIOUS
<1> HIDE DEF new
<1> QED
  BY <1>3, <1>6, <1>8, <1>9, <1>11, <1>12
-----------------------------------------------------------------------------
(* The first layer is inductive *)

\* Tasks and items remain, and only a task that exists has items.
Steady ==
    \A t \in TaskIds :
        /\ tasks'[t].status # "none" <=> Exists(t)
        /\ DOMAIN items[t] \subseteq DOMAIN items'[t]
        /\ items'[t] # <<>> => Exists(t)

LEMMA SteadyTasks ==
    ASSUME Shapes, tasks' \in [TaskIds -> Task \cup {Absent}], items' \in [TaskIds -> Seq(Item)], Steady
    PROVE  TasksOK'
<1> SUFFICES ASSUME NEW t \in TaskIds
             PROVE  /\ tasks'[t].status # "none" => \A s \in 1..(t - 1) : tasks'[s].status # "none"
                    /\ items'[t] # <<>> => tasks'[t].status # "none"
  BY DEF TasksOK, Exists
<1>1. \A s \in 1..(t - 1) : s \in TaskIds
  BY Constants
<1> QED
  BY <1>1 DEF Shapes, TasksOK, Steady, Exists

LEMMA HoldsOn ==
    ASSUME Shapes, items' \in [TaskIds -> Seq(Item)], NEW h \in Runners, run'[h] = run[h], run[h].pc # "idle",
           \A t \in TaskIds : (Exists(t) => tasks'[t].status # "none") /\ DOMAIN items[t] \subseteq DOMAIN items'[t]
    PROVE  tasks'[run'[h].task].status # "none" /\ Holds(run'[h], items'[run'[h].task])
<1>1. run[h].task \in TaskIds
  BY AtJob DEF Shapes, Job
<1> QED
  BY <1>1 DEF Shapes, RunsOK, Holds, Exists

LEMMA BearsNothing == ASSUME NEW there, NEW its PROVE Bears(Idle, there, its)
BY DEF Bears, Idle

\* A request that is at work on a task.
LEMMA AdmAt ==
    ASSUME Shapes, NEW d \in Admins, adm[d].pc \in {"call", "mark", "update", "close", "cleanup"}
    PROVE  adm[d].task \in TaskIds /\ Exists(adm[d].task)
<1>1. adm[d] \in Retry \cup Closing \cup Cleaning
  BY DEF Shapes, Typed, Doing, Idle, Saving
<1> QED
  BY <1>1 DEF Shapes, AdmOK, Bears, Retry, Closing, Cleaning

LEMMA BearsOn ==
    ASSUME Shapes, items' \in [TaskIds -> Seq(Item)], NEW d \in Admins, adm'[d] = adm[d],
           \A t \in TaskIds : (Exists(t) => tasks'[t].status # "none") /\ DOMAIN items[t] \subseteq DOMAIN items'[t]
    PROVE  Bears(adm'[d], tasks'[adm'[d].task].status # "none", items'[adm'[d].task])
<1>1. \A t \in TaskIds : items[t] \in Seq(Item) /\ items'[t] \in Seq(Item)
  BY DEF Shapes, Typed
<1>2. \A t \in TaskIds : items[t] # <<>> => items'[t] # <<>>
  BY <1>1, NoItems
<1>3. Bears(adm[d], Exists(adm[d].task), items[adm[d].task])
  BY DEF Shapes, AdmOK
<1>4. CASE adm[d].pc \in {"call", "mark", "update", "close", "cleanup"}
  <2>1. adm[d].task \in TaskIds /\ Exists(adm[d].task)
    BY <1>4, AdmAt
  <2> QED
    BY <1>2, <1>3, <2>1 DEF Bears
<1>5. CASE adm[d].pc \notin {"call", "mark", "update", "close", "cleanup"}
  BY <1>5 DEF Bears
<1> QED
  BY <1>4, <1>5

LEMMA AdmHoldsOn ==
    ASSUME Shapes, items' \in [TaskIds -> Seq(Item)], adm' = adm,
           \A t \in TaskIds : (Exists(t) => tasks'[t].status # "none") /\ DOMAIN items[t] \subseteq DOMAIN items'[t]
    PROVE  AdmOK'
BY BearsOn DEF AdmOK, Exists

\* A step of a goroutine.
LEMMA RunShapes ==
    ASSUME Shapes, NEW g \in Runners, NEW j \in Job \cup {Idle}, Become(g, j),
           j.pc # "idle" => Exists(j.task) /\ Holds(j, items'[j.task]),
           dom' \in Domain, tasks' \in [TaskIds -> Task \cup {Absent}], items' \in [TaskIds -> Seq(Item)],
           rows' \in Rows, zone' \in [Accts -> [Recs -> 0..MaxIds]], nextId' \in 1..(MaxIds + 1),
           adm' = adm, usr' = usr, Steady
    PROVE  Shapes'
<1>1. run' \in [Runners -> Job \cup {Idle}] /\ run'[g] = j /\ \A h \in Runners : h # g => run'[h] = run[h]
  BY RunMoves DEF Shapes
<1>2. Typed'
  BY <1>1 DEF Shapes, Typed
<1>3. TasksOK'
  BY SteadyTasks
<1>4. RunsOK'
  <2> SUFFICES ASSUME NEW h \in Runners, run'[h].pc # "idle"
               PROVE  tasks'[run'[h].task].status # "none" /\ Holds(run'[h], items'[run'[h].task])
    BY DEF RunsOK, Exists
  <2>1. CASE h = g
    <3>1. j \in Job /\ j.task \in TaskIds
      BY <1>1, <2>1, IdleIsIdle DEF Job
    <3> QED
      BY <1>1, <2>1, <3>1 DEF Steady
  <2>2. CASE h # g
    BY <1>1, <2>2, HoldsOn DEF Steady
  <2> QED
    BY <2>1, <2>2
<1>5. AdmOK'
  BY AdmHoldsOn DEF Steady
<1> QED
  BY <1>2, <1>3, <1>4, <1>5 DEF Shapes

\* A step of the administrator or a user.
LEMMA RequestShapes ==
    ASSUME Shapes, run' = run \/ run' = [g \in Runners |-> Idle], dom' \in Domain,
           tasks' \in [TaskIds -> Task \cup {Absent}], items' \in [TaskIds -> Seq(Item)],
           rows' \in Rows, zone' \in [Accts -> [Recs -> 0..MaxIds]], nextId' \in 1..(MaxIds + 1), Steady,
           adm' \in [Admins -> Doing],
           \A d \in Admins : \/ adm'[d] = adm[d]
                             \/ Bears(adm'[d], tasks'[adm'[d].task].status # "none", items'[adm'[d].task]),
           usr' \in {Idle} \cup Change
    PROVE  Shapes'
<1>1. Typed'
  BY DEF Shapes, Typed
<1>2. TasksOK'
  BY SteadyTasks
<1>3. RunsOK'
  <2> SUFFICES ASSUME NEW h \in Runners, run'[h].pc # "idle"
               PROVE  tasks'[run'[h].task].status # "none" /\ Holds(run'[h], items'[run'[h].task])
    BY DEF RunsOK, Exists
  <2>1. run'[h] = run[h]
    BY IdleIsIdle
  <2> QED
    BY <2>1, HoldsOn DEF Steady
<1>4. AdmOK'
  BY BearsOn DEF Steady, AdmOK, Exists
<1> QED
  BY <1>1, <1>2, <1>3, <1>4 DEF Shapes

LEMMA AdmMoves ==
    ASSUME Typed, NEW d \in Admins, NEW a \in Doing, Turn(d, a)
    PROVE  /\ adm' \in [Admins -> Doing]
           /\ adm'[d] = a
           /\ \A e \in Admins : e # d => adm'[e] = adm[e]
BY DEF Typed, Turn

\* A step of an administrator's request.
LEMMA TurnedShapes ==
    ASSUME Shapes, NEW d \in Admins, NEW a \in Doing, Turn(d, a), dom' \in Domain,
           tasks' \in [TaskIds -> Task \cup {Absent}], items' \in [TaskIds -> Seq(Item)],
           rows' \in Rows, zone' \in [Accts -> [Recs -> 0..MaxIds]], nextId' \in 1..(MaxIds + 1), Steady,
           Bears(a, tasks'[a.task].status # "none", items'[a.task]), UNCHANGED <<run, usr>>
    PROVE  Shapes' /\ adm'[d] = a /\ \A e \in Admins : e # d => adm'[e] = adm[e]
<1>1. adm' \in [Admins -> Doing] /\ adm'[d] = a /\ \A e \in Admins : e # d => adm'[e] = adm[e]
  BY AdmMoves DEF Shapes
<1> QED
  BY <1>1, RequestShapes DEF Shapes, Typed

LEMMA ItemSteady ==
    ASSUME Shapes, NEW t \in TaskIds, NEW i \in DOMAIN items[t], NEW st \in ItemStates, SetItem(t, i, st), tasks' = tasks
    PROVE  items' \in [TaskIds -> Seq(Item)] /\ Steady
<1>1. /\ items' \in [TaskIds -> Seq(Item)]
      /\ \A s \in TaskIds : s # t => items'[s] = items[s]
      /\ \A s \in TaskIds : DOMAIN items'[s] = DOMAIN items[s]
  BY ItemSet DEF Shapes
<1>2. items[t] # <<>>
  BY NoItems DEF Shapes, Typed
<1> QED
  BY <1>1, <1>2 DEF Steady, Exists, Shapes, TasksOK

LEMMA StatusSteady ==
    ASSUME Shapes, NEW t \in TaskIds, Exists(t), NEW st \in Statuses, SetStatus(t, st), items' = items
    PROVE  tasks' \in [TaskIds -> Task \cup {Absent}] /\ Steady
<1>1. /\ tasks' \in [TaskIds -> Task \cup {Absent}]
      /\ \A s \in TaskIds : s # t => tasks'[s] = tasks[s]
      /\ tasks'[t].status = st
  BY StatusSet DEF Shapes
<1>2. st # "none"
  BY DEF Statuses, Final
<1> QED
  BY <1>1, <1>2 DEF Steady, Exists, Shapes, TasksOK

LEMMA NothingSteady == ASSUME Shapes, UNCHANGED <<tasks, items>> PROVE Steady
BY DEF Steady, Exists, Shapes, TasksOK

LEMMA Unmoved ==
    ASSUME Shapes
    PROVE  /\ dom \in Domain /\ tasks \in [TaskIds -> Task \cup {Absent}] /\ items \in [TaskIds -> Seq(Item)]
           /\ rows \in Rows /\ zone \in [Accts -> [Recs -> 0..MaxIds]] /\ nextId \in 1..(MaxIds + 1)
           /\ run \in [Runners -> Job \cup {Idle}] /\ adm \in [Admins -> Doing] /\ usr \in Change \cup {Idle}
BY DEF Shapes, Typed

\* The goroutine's task, its items and the item in hand.
LEMMA InHand ==
    ASSUME Shapes, NEW g \in Runners, run[g].pc # "idle"
    PROVE  /\ run[g] \in Job /\ run[g].task \in TaskIds /\ Exists(run[g].task)
           /\ Holds(run[g], items[run[g].task])
           /\ items[run[g].task] \in Seq(Item)
           /\ run[g].todo \in SUBSET Nat
           /\ run[g].pc \in {"call", "save", "point", "bad"} =>
                 /\ First(run[g].todo) \in DOMAIN items[run[g].task]
                 /\ Current(g) \in Item
<1>1. run[g] \in Job /\ run[g].task \in TaskIds /\ run[g].todo \in SUBSET Nat
  BY AtJob DEF Shapes, Job
<1>2. Exists(run[g].task) /\ Holds(run[g], items[run[g].task]) /\ items[run[g].task] \in Seq(Item)
  BY <1>1 DEF Shapes, RunsOK, Typed
<1>3. ASSUME run[g].pc \in {"call", "save", "point", "bad"}
      PROVE  First(run[g].todo) \in DOMAIN items[run[g].task] /\ Current(g) \in Item
  <2>1. First(run[g].todo) \in run[g].todo
    BY <1>1, <1>2, <1>3, Least DEF Holds
  <2> QED
    BY <1>2, <2>1, NoItems DEF Holds, Current
<1> QED
  BY <1>1, <1>2, <1>3

LEMMA Turned ==
    ASSUME NEW j \in Job, NEW pc \in Working \cup {"close", "next"}
    PROVE  /\ [j EXCEPT !.pc = pc] \in Job /\ [j EXCEPT !.pc = pc].pc = pc
           /\ [j EXCEPT !.pc = pc].task = j.task /\ [j EXCEPT !.pc = pc].todo = j.todo
           /\ [j EXCEPT !.pc = pc].id = j.id /\ [j EXCEPT !.pc = pc].out = j.out
           /\ [j EXCEPT !.pc = pc].won = j.won /\ [j EXCEPT !.pc = pc].lost = j.lost
           /\ [j EXCEPT !.pc = pc].snap = j.snap
BY DEF Job

LEMMA Finished ==
    ASSUME NEW j \in Job, NEW out \in Final
    PROVE  LET f == [j EXCEPT !.pc = "finish", !.out = out, !.todo = {}, !.snap = NoRows]
           IN f \in Job /\ f.pc = "finish" /\ f.task = j.task /\ f.todo = {} /\ f.out = out
<1>1. NoRows \in Rows
  BY Constants DEF NoRows, Rows, Never, Deleted
<1> QED
  BY <1>1 DEF Job, Working

LEMMA ListedJob ==
    ASSUME Shapes, NEW g \in Runners, run[g].pc # "idle", NEW its \in Seq(Item)
    PROVE  /\ Listed(g, its) \in Job /\ Listed(g, its).pc = "client" /\ Listed(g, its).task = run[g].task
           /\ Listed(g, its).todo = Todo(its) /\ Listed(g, its).todo \subseteq DOMAIN its
           /\ Listed(g, its).lost = run[g].lost
           /\ Listed(g, its).won = \E i \in DOMAIN its : its[i].st = "succeeded"
<1>1. run[g] \in Job
  BY InHand
<1>2. NoRows \in Rows
  BY Constants DEF NoRows, Rows, Never, Deleted
<1>3. Todo(its) \in SUBSET Nat /\ Todo(its) \subseteq DOMAIN its
  BY NoItems DEF Todo
<1>4. (\E i \in DOMAIN its : its[i].st = "succeeded") \in BOOLEAN
  OBVIOUS
<1> QED
  BY <1>1, <1>2, <1>3, <1>4 DEF Listed, Job, Working, Looping

LEMMA NextJob ==
    ASSUME NEW j \in Job
    PROVE  LET n == [j EXCEPT !.pc = "item", !.todo = Others(@), !.id = 0]
           IN n \in Job /\ n.pc = "item" /\ n.task = j.task /\ n.todo = Others(j.todo) /\ n.won = j.won /\ n.lost = j.lost
<1>1. Others(j.todo) \in SUBSET Nat
  BY OthersLess DEF Job
<1>2. [j EXCEPT !.pc = "item", !.todo = Others(@), !.id = 0] = [j EXCEPT !.pc = "item", !.todo = Others(j.todo), !.id = 0]
  OBVIOUS
<1> DEFINE m == [j EXCEPT !.pc = "item", !.todo = Others(j.todo), !.id = 0]
<1>3. m \in Job
  <2>1. 0 \in 0..MaxIds /\ "item" \in Working
    BY Constants DEF Working, Looping
  <2>2. ASSUME NEW S \in SUBSET Nat PROVE [j EXCEPT !.pc = "item", !.todo = S, !.id = 0] \in Job
    BY <2>1 DEF Job
  <2> QED
    BY <1>1, <2>2
<1>4. m.pc = "item" /\ m.task = j.task /\ m.todo = Others(j.todo) /\ m.won = j.won /\ m.lost = j.lost
  BY DEF Job
<1> QED
  BY <1>2, <1>3, <1>4

LEMMA StartShapes == ASSUME Shapes, NEW g \in Runners, RunStart(g) PROVE Shapes'
<1>1. run[g].pc = "start" /\ run[g] \in Job /\ run[g].task \in TaskIds /\ Exists(run[g].task)
      /\ Holds(run[g], items[run[g].task])
  BY InHand DEF RunStart, At
<1>2. CASE SetStatus(run[g].task, "running") /\ To(g, "domain")
  <2> DEFINE j == [run[g] EXCEPT !.pc = "domain"]
  <2>1. j \in Job /\ j.pc = "domain" /\ j.task = run[g].task /\ j.todo = run[g].todo
    BY <1>1, Turned DEF Working
  <2>2. tasks' \in [TaskIds -> Task \cup {Absent}] /\ Steady
    BY <1>1, <1>2, StatusSteady DEF RunStart, Statuses
  <2>3. Holds(j, items'[j.task])
    BY <1>1, <2>1 DEF RunStart, Holds
  <2> QED
    BY <1>1, <1>2, <2>1, <2>2, <2>3, RunShapes, Unmoved DEF RunStart, To, provider
<1>3. CASE Become(g, Idle) /\ UNCHANGED tasks
  BY <1>3, RunShapes, NothingSteady, Unmoved, IdleIsIdle DEF RunStart, provider
<1> QED
  BY <1>2, <1>3 DEF RunStart

LEMMA DomainShapes == ASSUME Shapes, NEW g \in Runners, RunDomain(g) PROVE Shapes'
<1>1. run[g].pc = "domain" /\ run[g] \in Job /\ run[g].task \in TaskIds /\ Exists(run[g].task)
      /\ Holds(run[g], items[run[g].task])
  BY InHand DEF RunDomain, At
<1> DEFINE j == [run[g] EXCEPT !.pc = "load"]
<1>2. j \in Job /\ j.pc = "load" /\ j.task = run[g].task /\ j.todo = run[g].todo
  BY <1>1, Turned DEF Working
<1>3. Holds(j, items'[j.task])
  BY <1>1, <1>2 DEF RunDomain, data, Holds
<1>4. dom' \in Domain
  BY Unmoved DEF RunDomain, Domain, States
<1> QED
  BY <1>1, <1>2, <1>3, <1>4, RunShapes, NothingSteady, Unmoved DEF RunDomain, To, data, provider

\* Steps of a goroutine that leave the data alone.
LEMMA QuietShapes ==
    ASSUME Shapes, NEW g \in Runners, NEW j \in Job \cup {Idle}, Become(g, j),
           j.pc # "idle" => Exists(j.task) /\ Holds(j, items[j.task]),
           UNCHANGED <<tasks, items, rows, zone, nextId, adm, usr>>, dom' \in Domain
    PROVE  Shapes'
BY RunShapes, NothingSteady, Unmoved

LEMMA FinishedHolds ==
    ASSUME Shapes, NEW g \in Runners, run[g].pc # "idle", NEW out \in Final, Finish(g, out), adm' = adm, usr' = usr,
           UNCHANGED <<dom, tasks, items, rows, zone, nextId>>
    PROVE  Shapes'
<1>1. run[g] \in Job /\ run[g].task \in TaskIds /\ Exists(run[g].task)
  BY InHand
<1> DEFINE f == [run[g] EXCEPT !.pc = "finish", !.out = out, !.todo = {}, !.snap = NoRows]
<1>2. f \in Job /\ f.pc = "finish" /\ f.task = run[g].task /\ f.todo = {} /\ f.out = out
  BY <1>1, Finished
<1>3. Become(g, f)
  BY DEF Finish
<1> HIDE DEF f
<1>4. Exists(f.task) /\ Holds(f, items[f.task])
  BY <1>1, <1>2 DEF Holds
<1> QED
  BY <1>2, <1>3, <1>4, QuietShapes, Unmoved

LEMMA ListedHolds ==
    ASSUME Shapes, NEW g \in Runners, run[g].pc # "idle", NEW its \in {items[run[g].task], <<>>},
           Become(g, Listed(g, its)), adm' = adm, usr' = usr, UNCHANGED <<dom, tasks, items, rows, zone, nextId>>
    PROVE  Shapes'
<1>1. run[g] \in Job /\ run[g].task \in TaskIds /\ Exists(run[g].task) /\ items[run[g].task] \in Seq(Item)
  BY InHand
<1>2. its \in Seq(Item) /\ DOMAIN its \subseteq DOMAIN items[run[g].task]
  <2>1. CASE its = items[run[g].task]
    BY <1>1, <2>1
  <2>2. CASE its = <<>>
    <3>1. <<>> \in Seq(Item) /\ DOMAIN <<>> = {}
      OBVIOUS
    <3> QED
      BY <2>2, <3>1
  <2> QED
    BY <2>1, <2>2
<1>3. /\ Listed(g, its) \in Job /\ Listed(g, its).pc = "client" /\ Listed(g, its).task = run[g].task
      /\ Listed(g, its).todo \subseteq DOMAIN its
  BY <1>2, ListedJob
<1>4. Exists(Listed(g, its).task) /\ Holds(Listed(g, its), items[Listed(g, its).task])
  BY <1>1, <1>2, <1>3 DEF Holds
<1> QED
  BY <1>3, <1>4, QuietShapes, Unmoved

LEMMA LoadShapes == ASSUME Shapes, NEW g \in Runners, RunLoad(g) PROVE Shapes'
<1>1. run[g].pc = "load" /\ run[g] \in Job /\ run[g].task \in TaskIds /\ Exists(run[g].task)
      /\ Holds(run[g], items[run[g].task])
  BY InHand DEF RunLoad, At
<1>2. UNCHANGED <<dom, tasks, items, rows, zone, nextId, adm, usr>>
  BY DEF RunLoad, data, provider
<1>3. CASE Finish(g, "failed")
  BY <1>1, <1>2, <1>3, FinishedHolds DEF Final
<1>4. CASE Become(g, [run[g] EXCEPT !.pc = "create", !.snap = rows])
  <2> DEFINE j == [run[g] EXCEPT !.pc = "create", !.snap = rows]
  <2>1. j \in Job /\ j.pc = "create" /\ j.task = run[g].task /\ j.todo = run[g].todo
    BY <1>1, Unmoved DEF Job, Working
  <2>2. Exists(j.task) /\ Holds(j, items[j.task])
    BY <1>1, <2>1 DEF Holds
  <2> HIDE DEF j
  <2>3. Become(g, j)
    BY <1>4 DEF j
  <2> QED
    BY <1>2, <2>1, <2>2, <2>3, QuietShapes, Unmoved
<1>5. ASSUME NEW its \in {items[run[g].task], <<>>}, Become(g, Listed(g, its)) PROVE Shapes'
  BY <1>1, <1>2, <1>5, ListedHolds
<1> QED
  BY <1>3, <1>4, <1>5 DEF RunLoad

LEMMA ReloadShapes == ASSUME Shapes, NEW g \in Runners, RunReload(g) PROVE Shapes'
<1>1. run[g].pc # "idle" /\ UNCHANGED <<dom, tasks, items, rows, zone, nextId, adm, usr>>
  BY DEF RunReload, At, data, provider
<1>2. PICK its \in {items[run[g].task], <<>>} : Become(g, Listed(g, its))
  BY DEF RunReload
<1> QED
  BY <1>1, <1>2, ListedHolds

LEMMA Joined ==
    ASSUME NEW s \in Seq(Item), NEW u \in Seq(Item)
    PROVE  /\ s \o u \in Seq(Item)
           /\ DOMAIN s \subseteq DOMAIN (s \o u) /\ \A i \in DOMAIN s : (s \o u)[i] = s[i]
           /\ \A k \in DOMAIN u : \E i \in DOMAIN (s \o u) : (s \o u)[i] = u[k]
           /\ \A i \in DOMAIN (s \o u) : i \in DOMAIN s \/ \E k \in DOMAIN u : (s \o u)[i] = u[k]
<1>1. s \o u \in Seq(Item) /\ Len(s \o u) = Len(s) + Len(u)
  OBVIOUS
<1>2. Len(s) \in Nat /\ Len(u) \in Nat /\ DOMAIN s = 1..Len(s) /\ DOMAIN u = 1..Len(u)
      /\ DOMAIN (s \o u) = 1..(Len(s) + Len(u))
  BY <1>1
<1>3. \A i \in DOMAIN s : (s \o u)[i] = s[i]
  OBVIOUS
<1>4. \A k \in DOMAIN u : (s \o u)[Len(s) + k] = u[k] /\ Len(s) + k \in DOMAIN (s \o u)
  BY <1>2
<1>5. \A i \in DOMAIN (s \o u) : i \in DOMAIN s \/ (i - Len(s) \in DOMAIN u /\ i = Len(s) + (i - Len(s)))
  BY <1>2
<1>6. DOMAIN s \subseteq DOMAIN (s \o u)
  BY <1>2
<1> QED
  BY <1>1, <1>3, <1>4, <1>5, <1>6

LEMMA CreateShapes == ASSUME Shapes, NEW g \in Runners, RunCreate(g) PROVE Shapes'
<1>1. run[g].pc = "create" /\ run[g] \in Job /\ run[g].task \in TaskIds /\ Exists(run[g].task)
      /\ Holds(run[g], items[run[g].task]) /\ items[run[g].task] \in Seq(Item)
  BY InHand DEF RunCreate, At
<1>2. UNCHANGED <<dom, tasks, rows, zone, nextId, adm, usr>>
  BY DEF RunCreate, data, provider
<1>3. CASE Finish(g, "failed") /\ UNCHANGED items
  BY <1>1, <1>2, <1>3, FinishedHolds DEF Final
<1>4. CASE items' = [items EXCEPT ![run[g].task] = @ \o NewItems(run[g].snap)] /\ To(g, "reload")
  <2>1. NewItems(run[g].snap) \in Seq(Item)
    BY <1>1, ItemsMade DEF Job
  <2> DEFINE new == items[run[g].task] \o NewItems(run[g].snap)
             j == [run[g] EXCEPT !.pc = "reload"]
  <2>2. new \in Seq(Item) /\ DOMAIN items[run[g].task] \subseteq DOMAIN new
    BY <1>1, <2>1, Joined
  <2>3. items' = [items EXCEPT ![run[g].task] = new]
    BY <1>4
  <2> HIDE DEF new
  <2>4. items' \in [TaskIds -> Seq(Item)] /\ items'[run[g].task] = new
        /\ \A t \in TaskIds : t # run[g].task => items'[t] = items[t]
    BY <1>1, <2>2, <2>3, Unmoved
  <2>5. Steady
    BY <1>1, <1>2, <2>2, <2>4 DEF Steady, Exists, Shapes, TasksOK
  <2>6. j \in Job /\ j.pc = "reload" /\ j.task = run[g].task /\ j.todo = run[g].todo
    BY <1>1, Turned DEF Working
  <2>7. Holds(j, items'[j.task])
    BY <1>1, <2>2, <2>4, <2>6 DEF Holds
  <2> QED
    BY <1>1, <1>2, <1>4, <2>4, <2>5, <2>6, <2>7, RunShapes, Unmoved DEF To
<1> QED
  BY <1>3, <1>4 DEF RunCreate

\* To another step with what it holds.
LEMMA TurnShapes ==
    ASSUME Shapes, NEW g \in Runners, run[g].pc # "idle", NEW pc \in Working \cup {"close", "next"}, To(g, pc),
           Holds([run[g] EXCEPT !.pc = pc], items'[run[g].task]),
           dom' \in Domain, tasks' \in [TaskIds -> Task \cup {Absent}], items' \in [TaskIds -> Seq(Item)],
           rows' \in Rows, UNCHANGED <<zone, nextId, adm, usr>>, Steady
    PROVE  Shapes'
<1>1. run[g] \in Job /\ run[g].task \in TaskIds /\ Exists(run[g].task)
  BY InHand
<1> DEFINE j == [run[g] EXCEPT !.pc = pc]
<1>2. j \in Job /\ j.task = run[g].task
  BY <1>1, Turned
<1>3. Become(g, j) /\ Exists(j.task) /\ Holds(j, items'[j.task])
  BY <1>1, <1>2 DEF To
<1> HIDE DEF j
<1> QED
  BY <1>2, <1>3, RunShapes, Unmoved

LEMMA OutcomeFinal == ASSUME NEW won \in BOOLEAN, NEW lost \in BOOLEAN PROVE Outcome(won, lost) \in Final
BY DEF Outcome, Final

LEMMA ClientShapes == ASSUME Shapes, NEW g \in Runners, RunClient(g) PROVE Shapes'
<1>1. run[g].pc = "client" /\ run[g] \in Job /\ Holds(run[g], items[run[g].task])
      /\ UNCHANGED <<dom, tasks, items, rows, zone, nextId, adm, usr>>
  BY InHand DEF RunClient, At, data, provider
<1>2. CASE To(g, "item")
  <2>1. Holds([run[g] EXCEPT !.pc = "item"], items'[run[g].task])
    BY <1>1 DEF Holds, Job
  <2> QED
    BY <1>1, <1>2, <2>1, TurnShapes, NothingSteady, Unmoved DEF Working, Looping
<1>3. CASE Finish(g, "failed")
  BY <1>1, <1>3, FinishedHolds DEF Final
<1> QED
  BY <1>2, <1>3 DEF RunClient

LEMMA ItemShapes == ASSUME Shapes, NEW g \in Runners, RunItem(g) PROVE Shapes'
<1>1. run[g].pc = "item" /\ run[g] \in Job /\ Holds(run[g], items[run[g].task]) /\ run[g].task \in TaskIds
      /\ run[g].todo \in SUBSET Nat /\ UNCHANGED <<dom, tasks, rows, zone, nextId, adm, usr>>
  BY InHand DEF RunItem, At, data, provider
<1>2. CASE run[g].todo = {}
  <2>1. Finish(g, Outcome(run[g].won, run[g].lost)) /\ UNCHANGED items
    BY <1>2 DEF RunItem
  <2>2. Outcome(run[g].won, run[g].lost) \in Final
    BY <1>1, OutcomeFinal DEF Job
  <2> QED
    BY <1>1, <2>1, <2>2, FinishedHolds
<1>3. CASE run[g].todo # {}
  <2>1. First(run[g].todo) \in DOMAIN items[run[g].task]
    BY <1>1, <1>3, Least DEF Holds
  <2>2. items' \in [TaskIds -> Seq(Item)] /\ Steady
    <3>1. CASE SetItem(run[g].task, First(run[g].todo), "running")
      BY <1>1, <2>1, <3>1, ItemSteady DEF ItemStates
    <3>2. CASE UNCHANGED items
      BY <1>1, <3>2, NothingSteady, Unmoved
    <3> QED
      BY <1>3, <3>1, <3>2 DEF RunItem
  <2>3. Holds([run[g] EXCEPT !.pc = "call"], items'[run[g].task])
    BY <1>1, <1>3, <2>2 DEF Holds, Job, Steady
  <2>4. To(g, "call")
    BY <1>3 DEF RunItem
  <2> QED
    BY <1>1, <2>2, <2>3, <2>4, TurnShapes, Unmoved DEF Working, Looping
<1> QED
  BY <1>2, <1>3

LEMMA CallShapes == ASSUME Shapes, NEW g \in Runners, RunCall(g) PROVE Shapes'
<1>1. run[g].pc = "call" /\ run[g] \in Job /\ Holds(run[g], items[run[g].task]) /\ run[g].task \in TaskIds
      /\ Exists(run[g].task) /\ Current(g) \in Item /\ UNCHANGED <<dom, tasks, items, rows, adm, usr>>
  BY InHand DEF RunCall, At, data
<1>2. TaskOf(g).dst \in Accts /\ Current(g).rec \in Recs
  BY <1>1, TaskThere DEF TaskOf, Item, Shapes
<1>3. Put(TaskOf(g).dst, Current(g).rec) \/ UNCHANGED provider
  BY DEF RunCall
<1>4. zone' \in [Accts -> [Recs -> 0..MaxIds]] /\ nextId' \in 1..(MaxIds + 1)
  BY <1>2, <1>3, PutDoes, Unmoved DEF provider, Shapes
<1>5. CASE Put(TaskOf(g).dst, Current(g).rec)
           /\ Become(g, [run[g] EXCEPT !.pc = "save", !.id = IdAt(TaskOf(g).dst, Current(g).rec), !.won = TRUE])
  <2>1. PICK id \in 1..MaxIds : id = IdAt(TaskOf(g).dst, Current(g).rec)
    BY <1>2, <1>5, PutDoes DEF Shapes
  <2> DEFINE j == [run[g] EXCEPT !.pc = "save", !.id = id, !.won = TRUE]
  <2>2. id \in 0..MaxIds /\ id > 0
    BY Constants
  <2>3. j \in Job
    BY <1>1, <2>2 DEF Job, Working, Looping
  <2>4. j.pc = "save" /\ j.task = run[g].task /\ j.todo = run[g].todo /\ j.id = id
    BY <1>1 DEF Job
  <2>5. Become(g, j)
    BY <1>5, <2>1
  <2> HIDE DEF j
  <2>6. Exists(j.task) /\ Holds(j, items'[j.task])
    BY <1>1, <2>2, <2>4 DEF Holds
  <2> QED
    BY <1>1, <1>4, <2>3, <2>5, <2>6, RunShapes, NothingSteady, Unmoved
<1>6. CASE Become(g, [run[g] EXCEPT !.pc = "bad", !.lost = TRUE])
  <2> DEFINE j == [run[g] EXCEPT !.pc = "bad", !.lost = TRUE]
  <2>1. j \in Job
    BY <1>1 DEF Job, Working, Looping
  <2>2. j.pc = "bad" /\ j.task = run[g].task /\ j.todo = run[g].todo
    BY <1>1 DEF Job
  <2>3. Become(g, j)
    BY <1>6
  <2> HIDE DEF j
  <2>4. Exists(j.task) /\ Holds(j, items'[j.task])
    BY <1>1, <2>2 DEF Holds
  <2> QED
    BY <1>1, <1>4, <2>1, <2>3, <2>4, RunShapes, NothingSteady, Unmoved
<1> QED
  BY <1>5, <1>6 DEF RunCall

LEMMA SaveShapes == ASSUME Shapes, NEW g \in Runners, RunSave(g) PROVE Shapes'
<1>1. run[g].pc = "save" /\ run[g] \in Job /\ Holds(run[g], items[run[g].task]) /\ run[g].task \in TaskIds
      /\ First(run[g].todo) \in DOMAIN items[run[g].task] /\ UNCHANGED <<dom, tasks, rows, zone, nextId, adm, usr>>
      /\ To(g, "point")
  BY InHand DEF RunSave, At, provider
<1>2. items' \in [TaskIds -> Seq(Item)] /\ Steady
  <2>1. CASE SetItem(run[g].task, First(run[g].todo), "succeeded")
    BY <1>1, <2>1, ItemSteady DEF ItemStates
  <2>2. CASE UNCHANGED items
    BY <1>1, <2>2, NothingSteady, Unmoved
  <2> QED
    BY <2>1, <2>2 DEF RunSave
<1>3. Holds([run[g] EXCEPT !.pc = "point"], items'[run[g].task])
  BY <1>1, <1>2 DEF Holds, Job, Steady
<1> QED
  BY <1>1, <1>2, <1>3, TurnShapes, Unmoved DEF Working, Looping

LEMMA NextItemShapes ==
    ASSUME Shapes, NEW g \in Runners, run[g].pc # "idle", NextItem(g), rows' \in Rows,
           items' \in [TaskIds -> Seq(Item)], Steady, UNCHANGED <<dom, tasks, zone, nextId, adm, usr>>
    PROVE  Shapes'
<1>1. run[g] \in Job /\ Holds(run[g], items[run[g].task]) /\ run[g].task \in TaskIds /\ Exists(run[g].task)
      /\ run[g].todo \in SUBSET Nat
  BY InHand
<1> DEFINE n == [run[g] EXCEPT !.pc = "item", !.todo = Others(@), !.id = 0]
<1>2. n \in Job /\ n.pc = "item" /\ n.task = run[g].task /\ n.todo = Others(run[g].todo)
  BY <1>1, NextJob
<1>3. Become(g, n)
  BY DEF NextItem
<1> HIDE DEF n
<1>4. Exists(n.task) /\ Holds(n, items'[n.task])
  BY <1>1, <1>2, OthersLess DEF Holds, Steady
<1> QED
  BY <1>2, <1>3, <1>4, RunShapes, Unmoved

LEMMA PointShapes == ASSUME Shapes, NEW g \in Runners, RunPoint(g) PROVE Shapes'
<1>1. run[g].pc = "point" /\ run[g] \in Job /\ Holds(run[g], items[run[g].task]) /\ Current(g) \in Item
      /\ UNCHANGED <<dom, tasks, items, zone, nextId, adm, usr>> /\ NextItem(g)
  BY InHand DEF RunPoint, At, provider
<1>2. rows' \in Rows
  <2>1. Current(g).rec \in Recs /\ run[g].id \in 1..MaxIds
    BY <1>1 DEF Item, Holds, Job
  <2>2. Repointed(Current(g).rec, run[g].id) \in Rows
    BY <2>1, PointDoes DEF Shapes
  <2> QED
    BY <2>2, Unmoved DEF RunPoint
<1> QED
  BY <1>1, <1>2, NextItemShapes, NothingSteady, Unmoved

LEMMA BadShapes == ASSUME Shapes, NEW g \in Runners, RunBad(g) PROVE Shapes'
<1>1. run[g].pc = "bad" /\ run[g].task \in TaskIds /\ First(run[g].todo) \in DOMAIN items[run[g].task]
      /\ UNCHANGED <<dom, tasks, rows, zone, nextId, adm, usr>> /\ NextItem(g)
  BY InHand DEF RunBad, At, provider
<1>2. items' \in [TaskIds -> Seq(Item)] /\ Steady
  <2>1. CASE SetItem(run[g].task, First(run[g].todo), "failed")
    BY <1>1, <2>1, ItemSteady DEF ItemStates
  <2>2. CASE UNCHANGED items
    BY <1>1, <2>2, NothingSteady, Unmoved
  <2> QED
    BY <2>1, <2>2 DEF RunBad
<1> QED
  BY <1>1, <1>2, NextItemShapes, Unmoved

LEMMA FinishShapes == ASSUME Shapes, NEW g \in Runners, RunFinish(g) PROVE Shapes'
<1>1. run[g].pc = "finish" /\ run[g] \in Job /\ Holds(run[g], items[run[g].task]) /\ run[g].task \in TaskIds
      /\ Exists(run[g].task) /\ UNCHANGED <<dom, items, rows, zone, nextId, adm, usr>> /\ To(g, "close")
  BY InHand DEF RunFinish, At, provider
<1>2. tasks' \in [TaskIds -> Task \cup {Absent}] /\ Steady
  <2>1. CASE SetStatus(run[g].task, run[g].out)
    <3>1. run[g].out \in Statuses
      BY <1>1 DEF Holds, Statuses
    <3> QED
      BY <1>1, <2>1, <3>1, StatusSteady
  <2>2. CASE UNCHANGED tasks
    BY <1>1, <2>2, NothingSteady, Unmoved
  <2> QED
    BY <2>1, <2>2 DEF RunFinish
<1>3. Holds([run[g] EXCEPT !.pc = "close"], items'[run[g].task])
  BY <1>1 DEF Holds, Job
<1> QED
  BY <1>1, <1>2, <1>3, TurnShapes, Unmoved

LEMMA ClosedDomain == ASSUME Shapes, NEW out \in Final PROVE Closed(out) \in Domain
BY Unmoved DEF Closed, StateFor, Final, Domain, States

LEMMA CloseShapes == ASSUME Shapes, NEW g \in Runners, RunClose(g) PROVE Shapes'
<1>1. run[g].pc = "close" /\ run[g] \in Job /\ Holds(run[g], items[run[g].task])
      /\ UNCHANGED <<tasks, items, rows, zone, nextId, adm, usr>> /\ To(g, "next")
  BY InHand DEF RunClose, At, data, provider
<1>2. dom' \in Domain
  BY <1>1, ClosedDomain, Unmoved DEF RunClose, Holds
<1>3. Holds([run[g] EXCEPT !.pc = "next"], items'[run[g].task])
  BY <1>1 DEF Holds, Job
<1> QED
  BY <1>1, <1>2, <1>3, TurnShapes, NothingSteady, Unmoved

LEMMA FirstPending == ASSUME Typed, Pending # {} PROVE First(Pending) \in TaskIds /\ tasks[First(Pending)].status = "pending"
<1>1. Pending \in SUBSET Nat
  BY Constants DEF Pending
<1>2. First(Pending) \in Pending
  BY <1>1, Least
<1> QED
  BY <1>2 DEF Pending

LEMMA StartsShapes ==
    ASSUME Shapes, NEW g \in Runners, NEW t \in TaskIds, tasks[t].status = "pending", Become(g, Starting(t)),
           UNCHANGED <<dom, tasks, items, rows, zone, nextId, adm, usr>>
    PROVE  Shapes'
<1>1. Starting(t) \in Job /\ Starting(t).pc = "start" /\ Starting(t).task = t /\ Starting(t).todo = {}
  BY Starts
<1>2. Exists(Starting(t).task) /\ Holds(Starting(t), items[Starting(t).task])
  BY <1>1 DEF Exists, Holds
<1> QED
  BY <1>1, <1>2, QuietShapes, Unmoved

LEMMA NextShapes == ASSUME Shapes, NEW g \in Runners, RunNext(g) PROVE Shapes'
<1>1. UNCHANGED <<dom, tasks, items, rows, zone, nextId, adm, usr>>
  BY DEF RunNext, data, provider
<1>2. CASE Pending # {} /\ Become(g, Starting(First(Pending)))
  BY <1>1, <1>2, FirstPending, StartsShapes DEF Shapes
<1>3. CASE Become(g, Idle)
  BY <1>1, <1>3, QuietShapes, IdleIsIdle, Unmoved
<1> QED
  BY <1>2, <1>3 DEF RunNext, Spawn

LEMMA RunStepShapes == ASSUME Shapes, NEW g \in Runners, RunStep(g) PROVE Shapes'
BY StartShapes, DomainShapes, LoadShapes, CreateShapes, ReloadShapes, ClientShapes, ItemShapes, CallShapes,
   SaveShapes, PointShapes, BadShapes, FinishShapes, CloseShapes, NextShapes DEF RunStep

LEMMA CreateMigrationShapes ==
    ASSUME Shapes, NEW dst \in Accts, NEW g \in Runners, CreateMigration(dst, g)
    PROVE  /\ Shapes'
           /\ \E t \in TaskIds :
                 /\ ~Exists(t) /\ \A s \in TaskIds : Exists(s) <=> s < t
                 /\ run[g].pc = "idle" /\ run'[g] = Starting(t) /\ \A h \in Runners : h # g => run'[h] = run[h]
                 /\ tasks'[t].status = "pending" /\ tasks'[t].dst = dst
                 /\ \A s \in TaskIds : s # t => tasks'[s] = tasks[s]
<1>1. PICK t \in TaskIds :
         /\ ~Exists(t) /\ \A s \in 1..(t - 1) : Exists(s)
         /\ tasks' = [tasks EXCEPT ![t] = [status |-> "pending", src |-> dom.home, dst |-> dst]]
         /\ run' = [run EXCEPT ![g] = Starting(t)]
  BY DEF CreateMigration
<1>2. UNCHANGED <<items, rows, zone, nextId, adm, usr>> /\ run[g].pc = "idle"
  BY DEF CreateMigration, provider
<1>3. dom' \in Domain
  BY Unmoved DEF CreateMigration, Switched, Domain, States
<1>4. [status |-> "pending", src |-> dom.home, dst |-> dst] \in Task
  BY Unmoved DEF Domain, Task, Statuses
<1>5. tasks' \in [TaskIds -> Task \cup {Absent}] /\ tasks'[t].status = "pending" /\ tasks'[t].dst = dst
      /\ \A s \in TaskIds : s # t => tasks'[s] = tasks[s]
  BY <1>1, <1>4, Unmoved
<1>6. run' \in [Runners -> Job \cup {Idle}] /\ run'[g] = Starting(t) /\ \A h \in Runners : h # g => run'[h] = run[h]
  BY <1>1, Starts, RunMoves DEF Become, Shapes
<1>7. \A s \in TaskIds : Exists(s) <=> s < t
  <2> TAKE s \in TaskIds
  <2>1. s < t => s \in 1..(t - 1)
    BY Constants
  <2>2. t < s => t \in 1..(s - 1)
    BY Constants
  <2>3. s < t \/ s = t \/ t < s
    BY Constants
  <2> QED
    BY <1>1, <2>1, <2>2, <2>3, Constants DEF Shapes, TasksOK
<1>8. \A s \in TaskIds : Exists(s) => tasks'[s].status # "none"
  BY <1>5, <1>7 DEF Exists
<1>9. Typed'
  BY <1>2, <1>3, <1>5, <1>6, Unmoved DEF Shapes, Typed
<1>10. TasksOK'
  <2> SUFFICES ASSUME NEW s \in TaskIds
               PROVE  /\ tasks'[s].status # "none" => \A k \in 1..(s - 1) : tasks'[k].status # "none"
                      /\ items'[s] # <<>> => tasks'[s].status # "none"
    BY DEF TasksOK, Exists
  <2>1. ASSUME tasks'[s].status # "none", NEW k \in 1..(s - 1) PROVE tasks'[k].status # "none"
    <3>1. k \in TaskIds /\ k < s
      BY Constants
    <3>2. s = t \/ Exists(s)
      BY <1>5, <2>1 DEF Exists
    <3>3. k < t
      BY <1>7, <3>1, <3>2, Constants
    <3> QED
      BY <1>7, <1>8, <3>1, <3>3
  <2>2. items'[s] # <<>> => tasks'[s].status # "none"
    BY <1>2, <1>8 DEF Shapes, TasksOK
  <2> QED
    BY <2>1, <2>2
<1>11. RunsOK'
  <2> SUFFICES ASSUME NEW h \in Runners, run'[h].pc # "idle"
               PROVE  tasks'[run'[h].task].status # "none" /\ Holds(run'[h], items'[run'[h].task])
    BY DEF RunsOK, Exists
  <2>1. CASE h = g
    BY <1>5, <1>6, <2>1, Starts DEF Holds
  <2>2. CASE h # g
    BY <1>2, <1>6, <1>8, <2>2, HoldsOn, Unmoved
  <2> QED
    BY <2>1, <2>2
<1>12. AdmOK'
  BY <1>2, <1>8, AdmHoldsOn, Unmoved
<1> QED
  BY <1>1, <1>2, <1>5, <1>6, <1>7, <1>9, <1>10, <1>11, <1>12 DEF Shapes

LEMMA CrashShapes == ASSUME Shapes, Crash PROVE Shapes'
<1>1. adm' \in [Admins -> Doing] /\ \A d \in Admins : adm'[d] = Idle
  BY DEF Crash, Doing
<1>2. \A d \in Admins : Bears(adm'[d], tasks'[adm'[d].task].status # "none", items'[adm'[d].task])
  BY <1>1, BearsNothing
<1> QED
  BY <1>1, <1>2, RequestShapes, NothingSteady, Unmoved DEF Crash, data, provider

LEMMA BootSteps ==
    ASSUME Shapes, BootReset
    PROVE  /\ Shapes' /\ UNCHANGED <<dom, items, rows, zone, nextId, run, adm, usr>>
           /\ \A t \in TaskIds : /\ tasks'[t].dst = tasks[t].dst
                                 /\ \/ tasks'[t] = tasks[t]
                                    \/ tasks[t].status = "running" /\ tasks'[t].status = "pending"
<1>1. UNCHANGED <<dom, items, rows, zone, nextId, run, adm, usr>>
  BY DEF BootReset, provider
<1>2. ASSUME NEW t \in TaskIds
      PROVE  /\ Reset(t) \in Task \cup {Absent} /\ Reset(t).dst = tasks[t].dst
             /\ Reset(t) = tasks[t] \/ (tasks[t].status = "running" /\ Reset(t).status = "pending")
  <2>1. CASE tasks[t].status = "running"
    <3>1. tasks[t] \in Task
      BY <2>1, TaskThere DEF Exists, Shapes
    <3> QED
      BY <2>1, <3>1 DEF Reset, Task, Statuses
  <2>2. CASE tasks[t].status # "running"
    BY <2>2, Unmoved DEF Reset
  <2> QED
    BY <2>1, <2>2
<1>3. /\ tasks' \in [TaskIds -> Task \cup {Absent}]
      /\ \A t \in TaskIds : /\ tasks'[t].dst = tasks[t].dst
                            /\ \/ tasks'[t] = tasks[t]
                               \/ tasks[t].status = "running" /\ tasks'[t].status = "pending"
  <2>1. CASE tasks' = [t \in TaskIds |-> Reset(t)]
    BY <1>2, <2>1
  <2>2. CASE UNCHANGED tasks
    BY <2>2, Unmoved
  <2> QED
    BY <2>1, <2>2 DEF BootReset
<1>4. Steady
  BY <1>1, <1>3 DEF Steady, Exists, Shapes, TasksOK
<1> QED
  BY <1>1, <1>3, <1>4, RequestShapes, Unmoved DEF Shapes, Typed

LEMMA ListShapes == ASSUME Shapes, BootList PROVE Shapes'
<1>1. UNCHANGED <<dom, tasks, items, rows, zone, nextId, adm, usr>>
  BY DEF BootList, data, provider
<1>2. ASSUME NEW g \in Runners, Pending # {}, Become(g, Starting(First(Pending))) PROVE Shapes'
  BY <1>1, <1>2, FirstPending, StartsShapes DEF Shapes
<1>3. CASE UNCHANGED run
  BY <1>1, <1>3, RequestShapes, NothingSteady, Unmoved DEF Shapes, Typed
<1> QED
  BY <1>2, <1>3 DEF BootList, Spawn

LEMMA AdmThere ==
    ASSUME Shapes, NEW d \in Admins, adm[d].pc \in {"call", "mark"}
    PROVE  /\ adm[d] \in Retry /\ adm[d].task \in TaskIds /\ Exists(adm[d].task)
           /\ adm[d].todo \subseteq DOMAIN items[adm[d].task] /\ adm[d].todo \in SUBSET Nat /\ items[adm[d].task] # <<>>
           /\ adm[d].todo # {} => /\ First(adm[d].todo) \in DOMAIN items[adm[d].task] /\ Retried(d) \in Recs
                                  /\ items[adm[d].task][First(adm[d].todo)] \in Item
<1>1. adm[d] \in Retry
  BY DEF Shapes, Typed, Doing, Idle, Closing, Cleaning, Saving
<1>2. /\ adm[d].task \in TaskIds /\ adm[d].todo \in SUBSET Nat /\ Exists(adm[d].task)
      /\ adm[d].todo \subseteq DOMAIN items[adm[d].task] /\ items[adm[d].task] # <<>>
  BY <1>1 DEF Retry, Shapes, AdmOK, Bears
<1>3. ASSUME adm[d].todo # {}
      PROVE  /\ First(adm[d].todo) \in DOMAIN items[adm[d].task] /\ Retried(d) \in Recs
             /\ items[adm[d].task][First(adm[d].todo)] \in Item
  <2>1. First(adm[d].todo) \in DOMAIN items[adm[d].task]
    BY <1>2, <1>3, Least
  <2>2. items[adm[d].task] \in Seq(Item)
    BY <1>2, Unmoved
  <2>3. items[adm[d].task][First(adm[d].todo)] \in Item
    BY <2>1, <2>2, NoItems
  <2> QED
    BY <2>1, <2>3 DEF Retried, Item
<1> QED
  BY <1>1, <1>2, <1>3

\* What a step of an administrator's request leaves alone, and whom.
LEMMA TurnsOne ==
    ASSUME Shapes, NEW d \in Admins, NEW a \in Doing, Turn(d, a)
    PROVE  adm'[d] = a /\ \A e \in Admins : e # d => adm'[e] = adm[e]
BY AdmMoves DEF Shapes

LEMMA DoneShapes ==
    ASSUME Shapes, NEW d \in Admins, Done(d), dom' \in Domain, UNCHANGED <<tasks, items, rows, zone, nextId, run, usr>>
    PROVE  Shapes' /\ adm'[d] = Idle /\ \A e \in Admins : e # d => adm'[e] = adm[e]
<1>1. Idle \in Doing /\ Turn(d, Idle)
  BY DEF Doing, Done
<1>2. Bears(Idle, tasks'[Idle.task].status # "none", items'[Idle.task])
  BY BearsNothing
<1> QED
  BY <1>1, <1>2, TurnedShapes, NothingSteady, Unmoved

LEMMA RetryBeginShapes ==
    ASSUME Shapes, NEW d \in Admins, NEW t \in TaskIds, RetryBegin(d, t)
    PROVE  /\ Shapes' /\ UNCHANGED <<dom, tasks, items, rows, zone, nextId, run, usr>> /\ Exists(t)
           /\ adm'[d] = [pc |-> "call", task |-> t, todo |-> Failed(t), id |-> 0]
           /\ \A e \in Admins : e # d => adm'[e] = adm[e]
<1> DEFINE a == [pc |-> "call", task |-> t, todo |-> Failed(t), id |-> 0]
<1>1. UNCHANGED <<dom, tasks, items, rows, zone, nextId, run, usr>> /\ Failed(t) # {} /\ Exists(t) /\ Turn(d, a)
  BY DEF RetryBegin, data, provider, Exists, Final
<1>2. Failed(t) \subseteq DOMAIN items[t] /\ Failed(t) \in SUBSET Nat /\ items[t] # <<>>
  <2>1. items[t] \in Seq(Item)
    BY Unmoved
  <2> QED
    BY <1>1, <2>1, NoItems DEF Failed
<1>3. a \in Doing /\ Bears(a, tasks'[a.task].status # "none", items'[a.task])
  BY <1>1, <1>2, Constants DEF Retry, Doing, Bears, Exists
<1> HIDE DEF a
<1>4. Shapes' /\ adm'[d] = a /\ \A e \in Admins : e # d => adm'[e] = adm[e]
  BY <1>1, <1>3, TurnedShapes, NothingSteady, Unmoved
<1> QED
  BY <1>1, <1>4 DEF a

\* A retry's call puts the record at the target, or leaves it for later.
LEMMA RetryCalled ==
    ASSUME Shapes, NEW d \in Admins, RetryCall(d)
    PROVE  /\ Shapes' /\ UNCHANGED <<dom, tasks, items, rows, run, usr, mishaps>>
           /\ adm[d].pc = "call" /\ adm[d].todo # {}
           /\ \A e \in Admins : e # d => adm'[e] = adm[e]
           /\ adm'[d].task = adm[d].task
           /\ \/ /\ Put(tasks[adm[d].task].dst, Retried(d)) /\ adm'[d].pc = "mark" /\ adm'[d].todo = adm[d].todo
                 /\ adm'[d].id = IdAt(tasks[adm[d].task].dst, Retried(d))
              \/ /\ Put(tasks[adm[d].task].dst, Retried(d)) \/ UNCHANGED zone
                 /\ adm'[d].pc = "call" /\ adm'[d].todo = Others(adm[d].todo)
<1>1. UNCHANGED <<dom, tasks, items, rows, run, usr, mishaps>> /\ adm[d].pc = "call" /\ adm[d].todo # {}
  BY DEF RetryCall, data
<1>2. /\ adm[d] \in Retry /\ adm[d].task \in TaskIds /\ Exists(adm[d].task) /\ adm[d].todo \subseteq DOMAIN items[adm[d].task]
      /\ adm[d].todo \in SUBSET Nat /\ Retried(d) \in Recs /\ items[adm[d].task] # <<>>
  BY <1>1, AdmThere
<1>3. tasks[adm[d].task].dst \in Accts
  BY <1>2, TaskThere DEF Shapes
<1>4. zone' \in [Accts -> [Recs -> 0..MaxIds]] /\ nextId' \in 1..(MaxIds + 1)
  <2>1. Put(tasks[adm[d].task].dst, Retried(d)) \/ UNCHANGED provider
    BY DEF RetryCall
  <2> QED
    BY <1>2, <1>3, <2>1, PutDoes, Unmoved DEF provider, Shapes
<1>5. ASSUME NEW a \in Retry, Turn(d, a), Bears(a, Exists(a.task), items[a.task])
      PROVE  Shapes' /\ adm'[d] = a /\ \A e \in Admins : e # d => adm'[e] = adm[e]
  <2>1. a \in Doing
    BY <1>5 DEF Doing
  <2>2. Bears(a, tasks'[a.task].status # "none", items'[a.task])
    BY <1>1, <1>5 DEF Exists
  <2> QED
    BY <1>1, <1>4, <1>5, <2>1, <2>2, TurnedShapes, NothingSteady, Unmoved
<1>6. CASE Put(tasks[adm[d].task].dst, Retried(d))
           /\ Turn(d, [adm[d] EXCEPT !.pc = "mark", !.id = IdAt(tasks[adm[d].task].dst, Retried(d))])
  <2>1. PICK id \in 1..MaxIds : id = IdAt(tasks[adm[d].task].dst, Retried(d))
    BY <1>2, <1>3, <1>6, PutDoes DEF Shapes
  <2>2. id \in 0..MaxIds /\ id > 0
    BY Constants
  <2> DEFINE a == [adm[d] EXCEPT !.pc = "mark", !.id = id]
  <2>3. Turn(d, a)
    BY <1>6, <2>1
  <2>4. a \in Retry /\ a.pc = "mark" /\ a.task = adm[d].task /\ a.todo = adm[d].todo /\ a.id = id
    BY <1>2, <2>2 DEF Retry
  <2> HIDE DEF a
  <2>5. Bears(a, Exists(a.task), items[a.task])
    BY <1>1, <1>2, <2>2, <2>4 DEF Bears
  <2>6. Shapes' /\ adm'[d] = a /\ \A e \in Admins : e # d => adm'[e] = adm[e]
    BY <1>5, <2>3, <2>4, <2>5
  <2> QED
    BY <1>1, <1>6, <2>1, <2>4, <2>6
<1>7. CASE (Put(tasks[adm[d].task].dst, Retried(d)) \/ UNCHANGED provider) /\ Turn(d, [adm[d] EXCEPT !.todo = Others(@)])
  <2>1. Others(adm[d].todo) \in SUBSET Nat /\ Others(adm[d].todo) \subseteq adm[d].todo
    BY <1>2, OthersLess
  <2> DEFINE a == [adm[d] EXCEPT !.todo = Others(adm[d].todo)]
  <2>2. Turn(d, a)
    BY <1>7
  <2>3. a \in Retry /\ a.pc = "call" /\ a.task = adm[d].task /\ a.todo = Others(adm[d].todo)
    BY <1>1, <1>2, <2>1 DEF Retry
  <2> HIDE DEF a
  <2>4. Bears(a, Exists(a.task), items[a.task])
    BY <1>1, <1>2, <2>1, <2>3 DEF Bears
  <2>5. Shapes' /\ adm'[d] = a /\ \A e \in Admins : e # d => adm'[e] = adm[e]
    BY <1>5, <2>2, <2>3, <2>4
  <2> QED
    BY <1>1, <1>7, <2>3, <2>5 DEF provider
<1> QED
  BY <1>6, <1>7 DEF RetryCall

LEMMA MarkDone ==
    ASSUME Shapes, NEW d \in Admins, RetryMark(d)
    PROVE  /\ Shapes' /\ UNCHANGED <<dom, tasks, zone, nextId, run, usr>>
           /\ adm[d].pc = "mark" /\ adm[d].todo # {} /\ adm[d].id \in 1..MaxIds
           /\ adm'[d].pc = "call" /\ adm'[d].task = adm[d].task /\ adm'[d].todo = Others(adm[d].todo)
           /\ \A e \in Admins : e # d => adm'[e] = adm[e]
<1>1. UNCHANGED <<dom, tasks, zone, nextId, run, usr>> /\ adm[d].pc = "mark"
      /\ Turn(d, [adm[d] EXCEPT !.pc = "call", !.todo = Others(@), !.id = 0])
  BY DEF RetryMark, provider
<1>2. adm[d].todo # {} /\ adm[d].id > 0
  BY <1>1 DEF Shapes, AdmOK, Bears
<1>3. /\ adm[d] \in Retry /\ adm[d].task \in TaskIds /\ Exists(adm[d].task) /\ adm[d].todo \subseteq DOMAIN items[adm[d].task]
      /\ adm[d].todo \in SUBSET Nat /\ Retried(d) \in Recs /\ First(adm[d].todo) \in DOMAIN items[adm[d].task]
      /\ items[adm[d].task] # <<>>
  BY <1>1, <1>2, AdmThere
<1>4. items' \in [TaskIds -> Seq(Item)] /\ Steady
  <2>1. CASE SetItem(adm[d].task, First(adm[d].todo), "succeeded")
    BY <1>1, <1>3, <2>1, ItemSteady DEF ItemStates
  <2>2. CASE UNCHANGED items
    BY <1>1, <2>2, NothingSteady, Unmoved
  <2> QED
    BY <2>1, <2>2 DEF RetryMark
<1>5. adm[d].id \in 1..MaxIds
  BY <1>2, <1>3, Constants DEF Retry
<1>6. rows' \in Rows
  <2>1. Repointed(Retried(d), adm[d].id) \in Rows
    BY <1>3, <1>5, PointDoes DEF Shapes
  <2> QED
    BY <2>1, Unmoved DEF RetryMark
<1> DEFINE a == [adm[d] EXCEPT !.pc = "call", !.todo = Others(adm[d].todo), !.id = 0]
<1>7. Turn(d, a)
  BY <1>1
<1>8. Others(adm[d].todo) \in SUBSET Nat /\ Others(adm[d].todo) \subseteq adm[d].todo /\ 0 \in 0..MaxIds
  BY <1>3, OthersLess, Constants
<1>9. a \in Retry /\ a.pc = "call" /\ a.task = adm[d].task /\ a.todo = Others(adm[d].todo)
  <2>1. ASSUME NEW S \in SUBSET Nat
        PROVE  LET b == [adm[d] EXCEPT !.pc = "call", !.todo = S, !.id = 0]
               IN b \in Retry /\ b.pc = "call" /\ b.task = adm[d].task /\ b.todo = S
    BY <1>3, <1>8 DEF Retry
  <2> QED
    BY <1>8, <2>1
<1> HIDE DEF a
<1>10. Bears(a, tasks'[a.task].status # "none", items'[a.task])
  <2>1. Others(adm[d].todo) \subseteq DOMAIN items'[adm[d].task]
    BY <1>3, <1>4, <1>8 DEF Steady
  <2>2. items'[adm[d].task] # <<>>
    BY <1>3, <1>4, NoItems, Unmoved DEF Steady
  <2> QED
    BY <1>1, <1>3, <1>9, <2>1, <2>2 DEF Bears, Exists
<1>11. a \in Doing
  BY <1>9 DEF Doing
<1>12. Shapes' /\ adm'[d] = a /\ \A e \in Admins : e # d => adm'[e] = adm[e]
  BY <1>1, <1>4, <1>6, <1>7, <1>10, <1>11, TurnedShapes, Unmoved
<1> QED
  BY <1>1, <1>2, <1>5, <1>9, <1>12

LEMMA CountedFinal == ASSUME NEW t PROVE Counted(t) \in Final
<1>1. (\E i \in DOMAIN items[t] : items[t][i].st = "succeeded") \in BOOLEAN
      /\ (\E i \in DOMAIN items[t] : items[t][i].st = "failed") \in BOOLEAN
  OBVIOUS
<1> QED
  BY <1>1, OutcomeFinal DEF Counted

\* The count is taken ...
LEMMA CountDone ==
    ASSUME Shapes, NEW d \in Admins, RetryCount(d)
    PROVE  /\ Shapes' /\ UNCHANGED <<dom, tasks, items, rows, zone, nextId, run, usr>>
           /\ adm[d].pc = "call" /\ adm[d].todo = {}
           /\ \A e \in Admins : e # d => adm'[e] = adm[e]
           /\ \/ /\ adm'[d] = [pc |-> "update", task |-> adm[d].task, out |-> Counted(adm[d].task)]
                 /\ Note(When(Untried(adm[d].task), "uncounted"))
              \/ adm'[d] = Idle /\ SqlFails
<1>1. UNCHANGED <<dom, tasks, items, rows, zone, nextId, run, usr>> /\ adm[d].pc = "call" /\ adm[d].todo = {}
  BY DEF RetryCount, data, provider
<1>2. adm[d].task \in TaskIds /\ Exists(adm[d].task) /\ items[adm[d].task] # <<>> /\ Counted(adm[d].task) \in Final
  BY <1>1, AdmThere, CountedFinal
<1>3. CASE Turn(d, [pc |-> "update", task |-> adm[d].task, out |-> Counted(adm[d].task)])
           /\ Note(When(Untried(adm[d].task), "uncounted"))
  <2> DEFINE a == [pc |-> "update", task |-> adm[d].task, out |-> Counted(adm[d].task)]
  <2>1. a \in Doing /\ Bears(a, tasks'[a.task].status # "none", items'[a.task]) /\ Turn(d, a)
    BY <1>1, <1>2, <1>3 DEF Closing, Doing, Bears, Exists
  <2> HIDE DEF a
  <2>2. Shapes' /\ adm'[d] = a /\ \A e \in Admins : e # d => adm'[e] = adm[e]
    BY <1>1, <2>1, TurnedShapes, NothingSteady, Unmoved
  <2> QED
    BY <1>1, <1>3, <2>2 DEF a
<1>4. CASE SqlFails /\ Done(d)
  BY <1>1, <1>4, DoneShapes, Unmoved
<1> QED
  BY <1>3, <1>4 DEF RetryCount

\* ... and written.
LEMMA UpdateDone ==
    ASSUME Shapes, NEW d \in Admins, RetryUpdate(d)
    PROVE  /\ Shapes' /\ UNCHANGED <<dom, items, rows, zone, nextId, run, usr>>
           /\ adm[d].pc = "update" /\ adm[d].task \in TaskIds /\ Exists(adm[d].task) /\ adm[d].out \in Final
           /\ \A e \in Admins : e # d => adm'[e] = adm[e]
           /\ \/ /\ SetStatus(adm[d].task, adm[d].out)
                 /\ adm'[d] = [pc |-> "close", task |-> adm[d].task, out |-> adm[d].out]
                 /\ Note(When(adm[d].out # Counted(adm[d].task) /\ ~\E e \in Admins : Counting(e, adm[d].task), "crossed"))
              \/ adm'[d] = Idle /\ SqlFails /\ UNCHANGED tasks
<1>1. UNCHANGED <<dom, items, rows, zone, nextId, run, usr>> /\ adm[d].pc = "update"
  BY DEF RetryUpdate, provider
<1>2. adm[d].task \in TaskIds /\ Exists(adm[d].task) /\ adm[d].out \in Final /\ items[adm[d].task] # <<>>
  <2>1. adm[d] \in Closing
    BY <1>1 DEF Shapes, Typed, Doing, Idle, Retry, Cleaning, Saving
  <2> QED
    BY <1>1, <2>1, AdmAt DEF Closing, Shapes, AdmOK, Bears
<1>3. CASE /\ SetStatus(adm[d].task, adm[d].out)
           /\ Turn(d, [pc |-> "close", task |-> adm[d].task, out |-> adm[d].out])
           /\ Note(When(adm[d].out # Counted(adm[d].task) /\ ~\E e \in Admins : Counting(e, adm[d].task), "crossed"))
  <2> DEFINE a == [pc |-> "close", task |-> adm[d].task, out |-> adm[d].out]
  <2>1. tasks' \in [TaskIds -> Task \cup {Absent}] /\ Steady
    BY <1>1, <1>2, <1>3, StatusSteady DEF Statuses
  <2>2. a \in Doing /\ Bears(a, tasks'[a.task].status # "none", items'[a.task]) /\ Turn(d, a)
    BY <1>1, <1>2, <1>3, <2>1 DEF Closing, Doing, Bears, Steady
  <2> HIDE DEF a
  <2>3. Shapes' /\ adm'[d] = a /\ \A e \in Admins : e # d => adm'[e] = adm[e]
    BY <1>1, <2>1, <2>2, TurnedShapes, Unmoved
  <2> QED
    BY <1>1, <1>2, <1>3, <2>3 DEF a
<1>4. CASE SqlFails /\ Done(d) /\ UNCHANGED tasks
  BY <1>1, <1>2, <1>4, DoneShapes, Unmoved
<1> QED
  BY <1>3, <1>4, Zenon DEF RetryUpdate

LEMMA RetryClosed ==
    ASSUME Shapes, NEW d \in Admins, RetryClose(d)
    PROVE  /\ Shapes' /\ UNCHANGED <<tasks, items, rows, zone, nextId, run, usr>>
           /\ adm[d].pc = "close" /\ adm[d].out \in Final /\ adm'[d] = Idle
           /\ \A e \in Admins : e # d => adm'[e] = adm[e]
<1>1. UNCHANGED <<tasks, items, rows, zone, nextId, run, usr>> /\ adm[d].pc = "close" /\ Done(d)
  BY DEF RetryClose, data, provider
<1>2. adm[d].out \in Final
  <2>1. adm[d] \in Doing
    BY Unmoved
  <2> QED
    BY <1>1, <2>1 DEF Doing, Idle, Retry, Closing, Cleaning, Saving
<1>3. dom' \in Domain
  BY <1>2, ClosedDomain, Unmoved DEF RetryClose
<1> QED
  BY <1>1, <1>2, <1>3, DoneShapes

LEMMA CleanupBeginShapes ==
    ASSUME Shapes, NEW d \in Admins, NEW t \in TaskIds, CleanupBegin(d, t)
    PROVE  /\ Shapes' /\ UNCHANGED <<dom, tasks, items, rows, zone, nextId, run, usr>>
           /\ adm'[d].pc = "cleanup" /\ \A e \in Admins : e # d => adm'[e] = adm[e]
<1> DEFINE a == [pc |-> "cleanup", task |-> t, todo |-> DOMAIN items[t]]
<1>1. UNCHANGED <<dom, tasks, items, rows, zone, nextId, run, usr>> /\ Exists(t) /\ items[t] # <<>> /\ Turn(d, a)
  BY DEF CleanupBegin, data, provider
<1>2. DOMAIN items[t] \in SUBSET Nat /\ DOMAIN items[t] # {}
  BY <1>1, NoItems, Unmoved
<1>3. a \in Doing /\ Bears(a, tasks'[a.task].status # "none", items'[a.task]) /\ a.pc = "cleanup"
  BY <1>1, <1>2 DEF Cleaning, Doing, Bears, Exists
<1> HIDE DEF a
<1> QED
  BY <1>1, <1>3, TurnedShapes, NothingSteady, Unmoved

\* A cleanup takes something out of the source, if anything.
LEMMA CleanupDone ==
    ASSUME Shapes, NEW d \in Admins, CleanupDelete(d)
    PROVE  /\ Shapes' /\ UNCHANGED <<dom, tasks, items, rows, nextId, run, usr>>
           /\ adm[d].pc = "cleanup" /\ adm'[d].pc \in {"idle", "cleanup"}
           /\ \A e \in Admins : e # d => adm'[e] = adm[e]
           /\ adm[d].task \in TaskIds /\ Exists(adm[d].task) /\ First(adm[d].todo) \in DOMAIN items[adm[d].task]
           /\ \A b \in Accts, s \in Recs :
                 b # tasks[adm[d].task].src \/ s # items[adm[d].task][First(adm[d].todo)].rec => zone'[b][s] = zone[b][s]
<1>1. UNCHANGED <<dom, tasks, items, rows, nextId, run, usr>> /\ adm[d].pc = "cleanup"
      /\ Turn(d, IF Others(adm[d].todo) = {} THEN Idle ELSE [adm[d] EXCEPT !.todo = Others(@)])
  BY DEF CleanupDelete, data
<1>2. adm[d] \in Cleaning
  <2>1. adm[d] \in Doing
    BY Unmoved
  <2> QED
    BY <1>1, <2>1 DEF Doing, Idle, Retry, Closing, Saving
<1>3. adm[d].task \in TaskIds /\ adm[d].todo \in SUBSET Nat /\ Exists(adm[d].task)
      /\ adm[d].todo \subseteq DOMAIN items[adm[d].task] /\ adm[d].todo # {} /\ items[adm[d].task] # <<>>
  BY <1>1, <1>2 DEF Cleaning, Shapes, AdmOK, Bears
<1>4. First(adm[d].todo) \in DOMAIN items[adm[d].task]
  BY <1>3, Least
<1>5. items[adm[d].task][First(adm[d].todo)].rec \in Recs /\ tasks[adm[d].task].src \in Accts
  <2>1. items[adm[d].task][First(adm[d].todo)] \in Item
    BY <1>3, <1>4, NoItems, Unmoved
  <2> QED
    BY <1>3, <2>1, TaskThere DEF Shapes, Item
<1>6. /\ zone' \in [Accts -> [Recs -> 0..MaxIds]]
      /\ \A b \in Accts, s \in Recs :
            b # tasks[adm[d].task].src \/ s # items[adm[d].task][First(adm[d].todo)].rec => zone'[b][s] = zone[b][s]
  <2>1. CASE TakeOut(tasks[adm[d].task].src, items[adm[d].task][First(adm[d].todo)].rec,
                     items[adm[d].task][First(adm[d].todo)].from)
    BY <1>5, <2>1, TakeOutDoes DEF Shapes
  <2>2. CASE UNCHANGED zone
    BY <2>2, Unmoved
  <2> QED
    BY <2>1, <2>2 DEF CleanupDelete
<1>7. ASSUME NEW a \in Doing, Turn(d, a), a.pc \in {"idle", "cleanup"},
             Bears(a, tasks'[a.task].status # "none", items'[a.task])
      PROVE  Shapes' /\ adm'[d].pc \in {"idle", "cleanup"} /\ \A e \in Admins : e # d => adm'[e] = adm[e]
  BY <1>1, <1>6, <1>7, TurnedShapes, NothingSteady, Unmoved
<1>8. CASE Others(adm[d].todo) = {}
  <2>1. Turn(d, Idle) /\ Idle \in Doing
    BY <1>1, <1>8 DEF Doing
  <2>2. Bears(Idle, tasks'[Idle.task].status # "none", items'[Idle.task])
    BY BearsNothing
  <2> QED
    BY <1>1, <1>3, <1>4, <1>6, <1>7, <2>1, <2>2, IdleIsIdle
<1>9. CASE Others(adm[d].todo) # {}
  <2> DEFINE a == [adm[d] EXCEPT !.todo = Others(adm[d].todo)]
  <2>1. Others(adm[d].todo) \in SUBSET Nat /\ Others(adm[d].todo) \subseteq adm[d].todo
    BY <1>3, OthersLess
  <2>2. a \in Cleaning /\ a.pc = "cleanup" /\ a.task = adm[d].task /\ a.todo = Others(adm[d].todo) /\ Turn(d, a)
    BY <1>1, <1>2, <1>9, <2>1 DEF Cleaning
  <2> HIDE DEF a
  <2>3. a \in Doing /\ Bears(a, tasks'[a.task].status # "none", items'[a.task])
    BY <1>1, <1>3, <1>9, <2>1, <2>2 DEF Doing, Bears, Exists
  <2> QED
    BY <1>1, <1>3, <1>4, <1>6, <1>7, <2>2, <2>3
<1> QED
  BY <1>8, <1>9

LEMMA UpdateBegun ==
    ASSUME Shapes, NEW d \in Admins, NEW home \in Accts, UpdateBegin(d, home)
    PROVE  /\ Shapes' /\ UNCHANGED <<dom, tasks, items, rows, zone, nextId, run, usr>>
           /\ adm'[d].pc = "save" /\ \A e \in Admins : e # d => adm'[e] = adm[e]
<1> DEFINE a == [pc |-> "save", read |-> dom, home |-> home]
<1>1. UNCHANGED <<dom, tasks, items, rows, zone, nextId, run, usr>> /\ Turn(d, a)
  BY DEF UpdateBegin, data, provider
<1>2. a \in Doing /\ a.pc = "save"
  BY Unmoved DEF Saving, Doing
<1> HIDE DEF a
<1>3. Bears(a, tasks'[a.task].status # "none", items'[a.task])
  BY <1>2 DEF Bears
<1> QED
  BY <1>1, <1>2, <1>3, TurnedShapes, NothingSteady, Unmoved

LEMMA UpdateSaved ==
    ASSUME Shapes, NEW d \in Admins, UpdateSave(d)
    PROVE  /\ Shapes' /\ UNCHANGED <<tasks, items, rows, zone, nextId, run, usr>> /\ adm[d].pc = "save" /\ adm[d] \in Saving
           /\ adm'[d] = Idle /\ \A e \in Admins : e # d => adm'[e] = adm[e]
<1>1. UNCHANGED <<tasks, items, rows, zone, nextId, run, usr>> /\ Done(d) /\ adm[d].pc = "save"
  BY DEF UpdateSave, data, provider
<1>2. adm[d] \in Saving
  BY <1>1 DEF Shapes, Typed, Doing, Idle, Retry, Closing, Cleaning, Saving
<1>3. dom' \in Domain
  BY <1>2 DEF UpdateSave, Saving, Domain
<1> QED
  BY <1>1, <1>2, <1>3, DoneShapes

LEMMA UsrThere == ASSUME Shapes, usr.pc # "idle" PROVE usr \in Change /\ usr.rec \in Recs /\ usr.home \in Accts
BY IdleIsIdle DEF Shapes, Typed, Change

LEMMA UsrTurned ==
    ASSUME NEW u \in Change, NEW id \in Deleted..MaxIds
    PROVE  LET w == [u EXCEPT !.pc = "row", !.id = id]
           IN w \in Change /\ w.pc = "row" /\ w.rec = u.rec /\ w.home = u.home /\ w.id = id
BY DEF Change

\* What each step of a user's request does.
LEMMA UserDone ==
    ASSUME Shapes, UserStep
    PROVE  /\ Shapes' /\ UNCHANGED <<dom, tasks, items, run, adm>>
           /\ \/ /\ UNCHANGED <<rows, zone>> /\ usr.pc = "idle"
                 /\ \/ usr'.pc = "create" /\ rows[usr'.rec] = Never
                    \/ usr'.pc = "delete"
              \/ /\ usr.pc = "create" /\ usr'.pc = "row" /\ usr'.rec = usr.rec /\ usr'.home = usr.home /\ usr'.id > 0
                 /\ Put(usr.home, usr.rec) /\ usr'.id = IdAt(usr.home, usr.rec) /\ UNCHANGED rows
              \/ /\ usr.pc \in {"delete", "look"} /\ usr'.pc \in {"look", "row"} /\ usr'.rec = usr.rec
                 /\ usr'.pc = "row" => usr'.id = Deleted
                 /\ UNCHANGED rows /\ \A b \in Accts, s \in Recs : s # usr.rec => zone'[b][s] = zone[b][s]
              \/ UsrRow
<1>1. UNCHANGED <<dom, tasks, items, run, adm>>
  BY DEF UserStep, UsrCreate, UsrCreateCall, UsrDelete, UsrDeleteCall, UsrDeleteLook, UsrRow, data
<1>2. ASSUME usr' \in Change \cup {Idle}, rows' \in Rows, zone' \in [Accts -> [Recs -> 0..MaxIds]],
             nextId' \in 1..(MaxIds + 1)
      PROVE  Shapes'
  BY <1>1, <1>2, RequestShapes, NothingSteady, Unmoved
<1>3. ASSUME NEW r \in Recs, UsrCreate(r)
      PROVE  Shapes' /\ UNCHANGED <<rows, zone>> /\ usr.pc = "idle" /\ usr'.pc = "create" /\ rows[usr'.rec] = Never
  <2>1. UNCHANGED <<rows, zone, nextId>> /\ usr.pc = "idle" /\ rows[r] = Never
        /\ usr' = [pc |-> "create", rec |-> r, home |-> dom.home, id |-> 0]
    BY <1>3 DEF UsrCreate, data, provider
  <2>2. usr' \in Change
    BY <2>1, Unmoved, Constants DEF Change, Domain, Deleted
  <2> QED
    BY <1>2, <2>1, <2>2, Unmoved
<1>4. ASSUME NEW r \in Recs, UsrDelete(r) PROVE Shapes' /\ UNCHANGED <<rows, zone>> /\ usr.pc = "idle" /\ usr'.pc = "delete"
  <2>1. UNCHANGED <<rows, zone, nextId>> /\ usr.pc = "idle"
        /\ usr' = [pc |-> "delete", rec |-> r, home |-> dom.home, id |-> rows[r]]
    BY <1>4 DEF UsrDelete, data, provider
  <2>2. usr' \in Change
    BY <2>1, Unmoved DEF Change, Domain, Rows
  <2> QED
    BY <1>2, <2>1, <2>2, Unmoved
<1>5. ASSUME UsrCreateCall
      PROVE  /\ Shapes' /\ usr.pc = "create" /\ usr'.pc = "row" /\ usr'.rec = usr.rec /\ usr'.home = usr.home
             /\ usr'.id > 0 /\ Put(usr.home, usr.rec) /\ usr'.id = IdAt(usr.home, usr.rec) /\ UNCHANGED rows
  <2>1. usr.pc = "create" /\ Put(usr.home, usr.rec) /\ UNCHANGED rows
        /\ usr' = [usr EXCEPT !.pc = "row", !.id = IdAt(usr.home, usr.rec)]
    BY <1>5 DEF UsrCreateCall, data
  <2>2. usr \in Change /\ usr.rec \in Recs /\ usr.home \in Accts
    BY <2>1, UsrThere
  <2>3. PICK id \in 1..MaxIds : id = IdAt(usr.home, usr.rec)
    BY <2>1, <2>2, PutDoes DEF Shapes
  <2>4. zone' \in [Accts -> [Recs -> 0..MaxIds]] /\ nextId' \in 1..(MaxIds + 1)
    BY <2>1, <2>2, PutDoes DEF Shapes
  <2>5. id \in Deleted..MaxIds /\ id > 0
    BY Constants DEF Deleted
  <2>6. usr' = [usr EXCEPT !.pc = "row", !.id = id]
    BY <2>1, <2>3
  <2>7. usr' \in Change /\ usr'.pc = "row" /\ usr'.rec = usr.rec /\ usr'.home = usr.home /\ usr'.id = id
    BY <2>2, <2>5, <2>6, UsrTurned
  <2> QED
    BY <1>2, <2>1, <2>3, <2>4, <2>5, <2>7, Unmoved
<1>6. ASSUME UsrDeleteCall \/ UsrDeleteLook
      PROVE  /\ Shapes' /\ usr.pc \in {"delete", "look"} /\ usr'.pc \in {"look", "row"} /\ usr'.rec = usr.rec
             /\ usr'.pc = "row" => usr'.id = Deleted
             /\ UNCHANGED rows /\ \A b \in Accts, s \in Recs : s # usr.rec => zone'[b][s] = zone[b][s]
  <2>1. /\ usr.pc \in {"delete", "look"} /\ UNCHANGED <<rows, nextId>>
        /\ TakeOut(usr.home, usr.rec, usr.id) \/ TakeOut(usr.home, usr.rec, zone[usr.home][usr.rec])
    BY <1>6 DEF UsrDeleteCall, UsrDeleteLook, data
  <2>2. usr \in Change /\ usr.rec \in Recs /\ usr.home \in Accts
    BY <2>1, UsrThere
  <2>3. Deleted \in Deleted..MaxIds
    BY Constants DEF Deleted
  <2>6. usr' \in Change /\ usr'.pc \in {"look", "row"} /\ usr'.rec = usr.rec /\ (usr'.pc = "row" => usr'.id = Deleted)
    <3>1. CASE UsrDeleteCall
      <4>1. usr' = [usr EXCEPT !.pc = "look"]
        BY <3>1 DEF UsrDeleteCall
      <4> QED
        BY <2>2, <4>1 DEF Change
    <3>2. CASE UsrDeleteLook
      <4>1. usr' = [usr EXCEPT !.pc = "row", !.id = Deleted]
        BY <3>2 DEF UsrDeleteLook
      <4> QED
        BY <2>2, <2>3, <4>1, UsrTurned
    <3> QED
      BY <1>6, <3>1, <3>2
  <2>7. zone' \in [Accts -> [Recs -> 0..MaxIds]] /\ \A b \in Accts, s \in Recs : s # usr.rec => zone'[b][s] = zone[b][s]
    BY <2>1, <2>2, TakeOutDoes DEF Shapes
  <2> QED
    BY <1>2, <2>1, <2>6, <2>7, Unmoved
<1>7. ASSUME UsrRow PROVE Shapes'
  <2>1. usr.pc = "row" /\ rows' = [rows EXCEPT ![usr.rec] = usr.id] /\ usr' = Idle /\ UNCHANGED <<zone, nextId>>
    BY <1>7 DEF UsrRow, provider
  <2>2. usr \in Change /\ usr.rec \in Recs
    BY <2>1, UsrThere
  <2>3. rows' \in Rows
    BY <2>1, <2>2, Unmoved DEF Rows, Change
  <2> QED
    BY <1>2, <2>1, <2>3, Unmoved
<1> QED
  BY <1>1, <1>3, <1>4, <1>5, <1>6, <1>7 DEF UserStep

LEMMA AdminShapes == ASSUME Shapes, NEW d \in Admins, AdminStep(d) PROVE Shapes'
BY RetryBeginShapes, RetryCalled, MarkDone, CountDone, UpdateDone, RetryClosed, CleanupBeginShapes, CleanupDone, UpdateBegun,
   UpdateSaved DEF AdminStep

LEMMA StutterShapes == ASSUME Shapes, UNCHANGED vars PROVE Shapes'
BY DEF vars, data, provider, Shapes, Typed, TasksOK, RunsOK, AdmOK, Exists

LEMMA NextKeepsShapes == ASSUME Shapes, [Next]_vars PROVE Shapes'
BY CreateMigrationShapes, RunStepShapes, CrashShapes, BootSteps, ListShapes, AdminShapes, UserDone, StutterShapes
   DEF Next, BootStep

LEMMA InitShapes == ASSUME Init PROVE Shapes
<1>1. PICK home \in Accts, owned \in SUBSET Recs, id \in [Recs -> 1..Cardinality(Recs)] :
         /\ \A r, s \in Recs : r # s => id[r] # id[s]
         /\ dom = [home |-> home, state |-> "idle", ro |-> FALSE]
         /\ rows = [r \in Recs |-> IF r \in owned THEN id[r] ELSE Never]
         /\ zone = [a \in Accts |-> [r \in Recs |-> IF a = home /\ r \in owned THEN id[r] ELSE 0]]
  BY Zenon DEF Init
<1>2. \A r \in Recs : id[r] \in 1..MaxIds
  BY Constants
<1>3. dom \in Domain
  BY <1>1 DEF Domain, States
<1>4. rows \in Rows
  BY <1>1, <1>2, Constants DEF Rows, Never, Deleted
<1>5. zone \in [Accts -> [Recs -> 0..MaxIds]]
  BY <1>1, <1>2, Constants
<1>6. nextId \in 1..(MaxIds + 1)
  BY Constants DEF Init
<1>7. items \in [TaskIds -> Seq(Item)] /\ tasks \in [TaskIds -> Task \cup {Absent}]
  BY DEF Init
<1>8. run \in [Runners -> Job \cup {Idle}] /\ adm \in [Admins -> Doing] /\ usr = Idle
  BY DEF Init, Doing
<1>9. Typed
  BY <1>3, <1>4, <1>5, <1>6, <1>7, <1>8 DEF Typed
<1>10. TasksOK
  BY DEF Init, TasksOK, Exists, Absent
<1>11. RunsOK /\ AdmOK
  <2>1. \A d \in Admins : adm[d] = Idle
    BY DEF Init
  <2> QED
    BY <2>1, IdleIsIdle, BearsNothing DEF Init, RunsOK, AdmOK
<1> QED
  BY <1>9, <1>10, <1>11 DEF Shapes

LEMMA ShapesAlways == Spec => []Shapes
<1> QED
  BY InitShapes, NextKeepsShapes, PTL DEF Spec

-----------------------------------------------------------------------------
(* What the steps of a goroutine do *)

LEMMA ToDoes ==
    ASSUME Shapes, NEW g \in Runners, run[g].pc # "idle", NEW pc \in Working \cup {"close", "next"}, To(g, pc)
    PROVE  /\ \A h \in Runners : h # g => run'[h] = run[h]
           /\ run'[g] \in Job /\ run'[g].pc = pc /\ run'[g].task = run[g].task /\ run'[g].todo = run[g].todo
           /\ run'[g].id = run[g].id /\ run'[g].out = run[g].out /\ run'[g].won = run[g].won
           /\ run'[g].lost = run[g].lost /\ run'[g].snap = run[g].snap
<1>1. run[g] \in Job
  BY InHand
<1> DEFINE j == [run[g] EXCEPT !.pc = pc]
<1>2. j \in Job /\ j.pc = pc /\ j.task = run[g].task /\ j.todo = run[g].todo /\ j.id = run[g].id /\ j.out = run[g].out
      /\ j.won = run[g].won /\ j.lost = run[g].lost /\ j.snap = run[g].snap
  BY <1>1, Turned
<1>3. Become(g, j)
  BY DEF To
<1> HIDE DEF j
<1>4. run'[g] = j /\ \A h \in Runners : h # g => run'[h] = run[h]
  BY <1>2, <1>3, RunMoves DEF Shapes
<1> QED
  BY <1>2, <1>4

LEMMA FinishDoes ==
    ASSUME Shapes, NEW g \in Runners, run[g].pc # "idle", NEW out \in Final, Finish(g, out)
    PROVE  /\ \A h \in Runners : h # g => run'[h] = run[h]
           /\ run'[g] \in Job /\ run'[g].pc = "finish" /\ run'[g].task = run[g].task /\ run'[g].out = out
<1>1. run[g] \in Job
  BY InHand
<1> DEFINE j == [run[g] EXCEPT !.pc = "finish", !.out = out, !.todo = {}, !.snap = NoRows]
<1>2. j \in Job /\ j.pc = "finish" /\ j.task = run[g].task /\ j.out = out
  BY <1>1, Finished
<1>3. Become(g, j)
  BY DEF Finish
<1> HIDE DEF j
<1>4. run'[g] = j /\ \A h \in Runners : h # g => run'[h] = run[h]
  BY <1>2, <1>3, RunMoves DEF Shapes
<1> QED
  BY <1>2, <1>4

LEMMA ListedDoes ==
    ASSUME Shapes, NEW g \in Runners, run[g].pc # "idle", NEW its \in {items[run[g].task], <<>>},
           Become(g, Listed(g, its))
    PROVE  /\ \A h \in Runners : h # g => run'[h] = run[h]
           /\ run'[g] \in Job /\ run'[g].pc = "client" /\ run'[g].task = run[g].task
           /\ run'[g].todo = Todo(its) /\ run'[g].lost = run[g].lost
           /\ run'[g].won = \E i \in DOMAIN its : its[i].st = "succeeded"
<1>1. <<>> \in Seq(Item) /\ items[run[g].task] \in Seq(Item)
  BY InHand
<1>2. its \in Seq(Item)
  BY <1>1
<1>3. /\ Listed(g, its) \in Job /\ Listed(g, its).pc = "client" /\ Listed(g, its).task = run[g].task
      /\ Listed(g, its).todo = Todo(its) /\ Listed(g, its).lost = run[g].lost
      /\ Listed(g, its).won = \E i \in DOMAIN its : its[i].st = "succeeded"
  BY <1>2, ListedJob
<1>4. run'[g] = Listed(g, its) /\ \A h \in Runners : h # g => run'[h] = run[h]
  BY <1>3, RunMoves DEF Shapes
<1> QED
  BY <1>3, <1>4

LEMMA NextItemDoes ==
    ASSUME Shapes, NEW g \in Runners, run[g].pc # "idle", NextItem(g)
    PROVE  /\ \A h \in Runners : h # g => run'[h] = run[h]
           /\ run'[g] \in Job /\ run'[g].pc = "item" /\ run'[g].task = run[g].task
           /\ run'[g].todo = Others(run[g].todo) /\ run'[g].won = run[g].won /\ run'[g].lost = run[g].lost
<1>1. run[g] \in Job
  BY InHand
<1> DEFINE j == [run[g] EXCEPT !.pc = "item", !.todo = Others(@), !.id = 0]
<1>2. j \in Job /\ j.pc = "item" /\ j.task = run[g].task /\ j.todo = Others(run[g].todo)
      /\ j.won = run[g].won /\ j.lost = run[g].lost
  BY <1>1, NextJob
<1>3. Become(g, j)
  BY DEF NextItem
<1> HIDE DEF j
<1>4. run'[g] = j /\ \A h \in Runners : h # g => run'[h] = run[h]
  BY <1>2, <1>3, RunMoves DEF Shapes
<1> QED
  BY <1>2, <1>4

LEMMA LoadDoes ==
    ASSUME Shapes, NEW g \in Runners, run[g].pc = "load", Become(g, [run[g] EXCEPT !.pc = "create", !.snap = rows])
    PROVE  /\ \A h \in Runners : h # g => run'[h] = run[h]
           /\ run'[g] \in Job /\ run'[g].pc = "create" /\ run'[g].task = run[g].task
           /\ run'[g].snap = rows /\ run'[g].lost = run[g].lost
<1>1. run[g] \in Job
  BY InHand
<1> DEFINE j == [run[g] EXCEPT !.pc = "create", !.snap = rows]
<1>2. j \in Job /\ j.pc = "create" /\ j.task = run[g].task /\ j.snap = rows /\ j.lost = run[g].lost
  BY <1>1, Unmoved DEF Job, Working
<1> HIDE DEF j
<1>3. run'[g] = j /\ \A h \in Runners : h # g => run'[h] = run[h]
  BY <1>2, RunMoves DEF Shapes, j
<1> QED
  BY <1>2, <1>3

LEMMA CallDoes ==
    ASSUME Shapes, NEW g \in Runners, RunCall(g)
    PROVE  /\ \A h \in Runners : h # g => run'[h] = run[h]
           /\ run[g].pc = "call" /\ run'[g] \in Job /\ run'[g].task = run[g].task /\ run'[g].todo = run[g].todo
           /\ \/ /\ run'[g].pc = "save" /\ run'[g].won = TRUE /\ run'[g].lost = run[g].lost
                 /\ Put(TaskOf(g).dst, Current(g).rec) /\ run'[g].id = IdAt(TaskOf(g).dst, Current(g).rec)
              \/ /\ run'[g].pc = "bad" /\ run'[g].lost = TRUE /\ run'[g].won = run[g].won
                 /\ Put(TaskOf(g).dst, Current(g).rec) \/ UNCHANGED provider
           /\ TaskOf(g).dst \in Accts /\ Current(g).rec \in Recs
<1>1. run[g].pc = "call" /\ run[g] \in Job /\ run[g].task \in TaskIds /\ Exists(run[g].task) /\ Current(g) \in Item
  BY InHand DEF RunCall, At
<1>2. TaskOf(g).dst \in Accts /\ Current(g).rec \in Recs
  BY <1>1, TaskThere DEF TaskOf, Item, Shapes
<1>3. CASE /\ Put(TaskOf(g).dst, Current(g).rec)
           /\ Become(g, [run[g] EXCEPT !.pc = "save", !.id = IdAt(TaskOf(g).dst, Current(g).rec), !.won = TRUE])
  <2>1. PICK id \in 1..MaxIds : id = IdAt(TaskOf(g).dst, Current(g).rec)
    BY <1>2, <1>3, PutDoes DEF Shapes
  <2> DEFINE j == [run[g] EXCEPT !.pc = "save", !.id = id, !.won = TRUE]
  <2>2. j \in Job
    <3>1. id \in 0..MaxIds
      BY Constants
    <3> QED
      BY <1>1, <3>1 DEF Job, Working, Looping
  <2>3. j.pc = "save" /\ j.task = run[g].task /\ j.todo = run[g].todo /\ j.id = id /\ j.won = TRUE /\ j.lost = run[g].lost
    BY <1>1 DEF Job
  <2>4. Become(g, j)
    BY <1>3, <2>1
  <2> HIDE DEF j
  <2>5. run'[g] = j /\ \A h \in Runners : h # g => run'[h] = run[h]
    BY <2>2, <2>4, RunMoves DEF Shapes
  <2> QED
    BY <1>1, <1>2, <1>3, <2>1, <2>2, <2>3, <2>5
<1>4. CASE /\ Put(TaskOf(g).dst, Current(g).rec) \/ UNCHANGED provider
           /\ Become(g, [run[g] EXCEPT !.pc = "bad", !.lost = TRUE])
  <2> DEFINE j == [run[g] EXCEPT !.pc = "bad", !.lost = TRUE]
  <2>1. j \in Job
    BY <1>1 DEF Job, Working, Looping
  <2>2. j.pc = "bad" /\ j.task = run[g].task /\ j.todo = run[g].todo /\ j.lost = TRUE /\ j.won = run[g].won
    BY <1>1 DEF Job
  <2>3. Become(g, j)
    BY <1>4
  <2> HIDE DEF j
  <2>4. run'[g] = j /\ \A h \in Runners : h # g => run'[h] = run[h]
    BY <2>1, <2>3, RunMoves DEF Shapes
  <2> QED
    BY <1>1, <1>2, <1>4, <2>1, <2>2, <2>4
<1> QED
  BY <1>3, <1>4 DEF RunCall

\* A step of a goroutine keeps to its task and goes no way back to work.
LEMMA RunMotion ==
    ASSUME Shapes, NEW g \in Runners, RunStep(g), ~RunNext(g)
    PROVE  /\ \A h \in Runners : h # g => run'[h] = run[h]
           /\ run[g].pc # "idle"
           /\ \/ run'[g].pc = "idle"
              \/ /\ run'[g].task = run[g].task
                 /\ run'[g].pc \in Working => run[g].pc \in Working
                 /\ run'[g].pc = "close" => RunFinish(g)
<1> DEFINE Goal == /\ \A h \in Runners : h # g => run'[h] = run[h]
                   /\ \/ run'[g].pc = "idle"
                      \/ /\ run'[g].task = run[g].task
                         /\ run'[g].pc \in Working => run[g].pc \in Working
                         /\ run'[g].pc = "close" => RunFinish(g)
<1>1. run[g].pc # "idle"
  BY DEF RunStep, RunStart, RunDomain, RunLoad, RunCreate, RunReload, RunClient, RunItem, RunCall, RunSave, RunPoint,
         RunBad, RunFinish, RunClose, RunNext, At
<1>2. ASSUME Become(g, Idle) PROVE Goal
  BY <1>2, RunMoves, IdleIsIdle DEF Shapes
<1>3. ASSUME NEW pc \in Working \cup {"close", "next"}, To(g, pc), run[g].pc \in Working \/ pc \notin Working,
             pc = "close" => RunFinish(g)
      PROVE  Goal
  BY <1>1, <1>3, ToDoes
<1>4. ASSUME NEW out \in Final, Finish(g, out), run[g].pc \in Working PROVE Goal
  BY <1>1, <1>4, FinishDoes
<1>5. ASSUME NEW its \in {items[run[g].task], <<>>}, Become(g, Listed(g, its)), run[g].pc \in Working PROVE Goal
  BY <1>1, <1>5, ListedDoes
<1>6. CASE RunStart(g)
  BY <1>2, <1>3, <1>6 DEF RunStart, At, Working
<1>7. CASE RunDomain(g)
  BY <1>3, <1>7 DEF RunDomain, At, Working
<1>8. CASE RunLoad(g)
  <2>1. run[g].pc = "load" /\ "load" \in Working
    BY <1>8 DEF RunLoad, At, Working
  <2>2. CASE Finish(g, "failed")
    BY <1>4, <2>1, <2>2 DEF Final
  <2>3. CASE Become(g, [run[g] EXCEPT !.pc = "create", !.snap = rows])
    BY <2>1, <2>3, LoadDoes
  <2> QED
    BY <1>5, <1>8, <2>1, <2>2, <2>3 DEF RunLoad
<1>9. CASE RunCreate(g)
  BY <1>3, <1>4, <1>9 DEF RunCreate, At, Working, Final
<1>10. CASE RunReload(g)
  BY <1>5, <1>10 DEF RunReload, At, Working
<1>11. CASE RunClient(g)
  BY <1>3, <1>4, <1>11 DEF RunClient, At, Working, Looping, Final
<1>12. CASE RunItem(g)
  <2>1. run[g].pc = "item" /\ run[g] \in Job
    BY <1>12, InHand DEF RunItem, At
  <2>2. Outcome(run[g].won, run[g].lost) \in Final
    BY <2>1, OutcomeFinal DEF Job
  <2> QED
    BY <1>3, <1>4, <1>12, <2>1, <2>2 DEF RunItem, Working, Looping
<1>13. CASE RunCall(g)
  BY <1>13, CallDoes DEF Working, Looping
<1>14. CASE RunSave(g)
  BY <1>3, <1>14 DEF RunSave, At, Working, Looping
<1>15. CASE RunPoint(g) \/ RunBad(g)
  BY <1>1, <1>15, NextItemDoes DEF RunPoint, RunBad, At, Working, Looping
<1>16. CASE RunFinish(g) \/ RunClose(g)
  BY <1>3, <1>16 DEF RunFinish, RunClose, At, Working, Looping
<1> QED
  BY <1>1, <1>6, <1>7, <1>8, <1>9, <1>10, <1>11, <1>12, <1>13, <1>14, <1>15, <1>16 DEF RunStep

-----------------------------------------------------------------------------
(* The second layer is inductive *)

LEMMA NotesKept == ASSUME [Next]_vars PROVE mishaps \subseteq mishaps'
<1>1. ASSUME NEW g \in Runners, RunStep(g) PROVE mishaps \subseteq mishaps'
  BY <1>1 DEF RunStep, RunStart, RunDomain, RunLoad, RunCreate, RunReload, RunClient, RunItem, RunCall, RunSave, RunPoint,
     RunBad, RunFinish, RunClose, RunNext, Spawn, SqlFails, Note, Fine
<1>2. BootStep \/ Crash => mishaps \subseteq mishaps'
  BY DEF BootStep, BootReset, BootList, Crash, Spawn, SqlFails, Note, Fine
<1>3. ASSUME NEW d \in Admins, AdminStep(d) PROVE mishaps \subseteq mishaps'
  <2>1. RetryCall(d) \/ RetryMark(d) \/ RetryCount(d) \/ RetryUpdate(d) \/ RetryClose(d) => mishaps \subseteq mishaps'
    BY DEF RetryCall, RetryMark, RetryCount, RetryUpdate, RetryClose, SqlFails, Note, Fine
  <2>2. CleanupDelete(d) \/ UpdateSave(d) => mishaps \subseteq mishaps'
    BY DEF CleanupDelete, UpdateSave, Note
  <2>3. ASSUME NEW t \in TaskIds, RetryBegin(d, t) \/ CleanupBegin(d, t) PROVE mishaps \subseteq mishaps'
    BY <2>3 DEF RetryBegin, CleanupBegin, Fine
  <2>4. ASSUME NEW home \in Accts, UpdateBegin(d, home) PROVE mishaps \subseteq mishaps'
    BY <2>4 DEF UpdateBegin, Fine
  <2> QED
    BY <1>3, <2>1, <2>2, <2>3, <2>4 DEF AdminStep
<1>4. UserStep => mishaps \subseteq mishaps'
  BY DEF UserStep, UsrCreate, UsrCreateCall, UsrDelete, UsrDeleteCall, UsrDeleteLook, UsrRow, Note, Fine
<1>5. ASSUME NEW dst \in Accts, NEW g \in Runners, CreateMigration(dst, g) PROVE mishaps \subseteq mishaps'
  BY <1>5 DEF CreateMigration, Fine
<1>6. UNCHANGED vars => mishaps \subseteq mishaps'
  BY DEF vars
<1> QED
  BY <1>1, <1>2, <1>3, <1>4, <1>5, <1>6 DEF Next

LEMMA WithoutBefore == ASSUME [Next]_vars, NEW m, Without(m)' PROVE Without(m)
BY NotesKept DEF Without

LEMMA UnfinishedThere == ASSUME NEW t \in TaskIds PROVE Unfinished(t) => Exists(t) /\ tasks[t].status \notin Final
BY DEF Unfinished, Exists, Final

LEMMA ApartKept ==
    ASSUME Shapes, Apart,
           \A t \in TaskIds : /\ tasks'[t].status \in {"pending", "running"} => Unfinished(t)
                              /\ tasks'[t].status # "none" <=> Exists(t)
                              /\ tasks[t].status \in Final => tasks'[t].status \in Final,
           \A h \in Runners : \/ run'[h].pc = "idle"
                              \/ /\ run[h].pc # "idle" /\ run'[h].task = run[h].task
                                 /\ run'[h].pc \in Working =>
                                       run[h].pc \in Working /\ tasks'[run[h].task].status \in {"pending", "running"},
           \A d \in Admins : adm'[d].pc \in Retrying => tasks'[adm'[d].task].status \in Final
    PROVE  Apart'
<1>1. \A g, h \in Runners : run'[g].pc # "idle" /\ run'[h].pc # "idle" /\ run'[g].task = run'[h].task => g = h
  BY DEF Apart
<1>2. \A g \in Runners : run'[g].pc \in Working => tasks'[run'[g].task].status \in {"pending", "running"}
  BY DEF Working, Looping
<1>3. \A t \in TaskIds : tasks'[t].status \in {"pending", "running"} =>
        ~\E s \in TaskIds : s > t /\ tasks'[s].status # "none"
  BY DEF Apart, Superseded
<1> QED
  BY <1>1, <1>2, <1>3 DEF Apart, Unfinished, Superseded, Exists

LEMMA AdmTask == ASSUME Shapes, NEW d \in Admins, adm[d].pc \in Retrying PROVE adm[d].task \in TaskIds /\ Exists(adm[d].task)
BY AdmAt DEF Retrying

\* What neither ends nor begins a task, a job or a retry.
LEMMA ApartStill ==
    ASSUME Shapes, Apart, tasks' = tasks,
           \A h \in Runners : \/ run'[h].pc = "idle"
                              \/ /\ run[h].pc # "idle" /\ run'[h].task = run[h].task
                                 /\ run'[h].pc \in Working => run[h].pc \in Working,
           \A d \in Admins : \/ adm'[d] = adm[d]
                             \/ adm'[d].pc \notin Retrying
                             \/ adm[d].pc \in Retrying /\ adm'[d].task = adm[d].task
    PROVE  Apart'
<1>1. \A h \in Runners : run[h].pc \in Working => tasks[run[h].task].status \in {"pending", "running"}
  BY DEF Apart, Unfinished
<1>2. \A d \in Admins : adm'[d].pc \in Retrying => tasks'[adm'[d].task].status \in Final
  BY AdmTask DEF Apart
<1> QED
  BY <1>1, <1>2, ApartKept DEF Exists, Unfinished

LEMMA StartApart == ASSUME Shapes, Apart, NEW g \in Runners, RunStart(g) PROVE Apart'
<1>1. run[g].pc = "start" /\ run[g].task \in TaskIds /\ Exists(run[g].task) /\ adm' = adm
  BY InHand DEF RunStart, At
<1>2. /\ \A h \in Runners : h # g => run'[h] = run[h]
      /\ \/ run'[g].pc = "idle"
         \/ run'[g].task = run[g].task /\ (run'[g].pc \in Working => run[g].pc \in Working)
  <2>1. ~RunNext(g)
    BY <1>1 DEF RunNext, At
  <2> QED
    BY <2>1, RunMotion DEF RunStep
<1>3. CASE UNCHANGED tasks
  BY <1>1, <1>2, <1>3, ApartStill
<1>4. CASE SetStatus(run[g].task, "running")
  <2>1. Unfinished(run[g].task)
    BY <1>1 DEF Apart, Working
  <2>2. /\ \A s \in TaskIds : s # run[g].task => tasks'[s] = tasks[s]
        /\ tasks'[run[g].task].status = "running"
    BY <1>1, <1>4, StatusSet DEF Shapes, Statuses
  <2>3. \A t \in TaskIds : /\ tasks'[t].status \in {"pending", "running"} <=> Unfinished(t)
                           /\ tasks'[t].status # "none" <=> Exists(t)
                           /\ tasks[t].status \in Final => tasks'[t].status \in Final
    BY <1>1, <2>1, <2>2 DEF Unfinished, Exists, Final
  <2>4. \A h \in Runners : run[h].pc \in Working => tasks'[run[h].task].status \in {"pending", "running"}
    BY <2>3, InHand DEF Apart, Working, Looping
  <2>5. \A d \in Admins : adm'[d].pc \in Retrying => tasks'[adm'[d].task].status \in Final
    BY <1>1, <2>3, AdmTask DEF Apart
  <2> QED
    BY <1>1, <1>2, <2>3, <2>4, <2>5, ApartKept
<1> QED
  BY <1>3, <1>4 DEF RunStart

LEMMA FinishApart == ASSUME Shapes, Apart, NEW g \in Runners, RunFinish(g) PROVE Apart'
<1>1. run[g].pc = "finish" /\ run[g].task \in TaskIds /\ Exists(run[g].task) /\ adm' = adm /\ run[g].out \in Final
  BY InHand DEF RunFinish, At, Holds
<1>2. /\ \A h \in Runners : h # g => run'[h] = run[h]
      /\ run'[g].pc = "close" /\ run'[g].task = run[g].task
  BY <1>1, ToDoes DEF RunFinish
<1>3. "close" \notin Working
  BY DEF Working, Looping
<1>4. CASE UNCHANGED tasks
  BY <1>1, <1>2, <1>3, <1>4, ApartStill
<1>5. CASE SetStatus(run[g].task, run[g].out)
  <2>1. /\ \A s \in TaskIds : s # run[g].task => tasks'[s] = tasks[s]
        /\ tasks'[run[g].task].status = run[g].out
    BY <1>1, <1>5, StatusSet DEF Shapes, Statuses
  <2>2. \A t \in TaskIds : /\ tasks'[t].status \in {"pending", "running"} => Unfinished(t)
                           /\ tasks'[t].status # "none" <=> Exists(t)
                           /\ tasks[t].status \in Final => tasks'[t].status \in Final
    BY <1>1, <2>1 DEF Unfinished, Exists, Final
  <2>3. \A h \in Runners : h # g /\ run[h].pc \in Working => tasks'[run[h].task].status \in {"pending", "running"}
    <3> SUFFICES ASSUME NEW h \in Runners, h # g, run[h].pc \in Working
                 PROVE  tasks'[run[h].task].status \in {"pending", "running"}
      OBVIOUS
    <3>1. run[h].pc # "idle" /\ run[h].task \in TaskIds
      BY InHand DEF Working, Looping
    <3>2. run[h].task # run[g].task
      BY <1>1, <3>1 DEF Apart
    <3> QED
      BY <2>1, <3>1, <3>2 DEF Apart, Unfinished
  <2>4. \A d \in Admins : adm'[d].pc \in Retrying => tasks'[adm'[d].task].status \in Final
    BY <1>1, <2>2, AdmTask DEF Apart
  <2>5. \A h \in Runners : \/ run'[h].pc = "idle"
                           \/ /\ run[h].pc # "idle" /\ run'[h].task = run[h].task
                              /\ run'[h].pc \in Working =>
                                    run[h].pc \in Working /\ tasks'[run[h].task].status \in {"pending", "running"}
    <3> TAKE h \in Runners
    <3>1. CASE h = g
      BY <1>1, <1>2, <1>3, <3>1
    <3>2. CASE h # g
      BY <1>2, <2>3, <3>2
    <3> QED
      BY <3>1, <3>2
  <2> QED
    BY <2>2, <2>4, <2>5, ApartKept
<1> QED
  BY <1>4, <1>5 DEF RunFinish

\* A goroutine for a task nobody else is at.
LEMMA StartedApart ==
    ASSUME Shapes, Apart, NEW g \in Runners, NEW t \in TaskIds, tasks[t].status = "pending",
           \A h \in Runners \ {g} : ~WorksOn(h, t), Become(g, Starting(t)), tasks' = tasks, adm' = adm
    PROVE  Apart'
<1>1. run'[g].pc = "start" /\ run'[g].task = t /\ \A h \in Runners : h # g => run'[h] = run[h]
  BY Starts, RunMoves DEF Shapes
<1>2. \A k, h \in Runners : run'[k].pc # "idle" /\ run'[h].pc # "idle" /\ run'[k].task = run'[h].task => k = h
  <2> SUFFICES ASSUME NEW k \in Runners, NEW h \in Runners, run'[k].pc # "idle", run'[h].pc # "idle",
                      run'[k].task = run'[h].task
               PROVE  k = h
    OBVIOUS
  <2>1. CASE k # g /\ h # g
    BY <1>1, <2>1 DEF Apart
  <2>2. CASE k = g /\ h # g
    BY <1>1, <2>2 DEF WorksOn
  <2>3. CASE k # g /\ h = g
    BY <1>1, <2>3 DEF WorksOn
  <2> QED
    BY <2>1, <2>2, <2>3
<1>3. \A h \in Runners : run'[h].pc \in Working => tasks'[run'[h].task].status \in {"pending", "running"}
  BY <1>1 DEF Apart, Unfinished
<1> QED
  BY <1>2, <1>3 DEF Apart, Unfinished, Superseded, Exists

LEMMA NextApart == ASSUME Shapes, Apart, NEW g \in Runners, RunNext(g), Without({"overlap"})' PROVE Apart'
<1>1. tasks' = tasks /\ adm' = adm
  BY DEF RunNext, data
<1>2. CASE Pending # {} /\ Spawn(g, First(Pending))
  <2>1. \A h \in Runners \ {g} : ~WorksOn(h, First(Pending))
    BY <1>2 DEF Spawn, Note, When, Without
  <2> QED
    BY <1>1, <1>2, <2>1, FirstPending, StartedApart DEF Spawn, Shapes
<1>3. CASE Become(g, Idle)
  <2>1. run'[g].pc = "idle" /\ \A h \in Runners : h # g => run'[h] = run[h]
    BY <1>3, RunMoves, IdleIsIdle DEF Shapes
  <2> QED
    BY <1>1, <2>1, ApartStill
<1> QED
  BY <1>2, <1>3 DEF RunNext

LEMMA RunStepApart == ASSUME Shapes, Apart, NEW g \in Runners, RunStep(g), Without({"overlap"})' PROVE Apart'
<1>1. CASE RunStart(g)
  BY <1>1, StartApart
<1>2. CASE RunFinish(g)
  BY <1>2, FinishApart
<1>3. CASE RunNext(g)
  BY <1>3, NextApart
<1>4. CASE ~RunStart(g) /\ ~RunFinish(g) /\ ~RunNext(g)
  <2>1. tasks' = tasks /\ adm' = adm
    BY <1>4 DEF RunStep, RunDomain, RunLoad, RunCreate, RunReload, RunClient, RunItem, RunCall, RunSave, RunPoint,
       RunBad, RunClose, data
  <2>2. /\ \A h \in Runners : h # g => run'[h] = run[h]
        /\ run[g].pc # "idle"
        /\ \/ run'[g].pc = "idle"
           \/ run'[g].task = run[g].task /\ (run'[g].pc \in Working => run[g].pc \in Working)
    BY <1>4, RunMotion
  <2> QED
    BY <2>1, <2>2, ApartStill
<1> QED
  BY <1>1, <1>2, <1>3, <1>4

LEMMA BootApart == ASSUME Shapes, Apart, BootStep, Without({"overlap"})' PROVE Apart'
<1>1. CASE BootReset
  <2>1. /\ UNCHANGED <<run, adm>>
        /\ \A t \in TaskIds : \/ tasks'[t] = tasks[t]
                              \/ tasks[t].status = "running" /\ tasks'[t].status = "pending"
    BY <1>1, BootSteps
  <2>2. \A t \in TaskIds : /\ tasks'[t].status \in {"pending", "running"} <=> Unfinished(t)
                           /\ tasks'[t].status # "none" <=> Exists(t)
                           /\ tasks[t].status \in Final => tasks'[t].status \in Final
    BY <2>1 DEF Unfinished, Exists, Final
  <2>3. \A h \in Runners : run[h].pc \in Working => tasks'[run[h].task].status \in {"pending", "running"}
    BY <2>2, InHand DEF Apart, Working, Looping
  <2>4. \A d \in Admins : adm'[d].pc \in Retrying => tasks'[adm'[d].task].status \in Final
    BY <2>1, <2>2, AdmTask DEF Apart
  <2> QED
    BY <2>1, <2>2, <2>3, <2>4, ApartKept
<1>2. CASE BootList
  <2>1. tasks' = tasks /\ adm' = adm
    BY <1>2 DEF BootList, data
  <2>2. ASSUME NEW g \in Runners, Pending # {}, Spawn(g, First(Pending)) PROVE Apart'
    <3>1. \A h \in Runners \ {g} : ~WorksOn(h, First(Pending))
      BY <2>2 DEF Spawn, Note, When, Without
    <3> QED
      BY <2>1, <2>2, <3>1, FirstPending, StartedApart DEF Spawn, Shapes
  <2>3. CASE UNCHANGED run
    BY <2>1, <2>3, ApartStill
  <2> QED
    BY <1>2, <2>2, <2>3 DEF BootList
<1> QED
  BY <1>1, <1>2 DEF BootStep

\* One administrator's step, as far as goroutines and tasks are concerned.
LEMMA TurnApart ==
    ASSUME Shapes, Apart, NEW d \in Admins, UNCHANGED <<tasks, run>>, \A e \in Admins : e # d => adm'[e] = adm[e],
           adm'[d].pc \in Retrying => tasks[adm'[d].task].status \in Final
    PROVE  Apart'
BY DEF Apart, Unfinished, Superseded, Exists

LEMMA AdminApart == ASSUME Shapes, Apart, NEW d \in Admins, AdminStep(d) PROVE Apart'
<1>1. ASSUME NEW t \in TaskIds, RetryBegin(d, t) PROVE Apart'
  <2>1. tasks[t].status \in Final /\ adm'[d].task = t
    BY <1>1, RetryBeginShapes DEF RetryBegin
  <2> QED
    BY <1>1, <2>1, RetryBeginShapes, TurnApart
<1>2. CASE RetryUpdate(d)
  <2>1. UNCHANGED run /\ adm[d].pc = "update" /\ adm[d].task \in TaskIds /\ Exists(adm[d].task) /\ adm[d].out \in Final
        /\ tasks[adm[d].task].status \in Final /\ \A e \in Admins : e # d => adm'[e] = adm[e]
    BY <1>2, UpdateDone DEF Apart, Retrying
  <2>2. CASE SetStatus(adm[d].task, adm[d].out) /\ adm'[d] = [pc |-> "close", task |-> adm[d].task, out |-> adm[d].out]
    <3>1. /\ \A s \in TaskIds : s # adm[d].task => tasks'[s] = tasks[s]
          /\ tasks'[adm[d].task].status \in Final
      BY <2>1, <2>2, StatusSet DEF Shapes, Statuses
    <3>2. \A t \in TaskIds : /\ tasks'[t].status \in {"pending", "running"} <=> Unfinished(t)
                             /\ tasks'[t].status # "none" <=> Exists(t)
                             /\ tasks[t].status \in Final => tasks'[t].status \in Final
      BY <2>1, <3>1 DEF Unfinished, Exists, Final
    <3>3. \A h \in Runners : run[h].pc \in Working => tasks'[run[h].task].status \in {"pending", "running"}
      BY <3>2, InHand DEF Apart, Working, Looping
    <3>4. \A e \in Admins : adm'[e].pc \in Retrying => tasks'[adm'[e].task].status \in Final
      <4> SUFFICES ASSUME NEW e \in Admins, adm'[e].pc \in Retrying PROVE tasks'[adm'[e].task].status \in Final
        OBVIOUS
      <4>1. CASE e = d
        BY <2>2, <3>1, <4>1
      <4>2. CASE e # d
        BY <2>1, <3>2, <4>2, AdmTask DEF Apart
      <4> QED
        BY <4>1, <4>2
    <3> QED
      BY <2>1, <3>2, <3>3, <3>4, ApartKept
  <2>3. CASE adm'[d] = Idle /\ UNCHANGED tasks
    BY <2>1, <2>3, IdleIsIdle, TurnApart DEF Retrying
  <2> QED
    BY <1>2, <2>2, <2>3, UpdateDone
<1>3. CASE RetryCall(d)
  BY <1>3, RetryCalled, TurnApart DEF Retrying, Apart
<1>4. CASE RetryMark(d)
  BY <1>4, MarkDone, TurnApart DEF Retrying, Apart
<1>5. CASE RetryCount(d)
  <2>1. UNCHANGED <<tasks, run>> /\ adm[d].pc = "call" /\ \A e \in Admins : e # d => adm'[e] = adm[e]
    BY <1>5, CountDone
  <2>2. adm'[d].pc \in Retrying => adm'[d].task = adm[d].task
    <3>1. CASE adm'[d] = [pc |-> "update", task |-> adm[d].task, out |-> Counted(adm[d].task)]
      BY <3>1
    <3>2. CASE adm'[d] = Idle
      BY <3>2, IdleIsIdle DEF Retrying
    <3> QED
      BY <1>5, <3>1, <3>2, CountDone
  <2> QED
    BY <2>1, <2>2, TurnApart DEF Retrying, Apart
<1>6. CASE RetryClose(d) \/ UpdateSave(d)
  BY <1>6, RetryClosed, UpdateSaved, IdleIsIdle, TurnApart DEF Retrying
<1>7. CASE CleanupDelete(d)
  BY <1>7, CleanupDone, TurnApart DEF Retrying
<1>8. ASSUME NEW t \in TaskIds, CleanupBegin(d, t) PROVE Apart'
  BY <1>8, CleanupBeginShapes, TurnApart DEF Retrying
<1>9. ASSUME NEW home \in Accts, UpdateBegin(d, home) PROVE Apart'
  BY <1>9, UpdateBegun, TurnApart DEF Retrying
<1> QED
  BY <1>1, <1>2, <1>3, <1>4, <1>5, <1>6, <1>7, <1>8, <1>9 DEF AdminStep

LEMMA CreateMigrationApart == ASSUME Shapes, Apart, NEW dst \in Accts, NEW g \in Runners, CreateMigration(dst, g) PROVE Apart'
<1>1. PICK t \in TaskIds :
         /\ ~Exists(t) /\ \A s \in TaskIds : Exists(s) <=> s < t
         /\ run[g].pc = "idle" /\ run'[g] = Starting(t) /\ \A h \in Runners : h # g => run'[h] = run[h]
         /\ tasks'[t].status = "pending" /\ tasks'[t].dst = dst
         /\ \A s \in TaskIds : s # t => tasks'[s] = tasks[s]
  BY CreateMigrationShapes
<1>2. run'[g].pc = "start" /\ run'[g].task = t
  BY <1>1, Starts
<1>3. \A s \in TaskIds : ~Unfinished(s)
  BY DEF CreateMigration, Blocks
<1>4. \A h \in Runners : run[h].pc # "idle" => run[h].task \in TaskIds /\ run[h].task # t
  BY <1>1, InHand
<1>5. \A k, h \in Runners : run'[k].pc # "idle" /\ run'[h].pc # "idle" /\ run'[k].task = run'[h].task => k = h
  <2> SUFFICES ASSUME NEW k \in Runners, NEW h \in Runners, run'[k].pc # "idle", run'[h].pc # "idle",
                      run'[k].task = run'[h].task
               PROVE  k = h
    OBVIOUS
  <2>1. CASE k # g /\ h # g
    BY <1>1, <2>1 DEF Apart
  <2>2. CASE k = g /\ h # g
    BY <1>1, <1>2, <1>4, <2>2
  <2>3. CASE k # g /\ h = g
    BY <1>1, <1>2, <1>4, <2>3
  <2> QED
    BY <2>1, <2>2, <2>3
<1>6. \A h \in Runners : run'[h].pc \in Working => tasks'[run'[h].task].status \in {"pending", "running"}
  <2> TAKE h \in Runners
  <2>1. CASE h = g
    BY <1>1, <1>2, <2>1
  <2>2. CASE h # g
    <3>1. run[h].pc \notin Working
      BY <1>3, InHand DEF Apart, Working, Looping
    <3> QED
      BY <1>1, <2>2, <3>1
  <2> QED
    BY <2>1, <2>2
<1>7. \A s \in TaskIds : tasks'[s].status \in {"pending", "running"} =>
        ~\E k \in TaskIds : k > s /\ tasks'[k].status # "none"
  <2> SUFFICES ASSUME NEW s \in TaskIds, tasks'[s].status \in {"pending", "running"}, NEW k \in TaskIds, k > s
               PROVE  tasks'[k].status = "none"
    OBVIOUS
  <2>1. s = t
    BY <1>1, <1>3 DEF Unfinished
  <2>2. k # t /\ ~(k < t)
    BY <2>1, Constants
  <2> QED
    BY <1>1, <2>2 DEF Exists
<1>8. adm' = adm /\ \A d \in Admins : adm[d].pc \in Retrying => adm[d].task \in TaskIds /\ adm[d].task # t
  BY <1>1, AdmTask DEF CreateMigration
<1>9. \A d \in Admins : adm'[d].pc \in Retrying => tasks'[adm'[d].task].status \in Final
  BY <1>1, <1>8 DEF Apart
<1> QED
  BY <1>5, <1>6, <1>7, <1>9 DEF Apart, Unfinished, Superseded, Exists

LEMMA NextKeepsAlone == ASSUME Shapes, Alone, [Next]_vars PROVE Alone'
<1> SUFFICES ASSUME Without({"overlap"})' PROVE Apart'
  BY DEF Alone
<1>1. Apart
  BY WithoutBefore DEF Alone
<1>2. CASE Crash
  <2>1. UNCHANGED tasks /\ \A h \in Runners : run'[h].pc = "idle"
    BY <1>2, IdleIsIdle DEF Crash, data
  <2>2. \A d \in Admins : adm'[d].pc \notin Retrying
    BY <1>2, IdleIsIdle DEF Crash, Retrying
  <2> QED
    BY <1>1, <2>1, <2>2, ApartStill
<1>3. CASE UserStep
  BY <1>1, <1>3, UserDone, ApartStill
<1>4. CASE UNCHANGED vars
  BY <1>1, <1>4, ApartStill DEF vars, data
<1> QED
  BY <1>1, <1>2, <1>3, <1>4, CreateMigrationApart, RunStepApart, BootApart, AdminApart DEF Next

LEMMA AloneAlways == Spec => []Alone
<1>1. ASSUME Init PROVE Alone
  <2>1. Apart
    BY <1>1, IdleIsIdle DEF Init, Apart, Working, Looping, Retrying, Unfinished, Absent
  <2> QED
    BY <2>1 DEF Alone
<1> QED
  BY <1>1, ShapesAlways, NextKeepsAlone, PTL DEF Spec

-----------------------------------------------------------------------------
(* The third layer is inductive *)

\* What has ended stays so, and only CreateMigration makes a task.
LEMMA TaskMoves ==
    ASSUME Shapes, Apart, [Next]_vars
    PROVE  /\ \A t \in TaskIds : tasks[t].status \in Final => tasks'[t].status \in Final
           /\ \/ \E dst \in Accts, g \in Runners : CreateMigration(dst, g)
              \/ \A t \in TaskIds : /\ tasks'[t].status \in {"pending", "running"} => Unfinished(t)
                                    /\ tasks'[t].status # "none" <=> Exists(t)
                                    /\ Exists(t) => tasks'[t].dst = tasks[t].dst
<1> DEFINE Goal == \A t \in TaskIds : /\ tasks[t].status \in Final => tasks'[t].status \in Final
                                      /\ tasks'[t].status \in {"pending", "running"} => Unfinished(t)
                                      /\ tasks'[t].status # "none" <=> Exists(t)
                                      /\ Exists(t) => tasks'[t].dst = tasks[t].dst
<1>1. tasks' = tasks => Goal
  BY DEF Unfinished, Exists
<1>2. ASSUME NEW s \in TaskIds, Exists(s), NEW st \in Statuses, SetStatus(s, st),
             st \notin Final => Unfinished(s)
      PROVE  Goal
  <2>1. /\ \A t \in TaskIds : t # s => tasks'[t] = tasks[t]
        /\ tasks'[s].status = st /\ tasks'[s].dst = tasks[s].dst
    BY <1>2, StatusSet DEF Shapes
  <2> QED
    BY <1>2, <2>1 DEF Unfinished, Exists, Final, Statuses
<1>3. ASSUME NEW g \in Runners, RunStart(g) PROVE Goal
  <2>1. run[g].task \in TaskIds /\ Exists(run[g].task) /\ Unfinished(run[g].task)
    BY <1>3, InHand DEF RunStart, At, Apart, Working
  <2> QED
    BY <1>1, <1>2, <1>3, <2>1 DEF RunStart, Statuses
<1>4. ASSUME NEW g \in Runners, RunFinish(g) PROVE Goal
  <2>1. run[g].task \in TaskIds /\ Exists(run[g].task) /\ run[g].out \in Final
    BY <1>4, InHand DEF RunFinish, At, Holds
  <2> QED
    BY <1>1, <1>2, <1>4, <2>1 DEF RunFinish, Statuses
<1>5. ASSUME NEW g \in Runners, RunStep(g), ~RunStart(g), ~RunFinish(g) PROVE Goal
  BY <1>1, <1>5 DEF RunStep, RunDomain, RunLoad, RunCreate, RunReload, RunClient, RunItem, RunCall, RunSave, RunPoint,
     RunBad, RunClose, RunNext, data
<1>6. ASSUME BootStep PROVE Goal
  <2>1. CASE BootReset
    <3>1. \A t \in TaskIds : /\ tasks'[t].dst = tasks[t].dst
                             /\ \/ tasks'[t] = tasks[t]
                                \/ tasks[t].status = "running" /\ tasks'[t].status = "pending"
      BY <2>1, BootSteps
    <3> QED
      BY <3>1 DEF Unfinished, Exists, Final
  <2>2. CASE BootList
    BY <1>1, <2>2 DEF BootList, data
  <2> QED
    BY <1>6, <2>1, <2>2 DEF BootStep
<1>7. ASSUME NEW d \in Admins, AdminStep(d) PROVE Goal
  <2>1. CASE RetryUpdate(d)
    <3>1. adm[d].task \in TaskIds /\ Exists(adm[d].task) /\ adm[d].out \in Final
      BY <2>1, UpdateDone
    <3>2. SetStatus(adm[d].task, adm[d].out) \/ UNCHANGED tasks
      BY <2>1, UpdateDone
    <3> QED
      BY <1>1, <1>2, <3>1, <3>2 DEF Statuses
  <2>2. CASE ~RetryUpdate(d)
    BY <1>1, <1>7, <2>2, RetryBeginShapes, RetryCalled, MarkDone, CountDone, RetryClosed, CleanupBeginShapes, CleanupDone,
       UpdateBegun, UpdateSaved DEF AdminStep
  <2> QED
    BY <2>1, <2>2
<1>8. Crash \/ UserStep \/ UNCHANGED vars => Goal
  BY <1>1, UserDone DEF Crash, vars, data
<1>9. ASSUME NEW dst \in Accts, NEW g \in Runners, CreateMigration(dst, g)
      PROVE  \A t \in TaskIds : tasks[t].status \in Final => tasks'[t].status \in Final
  BY <1>9, CreateMigrationShapes DEF Exists, Final
<1> QED
  BY <1>3, <1>4, <1>5, <1>6, <1>7, <1>8, <1>9 DEF Next

LEMMA AdminLeavesRuns == ASSUME Shapes, NEW d \in Admins, AdminStep(d) PROVE UNCHANGED <<run, usr>>
BY RetryBeginShapes, RetryCalled, MarkDone, CountDone, UpdateDone, RetryClosed, CleanupBeginShapes, CleanupDone,
   UpdateBegun, UpdateSaved DEF AdminStep

\* While no statement fails, who is at "close" has closed his task.
LEMMA ClosersDone ==
    ASSUME Shapes, Apart, [Next]_vars, Without({"db"})',
           \A g \in Runners : run[g].pc = "close" => tasks[run[g].task].status \in Final
    PROVE  \A g \in Runners : run'[g].pc = "close" => tasks'[run'[g].task].status \in Final
<1> SUFFICES ASSUME NEW g \in Runners, run'[g].pc = "close" PROVE tasks'[run'[g].task].status \in Final
  OBVIOUS
<1>1. CASE run'[g] = run[g]
  BY <1>1, TaskMoves, InHand
<1>2. CASE RunFinish(g)
  <2>1. run[g].task \in TaskIds /\ Exists(run[g].task) /\ run[g].out \in Final /\ run[g].pc # "idle"
    BY <1>2, InHand DEF RunFinish, At, Holds
  <2>2. SetStatus(run[g].task, run[g].out)
    BY <1>2 DEF RunFinish, SqlFails, Note, Without
  <2>3. run'[g].task = run[g].task
    BY <1>2, <2>1, ToDoes DEF RunFinish
  <2> QED
    BY <2>1, <2>2, <2>3, StatusSet DEF Shapes, Statuses
<1>3. ASSUME NEW k \in Runners, RunStep(k) PROVE run'[g] = run[g] \/ RunFinish(g)
  <2>1. CASE ~RunNext(k)
    BY <1>3, <2>1, RunMotion
  <2>2. CASE RunNext(k)
    <3>1. PICK j \in Job \cup {Idle} : Become(k, j) /\ j.pc # "close"
      BY <2>2, FirstPending, Starts, IdleIsIdle DEF RunNext, Spawn, Shapes
    <3> QED
      BY <3>1, RunMoves DEF Shapes
  <2> QED
    BY <2>1, <2>2
<1>4. ASSUME NEW dst \in Accts, NEW k \in Runners, CreateMigration(dst, k) PROVE run'[g] = run[g]
  BY <1>4, CreateMigrationShapes, Starts
<1>5. ASSUME BootStep PROVE run'[g] = run[g]
  <2>1. CASE BootReset
    BY <2>1, BootSteps
  <2>2. ASSUME NEW k \in Runners, Pending # {}, Spawn(k, First(Pending)) PROVE run'[g] = run[g]
    BY <2>2, FirstPending, Starts, RunMoves DEF Spawn, Shapes
  <2> QED
    BY <1>5, <2>1, <2>2 DEF BootStep, BootList
<1>6. ~Crash
  BY IdleIsIdle DEF Crash
<1>7. UserStep \/ UNCHANGED vars => run' = run
  BY UserDone DEF vars
<1>8. ASSUME NEW d \in Admins, AdminStep(d) PROVE run' = run
  BY <1>8, AdminLeavesRuns
<1> QED
  BY <1>1, <1>2, <1>3, <1>4, <1>5, <1>6, <1>7, <1>8 DEF Next

\* Who closes the newest task, ended, ends the migration.
LEMMA NothingLeft ==
    ASSUME Apart, NEW t \in TaskIds, tasks[t].status \in Final, ~Superseded(t)
    PROVE  ~Migrating
<1> SUFFICES ASSUME NEW s \in TaskIds, Unfinished(s) PROVE FALSE
  BY DEF Migrating
<1>1. s # t
  BY UnfinishedThere
<1>2. ~(s > t)
  BY UnfinishedThere DEF Superseded
<1>3. t > s
  BY <1>1, <1>2, Constants
<1>4. Exists(t)
  BY DEF Exists, Final
<1> QED
  BY <1>3, <1>4 DEF Apart, Superseded

LEMMA NextKeepsShut == ASSUME Shapes, Alone, Shut, [Next]_vars PROVE Shut'
<1> DEFINE M == {"db", "overlap", "late", "overwritten"}
<1> SUFFICES ASSUME Without(M)' PROVE /\ (\E t \in TaskIds : tasks'[t].status \in {"pending", "running"}) => dom'.ro
                                      /\ \A g \in Runners : run'[g].pc = "close" => tasks'[run'[g].task].status \in Final
  BY DEF Shut, Migrating, Unfinished
<1>1. Without(M)
  BY WithoutBefore
<1>2. Apart /\ (Migrating => dom.ro) /\ \A g \in Runners : run[g].pc = "close" => tasks[run[g].task].status \in Final
  BY <1>1 DEF Alone, Shut, Without
<1>3. \A g \in Runners : run'[g].pc = "close" => tasks'[run'[g].task].status \in Final
  BY <1>2, ClosersDone DEF Without
<1>4. ASSUME dom'.ro \/ dom' = dom \/ ~Migrating,
             ~\E d \in Accts, g \in Runners : CreateMigration(d, g)
      PROVE  (\E t \in TaskIds : tasks'[t].status \in {"pending", "running"}) => dom'.ro
  BY <1>2, <1>4, TaskMoves DEF Migrating
<1>5. ASSUME NEW d \in Accts, NEW g \in Runners, CreateMigration(d, g) PROVE dom'.ro
  BY <1>5 DEF CreateMigration, Switched
<1>6. ASSUME NEW g \in Runners, RunStep(g) PROVE dom'.ro \/ dom' = dom \/ ~Migrating
  <2>1. CASE RunDomain(g)
    BY <2>1, Unmoved DEF RunDomain, Domain
  <2>2. CASE RunClose(g)
    <3>1. run[g].task \in TaskIds /\ tasks[run[g].task].status \in Final
      BY <1>2, <2>2, InHand DEF RunClose, At
    <3>2. dom' = dom \/ ~Superseded(run[g].task)
      BY <2>2 DEF RunClose, Note, When, Without
    <3> QED
      BY <1>2, <3>1, <3>2, NothingLeft
  <2>3. CASE ~RunDomain(g) /\ ~RunClose(g)
    BY <1>6, <2>3 DEF RunStep, RunStart, RunLoad, RunCreate, RunReload, RunClient, RunItem, RunCall, RunSave, RunPoint,
       RunBad, RunFinish, RunNext
  <2> QED
    BY <2>1, <2>2, <2>3
<1>7. ASSUME NEW d \in Admins, AdminStep(d) PROVE dom'.ro \/ dom' = dom \/ ~Migrating
  <2>1. CASE RetryClose(d)
    <3>1. adm[d].task \in TaskIds /\ tasks[adm[d].task].status \in Final
      BY <1>2, <2>1, AdmTask DEF RetryClose, Apart, Retrying
    <3>2. dom' = dom \/ ~Superseded(adm[d].task)
      BY <2>1 DEF RetryClose, Note, When, Without
    <3> QED
      BY <1>2, <3>1, <3>2, NothingLeft
  <2>2. CASE UpdateSave(d)
    <3>1. dom = adm[d].read
      BY <2>2 DEF UpdateSave, Note, When, Without
    <3>2. dom'.ro = dom.ro
      BY <2>2, <3>1, Unmoved DEF UpdateSave, Domain
    <3> QED
      BY <1>2, <3>2
  <2>3. CASE ~RetryClose(d) /\ ~UpdateSave(d)
    BY <1>7, <2>3, RetryBeginShapes, RetryCalled, MarkDone, CountDone, UpdateDone, CleanupBeginShapes, CleanupDone,
       UpdateBegun DEF AdminStep
  <2> QED
    BY <2>1, <2>2, <2>3
<1>8. BootStep \/ Crash \/ UserStep \/ UNCHANGED vars => dom' = dom
  BY UserDone DEF BootStep, BootReset, BootList, Crash, vars
<1> QED
  BY <1>3, <1>4, <1>5, <1>6, <1>7, <1>8 DEF Next

LEMMA ShutAlways == Spec => []Shut
<1>1. ASSUME Init PROVE Shut
  BY <1>1, IdleIsIdle DEF Init, Shut, Migrating, Unfinished, Absent
<1> QED
  BY <1>1, ShapesAlways, AloneAlways, NextKeepsShut, PTL DEF Spec

-----------------------------------------------------------------------------
(* The fourth layer is inductive *)

LEMMA NoFault == ASSUME Without({"db"})' PROVE ~SqlFails
BY DEF SqlFails, Note, Without

LEMMA CountingOn ==
    ASSUME NEW d \in Admins, NEW t \in TaskIds, adm'[d] = adm[d], items'[t] = items[t], Counting(d, t)
    PROVE  Counting(d, t)'
BY DEF Counting, Counted

LEMMA AnswersOn ==
    ASSUME NEW t \in TaskIds, Answers(t), mishaps \subseteq mishaps', tasks'[t] = tasks[t], items'[t] = items[t],
           \A d \in Admins : adm'[d] = adm[d] \/ (Counting(d, t) => Counting(d, t)' \/ ~Without({"torn", "crossed"})')
    PROVE  Answers(t)'
<1>1. ~Without({"torn", "crossed"}) => ~Without({"torn", "crossed"})'
  BY DEF Without
<1>2. \A d \in Admins : Counting(d, t) => Counting(d, t)' \/ ~Without({"torn", "crossed"})'
  BY CountingOn
<1> QED
  BY <1>1, <1>2 DEF Answers

\* Honest in the next state, with the tasks of goroutines named.
LEMMA HonestAgain ==
    ASSUME \A h \in Runners : run'[h].pc # "idle" => Progress(run'[h], items'[run'[h].task]),
           \A t \in TaskIds : Answers(t)',
           \A h \in Runners : run'[h].pc = "close" /\ run'[h].out = "succeeded" =>
                                \E t \in TaskIds : t = run'[h].task /\ Complete(t)',
           \A d \in Admins : Reckons(adm'[d], items'[adm'[d].task])
    PROVE  Honest'
<1>1. \A h \in Runners : run'[h].pc = "close" /\ run'[h].out = "succeeded" => Complete(run[h].task)'
  BY DEF Complete
<1> QED
  BY <1>1 DEF Honest

LEMMA CompleteOn ==
    ASSUME NEW t \in TaskIds, Complete(t), items'[t] = items[t], tasks'[t].status \in Final,
           tasks'[t].status = tasks[t].status \/ items[t] # <<>>
    PROVE  Complete(t)'
BY DEF Complete, Whole

\* A step at work on an unfinished task that tells how far it has got.
LEMMA HonestWork ==
    ASSUME Shapes, Apart, Honest, mishaps \subseteq mishaps', NEW g \in Runners, run[g].pc \in Working,
           \A h \in Runners : h # g => run'[h] = run[h],
           run'[g].pc \in Working, run'[g].task = run[g].task, Progress(run'[g], items'[run[g].task]),
           \A t \in TaskIds : t # run[g].task => items'[t] = items[t],
           \A t \in TaskIds : t # run[g].task => tasks'[t] = tasks[t],
           tasks'[run[g].task].status \in {"pending", "running"}, adm' = adm
    PROVE  Honest'
<1>1. run[g].pc # "idle" /\ run[g].task \in TaskIds /\ Unfinished(run[g].task)
  BY InHand DEF Apart, Working, Looping
<1>2. \A h \in Runners : h # g /\ run[h].pc # "idle" => run[h].task \in TaskIds /\ run[h].task # run[g].task
  BY <1>1, InHand DEF Apart
<1>3. \A h \in Runners : run'[h].pc # "idle" => Progress(run'[h], items'[run'[h].task])
  <2> TAKE h \in Runners
  <2>1. CASE h = g
    BY <2>1
  <2>2. CASE h # g
    BY <1>2, <2>2 DEF Honest
  <2> QED
    BY <2>1, <2>2
<1>4. \A t \in TaskIds : Answers(t)'
  <2> TAKE t \in TaskIds
  <2>1. CASE t = run[g].task
    BY <2>1 DEF Answers, Told
  <2>2. CASE t # run[g].task
    BY <2>2, AnswersOn DEF Honest
  <2> QED
    BY <2>1, <2>2
<1>5. ASSUME NEW h \in Runners, run'[h].pc = "close", run'[h].out = "succeeded"
      PROVE  \E t \in TaskIds : t = run'[h].task /\ Complete(t)'
  <2>1. h # g
    BY <1>5 DEF Working, Looping
  <2>2. run[h].task \in TaskIds /\ run[h].task # run[g].task /\ Complete(run[h].task)
    BY <1>2, <1>5, <2>1 DEF Honest
  <2> QED
    BY <2>1, <2>2, CompleteOn DEF Complete
<1>6. \A d \in Admins : Reckons(adm[d], items'[adm[d].task])
  <2> TAKE d \in Admins
  <2>1. CASE adm[d].pc \in {"update", "close"}
    <3>1. adm[d].task \in TaskIds /\ tasks[adm[d].task].status \in Final
      BY <2>1, AdmTask DEF Apart, Retrying
    <3>2. adm[d].task # run[g].task
      BY <1>1, <3>1, UnfinishedThere
    <3> QED
      BY <3>1, <3>2 DEF Honest
  <2>2. CASE adm[d].pc \notin {"update", "close"}
    BY <2>2 DEF Reckons
  <2> QED
    BY <2>1, <2>2
<1> QED
  BY <1>3, <1>4, <1>5, <1>6, HonestAgain

\* The same where the tasks stay as they are.
LEMMA HonestItem ==
    ASSUME Shapes, Apart, Honest, mishaps \subseteq mishaps', NEW g \in Runners, run[g].pc \in Working,
           \A h \in Runners : h # g => run'[h] = run[h],
           run'[g].pc \in Working, run'[g].task = run[g].task, Progress(run'[g], items'[run[g].task]),
           \A t \in TaskIds : t # run[g].task => items'[t] = items[t], tasks' = tasks, adm' = adm
    PROVE  Honest'
BY HonestWork DEF Apart, Unfinished

\* Steps that leave tasks and items alone and do not work on them.
LEMMA HonestStill ==
    ASSUME Shapes, Honest, mishaps \subseteq mishaps', tasks' = tasks, items' = items,
           \A h \in Runners : \/ run'[h] = run[h] \/ run'[h].pc \in {"idle", "next"}
                              \/ run'[h].pc = "start" /\ ~run'[h].lost,
           \A d \in Admins :
              \/ adm'[d] = adm[d]
              \/ /\ Reckons(adm'[d], items[adm'[d].task])
                 /\ \A t \in TaskIds : Counting(d, t) => Counting(d, t)' \/ ~Without({"torn", "crossed"})'
    PROVE  Honest'
<1>1. \A h \in Runners : run'[h].pc # "idle" => Progress(run'[h], items'[run'[h].task])
  <2> TAKE h \in Runners
  <2>1. CASE run'[h] = run[h]
    BY <2>1 DEF Honest
  <2>2. CASE run'[h].pc \in {"idle", "next"} \/ (run'[h].pc = "start" /\ ~run'[h].lost)
    BY <2>2 DEF Progress, Looping
  <2> QED
    BY <2>1, <2>2
<1>2. ASSUME NEW h \in Runners, run'[h].pc = "close", run'[h].out = "succeeded"
      PROVE  \E t \in TaskIds : t = run'[h].task /\ Complete(t)'
  <2>1. run'[h] = run[h] /\ run[h].task \in TaskIds
    BY <1>2, InHand
  <2>2. Complete(run[h].task)
    BY <1>2, <2>1 DEF Honest
  <2> QED
    BY <2>1, <2>2, CompleteOn DEF Complete
<1>3. \A t \in TaskIds : Answers(t)'
  BY AnswersOn DEF Honest
<1>4. \A d \in Admins : Reckons(adm'[d], items'[adm'[d].task])
  BY DEF Honest
<1> QED
  BY <1>1, <1>2, <1>3, <1>4, HonestAgain

\* The same of one administrator's step.
LEMMA HonestTurn ==
    ASSUME Shapes, Honest, mishaps \subseteq mishaps', NEW d \in Admins, UNCHANGED <<tasks, items, run>>,
           \A e \in Admins : e # d => adm'[e] = adm[e], Reckons(adm'[d], items[adm'[d].task]),
           adm[d].pc \notin {"call", "mark", "update"} \/ \A t \in TaskIds : Counting(d, t) => Counting(d, t)'
    PROVE  Honest'
<1>1. \A e \in Admins :
         \/ adm'[e] = adm[e]
         \/ /\ Reckons(adm'[e], items[adm'[e].task])
            /\ \A t \in TaskIds : Counting(e, t) => Counting(e, t)' \/ ~Without({"torn", "crossed"})'
  <2> TAKE e \in Admins
  <2>1. CASE e = d
    BY <2>1 DEF Counting
  <2>2. CASE e # d
    BY <2>2
  <2> QED
    BY <2>1, <2>2
<1> QED
  BY <1>1, HonestStill

LEMMA HonestList ==
    ASSUME Shapes, NEW g \in Runners, run[g].pc # "idle", ~run[g].lost, Become(g, Listed(g, items[run[g].task])),
           items' = items
    PROVE  Progress(run'[g], items'[run[g].task])
<1>1. /\ run'[g] \in Job /\ run'[g].pc = "client" /\ run'[g].todo = Todo(items[run[g].task])
      /\ run'[g].lost = run[g].lost
      /\ run'[g].won = \E i \in DOMAIN items[run[g].task] : items[run[g].task][i].st = "succeeded"
  BY ListedDoes
<1>2. \A i \in DOMAIN items[run[g].task] \ run'[g].todo : items[run[g].task][i].st = "succeeded"
  BY <1>1 DEF Todo
<1>3. run'[g].won => Some(items[run[g].task], DOMAIN items[run[g].task] \ run'[g].todo, "succeeded")
  BY <1>1 DEF Some, Todo
<1> QED
  BY <1>1, <1>2, <1>3 DEF Progress

LEMMA HonestFinish ==
    ASSUME Shapes, Apart, Honest, mishaps \subseteq mishaps', NEW g \in Runners, run[g].pc \in Working,
           NEW out \in Final, Finish(g, out), Told(out, items[run[g].task]), UNCHANGED <<tasks, items, adm>>
    PROVE  Honest'
<1>1. run[g].pc # "idle"
  BY DEF Working, Looping
<1>2. /\ \A h \in Runners : h # g => run'[h] = run[h]
      /\ run'[g].pc = "finish" /\ run'[g].task = run[g].task /\ run'[g].out = out
  BY <1>1, FinishDoes
<1>3. Progress(run'[g], items'[run[g].task])
  BY <1>2 DEF Progress, Looping
<1> QED
  BY <1>2, <1>3, HonestItem DEF Working

LEMMA HonestSteps ==
    ASSUME Shapes, Apart, Honest, mishaps \subseteq mishaps', Without({"db"})', NEW g \in Runners,
           RunDomain(g) \/ RunLoad(g) \/ RunCreate(g) \/ RunReload(g) \/ RunClient(g)
    PROVE  Honest'
<1>1. run[g].pc \in {"domain", "load", "create", "reload", "client"} /\ adm' = adm /\ tasks' = tasks
      /\ run[g].pc # "idle" /\ run[g].pc \in Working
  BY DEF RunDomain, RunLoad, RunCreate, RunReload, RunClient, At, data, Working, Looping
<1>2. ~run[g].lost /\ run[g].task \in TaskIds /\ Progress(run[g], items[run[g].task])
  BY <1>1, InHand DEF Honest, Progress
<1>3. CASE RunDomain(g)
  <2>1. /\ \A h \in Runners : h # g => run'[h] = run[h]
        /\ run'[g].pc = "load" /\ run'[g].task = run[g].task /\ run'[g].lost = run[g].lost /\ items' = items
    BY <1>1, <1>3, ToDoes DEF RunDomain, Working, data
  <2>2. Progress(run'[g], items'[run[g].task])
    BY <1>2, <2>1 DEF Progress, Looping
  <2> QED
    BY <1>1, <2>1, <2>2, HonestItem DEF Working
<1>4. CASE RunLoad(g)
  <2>1. items' = items /\ run[g].pc = "load"
    BY <1>4 DEF RunLoad, data, At
  <2>2. CASE Become(g, [run[g] EXCEPT !.pc = "create", !.snap = rows])
    <3>1. /\ \A h \in Runners : h # g => run'[h] = run[h]
          /\ run'[g].pc = "create" /\ run'[g].task = run[g].task /\ run'[g].lost = run[g].lost
      BY <2>1, <2>2, LoadDoes
    <3>2. Progress(run'[g], items'[run[g].task])
      BY <1>2, <3>1 DEF Progress, Looping
    <3> QED
      BY <1>1, <2>1, <3>1, <3>2, HonestItem DEF Working
  <2>3. CASE Become(g, Listed(g, items[run[g].task]))
    <3>1. Progress(run'[g], items'[run[g].task])
      BY <1>1, <1>2, <2>1, <2>3, HonestList
    <3>2. /\ \A h \in Runners : h # g => run'[h] = run[h]
          /\ run'[g].pc = "client" /\ run'[g].task = run[g].task
      BY <1>1, <2>3, ListedDoes
    <3> QED
      BY <1>1, <2>1, <3>1, <3>2, HonestItem DEF Working, Looping
  <2> QED
    BY <1>4, <2>2, <2>3, NoFault DEF RunLoad
<1>5. CASE RunCreate(g)
  <2>1. /\ items' = [items EXCEPT ![run[g].task] = @ \o NewItems(run[g].snap)]
        /\ To(g, "reload")
    BY <1>5, NoFault DEF RunCreate
  <2>2. /\ \A h \in Runners : h # g => run'[h] = run[h]
        /\ run'[g].pc = "reload" /\ run'[g].task = run[g].task /\ run'[g].lost = run[g].lost
    BY <1>1, <2>1, ToDoes DEF Working
  <2>3. Progress(run'[g], items'[run[g].task])
    BY <1>2, <2>2 DEF Progress, Looping
  <2>4. \A t \in TaskIds : t # run[g].task => items'[t] = items[t]
    BY <2>1, Unmoved
  <2> QED
    BY <1>1, <2>2, <2>3, <2>4, HonestItem DEF Working
<1>6. CASE RunReload(g)
  <2>1. items' = items /\ Become(g, Listed(g, items[run[g].task]))
    BY <1>6, NoFault DEF RunReload, data
  <2>2. Progress(run'[g], items'[run[g].task])
    BY <1>1, <1>2, <2>1, HonestList
  <2>3. /\ \A h \in Runners : h # g => run'[h] = run[h]
        /\ run'[g].pc = "client" /\ run'[g].task = run[g].task
    BY <1>1, <2>1, ListedDoes
  <2> QED
    BY <1>1, <2>1, <2>2, <2>3, HonestItem DEF Working, Looping
<1>7. CASE RunClient(g)
  <2>1. items' = items /\ run[g].pc = "client"
    BY <1>7 DEF RunClient, data, At
  <2>2. CASE To(g, "item")
    <3>1. /\ \A h \in Runners : h # g => run'[h] = run[h]
          /\ run'[g].pc = "item" /\ run'[g].task = run[g].task /\ run'[g].lost = run[g].lost
          /\ run'[g].won = run[g].won /\ run'[g].todo = run[g].todo
      BY <1>1, <2>2, ToDoes DEF Working, Looping
    <3>2. Progress(run'[g], items'[run[g].task])
      BY <1>2, <2>1, <3>1 DEF Progress, Looping
    <3> QED
      BY <1>1, <2>1, <3>1, <3>2, HonestItem DEF Working, Looping
  <2>3. CASE Finish(g, "failed")
    BY <1>1, <2>1, <2>3, HonestFinish DEF Final, Told
  <2> QED
    BY <1>7, <2>2, <2>3 DEF RunClient
<1> QED
  BY <1>3, <1>4, <1>5, <1>6, <1>7

LEMMA HonestLoop ==
    ASSUME Shapes, Apart, Honest, mishaps \subseteq mishaps', Without({"db"})', NEW g \in Runners,
           RunItem(g) \/ RunCall(g) \/ RunSave(g) \/ RunPoint(g) \/ RunBad(g)
    PROVE  Honest'
<1> DEFINE its == items[run[g].task]
           i == First(run[g].todo)
<1>1. run[g].pc \in {"item", "call", "save", "point", "bad"} /\ adm' = adm /\ tasks' = tasks
      /\ run[g].pc # "idle" /\ run[g].pc \in Working /\ run[g].pc \in Looping
  BY DEF RunItem, RunCall, RunSave, RunPoint, RunBad, At, data, Working, Looping
<1>2. /\ run[g].task \in TaskIds /\ Progress(run[g], its) /\ run[g] \in Job /\ run[g].todo \in SUBSET Nat
      /\ run[g].todo \subseteq DOMAIN its /\ run[g].won \in BOOLEAN /\ run[g].lost \in BOOLEAN
  BY <1>1, InHand DEF Honest, Job, Holds
<1>3. /\ \A k \in DOMAIN its \ run[g].todo : its[k].st = "succeeded" \/ (run[g].lost /\ its[k].st = "failed")
      /\ run[g].won /\ run[g].pc \notin {"save", "point"} => Some(its, DOMAIN its \ run[g].todo, "succeeded")
      /\ run[g].lost /\ run[g].pc # "bad" => Some(its, DOMAIN its \ run[g].todo, "failed")
  BY <1>1, <1>2 DEF Progress
<1>4. run[g].todo # {} => i \in run[g].todo /\ i \in DOMAIN its
  BY <1>2, Least
<1>5. ASSUME run[g].todo # {}, NEW st \in ItemStates, SetItem(run[g].task, i, st)
      PROVE  /\ \A t \in TaskIds : t # run[g].task => items'[t] = items[t]
             /\ DOMAIN items'[run[g].task] = DOMAIN its
             /\ \A k \in DOMAIN its : k # i => items'[run[g].task][k] = its[k]
             /\ items'[run[g].task][i].st = st
  BY <1>2, <1>4, <1>5, ItemSet DEF Shapes
<1> HIDE DEF its, i
<1>6. CASE RunItem(g)
  <2>1. run[g].pc = "item"
    BY <1>6 DEF RunItem, At
  <2>2. CASE run[g].todo = {}
    <3>1. Finish(g, Outcome(run[g].won, run[g].lost)) /\ items' = items
      BY <1>6, <2>2 DEF RunItem
    <3>2. Outcome(run[g].won, run[g].lost) \in Final
      BY <1>2, OutcomeFinal
    <3>3. Told(Outcome(run[g].won, run[g].lost), its)
      BY <1>3, <2>1, <2>2 DEF Told, Outcome
    <3> QED
      BY <1>1, <3>1, <3>2, <3>3, HonestFinish DEF its
  <2>3. CASE run[g].todo # {}
    <3>1. SetItem(run[g].task, i, "running") /\ To(g, "call")
      BY <1>6, <2>3, NoFault DEF RunItem, i
    <3>2. /\ \A h \in Runners : h # g => run'[h] = run[h]
          /\ run'[g].pc = "call" /\ run'[g].task = run[g].task /\ run'[g].todo = run[g].todo
          /\ run'[g].won = run[g].won /\ run'[g].lost = run[g].lost
      BY <1>1, <3>1, ToDoes DEF Working, Looping
    <3>3. /\ \A t \in TaskIds : t # run[g].task => items'[t] = items[t]
          /\ DOMAIN items'[run[g].task] = DOMAIN its
          /\ \A k \in DOMAIN its : k # i => items'[run[g].task][k] = its[k]
      BY <1>5, <2>3, <3>1 DEF ItemStates
    <3>4. \A k \in DOMAIN its \ run[g].todo : items'[run[g].task][k] = its[k]
      BY <1>4, <2>3, <3>3
    <3>5. Progress(run'[g], items'[run[g].task])
      BY <1>3, <2>1, <3>2, <3>3, <3>4 DEF Progress, Some
    <3> QED
      BY <1>1, <3>2, <3>3, <3>5, HonestItem DEF Working, Looping
  <2> QED
    BY <2>2, <2>3
<1>7. CASE RunCall(g)
  <2>1. /\ \A h \in Runners : h # g => run'[h] = run[h]
        /\ run[g].pc = "call" /\ run'[g].task = run[g].task /\ run'[g].todo = run[g].todo
        /\ \/ run'[g].pc = "save" /\ run'[g].lost = run[g].lost
           \/ run'[g].pc = "bad" /\ run'[g].lost = TRUE /\ run'[g].won = run[g].won
    BY <1>7, CallDoes
  <2>2. items' = items
    BY <1>7 DEF RunCall, data
  <2>3. Progress(run'[g], its)
    BY <1>3, <2>1 DEF Progress
  <2> QED
    BY <1>1, <2>1, <2>2, <2>3, HonestItem DEF Working, Looping, its
<1>8. CASE RunSave(g)
  <2>1. run[g].pc = "save" /\ SetItem(run[g].task, i, "succeeded") /\ To(g, "point")
    BY <1>8, NoFault DEF RunSave, At, i
  <2>2. run[g].todo # {}
    BY <1>2, <2>1, InHand DEF Holds, its
  <2>3. /\ \A h \in Runners : h # g => run'[h] = run[h]
        /\ run'[g].pc = "point" /\ run'[g].task = run[g].task /\ run'[g].todo = run[g].todo
        /\ run'[g].won = run[g].won /\ run'[g].lost = run[g].lost
    BY <1>1, <2>1, ToDoes DEF Working, Looping
  <2>4. /\ \A t \in TaskIds : t # run[g].task => items'[t] = items[t]
        /\ DOMAIN items'[run[g].task] = DOMAIN its
        /\ \A k \in DOMAIN its : k # i => items'[run[g].task][k] = its[k]
        /\ items'[run[g].task][i].st = "succeeded"
    BY <1>5, <2>1, <2>2 DEF ItemStates
  <2>5. \A k \in DOMAIN its \ run[g].todo : items'[run[g].task][k] = its[k]
    BY <1>4, <2>2, <2>4
  <2>6. Progress(run'[g], items'[run[g].task])
    BY <1>3, <2>1, <2>3, <2>4, <2>5 DEF Progress, Some, i
  <2> QED
    BY <1>1, <2>3, <2>4, <2>6, HonestItem DEF Working, Looping
<1>9. CASE RunPoint(g)
  <2>1. run[g].pc = "point" /\ NextItem(g) /\ items' = items
    BY <1>9 DEF RunPoint, At
  <2>2. run[g].todo # {} /\ its[i].st = "succeeded"
    BY <1>2, <2>1, InHand DEF Holds, Progress, its, i
  <2>3. /\ \A h \in Runners : h # g => run'[h] = run[h]
        /\ run'[g].pc = "item" /\ run'[g].task = run[g].task /\ run'[g].todo = Others(run[g].todo)
        /\ run'[g].won = run[g].won /\ run'[g].lost = run[g].lost
    BY <1>1, <2>1, NextItemDoes
  <2>4. DOMAIN its \ Others(run[g].todo) = (DOMAIN its \ run[g].todo) \cup {i}
    BY <1>2, <1>4, <2>2 DEF Others, i
  <2>5. Progress(run'[g], its)
    BY <1>3, <2>1, <2>2, <2>3, <2>4 DEF Progress, Some
  <2> QED
    BY <1>1, <2>1, <2>3, <2>5, HonestItem DEF Working, Looping, its
<1>10. CASE RunBad(g)
  <2>1. run[g].pc = "bad" /\ SetItem(run[g].task, i, "failed") /\ NextItem(g)
    BY <1>10, NoFault DEF RunBad, At, i
  <2>2. run[g].todo # {} /\ run[g].lost
    BY <1>2, <2>1, InHand DEF Holds, Progress, its
  <2>3. /\ \A h \in Runners : h # g => run'[h] = run[h]
        /\ run'[g].pc = "item" /\ run'[g].task = run[g].task /\ run'[g].todo = Others(run[g].todo)
        /\ run'[g].won = run[g].won /\ run'[g].lost = run[g].lost
    BY <1>1, <2>1, NextItemDoes
  <2>4. DOMAIN its \ Others(run[g].todo) = (DOMAIN its \ run[g].todo) \cup {i}
    BY <1>2, <1>4, <2>2 DEF Others, i
  <2>5. /\ \A t \in TaskIds : t # run[g].task => items'[t] = items[t]
        /\ DOMAIN items'[run[g].task] = DOMAIN its
        /\ \A k \in DOMAIN its : k # i => items'[run[g].task][k] = its[k]
        /\ items'[run[g].task][i].st = "failed"
    BY <1>5, <2>1, <2>2 DEF ItemStates
  <2>6. \A k \in DOMAIN its \ run[g].todo : items'[run[g].task][k] = its[k]
    BY <1>4, <2>2, <2>5
  <2>7. Progress(run'[g], items'[run[g].task])
    BY <1>3, <2>1, <2>2, <2>3, <2>4, <2>5, <2>6 DEF Progress, Some
  <2> QED
    BY <1>1, <2>3, <2>5, <2>7, HonestItem DEF Working, Looping
<1> QED
  BY <1>6, <1>7, <1>8, <1>9, <1>10

LEMMA HonestStart ==
    ASSUME Shapes, Apart, Honest, mishaps \subseteq mishaps', NEW g \in Runners, RunStart(g) PROVE Honest'
<1>1. run[g].pc = "start" /\ run[g].task \in TaskIds /\ Exists(run[g].task) /\ UNCHANGED <<items, adm>>
      /\ Progress(run[g], items[run[g].task])
  BY InHand DEF RunStart, At, Honest
<1>2. CASE SetStatus(run[g].task, "running") /\ To(g, "domain")
  <2>1. /\ \A h \in Runners : h # g => run'[h] = run[h]
        /\ run'[g].pc = "domain" /\ run'[g].task = run[g].task /\ run'[g].lost = run[g].lost
    BY <1>1, <1>2, ToDoes DEF Working
  <2>2. /\ \A s \in TaskIds : s # run[g].task => tasks'[s] = tasks[s]
        /\ tasks'[run[g].task].status = "running"
    BY <1>1, <1>2, StatusSet DEF Shapes, Statuses
  <2>3. Progress(run'[g], items'[run[g].task])
    BY <1>1, <2>1 DEF Progress, Looping
  <2> QED
    BY <1>1, <2>1, <2>2, <2>3, HonestWork DEF Working
<1>3. CASE Become(g, Idle) /\ UNCHANGED tasks
  <2>1. run'[g].pc = "idle" /\ \A h \in Runners : h # g => run'[h] = run[h]
    BY <1>3, RunMoves, IdleIsIdle DEF Shapes
  <2> QED
    BY <1>1, <1>3, <2>1, HonestStill
<1> QED
  BY <1>2, <1>3 DEF RunStart

LEMMA HonestEnd ==
    ASSUME Shapes, Apart, Honest, mishaps \subseteq mishaps', Without({"db"})', NEW g \in Runners, RunFinish(g)
    PROVE  Honest'
<1>1. run[g].pc = "finish" /\ run[g].task \in TaskIds /\ Exists(run[g].task) /\ run[g].out \in Final
      /\ UNCHANGED <<items, adm>>
  BY InHand DEF RunFinish, At, Holds
<1>2. SetStatus(run[g].task, run[g].out) /\ To(g, "close")
  BY NoFault DEF RunFinish
<1>3. Told(run[g].out, items[run[g].task]) /\ Unfinished(run[g].task)
  BY <1>1 DEF Honest, Progress, Apart, Working
<1>4. /\ \A h \in Runners : h # g => run'[h] = run[h]
      /\ run'[g].pc = "close" /\ run'[g].task = run[g].task /\ run'[g].out = run[g].out
  BY <1>1, <1>2, ToDoes
<1>5. /\ \A s \in TaskIds : s # run[g].task => tasks'[s] = tasks[s]
      /\ tasks'[run[g].task].status = run[g].out
  BY <1>1, <1>2, StatusSet DEF Shapes, Statuses
<1>7. \A h \in Runners : run'[h].pc # "idle" => Progress(run'[h], items'[run'[h].task])
  <2> TAKE h \in Runners
  <2>1. CASE h = g
    BY <1>4, <2>1 DEF Progress, Looping
  <2>2. CASE h # g
    BY <1>1, <1>4, <2>2 DEF Honest
  <2> QED
    BY <2>1, <2>2
<1>8. \A t \in TaskIds : Answers(t)'
  <2> TAKE t \in TaskIds
  <2>1. CASE t = run[g].task
    BY <1>1, <1>3, <1>5, <2>1 DEF Answers
  <2>2. CASE t # run[g].task
    BY <1>1, <1>5, <2>2, AnswersOn DEF Honest
  <2> QED
    BY <2>1, <2>2
<1>9. ASSUME NEW h \in Runners, run'[h].pc = "close", run'[h].out = "succeeded"
      PROVE  \E t \in TaskIds : t = run'[h].task /\ Complete(t)'
  <2>1. CASE h = g
    <3>1. Whole(items[run[g].task])
      BY <1>3, <1>4, <1>9, <2>1 DEF Told, Whole
    <3> QED
      BY <1>1, <1>4, <1>5, <1>9, <2>1, <3>1 DEF Complete, Final
  <2>2. CASE h # g
    <3>1. run[h].task \in TaskIds /\ run[h].task # run[g].task /\ Complete(run[h].task) /\ run'[h] = run[h]
      BY <1>1, <1>4, <1>9, <2>2, InHand DEF Apart, Honest
    <3> QED
      BY <1>1, <1>5, <3>1, CompleteOn DEF Complete
  <2> QED
    BY <2>1, <2>2
<1>10. \A d \in Admins : Reckons(adm'[d], items'[adm'[d].task])
  BY <1>1 DEF Honest
<1> QED
  BY <1>7, <1>8, <1>9, <1>10, HonestAgain

LEMMA HonestRun ==
    ASSUME Shapes, Apart, Honest, mishaps \subseteq mishaps', Without({"db"})', NEW g \in Runners, RunStep(g)
    PROVE  Honest'
<1>1. CASE RunClose(g)
  <2>1. /\ \A h \in Runners : h # g => run'[h] = run[h]
        /\ run'[g].pc = "next" /\ UNCHANGED <<tasks, items, adm>>
    BY <1>1, ToDoes DEF RunClose, At, data
  <2> QED
    BY <2>1, HonestStill
<1>2. CASE RunNext(g)
  <2>1. UNCHANGED <<tasks, items, adm>>
    BY <1>2 DEF RunNext, data
  <2>2. CASE Pending # {} /\ Spawn(g, First(Pending))
    <3>1. /\ run'[g].pc = "start" /\ ~run'[g].lost
          /\ \A h \in Runners : h # g => run'[h] = run[h]
      BY <2>2, FirstPending, Starts, RunMoves DEF Spawn, Shapes
    <3> QED
      BY <2>1, <3>1, HonestStill
  <2>3. CASE Become(g, Idle)
    <3>1. run'[g].pc = "idle" /\ \A h \in Runners : h # g => run'[h] = run[h]
      BY <2>3, RunMoves, IdleIsIdle DEF Shapes
    <3> QED
      BY <2>1, <3>1, HonestStill
  <2> QED
    BY <1>2, <2>2, <2>3 DEF RunNext
<1> QED
  BY <1>1, <1>2, HonestStart, HonestSteps, HonestLoop, HonestEnd DEF RunStep

LEMMA HonestRestart ==
    ASSUME Shapes, Apart, Honest, mishaps \subseteq mishaps', Crash \/ BootStep
    PROVE  Honest'
<1>1. CASE Crash
  <2>1. UNCHANGED <<tasks, items>> /\ \A h \in Runners : run'[h].pc = "idle"
    BY <1>1, IdleIsIdle DEF Crash, data
  <2>2. \A d \in Admins : adm'[d] = Idle /\ (adm[d].pc \in {"call", "mark", "update"} => "torn" \in mishaps')
    BY <1>1 DEF Crash, HalfDone, Note, When
  <2>3. \A d \in Admins : Reckons(adm'[d], items[adm'[d].task])
                          /\ \A t \in TaskIds : Counting(d, t) => ~Without({"torn", "crossed"})'
    BY <2>2, IdleIsIdle DEF Reckons, Counting, Without
  <2> QED
    BY <2>1, <2>3, HonestStill
<1>2. CASE BootReset
  <2>1. /\ UNCHANGED <<items, run, adm>>
        /\ \A t \in TaskIds : \/ tasks'[t] = tasks[t]
                              \/ tasks[t].status = "running" /\ tasks'[t].status = "pending"
    BY <1>2, BootSteps
  <2>2. \A t \in TaskIds : /\ tasks'[t].status = "succeeded" <=> tasks[t].status = "succeeded"
                           /\ tasks'[t].status = "partial_failed" <=> tasks[t].status = "partial_failed"
    BY <2>1
  <2>3. \A t \in TaskIds : Answers(t)'
    <3> TAKE t \in TaskIds
    <3>1. CASE tasks'[t] = tasks[t]
      BY <2>1, <3>1, AnswersOn DEF Honest
    <3>2. CASE tasks[t].status = "running" /\ tasks'[t].status = "pending"
      BY <3>2 DEF Answers, Told
    <3> QED
      BY <2>1, <3>1, <3>2
  <2>4. ASSUME NEW h \in Runners, run'[h].pc = "close", run'[h].out = "succeeded"
        PROVE  \E t \in TaskIds : t = run'[h].task /\ Complete(t)'
    <3>1. run[h].task \in TaskIds /\ Complete(run[h].task) /\ run'[h] = run[h]
      BY <2>1, <2>4, InHand DEF Honest
    <3>2. tasks'[run[h].task] = tasks[run[h].task]
      BY <2>1, <3>1 DEF Complete, Final
    <3> QED
      BY <2>1, <3>1, <3>2, CompleteOn DEF Complete
  <2> QED
    BY <2>1, <2>3, <2>4, HonestAgain DEF Honest
<1>3. CASE BootList
  <2>1. UNCHANGED <<tasks, items, adm>>
    BY <1>3 DEF BootList, data
  <2>2. ASSUME NEW g \in Runners, Pending # {}, Spawn(g, First(Pending)) PROVE Honest'
    <3>1. /\ run'[g].pc = "start" /\ ~run'[g].lost
          /\ \A h \in Runners : h # g => run'[h] = run[h]
      BY <2>2, FirstPending, Starts, RunMoves DEF Spawn, Shapes
    <3> QED
      BY <2>1, <3>1, HonestStill
  <2>3. CASE UNCHANGED run
    BY <2>1, <2>3, HonestStill
  <2> QED
    BY <1>3, <2>2, <2>3 DEF BootList
<1> QED
  BY <1>1, <1>2, <1>3 DEF BootStep

\* What a retry's mark leaves of the items.
LEMMA Marked ==
    ASSUME Shapes, Apart, NEW d \in Admins, RetryMark(d)
    PROVE  /\ adm[d].task \in TaskIds /\ tasks[adm[d].task].status \in Final
           /\ \A t \in TaskIds : t # adm[d].task => items'[t] = items[t]
           /\ \A t \in TaskIds : DOMAIN items'[t] = DOMAIN items[t] /\ (items[t] = <<>> <=> items'[t] = <<>>)
           /\ \A t \in TaskIds : \A i \in DOMAIN items[t] :
                 items'[t][i].st = items[t][i].st \/ items'[t][i].st = "succeeded"
<1>1. adm[d].pc = "mark" /\ adm[d].todo # {} /\ items' \in [TaskIds -> Seq(Item)]
  BY MarkDone DEF Shapes, Typed
<1>2. adm[d].task \in TaskIds /\ tasks[adm[d].task].status \in Final /\ First(adm[d].todo) \in DOMAIN items[adm[d].task]
  BY <1>1, AdmThere DEF Apart, Retrying
<1>3. CASE UNCHANGED items
  BY <1>2, <1>3
<1>4. CASE SetItem(adm[d].task, First(adm[d].todo), "succeeded")
  <2>1. /\ \A t \in TaskIds : t # adm[d].task => items'[t] = items[t]
        /\ \A t \in TaskIds : DOMAIN items'[t] = DOMAIN items[t]
        /\ \A k \in DOMAIN items[adm[d].task] : k # First(adm[d].todo) => items'[adm[d].task][k] = items[adm[d].task][k]
        /\ items'[adm[d].task][First(adm[d].todo)].st = "succeeded"
    BY <1>2, <1>4, ItemSet DEF Shapes, ItemStates
  <2>2. \A t \in TaskIds : items[t] = <<>> <=> items'[t] = <<>>
    BY <1>1, <2>1, NoItems, Unmoved
  <2> QED
    BY <1>2, <2>1, <2>2
<1> QED
  BY <1>3, <1>4 DEF RetryMark

LEMMA HonestMark ==
    ASSUME Shapes, Apart, Honest, mishaps \subseteq mishaps', NEW d \in Admins, RetryMark(d)
    PROVE  Honest'
<1>1. UNCHANGED <<tasks, run>> /\ adm'[d].pc = "call" /\ adm'[d].task = adm[d].task /\ adm[d].pc = "mark"
      /\ \A e \in Admins : e # d => adm'[e] = adm[e]
  BY MarkDone
<1>2. adm[d].task \in TaskIds /\ tasks[adm[d].task].status \in Final
  BY Marked
<1>3. \A t \in TaskIds : t # adm[d].task => items'[t] = items[t]
  BY Marked
<1>4. \A h \in Runners : run'[h].pc # "idle" => Progress(run'[h], items'[run'[h].task])
  <2> SUFFICES ASSUME NEW h \in Runners, run[h].pc # "idle" PROVE Progress(run[h], items'[run[h].task])
    BY <1>1
  <2>1. run[h] \in Job /\ run[h].task \in TaskIds
    BY InHand
  <2>2. CASE run[h].pc \in Working
    <3>1. run[h].task # adm[d].task
      BY <1>2, <2>1, <2>2, UnfinishedThere DEF Apart
    <3> QED
      BY <1>3, <2>1, <3>1 DEF Honest
  <2>3. CASE run[h].pc \in {"close", "next"}
    BY <2>3 DEF Progress, Looping
  <2> QED
    BY <2>1, <2>2, <2>3 DEF Job
<1>5. \A t \in TaskIds : Answers(t)'
  <2> TAKE t \in TaskIds
  <2>1. CASE t = adm[d].task
    <3>1. CASE tasks[t].status = "succeeded"
      <4>1. \A i \in DOMAIN items[t] : items[t][i].st = "succeeded"
        BY <3>1 DEF Honest, Answers, Told
      <4>2. \A i \in DOMAIN items'[t] : items'[t][i].st = "succeeded"
        BY <4>1, Marked
      <4> QED
        BY <1>1, <3>1, <4>2 DEF Answers, Told
    <3>2. CASE tasks[t].status = "partial_failed"
      <4>1. Counting(d, t)'
        BY <1>1, <2>1 DEF Counting
      <4> QED
        BY <1>1, <3>2, <4>1 DEF Answers
    <3>3. CASE tasks[t].status \notin {"succeeded", "partial_failed"}
      BY <1>1, <3>3 DEF Answers, Told
    <3> QED
      BY <3>1, <3>2, <3>3
  <2>2. CASE t # adm[d].task
    <3>1. ~Counting(d, t)
      BY <2>2 DEF Counting
    <3>2. \A e \in Admins : adm'[e] = adm[e] \/ ~Counting(e, t)
      BY <1>1, <3>1
    <3> QED
      BY <1>1, <1>3, <2>2, <3>2, AnswersOn DEF Honest
  <2> QED
    BY <2>1, <2>2
<1>6. ASSUME NEW h \in Runners, run'[h].pc = "close", run'[h].out = "succeeded"
      PROVE  \E t \in TaskIds : t = run'[h].task /\ Complete(t)'
  <2>1. run'[h] = run[h] /\ run[h].task \in TaskIds /\ Complete(run[h].task)
    BY <1>1, <1>6, InHand DEF Honest
  <2>2. PICK t \in TaskIds : t = run[h].task
    BY <2>1
  <2>3. Complete(t)
    BY <2>1, <2>2
  <2>4. \A i \in DOMAIN items'[t] : items'[t][i].st = "succeeded"
    BY <2>3, Marked DEF Complete, Whole
  <2>5. tasks[t].status = "succeeded" \/ items'[t] # <<>>
    BY <2>3, Marked DEF Complete
  <2>6. Complete(t)'
    BY <1>1, <2>3, <2>4, <2>5 DEF Complete, Whole
  <2> QED
    BY <2>1, <2>2, <2>6
<1>7. \A e \in Admins : Reckons(adm'[e], items'[adm'[e].task])
  <2> TAKE e \in Admins
  <2>1. CASE e = d
    BY <1>1, <2>1 DEF Reckons
  <2>2. CASE e # d /\ adm[e].pc \in {"update", "close"}
    <3>1. adm'[e] = adm[e] /\ adm[e].task \in TaskIds /\ Reckons(adm[e], items[adm[e].task])
      BY <1>1, <2>2, AdmTask DEF Honest, Retrying
    <3> QED
      BY <3>1, Marked DEF Reckons, Whole
  <2>3. CASE e # d /\ adm[e].pc \notin {"update", "close"}
    BY <1>1, <2>3 DEF Reckons
  <2> QED
    BY <2>1, <2>2, <2>3
<1> QED
  BY <1>4, <1>5, <1>6, <1>7, HonestAgain

\* A count of items none of which waits.
LEMMA CountTells ==
    ASSUME NEW t \in TaskIds, \A i \in DOMAIN items[t] : items[t][i].st \in {"succeeded", "failed"}
    PROVE  Told(Counted(t), items[t])
BY DEF Told, Counted, Outcome, Some

LEMMA HonestCount ==
    ASSUME Shapes, Apart, Honest, mishaps \subseteq mishaps', Without({"db", "uncounted"})', NEW d \in Admins, RetryCount(d)
    PROVE  Honest'
<1>1. UNCHANGED <<tasks, items, run>> /\ adm[d].pc = "call" /\ \A e \in Admins : e # d => adm'[e] = adm[e]
  BY CountDone
<1>2. PICK t \in TaskIds : t = adm[d].task
  BY <1>1, AdmThere
<1>3. adm'[d] = [pc |-> "update", task |-> t, out |-> Counted(t)] /\ ~Untried(t)
  <2>1. ~SqlFails
    BY NoFault DEF Without
  <2> QED
    BY <1>2, <2>1, CountDone DEF Note, When, Without
<1>4. \A i \in DOMAIN items[t] : items[t][i].st \in {"succeeded", "failed"}
  <2> SUFFICES ASSUME NEW i \in DOMAIN items[t] PROVE items[t][i].st \in {"succeeded", "failed"}
    OBVIOUS
  <2>1. items[t][i] \in Item
    BY NoItems, Unmoved
  <2> QED
    BY <1>3, <2>1 DEF Item, ItemStates, Untried
<1>5. adm'[d].pc = "update" /\ adm'[d].task = t /\ adm'[d].out = Counted(t)
  BY <1>3
<1>6. Reckons(adm'[d], items[adm'[d].task])
  BY <1>4, <1>5, CountTells DEF Reckons, Told, Whole
<1>7. \A u \in TaskIds : Counting(d, u) => Counting(d, u)'
  BY <1>1, <1>2, <1>5 DEF Counting, Counted
<1> QED
  BY <1>1, <1>6, <1>7, HonestTurn

LEMMA HonestUpdate ==
    ASSUME Shapes, Apart, Honest, mishaps \subseteq mishaps', Without({"db"})', NEW d \in Admins, RetryUpdate(d)
    PROVE  Honest'
<1>1. UNCHANGED <<items, run>> /\ adm[d].pc = "update" /\ adm[d].out \in Final
      /\ \A e \in Admins : e # d => adm'[e] = adm[e]
  BY UpdateDone
<1>2. PICK u \in TaskIds : u = adm[d].task
  BY UpdateDone
<1>3. PICK out \in Final : out = adm[d].out
  BY <1>1
<1>4. Exists(u) /\ tasks[u].status \in Final
  BY <1>1, <1>2, UpdateDone DEF Apart, Retrying
<1>5. /\ SetStatus(u, out)
      /\ adm'[d] = [pc |-> "close", task |-> u, out |-> out]
      /\ Note(When(out # Counted(u) /\ ~\E e \in Admins : Counting(e, u), "crossed"))
  BY <1>2, <1>3, NoFault, UpdateDone
<1>6. adm'[d].pc = "close" /\ adm'[d].task = u /\ adm'[d].out = out
  BY <1>5
<1>7. /\ \A s \in TaskIds : s # u => tasks'[s] = tasks[s]
      /\ tasks'[u].status = out
  BY <1>4, <1>5, StatusSet DEF Shapes, Statuses
<1>8. /\ \A i \in DOMAIN items[u] : items[u][i].st \in {"succeeded", "failed"}
      /\ out = "succeeded" => Whole(items[u])
  BY <1>1, <1>2, <1>3 DEF Honest, Reckons
<1>9. \A t \in TaskIds : Answers(t)'
  <2> TAKE t \in TaskIds
  <2>1. CASE t = u /\ (out = Counted(u) \/ out # "partial_failed")
    <3>1. Told(out, items[u])
      <4>1. CASE out = Counted(u)
        BY <1>8, <4>1, CountTells
      <4>2. CASE out # "partial_failed"
        BY <1>8, <4>2 DEF Told, Whole
      <4> QED
        BY <2>1, <4>1, <4>2
    <3> QED
      BY <1>1, <1>7, <2>1, <3>1 DEF Answers
  <2>2. CASE t = u /\ out # Counted(u) /\ out = "partial_failed"
    <3>1. CASE \E e \in Admins : Counting(e, u)
      <4>1. PICK e \in Admins : Counting(e, u)
        BY <3>1
      <4>2. e # d
        BY <1>1, <1>3, <2>2, <4>1 DEF Counting
      <4>3. Counting(e, u)'
        BY <1>1, <4>1, <4>2, CountingOn
      <4> QED
        BY <1>7, <2>2, <4>3 DEF Answers
    <3>2. CASE ~\E e \in Admins : Counting(e, u)
      <4>1. ~Without({"torn", "crossed"})'
        BY <1>5, <2>2, <3>2 DEF Note, When, Without
      <4> QED
        BY <1>7, <2>2, <4>1 DEF Answers
    <3> QED
      BY <3>1, <3>2
  <2>3. CASE t # u
    <3>1. \A e \in Admins : adm'[e] = adm[e] \/ ~Counting(e, t)
      BY <1>1, <1>2, <2>3 DEF Counting
    <3> QED
      BY <1>1, <1>7, <2>3, <3>1, AnswersOn DEF Honest
  <2> QED
    BY <2>1, <2>2, <2>3
<1>10. ASSUME NEW h \in Runners, run'[h].pc = "close", run'[h].out = "succeeded"
       PROVE  \E t \in TaskIds : t = run'[h].task /\ Complete(t)'
  <2>1. run'[h] = run[h] /\ run[h].task \in TaskIds /\ Complete(run[h].task)
    BY <1>1, <1>10, InHand DEF Honest
  <2>2. items[u] # <<>>
    BY <1>1, <1>2 DEF Shapes, AdmOK, Bears
  <2>3. tasks'[run[h].task].status \in Final
        /\ (tasks'[run[h].task].status = tasks[run[h].task].status \/ items[run[h].task] # <<>>)
    BY <1>7, <2>1, <2>2 DEF Complete
  <2> QED
    BY <1>1, <2>1, <2>3, CompleteOn
<1>11. \A e \in Admins : Reckons(adm'[e], items'[adm'[e].task])
  <2> TAKE e \in Admins
  <2>1. CASE e = d
    BY <1>1, <1>6, <1>8, <2>1 DEF Reckons
  <2>2. CASE e # d
    BY <1>1, <2>2 DEF Honest
  <2> QED
    BY <2>1, <2>2
<1>12. \A h \in Runners : run'[h].pc # "idle" => Progress(run'[h], items'[run'[h].task])
  BY <1>1 DEF Honest
<1> QED
  BY <1>9, <1>10, <1>11, <1>12, HonestAgain

LEMMA HonestAdmin ==
    ASSUME Shapes, Apart, Honest, mishaps \subseteq mishaps', Without({"db", "uncounted"})', NEW d \in Admins, AdminStep(d)
    PROVE  Honest'
<1>1. ASSUME NEW t \in TaskIds, RetryBegin(d, t) PROVE Honest'
  <2>1. UNCHANGED <<tasks, items, run>> /\ adm[d].pc = "idle" /\ adm'[d].pc = "call"
        /\ \A e \in Admins : e # d => adm'[e] = adm[e]
    BY <1>1, RetryBeginShapes DEF RetryBegin
  <2> QED
    BY <2>1, HonestTurn DEF Reckons
<1>2. CASE RetryCall(d)
  <2>1. UNCHANGED <<tasks, items, run>> /\ adm'[d].pc \in {"call", "mark"} /\ adm'[d].task = adm[d].task
        /\ \A e \in Admins : e # d => adm'[e] = adm[e]
    BY <1>2, RetryCalled
  <2>2. \A t \in TaskIds : Counting(d, t) => Counting(d, t)'
    BY <2>1 DEF Counting
  <2> QED
    BY <2>1, <2>2, HonestTurn DEF Reckons
<1>3. CASE RetryClose(d) \/ CleanupDelete(d) \/ UpdateSave(d)
  <2>1. /\ UNCHANGED <<tasks, items, run>> /\ adm[d].pc \in {"close", "cleanup", "save"}
        /\ adm'[d].pc \in {"idle", "cleanup"} /\ \A e \in Admins : e # d => adm'[e] = adm[e]
    BY <1>3, RetryClosed, CleanupDone, UpdateSaved, IdleIsIdle
  <2> QED
    BY <2>1, HonestTurn DEF Reckons
<1>4. ASSUME NEW t \in TaskIds, CleanupBegin(d, t) PROVE Honest'
  <2>1. UNCHANGED <<tasks, items, run>> /\ adm[d].pc = "idle" /\ adm'[d].pc = "cleanup"
        /\ \A e \in Admins : e # d => adm'[e] = adm[e]
    BY <1>4, CleanupBeginShapes DEF CleanupBegin
  <2> QED
    BY <2>1, HonestTurn DEF Reckons
<1>5. ASSUME NEW home \in Accts, UpdateBegin(d, home) PROVE Honest'
  <2>1. UNCHANGED <<tasks, items, run>> /\ adm[d].pc = "idle" /\ adm'[d].pc = "save"
        /\ \A e \in Admins : e # d => adm'[e] = adm[e]
    BY <1>5, UpdateBegun DEF UpdateBegin
  <2> QED
    BY <2>1, HonestTurn DEF Reckons
<1>6. Without({"db"})'
  BY DEF Without
<1> QED
  BY <1>1, <1>2, <1>3, <1>4, <1>5, <1>6, HonestMark, HonestCount, HonestUpdate DEF AdminStep

LEMMA HonestCreate ==
    ASSUME Shapes, Honest, mishaps \subseteq mishaps', NEW dst \in Accts, NEW g \in Runners, CreateMigration(dst, g)
    PROVE  Honest'
<1>1. PICK t \in TaskIds :
         /\ ~Exists(t)
         /\ run'[g] = Starting(t) /\ \A h \in Runners : h # g => run'[h] = run[h]
         /\ tasks'[t].status = "pending"
         /\ \A s \in TaskIds : s # t => tasks'[s] = tasks[s]
  BY CreateMigrationShapes
<1>2. UNCHANGED <<items, adm>> /\ run'[g].pc = "start" /\ run'[g].task = t /\ ~run'[g].lost
  BY <1>1, Starts DEF CreateMigration
<1>3. \A h \in Runners : run'[h].pc # "idle" => Progress(run'[h], items'[run'[h].task])
  <2> TAKE h \in Runners
  <2>1. CASE h = g
    BY <1>2, <2>1 DEF Progress, Looping
  <2>2. CASE h # g
    BY <1>1, <1>2, <2>2 DEF Honest
  <2> QED
    BY <2>1, <2>2
<1>4. \A s \in TaskIds : Answers(s)'
  <2> TAKE s \in TaskIds
  <2>1. CASE s = t
    BY <1>1, <2>1 DEF Answers, Told
  <2>2. CASE s # t
    BY <1>1, <1>2, <2>2, AnswersOn DEF Honest
  <2> QED
    BY <2>1, <2>2
<1>5. ASSUME NEW h \in Runners, run'[h].pc = "close", run'[h].out = "succeeded"
      PROVE  \E u \in TaskIds : u = run'[h].task /\ Complete(u)'
  <2>1. h # g
    BY <1>2, <1>5
  <2>2. run'[h] = run[h] /\ run[h].task \in TaskIds /\ run[h].task # t /\ Complete(run[h].task)
    BY <1>1, <1>5, <2>1, InHand DEF Honest
  <2> QED
    BY <1>1, <1>2, <2>2, CompleteOn DEF Complete
<1>6. \A d \in Admins : Reckons(adm'[d], items'[adm'[d].task])
  BY <1>2 DEF Honest
<1> QED
  BY <1>3, <1>4, <1>5, <1>6, HonestAgain

LEMMA NextKeepsTruthful == ASSUME Shapes, Alone, Truthful, [Next]_vars PROVE Truthful'
<1> SUFFICES ASSUME Without({"db", "overlap", "uncounted"})' PROVE Honest'
  BY DEF Truthful
<1>1. Honest /\ Apart /\ mishaps \subseteq mishaps'
  <2>1. Without({"db", "overlap", "uncounted"})
    BY WithoutBefore
  <2> QED
    BY <2>1, NotesKept DEF Truthful, Alone, Without
<1>2. Without({"db"})' /\ Without({"db", "uncounted"})'
  BY DEF Without
<1>3. CASE UserStep \/ UNCHANGED vars
  <2>1. UNCHANGED <<tasks, items, run, adm>>
    BY <1>3, UserDone DEF vars, data
  <2> QED
    BY <1>1, <2>1, HonestStill
<1> QED
  BY <1>1, <1>2, <1>3, HonestRun, HonestRestart, HonestAdmin, HonestCreate DEF Next

LEMMA TruthfulAlways == Spec => []Truthful
<1>1. ASSUME Init PROVE Truthful
  <2>1. Honest
    BY <1>1, IdleIsIdle DEF Init, Honest, Answers, Told, Absent, Reckons
  <2> QED
    BY <2>1 DEF Truthful
<1> QED
  BY <1>1, ShapesAlways, AloneAlways, NextKeepsTruthful, PTL DEF Spec

-----------------------------------------------------------------------------
(* The fifth layer is inductive: first what is Fresh *)

\* Who touches what.
LEMMA RunLeaves ==
    ASSUME NEW g \in Runners, RunStep(g)
    PROVE  /\ UNCHANGED <<adm, usr>>
           /\ zone' = zone \/ RunCall(g)
           /\ rows' = rows \/ RunPoint(g)
           /\ items' = items \/ RunCreate(g) \/ RunItem(g) \/ RunSave(g) \/ RunBad(g)
           /\ dom' = dom \/ RunDomain(g) \/ RunClose(g)
           /\ tasks' = tasks \/ RunStart(g) \/ RunFinish(g)
<1>1. UNCHANGED <<adm, usr>>
  BY DEF RunStep, RunStart, RunDomain, RunLoad, RunCreate, RunReload, RunClient, RunItem, RunCall, RunSave, RunPoint,
         RunBad, RunFinish, RunClose, RunNext, data, provider
<1>2. zone' = zone \/ RunCall(g)
  BY DEF RunStep, RunStart, RunDomain, RunLoad, RunCreate, RunReload, RunClient, RunItem, RunSave, RunPoint,
         RunBad, RunFinish, RunClose, RunNext, data, provider
<1>3. rows' = rows \/ RunPoint(g)
  BY DEF RunStep, RunStart, RunDomain, RunLoad, RunCreate, RunReload, RunClient, RunItem, RunCall, RunSave,
         RunBad, RunFinish, RunClose, RunNext, data, provider
<1>4. items' = items \/ RunCreate(g) \/ RunItem(g) \/ RunSave(g) \/ RunBad(g)
  BY DEF RunStep, RunStart, RunDomain, RunLoad, RunReload, RunClient, RunCall, RunPoint,
         RunFinish, RunClose, RunNext, data, provider
<1>5. dom' = dom \/ RunDomain(g) \/ RunClose(g)
  BY DEF RunStep, RunStart, RunLoad, RunCreate, RunReload, RunClient, RunItem, RunCall, RunSave, RunPoint,
         RunBad, RunFinish, RunNext, data, provider
<1>6. tasks' = tasks \/ RunStart(g) \/ RunFinish(g)
  BY DEF RunStep, RunDomain, RunLoad, RunCreate, RunReload, RunClient, RunItem, RunCall, RunSave, RunPoint,
         RunBad, RunClose, RunNext, data, provider
<1> QED
  BY <1>1, <1>2, <1>3, <1>4, <1>5, <1>6

\* A goroutine ends, or stands for the next one.
LEMMA NextDoes ==
    ASSUME Shapes, NEW g \in Runners, RunNext(g)
    PROVE  /\ \A h \in Runners : h # g => run'[h] = run[h]
           /\ run[g].pc = "next" /\ run'[g].pc \in {"idle", "start"}
<1>1. CASE Pending # {} /\ Become(g, Starting(First(Pending)))
  BY <1>1, FirstPending, Starts, RunMoves DEF Shapes, RunNext, At
<1>2. CASE Become(g, Idle)
  BY <1>2, RunMoves, IdleIsIdle DEF Shapes, RunNext, At
<1> QED
  BY <1>1, <1>2 DEF RunNext, Spawn

\* The rows to be moved are those a goroutine has just read.
LEMMA LoadsOnly ==
    ASSUME Shapes, NEW g \in Runners, RunStep(g)
    PROVE  /\ \A h \in Runners : h # g => run'[h] = run[h]
           /\ run'[g].pc = "create" => RunLoad(g) /\ run'[g].snap = rows
<1>1. CASE RunNext(g)
  BY <1>1, NextDoes
<1>2. CASE ~RunNext(g)
  <2> DEFINE Goal == run'[g].pc = "create" => RunLoad(g) /\ run'[g].snap = rows
  <2>1. \A h \in Runners : h # g => run'[h] = run[h]
    BY <1>2, RunMotion
  <2>2. run[g].pc # "idle"
    BY <1>2, RunMotion
  <2>3. ASSUME Become(g, Idle) PROVE Goal
    BY <2>3, RunMoves, IdleIsIdle DEF Shapes
  <2>4. ASSUME NEW pc \in Working \cup {"close", "next"}, To(g, pc), pc # "create" PROVE Goal
    BY <2>2, <2>4, ToDoes
  <2>5. ASSUME NEW out \in Final, Finish(g, out) PROVE Goal
    BY <2>2, <2>5, FinishDoes
  <2>6. ASSUME NEW its \in {items[run[g].task], <<>>}, Become(g, Listed(g, its)) PROVE Goal
    BY <2>2, <2>6, ListedDoes
  <2> SUFFICES Goal
    BY <2>1
  <2> HIDE DEF Goal
  <2>7. CASE RunStart(g) \/ RunDomain(g)
    BY <2>3, <2>4, <2>7 DEF RunStart, RunDomain, Working
  <2>8. CASE RunLoad(g)
    <3>1. run[g].pc = "load"
      BY <2>8 DEF RunLoad, At
    <3>2. CASE Finish(g, "failed")
      BY <2>5, <3>2 DEF Final
    <3>3. CASE Become(g, [run[g] EXCEPT !.pc = "create", !.snap = rows])
      BY <2>8, <3>1, <3>3, LoadDoes DEF Goal
    <3> QED
      BY <2>6, <2>8, <3>2, <3>3 DEF RunLoad
  <2>9. CASE RunCreate(g) \/ RunReload(g) \/ RunClient(g)
    BY <2>4, <2>5, <2>6, <2>9 DEF RunCreate, RunReload, RunClient, Working, Looping, Final
  <2>10. CASE RunItem(g)
    <3>1. Outcome(run[g].won, run[g].lost) \in Final
      BY <2>10, InHand, OutcomeFinal DEF RunItem, At, Job
    <3> QED
      BY <2>4, <2>5, <2>10, <3>1 DEF RunItem, Working, Looping
  <2>11. CASE RunCall(g)
    BY <2>11, CallDoes DEF Goal
  <2>12. CASE RunSave(g) \/ RunFinish(g) \/ RunClose(g)
    BY <2>4, <2>12 DEF RunSave, RunFinish, RunClose, Working, Looping
  <2>13. CASE RunPoint(g) \/ RunBad(g)
    BY <2>2, <2>13, NextItemDoes DEF RunPoint, RunBad, Goal
  <2> QED
    BY <1>2, <2>1, <2>7, <2>8, <2>9, <2>10, <2>11, <2>12, <2>13 DEF RunStep, Goal
<1> QED
  BY <1>1, <1>2

\* Where no request of a user moves.
LEMMA FreshStill ==
    ASSUME Shapes, Shapes', Fresh,
           \A r \in Recs : rows'[r] = Never <=> rows[r] = Never,
           \A t \in TaskIds : \A i \in DOMAIN items'[t] :
              \/ i \in DOMAIN items[t] /\ items'[t][i].rec = items[t][i].rec
              \/ rows[items'[t][i].rec] # Never,
           \A h \in Runners : run'[h].pc = "create" => run'[h] = run[h] \/ run'[h].snap = rows,
           usr' = usr \/ usr'.pc = "idle",
           \A a \in Accts, r \in Recs : zone[a][r] # 0 /\ rows[r] = Never => zone'[a][r] = zone[a][r]
    PROVE  Fresh'
<1>1. \A r \in Recs : rows'[r] = Never =>
          /\ \A t \in TaskIds : \A i \in DOMAIN items'[t] : items'[t][i].rec # r
          /\ \A h \in Runners : run'[h].pc = "create" => run'[h].snap[r] <= 0
  <2> SUFFICES ASSUME NEW r \in Recs, rows[r] = Never
               PROVE  /\ \A t \in TaskIds : \A i \in DOMAIN items'[t] : items'[t][i].rec # r
                      /\ \A h \in Runners : run'[h].pc = "create" => run'[h].snap[r] <= 0
    OBVIOUS
  <2>1. \A h \in Runners : run[h].pc = "create" => run[h].snap[r] <= 0
    BY DEF Fresh
  <2>2. rows[r] <= 0
    BY DEF Never
  <2> QED
    BY <2>1, <2>2 DEF Fresh
<1>2. usr'.pc \in {"create", "row"} => usr' = usr /\ usr.rec \in Recs /\ usr.home \in Accts
  BY UsrThere
<1>3. usr'.pc = "create" => rows'[usr'.rec] = Never
  BY <1>2 DEF Fresh
<1>4. usr'.pc = "row" => \/ usr'.id = Deleted
                         \/ usr'.id > 0 /\ rows'[usr'.rec] = Never /\ zone'[usr'.home][usr'.rec] = usr'.id
  <2> SUFFICES ASSUME usr'.pc = "row", usr'.id # Deleted
               PROVE  usr'.id > 0 /\ rows'[usr'.rec] = Never /\ zone'[usr'.home][usr'.rec] = usr'.id
    OBVIOUS
  <2>1. usr.id > 0 /\ rows[usr.rec] = Never /\ zone[usr.home][usr.rec] = usr.id /\ usr' = usr
    BY <1>2 DEF Fresh
  <2>2. usr.id # 0
    BY <2>1
  <2> QED
    BY <1>2, <2>1, <2>2
<1> QED
  BY <1>1, <1>3, <1>4 DEF Fresh

\* Items are added by RunCreate, and succeed by RunSave.
LEMMA ItemsMove ==
    ASSUME Shapes, NEW g \in Runners, RunStep(g), NEW t \in TaskIds
    PROVE  /\ t # run[g].task => items'[t] = items[t]
           /\ DOMAIN items[t] \subseteq DOMAIN items'[t]
           /\ \A i \in DOMAIN items[t] :
                 /\ items'[t][i].rec = items[t][i].rec
                 /\ items'[t][i].st = "succeeded" =>
                       \/ items[t][i].st = "succeeded"
                       \/ RunSave(g) /\ t = run[g].task /\ i = First(run[g].todo)
           /\ \A i \in DOMAIN items'[t] :
                 \/ i \in DOMAIN items[t]
                 \/ /\ RunCreate(g) /\ t = run[g].task /\ items'[t][i].st = "pending"
                    /\ items'[t][i].rec \in Recs /\ run[g].snap[items'[t][i].rec] > 0
<1> DEFINE u == run[g].task
           Goal == /\ t # u => items'[t] = items[t]
                   /\ DOMAIN items[t] \subseteq DOMAIN items'[t]
                   /\ \A i \in DOMAIN items[t] :
                         /\ items'[t][i].rec = items[t][i].rec
                         /\ items'[t][i].st = "succeeded" =>
                               \/ items[t][i].st = "succeeded"
                               \/ RunSave(g) /\ t = u /\ i = First(run[g].todo)
                   /\ \A i \in DOMAIN items'[t] :
                         \/ i \in DOMAIN items[t]
                         \/ /\ RunCreate(g) /\ t = u /\ items'[t][i].st = "pending"
                            /\ items'[t][i].rec \in Recs /\ run[g].snap[items'[t][i].rec] > 0
<1>1. items' = items => Goal
  OBVIOUS
<1>2. ASSUME run[g].pc # "idle", NEW i \in DOMAIN items[u], NEW st \in ItemStates, SetItem(u, i, st),
             st = "succeeded" => RunSave(g) /\ i = First(run[g].todo)
      PROVE  Goal
  <2>1. u \in TaskIds
    BY <1>2, InHand
  <2>2. /\ \A s \in TaskIds : s # u => items'[s] = items[s]
        /\ \A s \in TaskIds : DOMAIN items'[s] = DOMAIN items[s]
        /\ \A s \in TaskIds : \A k \in DOMAIN items[s] : items'[s][k].rec = items[s][k].rec
        /\ \A k \in DOMAIN items[u] : k # i => items'[u][k] = items[u][k]
        /\ items'[u][i].st = st
    BY <1>2, <2>1, ItemSet DEF Shapes
  <2> QED
    BY <1>2, <2>1, <2>2
<1>3. CASE RunItem(g)
  <2>1. run[g].pc = "item" /\ run[g].todo \subseteq DOMAIN items[u] /\ run[g].todo \in SUBSET Nat
    BY <1>3, InHand DEF RunItem, At, Holds
  <2>2. run[g].todo # {} => First(run[g].todo) \in DOMAIN items[u]
    BY <2>1, Least
  <2> QED
    BY <1>1, <1>2, <1>3, <2>1, <2>2 DEF RunItem, ItemStates
<1>4. CASE RunSave(g) \/ RunBad(g)
  <2>1. run[g].pc \in {"save", "bad"} /\ First(run[g].todo) \in DOMAIN items[u]
    BY <1>4, InHand DEF RunSave, RunBad, At
  <2> QED
    BY <1>1, <1>2, <1>4, <2>1 DEF RunSave, RunBad, ItemStates
<1>5. CASE RunCreate(g)
  <2>1. run[g].pc = "create" /\ run[g] \in Job /\ u \in TaskIds /\ items[u] \in Seq(Item)
    BY <1>5, InHand DEF RunCreate, At
  <2>2. CASE items' = [items EXCEPT ![u] = @ \o NewItems(run[g].snap)]
    <3> DEFINE fresh == NewItems(run[g].snap)
               new == items[u] \o fresh
    <3>1. fresh \in Seq(Item) /\ \A i \in DOMAIN fresh : run[g].snap[fresh[i].rec] > 0 /\ fresh[i].st = "pending"
      BY <2>1, ItemsMade DEF Job
    <3>2. \A i \in DOMAIN fresh : fresh[i] \in Item /\ fresh[i].rec \in Recs
      BY <3>1, NoItems DEF Item
    <3>3. items' = [items EXCEPT ![u] = new]
      BY <2>2
    <3> HIDE DEF fresh
    <3>4. /\ new \in Seq(Item) /\ DOMAIN items[u] \subseteq DOMAIN new /\ \A i \in DOMAIN items[u] : new[i] = items[u][i]
          /\ \A i \in DOMAIN new : i \in DOMAIN items[u] \/ \E k \in DOMAIN fresh : new[i] = fresh[k]
      BY <2>1, <3>1, Joined
    <3> HIDE DEF new
    <3>5. items'[u] = new /\ \A s \in TaskIds : s # u => items'[s] = items[s]
      BY <2>1, <3>3, Unmoved
    <3>6. CASE t = u
      BY <1>5, <3>1, <3>2, <3>4, <3>5, <3>6
    <3>7. CASE t # u
      BY <3>5, <3>7
    <3> QED
      BY <3>6, <3>7
  <2> QED
    BY <1>1, <1>5, <2>2 DEF RunCreate
<1> QED
  BY <1>1, <1>3, <1>4, <1>5, RunLeaves

\* A row that exists gets an id that exists.
LEMMA RowsPointed ==
    ASSUME Shapes, NEW r \in Recs, NEW id \in 1..MaxIds, rows' = Repointed(r, id)
    PROVE  /\ \A s \in Recs : s # r => rows'[s] = rows[s]
           /\ r \in Present => rows'[r] = id
           /\ \A s \in Recs : (rows'[s] = Never <=> rows[s] = Never) /\ (rows'[s] > 0 <=> rows[s] > 0)
<1>1. /\ \A s \in Recs : s # r => rows'[s] = rows[s]
      /\ r \in Present => rows'[r] = id
      /\ r \notin Present => rows'[r] = rows[r]
  BY PointDoes DEF Shapes
<1>2. (rows'[r] = Never <=> rows[r] = Never) /\ (rows'[r] > 0 <=> rows[r] > 0)
  <2>1. CASE r \in Present
    BY <1>1, <2>1 DEF Present, Never
  <2>2. CASE r \notin Present
    BY <1>1, <2>2
  <2> QED
    BY <2>1, <2>2
<1> QED
  BY <1>1, <1>2

LEMMA Pointed ==
    ASSUME Shapes, NEW g \in Runners, RunPoint(g)
    PROVE  /\ run[g].pc = "point" /\ Current(g).rec \in Recs /\ run[g].id \in 1..MaxIds
           /\ rows' = Repointed(Current(g).rec, run[g].id) \/ (SqlFails /\ rows' = rows)
           /\ NextItem(g) /\ UNCHANGED <<dom, tasks, items, zone>>
<1>1. run[g].pc = "point" /\ run[g] \in Job /\ Holds(run[g], items[run[g].task]) /\ Current(g) \in Item
  BY InHand DEF RunPoint, At
<1>2. run[g].id \in 1..MaxIds
  BY <1>1 DEF Holds, Job
<1>3. Current(g).rec \in Recs
  BY <1>1 DEF Item
<1>4. rows' = Repointed(Current(g).rec, run[g].id) \/ (SqlFails /\ rows' = rows)
  BY DEF RunPoint
<1>5. NextItem(g) /\ UNCHANGED <<dom, tasks, items, zone>>
  BY DEF RunPoint, provider
<1> QED
  BY <1>1, <1>2, <1>3, <1>4, <1>5

\* What a call creates disturbs nothing that is there.
LEMMA Called ==
    ASSUME Shapes, NEW g \in Runners, RunCall(g)
    PROVE  \A a \in Accts, r \in Recs : zone[a][r] # 0 => zone'[a][r] = zone[a][r]
<1>1. TaskOf(g).dst \in Accts /\ Current(g).rec \in Recs
      /\ (Put(TaskOf(g).dst, Current(g).rec) \/ UNCHANGED provider)
  BY CallDoes
<1> QED
  BY <1>1, PutDoes DEF Shapes, provider

LEMMA RunFresh == ASSUME Shapes, Fresh, NEW g \in Runners, RunStep(g) PROVE Fresh'
<1>1. Shapes' /\ usr' = usr
  BY RunStepShapes, RunLeaves
<1>2. \A r \in Recs : rows'[r] = Never <=> rows[r] = Never
  <2>1. CASE RunPoint(g)
    BY <2>1, Pointed, RowsPointed
  <2> QED
    BY <2>1, RunLeaves
<1>3. \A t \in TaskIds : \A i \in DOMAIN items'[t] :
         \/ i \in DOMAIN items[t] /\ items'[t][i].rec = items[t][i].rec
         \/ rows[items'[t][i].rec] # Never
  <2> TAKE t \in TaskIds
  <2> TAKE i \in DOMAIN items'[t]
  <2>1. CASE i \in DOMAIN items[t]
    BY <2>1, ItemsMove
  <2>2. CASE i \notin DOMAIN items[t]
    <3>1. RunCreate(g) /\ items'[t][i].rec \in Recs /\ run[g].snap[items'[t][i].rec] > 0
      BY <2>2, ItemsMove
    <3>2. run[g].pc = "create"
      BY <3>1 DEF RunCreate, At
    <3>3. ~(run[g].snap[items'[t][i].rec] <= 0)
      <4>1. run[g].snap[items'[t][i].rec] \in Deleted..MaxIds
        BY <3>1, <3>2, InHand DEF Job, Rows
      <4> QED
        BY <3>1, <4>1, Constants DEF Deleted
    <3> QED
      BY <3>1, <3>2, <3>3 DEF Fresh
  <2> QED
    BY <2>1, <2>2
<1>4. \A h \in Runners : run'[h].pc = "create" => run'[h] = run[h] \/ run'[h].snap = rows
  BY LoadsOnly
<1>5. \A a \in Accts, r \in Recs : zone[a][r] # 0 /\ rows[r] = Never => zone'[a][r] = zone[a][r]
  <2>1. CASE RunCall(g)
    BY <2>1, Called
  <2> QED
    BY <2>1, RunLeaves
<1> QED
  BY <1>1, <1>2, <1>3, <1>4, <1>5, FreshStill

LEMMA MarkDoes ==
    ASSUME Shapes, NEW d \in Admins, RetryMark(d)
    PROVE  /\ Retried(d) \in Recs /\ adm[d].id \in 1..MaxIds /\ adm[d].task \in TaskIds /\ adm[d].pc = "mark"
           /\ rows' = Repointed(Retried(d), adm[d].id) \/ (SqlFails /\ rows' = rows)
           /\ \A t \in TaskIds :
                 /\ DOMAIN items'[t] = DOMAIN items[t]
                 /\ \A i \in DOMAIN items[t] :
                       /\ items'[t][i].rec = items[t][i].rec
                       /\ items'[t][i].st = "succeeded" =>
                             items[t][i].st = "succeeded" \/ (t = adm[d].task /\ i = First(adm[d].todo))
<1>1. adm[d].pc = "mark" /\ adm[d].todo # {} /\ adm[d].id \in 1..MaxIds
  BY MarkDone
<1>2. adm[d].task \in TaskIds /\ First(adm[d].todo) \in DOMAIN items[adm[d].task] /\ Retried(d) \in Recs
  BY <1>1, AdmThere
<1>3. rows' = Repointed(Retried(d), adm[d].id) \/ (SqlFails /\ rows' = rows)
  BY DEF RetryMark
<1>4. SetItem(adm[d].task, First(adm[d].todo), "succeeded") \/ items' = items
  BY DEF RetryMark
<1> QED
  BY <1>1, <1>2, <1>3, <1>4, ItemSet DEF Shapes, ItemStates

LEMMA AdminLeaves ==
    ASSUME Shapes, NEW d \in Admins, AdminStep(d)
    PROVE  /\ UNCHANGED <<run, usr>>
           /\ \A e \in Admins : e # d => adm'[e] = adm[e]
           /\ zone' = zone \/ RetryCall(d) \/ CleanupDelete(d)
           /\ rows' = rows \/ RetryMark(d)
           /\ items' = items \/ RetryMark(d)
           /\ dom' = dom \/ RetryClose(d) \/ UpdateSave(d)
           /\ tasks' = tasks \/ RetryUpdate(d)
           /\ adm'[d].pc = "mark" => RetryCall(d)
<1>1. CASE RetryCall(d) \/ RetryMark(d)
  BY <1>1, RetryCalled, MarkDone
<1>2. CASE RetryCount(d)
  <2>1. adm'[d].pc # "mark"
    <3>1. CASE adm'[d] = [pc |-> "update", task |-> adm[d].task, out |-> Counted(adm[d].task)]
      BY <3>1
    <3>2. CASE adm'[d] = Idle
      BY <3>2, IdleIsIdle
    <3> QED
      BY <1>2, <3>1, <3>2, CountDone
  <2> QED
    BY <1>2, <2>1, CountDone
<1>3. CASE RetryUpdate(d)
  <2>1. adm'[d].pc # "mark"
    <3>1. CASE adm'[d] = [pc |-> "close", task |-> adm[d].task, out |-> adm[d].out]
      BY <3>1
    <3>2. CASE adm'[d] = Idle
      BY <3>2, IdleIsIdle
    <3> QED
      BY <1>3, <3>1, <3>2, UpdateDone
  <2> QED
    BY <1>3, <2>1, UpdateDone
<1>4. CASE RetryClose(d) \/ UpdateSave(d)
  BY <1>4, RetryClosed, UpdateSaved, IdleIsIdle
<1>5. CASE CleanupDelete(d)
  BY <1>5, CleanupDone
<1>6. ASSUME NEW t \in TaskIds, RetryBegin(d, t) \/ CleanupBegin(d, t)
      PROVE  UNCHANGED <<dom, tasks, items, rows, zone, run, usr>> /\ adm'[d].pc # "mark" /\ \A e \in Admins : e # d => adm'[e] = adm[e]
  <2>1. CASE RetryBegin(d, t)
    <3>1. PICK S : S = Failed(t)
      OBVIOUS
    <3>2. adm'[d] = [pc |-> "call", task |-> t, todo |-> S, id |-> 0]
      BY <2>1, <3>1, RetryBeginShapes
    <3>3. adm'[d].pc = "call"
      BY <3>2
    <3> QED
      BY <2>1, <3>3, RetryBeginShapes
  <2>2. CASE CleanupBegin(d, t)
    BY <2>2, CleanupBeginShapes
  <2> QED
    BY <1>6, <2>1, <2>2
<1>7. ASSUME NEW home \in Accts, UpdateBegin(d, home)
      PROVE  UNCHANGED <<dom, tasks, items, rows, zone, run, usr>> /\ adm'[d].pc # "mark" /\ \A e \in Admins : e # d => adm'[e] = adm[e]
  BY <1>7, UpdateBegun
<1> QED
  BY <1>1, <1>2, <1>3, <1>4, <1>5, <1>6, <1>7 DEF AdminStep

LEMMA CallAdds ==
    ASSUME Shapes, NEW d \in Admins, RetryCall(d)
    PROVE  \A a \in Accts, r \in Recs : zone[a][r] # 0 => zone'[a][r] = zone[a][r]
<1>1. adm[d].pc = "call" /\ adm[d].todo # {} /\ (Put(tasks[adm[d].task].dst, Retried(d)) \/ UNCHANGED zone)
  BY RetryCalled
<1>2. tasks[adm[d].task].dst \in Accts /\ Retried(d) \in Recs
  BY <1>1, AdmThere, TaskThere DEF Shapes
<1> QED
  BY <1>1, <1>2, PutDoes DEF Shapes

\* A record without a row is in no item, so no cleanup takes it out.
LEMMA CleanupSpares ==
    ASSUME Shapes, Fresh, NEW d \in Admins, CleanupDelete(d), NEW a \in Accts, NEW r \in Recs, rows[r] = Never
    PROVE  zone'[a][r] = zone[a][r]
<1>1. adm[d].task \in TaskIds /\ First(adm[d].todo) \in DOMAIN items[adm[d].task]
      /\ \A b \in Accts, s \in Recs :
            b # tasks[adm[d].task].src \/ s # items[adm[d].task][First(adm[d].todo)].rec => zone'[b][s] = zone[b][s]
  BY CleanupDone
<1>2. items[adm[d].task][First(adm[d].todo)].rec # r
  BY <1>1 DEF Fresh
<1> QED
  BY <1>1, <1>2

LEMMA AdminFresh == ASSUME Shapes, Fresh, NEW d \in Admins, AdminStep(d) PROVE Fresh'
<1>1. Shapes' /\ run' = run /\ usr' = usr
  BY AdminShapes, AdminLeaves
<1>2. \A r \in Recs : rows'[r] = Never <=> rows[r] = Never
  <2>1. CASE RetryMark(d)
    BY <2>1, MarkDoes, RowsPointed
  <2> QED
    BY <2>1, AdminLeaves
<1>3. \A t \in TaskIds : \A i \in DOMAIN items'[t] : i \in DOMAIN items[t] /\ items'[t][i].rec = items[t][i].rec
  <2>1. CASE RetryMark(d)
    BY <2>1, MarkDoes
  <2> QED
    BY <2>1, AdminLeaves
<1>4. \A a \in Accts, r \in Recs : zone[a][r] # 0 /\ rows[r] = Never => zone'[a][r] = zone[a][r]
  <2>1. CASE RetryCall(d)
    BY <2>1, CallAdds
  <2>2. CASE CleanupDelete(d)
    BY <2>2, CleanupSpares
  <2> QED
    BY <2>1, <2>2, AdminLeaves
<1> QED
  BY <1>1, <1>2, <1>3, <1>4, FreshStill

LEMMA RowWritten ==
    ASSUME Shapes, Fresh, UsrRow
    PROVE  /\ usr.pc = "row" /\ usr.rec \in Recs /\ usr.home \in Accts /\ rows'[usr.rec] = usr.id /\ usr' = Idle
           /\ \A r \in Recs : r # usr.rec => rows'[r] = rows[r]
           /\ UNCHANGED <<dom, tasks, items, zone, run, adm>>
           /\ usr.id = Deleted \/ (usr.id > 0 /\ rows[usr.rec] = Never /\ zone[usr.home][usr.rec] = usr.id)
<1>1. usr.pc = "row" /\ rows' = [rows EXCEPT ![usr.rec] = usr.id] /\ usr' = Idle
      /\ UNCHANGED <<dom, tasks, items, zone, run, adm>>
  BY DEF UsrRow, provider
<1>2. usr.rec \in Recs /\ usr.home \in Accts
  BY <1>1, UsrThere
<1>3. rows'[usr.rec] = usr.id /\ \A r \in Recs : r # usr.rec => rows'[r] = rows[r]
  BY <1>1, <1>2, Unmoved DEF Rows
<1>4. usr.id = Deleted \/ (usr.id > 0 /\ rows[usr.rec] = Never /\ zone[usr.home][usr.rec] = usr.id)
  BY <1>1 DEF Fresh
<1> QED
  BY <1>1, <1>2, <1>3, <1>4

LEMMA UserFresh == ASSUME Shapes, Fresh, UserStep PROVE Fresh'
<1>1. Shapes' /\ UNCHANGED <<items, run>>
  BY UserDone
<1>2. ASSUME UNCHANGED rows,
             usr'.pc = "create" => rows[usr'.rec] = Never,
             usr'.pc = "row" =>
                \/ usr'.id = Deleted
                \/ usr'.id > 0 /\ rows[usr'.rec] = Never /\ zone'[usr'.home][usr'.rec] = usr'.id
      PROVE  Fresh'
  BY <1>1, <1>2 DEF Fresh
<1>3. CASE usr.pc = "idle" /\ UNCHANGED <<rows, zone>> /\ ((usr'.pc = "create" /\ rows[usr'.rec] = Never) \/ usr'.pc = "delete")
  BY <1>2, <1>3
<1>4. CASE /\ usr.pc = "create" /\ usr'.pc = "row" /\ usr'.rec = usr.rec /\ usr'.home = usr.home /\ usr'.id > 0
           /\ Put(usr.home, usr.rec) /\ usr'.id = IdAt(usr.home, usr.rec) /\ UNCHANGED rows
  <2>1. usr.rec \in Recs /\ usr.home \in Accts /\ rows[usr.rec] = Never
    BY <1>4, UsrThere DEF Fresh
  <2>2. zone'[usr.home][usr.rec] = IdAt(usr.home, usr.rec)
    BY <1>4, <2>1, PutDoes DEF Shapes
  <2> QED
    BY <1>2, <1>4, <2>1, <2>2
<1>5. CASE usr'.pc \in {"look", "row"} /\ (usr'.pc = "row" => usr'.id = Deleted) /\ UNCHANGED rows
  BY <1>2, <1>5
<1>6. CASE UsrRow
  <2>1. /\ usr.rec \in Recs /\ rows'[usr.rec] = usr.id /\ usr'.pc = "idle"
        /\ \A r \in Recs : r # usr.rec => rows'[r] = rows[r]
        /\ usr.id = Deleted \/ usr.id > 0
    BY <1>6, RowWritten, IdleIsIdle
  <2>2. \A r \in Recs : rows'[r] = Never => rows[r] = Never
    BY <2>1 DEF Never, Deleted
  <2> QED
    BY <1>1, <2>1, <2>2 DEF Fresh
<1> QED
  BY <1>3, <1>4, <1>5, <1>6, UserDone

LEMMA RestFresh ==
    ASSUME Shapes, Fresh,
           Crash \/ BootStep \/ UNCHANGED vars \/ \E dst \in Accts, g \in Runners : CreateMigration(dst, g)
    PROVE  Fresh'
<1>1. ASSUME Shapes', UNCHANGED <<items, rows, zone>>, usr' = usr \/ usr'.pc = "idle",
             \A h \in Runners : run'[h].pc = "create" => run'[h] = run[h]
      PROVE  Fresh'
  BY <1>1, FreshStill
<1>2. CASE Crash
  BY <1>1, <1>2, CrashShapes, IdleIsIdle DEF Crash, data, provider
<1>3. CASE BootReset
  BY <1>1, <1>3, BootSteps
<1>4. CASE BootList
  <2>1. Shapes' /\ UNCHANGED <<items, rows, zone, usr>>
    BY <1>4, ListShapes DEF BootList, data, provider
  <2>2. ASSUME NEW g \in Runners, Pending # {}, Spawn(g, First(Pending))
        PROVE  \A h \in Runners : run'[h].pc = "create" => run'[h] = run[h]
    BY <2>2, FirstPending, Starts, RunMoves DEF Spawn, Shapes
  <2> QED
    BY <1>1, <1>4, <2>1, <2>2 DEF BootList
<1>5. ASSUME NEW dst \in Accts, NEW g \in Runners, CreateMigration(dst, g) PROVE Fresh'
  <2>1. UNCHANGED <<items, rows, zone, usr>>
    BY <1>5 DEF CreateMigration, provider
  <2>2. \A h \in Runners : run'[h].pc = "create" => run'[h] = run[h]
    BY <1>5, CreateMigrationShapes, Starts
  <2> QED
    BY <1>1, <1>5, <2>1, <2>2, CreateMigrationShapes
<1>6. CASE UNCHANGED vars
  BY <1>1, <1>6, StutterShapes DEF vars, data, provider
<1> QED
  BY <1>2, <1>3, <1>4, <1>5, <1>6 DEF BootStep

LEMMA NextKeepsFresh == ASSUME Shapes, Fresh, [Next]_vars PROVE Fresh'
BY RunFresh, AdminFresh, UserFresh, RestFresh DEF Next

LEMMA FreshAlways == Spec => []Fresh
<1>1. ASSUME Init PROVE Fresh
  BY <1>1, IdleIsIdle DEF Init, Fresh
<1> QED
  BY <1>1, ShapesAlways, NextKeepsFresh, PTL DEF Spec

-----------------------------------------------------------------------------
(* The fifth layer is inductive: the domain's row *)

LEMMA OneNewest == ASSUME NEW s \in TaskIds, NEW t \in TaskIds, Newest(s), Newest(t) PROVE s = t
BY Constants DEF Newest, Superseded

\* Working is for the newest task.
LEMMA AtNewest ==
    ASSUME Shapes, Apart, NEW g \in Runners, run[g].pc \in Working
    PROVE  run[g].task \in TaskIds /\ Newest(run[g].task) /\ Unfinished(run[g].task)
BY InHand, UnfinishedThere DEF Apart, Newest, Working, Looping

LEMMA NewestStill ==
    ASSUME Shapes, Apart, [Next]_vars, ~\E dst \in Accts, g \in Runners : CreateMigration(dst, g), NEW t \in TaskIds
    PROVE  /\ Newest(t)' <=> Newest(t)
           /\ Superseded(t)' <=> Superseded(t)
           /\ Exists(t) => tasks'[t].dst = tasks[t].dst
<1>1. \A s \in TaskIds : /\ tasks'[s].status # "none" <=> Exists(s)
                         /\ Exists(s) => tasks'[s].dst = tasks[s].dst
  BY TaskMoves
<1> QED
  BY <1>1 DEF Newest, Superseded, Exists

\* How a task comes to have succeeded: by its goroutine, or by a retry of items.
LEMMA Succeeding ==
    ASSUME Shapes, [Next]_vars, NEW t \in TaskIds,
           tasks'[t].status = "succeeded", tasks[t].status # "succeeded"
    PROVE  \/ \E g \in Runners : RunFinish(g) /\ t = run[g].task /\ run[g].out = "succeeded"
           \/ items[t] # <<>>
<1>1. tasks' # tasks
  OBVIOUS
<1>2. ASSUME NEW s \in TaskIds, Exists(s), NEW st \in Statuses, SetStatus(s, st) PROVE s = t /\ st = "succeeded"
  BY <1>2, StatusSet DEF Shapes
<1>3. ASSUME NEW g \in Runners, RunStep(g)
      PROVE  RunFinish(g) /\ t = run[g].task /\ run[g].out = "succeeded"
  <2>1. CASE RunStart(g)
    <3>1. run[g].task \in TaskIds /\ Exists(run[g].task)
      BY <2>1, InHand DEF RunStart, At
    <3> QED
      BY <1>1, <1>2, <2>1, <3>1 DEF RunStart, Statuses
  <2>2. CASE RunFinish(g)
    <3>1. run[g].task \in TaskIds /\ Exists(run[g].task) /\ run[g].out \in Final
      BY <2>2, InHand DEF RunFinish, At, Holds
    <3> QED
      BY <1>1, <1>2, <2>2, <3>1 DEF RunFinish, Statuses
  <2> QED
    BY <1>1, <1>3, <2>1, <2>2, RunLeaves
<1>4. ASSUME NEW d \in Admins, AdminStep(d) PROVE items[t] # <<>>
  <2>1. RetryUpdate(d)
    BY <1>1, <1>4, AdminLeaves
  <2>2. adm[d].pc = "update" /\ adm[d].task \in TaskIds /\ Exists(adm[d].task) /\ adm[d].out \in Statuses
    BY <2>1, UpdateDone DEF Statuses
  <2>3. SetStatus(adm[d].task, adm[d].out)
    BY <1>1, <2>1, UpdateDone
  <2>4. adm[d].task = t
    BY <1>2, <2>2, <2>3
  <2> QED
    BY <2>2, <2>4 DEF Shapes, AdmOK, Bears
<1>5. ~BootStep
  <2>1. ~BootReset
    BY BootSteps
  <2> QED
    BY <1>1, <2>1 DEF BootStep, BootList, data
<1>6. ~\E dst \in Accts, g \in Runners : CreateMigration(dst, g)
  BY CreateMigrationShapes
<1>7. ~Crash /\ ~UserStep /\ ~UNCHANGED vars
  BY <1>1, UserDone DEF Crash, vars, data
<1> QED
  BY <1>3, <1>4, <1>5, <1>6, <1>7 DEF Next

\* What is complete stays so: only a retry touches it.
LEMMA CompleteStays ==
    ASSUME Shapes, Apart, [Next]_vars, NEW t \in TaskIds, Complete(t)
    PROVE  Complete(t)'
<1>1. tasks'[t].status \in Final
  BY TaskMoves DEF Complete
<1>2. \A h \in Runners : run[h].pc \in Working => run[h].task # t
  BY AtNewest, UnfinishedThere DEF Complete
<1>3. tasks' = tasks /\ items'[t] = items[t] => Complete(t)'
  BY CompleteOn, <1>1
<1>4. ASSUME NEW g \in Runners, RunStep(g) PROVE Complete(t)'
  <2>1. CASE RunCreate(g) \/ RunItem(g) \/ RunSave(g) \/ RunBad(g)
    <3>1. run[g].task # t /\ tasks' = tasks
      BY <1>2, <2>1 DEF RunCreate, RunItem, RunSave, RunBad, At, Working, Looping
    <3> QED
      BY <1>3, <1>4, <3>1, ItemsMove
  <2>2. CASE RunStart(g) \/ RunFinish(g)
    <3>1. run[g].pc \in {"start", "finish"} /\ run[g].task # t /\ items' = items
      BY <1>2, <2>2 DEF RunStart, RunFinish, At, Working
    <3>2. run[g].task \in TaskIds /\ Exists(run[g].task) /\ Holds(run[g], items[run[g].task])
      BY <3>1, InHand
    <3>3. ASSUME NEW st \in Statuses, SetStatus(run[g].task, st) PROVE tasks'[t] = tasks[t]
      BY <3>1, <3>2, <3>3, StatusSet DEF Shapes
    <3>4. CASE RunStart(g)
      BY <1>1, <3>1, <3>3, <3>4, CompleteOn DEF RunStart, Statuses
    <3>5. CASE RunFinish(g)
      <4>1. run[g].out \in Final
        BY <3>2, <3>5 DEF RunFinish, At, Holds
      <4> QED
        BY <1>1, <3>1, <3>3, <3>5, <4>1, CompleteOn DEF RunFinish, Statuses
    <3> QED
      BY <2>2, <3>4, <3>5
  <2>3. CASE tasks' = tasks /\ items' = items
    BY <1>3, <2>3
  <2> QED
    BY <1>4, <2>1, <2>2, <2>3, RunLeaves
<1>5. ASSUME NEW d \in Admins, AdminStep(d) PROVE Complete(t)'
  <2>1. CASE RetryMark(d)
    <3>1. tasks' = tasks
      BY <2>1, MarkDone
    <3>2. \A i \in DOMAIN items'[t] : items'[t][i].st = "succeeded"
      BY <2>1, Marked DEF Complete, Whole
    <3>3. tasks[t].status = "succeeded" \/ items'[t] # <<>>
      BY <2>1, Marked DEF Complete
    <3> QED
      BY <1>1, <3>1, <3>2, <3>3 DEF Complete, Whole
  <2>2. CASE RetryUpdate(d)
    <3>1. items' = items /\ adm[d].task \in TaskIds /\ items[adm[d].task] # <<>> /\ Exists(adm[d].task)
      BY <2>2, UpdateDone DEF Shapes, AdmOK, Bears
    <3>2. SetStatus(adm[d].task, adm[d].out) \/ UNCHANGED tasks
      BY <2>2, UpdateDone
    <3>3. adm[d].out \in Statuses
      BY <2>2, UpdateDone DEF Statuses
    <3>4. tasks'[t] = tasks[t] \/ items[t] # <<>>
      BY <3>1, <3>2, <3>3, StatusSet DEF Shapes
    <3> QED
      BY <1>1, <3>1, <3>4, CompleteOn
  <2> QED
    BY <1>3, <1>5, <2>1, <2>2, AdminLeaves
<1>6. ASSUME BootStep PROVE Complete(t)'
  <2>1. CASE BootReset
    <3>1. items' = items /\ tasks'[t] = tasks[t]
      BY <2>1, BootSteps DEF Complete, Final
    <3> QED
      BY <1>1, <3>1, CompleteOn
  <2> QED
    BY <1>3, <1>6, <2>1 DEF BootStep, BootList, data
<1>7. ASSUME NEW dst \in Accts, NEW g \in Runners, CreateMigration(dst, g) PROVE Complete(t)'
  <2>1. tasks'[t] = tasks[t] /\ items' = items
    <3>1. PICK s \in TaskIds : ~Exists(s) /\ \A u \in TaskIds : u # s => tasks'[u] = tasks[u]
      BY <1>7, CreateMigrationShapes
    <3>2. s # t
      BY <3>1 DEF Exists, Complete, Final
    <3> QED
      BY <1>7, <3>1, <3>2 DEF CreateMigration
  <2> QED
    BY <1>1, <2>1, CompleteOn
<1>8. Crash \/ UserStep \/ UNCHANGED vars => tasks' = tasks /\ items' = items
  BY UserDone DEF Crash, vars, data
<1> QED
  BY <1>3, <1>4, <1>5, <1>6, <1>7, <1>8 DEF Next

\* A save that overwrites and moves nothing changes nothing.
LEMMA SavedAsRead ==
    ASSUME Shapes, Without({"overwritten", "moved"})', NEW d \in Admins, UpdateSave(d)
    PROVE  dom' = dom
<1>1. dom = adm[d].read /\ adm[d].home = adm[d].read.home
  BY DEF UpdateSave, Note, When, Without
<1> QED
  BY <1>1, Unmoved DEF UpdateSave, Domain

\* The home changes with a new migration only.
LEMMA HomeStill ==
    ASSUME Shapes, [Next]_vars, Without({"overwritten", "moved"})',
           ~\E dst \in Accts, g \in Runners : CreateMigration(dst, g)
    PROVE  dom'.home = dom.home
<1>1. ASSUME NEW g \in Runners, RunStep(g) PROVE dom'.home = dom.home
  <2>1. CASE RunDomain(g)
    BY <2>1, Unmoved DEF RunDomain, Domain
  <2>2. CASE RunClose(g)
    BY <2>2, Unmoved DEF RunClose, Closed, Domain
  <2> QED
    BY <1>1, <2>1, <2>2, RunLeaves
<1>2. ASSUME NEW d \in Admins, AdminStep(d) PROVE dom'.home = dom.home
  <2>1. CASE RetryClose(d)
    BY <2>1, Unmoved DEF RetryClose, Closed, Domain
  <2> QED
    BY <1>2, <2>1, AdminLeaves, SavedAsRead
<1>3. BootStep \/ Crash \/ UserStep \/ UNCHANGED vars => dom' = dom
  BY UserDone DEF BootStep, BootReset, BootList, Crash, vars
<1> QED
  BY <1>1, <1>2, <1>3 DEF Next

LEMMA IdleWhenDone ==
    ASSUME Shapes, Apart, Honest, [Next]_vars, Without({"db", "late", "overwritten", "moved"})',
           ~\E dst \in Accts, g \in Runners : CreateMigration(dst, g), dom'.state = "idle"
    PROVE  dom.state = "idle" \/ \A t \in TaskIds : Newest(t) => Complete(t)
<1>1. \A out : StateFor(out) = "idle" => out = "succeeded" \/ out = "idle"
  BY DEF StateFor
<1>2. ASSUME NEW g \in Runners, RunStep(g)
      PROVE  dom.state = "idle" \/ \A t \in TaskIds : Newest(t) => Complete(t)
  <2>1. CASE RunDomain(g)
    BY <2>1, Unmoved, NoFault DEF RunDomain, Domain, Without
  <2>2. CASE RunClose(g)
    <3>1. run[g].pc = "close" /\ run[g].out \in Final /\ run[g].task \in TaskIds /\ Exists(run[g].task)
      BY <2>2, InHand DEF RunClose, At, Holds
    <3>2. dom' = Closed(run[g].out) /\ ~Superseded(run[g].task)
      BY <2>2, NoFault DEF RunClose, Note, When, Without
    <3>3. dom'.state = StateFor(run[g].out)
      BY <3>2, Unmoved DEF Closed, Domain
    <3>4. run[g].out = "succeeded"
      BY <1>1, <3>1, <3>3 DEF Final
    <3>5. Complete(run[g].task)
      BY <3>1, <3>4 DEF Honest
    <3> QED
      BY <3>1, <3>2, <3>5, OneNewest DEF Newest
  <2> QED
    BY <1>2, <2>1, <2>2, RunLeaves
<1>3. ASSUME NEW d \in Admins, AdminStep(d)
      PROVE  dom.state = "idle" \/ \A t \in TaskIds : Newest(t) => Complete(t)
  <2>1. CASE RetryClose(d)
    <3>1. adm[d].pc = "close" /\ adm[d].out \in Final
      BY <2>1, RetryClosed
    <3>2. adm[d].task \in TaskIds /\ Exists(adm[d].task)
      BY <3>1, AdmAt
    <3>3. dom' = Closed(adm[d].out) /\ ~Superseded(adm[d].task)
      BY <2>1, NoFault DEF RetryClose, Note, When, Without
    <3>4. dom'.state = StateFor(adm[d].out)
      BY <3>3, Unmoved DEF Closed, Domain
    <3>5. adm[d].out = "succeeded"
      BY <1>1, <3>1, <3>4 DEF Final
    <3>6. Whole(items[adm[d].task])
      BY <3>1, <3>5 DEF Honest, Reckons
    <3>7. items[adm[d].task] # <<>> /\ tasks[adm[d].task].status \in Final
      BY <3>1 DEF Shapes, AdmOK, Bears, Apart, Retrying
    <3>8. Complete(adm[d].task)
      BY <3>6, <3>7 DEF Complete
    <3> QED
      BY <3>2, <3>3, <3>8, OneNewest DEF Newest
  <2>2. CASE UpdateSave(d)
    BY <2>2, SavedAsRead DEF Without
  <2> QED
    BY <1>3, <2>1, <2>2, AdminLeaves
<1>4. BootStep \/ Crash \/ UserStep \/ UNCHANGED vars => dom' = dom
  BY UserDone DEF BootStep, BootReset, BootList, Crash, vars
<1> QED
  BY <1>2, <1>3, <1>4 DEF Next

LEMMA MovedKept ==
    ASSUME Shapes, Apart, Honest, Moved, [Next]_vars, Without({"db", "late", "overwritten", "moved"})'
    PROVE  Moved'
<1>1. CASE ~\E dst \in Accts, g \in Runners : CreateMigration(dst, g)
  <2>1. dom'.home = dom.home
    BY <1>1, HomeStill DEF Without
  <2>2. ASSUME NEW t \in TaskIds, Newest(t)
        PROVE  dom'.home = tasks'[t].dst /\ (dom'.state = "idle" => Complete(t)')
    <3>1. tasks'[t].dst = tasks[t].dst
      BY <1>1, <2>2, NewestStill DEF Newest
    <3>2. dom'.state = "idle" => Complete(t)
      BY <1>1, <2>2, IdleWhenDone DEF Moved
    <3> QED
      BY <2>1, <2>2, <3>1, <3>2, CompleteStays DEF Moved
  <2> QED
    BY <1>1, <2>2, NewestStill DEF Moved
<1>2. ASSUME NEW dst \in Accts, NEW g \in Runners, CreateMigration(dst, g) PROVE Moved'
  <2>1. PICK t \in TaskIds : /\ ~Exists(t) /\ \A s \in TaskIds : Exists(s) <=> s < t
                             /\ run[g].pc = "idle" /\ run'[g] = Starting(t) /\ \A h \in Runners : h # g => run'[h] = run[h]
                             /\ tasks'[t].status = "pending" /\ tasks'[t].dst = dst
                             /\ \A s \in TaskIds : s # t => tasks'[s] = tasks[s]
    BY <1>2, CreateMigrationShapes
  <2>2. dom'.home = dst /\ dom'.state = "running"
    BY <1>2 DEF CreateMigration, Switched
  <2>3. ASSUME NEW s \in TaskIds, Newest(s)' PROVE s = t
    <3>1. ~(t > s)
      BY <2>1, <2>3 DEF Newest, Superseded, Exists
    <3>2. s # t => Exists(s)
      BY <2>1, <2>3 DEF Newest, Exists
    <3> QED
      BY <2>1, <3>1, <3>2, Constants
  <2> QED
    BY <2>1, <2>2, <2>3 DEF Moved
<1> QED
  BY <1>1, <1>2

-----------------------------------------------------------------------------
(* The fifth layer is inductive: the rows *)

LEMMA RetryMoves ==
    ASSUME Shapes, NEW d \in Admins, AdminStep(d), adm[d].pc \in Retrying, Without({"db"})'
    PROVE  (adm'[d].pc \in Retrying /\ adm'[d].task = adm[d].task) \/ RetryClose(d)
<1>1. CASE RetryCall(d)
  BY <1>1, RetryCalled DEF Retrying
<1>2. CASE RetryMark(d)
  BY <1>2, MarkDone DEF Retrying
<1>3. CASE RetryCount(d)
  <2>1. adm'[d] = [pc |-> "update", task |-> adm[d].task, out |-> Counted(adm[d].task)]
    BY <1>3, NoFault, CountDone
  <2> QED
    BY <2>1 DEF Retrying
<1>4. CASE RetryUpdate(d)
  <2>1. adm'[d] = [pc |-> "close", task |-> adm[d].task, out |-> adm[d].out]
    BY <1>4, NoFault, UpdateDone
  <2> QED
    BY <2>1 DEF Retrying
<1>5. ~CleanupDelete(d) /\ ~UpdateSave(d)
  BY DEF CleanupDelete, UpdateSave, Retrying
<1>6. ~\E t \in TaskIds : RetryBegin(d, t) \/ CleanupBegin(d, t)
  BY DEF RetryBegin, CleanupBegin, Retrying
<1>7. ~\E home \in Accts : UpdateBegin(d, home)
  BY DEF UpdateBegin, Retrying
<1> QED
  BY <1>1, <1>2, <1>3, <1>4, <1>5, <1>6, <1>7 DEF AdminStep

\* A retry of an old task goes on until its end is noted.
LEMMA PoisonStays ==
    ASSUME Shapes, Apart, [Next]_vars, Poisoned, Without({"db", "late", "torn"})'
    PROVE  Poisoned'
<1>1. PICK d \in Admins : adm[d].pc \in Retrying /\ Superseded(adm[d].task)
  BY DEF Poisoned
<1>2. PICK u \in TaskIds : u = adm[d].task
  BY <1>1, AdmTask
<1>3. \E s \in TaskIds : s > u /\ tasks'[s].status # "none"
  <2>1. CASE ~\E dst \in Accts, g \in Runners : CreateMigration(dst, g)
    <3>1. \A s \in TaskIds : tasks'[s].status # "none" <=> Exists(s)
      BY <2>1, TaskMoves
    <3> QED
      BY <1>1, <1>2, <3>1 DEF Superseded
  <2>2. ASSUME NEW dst \in Accts, NEW g \in Runners, CreateMigration(dst, g)
        PROVE  \E s \in TaskIds : s > u /\ tasks'[s].status # "none"
    <3>1. PICK t \in TaskIds : ~Exists(t) /\ \A s \in TaskIds : s # t => tasks'[s] = tasks[s]
      BY <2>2, CreateMigrationShapes
    <3> QED
      BY <1>1, <1>2, <3>1 DEF Superseded, Exists
  <2> QED
    BY <2>1, <2>2
<1>4. adm'[d].pc \in Retrying /\ adm'[d].task = u
  <2>1. CASE AdminStep(d)
    <3>1. ~RetryClose(d)
      BY <1>1, NoFault DEF RetryClose, Note, When, Without
    <3> QED
      BY <1>1, <1>2, <2>1, <3>1, RetryMoves DEF Without
  <2>2. ~Crash
    BY <1>1 DEF Crash, HalfDone, Note, When, Without, Retrying
  <2>3. ASSUME NEW dst \in Accts, NEW g \in Runners, CreateMigration(dst, g) PROVE adm' = adm
    BY <2>3 DEF CreateMigration
  <2>4. BootStep => adm' = adm
    BY DEF BootStep, BootReset, BootList
  <2>5. UserStep \/ UNCHANGED vars => adm' = adm
    BY UserDone DEF vars
  <2>6. ASSUME NEW g \in Runners, RunStep(g) PROVE adm' = adm
    BY <2>6, RunLeaves
  <2>7. ASSUME NEW e \in Admins, AdminStep(e), e # d PROVE adm'[d] = adm[d]
    BY <2>7, AdminLeaves
  <2> QED
    BY <1>1, <1>2, <2>1, <2>2, <2>3, <2>4, <2>5, <2>6, <2>7 DEF Next
<1> QED
  BY <1>3, <1>4 DEF Poisoned, Superseded, Exists

\* A step that no row and no id loses by.
Kept ==
    /\ \A r \in Recs : Right(r) => Right(r)'
    /\ \A r \in Recs, id \in 1..MaxIds : rows[r] # Never /\ RightId(r, id) => RightId(r, id)'
    /\ \A r \in Recs : rows'[r] > 0 => rows[r] > 0 \/ ~Migrating

LEMMA KeptStill ==
    ASSUME Shapes, dom'.home = dom.home, rows' = rows,
           \A r \in Recs : zone[dom.home][r] # 0 => zone'[dom.home][r] = zone[dom.home][r],
           \A r \in Recs : Leaving(r) => Leaving(r)'
    PROVE  Kept
<1>1. \A r \in Recs : Right(r) => Right(r)'
  <2> SUFFICES ASSUME NEW r \in Recs, Right(r), rows[r] > 0 PROVE rows[r] = zone'[dom.home][r] \/ Leaving(r)'
    BY DEF Right, Present
  <2>1. rows[r] = zone[dom.home][r] \/ Leaving(r)
    BY DEF Right, Present
  <2> QED
    BY <2>1
<1>2. \A r \in Recs, id \in 1..MaxIds : RightId(r, id) => RightId(r, id)'
  <2> SUFFICES ASSUME NEW r \in Recs, NEW id \in 1..MaxIds, RightId(r, id), rows[r] > 0
               PROVE  zone'[dom.home][r] = id \/ Leaving(r)'
    BY DEF RightId, Present
  <2>1. (zone[dom.home][r] = id /\ id # 0) \/ Leaving(r)
    BY DEF RightId, Present
  <2> QED
    BY <2>1
<1> QED
  BY <1>1, <1>2 DEF Kept

LEMMA KeptPointed ==
    ASSUME Shapes, NEW r \in Recs, NEW id \in 1..MaxIds, RightId(r, id), rows' = Repointed(r, id),
           dom' = dom, zone' = zone, usr' = usr
    PROVE  Kept /\ Right(r)'
<1>1. /\ \A s \in Recs : s # r => rows'[s] = rows[s]
      /\ r \in Present => rows'[r] = id
      /\ \A s \in Recs : rows'[s] > 0 <=> rows[s] > 0
  BY RowsPointed
<1>2. Right(r)'
  BY <1>1 DEF Right, RightId, Present, Leaving
<1>3. \A s \in Recs : Right(s) => Right(s)'
  <2> SUFFICES ASSUME NEW s \in Recs, s # r, Right(s) PROVE Right(s)'
    BY <1>2
  <2> QED
    BY <1>1 DEF Right, Present, Leaving
<1>4. \A s \in Recs, i \in 1..MaxIds : RightId(s, i) => RightId(s, i)'
  BY <1>1 DEF RightId, Present, Leaving
<1> QED
  BY <1>1, <1>2, <1>3, <1>4 DEF Kept

LEMMA KeptByUser == ASSUME Shapes, Fresh, UserStep, Without({"stale"})' PROVE Kept
<1>1. dom' = dom /\ Shapes'
  BY UserDone
<1>2. CASE usr.pc = "idle" /\ UNCHANGED <<rows, zone>>
  BY <1>1, <1>2, KeptStill DEF Leaving
<1>3. CASE usr.pc = "create" /\ Put(usr.home, usr.rec) /\ UNCHANGED rows
  <2>1. usr.rec \in Recs /\ usr.home \in Accts
    BY <1>3, UsrThere
  <2>2. \A a \in Accts, r \in Recs : zone[a][r] # 0 => zone'[a][r] = zone[a][r]
    BY <1>3, <2>1, PutDoes DEF Shapes
  <2>3. dom.home \in Accts
    BY Unmoved DEF Domain
  <2> QED
    BY <1>1, <1>3, <2>2, <2>3, KeptStill DEF Leaving
<1>4. CASE /\ usr.pc \in {"delete", "look"} /\ usr'.pc \in {"look", "row"} /\ usr'.rec = usr.rec /\ UNCHANGED rows
           /\ \A b \in Accts, s \in Recs : s # usr.rec => zone'[b][s] = zone[b][s]
  <2>1. Leaving(usr.rec)' /\ \A r \in Recs : r # usr.rec => ~Leaving(r)
    BY <1>4 DEF Leaving
  <2>2. dom.home \in Accts
    BY Unmoved DEF Domain
  <2>3. \A r \in Recs : r # usr.rec => zone'[dom.home][r] = zone[dom.home][r]
    BY <1>4, <2>2
  <2> QED
    BY <1>1, <1>4, <2>1, <2>3 DEF Kept, Right, RightId, Present
<1>5. CASE UsrRow
  <2>1. usr.home = dom.home /\ ~Migrating
    BY <1>5 DEF UsrRow, Note, When, Without
  <2>2. /\ usr.rec \in Recs /\ rows'[usr.rec] = usr.id
        /\ \A r \in Recs : r # usr.rec => rows'[r] = rows[r]
        /\ zone' = zone
        /\ usr.id = Deleted \/ (usr.id > 0 /\ rows[usr.rec] = Never /\ zone[usr.home][usr.rec] = usr.id)
    BY <1>5, RowWritten
  <2>3. ASSUME NEW r \in Recs, r = usr.rec PROVE Right(r)'
    BY <1>1, <2>1, <2>2, <2>3 DEF Right, Present, Deleted
  <2>4. ASSUME NEW r \in Recs, r # usr.rec, Right(r) PROVE Right(r)'
    BY <1>1, <2>2, <2>4 DEF Right, Present, Leaving
  <2>5. ASSUME NEW r \in Recs, NEW id \in 1..MaxIds, rows[r] # Never, RightId(r, id) PROVE RightId(r, id)'
    <3>1. CASE r = usr.rec
      BY <2>2, <2>5, <3>1 DEF RightId, Present, Deleted
    <3>2. CASE r # usr.rec
      BY <1>1, <2>2, <2>5, <3>2 DEF RightId, Present, Leaving
    <3> QED
      BY <3>1, <3>2
  <2> QED
    BY <2>1, <2>3, <2>4, <2>5 DEF Kept
<1> QED
  BY <1>2, <1>3, <1>4, <1>5, UserDone

ItemsKept ==
    \A t \in TaskIds :
        /\ DOMAIN items[t] \subseteq DOMAIN items'[t]
        /\ \A i \in DOMAIN items[t] : items'[t][i].rec = items[t][i].rec

LEMMA ItemThere ==
    ASSUME Shapes, NEW t \in TaskIds, NEW i \in DOMAIN items[t]
    PROVE  items[t][i] \in Item /\ items[t][i].rec \in Recs
<1>1. items[t] \in Seq(Item)
  BY Unmoved
<1> QED
  BY <1>1, NoItems DEF Item

\* A record that is in an item has had a row.
LEMMA ItemHasRow == ASSUME Shapes, Fresh, NEW t \in TaskIds, NEW i \in DOMAIN items[t] PROVE rows[items[t][i].rec] # Never
BY ItemThere DEF Fresh

LEMMA CoveredStill ==
    ASSUME Kept, ItemsKept, NEW t \in TaskIds, Covered(t)
    PROVE  Covered(t)'
BY DEF Kept, ItemsKept, Covered

\* A goroutine that has not moved knows what it knew.
LEMMA KnowsStill ==
    ASSUME Shapes, Fresh, Apart, Kept, ItemsKept, NEW h \in Runners, run'[h] = run[h], run[h].pc # "idle", Knows(run[h])
    PROVE  Knows(run[h])'
<1>1. run[h].task \in TaskIds /\ run[h] \in Job
  BY InHand
<1>2. Covered(run[h].task) => Covered(run[h].task)'
  <2>1. Covered(run[h].task) => \A r \in Recs : (\E i \in DOMAIN items'[run[h].task] : items'[run[h].task][i].rec = r) \/ Right(r)'
    BY <1>1, CoveredStill DEF Covered
  <2> QED
    BY <2>1 DEF Covered
<1>3. ASSUME run[h].pc = "create" PROVE \A r \in Recs : rows'[r] > 0 => run[h].snap[r] > 0
  <2>1. Migrating
    BY <1>3, AtNewest DEF Migrating, Working
  <2> QED
    BY <1>3, <2>1 DEF Kept, Knows, Present
<1>4. ASSUME run[h].pc \in {"save", "point"}
      PROVE  RightId(items[run[h].task][First(run[h].todo)].rec, run[h].id)'
  <2>1. First(run[h].todo) \in DOMAIN items[run[h].task] /\ Holds(run[h], items[run[h].task])
    BY <1>4, InHand
  <2>2. run[h].id \in 1..MaxIds
    BY <1>1, <1>4, <2>1 DEF Holds, Job
  <2> DEFINE r == items[run[h].task][First(run[h].todo)].rec
  <2>3. r \in Recs /\ rows[r] # Never
    BY <1>1, <2>1, ItemThere, ItemHasRow
  <2>4. items'[run'[h].task][First(run'[h].todo)].rec = r /\ run'[h].id = run[h].id
    BY <1>1, <2>1 DEF ItemsKept
  <2>5. RightId(r, run[h].id)
    BY <1>4 DEF Knows
  <2>6. rows'[r] > 0 => zone'[dom'.home][r] = run[h].id \/ (usr'.pc \in {"look", "row"} /\ usr'.rec = r)
    <3> HIDE DEF r
    <3>1. \A s \in Recs, id \in 1..MaxIds : rows[s] # Never /\ RightId(s, id) =>
             (rows'[s] > 0 => zone'[dom'.home][s] = id \/ (usr'.pc \in {"look", "row"} /\ usr'.rec = s))
      BY DEF Kept, RightId, Present, Leaving
    <3> QED
      BY <2>2, <2>3, <2>5, <3>1
  <2> QED
    BY <2>4, <2>6 DEF RightId, Present, Leaving
<1> QED
  BY <1>2, <1>3, <1>4 DEF Knows, Present

LEMMA MarkStill ==
    ASSUME Shapes, Fresh, Kept, ItemsKept, NEW d \in Admins, adm'[d] = adm[d], adm[d].pc = "mark",
           RightId(items[adm[d].task][First(adm[d].todo)].rec, adm[d].id)
    PROVE  RightId(items[adm[d].task][First(adm[d].todo)].rec, adm[d].id)'
<1>1. adm[d] \in Retry /\ adm[d].task \in TaskIds /\ First(adm[d].todo) \in DOMAIN items[adm[d].task] /\ adm[d].id > 0
  BY AdmThere DEF Shapes, AdmOK, Bears
<1>2. adm[d].id \in 1..MaxIds
  BY <1>1 DEF Retry
<1> DEFINE r == items[adm[d].task][First(adm[d].todo)].rec
<1>3. r \in Recs /\ rows[r] # Never
  BY <1>1, ItemThere, ItemHasRow
<1>4. items'[adm'[d].task][First(adm'[d].todo)].rec = r /\ adm'[d].id = adm[d].id
  BY <1>1 DEF ItemsKept
<1>5. RightId(r, adm[d].id)
  OBVIOUS
<1>6. rows'[r] > 0 => zone'[dom'.home][r] = adm[d].id \/ (usr'.pc \in {"look", "row"} /\ usr'.rec = r)
  <2> HIDE DEF r
  <2>1. \A s \in Recs, id \in 1..MaxIds : rows[s] # Never /\ RightId(s, id) =>
           (rows'[s] > 0 => zone'[dom'.home][s] = id \/ (usr'.pc \in {"look", "row"} /\ usr'.rec = s))
    BY DEF Kept, RightId, Present, Leaving
  <2> QED
    BY <1>2, <1>3, <1>5, <2>1
<1> QED
  BY <1>4, <1>6 DEF RightId, Present, Leaving

\* What a step must do for the newest task's items.
ItemsRight ==
    \A t \in TaskIds : Newest(t) =>
        /\ \A i \in DOMAIN items'[t] : items'[t][i].st = "succeeded" =>
              \/ Right(items[t][i].rec)'
              \/ Pointing(t, i)'
              \/ i \in DOMAIN items[t] /\ items[t][i].st = "succeeded" /\ ~Pointing(t, i)
        /\ items'[t] # <<>> => items[t] # <<>> \/ Covered(t)'

LEMMA PlacedStill ==
    ASSUME Shapes, Fresh, Apart, Placed, Kept, ItemsKept, ItemsRight,
           \A t \in TaskIds : Newest(t)' => Newest(t),
           Settled' => Settled \/ \A r \in Recs : Right(r)',
           \A h \in Runners : run'[h] = run[h] \/ (run[h].pc # "idle" => Knows(run[h]))',
           \A d \in Admins :
              adm'[d] = adm[d] \/ (adm[d].pc = "mark" => RightId(items[adm[d].task][First(adm[d].todo)].rec, adm[d].id))'
    PROVE  Placed'
<1>1. Settled' => \A r \in Recs : Right(r)'
  BY DEF Placed, Kept
<1>2. ASSUME NEW t \in TaskIds, Newest(t)'
      PROVE  /\ \A i \in DOMAIN items'[t] :
                   items'[t][i].st = "succeeded" => Right(items[t][i].rec)' \/ Pointing(t, i)'
             /\ items'[t] # <<>> => Covered(t)'
  <2>1. Newest(t)
    BY <1>2
  <2>2. ASSUME NEW i \in DOMAIN items[t], items[t][i].st = "succeeded", ~Pointing(t, i) PROVE Right(items[t][i].rec)'
    <3>1. items[t][i].rec \in Recs /\ Right(items[t][i].rec)
      BY <2>1, <2>2, ItemThere DEF Placed
    <3>2. PICK r \in Recs : r = items[t][i].rec /\ Right(r)
      BY <3>1
    <3>3. Right(r)' /\ items'[t][i].rec = r
      BY <2>2, <3>2 DEF Kept, ItemsKept
    <3> QED
      BY <3>3 DEF Right
  <2>3. items'[t] # <<>> => Covered(t)'
    BY <2>1, CoveredStill DEF ItemsRight, Placed
  <2> QED
    BY <2>1, <2>2, <2>3 DEF ItemsRight
<1>3. ASSUME NEW h \in Runners, run'[h].pc # "idle" PROVE Knows(run[h])'
  BY <1>3, KnowsStill DEF Placed
<1>4. ASSUME NEW d \in Admins PROVE (adm[d].pc = "mark" => RightId(items[adm[d].task][First(adm[d].todo)].rec, adm[d].id))'
  BY MarkStill DEF Placed
<1> QED
  BY <1>1, <1>2, <1>3, <1>4 DEF Placed

\* What there is to know at a step: nothing, that the newest task covers the
\* rows, or that and the id of the item at hand.
LEMMA KnowsNothing ==
    ASSUME NEW g \in Runners,
           \/ run'[g].pc \in {"idle", "start", "domain", "load", "close", "next"}
           \/ run'[g].pc = "finish" /\ run'[g].out # "succeeded"
    PROVE  Knows(run[g])'
BY DEF Knows, Looping

LEMMA KnowsCovered ==
    ASSUME NEW g \in Runners, NEW u \in TaskIds, run'[g].task = u, Covered(u)',
           run'[g].pc \in {"reload", "client", "item", "call", "bad", "finish"}
    PROVE  Knows(run[g])'
<1>1. Covered(run[g].task)'
  BY DEF Covered
<1> QED
  BY <1>1 DEF Knows, Looping

LEMMA KnowsId ==
    ASSUME NEW g \in Runners, NEW u \in TaskIds, run'[g].task = u, Covered(u)', run'[g].pc \in {"save", "point"},
           NEW r \in Recs, items'[u][First(run'[g].todo)].rec = r, RightId(r, run[g].id)'
    PROVE  Knows(run[g])'
<1>1. Covered(run[g].task)'
  BY DEF Covered
<1>2. RightId(items[run[g].task][First(run[g].todo)].rec, run[g].id)'
  BY DEF RightId, Present, Leaving
<1> QED
  BY <1>1, <1>2 DEF Knows, Looping

\* The rows from which items are made are all that are there.
LEMMA CreateCovers ==
    ASSUME Shapes, Apart, Placed, NEW g \in Runners, RunCreate(g), Without({"db"})'
    PROVE  Covered(run[g].task)' /\ run'[g].task = run[g].task /\ run'[g].pc = "reload"
<1> DEFINE u == run[g].task
           fresh == NewItems(run[g].snap)
           new == items[u] \o fresh
<1>1. run[g].pc = "create" /\ run[g] \in Job /\ u \in TaskIds /\ items[u] \in Seq(Item)
  BY InHand DEF RunCreate, At
<1>2. items' = [items EXCEPT ![u] = new] /\ To(g, "reload") /\ UNCHANGED rows
  BY NoFault DEF RunCreate
<1>3. run'[g].task = u /\ run'[g].pc = "reload"
  BY <1>1, <1>2, ToDoes DEF Working
<1>4. fresh \in Seq(Item) /\ \A r \in Recs : run[g].snap[r] > 0 => \E k \in DOMAIN fresh : fresh[k].rec = r
  BY <1>1, ItemsMade DEF Job
<1> HIDE DEF fresh
<1>5. \A k \in DOMAIN fresh : \E i \in DOMAIN new : new[i] = fresh[k]
  BY <1>1, <1>4, Joined
<1> HIDE DEF new
<1>6. items'[u] = new
  BY <1>1, <1>2, Unmoved
<1>7. ASSUME NEW r \in Recs PROVE (\E i \in DOMAIN new : new[i].rec = r) \/ Right(r)'
  <2>1. CASE r \in Present
    <3>1. run[g].snap[r] > 0
      BY <1>1, <2>1 DEF Placed, Knows
    <3> QED
      BY <1>4, <1>5, <3>1
  <2>2. CASE r \notin Present
    BY <1>2, <2>2 DEF Right, Present
  <2> QED
    BY <2>1, <2>2
<1> QED
  BY <1>3, <1>6, <1>7 DEF Covered

\* A goroutine that reads the items finds the rows covered.
LEMMA LoadCovered ==
    ASSUME Shapes, Apart, Placed, NEW g \in Runners, RunLoad(g), Without({"db"})'
    PROVE  \/ Become(g, [run[g] EXCEPT !.pc = "create", !.snap = rows])
           \/ Become(g, Listed(g, items[run[g].task])) /\ Covered(run[g].task)
<1> DEFINE u == run[g].task
<1>1. run[g].pc = "load"
  BY DEF RunLoad, At
<1>2. u \in TaskIds /\ Newest(u)
  BY <1>1, AtNewest DEF Working
<1>3. IF items[u] = <<>> /\ Present # {}
         THEN Become(g, [run[g] EXCEPT !.pc = "create", !.snap = rows])
         ELSE Become(g, Listed(g, items[u]))
  BY NoFault DEF RunLoad
<1>4. CASE items[u] # <<>>
  BY <1>2, <1>3, <1>4 DEF Placed
<1>5. CASE Present = {}
  BY <1>3, <1>5 DEF Covered, Right
<1> QED
  BY <1>3, <1>4, <1>5

\* The mishaps that the fifth layer is proved without, but for those that the
\* lower layers leave out.
Calm == Without(Misplaced)

LEMMA CalmHas ==
    ASSUME Calm'
    PROVE  /\ Without({"db"})' /\ Without({"overlap"})' /\ Without({"stale"})' /\ Without({"cleaned"})'
           /\ Without({"overwritten", "moved"})' /\ Without({"db", "late", "torn"})' /\ Without({"db", "uncounted"})'
           /\ Without({"db", "late", "overwritten", "moved"})' /\ ~SqlFails
<1>1. Without({"db"})'
  BY DEF Calm, Misplaced, Without
<1> QED
  BY <1>1, NoFault DEF Calm, Misplaced, Without

LEMMA RunKeeps ==
    ASSUME Shapes, Fresh, Placed, NEW g \in Runners, RunStep(g), [Next]_vars, Calm',
           ~\E dst \in Accts, k \in Runners : CreateMigration(dst, k)
    PROVE  Kept /\ ItemsKept /\ \A r \in Recs : RunPoint(g) /\ r = Current(g).rec => Right(r)'
<1>1. ItemsKept
  BY ItemsMove DEF ItemsKept
<1>2. CASE RunPoint(g)
  <2>1. /\ run[g].pc = "point" /\ Current(g).rec \in Recs /\ run[g].id \in 1..MaxIds
        /\ rows' = Repointed(Current(g).rec, run[g].id) /\ UNCHANGED <<dom, tasks, items, zone, usr>>
    BY <1>2, Pointed, RunLeaves, CalmHas
  <2>2. RightId(Current(g).rec, run[g].id)
    BY <2>1 DEF Placed, Knows, Current
  <2>3. PICK r \in Recs, id \in 1..MaxIds : r = Current(g).rec /\ id = run[g].id
    BY <2>1
  <2>4. Kept /\ Right(r)'
    BY <2>1, <2>2, <2>3, KeptPointed
  <2> QED
    BY <1>1, <2>3, <2>4
<1>3. CASE ~RunPoint(g)
  <2>1. rows' = rows /\ usr' = usr /\ dom'.home = dom.home /\ dom.home \in Accts
    BY <1>3, RunLeaves, HomeStill, CalmHas, Unmoved DEF Domain
  <2>2. \A a \in Accts, r \in Recs : zone[a][r] # 0 => zone'[a][r] = zone[a][r]
    BY RunLeaves, Called
  <2> QED
    BY <1>1, <1>3, <2>1, <2>2, KeptStill DEF Leaving
<1> QED
  BY <1>2, <1>3

LEMMA CallKnows ==
    ASSUME Shapes, Fresh, Apart, Placed, Moved, NEW g \in Runners, RunCall(g), [Next]_vars, Calm',
           ~\E dst \in Accts, k \in Runners : CreateMigration(dst, k)
    PROVE  Knows(run[g])'
<1>1. RunStep(g)
  BY DEF RunStep
<1>2. Kept /\ ItemsKept
  BY <1>1, RunKeeps
<1>3. /\ run[g].pc = "call" /\ run'[g].task = run[g].task /\ run'[g].todo = run[g].todo
      /\ \/ /\ run'[g].pc = "save"
            /\ Put(TaskOf(g).dst, Current(g).rec) /\ run'[g].id = IdAt(TaskOf(g).dst, Current(g).rec)
         \/ run'[g].pc = "bad"
      /\ TaskOf(g).dst \in Accts /\ Current(g).rec \in Recs
  BY CallDoes
<1>4. PICK t \in TaskIds : run[g].task = t /\ Newest(t)
  BY <1>3, AtNewest DEF Working, Looping
<1>5. Covered(t)'
  BY <1>2, <1>3, <1>4, CoveredStill DEF Placed, Knows, Looping
<1>6. CASE run'[g].pc = "bad"
  BY <1>3, <1>4, <1>5, <1>6, KnowsCovered
<1>7. CASE run'[g].pc = "save" /\ Put(TaskOf(g).dst, Current(g).rec) /\ run'[g].id = IdAt(TaskOf(g).dst, Current(g).rec)
  <2>1. PICK a \in Accts, r \in Recs : a = TaskOf(g).dst /\ r = Current(g).rec
    BY <1>3
  <2>2. zone'[a][r] = run'[g].id
    BY <1>7, <2>1, PutDoes DEF Shapes
  <2>3. dom'.home = a
    BY <1>4, <2>1, HomeStill, CalmHas DEF Moved, TaskOf
  <2>4. RightId(r, run[g].id)'
    BY <2>2, <2>3 DEF RightId
  <2>5. items' = items
    BY DEF RunCall, data
  <2>6. items'[t][First(run'[g].todo)].rec = r
    BY <1>3, <1>4, <2>1, <2>5 DEF Current
  <2> QED
    BY <1>3, <1>4, <1>5, <1>7, <2>4, <2>6, KnowsId
<1> QED
  BY <1>3, <1>6, <1>7

LEMMA SaveKnows ==
    ASSUME Shapes, Fresh, Apart, Placed, NEW g \in Runners, RunSave(g), [Next]_vars, Calm',
           ~\E dst \in Accts, k \in Runners : CreateMigration(dst, k)
    PROVE  /\ Knows(run[g])'
           /\ run'[g].pc = "point" /\ run'[g].task = run[g].task /\ run'[g].todo = run[g].todo
<1>1. RunStep(g)
  BY DEF RunStep
<1>2. Kept /\ ItemsKept
  BY <1>1, RunKeeps
<1>3. run[g].pc = "save" /\ run[g] \in Job /\ First(run[g].todo) \in DOMAIN items[run[g].task] /\ Current(g) \in Item
      /\ Holds(run[g], items[run[g].task])
  BY InHand DEF RunSave, At
<1>4. run'[g].pc = "point" /\ run'[g].task = run[g].task /\ run'[g].todo = run[g].todo /\ run'[g].id = run[g].id
  BY <1>3, ToDoes DEF RunSave, Working, Looping
<1>5. PICK t \in TaskIds, id \in 1..MaxIds : run[g].task = t /\ run[g].id = id
  BY <1>3, InHand DEF Holds, Job
<1>6. Covered(t)'
  BY <1>2, <1>3, <1>5, CoveredStill DEF Placed, Knows, Looping
<1>7. PICK r \in Recs : r = items[t][First(run[g].todo)].rec /\ rows[r] # Never
  BY <1>3, <1>5, ItemThere, ItemHasRow
<1>8. RightId(r, id)
  BY <1>3, <1>5, <1>7 DEF Placed, Knows
<1>9. RightId(r, run[g].id)'
  <2>1. RightId(r, id)'
    BY <1>2, <1>7, <1>8 DEF Kept
  <2> QED
    BY <1>4, <1>5, <2>1 DEF RightId
<1>10. items'[t][First(run'[g].todo)].rec = r
  BY <1>2, <1>3, <1>4, <1>5, <1>7 DEF ItemsKept
<1> QED
  BY <1>4, <1>5, <1>6, <1>9, <1>10, KnowsId

LEMMA RunKnows ==
    ASSUME Shapes, Fresh, Apart, Placed, Moved, NEW g \in Runners, RunStep(g), [Next]_vars, Calm',
           ~\E dst \in Accts, k \in Runners : CreateMigration(dst, k)
    PROVE  Knows(run[g])'
<1>1. Kept /\ ItemsKept /\ ~SqlFails /\ Without({"db"})'
  BY RunKeeps, CalmHas
<1>2. CASE RunNext(g)
  BY <1>2, NextDoes, KnowsNothing
<1>3. CASE ~RunNext(g)
  <2>1. PICK t \in TaskIds : run[g].task = t /\ run[g].pc # "idle" /\ run[g] \in Job
    BY <1>3, RunMotion, InHand
  <2>2. Covered(t) => Covered(t)'
    BY <1>1, CoveredStill
  <2>3. run[g].pc \in {"reload"} \cup Looping => Covered(t)
    BY <2>1 DEF Placed, Knows
  <2>4. ASSUME NEW pc \in {"client", "item", "call", "bad"}, To(g, pc), Covered(t) PROVE Knows(run[g])'
    <3>1. run'[g].pc = pc /\ run'[g].task = t
      BY <2>1, <2>4, ToDoes DEF Working, Looping
    <3> QED
      BY <2>2, <2>4, <3>1, KnowsCovered
  <2>5. ASSUME NEW pc \in {"domain", "load", "close", "next"}, To(g, pc) PROVE Knows(run[g])'
    <3>1. run'[g].pc = pc
      BY <2>1, <2>5, ToDoes DEF Working
    <3> QED
      BY <3>1, KnowsNothing
  <2>6. ASSUME Become(g, Listed(g, items[t])), Covered(t) PROVE Knows(run[g])'
    <3>1. run'[g].pc = "client" /\ run'[g].task = t
      BY <2>1, <2>6, ListedDoes
    <3> QED
      BY <2>2, <2>6, <3>1, KnowsCovered
  <2>7. ASSUME NEW out \in Final, Finish(g, out), Covered(t) \/ out = "failed" PROVE Knows(run[g])'
    <3>1. run'[g].pc = "finish" /\ run'[g].task = t /\ run'[g].out = out
      BY <2>1, <2>7, FinishDoes
    <3> QED
      BY <2>2, <2>7, <3>1, KnowsCovered, KnowsNothing
  <2>8. CASE RunStart(g)
    <3>1. CASE Become(g, Idle)
      BY <3>1, RunMoves, IdleIsIdle, KnowsNothing DEF Shapes
    <3> QED
      BY <2>5, <2>8, <3>1 DEF RunStart
  <2>9. CASE RunDomain(g)
    BY <2>5, <2>9 DEF RunDomain
  <2>10. CASE RunLoad(g)
    <3>1. CASE Become(g, [run[g] EXCEPT !.pc = "create", !.snap = rows])
      <4>1. run'[g].pc = "create" /\ run'[g].snap = rows
        BY <2>10, <3>1, LoadDoes DEF RunLoad, At
      <4>2. rows' = rows
        BY <2>10 DEF RunLoad, data
      <4> QED
        BY <4>1, <4>2 DEF Knows, Looping, Present
    <3> QED
      BY <1>1, <2>1, <2>6, <2>10, <3>1, LoadCovered
  <2>11. CASE RunCreate(g)
    <3>1. Covered(run[g].task)' /\ run'[g].task = t /\ run'[g].pc = "reload"
      BY <1>1, <2>1, <2>11, CreateCovers
    <3>2. Covered(t)'
      BY <3>1 DEF Covered
    <3> QED
      BY <3>1, <3>2, KnowsCovered
  <2>12. CASE RunReload(g)
    BY <1>1, <2>1, <2>3, <2>6, <2>12 DEF RunReload, At
  <2>13. CASE RunClient(g)
    BY <2>3, <2>4, <2>7, <2>13 DEF RunClient, At, Looping, Final
  <2>14. CASE RunItem(g)
    <3>1. Outcome(run[g].won, run[g].lost) \in Final /\ Covered(t)
      BY <2>1, <2>3, <2>14, OutcomeFinal DEF RunItem, At, Job, Looping
    <3> QED
      BY <2>4, <2>7, <2>14, <3>1 DEF RunItem
  <2>15. CASE RunPoint(g) \/ RunBad(g)
    <3>1. run'[g].pc = "item" /\ run'[g].task = t /\ Covered(t)
      BY <2>1, <2>3, <2>15, NextItemDoes DEF RunPoint, RunBad, At, Looping
    <3> QED
      BY <2>2, <3>1, KnowsCovered
  <2>16. CASE RunFinish(g) \/ RunClose(g)
    BY <2>5, <2>16 DEF RunFinish, RunClose
  <2> QED
    BY <1>3, <2>8, <2>9, <2>10, <2>11, <2>12, <2>13, <2>14, <2>15, <2>16, CallKnows, SaveKnows DEF RunStep
<1> QED
  BY <1>2, <1>3

\* The rows settle when the newest task is complete.
LEMMA SettledRight ==
    ASSUME Shapes, Fresh, Apart, Placed, Kept, ItemsKept, ItemsRight, [Next]_vars, Calm',
           ~\E dst \in Accts, k \in Runners : CreateMigration(dst, k), Settled'
    PROVE  Settled \/ \A r \in Recs : Right(r)'
<1> SUFFICES ASSUME ~Settled PROVE \A r \in Recs : Right(r)'
  OBVIOUS
<1>1. PICK t \in TaskIds : Newest(t) /\ ~Complete(t)
  BY DEF Settled
<1>2. Complete(t)'
  BY <1>1, NewestStill DEF Settled
<1>3. \A i \in DOMAIN items'[t] : items'[t][i].st = "succeeded"
  BY <1>2 DEF Complete, Whole
<1>4. \A i \in Nat : ~Pointing(t, i)'
  <2>1. Apart' /\ tasks'[t].status \in Final
    BY <1>2, NextKeepsAlone, CalmHas DEF Alone, Complete
  <2> QED
    BY <2>1 DEF Pointing, Apart, Working, Looping, Unfinished, Final
<1>5. Covered(t)'
  <2>1. CASE items'[t] # <<>>
    BY <1>1, <2>1, CoveredStill DEF ItemsRight, Placed
  <2>2. CASE items'[t] = <<>>
    <3>1. items[t] = <<>>
      BY <2>2, NoItems, Unmoved DEF ItemsKept
    <3>2. tasks'[t].status = "succeeded" /\ tasks[t].status # "succeeded"
      BY <1>1, <1>2, <2>2, <3>1 DEF Complete, Whole, Final
    <3>3. PICK g \in Runners : RunFinish(g) /\ t = run[g].task /\ run[g].out = "succeeded"
      BY <3>1, <3>2, Succeeding
    <3>4. Covered(t)
      BY <3>3 DEF RunFinish, At, Placed, Knows
    <3> QED
      BY <3>4, CoveredStill
  <2> QED
    BY <2>1, <2>2
<1> SUFFICES ASSUME NEW r \in Recs PROVE Right(r)'
  OBVIOUS
<1>6. CASE ~\E i \in DOMAIN items'[t] : items'[t][i].rec = r
  BY <1>5, <1>6 DEF Covered
<1>7. ASSUME NEW i \in DOMAIN items'[t], items'[t][i].rec = r PROVE Right(r)'
  <2>1. i \in Nat
    BY NextKeepsShapes, NoItems, Unmoved DEF Shapes, Typed
  <2>2. CASE Right(items[t][i].rec)'
    BY <1>7, <2>2 DEF Right
  <2>3. CASE i \in DOMAIN items[t] /\ items[t][i].st = "succeeded" /\ ~Pointing(t, i)
    <3>1. items[t][i].rec = r
      BY <1>7, <2>3 DEF ItemsKept
    <3>2. Right(r)
      BY <1>1, <2>3, <3>1 DEF Placed
    <3> QED
      BY <3>2 DEF Kept
  <2> QED
    BY <1>1, <1>3, <1>4, <2>1, <2>2, <2>3 DEF ItemsRight
<1> QED
  BY <1>6, <1>7

LEMMA RunPlaced ==
    ASSUME Shapes, Fresh, Apart, Honest, Placed, Moved, NEW g \in Runners, RunStep(g), [Next]_vars, Calm',
           ~\E dst \in Accts, k \in Runners : CreateMigration(dst, k)
    PROVE  Placed'
<1>1. Kept /\ ItemsKept
  BY RunKeeps
<1>2. \A t \in TaskIds : Newest(t)' => Newest(t)
  BY NewestStill
<1>4. adm' = adm /\ \A h \in Runners : run'[h] = run[h] \/ h = g
  BY RunLeaves, LoadsOnly
<1>5. Knows(run[g])'
  BY RunKnows
<1>6. ASSUME NEW t \in TaskIds, NEW i \in DOMAIN items'[t], items'[t][i].st = "succeeded",
             i \in DOMAIN items[t] => items[t][i].st # "succeeded"
      PROVE  Pointing(t, i)'
  <2>1. RunSave(g) /\ t = run[g].task /\ i = First(run[g].todo)
    BY <1>6, ItemsMove
  <2>2. run'[g].pc = "point" /\ run'[g].task = t /\ First(run'[g].todo) = i
    BY <2>1, SaveKnows
  <2> QED
    BY <2>2 DEF Pointing
<1>7. ASSUME NEW t \in TaskIds, NEW i \in DOMAIN items[t], Pointing(t, i)
      PROVE  Pointing(t, i)' \/ Right(items[t][i].rec)'
  <2>1. PICK h \in Runners : run[h].pc = "point" /\ run[h].task = t /\ First(run[h].todo) = i
    BY <1>7 DEF Pointing
  <2>2. CASE h # g
    BY <1>4, <2>1, <2>2 DEF Pointing
  <2>3. CASE h = g
    <3>1. RunPoint(g)
      BY <2>1, <2>3 DEF RunStep, RunStart, RunDomain, RunLoad, RunCreate, RunReload, RunClient, RunItem, RunCall, RunSave,
         RunBad, RunFinish, RunClose, RunNext, At
    <3>2. PICK r \in Recs : r = items[t][i].rec
      BY ItemThere
    <3>3. Right(r)'
      BY <2>1, <2>3, <3>1, <3>2, RunKeeps DEF Current
    <3>4. items'[t][i].rec = r
      BY <1>1, <3>2 DEF ItemsKept
    <3> QED
      BY <3>3, <3>4 DEF Right
  <2> QED
    BY <2>2, <2>3
<1>8. ASSUME NEW t \in TaskIds, items'[t] # <<>>, items[t] = <<>> PROVE Covered(t)'
  <2>1. PICK i \in DOMAIN items'[t] : TRUE
    <3>1. items'[t] \in Seq(Item)
      BY RunStepShapes, Unmoved DEF Shapes, Typed
    <3> QED
      BY <1>8, <3>1, NoItems
  <2>2. RunCreate(g) /\ t = run[g].task
    BY <1>8, <2>1, ItemsMove
  <2>3. Covered(run[g].task)' /\ run'[g].task = t
    BY <2>2, CreateCovers, CalmHas
  <2> QED
    BY <2>3 DEF Covered
<1>9. ItemsRight
  <2> SUFFICES ASSUME NEW t \in TaskIds
               PROVE  /\ \A i \in DOMAIN items'[t] : items'[t][i].st = "succeeded" =>
                            \/ Right(items[t][i].rec)'
                            \/ Pointing(t, i)'
                            \/ i \in DOMAIN items[t] /\ items[t][i].st = "succeeded" /\ ~Pointing(t, i)
                      /\ items'[t] # <<>> => items[t] # <<>> \/ Covered(t)'
    BY DEF ItemsRight
  <2> QED
    BY <1>6, <1>7, <1>8
<1>3. Settled' => Settled \/ \A r \in Recs : Right(r)'
  BY <1>1, <1>9, SettledRight
<1> QED
  BY <1>1, <1>2, <1>3, <1>4, <1>5, <1>9, PlacedStill

\* A retry has the right id for its record, unless its task is superseded.
LEMMA CallMarks ==
    ASSUME Shapes, Apart, Moved, NEW d \in Admins, RetryCall(d), [Next]_vars, Calm', ~Poisoned',
           ~\E dst \in Accts, k \in Runners : CreateMigration(dst, k), adm'[d].pc = "mark"
    PROVE  RightId(items[adm[d].task][First(adm[d].todo)].rec, adm[d].id)'
<1>1. adm[d].pc = "call" /\ adm[d].todo # {} /\ UNCHANGED items /\ adm'[d].task = adm[d].task
      /\ Put(tasks[adm[d].task].dst, Retried(d)) /\ adm'[d].todo = adm[d].todo
      /\ adm'[d].id = IdAt(tasks[adm[d].task].dst, Retried(d))
  BY RetryCalled
<1>2. adm[d].task \in TaskIds /\ Exists(adm[d].task) /\ Retried(d) \in Recs
  BY <1>1, AdmThere
<1>3. PICK t \in TaskIds, r \in Recs, a \in Accts : t = adm[d].task /\ r = Retried(d) /\ a = tasks[t].dst
  BY <1>2, TaskThere DEF Shapes
<1>4. PICK id : id = IdAt(a, r)
  OBVIOUS
<1>5. adm'[d].task = t /\ adm'[d].todo = adm[d].todo /\ adm'[d].id = id
  BY <1>1, <1>3, <1>4
<1>6. ~Superseded(t)
  <2>1. ~Superseded(t)'
    BY <1>5 DEF Poisoned, Retrying, Superseded, Exists
  <2> QED
    BY <2>1, NewestStill
<1>7. dom'.home = a
  BY <1>2, <1>3, <1>6, HomeStill, CalmHas DEF Moved, Newest
<1>8. zone'[a][r] = id
  BY <1>1, <1>3, <1>4, PutDoes DEF Shapes
<1>9. items'[t][First(adm'[d].todo)].rec = r
  BY <1>1, <1>3, <1>5 DEF Retried
<1> QED
  BY <1>5, <1>7, <1>8, <1>9 DEF RightId

LEMMA AdminKeeps ==
    ASSUME Shapes, Fresh, Placed, NEW d \in Admins, AdminStep(d), [Next]_vars, Calm',
           ~\E dst \in Accts, k \in Runners : CreateMigration(dst, k)
    PROVE  Kept /\ ItemsKept /\ \A r \in Recs : RetryMark(d) /\ r = Retried(d) => Right(r)'
<1>1. ItemsKept
  <2>1. CASE RetryMark(d)
    BY <2>1, MarkDoes DEF ItemsKept
  <2> QED
    BY <2>1, AdminLeaves DEF ItemsKept
<1>2. CASE RetryMark(d)
  <2>1. /\ adm[d].pc = "mark" /\ Retried(d) \in Recs /\ adm[d].id \in 1..MaxIds
        /\ rows' = Repointed(Retried(d), adm[d].id) /\ UNCHANGED <<dom, zone, usr>>
    BY <1>2, MarkDoes, MarkDone, CalmHas
  <2>2. RightId(Retried(d), adm[d].id)
    BY <2>1 DEF Placed, Retried
  <2>3. PICK r \in Recs, id \in 1..MaxIds : r = Retried(d) /\ id = adm[d].id
    BY <2>1
  <2>4. Kept /\ Right(r)'
    BY <2>1, <2>2, <2>3, KeptPointed
  <2> QED
    BY <1>1, <2>3, <2>4
<1>3. CASE ~RetryMark(d)
  <2>1. rows' = rows /\ usr' = usr /\ dom'.home = dom.home /\ dom.home \in Accts
    BY <1>3, AdminLeaves, HomeStill, CalmHas, Unmoved DEF Domain
  <2>2. \A r \in Recs : zone[dom.home][r] # 0 => zone'[dom.home][r] = zone[dom.home][r]
    <3>1. CASE CleanupDelete(d)
      <4>1. ~SqlFails /\ Without({"cleaned"})'
        BY CalmHas
      <4>2. zone' = zone \/ tasks[adm[d].task].src # dom.home
        BY <3>1, <4>1 DEF CleanupDelete, Note, When, Without
      <4> QED
        BY <2>1, <3>1, <4>2, CleanupDone
    <3> QED
      BY <2>1, <3>1, AdminLeaves, CallAdds
  <2> QED
    BY <1>1, <1>3, <2>1, <2>2, KeptStill DEF Leaving
<1> QED
  BY <1>2, <1>3

LEMMA AdminPlaced ==
    ASSUME Shapes, Fresh, Apart, Honest, Placed, Moved, NEW d \in Admins, AdminStep(d), [Next]_vars, Calm', ~Poisoned',
           ~\E dst \in Accts, k \in Runners : CreateMigration(dst, k)
    PROVE  Placed'
<1>1. Kept /\ ItemsKept
  BY AdminKeeps
<1>2. \A t \in TaskIds : Newest(t)' => Newest(t)
  BY NewestStill
<1>4. run' = run
  BY AdminLeaves
<1>5. \A e \in Admins :
         adm'[e] = adm[e] \/ (adm[e].pc = "mark" => RightId(items[adm[e].task][First(adm[e].todo)].rec, adm[e].id))'
  <2> TAKE e \in Admins
  <2>1. CASE e # d
    BY <2>1, AdminLeaves
  <2>2. CASE e = d
    <3>1. adm'[d].pc = "mark" => RetryCall(d)
      BY AdminLeaves
    <3>2. (adm[d].pc = "mark" => RightId(items[adm[d].task][First(adm[d].todo)].rec, adm[d].id))'
      BY <3>1, CallMarks
    <3> QED
      BY <2>2, <3>2
  <2> QED
    BY <2>1, <2>2
<1>6. ASSUME NEW t \in TaskIds
      PROVE  /\ \A i \in DOMAIN items'[t] : items'[t][i].st = "succeeded" =>
                   \/ Right(items[t][i].rec)'
                   \/ Pointing(t, i)'
                   \/ i \in DOMAIN items[t] /\ items[t][i].st = "succeeded" /\ ~Pointing(t, i)
             /\ items'[t] # <<>> => items[t] # <<>> \/ Covered(t)'
  <2>1. CASE items' = items
    BY <1>4, <2>1 DEF Pointing
  <2>2. CASE RetryMark(d)
    <3>1. DOMAIN items'[t] = DOMAIN items[t]
      BY <2>2, MarkDoes
    <3>2. items'[t] # <<>> => items[t] # <<>>
      BY <3>1
    <3>3. ASSUME NEW i \in DOMAIN items'[t], items'[t][i].st = "succeeded", items[t][i].st # "succeeded"
          PROVE  Right(items[t][i].rec)'
      <4>1. t = adm[d].task /\ i = First(adm[d].todo)
        BY <2>2, <3>1, <3>3, MarkDoes
      <4>2. PICK r \in Recs : r = items[t][i].rec
        BY <3>1, ItemThere
      <4>3. Right(r)'
        BY <2>2, <4>1, <4>2, AdminKeeps DEF Retried
      <4>4. items'[t][i].rec = r
        BY <1>1, <3>1, <4>2 DEF ItemsKept
      <4> QED
        BY <4>3, <4>4 DEF Right
    <3>4. \A i \in DOMAIN items[t] : Pointing(t, i) => Pointing(t, i)'
      BY <1>4 DEF Pointing
    <3> QED
      BY <3>1, <3>2, <3>3, <3>4
  <2> QED
    BY <2>1, <2>2, AdminLeaves
<1>7. ItemsRight
  BY <1>6 DEF ItemsRight
<1>3. Settled' => Settled \/ \A r \in Recs : Right(r)'
  BY <1>1, <1>7, SettledRight
<1> QED
  BY <1>1, <1>2, <1>3, <1>4, <1>5, <1>7, PlacedStill

\* Where neither goroutine nor administrator moves, nor the items.
LEMMA QuietPlaced ==
    ASSUME Shapes, Fresh, Apart, Honest, Placed, Kept, UNCHANGED items, [Next]_vars, Calm',
           ~\E dst \in Accts, k \in Runners : CreateMigration(dst, k),
           \A h \in Runners : run'[h] = run[h] \/ (run[h].pc # "point" /\ run'[h].pc \in {"idle", "start"}),
           \A d \in Admins : adm'[d] = adm[d] \/ adm'[d].pc = "idle"
    PROVE  Placed'
<1>1. ItemsKept
  BY DEF ItemsKept
<1>2. \A t \in TaskIds : Newest(t)' => Newest(t)
  BY NewestStill
<1>4. \A t \in TaskIds, i \in Nat : Pointing(t, i) => Pointing(t, i)'
  BY DEF Pointing
<1>5. ItemsRight
  <2> SUFFICES ASSUME NEW t \in TaskIds, NEW i \in DOMAIN items[t]
               PROVE  Pointing(t, i) => Pointing(t, i)'
    BY DEF ItemsRight
  <2>1. items[t] \in Seq(Item)
    BY Unmoved
  <2> QED
    BY <1>4, <2>1
<1>3. Settled' => Settled \/ \A r \in Recs : Right(r)'
  BY <1>1, <1>5, SettledRight
<1>6. \A h \in Runners : run'[h] = run[h] \/ (run[h].pc # "idle" => Knows(run[h]))'
  BY KnowsNothing
<1> QED
  BY <1>1, <1>2, <1>3, <1>5, <1>6, PlacedStill

LEMMA UserPlaced ==
    ASSUME Shapes, Fresh, Apart, Honest, Placed, UserStep, [Next]_vars, Calm',
           ~\E dst \in Accts, k \in Runners : CreateMigration(dst, k)
    PROVE  Placed'
BY UserDone, KeptByUser, CalmHas, QuietPlaced

LEMMA RestPlaced ==
    ASSUME Shapes, Fresh, Apart, Honest, Placed, Crash \/ BootStep \/ UNCHANGED vars, [Next]_vars, Calm',
           ~\E dst \in Accts, k \in Runners : CreateMigration(dst, k)
    PROVE  Placed'
<1>1. UNCHANGED <<dom, items, rows, zone>>
  BY DEF Crash, BootStep, BootReset, BootList, vars, data, provider
<1>2. ASSUME \A r \in Recs : Leaving(r) => Leaving(r)' PROVE Kept
  BY <1>1, <1>2, KeptStill
<1>3. CASE Crash
  <2>1. ~HalfDone
    BY <1>3, CalmHas DEF Crash, Note, When, Without
  <2>2. Kept
    BY <1>2, <2>1 DEF Leaving, HalfDone
  <2>3. \A h \in Runners : run[h].pc # "point" /\ run'[h].pc = "idle"
    BY <1>3, <2>1, IdleIsIdle DEF Crash, HalfDone
  <2>4. \A d \in Admins : adm'[d].pc = "idle"
    BY <1>3, IdleIsIdle DEF Crash
  <2> QED
    BY <1>1, <2>2, <2>3, <2>4, QuietPlaced
<1>4. CASE BootReset \/ UNCHANGED vars
  <2>1. UNCHANGED <<run, adm, usr>>
    BY <1>4 DEF BootReset, vars
  <2> QED
    BY <1>1, <1>2, <2>1, QuietPlaced DEF Leaving
<1>5. CASE BootList
  <2>1. UNCHANGED <<adm, usr>>
    BY <1>5 DEF BootList
  <2>2. ASSUME NEW g \in Runners, run[g].pc = "idle", Pending # {}, Spawn(g, First(Pending)), NEW h \in Runners
        PROVE  run'[h] = run[h] \/ (run[h].pc # "point" /\ run'[h].pc \in {"idle", "start"})
    BY <2>2, FirstPending, Starts, RunMoves DEF Spawn, Shapes
  <2>3. \A h \in Runners : run'[h] = run[h] \/ (run[h].pc # "point" /\ run'[h].pc \in {"idle", "start"})
    BY <1>5, <2>2 DEF BootList
  <2> QED
    BY <1>1, <1>2, <2>1, <2>3, QuietPlaced DEF Leaving
<1> QED
  BY <1>3, <1>4, <1>5 DEF BootStep

\* A migration begins with everything to do.
LEMMA CreatePlaced ==
    ASSUME Shapes, Apart, NEW dst \in Accts, NEW g \in Runners, CreateMigration(dst, g)
    PROVE  Placed' \/ Poisoned'
<1>1. PICK t \in TaskIds : /\ ~Exists(t) /\ \A s \in TaskIds : Exists(s) <=> s < t
                           /\ run[g].pc = "idle" /\ run'[g] = Starting(t) /\ \A h \in Runners : h # g => run'[h] = run[h]
                           /\ tasks'[t].status = "pending" /\ tasks'[t].dst = dst
                           /\ \A s \in TaskIds : s # t => tasks'[s] = tasks[s]
  BY CreateMigrationShapes
<1>2. UNCHANGED <<items, adm>>
  BY DEF CreateMigration
<1>3. ASSUME NEW s \in TaskIds, Newest(s)' PROVE s = t
  <2>1. ~(t > s)
    BY <1>1, <1>3 DEF Newest, Superseded, Exists
  <2>2. s # t => Exists(s)
    BY <1>1, <1>3 DEF Newest, Exists
  <2> QED
    BY <1>1, <2>1, <2>2, Constants
<1>4. Newest(t)'
  <2>1. \A s \in TaskIds : s > t => tasks'[s].status = "none"
    <3> SUFFICES ASSUME NEW s \in TaskIds, s > t PROVE tasks'[s].status = "none"
      OBVIOUS
    <3>1. s # t /\ ~(s < t)
      BY Constants
    <3> QED
      BY <1>1, <3>1 DEF Exists
  <2> QED
    BY <1>1, <2>1 DEF Newest, Superseded, Exists
<1>5. ~Settled'
  BY <1>1, <1>4 DEF Settled, Complete, Final
<1>6. items'[t] = <<>>
  BY <1>1, <1>2 DEF Shapes, TasksOK
<1>7. \A h \in Runners : Knows(run[h])'
  <2> SUFFICES ASSUME NEW h \in Runners PROVE Knows(run[h])'
    OBVIOUS
  <2>1. CASE h = g
    BY <1>1, <2>1, Starts, KnowsNothing
  <2>2. CASE h # g
    <3>1. run[h].pc \notin Working
      BY AtNewest DEF CreateMigration, Blocks
    <3>2. run[h].pc \in {"idle", "close", "next"}
      BY <3>1, InHand DEF Job
    <3> QED
      BY <1>1, <2>2, <3>2, KnowsNothing
  <2> QED
    BY <2>1, <2>2
<1>8. ASSUME NEW d \in Admins, adm[d].pc = "mark" PROVE Poisoned'
  <2>1. PICK u \in TaskIds : u = adm[d].task /\ u < t
    BY <1>1, <1>8, AdmTask DEF Retrying
  <2>2. \E s \in TaskIds : s > u /\ tasks'[s].status # "none"
    BY <1>1, <2>1, Constants
  <2> QED
    BY <1>2, <1>8, <2>1, <2>2 DEF Poisoned, Retrying, Superseded, Exists
<1>9. CASE \A d \in Admins : adm[d].pc # "mark"
  <2>1. Placed'
    BY <1>2, <1>3, <1>5, <1>6, <1>7, <1>9 DEF Placed
  <2> QED
    BY <2>1
<1> QED
  BY <1>8, <1>9

LEMMA NextKeepsServed == ASSUME Shapes, Alone, Truthful, Fresh, Served, [Next]_vars PROVE Served'
<1> SUFFICES ASSUME Calm' PROVE Moved' /\ (Poisoned' \/ Placed')
  BY DEF Served, Calm
<1>1. Without(Misplaced)
  BY WithoutBefore DEF Calm, Misplaced
<1>2. Apart /\ Honest /\ Moved /\ (Poisoned \/ Placed)
  BY <1>1 DEF Alone, Truthful, Served, Misplaced, Without
<1>3. Moved'
  BY <1>2, MovedKept, CalmHas
<1>4. CASE Poisoned
  BY <1>2, <1>3, <1>4, PoisonStays, CalmHas
<1>5. ASSUME NEW dst \in Accts, NEW g \in Runners, CreateMigration(dst, g) PROVE Placed' \/ Poisoned'
  BY <1>2, <1>5, CreatePlaced
<1>6. CASE ~Poisoned' /\ Placed /\ ~\E dst \in Accts, g \in Runners : CreateMigration(dst, g)
  <2>1. ASSUME NEW g \in Runners, RunStep(g) PROVE Placed'
    BY <1>2, <1>6, <2>1, RunPlaced
  <2>2. ASSUME NEW d \in Admins, AdminStep(d) PROVE Placed'
    BY <1>2, <1>3, <1>6, <2>2, AdminPlaced
  <2>3. CASE UserStep
    BY <1>2, <1>3, <1>6, <2>3, UserPlaced
  <2>4. CASE Crash \/ BootStep \/ UNCHANGED vars
    BY <1>2, <1>3, <1>6, <2>4, RestPlaced
  <2> QED
    BY <1>3, <1>6, <2>1, <2>2, <2>3, <2>4 DEF Next
<1> QED
  BY <1>2, <1>3, <1>4, <1>5, <1>6

LEMMA ServedAlways == Spec => []Served
<1>1. ASSUME Init PROVE Served
  <2>1. \A t \in TaskIds : ~Newest(t) /\ items[t] = <<>>
    BY <1>1 DEF Init, Newest, Exists, Absent
  <2>2. \A r \in Recs : Right(r)
    <3>1. PICK home \in Accts, owned \in SUBSET Recs, id \in [Recs -> 1..Cardinality(Recs)] :
             /\ \A r, s \in Recs : r # s => id[r] # id[s]
             /\ dom = [home |-> home, state |-> "idle", ro |-> FALSE]
             /\ rows = [r \in Recs |-> IF r \in owned THEN id[r] ELSE Never]
             /\ zone = [a \in Accts |-> [r \in Recs |-> IF a = home /\ r \in owned THEN id[r] ELSE 0]]
      BY <1>1, Zenon DEF Init
    <3>2. dom.home = home
      BY <3>1
    <3> QED
      BY <3>1, <3>2 DEF Right, Present, Never
  <2>3. (\A d \in Admins : adm[d].pc = "idle") /\ \A g \in Runners : run[g].pc = "idle"
    BY <1>1, IdleIsIdle DEF Init
  <2> QED
    BY <2>1, <2>2, <2>3 DEF Served, Moved, Placed
<1> QED
  BY <1>1, ShapesAlways, AloneAlways, TruthfulAlways, FreshAlways, NextKeepsServed, PTL DEF Spec

-----------------------------------------------------------------------------
(* What the layers say of the runs' properties *)

LEMMA SomeInSet ==
    ASSUME NEW its, NEW st, Some(its, DOMAIN its, st)
    PROVE  st \in {its[i].st : i \in DOMAIN its}
BY DEF Some

LEMMA ShapesType == ASSUME Shapes PROVE TypeOK
<1>1. Typed
  BY DEF Shapes
<1>2. dom \in [home : Accts, state : States, ro : BOOLEAN]
  BY <1>1 DEF Typed, Domain
<1>3. \A t \in TaskIds : tasks[t] = Absent \/ tasks[t] \in [status : Final \cup {"pending", "running"}, src : Accts, dst : Accts]
  BY <1>1 DEF Typed, Task, Statuses
<1>4. \A t \in TaskIds : \A i \in DOMAIN items[t] :
         items[t][i] \in [rec : Recs, from : 1..MaxIds, st : {"pending", "running", "succeeded", "failed"}]
  <2> TAKE t \in TaskIds
  <2>1. items[t] \in Seq(Item)
    BY <1>1 DEF Typed
  <2> QED
    BY <2>1, NoItems DEF Item, ItemStates
<1>5. \A g \in Runners : run[g] = Idle \/ run[g].task \in TaskIds
  BY <1>1 DEF Typed, Job
<1>6. rows \in [Recs -> Deleted..MaxIds] /\ zone \in [Accts -> [Recs -> 0..MaxIds]] /\ nextId \in 1..(MaxIds + 1)
  BY <1>1 DEF Typed, Rows
<1> QED
  BY <1>2, <1>3, <1>4, <1>5, <1>6 DEF TypeOK

\* However finishing, restarting and creating interleave, a domain has one
\* unfinished migration at a time, as long as no two goroutines run one task.
THEOREM OneAtATimeOnly == Spec => []OneUnfinished
<1>1. Shapes /\ Alone => OneUnfinished
  <2> SUFFICES ASSUME Shapes, Alone PROVE OneUnfinished
    OBVIOUS
  <2>1. ASSUME Without({"overlap"}), NEW s \in TaskIds, NEW t \in TaskIds, Unfinished(s), Unfinished(t) PROVE s = t
    <3>1. ~Superseded(s) /\ ~Superseded(t) /\ Exists(s) /\ Exists(t)
      BY <2>1, UnfinishedThere DEF Alone, Apart
    <3>2. s \in Nat /\ t \in Nat
      BY Constants DEF TaskIds
    <3> QED
      BY <3>1, <3>2 DEF Superseded
  <2> QED
    BY <2>1, ShapesType DEF OneUnfinished
<1> QED
  BY <1>1, ShapesAlways, AloneAlways, PTL

\* While a migration is unfinished, through any restart, its domain refuses
\* the users' writes, unless a stale save or a late end wrote over the flag.
THEOREM ReadOnlyMeanwhile == Spec => []ReadOnlyWhileMigrating
<1>1. Shut => ReadOnlyWhileMigrating
  BY DEF Shut, ReadOnlyWhileMigrating
<1> QED
  BY <1>1, ShutAlways, PTL

\* The status a migration ends with, or that a retry gives it, is the truth
\* about its items: of a partial failure, once the retries of it that have the
\* right count to give have given it, and unless two of them have crossed.
THEOREM OutcomesTold == Spec => []OutcomeMatchesItems
<1>1. Truthful => OutcomeMatchesItems
  <2> SUFFICES ASSUME Truthful, Without({"db", "overlap", "uncounted"}), NEW t \in TaskIds
               PROVE  /\ tasks[t].status = "succeeded" => \A i \in DOMAIN items[t] : items[t][i].st = "succeeded"
                      /\ /\ tasks[t].status = "partial_failed"
                         /\ Without({"torn", "crossed"})
                         /\ ~\E d \in Admins : Counting(d, t)
                         => {"succeeded", "failed"} \subseteq {items[t][i].st : i \in DOMAIN items[t]}
    BY DEF OutcomeMatchesItems
  <2>1. Answers(t)
    BY DEF Truthful, Honest
  <2>2. CASE Told(tasks[t].status, items[t])
    BY <2>2, SomeInSet DEF Told
  <2>3. CASE /\ tasks[t].status = "partial_failed"
             /\ ~Without({"torn", "crossed"}) \/ \E d \in Admins : Counting(d, t)
    BY <2>3
  <2> QED
    BY <2>1, <2>2, <2>3 DEF Answers
<1> QED
  BY <1>1, TruthfulAlways, PTL

\* What a migration is for, for any number of records, accounts, migrations,
\* retries, restarts and faults: when a domain is at rest and says so, each row
\* holds the id its record has at the account that serves the domain, unless
\* one of the mishaps named has happened.
THEOREM RecordsServedAtHome == Spec => []ServedAtHome
<1>1. Served => ServedAtHome
  <2> SUFFICES ASSUME Served, Quiet, dom.state = "idle", Without(Misplaced), NEW r \in Present
               PROVE  rows[r] = zone[dom.home][r]
    BY DEF ServedAtHome, Misplaced
  <2>1. Moved /\ (Poisoned \/ Placed)
    BY DEF Served
  <2>2. ~Poisoned /\ ~Leaving(r)
    BY DEF Quiet, Poisoned, Retrying, Leaving
  <2>3. Settled
    BY <2>1 DEF Moved, Settled
  <2> QED
    BY <2>1, <2>2, <2>3 DEF Placed, Right, Present
<1> QED
  BY <1>1, ServedAlways, PTL
=============================================================================
