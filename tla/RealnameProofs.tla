--------------------------- MODULE RealnameProofs ---------------------------
(***************************************************************************)
(* Machine-checked proofs about Realname, for every set of users and       *)
(* requests, every number of applications and every settings.              *)
(***************************************************************************)
EXTENDS Realname, FiniteSetTheorems, WellFoundedInduction, TLAPS

Kinds == {"crossed", "doubled", "torn"}
Steps == {"idle", "check", "create", "pay", "credit", "start", "mark", "verify", "ask", "user", "review",
          "admin"}
Working == {"credit", "mark", "verify", "ask", "user", "review", "admin"}
Statuses == UnfinishedStatus \cup Answers
Application == [owner : Users, status : Statuses]
Job == [step : Steps, u : Users \cup {NoUser}, a : Apps \cup {NoApp},
        want : {"none", "pay", "pending"} \cup Reviews \cup Actions,
        saw : Statuses \cup {"none"}, known : SUBSET Apps]

Typed ==
    /\ cfg \in Settings
    /\ row \in [Users -> [status : {"unverified", "pending", "rejected", "verified"}, name : Apps \cup {NoApp}]]
    /\ app \in [Apps -> Application \cup {Absent}]
    /\ order \in [Apps -> {"none", "pending", "paid"}]
    /\ proc \in [Procs -> Job]
    /\ verdict \in [Users -> [a : Apps \cup {NoApp}, status : {"none", "unverified", "rejected", "verified"}]]
    /\ mishap \in [Kinds -> SUBSET Users]

\* Applications are numbered without gaps; what waits for its payment has an order.
AppsOK ==
    \A a \in Apps :
        /\ Exists(a) => \A b \in Apps : b < a => Exists(b)
        /\ order[a] # "none" => Exists(a)
        /\ app[a].status = "pending_payment" => order[a] # "none"
        /\ order[a] = "paid" => app[a].status # "pending_payment"

\* A name shown, and an application a verdict names, are the user's.
NamesOK ==
    \A u \in Users :
        /\ row[u].name # NoApp => row[u].status = "verified" /\ app[row[u].name].owner = u
        /\ verdict[u].a # NoApp => app[verdict[u].a].owner = u /\ verdict[u].status \in Reviews

\* What a request holds at its step, of its own application.
Holds(j, apps) ==
    /\ j.step # "idle" => j.u \in Users
    /\ j.step \in {"pay", "credit", "start", "mark", "verify", "ask", "user", "review"} =>
          j.a \in Apps /\ apps[j.a].owner = j.u
    /\ j.step = "admin" =>
          /\ j.want \in Actions
          /\ \/ j.a = NoApp /\ j.saw = "none"
             \/ j.a \in Apps /\ apps[j.a].owner = j.u /\ j.saw # "none"
    /\ j.step = "create" => j.known = {}
    /\ j.step = "user" => j.want \in {"pending", "rejected", "verified"}
    /\ j.step = "review" => j.want \in Reviews
    /\ j.step = "credit" /\ j.saw # "pending_payment" => apps[j.a].status # "pending_payment"

HoldsOK == \A p \in Procs : Holds(proc[p], app)

\* Two at work on one user are noticed.
CrossedOK ==
    \A p, q \in Procs : AtWork(p) /\ AtWork(q) /\ proc[p].u = proc[q].u /\ p # q =>
        proc[p].u \in mishap["crossed"]

\* What a request alone at work on its user knows of the application.
Current(j, apps) ==
    /\ j.step \in {"credit", "admin"} => j.saw = (IF j.a = NoApp THEN "none" ELSE apps[j.a].status)
    /\ j.step = "mark" => apps[j.a].status \in Startable
    /\ j.step \in {"verify", "ask"} => apps[j.a].status = "verifying"
    /\ j.step = "user" => apps[j.a].status \in {"verifying", IF j.want = "pending" THEN "paid" ELSE j.want}

CurrentOK(u) == \A p \in Procs : proc[p].u = u => Current(proc[p], app)

\* The unfinished applications of u.
Open(apps, u) == {a \in Apps : apps[a].owner = u /\ apps[a].status \in UnfinishedStatus}

\* One being verified is the only one, and the user is not verified yet.
Only(j, apps, status) ==
    /\ j.step \in {"mark", "verify", "ask", "user"} => Open(apps, j.u) \subseteq {j.a}
    /\ j.step \in {"mark", "verify", "ask"} \/ (j.step = "user" /\ j.want # "verified") => status # "verified"

OnlyOK(u) ==
    /\ \A a, b \in Open(app, u) : a = b
    /\ row[u].status = "verified" =>
          \A a \in Apps : app[a].owner = u => app[a].status \notin {"pending_payment", "paid"}
    /\ \A p \in Procs : proc[p].u = u => Only(proc[p], app, row[u].status)

\* What has been said of the user stands, or is about to be written.
Said(j, apps, v) ==
    /\ j.step \in {"verify", "ask"} => v.a # j.a
    /\ j.step = "user" =>
          IF j.want = "pending" THEN v = NoVerdict
          ELSE v = [a |-> j.a, status |-> j.want] /\ apps[j.a].status = j.want

Stands(v, r, apps) ==
    v # NoVerdict =>
        /\ r.status = v.status
        /\ v.a # NoApp => apps[v.a].status = v.status /\ (v.status = "verified" => r.name = v.a)

SaidOK(u) ==
    /\ \A p \in Procs : proc[p].u = u => Said(proc[p], app, verdict[u])
    /\ (\A p \in Procs : ~(proc[p].step = "user" /\ proc[p].u = u)) => Stands(verdict[u], row[u], app)

UserOK(u) ==
    /\ u \notin mishap["crossed"] => CurrentOK(u)
    /\ u \notin mishap["crossed"] \cup mishap["doubled"] => OnlyOK(u)
    /\ u \notin mishap["crossed"] \cup mishap["torn"] => SaidOK(u)

UsersOK == \A u \in Users : UserOK(u)

\* Somebody is at work on what waits.
AtIt(a, steps) == a \in left \/ \E p \in Procs : proc[p].a = a /\ proc[p].step \in steps
TakenUp ==
    \A a \in Apps :
        /\ app[a].status = "paid" => AtIt(a, {"start", "mark", "verify", "ask"})
        /\ app[a].status = "verifying" => AtIt(a, {"verify", "ask"})

IInv == Typed /\ AppsOK /\ NamesOK /\ HoldsOK /\ CrossedOK /\ UsersOK /\ TakenUp

-----------------------------------------------------------------------------
\* Lemmas about numbers and applications.

LEMMA Constants == NoUser \notin Users /\ MaxApps \in Nat /\ Apps = 1..MaxApps /\ NoApp = 0 /\ NoApp \notin Apps
                   /\ FirstSettings \subseteq Settings
BY ConstantsAssumption DEF NoUser, Apps, NoApp, Settings

\* A set of numbers that is not empty has a least one.
LEMMA Least ==
    ASSUME NEW S \in SUBSET Nat, S # {}
    PROVE  \E x \in S : \A y \in S : x <= y
<1>1. \E x \in S : \A y \in S : ~ (<<y, x>> \in OpToRel(<, Nat))
  BY NatLessThanWellFounded, WFMin
<1>2. PICK x \in S : \A y \in S : ~ (<<y, x>> \in OpToRel(<, Nat))
  BY <1>1
<1>3. \A y \in S : ~(y < x)
  BY <1>2 DEF OpToRel
<1> QED
  BY <1>3

\* A set of applications that is not empty has a last one.
LEMMA Greatest ==
    ASSUME NEW S \in SUBSET Apps, S # {}
    PROVE  \E x \in S : \A y \in S : y <= x
<1> DEFINE T == {MaxApps - x : x \in S}
<1>1. T \in SUBSET Nat /\ T # {}
  <2>1. \A x \in S : MaxApps - x \in Nat
    BY Constants
  <2> QED
    BY <2>1
<1>2. PICK t \in T : \A y \in T : t <= y
  BY <1>1, Least
<1>3. PICK x \in S : t = MaxApps - x
  BY <1>2
<1>4. ASSUME NEW y \in S PROVE y <= x
  <2>1. MaxApps - x <= MaxApps - y
    BY <1>2, <1>3
  <2> QED
    BY <2>1, Constants
<1> QED
  BY <1>4

LEMMA LatestIsOwned ==
    ASSUME NEW u
    PROVE  Latest(u) = NoApp \/ (Latest(u) \in Apps /\ app[Latest(u)].owner = u)
<1>1. CASE Owned(u) = {}
  BY <1>1 DEF Latest
<1>2. CASE Owned(u) # {}
  <2> DEFINE S == Owned(u)
  <2>1. S \in SUBSET Apps /\ S # {}
    BY <1>2 DEF Owned
  <2> HIDE DEF S
  <2>2. \E x \in S : \A y \in S : y <= x
    BY <2>1, Greatest
  <2>3. (CHOOSE a \in S : \A b \in S : b <= a) \in S
    BY <2>2
  <2>4. Latest(u) \in S
    BY <1>2, <2>3 DEF Latest, S
  <2> QED
    BY <2>4 DEF Owned, S
<1> QED
  BY <1>1, <1>2

LEMMA NextAppIsNew ==
    ASSUME \E a \in Apps : ~Exists(a)
    PROVE  NextApp \in Apps /\ ~Exists(NextApp) /\ \A b \in Apps : b < NextApp => Exists(b)
<1> DEFINE S == {a \in Apps : ~Exists(a)}
<1>1. S \in SUBSET Nat /\ S # {}
  BY Constants
<1>2. PICK x \in S : \A y \in S : x <= y
  BY <1>1, Least
<1>3. x \in Apps /\ ~Exists(x) /\ \A b \in Apps : b < x => Exists(b)
  <2>1. ASSUME NEW b \in Apps, b < x, ~Exists(b) PROVE FALSE
    <3>1. x <= b
      BY <1>2, <2>1
    <3> QED
      BY <2>1, <3>1, <1>1, <1>2
  <2> QED
    BY <1>2, <2>1
<1>4. \E a \in Apps : ~Exists(a) /\ \A b \in Apps : b < a => Exists(b)
  BY <1>3
<1> QED
  BY <1>4 DEF NextApp

-----------------------------------------------------------------------------
\* What a step of one request leaves as it is.

Grown == (\A k \in Kinds : mishap[k] \subseteq mishap'[k]) /\ left \subseteq left'

\* Applications keep their owners; only new ones wait for a payment.
Moves(apps, next, u) ==
    \A a \in Apps :
        /\ next[a] # apps[a] => next[a].owner = u /\ (apps[a].owner = u \/ apps[a] = Absent)
        /\ apps[a] # Absent => next[a].owner = apps[a].owner
        /\ apps[a] # Absent /\ next[a].status = "pending_payment" => apps[a].status = "pending_payment"

LEMMA HoldsKept ==
    ASSUME NEW j, NEW apps, NEW next, NEW u \in Users, Holds(j, apps), Moves(apps, next, u)
    PROVE  Holds(j, next)
<1>1. ASSUME j.a \in Apps, j.u \in Users, apps[j.a].owner = j.u PROVE apps[j.a] # Absent
  BY <1>1, Constants DEF Absent
<1> QED
  BY <1>1 DEF Holds, Moves

\* The other users of a request's step.
LEMMA Untouched ==
    ASSUME Typed, HoldsOK, NamesOK, NEW w \in Users, NEW u \in Users, w # u, UserOK(w), Grown, Moves(app, app', u),
           row'[w] = row[w], verdict'[w] = verdict[w],
           \A q \in Procs : proc'[q].u = w /\ proc'[q].step # "idle" => proc'[q] = proc[q],
           \A q \in Procs : proc[q].step = "user" /\ proc[q].u = w => proc'[q] = proc[q]
    PROVE  UserOK(w)'
<1>1. ASSUME NEW a \in Apps, app[a].owner = w \/ app'[a].owner = w PROVE app'[a] = app[a]
  BY <1>1, Constants DEF Moves, Absent
<1>2. Open(app', w) = Open(app, w)
  BY <1>1 DEF Open
<1>3. /\ w \in mishap["crossed"] => w \in mishap'["crossed"]
      /\ w \in mishap["doubled"] => w \in mishap'["doubled"]
      /\ w \in mishap["torn"] => w \in mishap'["torn"]
  BY DEF Grown, Kinds
<1>4. ASSUME NEW q \in Procs, proc'[q].u = w, proc'[q].step # "idle"
      PROVE  /\ proc'[q] = proc[q] /\ Holds(proc[q], app)
             /\ proc[q].step \in Working => app'[proc[q].a] = app[proc[q].a] \/ proc[q].a = NoApp
  <2>1. proc'[q] = proc[q] /\ Holds(proc[q], app)
    BY <1>4 DEF HoldsOK
  <2> QED
    BY <1>1, <1>4, <2>1 DEF Holds, Working
<1>5. ASSUME w \notin mishap'["crossed"] PROVE CurrentOK(w)'
  <2> SUFFICES ASSUME NEW q \in Procs, proc'[q].u = w, proc'[q].step # "idle" PROVE Current(proc'[q], app')
    BY DEF CurrentOK, Current
  <2>1. Current(proc[q], app)
    BY <1>3, <1>4, <1>5 DEF UserOK, CurrentOK
  <2>2. proc'[q] = proc[q] /\ (proc[q].step \in Working => app'[proc[q].a] = app[proc[q].a] \/ proc[q].a = NoApp)
    BY <1>4
  <2>3. proc[q].step \in {"mark", "verify", "ask", "user"} => proc[q].a # NoApp
    BY <1>4, Constants DEF Holds
  <2> QED
    BY <2>1, <2>2, <2>3 DEF Current, Working
<1>6. ASSUME w \notin mishap'["crossed"] \cup mishap'["doubled"] PROVE OnlyOK(w)'
  <2>1. OnlyOK(w)
    BY <1>3, <1>6 DEF UserOK
  <2>2. \A a, b \in Open(app', w) : a = b
    BY <1>2, <2>1 DEF OnlyOK
  <2>3. row'[w].status = "verified" =>
          \A a \in Apps : app'[a].owner = w => app'[a].status \notin {"pending_payment", "paid"}
    BY <1>1, <2>1 DEF OnlyOK
  <2>4. ASSUME NEW q \in Procs, proc'[q].u = w PROVE Only(proc'[q], app', row'[w].status)
    <3>1. CASE proc'[q].step = "idle"
      BY <3>1 DEF Only
    <3>2. CASE proc'[q].step # "idle"
      <4>1. proc'[q] = proc[q] /\ Only(proc[q], app, row[w].status)
        BY <1>4, <2>1, <2>4, <3>2 DEF OnlyOK
      <4> QED
        BY <1>2, <2>4, <4>1 DEF Only
    <3> QED
      BY <3>1, <3>2
  <2> QED
    BY <2>2, <2>3, <2>4 DEF OnlyOK
<1>7. ASSUME w \notin mishap'["crossed"] \cup mishap'["torn"] PROVE SaidOK(w)'
  <2>1. SaidOK(w)
    BY <1>3, <1>7 DEF UserOK
  <2>2. ASSUME NEW q \in Procs, proc'[q].u = w PROVE Said(proc'[q], app', verdict'[w])
    <3>1. CASE proc'[q].step = "idle"
      BY <3>1 DEF Said
    <3>2. CASE proc'[q].step # "idle"
      <4>1. proc'[q] = proc[q] /\ Said(proc[q], app, verdict[w])
        BY <1>4, <2>1, <2>2, <3>2 DEF SaidOK
      <4>2. proc[q].step = "user" => app'[proc[q].a] = app[proc[q].a]
        BY <1>4, <2>2, <3>2, Constants DEF Working, Holds
      <4> QED
        BY <4>1, <4>2 DEF Said
    <3> QED
      BY <3>1, <3>2
  <2>3. ASSUME \A q \in Procs : ~(proc'[q].step = "user" /\ proc'[q].u = w)
        PROVE  Stands(verdict'[w], row'[w], app')
    <3>1. \A q \in Procs : ~(proc[q].step = "user" /\ proc[q].u = w)
      BY <2>3
    <3>2. Stands(verdict[w], row[w], app)
      BY <2>1, <3>1 DEF SaidOK
    <3>3. verdict[w].a # NoApp => verdict[w].a \in Apps /\ app[verdict[w].a].owner = w
      BY DEF NamesOK, Typed
    <3> QED
      BY <1>1, <3>2, <3>3 DEF Stands
  <2> QED
    BY <2>2, <2>3 DEF SaidOK
<1> QED
  BY <1>5, <1>6, <1>7 DEF UserOK

\* The user a request works on, when no other works on him.
LEMMA Touched ==
    ASSUME Typed, NEW u \in Users, NEW p \in Procs,
           \A q \in Procs \ {p} : proc'[q] = proc[q],
           u \notin mishap'["crossed"] => \A q \in Procs \ {p} : proc[q].u = u => proc[q].step \notin Working,
           u \notin mishap'["crossed"] => (proc'[p].u = u => Current(proc'[p], app')),
           u \notin mishap'["crossed"] \cup mishap'["doubled"] =>
               /\ \A a, b \in Open(app', u) : a = b
               /\ row'[u].status = "verified" =>
                     \A a \in Apps : app'[a].owner = u => app'[a].status \notin {"pending_payment", "paid"}
               /\ proc'[p].u = u => Only(proc'[p], app', row'[u].status),
           u \notin mishap'["crossed"] \cup mishap'["torn"] =>
               /\ proc'[p].u = u => Said(proc'[p], app', verdict'[u])
               /\ ~(proc'[p].step = "user" /\ proc'[p].u = u) => Stands(verdict'[u], row'[u], app')
    PROVE  UserOK(u)'
<1>1. ASSUME u \notin mishap'["crossed"], NEW q \in Procs, q # p, proc'[q].u = u
      PROVE  proc'[q].step \notin Working
  BY <1>1
<1>2. ASSUME u \notin mishap'["crossed"], NEW q \in Procs, q # p, proc'[q].u = u
      PROVE  /\ Current(proc'[q], app') /\ Only(proc'[q], app', row'[u].status)
             /\ Said(proc'[q], app', verdict'[u])
  <2>1. proc'[q].step \notin Working
    BY <1>1, <1>2
  <2> QED
    BY <2>1 DEF Current, Only, Said, Working
<1>3. u \notin mishap'["crossed"] => CurrentOK(u)'
  BY <1>2 DEF CurrentOK
<1>4. u \notin mishap'["crossed"] \cup mishap'["doubled"] => OnlyOK(u)'
  BY <1>2 DEF OnlyOK
<1>5. u \notin mishap'["crossed"] \cup mishap'["torn"] => SaidOK(u)'
  BY <1>2 DEF SaidOK
<1> QED
  BY <1>3, <1>4, <1>5 DEF UserOK

\* A step of request p on user u.
LEMMA Acts ==
    ASSUME IInv, NEW u \in Users, NEW p \in Procs, Typed', AppsOK', NamesOK', TakenUp',
           proc[p].step = "idle" \/ proc[p].u = u, proc'[p].step = "idle" \/ proc'[p].u = u,
           \A q \in Procs \ {p} : proc'[q] = proc[q],
           Grown, Moves(app, app', u), \A w \in Users \ {u} : row'[w] = row[w] /\ verdict'[w] = verdict[w],
           Holds(proc'[p], app'),
           u \notin mishap'["crossed"] => \A q \in Procs \ {p} : proc[q].u = u => proc[q].step \notin Working,
           u \notin mishap'["crossed"] => (proc'[p].u = u => Current(proc'[p], app')),
           u \notin mishap'["crossed"] \cup mishap'["doubled"] =>
               /\ \A a, b \in Open(app', u) : a = b
               /\ row'[u].status = "verified" =>
                     \A a \in Apps : app'[a].owner = u => app'[a].status \notin {"pending_payment", "paid"}
               /\ proc'[p].u = u => Only(proc'[p], app', row'[u].status),
           u \notin mishap'["crossed"] \cup mishap'["torn"] =>
               /\ proc'[p].u = u => Said(proc'[p], app', verdict'[u])
               /\ ~(proc'[p].step = "user" /\ proc'[p].u = u) => Stands(verdict'[u], row'[u], app')
    PROVE  IInv'
<1>1. UserOK(u)'
  BY Touched DEF IInv
<1>2. ASSUME NEW w \in Users, w # u PROVE UserOK(w)'
  <2>1. UserOK(w)
    BY DEF IInv, UsersOK
  <2>2. \A q \in Procs : proc'[q].u = w /\ proc'[q].step # "idle" => proc'[q] = proc[q]
    BY <1>2
  <2>3. \A q \in Procs : proc[q].step = "user" /\ proc[q].u = w => proc'[q] = proc[q]
    BY <1>2
  <2> QED
    BY <1>2, <2>1, <2>2, <2>3, Untouched DEF IInv
<1>3. UsersOK'
  BY <1>1, <1>2 DEF UsersOK
<1>4. HoldsOK'
  <2>1. ASSUME NEW q \in Procs, q # p PROVE Holds(proc'[q], app')
    <3>1. Holds(proc[q], app) /\ proc'[q] = proc[q]
      BY <2>1 DEF IInv, HoldsOK
    <3> QED
      BY <3>1, HoldsKept
  <2> QED
    BY <2>1 DEF HoldsOK
<1>5. CrossedOK'
  <2> SUFFICES ASSUME NEW q \in Procs, NEW r \in Procs, proc'[q].step \in Working, proc'[r].step \in Working,
                      proc'[q].u = proc'[r].u, q # r
               PROVE  proc'[q].u \in mishap'["crossed"]
    BY DEF CrossedOK, AtWork, Working
  <2>1. CASE q # p /\ r # p
    <3>1. proc[q].u \in mishap["crossed"]
      BY <2>1 DEF IInv, CrossedOK, AtWork, Working
    <3> QED
      BY <2>1, <3>1 DEF Grown, Kinds
  <2>2. CASE q = p \/ r = p
    <3>1. proc'[p].u = u
      BY <2>2 DEF Working
    <3> QED
      BY <2>2, <3>1
  <2> QED
    BY <2>1, <2>2
<1> QED
  BY <1>3, <1>4, <1>5 DEF IInv

\* A step of a request that is not at work on anyone, before or after.
LEMMA Quiet ==
    ASSUME IInv, NEW p \in Procs, NEW j \in Job, proc' = [proc EXCEPT ![p] = j],
           proc[p].step \notin Working, j.step \notin Working, Holds(j, app),
           UNCHANGED <<row, app, order, verdict, mishap>>, cfg' \in Settings, TakenUp'
    PROVE  IInv'
<1>1. Typed'
  BY DEF IInv, Typed
<1>2. proc'[p] = j /\ \A q \in Procs : q # p => proc'[q] = proc[q]
  BY DEF IInv, Typed
<1>3. AppsOK' /\ NamesOK'
  BY DEF IInv, AppsOK, NamesOK, Exists
<1>4. HoldsOK'
  BY <1>2 DEF IInv, HoldsOK
<1>5. CrossedOK'
  BY <1>2 DEF IInv, CrossedOK, AtWork, Working
<1>6. ASSUME NEW u \in Users PROVE UserOK(u)'
  <2>1. UserOK(u)
    BY DEF IInv, UsersOK
  <2>2. Current(j, app) /\ Only(j, app, row[u].status) /\ Said(j, app, verdict[u])
    BY DEF Current, Only, Said, Working
  <2>3. CurrentOK(u) => CurrentOK(u)'
    BY <1>2, <2>2 DEF CurrentOK
  <2>4. OnlyOK(u) => OnlyOK(u)'
    BY <1>2, <2>2 DEF OnlyOK
  <2>5. SaidOK(u) => SaidOK(u)'
    <3> SUFFICES ASSUME SaidOK(u) PROVE SaidOK(u)'
      OBVIOUS
    <3>1. \A q \in Procs : proc'[q].u = u => Said(proc'[q], app', verdict'[u])
      BY <1>2, <2>2 DEF SaidOK
    <3>2. (\A q \in Procs : ~(proc'[q].step = "user" /\ proc'[q].u = u)) =>
            \A q \in Procs : ~(proc[q].step = "user" /\ proc[q].u = u)
      BY <1>2 DEF Working
    <3> QED
      BY <3>1, <3>2 DEF SaidOK
  <2> QED
    BY <2>1, <2>3, <2>4, <2>5 DEF UserOK
<1> QED
  BY <1>1, <1>3, <1>4, <1>5, <1>6 DEF IInv, UsersOK

\* Somebody is at work on what waits after a step of p.
LEMMA Waits ==
    ASSUME IInv, NEW p \in Procs, \A q \in Procs \ {p} : proc'[q] = proc[q], left \subseteq left',
           \A a \in Apps :
               app'[a] # app[a] \/ (proc[p].a = a /\ proc[p].step \in {"start", "mark", "verify", "ask"}) =>
                   /\ app'[a].status = "paid" =>
                         a \in left' \/ (proc'[p].a = a /\ proc'[p].step \in {"start", "mark", "verify", "ask"})
                         \/ \E q \in Procs \ {p} : proc[q].a = a /\ proc[q].step \in {"start", "mark", "verify", "ask"}
                   /\ app'[a].status = "verifying" =>
                         a \in left' \/ (proc'[p].a = a /\ proc'[p].step \in {"verify", "ask"})
                         \/ \E q \in Procs \ {p} : proc[q].a = a /\ proc[q].step \in {"verify", "ask"}
    PROVE  TakenUp'
<1> SUFFICES ASSUME NEW a \in Apps
             PROVE  /\ app'[a].status = "paid" => AtIt(a, {"start", "mark", "verify", "ask"})'
                    /\ app'[a].status = "verifying" => AtIt(a, {"verify", "ask"})'
  BY DEF TakenUp
<1>1. CASE app'[a] # app[a] \/ (proc[p].a = a /\ proc[p].step \in {"start", "mark", "verify", "ask"})
  BY <1>1 DEF AtIt
<1>2. CASE ~(app'[a] # app[a] \/ (proc[p].a = a /\ proc[p].step \in {"start", "mark", "verify", "ask"}))
  <2>1. /\ app[a].status = "paid" => AtIt(a, {"start", "mark", "verify", "ask"})
        /\ app[a].status = "verifying" => AtIt(a, {"verify", "ask"})
    BY DEF IInv, TakenUp
  <2> QED
    BY <1>2, <2>1 DEF AtIt
<1> QED
  BY <1>1, <1>2

\* Requests that end or are cut off with the rows as they are.
LEMMA GivesUp ==
    ASSUME IInv, UNCHANGED <<row, app, order, verdict>>, cfg' \in Settings, mishap' \in [Kinds -> SUBSET Users],
           Grown, proc' \in [Procs -> Job], \A q \in Procs : proc'[q] = proc[q] \/ proc'[q] = Idle,
           \A q \in Procs : proc[q].step = "user" /\ proc'[q] = Idle => proc[q].u \in mishap'["torn"],
           \A q \in Procs : proc[q].step \in {"start", "mark", "verify", "ask"} /\ proc'[q] = Idle =>
               \/ proc[q].a \in left'
               \/ proc[q].step = "start" /\ app[proc[q].a].status \notin Startable
    PROVE  IInv'
<1>1. Idle.step = "idle"
  BY DEF Idle
<1>2. Typed' /\ AppsOK' /\ NamesOK'
  BY DEF IInv, Typed, AppsOK, NamesOK, Exists
<1>3. HoldsOK'
  <2> SUFFICES ASSUME NEW q \in Procs PROVE Holds(proc'[q], app)
    BY DEF HoldsOK
  <2>1. Holds(proc[q], app)
    BY DEF IInv, HoldsOK
  <2>2. Holds(Idle, app)
    BY <1>1 DEF Holds
  <2> QED
    BY <2>1, <2>2
<1>4. CrossedOK'
  BY <1>1 DEF IInv, CrossedOK, AtWork, Working, Grown, Kinds
<1>5. ASSUME NEW u \in Users PROVE UserOK(u)'
  <2>1. /\ u \in mishap["crossed"] => u \in mishap'["crossed"]
        /\ u \in mishap["doubled"] => u \in mishap'["doubled"]
        /\ u \in mishap["torn"] => u \in mishap'["torn"]
    BY DEF Grown, Kinds
  <2>2. Current(Idle, app) /\ Only(Idle, app, row[u].status) /\ Said(Idle, app, verdict[u])
    BY <1>1 DEF Current, Only, Said
  <2>3. CurrentOK(u) => CurrentOK(u)'
    BY <2>2 DEF CurrentOK
  <2>4. OnlyOK(u) => OnlyOK(u)'
    BY <2>2 DEF OnlyOK
  <2>5. SaidOK(u) /\ u \notin mishap'["torn"] => SaidOK(u)'
    <3> SUFFICES ASSUME SaidOK(u), u \notin mishap'["torn"] PROVE SaidOK(u)'
      OBVIOUS
    <3>1. \A q \in Procs : proc'[q].u = u => Said(proc'[q], app', verdict'[u])
      BY <2>2 DEF SaidOK
    <3>2. (\A q \in Procs : ~(proc'[q].step = "user" /\ proc'[q].u = u)) =>
            \A q \in Procs : ~(proc[q].step = "user" /\ proc[q].u = u)
      OBVIOUS
    <3> QED
      BY <3>1, <3>2 DEF SaidOK
  <2>6. UserOK(u)
    BY DEF IInv, UsersOK
  <2> QED
    BY <2>1, <2>3, <2>4, <2>5, <2>6 DEF UserOK
<1>6. TakenUp'
  <2> SUFFICES ASSUME NEW a \in Apps
               PROVE  /\ app[a].status = "paid" => AtIt(a, {"start", "mark", "verify", "ask"})'
                      /\ app[a].status = "verifying" => AtIt(a, {"verify", "ask"})'
    BY DEF TakenUp
  <2>1. /\ app[a].status = "paid" => AtIt(a, {"start", "mark", "verify", "ask"})
        /\ app[a].status = "verifying" => AtIt(a, {"verify", "ask"})
    BY DEF IInv, TakenUp
  <2>2. ASSUME app[a].status = "paid" PROVE AtIt(a, {"start", "mark", "verify", "ask"})'
    <3>1. "paid" \in Startable
      BY DEF Startable
    <3> QED
      BY <2>1, <2>2, <3>1 DEF AtIt, Grown
  <2>3. ASSUME app[a].status = "verifying" PROVE AtIt(a, {"verify", "ask"})'
    BY <2>1, <2>3 DEF AtIt, Grown
  <2> QED
    BY <2>2, <2>3
<1> QED
  BY <1>2, <1>3, <1>4, <1>5, <1>6 DEF IInv, UsersOK

LEMMA IdleIsJob == Idle \in Job /\ Idle.step = "idle" /\ Idle.u = NoUser /\ Idle.a = NoApp /\ Idle.known = {}
                   /\ Idle.want = "none" /\ Idle.saw = "none"
BY DEF Idle, Job, Steps

\* The same of one request.
LEMMA Ends ==
    ASSUME IInv, NEW p \in Procs, Done(p), UNCHANGED <<cfg, row, app, order, verdict>>, Grown,
           mishap' \in [Kinds -> SUBSET Users],
           proc[p].step = "user" => proc[p].u \in mishap'["torn"],
           proc[p].step \in {"start", "mark", "verify", "ask"} =>
               \/ proc[p].a \in left'
               \/ proc[p].step = "start" /\ app[proc[p].a].status \notin Startable
    PROVE  IInv'
<1>1. proc \in [Procs -> Job] /\ cfg \in Settings
  BY DEF IInv, Typed
<1>2. proc' = [proc EXCEPT ![p] = Idle]
  BY DEF Done, Set
<1>3. /\ proc' \in [Procs -> Job]
      /\ \A q \in Procs : proc'[q] = proc[q] \/ proc'[q] = Idle
      /\ \A q \in Procs : q # p => proc'[q] = proc[q]
  BY <1>1, <1>2, IdleIsJob
<1>4. ASSUME NEW q \in Procs, proc'[q] = Idle, proc[q].step # "idle" PROVE q = p
  BY <1>3, <1>4, IdleIsJob
<1>5. \A q \in Procs : proc[q].step = "user" /\ proc'[q] = Idle => proc[q].u \in mishap'["torn"]
  BY <1>4
<1>6. \A q \in Procs : proc[q].step \in {"start", "mark", "verify", "ask"} /\ proc'[q] = Idle =>
               \/ proc[q].a \in left'
               \/ proc[q].step = "start" /\ app[proc[q].a].status \notin Startable
  BY <1>4
<1> QED
  BY <1>1, <1>3, <1>5, <1>6, GivesUp

\* A request that begins, or goes on before it is at work on a user.
LEMMA Begins ==
    ASSUME IInv, NEW p \in Procs, NEW j \in Job, Set(p, j), j.step \in {"check", "create", "pay", "start"},
           proc[p].step \in {"idle", "check"}, Holds(j, app), UNCHANGED <<cfg, rows, ghosts>>
    PROVE  IInv'
<1>1. proc' = [proc EXCEPT ![p] = j] /\ UNCHANGED <<cfg, row, app, order, verdict, mishap, left>>
  BY DEF Set, rows, ghosts
<1>2. \A q \in Procs : q # p => proc'[q] = proc[q]
  BY <1>1 DEF IInv, Typed
<1>3. TakenUp'
  <2>1. \A a \in Apps : ~(app'[a] # app[a] \/ (proc[p].a = a /\ proc[p].step \in {"start", "mark", "verify", "ask"}))
    BY <1>1
  <2> QED
    BY <1>1, <1>2, <2>1, Waits
<1>4. proc[p].step \notin Working /\ j.step \notin Working /\ cfg' \in Settings
  BY <1>1 DEF Working, IInv, Typed
<1> QED
  BY <1>1, <1>3, <1>4, Quiet

-----------------------------------------------------------------------------
\* The requests.

LEMMA SubmitStep ==
    ASSUME IInv, NEW p \in Procs, NEW u \in Users, Submit(p, u)
    PROVE  IInv'
<1> DEFINE j == [Idle EXCEPT !.step = "check", !.u = u, !.want = IF cfg.fee THEN "pay" ELSE "none"]
<1>1. Set(p, j) /\ UNCHANGED <<cfg, rows, ghosts>> /\ proc[p].step = "idle"
  BY IdleIsJob DEF Submit
<1>2. j.step = "check" /\ j.u = u /\ j \in Job
  BY Constants DEF Idle, Job, Steps
<1> HIDE DEF j
<1>3. Holds(j, app)
  BY <1>2 DEF Holds
<1> QED
  BY <1>1, <1>2, <1>3, Begins

LEMMA CheckStep ==
    ASSUME IInv, NEW p \in Procs, CheckPending(p)
    PROVE  IInv'
<1>1. proc[p] \in Job /\ Holds(proc[p], app) /\ proc[p].step = "check"
  BY DEF CheckPending, IInv, Typed, HoldsOK
<1>2. UNCHANGED <<cfg, rows, ghosts>>
  BY DEF CheckPending
<1>3. CASE Unfinished(proc[p].u) # {}
  <2>1. Done(p) /\ Grown /\ mishap' \in [Kinds -> SUBSET Users]
    BY <1>2, <1>3 DEF CheckPending, Grown, ghosts, IInv, Typed
  <2> QED
    BY <1>1, <1>2, <2>1, Ends DEF rows, ghosts
<1>4. CASE Unfinished(proc[p].u) = {}
  <2> DEFINE j == [proc[p] EXCEPT !.step = "create", !.known = {}]
  <2>1. Set(p, j)
    BY <1>4 DEF CheckPending
  <2>2. j \in Job /\ j.step = "create" /\ j.u = proc[p].u /\ j.known = {}
    BY <1>1 DEF Job, Steps
  <2> HIDE DEF j
  <2>3. Holds(j, app)
    BY <1>1, <2>2 DEF Holds
  <2> QED
    BY <1>1, <1>2, <2>1, <2>2, <2>3, Begins
<1> QED
  BY <1>3, <1>4

\* A request for an application of u, by notice or by retry.
LEMMA TakesUp ==
    ASSUME IInv, NEW p \in Procs, NEW u, NEW a \in Apps, app[a].owner = u, Exists(a), NEW s \in {"pay", "start"},
           Set(p, [Idle EXCEPT !.step = s, !.u = u, !.a = a]), proc[p].step = "idle",
           UNCHANGED <<cfg, rows, ghosts>>
    PROVE  IInv'
<1> DEFINE j == [Idle EXCEPT !.step = s, !.u = u, !.a = a]
<1>1. u \in Users
  BY DEF IInv, Typed, Application, Exists
<1>2. j \in Job /\ j.step = s /\ j.u = u /\ j.a = a
  BY <1>1 DEF Idle, Job, Steps
<1> HIDE DEF j
<1>3. Holds(j, app)
  BY <1>1, <1>2 DEF Holds
<1>4. Set(p, j)
  BY DEF j
<1> QED
  BY <1>2, <1>3, <1>4, Begins

LEMMA RetryStep ==
    ASSUME IInv, NEW p \in Procs,
           \/ \E u \in Users : UserRetry(p, u)
           \/ \E a \in Apps : Exists(a) /\ (Callback(p, a) \/ AdminRetry(p, a))
    PROVE  IInv'
<1>1. ASSUME NEW u \in Users, UserRetry(p, u) PROVE IInv'
  <2> DEFINE a == Latest(u)
  <2>1. a \in Apps /\ app[a].owner = u
    BY <1>1, LatestIsOwned DEF UserRetry, StatusOf
  <2> HIDE DEF a
  <2>2. Exists(a)
    BY <2>1, Constants DEF Exists, Absent
  <2>3. Set(p, [Idle EXCEPT !.step = "start", !.u = u, !.a = a]) /\ proc[p].step = "idle"
        /\ UNCHANGED <<cfg, rows, ghosts>>
    BY <1>1, IdleIsJob DEF UserRetry, a
  <2> QED
    BY <2>1, <2>2, <2>3, TakesUp
<1>2. ASSUME NEW a \in Apps, Exists(a), Callback(p, a) PROVE IInv'
  BY <1>2, TakesUp, IdleIsJob DEF Callback
<1>3. ASSUME NEW a \in Apps, Exists(a), AdminRetry(p, a) PROVE IInv'
  BY <1>3, TakesUp, IdleIsJob DEF AdminRetry
<1> QED
  BY <1>1, <1>2, <1>3

-----------------------------------------------------------------------------
\* A step that writes one application.

\* A status other than "pending_payment".
LEMMA StatusMoves ==
    ASSUME IInv, NEW a \in Apps, app[a].owner \in Users, NEW s \in Statuses \ {"pending_payment"}, Status(a, s),
           order' = order \/ order' = [order EXCEPT ![a] = "paid"]
    PROVE  /\ app' \in [Apps -> Application \cup {Absent}]
           /\ order' \in [Apps -> {"none", "pending", "paid"}]
           /\ app'[a].owner = app[a].owner /\ app'[a].status = s /\ \A b \in Apps \ {a} : app'[b] = app[b]
           /\ AppsOK' /\ Moves(app, app', app[a].owner)
<1>1. app \in [Apps -> Application \cup {Absent}] /\ order \in [Apps -> {"none", "pending", "paid"}]
  BY DEF IInv, Typed
<1>2. app[a] # Absent /\ app[a] \in Application
  BY <1>1, Constants DEF Absent
<1>3. app' = [app EXCEPT ![a].status = s]
  BY DEF Status
<1>4. /\ app'[a].owner = app[a].owner /\ app'[a].status = s /\ \A b \in Apps \ {a} : app'[b] = app[b]
      /\ app' \in [Apps -> Application \cup {Absent}] /\ app'[a] \in Application
  BY <1>1, <1>2, <1>3 DEF Application
<1>5. order' \in [Apps -> {"none", "pending", "paid"}] /\ \A b \in Apps \ {a} : order'[b] = order[b]
  BY <1>1
<1>6. app'[a] # Absent
  BY <1>4, Constants DEF Application, Absent
<1>7. \A b \in Apps : (app'[b] # Absent) = (app[b] # Absent)
  BY <1>2, <1>4, <1>6
<1>8. AppsOK'
  BY <1>2, <1>4, <1>5, <1>7 DEF IInv, AppsOK, Exists
<1>9. Moves(app, app', app[a].owner)
  BY <1>2, <1>4 DEF Moves
<1> QED
  BY <1>4, <1>5, <1>8, <1>9

\* Names and verdicts when the step does not write them.
LEMMA NamesKept ==
    ASSUME IInv, NEW u \in Users, Moves(app, app', u), UNCHANGED <<row, verdict>>
    PROVE  NamesOK'
<1> SUFFICES ASSUME NEW w \in Users
             PROVE  /\ row[w].name # NoApp => row[w].status = "verified" /\ app'[row[w].name].owner = w
                    /\ verdict[w].a # NoApp => app'[verdict[w].a].owner = w /\ verdict[w].status \in Reviews
  BY DEF NamesOK
<1>1. /\ row[w].name # NoApp => row[w].status = "verified" /\ app[row[w].name].owner = w
      /\ verdict[w].a # NoApp => app[verdict[w].a].owner = w /\ verdict[w].status \in Reviews
  BY DEF IInv, NamesOK
<1>2. row[w].name \in Apps \cup {NoApp} /\ verdict[w].a \in Apps \cup {NoApp}
  BY DEF IInv, Typed
<1>3. \A a \in Apps : app[a].owner = w => app'[a].owner = w
  BY Constants DEF Moves, Absent
<1> QED
  BY <1>1, <1>2, <1>3

\* One alone at work on his user.
LEMMA Alone ==
    ASSUME IInv, Grown, NEW p \in Procs, proc[p].step \in Working, proc[p].u \notin mishap'["crossed"]
    PROVE  \A q \in Procs \ {p} : proc[q].u = proc[p].u => proc[q].step \notin Working
BY DEF IInv, CrossedOK, AtWork, Working, Grown, Kinds

LEMMA CreatedApp ==
    ASSUME IInv, NEW u \in Users, NEW s \in {"pending_payment", "verifying"}, NEW a, a = NextApp,
           \E b \in Apps : ~Exists(b), app' = [app EXCEPT ![a] = [owner |-> u, status |-> s]],
           order' = IF s = "pending_payment" THEN [order EXCEPT ![a] = "pending"] ELSE order
    PROVE  /\ a \in Apps /\ app[a] = Absent /\ app' \in [Apps -> Application \cup {Absent}]
           /\ order' \in [Apps -> {"none", "pending", "paid"}]
           /\ app'[a].owner = u /\ app'[a].status = s /\ \A b \in Apps \ {a} : app'[b] = app[b]
           /\ AppsOK' /\ Moves(app, app', u) /\ order[a] = "none"
<1>1. app \in [Apps -> Application \cup {Absent}] /\ order \in [Apps -> {"none", "pending", "paid"}]
  BY DEF IInv, Typed
<1>2. a \in Apps /\ app[a] = Absent /\ \A b \in Apps : b < a => app[b] # Absent
  BY NextAppIsNew DEF Exists
<1>3. [owner |-> u, status |-> s] \in Application
  BY DEF Application, Statuses, UnfinishedStatus
<1>4. /\ app' \in [Apps -> Application \cup {Absent}] /\ app'[a] = [owner |-> u, status |-> s]
      /\ \A b \in Apps \ {a} : app'[b] = app[b]
  BY <1>1, <1>2, <1>3
<1>5. order' \in [Apps -> {"none", "pending", "paid"}] /\ \A b \in Apps \ {a} : order'[b] = order[b]
  BY <1>1, <1>2
<1>6. app'[a].owner = u /\ app'[a].status = s /\ app'[a] # Absent
  BY <1>4, Constants DEF Absent
<1>7. order[a] = "none"
  BY <1>1, <1>2 DEF IInv, AppsOK, Exists
<1>8. order'[a] = IF s = "pending_payment" THEN "pending" ELSE "none"
  BY <1>1, <1>2, <1>7
<1>9. AppsOK'
  <2>1. \A b, c \in Apps : app'[b] # Absent /\ c < b => app'[c] # Absent
    <3> SUFFICES ASSUME NEW b \in Apps, NEW c \in Apps, app'[b] # Absent, c < b PROVE app'[c] # Absent
      OBVIOUS
    <3>1. CASE b = a
      BY <1>2, <1>4, <1>6, <3>1
    <3>2. CASE b # a
      BY <1>4, <1>6, <3>2 DEF IInv, AppsOK, Exists
    <3> QED
      BY <3>1, <3>2
  <2>2. \A b \in Apps : /\ order'[b] # "none" => app'[b] # Absent
                        /\ app'[b].status = "pending_payment" => order'[b] # "none"
                        /\ order'[b] = "paid" => app'[b].status # "pending_payment"
    BY <1>4, <1>5, <1>6, <1>8 DEF IInv, AppsOK, Exists
  <2> QED
    BY <2>1, <2>2 DEF AppsOK, Exists
<1>10. Moves(app, app', u)
  BY <1>2, <1>4, <1>6 DEF Moves
<1> QED
  BY <1>2, <1>4, <1>5, <1>6, <1>7, <1>9, <1>10

\* What Enter says of the user.
LEMMA Entered ==
    ASSUME IInv, NEW p \in Procs, NEW u \in Users, NEW doubles \in BOOLEAN, Enter(p, u, doubles)
    PROVE  /\ mishap' \in [Kinds -> SUBSET Users] /\ \A k \in Kinds : mishap[k] \subseteq mishap'[k]
           /\ u \notin mishap'["crossed"] => \A q \in Procs \ {p} : proc[q].u = u => proc[q].step \notin Working
           /\ u \notin mishap'["doubled"] => ~doubles
           /\ mishap'["torn"] = mishap["torn"]
<1>1. mishap \in [Kinds -> SUBSET Users]
  BY DEF IInv, Typed
<1>2. /\ mishap' \in [Kinds -> SUBSET Users]
      /\ mishap'["crossed"] = IF Crosses(p, u) THEN mishap["crossed"] \cup {u} ELSE mishap["crossed"]
      /\ mishap'["doubled"] = IF doubles THEN mishap["doubled"] \cup {u} ELSE mishap["doubled"]
      /\ mishap'["torn"] = mishap["torn"]
  BY <1>1 DEF Enter, Kinds
<1>3. Crosses(p, u) => u \in mishap'["crossed"]
  BY <1>2
<1> QED
  BY <1>2, <1>3 DEF Crosses, AtWork, Working, Kinds

LEMMA CreateStep ==
    ASSUME IInv, NEW p \in Procs, Create(p)
    PROVE  IInv'
<1> DEFINE u == proc[p].u
           a == NextApp
<1>1. /\ proc[p] \in Job /\ proc[p].step = "create" /\ u \in Users /\ proc[p].known = {}
      /\ \E b \in Apps : ~Exists(b)
      /\ UNCHANGED <<cfg, row, verdict, left>>
  BY DEF Create, IInv, HoldsOK, Holds, Typed
<1>2. ASSUME NEW s \in {"pending_payment", "verifying"},
             app' = [app EXCEPT ![a] = [owner |-> u, status |-> s]],
             order' = IF s = "pending_payment" THEN [order EXCEPT ![a] = "pending"] ELSE order,
             Enter(p, u, Doubles(u, {})), NEW j \in Job, proc' = [proc EXCEPT ![p] = j],
             IF s = "pending_payment" THEN j = Idle
             ELSE j.step = "verify" /\ j.u = u /\ j.a = a
      PROVE  IInv'
    <2> HIDE DEF a, u
    <2>1. /\ a \in Apps /\ app[a] = Absent /\ app' \in [Apps -> Application \cup {Absent}]
          /\ order' \in [Apps -> {"none", "pending", "paid"}]
          /\ app'[a].owner = u /\ app'[a].status = s /\ \A b \in Apps \ {a} : app'[b] = app[b]
          /\ AppsOK' /\ Moves(app, app', u) /\ order[a] = "none"
      <3>1. a = NextApp
        BY DEF a
      <3>2. u \in Users /\ \E b \in Apps : ~Exists(b)
        BY <1>1
      <3>3. /\ app' = [app EXCEPT ![a] = [owner |-> u, status |-> s]]
            /\ order' = IF s = "pending_payment" THEN [order EXCEPT ![a] = "pending"] ELSE order
        BY <1>2
      <3> QED
        BY <3>1, <3>2, <3>3, CreatedApp
    <2>2. Doubles(u, {}) \in BOOLEAN
      BY DEF Doubles
    <2>3. /\ mishap' \in [Kinds -> SUBSET Users] /\ \A k \in Kinds : mishap[k] \subseteq mishap'[k]
          /\ u \notin mishap'["crossed"] => \A q \in Procs \ {p} : proc[q].u = u => proc[q].step \notin Working
          /\ u \notin mishap'["doubled"] => ~Doubles(u, {})
          /\ mishap'["torn"] = mishap["torn"]
      BY <1>1, <1>2, <2>2, Entered
    <2>4. Grown
      BY <1>1, <2>3 DEF Grown
    <2>5. /\ proc' \in [Procs -> Job] /\ proc'[p] = j /\ \A q \in Procs \ {p} : proc'[q] = proc[q]
      BY <1>2 DEF IInv, Typed
    <2>6. Typed'
      BY <1>1, <2>1, <2>3, <2>5 DEF IInv, Typed
    <2>7. NamesOK'
      BY <1>1, <2>1, NamesKept
    <2>8. j.step = "idle" \/ (j.step = "verify" /\ j.u = u /\ j.a = a /\ s = "verifying")
      BY <1>2, IdleIsJob
    <2>9. j.step = "idle" => s = "pending_payment"
      BY <1>2, <2>8
    <2>10. TakenUp'
      <3>1. \A b \in Apps : (app'[b] # app[b] \/ (proc[p].a = b /\ proc[p].step \in {"start", "mark", "verify", "ask"}))
                             => b = a
        BY <1>1, <2>1
      <3>2. app'[a].status = "verifying" => proc'[p].a = a /\ proc'[p].step = "verify"
        BY <2>1, <2>5, <2>8, <2>9
      <3>3. app'[a].status # "paid"
        BY <2>1
      <3> QED
        BY <1>1, <2>5, <3>1, <3>2, <3>3, Waits
    <2>11. Holds(j, app')
      BY <1>1, <2>1, <2>8 DEF Holds
    <2>12. Current(j, app')
      BY <2>1, <2>8 DEF Current
    <2>13. ASSUME u \notin mishap'["doubled"]
           PROVE  Open(app, u) = {} /\ row'[u].status # "verified"
      <3>1. ~Doubles(u, {})
        BY <2>3, <2>13
      <3> QED
        BY <1>1, <3>1 DEF Doubles, Unfinished, Owned, Open
    <2>14. ASSUME u \notin mishap'["doubled"]
           PROVE  Open(app', u) \subseteq {a}
      BY <2>1, <2>13, <2>14 DEF Open
    <2>15. ASSUME u \notin mishap'["doubled"] PROVE Only(j, app', row'[u].status)
      BY <2>8, <2>13, <2>14, <2>15 DEF Only
    <2>16. ASSUME u \notin mishap'["crossed"] \cup mishap'["torn"]
           PROVE  Said(j, app', verdict'[u]) /\ Stands(verdict'[u], row'[u], app')
      <3>1. \A q \in Procs : ~(proc[q].step = "user" /\ proc[q].u = u)
        BY <1>1, <2>3, <2>16 DEF Working
      <3>2. u \notin mishap["crossed"] \cup mishap["torn"]
        BY <2>3, <2>16 DEF Kinds
      <3>3. Stands(verdict[u], row[u], app)
        BY <1>1, <3>1, <3>2 DEF IInv, UsersOK, UserOK, SaidOK
      <3>4. verdict[u].a # NoApp => verdict[u].a \in Apps /\ verdict[u].a # a
        BY <1>1, <2>1, Constants DEF IInv, NamesOK, Typed, Absent
      <3>5. verdict[u].a # a
        BY <2>1, <3>4, Constants
      <3> QED
        BY <1>1, <2>1, <2>8, <3>3, <3>4, <3>5 DEF Said, Stands
    <2>17. proc'[p] = j
      BY <2>5
    <2>18. u \notin mishap'["crossed"] \cup mishap'["doubled"] =>
               /\ \A b, c \in Open(app', u) : b = c
               /\ row'[u].status = "verified" =>
                     \A b \in Apps : app'[b].owner = u => app'[b].status \notin {"pending_payment", "paid"}
               /\ proc'[p].u = u => Only(proc'[p], app', row'[u].status)
      BY <2>13, <2>14, <2>15, <2>17
    <2>19. u \notin mishap'["crossed"] \cup mishap'["torn"] =>
               /\ proc'[p].u = u => Said(proc'[p], app', verdict'[u])
               /\ ~(proc'[p].step = "user" /\ proc'[p].u = u) => Stands(verdict'[u], row'[u], app')
      BY <2>16, <2>17
    <2>20. \A w \in Users \ {u} : row'[w] = row[w] /\ verdict'[w] = verdict[w]
      BY <1>1
    <2>21. proc[p].u = u
      BY DEF u
    <2> QED
      BY <1>1, <2>1, <2>3, <2>4, <2>5, <2>6, <2>7, <2>8, <2>10, <2>11, <2>12, <2>17, <2>18, <2>19, <2>20, <2>21, Acts
<1>3. CASE CreatePaid(p)
  <2>1. proc' = [proc EXCEPT ![p] = Idle]
    BY <1>3 DEF CreatePaid, Done, Set
  <2>2. /\ app' = [app EXCEPT ![a] = [owner |-> u, status |-> "pending_payment"]]
        /\ order' = [order EXCEPT ![a] = "pending"]
        /\ Enter(p, u, Doubles(u, {}))
    BY <1>1, <1>3 DEF CreatePaid
  <2> HIDE DEF a, u
  <2> QED
    BY <1>2, <2>1, <2>2, IdleIsJob
<1>4. CASE CreateFree(p)
  <2> DEFINE j == [Idle EXCEPT !.step = "verify", !.u = u, !.a = a]
  <2>1. proc' = [proc EXCEPT ![p] = j]
    BY <1>4 DEF CreateFree, Set
  <2>2. /\ app' = [app EXCEPT ![a] = [owner |-> u, status |-> "verifying"]]
        /\ order' = order
        /\ Enter(p, u, Doubles(u, {}))
    BY <1>1, <1>4 DEF CreateFree
  <2>3. a \in Apps
    BY <1>1, NextAppIsNew
  <2> HIDE DEF a, u
  <2>4. j \in Job /\ j.step = "verify" /\ j.u = u /\ j.a = a
    BY <1>1, <2>3 DEF Idle, Job, Steps
  <2> HIDE DEF j
  <2> QED
    BY <1>2, <2>1, <2>2, <2>4
<1>5. CASE CreateRefused(p)
  <2>1. Done(p) /\ UNCHANGED <<app, order, mishap>>
    BY <1>5 DEF CreateRefused
  <2>2. order' = order
    BY <2>1
  <2>3. Grown /\ mishap' \in [Kinds -> SUBSET Users]
    BY <1>1, <2>1 DEF Grown, IInv, Typed
  <2> QED
    BY <1>1, <2>1, <2>2, <2>3, Ends
<1> QED
  BY <1>3, <1>4, <1>5 DEF Create

LEMMA Known ==
    ASSUME IInv, Grown, NEW u \in Users
    PROVE  /\ u \notin mishap'["crossed"] => CurrentOK(u)
           /\ u \notin mishap'["crossed"] \cup mishap'["doubled"] => OnlyOK(u)
           /\ u \notin mishap'["crossed"] \cup mishap'["torn"] => SaidOK(u)
<1>1. UserOK(u)
  BY DEF IInv, UsersOK
<1> QED
  BY <1>1 DEF UserOK, Grown, Kinds

\* Where nobody is about to write the user's row, the verdict stands.
LEMMA KnownVerdict ==
    ASSUME IInv, Grown, NEW u \in Users, NEW p \in Procs, proc[p].step # "user",
           u \notin mishap'["crossed"] \cup mishap'["torn"],
           \A q \in Procs \ {p} : proc[q].u = u => proc[q].step \notin Working
    PROVE  Stands(verdict[u], row[u], app)
<1>1. \A q \in Procs : ~(proc[q].step = "user" /\ proc[q].u = u)
  BY DEF Working
<1> QED
  BY <1>1, Known DEF SaidOK

LEMMA NoMoves == ASSUME NEW u, app' = app PROVE Moves(app, app', u)
BY DEF Moves

LEMMA PayStep ==
    ASSUME IInv, NEW p \in Procs, Pay(p)
    PROVE  IInv'
<1> DEFINE u == proc[p].u
           a == proc[p].a
<1>1. /\ proc[p] \in Job /\ proc[p].step = "pay" /\ u \in Users /\ a \in Apps /\ app[a].owner = u
      /\ UNCHANGED <<cfg, row, app, order, verdict, left>>
  BY DEF Pay, rows, IInv, HoldsOK, Holds, Typed
<1>2. CASE Done(p) /\ UNCHANGED mishap
  <2>1. Grown /\ mishap' \in [Kinds -> SUBSET Users]
    BY <1>1, <1>2 DEF Grown, IInv, Typed
  <2> QED
    BY <1>1, <1>2, <2>1, Ends
<1>3. CASE Set(p, [proc[p] EXCEPT !.step = "credit", !.saw = app[a].status]) /\ MarkIf(Crosses(p, u), "crossed", u)
  <2> DEFINE j == [proc[p] EXCEPT !.step = "credit", !.saw = app[a].status]
  <2>1. app[a].status \in Statuses
    BY <1>1, Constants DEF IInv, Typed, Application, Absent
  <2>2. j \in Job /\ j.step = "credit" /\ j.u = u /\ j.a = a /\ j.saw = app[a].status
    BY <1>1, <2>1 DEF Job, Steps
  <2>3. proc' = [proc EXCEPT ![p] = j]
    BY <1>3 DEF Set
  <2> HIDE DEF j
  <2>4. proc' \in [Procs -> Job] /\ proc'[p] = j /\ \A q \in Procs \ {p} : proc'[q] = proc[q]
    BY <2>2, <2>3 DEF IInv, Typed
  <2>5. /\ mishap' \in [Kinds -> SUBSET Users] /\ \A k \in Kinds : mishap[k] \subseteq mishap'[k]
        /\ Crosses(p, u) => u \in mishap'["crossed"]
    BY <1>1, <1>3 DEF MarkIf, Mark, Kinds, IInv, Typed
  <2>6. Grown
    BY <1>1, <2>5 DEF Grown
  <2>7. u \notin mishap'["crossed"] => \A q \in Procs \ {p} : proc[q].u = u => proc[q].step \notin Working
    BY <2>5 DEF Crosses, AtWork, Working
  <2>8. Typed' /\ AppsOK' /\ NamesOK'
    BY <1>1, <2>4, <2>5 DEF IInv, Typed, AppsOK, NamesOK, Exists
  <2>9. TakenUp'
    <3>1. \A b \in Apps : ~(app'[b] # app[b] \/ (proc[p].a = b /\ proc[p].step \in {"start", "mark", "verify", "ask"}))
      BY <1>1
    <3> QED
      BY <1>1, <2>4, <3>1, Waits
  <2>10. Holds(j, app') /\ Current(j, app') /\ Only(j, app', row'[u].status) /\ Said(j, app', verdict'[u])
    BY <1>1, <2>2, Constants DEF Holds, Current, Only, Said
  <2>11. u \notin mishap'["crossed"] \cup mishap'["doubled"] =>
               /\ \A b, c \in Open(app', u) : b = c
               /\ row'[u].status = "verified" =>
                     \A b \in Apps : app'[b].owner = u => app'[b].status \notin {"pending_payment", "paid"}
    BY <1>1, <2>6, Known DEF OnlyOK
  <2>12. u \notin mishap'["crossed"] \cup mishap'["torn"] => Stands(verdict'[u], row'[u], app')
    BY <1>1, <2>6, <2>7, KnownVerdict
  <2>13. Moves(app, app', u)
    BY <1>1, NoMoves
  <2>14. \A w \in Users \ {u} : row'[w] = row[w] /\ verdict'[w] = verdict[w]
    BY <1>1
  <2>15. proc[p].u = u /\ proc'[p].u = u
    BY <2>2, <2>4
  <2> HIDE DEF u, a
  <2> QED
    BY <1>1, <2>4, <2>6, <2>7, <2>8, <2>9, <2>10, <2>11, <2>12, <2>13, <2>14, <2>15, Acts
<1> QED
  BY <1>2, <1>3 DEF Pay

LEMMA HandleStep ==
    ASSUME IInv, NEW p \in Procs, HandlePaymentSuccess(p)
    PROVE  IInv'
<1> DEFINE u == proc[p].u
           a == proc[p].a
<1>1. /\ proc[p] \in Job /\ proc[p].step = "credit" /\ u \in Users /\ a \in Apps /\ app[a].owner = u
      /\ proc[p].saw # "pending_payment" => app[a].status # "pending_payment"
      /\ UNCHANGED <<cfg, row, verdict, left, mishap>>
  BY DEF HandlePaymentSuccess, ghosts, IInv, HoldsOK, Holds, Typed
<1>2. Grown
  BY <1>1 DEF Grown
<1>3. u \notin mishap'["crossed"] => \A q \in Procs \ {p} : proc[q].u = u => proc[q].step \notin Working
  BY <1>1, <1>2, Alone DEF Working
<1>4. CASE Done(p) /\ UNCHANGED <<order, app>>
  <2>1. mishap' \in [Kinds -> SUBSET Users]
    BY <1>1 DEF IInv, Typed
  <2> QED
    BY <1>1, <1>2, <1>4, <2>1, Ends
<1>5. CASE /\ order' = [order EXCEPT ![a] = "paid"]
           /\ IF proc[p].saw = "pending_payment" THEN Status(a, "paid") ELSE UNCHANGED app
           /\ Set(p, [proc[p] EXCEPT !.step = "start", !.saw = "none"])
  <2> DEFINE j == [proc[p] EXCEPT !.step = "start", !.saw = "none"]
  <2>1. j \in Job /\ j.step = "start" /\ j.u = u /\ j.a = a
    BY <1>1 DEF Job, Steps
  <2>2. proc' = [proc EXCEPT ![p] = j]
    BY <1>5 DEF Set
  <2> HIDE DEF j
  <2>3. proc' \in [Procs -> Job] /\ proc'[p] = j /\ \A q \in Procs \ {p} : proc'[q] = proc[q]
    BY <2>1, <2>2 DEF IInv, Typed
  <2> HIDE DEF u, a
  <2>4. /\ app' \in [Apps -> Application \cup {Absent}]
        /\ order' \in [Apps -> {"none", "pending", "paid"}]
        /\ app'[a].owner = u /\ \A b \in Apps \ {a} : app'[b] = app[b]
        /\ AppsOK' /\ Moves(app, app', u)
        /\ app'[a].status = IF proc[p].saw = "pending_payment" THEN "paid" ELSE app[a].status
        /\ proc[p].saw # "pending_payment" => app' = app
    <3>1. CASE proc[p].saw = "pending_payment"
      <4>1. "paid" \in Statuses \ {"pending_payment"} /\ Status(a, "paid") /\ order' = [order EXCEPT ![a] = "paid"]
        BY <1>5, <3>1 DEF Statuses, UnfinishedStatus
      <4> QED
        BY <1>1, <3>1, <4>1, StatusMoves
    <3>2. CASE proc[p].saw # "pending_payment"
      <4>1. app' = app /\ order' = [order EXCEPT ![a] = "paid"]
        BY <1>5, <3>2
      <4>2. order' \in [Apps -> {"none", "pending", "paid"}] /\ \A b \in Apps \ {a} : order'[b] = order[b]
        BY <4>1 DEF IInv, Typed
      <4>3. app[a] # Absent /\ app[a].status # "pending_payment"
        BY <1>1, <3>2, Constants DEF Absent
      <4>4. AppsOK'
        BY <4>1, <4>2, <4>3 DEF IInv, AppsOK, Exists
      <4> QED
        BY <1>1, <3>2, <4>1, <4>2, <4>4, NoMoves DEF IInv, Typed
    <3> QED
      BY <3>1, <3>2
  <2>5. Typed'
    BY <1>1, <2>3, <2>4 DEF IInv, Typed
  <2>6. NamesOK'
    BY <1>1, <2>4, NamesKept
  <2>7. TakenUp'
    <3>1. \A b \in Apps : (app'[b] # app[b] \/ (proc[p].a = b /\ proc[p].step \in {"start", "mark", "verify", "ask"}))
                           => app'[b].status = "paid" /\ proc'[p].a = b /\ proc'[p].step = "start"
      BY <1>1, <2>1, <2>3, <2>4
    <3> QED
      BY <1>1, <2>3, <3>1, Waits
  <2>8. Holds(j, app') /\ Current(j, app') /\ Only(j, app', row'[u].status) /\ Said(j, app', verdict'[u])
    BY <1>1, <2>1, <2>4 DEF Holds, Current, Only, Said
  <2>9. proc[p].u = u /\ proc'[p].u = u /\ proc[p].a = a
    BY <2>1, <2>3 DEF u, a
  <2>10. u \notin mishap'["crossed"] => proc[p].saw = app[a].status
    <3>1. u \notin mishap'["crossed"] => Current(proc[p], app)
      BY <1>1, <1>2, <2>9, Known DEF CurrentOK
    <3>2. a # NoApp
      BY <1>1, Constants
    <3> QED
      BY <1>1, <2>9, <3>1, <3>2 DEF Current
  <2>11. u \notin mishap'["crossed"] \cup mishap'["doubled"] =>
               /\ \A b, c \in Open(app', u) : b = c
               /\ row'[u].status = "verified" =>
                     \A b \in Apps : app'[b].owner = u => app'[b].status \notin {"pending_payment", "paid"}
    <3> SUFFICES ASSUME u \notin mishap'["crossed"] \cup mishap'["doubled"]
                 PROVE  /\ \A b, c \in Open(app', u) : b = c
                        /\ row'[u].status = "verified" =>
                              \A b \in Apps : app'[b].owner = u => app'[b].status \notin {"pending_payment", "paid"}
      OBVIOUS
    <3>1. OnlyOK(u) /\ proc[p].saw = app[a].status
      BY <1>1, <1>2, <2>10, Known
    <3>2. Open(app', u) \subseteq Open(app, u)
      BY <1>1, <2>4, <3>1 DEF Open, UnfinishedStatus
    <3>3. row[u].status = "verified" => app' = app
      BY <1>1, <2>4, <3>1 DEF OnlyOK
    <3> QED
      BY <1>1, <3>1, <3>2, <3>3 DEF OnlyOK
  <2>12. u \notin mishap'["crossed"] \cup mishap'["torn"] => Stands(verdict'[u], row'[u], app')
    <3> SUFFICES ASSUME u \notin mishap'["crossed"] \cup mishap'["torn"] PROVE Stands(verdict'[u], row'[u], app')
      OBVIOUS
    <3>1. Stands(verdict[u], row[u], app) /\ proc[p].saw = app[a].status
      BY <1>1, <1>2, <1>3, <2>10, KnownVerdict
    <3>2. verdict[u].a # NoApp => verdict[u].a \in Apps /\ verdict[u].status \in Reviews
      BY <1>1 DEF IInv, NamesOK, Typed
    <3>3. verdict[u] # NoVerdict /\ verdict[u].a # NoApp => app'[verdict[u].a] = app[verdict[u].a]
      BY <2>4, <3>1, <3>2 DEF Stands, Reviews
    <3> QED
      BY <1>1, <3>1, <3>3 DEF Stands
  <2>13. \A w \in Users \ {u} : row'[w] = row[w] /\ verdict'[w] = verdict[w]
    BY <1>1
  <2> QED
    BY <1>1, <1>2, <1>3, <2>3, <2>4, <2>5, <2>6, <2>7, <2>8, <2>9, <2>11, <2>12, <2>13, Acts DEF u
<1> QED
  BY <1>4, <1>5 DEF HandlePaymentSuccess

-----------------------------------------------------------------------------
\* The goroutine that verifies: a step of p on application a of its user u.

LEMMA AppStep ==
    ASSUME IInv, NEW p \in Procs, NEW u \in Users, NEW a \in Apps, proc[p].u = u, app[a].owner = u, proc[p].a = a,
           NEW j \in Job, Set(p, j), j.step \in {"idle", "mark", "verify", "ask", "user"},
           j.step # "idle" => j.u = u /\ j.a = a, j.step = "user" => j.want \in {"pending", "rejected", "verified"},
           UNCHANGED <<cfg, row, order>>,
           app' = app \/ \E s \in Statuses \ {"pending_payment"} : Status(a, s),
           mishap' \in [Kinds -> SUBSET Users], Grown,
           \/ verdict' = verdict
           \/ verdict' = [verdict EXCEPT ![u] = NoVerdict]
           \/ \E s \in Reviews : verdict' = [verdict EXCEPT ![u] = [a |-> a, status |-> s]],
           app'[a].status = "paid" => a \in left' \/ j.step \in {"mark", "verify", "ask"},
           app'[a].status = "verifying" => a \in left' \/ j.step \in {"verify", "ask"},
           u \notin mishap'["crossed"] => \A q \in Procs \ {p} : proc[q].u = u => proc[q].step \notin Working,
           u \notin mishap'["crossed"] => (j.step # "idle" => Current(j, app')),
           u \notin mishap'["crossed"] \cup mishap'["doubled"] =>
               /\ \A b, c \in Open(app', u) : b = c
               /\ row[u].status = "verified" =>
                     \A b \in Apps : app'[b].owner = u => app'[b].status \notin {"pending_payment", "paid"}
               /\ j.step # "idle" => Only(j, app', row[u].status),
           u \notin mishap'["crossed"] \cup mishap'["torn"] =>
               /\ j.step # "idle" => Said(j, app', verdict'[u])
               /\ j.step # "user" => Stands(verdict'[u], row[u], app')
    PROVE  IInv'
<1>1. proc' \in [Procs -> Job] /\ proc'[p] = j /\ \A q \in Procs \ {p} : proc'[q] = proc[q]
  BY DEF Set, IInv, Typed
<1>2. /\ app' \in [Apps -> Application \cup {Absent}]
      /\ app'[a].owner = u /\ \A b \in Apps \ {a} : app'[b] = app[b]
      /\ AppsOK' /\ Moves(app, app', u)
  <2>1. CASE app' = app
    BY <2>1, NoMoves DEF IInv, Typed, AppsOK, Exists
  <2>2. ASSUME NEW s \in Statuses \ {"pending_payment"}, Status(a, s)
        PROVE  /\ app' \in [Apps -> Application \cup {Absent}]
               /\ app'[a].owner = u /\ \A b \in Apps \ {a} : app'[b] = app[b]
               /\ AppsOK' /\ Moves(app, app', u)
    <3>1. app[a].owner \in Users /\ order' = order
      OBVIOUS
    <3> QED
      BY <2>2, <3>1, StatusMoves
  <2> QED
    BY <2>1, <2>2
<1>3. /\ verdict' \in [Users -> [a : Apps \cup {NoApp}, status : {"none", "unverified", "rejected", "verified"}]]
      /\ \A w \in Users \ {u} : verdict'[w] = verdict[w]
      /\ verdict'[u] = verdict[u] \/ verdict'[u].a = NoApp \/ (verdict'[u].a = a /\ verdict'[u].status \in Reviews)
  BY DEF IInv, Typed, NoVerdict, Reviews
<1>4. Typed'
  BY <1>1, <1>2, <1>3 DEF IInv, Typed
<1>5. NamesOK'
  <2> SUFFICES ASSUME NEW w \in Users
               PROVE  /\ row[w].name # NoApp => row[w].status = "verified" /\ app'[row[w].name].owner = w
                      /\ verdict'[w].a # NoApp => app'[verdict'[w].a].owner = w /\ verdict'[w].status \in Reviews
    BY DEF NamesOK
  <2>1. /\ row[w].name # NoApp => row[w].status = "verified" /\ app[row[w].name].owner = w
        /\ verdict[w].a # NoApp => app[verdict[w].a].owner = w /\ verdict[w].status \in Reviews
        /\ row[w].name \in Apps \cup {NoApp} /\ verdict[w].a \in Apps \cup {NoApp}
    BY DEF IInv, NamesOK, Typed
  <2>2. \A b \in Apps : app[b].owner = w => app'[b].owner = w
    BY <1>2
  <2>3. verdict'[w] = verdict[w] \/ verdict'[w].a = NoApp
        \/ (w = u /\ verdict'[w].a = a /\ verdict'[w].status \in Reviews)
    BY <1>3
  <2> QED
    BY <1>2, <2>1, <2>2, <2>3
<1>6. TakenUp'
  <2>1. \A b \in Apps : (app'[b] # app[b] \/ (proc[p].a = b /\ proc[p].step \in {"start", "mark", "verify", "ask"}))
                         => b = a
    BY <1>2
  <2>2. j.step # "idle" => proc'[p].a = a
    BY <1>1
  <2>3. /\ app'[a].status = "paid" =>
              a \in left' \/ (proc'[p].a = a /\ proc'[p].step \in {"start", "mark", "verify", "ask"})
        /\ app'[a].status = "verifying" => a \in left' \/ (proc'[p].a = a /\ proc'[p].step \in {"verify", "ask"})
    BY <1>1, <2>2
  <2>4. left \subseteq left'
    BY DEF Grown
  <2> QED
    BY <1>1, <2>1, <2>3, <2>4, Waits
<1>7. Holds(proc'[p], app')
  BY <1>1, <1>2 DEF Holds
<1>8. j.step = "idle" => Current(j, app') /\ Only(j, app', row[u].status) /\ Said(j, app', verdict'[u])
  BY DEF Current, Only, Said
<1>9. /\ proc[p].step = "idle" \/ proc[p].u = u
      /\ proc'[p].step = "idle" \/ proc'[p].u = u
  BY <1>1
<1>10. u \notin mishap'["crossed"] => (proc'[p].u = u => Current(proc'[p], app'))
  BY <1>1, <1>8
<1>11. u \notin mishap'["crossed"] \cup mishap'["doubled"] =>
               /\ \A b, c \in Open(app', u) : b = c
               /\ row'[u].status = "verified" =>
                     \A b \in Apps : app'[b].owner = u => app'[b].status \notin {"pending_payment", "paid"}
               /\ proc'[p].u = u => Only(proc'[p], app', row'[u].status)
  BY <1>1, <1>8
<1>12. u \notin mishap'["crossed"] \cup mishap'["torn"] =>
               /\ proc'[p].u = u => Said(proc'[p], app', verdict'[u])
               /\ ~(proc'[p].step = "user" /\ proc'[p].u = u) => Stands(verdict'[u], row'[u], app')
  <2>1. j.step = "user" => proc'[p].step = "user" /\ proc'[p].u = u
    BY <1>1
  <2> QED
    BY <1>1, <1>8, <2>1
<1>13. \A w \in Users \ {u} : row'[w] = row[w] /\ verdict'[w] = verdict[w]
  BY <1>3
<1> QED
  BY <1>1, <1>2, <1>4, <1>5, <1>6, <1>7, <1>9, <1>10, <1>11, <1>12, <1>13, Acts

\* The verdict on the user where no answer to this application was given.
LEMMA StandsOn ==
    ASSUME IInv, NEW u \in Users, NEW a \in Apps, Stands(verdict[u], row[u], app), verdict[u].a # a,
           \A b \in Apps \ {a} : app'[b] = app[b]
    PROVE  Stands(verdict[u], row[u], app')
<1>1. verdict[u].a # NoApp => verdict[u].a \in Apps
  BY DEF IInv, Typed
<1> QED
  BY <1>1 DEF Stands

\* A status written to the application.
LEMMA Written ==
    ASSUME IInv, NEW a \in Apps, NEW u \in Users, app[a].owner = u, NEW s, Status(a, s)
    PROVE  /\ app'[a].status = s /\ app'[a].owner = u
           /\ \A b \in Apps \ {a} : app'[b] = app[b]
<1>1. app \in [Apps -> Application \cup {Absent}]
  BY DEF IInv, Typed
<1>2. app[a] \in Application
  BY <1>1, Constants DEF Absent
<1> QED
  BY <1>1, <1>2 DEF Status, Application

LEMMA StartStep ==
    ASSUME IInv, NEW p \in Procs, Start(p)
    PROVE  IInv'
<1> DEFINE u == proc[p].u
           a == proc[p].a
<1>1. /\ proc[p] \in Job /\ proc[p].step = "start" /\ u \in Users /\ a \in Apps /\ app[a].owner = u
      /\ UNCHANGED <<cfg, row, app, order, verdict>>
  BY DEF Start, rows, IInv, HoldsOK, Holds, Typed
<1>2. CASE app[a].status \notin Startable /\ Done(p) /\ UNCHANGED <<events, left, mishap>>
  <2>1. Grown /\ mishap' \in [Kinds -> SUBSET Users]
    BY <1>1, <1>2 DEF Grown, IInv, Typed
  <2> QED
    BY <1>1, <1>2, <2>1, Ends
<1>3. CASE Done(p) /\ left' = left \cup {a} /\ UNCHANGED mishap
  <2>1. Grown /\ mishap' \in [Kinds -> SUBSET Users]
    BY <1>1, <1>3 DEF Grown, IInv, Typed
  <2> QED
    BY <1>1, <1>3, <2>1, Ends
<1>4. CASE /\ app[a].status \in Startable
           /\ Set(p, [proc[p] EXCEPT !.step = "mark"])
           /\ Enter(p, u, app[a].status # "paid" /\ Doubles(u, {a}))
           /\ UNCHANGED <<events, left>>
  <2> DEFINE j == [proc[p] EXCEPT !.step = "mark"]
  <2>1. j \in Job /\ j.step = "mark" /\ j.u = u /\ j.a = a
    BY <1>1 DEF Job, Steps
  <2>2. Set(p, j) /\ proc[p].u = u /\ proc[p].a = a
    BY <1>4
  <2>3. (app[a].status # "paid" /\ Doubles(u, {a})) \in BOOLEAN
    OBVIOUS
  <2> DEFINE d == app[a].status # "paid" /\ Doubles(u, {a})
  <2> HIDE DEF j, u, a
  <2>4. Enter(p, u, d) /\ d \in BOOLEAN
    BY <1>4, <2>3
  <2> HIDE DEF d
  <2>5. /\ mishap' \in [Kinds -> SUBSET Users] /\ \A k \in Kinds : mishap[k] \subseteq mishap'[k]
        /\ u \notin mishap'["crossed"] => \A q \in Procs \ {p} : proc[q].u = u => proc[q].step \notin Working
        /\ u \notin mishap'["doubled"] => ~d
    BY <1>1, <2>4, Entered
  <2>6. Grown
    BY <1>4, <2>5 DEF Grown
  <2>7. Current(j, app')
    BY <1>1, <1>4, <2>1 DEF Current
  <2>8. app'[a].status # "verifying"
    BY <1>1, <1>4 DEF Startable
  <2>9. u \notin mishap'["crossed"] \cup mishap'["doubled"] =>
               /\ \A b, c \in Open(app', u) : b = c
               /\ row[u].status = "verified" =>
                     \A b \in Apps : app'[b].owner = u => app'[b].status \notin {"pending_payment", "paid"}
               /\ j.step # "idle" => Only(j, app', row[u].status)
    <3> SUFFICES ASSUME u \notin mishap'["crossed"] \cup mishap'["doubled"]
                 PROVE  /\ \A b, c \in Open(app', u) : b = c
                        /\ row[u].status = "verified" =>
                              \A b \in Apps : app'[b].owner = u => app'[b].status \notin {"pending_payment", "paid"}
                        /\ Only(j, app', row[u].status)
      OBVIOUS
    <3>1. OnlyOK(u) /\ ~d
      BY <1>1, <2>5, <2>6, Known
    <3>2. /\ \A b, c \in Open(app, u) : b = c
          /\ row[u].status = "verified" =>
                     \A b \in Apps : app[b].owner = u => app[b].status \notin {"pending_payment", "paid"}
      BY <3>1 DEF OnlyOK
    <3>3. CASE app[a].status = "paid"
      <4>1. a \in Open(app, u)
        BY <1>1, <3>3 DEF Open, UnfinishedStatus
      <4>2. Open(app, u) \subseteq {a} /\ row[u].status # "verified"
        BY <1>1, <3>2, <3>3, <4>1
      <4> QED
        BY <1>1, <2>1, <3>2, <4>2 DEF Only
    <3>4. CASE app[a].status # "paid"
      <4>1. ~Doubles(u, {a})
        BY <3>1, <3>4 DEF d
      <4>2. Open(app, u) \subseteq {a} /\ row[u].status # "verified"
        BY <4>1 DEF Doubles, Unfinished, Owned, Open
      <4> QED
        BY <1>1, <2>1, <3>2, <4>2 DEF Only
    <3> QED
      BY <3>3, <3>4
  <2>10. u \notin mishap'["crossed"] \cup mishap'["torn"] =>
               /\ j.step # "idle" => Said(j, app', verdict'[u])
               /\ j.step # "user" => Stands(verdict'[u], row[u], app')
    <3>1. Said(j, app', verdict'[u])
      BY <2>1 DEF Said
    <3> QED
      BY <1>1, <2>5, <2>6, <3>1, KnownVerdict
  <2> QED
    BY <1>1, <2>1, <2>2, <2>5, <2>6, <2>7, <2>8, <2>9, <2>10, AppStep
<1> QED
  BY <1>2, <1>3, <1>4 DEF Start

\* The only unfinished application stays it while it is being verified.
LEMMA StaysOnly ==
    ASSUME IInv, Grown, NEW p \in Procs, NEW u \in Users, NEW a \in Apps, proc[p].u = u, proc[p].a = a,
           proc[p].step \in {"mark", "verify", "ask"}, \A b \in Apps \ {a} : app'[b] = app[b],
           u \notin mishap'["crossed"] \cup mishap'["doubled"]
    PROVE  row[u].status # "verified" /\ Open(app', u) \subseteq {a}
<1>1. Only(proc[p], app, row[u].status)
  BY Known DEF OnlyOK
<1> QED
  BY <1>1 DEF Only, Open

\* One user more to whom a statement failed, or none.
LEMMA Marked ==
    ASSUME IInv, NEW u \in Users, Mark("torn", u) \/ UNCHANGED mishap
    PROVE  /\ mishap' \in [Kinds -> SUBSET Users] /\ \A k \in Kinds : mishap[k] \subseteq mishap'[k]
           /\ Mark("torn", u) => u \in mishap'["torn"]
<1>1. mishap \in [Kinds -> SUBSET Users] /\ "torn" \in Kinds
  BY DEF IInv, Typed, Kinds
<1>2. CASE UNCHANGED mishap /\ ~Mark("torn", u)
  BY <1>1, <1>2
<1>3. CASE Mark("torn", u)
  BY <1>1, <1>3 DEF Mark
<1> QED
  BY <1>2, <1>3

LEMMA MarkStep ==
    ASSUME IInv, NEW p \in Procs, MarkVerifying(p)
    PROVE  IInv'
<1> DEFINE u == proc[p].u
           a == proc[p].a
<1>1. /\ proc[p] \in Job /\ proc[p].step = "mark" /\ u \in Users /\ a \in Apps /\ app[a].owner = u
      /\ UNCHANGED <<cfg, row, order, mishap>>
  BY DEF MarkVerifying, rows, IInv, HoldsOK, Holds, Typed
<1>2. CASE Done(p) /\ left' = left \cup {a} /\ UNCHANGED <<app, verdict>>
  <2>1. Grown /\ mishap' \in [Kinds -> SUBSET Users]
    BY <1>1, <1>2 DEF Grown, IInv, Typed
  <2> QED
    BY <1>1, <1>2, <2>1, Ends
<1>3. CASE /\ Status(a, "verifying")
           /\ IF verdict[u] = [a |-> a, status |-> "rejected"]
              THEN verdict' = [verdict EXCEPT ![u] = NoVerdict]
              ELSE UNCHANGED verdict
           /\ Set(p, [proc[p] EXCEPT !.step = "verify"])
           /\ UNCHANGED <<events, left>>
  <2> DEFINE j == [proc[p] EXCEPT !.step = "verify"]
  <2>1. j \in Job /\ j.step = "verify" /\ j.u = u /\ j.a = a
    BY <1>1 DEF Job, Steps
  <2>2. Set(p, j) /\ proc[p].u = u /\ proc[p].a = a
    BY <1>3
  <2> HIDE DEF j, u, a
  <2>3. mishap' \in [Kinds -> SUBSET Users] /\ Grown
    BY <1>1, <1>3 DEF Grown, IInv, Typed
  <2>4. app'[a].status = "verifying" /\ app'[a].owner = u /\ \A b \in Apps \ {a} : app'[b] = app[b]
    BY <1>1, <1>3, Written
  <2>5. \E s \in Statuses \ {"pending_payment"} : Status(a, s)
    BY <1>3 DEF Statuses, UnfinishedStatus
  <2>6. u \notin mishap'["crossed"] => \A q \in Procs \ {p} : proc[q].u = u => proc[q].step \notin Working
    BY <1>1, <2>2, <2>3, Alone DEF Working
  <2>7. Current(j, app')
    BY <2>1, <2>4 DEF Current
  <2>8. u \notin mishap'["crossed"] \cup mishap'["doubled"] =>
               /\ \A b, c \in Open(app', u) : b = c
               /\ row[u].status = "verified" =>
                     \A b \in Apps : app'[b].owner = u => app'[b].status \notin {"pending_payment", "paid"}
               /\ j.step # "idle" => Only(j, app', row[u].status)
    <3>1. u \notin mishap'["crossed"] \cup mishap'["doubled"] =>
              row[u].status # "verified" /\ Open(app', u) \subseteq {a}
      BY <1>1, <2>2, <2>3, <2>4, StaysOnly
    <3> QED
      BY <2>1, <3>1 DEF Only
  <2>9. u \notin mishap'["crossed"] \cup mishap'["torn"] =>
               /\ j.step # "idle" => Said(j, app', verdict'[u])
               /\ j.step # "user" => Stands(verdict'[u], row[u], app')
    <3> SUFFICES ASSUME u \notin mishap'["crossed"] \cup mishap'["torn"]
                 PROVE  verdict'[u].a # a /\ Stands(verdict'[u], row[u], app')
      BY <2>1 DEF Said
    <3>1. CASE verdict[u] = [a |-> a, status |-> "rejected"]
      <4>1. verdict'[u] = NoVerdict
        BY <1>1, <1>3, <3>1 DEF IInv, Typed
      <4> QED
        BY <1>1, <4>1, Constants DEF Stands, NoVerdict
    <3>2. CASE verdict[u] # [a |-> a, status |-> "rejected"]
      <4>1. Stands(verdict[u], row[u], app)
        BY <1>1, <2>3, <2>6, KnownVerdict
      <4>2. app[a].status \in Startable
        BY <1>1, <2>2, <2>3, Known DEF CurrentOK, Current
      <4>3. verdict[u].a # a
        <5> SUFFICES ASSUME verdict[u].a = a PROVE FALSE
          OBVIOUS
        <5>1. verdict[u].a # NoApp /\ verdict[u] # NoVerdict
          BY <1>1, Constants DEF NoVerdict
        <5>2. verdict[u].status \in Reviews /\ verdict[u] = [a |-> a, status |-> verdict[u].status]
          BY <1>1, <5>1 DEF IInv, NamesOK, Typed
        <5>3. verdict[u].status = "verified"
          BY <3>2, <5>2 DEF Reviews
        <5> QED
          BY <4>1, <4>2, <5>1, <5>3 DEF Stands, Startable
      <4>4. verdict' = verdict
        BY <1>3, <3>2
      <4> QED
        BY <1>1, <2>4, <4>1, <4>3, <4>4, StandsOn
    <3> QED
      BY <3>1, <3>2
  <2>10. \/ verdict' = verdict
         \/ verdict' = [verdict EXCEPT ![u] = NoVerdict]
    BY <1>3
  <2> QED
    BY <1>1, <2>1, <2>2, <2>3, <2>4, <2>5, <2>6, <2>7, <2>8, <2>9, <2>10, AppStep
<1> QED
  BY <1>2, <1>3 DEF MarkVerifying

LEMMA VerifyStep ==
    ASSUME IInv, NEW p \in Procs, Verify(p)
    PROVE  IInv'
<1> DEFINE u == proc[p].u
           a == proc[p].a
<1>1. /\ proc[p] \in Job /\ proc[p].step = "verify" /\ u \in Users /\ a \in Apps /\ app[a].owner = u
      /\ UNCHANGED <<cfg, row, order>>
  BY DEF Verify, IInv, HoldsOK, Holds, Typed
<1>2. CASE VerifyWithoutSettings(p)
  <2>1. Grown /\ mishap' \in [Kinds -> SUBSET Users]
    BY <1>1, <1>2 DEF VerifyWithoutSettings, Grown, IInv, Typed
  <2> QED
    BY <1>1, <1>2, <2>1, Ends DEF VerifyWithoutSettings
<1>3. ASSUME NEW j \in Job, Set(p, j), j.u = u, j.a = a, mishap' \in [Kinds -> SUBSET Users], Grown,
             \/ j.step = "ask" /\ verdict' = verdict
             \/ j.step = "user" /\ j.want = "pending" /\ verdict' = [verdict EXCEPT ![u] = NoVerdict] /\ a \in left',
             \/ Status(a, IF j.step = "ask" THEN "verifying" ELSE "paid")
             \/ app' = app
      PROVE  IInv'
  <2>1. proc[p].u = u /\ proc[p].a = a
    OBVIOUS
  <2> HIDE DEF u, a
  <2>2. app'[a].owner = u /\ \A b \in Apps \ {a} : app'[b] = app[b]
    BY <1>1, <1>3, Written
  <2>3. \/ app' = app
        \/ \E s \in Statuses \ {"pending_payment"} : Status(a, s)
    BY <1>3 DEF Statuses, UnfinishedStatus
  <2>4. u \notin mishap'["crossed"] => \A q \in Procs \ {p} : proc[q].u = u => proc[q].step \notin Working
    BY <1>1, <1>3, <2>1, Alone DEF Working
  <2>5. u \notin mishap'["crossed"] => app[a].status = "verifying"
    BY <1>1, <1>3, <2>1, Known DEF CurrentOK, Current
  <2>6. app'[a].status = app[a].status \/ app'[a].status = IF j.step = "ask" THEN "verifying" ELSE "paid"
    BY <1>1, <1>3, Written
  <2>7. u \notin mishap'["crossed"] => (j.step # "idle" => Current(j, app'))
    BY <1>3, <2>5, <2>6 DEF Current
  <2>8. u \notin mishap'["crossed"] \cup mishap'["doubled"] =>
               /\ \A b, c \in Open(app', u) : b = c
               /\ row[u].status = "verified" =>
                     \A b \in Apps : app'[b].owner = u => app'[b].status \notin {"pending_payment", "paid"}
               /\ j.step # "idle" => Only(j, app', row[u].status)
    <3>1. u \notin mishap'["crossed"] \cup mishap'["doubled"] =>
              row[u].status # "verified" /\ Open(app', u) \subseteq {a}
      BY <1>1, <1>3, <2>1, <2>2, StaysOnly
    <3> QED
      BY <1>3, <3>1 DEF Only
  <2>9. u \notin mishap'["crossed"] \cup mishap'["torn"] =>
               /\ j.step # "idle" => Said(j, app', verdict'[u])
               /\ j.step # "user" => Stands(verdict'[u], row[u], app')
    <3> SUFFICES ASSUME u \notin mishap'["crossed"] \cup mishap'["torn"]
                 PROVE  /\ Said(j, app', verdict'[u])
                        /\ j.step # "user" => Stands(verdict'[u], row[u], app')
      OBVIOUS
    <3>1. CASE j.step = "ask" /\ verdict' = verdict
      <4>1. Stands(verdict[u], row[u], app) /\ verdict[u].a # a
        BY <1>1, <1>3, <2>1, <2>4, Known, KnownVerdict DEF SaidOK, Said
      <4>2. Stands(verdict[u], row[u], app')
        BY <1>1, <2>2, <4>1, StandsOn
      <4> QED
        BY <1>3, <3>1, <4>1, <4>2 DEF Said
    <3>2. CASE j.step = "user" /\ j.want = "pending" /\ verdict' = [verdict EXCEPT ![u] = NoVerdict]
      <4>1. verdict'[u] = NoVerdict
        BY <1>1, <3>2 DEF IInv, Typed
      <4> QED
        BY <3>2, <4>1 DEF Said
    <3> QED
      BY <1>3, <3>1, <3>2
  <2>10. /\ j.step \in {"ask", "user"} /\ (j.step = "user" => j.want = "pending")
         /\ verdict' = verdict \/ verdict' = [verdict EXCEPT ![u] = NoVerdict]
         /\ j.step = "user" => a \in left'
    BY <1>3
  <2> QED
    BY <1>1, <1>3, <2>1, <2>2, <2>3, <2>4, <2>7, <2>8, <2>9, <2>10, AppStep
<1>4. CASE VerifyByHand(p)
  <2> DEFINE j == [proc[p] EXCEPT !.step = "user", !.want = "pending"]
  <2>1. j \in Job /\ j.step = "user" /\ j.want = "pending" /\ j.u = u /\ j.a = a
    BY <1>1 DEF Job, Steps
  <2>2. Set(p, j) /\ verdict' = [verdict EXCEPT ![u] = NoVerdict] /\ left' = left \cup {a}
    BY <1>4 DEF VerifyByHand
  <2> HIDE DEF j
  <2>3. Status(a, "paid") \/ app' = app
    BY <1>4 DEF VerifyByHand
  <2>4. mishap' \in [Kinds -> SUBSET Users] /\ \A k \in Kinds : mishap[k] \subseteq mishap'[k]
    BY <1>1, <1>4, Marked DEF VerifyByHand
  <2>5. Grown /\ a \in left'
    BY <2>2, <2>4 DEF Grown
  <2> QED
    BY <1>3, <2>1, <2>2, <2>3, <2>4, <2>5
<1>5. CASE VerifyByProvider(p)
  <2> DEFINE j == [proc[p] EXCEPT !.step = "ask"]
  <2>1. j \in Job /\ j.step = "ask" /\ j.u = u /\ j.a = a
    BY <1>1 DEF Job, Steps
  <2>2. Set(p, j) /\ UNCHANGED <<verdict, left, mishap>> /\ (Status(a, "verifying") \/ app' = app)
    BY <1>5 DEF VerifyByProvider
  <2> HIDE DEF j
  <2>3. mishap' \in [Kinds -> SUBSET Users] /\ Grown
    BY <2>2 DEF Grown, IInv, Typed
  <2> QED
    BY <1>3, <2>1, <2>2, <2>3
<1> QED
  BY <1>2, <1>4, <1>5 DEF Verify

LEMMA AnswerStep ==
    ASSUME IInv, NEW p \in Procs, Answer(p)
    PROVE  IInv'
<1> DEFINE u == proc[p].u
           a == proc[p].a
<1>1. /\ proc[p] \in Job /\ proc[p].step = "ask" /\ u \in Users /\ a \in Apps /\ app[a].owner = u
      /\ UNCHANGED <<cfg, row, order>>
  BY DEF Answer, IInv, HoldsOK, Holds, Typed
<1>2. PICK s \in Answers :
             /\ \/ Status(a, s) /\ UNCHANGED <<left, mishap>>
                \/ Mark("torn", u) /\ left' = left \cup {a} /\ UNCHANGED app
             /\ IF s = "failed"
                THEN Done(p) /\ UNCHANGED verdict
                ELSE Set(p, [proc[p] EXCEPT !.step = "user", !.want = s]) /\ Pronounce(u, a, s)
  BY DEF Answer
<1> DEFINE j == IF s = "failed" THEN Idle ELSE [proc[p] EXCEPT !.step = "user", !.want = s]
<1>3. /\ j \in Job /\ Set(p, j) /\ proc[p].u = u /\ proc[p].a = a
      /\ s = "failed" => j.step = "idle"
      /\ s # "failed" => j.step = "user" /\ j.u = u /\ j.a = a /\ j.want = s /\ s \in Reviews
  <2>1. CASE s = "failed"
    BY <1>2, <2>1, IdleIsJob DEF Done
  <2>2. CASE s # "failed"
    BY <1>1, <1>2, <2>2 DEF Job, Steps, Answers, Reviews
  <2> QED
    BY <2>1, <2>2
<1> HIDE DEF j, u, a
<1>4. /\ mishap' \in [Kinds -> SUBSET Users] /\ Grown
      /\ Status(a, s) \/ (u \in mishap'["torn"] /\ a \in left' /\ app' = app)
  <2>1. CASE Status(a, s) /\ UNCHANGED <<left, mishap>>
    BY <2>1 DEF Grown, IInv, Typed
  <2>2. CASE Mark("torn", u) /\ left' = left \cup {a} /\ UNCHANGED app
    BY <1>1, <2>2, Marked DEF Grown
  <2> QED
    BY <1>2, <2>1, <2>2
<1>5. app'[a].owner = u /\ \A b \in Apps \ {a} : app'[b] = app[b]
  BY <1>1, <1>4, Written
<1>6. app'[a].status = s \/ (app' = app /\ u \in mishap'["torn"] /\ a \in left')
  BY <1>1, <1>4, Written
<1>7. app' = app \/ \E t \in Statuses \ {"pending_payment"} : Status(a, t)
  BY <1>4 DEF Statuses, Answers
<1>8. s \notin {"pending_payment", "paid", "verifying"}
  BY DEF Answers
<1>9. u \notin mishap'["crossed"] => \A q \in Procs \ {p} : proc[q].u = u => proc[q].step \notin Working
  BY <1>1, <1>3, <1>4, Alone DEF Working
<1>10. u \notin mishap'["crossed"] => app[a].status = "verifying"
  BY <1>1, <1>3, <1>4, Known DEF CurrentOK, Current
<1>11. u \notin mishap'["crossed"] => (j.step # "idle" => Current(j, app'))
  BY <1>3, <1>6, <1>10 DEF Current, Reviews
<1>12. u \notin mishap'["crossed"] \cup mishap'["doubled"] =>
               /\ \A b, c \in Open(app', u) : b = c
               /\ row[u].status = "verified" =>
                     \A b \in Apps : app'[b].owner = u => app'[b].status \notin {"pending_payment", "paid"}
               /\ j.step # "idle" => Only(j, app', row[u].status)
  <2>1. u \notin mishap'["crossed"] \cup mishap'["doubled"] =>
            row[u].status # "verified" /\ Open(app', u) \subseteq {a}
    BY <1>1, <1>3, <1>4, <1>5, StaysOnly
  <2> QED
    BY <1>3, <2>1 DEF Only
<1>13. u \notin mishap'["crossed"] \cup mishap'["torn"] =>
               /\ j.step # "idle" => Said(j, app', verdict'[u])
               /\ j.step # "user" => Stands(verdict'[u], row[u], app')
  <2> SUFFICES ASSUME u \notin mishap'["crossed"] \cup mishap'["torn"]
               PROVE  /\ j.step # "idle" => Said(j, app', verdict'[u])
                      /\ j.step # "user" => Stands(verdict'[u], row[u], app')
    OBVIOUS
  <2>1. CASE s = "failed"
    <3>1. Stands(verdict[u], row[u], app) /\ verdict[u].a # a
      BY <1>1, <1>3, <1>4, <1>9, Known, KnownVerdict DEF SaidOK, Said
    <3>2. Stands(verdict[u], row[u], app')
      BY <1>1, <1>5, <3>1, StandsOn
    <3>3. verdict' = verdict /\ j.step = "idle"
      BY <1>2, <1>3, <2>1
    <3> QED
      BY <3>2, <3>3
  <2>2. CASE s # "failed"
    <3>1. Pronounce(u, a, s)
      BY <1>2, <2>2 DEF u, a
    <3>2. verdict'[u] = [a |-> a, status |-> s]
      BY <1>1, <3>1 DEF Pronounce, IInv, Typed
    <3>3. app'[a].status = s
      BY <1>6
    <3> QED
      BY <1>3, <2>2, <3>2, <3>3 DEF Said, Reviews
  <2> QED
    BY <2>1, <2>2
<1>14. \/ verdict' = verdict
       \/ \E t \in Reviews : verdict' = [verdict EXCEPT ![u] = [a |-> a, status |-> t]]
  <2>1. s # "failed" => Pronounce(u, a, s)
    BY <1>2 DEF u, a
  <2> QED
    BY <1>2, <1>3, <2>1 DEF Pronounce
<1>15. /\ app'[a].status = "paid" => a \in left'
       /\ app'[a].status = "verifying" => a \in left'
  BY <1>6, <1>8
<1>16. j.step \in {"idle", "user"} /\ (j.step # "idle" => j.u = u /\ j.a = a)
       /\ (j.step = "user" => j.want \in {"pending", "rejected", "verified"})
  BY <1>3 DEF Reviews
<1> QED
  BY <1>1, <1>3, <1>4, <1>5, <1>7, <1>9, <1>11, <1>12, <1>13, <1>14, <1>15, <1>16, AppStep

LEMMA FinishStep ==
    ASSUME IInv, NEW p \in Procs, Finish(p)
    PROVE  IInv'
<1> DEFINE u == proc[p].u
           a == proc[p].a
           s == proc[p].want
<1>1. /\ proc[p] \in Job /\ proc[p].step = "user" /\ u \in Users /\ a \in Apps /\ app[a].owner = u
      /\ s \in {"pending", "rejected", "verified"} /\ proc[p].u = u /\ proc[p].a = a /\ proc[p].want = s
      /\ UNCHANGED <<cfg, app, order, verdict, left>> /\ Done(p)
  BY DEF Finish, IInv, HoldsOK, Holds, Typed
<1>2. CASE Mark("torn", u) /\ UNCHANGED row
  <2>1. Grown /\ mishap' \in [Kinds -> SUBSET Users] /\ u \in mishap'["torn"]
    BY <1>1, <1>2, Marked DEF Grown
  <2> QED
    BY <1>1, <1>2, <2>1, Ends
<1>3. CASE UserRow(u, s, IF s = "verified" THEN proc[p].a ELSE NoApp) /\ UNCHANGED mishap
  <2> HIDE DEF u, a, s
  <2>1. mishap' \in [Kinds -> SUBSET Users] /\ Grown
    BY <1>1, <1>3 DEF Grown, IInv, Typed
  <2>2. /\ row'[u] = [status |-> s, name |-> IF s = "verified" THEN a ELSE NoApp]
        /\ \A w \in Users \ {u} : row'[w] = row[w]
        /\ row' \in [Users -> [status : {"unverified", "pending", "rejected", "verified"}, name : Apps \cup {NoApp}]]
    BY <1>1, <1>3 DEF UserRow, IInv, Typed
  <2>3. proc' \in [Procs -> Job] /\ proc'[p] = Idle /\ \A q \in Procs \ {p} : proc'[q] = proc[q]
    BY <1>1, IdleIsJob DEF Done, Set, IInv, Typed
  <2>4. Typed' /\ AppsOK'
    BY <1>1, <2>1, <2>2, <2>3 DEF IInv, Typed, AppsOK, Exists
  <2>5. NamesOK'
    BY <1>1, <2>2 DEF IInv, NamesOK
  <2>6. TakenUp'
    <3>1. \A b \in Apps : ~(app'[b] # app[b] \/ (proc[p].a = b /\ proc[p].step \in {"start", "mark", "verify", "ask"}))
      BY <1>1
    <3> QED
      BY <1>1, <2>3, <3>1, Waits
  <2>7. u \notin mishap'["crossed"] => \A q \in Procs \ {p} : proc[q].u = u => proc[q].step \notin Working
    BY <1>1, <2>1, Alone DEF Working
  <2>8. /\ Holds(Idle, app') /\ Current(Idle, app') /\ Only(Idle, app', row'[u].status)
        /\ Said(Idle, app', verdict'[u])
    BY IdleIsJob DEF Holds, Current, Only, Said
  <2>9. u \notin mishap'["crossed"] \cup mishap'["doubled"] =>
               /\ \A b, c \in Open(app', u) : b = c
               /\ row'[u].status = "verified" =>
                     \A b \in Apps : app'[b].owner = u => app'[b].status \notin {"pending_payment", "paid"}
    <3> SUFFICES ASSUME u \notin mishap'["crossed"] \cup mishap'["doubled"]
                 PROVE  /\ \A b, c \in Open(app, u) : b = c
                        /\ s = "verified" =>
                              \A b \in Apps : app[b].owner = u => app[b].status \notin {"pending_payment", "paid"}
      BY <1>1, <2>2
    <3>1. OnlyOK(u) /\ CurrentOK(u)
      BY <1>1, <2>1, Known
    <3>2. Open(app, u) \subseteq {a} /\ (s = "verified" => app[a].status \in {"verifying", "verified"})
      BY <1>1, <3>1 DEF OnlyOK, Only, CurrentOK, Current
    <3>3. \A b \in Apps : app[b].owner = u /\ app[b].status \in {"pending_payment", "paid"} => b \in Open(app, u)
      BY DEF Open, UnfinishedStatus
    <3> QED
      BY <3>2, <3>3
  <2>10. u \notin mishap'["crossed"] \cup mishap'["torn"] => Stands(verdict'[u], row'[u], app')
    <3> SUFFICES ASSUME u \notin mishap'["crossed"] \cup mishap'["torn"] PROVE Stands(verdict[u], row'[u], app)
      BY <1>1
    <3>1. Said(proc[p], app, verdict[u])
      BY <1>1, <2>1, Known DEF SaidOK
    <3> QED
      BY <1>1, <2>2, <3>1 DEF Said, Stands
  <2>11. Moves(app, app', u)
    BY <1>1, NoMoves
  <2>12. \A w \in Users \ {u} : row'[w] = row[w] /\ verdict'[w] = verdict[w]
    BY <1>1, <2>2
  <2>13. proc'[p].step = "idle" /\ proc'[p].u # u
    BY <1>1, <2>3, IdleIsJob, Constants
  <2> QED
    BY <1>1, <2>1, <2>3, <2>4, <2>5, <2>6, <2>7, <2>8, <2>9, <2>10, <2>11, <2>12, <2>13, Acts
<1> QED
  BY <1>1, <1>2, <1>3 DEF Finish

-----------------------------------------------------------------------------
\* The administrators.

LEMMA CrossMarked ==
    ASSUME IInv, NEW p \in Procs, NEW u \in Users, MarkIf(Crosses(p, u), "crossed", u)
    PROVE  /\ mishap' \in [Kinds -> SUBSET Users] /\ \A k \in Kinds : mishap[k] \subseteq mishap'[k]
           /\ u \notin mishap'["crossed"] => \A q \in Procs \ {p} : proc[q].u = u => proc[q].step \notin Working
<1>1. mishap \in [Kinds -> SUBSET Users] /\ "crossed" \in Kinds
  BY DEF IInv, Typed, Kinds
<1>2. CASE Crosses(p, u)
  BY <1>1, <1>2 DEF MarkIf, Mark
<1>3. CASE ~Crosses(p, u)
  BY <1>1, <1>3 DEF MarkIf, Crosses, AtWork, Working
<1> QED
  BY <1>2, <1>3

\* An administrator has read the user's rows.
LEMMA Enters ==
    ASSUME IInv, NEW p \in Procs, NEW u \in Users, NEW j \in Job, Set(p, j), proc[p].step = "idle", j.u = u,
           j.step \in {"review", "admin"}, Holds(j, app), Current(j, app),
           MarkIf(Crosses(p, u), "crossed", u), UNCHANGED <<cfg, rows, verdict, left>>
    PROVE  IInv'
<1>1. UNCHANGED <<cfg, row, app, order, verdict, left>>
  BY DEF rows
<1>2. proc' \in [Procs -> Job] /\ proc'[p] = j /\ \A q \in Procs \ {p} : proc'[q] = proc[q]
  BY DEF Set, IInv, Typed
<1>3. /\ mishap' \in [Kinds -> SUBSET Users] /\ \A k \in Kinds : mishap[k] \subseteq mishap'[k]
      /\ u \notin mishap'["crossed"] => \A q \in Procs \ {p} : proc[q].u = u => proc[q].step \notin Working
  BY CrossMarked
<1>4. Grown
  BY <1>1, <1>3 DEF Grown
<1>5. Typed' /\ AppsOK' /\ NamesOK'
  BY <1>1, <1>2, <1>3 DEF IInv, Typed, AppsOK, NamesOK, Exists
<1>6. TakenUp'
  <2>1. \A b \in Apps : ~(app'[b] # app[b] \/ (proc[p].a = b /\ proc[p].step \in {"start", "mark", "verify", "ask"}))
    BY <1>1
  <2> QED
    BY <1>1, <1>2, <2>1, Waits
<1>7. Only(j, app', row'[u].status) /\ Said(j, app', verdict'[u])
  BY DEF Only, Said
<1>8. u \notin mishap'["crossed"] \cup mishap'["doubled"] =>
               /\ \A b, c \in Open(app', u) : b = c
               /\ row'[u].status = "verified" =>
                     \A b \in Apps : app'[b].owner = u => app'[b].status \notin {"pending_payment", "paid"}
  BY <1>1, <1>4, Known DEF OnlyOK
<1>9. u \notin mishap'["crossed"] \cup mishap'["torn"] => Stands(verdict'[u], row'[u], app')
  BY <1>1, <1>3, <1>4, KnownVerdict
<1>10. Moves(app, app', u)
  BY <1>1, NoMoves
<1>11. \A w \in Users \ {u} : row'[w] = row[w] /\ verdict'[w] = verdict[w]
  BY <1>1
<1> QED
  BY <1>1, <1>2, <1>3, <1>4, <1>5, <1>6, <1>7, <1>8, <1>9, <1>10, <1>11, Acts

LEMMA ReviewStep ==
    ASSUME IInv, NEW p \in Procs, NEW a \in Apps, NEW s \in Reviews, Exists(a), Review(p, a, s)
    PROVE  IInv'
<1> DEFINE u == app[a].owner
           j == [Idle EXCEPT !.step = "review", !.u = u, !.a = a, !.want = s]
<1>1. u \in Users
  BY DEF IInv, Typed, Exists, Application
<1>2. j \in Job /\ j.step = "review" /\ j.u = u /\ j.a = a /\ j.want = s
  BY <1>1 DEF Idle, Job, Steps
<1>3. Set(p, j) /\ MarkIf(Crosses(p, u), "crossed", u) /\ UNCHANGED <<cfg, rows, verdict, left>>
      /\ proc[p].step = "idle"
  BY IdleIsJob DEF Review
<1> HIDE DEF j
<1>4. Holds(j, app) /\ Current(j, app)
  BY <1>1, <1>2 DEF Holds, Current
<1> QED
  BY <1>1, <1>2, <1>3, <1>4, Enters

LEMMA UpdateUserStep ==
    ASSUME IInv, NEW p \in Procs, NEW u \in Users, NEW action \in Actions, UpdateUser(p, u, action)
    PROVE  IInv'
<1> DEFINE a == Latest(u)
           j == [Idle EXCEPT !.step = "admin", !.u = u, !.a = a, !.want = action, !.saw = StatusOf(a)]
<1>1. Set(p, j) /\ MarkIf(Crosses(p, u), "crossed", u) /\ UNCHANGED <<cfg, rows, verdict, left>>
      /\ proc[p].step = "idle"
  BY IdleIsJob DEF UpdateUser
<1>2. a = NoApp \/ (a \in Apps /\ app[a].owner = u)
  BY LatestIsOwned
<1> HIDE DEF a
<1>3. /\ StatusOf(a) = IF a = NoApp THEN "none" ELSE app[a].status
      /\ a # NoApp => StatusOf(a) \in Statuses
  BY <1>2, Constants DEF StatusOf, IInv, Typed, Application, Absent
<1>4. j \in Job /\ j.step = "admin" /\ j.u = u /\ j.a = a /\ j.want = action /\ j.saw = StatusOf(a)
  BY <1>2, <1>3 DEF Idle, Job, Steps
<1> HIDE DEF j
<1>5. "none" \notin Statuses
  BY DEF Statuses, UnfinishedStatus, Answers
<1>6. Holds(j, app) /\ Current(j, app)
  BY <1>2, <1>3, <1>4, <1>5, Constants DEF Holds, Current
<1> QED
  BY <1>1, <1>4, <1>6, Enters

\* An administrator's decision s on u, with the verdict v and the name n.
LEMMA Decides ==
    ASSUME IInv, NEW p \in Procs, NEW u \in Users, proc[p].u = u, proc[p].step \in {"review", "admin"}, Done(p),
           UNCHANGED <<cfg, order, left>>,
           NEW s \in {"unverified", "rejected", "verified"}, NEW n, UserRow(u, s, n),
           NEW a \in Apps \cup {NoApp}, a # NoApp => app[a].owner = u,
           n = NoApp \/ (s = "verified" /\ n = a),
           NEW v, verdict' = [verdict EXCEPT ![u] = v], v.status = s, v \in [a : Apps \cup {NoApp}, status : {s}],
           v.a # NoApp => v.a = a /\ s \in Reviews, s = "verified" => v.a = a /\ n = a,
           app' = app \/ (a # NoApp /\ s \in Reviews /\ Status(a, s)),
           u \notin mishap'["crossed"] /\ v.a # NoApp => app'[a].status = s,
           mishap' \in [Kinds -> SUBSET Users], Grown,
           s = "verified" /\ Unfinished(u) \ {a} # {} => u \in mishap'["doubled"]
    PROVE  IInv'
<1>1. proc' \in [Procs -> Job] /\ proc'[p] = Idle /\ \A q \in Procs \ {p} : proc'[q] = proc[q]
  BY IdleIsJob DEF Done, Set, IInv, Typed
<1>2. /\ app' \in [Apps -> Application \cup {Absent}]
      /\ AppsOK' /\ Moves(app, app', u)
      /\ app' = app \/ (a \in Apps /\ s \in Reviews /\ app'[a].status = s /\ app'[a].owner = u
                        /\ \A b \in Apps \ {a} : app'[b] = app[b])
  <2>1. CASE app' = app
    BY <2>1, NoMoves DEF IInv, Typed, AppsOK, Exists
  <2>2. CASE a # NoApp /\ s \in Reviews /\ Status(a, s)
    <3>1. a \in Apps /\ s \in Statuses \ {"pending_payment"} /\ app[a].owner = u /\ order' = order
      BY <2>2 DEF Reviews, Statuses, Answers
    <3>2. app[a].owner \in Users
      BY <3>1
    <3> QED
      BY <2>2, <3>1, <3>2, StatusMoves
  <2> QED
    BY <2>1, <2>2
<1>3. /\ row'[u] = [status |-> s, name |-> n] /\ \A w \in Users \ {u} : row'[w] = row[w]
      /\ row' \in [Users -> [status : {"unverified", "pending", "rejected", "verified"}, name : Apps \cup {NoApp}]]
      /\ verdict'[u] = v /\ \A w \in Users \ {u} : verdict'[w] = verdict[w]
      /\ verdict' \in [Users -> [a : Apps \cup {NoApp}, status : {"none", "unverified", "rejected", "verified"}]]
  <2>1. n \in Apps \cup {NoApp}
    OBVIOUS
  <2>2. row \in [Users -> [status : {"unverified", "pending", "rejected", "verified"}, name : Apps \cup {NoApp}]]
        /\ verdict \in [Users -> [a : Apps \cup {NoApp}, status : {"none", "unverified", "rejected", "verified"}]]
    BY DEF IInv, Typed
  <2>3. v \in [a : Apps \cup {NoApp}, status : {"none", "unverified", "rejected", "verified"}]
    OBVIOUS
  <2> QED
    BY <2>1, <2>2, <2>3 DEF UserRow
<1>4. Typed'
  BY <1>1, <1>2, <1>3 DEF IInv, Typed
<1>5. \A b \in Apps : \A w \in Users : app[b].owner = w => app'[b].owner = w
  BY <1>2
<1>6. NamesOK'
  <2>1. ASSUME NEW w \in Users, w # u
        PROVE  /\ row'[w].name # NoApp => row'[w].status = "verified" /\ app'[row'[w].name].owner = w
               /\ verdict'[w].a # NoApp => app'[verdict'[w].a].owner = w /\ verdict'[w].status \in Reviews
    <3>1. /\ row[w].name # NoApp => row[w].status = "verified" /\ app[row[w].name].owner = w
          /\ verdict[w].a # NoApp => app[verdict[w].a].owner = w /\ verdict[w].status \in Reviews
          /\ row[w].name \in Apps \cup {NoApp} /\ verdict[w].a \in Apps \cup {NoApp}
      BY DEF IInv, NamesOK, Typed
    <3> QED
      BY <1>3, <1>5, <2>1, <3>1
  <2>2. /\ row'[u].name # NoApp => row'[u].status = "verified" /\ app'[row'[u].name].owner = u
        /\ verdict'[u].a # NoApp => app'[verdict'[u].a].owner = u /\ verdict'[u].status \in Reviews
    BY <1>3, <1>5
  <2> QED
    BY <2>1, <2>2 DEF NamesOK
<1>7. TakenUp'
  <2>1. \A b \in Apps : (app'[b] # app[b] \/ (proc[p].a = b /\ proc[p].step \in {"start", "mark", "verify", "ask"}))
                         => app'[b].status \in Reviews
    BY <1>2
  <2>2. left \subseteq left' /\ "paid" \notin Reviews /\ "verifying" \notin Reviews
    BY DEF Reviews
  <2> QED
    BY <1>1, <2>1, <2>2, Waits
<1>8. u \notin mishap'["crossed"] => \A q \in Procs \ {p} : proc[q].u = u => proc[q].step \notin Working
  BY Alone DEF Working
<1>9. /\ Holds(Idle, app') /\ Current(Idle, app') /\ Only(Idle, app', row'[u].status)
      /\ Said(Idle, app', verdict'[u])
  BY IdleIsJob DEF Holds, Current, Only, Said
<1>10. u \notin mishap'["crossed"] \cup mishap'["doubled"] =>
               /\ \A b, c \in Open(app', u) : b = c
               /\ row'[u].status = "verified" =>
                     \A b \in Apps : app'[b].owner = u => app'[b].status \notin {"pending_payment", "paid"}
  <2> SUFFICES ASSUME u \notin mishap'["crossed"] \cup mishap'["doubled"]
               PROVE  /\ \A b, c \in Open(app', u) : b = c
                      /\ s = "verified" =>
                            \A b \in Apps : app'[b].owner = u => app'[b].status \notin {"pending_payment", "paid"}
    BY <1>3
  <2>1. \A b, c \in Open(app, u) : b = c
    BY Known DEF OnlyOK
  <2>2. Open(app', u) \subseteq Open(app, u)
    BY <1>2 DEF Open, Reviews, UnfinishedStatus
  <2>3. ASSUME s = "verified", NEW b \in Apps, app'[b].owner = u, app'[b].status \in {"pending_payment", "paid"}
        PROVE  FALSE
    <3>1. b \in Open(app', u)
      BY <2>3 DEF Open, UnfinishedStatus
    <3>2. b \in Unfinished(u)
      BY <2>2, <3>1 DEF Open, Unfinished, Owned
    <3>3. b = a
      BY <2>3, <3>2
    <3>4. v.a # NoApp
      BY <2>3, <3>3, Constants
    <3> QED
      BY <2>3, <3>3, <3>4
  <2> QED
    BY <2>1, <2>2, <2>3
<1>11. u \notin mishap'["crossed"] \cup mishap'["torn"] => Stands(verdict'[u], row'[u], app')
  BY <1>3 DEF Stands
<1>12. \A w \in Users \ {u} : row'[w] = row[w] /\ verdict'[w] = verdict[w]
  BY <1>3
<1>13. proc'[p].step = "idle" /\ proc'[p].u # u
  BY <1>1, IdleIsJob, Constants
<1> QED
  BY <1>1, <1>2, <1>4, <1>6, <1>7, <1>8, <1>9, <1>10, <1>11, <1>12, <1>13, Acts

\* What Beside says of the user.
LEMMA BesideMarks ==
    ASSUME IInv, NEW u \in Users, NEW a, NEW s, Beside(u, a, s), UNCHANGED left
    PROVE  /\ mishap' \in [Kinds -> SUBSET Users] /\ Grown
           /\ s \in {"verified", "verify"} /\ Unfinished(u) \ {a} # {} => u \in mishap'["doubled"]
<1>1. mishap \in [Kinds -> SUBSET Users] /\ "doubled" \in Kinds
  BY DEF IInv, Typed, Kinds
<1>2. CASE s \in {"verified", "verify"} /\ Unfinished(u) \ {a} # {}
  BY <1>1, <1>2 DEF Beside, MarkIf, Mark, Grown
<1>3. CASE ~(s \in {"verified", "verify"} /\ Unfinished(u) \ {a} # {})
  BY <1>1, <1>3 DEF Beside, MarkIf, Grown
<1> QED
  BY <1>2, <1>3

LEMMA ReviewCommitStep ==
    ASSUME IInv, NEW p \in Procs, ReviewCommit(p)
    PROVE  IInv'
<1> DEFINE u == proc[p].u
           a == proc[p].a
           s == proc[p].want
<1>1. /\ proc[p].step = "review" /\ u \in Users /\ a \in Apps /\ app[a].owner = u
      /\ s \in Reviews /\ proc[p].u = u
      /\ UNCHANGED <<cfg, order, left>> /\ Done(p)
  BY DEF ReviewCommit, IInv, HoldsOK, Holds, Typed
<1>2. CASE UNCHANGED <<app, row, verdict, mishap>>
  <2>1. Grown /\ mishap' \in [Kinds -> SUBSET Users]
    BY <1>1, <1>2 DEF Grown, IInv, Typed
  <2> QED
    BY <1>1, <1>2, <2>1, Ends
<1>3. CASE /\ Status(a, s)
           /\ UserRow(u, s, IF s = "verified" THEN a ELSE NoApp)
           /\ Pronounce(u, a, s)
           /\ Beside(u, a, s)
  <2> DEFINE n == IF s = "verified" THEN a ELSE NoApp
             v == [a |-> a, status |-> s]
  <2>1. /\ UserRow(u, s, n) /\ verdict' = [verdict EXCEPT ![u] = v] /\ (n = NoApp \/ (s = "verified" /\ n = a))
        /\ v.status = s /\ v.a = a /\ v \in [a : Apps \cup {NoApp}, status : {s}] /\ (s = "verified" => n = a)
    BY <1>1, <1>3 DEF Pronounce
  <2> HIDE DEF n, v, u, a, s
  <2>2. /\ mishap' \in [Kinds -> SUBSET Users] /\ Grown
        /\ s = "verified" /\ Unfinished(u) \ {a} # {} => u \in mishap'["doubled"]
    BY <1>1, <1>3, BesideMarks
  <2>3. app'[a].status = s
    BY <1>1, <1>3, Written
  <2>4. a # NoApp /\ Status(a, s) /\ s \in {"unverified", "rejected", "verified"} /\ a \in Apps \cup {NoApp}
    BY <1>1, <1>3, Constants DEF Reviews
  <2>5. proc[p].u = u /\ proc[p].step \in {"review", "admin"} /\ app[a].owner = u /\ Done(p)
        /\ UNCHANGED <<cfg, order, left>>
    BY <1>1
  <2>6. (v.a # NoApp => v.a = a /\ s \in Reviews) /\ (s = "verified" => v.a = a /\ n = a)
    BY <1>1, <2>1
  <2>7. u \notin mishap'["crossed"] /\ v.a # NoApp => app'[a].status = s
    BY <2>3
  <2>8. app' = app \/ (a # NoApp /\ s \in Reviews /\ Status(a, s))
    BY <1>1, <2>4
  <2>9. u \in Users
    BY <1>1
  <2>10. IInv /\ p \in Procs /\ u \in Users /\ proc[p].u = u /\ proc[p].step \in {"review", "admin"} /\ Done(p)
    BY <2>5, <2>9
  <2>11. /\ UNCHANGED <<cfg, order, left>>
         /\ a \in Apps \cup {NoApp} /\ (a # NoApp => app[a].owner = u)
    BY <2>4, <2>5
  <2>12. CASE s = "verified"
    <3>1. UserRow(u, "verified", a) /\ v.status = "verified" /\ v \in [a : Apps \cup {NoApp}, status : {"verified"}]
          /\ "verified" \in {"unverified", "rejected", "verified"}
      BY <2>1, <2>12
    <3>2. (v.a # NoApp => v.a = a /\ "verified" \in Reviews) /\ ("verified" = "verified" => v.a = a /\ a = a)
      BY <2>6, <2>12
    <3>3. app' = app \/ (a # NoApp /\ "verified" \in Reviews /\ Status(a, "verified"))
      BY <2>8, <2>12
    <3>4. u \notin mishap'["crossed"] /\ v.a # NoApp => app'[a].status = "verified"
      BY <2>7, <2>12
    <3>5. verdict' = [verdict EXCEPT ![u] = v]
      BY <2>1
    <3>6. mishap' \in [Kinds -> SUBSET Users] /\ Grown
          /\ ("verified" = "verified" /\ Unfinished(u) \ {a} # {} => u \in mishap'["doubled"])
      BY <2>2, <2>12
    <3> QED
      BY <2>10, <2>11, <3>1, <3>2, <3>3, <3>4, <3>5, <3>6, Decides
  <2>13. CASE s = "rejected"
    <3>1. UserRow(u, "rejected", NoApp) /\ v.status = "rejected" /\ v \in [a : Apps \cup {NoApp}, status : {"rejected"}]
          /\ "rejected" \in {"unverified", "rejected", "verified"}
      BY <2>1, <2>13
    <3>2. (v.a # NoApp => v.a = a /\ "rejected" \in Reviews) /\ ("rejected" = "verified" => v.a = a /\ NoApp = a)
      BY <2>6, <2>13
    <3>3. app' = app \/ (a # NoApp /\ "rejected" \in Reviews /\ Status(a, "rejected"))
      BY <2>8, <2>13
    <3>4. u \notin mishap'["crossed"] /\ v.a # NoApp => app'[a].status = "rejected"
      BY <2>7, <2>13
    <3>5. verdict' = [verdict EXCEPT ![u] = v]
      BY <2>1
    <3>6. mishap' \in [Kinds -> SUBSET Users] /\ Grown
          /\ ("rejected" = "verified" /\ Unfinished(u) \ {a} # {} => u \in mishap'["doubled"])
      BY <2>2, <2>13
    <3> QED
      BY <2>10, <2>11, <3>1, <3>2, <3>3, <3>4, <3>5, <3>6, Decides
  <2> QED
    BY <1>1, <2>12, <2>13 DEF Reviews
<1> QED
  BY <1>1, <1>2, <1>3 DEF ReviewCommit

LEMMA UpdateUserCommitStep ==
    ASSUME IInv, NEW p \in Procs, UpdateUserCommit(p)
    PROVE  IInv'
<1> DEFINE u == proc[p].u
           a == proc[p].a
           saw == proc[p].saw
           action == proc[p].want
<1>1. /\ proc[p].step = "admin" /\ u \in Users /\ proc[p].u = u /\ proc[p].a = a /\ proc[p].saw = saw
      /\ (a = NoApp /\ saw = "none") \/ (a \in Apps /\ app[a].owner = u /\ saw # "none")
      /\ UNCHANGED <<cfg, order, left>> /\ Done(p)
  BY DEF UpdateUserCommit, IInv, HoldsOK, Holds, Typed
<1>2. CASE UNCHANGED <<app, row, verdict, mishap>>
  <2>1. Grown /\ mishap' \in [Kinds -> SUBSET Users]
    BY <1>1, <1>2 DEF Grown, IInv, Typed
  <2> QED
    BY <1>1, <1>2, <2>1, Ends
<1>3. ASSUME ~UNCHANGED <<app, row, verdict, mishap>>
      PROVE  /\ \/ action = "verify" /\ VerifyUser(u, a, saw)
                \/ action = "reject" /\ RejectUser(u, a, saw)
                \/ action = "reset" /\ ResetUser(u)
             /\ Beside(u, a, action)
  BY <1>3 DEF UpdateUserCommit
<1> HIDE DEF u, a, saw, action
<1>4. ASSUME Beside(u, a, action)
      PROVE  /\ mishap' \in [Kinds -> SUBSET Users] /\ Grown
             /\ action = "verify" /\ Unfinished(u) \ {a} # {} => u \in mishap'["doubled"]
  BY <1>1, <1>4, BesideMarks
<1>5. /\ a \in Apps \cup {NoApp} /\ (a # NoApp => app[a].owner = u)
      /\ NoApp \in Apps \cup {NoApp}
  BY <1>1
<1>6. CASE action = "verify" /\ VerifyUser(u, a, saw) /\ Beside(u, a, action)
  <2> DEFINE v == [a |-> a, status |-> "verified"]
  <2>1. /\ UserRow(u, "verified", a) /\ verdict' = [verdict EXCEPT ![u] = v]
        /\ v.status = "verified" /\ v.a = a /\ v \in [a : Apps \cup {NoApp}, status : {"verified"}]
    BY <1>5, <1>6 DEF VerifyUser, Pronounce
  <2> HIDE DEF v
  <2>2. /\ mishap' \in [Kinds -> SUBSET Users] /\ Grown
        /\ Unfinished(u) \ {a} # {} => u \in mishap'["doubled"]
    BY <1>4, <1>6
  <2>3. app' = app \/ (a # NoApp /\ "verified" \in Reviews /\ Status(a, "verified"))
    BY <1>1, <1>6, Constants DEF VerifyUser, Reviews
  <2>4. ASSUME u \notin mishap'["crossed"], a # NoApp PROVE app'[a].status = "verified"
    <3>1. saw = app[a].status
      BY <1>1, <2>2, <2>4, Known DEF CurrentOK, Current
    <3>2. CASE saw = "verified"
      BY <1>6, <3>1, <3>2 DEF VerifyUser
    <3>3. CASE saw # "verified"
      BY <1>1, <1>6, <2>4, <3>3, Written DEF VerifyUser
    <3> QED
      BY <3>2, <3>3
  <2>5. "verified" \in {"unverified", "rejected", "verified"} /\ "verified" \in Reviews
    BY DEF Reviews
  <2> QED
    BY <1>1, <1>5, <2>1, <2>2, <2>3, <2>4, <2>5, Decides
<1>7. CASE action = "reject" /\ RejectUser(u, a, saw) /\ Beside(u, a, action)
  <2> DEFINE v == [a |-> IF saw \in Reviewable THEN a ELSE NoApp, status |-> "rejected"]
  <2>1. /\ UserRow(u, "rejected", NoApp) /\ verdict' = [verdict EXCEPT ![u] = v]
        /\ v.status = "rejected" /\ v.a = IF saw \in Reviewable THEN a ELSE NoApp
        /\ v \in [a : Apps \cup {NoApp}, status : {"rejected"}]
    BY <1>5, <1>7 DEF RejectUser, Pronounce
  <2> HIDE DEF v
  <2>2. mishap' \in [Kinds -> SUBSET Users] /\ Grown
    BY <1>4, <1>7
  <2>3. saw \in Reviewable => a \in Apps
    BY <1>1 DEF Reviewable
  <2>4. app' = app \/ (a # NoApp /\ "rejected" \in Reviews /\ Status(a, "rejected"))
    BY <1>7, <2>3, Constants DEF RejectUser, Reviews
  <2>5. v.a # NoApp => app'[a].status = "rejected"
    <3>1. v.a # NoApp => saw \in Reviewable /\ Status(a, "rejected")
      BY <1>7, <2>1 DEF RejectUser
    <3>2. v.a # NoApp => a \in Apps /\ app[a].owner = u
      BY <1>1, <2>3, <3>1, Constants
    <3> QED
      BY <1>1, <3>1, <3>2, Written
  <2>6. "rejected" \in {"unverified", "rejected", "verified"} /\ "rejected" \in Reviews /\ "rejected" # "verified"
        /\ (v.a # NoApp => v.a = a)
    BY <2>1 DEF Reviews
  <2> QED
    BY <1>1, <1>5, <2>1, <2>2, <2>4, <2>5, <2>6, Decides
<1>8. CASE action = "reset" /\ ResetUser(u) /\ Beside(u, a, action)
  <2> DEFINE v == [a |-> NoApp, status |-> "unverified"]
  <2>1. /\ UserRow(u, "unverified", NoApp) /\ verdict' = [verdict EXCEPT ![u] = v] /\ app' = app
        /\ v.status = "unverified" /\ v.a = NoApp /\ v \in [a : Apps \cup {NoApp}, status : {"unverified"}]
    BY <1>8 DEF ResetUser, Pronounce
  <2> HIDE DEF v
  <2>2. mishap' \in [Kinds -> SUBSET Users] /\ Grown
    BY <1>4, <1>8
  <2>3. "unverified" \in {"unverified", "rejected", "verified"} /\ "unverified" # "verified"
    OBVIOUS
  <2> QED
    BY <1>1, <1>5, <2>1, <2>2, <2>3, Decides
<1> QED
  BY <1>2, <1>3, <1>6, <1>7, <1>8

-----------------------------------------------------------------------------
\* The server.

LEMMA ChangeStep ==
    ASSUME IInv, NEW c \in Settings, ChangeSettings(c)
    PROVE  IInv'
<1>1. UNCHANGED <<row, app, order, verdict, mishap, left, proc>> /\ cfg' \in Settings
  BY DEF ChangeSettings, rows, ghosts
<1>2. proc \in [Procs -> Job] /\ mishap \in [Kinds -> SUBSET Users]
  BY DEF IInv, Typed
<1>3. \A q \in Procs : proc[q].step # "idle" => proc'[q] # Idle
  BY <1>1, IdleIsJob
<1>4. Grown
  BY <1>1 DEF Grown
<1> QED
  BY <1>1, <1>2, <1>3, <1>4, GivesUp

LEMMA StutterStep ==
    ASSUME IInv, UNCHANGED vars
    PROVE  IInv'
<1>1. UNCHANGED <<cfg, row, app, order, verdict, mishap, left, proc>>
  BY DEF vars, rows, ghosts
<1>2. proc \in [Procs -> Job] /\ mishap \in [Kinds -> SUBSET Users] /\ cfg \in Settings
  BY DEF IInv, Typed
<1>3. \A q \in Procs : proc[q].step # "idle" => proc'[q] # Idle
  BY <1>1, IdleIsJob
<1>4. Grown
  BY <1>1 DEF Grown
<1> QED
  BY <1>1, <1>2, <1>3, <1>4, GivesUp

LEMMA StopStep ==
    ASSUME IInv, Stop
    PROVE  IInv'
<1>1. /\ UNCHANGED <<cfg, row, app, order, verdict>> /\ cfg' \in Settings
      /\ proc' = [p \in Procs |-> Idle] /\ proc' \in [Procs -> Job]
      /\ proc \in [Procs -> Job] /\ mishap \in [Kinds -> SUBSET Users]
  BY IdleIsJob DEF Stop, rows, IInv, Typed
<1> DEFINE cut == {proc[p].u : p \in {q \in Procs : proc[q].step = "user"}}
           open == {proc[p].a : p \in {q \in Procs : proc[q].step \in {"start", "mark", "verify", "ask"}}}
<1>2. mishap' = [mishap EXCEPT !["torn"] = @ \cup cut] /\ left' = left \cup open
  BY DEF Stop
<1>3. cut \subseteq Users
  BY DEF IInv, HoldsOK, Holds
<1>4. \A q \in Procs : /\ proc[q].step = "user" => proc[q].u \in cut
                       /\ proc[q].step \in {"start", "mark", "verify", "ask"} => proc[q].a \in open
  OBVIOUS
<1> HIDE DEF cut, open
<1>5. /\ mishap' \in [Kinds -> SUBSET Users] /\ Grown /\ cut \subseteq mishap'["torn"] /\ open \subseteq left'
  BY <1>1, <1>2, <1>3 DEF Grown, Kinds
<1> QED
  BY <1>1, <1>4, <1>5, GivesUp

LEMMA NextStep ==
    ASSUME IInv, [Next]_vars
    PROVE  IInv'
<1>1. ASSUME NEW p \in Procs, Step(p) PROVE IInv'
  BY <1>1, CheckStep, CreateStep, PayStep, HandleStep, StartStep, MarkStep, VerifyStep, AnswerStep, FinishStep,
     ReviewCommitStep, UpdateUserCommitStep DEF Step
<1>2. ASSUME NEW p \in Procs, Request(p) PROVE IInv'
  <2>1. CASE \E u \in Users : Submit(p, u)
    BY <2>1, SubmitStep
  <2>2. CASE \/ \E u \in Users : UserRetry(p, u)
             \/ \E a \in Apps : Exists(a) /\ (Callback(p, a) \/ AdminRetry(p, a))
    BY <2>2, RetryStep
  <2>3. CASE \E a \in Apps, s \in Reviews : Exists(a) /\ Review(p, a, s)
    BY <2>3, ReviewStep
  <2>4. CASE \E u \in Users, action \in Actions : UpdateUser(p, u, action)
    BY <2>4, UpdateUserStep
  <2> QED
    BY <1>2, <2>1, <2>2, <2>3, <2>4 DEF Request
<1>3. CASE UNCHANGED vars
  BY <1>3, StutterStep
<1> QED
  BY <1>1, <1>2, <1>3, ChangeStep, StopStep DEF Next

LEMMA InitInv == ASSUME Init PROVE IInv
<1>1. Typed
  <2>1. Absent \in Application \cup {Absent} /\ Idle \in Job
    BY IdleIsJob
  <2>2. NoVerdict \in [a : Apps \cup {NoApp}, status : {"none", "unverified", "rejected", "verified"}]
    BY DEF NoVerdict
  <2>3. cfg \in Settings
    BY Constants DEF Init
  <2> QED
    BY <2>1, <2>2, <2>3 DEF Init, Typed, Kinds
<1>2. /\ \A a \in Apps : app[a] = Absent /\ order[a] = "none"
      /\ \A u \in Users : row[u] = [status |-> "unverified", name |-> NoApp] /\ verdict[u] = NoVerdict
      /\ \A p \in Procs : proc[p] = Idle
  BY DEF Init
<1>3. Absent.status = "none" /\ Absent.owner = NoUser /\ NoVerdict.a = NoApp
  BY DEF Absent, NoVerdict
<1>4. AppsOK
  BY <1>2, <1>3 DEF AppsOK, Exists
<1>5. NamesOK
  BY <1>2, <1>3 DEF NamesOK
<1>6. HoldsOK /\ CrossedOK
  BY <1>2, IdleIsJob DEF HoldsOK, Holds, CrossedOK, AtWork
<1>7. TakenUp
  BY <1>2, <1>3 DEF TakenUp
<1>8. ASSUME NEW u \in Users PROVE UserOK(u)
  <2>1. CurrentOK(u)
    BY <1>2, IdleIsJob DEF CurrentOK, Current
  <2>2. OnlyOK(u)
    <3>1. Open(app, u) = {}
      BY <1>2, <1>3 DEF Open, UnfinishedStatus
    <3> QED
      BY <1>2, <3>1, IdleIsJob DEF OnlyOK, Only
  <2>3. SaidOK(u)
    BY <1>2, IdleIsJob DEF SaidOK, Said, Stands
  <2> QED
    BY <2>1, <2>2, <2>3 DEF UserOK
<1> QED
  BY <1>1, <1>4, <1>5, <1>6, <1>7, <1>8 DEF IInv, UsersOK

LEMMA Invariant == Spec => []IInv
<1> QED
  BY InitInv, NextStep, PTL DEF Spec

-----------------------------------------------------------------------------
\* The application a user was verified by: nobody verifies it once more.

Settled(j, a) ==
    j.a = a => /\ j.step \notin {"mark", "verify", "ask"}
               /\ j.step = "user" => j.want = "verified"

ShownOK(u) ==
    row[u].name # NoApp =>
        /\ app[row[u].name].status \in {"verifying", "verified"}
        /\ \A p \in Procs : proc[p].u = u => Settled(proc[p], row[u].name)

Shown == \A u \in Users \ mishap["crossed"] : ShownOK(u)

\* The mark stays.
LEMMA CrossedStays ==
    ASSUME IInv, [Next]_vars
    PROVE  mishap["crossed"] \subseteq mishap'["crossed"]
<1>1. mishap \in [Kinds -> SUBSET Users]
  BY DEF IInv, Typed
<1>2. ASSUME NEW p, NEW u, NEW d, Enter(p, u, d) PROVE mishap["crossed"] \subseteq mishap'["crossed"]
  BY <1>1, <1>2 DEF Enter, Kinds
<1>3. ASSUME NEW k, NEW u, Mark(k, u) PROVE mishap["crossed"] \subseteq mishap'["crossed"]
  BY <1>1, <1>3 DEF Mark, Kinds
<1>4. ASSUME NEW c, NEW k, NEW u, MarkIf(c, k, u) PROVE mishap["crossed"] \subseteq mishap'["crossed"]
  BY <1>3, <1>4 DEF MarkIf
<1>5. ASSUME NEW p \in Procs, Step(p) PROVE mishap["crossed"] \subseteq mishap'["crossed"]
  <2>1. CheckPending(p) => mishap["crossed"] \subseteq mishap'["crossed"]
    BY DEF CheckPending, ghosts
  <2>2. Create(p) => mishap["crossed"] \subseteq mishap'["crossed"]
    BY <1>2 DEF Create, CreatePaid, CreateFree, CreateRefused
  <2>3. Pay(p) => mishap["crossed"] \subseteq mishap'["crossed"]
    BY <1>4 DEF Pay
  <2>4. HandlePaymentSuccess(p) => mishap["crossed"] \subseteq mishap'["crossed"]
    BY DEF HandlePaymentSuccess, ghosts
  <2>5. Start(p) => mishap["crossed"] \subseteq mishap'["crossed"]
    BY <1>2 DEF Start
  <2>6. MarkVerifying(p) => mishap["crossed"] \subseteq mishap'["crossed"]
    BY DEF MarkVerifying
  <2>7. Verify(p) => mishap["crossed"] \subseteq mishap'["crossed"]
    BY <1>3 DEF Verify, VerifyByHand, VerifyByProvider, VerifyWithoutSettings
  <2>8. Answer(p) => mishap["crossed"] \subseteq mishap'["crossed"]
    BY <1>3 DEF Answer
  <2>9. Finish(p) => mishap["crossed"] \subseteq mishap'["crossed"]
    BY <1>3 DEF Finish
  <2>10. ReviewCommit(p) => mishap["crossed"] \subseteq mishap'["crossed"]
    BY <1>4 DEF ReviewCommit, Beside
  <2>11. UpdateUserCommit(p) => mishap["crossed"] \subseteq mishap'["crossed"]
    BY <1>4 DEF UpdateUserCommit, Beside
  <2> QED
    BY <1>5, <2>1, <2>2, <2>3, <2>4, <2>5, <2>6, <2>7, <2>8, <2>9, <2>10, <2>11 DEF Step
<1>6. ASSUME NEW p \in Procs, Request(p) PROVE mishap["crossed"] \subseteq mishap'["crossed"]
  <2>1. ASSUME NEW u \in Users, Submit(p, u) \/ UserRetry(p, u) PROVE mishap' = mishap
    BY <2>1 DEF Submit, UserRetry, ghosts
  <2>2. ASSUME NEW a \in Apps, Callback(p, a) \/ AdminRetry(p, a) PROVE mishap' = mishap
    BY <2>2 DEF Callback, AdminRetry, ghosts
  <2>3. ASSUME NEW a \in Apps, NEW s \in Reviews, Review(p, a, s)
        PROVE  mishap["crossed"] \subseteq mishap'["crossed"]
    BY <1>4, <2>3 DEF Review
  <2>4. ASSUME NEW u \in Users, NEW action \in Actions, UpdateUser(p, u, action)
        PROVE  mishap["crossed"] \subseteq mishap'["crossed"]
    BY <1>4, <2>4 DEF UpdateUser
  <2> QED
    BY <1>6, <2>1, <2>2, <2>3, <2>4 DEF Request
<1>7. ASSUME NEW c \in Settings, ChangeSettings(c) PROVE mishap["crossed"] \subseteq mishap'["crossed"]
  BY <1>7 DEF ChangeSettings, ghosts
<1>8. Stop => mishap["crossed"] \subseteq mishap'["crossed"]
  BY <1>1 DEF Stop, Kinds
<1>9. UNCHANGED vars => mishap["crossed"] \subseteq mishap'["crossed"]
  BY DEF vars, ghosts
<1> QED
  BY <1>5, <1>6, <1>7, <1>8, <1>9 DEF Next

\* A step of one request that leaves the user's row and the application shown.
LEMMA ShownKept ==
    ASSUME IInv, NEW u \in Users, ShownOK(u), row' = row,
           row[u].name # NoApp => app'[row[u].name] = app[row[u].name],
           NEW p \in Procs, NEW j \in Job, Set(p, j),
           row[u].name # NoApp /\ j.u = u => Settled(j, row[u].name)
    PROVE  ShownOK(u)'
<1>1. \A q \in Procs : proc'[q] = IF q = p THEN j ELSE proc[q]
  BY DEF Set, IInv, Typed
<1> QED
  BY <1>1 DEF ShownOK

\* A request that ends, or has not begun, is at no application.
LEMMA IdleSettled == ASSUME NEW a PROVE Settled(Idle, a)
BY IdleIsJob DEF Settled

\* Who leaves the application alone and goes on with what is not it.
LEMMA Elsewhere ==
    ASSUME IInv, NEW u \in Users, u \notin mishap["crossed"], ShownOK(u), NEW p \in Procs,
           proc[p].step \in {"credit", "start", "mark", "verify", "ask", "user"},
           proc[p].step = "start" => app[proc[p].a].status \in Startable,
           proc[p].step = "credit" => proc[p].saw = "pending_payment",
           proc[p].step = "user" => proc[p].want # "verified", row[u].name # NoApp
    PROVE  proc[p].a # row[u].name
<1> SUFFICES ASSUME proc[p].a = row[u].name PROVE FALSE
  OBVIOUS
<1>1. app[row[u].name].owner = u /\ row[u].name \in Apps
  BY DEF IInv, NamesOK, Typed
<1>2. proc[p].step # "user" => proc[p].u = u
  BY <1>1 DEF IInv, HoldsOK, Holds
<1>3. proc[p].step = "user" => proc[p].u = u
  BY <1>1 DEF IInv, HoldsOK, Holds
<1>4. proc[p].step \in {"credit", "start"}
  BY <1>2, <1>3 DEF ShownOK, Settled
<1>5. app[row[u].name].status \in {"verifying", "verified"}
  BY DEF ShownOK
<1>6. CASE proc[p].step = "start"
  BY <1>5, <1>6 DEF Startable
<1>7. CASE proc[p].step = "credit"
  <2>1. proc[p].saw = app[proc[p].a].status
    BY <1>1, <1>2, <1>7, Constants DEF IInv, UsersOK, UserOK, CurrentOK, Current
  <2> QED
    BY <1>5, <1>7, <2>1
<1> QED
  BY <1>4, <1>6, <1>7

\* The steps that write no user's row.
LEMMA ShownStep ==
    ASSUME IInv, NEW u \in Users, u \notin mishap["crossed"], ShownOK(u), NEW p \in Procs, Step(p),
           ~(Finish(p) \/ ReviewCommit(p) \/ UpdateUserCommit(p))
    PROVE  ShownOK(u)'
<1> DEFINE n == row[u].name
           a == proc[p].a
<1>1. /\ proc[p] \in Job /\ Holds(proc[p], app) /\ app \in [Apps -> Application \cup {Absent}]
      /\ n # NoApp => n \in Apps /\ app[n].owner = u /\ app[n] # Absent
  BY Constants DEF IInv, Typed, HoldsOK, NamesOK, Absent
<1>2. Settled(Idle, n) /\ Idle \in Job
  BY IdleSettled, IdleIsJob
<1>3. ASSUME row' = row, NEW j \in Job, Set(p, j), NEW b \in Apps, NEW s, app' = app \/ Status(b, s),
             n # NoApp => b # n \/ app' = app, n # NoApp /\ j.u = u => Settled(j, n)
      PROVE  ShownOK(u)'
  <2>1. n # NoApp => app'[n] = app[n]
    BY <1>1, <1>3 DEF Status
  <2> QED
    BY <1>3, <2>1, ShownKept
<1>4. ASSUME row' = row, app' = app, NEW j \in Job, Set(p, j), n # NoApp /\ j.u = u => Settled(j, n)
      PROVE  ShownOK(u)'
  BY <1>4, ShownKept
<1>5. CASE CheckPending(p)
  <2>1. CASE Done(p)
    BY <1>2, <1>4, <1>5, <2>1 DEF CheckPending, Done, rows
  <2>2. CASE Set(p, [proc[p] EXCEPT !.step = "create", !.known = Unfinished(proc[p].u)])
    <3> DEFINE j == [proc[p] EXCEPT !.step = "create", !.known = Unfinished(proc[p].u)]
    <3>1. j.step = "create" /\ j \in Job /\ Set(p, j)
      BY <1>1, <2>2 DEF Job, Steps, Unfinished, Owned
    <3> HIDE DEF j
    <3> QED
      BY <1>4, <1>5, <3>1 DEF CheckPending, Settled, rows
  <2> QED
    BY <1>5, <2>1, <2>2 DEF CheckPending
<1>6. CASE Create(p)
  <2>1. CASE CreateRefused(p)
    BY <1>2, <1>4, <1>6, <2>1 DEF Create, CreateRefused, Done
  <2>2. ASSUME NEW b, b = NextApp, NEW x, app' = [app EXCEPT ![b] = x], NEW j \in Job, Set(p, j),
               j.a = b \/ j.step = "idle"
        PROVE  ShownOK(u)'
    <3>1. b \in Apps /\ app[b] = Absent
      BY <1>6, <2>2, NextAppIsNew DEF Create, Exists, IInv
    <3>2. n # NoApp => b # n /\ app'[n] = app[n]
      BY <1>1, <2>2, <3>1
    <3>3. n # NoApp => Settled(j, n)
      BY <2>2, <3>2 DEF Settled
    <3>4. row' = row
      BY <1>6 DEF Create
    <3> QED
      BY <2>2, <3>2, <3>3, <3>4, ShownKept
  <2>3. CASE CreatePaid(p)
    BY <1>2, <2>2, <2>3, IdleIsJob DEF CreatePaid, Done
  <2>4. CASE CreateFree(p)
    <3> DEFINE j == [Idle EXCEPT !.step = "verify", !.u = proc[p].u, !.a = NextApp]
    <3>1. NextApp \in Apps
      BY <1>6, NextAppIsNew DEF Create, Exists, IInv
    <3>2. j \in Job /\ j.a = NextApp /\ Set(p, j)
      BY <1>1, <2>4, <3>1 DEF CreateFree, Idle, Job, Steps
    <3> HIDE DEF j
    <3> QED
      BY <2>2, <2>4, <3>2 DEF CreateFree
  <2> QED
    BY <1>6, <2>1, <2>3, <2>4 DEF Create
<1>7. CASE Pay(p)
  <2>1. CASE Done(p)
    BY <1>2, <1>4, <1>7, <2>1 DEF Pay, Done, rows
  <2>2. CASE Set(p, [proc[p] EXCEPT !.step = "credit", !.saw = app[a].status])
    <3> DEFINE j == [proc[p] EXCEPT !.step = "credit", !.saw = app[a].status]
    <3>1. a \in Apps /\ app[a].owner = proc[p].u /\ proc[p].u \in Users
      BY <1>1, <1>7 DEF Pay, Holds
    <3>2. app[a].status \in Statuses
      BY <1>1, <3>1, Constants DEF Application, Absent
    <3>3. j.step = "credit" /\ j \in Job /\ Set(p, j)
      BY <1>1, <2>2, <3>2 DEF Job, Steps
    <3> HIDE DEF j
    <3> QED
      BY <1>4, <1>7, <3>3 DEF Pay, Settled, rows
  <2> QED
    BY <1>7, <2>1, <2>2 DEF Pay
<1>8. CASE HandlePaymentSuccess(p)
  <2>1. CASE Done(p) /\ app' = app
    BY <1>2, <1>4, <1>8, <2>1 DEF HandlePaymentSuccess, Done
  <2>2. CASE /\ Set(p, [proc[p] EXCEPT !.step = "start", !.saw = "none"])
             /\ IF proc[p].saw = "pending_payment" THEN Status(a, "paid") ELSE UNCHANGED app
    <3> DEFINE j == [proc[p] EXCEPT !.step = "start", !.saw = "none"]
    <3>1. a \in Apps
      BY <1>1, <1>8 DEF HandlePaymentSuccess, Holds
    <3>2. j.step = "start" /\ j \in Job /\ Set(p, j)
      BY <1>1, <2>2 DEF Job, Steps
    <3>3. n # NoApp => a # n \/ app' = app
      BY <1>8, <2>2, Elsewhere DEF HandlePaymentSuccess
    <3>4. app' = app \/ Status(a, "paid")
      BY <2>2
    <3>5. Settled(j, n) /\ row' = row
      BY <1>8, <3>2 DEF HandlePaymentSuccess, Settled
    <3> HIDE DEF j
    <3> QED
      BY <1>3, <3>1, <3>2, <3>3, <3>4, <3>5
  <2> QED
    BY <1>8, <2>1, <2>2 DEF HandlePaymentSuccess
<1>9. CASE Start(p)
  <2>1. CASE Done(p)
    BY <1>2, <1>4, <1>9, <2>1 DEF Start, Done, rows
  <2>2. CASE app[a].status \in Startable /\ Set(p, [proc[p] EXCEPT !.step = "mark"])
    <3> DEFINE j == [proc[p] EXCEPT !.step = "mark"]
    <3>1. j.a = a /\ j \in Job /\ Set(p, j)
      BY <1>1, <2>2 DEF Job, Steps
    <3> HIDE DEF j
    <3>2. n # NoApp => Settled(j, n)
      BY <1>9, <2>2, <3>1, Elsewhere DEF Start, Settled
    <3> QED
      BY <1>4, <1>9, <3>1, <3>2 DEF Start, rows
  <2> QED
    BY <1>9, <2>1, <2>2 DEF Start
<1>10. ASSUME row' = row, proc[p].step \in {"mark", "verify", "ask"}, app' = app \/ \E s \in Statuses : Status(a, s),
              NEW j \in Job, Set(p, j), j.a = a \/ j.step = "idle"
       PROVE  ShownOK(u)'
  <2>1. a \in Apps
    BY <1>1, <1>10 DEF Holds
  <2>2. n # NoApp => a # n
    BY <1>10, Elsewhere
  <2>3. n # NoApp => Settled(j, n)
    BY <1>10, <2>2 DEF Settled
  <2>4. CASE app' = app
    BY <1>4, <1>10, <2>3, <2>4
  <2>5. ASSUME NEW s \in Statuses, Status(a, s) PROVE ShownOK(u)'
    BY <1>3, <1>10, <2>1, <2>2, <2>3, <2>5
  <2> QED
    BY <1>10, <2>4, <2>5
<1>11. ASSUME NEW x \in Steps, NEW w \in {"none", "pay", "pending"} \cup Reviews \cup Actions
       PROVE  /\ [proc[p] EXCEPT !.step = x] \in Job /\ [proc[p] EXCEPT !.step = x].a = a
              /\ [proc[p] EXCEPT !.step = x, !.want = w] \in Job /\ [proc[p] EXCEPT !.step = x, !.want = w].a = a
  BY <1>1 DEF Job
<1>12. {"paid", "verifying", "failed", "rejected", "verified"} \subseteq Statuses /\ {"verify", "ask", "user"} \subseteq Steps
  BY DEF Statuses, UnfinishedStatus, Answers, Steps
<1>13. CASE MarkVerifying(p)
  <2>1. proc[p].step = "mark" /\ row' = row /\ (app' = app \/ Status(a, "verifying"))
        /\ (Done(p) \/ Set(p, [proc[p] EXCEPT !.step = "verify"]))
    BY <1>13 DEF MarkVerifying
  <2>2. "verify" \in Steps /\ "verifying" \in Statuses /\ "none" \in {"none", "pay", "pending"} \cup Reviews \cup Actions
    BY <1>12
  <2>3. [proc[p] EXCEPT !.step = "verify"] \in Job /\ [proc[p] EXCEPT !.step = "verify"].a = a
    BY <1>11, <2>2
  <2> QED
    BY <1>10, <2>1, <2>2, <2>3, IdleIsJob DEF Done
<1>14. CASE Verify(p)
  <2>1. proc[p].step = "verify" /\ row' = row /\ (app' = app \/ \E s \in Statuses : Status(a, s))
    BY <1>12, <1>14 DEF Verify, VerifyByHand, VerifyByProvider, VerifyWithoutSettings
  <2>2. \/ Done(p) \/ Set(p, [proc[p] EXCEPT !.step = "ask"])
        \/ Set(p, [proc[p] EXCEPT !.step = "user", !.want = "pending"])
    BY <1>14 DEF Verify, VerifyByHand, VerifyByProvider, VerifyWithoutSettings
  <2>3. "ask" \in Steps /\ "user" \in Steps /\ "pending" \in {"none", "pay", "pending"} \cup Reviews \cup Actions
    BY <1>12
  <2>4. /\ [proc[p] EXCEPT !.step = "ask"] \in Job /\ [proc[p] EXCEPT !.step = "ask"].a = a
        /\ [proc[p] EXCEPT !.step = "user", !.want = "pending"] \in Job
        /\ [proc[p] EXCEPT !.step = "user", !.want = "pending"].a = a
    BY <1>11, <2>3
  <2>5. proc[p].step \in {"mark", "verify", "ask"}
    BY <2>1
  <2>6. CASE Done(p)
    BY <1>10, <2>1, <2>5, <2>6, IdleIsJob DEF Done
  <2>7. CASE Set(p, [proc[p] EXCEPT !.step = "ask"])
    BY <1>10, <2>1, <2>4, <2>5, <2>7
  <2>8. CASE Set(p, [proc[p] EXCEPT !.step = "user", !.want = "pending"])
    BY <1>10, <2>1, <2>4, <2>5, <2>8
  <2> QED
    BY <2>2, <2>6, <2>7, <2>8
<1>15. CASE Answer(p)
  <2>1. PICK s \in Answers : /\ Status(a, s) \/ app' = app
                             /\ \/ Done(p)
                                \/ Set(p, [proc[p] EXCEPT !.step = "user", !.want = s]) /\ s # "failed"
    BY <1>15 DEF Answer
  <2>2. proc[p].step \in {"mark", "verify", "ask"} /\ row' = row /\ s \in Statuses /\ "user" \in Steps
    BY <1>12, <1>15 DEF Answer, Answers
  <2>3. CASE Done(p)
    BY <1>10, <2>1, <2>2, <2>3, IdleIsJob DEF Done
  <2>4. CASE Set(p, [proc[p] EXCEPT !.step = "user", !.want = s]) /\ s # "failed"
    <3>1. s \in {"none", "pay", "pending"} \cup Reviews \cup Actions
      BY <2>1, <2>4 DEF Answers, Reviews
    <3>2. [proc[p] EXCEPT !.step = "user", !.want = s] \in Job /\ [proc[p] EXCEPT !.step = "user", !.want = s].a = a
      BY <1>11, <2>2, <3>1
    <3> QED
      BY <1>10, <2>1, <2>2, <2>4, <3>2
  <2> QED
    BY <2>1, <2>3, <2>4
<1> QED
  BY <1>5, <1>6, <1>7, <1>8, <1>9, <1>13, <1>14, <1>15 DEF Step

\* The steps that write a user's row.
LEMMA ShownWritten ==
    ASSUME IInv, NEW u \in Users, u \notin mishap["crossed"], ShownOK(u), NEW p \in Procs, proc[p].step \in Working,
           proc[p].u \in Users, Done(p), app \in [Apps -> Application \cup {Absent}],
           app' = app \/ \E b \in Apps, s \in Statuses : Status(b, s) /\ app[b].owner = proc[p].u,
           \/ row' = row /\ app' = app
           \/ \E x : row' = [row EXCEPT ![proc[p].u] = x] /\
                 (x.name # NoApp => /\ x.name \in Apps
                                    /\ proc[p].u = u => app'[x.name].status \in {"verifying", "verified"})
    PROVE  ShownOK(u)'
<1>1. \A q \in Procs : proc'[q] = IF q = p THEN Idle ELSE proc[q]
  BY IdleIsJob DEF Done, Set, IInv, Typed
<1>2. /\ row \in [Users -> [status : {"unverified", "pending", "rejected", "verified"}, name : Apps \cup {NoApp}]]
      /\ row[u].name # NoApp => app[row[u].name].owner = u
  BY DEF IInv, Typed, NamesOK
<1>3. CASE row' = row /\ app' = app
  BY <1>1, <1>3, IdleSettled DEF ShownOK
<1>4. CASE proc[p].u # u /\ row'[u] = row[u]
  <2>1. row[u].name # NoApp => app'[row[u].name] = app[row[u].name]
    BY <1>2, <1>4 DEF Status
  <2> QED
    BY <1>1, <1>4, <2>1, IdleSettled DEF ShownOK
<1>5. ASSUME proc[p].u = u, row'[u].name # NoApp => app'[row'[u].name].status \in {"verifying", "verified"}
      PROVE  ShownOK(u)'
  <2>1. \A q \in Procs \ {p} : proc[q].u = u => proc[q].step \notin Working
    BY <1>5 DEF IInv, CrossedOK, AtWork, Working
  <2>2. ASSUME NEW q \in Procs, proc'[q].u = u PROVE Settled(proc'[q], row'[u].name)
    <3>1. CASE q = p
      BY <1>1, <3>1, IdleSettled
    <3>2. CASE q # p
      BY <1>1, <2>1, <2>2, <3>2 DEF Settled, Working
    <3> QED
      BY <3>1, <3>2
  <2> QED
    BY <1>5, <2>2 DEF ShownOK
<1> QED
  BY <1>2, <1>3, <1>4, <1>5

LEMMA ShownNext ==
    ASSUME IInv, Shown, [Next]_vars
    PROVE  Shown'
<1> SUFFICES ASSUME NEW u \in Users, u \notin mishap["crossed"] PROVE ShownOK(u)'
  BY CrossedStays DEF Shown
<1>1. ShownOK(u)
  BY DEF Shown
<1>2. app \in [Apps -> Application \cup {Absent}] /\ row \in [Users -> [status : {"unverified", "pending",
      "rejected", "verified"}, name : Apps \cup {NoApp}]] /\ \A q \in Procs : Holds(proc[q], app)
  BY DEF IInv, Typed, HoldsOK
<1>3. ASSUME NEW p \in Procs, Finish(p) PROVE ShownOK(u)'
  <2>1. /\ proc[p].step \in Working /\ proc[p].u \in Users /\ Done(p) /\ app' = app /\ proc[p].a \in Apps
    BY <1>2, <1>3 DEF Finish, Working, Holds
  <2>2. CASE row' = row
    BY <1>1, <1>2, <2>1, <2>2, ShownWritten
  <2>3. CASE row' # row
    <3> DEFINE s == proc[p].want
               x == [status |-> s, name |-> IF s = "verified" THEN proc[p].a ELSE NoApp]
    <3>1. row' = [row EXCEPT ![proc[p].u] = x]
      BY <1>3, <2>3 DEF Finish, UserRow
    <3>2. x.name # NoApp => s = "verified" /\ x.name = proc[p].a
      OBVIOUS
    <3> HIDE DEF x
    <3>3. ASSUME proc[p].u = u, s = "verified" PROVE app[proc[p].a].status \in {"verifying", "verified"}
      BY <1>3, <3>3 DEF IInv, UsersOK, UserOK, CurrentOK, Current, Finish
    <3>4. x.name # NoApp => x.name \in Apps /\ (proc[p].u = u => app'[x.name].status \in {"verifying", "verified"})
      BY <2>1, <3>2, <3>3
    <3> QED
      BY <1>1, <1>2, <2>1, <3>1, <3>4, ShownWritten
  <2> QED
    BY <2>2, <2>3
<1>4. ASSUME NEW p \in Procs, ReviewCommit(p) PROVE ShownOK(u)'
  <2> DEFINE a == proc[p].a
             s == proc[p].want
  <2>1. /\ proc[p].step \in Working /\ proc[p].u \in Users /\ Done(p) /\ a \in Apps /\ app[a].owner = proc[p].u
        /\ s \in Reviews
    BY <1>2, <1>4 DEF ReviewCommit, Working, Holds
  <2>2. CASE row' = row /\ app' = app
    BY <1>1, <1>2, <2>1, <2>2, ShownWritten
  <2>3. CASE Status(a, s) /\ UserRow(proc[p].u, s, IF s = "verified" THEN a ELSE NoApp)
    <3> DEFINE x == [status |-> s, name |-> IF s = "verified" THEN a ELSE NoApp]
    <3>1. row' = [row EXCEPT ![proc[p].u] = x]
      BY <2>3 DEF UserRow
    <3>2. x.name # NoApp => s = "verified" /\ x.name = a
      OBVIOUS
    <3> HIDE DEF x
    <3>3. app'[a].status = s /\ s \in Statuses
      BY <2>1, <2>3, Written DEF Reviews, Statuses, Answers
    <3> HIDE DEF a, s
    <3>4. x.name # NoApp => x.name \in Apps /\ (proc[p].u = u => app'[x.name].status \in {"verifying", "verified"})
      BY <2>1, <3>2, <3>3
    <3>5. \E b \in Apps, t \in Statuses : Status(b, t) /\ app[b].owner = proc[p].u
      BY <2>1, <2>3, <3>3
    <3> QED
      BY <1>1, <1>2, <2>1, <3>1, <3>4, <3>5, ShownWritten
  <2> QED
    BY <1>4, <2>2, <2>3 DEF ReviewCommit
<1>5. ASSUME NEW p \in Procs, UpdateUserCommit(p) PROVE ShownOK(u)'
  <2> DEFINE a == proc[p].a
             saw == proc[p].saw
             action == proc[p].want
             w == proc[p].u
  <2>1. /\ proc[p].step \in Working /\ w \in Users /\ Done(p) /\ action \in Actions /\ proc[p].u = w
        /\ \/ a = NoApp /\ saw = "none"
           \/ a \in Apps /\ app[a].owner = w /\ saw # "none"
    <3>1. proc[p].step = "admin" /\ Done(p)
      BY <1>5 DEF UpdateUserCommit
    <3>2. Holds(proc[p], app)
      BY <1>2
    <3> QED
      BY <3>1, <3>2 DEF Working, Holds
  <2>2. w = u => saw = IF a = NoApp THEN "none" ELSE app[a].status
    BY <1>5, <2>1 DEF IInv, UsersOK, UserOK, CurrentOK, Current, UpdateUserCommit
  <2>3. \/ row' = row /\ app' = app
        \/ VerifyUser(w, a, saw) \/ RejectUser(w, a, saw) \/ ResetUser(w)
    BY <1>5 DEF UpdateUserCommit
  <2> HIDE DEF w, a, saw, action
  <2>4. CASE row' = row /\ app' = app
    BY <1>1, <1>2, <2>1, <2>4, ShownWritten
  <2>5. ASSUME NEW s, NEW name, UserRow(w, s, name), name # NoApp => name \in Apps,
               app' = app \/ \E t \in Statuses : a \in Apps /\ app[a].owner = w /\ Status(a, t),
               name # NoApp /\ w = u => app'[name].status \in {"verifying", "verified"}
        PROVE  ShownOK(u)'
    <3> DEFINE x == [status |-> s, name |-> name]
    <3>1. row' = [row EXCEPT ![w] = x] /\ x.name = name
      BY <2>5 DEF UserRow
    <3> HIDE DEF x
    <3>2. app' = app \/ \E b \in Apps, t \in Statuses : Status(b, t) /\ app[b].owner = w
      BY <2>5
    <3> QED
      BY <1>1, <1>2, <2>1, <2>5, <3>1, <3>2, ShownWritten
  <2>6. CASE VerifyUser(w, a, saw)
    <3>1. UserRow(w, "verified", a) /\ "verified" \in Statuses /\ (a # NoApp => a \in Apps /\ app[a].owner = w)
      BY <2>1, <2>6 DEF VerifyUser, Statuses, Answers
    <3>2. CASE saw \notin {"none", "verified"}
      <4>1. Status(a, "verified") /\ a \in Apps
        BY <2>1, <2>6, <3>2 DEF VerifyUser
      <4>2. app'[a].status = "verified"
        BY <2>1, <3>1, <4>1, Constants, Written
      <4> QED
        BY <2>1, <2>5, <3>1, <4>1, <4>2, Constants
    <3>3. CASE saw \in {"none", "verified"}
      <4>1. app' = app
        BY <2>6, <3>3 DEF VerifyUser
      <4>2. a # NoApp /\ w = u => app'[a].status = "verified"
        BY <2>1, <2>2, <3>3, <4>1
      <4> QED
        BY <2>5, <3>1, <4>1, <4>2
    <3> QED
      BY <3>2, <3>3
  <2>7. CASE RejectUser(w, a, saw)
    <3>1. UserRow(w, "rejected", NoApp) /\ "rejected" \in Statuses /\ (app' = app \/ Status(a, "rejected"))
      BY <2>7 DEF RejectUser, Statuses, Answers
    <3>2. app' = app \/ (a \in Apps /\ app[a].owner = w /\ Status(a, "rejected"))
      BY <2>1, <2>7, <3>1 DEF RejectUser, Reviewable
    <3> QED
      BY <2>5, <3>1, <3>2
  <2>8. CASE ResetUser(w)
    BY <2>5, <2>8 DEF ResetUser
  <2> QED
    BY <2>3, <2>4, <2>6, <2>7, <2>8
<1>6. ASSUME NEW p \in Procs, Request(p) PROVE ShownOK(u)'
  <2>1. ASSUME NEW x \in {"check", "start", "pay", "review", "admin"}, NEW j, j.step = x, Set(p, j),
               row' = row, app' = app
        PROVE  ShownOK(u)'
    <3>1. \A q \in Procs : proc'[q] = IF q = p THEN j ELSE proc[q]
      BY <2>1 DEF Set, IInv, Typed
    <3>2. Settled(j, row[u].name)
      BY <2>1 DEF Settled
    <3> QED
      BY <1>1, <2>1, <3>1, <3>2 DEF ShownOK
  <2>2. ASSUME NEW w \in Users, Submit(p, w) PROVE ShownOK(u)'
    BY <2>1, <2>2 DEF Submit, Idle, rows
  <2>3. ASSUME NEW w \in Users, UserRetry(p, w) PROVE ShownOK(u)'
    BY <2>1, <2>3 DEF UserRetry, Idle, rows
  <2>4. ASSUME NEW a \in Apps, Callback(p, a) PROVE ShownOK(u)'
    BY <2>1, <2>4 DEF Callback, Idle, rows
  <2>5. ASSUME NEW a \in Apps, AdminRetry(p, a) PROVE ShownOK(u)'
    BY <2>1, <2>5 DEF AdminRetry, Idle, rows
  <2>6. ASSUME NEW a \in Apps, NEW s \in Reviews, Review(p, a, s) PROVE ShownOK(u)'
    BY <2>1, <2>6 DEF Review, Idle, rows
  <2>7. ASSUME NEW w \in Users, NEW action \in Actions, UpdateUser(p, w, action) PROVE ShownOK(u)'
    BY <2>1, <2>7 DEF UpdateUser, Idle, rows
  <2> QED
    BY <1>6, <2>2, <2>3, <2>4, <2>5, <2>6, <2>7 DEF Request
<1>7. ASSUME NEW p \in Procs, Step(p) PROVE ShownOK(u)'
  BY <1>1, <1>3, <1>4, <1>5, <1>7, ShownStep
<1>8. CASE (\E c \in Settings : ChangeSettings(c)) \/ UNCHANGED vars
  <2>1. row' = row /\ app' = app /\ proc' = proc
    BY <1>8 DEF ChangeSettings, vars, rows
  <2> QED
    BY <1>1, <2>1 DEF ShownOK
<1>9. CASE Stop
  <2>1. row' = row /\ app' = app /\ \A p \in Procs : proc'[p] = Idle
    BY <1>9 DEF Stop, rows
  <2> QED
    BY <1>1, <2>1, IdleSettled DEF ShownOK
<1> QED
  BY <1>6, <1>7, <1>8, <1>9 DEF Next

LEMMA ShownInvariant == Spec => [](IInv /\ Shown)
<1>1. Init => Shown
  BY DEF Init, Shown, ShownOK
<1>2. IInv /\ Shown /\ [Next]_vars => IInv' /\ Shown'
  BY NextStep, ShownNext
<1> QED
  BY <1>1, <1>2, InitInv, PTL DEF Spec

-----------------------------------------------------------------------------
\* The properties.

\* A user has one unfinished application at most, so that the fee is asked of him
\* once, unless his requests crossed, or an application of his was doubled: stored
\* beside another that its check had not seen, or verified anew beside one.
THEOREM OneAtATime == Spec => []OneUnfinished
<1>1. ASSUME IInv PROVE OneUnfinished
  <2>1. TypeOK
    <3>1. \A u \in Users : row[u].name # NoApp => row[u].status = "verified" /\ app[row[u].name].owner = u
      BY <1>1 DEF IInv, NamesOK
    <3>2. \A a \in Apps :
            /\ order[a] # "none" => Exists(a)
            /\ Exists(a) => /\ app[a].owner \in Users
                            /\ \A b \in Apps : b < a => Exists(b)
                            /\ app[a].status \in UnfinishedStatus \cup Answers
            /\ app[a].status = "pending_payment" => order[a] # "none"
      BY <1>1 DEF IInv, AppsOK, Typed, Exists, Application, Statuses
    <3>3. \A p \in Procs : proc[p].step \in {"credit", "start", "mark", "verify", "ask"} =>
            app[proc[p].a].owner = proc[p].u
      BY <1>1 DEF IInv, HoldsOK, Holds
    <3>4. cfg \in Settings
          /\ row \in [Users -> [status : {"unverified", "pending", "rejected", "verified"}, name : Apps \cup {NoApp}]]
      BY <1>1 DEF IInv, Typed
    <3> QED
      BY <3>1, <3>2, <3>3, <3>4 DEF TypeOK
  <2>2. ASSUME NEW u \in Users \ (mishap["doubled"] \cup mishap["crossed"])
        PROVE  Cardinality(Unfinished(u)) <= 1
    <3>1. \A a, b \in Unfinished(u) : a = b
      BY <1>1 DEF IInv, UsersOK, UserOK, OnlyOK, Open, Unfinished, Owned
    <3>2. CASE Unfinished(u) = {}
      BY <3>2, FS_EmptySet
    <3>3. ASSUME NEW a \in Unfinished(u) PROVE Cardinality(Unfinished(u)) <= 1
      <4>1. Unfinished(u) = {a}
        BY <3>1, <3>3
      <4>2. Cardinality({a}) = 1
        BY FS_Singleton
      <4> QED
        BY <4>1, <4>2
    <3> QED
      BY <3>2, <3>3
  <2> QED
    BY <2>1, <2>2 DEF OneUnfinished
<1> QED
  BY <1>1, Invariant, PTL

\* The last verdict on a user whose requests did not cross is what both his
\* rows say, once the second of them is written.
THEOREM VerdictHolds == Spec => []VerdictStands
<1>1. ASSUME IInv PROVE VerdictStands
  BY <1>1 DEF IInv, UsersOK, UserOK, SaidOK, Stands, VerdictStands
<1> QED
  BY <1>1, Invariant, PTL

\* A fee that was paid is no longer waited for, and somebody is at work on each
\* application that was paid for or is being verified, unless a statement
\* failed or the server stopped over it.
THEOREM NobodyWaits == Spec => []NobodyStranded
<1>1. ASSUME IInv PROVE NobodyStranded
  BY <1>1 DEF IInv, AppsOK, TakenUp, AtIt, NobodyStranded
<1> QED
  BY <1>1, Invariant, PTL

\* Where a user's requests do not cross, no notice, retry or failed write of the
\* application he was verified by takes the verification back, and the answer to
\* another one only where he is marked doubled: by the retry of an old application
\* for one, his own or an administrator's.  Otherwise an administrator decides so.
THEOREM VerifiedRemains == Spec => VerifiedStays
<1> DEFINE Kept == \A u \in Users \ mishap["crossed"] :
                      row[u].status = "verified" =>
                         \/ row'[u].status = "verified" \/ AdminDecides(u)
                         \/ u \in mishap["doubled"] /\ OtherAnswers(u)
<1>1. ASSUME IInv /\ Shown, [Next]_vars PROVE [Kept]_vars
  <2> SUFFICES ASSUME Next, NEW u \in Users \ mishap["crossed"], row[u].status = "verified",
                      row'[u].status # "verified"
               PROVE  AdminDecides(u) \/ (u \in mishap["doubled"] /\ OtherAnswers(u))
    BY <1>1
  <2>1. PICK p \in Procs : Finish(p) \/ ReviewCommit(p) \/ UpdateUserCommit(p)
    <3>1. ASSUME NEW p \in Procs, Request(p) PROVE row' = row
      BY <3>1 DEF Request, Submit, UserRetry, Callback, AdminRetry, Review, UpdateUser, rows
    <3>2. ASSUME NEW p \in Procs, Step(p), ~(Finish(p) \/ ReviewCommit(p) \/ UpdateUserCommit(p)) PROVE row' = row
      BY <3>2 DEF Step, CheckPending, Create, Pay, HandlePaymentSuccess, Start, MarkVerifying, Verify, Answer, rows
    <3>3. ASSUME NEW c \in Settings, ChangeSettings(c) PROVE row' = row
      BY <3>3 DEF ChangeSettings, rows
    <3>4. Stop => row' = row
      BY DEF Stop, rows
    <3> QED
      BY <3>1, <3>2, <3>3, <3>4 DEF Next
  <2>2. proc[p] \in Job /\ proc[p].step \in {"user", "review", "admin"} /\ proc[p].u \in Users /\ Done(p)
    BY <1>1, <2>1 DEF Finish, ReviewCommit, UpdateUserCommit, IInv, HoldsOK, Holds, Typed
  <2>3. proc'[p] = Idle
    BY <1>1, <2>2 DEF Done, Set, IInv, Typed
  <2>4. proc[p].u = u
    <3>1. \A w \in Users : w # proc[p].u => row'[w] = row[w]
      BY <1>1, <2>1 DEF Finish, ReviewCommit, UpdateUserCommit, UserRow, VerifyUser, RejectUser, ResetUser, IInv, Typed
    <3> QED
      BY <3>1
  <2>5. CASE Finish(p)
    <3>1. proc[p].step = "user" /\ proc[p].want # "verified"
      <4>1. proc[p].want = "verified" => row'[u].status = "verified"
        BY <1>1, <2>4, <2>5 DEF Finish, UserRow, IInv, Typed
      <4> QED
        BY <2>5, <4>1 DEF Finish
    <3>2. proc[p].a # row[u].name
      <4>1. proc[p].a \in Apps /\ proc[p].a # NoApp
        BY <1>1, <3>1, Constants DEF IInv, HoldsOK, Holds
      <4>2. row[u].name # NoApp => Settled(proc[p], row[u].name)
        BY <1>1, <2>4 DEF Shown, ShownOK
      <4> QED
        BY <3>1, <4>1, <4>2 DEF Settled
    <3>3. u \in mishap["doubled"]
      <4>1. u \notin mishap["doubled"] => Only(proc[p], app, row[u].status)
        BY <1>1, <2>4 DEF IInv, UsersOK, UserOK, OnlyOK
      <4> QED
        BY <3>1, <4>1 DEF Only
    <3> QED
      BY <2>3, <2>4, <3>1, <3>2, <3>3 DEF OtherAnswers
  <2>6. CASE ReviewCommit(p) \/ UpdateUserCommit(p)
    BY <2>3, <2>4, <2>6 DEF AdminDecides, AtWork, ReviewCommit, UpdateUserCommit
  <2> QED
    BY <2>1, <2>5, <2>6
<1> QED
  BY <1>1, ShownInvariant, PTL DEF Spec, VerifiedStays
=============================================================================
