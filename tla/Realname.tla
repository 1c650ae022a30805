------------------------------ MODULE Realname ------------------------------
(***************************************************************************)
(* Real-name verification: a user submits an application, pays its fee or  *)
(* not, a provider or an administrator answers, and the answer is written  *)
(* to the application and to the user, two rows that nothing locks         *)
(* together.  Every write goes by id alone: whoever read a row earlier     *)
(* writes over what was decided since.                                     *)
(***************************************************************************)
EXTENDS Integers, FiniteSets, TLC

CONSTANTS
    Users,
    MaxApps,     \* bound: applications ever submitted
    Procs,       \* bound: requests, callbacks and goroutines at one time
    MaxRulings,  \* bound: requests of the administrators
    MaxEvents,   \* bound: failed statements, stops and changes of the settings
    FirstSettings

ASSUME ConstantsAssumption ==
    /\ "nobody" \notin Users
    /\ {MaxApps, MaxRulings, MaxEvents} \subseteq Nat
    /\ FirstSettings \subseteq [enabled : BOOLEAN, fee : BOOLEAN, provider : {"manual", "aliyun"}]

VARIABLES
    cfg,      \* the settings: enabled, a fee or none, a provider or "manual"
    row,      \* the user's realname_status and whose name is shown
    app,      \* realname_applications, numbered in the order of created_at
    order,    \* the payment order of each application
    proc,     \* what each request, callback or goroutine is at
    verdict,  \* ghost: the last verdict pronounced on each user, and on which application
    left,     \* ghost: applications handed to the administrators or cut short
    mishap,   \* ghost: users by what went wrong for them (see below)
    rulings, events

rows == <<row, app, order>>
ghosts == <<verdict, left, mishap>>
vars == <<cfg, rows, proc, ghosts, rulings, events>>

Apps == 1..MaxApps
NoApp == 0
NoUser == "nobody"

Idle == [step |-> "idle", u |-> NoUser, a |-> NoApp, want |-> "none", saw |-> "none", known |-> {}]
NoVerdict == [a |-> NoApp, status |-> "none"]
Absent == [owner |-> NoUser, status |-> "none"]

Exists(a) == app[a] # Absent
Owned(u) == {a \in Apps : app[a].owner = u}
Latest(u) == IF Owned(u) = {} THEN NoApp ELSE CHOOSE a \in Owned(u) : \A b \in Owned(u) : b <= a
StatusOf(a) == IF a = NoApp THEN "none" ELSE app[a].status

\* HasPendingRealnameApplication.
UnfinishedStatus == {"pending_payment", "paid", "verifying"}
Unfinished(u) == {a \in Owned(u) : app[a].status \in UnfinishedStatus}

\* What StartVerification takes up, and what AdminReview lets through.
Startable == {"paid", "failed", "rejected"}
Reviewable == {"paid", "verifying", "failed", "rejected"}

Fault == events < MaxEvents /\ events' = events + 1
Ruling == rulings < MaxRulings /\ rulings' = rulings + 1
Set(p, r) == proc' = [proc EXCEPT ![p] = r]
Done(p) == Set(p, Idle)
Status(a, s) == app' = [app EXCEPT ![a].status = s]
\* UpdateUserRealnameStatus, which sets the name with the status.
UserRow(u, s, name) == row' = [row EXCEPT ![u] = [status |-> s, name |-> name]]
Pronounce(u, a, s) == verdict' = [verdict EXCEPT ![u] = [a |-> a, status |-> s]]

\* What the properties set aside: for "crossed" two of a user's requests were
\* between reading and writing at once, for "doubled" an application was created
\* or verified anew beside an unfinished one or a verified user that the request
\* did not know of, or a user was verified beside one, for "torn" one of the
\* two rows of an answer was not written.
Mark(kind, u) == mishap' = [mishap EXCEPT ![kind] = @ \cup {u}]
MarkIf(cond, kind, u) == IF cond THEN Mark(kind, u) ELSE UNCHANGED mishap
AtWork(p) == proc[p].step \in {"credit", "mark", "verify", "ask", "user", "review", "admin"}
Crosses(p, u) == \E q \in Procs \ {p} : AtWork(q) /\ proc[q].u = u
Doubles(u, known) == Unfinished(u) \ known # {} \/ row[u].status = "verified"
Enter(p, u, doubles) ==
    mishap' = [mishap EXCEPT !["crossed"] = IF Crosses(p, u) THEN @ \cup {u} ELSE @,
                             !["doubled"] = IF doubles THEN @ \cup {u} ELSE @]
\* A user is verified while another application is under way.
Beside(u, a, s) == MarkIf(s \in {"verified", "verify"} /\ Unfinished(u) \ {a} # {}, "doubled", u)

-----------------------------------------------------------------------------

\* The handler: the user's row as the session loaded it, and the settings, which
\* decide whether a payment is prepared.
Submit(p, u) ==
    /\ proc[p] = Idle
    /\ cfg.enabled
    /\ row[u].status # "verified"
    /\ Set(p, [Idle EXCEPT !.step = "check", !.u = u, !.want = IF cfg.fee THEN "pay" ELSE "none"])
    /\ UNCHANGED <<cfg, rows, ghosts, events, rulings>>

\* Mutant: an application that waits for its verification does not count.
CheckPendingPaymentOnly(p) ==
    /\ proc[p].step = "check"
    /\ IF \E a \in Owned(proc[p].u) : app[a].status = "pending_payment"
       THEN Done(p)
       ELSE Set(p, [proc[p] EXCEPT !.step = "create", !.known = Unfinished(proc[p].u)])
    /\ UNCHANGED <<cfg, rows, ghosts, events, rulings>>

CheckPending(p) ==
    /\ proc[p].step = "check"
    /\ IF Unfinished(proc[p].u) # {}
       THEN Done(p)
       ELSE Set(p, [proc[p] EXCEPT !.step = "create", !.known = Unfinished(proc[p].u)])
    /\ UNCHANGED <<cfg, rows, ghosts, events, rulings>>

NextApp == CHOOSE a \in Apps : ~Exists(a) /\ \A b \in Apps : b < a => Exists(b)

\* Order and application in one transaction; then the payment's address is
\* built, and where that fails the application stays and no notice ever comes.
CreatePaid(p) ==
    /\ cfg.enabled /\ cfg.fee /\ proc[p].want = "pay"
    /\ LET u == proc[p].u  a == NextApp
       IN /\ order' = [order EXCEPT ![a] = "pending"]
          /\ app' = [app EXCEPT ![a] = [owner |-> u, status |-> "pending_payment"]]
          /\ Enter(p, u, Doubles(u, proc[p].known))
    /\ Done(p)
    /\ UNCHANGED events

\* Without a fee the request itself goes on to verify.
CreateFree(p) ==
    /\ cfg.enabled /\ ~cfg.fee
    /\ LET u == proc[p].u  a == NextApp
       IN /\ app' = [app EXCEPT ![a] = [owner |-> u, status |-> "verifying"]]
          /\ Set(p, [Idle EXCEPT !.step = "verify", !.u = u, !.a = a])
          /\ Enter(p, u, Doubles(u, proc[p].known))
    /\ UNCHANGED <<order, events>>

\* The settings are loaded again: switched off meanwhile, or a fee introduced
\* meanwhile, for which the handler has prepared no payment (the call through
\* the missing builder panics before anything is stored).
CreateRefused(p) ==
    /\ \/ (~cfg.enabled \/ (cfg.fee /\ proc[p].want # "pay")) /\ UNCHANGED events
       \/ Fault
    /\ Done(p)
    /\ UNCHANGED <<app, order, mishap>>

Create(p) ==
    /\ proc[p].step = "create"
    /\ \E a \in Apps : ~Exists(a)
    /\ CreatePaid(p) \/ CreateFree(p) \/ CreateRefused(p)
    /\ UNCHANGED <<cfg, row, verdict, left, rulings>>

-----------------------------------------------------------------------------

\* A notice of the gateway for an order that was pending when it was looked up;
\* the gateway may send several.
Callback(p, a) ==
    /\ proc[p] = Idle
    /\ order[a] = "pending"
    /\ Set(p, [Idle EXCEPT !.step = "pay", !.u = app[a].owner, !.a = a])
    /\ UNCHANGED <<cfg, rows, ghosts, events, rulings>>

\* The order's row is written, and so held until the commit; the application is
\* read without a lock ("gorm:query_option" has no effect in this gorm).
Pay(p) ==
    /\ proc[p].step = "pay"
    /\ LET a == proc[p].a
       IN \/ /\ \A q \in Procs : ~(proc[q].step = "credit" /\ proc[q].a = a)
             /\ Set(p, [proc[p] EXCEPT !.step = "credit", !.saw = app[a].status])
             /\ MarkIf(Crosses(p, proc[p].u), "crossed", proc[p].u)
             /\ UNCHANGED events
          \/ Fault /\ Done(p) /\ UNCHANGED mishap
    /\ UNCHANGED <<cfg, rows, verdict, left, rulings>>

\* HandlePaymentSuccess and the commit, after which a goroutine verifies, also
\* when the application was not waiting for its payment any more.
HandlePaymentSuccess(p) ==
    /\ proc[p].step = "credit"
    /\ LET a == proc[p].a
       IN \/ /\ order' = [order EXCEPT ![a] = "paid"]
             /\ IF proc[p].saw = "pending_payment" THEN Status(a, "paid") ELSE UNCHANGED app
             /\ Set(p, [proc[p] EXCEPT !.step = "start", !.saw = "none"])
             /\ UNCHANGED events
          \/ Fault /\ Done(p) /\ UNCHANGED <<order, app>>
    /\ UNCHANGED <<cfg, row, ghosts, rulings>>

\* RetryVerification: the user's, of the latest application when it failed, and
\* the administrator's, of any that failed or was rejected.
UserRetry(p, u) ==
    /\ proc[p] = Idle
    /\ StatusOf(Latest(u)) = "failed"
    /\ Set(p, [Idle EXCEPT !.step = "start", !.u = u, !.a = Latest(u)])
    /\ UNCHANGED <<cfg, rows, ghosts, events, rulings>>

AdminRetry(p, a) ==
    /\ proc[p] = Idle
    /\ app[a].status \in {"failed", "rejected"}
    /\ Set(p, [Idle EXCEPT !.step = "start", !.u = app[a].owner, !.a = a])
    /\ Ruling
    /\ UNCHANGED <<cfg, rows, ghosts, events>>

\* Mutant: whatever its status, the application is verified once more.
StartAnything(p) ==
    /\ proc[p].step = "start"
    /\ LET a == proc[p].a  u == proc[p].u
       IN /\ Set(p, [proc[p] EXCEPT !.step = "mark"])
          /\ Enter(p, u, app[a].status # "paid" /\ Doubles(u, {a}))
          /\ UNCHANGED <<events, left>>
    /\ UNCHANGED <<cfg, rows, verdict, rulings>>

\* Mutant: only what failed or was rejected is verified.
StartRetries(p) ==
    /\ proc[p].step = "start"
    /\ LET a == proc[p].a  u == proc[p].u
       IN \/ /\ app[a].status \in Startable \ {"paid"}
             /\ Set(p, [proc[p] EXCEPT !.step = "mark"])
             /\ Enter(p, u, app[a].status # "paid" /\ Doubles(u, {a}))
          \/ /\ app[a].status \notin Startable \ {"paid"}
             /\ Done(p)
             /\ UNCHANGED mishap
    /\ UNCHANGED <<cfg, rows, verdict, left, rulings, events>>

\* StartVerification reads the application.
Start(p) ==
    /\ proc[p].step = "start"
    /\ LET a == proc[p].a  u == proc[p].u
       IN \/ /\ app[a].status \in Startable
             /\ Set(p, [proc[p] EXCEPT !.step = "mark"])
             /\ Enter(p, u, app[a].status # "paid" /\ Doubles(u, {a}))
             /\ UNCHANGED <<events, left>>
          \/ /\ app[a].status \notin Startable
             /\ Done(p)
             /\ UNCHANGED <<events, left, mishap>>
          \/ Fault /\ Done(p) /\ left' = left \cup {a} /\ UNCHANGED mishap
    /\ UNCHANGED <<cfg, rows, verdict, rulings>>

\* The status goes to verifying without a look at what it is by now: two that
\* read "paid" both go on.
MarkVerifying(p) ==
    /\ proc[p].step = "mark"
    /\ LET a == proc[p].a  u == proc[p].u
       IN \/ /\ Status(a, "verifying")
             /\ IF verdict[u] = [a |-> a, status |-> "rejected"]
                THEN verdict' = [verdict EXCEPT ![u] = NoVerdict]
                ELSE UNCHANGED verdict
             /\ Set(p, [proc[p] EXCEPT !.step = "verify"])
             /\ UNCHANGED <<events, left>>
          \/ Fault /\ Done(p) /\ left' = left \cup {a} /\ UNCHANGED <<app, verdict>>
    /\ UNCHANGED <<cfg, row, order, mishap, rulings>>

-----------------------------------------------------------------------------

\* verifyAndFinalize loads the settings once more.  By hand: the application
\* waits as paid, the user as pending.  A failed write is only logged.
VerifyByHand(p) ==
    /\ cfg.provider = "manual"
    /\ LET a == proc[p].a  u == proc[p].u
       IN /\ \/ Status(a, "paid") /\ UNCHANGED <<events, mishap>>
             \/ Fault /\ Mark("torn", u) /\ UNCHANGED app
          /\ Set(p, [proc[p] EXCEPT !.step = "user", !.want = "pending"])
          /\ verdict' = [verdict EXCEPT ![u] = NoVerdict]
          /\ left' = left \cup {a}

VerifyByProvider(p) ==
    /\ cfg.provider # "manual"
    /\ \/ Status(proc[p].a, "verifying") /\ UNCHANGED events
       \/ Fault /\ UNCHANGED app
    /\ Set(p, [proc[p] EXCEPT !.step = "ask"])
    /\ UNCHANGED <<verdict, left, mishap>>

\* Without settings the application stays where it is, at verifying.
VerifyWithoutSettings(p) ==
    /\ Fault
    /\ left' = left \cup {proc[p].a}
    /\ Done(p)
    /\ UNCHANGED <<app, verdict, mishap>>

Verify(p) ==
    /\ proc[p].step = "verify"
    /\ VerifyByHand(p) \/ VerifyByProvider(p) \/ VerifyWithoutSettings(p)
    /\ UNCHANGED <<cfg, row, order, rulings>>

\* No answer or an error, a mismatch, a match.
Answers == {"failed", "rejected", "verified"}

\* The provider's answer, written to the application; an error, a timeout among
\* them, makes it "failed" and leaves the user alone.
Answer(p) ==
    /\ proc[p].step = "ask"
    /\ LET a == proc[p].a  u == proc[p].u
       IN \E s \in Answers :
             /\ \/ Status(a, s) /\ UNCHANGED <<events, left, mishap>>
                \/ Fault /\ Mark("torn", u) /\ left' = left \cup {a} /\ UNCHANGED app
             /\ IF s = "failed"
                THEN Done(p) /\ UNCHANGED verdict
                ELSE Set(p, [proc[p] EXCEPT !.step = "user", !.want = s]) /\ Pronounce(u, a, s)
    /\ UNCHANGED <<cfg, row, order, rulings>>

\* The user's row, in a transaction of its own.
Finish(p) ==
    /\ proc[p].step = "user"
    /\ LET u == proc[p].u  s == proc[p].want
       IN \/ /\ UserRow(u, s, IF s = "verified" THEN proc[p].a ELSE NoApp)
             /\ UNCHANGED <<events, mishap>>
          \/ Fault /\ Mark("torn", u) /\ UNCHANGED row
    /\ Done(p)
    /\ UNCHANGED <<cfg, app, order, verdict, left, rulings>>

-----------------------------------------------------------------------------

\* AdminReview reads the application, then writes both rows in one transaction.
Review(p, a, s) ==
    /\ proc[p] = Idle
    /\ app[a].status \in Reviewable
    /\ Set(p, [Idle EXCEPT !.step = "review", !.u = app[a].owner, !.a = a, !.want = s])
    /\ MarkIf(Crosses(p, app[a].owner), "crossed", app[a].owner)
    /\ Ruling
    /\ UNCHANGED <<cfg, rows, verdict, left, events>>

ReviewCommit(p) ==
    /\ proc[p].step = "review"
    /\ LET a == proc[p].a  u == proc[p].u  s == proc[p].want
       IN \/ /\ Status(a, s)
             /\ UserRow(u, s, IF s = "verified" THEN a ELSE NoApp)
             /\ Pronounce(u, a, s)
             /\ Beside(u, a, s)
             /\ UNCHANGED events
          \/ Fault /\ UNCHANGED <<app, row, verdict, mishap>>
    /\ Done(p)
    /\ UNCHANGED <<cfg, order, left, rulings>>

\* AdminUpdateUserRealname reads the user and the latest application.
UpdateUser(p, u, action) ==
    /\ proc[p] = Idle
    /\ ~(action = "verify" /\ row[u].status = "verified")
    /\ Set(p, [Idle EXCEPT !.step = "admin", !.u = u, !.a = Latest(u), !.want = action, !.saw = StatusOf(Latest(u))])
    /\ MarkIf(Crosses(p, u), "crossed", u)
    /\ Ruling
    /\ UNCHANGED <<cfg, rows, verdict, left, events>>

\* Mutant: the latest application is not brought along.
VerifyUserAlone(u, a, saw) ==
    /\ UserRow(u, "verified", a)
    /\ UNCHANGED app
    /\ Pronounce(u, NoApp, "verified")

VerifyUser(u, a, saw) ==
    /\ UserRow(u, "verified", a)
    /\ IF saw \notin {"none", "verified"} THEN Status(a, "verified") ELSE UNCHANGED app
    /\ Pronounce(u, a, "verified")

RejectUser(u, a, saw) ==
    /\ UserRow(u, "rejected", NoApp)
    /\ IF saw \in Reviewable
       THEN Status(a, "rejected") /\ Pronounce(u, a, "rejected")
       ELSE UNCHANGED app /\ Pronounce(u, NoApp, "rejected")

ResetUser(u) ==
    /\ UserRow(u, "unverified", NoApp)
    /\ UNCHANGED app
    /\ Pronounce(u, NoApp, "unverified")

UpdateUserCommit(p) ==
    /\ proc[p].step = "admin"
    /\ LET u == proc[p].u  a == proc[p].a  saw == proc[p].saw  action == proc[p].want
       IN \/ /\ \/ action = "verify" /\ VerifyUser(u, a, saw)
                \/ action = "reject" /\ RejectUser(u, a, saw)
                \/ action = "reset" /\ ResetUser(u)
             /\ Beside(u, a, action)
             /\ UNCHANGED events
          \/ Fault /\ UNCHANGED <<app, row, verdict, mishap>>
    /\ Done(p)
    /\ UNCHANGED <<cfg, order, left, rulings>>

ChangeSettings(c) ==
    /\ Fault
    /\ cfg' = c
    /\ UNCHANGED <<rows, proc, ghosts, rulings>>

\* Nothing takes up what a stopped server was verifying.
Stop ==
    /\ Fault
    /\ proc' = [p \in Procs |-> Idle]
    /\ left' = left \cup {proc[p].a : p \in {q \in Procs : proc[q].step \in
                                                {"start", "mark", "verify", "ask"}}}
    /\ mishap' = [mishap EXCEPT !["torn"] =
                     @ \cup {proc[p].u : p \in {q \in Procs : proc[q].step = "user"}}]
    /\ UNCHANGED <<cfg, rows, verdict, rulings>>

-----------------------------------------------------------------------------

Reviews == {"verified", "rejected"}
Actions == {"verify", "reject", "reset"}
Settings == [enabled : BOOLEAN, fee : BOOLEAN, provider : {"manual", "aliyun"}]

Init ==
    /\ cfg \in FirstSettings
    /\ row = [u \in Users |-> [status |-> "unverified", name |-> NoApp]]
    /\ app = [a \in Apps |-> Absent]
    /\ order = [a \in Apps |-> "none"]
    /\ proc = [p \in Procs |-> Idle]
    /\ verdict = [u \in Users |-> NoVerdict]
    /\ left = {}
    /\ mishap = [k \in {"crossed", "doubled", "torn"} |-> {}]
    /\ rulings = 0 /\ events = 0

\* What goes on by itself once it has begun.
Step(p) ==
    \/ CheckPending(p) \/ Create(p)
    \/ Pay(p) \/ HandlePaymentSuccess(p)
    \/ Start(p) \/ MarkVerifying(p) \/ Verify(p) \/ Answer(p) \/ Finish(p)
    \/ ReviewCommit(p) \/ UpdateUserCommit(p)

Request(p) ==
    \/ \E u \in Users : Submit(p, u) \/ UserRetry(p, u)
    \/ \E a \in Apps : Exists(a) /\ (Callback(p, a) \/ AdminRetry(p, a))
    \/ \E a \in Apps, s \in Reviews : Exists(a) /\ Review(p, a, s)
    \/ \E u \in Users, action \in Actions : UpdateUser(p, u, action)

Next ==
    \/ \E p \in Procs : Step(p) \/ Request(p)
    \/ \E c \in Settings : ChangeSettings(c)
    \/ Stop

Spec == Init /\ [][Next]_vars

-----------------------------------------------------------------------------

\* An order belongs to an application, and applications are numbered as they
\* come; a name is shown for a verified user only.
TypeOK ==
    /\ cfg \in Settings
    /\ row \in [Users -> [status : {"unverified", "pending", "rejected", "verified"},
                          name : Apps \cup {NoApp}]]
    /\ \A u \in Users : row[u].name # NoApp => row[u].status = "verified" /\ app[row[u].name].owner = u
    /\ \A a \in Apps :
          /\ order[a] # "none" => Exists(a)
          /\ Exists(a) => /\ app[a].owner \in Users
                          /\ \A b \in Apps : b < a => Exists(b)
                          /\ app[a].status \in UnfinishedStatus \cup Answers
          /\ app[a].status = "pending_payment" => order[a] # "none"
    /\ \A p \in Procs : proc[p].step \in {"credit", "start", "mark", "verify", "ask"} =>
          app[proc[p].a].owner = proc[p].u

\* A user has one unfinished application at most, so that a fee is asked once.
\* Left out are users whose requests crossed, and those marked doubled: one who
\* submitted twice before either was stored, one whose old application was
\* verified anew beside a new one (RetryVerification does not ask for others).
OneUnfinished ==
    TypeOK /\ \A u \in Users \ (mishap["doubled"] \cup mishap["crossed"]) : Cardinality(Unfinished(u)) <= 1

\* The last verdict on a user stands, in both rows, once its second row is
\* written: no late notice, retry or new application takes it back halfway.
VerdictStands ==
    \A u \in Users \ (mishap["crossed"] \cup mishap["torn"]) :
       (verdict[u] # NoVerdict /\ \A p \in Procs : ~(proc[p].step = "user" /\ proc[p].u = u)) =>
          LET v == verdict[u]
          IN /\ row[u].status = v.status
             /\ v.a # NoApp => app[v.a].status = v.status /\ (v.status = "verified" => row[u].name = v.a)

AdminDecides(u) == \E p \in Procs : AtWork(p) /\ proc[p].step \in {"review", "admin"} /\ proc[p].u = u /\ proc'[p] = Idle

\* The answer to another application than the one the user was verified by.
OtherAnswers(u) ==
    \E p \in Procs : proc[p].step = "user" /\ proc[p].u = u /\ proc[p].a # row[u].name /\ proc'[p] = Idle

\* Where a user's requests do not cross, what takes a verification back is an
\* administrator at work on him, or the answer to another application that was
\* doubled: created or verified anew beside the verification, or under way when
\* it was made (the user's own RetryVerification of an old one is such a case).
\* No notice, retry or failed write of the application he was verified by does.
VerifiedStays ==
    [][\A u \in Users \ mishap["crossed"] :
          row[u].status = "verified" =>
             \/ row'[u].status = "verified" \/ AdminDecides(u)
             \/ u \in mishap["doubled"] /\ OtherAnswers(u)]_vars

\* Nobody is left between two chairs: a fee that was paid is no longer waited
\* for, and an application that was paid for, or is being verified, has someone
\* at work on it, unless a statement failed or the server stopped over it.
NobodyStranded ==
    \A a \in Apps :
       /\ order[a] = "paid" => app[a].status # "pending_payment"
       /\ app[a].status \in {"paid", "verifying"} =>
             (a \in left \/ \E p \in Procs : proc[p].a = a /\ proc[p].step \in {"start", "mark", "verify", "ask"})
=============================================================================
