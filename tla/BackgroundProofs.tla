-------------------------- MODULE BackgroundProofs --------------------------
(***************************************************************************)
(* Machine-checked proofs about the components that work in the            *)
(* background, or beside everything else: ContentAudit, for every set of   *)
(* subdomains, records, workers and messages, every set of rules and every *)
(* number of failures, stops and changes; BulkDelete, for every set of     *)
(* records, jobs and goroutines, every number of attempts, failures and    *)
(* stops, and every limit of a restart; and Maintenance, for every set of  *)
(* requests that write, export or restore, and every number of failures    *)
(* and stops.                                                              *)
(***************************************************************************)
EXTENDS ContentAudit, BulkDelete, Maintenance, FiniteSetTheorems, TLAPS

-----------------------------------------------------------------------------
\* The inductive invariant.

Acts(j, s) == j.pc \in {"pick", "cut", "undo", "strike"} /\ (s = j.at \/ s \in j.todo)

\* What a worker holds belongs to the subdomain it is at, and it holds nothing of a
\* step that is over.
JobFine(j) ==
    /\ j.pc = "idle" <=> j.task = Nothing
    /\ j.pc # "idle" => j.sub \in Subs
    /\ j.pc \in {"judge", "excuse"} => j.held \subseteq RecsOf(j.sub)
    /\ j.pc = "strike" => j.at = j.sub /\ j.held \subseteq RecsOf(j.sub)
    /\ j.pc \in {"cut", "undo"} => j.at \in Subs /\ j.cut \subseteq RecsOf(j.at)
    /\ j.pc \notin {"cut", "undo", "strike"} => j.at = Nothing
    /\ j.pc \notin {"cut", "undo"} => j.cut = {}
    /\ j.pc \notin {"pick", "cut", "undo"} => j.todo = {}

\* The message of a job is taken until somebody acknowledges it, and the same until
\* then.
MessageOK(j) ==
    j.pc # "idle" =>
        \/ task[j.task].at = "done"
        \/ /\ task[j.task].at = "taken"
           /\ task[j.task].sub = j.sub /\ task[j.task].recheck = j.recheck

JobsOK == \A w \in Workers : JobFine(job[w]) /\ MessageOK(job[w])

InHand(s) ==
    \/ s \in claimed \cup ghost.orphaned
    \/ \E i \in Tasks : task[i].at # "done" /\ task[i].sub = s /\ task[i].recheck

RechecksOK == \A s \in Subs : exempt[s] = "rechecking" => InHand(s)

\* A page that matches the rule is found clean only while the rule is off, and a scan
\* that is about to be stored knows if that may have changed.
VerdictsOK ==
    /\ \A s \in Subs : s \notin ghost.hurried /\ verdict[s] = "shady" => ~(rule.enabled /\ since[s])
    /\ \A w \in Workers : job[w].pc = "store" /\ ~job[w].lax /\ job[w].page = "shady" => ~rule.enabled

\* One actor at a subdomain, a worker or the admin.
OneActor ==
    \A s \in Subs \ ghost.crossed :
        /\ \A v, w \in Workers : Acts(job[v], s) /\ Acts(job[w], s) => v = w
        /\ restoration.sub = s => \A w \in Workers : ~Acts(job[w], s)

\* The admin has the suspended records of the subdomain, and served those it is
\* through with.
RestorationOK ==
    /\ restoration.todo \cup restoration.made \subseteq RecsOf(restoration.sub)
    /\ restoration.sub \in Subs \ ghost.crossed =>
        /\ status[restoration.sub] = "suspended"
        /\ \A r \in RecsOf(restoration.sub) :
              row[r] = "suspended" <=> r \in restoration.todo \cup restoration.made
        /\ \A r \in restoration.made : live[r] # "none"

AddingOK(r) == r \in adding => row[r] = "none"
StrayKnown(r) == live[r] = "stray" => r \in ghost.unnamed \cup restoration.made

\* Of a subdomain no two actors were at:
RowFits(r) == status[SubOf[r]] = "active" => row[r] # "suspended"
CopyHasRow(r) ==
    status[SubOf[r]] # "gone" /\ live[r] # "none" /\ r \notin ghost.unnamed => row[r] # "none"
InCut(j, r) == j.pc \in {"cut", "undo"} /\ j.at = SubOf[r] /\ r \in j.cut
ServedOrCut(r) ==
    row[r] = "active" /\ r \notin ghost.torn =>
        live[r] # "none" \/ \E w \in Workers : InCut(job[w], r)
GoneOrMade(r) ==
    status[SubOf[r]] = "suspended" /\ r \notin ghost.late \cup ghost.unnamed =>
        live[r] = "none" \/ r \in restoration.made
ToBeCut(r) ==
    r \notin ghost.late \cup ghost.unnamed /\ live[r] # "none" =>
        \A w \in Workers : Acts(job[w], SubOf[r]) /\ job[w].pc # "strike" =>
            r \in job[w].held /\ ~InCut(job[w], r)

RecOK(r) ==
    /\ AddingOK(r) /\ StrayKnown(r)
    /\ SubOf[r] \notin ghost.crossed =>
          RowFits(r) /\ CopyHasRow(r) /\ ServedOrCut(r) /\ GoneOrMade(r) /\ ToBeCut(r)

WorldOK == OneActor /\ RestorationOK /\ \A r \in Recs : RecOK(r)

IInv == TypeOK /\ JobsOK /\ RechecksOK /\ VerdictsOK /\ WorldOK

LEMMA IInvImplies ==
    IInv => SuspendedNotServed /\ ActiveServed /\ RecheckUnderway /\ SkipIsSafe
<1> SUFFICES ASSUME IInv
             PROVE  SuspendedNotServed /\ ActiveServed /\ RecheckUnderway /\ SkipIsSafe
  OBVIOUS
<1> USE DEF IInv
<1>1. \A r \in Recs : SubOf[r] \in Subs
  BY ConstantsAssumption
<1>2. SuspendedNotServed
  <2> SUFFICES ASSUME NEW r \in Recs, status[SubOf[r]] = "suspended",
                      restoration.sub # SubOf[r], SubOf[r] \notin ghost.crossed,
                      r \notin ghost.late \cup ghost.unnamed
               PROVE  live[r] = "none"
    BY DEF SuspendedNotServed
  <2>1. r \notin restoration.made
    BY DEF WorldOK, RestorationOK, RecsOf
  <2> QED
    BY <2>1 DEF WorldOK, RecOK, GoneOrMade
<1>3. ActiveServed
  <2> SUFFICES ASSUME NEW r \in Recs, row[r] = "active", ~Busy(SubOf[r]),
                      SubOf[r] \notin ghost.crossed, r \notin ghost.torn
               PROVE  live[r] # "none"
    BY DEF ActiveServed
  <2>1. \A w \in Workers : ~InCut(job[w], r)
    BY DEF Busy, ActedOnBy, InCut
  <2> QED
    BY <2>1 DEF WorldOK, RecOK, ServedOrCut
<1>4. RecheckUnderway
  BY DEF RecheckUnderway, RechecksOK, InHand
<1>5. SkipIsSafe
  BY DEF SkipIsSafe, SamePage, Violates, VerdictsOK
<1> QED
  BY <1>2, <1>3, <1>4, <1>5

LEMMA IInvInit == Init => IInv
<1> SUFFICES ASSUME Init PROVE IInv
  OBVIOUS
<1>1. /\ NoJob \in JobType /\ NoJob.pc = "idle" /\ NoJob.cut = {} /\ NoJob.todo = {}
      /\ NoJob.task = Nothing /\ NoJob.at = Nothing
  BY DEF NoJob, JobType
<1>2. TypeOK
  BY <1>1, ConstantsAssumption DEF Init, TypeOK, NoMessage, NoRestoration
<1>3. JobsOK
  BY <1>1 DEF Init, JobsOK, JobFine, MessageOK
<1>4. RechecksOK /\ VerdictsOK
  BY <1>1 DEF Init, RechecksOK, VerdictsOK
<1>5. OneActor /\ RestorationOK
  <2>1. restoration.sub \notin Subs /\ restoration.todo = {} /\ restoration.made = {}
    BY ConstantsAssumption DEF Init, NoRestoration
  <2>2. \A w \in Workers, s \in Subs : ~Acts(job[w], s)
    BY <1>1 DEF Init, Acts
  <2>3. OneActor
    BY <2>1, <2>2 DEF OneActor
  <2>4. RestorationOK
    BY <2>1 DEF RestorationOK
  <2> QED
    BY <2>3, <2>4
<1>6. ASSUME NEW r \in Recs PROVE RecOK(r)
  <2>1. row[r] = "active" /\ live[r] = "known" /\ status[SubOf[r]] = "active" /\ adding = {}
    BY ConstantsAssumption DEF Init
  <2>2. \A w \in Workers : ~Acts(job[w], SubOf[r])
    BY <1>1 DEF Init, Acts
  <2> QED
    BY <2>1, <2>2 DEF RecOK, AddingOK, StrayKnown, RowFits, CopyHasRow, ServedOrCut,
       GoneOrMade, ToBeCut
<1> QED
  BY <1>2, <1>3, <1>4, <1>5, <1>6 DEF IInv, WorldOK

-----------------------------------------------------------------------------
\* What a step leaves alone.

\* The world is as it was, and nobody acts on a subdomain who did not before.
LEMMA WorldKept ==
    ASSUME IInv, UNCHANGED <<world, restoration, adding>>,
           ghost'.crossed = ghost.crossed, ghost'.torn = ghost.torn,
           ghost'.late = ghost.late, ghost'.unnamed = ghost.unnamed,
           \A v \in Workers :
              \/ job'[v].pc = job[v].pc /\ job'[v].at = job[v].at /\ job'[v].todo = job[v].todo
                 /\ job'[v].held = job[v].held /\ job'[v].cut = job[v].cut
              \/ job'[v].pc \notin {"pick", "cut", "undo", "strike"} /\ job[v].cut = {}
    PROVE  WorldOK'
<1> USE DEF IInv, WorldOK, world
<1>1. \A v \in Workers, s \in Subs : Acts(job'[v], s) => Acts(job[v], s)
  BY DEF Acts
<1>2. OneActor'
  BY <1>1 DEF OneActor
<1>3. RestorationOK'
  BY DEF RestorationOK, RecsOf
<1>4. ASSUME NEW r \in Recs PROVE RecOK(r)'
  <2>1. SubOf[r] \in Subs
    BY ConstantsAssumption
  <2>2. \A v \in Workers : InCut(job[v], r) <=> InCut(job'[v], r)
    BY DEF InCut
  <2>3. AddingOK(r)' /\ StrayKnown(r)'
    BY DEF RecOK, AddingOK, StrayKnown
  <2>4. ASSUME SubOf[r] \notin ghost.crossed
        PROVE  (RowFits(r) /\ CopyHasRow(r) /\ ServedOrCut(r) /\ GoneOrMade(r))'
    BY <2>2, <2>4 DEF RecOK, RowFits, CopyHasRow, ServedOrCut, GoneOrMade
  <2>5. ASSUME SubOf[r] \notin ghost.crossed PROVE ToBeCut(r)'
    <3>1. ToBeCut(r)
      BY <2>5 DEF RecOK
    <3> QED
      BY <2>2, <3>1 DEF ToBeCut, Acts
  <2> QED
    BY <2>3, <2>4, <2>5 DEF RecOK
<1> QED
  BY <1>2, <1>3, <1>4

LEMMA JobSet ==
    ASSUME TypeOK, NEW w \in Workers, NEW j \in JobType, Set(w, j)
    PROVE  /\ job' \in [Workers -> JobType]
           /\ job'[w] = j
           /\ \A v \in Workers \ {w} : job'[v] = job[v]
BY DEF TypeOK, Set

\* A worker that goes on, or stops acting, with the world as it was.
LEMMA WorldKeptBy ==
    ASSUME IInv, NEW w \in Workers, NEW j \in JobType, Set(w, j),
           UNCHANGED <<world, restoration, adding>>,
           ghost'.crossed = ghost.crossed, ghost'.torn = ghost.torn,
           ghost'.late = ghost.late, ghost'.unnamed = ghost.unnamed,
           j.pc \notin {"pick", "cut", "undo", "strike"}, job[w].cut = {}
    PROVE  WorldOK'
BY JobSet, WorldKept DEF IInv

\* The jobs stay fine when one goes on with its message.
LEMMA JobsKeptBy ==
    ASSUME IInv, NEW w \in Workers, NEW j \in JobType, Set(w, j), UNCHANGED task,
           JobFine(j), job[w].pc # "idle",
           j.task = job[w].task, j.sub = job[w].sub, j.recheck = job[w].recheck
    PROVE  JobsOK' /\ job' \in [Workers -> JobType]
<1>1. MessageOK(job[w]) /\ TypeOK
  BY DEF IInv, JobsOK
<1> QED
  BY <1>1, JobSet DEF IInv, JobsOK, MessageOK

LEMMA EndedFine ==
    ASSUME IInv, NEW w \in Workers, job[w].pc # "idle"
    PROVE  /\ Ended(w) \in JobType /\ JobFine(Ended(w)) /\ Ended(w).pc = "finish"
           /\ Ended(w).task = job[w].task /\ Ended(w).sub = job[w].sub
           /\ Ended(w).recheck = job[w].recheck
<1>1. job[w] \in JobType /\ JobFine(job[w])
  BY DEF IInv, TypeOK, JobsOK
<1>2. /\ Ended(w).pc = "finish" /\ Ended(w).task = job[w].task /\ Ended(w).sub = job[w].sub
      /\ Ended(w).recheck = job[w].recheck /\ Ended(w).at = Nothing
      /\ Ended(w).cut = {} /\ Ended(w).todo = {}
  BY DEF Ended, NoJob
<1>3. Ended(w) \in JobType
  BY <1>1 DEF Ended, NoJob, JobType
<1>4. JobFine(Ended(w))
  BY <1>1, <1>2 DEF JobFine
<1> QED
  BY <1>2, <1>3, <1>4

LEMMA VerdictsKept ==
    ASSUME IInv, UNCHANGED <<rule, scans>>, ghost'.hurried = ghost.hurried,
           \A v \in Workers :
              job'[v].pc = "store" /\ job'[v].page = "shady" /\ ~job'[v].lax =>
                 job[v].pc = "store" /\ job[v].page = "shady" /\ ~job[v].lax
    PROVE  VerdictsOK'
BY DEF IInv, VerdictsOK, scans

LEMMA RechecksKept ==
    ASSUME IInv, UNCHANGED <<exempt, task, claimed>>, ghost'.orphaned = ghost.orphaned
    PROVE  RechecksOK'
BY DEF IInv, RechecksOK, InHand

-----------------------------------------------------------------------------
\* The queue, the exemption worker, the pages and the rules.

LEMMA EnqueueStep ==
    ASSUME IInv, NEW s \in Subs, NEW again \in BOOLEAN, Enqueue(s, again), UNCHANGED job
    PROVE  /\ task' \in [Tasks -> [sub : Subs \cup {Nothing}, recheck : BOOLEAN,
                                   at : {"queued", "taken", "done"}]]
           /\ \A i \in Tasks : task'[i].at # "done" => task'[i].sub \in Subs
           /\ sent' \in 0..MaxMessages
           /\ JobsOK'
           /\ \A i \in Tasks : task[i].at # "done" => task'[i] = task[i]
           /\ \E i \in Tasks : task'[i] = [sub |-> s, recheck |-> again, at |-> "queued"]
<1> USE DEF IInv
<1>1. PICK i \in Tasks :
        /\ Free(i) /\ sent < MaxMessages /\ sent' = sent + 1
        /\ task' = [task EXCEPT ![i] = [sub |-> s, recheck |-> again, at |-> "queued"]]
  BY DEF Enqueue
<1>2. /\ task'[i] = [sub |-> s, recheck |-> again, at |-> "queued"]
      /\ \A k \in Tasks \ {i} : task'[k] = task[k]
  BY <1>1 DEF TypeOK
<1>3. JobsOK'
  <2> SUFFICES ASSUME NEW v \in Workers PROVE JobFine(job[v]) /\ MessageOK(job[v])'
    BY DEF JobsOK
  <2>1. JobFine(job[v]) /\ MessageOK(job[v]) /\ job[v] \in JobType
    BY DEF JobsOK, TypeOK
  <2>2. job[v].pc # "idle" => job[v].task \in Tasks \ {i}
    BY <1>1, <2>1 DEF Free, JobFine, JobType
  <2> QED
    BY <1>2, <2>1, <2>2 DEF MessageOK
<1>4. sent' \in 0..MaxMessages
  BY <1>1, ConstantsAssumption DEF TypeOK
<1> QED
  BY <1>1, <1>2, <1>3, <1>4 DEF TypeOK, Free

LEMMA ScheduleStep ==
    ASSUME IInv, NEW s \in Subs, Schedule(s) \/ Rescan(s)
    PROVE  IInv'
<1>1. /\ Enqueue(s, FALSE)
      /\ UNCHANGED <<page, rule, scans, world, exempt, durable, claimed, job,
                     restoration, adding, ghost, events>>
  BY DEF Schedule, Rescan
<1>2. /\ task' \in [Tasks -> [sub : Subs \cup {Nothing}, recheck : BOOLEAN,
                              at : {"queued", "taken", "done"}]]
      /\ \A i \in Tasks : task'[i].at # "done" => task'[i].sub \in Subs
      /\ sent' \in 0..MaxMessages
      /\ JobsOK'
      /\ \A i \in Tasks : task[i].at # "done" => task'[i] = task[i]
  BY <1>1, EnqueueStep
<1>3. TypeOK'
  BY <1>1, <1>2 DEF IInv, TypeOK, scans, world
<1>4. RechecksOK'
  BY <1>1, <1>2 DEF IInv, RechecksOK, InHand
<1>5. VerdictsOK'
  BY <1>1, VerdictsKept
<1>6. WorldOK'
  BY <1>1, WorldKept
<1> QED
  BY <1>2, <1>3, <1>4, <1>5, <1>6 DEF IInv

LEMMA ClaimDueStep ==
    ASSUME IInv, NEW s \in Subs, ClaimDue(s)
    PROVE  IInv'
<1> USE DEF ClaimDue
<1>1. TypeOK'
  BY DEF IInv, TypeOK, scans, world
<1>2. JobsOK'
  BY DEF IInv, JobsOK, MessageOK
<1>3. RechecksOK'
  BY DEF IInv, TypeOK, RechecksOK, InHand
<1>4. VerdictsOK' /\ WorldOK'
  BY VerdictsKept, WorldKept
<1> QED
  BY <1>1, <1>2, <1>3, <1>4 DEF IInv

\* What the exemption worker lets go of has a message, is pending again or complete.
LEMMA RequeueStep ==
    ASSUME IInv, NEW s \in Subs, Requeue(s)
    PROVE  IInv'
<1>1. /\ claimed' = claimed \ {s}
      /\ UNCHANGED <<page, rule, scans, world, durable, job, restoration, adding>>
  BY DEF Requeue
<1>2. CASE status[s] = "gone" /\ exempt' = Completed(s) /\ UNCHANGED <<task, sent, ghost, events>>
  <2>1. exempt'[s] # "rechecking" /\ \A t \in Subs \ {s} : exempt'[t] = exempt[t]
    BY <1>2 DEF Completed, IInv, TypeOK
  <2>2. TypeOK'
    BY <1>1, <1>2 DEF Completed, IInv, TypeOK, scans, world
  <2>3. JobsOK'
    BY <1>1, <1>2 DEF IInv, JobsOK, MessageOK
  <2>4. RechecksOK'
    BY <1>1, <1>2, <2>1 DEF IInv, RechecksOK, InHand
  <2>5. VerdictsOK' /\ WorldOK'
    BY <1>1, <1>2, VerdictsKept, WorldKept
  <2> QED
    BY <2>2, <2>3, <2>4, <2>5 DEF IInv
<1>3. CASE Enqueue(s, TRUE) /\ UNCHANGED <<exempt, ghost, events>>
  <2>1. /\ task' \in [Tasks -> [sub : Subs \cup {Nothing}, recheck : BOOLEAN,
                                at : {"queued", "taken", "done"}]]
        /\ \A i \in Tasks : task'[i].at # "done" => task'[i].sub \in Subs
        /\ sent' \in 0..MaxMessages
        /\ JobsOK'
        /\ \A i \in Tasks : task[i].at # "done" => task'[i] = task[i]
        /\ \E i \in Tasks : task'[i] = [sub |-> s, recheck |-> TRUE, at |-> "queued"]
    BY <1>1, <1>3, EnqueueStep
  <2>2. TypeOK'
    BY <1>1, <1>3, <2>1 DEF IInv, TypeOK, scans, world
  <2>3. RechecksOK'
    <3> SUFFICES ASSUME NEW t \in Subs, exempt[t] = "rechecking" PROVE InHand(t)'
      BY <1>3 DEF RechecksOK
    <3>1. CASE t = s
      BY <2>1, <3>1 DEF InHand
    <3>2. CASE t # s
      BY <1>1, <1>3, <2>1, <3>2 DEF IInv, RechecksOK, InHand
    <3> QED
      BY <3>1, <3>2
  <2>4. VerdictsOK' /\ WorldOK'
    BY <1>1, <1>3, VerdictsKept, WorldKept
  <2> QED
    BY <2>1, <2>2, <2>3, <2>4 DEF IInv
<1>4. CASE NotQueued(s) /\ UNCHANGED sent
  <2>1. /\ UNCHANGED task /\ events' \in 0..MaxEvents
        /\ ghost'.crossed = ghost.crossed /\ ghost'.torn = ghost.torn
        /\ ghost'.late = ghost.late /\ ghost'.unnamed = ghost.unnamed
        /\ ghost'.hurried = ghost.hurried
        /\ ghost' \in [crossed : SUBSET Subs, orphaned : SUBSET Subs, hurried : SUBSET Subs,
                       torn : SUBSET Recs, late : SUBSET Recs, unnamed : SUBSET Recs]
    BY <1>4, ConstantsAssumption DEF NotQueued, Fault, Event, IInv, TypeOK
  <2>2. /\ exempt' \in [Subs -> {"none", "pending", "rechecking", "completed"}]
        /\ \A t \in Subs \ {s} : exempt'[t] = exempt[t]
        /\ ghost.orphaned \subseteq ghost'.orphaned
        /\ exempt'[s] # "rechecking" \/ s \in ghost'.orphaned
    BY <1>4 DEF NotQueued, IInv, TypeOK
  <2>3. TypeOK'
    BY <1>1, <1>4, <2>1, <2>2 DEF IInv, TypeOK, scans, world
  <2>4. JobsOK'
    BY <1>1, <2>1 DEF IInv, JobsOK, MessageOK
  <2>5. RechecksOK'
    BY <1>1, <2>1, <2>2 DEF IInv, RechecksOK, InHand
  <2>6. VerdictsOK' /\ WorldOK'
    BY <1>1, <2>1, VerdictsKept, WorldKept
  <2> QED
    BY <2>3, <2>4, <2>5, <2>6 DEF IInv
<1> QED
  BY <1>2, <1>3, <1>4 DEF Requeue

LEMMA ChangePageStep ==
    ASSUME IInv, NEW s \in Subs, ChangePage(s)
    PROVE  IInv'
<1> USE DEF ChangePage, Event, actors
<1>1. TypeOK'
  BY ConstantsAssumption DEF IInv, TypeOK, scans, world
<1>2. JobsOK'
  BY DEF IInv, JobsOK, MessageOK
<1>3. RechecksOK' /\ VerdictsOK' /\ WorldOK'
  BY RechecksKept, VerdictsKept, WorldKept
<1> QED
  BY <1>1, <1>2, <1>3 DEF IInv

LEMMA UpdateRuleStep == IInv /\ UpdateRule => IInv'
<1> SUFFICES ASSUME IInv, UpdateRule PROVE IInv'
  OBVIOUS
<1> USE DEF UpdateRule
<1>1. \A w \in Workers :
        /\ job'[w] \in JobType
        /\ job'[w].pc = job[w].pc /\ job'[w].task = job[w].task /\ job'[w].sub = job[w].sub
        /\ job'[w].recheck = job[w].recheck /\ job'[w].held = job[w].held
        /\ job'[w].cut = job[w].cut /\ job'[w].todo = job[w].todo /\ job'[w].at = job[w].at
        /\ job'[w].pc = "store" => job'[w].lax
  <2> TAKE w \in Workers
  <2>1. job[w] \in JobType
    BY DEF IInv, TypeOK
  <2>2. CASE At(w, "store")
    <3>1. job'[w] = [job[w] EXCEPT !.lax = TRUE]
      BY <2>2
    <3> QED
      BY <2>1, <3>1 DEF JobType
  <2>3. CASE ~At(w, "store")
    BY <2>1, <2>3 DEF At
  <2> QED
    BY <2>2, <2>3
<1>2. TypeOK'
  <2>1. job' \in [Workers -> JobType]
    BY <1>1
  <2>2. events' \in 0..MaxEvents
    BY ConstantsAssumption DEF Event, IInv, TypeOK
  <2>3. rule' \in Rules /\ since' \in [Subs -> BOOLEAN]
    OBVIOUS
  <2> QED
    BY <2>1, <2>2, <2>3 DEF IInv, TypeOK, world
<1>3. JobsOK'
  BY <1>1 DEF IInv, JobsOK, JobFine, MessageOK
<1>4. RechecksOK' /\ WorldOK'
  BY <1>1, RechecksKept, WorldKept
<1>5. VerdictsOK'
  BY <1>1 DEF VerdictsOK
<1> QED
  BY <1>2, <1>3, <1>4, <1>5 DEF IInv

-----------------------------------------------------------------------------
\* A worker takes a message and judges the page.

LEMMA DeliverStep ==
    ASSUME IInv, NEW w \in Workers, Take(w) \/ Reclaim(w)
    PROVE  IInv'
<1>1. PICK i \in Tasks :
        /\ At(w, "idle") /\ Deliver(w, i) /\ task[i].at \in {"queued", "taken"}
        /\ task' = [task EXCEPT ![i].at = "taken"] \/ (task[i].at = "taken" /\ UNCHANGED task)
  BY DEF Take, Reclaim
<1>2. UNCHANGED <<page, rule, scans, world, exempt, durable, sent, claimed, restoration, adding,
                  ghost, events>>
  BY DEF Take, Reclaim
<1>3. /\ \A k \in Tasks : /\ task'[k].sub = task[k].sub /\ task'[k].recheck = task[k].recheck
                          /\ k # i => task'[k] = task[k]
                          /\ task'[k].at = "done" <=> task[k].at = "done"
      /\ task'[i].at = "taken"
      /\ task' \in [Tasks -> [sub : Subs \cup {Nothing}, recheck : BOOLEAN,
                              at : {"queued", "taken", "done"}]]
  BY SMTT(30), <1>1 DEF IInv, TypeOK
<1> DEFINE j == job'[w]
<1>4. /\ task[i].sub \in Subs /\ task[i].recheck \in BOOLEAN
      /\ page[task[i].sub] \in {"fine", "shady"}
  BY <1>1 DEF IInv, TypeOK
<1>5. /\ j \in JobType /\ j.pc \in {"judge", "finish"} /\ j.task = i /\ j.sub = task[i].sub
      /\ j.recheck = task[i].recheck /\ j.at = Nothing /\ j.todo = {} /\ j.cut = {}
      /\ j.held \subseteq RecsOf(task[i].sub)
      /\ Set(w, j)
  <2> DEFINE loaded == [NoJob EXCEPT !.task = i, !.sub = task[i].sub,
                                     !.recheck = task[i].recheck]
             held == {r \in RecsOf(task[i].sub) : row[r] # "none"}
             judged == [loaded EXCEPT !.pc = "judge", !.page = page[task[i].sub], !.held = held]
             passed == [loaded EXCEPT !.pc = "finish"]
  <2>1. judged \in JobType /\ passed \in JobType
    BY <1>4 DEF NoJob, JobType, RecsOf
  <2>2. /\ judged.pc = "judge" /\ judged.held = held
        /\ passed.pc = "finish" /\ passed.held = {}
        /\ \A k \in {judged, passed} :
              /\ k.task = i /\ k.sub = task[i].sub /\ k.recheck = task[i].recheck
              /\ k.at = Nothing /\ k.todo = {} /\ k.cut = {}
    BY DEF NoJob
  <2>3. Set(w, judged) \/ Set(w, passed)
    BY <1>1 DEF Deliver
  <2>4. held \subseteq RecsOf(task[i].sub)
    OBVIOUS
  <2> HIDE DEF judged, passed, held
  <2>5. Set(w, j) /\ j \in {judged, passed}
    BY <2>3 DEF Set, IInv, TypeOK
  <2> QED
    BY <2>1, <2>2, <2>4, <2>5
<1> HIDE DEF j
<1>6. /\ job' \in [Workers -> JobType]
      /\ \A v \in Workers \ {w} : job'[v] = job[v]
  BY <1>5, JobSet DEF IInv
<1>7. TypeOK'
  BY <1>2, <1>3, <1>6 DEF IInv, TypeOK, scans, world
<1>8. JobsOK'
  <2> SUFFICES ASSUME NEW v \in Workers PROVE JobFine(job'[v]) /\ MessageOK(job[v])'
    BY DEF JobsOK
  <2>1. CASE v = w
    <3>1. JobFine(j)
      BY <1>4, <1>5, ConstantsAssumption DEF JobFine
    <3>2. MessageOK(job[w])'
      BY <1>3, <1>5 DEF MessageOK, j
    <3> QED
      BY <2>1, <3>1, <3>2 DEF j
  <2>2. CASE v # w
    <3>1. JobFine(job[v]) /\ MessageOK(job[v]) /\ job[v] \in JobType
      BY DEF IInv, JobsOK, TypeOK
    <3>2. job[v].pc # "idle" => job[v].task \in Tasks
      BY <3>1 DEF JobFine, JobType
    <3> QED
      BY <1>1, <1>3, <1>6, <2>2, <3>1, <3>2 DEF MessageOK
  <2> QED
    BY <2>1, <2>2
<1>9. RechecksOK'
  BY <1>2, <1>3 DEF IInv, RechecksOK, InHand
<1>10. VerdictsOK'
  BY <1>2, <1>5, <1>6, VerdictsKept DEF j
<1>11. WorldOK'
  <2>1. job[w].cut = {}
    BY <1>1 DEF At, IInv, JobsOK, JobFine
  <2> QED
    BY <1>2, <1>5, <2>1, WorldKeptBy
<1> QED
  BY <1>7, <1>8, <1>9, <1>10, <1>11 DEF IInv

\* A worker begins to act on the subdomains S: who finds another actor at one of them is
\* noted, and what suspends a subdomain has all its active records.
LEMMA WorldKeptByActor ==
    ASSUME IInv, NEW w \in Workers, NEW j \in JobType, NEW S \in SUBSET Subs,
           Set(w, j), ghost' = Crossing(S), UNCHANGED <<world, restoration, adding>>,
           \A s \in Subs : Acts(j, s) => s \in S,
           j.pc \in {"pick", "strike"}, job[w].cut = {},
           j.pc = "pick" => \A s \in S : status[s] = "active" /\ Active(s) \subseteq j.held
    PROVE  WorldOK'
<1> USE DEF IInv, WorldOK, world
<1>1. /\ ghost'.crossed = ghost.crossed \cup {s \in S : Busy(s)}
      /\ ghost'.torn = ghost.torn /\ ghost'.late = ghost.late /\ ghost'.unnamed = ghost.unnamed
  BY DEF Crossing, TypeOK
<1>2. job'[w] = j /\ \A v \in Workers \ {w} : job'[v] = job[v]
  BY JobSet
<1>3. ASSUME NEW s \in Subs \ ghost'.crossed, Acts(j, s)
      PROVE  restoration.sub # s /\ \A v \in Workers : ~Acts(job[v], s)
  BY <1>1, <1>3 DEF Busy, ActedOnBy, Acts
<1>4. OneActor'
  <2> SUFFICES ASSUME NEW s \in Subs \ ghost'.crossed
               PROVE  /\ \A u, v \in Workers : Acts(job'[u], s) /\ Acts(job'[v], s) => u = v
                      /\ restoration.sub = s => \A v \in Workers : ~Acts(job'[v], s)
    BY DEF OneActor
  <2> QED
    BY <1>1, <1>2, <1>3 DEF OneActor
<1>5. RestorationOK'
  BY <1>1 DEF RestorationOK, RecsOf
<1>6. ASSUME NEW r \in Recs PROVE RecOK(r)'
  <2>1. SubOf[r] \in Subs
    BY ConstantsAssumption
  <2>2. \A v \in Workers : InCut(job[v], r) <=> InCut(job'[v], r)
    BY <1>2 DEF InCut
  <2>3. AddingOK(r)' /\ StrayKnown(r)'
    BY <1>1 DEF RecOK, AddingOK, StrayKnown
  <2>4. ASSUME SubOf[r] \notin ghost'.crossed
        PROVE  (RowFits(r) /\ CopyHasRow(r) /\ ServedOrCut(r) /\ GoneOrMade(r))'
    BY <1>1, <2>2, <2>4 DEF RecOK, RowFits, CopyHasRow, ServedOrCut, GoneOrMade
  <2>5. ASSUME SubOf[r] \notin ghost'.crossed PROVE ToBeCut(r)'
    <3> SUFFICES ASSUME r \notin ghost.late \cup ghost.unnamed, live[r] # "none",
                        NEW v \in Workers, Acts(job'[v], SubOf[r]), job'[v].pc # "strike"
                 PROVE  r \in job'[v].held /\ ~InCut(job'[v], r)
      BY <1>1 DEF ToBeCut
    <3>0. RowFits(r) /\ CopyHasRow(r) /\ ToBeCut(r)
      BY <1>1, <2>5 DEF RecOK
    <3>1. CASE v = w
      <4>1. SubOf[r] \in S /\ j.pc = "pick"
        BY <1>2, <2>1, <3>1
      <4>2. row[r] = "active"
        BY <3>0, <4>1 DEF RowFits, CopyHasRow, TypeOK
      <4> QED
        BY <1>2, <3>1, <4>1, <4>2 DEF Active, RecsOf, InCut
    <3>2. CASE v # w
      BY <1>2, <3>0, <3>2 DEF ToBeCut
    <3> QED
      BY <3>1, <3>2
  <2> QED
    BY <2>3, <2>4, <2>5 DEF RecOK
<1> QED
  BY <1>4, <1>5, <1>6

LEMMA CrossingTyped ==
    ASSUME TypeOK, NEW S \in SUBSET Subs
    PROVE  /\ Crossing(S) \in [crossed : SUBSET Subs, orphaned : SUBSET Subs,
                               hurried : SUBSET Subs, torn : SUBSET Recs, late : SUBSET Recs,
                               unnamed : SUBSET Recs]
           /\ Crossing(S).orphaned = ghost.orphaned /\ Crossing(S).hurried = ghost.hurried
BY DEF TypeOK, Crossing

LEMMA TakeActionStep ==
    ASSUME IInv, NEW w \in Workers, NEW act, NEW recs \in SUBSET RecsOf(job[w].sub),
           job[w].pc \in {"judge", "review", "excuse"}, TakeAction(w, act, recs),
           UNCHANGED <<world, restoration, adding, task, rule, scans>>
    PROVE  /\ job' \in [Workers -> JobType] /\ JobsOK' /\ VerdictsOK' /\ WorldOK'
           /\ ghost' \in [crossed : SUBSET Subs, orphaned : SUBSET Subs, hurried : SUBSET Subs,
                          torn : SUBSET Recs, late : SUBSET Recs, unnamed : SUBSET Recs]
           /\ ghost'.orphaned = ghost.orphaned
<1>1. /\ job[w] \in JobType /\ JobFine(job[w]) /\ TypeOK /\ job[w].pc # "idle"
      /\ job[w].sub \in Subs /\ job[w].at = Nothing /\ job[w].cut = {} /\ job[w].todo = {}
  BY DEF IInv, TypeOK, JobsOK, JobFine
<1>2. CASE act = "observe" /\ Set(w, Ended(w)) /\ UNCHANGED ghost
  <2>1. /\ Ended(w) \in JobType /\ JobFine(Ended(w)) /\ Ended(w).pc = "finish"
        /\ Ended(w).task = job[w].task /\ Ended(w).sub = job[w].sub
        /\ Ended(w).recheck = job[w].recheck
    BY <1>1, EndedFine
  <2>2. JobsOK' /\ job' \in [Workers -> JobType]
    BY <1>1, <1>2, <2>1, JobsKeptBy
  <2>3. VerdictsOK'
    BY <1>1, <1>2, <2>1, JobSet, VerdictsKept
  <2>4. WorldOK'
    BY <1>1, <1>2, <2>1, WorldKeptBy
  <2> QED
    BY <1>1, <1>2, <2>2, <2>3, <2>4 DEF TypeOK
<1>3. ASSUME NEW j \in JobType, NEW S \in SUBSET Subs, Set(w, j), ghost' = Crossing(S),
             JobFine(j), j.task = job[w].task, j.sub = job[w].sub, j.recheck = job[w].recheck,
             \A s \in Subs : Acts(j, s) => s \in S,
             j.pc \in {"pick", "strike"},
             j.pc = "pick" => \A s \in S : status[s] = "active" /\ Active(s) \subseteq j.held
      PROVE  /\ job' \in [Workers -> JobType] /\ JobsOK' /\ VerdictsOK' /\ WorldOK'
             /\ ghost' \in [crossed : SUBSET Subs, orphaned : SUBSET Subs, hurried : SUBSET Subs,
                            torn : SUBSET Recs, late : SUBSET Recs, unnamed : SUBSET Recs]
             /\ ghost'.orphaned = ghost.orphaned
  <2>1. JobsOK' /\ job' \in [Workers -> JobType]
    BY <1>1, <1>3, JobsKeptBy
  <2>2. VerdictsOK'
    BY <1>1, <1>3, JobSet, VerdictsKept, CrossingTyped
  <2>3. WorldOK'
    BY <1>1, <1>3, WorldKeptByActor
  <2> QED
    BY <1>1, <1>3, <2>1, <2>2, <2>3, CrossingTyped
<1>4. CASE act = "user"
  <2> DEFINE targets == {t \in Subs : status[t] = "active"}
             all == UNION {Active(t) : t \in targets}
             j == [job[w] EXCEPT !.pc = "pick", !.page = "fine", !.todo = targets, !.held = all]
  <2>1. Set(w, j) /\ ghost' = Crossing(targets)
    BY <1>2, <1>4 DEF TakeAction
  <2>2. \A t \in targets : Active(t) \subseteq all
    OBVIOUS
  <2>3. all \in SUBSET Recs
    BY DEF Active, RecsOf
  <2>4. /\ j \in JobType /\ j.pc = "pick" /\ j.task = job[w].task /\ j.sub = job[w].sub
        /\ j.recheck = job[w].recheck /\ j.at = Nothing /\ j.cut = {} /\ j.todo = targets
        /\ j.held = all
    <3> HIDE DEF all, targets
    <3>1. targets \in SUBSET Subs
      BY DEF targets
    <3> QED
      BY <1>1, <2>3, <3>1 DEF JobType
  <2> HIDE DEF j, all
  <2>5. JobFine(j)
    BY <1>1, <2>4 DEF JobFine
  <2>6. \A s \in Subs : Acts(j, s) => s \in targets
    BY <2>4, ConstantsAssumption DEF Acts
  <2> QED
    BY <1>3, <2>1, <2>2, <2>4, <2>5, <2>6
<1>5. CASE act \in {"site", "delete_dns"}
  <2> DEFINE s == job[w].sub
             j == [job[w] EXCEPT !.pc = "strike", !.page = "fine", !.act = act,
                                 !.at = s, !.held = recs]
  <2>1. Set(w, j) /\ ghost' = Crossing({s})
    BY <1>5 DEF TakeAction
  <2>2. recs \in SUBSET Recs
    BY DEF RecsOf
  <2>3. /\ j \in JobType /\ j.pc = "strike" /\ j.task = job[w].task /\ j.sub = s
        /\ j.recheck = job[w].recheck /\ j.at = s /\ j.cut = {} /\ j.todo = {}
        /\ j.held = recs
    BY <1>1, <1>5, <2>2 DEF JobType
  <2> HIDE DEF j
  <2>4. JobFine(j)
    BY <1>1, <2>3 DEF JobFine
  <2>5. \A t \in Subs : Acts(j, t) => t \in {s}
    BY <2>3 DEF Acts
  <2>6. {s} \in SUBSET Subs
    BY <1>1
  <2> QED
    BY <1>3, <2>1, <2>3, <2>4, <2>5, <2>6
<1> QED
  BY <1>2, <1>4, <1>5 DEF TakeAction

LEMMA JudgeStep ==
    ASSUME IInv, NEW w \in Workers, Judge(w)
    PROVE  IInv'
<1>1. /\ At(w, "judge")
      /\ UNCHANGED <<page, rule, scans, world, exempt, task, durable, sent, claimed,
                     restoration, adding>>
  BY DEF Judge
<1>2. /\ job[w] \in JobType /\ JobFine(job[w]) /\ TypeOK /\ job[w].pc = "judge"
      /\ job[w].sub \in Subs /\ job[w].at = Nothing /\ job[w].cut = {} /\ job[w].todo = {}
      /\ job[w].held \in SUBSET RecsOf(job[w].sub)
  BY <1>1 DEF At, IInv, TypeOK, JobsOK, JobFine
<1> DEFINE s == job[w].sub
           p == job[w].page
           same == SamePage(s, p)
           clean(lax) == [job[w] EXCEPT !.pc = "store", !.lax = lax]
           excuse == [job[w] EXCEPT !.pc = "excuse", !.act = rule.action]
           Goal == /\ job' \in [Workers -> JobType] /\ JobsOK' /\ VerdictsOK' /\ WorldOK'
                   /\ ghost' \in [crossed : SUBSET Subs, orphaned : SUBSET Subs,
                                  hurried : SUBSET Subs, torn : SUBSET Recs,
                                  late : SUBSET Recs, unnamed : SUBSET Recs]
                   /\ ghost'.orphaned = ghost.orphaned
<1>3. events' \in 0..MaxEvents
  BY <1>2, ConstantsAssumption DEF Judge, Fault, Event, TypeOK
<1>4. ASSUME NEW lax \in BOOLEAN, Set(w, clean(lax)), UNCHANGED ghost,
             p = "shady" /\ ~lax => ~rule.enabled
      PROVE  Goal
  <2>1. /\ clean(lax) \in JobType /\ clean(lax).pc = "store" /\ clean(lax).lax = lax
        /\ clean(lax).task = job[w].task /\ clean(lax).sub = job[w].sub
        /\ clean(lax).recheck = job[w].recheck /\ clean(lax).at = Nothing
        /\ clean(lax).cut = {} /\ clean(lax).todo = {} /\ clean(lax).page = p
    BY <1>2 DEF JobType
  <2> HIDE DEF clean
  <2>2. JobFine(clean(lax))
    BY <1>2, <2>1 DEF JobFine
  <2>3. JobsOK' /\ job' \in [Workers -> JobType]
    BY <1>1, <1>2, <1>4, <2>1, <2>2, JobsKeptBy
  <2>4. VerdictsOK'
    BY <1>1, <1>2, <1>4, <2>1, JobSet DEF IInv, VerdictsOK, scans
  <2>5. WorldOK'
    BY <1>1, <1>2, <1>4, <2>1, WorldKeptBy
  <2> QED
    BY <1>2, <1>4, <2>3, <2>4, <2>5 DEF TypeOK
<1>5. ASSUME NEW j \in {excuse, Ended(w)}, Set(w, j), UNCHANGED ghost PROVE Goal
  <2>1. rule.action \in {"user", "site", "delete_dns", "observe"}
    BY <1>2, ConstantsAssumption DEF TypeOK
  <2>2. /\ excuse \in JobType /\ excuse.pc = "excuse" /\ excuse.task = job[w].task
        /\ excuse.sub = job[w].sub /\ excuse.recheck = job[w].recheck /\ excuse.at = Nothing
        /\ excuse.cut = {} /\ excuse.todo = {} /\ excuse.held = job[w].held
    BY <1>2, <2>1 DEF JobType
  <2> HIDE DEF excuse
  <2>3. JobFine(excuse)
    BY <1>2, <2>2 DEF JobFine
  <2>4. /\ j \in JobType /\ JobFine(j) /\ j.pc \in {"excuse", "finish"}
        /\ j.task = job[w].task /\ j.sub = job[w].sub /\ j.recheck = job[w].recheck
    BY <1>2, <2>2, <2>3, EndedFine
  <2>5. JobsOK' /\ job' \in [Workers -> JobType]
    BY <1>1, <1>2, <1>5, <2>4, JobsKeptBy
  <2>6. VerdictsOK'
    BY <1>1, <1>2, <1>5, <2>4, JobSet, VerdictsKept
  <2>7. WorldOK'
    BY <1>1, <1>2, <1>5, <2>4, WorldKeptBy
  <2> QED
    BY <1>2, <1>5, <2>5, <2>6, <2>7 DEF TypeOK
<1>6. ASSUME TakeAction(w, rule.action, job[w].held) PROVE Goal
  BY <1>1, <1>2, <1>6, TakeActionStep
<1>7. Goal
  <2>1. CASE (same \/ ~Violates(p)) /\ Set(w, clean(same /\ s \in ghost.hurried)) /\ UNCHANGED ghost
    <3> DEFINE lax == same /\ s \in ghost.hurried
    <3>1. p = "shady" /\ ~lax => ~rule.enabled
      BY <1>2, <2>1 DEF IInv, VerdictsOK, SamePage, Violates
    <3>2. lax \in BOOLEAN
      BY DEF SamePage
    <3> HIDE DEF clean, Goal, lax
    <3> QED
      BY <1>4, <2>1, <3>1, <3>2 DEF lax
  <2>2. CASE Set(w, clean(TRUE)) /\ UNCHANGED ghost
    BY <1>4, <2>2
  <2>3. CASE (Set(w, excuse) \/ Set(w, Ended(w))) /\ UNCHANGED ghost
    BY <1>5, <2>3
  <2> HIDE DEF Goal
  <2> QED
    BY <1>6, <2>1, <2>2, <2>3 DEF Judge
<1>8. TypeOK'
  BY <1>1, <1>2, <1>3, <1>7 DEF TypeOK, scans, world
<1>9. RechecksOK'
  BY <1>1, <1>7, RechecksKept
<1> QED
  BY <1>7, <1>8, <1>9 DEF IInv

LEMMA StoreStep ==
    ASSUME IInv, NEW w \in Workers, Store(w)
    PROVE  IInv'
<1> DEFINE s == job[w].sub
<1>1. /\ At(w, "store")
      /\ verdict' = [verdict EXCEPT ![s] = job[w].page]
      /\ since' = [since EXCEPT ![s] = TRUE]
      /\ ghost' = [ghost EXCEPT !.hurried = IF job[w].lax THEN @ \cup {s} ELSE @ \ {s}]
      /\ UNCHANGED <<page, rule, world, exempt, task, durable, sent, claimed,
                     restoration, adding, events>>
  BY DEF Store
<1>2. /\ job[w] \in JobType /\ JobFine(job[w]) /\ TypeOK /\ job[w].pc = "store"
      /\ s \in Subs /\ job[w].at = Nothing /\ job[w].cut = {} /\ job[w].todo = {}
  BY <1>1 DEF At, IInv, TypeOK, JobsOK, JobFine
<1>3. PICK j \in JobType :
        /\ Set(w, j) /\ JobFine(j) /\ j.pc \in {"finish", "review"}
        /\ j.task = job[w].task /\ j.sub = s /\ j.recheck = job[w].recheck
  <2>1. CASE Set(w, Ended(w))
    BY <1>2, <2>1, EndedFine
  <2>2. ASSUME NEW opinion \in Opinions \ {"none"},
               Set(w, [job[w] EXCEPT !.pc = "review", !.act = opinion])
        PROVE  \E j \in JobType :
                 /\ Set(w, j) /\ JobFine(j) /\ j.pc \in {"finish", "review"}
                 /\ j.task = job[w].task /\ j.sub = s /\ j.recheck = job[w].recheck
    <3> DEFINE j == [job[w] EXCEPT !.pc = "review", !.act = opinion]
    <3>1. opinion \in {"user", "site"}
      BY ConstantsAssumption
    <3>2. /\ j \in JobType /\ j.pc = "review" /\ j.task = job[w].task /\ j.sub = s
          /\ j.recheck = job[w].recheck /\ j.at = Nothing /\ j.cut = {} /\ j.todo = {}
      BY <1>2, <3>1 DEF JobType
    <3>3. Set(w, j)
      BY <2>2
    <3> HIDE DEF j
    <3>4. JobFine(j)
      BY <1>2, <3>2 DEF JobFine
    <3> QED
      BY <3>2, <3>3, <3>4
  <2> QED
    BY <2>1, <2>2 DEF Store, Reviewed
<1>4. JobsOK' /\ job' \in [Workers -> JobType]
  BY <1>1, <1>2, <1>3, JobsKeptBy
<1>5. /\ ghost' \in [crossed : SUBSET Subs, orphaned : SUBSET Subs, hurried : SUBSET Subs,
                     torn : SUBSET Recs, late : SUBSET Recs, unnamed : SUBSET Recs]
      /\ ghost'.crossed = ghost.crossed /\ ghost'.torn = ghost.torn
      /\ ghost'.late = ghost.late /\ ghost'.unnamed = ghost.unnamed
      /\ ghost'.orphaned = ghost.orphaned
      /\ ghost'.hurried = IF job[w].lax THEN ghost.hurried \cup {s} ELSE ghost.hurried \ {s}
  BY SMTT(30), <1>1, <1>2 DEF TypeOK
<1>6. TypeOK'
  <2>1. verdict' \in [Subs -> {"none", "fine", "shady"}] /\ since' \in [Subs -> BOOLEAN]
    BY <1>1, <1>2 DEF TypeOK, JobType
  <2> QED
    BY <1>1, <1>2, <1>4, <1>5, <2>1 DEF TypeOK, world
<1>7. RechecksOK'
  BY <1>1, <1>5, RechecksKept
<1>8. VerdictsOK'
  <2>1. ASSUME NEW t \in Subs, t \notin ghost'.hurried, verdict'[t] = "shady"
        PROVE  ~(rule'.enabled /\ since'[t])
    <3>1. CASE t = s
      BY <1>1, <1>2, <1>5, <2>1, <3>1 DEF IInv, VerdictsOK, TypeOK
    <3>2. CASE t # s
      BY <1>1, <1>2, <1>5, <2>1, <3>2 DEF IInv, VerdictsOK, TypeOK
    <3> QED
      BY <3>1, <3>2
  <2>2. ASSUME NEW v \in Workers, job'[v].pc = "store", ~job'[v].lax, job'[v].page = "shady"
        PROVE  ~rule'.enabled
    BY <1>1, <1>2, <1>3, <2>2, JobSet DEF IInv, VerdictsOK
  <2> QED
    BY <2>1, <2>2 DEF VerdictsOK
<1>9. WorldOK'
  BY <1>1, <1>2, <1>3, <1>5, WorldKeptBy
<1> QED
  BY <1>4, <1>6, <1>7, <1>8, <1>9 DEF IInv

LEMMA ReviewStep ==
    ASSUME IInv, NEW w \in Workers, Review(w)
    PROVE  IInv'
<1> DEFINE s == job[w].sub
           recs == {r \in RecsOf(s) : row[r] # "none"}
<1>1. /\ At(w, "review")
      /\ (Set(w, Ended(w)) /\ UNCHANGED ghost) \/ TakeAction(w, job[w].act, recs)
      /\ UNCHANGED <<page, rule, scans, world, exempt, task, durable, sent, claimed,
                     restoration, adding, events>>
  BY DEF Review
<1>2. job[w].pc = "review" /\ TypeOK /\ JobFine(job[w]) /\ job[w].cut = {}
  BY <1>1 DEF At, IInv, JobsOK, JobFine
<1>3. /\ job' \in [Workers -> JobType] /\ JobsOK' /\ VerdictsOK' /\ WorldOK'
      /\ ghost' \in [crossed : SUBSET Subs, orphaned : SUBSET Subs, hurried : SUBSET Subs,
                     torn : SUBSET Recs, late : SUBSET Recs, unnamed : SUBSET Recs]
      /\ ghost'.orphaned = ghost.orphaned
  <2>1. CASE TakeAction(w, job[w].act, recs)
    BY <1>1, <1>2, <2>1, TakeActionStep
  <2>2. CASE Set(w, Ended(w)) /\ UNCHANGED ghost
    <3>1. JobsOK' /\ job' \in [Workers -> JobType]
      BY <1>1, <1>2, <2>2, EndedFine, JobsKeptBy
    <3>2. VerdictsOK'
      BY <1>1, <1>2, <2>2, EndedFine, JobSet, VerdictsKept
    <3>3. WorldOK'
      BY <1>1, <1>2, <2>2, EndedFine, WorldKeptBy
    <3> QED
      BY <1>2, <2>2, <3>1, <3>2, <3>3 DEF TypeOK
  <2> QED
    BY <1>1, <2>1, <2>2
<1>4. TypeOK'
  BY <1>1, <1>2, <1>3 DEF TypeOK, scans, world
<1>5. RechecksOK'
  BY <1>1, <1>3, RechecksKept
<1> QED
  BY <1>3, <1>4, <1>5 DEF IInv

LEMMA ExcuseStep ==
    ASSUME IInv, NEW w \in Workers, Excuse(w)
    PROVE  IInv'
<1> DEFINE s == job[w].sub
<1>1. /\ At(w, "excuse")
      /\ \/ exempt' = Exempted(s) /\ Set(w, Ended(w)) /\ UNCHANGED <<ghost, events>>
         \/ Fault /\ TakeAction(w, job[w].act, job[w].held) /\ UNCHANGED exempt
      /\ UNCHANGED <<page, rule, scans, world, task, durable, sent, claimed,
                     restoration, adding>>
  BY DEF Excuse
<1>2. /\ job[w].pc = "excuse" /\ TypeOK /\ JobFine(job[w]) /\ job[w].cut = {}
      /\ job[w].held \in SUBSET RecsOf(s)
  BY <1>1 DEF At, IInv, JobsOK, JobFine
<1>3. /\ job' \in [Workers -> JobType] /\ JobsOK' /\ VerdictsOK' /\ WorldOK'
      /\ ghost' \in [crossed : SUBSET Subs, orphaned : SUBSET Subs, hurried : SUBSET Subs,
                     torn : SUBSET Recs, late : SUBSET Recs, unnamed : SUBSET Recs]
      /\ ghost'.orphaned = ghost.orphaned
  <2>1. CASE TakeAction(w, job[w].act, job[w].held)
    BY <1>1, <1>2, <2>1, TakeActionStep
  <2>2. CASE Set(w, Ended(w)) /\ UNCHANGED ghost
    <3>1. JobsOK' /\ job' \in [Workers -> JobType]
      BY <1>1, <1>2, <2>2, EndedFine, JobsKeptBy
    <3>2. VerdictsOK'
      BY <1>1, <1>2, <2>2, EndedFine, JobSet, VerdictsKept
    <3>3. WorldOK'
      BY <1>1, <1>2, <2>2, EndedFine, WorldKeptBy
    <3> QED
      BY <1>2, <2>2, <3>1, <3>2, <3>3 DEF TypeOK
  <2> QED
    BY <1>1, <2>1, <2>2
<1>4. /\ exempt' \in [Subs -> {"none", "pending", "rechecking", "completed"}]
      /\ \A t \in Subs : exempt'[t] = "rechecking" => exempt[t] = "rechecking"
  BY <1>1, <1>2 DEF Exempted, TypeOK
<1>5. events' \in 0..MaxEvents
  BY <1>1, <1>2, ConstantsAssumption DEF Fault, Event, TypeOK
<1>6. TypeOK'
  BY <1>1, <1>2, <1>3, <1>4, <1>5 DEF TypeOK, scans, world
<1>7. RechecksOK'
  BY <1>1, <1>3, <1>4 DEF IInv, RechecksOK, InHand
<1> QED
  BY <1>3, <1>6, <1>7 DEF IInv

\* Who acknowledges the message of a recheck has ended the recheck, or its failure to is
\* noted.
LEMMA FinishStep ==
    ASSUME IInv, NEW w \in Workers, Finish(w)
    PROVE  IInv'
<1> DEFINE s == job[w].sub
           i == job[w].task
           acked == [task EXCEPT ![i] = NoMessage]
<1>1. /\ At(w, "finish") /\ Set(w, NoJob)
      /\ UNCHANGED <<page, rule, scans, world, durable, sent, claimed, restoration, adding>>
  BY DEF Finish
<1>2. /\ job[w].pc = "finish" /\ TypeOK /\ job[w] \in JobType /\ JobFine(job[w])
      /\ MessageOK(job[w]) /\ job[w].cut = {} /\ s \in Subs /\ i \in Tasks
  <2>1. job[w].pc = "finish" /\ TypeOK /\ job[w] \in JobType /\ JobFine(job[w]) /\ MessageOK(job[w])
    BY <1>1 DEF At, IInv, TypeOK, JobsOK
  <2> QED
    BY <2>1 DEF JobFine, JobType
<1>3. /\ NoJob \in JobType /\ NoJob.pc = "idle" /\ NoJob.cut = {} /\ NoJob.todo = {}
      /\ NoJob.task = Nothing /\ NoJob.at = Nothing
  BY DEF NoJob, JobType
<1>4. /\ job' \in [Workers -> JobType] /\ job'[w] = NoJob
      /\ \A v \in Workers \ {w} : job'[v] = job[v]
  BY <1>1, <1>2, <1>3, JobSet
<1>5. /\ task' \in {task, acked}
      /\ task' = acked => exempt'[s] # "rechecking" \/ ~job[w].recheck \/ s \in ghost'.orphaned
      /\ exempt' \in {exempt, Completed(s)}
      /\ ghost' \in [crossed : SUBSET Subs, orphaned : SUBSET Subs, hurried : SUBSET Subs,
                     torn : SUBSET Recs, late : SUBSET Recs, unnamed : SUBSET Recs]
      /\ ghost'.crossed = ghost.crossed /\ ghost'.torn = ghost.torn
      /\ ghost'.late = ghost.late /\ ghost'.unnamed = ghost.unnamed
      /\ ghost'.hurried = ghost.hurried /\ ghost.orphaned \subseteq ghost'.orphaned
      /\ events' \in 0..MaxEvents
  <2>1. Completed(s)[s] # "rechecking"
    BY <1>2 DEF Completed, TypeOK
  <2>2. /\ task' \in {task, acked}
        /\ exempt' \in {exempt, Completed(s)}
        /\ ghost' \in {ghost, [ghost EXCEPT !.orphaned = @ \cup {s}]}
        /\ \/ exempt' = Completed(s) \/ ~job[w].recheck
           \/ ghost' = [ghost EXCEPT !.orphaned = @ \cup {s}]
    <3> HIDE DEF acked
    <3> QED
      BY DEF Finish, acked
  <2>3. events' \in 0..MaxEvents
    BY <1>2, ConstantsAssumption DEF Finish, Fault, Event, TypeOK
  <2>4. [ghost EXCEPT !.orphaned = @ \cup {s}].orphaned = ghost.orphaned \cup {s}
    BY <1>2 DEF TypeOK
  <2>5. /\ ghost' \in [crossed : SUBSET Subs, orphaned : SUBSET Subs, hurried : SUBSET Subs,
                       torn : SUBSET Recs, late : SUBSET Recs, unnamed : SUBSET Recs]
        /\ ghost'.crossed = ghost.crossed /\ ghost'.torn = ghost.torn
        /\ ghost'.late = ghost.late /\ ghost'.unnamed = ghost.unnamed
        /\ ghost'.hurried = ghost.hurried /\ ghost.orphaned \subseteq ghost'.orphaned
    BY <1>2, <2>2 DEF TypeOK
  <2> QED
    BY <2>1, <2>2, <2>3, <2>4, <2>5
<1>6. /\ exempt' \in [Subs -> {"none", "pending", "rechecking", "completed"}]
      /\ \A t \in Subs : exempt'[t] = "rechecking" => exempt[t] = "rechecking"
  BY <1>2, <1>5 DEF Completed, TypeOK
<1>7. /\ task' \in [Tasks -> [sub : Subs \cup {Nothing}, recheck : BOOLEAN,
                              at : {"queued", "taken", "done"}]]
      /\ \A k \in Tasks : task'[k] = task[k] \/ (k = i /\ task' = acked /\ task'[k].at = "done")
      /\ \A k \in Tasks : task'[k].at # "done" => task'[k] = task[k]
  <2>1. CASE task' = task
    BY <1>2, <2>1 DEF TypeOK
  <2>2. CASE task' = acked
    <3>1. NoMessage \in [sub : Subs \cup {Nothing}, recheck : BOOLEAN,
                         at : {"queued", "taken", "done"}] /\ NoMessage.at = "done"
      BY DEF NoMessage
    <3>2. task'[i] = NoMessage /\ \A k \in Tasks \ {i} : task'[k] = task[k]
      BY <1>2, <2>2 DEF TypeOK
    <3> QED
      BY <1>2, <2>2, <3>1, <3>2 DEF TypeOK
  <2> QED
    BY <1>5, <2>1, <2>2
<1>8. TypeOK'
  BY <1>1, <1>2, <1>4, <1>5, <1>6, <1>7 DEF TypeOK, scans, world
<1>9. JobsOK'
  <2> SUFFICES ASSUME NEW v \in Workers PROVE JobFine(job'[v]) /\ MessageOK(job[v])'
    BY DEF JobsOK
  <2>1. CASE v = w
    BY <1>3, <1>4, <2>1 DEF JobFine, MessageOK
  <2>2. CASE v # w
    <3>1. job[v] \in JobType /\ JobFine(job[v]) /\ MessageOK(job[v])
      BY DEF IInv, TypeOK, JobsOK
    <3>2. job[v].pc # "idle" => job[v].task \in Tasks
      BY <3>1 DEF JobFine, JobType
    <3> QED
      BY <1>4, <1>7, <2>2, <3>1, <3>2 DEF MessageOK
  <2> QED
    BY <2>1, <2>2
<1>10. RechecksOK'
  <2> SUFFICES ASSUME NEW t \in Subs, exempt'[t] = "rechecking" PROVE InHand(t)'
    BY DEF RechecksOK
  <2>1. InHand(t)
    BY <1>6 DEF IInv, RechecksOK
  <2>2. CASE t \in claimed \cup ghost.orphaned
    BY <1>1, <1>5, <2>2 DEF InHand
  <2>3. ASSUME NEW k \in Tasks, task[k].at # "done", task[k].sub = t, task[k].recheck
        PROVE  InHand(t)'
    <3>1. CASE task'[k] = task[k]
      BY <2>3, <3>1 DEF InHand
    <3>2. CASE k = i /\ task' = acked
      <4>1. t = s /\ job[w].recheck
        BY <1>2, <2>3, <3>2 DEF MessageOK
      <4> QED
        BY <1>5, <3>2, <4>1 DEF InHand
    <3> QED
      BY <1>7, <3>1, <3>2
  <2> QED
    BY <2>1, <2>2, <2>3 DEF InHand
<1>11. VerdictsOK'
  BY <1>1, <1>3, <1>4, <1>5, VerdictsKept
<1>12. WorldOK'
  BY <1>1, <1>2, <1>3, <1>5, WorldKeptBy
<1> QED
  BY <1>8, <1>9, <1>10, <1>11, <1>12 DEF IInv

-----------------------------------------------------------------------------
\* A worker acts on a subdomain.

\* Who acts on a subdomain no two actors were at is alone there.
LEMMA Alone ==
    ASSUME IInv, NEW w \in Workers, NEW s \in Subs, Acts(job[w], s), s \notin ghost.crossed
    PROVE  /\ restoration.sub # s
           /\ \A v \in Workers \ {w} : ~Acts(job[v], s)
           /\ \A r \in RecsOf(s) : r \notin restoration.made
           /\ \A r \in RecsOf(s), v \in Workers \ {w} : ~InCut(job[v], r)
<1>1. restoration.sub # s /\ \A v \in Workers \ {w} : ~Acts(job[v], s)
  BY DEF IInv, WorldOK, OneActor
<1>2. \A r \in RecsOf(s) : r \notin restoration.made
  BY <1>1 DEF IInv, WorldOK, RestorationOK, RecsOf
<1>3. \A r \in RecsOf(s), v \in Workers \ {w} : ~InCut(job[v], r)
  BY <1>1 DEF InCut, Acts, RecsOf
<1> QED
  BY <1>1, <1>2, <1>3

\* A step of the worker w at the subdomain s changes nothing of other subdomains, and
\* has to be right for s unless two actors are there.
LEMMA WorldStepBy ==
    ASSUME IInv, NEW w \in Workers, NEW j \in JobType, NEW s \in Subs, Set(w, j),
           Acts(job[w], s), job[w].at = s, j.at \in {s, Nothing},
           UNCHANGED <<restoration, adding>>,
           ghost'.crossed = ghost.crossed, ghost'.late = ghost.late,
           ghost.torn \subseteq ghost'.torn, ghost.unnamed \subseteq ghost'.unnamed,
           \A t \in Subs \ {s} : status'[t] = status[t],
           \A r \in Recs \ RecsOf(s) : row'[r] = row[r] /\ live'[r] = live[r],
           \A t \in Subs : Acts(j, t) => Acts(job[w], t),
           j.pc \in {"pick", "cut", "undo"} => job[w].pc # "strike" /\ j.held = job[w].held,
           \A r \in RecsOf(s) : row[r] = "none" => row'[r] = "none",
           \A r \in RecsOf(s) : live'[r] = "stray" => live[r] = "stray" \/ r \in ghost'.unnamed,
           s \notin ghost.crossed =>
               \A r \in RecsOf(s) :
                  (RowFits(r) /\ CopyHasRow(r) /\ ServedOrCut(r) /\ GoneOrMade(r) /\ ToBeCut(r))'
    PROVE  WorldOK'
<1> USE DEF IInv, WorldOK
<1>0. \A r \in Recs : SubOf[r] \in Subs
  BY ConstantsAssumption
<1>1. job'[w] = j /\ \A v \in Workers \ {w} : job'[v] = job[v]
  BY JobSet
<1>2. \A v \in Workers, t \in Subs : Acts(job'[v], t) => Acts(job[v], t)
  BY <1>1
<1>3. OneActor'
  BY <1>2 DEF OneActor
<1>4. RestorationOK'
  <2>1. CASE restoration.sub = s /\ s \notin ghost.crossed
    BY <2>1, Alone
  <2>2. CASE restoration.sub # s
    <3>1. \A r \in RecsOf(restoration.sub) : r \in Recs \ RecsOf(s)
      BY <2>2 DEF RecsOf
    <3>2. RecsOf(restoration.sub)' = RecsOf(restoration.sub)
      BY DEF RecsOf
    <3> QED
      BY <2>2, <3>1, <3>2 DEF RestorationOK
  <2>3. CASE restoration.sub \in ghost.crossed
    BY <2>3 DEF RestorationOK, RecsOf
  <2> QED
    BY <2>1, <2>2, <2>3
<1>5. ASSUME NEW r \in RecsOf(s) PROVE RecOK(r)'
  <2>1. r \in Recs /\ SubOf[r] = s
    BY DEF RecsOf
  <2>2. AddingOK(r)' /\ StrayKnown(r)'
    BY <2>1 DEF RecOK, AddingOK, StrayKnown
  <2> QED
    BY <2>1, <2>2 DEF RecOK
<1>6. ASSUME NEW r \in Recs \ RecsOf(s) PROVE RecOK(r)'
  <2>1. SubOf[r] \in Subs \ {s} /\ row'[r] = row[r] /\ live'[r] = live[r]
    BY <1>0 DEF RecsOf
  <2>2. \A v \in Workers : InCut(job'[v], r) <=> InCut(job[v], r)
    BY <1>1, <2>1, ConstantsAssumption DEF InCut
  <2>3. AddingOK(r)' /\ StrayKnown(r)'
    BY <2>1 DEF RecOK, AddingOK, StrayKnown
  <2>4. ASSUME SubOf[r] \notin ghost.crossed
        PROVE  (RowFits(r) /\ CopyHasRow(r) /\ ServedOrCut(r) /\ GoneOrMade(r))'
    BY <2>1, <2>2, <2>4 DEF RecOK, RowFits, CopyHasRow, ServedOrCut, GoneOrMade
  <2>5. ASSUME SubOf[r] \notin ghost.crossed PROVE ToBeCut(r)'
    <3> SUFFICES ASSUME r \notin ghost.late \cup ghost.unnamed, live[r] # "none",
                        NEW v \in Workers, Acts(job'[v], SubOf[r]), job'[v].pc # "strike"
                 PROVE  r \in job'[v].held /\ ~InCut(job'[v], r)
      BY <2>1 DEF ToBeCut
    <3>1. ToBeCut(r) /\ Acts(job[v], SubOf[r])
      BY <1>2, <2>1, <2>5 DEF RecOK
    <3>2. job[v].pc # "strike" /\ job'[v].held = job[v].held
      BY <1>1 DEF Acts
    <3> QED
      BY <2>2, <3>1, <3>2 DEF ToBeCut
  <2> QED
    BY <2>3, <2>4, <2>5 DEF RecOK
<1> QED
  BY <1>3, <1>4, <1>5, <1>6

\* What holds of a worker that acts, and of the invariants its step leaves alone.
LEMMA ActingFine ==
    ASSUME IInv, NEW w \in Workers, job[w].pc \in {"pick", "cut", "undo", "strike"}
    PROVE  /\ TypeOK /\ job[w] \in JobType /\ JobFine(job[w]) /\ job[w].sub \in Subs
           /\ job[w].pc = "pick" => job[w].at = Nothing /\ job[w].cut = {}
           /\ job[w].pc # "pick" => job[w].at \in Subs /\ Acts(job[w], job[w].at)
           /\ job[w].pc \in {"cut", "undo"} => job[w].cut \subseteq RecsOf(job[w].at)
           /\ job[w].pc = "strike" => /\ job[w].at = job[w].sub /\ job[w].cut = {}
                                      /\ job[w].held \subseteq RecsOf(job[w].at)
                                      /\ job[w].todo = {}
BY DEF IInv, TypeOK, JobsOK, JobFine, Acts

LEMMA OthersKept ==
    ASSUME IInv, NEW w \in Workers, NEW j \in JobType, Set(w, j), JobFine(j),
           job[w].pc \in {"pick", "cut", "undo", "strike"},
           j.pc \in {"pick", "cut", "undo", "strike", "finish"},
           j.task = job[w].task, j.sub = job[w].sub, j.recheck = job[w].recheck,
           UNCHANGED <<rule, scans, exempt, task, claimed>>,
           ghost'.hurried = ghost.hurried, ghost'.orphaned = ghost.orphaned
    PROVE  job' \in [Workers -> JobType] /\ JobsOK' /\ RechecksOK' /\ VerdictsOK'
<1>1. job[w].pc # "idle" /\ TypeOK
  BY DEF IInv
<1>2. job' \in [Workers -> JobType] /\ JobsOK'
  BY <1>1, JobsKeptBy
<1>3. VerdictsOK'
  BY <1>1, JobSet, VerdictsKept
<1> QED
  BY <1>2, <1>3, RechecksKept

LEMMA PickStep ==
    ASSUME IInv, NEW w \in Workers, Pick(w)
    PROVE  IInv'
<1>1. /\ job[w].pc = "pick"
      /\ UNCHANGED <<page, rule, scans, world, exempt, task, durable, sent, claimed,
                     restoration, adding, ghost, events>>
  BY DEF Pick, At
<1>2. /\ TypeOK /\ job[w] \in JobType /\ JobFine(job[w]) /\ job[w].sub \in Subs
      /\ job[w].at = Nothing /\ job[w].cut = {}
  BY <1>1, ActingFine
<1>3. CASE Set(w, Ended(w))
  <2>1. /\ Ended(w) \in JobType /\ JobFine(Ended(w)) /\ Ended(w).pc = "finish"
        /\ Ended(w).task = job[w].task /\ Ended(w).sub = job[w].sub
        /\ Ended(w).recheck = job[w].recheck
    BY <1>1, EndedFine
  <2>2. job' \in [Workers -> JobType] /\ JobsOK' /\ RechecksOK' /\ VerdictsOK'
    BY <1>1, <1>3, <2>1, OthersKept
  <2>3. WorldOK'
    BY <1>1, <1>2, <1>3, <2>1, WorldKeptBy
  <2>4. TypeOK'
    BY <1>1, <1>2, <2>2 DEF TypeOK, scans, world
  <2> QED
    BY <2>2, <2>3, <2>4 DEF IInv
<1>4. ASSUME NEW s \in job[w].todo,
             Set(w, [job[w] EXCEPT !.pc = "cut", !.at = s, !.todo = @ \ {s}, !.cut = {}])
      PROVE  IInv'
  <2> DEFINE j == [job[w] EXCEPT !.pc = "cut", !.at = s, !.todo = @ \ {s}, !.cut = {}]
  <2>1. /\ j \in JobType /\ j.pc = "cut" /\ j.task = job[w].task /\ j.sub = job[w].sub
        /\ j.recheck = job[w].recheck /\ j.at = s /\ j.todo = job[w].todo \ {s} /\ j.cut = {}
        /\ j.held = job[w].held /\ s \in Subs
    BY <1>2 DEF JobType
  <2>2. Set(w, j)
    BY <1>4
  <2> HIDE DEF j
  <2>3. JobFine(j)
    BY <1>1, <1>2, <2>1 DEF JobFine
  <2>4. job' \in [Workers -> JobType] /\ JobsOK' /\ RechecksOK' /\ VerdictsOK'
    BY <1>1, <2>1, <2>2, <2>3, OthersKept
  <2>5. TypeOK'
    BY <1>1, <1>2, <2>4 DEF TypeOK, scans, world
  <2>6. job'[w] = j /\ \A v \in Workers \ {w} : job'[v] = job[v]
    BY <1>2, <2>1, <2>2, JobSet
  <2>7. \A v \in Workers, t \in Subs : Acts(job'[v], t) <=> Acts(job[v], t)
    BY <1>1, <1>2, <2>1, <2>6, ConstantsAssumption DEF Acts
  <2>8. OneActor'
    BY <1>1, <2>7 DEF IInv, WorldOK, OneActor
  <2>9. RestorationOK'
    BY <1>1 DEF IInv, WorldOK, RestorationOK, RecsOf, world
  <2>10. ASSUME NEW r \in Recs PROVE RecOK(r)'
    <3>1. SubOf[r] \in Subs /\ RecOK(r)
      BY ConstantsAssumption DEF IInv, WorldOK
    <3>2. \A v \in Workers : InCut(job'[v], r) <=> InCut(job[v], r)
      BY <1>1, <2>1, <2>6 DEF InCut
    <3>3. AddingOK(r)' /\ StrayKnown(r)'
      BY <1>1, <3>1 DEF RecOK, AddingOK, StrayKnown, world
    <3>4. ASSUME SubOf[r] \notin ghost.crossed
          PROVE  (RowFits(r) /\ CopyHasRow(r) /\ ServedOrCut(r) /\ GoneOrMade(r))'
      BY <1>1, <3>1, <3>2, <3>4
         DEF RecOK, RowFits, CopyHasRow, ServedOrCut, GoneOrMade, world
    <3>5. ASSUME SubOf[r] \notin ghost.crossed PROVE ToBeCut(r)'
      <4>1. \A v \in Workers : /\ job'[v].held = job[v].held
                               /\ job'[v].pc = "strike" <=> job[v].pc = "strike"
        BY <1>1, <2>1, <2>6
      <4>2. ToBeCut(r)
        BY <3>1, <3>5 DEF RecOK
      <4> QED
        BY <1>1, <2>7, <3>1, <3>2, <4>1, <4>2 DEF ToBeCut, world
    <3> QED
      BY <1>1, <3>3, <3>4, <3>5 DEF RecOK
  <2> QED
    BY <2>4, <2>5, <2>8, <2>9, <2>10 DEF IInv, WorldOK
<1> QED
  BY <1>3, <1>4 DEF Pick

\* The step after a failed deletion or a failed transaction: what was deleted is put back.
LEMMA UndoFine ==
    ASSUME IInv, NEW w \in Workers, job[w].pc = "cut"
    PROVE  /\ Undo(w) \in JobType /\ JobFine(Undo(w)) /\ Undo(w).pc = "undo"
           /\ Undo(w).task = job[w].task /\ Undo(w).sub = job[w].sub
           /\ Undo(w).recheck = job[w].recheck /\ Undo(w).at = job[w].at
           /\ Undo(w).todo = job[w].todo /\ Undo(w).held = job[w].held
           /\ Undo(w).cut = job[w].cut
<1>1. job[w] \in JobType /\ JobFine(job[w])
  BY ActingFine
<1>2. /\ Undo(w) \in JobType /\ Undo(w).pc = "undo"
      /\ Undo(w).task = job[w].task /\ Undo(w).sub = job[w].sub
      /\ Undo(w).recheck = job[w].recheck /\ Undo(w).at = job[w].at
      /\ Undo(w).todo = job[w].todo /\ Undo(w).held = job[w].held
      /\ Undo(w).cut = job[w].cut
  BY <1>1 DEF Undo, JobType
<1>3. JobFine(Undo(w))
  BY <1>1, <1>2 DEF JobFine
<1> QED
  BY <1>2, <1>3

LEMMA ToUndoStep ==
    ASSUME IInv, NEW w \in Workers, job[w].pc = "cut", Set(w, Undo(w)), Fault,
           UNCHANGED <<page, rule, scans, world, exempt, task, durable, sent, claimed,
                       restoration, adding, ghost>>
    PROVE  IInv'
<1> DEFINE j == Undo(w)
           s == job[w].at
<1>1. /\ TypeOK /\ job[w] \in JobType /\ JobFine(job[w]) /\ s \in Subs /\ Acts(job[w], s)
  BY ActingFine
<1>2. /\ j \in JobType /\ JobFine(j) /\ j.pc = "undo" /\ j.task = job[w].task
      /\ j.sub = job[w].sub /\ j.recheck = job[w].recheck /\ j.at = s
      /\ j.todo = job[w].todo /\ j.held = job[w].held /\ j.cut = job[w].cut
  BY UndoFine
<1> HIDE DEF j
<1>3. Set(w, j)
  BY DEF j
<1>4. job' \in [Workers -> JobType] /\ JobsOK' /\ RechecksOK' /\ VerdictsOK'
  BY <1>2, <1>3, OthersKept
<1>5. TypeOK'
  <2>1. events' \in 0..MaxEvents
    BY <1>1, ConstantsAssumption DEF Fault, Event, TypeOK
  <2> QED
    BY <1>1, <1>4, <2>1 DEF TypeOK, scans, world
<1>6. WorldOK'
  <2>1. \A t \in Subs : Acts(j, t) => Acts(job[w], t)
    BY <1>2 DEF Acts
  <2>2. job'[w] = j /\ \A v \in Workers \ {w} : job'[v] = job[v]
    BY <1>1, <1>2, <1>3, JobSet
  <2>3. ASSUME s \notin ghost.crossed, NEW r \in RecsOf(s)
        PROVE  (RowFits(r) /\ CopyHasRow(r) /\ ServedOrCut(r) /\ GoneOrMade(r) /\ ToBeCut(r))'
    <3>1. /\ r \in Recs /\ SubOf[r] = s
          /\ RowFits(r) /\ CopyHasRow(r) /\ ServedOrCut(r) /\ GoneOrMade(r) /\ ToBeCut(r)
      BY <2>3 DEF RecsOf, IInv, WorldOK, RecOK
    <3>2. \A v \in Workers : InCut(job'[v], r) <=> InCut(job[v], r)
      BY <1>2, <2>2 DEF InCut
    <3>3. \A v \in Workers : Acts(job'[v], s) /\ job'[v].pc # "strike" =>
             Acts(job[v], s) /\ job[v].pc # "strike" /\ job'[v].held = job[v].held
      BY <1>1, <1>2, <2>1, <2>2
    <3>4. (RowFits(r) /\ CopyHasRow(r) /\ ServedOrCut(r) /\ GoneOrMade(r))'
      BY <3>1, <3>2 DEF RowFits, CopyHasRow, ServedOrCut, GoneOrMade, world
    <3>5. ToBeCut(r)'
      BY <3>1, <3>2, <3>3 DEF ToBeCut, world
    <3> QED
      BY <3>4, <3>5
  <2> QED
    BY <1>1, <1>2, <1>3, <2>1, <2>3, WorldStepBy DEF world
<1> QED
  BY <1>4, <1>5, <1>6 DEF IInv

\* Only a copy under an id nobody stored survives the deletion.
LEMMA CutRecordStep ==
    ASSUME IInv, NEW w \in Workers, CutRecord(w)
    PROVE  IInv'
<1>1. /\ job[w].pc = "cut"
      /\ UNCHANGED <<page, rule, scans, status, row, exempt, task, durable, sent, claimed,
                     restoration, adding>>
  BY DEF CutRecord, At
<1> DEFINE s == job[w].at
<1>2. /\ TypeOK /\ job[w] \in JobType /\ JobFine(job[w]) /\ s \in Subs /\ Acts(job[w], s)
      /\ job[w].cut \subseteq RecsOf(s)
  BY <1>1, ActingFine
<1>3. CASE Fault /\ Set(w, Undo(w)) /\ UNCHANGED <<live, ghost>>
  BY <1>1, <1>3, ToUndoStep DEF world
<1>4. ASSUME NEW x \in ToCut(w), NEW j \in JobType, JobFine(j), Set(w, j),
             live' = [live EXCEPT ![x] = IF @ = "known" THEN "none" ELSE @],
             j.pc \in {"cut", "undo"}, j.task = job[w].task, j.sub = job[w].sub,
             j.recheck = job[w].recheck, j.at = s, j.todo = job[w].todo, j.held = job[w].held,
             ghost' \in [crossed : SUBSET Subs, orphaned : SUBSET Subs, hurried : SUBSET Subs,
                         torn : SUBSET Recs, late : SUBSET Recs, unnamed : SUBSET Recs],
             ghost'.crossed = ghost.crossed, ghost'.late = ghost.late,
             ghost'.unnamed = ghost.unnamed, ghost'.hurried = ghost.hurried,
             ghost'.orphaned = ghost.orphaned, events' \in 0..MaxEvents,
             \/ j.cut = job[w].cut \cup {x} /\ ghost'.torn = ghost.torn
             \/ j.cut = job[w].cut /\ ghost'.torn = ghost.torn \cup {x}
      PROVE  IInv'
  <2>1. x \in RecsOf(s) /\ x \in Recs /\ x \in job[w].held
    BY DEF ToCut, RecsOf
  <2>5. job' \in [Workers -> JobType] /\ JobsOK' /\ RechecksOK' /\ VerdictsOK'
    BY <1>1, <1>4, OthersKept
  <2>6. /\ live' \in [Recs -> {"none", "known", "stray"}]
        /\ \A r \in Recs \ {x} : live'[r] = live[r]
        /\ live'[x] = IF live[x] = "known" THEN "none" ELSE live[x]
    BY <1>2, <1>4, <2>1 DEF TypeOK
  <2>7. TypeOK'
    BY <1>1, <1>2, <1>4, <2>5, <2>6 DEF TypeOK, scans
  <2>8. WorldOK'
    <3>1. \A t \in Subs : Acts(j, t) => Acts(job[w], t)
      BY <1>1, <1>4 DEF Acts
    <3>2. job'[w] = j /\ \A v \in Workers \ {w} : job'[v] = job[v]
      BY <1>2, <1>4, JobSet
    <3>3. ASSUME s \notin ghost.crossed, NEW r \in RecsOf(s)
          PROVE  (RowFits(r) /\ CopyHasRow(r) /\ ServedOrCut(r) /\ GoneOrMade(r) /\ ToBeCut(r))'
      <4>1. /\ r \in Recs /\ SubOf[r] = s
            /\ RowFits(r) /\ CopyHasRow(r) /\ ServedOrCut(r) /\ GoneOrMade(r) /\ ToBeCut(r)
            /\ StrayKnown(r)
        BY <3>3 DEF RecsOf, IInv, WorldOK, RecOK
      <4>2. /\ \A v \in Workers : InCut(job[v], r) => InCut(job'[v], r)
            /\ \A v \in Workers : InCut(job'[v], r) => InCut(job[v], r) \/ r = x
            /\ r = x => InCut(job'[w], r) \/ r \in ghost'.torn
            /\ r \in ghost.torn => r \in ghost'.torn
        BY <1>1, <1>4, <3>2, <4>1 DEF InCut
      <4>3. r = x /\ r \notin ghost.unnamed => live'[r] = "none"
        <5>1. r \notin restoration.made
          BY <1>2, <3>3, Alone
        <5> QED
          BY <1>2, <2>6, <4>1, <5>1 DEF StrayKnown, TypeOK
      <4>4. (RowFits(r) /\ CopyHasRow(r) /\ GoneOrMade(r))'
        BY <1>1, <1>4, <2>6, <4>1, <4>3 DEF RowFits, CopyHasRow, GoneOrMade
      <4>5. ServedOrCut(r)'
        BY <1>1, <2>6, <4>1, <4>2 DEF ServedOrCut
      <4>6. ToBeCut(r)'
        <5>1. \A v \in Workers : Acts(job'[v], s) /\ job'[v].pc # "strike" =>
                 Acts(job[v], s) /\ job[v].pc # "strike" /\ job'[v].held = job[v].held
          BY <1>1, <1>2, <1>4, <3>1, <3>2
        <5> QED
          BY <1>1, <1>4, <2>6, <4>1, <4>2, <4>3, <5>1 DEF ToBeCut
      <4> QED
        BY <4>4, <4>5, <4>6
    <3>4. /\ \A r \in Recs \ RecsOf(s) : live'[r] = live[r]
          /\ \A r \in RecsOf(s) : live'[r] = "stray" => live[r] = "stray"
      BY <2>1, <2>6 DEF RecsOf
    <3> QED
      BY <1>1, <1>2, <1>4, <3>1, <3>3, <3>4, WorldStepBy
  <2> QED
    BY <2>5, <2>7, <2>8 DEF IInv
<1>5. ASSUME NEW x \in ToCut(w),
             live' = [live EXCEPT ![x] = IF @ = "known" THEN "none" ELSE @],
             Set(w, [job[w] EXCEPT !.cut = @ \cup {x}]), UNCHANGED <<ghost, events>>
      PROVE  IInv'
  <2> DEFINE j == [job[w] EXCEPT !.cut = @ \cup {x}]
  <2>1. x \in RecsOf(s) /\ x \in Recs
    BY DEF ToCut, RecsOf
  <2>2. /\ j \in JobType /\ j.pc = "cut" /\ j.task = job[w].task /\ j.sub = job[w].sub
        /\ j.recheck = job[w].recheck /\ j.at = s /\ j.todo = job[w].todo
        /\ j.held = job[w].held /\ j.cut = job[w].cut \cup {x}
    BY <1>1, <1>2, <2>1 DEF JobType
  <2>3. Set(w, j)
    BY <1>5
  <2> HIDE DEF j
  <2>4. JobFine(j)
    BY <1>1, <1>2, <2>1, <2>2 DEF JobFine
  <2> QED
    BY <1>2, <1>4, <1>5, <2>2, <2>3, <2>4 DEF TypeOK
<1>6. ASSUME NEW x \in ToCut(w), Fault, Set(w, Undo(w)),
             live' = [live EXCEPT ![x] = IF @ = "known" THEN "none" ELSE @],
             ghost' = [ghost EXCEPT !.torn = @ \cup {x}]
      PROVE  IInv'
  <2> DEFINE j == Undo(w)
  <2>1. x \in Recs
    BY DEF ToCut, RecsOf
  <2>2. /\ j \in JobType /\ JobFine(j) /\ j.pc = "undo" /\ j.task = job[w].task
        /\ j.sub = job[w].sub /\ j.recheck = job[w].recheck /\ j.at = s
        /\ j.todo = job[w].todo /\ j.held = job[w].held /\ j.cut = job[w].cut
    BY <1>1, UndoFine
  <2>3. Set(w, j)
    BY <1>6
  <2> HIDE DEF j
  <2>4. /\ ghost' \in [crossed : SUBSET Subs, orphaned : SUBSET Subs, hurried : SUBSET Subs,
                       torn : SUBSET Recs, late : SUBSET Recs, unnamed : SUBSET Recs]
        /\ ghost'.crossed = ghost.crossed /\ ghost'.late = ghost.late
        /\ ghost'.unnamed = ghost.unnamed /\ ghost'.hurried = ghost.hurried
        /\ ghost'.orphaned = ghost.orphaned /\ ghost'.torn = ghost.torn \cup {x}
    BY <1>2, <1>6, <2>1 DEF TypeOK
  <2>5. events' \in 0..MaxEvents
    BY <1>2, <1>6, ConstantsAssumption DEF TypeOK, Fault, Event
  <2> QED
    BY <1>4, <1>6, <2>2, <2>3, <2>4, <2>5
<1>7. PICK x \in ToCut(w) :
         \/ /\ live' = [live EXCEPT ![x] = IF @ = "known" THEN "none" ELSE @]
            /\ Set(w, [job[w] EXCEPT !.cut = @ \cup {x}])
            /\ UNCHANGED <<ghost, events>>
         \/ /\ Fault
            /\ Set(w, Undo(w))
            /\ \/ UNCHANGED <<live, ghost>>
               \/ /\ live' = [live EXCEPT ![x] = IF @ = "known" THEN "none" ELSE @]
                  /\ ghost' = [ghost EXCEPT !.torn = @ \cup {x}]
  BY DEF CutRecord
<1> QED
  BY <1>3, <1>5, <1>6, <1>7

\* All that was held is gone when the subdomain is suspended.
LEMMA SuspendStep ==
    ASSUME IInv, NEW w \in Workers, Suspend(w)
    PROVE  IInv'
<1>1. /\ job[w].pc = "cut" /\ ToCut(w) = {}
      /\ UNCHANGED <<page, rule, scans, live, exempt, task, durable, sent, claimed,
                     restoration, adding, ghost>>
  BY DEF Suspend, At
<1> DEFINE s == job[w].at
<1>2. /\ TypeOK /\ job[w] \in JobType /\ JobFine(job[w]) /\ s \in Subs /\ Acts(job[w], s)
      /\ job[w].cut \subseteq RecsOf(s)
  BY <1>1, ActingFine
<1>3. CASE Fault /\ Set(w, Undo(w)) /\ UNCHANGED <<row, status>>
  BY <1>1, <1>3, ToUndoStep DEF world
<1>4. CASE /\ Suspended(w)
           /\ Set(w, [job[w] EXCEPT !.pc = "pick", !.at = Nothing, !.cut = {}])
           /\ UNCHANGED events
  <2> DEFINE j == [job[w] EXCEPT !.pc = "pick", !.at = Nothing, !.cut = {}]
  <2>2. /\ j \in JobType /\ j.pc = "pick" /\ j.task = job[w].task /\ j.sub = job[w].sub
        /\ j.recheck = job[w].recheck /\ j.at = Nothing /\ j.todo = job[w].todo
        /\ j.held = job[w].held /\ j.cut = {}
    BY <1>2 DEF JobType
  <2>3. Set(w, j)
    BY <1>4
  <2> HIDE DEF j
  <2>4. JobFine(j)
    BY <1>1, <1>2, <2>2 DEF JobFine
  <2>5. job' \in [Workers -> JobType] /\ JobsOK' /\ RechecksOK' /\ VerdictsOK'
    BY <1>1, <2>2, <2>3, <2>4, OthersKept
  <2>6. /\ row' \in [Recs -> {"none", "active", "suspended"}]
        /\ \A r \in Recs : row'[r] = IF r \in job[w].cut /\ row[r] # "none" THEN "suspended"
                                     ELSE row[r]
        /\ status' \in [Subs -> {"active", "suspended", "gone"}]
        /\ status'[s] = IF status[s] = "gone" THEN "gone" ELSE "suspended"
        /\ \A t \in Subs \ {s} : status'[t] = status[t]
    BY <1>2, <1>4 DEF TypeOK, Suspended
  <2>7. TypeOK'
    <3>1. \A r \in Recs : row'[r] # "none" => status'[SubOf[r]] # "gone"
      <4> SUFFICES ASSUME NEW r \in Recs, row'[r] # "none" PROVE status'[SubOf[r]] # "gone"
        OBVIOUS
      <4>1. row[r] # "none" /\ SubOf[r] \in Subs
        BY <2>6, ConstantsAssumption
      <4> QED
        BY <1>2, <2>6, <4>1 DEF TypeOK
    <3> QED
      BY <1>1, <1>2, <1>4, <2>5, <2>6, <3>1 DEF TypeOK, scans
  <2>8. WorldOK'
    <3>1. \A t \in Subs : Acts(j, t) => Acts(job[w], t)
      BY <1>1, <2>2, ConstantsAssumption DEF Acts
    <3>2. job'[w] = j /\ \A v \in Workers \ {w} : job'[v] = job[v]
      BY <1>2, <2>2, <2>3, JobSet
    <3>3. ASSUME s \notin ghost.crossed, NEW r \in RecsOf(s)
          PROVE  (RowFits(r) /\ CopyHasRow(r) /\ ServedOrCut(r) /\ GoneOrMade(r) /\ ToBeCut(r))'
      <4>1. /\ r \in Recs /\ SubOf[r] = s
            /\ RowFits(r) /\ CopyHasRow(r) /\ ServedOrCut(r) /\ GoneOrMade(r) /\ ToBeCut(r)
        BY <3>3 DEF RecsOf, IInv, WorldOK, RecOK
      <4>2. InCut(job[w], r) <=> r \in job[w].cut
        BY <1>1, <4>1 DEF InCut
      <4>3. r \in ghost.late \cup ghost.unnamed \/ live[r] = "none"
        <5>1. r \in job[w].held => r \in job[w].cut
          BY <1>1, <3>3 DEF ToCut
        <5> QED
          BY <1>1, <1>2, <4>1, <4>2, <5>1 DEF ToBeCut
      <4>4. \A v \in Workers \ {w} : ~InCut(job[v], r)
        BY <1>2, <3>3, Alone
      <4>5. RowFits(r)' /\ CopyHasRow(r)' /\ GoneOrMade(r)'
        BY <1>1, <1>2, <2>6, <4>1, <4>3 DEF RowFits, CopyHasRow, GoneOrMade
      <4>6. ServedOrCut(r)'
        BY <1>1, <2>6, <4>1, <4>2, <4>4 DEF ServedOrCut
      <4>7. ToBeCut(r)'
        BY <1>1, <4>3 DEF ToBeCut
      <4> QED
        BY <4>5, <4>6, <4>7
    <3>4. \A r \in Recs \ RecsOf(s) : row'[r] = row[r]
      BY <1>2, <2>6
    <3>5. \A r \in RecsOf(s) : row[r] = "none" => row'[r] = "none"
      BY <2>6 DEF RecsOf
    <3> QED
      BY <1>1, <1>2, <2>2, <2>3, <2>6, <3>1, <3>3, <3>4, <3>5, WorldStepBy
  <2> QED
    BY <2>5, <2>7, <2>8 DEF IInv
<1> QED
  BY <1>3, <1>4 DEF Suspend

\* A worker with nothing left in its hands ends.
LEMMA EndStep ==
    ASSUME IInv, NEW w \in Workers, job[w].pc \in {"pick", "cut", "undo", "strike"},
           job[w].cut = {}, Set(w, Ended(w)), events' = events \/ Fault,
           UNCHANGED <<page, rule, scans, world, exempt, task, durable, sent, claimed,
                       restoration, adding, ghost>>
    PROVE  IInv'
<1>1. TypeOK /\ job[w].pc # "idle"
  BY DEF IInv
<1>2. /\ Ended(w) \in JobType /\ JobFine(Ended(w)) /\ Ended(w).pc = "finish"
      /\ Ended(w).task = job[w].task /\ Ended(w).sub = job[w].sub
      /\ Ended(w).recheck = job[w].recheck
  BY <1>1, EndedFine
<1>3. job' \in [Workers -> JobType] /\ JobsOK' /\ RechecksOK' /\ VerdictsOK'
  BY <1>2, OthersKept
<1>4. WorldOK'
  BY <1>2, WorldKeptBy
<1>5. TypeOK'
  <2>1. events' \in 0..MaxEvents
    BY <1>1, ConstantsAssumption DEF Fault, Event, TypeOK
  <2> QED
    BY <1>1, <1>3, <2>1 DEF TypeOK, scans, world
<1> QED
  BY <1>3, <1>4, <1>5 DEF IInv

\* A record that is put back is served, under an id nobody stored, or noted as torn.
LEMMA CompensateStep ==
    ASSUME IInv, NEW w \in Workers, Compensate(w)
    PROVE  IInv'
<1>1. /\ job[w].pc = "undo"
      /\ UNCHANGED <<page, rule, scans, status, row, exempt, task, durable, sent, claimed,
                     restoration, adding>>
  BY DEF Compensate, At
<1> DEFINE s == job[w].at
<1>2. /\ TypeOK /\ job[w] \in JobType /\ JobFine(job[w]) /\ s \in Subs /\ Acts(job[w], s)
      /\ job[w].cut \subseteq RecsOf(s)
  BY <1>1, ActingFine
<1>3. CASE job[w].cut = {} /\ Set(w, Ended(w)) /\ UNCHANGED <<live, events, ghost>>
  BY <1>1, <1>3, EndStep DEF world
<1>4. ASSUME NEW x \in job[w].cut, Recreate(w, x), Set(w, [job[w] EXCEPT !.cut = @ \ {x}])
      PROVE  IInv'
  <2> DEFINE j == [job[w] EXCEPT !.cut = @ \ {x}]
  <2>1. x \in RecsOf(s) /\ x \in Recs
    BY <1>2 DEF RecsOf
  <2>2. /\ j \in JobType /\ j.pc = "undo" /\ j.task = job[w].task /\ j.sub = job[w].sub
        /\ j.recheck = job[w].recheck /\ j.at = s /\ j.todo = job[w].todo
        /\ j.held = job[w].held /\ j.cut = job[w].cut \ {x}
    BY <1>1, <1>2 DEF JobType
  <2>3. Set(w, j)
    BY <1>4
  <2> HIDE DEF j
  <2>4. JobFine(j)
    BY <1>1, <1>2, <2>2 DEF JobFine
  <2>5. /\ live' \in [Recs -> {"none", "known", "stray"}]
        /\ \A r \in Recs \ {x} : live'[r] = live[r]
        /\ live'[x] = live[x] \/ live'[x] = "stray"
        /\ ghost' \in [crossed : SUBSET Subs, orphaned : SUBSET Subs, hurried : SUBSET Subs,
                       torn : SUBSET Recs, late : SUBSET Recs, unnamed : SUBSET Recs]
        /\ ghost'.crossed = ghost.crossed /\ ghost'.late = ghost.late
        /\ ghost'.hurried = ghost.hurried /\ ghost'.orphaned = ghost.orphaned
        /\ \/ live'[x] # "none" /\ ghost'.unnamed = ghost.unnamed \cup {x}
              /\ ghost'.torn = ghost.torn
           \/ live'[x] = live[x] /\ ghost'.unnamed = ghost.unnamed
              /\ ghost'.torn = ghost.torn \cup {x}
        /\ events' \in 0..MaxEvents
    <3>1. CASE /\ live' = [live EXCEPT ![x] = IF @ = "none" THEN "stray" ELSE @]
               /\ ghost' = [ghost EXCEPT !.unnamed = @ \cup {x}]
               /\ Fault \/ UNCHANGED events
      <4>1. events' \in 0..MaxEvents
        BY <1>2, <3>1, ConstantsAssumption DEF TypeOK, Fault, Event
      <4> QED
        BY SMTT(30), <1>2, <2>1, <3>1, <4>1 DEF TypeOK
    <3>2. CASE Fault /\ ghost' = [ghost EXCEPT !.torn = @ \cup {x}] /\ UNCHANGED live
      BY <1>2, <2>1, <3>2, ConstantsAssumption DEF TypeOK, Fault, Event
    <3> QED
      BY <1>4, <3>1, <3>2 DEF Recreate
  <2>6. job' \in [Workers -> JobType] /\ JobsOK' /\ RechecksOK' /\ VerdictsOK'
    BY <1>1, <2>2, <2>3, <2>4, <2>5, OthersKept
  <2>7. TypeOK'
    BY <1>1, <1>2, <2>5, <2>6 DEF TypeOK, scans
  <2>8. WorldOK'
    <3>1. \A t \in Subs : Acts(j, t) => Acts(job[w], t)
      BY <1>1, <2>2 DEF Acts
    <3>2. job'[w] = j /\ \A v \in Workers \ {w} : job'[v] = job[v]
      BY <1>2, <2>2, <2>3, JobSet
    <3>3. ASSUME s \notin ghost.crossed, NEW r \in RecsOf(s)
          PROVE  (RowFits(r) /\ CopyHasRow(r) /\ ServedOrCut(r) /\ GoneOrMade(r) /\ ToBeCut(r))'
      <4>1. /\ r \in Recs /\ SubOf[r] = s
            /\ RowFits(r) /\ CopyHasRow(r) /\ ServedOrCut(r) /\ GoneOrMade(r) /\ ToBeCut(r)
        BY <3>3 DEF RecsOf, IInv, WorldOK, RecOK
      <4>2. /\ \A v \in Workers : InCut(job'[v], r) => InCut(job[v], r)
            /\ \A v \in Workers : InCut(job[v], r) => InCut(job'[v], r) \/ (v = w /\ r = x)
            /\ r = x => InCut(job[w], r)
        BY <1>1, <1>4, <2>2, <3>2, <4>1 DEF InCut
      <4>3. r = x => r \in ghost'.unnamed \/ (r \in ghost'.torn /\ live'[r] = live[r])
        BY <2>5
      <4>4. (RowFits(r) /\ CopyHasRow(r) /\ GoneOrMade(r))'
        BY <1>1, <2>5, <4>1, <4>3 DEF RowFits, CopyHasRow, GoneOrMade
      <4>5. ServedOrCut(r)'
        BY <1>1, <2>5, <4>1, <4>2 DEF ServedOrCut
      <4>6. ToBeCut(r)'
        <5>1. \A v \in Workers : Acts(job'[v], s) /\ job'[v].pc # "strike" =>
                 Acts(job[v], s) /\ job[v].pc # "strike" /\ job'[v].held = job[v].held
          BY <1>1, <1>2, <2>2, <3>1, <3>2
        <5>2. r \notin ghost'.unnamed => live'[r] = live[r] /\ r \notin ghost.unnamed
          BY <2>5, <4>1, <4>3
        <5> QED
          BY <1>1, <2>5, <4>1, <4>2, <5>1, <5>2 DEF ToBeCut
      <4> QED
        BY <4>4, <4>5, <4>6
    <3>4. /\ \A r \in Recs \ RecsOf(s) : live'[r] = live[r]
          /\ \A r \in RecsOf(s) : live'[r] = "stray" => live[r] = "stray" \/ r \in ghost'.unnamed
      <4> SUFFICES ASSUME NEW r \in Recs
                   PROVE  /\ r \notin RecsOf(s) => live'[r] = live[r]
                          /\ live'[r] = "stray" => live[r] = "stray" \/ r \in ghost'.unnamed
        BY DEF RecsOf
      <4> QED
        BY <2>1, <2>5
    <3> QED
      BY <1>1, <1>2, <2>2, <2>3, <2>5, <3>1, <3>3, <3>4, WorldStepBy
  <2> QED
    BY <2>6, <2>7, <2>8 DEF IInv
<1> QED
  BY <1>3, <1>4 DEF Compensate

\* What a failing deletion may leave: the record as it was, or gone and noted as torn,
\* or served, by the id of an active row or noted as unnamed.
LEMMA NotStruckFine ==
    ASSUME TypeOK, NEW x \in Recs, NEW g, NotStruck(x, g),
           g \in [crossed : SUBSET Subs, orphaned : SUBSET Subs, hurried : SUBSET Subs,
                  torn : SUBSET Recs, late : SUBSET Recs, unnamed : SUBSET Recs],
           g.torn = ghost.torn, g.unnamed = ghost.unnamed
    PROVE  /\ row' = row /\ live' \in [Recs -> {"none", "known", "stray"}]
           /\ \A r \in Recs \ {x} : live'[r] = live[r]
           /\ ghost' \in [crossed : SUBSET Subs, orphaned : SUBSET Subs,
                          hurried : SUBSET Subs, torn : SUBSET Recs, late : SUBSET Recs,
                          unnamed : SUBSET Recs]
           /\ ghost'.crossed = g.crossed /\ ghost'.late = g.late
           /\ ghost'.hurried = g.hurried /\ ghost'.orphaned = g.orphaned
           /\ ghost'.torn \in {ghost.torn, ghost.torn \cup {x}}
           /\ ghost'.unnamed \in {ghost.unnamed, ghost.unnamed \cup {x}}
           /\ \/ live'[x] = live[x]
              \/ live'[x] = "none" /\ x \in ghost'.torn
              \/ live'[x] = "known" /\ row[x] = "active" /\ status[SubOf[x]] = "active"
              \/ live'[x] # "none" /\ x \in ghost'.unnamed
           /\ events' \in 0..MaxEvents
<1>1. row' = row /\ events' \in 0..MaxEvents
  BY ConstantsAssumption DEF NotStruck, Fault, Event, TypeOK
<1>2. CASE ghost' = g /\ UNCHANGED live
  BY <1>1, <1>2 DEF TypeOK
<1>3. CASE live' = [live EXCEPT ![x] = "none"] /\ ghost' = [g EXCEPT !.torn = @ \cup {x}]
  BY <1>1, <1>3 DEF TypeOK
<1>4. CASE /\ live' = [live EXCEPT ![x] = "known"]
           /\ ghost' = [g EXCEPT !.unnamed =
                  IF row[x] = "active" /\ status[SubOf[x]] = "active" THEN @ ELSE @ \cup {x}]
  <2>1. CASE row[x] = "active" /\ status[SubOf[x]] = "active"
    <3>1. ghost' = g
      BY <1>4, <2>1
    <3> QED
      BY <1>1, <1>4, <2>1, <3>1 DEF TypeOK
  <2>2. CASE ~(row[x] = "active" /\ status[SubOf[x]] = "active")
    <3>1. ghost' = [g EXCEPT !.unnamed = @ \cup {x}]
      BY <1>4, <2>2
    <3> QED
      BY <1>1, <1>4, <3>1 DEF TypeOK
  <2> QED
    BY <2>1, <2>2
<1>5. CASE live' = [live EXCEPT ![x] = "stray"] /\ ghost' = [g EXCEPT !.unnamed = @ \cup {x}]
  BY <1>1, <1>5 DEF TypeOK
<1> QED
  BY <1>2, <1>3, <1>4, <1>5 DEF NotStruck

\* A record is deleted at the provider and in the database, or what is left is noted.
LEMMA StrikeRecordStep ==
    ASSUME IInv, NEW w \in Workers, StrikeRecord(w)
    PROVE  IInv'
<1>1. /\ job[w].pc = "strike"
      /\ UNCHANGED <<page, rule, scans, status, exempt, task, durable, sent, claimed,
                     restoration, adding>>
  BY DEF StrikeRecord, At
<1> DEFINE s == job[w].at
<1>2. /\ TypeOK /\ job[w] \in JobType /\ JobFine(job[w]) /\ s \in Subs /\ Acts(job[w], s)
      /\ job[w].cut = {} /\ job[w].held \subseteq RecsOf(s) /\ job[w].todo = {}
  BY <1>1, ActingFine
<1>4. ASSUME NEW x \in job[w].held, NEW j \in JobType, JobFine(j), Set(w, j),
             j.pc \in {"strike", "finish"}, j.task = job[w].task, j.sub = job[w].sub,
             j.recheck = job[w].recheck, j.at \in {s, Nothing}, j.todo = {}, j.cut = {},
             live' \in [Recs -> {"none", "known", "stray"}],
             row' \in [Recs -> {"none", "active", "suspended"}],
             \A r \in Recs \ {x} : live'[r] = live[r] /\ row'[r] = row[r],
             ghost' \in [crossed : SUBSET Subs, orphaned : SUBSET Subs, hurried : SUBSET Subs,
                         torn : SUBSET Recs, late : SUBSET Recs, unnamed : SUBSET Recs],
             ghost'.crossed = ghost.crossed, ghost'.late = ghost.late,
             ghost'.hurried = ghost.hurried, ghost'.orphaned = ghost.orphaned,
             ghost.torn \subseteq ghost'.torn, ghost.unnamed \subseteq ghost'.unnamed,
             ghost'.torn \subseteq ghost.torn \cup {x},
             ghost'.unnamed \subseteq ghost.unnamed \cup {x},
             \/ live'[x] = "none" /\ row'[x] = "none"
             \/ /\ row'[x] = row[x]
                /\ \/ live'[x] = live[x]
                   \/ live'[x] = "none" /\ x \in ghost'.torn
                   \/ live'[x] = "known" /\ row[x] = "active" /\ status[SubOf[x]] = "active"
                   \/ live'[x] # "none" /\ x \in ghost'.unnamed,
             events' \in 0..MaxEvents
      PROVE  IInv'
  <2>1. x \in RecsOf(s) /\ x \in Recs
    BY <1>2 DEF RecsOf
  <2>5. job' \in [Workers -> JobType] /\ JobsOK' /\ RechecksOK' /\ VerdictsOK'
    BY <1>1, <1>4, OthersKept
  <2>7. TypeOK'
    <3>1. \A r \in Recs : row'[r] # "none" => status'[SubOf[r]] # "gone"
      BY <1>1, <1>2, <1>4 DEF TypeOK
    <3> QED
      BY <1>1, <1>2, <1>4, <2>5, <3>1 DEF TypeOK, scans
  <2>8. WorldOK'
    <3>1. \A t \in Subs : Acts(j, t) => Acts(job[w], t)
      BY <1>1, <1>2, <1>4, ConstantsAssumption DEF Acts
    <3>2. job'[w] = j /\ \A v \in Workers \ {w} : job'[v] = job[v]
      BY <1>2, <1>4, JobSet
    <3>3. ASSUME s \notin ghost.crossed, NEW r \in RecsOf(s)
          PROVE  (RowFits(r) /\ CopyHasRow(r) /\ ServedOrCut(r) /\ GoneOrMade(r) /\ ToBeCut(r))'
      <4>1. /\ r \in Recs /\ SubOf[r] = s
            /\ RowFits(r) /\ CopyHasRow(r) /\ ServedOrCut(r) /\ GoneOrMade(r) /\ ToBeCut(r)
        BY <3>3 DEF RecsOf, IInv, WorldOK, RecOK
      <4>2. \A v \in Workers : InCut(job'[v], r) <=> InCut(job[v], r)
        BY <1>1, <1>2, <1>4, <3>2 DEF InCut
      <4>3. \/ live'[r] = "none" /\ row'[r] = "none"
            \/ /\ row'[r] = row[r]
               /\ \/ live'[r] = live[r]
                  \/ live'[r] = "none" /\ r \in ghost'.torn
                  \/ live'[r] = "known" /\ row[r] = "active" /\ status[s] = "active"
                  \/ live'[r] # "none" /\ r \in ghost'.unnamed
        BY <1>4, <4>1
      <4>4. (RowFits(r) /\ CopyHasRow(r))'
        BY <1>1, <1>4, <4>1, <4>3 DEF RowFits, CopyHasRow
      <4>5. GoneOrMade(r)'
        BY <1>1, <1>4, <4>1, <4>3 DEF GoneOrMade
      <4>6. ServedOrCut(r)'
        BY <1>1, <1>4, <4>1, <4>2, <4>3 DEF ServedOrCut
      <4>7. ToBeCut(r)'
        <5>1. \A v \in Workers : ~(Acts(job'[v], s) /\ job'[v].pc # "strike")
          BY <1>2, <1>4, <3>2, <3>3, Alone DEF Acts
        <5> QED
          BY <4>1, <5>1 DEF ToBeCut
      <4> QED
        BY <4>4, <4>5, <4>6, <4>7
    <3>4. /\ \A r \in Recs \ RecsOf(s) : live'[r] = live[r] /\ row'[r] = row[r]
          /\ \A r \in RecsOf(s) :
                live'[r] = "stray" => live[r] = "stray" \/ r \in ghost'.unnamed
          /\ \A r \in RecsOf(s) : row[r] = "none" => row'[r] = "none"
      <4> SUFFICES ASSUME NEW r \in Recs
                   PROVE  /\ r \notin RecsOf(s) => live'[r] = live[r] /\ row'[r] = row[r]
                          /\ live'[r] = "stray" => live[r] = "stray" \/ r \in ghost'.unnamed
                          /\ row[r] = "none" => row'[r] = "none"
        BY DEF RecsOf
      <4> QED
        BY <1>4, <2>1
    <3> QED
      BY <1>1, <1>2, <1>4, <3>1, <3>3, <3>4, WorldStepBy
  <2> QED
    BY <2>5, <2>7, <2>8 DEF IInv
<1>5. ASSUME NEW x \in job[w].held, NEW act \in {job[w].act, "spoilt"}
      PROVE  LET j == [job[w] EXCEPT !.held = @ \ {x}, !.act = act] IN
             /\ j \in JobType /\ JobFine(j) /\ j.pc = "strike" /\ j.task = job[w].task
             /\ j.sub = job[w].sub /\ j.recheck = job[w].recheck /\ j.at = s
             /\ j.todo = {} /\ j.cut = {}
  <2> DEFINE j == [job[w] EXCEPT !.held = @ \ {x}, !.act = act]
  <2>1. /\ j \in JobType /\ j.pc = "strike" /\ j.task = job[w].task /\ j.sub = job[w].sub
        /\ j.recheck = job[w].recheck /\ j.at = s /\ j.todo = {}
        /\ j.held = job[w].held \ {x} /\ j.cut = {}
    BY <1>1, <1>2 DEF JobType
  <2> HIDE DEF j
  <2>2. JobFine(j)
    BY <1>1, <1>2, <2>1 DEF JobFine
  <2> QED
    BY <2>1, <2>2 DEF j
<1>6. /\ Ended(w) \in JobType /\ JobFine(Ended(w)) /\ Ended(w).pc = "finish"
      /\ Ended(w).task = job[w].task /\ Ended(w).sub = job[w].sub
      /\ Ended(w).recheck = job[w].recheck
      /\ Ended(w).at = Nothing /\ Ended(w).todo = {} /\ Ended(w).cut = {}
  <2>1. /\ Ended(w) \in JobType /\ JobFine(Ended(w)) /\ Ended(w).pc = "finish"
        /\ Ended(w).task = job[w].task /\ Ended(w).sub = job[w].sub
        /\ Ended(w).recheck = job[w].recheck
    BY <1>1, <1>2, EndedFine
  <2> QED
    BY <2>1 DEF JobFine
<1>7. ASSUME NEW x \in job[w].held, Struck(x), Set(w, [job[w] EXCEPT !.held = @ \ {x}]),
             UNCHANGED <<ghost, events>>
      PROVE  IInv'
  <2> DEFINE j == [job[w] EXCEPT !.held = @ \ {x}, !.act = job[w].act]
  <2>1. [job[w] EXCEPT !.held = @ \ {x}] = j
    BY <1>2 DEF JobType
  <2>2. /\ j \in JobType /\ JobFine(j) /\ j.pc = "strike" /\ j.task = job[w].task
        /\ j.sub = job[w].sub /\ j.recheck = job[w].recheck /\ j.at = s
        /\ j.todo = {} /\ j.cut = {}
    BY <1>5
  <2>3. Set(w, j)
    BY <1>7, <2>1
  <2> HIDE DEF j
  <2>4. /\ live' \in [Recs -> {"none", "known", "stray"}]
        /\ row' \in [Recs -> {"none", "active", "suspended"}]
        /\ \A r \in Recs \ {x} : live'[r] = live[r] /\ row'[r] = row[r]
        /\ live'[x] = "none" /\ row'[x] = "none"
    BY <1>2, <1>7 DEF TypeOK, Struck, RecsOf
  <2> QED
    BY <1>2, <1>4, <1>7, <2>2, <2>3, <2>4 DEF TypeOK
<1>8. ASSUME NEW x \in job[w].held, NotStruck(x, ghost), NEW j \in JobType, JobFine(j),
             Set(w, j), j.pc \in {"strike", "finish"}, j.task = job[w].task,
             j.sub = job[w].sub, j.recheck = job[w].recheck, j.at \in {s, Nothing},
             j.todo = {}, j.cut = {}
      PROVE  IInv'
  <2>1. x \in Recs
    BY <1>2 DEF RecsOf
  <2>2. ghost \in [crossed : SUBSET Subs, orphaned : SUBSET Subs, hurried : SUBSET Subs,
                   torn : SUBSET Recs, late : SUBSET Recs, unnamed : SUBSET Recs]
    BY <1>2 DEF TypeOK
  <2>3. /\ row' = row /\ live' \in [Recs -> {"none", "known", "stray"}]
        /\ \A r \in Recs \ {x} : live'[r] = live[r]
        /\ ghost' \in [crossed : SUBSET Subs, orphaned : SUBSET Subs, hurried : SUBSET Subs,
                       torn : SUBSET Recs, late : SUBSET Recs, unnamed : SUBSET Recs]
        /\ ghost'.crossed = ghost.crossed /\ ghost'.late = ghost.late
        /\ ghost'.hurried = ghost.hurried /\ ghost'.orphaned = ghost.orphaned
        /\ ghost'.torn \in {ghost.torn, ghost.torn \cup {x}}
        /\ ghost'.unnamed \in {ghost.unnamed, ghost.unnamed \cup {x}}
        /\ \/ live'[x] = live[x]
           \/ live'[x] = "none" /\ x \in ghost'.torn
           \/ live'[x] = "known" /\ row[x] = "active" /\ status[SubOf[x]] = "active"
           \/ live'[x] # "none" /\ x \in ghost'.unnamed
        /\ events' \in 0..MaxEvents
    BY <1>2, <1>8, <2>1, <2>2, NotStruckFine
  <2>4. row' \in [Recs -> {"none", "active", "suspended"}]
    BY <1>2, <2>3 DEF TypeOK
  <2> QED
    BY <1>4, <1>8, <2>3, <2>4
<1>9. PICK x \in job[w].held :
         \/ /\ Struck(x)
            /\ Set(w, [job[w] EXCEPT !.held = @ \ {x}])
            /\ UNCHANGED <<ghost, events>>
         \/ /\ NotStruck(x, ghost)
            /\ \/ Set(w, Ended(w))
               \/ Set(w, [job[w] EXCEPT !.held = @ \ {x}, !.act = "spoilt"])
  BY DEF StrikeRecord
<1>10. CASE NotStruck(x, ghost) /\ Set(w, [job[w] EXCEPT !.held = @ \ {x}, !.act = "spoilt"])
  <2> DEFINE j == [job[w] EXCEPT !.held = @ \ {x}, !.act = "spoilt"]
  <2>1. /\ j \in JobType /\ JobFine(j) /\ j.pc = "strike" /\ j.task = job[w].task
        /\ j.sub = job[w].sub /\ j.recheck = job[w].recheck /\ j.at = s
        /\ j.todo = {} /\ j.cut = {}
    BY <1>5
  <2>2. Set(w, j)
    BY <1>10
  <2> HIDE DEF j
  <2> QED
    BY <1>8, <1>10, <2>1, <2>2
<1>11. CASE NotStruck(x, ghost) /\ Set(w, Ended(w))
  BY <1>6, <1>8, <1>11
<1> QED
  BY <1>7, <1>9, <1>10, <1>11

LEMMA ReleaseStep ==
    ASSUME IInv, NEW w \in Workers, Release(w)
    PROVE  IInv'
<1> DEFINE s == job[w].sub
<1>1. /\ job[w].pc = "strike" /\ Set(w, Ended(w))
      /\ UNCHANGED <<page, rule, scans, live, exempt, task, durable, sent, claimed,
                     restoration, adding, ghost>>
  BY DEF Release, At
<1>2. /\ TypeOK /\ job[w] \in JobType /\ JobFine(job[w]) /\ s \in Subs /\ Acts(job[w], s)
      /\ job[w].cut = {} /\ job[w].at = s
  BY <1>1, ActingFine
<1>3. CASE UNCHANGED <<row, status>> /\ (events' = events \/ Fault)
  BY <1>1, <1>2, <1>3, EndStep DEF world
<1>4. CASE /\ row' = [r \in Recs |-> IF r \in RecsOf(s) THEN "none" ELSE row[r]]
           /\ status' = [status EXCEPT ![s] = "gone"]
           /\ UNCHANGED events
  <2> DEFINE j == Ended(w)
  <2>1. /\ j \in JobType /\ JobFine(j) /\ j.pc = "finish" /\ j.task = job[w].task
        /\ j.sub = job[w].sub /\ j.recheck = job[w].recheck
    BY <1>1, EndedFine
  <2> HIDE DEF j
  <2>2. Set(w, j)
    BY <1>1 DEF j
  <2>3. job' \in [Workers -> JobType] /\ JobsOK' /\ RechecksOK' /\ VerdictsOK'
    BY <1>1, <2>1, <2>2, OthersKept
  <2>4. /\ row' \in [Recs -> {"none", "active", "suspended"}]
        /\ status' \in [Subs -> {"active", "suspended", "gone"}]
        /\ status'[s] = "gone"
        /\ \A t \in Subs \ {s} : status'[t] = status[t]
        /\ \A r \in RecsOf(s) : row'[r] = "none"
        /\ \A r \in Recs \ RecsOf(s) : row'[r] = row[r]
    BY <1>2, <1>4 DEF TypeOK, RecsOf
  <2>5. TypeOK'
    <3>1. ASSUME NEW r \in Recs, row'[r] # "none" PROVE status'[SubOf[r]] # "gone"
      <4>1. r \notin RecsOf(s) /\ row[r] # "none" /\ SubOf[r] \in Subs \ {s}
        BY <2>4, <3>1, ConstantsAssumption DEF RecsOf
      <4> QED
        BY <1>2, <2>4, <4>1 DEF TypeOK
    <3> QED
      BY <1>1, <1>2, <1>4, <2>3, <2>4, <3>1 DEF TypeOK, scans
  <2>6. WorldOK'
    <3>1. j.at = Nothing /\ \A t \in Subs : ~Acts(j, t)
      BY <2>1 DEF Acts, JobFine
    <3>2. job'[w] = j /\ \A v \in Workers \ {w} : job'[v] = job[v]
      BY <1>2, <2>1, <2>2, JobSet
    <3>3. ASSUME s \notin ghost.crossed, NEW r \in RecsOf(s)
          PROVE  (RowFits(r) /\ CopyHasRow(r) /\ ServedOrCut(r) /\ GoneOrMade(r) /\ ToBeCut(r))'
      <4>1. r \in Recs /\ SubOf[r] = s /\ row'[r] = "none" /\ status'[SubOf[r]] = "gone"
        BY <2>4 DEF RecsOf
      <4>2. (RowFits(r) /\ CopyHasRow(r) /\ ServedOrCut(r) /\ GoneOrMade(r))'
        BY <4>1 DEF RowFits, CopyHasRow, ServedOrCut, GoneOrMade
      <4>3. ToBeCut(r)'
        <5>1. \A v \in Workers : ~Acts(job'[v], s)
          BY <1>2, <3>1, <3>2, <3>3, Alone
        <5> QED
          BY <4>1, <5>1 DEF ToBeCut
      <4> QED
        BY <4>2, <4>3
    <3> QED
      BY <1>1, <1>2, <2>1, <2>2, <2>4, <3>1, <3>3, WorldStepBy
  <2> QED
    BY <2>3, <2>5, <2>6 DEF IInv
<1> QED
  BY <1>3, <1>4 DEF Release

-----------------------------------------------------------------------------
\* The admin restores a subdomain.

LEMMA QueueAlone ==
    ASSUME IInv, UNCHANGED <<rule, scans, exempt, actors>>,
           ghost'.hurried = ghost.hurried, ghost'.orphaned = ghost.orphaned
    PROVE  JobsOK' /\ RechecksOK' /\ VerdictsOK'
<1>1. JobsOK'
  BY DEF IInv, JobsOK, MessageOK, actors
<1> QED
  BY <1>1, RechecksKept, VerdictsKept DEF actors

\* A step of the admin at its subdomain s changes nothing of other subdomains, and has
\* to be right for s unless two actors are there.
LEMMA WorldStepByAdmin ==
    ASSUME IInv, NEW s \in Subs, restoration.sub = s, UNCHANGED <<job, adding>>,
           restoration'.sub \in {s, Nothing}, restoration'.made \subseteq RecsOf(s),
           ghost'.crossed = ghost.crossed, ghost'.late = ghost.late, ghost'.torn = ghost.torn,
           \A t \in Subs \ {s} : status'[t] = status[t],
           \A r \in Recs \ RecsOf(s) :
              /\ row'[r] = row[r] /\ live'[r] = live[r]
              /\ r \in ghost'.unnamed <=> r \in ghost.unnamed,
           RestorationOK',
           \A r \in RecsOf(s) : (row[r] = "none" => row'[r] = "none") /\ StrayKnown(r)',
           s \notin ghost.crossed =>
               \A r \in RecsOf(s) :
                  (RowFits(r) /\ CopyHasRow(r) /\ ServedOrCut(r) /\ GoneOrMade(r))'
    PROVE  WorldOK'
<1> USE DEF IInv, WorldOK
<1>1. OneActor'
  BY ConstantsAssumption DEF OneActor
<1>2. ASSUME NEW r \in RecsOf(s) PROVE RecOK(r)'
  <2>1. r \in Recs /\ SubOf[r] = s
    BY DEF RecsOf
  <2>2. AddingOK(r)' /\ StrayKnown(r)'
    BY <2>1 DEF RecOK, AddingOK
  <2>3. s \notin ghost.crossed => ToBeCut(r)'
    BY <2>1 DEF OneActor, ToBeCut
  <2> QED
    BY <2>1, <2>2, <2>3 DEF RecOK
<1>3. ASSUME NEW r \in Recs \ RecsOf(s) PROVE RecOK(r)'
  <2>1. SubOf[r] \in Subs \ {s} /\ row'[r] = row[r] /\ live'[r] = live[r]
    BY ConstantsAssumption DEF RecsOf
  <2>2. r \notin restoration.made /\ r \notin restoration'.made
    BY DEF RestorationOK
  <2>3. AddingOK(r)' /\ StrayKnown(r)'
    BY <2>1, <2>2 DEF RecOK, AddingOK, StrayKnown
  <2>4. ASSUME SubOf[r] \notin ghost.crossed
        PROVE  (RowFits(r) /\ CopyHasRow(r) /\ ServedOrCut(r) /\ GoneOrMade(r) /\ ToBeCut(r))'
    <3>1. RowFits(r) /\ CopyHasRow(r) /\ ServedOrCut(r) /\ GoneOrMade(r) /\ ToBeCut(r)
      BY <2>4 DEF RecOK
    <3>2. \A v \in Workers : InCut(job[v], r)' <=> InCut(job[v], r)
      BY DEF InCut
    <3>3. (RowFits(r) /\ CopyHasRow(r) /\ ServedOrCut(r) /\ GoneOrMade(r))'
      BY <2>1, <2>2, <3>1, <3>2 DEF RowFits, CopyHasRow, ServedOrCut, GoneOrMade
    <3>4. ToBeCut(r)'
      BY <2>1, <3>1, <3>2 DEF ToBeCut
    <3> QED
      BY <3>3, <3>4
  <2> QED
    BY <2>3, <2>4 DEF RecOK
<1> QED
  BY <1>1, <1>2, <1>3

LEMMA RestorationTyped ==
    ASSUME IInv
    PROVE  /\ TypeOK
           /\ NoRestoration \in [sub : Subs \cup {Nothing}, todo : SUBSET Recs,
                                 made : SUBSET Recs]
           /\ NoRestoration.sub = Nothing /\ NoRestoration.todo = {} /\ NoRestoration.made = {}
           /\ \A s \in Subs : \A r \in RecsOf(s) : r \in Recs /\ SubOf[r] = s
           /\ \A r \in Recs : SubOf[r] \in Subs /\ r \in RecsOf(SubOf[r])
           /\ restoration.todo # {} => restoration.sub \in Subs
           /\ restoration.made \subseteq RecsOf(restoration.sub)
           /\ restoration.todo \subseteq RecsOf(restoration.sub)
<1>1. /\ NoRestoration \in [sub : Subs \cup {Nothing}, todo : SUBSET Recs, made : SUBSET Recs]
      /\ NoRestoration.sub = Nothing /\ NoRestoration.todo = {} /\ NoRestoration.made = {}
  BY DEF NoRestoration
<1>2. /\ restoration.made \subseteq RecsOf(restoration.sub)
      /\ restoration.todo \subseteq RecsOf(restoration.sub)
  BY DEF IInv, WorldOK, RestorationOK
<1>3. \A r \in Recs : SubOf[r] \in Subs
  BY ConstantsAssumption
<1> QED
  BY <1>1, <1>2, <1>3 DEF IInv, RecsOf

LEMMA StartRestoreStep ==
    ASSUME IInv, NEW s \in Subs, StartRestore(s)
    PROVE  IInv'
<1> DEFINE todo == {r \in RecsOf(s) : row[r] = "suspended"}
<1>1. /\ restoration = NoRestoration /\ status[s] = "suspended"
      /\ restoration' = [sub |-> s, made |-> {}, todo |-> todo]
      /\ ghost' = Crossing({s})
      /\ UNCHANGED <<page, rule, scans, world, exempt, actors, adding, events>>
  BY DEF StartRestore
<1>2. /\ TypeOK /\ restoration.sub = Nothing /\ restoration.made = {}
      /\ restoration'.sub = s /\ restoration'.made = {} /\ restoration'.todo = todo
      /\ todo \subseteq RecsOf(s) /\ todo \subseteq Recs
  BY <1>1, RestorationTyped DEF RecsOf
<1>3. /\ ghost' \in [crossed : SUBSET Subs, orphaned : SUBSET Subs, hurried : SUBSET Subs,
                     torn : SUBSET Recs, late : SUBSET Recs, unnamed : SUBSET Recs]
      /\ ghost'.crossed = ghost.crossed \cup (IF Busy(s) THEN {s} ELSE {})
      /\ ghost'.torn = ghost.torn /\ ghost'.late = ghost.late /\ ghost'.unnamed = ghost.unnamed
      /\ ghost'.hurried = ghost.hurried /\ ghost'.orphaned = ghost.orphaned
  <2> DEFINE X == {t \in {s} : Busy(t)}
  <2>1. ghost' = [ghost EXCEPT !.crossed = @ \cup X]
    BY <1>1 DEF Crossing
  <2>2. X = (IF Busy(s) THEN {s} ELSE {}) /\ X \in SUBSET Subs
    OBVIOUS
  <2> HIDE DEF X
  <2> QED
    BY <1>2, <2>1, <2>2 DEF TypeOK
<1>4. TypeOK'
  <2>1. restoration' \in [sub : Subs \cup {Nothing}, todo : SUBSET Recs, made : SUBSET Recs]
    BY <1>1, <1>2
  <2> HIDE DEF todo
  <2> QED
    BY <1>1, <1>2, <1>3, <2>1 DEF TypeOK, scans, world, actors
<1>5. JobsOK' /\ RechecksOK' /\ VerdictsOK'
  BY <1>1, <1>3, QueueAlone
<1>6. WorldOK'
  <2>1. OneActor'
    <3>1. s \notin ghost'.crossed => \A w \in Workers : ~Acts(job[w], s)
      BY <1>3 DEF Busy, ActedOnBy, Acts
    <3>2. /\ job' = job /\ restoration.sub = Nothing /\ restoration'.sub = s
          /\ Subs \ ghost'.crossed \subseteq Subs \ ghost.crossed
      BY <1>1, <1>2, <1>3 DEF actors
    <3>3. OneActor
      BY DEF IInv, WorldOK
    <3>4. ASSUME NEW t \in Subs \ ghost'.crossed
          PROVE  /\ \A v, w \in Workers : Acts(job[v], t) /\ Acts(job[w], t) => v = w
                 /\ s = t => \A w \in Workers : ~Acts(job[w], t)
      BY <3>1, <3>2, <3>3 DEF OneActor
    <3> QED
      BY <3>2, <3>4 DEF OneActor
  <2>2. RestorationOK'
    BY <1>1, <1>2 DEF RestorationOK, RecsOf, world
  <2>3. ASSUME NEW r \in Recs PROVE RecOK(r)'
    <3>1. RecOK(r)
      BY DEF IInv, WorldOK
    <3>2. \A v \in Workers : InCut(job[v], r)' <=> InCut(job[v], r)
      BY <1>1 DEF InCut, actors
    <3>3. AddingOK(r)' /\ StrayKnown(r)'
      BY <1>1, <1>2, <1>3, <3>1 DEF RecOK, AddingOK, StrayKnown, world
    <3>4. ASSUME SubOf[r] \notin ghost'.crossed
          PROVE  (RowFits(r) /\ CopyHasRow(r) /\ ServedOrCut(r) /\ GoneOrMade(r) /\ ToBeCut(r))'
      <4>1. RowFits(r) /\ CopyHasRow(r) /\ ServedOrCut(r) /\ GoneOrMade(r) /\ ToBeCut(r)
        BY <1>3, <3>1, <3>4 DEF RecOK
      <4>2. (RowFits(r) /\ CopyHasRow(r) /\ ServedOrCut(r) /\ GoneOrMade(r))'
        BY <1>1, <1>2, <1>3, <3>2, <4>1
           DEF RowFits, CopyHasRow, ServedOrCut, GoneOrMade, world, actors
      <4>3. ToBeCut(r)'
        BY <1>1, <1>3, <3>2, <4>1 DEF ToBeCut, world, actors
      <4> QED
        BY <4>2, <4>3
    <3> QED
      BY <3>3, <3>4 DEF RecOK
  <2> QED
    BY <2>1, <2>2, <2>3 DEF WorldOK
<1> QED
  BY <1>4, <1>5, <1>6 DEF IInv

\* The copies that were made are deleted, or stay under ids nobody stored.
LEMMA RevertStep ==
    ASSUME IInv, restoration.sub \in Subs, NEW lost \in SUBSET RecsOf(restoration.sub),
           Revert(lost), events' = events \/ Fault,
           UNCHANGED <<page, rule, scans, status, row, exempt, actors, adding>>
    PROVE  IInv'
<1> DEFINE s == restoration.sub
<1>1. PICK kept \in {{}, restoration.made} :
        /\ live' = [r \in Recs |-> IF r \in restoration.made \ kept THEN "none"
                                   ELSE IF r \in lost /\ live[r] = "none" THEN "stray"
                                   ELSE live[r]]
        /\ ghost' = [ghost EXCEPT !.unnamed = @ \cup kept \cup lost]
  BY DEF Revert
<1>2. /\ TypeOK /\ restoration' = NoRestoration
      /\ restoration'.sub = Nothing /\ restoration'.made = {} /\ restoration'.todo = {}
      /\ restoration' \in [sub : Subs \cup {Nothing}, todo : SUBSET Recs, made : SUBSET Recs]
      /\ restoration.made \subseteq RecsOf(s) /\ restoration.made \subseteq Recs
      /\ kept \subseteq restoration.made /\ lost \subseteq Recs
  BY RestorationTyped DEF Revert, RecsOf
<1>3. /\ ghost' \in [crossed : SUBSET Subs, orphaned : SUBSET Subs, hurried : SUBSET Subs,
                     torn : SUBSET Recs, late : SUBSET Recs, unnamed : SUBSET Recs]
      /\ ghost'.crossed = ghost.crossed
      /\ ghost'.torn = ghost.torn /\ ghost'.late = ghost.late
      /\ ghost'.unnamed = ghost.unnamed \cup kept \cup lost
      /\ ghost'.hurried = ghost.hurried /\ ghost'.orphaned = ghost.orphaned
      /\ events' \in 0..MaxEvents
  BY SMTT(30), <1>1, <1>2, ConstantsAssumption DEF TypeOK, Fault, Event
<1>4. /\ live' \in [Recs -> {"none", "known", "stray"}]
      /\ \A r \in Recs : live'[r] = IF r \in restoration.made \ kept THEN "none"
                                   ELSE IF r \in lost /\ live[r] = "none" THEN "stray"
                                   ELSE live[r]
  BY <1>1, <1>2 DEF TypeOK
<1>5. TypeOK'
  BY <1>2, <1>3, <1>4 DEF TypeOK, scans, actors
<1>6. JobsOK' /\ RechecksOK' /\ VerdictsOK'
  BY <1>3, QueueAlone
<1>7. WorldOK'
  <2>1. RestorationOK'
    BY <1>2, ConstantsAssumption DEF RestorationOK
  <2>2. ASSUME NEW r \in RecsOf(s) PROVE (row[r] = "none" => row'[r] = "none") /\ StrayKnown(r)'
    <3>1. r \in Recs /\ StrayKnown(r)
      BY RestorationTyped DEF IInv, WorldOK, RecOK
    <3> QED
      BY <1>2, <1>3, <1>4, <3>1 DEF StrayKnown
  <2>3. ASSUME s \notin ghost.crossed, NEW r \in RecsOf(s)
        PROVE  (RowFits(r) /\ CopyHasRow(r) /\ ServedOrCut(r) /\ GoneOrMade(r))'
    <3>1. /\ r \in Recs /\ SubOf[r] = s
          /\ RowFits(r) /\ CopyHasRow(r) /\ ServedOrCut(r) /\ GoneOrMade(r)
      BY <2>3, RestorationTyped DEF IInv, WorldOK, RecOK
    <3>2. row[r] = "active" => r \notin restoration.made
      BY <2>3, <3>1 DEF IInv, WorldOK, RestorationOK
    <3>3. \A v \in Workers : InCut(job[v], r)' <=> InCut(job[v], r)
      BY DEF InCut, actors
    <3>4. (RowFits(r) /\ CopyHasRow(r) /\ ServedOrCut(r))'
      BY <1>3, <1>4, <3>1, <3>2, <3>3 DEF RowFits, CopyHasRow, ServedOrCut, actors
    <3>5. GoneOrMade(r)'
      BY <1>3, <1>4, <3>1 DEF GoneOrMade
    <3> QED
      BY <3>4, <3>5
  <2>4. \A r \in Recs \ RecsOf(s) : /\ row'[r] = row[r] /\ live'[r] = live[r]
                                    /\ r \in ghost'.unnamed <=> r \in ghost.unnamed
    BY <1>2, <1>3, <1>4
  <2>5. /\ UNCHANGED <<job, adding>> /\ restoration'.sub \in {s, Nothing}
        /\ restoration'.made \subseteq RecsOf(s)
        /\ \A t \in Subs \ {s} : status'[t] = status[t]
    BY <1>2 DEF actors
  <2> QED
    BY <1>3, <2>1, <2>2, <2>3, <2>4, <2>5, WorldStepByAdmin
<1> QED
  BY <1>5, <1>6, <1>7 DEF IInv

LEMMA RestoreRecordStep == IInv /\ RestoreRecord => IInv'
<1> SUFFICES ASSUME IInv, RestoreRecord PROVE IInv'
  OBVIOUS
<1> DEFINE s == restoration.sub
<1>1. UNCHANGED <<page, rule, scans, status, row, exempt, actors, adding>>
  BY DEF RestoreRecord
<1>2. /\ TypeOK /\ s \in Subs
      /\ restoration.made \subseteq RecsOf(s) /\ restoration.todo \subseteq RecsOf(s)
  BY RestorationTyped DEF RestoreRecord
<1>3. ASSUME NEW lost \in SUBSET RecsOf(s), Revert(lost), events' = events \/ Fault
      PROVE  IInv'
  BY <1>1, <1>2, <1>3, RevertStep
<1>4. ASSUME NEW x \in restoration.todo,
             live' = [live EXCEPT ![x] = IF @ = "none" THEN "stray" ELSE @],
             restoration' = [restoration EXCEPT !.todo = @ \ {x}, !.made = @ \cup {x}],
             UNCHANGED <<ghost, events>>
      PROVE  IInv'
  <2>1. x \in RecsOf(s) /\ x \in Recs
    BY <1>2, RestorationTyped
  <2>2. /\ restoration'.sub = s /\ restoration'.todo = restoration.todo \ {x}
        /\ restoration'.made = restoration.made \cup {x}
        /\ restoration' \in [sub : Subs \cup {Nothing}, todo : SUBSET Recs, made : SUBSET Recs]
    <3>1. restoration \in [sub : Subs \cup {Nothing}, todo : SUBSET Recs, made : SUBSET Recs]
      BY <1>2 DEF TypeOK
    <3> QED
      BY <1>4, <2>1, <3>1
  <2>3. /\ live' \in [Recs -> {"none", "known", "stray"}]
        /\ live'[x] # "none" /\ \A r \in Recs \ {x} : live'[r] = live[r]
    BY <1>2, <1>4, <2>1 DEF TypeOK
  <2>4. TypeOK'
    BY <1>1, <1>2, <1>4, <2>2, <2>3 DEF TypeOK, scans, actors
  <2>5. JobsOK' /\ RechecksOK' /\ VerdictsOK'
    BY <1>1, <1>4, QueueAlone
  <2>6. RestorationOK'
    <3>1. restoration'.todo \cup restoration'.made = restoration.todo \cup restoration.made
      BY <2>2
    <3>2. \A r \in restoration.made : r \in Recs
      BY <1>2, RestorationTyped
    <3> QED
      BY <1>1, <1>2, <1>4, <2>2, <2>3, <3>1, <3>2 DEF IInv, WorldOK, RestorationOK, RecsOf
  <2>7. WorldOK'
    <3>1. ASSUME NEW r \in RecsOf(s) PROVE StrayKnown(r)'
      <4>1. r \in Recs /\ StrayKnown(r)
        BY <1>2, RestorationTyped DEF IInv, WorldOK, RecOK
      <4> QED
        BY <1>4, <2>2, <2>3, <4>1 DEF StrayKnown
    <3>2. ASSUME s \notin ghost.crossed, NEW r \in RecsOf(s)
          PROVE  (RowFits(r) /\ CopyHasRow(r) /\ ServedOrCut(r) /\ GoneOrMade(r))'
      <4>1. /\ r \in Recs /\ SubOf[r] = s
            /\ RowFits(r) /\ CopyHasRow(r) /\ ServedOrCut(r) /\ GoneOrMade(r)
        BY <1>2, <3>2, RestorationTyped DEF IInv, WorldOK, RecOK
      <4>2. r = x => row[r] = "suspended" /\ status[s] = "suspended"
        BY <1>2, <3>2, <4>1 DEF IInv, WorldOK, RestorationOK
      <4>3. \A v \in Workers : InCut(job[v], r)' <=> InCut(job[v], r)
        BY <1>1 DEF InCut, actors
      <4> QED
        BY <1>1, <1>4, <2>2, <2>3, <4>1, <4>2, <4>3
           DEF RowFits, CopyHasRow, ServedOrCut, GoneOrMade, actors
    <3>3. \A r \in Recs \ RecsOf(s) : /\ row'[r] = row[r] /\ live'[r] = live[r]
                                      /\ r \in ghost'.unnamed <=> r \in ghost.unnamed
      BY <1>1, <1>4, <2>1, <2>3
    <3>4. restoration'.made \subseteq RecsOf(s)
      BY <1>2, <2>1, <2>2
    <3> QED
      BY <1>1, <1>2, <1>4, <2>2, <2>6, <3>1, <3>2, <3>3, <3>4, WorldStepByAdmin DEF actors
  <2> QED
    BY <2>4, <2>5, <2>7 DEF IInv
<1>5. PICK x \in restoration.todo :
         \/ /\ live' = [live EXCEPT ![x] = IF @ = "none" THEN "stray" ELSE @]
            /\ restoration' = [restoration EXCEPT !.todo = @ \ {x}, !.made = @ \cup {x}]
            /\ UNCHANGED <<ghost, events>>
         \/ live[x] # "none" /\ Revert({}) /\ UNCHANGED events
         \/ Fault /\ \E lost \in {{}, {x}} : Revert(lost)
  BY DEF RestoreRecord
<1>6. \A lost \in {{}, {x}} : lost \in SUBSET RecsOf(s)
  BY <1>2
<1> QED
  BY <1>3, <1>4, <1>5, <1>6

\* Every suspended record was created again before the transaction says active.
LEMMA RestoreStep == IInv /\ Restore => IInv'
<1> SUFFICES ASSUME IInv, Restore PROVE IInv'
  OBVIOUS
<1> DEFINE s == restoration.sub
<1>1. /\ s # Nothing /\ restoration.todo = {}
      /\ UNCHANGED <<page, rule, scans, exempt, actors, adding>>
  BY DEF Restore
<1>2. /\ TypeOK /\ s \in Subs
      /\ restoration.made \subseteq RecsOf(s) /\ restoration.made \subseteq Recs
  BY <1>1, RestorationTyped DEF TypeOK
<1>3. CASE Fault /\ Revert({}) /\ UNCHANGED <<row, status>>
  BY <1>1, <1>2, <1>3, RevertStep
<1>4. CASE /\ Restored
           /\ status' = [status EXCEPT ![s] = IF @ = "gone" THEN @ ELSE "active"]
           /\ restoration' = NoRestoration
           /\ ghost' = [ghost EXCEPT !.unnamed = @ \ restoration.made]
           /\ UNCHANGED events
  <2>1. /\ restoration'.sub = Nothing /\ restoration'.made = {} /\ restoration'.todo = {}
        /\ restoration' \in [sub : Subs \cup {Nothing}, todo : SUBSET Recs, made : SUBSET Recs]
    BY <1>4, RestorationTyped
  <2>2. /\ row' \in [Recs -> {"none", "active", "suspended"}]
        /\ \A r \in Recs : row'[r] = IF r \in restoration.made /\ row[r] # "none" THEN "active"
                                     ELSE row[r]
        /\ live' \in [Recs -> {"none", "known", "stray"}]
        /\ \A r \in Recs : live'[r] = IF r \in restoration.made /\ live[r] = "stray"
                                      THEN "known" ELSE live[r]
        /\ status' \in [Subs -> {"active", "suspended", "gone"}]
        /\ status'[s] = IF status[s] = "gone" THEN "gone" ELSE "active"
        /\ \A t \in Subs \ {s} : status'[t] = status[t]
    BY <1>2, <1>4 DEF Restored, TypeOK
  <2>3. /\ ghost' \in [crossed : SUBSET Subs, orphaned : SUBSET Subs, hurried : SUBSET Subs,
                       torn : SUBSET Recs, late : SUBSET Recs, unnamed : SUBSET Recs]
        /\ ghost'.crossed = ghost.crossed
        /\ ghost'.torn = ghost.torn /\ ghost'.late = ghost.late
        /\ ghost'.unnamed = ghost.unnamed \ restoration.made
        /\ ghost'.hurried = ghost.hurried /\ ghost'.orphaned = ghost.orphaned
    BY <1>2, <1>4 DEF TypeOK
  <2>4. TypeOK'
    <3>1. ASSUME NEW r \in Recs, row'[r] # "none" PROVE status'[SubOf[r]] # "gone"
      <4>1. row[r] # "none" /\ SubOf[r] \in Subs
        BY <2>2, <3>1, RestorationTyped
      <4> QED
        BY <1>2, <2>2, <4>1 DEF TypeOK
    <3> QED
      BY <1>1, <1>2, <1>4, <2>1, <2>2, <2>3, <3>1 DEF TypeOK, scans, actors
  <2>5. JobsOK' /\ RechecksOK' /\ VerdictsOK'
    BY <1>1, <2>3, QueueAlone
  <2>6. RestorationOK'
    BY <2>1, ConstantsAssumption DEF RestorationOK
  <2>7. WorldOK'
    <3>1. ASSUME NEW r \in RecsOf(s) PROVE (row[r] = "none" => row'[r] = "none") /\ StrayKnown(r)'
      <4>1. r \in Recs /\ StrayKnown(r)
        BY <1>2, RestorationTyped DEF IInv, WorldOK, RecOK
      <4> QED
        BY <2>1, <2>2, <2>3, <4>1 DEF StrayKnown
    <3>2. ASSUME s \notin ghost.crossed, NEW r \in RecsOf(s)
          PROVE  (RowFits(r) /\ CopyHasRow(r) /\ ServedOrCut(r) /\ GoneOrMade(r))'
      <4>1. /\ r \in Recs /\ SubOf[r] = s
            /\ RowFits(r) /\ CopyHasRow(r) /\ ServedOrCut(r) /\ GoneOrMade(r)
        BY <1>2, <3>2, RestorationTyped DEF IInv, WorldOK, RecOK
      <4>2. /\ status[s] = "suspended"
            /\ row[r] = "suspended" <=> r \in restoration.made
            /\ r \in restoration.made => live[r] # "none"
        BY <1>1, <1>2, <3>2, <4>1 DEF IInv, WorldOK, RestorationOK
      <4>3. \A v \in Workers : InCut(job[v], r)' <=> InCut(job[v], r)
        BY <1>1 DEF InCut, actors
      <4>4. status'[s] = "active"
        BY <2>2, <4>2
      <4>5. (RowFits(r) /\ CopyHasRow(r) /\ GoneOrMade(r))'
        BY <2>2, <2>3, <4>1, <4>2, <4>4 DEF RowFits, CopyHasRow, GoneOrMade
      <4>6. ServedOrCut(r)'
        BY <1>1, <2>2, <2>3, <4>1, <4>2, <4>3 DEF ServedOrCut, actors
      <4> QED
        BY <4>5, <4>6
    <3>3. \A r \in Recs \ RecsOf(s) : /\ row'[r] = row[r] /\ live'[r] = live[r]
                                      /\ r \in ghost'.unnamed <=> r \in ghost.unnamed
      BY <1>2, <2>2, <2>3
    <3> QED
      BY <1>1, <1>2, <2>1, <2>2, <2>3, <2>6, <3>1, <3>2, <3>3, WorldStepByAdmin DEF actors
  <2> QED
    BY <2>4, <2>5, <2>7 DEF IInv
<1> QED
  BY <1>3, <1>4 DEF Restore

-----------------------------------------------------------------------------
\* The user's records, and a stop of the server.

\* A step at the one record x, which is not among those the admin restores.
LEMMA WorldStepAt ==
    ASSUME IInv, NEW x \in Recs, UNCHANGED <<status, job, restoration>>,
           ghost.crossed \subseteq ghost'.crossed,
           \A r \in Recs \ {x} :
              /\ row'[r] = row[r] /\ live'[r] = live[r]
              /\ r \in adding' => r \in adding
              /\ r \in ghost'.torn <=> r \in ghost.torn
              /\ r \in ghost'.late <=> r \in ghost.late
              /\ r \in ghost'.unnamed <=> r \in ghost.unnamed,
           restoration.sub = SubOf[x] /\ SubOf[x] \notin ghost'.crossed =>
              row'[x] # "suspended" /\ x \notin restoration.todo \cup restoration.made,
           RecOK(x)'
    PROVE  WorldOK'
<1> USE DEF IInv, WorldOK
<1>1. OneActor'
  BY DEF OneActor
<1>2. RestorationOK'
  <2>1. restoration.todo \cup restoration.made \subseteq RecsOf(restoration.sub)
    BY DEF RestorationOK
  <2>2. ASSUME restoration.sub \in Subs \ ghost'.crossed
        PROVE  /\ status[restoration.sub] = "suspended"
               /\ \A r \in RecsOf(restoration.sub) :
                     row'[r] = "suspended" <=> r \in restoration.todo \cup restoration.made
               /\ \A r \in restoration.made : live'[r] # "none"
    BY <2>1, <2>2 DEF RestorationOK, RecsOf
  <2> QED
    BY <2>1, <2>2 DEF RestorationOK, RecsOf
<1>3. ASSUME NEW r \in Recs \ {x} PROVE RecOK(r)'
  <2>1. RecOK(r)
    OBVIOUS
  <2>2. \A v \in Workers : InCut(job[v], r)' <=> InCut(job[v], r)
    BY DEF InCut
  <2>3. AddingOK(r)' /\ StrayKnown(r)'
    BY <2>1 DEF RecOK, AddingOK, StrayKnown
  <2>4. ASSUME SubOf[r] \notin ghost'.crossed
        PROVE  (RowFits(r) /\ CopyHasRow(r) /\ ServedOrCut(r) /\ GoneOrMade(r) /\ ToBeCut(r))'
    <3>1. RowFits(r) /\ CopyHasRow(r) /\ ServedOrCut(r) /\ GoneOrMade(r) /\ ToBeCut(r)
      BY <2>1, <2>4 DEF RecOK
    <3>2. (RowFits(r) /\ CopyHasRow(r) /\ ServedOrCut(r) /\ GoneOrMade(r))'
      BY <2>2, <3>1 DEF RowFits, CopyHasRow, ServedOrCut, GoneOrMade
    <3>3. ToBeCut(r)'
      BY <2>2, <3>1 DEF ToBeCut
    <3> QED
      BY <3>2, <3>3
  <2> QED
    BY <2>3, <2>4 DEF RecOK
<1> QED
  BY <1>1, <1>2, <1>3

LEMMA AddRecordStep ==
    ASSUME IInv, NEW r \in Recs, AddRecord(r)
    PROVE  IInv'
<1>1. /\ row[r] = "none" /\ adding' = adding \cup {r}
      /\ UNCHANGED <<page, rule, scans, world, exempt, actors, restoration, ghost>>
  BY DEF AddRecord
<1>2. TypeOK /\ RecOK(r)
  BY DEF IInv, WorldOK
<1>3. TypeOK'
  <2>1. events' \in 0..MaxEvents
    BY <1>2, ConstantsAssumption DEF AddRecord, Event, TypeOK
  <2> QED
    BY <1>1, <1>2, <2>1 DEF TypeOK, scans, world, actors
<1>4. JobsOK' /\ RechecksOK' /\ VerdictsOK'
  BY <1>1, QueueAlone
<1>5. WorldOK'
  <2>1. RecOK(r)'
    <3>1. AddingOK(r)' /\ StrayKnown(r)'
      BY <1>1, <1>2 DEF RecOK, AddingOK, StrayKnown, world
    <3>2. ASSUME SubOf[r] \notin ghost.crossed
          PROVE  (RowFits(r) /\ CopyHasRow(r) /\ ServedOrCut(r) /\ GoneOrMade(r) /\ ToBeCut(r))'
      <4>1. RowFits(r) /\ CopyHasRow(r) /\ ServedOrCut(r) /\ GoneOrMade(r) /\ ToBeCut(r)
        BY <1>2, <3>2 DEF RecOK
      <4> QED
        BY <1>1, <4>1
           DEF RowFits, CopyHasRow, ServedOrCut, GoneOrMade, ToBeCut, InCut, Acts, world, actors
    <3> QED
      BY <1>1, <3>1, <3>2 DEF RecOK
  <2>2. restoration.sub = SubOf[r] /\ SubOf[r] \notin ghost.crossed =>
           r \notin restoration.todo \cup restoration.made
    BY <1>1, RestorationTyped DEF IInv, WorldOK, RestorationOK
  <2> QED
    BY <1>1, <2>1, <2>2, WorldStepAt DEF world, actors
<1> QED
  BY <1>3, <1>4, <1>5 DEF IInv

\* A record whose creation ends while the subdomain is acted on or suspended is late.
LEMMA RecordAddedStep ==
    ASSUME IInv, NEW r \in Recs, RecordAdded(r)
    PROVE  IInv'
<1> DEFINE s == SubOf[r]
<1>1. /\ r \in adding /\ adding' = adding \ {r}
      /\ UNCHANGED <<page, rule, scans, status, exempt, actors, restoration, events>>
  BY DEF RecordAdded
<1>2. /\ TypeOK /\ RecOK(r) /\ s \in Subs /\ row[r] = "none"
  BY <1>1, RestorationTyped DEF IInv, WorldOK, RecOK, AddingOK
<1>3. restoration.sub = s /\ s \notin ghost.crossed =>
         r \notin restoration.todo \cup restoration.made
  BY <1>2, RestorationTyped DEF IInv, WorldOK, RestorationOK
<1>4. CASE status[s] = "gone" /\ UNCHANGED <<row, live, ghost>>
  <2>1. TypeOK'
    BY <1>1, <1>2, <1>4 DEF TypeOK, scans, actors
  <2>2. JobsOK' /\ RechecksOK' /\ VerdictsOK'
    BY <1>1, <1>4, QueueAlone
  <2>3. RecOK(r)'
    <3>1. AddingOK(r)' /\ StrayKnown(r)'
      BY <1>1, <1>2, <1>4 DEF RecOK, AddingOK, StrayKnown
    <3>2. ASSUME SubOf[r] \notin ghost.crossed
          PROVE  (RowFits(r) /\ CopyHasRow(r) /\ ServedOrCut(r) /\ GoneOrMade(r) /\ ToBeCut(r))'
      <4>1. RowFits(r) /\ CopyHasRow(r) /\ ServedOrCut(r) /\ GoneOrMade(r) /\ ToBeCut(r)
        BY <1>2, <3>2 DEF RecOK
      <4> QED
        BY <1>1, <1>4, <4>1
           DEF RowFits, CopyHasRow, ServedOrCut, GoneOrMade, ToBeCut, InCut, Acts, actors
    <3> QED
      BY <1>4, <3>1, <3>2 DEF RecOK
  <2>4. WorldOK'
    BY <1>1, <1>2, <1>3, <1>4, <2>3, WorldStepAt DEF actors
  <2> QED
    BY <2>1, <2>2, <2>4 DEF IInv
<1>5. CASE /\ status[s] # "gone"
           /\ row' = [row EXCEPT ![r] = "active"]
           /\ live' = [live EXCEPT ![r] = "known"]
           /\ ghost' = [ghost EXCEPT !.torn = @ \ {r}, !.unnamed = @ \ {r},
                  !.late = IF Busy(s) \/ status[s] # "active" THEN @ \cup {r} ELSE @ \ {r}]
  <2>1. /\ row' \in [Recs -> {"none", "active", "suspended"}]
        /\ live' \in [Recs -> {"none", "known", "stray"}]
        /\ row'[r] = "active" /\ live'[r] = "known"
        /\ \A x \in Recs \ {r} : row'[x] = row[x] /\ live'[x] = live[x]
    BY <1>2, <1>5 DEF TypeOK
  <2>2. /\ ghost' \in [crossed : SUBSET Subs, orphaned : SUBSET Subs, hurried : SUBSET Subs,
                       torn : SUBSET Recs, late : SUBSET Recs, unnamed : SUBSET Recs]
        /\ ghost'.crossed = ghost.crossed
        /\ ghost'.hurried = ghost.hurried /\ ghost'.orphaned = ghost.orphaned
        /\ ghost'.torn = ghost.torn \ {r} /\ ghost'.unnamed = ghost.unnamed \ {r}
        /\ ghost'.late = IF Busy(s) \/ status[s] # "active" THEN ghost.late \cup {r}
                         ELSE ghost.late \ {r}
    <3> DEFINE tardy == IF Busy(s) \/ status[s] # "active" THEN ghost.late \cup {r}
                        ELSE ghost.late \ {r}
    <3>1. ghost \in [crossed : SUBSET Subs, orphaned : SUBSET Subs, hurried : SUBSET Subs,
                     torn : SUBSET Recs, late : SUBSET Recs, unnamed : SUBSET Recs]
      BY <1>2 DEF TypeOK
    <3>2. ghost' = [ghost EXCEPT !.torn = @ \ {r}, !.unnamed = @ \ {r}, !.late = tardy]
      BY <1>5
    <3>3. tardy \subseteq Recs
      BY <3>1
    <3>4. tardy = IF Busy(s) \/ status[s] # "active" THEN ghost.late \cup {r}
                  ELSE ghost.late \ {r}
      OBVIOUS
    <3> HIDE DEF tardy, s
    <3> QED
      BY <3>1, <3>2, <3>3, <3>4
  <2>3. TypeOK'
    <3>1. \A x \in Recs : row'[x] # "none" => status'[SubOf[x]] # "gone"
      BY <1>1, <1>2, <1>5, <2>1 DEF TypeOK
    <3> QED
      BY <1>1, <1>2, <2>1, <2>2, <3>1 DEF TypeOK, scans, actors
  <2>4. JobsOK' /\ RechecksOK' /\ VerdictsOK'
    BY <1>1, <2>2, QueueAlone
  <2>5. RecOK(r)'
    <3>1. AddingOK(r)' /\ StrayKnown(r)'
      BY <1>1, <2>1 DEF AddingOK, StrayKnown
    <3>2. (RowFits(r) /\ CopyHasRow(r) /\ ServedOrCut(r))'
      BY <2>1 DEF RowFits, CopyHasRow, ServedOrCut
    <3>3. GoneOrMade(r)'
      BY <1>1, <2>2 DEF GoneOrMade
    <3>4. ToBeCut(r)'
      <4>1. r \notin ghost'.late => \A v \in Workers : ~Acts(job[v], s)
        BY <2>2 DEF Busy, ActedOnBy, Acts
      <4> QED
        BY <1>1, <4>1 DEF ToBeCut, actors
    <3> QED
      BY <3>1, <3>2, <3>3, <3>4 DEF RecOK
  <2>6. WorldOK'
    <3>1. \A x \in Recs \ {r} :
             /\ row'[x] = row[x] /\ live'[x] = live[x]
             /\ x \in adding' => x \in adding
             /\ x \in ghost'.torn <=> x \in ghost.torn
             /\ x \in ghost'.late <=> x \in ghost.late
             /\ x \in ghost'.unnamed <=> x \in ghost.unnamed
      BY <1>1, <2>1, <2>2
    <3> QED
      BY <1>1, <1>3, <2>1, <2>2, <2>5, <3>1, WorldStepAt DEF actors
  <2> QED
    BY <2>3, <2>4, <2>6 DEF IInv
<1> QED
  BY <1>4, <1>5 DEF RecordAdded

\* One that fails at a subdomain somebody acts on is a second actor there.
LEMMA DeleteRecordStep ==
    ASSUME IInv, NEW r \in Recs, DeleteRecord(r)
    PROVE  IInv'
<1> DEFINE s == SubOf[r]
<1>1. /\ row[r] = "active" /\ status[s] = "active"
      /\ UNCHANGED <<page, rule, scans, status, exempt, actors, restoration, adding>>
  BY DEF DeleteRecord
<1>2. TypeOK /\ RecOK(r) /\ s \in Subs
  BY RestorationTyped DEF IInv, WorldOK
<1>3. restoration.sub = s /\ s \notin ghost.crossed =>
         r \notin restoration.todo \cup restoration.made
  BY <1>1, <1>2, RestorationTyped DEF IInv, WorldOK, RestorationOK
<1>4. CASE Event /\ Struck(r) /\ UNCHANGED ghost
  <2>1. /\ row' \in [Recs -> {"none", "active", "suspended"}]
        /\ live' \in [Recs -> {"none", "known", "stray"}]
        /\ row'[r] = "none" /\ live'[r] = "none"
        /\ \A x \in Recs \ {r} : row'[x] = row[x] /\ live'[x] = live[x]
    BY <1>2, <1>4 DEF TypeOK, Struck
  <2>2. TypeOK'
    <3>1. events' \in 0..MaxEvents
      BY <1>2, <1>4, ConstantsAssumption DEF Event, TypeOK
    <3>2. \A x \in Recs : row'[x] # "none" => status'[SubOf[x]] # "gone"
      BY <1>1, <1>2, <2>1 DEF TypeOK
    <3> QED
      BY <1>1, <1>2, <1>4, <2>1, <3>1, <3>2 DEF TypeOK, scans, actors
  <2>3. JobsOK' /\ RechecksOK' /\ VerdictsOK'
    BY <1>1, <1>4, QueueAlone
  <2>4. RecOK(r)'
    BY <2>1 DEF RecOK, AddingOK, StrayKnown, RowFits, CopyHasRow, ServedOrCut, GoneOrMade,
                ToBeCut
  <2>5. WorldOK'
    BY <1>1, <1>3, <1>4, <2>1, <2>4, WorldStepAt DEF actors
  <2> QED
    BY <2>2, <2>3, <2>5 DEF IInv
<1>5. CASE NotStruck(r, Crossing({s}))
  <2> DEFINE g == Crossing({s})
  <2>1. /\ g \in [crossed : SUBSET Subs, orphaned : SUBSET Subs, hurried : SUBSET Subs,
                 torn : SUBSET Recs, late : SUBSET Recs, unnamed : SUBSET Recs]
        /\ g.crossed = ghost.crossed \cup (IF Busy(s) THEN {s} ELSE {})
        /\ g.torn = ghost.torn /\ g.late = ghost.late /\ g.unnamed = ghost.unnamed
        /\ g.hurried = ghost.hurried /\ g.orphaned = ghost.orphaned
    <3> DEFINE X == {t \in {s} : Busy(t)}
    <3>1. g = [ghost EXCEPT !.crossed = @ \cup X]
      BY DEF Crossing
    <3>2. X = (IF Busy(s) THEN {s} ELSE {}) /\ X \in SUBSET Subs
      BY <1>2
    <3> HIDE DEF X, g
    <3> QED
      BY <1>2, <3>1, <3>2 DEF TypeOK
  <2>2. NotStruck(r, g)
    BY <1>5
  <2> HIDE DEF g
  <2>3. /\ row' = row /\ live' \in [Recs -> {"none", "known", "stray"}]
        /\ \A x \in Recs \ {r} : live'[x] = live[x]
        /\ ghost' \in [crossed : SUBSET Subs, orphaned : SUBSET Subs, hurried : SUBSET Subs,
                       torn : SUBSET Recs, late : SUBSET Recs, unnamed : SUBSET Recs]
        /\ ghost'.crossed = g.crossed /\ ghost'.late = g.late
        /\ ghost'.hurried = g.hurried /\ ghost'.orphaned = g.orphaned
        /\ ghost'.torn \in {ghost.torn, ghost.torn \cup {r}}
        /\ ghost'.unnamed \in {ghost.unnamed, ghost.unnamed \cup {r}}
        /\ \/ live'[r] = live[r]
           \/ live'[r] = "none" /\ r \in ghost'.torn
           \/ live'[r] = "known" /\ row[r] = "active" /\ status[SubOf[r]] = "active"
           \/ live'[r] # "none" /\ r \in ghost'.unnamed
        /\ events' \in 0..MaxEvents
    BY <1>2, <2>1, <2>2, NotStruckFine
  <2>4. TypeOK'
    BY <1>1, <1>2, <2>3 DEF TypeOK, scans, actors
  <2>5. JobsOK' /\ RechecksOK' /\ VerdictsOK'
    BY <1>1, <2>1, <2>3, QueueAlone
  <2>6. s \notin ghost'.crossed => /\ s \notin ghost.crossed /\ restoration.sub # s
                                  /\ \A v \in Workers : ~Acts(job[v], s)
    BY <2>1, <2>3 DEF Busy, ActedOnBy, Acts
  <2>7. RecOK(r)'
    <3>1. AddingOK(r)' /\ StrayKnown(r)'
      BY <1>1, <1>2, <2>3 DEF RecOK, AddingOK, StrayKnown
    <3>2. ASSUME s \notin ghost'.crossed
          PROVE  (RowFits(r) /\ CopyHasRow(r) /\ ServedOrCut(r) /\ GoneOrMade(r) /\ ToBeCut(r))'
      <4>1. RowFits(r) /\ CopyHasRow(r) /\ ServedOrCut(r)
        BY <1>2, <2>6, <3>2 DEF RecOK
      <4>2. \A v \in Workers : InCut(job[v], r)' <=> InCut(job[v], r)
        BY <1>1 DEF InCut, actors
      <4>3. (RowFits(r) /\ CopyHasRow(r) /\ GoneOrMade(r))'
        BY <1>1, <2>3, <4>1 DEF RowFits, CopyHasRow, GoneOrMade
      <4>4. ServedOrCut(r)'
        BY <1>1, <2>3, <4>1, <4>2 DEF ServedOrCut, actors
      <4>5. ToBeCut(r)'
        BY <1>1, <2>6, <3>2 DEF ToBeCut, actors
      <4> QED
        BY <4>3, <4>4, <4>5
    <3> QED
      BY <3>1, <3>2 DEF RecOK
  <2>8. WorldOK'
    <3>1. \A x \in Recs \ {r} :
             /\ row'[x] = row[x] /\ live'[x] = live[x]
             /\ x \in adding' => x \in adding
             /\ x \in ghost'.torn <=> x \in ghost.torn
             /\ x \in ghost'.late <=> x \in ghost.late
             /\ x \in ghost'.unnamed <=> x \in ghost.unnamed
      BY <1>1, <2>1, <2>3
    <3>2. ghost.crossed \subseteq ghost'.crossed
      BY <2>1, <2>3
    <3>3. UNCHANGED <<status, job, restoration>>
      BY <1>1 DEF actors
    <3> QED
      BY <2>6, <2>7, <3>1, <3>2, <3>3, WorldStepAt
  <2> QED
    BY <2>4, <2>5, <2>8 DEF IInv
<1> QED
  BY <1>4, <1>5 DEF DeleteRecord

\* What the stop cuts short is noted: records in the middle of a suspension, copies of a
\* restoration, and rechecks in nobody's hand.
LEMMA StopStep == IInv /\ Stop => IInv'
<1> SUFFICES ASSUME IInv, Stop PROVE IInv'
  OBVIOUS
<1> DEFINE halved == UNION {job[w].cut : w \in Workers}
           lost == claimed \cup {s \in Subs : ~durable /\ exempt[s] = "rechecking"}
<1>1. /\ job' = [w \in Workers |-> NoJob] /\ claimed' = {}
      /\ restoration' = NoRestoration /\ adding' = {}
      /\ task' = IF durable THEN task ELSE [i \in Tasks |-> NoMessage]
      /\ UNCHANGED <<page, rule, scans, world, exempt, durable, sent>>
  BY DEF Stop
<1>2. /\ TypeOK /\ restoration'.sub = Nothing /\ restoration'.made = {}
      /\ restoration'.todo = {}
      /\ restoration' \in [sub : Subs \cup {Nothing}, todo : SUBSET Recs, made : SUBSET Recs]
  BY <1>1, RestorationTyped
<1>3. /\ NoJob \in JobType /\ NoJob.pc = "idle" /\ NoJob.cut = {} /\ NoJob.todo = {}
      /\ NoJob.task = Nothing /\ NoJob.at = Nothing
  BY DEF NoJob, JobType
<1>4. /\ ghost' \in [crossed : SUBSET Subs, orphaned : SUBSET Subs, hurried : SUBSET Subs,
                     torn : SUBSET Recs, late : SUBSET Recs, unnamed : SUBSET Recs]
      /\ ghost'.crossed = ghost.crossed /\ ghost'.hurried = ghost.hurried
      /\ ghost'.late = ghost.late /\ ghost'.torn = ghost.torn \cup halved
      /\ ghost'.unnamed = ghost.unnamed \cup restoration.made
      /\ ghost'.orphaned = ghost.orphaned \cup lost
      /\ events' \in 0..MaxEvents
  <2>1. halved \in SUBSET Recs
    BY <1>2 DEF TypeOK, JobType
  <2>2. lost \in SUBSET Subs
    BY <1>2 DEF TypeOK
  <2>3. ghost' = [ghost EXCEPT !.torn = @ \cup halved,
                               !.unnamed = @ \cup restoration.made,
                               !.orphaned = @ \cup claimed \cup
                                  {s \in Subs : ~durable /\ exempt[s] = "rechecking"}]
    BY DEF Stop
  <2>4. ghost'.orphaned = ghost.orphaned \cup lost
    BY <1>2, <2>3 DEF TypeOK
  <2>5. restoration.made \in SUBSET Recs
    BY <1>2 DEF TypeOK
  <2>6. events' \in 0..MaxEvents
    BY <1>2, ConstantsAssumption DEF Stop, Event, TypeOK
  <2> HIDE DEF halved, lost
  <2> QED
    BY <1>2, <2>1, <2>2, <2>3, <2>4, <2>5, <2>6 DEF TypeOK
<1>5. /\ task' \in [Tasks -> [sub : Subs \cup {Nothing}, recheck : BOOLEAN,
                              at : {"queued", "taken", "done"}]]
      /\ durable => task' = task
      /\ \A i \in Tasks : task'[i].at # "done" => task'[i] = task[i]
  BY <1>1, <1>2 DEF TypeOK, NoMessage
<1>6. TypeOK'
  BY <1>1, <1>2, <1>3, <1>4, <1>5 DEF TypeOK, scans, world
<1>7. JobsOK'
  BY <1>1, <1>3 DEF JobsOK, JobFine, MessageOK
<1>8. RechecksOK'
  BY <1>1, <1>4, <1>5 DEF IInv, RechecksOK, InHand
<1>9. VerdictsOK'
  BY <1>1, <1>3, <1>4, VerdictsKept
<1>10. WorldOK'
  <2>1. \A w \in Workers : job'[w] = NoJob
    BY <1>1
  <2>2. \A w \in Workers, s \in Subs : ~Acts(job'[w], s)
    BY <1>3, <2>1 DEF Acts
  <2>3. OneActor'
    BY <2>2 DEF OneActor
  <2>4. RestorationOK'
    BY <1>2, ConstantsAssumption DEF RestorationOK
  <2>5. ASSUME NEW r \in Recs PROVE RecOK(r)'
    <3>1. RecOK(r) /\ SubOf[r] \in Subs
      BY RestorationTyped DEF IInv, WorldOK
    <3>2. AddingOK(r)' /\ StrayKnown(r)'
      BY <1>1, <1>4, <3>1 DEF RecOK, AddingOK, StrayKnown, world
    <3>3. ASSUME SubOf[r] \notin ghost.crossed
          PROVE  (RowFits(r) /\ CopyHasRow(r) /\ ServedOrCut(r) /\ GoneOrMade(r) /\ ToBeCut(r))'
      <4>1. RowFits(r) /\ CopyHasRow(r) /\ ServedOrCut(r) /\ GoneOrMade(r)
        BY <3>1, <3>3 DEF RecOK
      <4>2. (RowFits(r) /\ CopyHasRow(r) /\ GoneOrMade(r))'
        BY <1>1, <1>4, <4>1 DEF RowFits, CopyHasRow, GoneOrMade, world
      <4>3. ServedOrCut(r)'
        <5>1. \A w \in Workers : InCut(job[w], r) => r \in ghost'.torn
          BY <1>4 DEF InCut
        <5> QED
          BY <1>1, <1>4, <4>1, <5>1 DEF ServedOrCut, world
      <4>4. ToBeCut(r)'
        BY <2>2, <3>1 DEF ToBeCut
      <4> QED
        BY <4>2, <4>3, <4>4
    <3> QED
      BY <1>4, <3>2, <3>3 DEF RecOK
  <2> QED
    BY <2>3, <2>4, <2>5 DEF WorldOK
<1> QED
  BY <1>6, <1>7, <1>8, <1>9, <1>10 DEF IInv

-----------------------------------------------------------------------------

LEMMA IInvStep == IInv /\ [Next]_vars => IInv'
<1> SUFFICES ASSUME IInv, [Next]_vars PROVE IInv'
  OBVIOUS
<1>1. ASSUME NEW w \in Workers, WorkerStep(w) PROVE IInv'
  BY <1>1, DeliverStep, JudgeStep, StoreStep, ExcuseStep, ReviewStep, PickStep, CutRecordStep,
     SuspendStep, CompensateStep, StrikeRecordStep, ReleaseStep, FinishStep DEF WorkerStep
<1>2. ASSUME NEW s \in Subs,
             \/ Schedule(s) \/ Rescan(s) \/ StartRestore(s) \/ ClaimDue(s)
             \/ Requeue(s) \/ ChangePage(s)
      PROVE  IInv'
  BY <1>2, ScheduleStep, StartRestoreStep, ClaimDueStep, RequeueStep, ChangePageStep
<1>3. ASSUME NEW r \in Recs, AddRecord(r) \/ RecordAdded(r) \/ DeleteRecord(r)
      PROVE  IInv'
  BY <1>3, AddRecordStep, RecordAddedStep, DeleteRecordStep
<1>4. CASE UNCHANGED vars
  <2>1. TypeOK'
    BY <1>4 DEF vars, scans, world, actors, IInv, TypeOK
  <2>2. JobsOK' /\ RechecksOK' /\ VerdictsOK'
    BY <1>4, QueueAlone DEF vars
  <2>3. WorldOK'
    BY <1>4, WorldKept DEF vars, actors
  <2> QED
    BY <2>1, <2>2, <2>3 DEF IInv
<1> QED
  BY <1>1, <1>2, <1>3, <1>4, RestoreRecordStep, RestoreStep, UpdateRuleStep, StopStep DEF Next

LEMMA IInvHolds == Spec => []IInv
BY IInvInit, IInvStep, PTL DEF Spec

\* suspendSubdomain and RestoreSubdomain, for any number of subdomains, records, workers and
\* failures: a record of a suspended subdomain is served only where its creation overtook the
\* suspension, two actors met, or a copy was made under an id that no active row holds: by a
\* compensation, by a creation whose answer was lost, or by a deletion that failed.
THEOREM SuspendedIsNotServed == Spec => []SuspendedNotServed
BY IInvHolds, IInvImplies, PTL

\* compensateProviderRecords and RestoreSubdomain: the active records of an active subdomain
\* nobody is changing are served, whether what was tried there succeeded or not, but where two
\* actors met, the provider deleted a record for a call that failed, a compensation failed as
\* well, or the server stopped in the middle of a suspension.
THEOREM ActiveIsServed == Spec => []ActiveServed
BY IInvHolds, IInvImplies, PTL

\* The exemption worker and the queue: a claimed recheck is in the worker's hand or in an
\* unacknowledged message until it is completed or its loss is noted, however many workers
\* are given the message.
THEOREM RecheckIsUnderway == Spec => []RecheckUnderway
BY IInvHolds, IInvImplies, PTL

\* ScanSubdomain: a page that is skipped because it was judged before breaks no rule in
\* force, whenever rules change between a judgement and the storing of its scan.
THEOREM SkippingIsSafe == Spec => []SkipIsSafe
BY IInvHolds, IInvImplies, PTL

-----------------------------------------------------------------------------
\* BulkDelete: the queued deletion of records.

JobStatus == {"none", "pending", "running", "succeeded", "failed"}
Steps == {"none", "try", "list", "next", "delete", "succeeded", "failed"}
RunType == [job : Jobs \cup {Absent}, step : Steps, todo : SUBSET Records,
            at : Records \cup {Absent}, attempt : Nat, failed : BOOLEAN]

RowsTyped ==
    /\ jobs \in [Jobs -> JobStatus]
    /\ item \in [Jobs -> [Records -> JobStatus]]
    /\ served \subseteq Records /\ rows \subseteq Records
    /\ server \in {"up", "down", "reset", "list"}
    /\ \A j \in Jobs : jobs[j] = "none" <=> ItemsOf(j) = {}

\* What is about to be started is stored, and nothing is once the server stops.
StartsStored ==
    /\ launched \subseteq {j \in Jobs : jobs[j] # "none"}
    /\ toStart \subseteq {j \in Jobs : jobs[j] # "none"}
    /\ ~Serving => launched = {} /\ toStart = {}

\* A goroutine works on a stored job, at an item it has not yet given back.
RunOK(p) ==
    run[p] # NoRun =>
        /\ Serving
        /\ run[p].step # "none"
        /\ run[p].job \in Jobs
        /\ jobs[run[p].job] # "none"
        /\ run[p].todo \subseteq ItemsOf(run[p].job)
        /\ run[p].step \in {"delete", "succeeded", "failed"} =>
              run[p].at \in ItemsOf(run[p].job)

\* Records that have no row and are not served, but as a failed deletion made them.
Gone(S) == S \cap rows = {} /\ S \cap served \subseteq revived

\* What is gone stays so.
GoneStays == rows' \subseteq rows /\ served' \ revived' \subseteq (served \cup rows) \ revived

LEMMA GoneSame ==
    ASSUME UNCHANGED <<served, rows, revived>>
    PROVE  GoneStays /\ \A S \in SUBSET Records : Gone(S) => Gone(S)'
BY DEF GoneStays, Gone

\* The items a goroutine has behind it and did not fail on are gone, whatever
\* other goroutines of the same job do.
Behind(p) ==
    ItemsOf(run[p].job) \ (run[p].todo \cup (IF run[p].step = "delete" THEN {run[p].at} ELSE {}))

WorkDone(p) ==
    /\ run[p].step = "failed" => run[p].failed
    /\ run[p].step \in {"next", "delete", "succeeded"} /\ ~run[p].failed =>
          Gone(Behind(p))

JobsTrue ==
    \A j \in Jobs : jobs[j] = "succeeded" => Gone(ItemsOf(j))

RunsOK ==
    /\ run \in [Runs -> RunType]
    /\ \A p \in Runs : RunOK(p) /\ WorkDone(p)

BulkInv == RowsTyped /\ StartsStored /\ RunsOK /\ JobsTrue

LEMMA BulkInvImplies == BulkInv => SucceededMeansGone
BY DEF BulkInv, RowsTyped, RunsOK, RunOK, JobsTrue, Gone, SucceededMeansGone, BulkTypeOK, JobStatus

LEMMA NoRunTyped == NoRun \in RunType /\ NoRun.step = "none"
BY DEF NoRun, RunType, Steps

LEMMA BulkInvInit == BulkInit => BulkInv
<1> SUFFICES ASSUME BulkInit PROVE BulkInv
  OBVIOUS
<1>1. \A j \in Jobs : ItemsOf(j) = {}
  BY DEF BulkInit, ItemsOf
<1>2. RowsTyped
  BY <1>1 DEF BulkInit, RowsTyped, JobStatus
<1>3. RunsOK
  BY NoRunTyped DEF BulkInit, RunsOK, RunOK, WorkDone
<1> QED
  BY <1>2, <1>3 DEF BulkInv, BulkInit, StartsStored, JobsTrue, Serving

\* A step that leaves a goroutine alone, and the statuses of its job's items
\* present or absent, and lets nothing that is gone come back, leaves its claims true.
LEMMA RunKept ==
    ASSUME NEW p \in Runs, RunOK(p), WorkDone(p),
           run'[p] = run[p], run[p] # NoRun => Serving',
           run[p] # NoRun => jobs'[run[p].job] # "none" /\ ItemsOf(run[p].job)' = ItemsOf(run[p].job),
           GoneStays
    PROVE  RunOK(p)' /\ WorkDone(p)'
<1>1. CASE run[p] = NoRun
  BY <1>1, NoRunTyped DEF RunOK, WorkDone
<1>2. CASE run[p] # NoRun
  <2>1. RunOK(p)'
    BY <1>2 DEF RunOK
  <2>2. Behind(p)' = Behind(p)
    BY <1>2 DEF Behind, ItemsOf
  <2> QED
    BY <2>1, <2>2 DEF WorkDone, Gone, GoneStays
<1> QED
  BY <1>1, <1>2

LEMMA EnqueueJobStep ==
    ASSUME BulkInv, NEW j \in Jobs, NEW recs \in SUBSET Records, EnqueueJob(j, recs)
    PROVE  BulkInv'
<1> USE DEF BulkInv
<1>1. jobs' = [jobs EXCEPT ![j] = "pending"] /\ jobs[j] = "none" /\ recs # {}
  BY DEF EnqueueJob
<1>2. \A k \in Jobs \ {j} : jobs'[k] = jobs[k] /\ ItemsOf(k)' = ItemsOf(k)
  BY DEF EnqueueJob, RowsTyped, ItemsOf
<1>3. ItemsOf(j)' = recs
  BY DEF EnqueueJob, RowsTyped, ItemsOf
<1>4. RowsTyped'
  <2>1. item' \in [Jobs -> [Records -> JobStatus]]
    BY DEF EnqueueJob, RowsTyped, JobStatus
  <2>2. jobs' \in [Jobs -> JobStatus] /\ jobs'[j] = "pending"
    BY <1>1 DEF RowsTyped, JobStatus
  <2>3. \A k \in Jobs : jobs'[k] = "none" <=> ItemsOf(k)' = {}
    BY <1>1, <1>2, <1>3, <2>2 DEF RowsTyped
  <2> QED
    BY <2>1, <2>2, <2>3 DEF RowsTyped, EnqueueJob, records
<1>5. StartsStored'
  BY <1>1, <1>2 DEF EnqueueJob, StartsStored, RowsTyped, JobStatus, Serving
<1>6. RunsOK'
  <2> SUFFICES ASSUME NEW p \in Runs PROVE RunOK(p)' /\ WorkDone(p)'
    BY DEF RunsOK, EnqueueJob
  <2>1. run[p] # NoRun => run[p].job \in Jobs \ {j}
    BY <1>1 DEF RunsOK, RunOK
  <2> QED
    BY <2>1, <1>2, RunKept, GoneSame DEF RunsOK, RunOK, EnqueueJob, Serving, records
<1>7. JobsTrue'
  BY <1>1, <1>2 DEF JobsTrue, Gone, RowsTyped, EnqueueJob, records
<1> QED
  BY <1>4, <1>5, <1>6, <1>7

\* What a step of goroutine p has to keep for the jobs and their items.
JobsKept(p) ==
    /\ RowsTyped' /\ StartsStored' /\ JobsTrue'
    /\ \A j \in Jobs : ItemsOf(j)' = ItemsOf(j) /\ (jobs[j] # "none" => jobs'[j] # "none")
    /\ GoneStays
    /\ server' = server

\* The other goroutines are unmoved by a step of p.
LEMMA OneRuns ==
    ASSUME BulkInv, NEW p \in Runs, NEW r \in RunType, SetRun(p, r), JobsKept(p),
           RunOK(p)', WorkDone(p)'
    PROVE  BulkInv'
<1>1. run' \in [Runs -> RunType]
  BY DEF BulkInv, RunsOK, SetRun
<1>2. ASSUME NEW q \in Runs, q # p PROVE RunOK(q)' /\ WorkDone(q)'
  <2>1. run'[q] = run[q]
    BY <1>2 DEF BulkInv, RunsOK, SetRun
  <2>2. RunOK(q) /\ WorkDone(q)
    BY DEF BulkInv, RunsOK
  <2> QED
    BY <2>1, <2>2, RunKept DEF RunOK, JobsKept, Serving
<1> QED
  BY <1>1, <1>2 DEF BulkInv, RunsOK, JobsKept

\* A goroutine that ends leaves nothing to claim of it.
LEMMA StopsRunning ==
    ASSUME BulkInv, NEW p \in Runs, SetRun(p, NoRun), JobsKept(p)
    PROVE  BulkInv'
<1>1. run'[p] = NoRun
  BY DEF SetRun, BulkInv, RunsOK
<1>2. RunOK(p)' /\ WorkDone(p)'
  BY <1>1, NoRunTyped DEF RunOK, WorkDone
<1> QED
  BY <1>2, NoRunTyped, OneRuns

LEMMA ItemsKept ==
    ASSUME UNCHANGED item
    PROVE  \A j \in Jobs : ItemsOf(j)' = ItemsOf(j)
BY DEF ItemsOf

\* An item that is there only changes its status.
LEMMA ItemMoves ==
    ASSUME BulkInv, NEW j \in Jobs, NEW x \in ItemsOf(j), NEW s \in JobStatus \ {"none"},
           item' = [item EXCEPT ![j][x] = s]
    PROVE  /\ item' \in [Jobs -> [Records -> JobStatus]]
           /\ \A k \in Jobs : ItemsOf(k)' = ItemsOf(k)
BY DEF BulkInv, RowsTyped, ItemsOf, JobStatus

LEMMA GoStep ==
    ASSUME BulkInv, NEW p \in Runs, NEW j \in Jobs, Go(p, j)
    PROVE  BulkInv'
<1> DEFINE r == [NoRun EXCEPT !.job = j, !.step = "try"]
<1>1. jobs[j] # "none" /\ Serving
  BY DEF Go, BulkInv, StartsStored
<1>2. r \in RunType /\ r.job = j /\ r.step = "try" /\ r.todo = {}
  BY DEF NoRun, RunType, Steps
<1>3. JobsKept(p)
  BY ItemsKept, GoneSame DEF Go, BulkInv, RowsTyped, StartsStored, JobsTrue, Gone, JobsKept, records, Serving
<1>4. SetRun(p, r) /\ run'[p] = r
  BY DEF Go, SetRun, BulkInv, RunsOK
<1> HIDE DEF r
<1>5. RunOK(p)' /\ WorkDone(p)'
  BY <1>1, <1>2, <1>4, ItemsKept DEF Go, RunOK, WorkDone, Serving
<1> QED
  BY <1>2, <1>3, <1>4, <1>5, OneRuns

LEMMA TryStartStep ==
    ASSUME BulkInv, NEW p \in Runs, TryStart(p)
    PROVE  BulkInv'
<1> DEFINE started == [run[p] EXCEPT !.step = "list"]
<1>1. run[p] # NoRun /\ run[p].job \in Jobs /\ jobs[run[p].job] # "none" /\ Serving
  BY NoRunTyped DEF TryStart, BulkInv, RunsOK, RunOK
<1>2. /\ started \in RunType /\ started # NoRun /\ started.step = "list"
      /\ started.job = run[p].job /\ started.todo = run[p].todo
  BY NoRunTyped DEF BulkInv, RunsOK, RunType, Steps
<1> HIDE DEF started
<1>3. JobsKept(p)
  <2>1. JobsTrue'
    BY <1>1, ItemsKept DEF TryStart, BulkInv, RowsTyped, JobsTrue, Gone, records
  <2> QED
    BY <1>1, <2>1, ItemsKept, GoneSame
       DEF TryStart, BulkInv, RowsTyped, StartsStored, JobsKept, records, Serving, JobStatus
<1>4. CASE SetRun(p, started)
  <2>1. run'[p] = started
    BY <1>4 DEF SetRun, BulkInv, RunsOK
  <2>2. RunOK(p)' /\ WorkDone(p)'
    BY <1>1, <1>2, <1>3, <2>1 DEF RunOK, WorkDone, JobsKept, Serving, BulkInv, RunsOK
  <2> QED
    BY <1>2, <1>3, <1>4, <2>2, OneRuns
<1>5. CASE SetRun(p, NoRun)
  BY <1>3, <1>5, StopsRunning
<1> QED
  BY <1>4, <1>5 DEF TryStart, started

LEMMA ListItemsStep ==
    ASSUME BulkInv, NEW p \in Runs, ListItems(p)
    PROVE  BulkInv'
<1> DEFINE listed == [run[p] EXCEPT !.step = "next", !.todo = ItemsOf(run[p].job)]
<1>1. run[p] # NoRun /\ run[p].job \in Jobs /\ jobs[run[p].job] # "none" /\ Serving
  BY NoRunTyped DEF ListItems, BulkInv, RunsOK, RunOK
<1>2. /\ listed \in RunType /\ listed.step = "next"
      /\ listed.job = run[p].job /\ listed.todo = ItemsOf(run[p].job)
  BY DEF BulkInv, RunsOK, RunType, Steps, ItemsOf
<1> HIDE DEF listed
<1>3. JobsKept(p)
  <2>1. JobsTrue'
    BY <1>1, ItemsKept DEF ListItems, BulkInv, RowsTyped, JobsTrue, Gone, records
  <2> QED
    BY <1>1, <2>1, ItemsKept, GoneSame
       DEF ListItems, BulkInv, RowsTyped, StartsStored, JobsKept, records, Serving, JobStatus
<1>4. CASE SetRun(p, listed)
  <2>1. run'[p] = listed
    BY <1>4 DEF SetRun, BulkInv, RunsOK
  <2>2. RunOK(p)' /\ WorkDone(p)'
    BY <1>1, <1>2, <1>3, <2>1 DEF RunOK, WorkDone, Behind, Gone, JobsKept, Serving
  <2> QED
    BY <1>2, <1>3, <1>4, <2>2, OneRuns
<1>5. CASE SetRun(p, NoRun)
  BY <1>3, <1>5, StopsRunning
<1> QED
  BY <1>4, <1>5 DEF ListItems, listed

LEMMA TakeItemStep ==
    ASSUME BulkInv, NEW p \in Runs, TakeItem(p)
    PROVE  BulkInv'
<1>1. /\ run[p] # NoRun /\ run[p].job \in Jobs /\ jobs[run[p].job] # "none" /\ Serving
      /\ run[p].todo \subseteq ItemsOf(run[p].job)
  BY NoRunTyped DEF TakeItem, BulkInv, RunsOK, RunOK
<1>2. PICK x \in run[p].todo :
        /\ item' = [item EXCEPT ![run[p].job][x] = "running"]
        /\ SetRun(p, [run[p] EXCEPT !.step = "delete", !.at = x, !.attempt = 1, !.todo = @ \ {x}])
  BY DEF TakeItem
<1> DEFINE taken == [run[p] EXCEPT !.step = "delete", !.at = x, !.attempt = 1, !.todo = @ \ {x}]
<1>3. /\ taken \in RunType /\ taken.step = "delete" /\ taken.at = x
      /\ taken.job = run[p].job /\ taken.todo = run[p].todo \ {x}
      /\ taken.failed = run[p].failed
  BY DEF BulkInv, RunsOK, RunType, Steps
<1>4. SetRun(p, taken) /\ run'[p] = taken
  BY <1>2 DEF SetRun, BulkInv, RunsOK
<1> HIDE DEF taken
<1>5. /\ item' \in [Jobs -> [Records -> JobStatus]]
      /\ \A k \in Jobs : ItemsOf(k)' = ItemsOf(k)
  <2>1. x \in ItemsOf(run[p].job) /\ "running" \in JobStatus \ {"none"}
    BY <1>1 DEF JobStatus
  <2> QED
    BY <1>1, <1>2, <2>1, ItemMoves
<1>6. JobsKept(p)
  BY <1>5, GoneSame DEF TakeItem, BulkInv, RowsTyped, StartsStored, JobsTrue, Gone, JobsKept, records, Serving
<1>7. RunOK(p)'
  BY <1>1, <1>3, <1>4, <1>6 DEF RunOK, JobsKept, Serving, TakeItem
<1>8. WorkDone(p)'
  <2>1. Behind(p)' \subseteq Behind(p)
    BY <1>1, <1>3, <1>4, <1>5 DEF Behind, TakeItem
  <2>2. UNCHANGED <<served, rows, revived>> /\ run[p].step = "next"
    BY DEF TakeItem, records
  <2> QED
    BY <1>3, <1>4, <2>1, <2>2 DEF WorkDone, Gone, BulkInv, RunsOK
<1> QED
  BY <1>3, <1>4, <1>6, <1>7, <1>8, OneRuns

LEMMA DeleteItemStep ==
    ASSUME BulkInv, NEW p \in Runs, DeleteItem(p)
    PROVE  BulkInv'
<1> DEFINE x == run[p].at
           done == [run[p] EXCEPT !.step = "succeeded"]
           again == [run[p] EXCEPT !.attempt = @ + 1]
           over == [run[p] EXCEPT !.step = "failed", !.failed = TRUE]
<1>1. /\ run[p] # NoRun /\ run[p].job \in Jobs /\ jobs[run[p].job] # "none" /\ Serving
      /\ run[p].todo \subseteq ItemsOf(run[p].job) /\ run[p].at \in ItemsOf(run[p].job)
      /\ run[p].step = "delete"
  BY NoRunTyped DEF DeleteItem, BulkInv, RunsOK, RunOK
<1>2. GoneStays /\ served' \subseteq Records
  <2>1. x \in Records
    BY <1>1 DEF ItemsOf
  <2> HIDE DEF x
  <2>2. CASE Deleted(x)
    BY <2>1, <2>2 DEF Deleted, GoneStays, BulkInv, RowsTyped
  <2>3. CASE NotDeleted(x)
    BY <2>1, <2>3 DEF NotDeleted, GoneStays, BulkInv, RowsTyped
  <2> QED
    BY <2>2, <2>3 DEF DeleteItem, x
<1>3. JobsKept(p)
  <2>1. JobsTrue'
    BY <1>2, ItemsKept DEF DeleteItem, BulkInv, JobsTrue, Gone, GoneStays
  <2> QED
    BY <1>2, <2>1, ItemsKept
       DEF DeleteItem, BulkInv, RowsTyped, StartsStored, JobsKept, GoneStays, Serving
<1>4. \A r \in {done, again, over} :
        /\ r \in RunType /\ r.job = run[p].job /\ r.todo = run[p].todo /\ r.at = run[p].at
        /\ r.step \in {"succeeded", "delete", "failed"}
  <2>1. run[p] \in RunType
    BY DEF BulkInv, RunsOK
  <2>2. done \in RunType /\ done.step = "succeeded" /\ done.job = run[p].job
          /\ done.todo = run[p].todo /\ done.at = run[p].at
    BY <2>1 DEF RunType, Steps
  <2>3. again \in RunType /\ again.step = "delete" /\ again.job = run[p].job
          /\ again.todo = run[p].todo /\ again.at = run[p].at
    BY <1>1, <2>1 DEF RunType
  <2>4. over \in RunType /\ over.step = "failed" /\ over.job = run[p].job
          /\ over.todo = run[p].todo /\ over.at = run[p].at
    BY <2>1 DEF RunType, Steps
  <2> QED
    BY <2>2, <2>3, <2>4
<1>5. ASSUME NEW r \in {done, again, over}, SetRun(p, r)
      PROVE  run'[p] = r /\ RunOK(p)'
  <2> HIDE DEF done, again, over
  <2>1. run'[p] = r
    BY <1>5 DEF SetRun, BulkInv, RunsOK
  <2> QED
    BY <1>1, <1>3, <1>4, <2>1 DEF RunOK, JobsKept, Serving
<1>6. CASE Deleted(x) /\ SetRun(p, done)
  <2>1. done.step = "succeeded" /\ done.failed = run[p].failed
    BY DEF BulkInv, RunsOK, RunType
  <2>2. run'[p] = done
    BY <1>5, <1>6
  <2>3. Behind(p)' \subseteq Behind(p) \cup {x}
    <3> HIDE DEF done
    <3> QED
      BY <1>1, <1>3, <1>4, <2>1, <2>2 DEF Behind, JobsKept
  <2>4. x \notin served' \cup rows'
    BY <1>6 DEF Deleted
  <2>5. WorkDone(p)'
    <3> HIDE DEF done
    <3> QED
      BY <1>1, <1>2, <2>1, <2>2, <2>3, <2>4 DEF WorkDone, Gone, GoneStays, BulkInv, RunsOK
  <2> QED
    BY <1>3, <1>4, <1>5, <1>6, <2>5, OneRuns
<1>7. CASE SetRun(p, again)
  <2>1. again.step = "delete" /\ again.failed = run[p].failed
    BY <1>1 DEF BulkInv, RunsOK, RunType
  <2>2. run'[p] = again
    BY <1>5, <1>7
  <2>3. WorkDone(p)'
    <3> HIDE DEF again
    <3>1. Behind(p)' = Behind(p)
      BY <1>1, <1>3, <1>4, <2>1, <2>2 DEF Behind, JobsKept
    <3> QED
      BY <1>1, <1>2, <2>1, <2>2, <3>1 DEF WorkDone, Gone, GoneStays, BulkInv, RunsOK
  <2> QED
    BY <1>3, <1>4, <1>5, <1>7, <2>3, OneRuns
<1>8. CASE SetRun(p, over)
  <2>1. over.step = "failed" /\ over.failed
    BY DEF BulkInv, RunsOK, RunType
  <2>2. WorkDone(p)'
    BY <1>5, <1>8, <2>1 DEF WorkDone
  <2> QED
    BY <1>3, <1>4, <1>5, <1>8, <2>2, OneRuns
<1> QED
  BY <1>6, <1>7, <1>8 DEF DeleteItem

LEMMA NoteItemStep ==
    ASSUME BulkInv, NEW p \in Runs, NoteItem(p)
    PROVE  BulkInv'
<1> DEFINE noted == [run[p] EXCEPT !.step = "next", !.at = Absent, !.attempt = 0]
<1>1. /\ run[p] # NoRun /\ run[p].job \in Jobs /\ jobs[run[p].job] # "none" /\ Serving
      /\ run[p].todo \subseteq ItemsOf(run[p].job) /\ run[p].at \in ItemsOf(run[p].job)
  BY NoRunTyped DEF NoteItem, BulkInv, RunsOK, RunOK
<1>2. /\ noted \in RunType /\ noted.step = "next" /\ noted.failed = run[p].failed
      /\ noted.job = run[p].job /\ noted.todo = run[p].todo
  BY DEF BulkInv, RunsOK, RunType, Steps
<1>3. SetRun(p, noted) /\ run'[p] = noted
  BY DEF NoteItem, SetRun, BulkInv, RunsOK
<1> HIDE DEF noted
<1>4. /\ item' \in [Jobs -> [Records -> JobStatus]]
      /\ \A k \in Jobs : ItemsOf(k)' = ItemsOf(k)
  <2>1. CASE UNCHANGED item
    BY <2>1, ItemsKept DEF BulkInv, RowsTyped
  <2>2. CASE item' = [item EXCEPT ![run[p].job][run[p].at] = run[p].step]
    BY <2>2, <1>1, ItemMoves DEF NoteItem, JobStatus
  <2> QED
    BY <2>1, <2>2 DEF NoteItem
<1>5. JobsKept(p)
  BY <1>4, GoneSame DEF NoteItem, BulkInv, RowsTyped, StartsStored, JobsTrue, Gone, JobsKept, records, Serving
<1>6. RunOK(p)'
  BY <1>1, <1>2, <1>3, <1>5 DEF RunOK, JobsKept, Serving, NoteItem
<1>7. WorkDone(p)'
  <2>1. Behind(p)' = Behind(p)
    BY <1>1, <1>2, <1>3, <1>4 DEF Behind, NoteItem
  <2> QED
    BY <1>2, <1>3, <2>1 DEF WorkDone, Gone, BulkInv, RunsOK, NoteItem, records
<1> QED
  BY <1>2, <1>3, <1>5, <1>6, <1>7, OneRuns

\* A goroutine that has failed on no item finds them all gone at the end.
LEMMA FinishJobStep ==
    ASSUME BulkInv, NEW p \in Runs, FinishJob(p)
    PROVE  BulkInv'
<1>1. run[p] # NoRun /\ run[p].job \in Jobs /\ jobs[run[p].job] # "none"
  BY NoRunTyped DEF FinishJob, BulkInv, RunsOK, RunOK
<1>2. jobs' \in {jobs, [jobs EXCEPT ![run[p].job] = Outcome(p)]}
  BY DEF FinishJob
<1>3. JobsTrue'
  <2>1. Outcome(p) = "succeeded" => Gone(ItemsOf(run[p].job))
    BY <1>1 DEF Outcome, FinishJob, BulkInv, RunsOK, WorkDone, Behind
  <2>2. \A j \in Jobs : jobs'[j] = jobs[j] \/ (j = run[p].job /\ jobs'[j] = Outcome(p))
    BY <1>1, <1>2 DEF BulkInv, RowsTyped
  <2> QED
    BY <2>1, <2>2, ItemsKept DEF JobsTrue, Gone, BulkInv, FinishJob, records
<1>4. JobsKept(p)
  BY SMTT(30), <1>1, <1>2, <1>3, ItemsKept, GoneSame
     DEF FinishJob, BulkInv, RowsTyped, StartsStored, JobsKept, records, Serving, JobStatus,
         Outcome
<1> QED
  BY <1>4, StopsRunning DEF FinishJob

-----------------------------------------------------------------------------
\* The server stops and starts.

LEMMA StopServerStep == BulkInv /\ StopServer => BulkInv'
<1> SUFFICES ASSUME BulkInv, StopServer PROVE BulkInv'
  OBVIOUS
<1>1. \A j \in Jobs : ItemsOf(j)' = ItemsOf(j)
  BY ItemsKept DEF StopServer
<1>2. RunsOK'
  BY NoRunTyped DEF StopServer, RunsOK, RunOK, WorkDone
<1> QED
  BY <1>1, <1>2 DEF StopServer, BulkInv, RowsTyped, StartsStored, JobsTrue, Gone, records

LEMMA ResumptionStep == BulkInv /\ Resumption => BulkInv'
<1> SUFFICES ASSUME BulkInv, Resumption PROVE BulkInv'
  OBVIOUS
<1>1. \A j \in Jobs : ItemsOf(j)' = ItemsOf(j)
  BY ItemsKept DEF Resumption, Start, ResetRunning, ListPending
<1>2. UNCHANGED <<served, rows, revived, run>>
  BY DEF Resumption, Start, ResetRunning, ListPending, records
<1>3. /\ jobs' \in [Jobs -> JobStatus]
      /\ \A j \in Jobs : /\ jobs'[j] = "none" <=> jobs[j] = "none"
                         /\ jobs'[j] = "succeeded" <=> jobs[j] = "succeeded"
  BY DEF Resumption, Start, ResetRunning, ListPending, BulkInv, RowsTyped, JobStatus
<1>4. RowsTyped'
  BY <1>1, <1>2, <1>3 DEF Resumption, Start, ResetRunning, ListPending, BulkInv, RowsTyped
<1>5. Serving => Serving'
  BY DEF Resumption, Start, ResetRunning, ListPending, Serving
<1>6. StartsStored'
  <2>1. CASE Start \/ ResetRunning
    BY <2>1, <1>3 DEF Start, ResetRunning, BulkInv, StartsStored, Serving
  <2>2. CASE ListPending
    <3>1. toStart' \subseteq {j \in Jobs : jobs[j] = "pending"} \cup toStart
      BY <2>2 DEF ListPending
    <3> QED
      BY <2>2, <3>1, <1>3 DEF ListPending, BulkInv, StartsStored, Serving
  <2> QED
    BY <2>1, <2>2 DEF Resumption
<1>7. RunsOK'
  <2> SUFFICES ASSUME NEW p \in Runs PROVE RunOK(p)' /\ WorkDone(p)'
    BY <1>2 DEF BulkInv, RunsOK
  <2>1. RunOK(p) /\ WorkDone(p)
    BY DEF BulkInv, RunsOK
  <2> QED
    BY <2>1, <1>1, <1>2, <1>3, <1>5, RunKept, GoneSame DEF RunOK
<1>8. JobsTrue'
  BY <1>1, <1>2, <1>3 DEF BulkInv, JobsTrue, Gone
<1> QED
  BY <1>4, <1>6, <1>7, <1>8 DEF BulkInv

LEMMA BulkInvStep == BulkInv /\ [BulkNext]_bulkVars => BulkInv'
<1> SUFFICES ASSUME BulkInv, [BulkNext]_bulkVars PROVE BulkInv'
  OBVIOUS
<1>1. ASSUME NEW p \in Runs, RunStep(p) PROVE BulkInv'
  BY <1>1, GoStep, TryStartStep, ListItemsStep, TakeItemStep, DeleteItemStep, NoteItemStep,
     FinishJobStep DEF RunStep
<1>2. CASE UNCHANGED bulkVars
  <2>1. \A j \in Jobs : ItemsOf(j)' = ItemsOf(j)
    BY <1>2, ItemsKept DEF bulkVars
  <2>2. RunsOK'
    <3>1. \A p \in Runs : Behind(p)' = Behind(p)
      BY <1>2 DEF bulkVars, process, Behind, ItemsOf
    <3> QED
      BY <1>2, <3>1 DEF bulkVars, records, process, BulkInv, RunsOK, RunOK, WorkDone, Gone, Serving,
                        ItemsOf
  <2> QED
    BY <1>2, <2>1, <2>2
       DEF bulkVars, records, process, BulkInv, RowsTyped, StartsStored, JobsTrue, Gone, Serving
<1> QED
  BY <1>1, <1>2, EnqueueJobStep, StopServerStep, ResumptionStep DEF BulkNext

\* The records of a bulk job that says succeeded have no rows, however many
\* goroutines ran it, failed or were cut short by a stop, and whatever other jobs
\* shared its records; the provider serves one only where a failing deletion by
\* another goroutine has made it anew after its row had gone.
THEOREM SucceededIsGone == BulkSpec => []SucceededMeansGone
<1>1. BulkSpec => []BulkInv
  BY BulkInvInit, BulkInvStep, PTL DEF BulkSpec
<1> QED
  BY <1>1, BulkInvImplies, PTL

-----------------------------------------------------------------------------
\* Maintenance: exports and restores of the database.

ClosedSteps == {"mark", "start", "restoring", "persist"}
\* The steps of a request before its archive has a row.
Before == {"new", "dump", "pack", "record"}
ExportedSteps == {"pack", "record", "begin"} \cup ClosedSteps
OpSteps == {"dump", "over", "new"} \cup ExportedSteps
JobStates == {"none", "pending", "running", "succeeded", "failed"}

Tables == [rows : SUBSET Writers, jobs : [Operators -> JobStates],
           known : SUBSET Operators, whole : BOOLEAN, own : BOOLEAN]
Packs == {Pack(content) : content \in Tables}
Ops == [step : OpSteps, restores : BOOLEAN, upload : Packs \cup {None}, dumped : Packs \cup {None}]

Typed ==
    /\ tables \in Tables
    /\ disk \in [Operators -> Packs \cup {None}]
    /\ api \in [up : BOOLEAN, gate : BOOLEAN]
    /\ req \in [Writers -> {"new", "in", "done", "failed"}]
    /\ op \in [Operators -> Ops]
    /\ during \subseteq Writers /\ late \subseteq Writers
    /\ destroyed \in BOOLEAN /\ reopened \in BOOLEAN

\* What the next step of an export or restore takes from those before it.
OpOK(o) ==
    /\ op[o].step \in {"begin"} \cup ClosedSteps => op[o].restores
    /\ op[o].step \in {"new", "over"} => ~op[o].restores
    /\ op[o].restores => op[o].upload \in Packs
    /\ op[o].step = "pack" => op[o].dumped \in Packs
    /\ op[o].step \in {"new", "dump", "pack"} => disk[o] = None
    /\ op[o].step \in {"record", "begin"} \cup ClosedSteps => disk[o] # None
    /\ ~Up => op[o].step \in {"new", "over"}

OpsOK == \A o \in Operators : OpOK(o)

\* The gate is closed by the one restore at work, and stays closed once tables
\* were touched.
GateOK ==
    /\ ~Up => ~api.gate
    /\ Closed # {} => api.gate
    /\ \A o, q \in Closed : o = q
    /\ destroyed => OpsAt({"mark", "start"}) = {} /\ (Up => api.gate)
    /\ OpsAt({"restoring", "persist"}) # {} => destroyed
    /\ Up /\ ~tables.whole /\ ~reopened => destroyed
    /\ api.gate => destroyed \/ Closed # {}

\* Tables, or a copy of them, that hold nothing from an archive made anew name
\* archives that stay on the disk, and no restore as succeeded without its
\* export: d is the disk and p the requests.
Sound(c, d, p) ==
    c.own => \A q \in Operators :
        /\ q \in c.known => d[q] # None /\ p[q].step \notin Before
        /\ c.jobs[q] = "succeeded" => q \in c.known

ContentsOK ==
    /\ Sound(tables, disk, op)
    /\ \A o \in Operators :
          /\ disk[o] # None => Sound(disk[o].dump.content, disk, op)
          /\ op[o].step = "pack" => Sound(op[o].dumped.dump.content, disk, op)
          /\ op[o].restores => Sound(op[o].upload.dump.content, disk, op)

\* A row has a copy in an archive that nobody will take off the disk, or in the
\* one a restore has just made.
Copied(w) == \E q \in Operators : /\ disk[q] # None /\ op[q].step # "record"
                                  /\ w \in disk[q].dump.content.rows
Own(o, w) == IF op[o].step = "pack" THEN w \in op[o].dumped.dump.content.rows
             ELSE w \in disk[o].dump.content.rows

KeptOK ==
    \A w \in Writers \ late : req[w] = "done" =>
        /\ w \in tables.rows \/ Copied(w)
        /\ \A o \in Exported : Own(o, w) \/ Copied(w)

MaintenanceInv == Typed /\ OpsOK /\ GateOK /\ ContentsOK /\ KeptOK

-----------------------------------------------------------------------------
\* Lemmas about archives.

LEMMA ThreeEntries == Cardinality(ExpectedEntries) = 3
<1>1. IsFiniteSet({"dump", "manifest"}) /\ Cardinality({"dump", "manifest"}) = 2
  <2>1. Cardinality({"dump"}) = 1 /\ IsFiniteSet({"dump"})
    BY FS_Singleton
  <2>2. {"dump"} \cup {"manifest"} = {"dump", "manifest"} /\ "manifest" \notin {"dump"}
    OBVIOUS
  <2> QED
    BY <2>1, <2>2, FS_AddElement
<1>2. {"dump", "manifest"} \cup {"sums"} = ExpectedEntries /\ "sums" \notin {"dump", "manifest"}
  BY DEF ExpectedEntries
<1> QED
  BY <1>1, <1>2, FS_AddElement

LEMMA SumTells == \A x, y : Sum(x) = Sum(y) => x = y
BY DEF Sum

\* What is packed passes the checks, and is known by its content.
LEMMA PackValid ==
    ASSUME NEW c
    PROVE  Valid(Pack(c)) /\ Pack(c) # None /\ Pack(c).dump.content = c
<1> DEFINE dump == [magic |-> "PGDMP", content |-> c]
           sums == [dump |-> Sum(dump), manifest |-> Sum(Manifest(dump))]
<1>1. /\ Pack(c).entries = <<"dump", "manifest", "sums">> /\ Pack(c).dump = dump
      /\ Pack(c).manifest = Manifest(dump) /\ Pack(c).sums = sums
  BY DEF Pack
<1>2. /\ dump.magic = "PGDMP" /\ dump.content = c
      /\ sums.dump = Sum(dump) /\ sums.manifest = Sum(Manifest(dump))
      /\ DOMAIN sums = {"dump", "manifest"}
  OBVIOUS
<1>3. Manifest(dump).schema = 1 /\ Manifest(dump).dump = Sum(dump)
  BY DEF Manifest
<1> HIDE DEF dump, sums
<1>4. EntriesValid(Pack(c))
  BY <1>1, ThreeEntries DEF EntriesValid, ExpectedEntries
<1>5. SumsValid(Pack(c))
  BY <1>1, <1>2 DEF SumsValid, ExpectedEntries
<1>6. ManifestValid(Pack(c)) /\ DumpValid(Pack(c))
  BY <1>1, <1>2, <1>3 DEF ManifestValid, DumpValid
<1>7. Pack(c) # None
  <2>1. None.entries = <<>> /\ <<"dump", "manifest", "sums">> # <<>>
    BY DEF None
  <2> QED
    BY <1>1, <2>1
<1> QED
  BY <1>1, <1>2, <1>4, <1>5, <1>6, <1>7 DEF Valid

LEMMA PacksAreValid ==
    ASSUME NEW ar \in Packs
    PROVE  /\ ar.dump.content \in Tables /\ ar = Pack(ar.dump.content)
           /\ Valid(ar) /\ ar # None
BY PackValid DEF Packs

\* What passes is what was packed, or was made anew as a whole.
LEMMA AlteredIsRefused ==
    ASSUME NEW c, NEW ar \in Alterations(Pack(c)), Valid(ar)
    PROVE  ar = Pack(c) \/ ar = Repacked(Pack(c))
<1> DEFINE dump == [magic |-> "PGDMP", content |-> c]
           bare == [magic |-> "PGDMP", content |-> Empty]
           sums == [dump |-> Sum(dump), manifest |-> Sum(Manifest(dump))]
           packed == Pack(c)
<1>1. /\ packed.entries = <<"dump", "manifest", "sums">> /\ packed.dump = dump
      /\ packed.manifest = Manifest(dump) /\ packed.sums = sums
      /\ packed = [entries |-> <<"dump", "manifest", "sums">>, dump |-> dump,
                   manifest |-> Manifest(dump), sums |-> sums]
  BY DEF Pack
<1>2. /\ EntriesValid(ar) /\ SumsValid(ar) /\ ManifestValid(ar) /\ DumpValid(ar)
  BY DEF Valid
<1>2a. Len(ar.entries) = 3
  BY <1>2, ThreeEntries DEF EntriesValid
<1>3. CASE ar = [packed EXCEPT !.dump.content = Empty]
  <2>1. ar.dump = bare /\ ar.sums = sums /\ ar.manifest = Manifest(dump)
    BY <1>1, <1>3
  <2>2. bare = dump
    BY <1>2, <2>1, SumTells DEF DumpValid
  <2>3. c = Empty
    BY <2>2
  <2> QED
    BY <1>1, <1>3, <2>3
<1>4. CASE ar = [packed EXCEPT !.dump.magic = "text"]
  BY <1>1, <1>2, <1>4 DEF DumpValid
<1>5. CASE ar = [packed EXCEPT !.manifest.schema = 2]
  BY <1>1, <1>2, <1>5 DEF ManifestValid, Manifest
<1>6. CASE ar = [packed EXCEPT !.manifest.dump = Sum(bare)]
  <2>1. ar.sums = sums /\ ar.manifest = [Manifest(dump) EXCEPT !.dump = Sum(bare)]
    BY <1>1, <1>6
  <2>2. ar.manifest = Manifest(dump)
    BY <1>2, <2>1, SumTells DEF ManifestValid
  <2>3. [packed EXCEPT !.manifest = Manifest(dump)] = packed
    BY <1>1
  <2>4. ar = [packed EXCEPT !.manifest = [Manifest(dump) EXCEPT !.dump = Sum(bare)]]
    BY <1>1, <1>6
  <2> QED
    BY <2>1, <2>2, <2>3, <2>4
<1>7. CASE ar = [packed EXCEPT !.sums.dump = Sum(bare)]
  <2>1. ar.sums = [sums EXCEPT !.dump = Sum(bare)] /\ ar.dump = dump
    BY <1>1, <1>7
  <2>2. Sum(dump) = Sum(bare)
    BY <1>2, <2>1 DEF DumpValid
  <2> QED
    BY <1>1, <1>7, <2>2
<1>8. CASE ar = [packed EXCEPT !.sums = [dump |-> packed.sums.dump]]
  <2>1. DOMAIN ar.sums = {"dump"}
    BY <1>1, <1>8
  <2> QED
    BY <1>2, <2>1 DEF SumsValid, ExpectedEntries
<1>9. CASE ar = [packed EXCEPT !.entries = <<"dump", "manifest">>]
  <2>1. Len(ar.entries) = 2
    BY <1>1, <1>9
  <2> QED
    BY <1>2a, <2>1
<1>10. CASE ar = [packed EXCEPT !.entries = <<"dump", "dump", "manifest">>]
  <2>1. ar.entries[1] = ar.entries[2] /\ 1 \in DOMAIN ar.entries /\ 2 \in DOMAIN ar.entries
    BY <1>1, <1>10
  <2> QED
    BY <1>2, <2>1 DEF EntriesValid
<1>11. CASE ar = [packed EXCEPT !.entries = <<"dump", "manifest", "sums", "../x">>]
  <2>1. Len(ar.entries) = 4
    BY <1>1, <1>11
  <2> QED
    BY <1>2a, <2>1
<1>12. CASE ar = packed \/ ar = Repacked(packed)
  BY <1>12
<1> QED
  BY <1>3, <1>4, <1>5, <1>6, <1>7, <1>8, <1>9, <1>10, <1>11, <1>12 DEF Alterations

-----------------------------------------------------------------------------
\* The invariant holds at first and gives the properties.

LEMMA EmptyRecords ==
    /\ Empty \in Tables /\ Empty.rows = {} /\ Empty.known = {} /\ Empty.whole
    /\ \A o \in Operators : Empty.jobs[o] = "none"
    /\ New \in Ops /\ New.step = "new" /\ ~New.restores
    /\ [New EXCEPT !.step = "over"] \in Ops
    /\ [New EXCEPT !.step = "over"].step = "over" /\ ~[New EXCEPT !.step = "over"].restores
BY DEF Empty, Tables, JobStates, New, Ops, OpSteps, ExportedSteps, ClosedSteps

LEMMA MaintenanceInvInit == MaintenanceInit => MaintenanceInv
<1> SUFFICES ASSUME MaintenanceInit PROVE MaintenanceInv
  OBVIOUS
<1>1. Typed
  BY EmptyRecords DEF MaintenanceInit, Typed
<1>2. \A o \in Operators : op[o].step = "new" /\ ~op[o].restores /\ disk[o] = None
  BY EmptyRecords DEF MaintenanceInit
<1>3. OpsOK
  BY <1>2 DEF OpsOK, OpOK, ClosedSteps
<1>4. GateOK
  BY <1>2, EmptyRecords DEF MaintenanceInit, GateOK, Closed, OpsAt, Up
<1>5. ContentsOK
  BY <1>2, EmptyRecords DEF MaintenanceInit, ContentsOK, Sound
<1>6. KeptOK
  BY DEF MaintenanceInit, KeptOK
<1> QED
  BY <1>1, <1>3, <1>4, <1>5, <1>6 DEF MaintenanceInv

LEMMA AtMostOne ==
    ASSUME NEW S, \A x, y \in S : x = y
    PROVE  Cardinality(S) <= 1
<1>1. CASE S = {}
  BY <1>1, FS_EmptySet
<1>2. CASE S # {}
  <2>1. PICK x \in S : TRUE
    BY <1>2
  <2>2. S = {x}
    BY <2>1
  <2> QED
    BY <2>2, FS_Singleton
<1> QED
  BY <1>1, <1>2

LEMMA MaintenanceInvImplies ==
    MaintenanceInv => GateFollowsTables /\ OneRestore /\ NothingLostUnseen /\ ArchivesSound
<1> SUFFICES ASSUME MaintenanceInv
             PROVE  GateFollowsTables /\ OneRestore /\ NothingLostUnseen /\ ArchivesSound
  OBVIOUS
<1>1. GateFollowsTables
  BY DEF MaintenanceInv, GateOK, GateFollowsTables
<1>2. OneRestore
  BY AtMostOne DEF MaintenanceInv, GateOK, OneRestore
<1>3. NothingLostUnseen
  BY DEF MaintenanceInv, KeptOK, Copied, NothingLostUnseen
<1>4. MaintenanceTypeOK
  <2>1. /\ tables.rows \subseteq Writers /\ tables.known \subseteq Operators
        /\ tables.jobs \in [Operators -> JobStates]
    BY DEF MaintenanceInv, Typed, Tables
  <2>3. ~Up => ~api.gate /\ OpsAt({"new", "over"}) = Operators
    BY DEF MaintenanceInv, GateOK, OpsOK, OpOK, OpsAt
  <2> QED
    BY <2>1, <2>3 DEF MaintenanceInv, Typed, MaintenanceTypeOK, JobStates
<1>5. ASSUME NEW o \in Operators
      PROVE  /\ op[o].restores => op[o].upload = Pack(op[o].upload.dump.content)
             /\ (tables.own /\ o \in tables.known) => disk[o] # None
             /\ (tables.own /\ tables.jobs[o] = "succeeded") => (o \in tables.known /\ Valid(disk[o]))
  <2>1. op[o].restores => op[o].upload \in Packs
    BY DEF MaintenanceInv, OpsOK, OpOK
  <2>2. tables.own => /\ o \in tables.known => disk[o] # None
                      /\ tables.jobs[o] = "succeeded" => o \in tables.known
    BY DEF MaintenanceInv, ContentsOK, Sound
  <2>3. disk[o] # None => Valid(disk[o])
    <3>1. SUFFICES ASSUME disk[o] # None PROVE Valid(disk[o])
      OBVIOUS
    <3>2. PICK ar \in Packs : disk[o] = ar
      BY <3>1 DEF MaintenanceInv, Typed
    <3> QED
      BY <3>2, PacksAreValid
  <2>4. op[o].restores => op[o].upload = Pack(op[o].upload.dump.content)
    <3>1. SUFFICES ASSUME op[o].restores PROVE op[o].upload = Pack(op[o].upload.dump.content)
      OBVIOUS
    <3>2. PICK ar \in Packs : op[o].upload = ar
      BY <2>1, <3>1
    <3> QED
      BY <3>2, PacksAreValid
  <2> QED
    BY <2>2, <2>3, <2>4
<1> QED
  BY <1>1, <1>2, <1>3, <1>4, <1>5 DEF ArchivesSound

-----------------------------------------------------------------------------
\* A step of one request: what becomes of the others and of the copies.

LEMMA OneMoves ==
    ASSUME Typed, NEW o \in Operators, NEW p \in Ops, op' = [op EXCEPT ![o] = p]
    PROVE  /\ op' \in [Operators -> Ops] /\ op'[o] = p
           /\ \A q \in Operators \ {o} : op'[q] = op[q]
BY DEF Typed

\* A new state of a request has the fields it names.
LEMMA NewStep ==
    ASSUME Typed, NEW o \in Operators, NEW s \in OpSteps
    PROVE  /\ [op[o] EXCEPT !.step = s] \in Ops
           /\ [op[o] EXCEPT !.step = s].step = s
           /\ [op[o] EXCEPT !.step = s].restores = op[o].restores
           /\ [op[o] EXCEPT !.step = s].upload = op[o].upload
           /\ [op[o] EXCEPT !.step = s].dumped = op[o].dumped
           /\ op[o] \in Ops
BY DEF Typed, Ops

LEMMA OpsKept ==
    ASSUME MaintenanceInv, NEW o \in Operators, NEW p \in Ops, op' = [op EXCEPT ![o] = p],
           \A q \in Operators \ {o} : disk'[q] = disk[q], Up', OpOK(o)'
    PROVE  OpsOK'
<1>1. op'[o] = p /\ \A q \in Operators \ {o} : op'[q] = op[q]
  BY OneMoves DEF MaintenanceInv
<1>2. \A q \in Operators \ {o} : OpOK(q)'
  BY <1>1 DEF MaintenanceInv, OpsOK, OpOK
<1> QED
  BY <1>2 DEF OpsOK

LEMMA ContentsKept ==
    ASSUME MaintenanceInv, NEW o \in Operators, NEW p \in Ops, op' = [op EXCEPT ![o] = p],
           \A q \in Operators \ {o} : disk'[q] = disk[q],
           op[o].step \notin Before => disk'[o] = disk[o] /\ p.step \notin Before,
           Sound(tables', disk', op'),
           disk'[o] # None => Sound(disk'[o].dump.content, disk, op),
           p.step = "pack" => Sound(p.dumped.dump.content, disk, op),
           p.restores => Sound(p.upload.dump.content, disk, op)
    PROVE  ContentsOK'
<1>1. op'[o] = p /\ \A q \in Operators \ {o} : op'[q] = op[q]
  BY OneMoves DEF MaintenanceInv
<1>2. ASSUME NEW c, Sound(c, disk, op) PROVE Sound(c, disk', op')
  BY <1>1, <1>2 DEF Sound
<1>3. ASSUME NEW q \in Operators, disk'[q] # None PROVE Sound(disk'[q].dump.content, disk', op')
  <2>1. Sound(disk'[q].dump.content, disk, op)
    BY <1>3 DEF MaintenanceInv, ContentsOK
  <2> QED
    BY <1>2, <2>1
<1>4. ASSUME NEW q \in Operators, op'[q].step = "pack"
      PROVE  Sound(op'[q].dumped.dump.content, disk', op')
  <2>1. Sound(op'[q].dumped.dump.content, disk, op)
    BY <1>1, <1>4 DEF MaintenanceInv, ContentsOK
  <2> QED
    BY <1>2, <2>1
<1>5. ASSUME NEW q \in Operators, op'[q].restores
      PROVE  Sound(op'[q].upload.dump.content, disk', op')
  <2>1. Sound(op'[q].upload.dump.content, disk, op)
    BY <1>1, <1>5 DEF MaintenanceInv, ContentsOK
  <2> QED
    BY <1>2, <2>1
<1> QED
  BY <1>3, <1>4, <1>5 DEF ContentsOK

\* Tables that only lose claims to archives stay sound.
LEMMA SoundTables ==
    ASSUME MaintenanceInv, NEW o \in Operators, NEW p \in Ops, op' = [op EXCEPT ![o] = p],
           \A q \in Operators \ {o} : disk'[q] = disk[q],
           op[o].step \notin Before => disk'[o] = disk[o] /\ p.step \notin Before,
           NEW c, Sound(c, disk, op)
    PROVE  Sound(c, disk', op')
BY OneMoves DEF MaintenanceInv, Sound

LEMMA CopiedStays ==
    ASSUME MaintenanceInv, NEW o \in Operators, NEW p \in Ops, op' = [op EXCEPT ![o] = p],
           \A q \in Operators \ {o} : disk'[q] = disk[q],
           disk[o] # None /\ op[o].step # "record" => disk'[o] = disk[o] /\ p.step # "record",
           NEW w, Copied(w)
    PROVE  Copied(w)'
<1>1. op'[o] = p /\ \A q \in Operators \ {o} : op'[q] = op[q]
  BY OneMoves DEF MaintenanceInv
<1> QED
  BY <1>1 DEF Copied

LEMMA KeptKept ==
    ASSUME MaintenanceInv, NEW o \in Operators, NEW p \in Ops, op' = [op EXCEPT ![o] = p],
           UNCHANGED <<req, late>>,
           \A q \in Operators \ {o} : disk'[q] = disk[q],
           disk[o] # None /\ op[o].step # "record" => disk'[o] = disk[o] /\ p.step # "record",
           \A w \in Writers \ late : req[w] = "done" =>
              /\ w \in tables.rows => w \in tables'.rows \/ Copied(w)'
              /\ o \in Exported' => Own(o, w)' \/ Copied(w)'
    PROVE  KeptOK'
<1>1. op'[o] = p /\ \A q \in Operators \ {o} : op'[q] = op[q]
  BY OneMoves DEF MaintenanceInv
<1>2. ASSUME NEW w \in Writers \ late, req[w] = "done"
      PROVE  /\ w \in tables'.rows \/ Copied(w)'
             /\ \A q \in Exported' : Own(q, w)' \/ Copied(w)'
  <2>1. w \in tables.rows \/ Copied(w)
    BY <1>2 DEF MaintenanceInv, KeptOK
  <2>2. Copied(w) => Copied(w)'
    BY CopiedStays
  <2>3. ASSUME NEW q \in Exported' \ {o} PROVE Own(q, w)' \/ Copied(w)'
    <3>1. q \in Exported /\ (Own(q, w) <=> Own(q, w)')
      BY <1>1, <2>3 DEF Exported, OpsAt, Own
    <3> QED
      BY <1>2, <2>2, <3>1 DEF MaintenanceInv, KeptOK
  <2> QED
    BY <1>2, <2>1, <2>2, <2>3
<1> QED
  BY <1>2 DEF KeptOK

\* A step that leaves the archives and the rows of the tables as they are.
LEMMA OnlyMoves ==
    ASSUME MaintenanceInv, NEW o \in Operators, NEW p \in Ops, op' = [op EXCEPT ![o] = p], Up',
           UNCHANGED <<disk, req, late, reopened>>,
           api' \in [up : BOOLEAN, gate : BOOLEAN], destroyed' \in BOOLEAN, during' \subseteq Writers,
           tables' \in Tables, tables'.rows = tables.rows, Sound(tables', disk', op'),
           p.step \notin {"pack", "record"},
           op[o].step \notin Before => p.step \notin Before,
           p.step \in ExportedSteps => op[o].step \in ExportedSteps \ {"pack"} /\ op[o].restores,
           p.restores => Sound(p.upload.dump.content, disk, op),
           OpOK(o)', GateOK'
    PROVE  MaintenanceInv'
<1>1. op'[o] = p /\ op' \in [Operators -> Ops]
  BY OneMoves DEF MaintenanceInv
<1>2. Typed'
  BY <1>1 DEF MaintenanceInv, Typed
<1>3. OpsOK'
  BY OpsKept
<1>4. ContentsOK'
  BY ContentsKept DEF MaintenanceInv, ContentsOK
<1>5. KeptOK'
  <2>1. ASSUME NEW w \in Writers \ late, req[w] = "done", o \in Exported'
        PROVE  Own(o, w)' \/ Copied(w)'
    <3>1. o \in Exported /\ (Own(o, w) <=> Own(o, w)')
      BY <1>1, <2>1 DEF Exported, OpsAt, Own, ExportedSteps, ClosedSteps
    <3>2. Copied(w) => Copied(w)'
      BY CopiedStays
    <3> QED
      BY <2>1, <3>1, <3>2 DEF MaintenanceInv, KeptOK
  <2> QED
    BY <2>1, KeptKept
<1> QED
  BY <1>2, <1>3, <1>4, <1>5 DEF MaintenanceInv

\* The status of a job that does not become "succeeded".
LEMMA JobRowSet ==
    ASSUME MaintenanceInv, NEW o \in Operators, NEW s \in JobStates \ {"succeeded"},
           tables' = [tables EXCEPT !.jobs[o] = s]
    PROVE  /\ tables' \in Tables /\ tables'.rows = tables.rows /\ tables'.whole = tables.whole
           /\ Sound(tables', disk, op)
<1>1. tables \in Tables /\ Sound(tables, disk, op)
  BY DEF MaintenanceInv, Typed, ContentsOK
<1>2. /\ tables' \in Tables /\ tables'.rows = tables.rows /\ tables'.whole = tables.whole
      /\ tables'.known = tables.known
      /\ \A q \in Operators : tables'.jobs[q] = IF q = o THEN s ELSE tables.jobs[q]
  BY <1>1 DEF Tables
<1> QED
  BY <1>1, <1>2 DEF Sound

LEMMA StatusSet ==
    ASSUME MaintenanceInv, NEW o \in Operators, NEW s \in {"running", "failed"}, SetJob(o, s)
    PROVE  /\ tables' \in Tables /\ tables'.rows = tables.rows /\ tables'.whole = tables.whole
           /\ Sound(tables', disk, op)
<1>1. PICK t : t = IF tables.jobs[o] = "none" THEN tables.jobs[o] ELSE s
  OBVIOUS
<1>2. tables' = [tables EXCEPT !.jobs[o] = t]
  BY <1>1 DEF SetJob
<1>3. t \in JobStates \ {"succeeded"}
  BY <1>1 DEF JobStates
<1> QED
  BY <1>2, <1>3, JobRowSet

LEMMA GateSame ==
    ASSUME MaintenanceInv, NEW o \in Operators, NEW p \in Ops, op' = [op EXCEPT ![o] = p],
           UNCHANGED <<api, destroyed, reopened>>, tables'.whole = tables.whole,
           op[o].step \notin ClosedSteps, p.step \notin ClosedSteps
    PROVE  GateOK'
<1>1. op'[o] = p /\ \A q \in Operators \ {o} : op'[q] = op[q]
  BY OneMoves DEF MaintenanceInv
<1>2. /\ Closed' = Closed /\ OpsAt({"mark", "start"})' = OpsAt({"mark", "start"})
      /\ OpsAt({"restoring", "persist"})' = OpsAt({"restoring", "persist"})
  BY <1>1 DEF Closed, OpsAt, ClosedSteps
<1> QED
  BY <1>2 DEF MaintenanceInv, GateOK, Up

-----------------------------------------------------------------------------
\* Exports, and a restore up to its gate.

\* A request at work is one of a server that is up.
LEMMA AtWork ==
    ASSUME MaintenanceInv, NEW o \in Operators, op[o].step \notin {"new", "over"}
    PROVE  Up /\ op[o] \in Ops /\ OpOK(o)
BY DEF MaintenanceInv, OpsOK, OpOK, Typed

LEMMA SoundNow ==
    ASSUME MaintenanceInv, NEW o \in Operators, NEW p \in Ops, op' = [op EXCEPT ![o] = p], UNCHANGED disk,
           op[o].step \notin Before => p.step \notin Before
    PROVE  \A c : Sound(c, disk, op) => Sound(c, disk', op')
BY SoundTables

\* A request that ends short of replacing tables.
LEMMA Ends ==
    ASSUME MaintenanceInv, NEW o \in Operators, Done(o), Up', UNCHANGED <<disk, req, late, reopened>>,
           api' \in [up : BOOLEAN, gate : BOOLEAN], destroyed' \in BOOLEAN, during' \subseteq Writers,
           tables' \in Tables, tables'.rows = tables.rows, Sound(tables', disk, op),
           op[o].step \notin {"new", "dump", "pack"} \/ disk[o] = None,
           GateOK'
    PROVE  MaintenanceInv'
<1> DEFINE p == [New EXCEPT !.step = "over"]
<1>1. p \in Ops /\ p.step = "over" /\ ~p.restores
  BY EmptyRecords
<1>2. op' = [op EXCEPT ![o] = p]
  BY DEF Done
<1> HIDE DEF p
<1>3. OpOK(o)'
  BY <1>1, <1>2, OneMoves DEF MaintenanceInv, OpOK, ClosedSteps
<1>4. Sound(tables', disk', op')
  BY <1>1, <1>2, SoundNow DEF Before
<1> QED
  BY <1>1, <1>2, <1>3, <1>4, OnlyMoves DEF Before, ExportedSteps, ClosedSteps

LEMMA BackupFailsStep ==
    ASSUME MaintenanceInv, NEW o \in Operators, op[o].step \in {"dump", "pack"}, BackupFails(o),
           UNCHANGED <<disk, api, req, during, late, destroyed, reopened>>
    PROVE  MaintenanceInv'
<1>1. Done(o) /\ (FailJob(o) \/ UNCHANGED tables)
  BY DEF BackupFails
<1>2. /\ tables' \in Tables /\ tables'.rows = tables.rows /\ tables'.whole = tables.whole
      /\ Sound(tables', disk, op)
  BY <1>1, StatusSet DEF FailJob, MaintenanceInv, Typed, ContentsOK
<1>3. Up /\ disk[o] = None
  BY AtWork DEF OpOK
<1>4. GateOK'
  BY <1>1, <1>2, EmptyRecords, GateSame DEF Done, ClosedSteps
<1> QED
  BY <1>1, <1>2, <1>3, <1>4, Ends DEF MaintenanceInv, Typed, Up

LEMMA ExportStep ==
    ASSUME MaintenanceInv, NEW o \in Operators, Export(o)
    PROVE  MaintenanceInv'
<1> DEFINE p == [op[o] EXCEPT !.step = "dump"]
<1>1. /\ Up /\ op[o].step = "new" /\ op' = [op EXCEPT ![o] = p]
      /\ UNCHANGED <<tables, disk, api, req, during, late, destroyed, reopened>>
  BY DEF Export, Pass, Step
<1>2. p \in Ops /\ p.step = "dump" /\ ~p.restores
  BY <1>1, NewStep DEF OpSteps, MaintenanceInv, OpsOK, OpOK
<1> HIDE DEF p
<1>3. op'[o] = p
  BY <1>1, <1>2, OneMoves DEF MaintenanceInv
<1>4. OpOK(o)' /\ Up'
  BY <1>1, <1>2, <1>3 DEF OpOK, ClosedSteps, MaintenanceInv, OpsOK, Up
<1>5. GateOK'
  BY <1>1, <1>2, GateSame DEF ClosedSteps
<1>6. Sound(tables', disk', op')
  BY <1>1, <1>2, SoundNow DEF Before, MaintenanceInv, ContentsOK
<1> QED
  BY <1>1, <1>2, <1>4, <1>5, <1>6, OnlyMoves DEF MaintenanceInv, Typed, Before, ExportedSteps, ClosedSteps

\* What is uploaded and passes the checks was packed by an export that is still
\* on the disk.
LEMMA UploadIsPacked ==
    ASSUME MaintenanceInv, NEW ar \in Uploads, Valid(ar)
    PROVE  ar \in Packs /\ Sound(ar.dump.content, disk, op)
<1>1. PICK a \in Operators : disk[a] # None /\ ar \in Alterations(disk[a])
  BY DEF Uploads
<1>2. disk[a] \in Packs
  BY <1>1 DEF MaintenanceInv, Typed
<1>3. disk[a] = Pack(disk[a].dump.content)
  BY <1>2, PacksAreValid
<1>4. CASE ar = disk[a]
  BY <1>1, <1>2, <1>4 DEF MaintenanceInv, ContentsOK
<1>5. CASE ar = Repacked(disk[a])
  <2> DEFINE c == [disk[a].dump.content EXCEPT !.rows = {}, !.known = Operators, !.own = FALSE,
                                               !.jobs = [q \in Operators |-> "succeeded"]]
  <2>1. disk[a].dump.content \in Tables
    BY <1>2, PacksAreValid
  <2>2. c \in Tables /\ ~c.own
    BY <2>1 DEF Tables, JobStates
  <2>3. ar = Pack(c)
    BY <1>5 DEF Repacked
  <2> HIDE DEF c
  <2> QED
    BY <2>2, <2>3, PackValid DEF Packs, Sound
<1> QED
  BY <1>1, <1>3, <1>4, <1>5, AlteredIsRefused

LEMMA RestoreBackupStep ==
    ASSUME MaintenanceInv, NEW o \in Operators, RestoreBackup(o)
    PROVE  MaintenanceInv'
<1>1. /\ Up /\ op[o].step = "new" /\ disk[o] = None
      /\ UNCHANGED <<disk, api, req, during, late, destroyed, reopened>>
  BY DEF RestoreBackup, Pass, MaintenanceInv, OpsOK, OpOK
<1>2. PICK ar \in Uploads : BeginJob(o, ar)
  BY DEF RestoreBackup
<1>3. CASE Valid(ar)
  <2> DEFINE p == [New EXCEPT !.step = "dump", !.restores = TRUE, !.upload = ar]
  <2>1. ar \in Packs /\ Sound(ar.dump.content, disk, op)
    BY <1>3, UploadIsPacked
  <2>2. p \in Ops /\ p.step = "dump" /\ p.restores /\ p.upload = ar
    BY <2>1 DEF New, Ops, OpSteps
  <2>3. op' = [op EXCEPT ![o] = p] /\ tables' = [tables EXCEPT !.jobs[o] = "pending"]
    BY <1>2, <1>3 DEF BeginJob
  <2> HIDE DEF p
  <2>4. /\ tables' \in Tables /\ tables'.rows = tables.rows /\ tables'.whole = tables.whole
        /\ Sound(tables', disk, op)
    BY <2>3, JobRowSet DEF JobStates
  <2>5. op'[o] = p
    BY <2>2, <2>3, OneMoves DEF MaintenanceInv
  <2>6. OpOK(o)' /\ Up'
    BY <1>1, <2>1, <2>2, <2>5 DEF OpOK, ClosedSteps, Up
  <2>7. GateOK'
    BY <1>1, <2>2, <2>3, <2>4, GateSame DEF ClosedSteps
  <2>8. Sound(tables', disk', op')
    BY <1>1, <2>2, <2>3, <2>4, SoundNow DEF Before
  <2> QED
    BY <1>1, <2>1, <2>2, <2>3, <2>4, <2>6, <2>7, <2>8, OnlyMoves
       DEF MaintenanceInv, Typed, Before, ExportedSteps, ClosedSteps
<1>4. CASE ~Valid(ar)
  <2>1. Done(o) /\ tables' = [tables EXCEPT !.jobs[o] = "failed"]
    BY <1>2, <1>4 DEF BeginJob
  <2>2. /\ tables' \in Tables /\ tables'.rows = tables.rows /\ tables'.whole = tables.whole
        /\ Sound(tables', disk, op)
    BY <2>1, JobRowSet DEF JobStates
  <2>3. GateOK'
    BY <1>1, <2>1, <2>2, EmptyRecords, GateSame DEF Done, ClosedSteps
  <2> QED
    BY <1>1, <2>1, <2>2, <2>3, Ends DEF MaintenanceInv, Typed, Up
<1> QED
  BY <1>3, <1>4

LEMMA DumpStep ==
    ASSUME MaintenanceInv, NEW o \in Operators, Dump(o)
    PROVE  MaintenanceInv'
<1>1. op[o].step = "dump" /\ UNCHANGED <<disk, api, req, during, late, destroyed, reopened>>
  BY DEF Dump
<1>2. CASE BackupFails(o)
  BY <1>1, <1>2, BackupFailsStep
<1> DEFINE p == [op[o] EXCEPT !.step = "pack", !.dumped = Pack(tables)]
<1>3. CASE /\ op' = [op EXCEPT ![o].step = "pack", ![o].dumped = Pack(tables)]
           /\ UNCHANGED tables
  <2>1. op' = [op EXCEPT ![o] = p]
    BY <1>3 DEF MaintenanceInv, Typed
  <2>2. Pack(tables) \in Packs /\ Pack(tables).dump.content = tables
    BY PackValid DEF MaintenanceInv, Typed, Packs
  <2>3. /\ p \in Ops /\ p.step = "pack" /\ p.dumped = Pack(tables)
        /\ p.restores = op[o].restores /\ p.upload = op[o].upload
    <3> DEFINE ar == Pack(tables)
    <3>1. ar \in Packs /\ op[o] \in Ops
      BY <2>2 DEF MaintenanceInv, Typed
    <3> HIDE DEF ar
    <3>2. LET n == [op[o] EXCEPT !.step = "pack", !.dumped = ar]
          IN /\ n \in Ops /\ n.step = "pack" /\ n.dumped = ar
             /\ n.restores = op[o].restores /\ n.upload = op[o].upload
      BY <3>1 DEF Ops, OpSteps, ExportedSteps
    <3> QED
      BY <3>2 DEF ar
  <2> HIDE DEF p
  <2>4. op'[o] = p /\ op' \in [Operators -> Ops]
    BY <2>1, <2>3, OneMoves DEF MaintenanceInv
  <2>5. Up /\ OpOK(o)
    BY <1>1, AtWork
  <2>6. Typed'
    BY <1>1, <1>3, <2>4 DEF MaintenanceInv, Typed
  <2>7. OpsOK'
    <3>1. OpOK(o)'
      BY <1>1, <2>2, <2>3, <2>4, <2>5 DEF OpOK, ClosedSteps, Up
    <3> QED
      BY <1>1, <2>1, <2>3, <2>5, <3>1, OpsKept DEF Up
  <2>8. GateOK'
    BY <1>1, <1>3, <2>1, <2>3, GateSame DEF ClosedSteps
  <2>9. ContentsOK'
    <3>1. Sound(tables', disk', op')
      BY <1>1, <1>3, <2>1, <2>3, SoundNow DEF Before, MaintenanceInv, ContentsOK
    <3> QED
      BY <1>1, <2>1, <2>2, <2>3, <3>1, ContentsKept DEF Before, MaintenanceInv, ContentsOK
  <2>10. KeptOK'
    <3>1. ASSUME NEW w \in Writers \ late, req[w] = "done" PROVE Own(o, w)' \/ Copied(w)'
      <4>1. Own(o, w)' <=> w \in tables.rows
        BY <2>2, <2>3, <2>4 DEF Own
      <4>2. Copied(w) => Copied(w)'
        BY <1>1, <2>1, <2>3, CopiedStays
      <4> QED
        BY <3>1, <4>1, <4>2 DEF MaintenanceInv, KeptOK
    <3> QED
      BY <1>1, <1>3, <2>1, <2>3, <3>1, KeptKept
  <2> QED
    BY <2>6, <2>7, <2>8, <2>9, <2>10 DEF MaintenanceInv
<1> QED
  BY <1>2, <1>3 DEF Dump

LEMMA PackArchiveStep ==
    ASSUME MaintenanceInv, NEW o \in Operators, PackArchive(o)
    PROVE  MaintenanceInv'
<1>1. op[o].step = "pack" /\ UNCHANGED <<api, req, during, late, destroyed, reopened>>
  BY DEF PackArchive
<1>2. CASE BackupFails(o) /\ UNCHANGED disk
  BY <1>1, <1>2, BackupFailsStep
<1> DEFINE p == [op[o] EXCEPT !.step = "record", !.dumped = None]
<1>3. CASE Packed(o)
  <2>1. op' = [op EXCEPT ![o] = p] /\ disk' = [disk EXCEPT ![o] = op[o].dumped] /\ UNCHANGED tables
    BY <1>3 DEF Packed, MaintenanceInv, Typed
  <2>2. Up /\ OpOK(o) /\ op[o] \in Ops /\ op[o].dumped \in Packs /\ disk[o] = None
    BY <1>1, AtWork DEF OpOK
  <2>3. /\ p \in Ops /\ p.step = "record" /\ p.restores = op[o].restores /\ p.upload = op[o].upload
    BY <2>2 DEF Ops, OpSteps, ExportedSteps
  <2> HIDE DEF p
  <2>4. op'[o] = p /\ op' \in [Operators -> Ops]
    BY <2>1, <2>3, OneMoves DEF MaintenanceInv
  <2>5. /\ disk' \in [Operators -> Packs \cup {None}] /\ disk'[o] = op[o].dumped /\ disk'[o] # None
        /\ \A q \in Operators \ {o} : disk'[q] = disk[q]
    BY <2>1, <2>2, PacksAreValid DEF MaintenanceInv, Typed
  <2>6. Typed'
    BY <1>1, <2>1, <2>4, <2>5 DEF MaintenanceInv, Typed
  <2>7. OpsOK'
    <3>1. OpOK(o)'
      BY <1>1, <2>2, <2>3, <2>4, <2>5 DEF OpOK, ClosedSteps, Up
    <3> QED
      BY <1>1, <2>1, <2>2, <2>3, <2>5, <3>1, OpsKept DEF Up
  <2>8. GateOK'
    BY <1>1, <2>1, <2>3, GateSame DEF ClosedSteps
  <2>9. ContentsOK'
    <3>1. Sound(tables', disk', op')
      BY <1>1, <2>1, <2>3, <2>5, SoundTables DEF Before, MaintenanceInv, ContentsOK
    <3> QED
      BY <1>1, <2>1, <2>3, <2>5, <3>1, ContentsKept DEF Before, MaintenanceInv, ContentsOK
  <2>10. KeptOK'
    <3>1. ASSUME NEW w \in Writers \ late, req[w] = "done", o \in Exported'
          PROVE  Own(o, w)' \/ Copied(w)'
      <4>1. (Own(o, w)' <=> Own(o, w)) /\ o \in Exported
        BY <1>1, <2>3, <2>4, <2>5, <3>1 DEF Own, Exported, OpsAt
      <4>2. Copied(w) => Copied(w)'
        BY <2>1, <2>2, <2>3, <2>5, CopiedStays
      <4> QED
        BY <3>1, <4>1, <4>2 DEF MaintenanceInv, KeptOK
    <3> QED
      BY <1>1, <2>1, <2>2, <2>3, <2>5, <3>1, KeptKept
  <2> QED
    BY <2>6, <2>7, <2>8, <2>9, <2>10 DEF MaintenanceInv
<1> QED
  BY <1>2, <1>3 DEF PackArchive

LEMMA RecordStep ==
    ASSUME MaintenanceInv, NEW o \in Operators, Record(o)
    PROVE  MaintenanceInv'
<1>1. op[o].step = "record" /\ UNCHANGED <<api, req, during, late, destroyed, reopened>>
  BY DEF Record
<1>2. Up /\ op[o] \in Ops /\ OpOK(o) /\ disk[o] # None
  BY <1>1, AtWork DEF OpOK
<1>3. Up'
  BY <1>1, <1>2 DEF Up
<1>4. ASSUME NEW p \in Ops, op' = [op EXCEPT ![o] = p], p.step \notin Before,
             tables' = [tables EXCEPT !.known = @ \cup {o}], UNCHANGED disk
      PROVE  /\ tables' \in Tables /\ tables'.rows = tables.rows /\ tables'.whole = tables.whole
             /\ Sound(tables', disk', op')
  <2>1. tables \in Tables /\ Sound(tables, disk, op)
    BY DEF MaintenanceInv, Typed, ContentsOK
  <2>2. /\ tables' \in Tables /\ tables'.rows = tables.rows /\ tables'.whole = tables.whole
        /\ tables'.known = tables.known \cup {o} /\ tables'.jobs = tables.jobs
    BY <1>4, <2>1 DEF Tables
  <2>3. Sound(tables, disk', op')
    BY <1>1, <1>4, <2>1, SoundNow
  <2>4. op'[o] = p
    BY <1>4, OneMoves DEF MaintenanceInv
  <2> QED
    BY <1>2, <1>4, <2>2, <2>3, <2>4 DEF Sound
<1>5. CASE tables' = [tables EXCEPT !.known = @ \cup {o}] /\ UNCHANGED disk /\ op[o].restores /\ Step(o, "begin")
  <2> DEFINE p == [op[o] EXCEPT !.step = "begin"]
  <2>1. /\ p \in Ops /\ p.step = "begin" /\ p.restores = op[o].restores /\ p.upload = op[o].upload
    BY NewStep DEF MaintenanceInv, OpSteps, ExportedSteps
  <2>2. op' = [op EXCEPT ![o] = p]
    BY <1>5 DEF Step
  <2> HIDE DEF p
  <2>3. op'[o] = p
    BY <2>1, <2>2, OneMoves DEF MaintenanceInv
  <2>4. /\ tables' \in Tables /\ tables'.rows = tables.rows /\ tables'.whole = tables.whole
        /\ Sound(tables', disk', op')
    BY <1>4, <1>5, <2>1, <2>2 DEF Before
  <2>5. OpOK(o)'
    BY <1>2, <1>3, <1>5, <2>1, <2>3 DEF OpOK, ClosedSteps
  <2>6. GateOK'
    BY <1>1, <2>1, <2>2, <2>4, GateSame DEF ClosedSteps
  <2>7. p.restores => Sound(p.upload.dump.content, disk, op)
    BY <2>1 DEF MaintenanceInv, ContentsOK
  <2> QED
    BY <1>1, <1>3, <1>5, <2>1, <2>2, <2>4, <2>5, <2>6, <2>7, OnlyMoves
       DEF MaintenanceInv, Typed, Before, ExportedSteps
<1> DEFINE n == [New EXCEPT !.step = "over"]
<1>6. n \in Ops /\ n.step = "over" /\ ~n.restores /\ (Done(o) => op' = [op EXCEPT ![o] = n])
  BY EmptyRecords DEF Done
<1> HIDE DEF n
<1>7. CASE tables' = [tables EXCEPT !.known = @ \cup {o}] /\ UNCHANGED disk /\ Done(o)
  <2>1. /\ tables' \in Tables /\ tables'.rows = tables.rows /\ tables'.whole = tables.whole
        /\ Sound(tables', disk', op')
    BY <1>4, <1>6, <1>7 DEF Before
  <2>2. GateOK'
    BY <1>1, <1>6, <1>7, <2>1, GateSame DEF ClosedSteps
  <2>3. OpOK(o)'
    BY <1>6, <1>7, OneMoves DEF MaintenanceInv, OpOK, ClosedSteps
  <2> QED
    BY <1>1, <1>3, <1>6, <1>7, <2>1, <2>2, <2>3, OnlyMoves
       DEF MaintenanceInv, Typed, Before, ExportedSteps, ClosedSteps
<1>8. CASE BackupFails(o) /\ disk' = [disk EXCEPT ![o] = None]
  <2>1. op' = [op EXCEPT ![o] = n] /\ (FailJob(o) \/ UNCHANGED tables)
    BY <1>6, <1>8 DEF BackupFails
  <2>2. /\ tables' \in Tables /\ tables'.rows = tables.rows /\ tables'.whole = tables.whole
        /\ Sound(tables', disk, op)
    BY <2>1, StatusSet DEF FailJob, MaintenanceInv, Typed, ContentsOK
  <2>3. /\ disk' \in [Operators -> Packs \cup {None}] /\ disk'[o] = None
        /\ \A q \in Operators \ {o} : disk'[q] = disk[q]
    BY <1>8 DEF MaintenanceInv, Typed
  <2>4. op'[o] = n /\ op' \in [Operators -> Ops]
    BY <1>6, <2>1, OneMoves DEF MaintenanceInv
  <2>5. Typed'
    BY <1>1, <2>2, <2>3, <2>4 DEF MaintenanceInv, Typed
  <2>6. OpsOK'
    <3>1. OpOK(o)'
      BY <1>6, <2>4 DEF OpOK, ClosedSteps
    <3> QED
      BY <1>3, <1>6, <2>1, <2>3, <3>1, OpsKept
  <2>7. GateOK'
    BY <1>1, <1>6, <2>1, <2>2, GateSame DEF ClosedSteps
  <2>8. ContentsOK'
    <3>1. Sound(tables', disk', op')
      BY <1>1, <1>6, <2>1, <2>2, <2>3, SoundTables DEF Before
    <3> QED
      BY <1>1, <1>6, <2>1, <2>3, <3>1, ContentsKept DEF Before
  <2>9. KeptOK'
    BY <1>1, <1>6, <2>1, <2>2, <2>3, <2>4, KeptKept DEF Exported, OpsAt
  <2> QED
    BY <2>5, <2>6, <2>7, <2>8, <2>9 DEF MaintenanceInv
<1> QED
  BY <1>5, <1>7, <1>8 DEF Record

-----------------------------------------------------------------------------
\* Behind the gate.

\* The restore behind the gate is the only one, and has not touched the tables
\* before it says so.
LEMMA OnlyOne ==
    ASSUME MaintenanceInv, NEW o \in Operators, op[o].step \in ClosedSteps
    PROVE  /\ Closed = {o} /\ api.gate
           /\ op[o].step \in {"mark", "start"} => ~destroyed
           /\ op[o].step \in {"restoring", "persist"} => destroyed
BY DEF MaintenanceInv, GateOK, Closed, OpsAt, ClosedSteps

\* That restore ends: with the gate open if it touched nothing, else with it closed.
LEMMA GateAfter ==
    ASSUME MaintenanceInv, NEW o \in Operators, op[o].step \in ClosedSteps, Done(o),
           UNCHANGED <<destroyed, reopened>>,
           \/ /\ op[o].step \in {"mark", "start"} /\ Gate(FALSE) /\ tables'.whole = tables.whole
           \/ /\ op[o].step \in {"restoring", "persist"} /\ UNCHANGED api
    PROVE  GateOK' /\ Up' /\ api' \in [up : BOOLEAN, gate : BOOLEAN]
<1>1. Up /\ api \in [up : BOOLEAN, gate : BOOLEAN]
  BY AtWork DEF ClosedSteps, MaintenanceInv, Typed
<1>2. op'[o].step = "over" /\ \A q \in Operators \ {o} : op'[q] = op[q]
  BY EmptyRecords, OneMoves DEF Done, MaintenanceInv
<1>3. Closed' = {} /\ OpsAt({"mark", "start"})' = {} /\ OpsAt({"restoring", "persist"})' = {}
  BY <1>2, OnlyOne DEF Closed, OpsAt
<1>4. CASE op[o].step \in {"mark", "start"} /\ Gate(FALSE) /\ tables'.whole = tables.whole
  <2>1. api'.gate = FALSE /\ api'.up /\ api' \in [up : BOOLEAN, gate : BOOLEAN] /\ ~destroyed
    BY <1>1, <1>4, OnlyOne DEF Gate, Up
  <2>2. tables.whole \/ reopened
    BY <1>1, <2>1 DEF MaintenanceInv, GateOK
  <2> QED
    BY <1>3, <1>4, <2>1, <2>2 DEF GateOK, Up
<1>5. CASE op[o].step \in {"restoring", "persist"} /\ UNCHANGED api
  BY <1>1, <1>3, <1>5, OnlyOne DEF GateOK, Up
<1> QED
  BY <1>4, <1>5

LEMMA BeginRestoreStep ==
    ASSUME MaintenanceInv, NEW o \in Operators, BeginRestore(o)
    PROVE  MaintenanceInv'
<1>1. op[o].step = "begin" /\ UNCHANGED <<disk, req, during, late, destroyed, reopened>>
  BY DEF BeginRestore
<1>2. Up /\ op[o] \in Ops /\ OpOK(o)
  BY <1>1, AtWork
<1>3. CASE api.gate
  <2>1. Done(o) /\ FailJob(o) /\ UNCHANGED api
    BY <1>3 DEF BeginRestore
  <2>2. /\ tables' \in Tables /\ tables'.rows = tables.rows /\ tables'.whole = tables.whole
        /\ Sound(tables', disk, op)
    BY <2>1, StatusSet DEF FailJob
  <2>3. GateOK'
    BY <1>1, <2>1, <2>2, EmptyRecords, GateSame DEF Done, ClosedSteps
  <2> QED
    BY <1>1, <1>2, <2>1, <2>2, <2>3, Ends DEF MaintenanceInv, Typed, Up
<1>4. CASE ~api.gate
  <2> DEFINE p == [op[o] EXCEPT !.step = "mark"]
  <2>1. /\ p \in Ops /\ p.step = "mark" /\ p.restores = op[o].restores /\ p.upload = op[o].upload
    BY NewStep DEF MaintenanceInv, OpSteps, ExportedSteps, ClosedSteps
  <2>2. op' = [op EXCEPT ![o] = p] /\ Gate(TRUE) /\ UNCHANGED tables
    BY <1>4 DEF BeginRestore, Step
  <2> HIDE DEF p
  <2>3. op'[o] = p /\ \A q \in Operators \ {o} : op'[q] = op[q]
    BY <2>1, <2>2, OneMoves DEF MaintenanceInv
  <2>4. api'.gate /\ api'.up /\ api' \in [up : BOOLEAN, gate : BOOLEAN]
    BY <1>2, <2>2 DEF Gate, Up, MaintenanceInv, Typed
  <2>5. Closed = {} /\ ~destroyed
    BY <1>2, <1>4 DEF MaintenanceInv, GateOK
  <2>6. Closed' = {o} /\ OpsAt({"restoring", "persist"})' = {}
    BY <2>1, <2>3, <2>5 DEF Closed, OpsAt
  <2>7. GateOK'
    BY <1>1, <1>2, <2>2, <2>4, <2>5, <2>6 DEF MaintenanceInv, GateOK, Up
  <2>8. OpOK(o)'
    BY <1>1, <1>2, <2>1, <2>3, <2>4 DEF OpOK, ClosedSteps, Up
  <2>9. Sound(tables', disk', op')
    BY <1>1, <2>1, <2>2, SoundNow DEF Before, MaintenanceInv, ContentsOK
  <2>10. p.restores => Sound(p.upload.dump.content, disk, op)
    BY <2>1 DEF MaintenanceInv, ContentsOK
  <2> QED
    BY <1>1, <1>2, <2>1, <2>2, <2>4, <2>7, <2>8, <2>9, <2>10, OnlyMoves
       DEF MaintenanceInv, Typed, Before, ExportedSteps, ClosedSteps, OpOK, Up
<1> QED
  BY <1>3, <1>4

LEMMA MarkRunningStep ==
    ASSUME MaintenanceInv, NEW o \in Operators, MarkRunning(o)
    PROVE  MaintenanceInv'
<1>1. op[o].step = "mark" /\ UNCHANGED <<disk, req, during, late, destroyed, reopened>>
  BY DEF MarkRunning
<1>2. Up /\ op[o] \in Ops /\ OpOK(o)
  BY <1>1, AtWork
<1>3. CASE Running(o)
  <2> DEFINE p == [op[o] EXCEPT !.step = "start"]
  <2>1. /\ p \in Ops /\ p.step = "start" /\ p.restores = op[o].restores /\ p.upload = op[o].upload
    BY NewStep DEF MaintenanceInv, OpSteps, ExportedSteps, ClosedSteps
  <2>2. op' = [op EXCEPT ![o] = p] /\ SetJob(o, "running") /\ UNCHANGED api
    BY <1>3 DEF Running, Step
  <2> HIDE DEF p
  <2>3. op'[o] = p /\ \A q \in Operators \ {o} : op'[q] = op[q]
    BY <2>1, <2>2, OneMoves DEF MaintenanceInv
  <2>4. /\ tables' \in Tables /\ tables'.rows = tables.rows /\ tables'.whole = tables.whole
        /\ Sound(tables', disk, op)
    BY <2>2, StatusSet
  <2>5. GateOK'
    <3>1. Closed' = Closed /\ OpsAt({"mark", "start"})' = OpsAt({"mark", "start"})
          /\ OpsAt({"restoring", "persist"})' = OpsAt({"restoring", "persist"})
      BY <1>1, <2>1, <2>3 DEF Closed, OpsAt
    <3> QED
      BY <1>1, <2>2, <2>4, <3>1 DEF MaintenanceInv, GateOK, Up
  <2>6. OpOK(o)' /\ Up'
    BY <1>1, <1>2, <2>1, <2>2, <2>3 DEF OpOK, ClosedSteps, Up
  <2>7. Sound(tables', disk', op')
    BY <1>1, <2>1, <2>2, <2>4, SoundNow DEF Before
  <2>8. p.restores => Sound(p.upload.dump.content, disk, op)
    BY <2>1 DEF MaintenanceInv, ContentsOK
  <2> QED
    BY <1>1, <1>2, <2>1, <2>2, <2>4, <2>5, <2>6, <2>7, <2>8, OnlyMoves
       DEF MaintenanceInv, Typed, Before, ExportedSteps, ClosedSteps, OpOK
<1>4. CASE Done(o) /\ Gate(FALSE) /\ UNCHANGED tables
  <2>1. GateOK' /\ Up' /\ api' \in [up : BOOLEAN, gate : BOOLEAN]
    BY <1>1, <1>4, GateAfter DEF ClosedSteps
  <2> QED
    BY <1>1, <1>4, <2>1, Ends DEF MaintenanceInv, Typed, ContentsOK
<1> QED
  BY <1>3, <1>4 DEF MarkRunning

LEMMA StartPGRestoreStep ==
    ASSUME MaintenanceInv, NEW o \in Operators, StartPGRestore(o)
    PROVE  MaintenanceInv'
<1>1. op[o].step = "start" /\ UNCHANGED <<disk, req, late, reopened>>
  BY DEF StartPGRestore
<1>2. Up /\ op[o] \in Ops /\ OpOK(o)
  BY <1>1, AtWork
<1>3. CASE /\ Step(o, "restoring") /\ tables' = [tables EXCEPT !.whole = FALSE] /\ during' = {}
           /\ destroyed' = TRUE /\ UNCHANGED api
  <2> DEFINE p == [op[o] EXCEPT !.step = "restoring"]
  <2>1. /\ p \in Ops /\ p.step = "restoring" /\ p.restores = op[o].restores /\ p.upload = op[o].upload
    BY NewStep DEF MaintenanceInv, OpSteps, ExportedSteps, ClosedSteps
  <2>2. op' = [op EXCEPT ![o] = p]
    BY <1>3 DEF Step
  <2> HIDE DEF p
  <2>3. op'[o] = p /\ \A q \in Operators \ {o} : op'[q] = op[q]
    BY <2>1, <2>2, OneMoves DEF MaintenanceInv
  <2>4. tables' \in Tables /\ tables'.rows = tables.rows /\ Sound(tables', disk, op)
    <3>1. tables \in Tables /\ Sound(tables, disk, op)
      BY DEF MaintenanceInv, Typed, ContentsOK
    <3>2. /\ tables' \in Tables /\ tables'.rows = tables.rows /\ tables'.own = tables.own
          /\ tables'.known = tables.known /\ tables'.jobs = tables.jobs
      BY <1>3, <3>1 DEF Tables
    <3> QED
      BY <3>1, <3>2 DEF Sound
  <2>5. GateOK'
    <3>1. Closed' = {o} /\ OpsAt({"mark", "start"})' = {} /\ api.gate
      BY <1>1, <2>1, <2>3, OnlyOne DEF Closed, OpsAt, ClosedSteps
    <3> QED
      BY <1>2, <1>3, <3>1 DEF GateOK, Up
  <2>6. OpOK(o)' /\ Up'
    BY <1>1, <1>2, <1>3, <2>1, <2>3 DEF OpOK, ClosedSteps, Up
  <2>7. Sound(tables', disk', op')
    BY <1>1, <2>1, <2>2, <2>4, SoundNow DEF Before
  <2>8. p.restores => Sound(p.upload.dump.content, disk, op)
    BY <2>1 DEF MaintenanceInv, ContentsOK
  <2> QED
    BY <1>1, <1>2, <1>3, <2>1, <2>2, <2>4, <2>5, <2>6, <2>7, <2>8, OnlyMoves
       DEF MaintenanceInv, Typed, Before, ExportedSteps, ClosedSteps, OpOK
<1>4. CASE Done(o) /\ FailJob(o) /\ Gate(FALSE) /\ UNCHANGED <<during, destroyed>>
  <2>1. /\ tables' \in Tables /\ tables'.rows = tables.rows /\ tables'.whole = tables.whole
        /\ Sound(tables', disk, op)
    BY <1>4, StatusSet DEF FailJob
  <2>2. GateOK' /\ Up' /\ api' \in [up : BOOLEAN, gate : BOOLEAN]
    BY <1>1, <1>4, <2>1, GateAfter DEF ClosedSteps
  <2> QED
    BY <1>1, <1>4, <2>1, <2>2, Ends DEF MaintenanceInv, Typed
<1> QED
  BY <1>3, <1>4 DEF StartPGRestore

\* The tables were replaced: rows that are not in them have their copy in the
\* export that came before.
LEMMA Replaced ==
    ASSUME MaintenanceInv, NEW o \in Operators, op[o].step = "restoring", NEW p \in Ops,
           op' = [op EXCEPT ![o] = p], p.step \in {"persist", "over"}, OpOK(o)',
           UNCHANGED <<disk, api, req, late, destroyed, reopened>>, during' = {},
           tables' \in Tables, Sound(tables', disk, op),
           p.restores => p.upload = op[o].upload
    PROVE  MaintenanceInv'
<1>1. Up /\ op[o] \in Ops /\ OpOK(o)
  BY AtWork
<1>2. op'[o] = p /\ op' \in [Operators -> Ops] /\ \A q \in Operators \ {o} : op'[q] = op[q]
  BY OneMoves DEF MaintenanceInv
<1>3. Typed'
  BY <1>2 DEF MaintenanceInv, Typed
<1>4. OpsOK'
  BY <1>1, OpsKept DEF Up
<1>5. GateOK'
  <2>1. Closed' \subseteq Closed /\ OpsAt({"mark", "start"})' \subseteq OpsAt({"mark", "start"})
    BY <1>2 DEF Closed, OpsAt
  <2>2. destroyed /\ api.gate
    BY OnlyOne DEF ClosedSteps
  <2> QED
    BY <1>1, <2>1, <2>2 DEF MaintenanceInv, GateOK, Up
<1>6. ContentsOK'
  <2>1. Sound(tables', disk', op')
    BY SoundNow DEF Before
  <2>2. op[o].restores
    BY <1>1 DEF OpOK, ClosedSteps
  <2> QED
    BY <2>1, <2>2, ContentsKept DEF Before, MaintenanceInv, ContentsOK
<1>7. KeptOK'
  <2>1. ASSUME NEW w \in Writers \ late, req[w] = "done" PROVE Copied(w)'
    <3>1. o \in Exported /\ disk[o] # None
      BY <1>1 DEF OpOK, ClosedSteps, Exported, OpsAt
    <3>2. Own(o, w) \/ Copied(w)
      BY <2>1, <3>1 DEF MaintenanceInv, KeptOK
    <3>3. Copied(w)
      BY <3>1, <3>2 DEF Own, Copied
    <3> QED
      BY <3>3, CopiedStays
  <2> QED
    BY <2>1, KeptKept
<1> QED
  BY <1>3, <1>4, <1>5, <1>6, <1>7 DEF MaintenanceInv

LEMMA PGRestoreEndsStep ==
    ASSUME MaintenanceInv, NEW o \in Operators, PGRestoreEnds(o)
    PROVE  MaintenanceInv'
<1> DEFINE content == op[o].upload.dump.content
<1>1. /\ op[o].step = "restoring" /\ during' = {} /\ UNCHANGED <<disk, req, late, destroyed, reopened>>
  BY DEF PGRestoreEnds
<1>2. Up /\ op[o] \in Ops /\ OpOK(o) /\ op[o].restores
  BY <1>1, AtWork DEF OpOK, ClosedSteps
<1>3. content \in Tables /\ Sound(content, disk, op)
  BY <1>2, PacksAreValid DEF OpOK, MaintenanceInv, ContentsOK
<1>4. CASE /\ \E kept \in SUBSET during : tables' = [content EXCEPT !.rows = @ \cup kept]
           /\ Step(o, "persist") /\ UNCHANGED api
  <2> DEFINE p == [op[o] EXCEPT !.step = "persist"]
  <2>1. /\ p \in Ops /\ p.step = "persist" /\ p.restores = op[o].restores /\ p.upload = op[o].upload
    BY NewStep DEF MaintenanceInv, OpSteps, ExportedSteps, ClosedSteps
  <2>2. op' = [op EXCEPT ![o] = p]
    BY <1>4 DEF Step
  <2> HIDE DEF p
  <2>3. op'[o] = p
    BY <2>1, <2>2, OneMoves DEF MaintenanceInv
  <2>4. tables' \in Tables /\ Sound(tables', disk, op)
    <3>1. PICK kept \in SUBSET during : tables' = [content EXCEPT !.rows = @ \cup kept]
      BY <1>4
    <3>2. kept \subseteq Writers
      BY DEF MaintenanceInv, Typed
    <3> HIDE DEF content
    <3>3. /\ tables' \in Tables /\ tables'.known = content.known /\ tables'.jobs = content.jobs
          /\ tables'.own = content.own
      BY <1>3, <3>1, <3>2 DEF Tables
    <3> QED
      BY <1>3, <3>3 DEF Sound
  <2>5. OpOK(o)'
    BY <1>1, <1>2, <1>4, <2>1, <2>3 DEF OpOK, ClosedSteps, Up
  <2> QED
    BY <1>1, <1>4, <2>1, <2>2, <2>4, <2>5, Replaced
<1>5. CASE /\ \E r, m \in {tables, content, Empty} :
                tables' = [rows |-> r.rows, known |-> m.known, whole |-> FALSE, own |-> r.own /\ m.own,
                           jobs |-> [m.jobs EXCEPT ![o] = IF @ = "none" THEN @ ELSE "failed"]]
           /\ Done(o) /\ FinishDestroyed
  <2> DEFINE p == [New EXCEPT !.step = "over"]
  <2>1. p \in Ops /\ p.step = "over" /\ ~p.restores /\ op' = [op EXCEPT ![o] = p]
    BY <1>5, EmptyRecords DEF Done
  <2> HIDE DEF p
  <2>2. op'[o] = p
    BY <2>1, OneMoves DEF MaintenanceInv
  <2>3. tables' \in Tables /\ Sound(tables', disk, op)
    <3>1. PICK r \in {tables, content, Empty}, m \in {tables, content, Empty} :
            tables' = [rows |-> r.rows, known |-> m.known, whole |-> FALSE, own |-> r.own /\ m.own,
                       jobs |-> [m.jobs EXCEPT ![o] = IF @ = "none" THEN @ ELSE "failed"]]
      BY <1>5
    <3>2. Sound(Empty, disk, op) /\ Sound(tables, disk, op) /\ tables \in Tables
      BY EmptyRecords DEF Sound, MaintenanceInv, ContentsOK, Typed
    <3>3. r \in Tables /\ m \in Tables /\ Sound(m, disk, op)
      BY <1>3, <3>1, <3>2, EmptyRecords
    <3>4. /\ r.rows \subseteq Writers /\ m.known \subseteq Operators
          /\ m.jobs \in [Operators -> JobStates] /\ (r.own /\ m.own) \in BOOLEAN
      BY <3>3 DEF Tables
    <3>5. PICK marked : marked = [m.jobs EXCEPT ![o] = IF @ = "none" THEN @ ELSE "failed"]
      OBVIOUS
    <3>6. /\ marked \in [Operators -> JobStates]
          /\ \A q \in Operators : marked[q] = "succeeded" => m.jobs[q] = "succeeded"
      BY <3>4, <3>5 DEF JobStates
    <3>7. tables' = [rows |-> r.rows, known |-> m.known, whole |-> FALSE, own |-> r.own /\ m.own,
                     jobs |-> marked]
      BY <3>1, <3>5
    <3>8. /\ tables' \in Tables /\ tables'.known = m.known /\ tables'.jobs = marked
          /\ tables'.own => m.own
      BY <3>4, <3>6, <3>7 DEF Tables
    <3> QED
      BY <3>3, <3>6, <3>8 DEF Sound
  <2>4. OpOK(o)'
    BY <2>1, <2>2 DEF OpOK, ClosedSteps
  <2> QED
    BY <1>1, <1>5, <2>1, <2>3, <2>4, Replaced DEF FinishDestroyed
<1> QED
  BY <1>4, <1>5 DEF PGRestoreEnds

LEMMA PersistOutcomeStep ==
    ASSUME MaintenanceInv, NEW o \in Operators, PersistOutcome(o)
    PROVE  MaintenanceInv'
<1>1. /\ op[o].step = "persist" /\ Done(o) /\ UNCHANGED api
      /\ UNCHANGED <<disk, req, during, late, destroyed, reopened>>
  BY DEF PersistOutcome, FinishDestroyed
<1>2. Up /\ op[o] \in Ops /\ OpOK(o) /\ disk[o] # None
  BY <1>1, AtWork DEF OpOK, ClosedSteps
<1>3. ASSUME NEW recorded \in BOOLEAN, NEW s \in JobStates, RestoredRows(o, recorded, s),
             s = "succeeded" => recorded \/ tables.jobs[o] = "succeeded"
      PROVE  tables' \in Tables /\ tables'.rows = tables.rows /\ Sound(tables', disk, op)
  <2>1. tables \in Tables /\ Sound(tables, disk, op)
    BY DEF MaintenanceInv, Typed, ContentsOK
  <2>2. PICK known : known = IF recorded THEN tables.known \cup {o} ELSE tables.known
    OBVIOUS
  <2>3. tables' = [tables EXCEPT !.known = known, !.jobs[o] = s]
    BY <1>3, <2>2 DEF RestoredRows
  <2>4. known \subseteq Operators
    BY <2>1, <2>2 DEF Tables
  <2>5. /\ tables' \in Tables /\ tables'.rows = tables.rows /\ tables'.known = known
        /\ tables'.own = tables.own
        /\ \A q \in Operators : tables'.jobs[q] = IF q = o THEN s ELSE tables.jobs[q]
    BY <2>1, <2>3, <2>4 DEF Tables
  <2> QED
    BY <1>1, <1>2, <1>3, <2>1, <2>2, <2>5 DEF Sound, Before
<1>4. tables' \in Tables /\ tables'.rows = tables.rows /\ Sound(tables', disk, op)
  <2>1. CASE RestoredRows(o, TRUE, "succeeded")
    BY <1>3, <2>1 DEF JobStates
  <2>2. CASE \E recorded \in BOOLEAN : RestoredRows(o, recorded, tables.jobs[o])
    <3>1. tables.jobs[o] \in JobStates
      BY DEF MaintenanceInv, Typed, Tables
    <3> QED
      BY <1>3, <2>2, <3>1
  <2>3. CASE CheckFails(o)
    BY <2>3, StatusSet DEF CheckFails, FailJob
  <2> QED
    BY <2>1, <2>2, <2>3 DEF PersistOutcome
<1>5. GateOK' /\ Up' /\ api' \in [up : BOOLEAN, gate : BOOLEAN]
  BY <1>1, GateAfter DEF ClosedSteps
<1> QED
  BY <1>1, <1>4, <1>5, Ends DEF MaintenanceInv, Typed

-----------------------------------------------------------------------------
\* The requests that write, and the server.

LEMMA ArriveStep ==
    ASSUME MaintenanceInv, NEW w \in Writers, Arrive(w)
    PROVE  MaintenanceInv'
<1>1. /\ req' = [req EXCEPT ![w] = "in"]
      /\ UNCHANGED <<tables, disk, api, op, during, late, destroyed, reopened>>
  BY DEF Arrive
<1>2. Typed'
  BY <1>1 DEF MaintenanceInv, Typed
<1>3. OpsOK' /\ GateOK' /\ ContentsOK'
  BY <1>1 DEF MaintenanceInv, OpsOK, OpOK, GateOK, ContentsOK, Closed, OpsAt, Up
<1>4. \A v \in Writers : req'[v] = "done" => req[v] = "done"
  BY <1>1 DEF MaintenanceInv, Typed
<1>5. KeptOK'
  BY <1>1, <1>4 DEF MaintenanceInv, KeptOK, Copied, Own, Exported, OpsAt
<1> QED
  BY <1>2, <1>3, <1>5 DEF MaintenanceInv

LEMMA WriteStep ==
    ASSUME MaintenanceInv, NEW w \in Writers, Write(w)
    PROVE  MaintenanceInv'
<1>1. UNCHANGED <<disk, api, op, destroyed, reopened>>
  BY DEF Write
<1>2. CASE /\ tables' = [tables EXCEPT !.rows = @ \cup {w}]
           /\ during' = IF OpsAt({"restoring"}) = {} THEN during ELSE during \cup {w}
           /\ late' = IF Exported = {} THEN late ELSE late \cup {w}
           /\ req' = [req EXCEPT ![w] = "done"]
  <2>1. tables \in Tables
    BY DEF MaintenanceInv, Typed
  <2>2. /\ tables' \in Tables /\ tables'.rows = tables.rows \cup {w} /\ tables'.known = tables.known
        /\ tables'.jobs = tables.jobs /\ tables'.whole = tables.whole /\ tables'.own = tables.own
    BY <1>2, <2>1 DEF Tables
  <2>3. Typed'
    BY <1>1, <1>2, <2>2 DEF MaintenanceInv, Typed
  <2>4. OpsOK' /\ GateOK'
    BY <1>1, <2>2 DEF MaintenanceInv, OpsOK, OpOK, GateOK, Closed, OpsAt, Up
  <2>5. ContentsOK'
    <3>1. Sound(tables', disk, op)
      BY <2>2 DEF MaintenanceInv, ContentsOK, Sound
    <3> QED
      BY <1>1, <3>1 DEF MaintenanceInv, ContentsOK
  <2>6. KeptOK'
    <3>1. \A v \in Writers : req'[v] = "done" => v = w \/ req[v] = "done"
      BY <1>2 DEF MaintenanceInv, Typed
    <3>2. w \in late' \/ Exported = {}
      BY <1>2
    <3>3. late \subseteq late'
      BY <1>2
    <3> QED
      BY <1>1, <2>2, <3>1, <3>2, <3>3 DEF MaintenanceInv, KeptOK, Copied, Own, Exported, OpsAt
  <2> QED
    BY <2>3, <2>4, <2>5, <2>6 DEF MaintenanceInv
<1>3. CASE req' = [req EXCEPT ![w] = "failed"] /\ UNCHANGED <<tables, during, late>>
  <2>1. Typed'
    BY <1>1, <1>3 DEF MaintenanceInv, Typed
  <2>2. OpsOK' /\ GateOK' /\ ContentsOK'
    BY <1>1, <1>3 DEF MaintenanceInv, OpsOK, OpOK, GateOK, ContentsOK, Closed, OpsAt, Up
  <2>3. \A v \in Writers : req'[v] = "done" => req[v] = "done"
    BY <1>3 DEF MaintenanceInv, Typed
  <2>4. KeptOK'
    BY <1>1, <1>3, <2>3 DEF MaintenanceInv, KeptOK, Copied, Own, Exported, OpsAt
  <2> QED
    BY <2>1, <2>2, <2>4 DEF MaintenanceInv
<1> QED
  BY <1>2, <1>3 DEF Write

LEMMA ServerStopsStep == MaintenanceInv /\ ServerStops => MaintenanceInv'
<1> SUFFICES ASSUME MaintenanceInv, ServerStops PROVE MaintenanceInv'
  OBVIOUS
<1>1. /\ UNCHANGED <<tables, disk, late, destroyed, reopened>> /\ during' = {}
      /\ api' = [up |-> FALSE, gate |-> FALSE]
      /\ req' = [v \in Writers |-> IF req[v] = "in" THEN "failed" ELSE req[v]]
      /\ op' = [o \in Operators |-> IF op[o].step = "new" THEN New ELSE [New EXCEPT !.step = "over"]]
  BY DEF ServerStops
<1>2. ASSUME NEW o \in Operators
      PROVE  /\ op'[o] \in Ops /\ ~op'[o].restores
             /\ op'[o].step = IF op[o].step = "new" THEN "new" ELSE "over"
  BY <1>1, EmptyRecords
<1>3. Typed'
  <2>1. op' \in [Operators -> Ops]
    BY <1>1, <1>2
  <2> QED
    BY <1>1, <2>1 DEF MaintenanceInv, Typed
<1>4. OpsOK'
  BY <1>1, <1>2 DEF MaintenanceInv, OpsOK, OpOK, ClosedSteps
<1>5. GateOK'
  <2>1. Closed' = {} /\ OpsAt({"mark", "start"})' = {} /\ OpsAt({"restoring", "persist"})' = {}
    BY <1>2 DEF Closed, OpsAt
  <2> QED
    BY <1>1, <2>1 DEF GateOK, Up
<1>6. ContentsOK'
  <2>1. \A q \in Operators : op[q].step \notin Before => op'[q].step \notin Before
    BY <1>2 DEF Before
  <2>2. \A c : Sound(c, disk, op) => Sound(c, disk, op')
    BY <2>1 DEF Sound
  <2> QED
    BY <1>1, <1>2, <2>2 DEF MaintenanceInv, ContentsOK
<1>7. KeptOK'
  <2>1. \A v \in Writers : req'[v] = "done" => req[v] = "done"
    BY <1>1
  <2>2. \A v : Copied(v) => Copied(v)'
    BY <1>1, <1>2 DEF Copied
  <2>3. Exported' = {}
    BY <1>2 DEF Exported, OpsAt
  <2> QED
    BY <1>1, <2>1, <2>2, <2>3 DEF MaintenanceInv, KeptOK
<1> QED
  BY <1>3, <1>4, <1>5, <1>6, <1>7 DEF MaintenanceInv

LEMMA ServerStartsStep == MaintenanceInv /\ ServerStarts => MaintenanceInv'
<1> SUFFICES ASSUME MaintenanceInv, ServerStarts PROVE MaintenanceInv'
  OBVIOUS
<1>1. /\ ~Up /\ api' = [api EXCEPT !.up = TRUE] /\ destroyed' = FALSE /\ reopened' = ~tables.whole
      /\ UNCHANGED <<tables, disk, req, op, during, late>>
  BY DEF ServerStarts
<1>2. api'.up /\ ~api'.gate /\ api' \in [up : BOOLEAN, gate : BOOLEAN]
  BY <1>1 DEF MaintenanceInv, Typed, GateOK
<1>3. Typed'
  BY <1>1, <1>2 DEF MaintenanceInv, Typed, Tables
<1>4. OpsOK'
  BY <1>1, <1>2 DEF MaintenanceInv, OpsOK, OpOK, Up
<1>5. GateOK'
  <2>1. Closed' = {} /\ OpsAt({"mark", "start"})' = {} /\ OpsAt({"restoring", "persist"})' = {}
    BY <1>1 DEF MaintenanceInv, OpsOK, OpOK, Closed, OpsAt
  <2> QED
    BY <1>1, <1>2, <2>1 DEF GateOK, Up
<1>6. ContentsOK'
  BY <1>1 DEF MaintenanceInv, ContentsOK
<1>7. KeptOK'
  BY <1>1 DEF MaintenanceInv, KeptOK, Copied, Own, Exported, OpsAt
<1> QED
  BY <1>3, <1>4, <1>5, <1>6, <1>7 DEF MaintenanceInv

-----------------------------------------------------------------------------
\* Every step keeps the invariant.

LEMMA MaintenanceInvStep == MaintenanceInv /\ [MaintenanceNext]_maintenanceVars => MaintenanceInv'
<1> SUFFICES ASSUME MaintenanceInv, [MaintenanceNext]_maintenanceVars PROVE MaintenanceInv'
  OBVIOUS
<1>1. ASSUME NEW o \in Operators, Operate(o) PROVE MaintenanceInv'
  BY <1>1, ExportStep, RestoreBackupStep, DumpStep, PackArchiveStep, RecordStep, BeginRestoreStep,
     MarkRunningStep, StartPGRestoreStep, PGRestoreEndsStep, PersistOutcomeStep DEF Operate
<1>2. CASE UNCHANGED maintenanceVars
  <2> USE <1>2 DEF maintenanceVars
  <2>1. Typed' /\ OpsOK' /\ GateOK'
    BY DEF MaintenanceInv, Typed, OpsOK, OpOK, GateOK, Closed, OpsAt, Up
  <2>2. ContentsOK' /\ KeptOK'
    BY DEF MaintenanceInv, ContentsOK, KeptOK, Copied, Own, Exported, OpsAt
  <2> QED
    BY <2>1, <2>2 DEF MaintenanceInv
<1> QED
  BY <1>1, <1>2, ArriveStep, WriteStep, ServerStopsStep, ServerStartsStep DEF MaintenanceNext

LEMMA MaintenanceInvHolds == MaintenanceSpec => []MaintenanceInv
BY MaintenanceInvInit, MaintenanceInvStep, PTL DEF MaintenanceSpec

\* The API is closed from the moment tables may be half replaced until somebody
\* starts the server anew, and never without a restore as its reason, however
\* restores, failures and stops follow each other.
THEOREM ClosedWhileHalfRestored == MaintenanceSpec => []GateFollowsTables
BY MaintenanceInvHolds, MaintenanceInvImplies, PTL

\* Of any number of restores at most one is behind the gate, and none begins to
\* replace tables that another has replaced since the server started.
THEOREM RestoresAreAlone == MaintenanceSpec => []OneRestore
BY MaintenanceInvHolds, MaintenanceInvImplies, PTL

\* A row a request was told of is in the tables or in an archive on the disk,
\* unless it came after the export before a restore, whatever restores followed.
THEOREM CopyBeforeReplacing == MaintenanceSpec => []NothingLostUnseen
BY MaintenanceInvHolds, MaintenanceInvImplies, PTL

\* An upload that is restored agrees with itself to the last bit, and while the
\* tables hold nothing of an archive made anew, a recorded export is on the disk
\* and a job that succeeded has its own there, recorded and valid.
THEOREM RestoredIsWhole == MaintenanceSpec => []ArchivesSound
BY MaintenanceInvHolds, MaintenanceInvImplies, PTL
=============================================================================
