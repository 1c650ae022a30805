-------------------------- MODULE DNSRecordsProofs --------------------------
(***************************************************************************)
(* Machine-checked proofs about DNSRecords, for every set of records,      *)
(* workers and keys, every limit and every number of attempts and faults.  *)
(***************************************************************************)
EXTENDS DNSRecords, FiniteSetTheorems, TLAPS

LEMMA AttemptBounds ==
    /\ CallAttempts \in 0..CallAttempts
    /\ DeleteAttempts \in 0..(DeleteAttempts + BatchAttempts)
    /\ BatchAttempts \in 0..(DeleteAttempts + BatchAttempts)
    /\ 0 \in 0..CallAttempts
    /\ 0 \in 0..(DeleteAttempts + BatchAttempts)
    /\ 0 \in 0..MaxPids
BY ConstantsAssumption DEF ConstantsAssumption

\* TypeOK in two halves: what the workers hold, and the shared state.
WorkersTyped ==
    /\ pc \in [Workers -> {"idle"} \cup Steps]
    /\ key \in [Workers -> Keys \cup {NoKey}]
    /\ job \in [Workers -> Jobs]
    /\ \A v \in Workers : key[v] = NoKey <=> pc[v] = "idle"
    /\ \A v \in Workers : Fits(pc[v], job[v])

DataTyped ==
    /\ rows \in [RowIds -> [rec : Recs, pid : Pids] \cup {NoRow}]
    /\ nextRow \in 1..(MaxRows + 1)
    /\ sub \in {"active", "gone"}
    /\ lock \in Workers \cup {NoWorker}
    /\ zone \in [Recs -> 0..MaxPids]
    /\ nextPid \in 1..(MaxPids + 1)
    /\ reqs \in [Keys -> {"none", "running"} \cup Verdicts]
    /\ runs \in [Keys -> Nat]
    /\ told \in [Keys -> {"none"} \cup Verdicts]
    /\ revived \subseteq RowIds
    /\ mishaps \subseteq Mishaps
    /\ faults \in 0..MaxFaults

LEMMA TypeHalves ==
    /\ TypeOK <=> DataTyped /\ WorkersTyped
    /\ TypeOK' <=> DataTyped' /\ WorkersTyped'
BY DEF TypeOK, DataTyped, WorkersTyped

\* A worker that goes to step st with job j is well typed when j is a job
\* that fits the step (the bookkeeping shared by all handlers).
LEMMA GotoTyped ==
    ASSUME WorkersTyped, NEW w \in Workers, NEW st \in Steps, NEW j \in Jobs,
           Goto(w, st, j), Fits(st, j), pc[w] # "idle"
    PROVE  WorkersTyped'
<1> DEFINE j2 == [j EXCEPT !.tries = CallAttempts, !.lost = FALSE]
<1>1. j2 \in Jobs
  BY AttemptBounds DEF Jobs
<1>2. Fits(st, j2)
  BY DEF Fits, Jobs
<1>3. pc' = [pc EXCEPT ![w] = st] /\ job' = [job EXCEPT ![w] = j2] /\ key' = key
  BY DEF Goto
<1>4. st # "idle"
  BY DEF Steps
<1> HIDE DEF j2
<1>5. \A v \in Workers : Fits(pc'[v], job'[v])
  <2> SUFFICES ASSUME NEW v \in Workers PROVE Fits(pc'[v], job'[v])
    OBVIOUS
  <2>1. CASE v = w
    BY <2>1, <1>2, <1>3 DEF WorkersTyped
  <2>2. CASE v # w
    BY <2>2, <1>3 DEF WorkersTyped
  <2> QED
    BY <2>1, <2>2
<1> QED
  BY <1>1, <1>3, <1>4, <1>5 DEF WorkersTyped

LEMMA EndTyped ==
    ASSUME WorkersTyped, NEW w \in Workers, NEW j \in Jobs, NEW verdict \in Verdicts,
           EndWith(w, j, verdict), pc[w] # "idle"
    PROVE  WorkersTyped'
<1>1. [j EXCEPT !.res = verdict] \in Jobs
  BY DEF Jobs
<1>2. Fits("reply", [j EXCEPT !.res = verdict])
  BY DEF Fits, Jobs
<1>3. "reply" \in Steps
  BY DEF Steps
<1> QED
  BY <1>1, <1>2, <1>3, GotoTyped DEF EndWith

\* A failed attempt of a delete starts the next one or ends the record.
LEMMA FailAttemptTyped ==
    ASSUME WorkersTyped, NEW w \in Workers, NEW j \in Jobs, j.item \in Items,
           j.res \in Verdicts, FailAttempt(w, j), pc[w] # "idle"
    PROVE  WorkersTyped'
<1> DEFINE again == [j EXCEPT !.left = @ - 1, !.pid = j.item.pid]
           over  == [j EXCEPT !.res = IF j.op = "release" THEN "rejected" ELSE "failed"]
<1>1. CASE j.left > 1 /\ Goto(w, "d_del", again)
  <2>1. j.item.pid \in 0..MaxPids
    BY ConstantsAssumption DEF ConstantsAssumption, Items, Pids
  <2>2. j.left - 1 \in 0..(DeleteAttempts + BatchAttempts)
    BY <1>1, ConstantsAssumption DEF ConstantsAssumption, Jobs
  <2>3. again \in Jobs
    BY <2>1, <2>2 DEF Jobs
  <2>4. Fits("d_del", again)
    BY DEF Fits, Jobs
  <2>5. "d_del" \in Steps
    BY DEF Steps
  <2> QED
    BY <1>1, <2>3, <2>4, <2>5, GotoTyped
<1>2. CASE Goto(w, "d_next", over)
  <2>1. over \in Jobs
    BY DEF Jobs, Verdicts
  <2>2. Fits("d_next", over)
    BY DEF Fits, Jobs, Verdicts
  <2>3. "d_next" \in Steps
    BY DEF Steps
  <2> QED
    BY <1>2, <2>1, <2>2, <2>3, GotoTyped
<1> QED
  BY <1>1, <1>2 DEF FailAttempt

-----------------------------------------------------------------------------
\* What a provider call leaves in the zone.

LEMMA PCreateTyped ==
    ASSUME DataTyped, NEW r \in Recs, PCreate(r)
    PROVE  /\ zone' \in [Recs -> 0..MaxPids]
           /\ nextPid' \in 1..(MaxPids + 1)
           /\ zone'[r] \in Pids
<1> USE ConstantsAssumption DEF ConstantsAssumption
<1>1. CASE zone[r] = 0
  <2>1. nextPid \in Pids
    BY <1>1 DEF PCreate, DataTyped, Pids
  <2> QED
    BY <1>1, <2>1 DEF PCreate, DataTyped, Pids
<1>2. CASE zone[r] # 0
  BY <1>2 DEF PCreate, DataTyped, Pids, provVars
<1> QED
  BY <1>1, <1>2

LEMMA PDeleteTyped ==
    ASSUME DataTyped, NEW p, PDelete(p)
    PROVE  zone' \in [Recs -> 0..MaxPids] /\ nextPid' \in 1..(MaxPids + 1)
BY AttemptBounds DEF PDelete, DataTyped

LEMMA PUpdateTyped ==
    ASSUME DataTyped, NEW p, NEW new \in Recs, PUpdate(p, new)
    PROVE  zone' \in [Recs -> 0..MaxPids] /\ nextPid' \in 1..(MaxPids + 1)
<1>1. PICK r \in Recs : Updatable(p, r, new) /\ zone' = [zone EXCEPT ![r] = 0, ![new] = p]
                        /\ UNCHANGED nextPid
  BY DEF PUpdate
<1>2. p \in 0..MaxPids
  BY <1>1 DEF Updatable, DataTyped
<1> QED
  BY <1>1, <1>2, AttemptBounds DEF DataTyped

LEMMA EffectTyped ==
    ASSUME TypeOK, NEW w \in Workers, Effect(w)
    PROVE  zone' \in [Recs -> 0..MaxPids] /\ nextPid' \in 1..(MaxPids + 1)
<1> USE TypeHalves
<1>1. Fits(pc[w], job[w]) /\ job[w] \in Jobs
  BY DEF WorkersTyped
<1>2. CASE pc[w] = "c_provider" /\ PCreate(job[w].new)
  BY <1>1, <1>2, PCreateTyped DEF Fits
<1>3. CASE pc[w] = "d_recreate" /\ PCreate(job[w].item.rec)
  BY <1>1, <1>3, PCreateTyped DEF Fits, Items
<1>4. CASE PDelete(job[w].pid)
  BY <1>4, PDeleteTyped
<1>5. CASE pc[w] \in {"u_provider", "u_undo"} /\ PUpdate(job[w].item.pid, UpdateTo(w))
  <2>1. UpdateTo(w) \in Recs
    BY <1>1, <1>5 DEF Fits, Items, UpdateTo
  <2> QED
    BY <1>5, <2>1, PUpdateTyped
<1>6. CASE UNCHANGED provVars
  BY <1>6 DEF provVars, DataTyped
<1> QED
  BY <1>2, <1>3, <1>4, <1>5, <1>6 DEF Effect

LEMMA FaultTyped ==
    ASSUME DataTyped, Fault \/ NoFault
    PROVE  faults' \in 0..MaxFaults
BY ConstantsAssumption DEF ConstantsAssumption, Fault, NoFault, DataTyped

LEMMA NoteTyped ==
    ASSUME DataTyped, NEW m \in SUBSET Mishaps, Note(m)
    PROVE  mishaps' \subseteq Mishaps
BY DEF Note, DataTyped

-----------------------------------------------------------------------------
\* Type correctness of every action.

LEMMA InitTyped == Init => TypeOK
<1> SUFFICES ASSUME Init PROVE TypeOK
  OBVIOUS
<1> USE ConstantsAssumption DEF ConstantsAssumption, Init
<1>1. PICK r \in Recs \cup {NoRec} :
          /\ rows = [i \in RowIds |->
                        IF i = 1 /\ r # NoRec THEN [rec |-> r, pid |-> 1] ELSE NoRow]
          /\ zone = [s \in Recs |-> IF s = r THEN 1 ELSE 0]
  OBVIOUS
<1>2. rows \in [RowIds -> [rec : Recs, pid : Pids] \cup {NoRow}]
  BY <1>1 DEF Pids
<1>3. Idle \in Jobs
  BY AttemptBounds DEF Idle, Jobs
<1>4. WorkersTyped
  BY <1>3 DEF WorkersTyped, Fits
<1>5. DataTyped
  BY <1>1, <1>2 DEF DataTyped
<1> QED
  BY <1>4, <1>5, TypeHalves

\* A request that begins holds its key and a job that fits its first step.
LEMMA BeginTyped ==
    ASSUME TypeOK, NEW w \in Workers, NEW k \in Keys, NEW st \in Steps, NEW j \in Jobs,
           Begin(w, k, st, j), Fits(st, j)
    PROVE  TypeOK'
<1> USE TypeHalves
<1> DEFINE j2 == [j EXCEPT !.tries = CallAttempts]
<1>1. j2 \in Jobs
  BY AttemptBounds DEF Jobs
<1>2. Fits(st, j2)
  BY DEF Fits, Jobs
<1>3. pc' = [pc EXCEPT ![w] = st] /\ job' = [job EXCEPT ![w] = j2] /\ key' = [key EXCEPT ![w] = k]
  BY DEF Begin, TryCreate
<1>4. st # "idle" /\ k # NoKey
  BY ConstantsAssumption DEF ConstantsAssumption, Steps
<1> HIDE DEF j2
<1>5. \A v \in Workers : Fits(pc'[v], job'[v])
  <2> SUFFICES ASSUME NEW v \in Workers PROVE Fits(pc'[v], job'[v])
    OBVIOUS
  <2>1. CASE v = w
    BY <2>1, <1>2, <1>3 DEF WorkersTyped
  <2>2. CASE v # w
    BY <2>2, <1>3 DEF WorkersTyped
  <2> QED
    BY <2>1, <2>2
<1>6. WorkersTyped'
  BY <1>1, <1>3, <1>4, <1>5 DEF WorkersTyped
<1>7. DataTyped'
  BY DEF Begin, TryCreate, DataTyped, dbVars, provVars, Note, Mishaps
<1> QED
  BY <1>6, <1>7

\* The record of a row that is present, and the snapshot of the row.
LEMMA PresentTyped ==
    ASSUME DataTyped, NEW i \in Present
    PROVE  i \in RowIds /\ rows[i].rec \in Recs /\ rows[i].pid \in Pids /\ ItemOf(i) \in Items
BY DEF Present, DataTyped, NoRow, ItemOf, Items

LEMMA BeginSomeTyped ==
    ASSUME TypeOK, NEW w \in Workers, NEW k \in Keys, BeginSome(w, k)
    PROVE  TypeOK'
<1> USE TypeHalves, AttemptBounds
<1>1. CASE CreateBegin(w, k)
  <2>1. PICK r \in Recs : Begin(w, k, "c_provider", [Idle EXCEPT !.op = "create", !.new = r])
    BY <1>1 DEF CreateBegin
  <2> DEFINE j == [Idle EXCEPT !.op = "create", !.new = r]
  <2>2. j \in Jobs
    BY DEF Idle, Jobs
  <2>3. "c_provider" \in Steps /\ Fits("c_provider", j)
    BY DEF Steps, Fits, Idle
  <2> QED
    BY <2>1, <2>2, <2>3, BeginTyped
<1>2. CASE UpdateBegin(w, k)
  <2>1. PICK i \in Present, r \in Recs :
           Begin(w, k, "u_provider", [Idle EXCEPT !.op = "update", !.item = ItemOf(i), !.new = r])
    BY <1>2 DEF UpdateBegin
  <2> DEFINE j == [Idle EXCEPT !.op = "update", !.item = ItemOf(i), !.new = r]
  <2>2. ItemOf(i) \in Items
    BY PresentTyped
  <2>3. j \in Jobs
    BY <2>2 DEF Idle, Jobs
  <2>4. "u_provider" \in Steps /\ Fits("u_provider", j)
    BY <2>2 DEF Steps, Fits, Idle
  <2> QED
    BY <2>1, <2>3, <2>4, BeginTyped
<1>3. CASE DeleteBegin(w, k)
  <2>1. PICK i \in Present :
           Begin(w, k, "d_next", [Idle EXCEPT !.op = "delete", !.todo = {ItemOf(i)}, !.res = "ok"])
    BY <1>3 DEF DeleteBegin
  <2> DEFINE j == [Idle EXCEPT !.op = "delete", !.todo = {ItemOf(i)}, !.res = "ok"]
  <2>2. {ItemOf(i)} \in SUBSET Items
    BY PresentTyped
  <2>3. j \in Jobs
    BY <2>2 DEF Idle, Jobs, Verdicts
  <2>4. "d_next" \in Steps /\ Fits("d_next", j)
    BY DEF Steps, Fits, Idle, Verdicts
  <2> QED
    BY <2>1, <2>3, <2>4, BeginTyped
<1>4. CASE ReleaseBegin(w, k)
  <2> DEFINE all == {ItemOf(i) : i \in Present}
             j == [Idle EXCEPT !.op = "release", !.res = "ok", !.todo = all]
  <2>1. Begin(w, k, "d_next", j)
    BY <1>4 DEF ReleaseBegin
  <2>2. all \in SUBSET Items
    BY PresentTyped
  <2> HIDE DEF all
  <2>3. j \in Jobs
    BY <2>2 DEF Idle, Jobs, Verdicts
  <2>4. "d_next" \in Steps /\ Fits("d_next", j)
    BY DEF Steps, Fits, Idle, Verdicts
  <2> QED
    BY <2>1, <2>3, <2>4, BeginTyped
<1> QED
  BY <1>1, <1>2, <1>3, <1>4 DEF BeginSome

LEMMA CreateStepTyped ==
    ASSUME TypeOK, NEW w \in Workers, CreateStep(w)
    PROVE  TypeOK'
<1> USE TypeHalves
<1> DEFINE j == job[w]
<1>0. j \in Jobs /\ Fits(pc[w], j)
  BY DEF WorkersTyped
<1>1. CASE CreateAtProvider(w)
  <2>1. zone' \in [Recs -> 0..MaxPids] /\ nextPid' \in 1..(MaxPids + 1) /\ zone'[j.new] \in Pids
    BY <1>0, <1>1, PCreateTyped DEF CreateAtProvider, Fits
  <2> DEFINE j2 == [j EXCEPT !.pid = zone'[j.new]]
  <2>2. j2 \in Jobs
    BY <1>0, <2>1, ConstantsAssumption DEF ConstantsAssumption, Jobs, Pids
  <2>3. "c_check" \in Steps /\ Fits("c_check", j2)
    BY <1>0, <1>1, <2>1 DEF Steps, Fits, Jobs, CreateAtProvider
  <2>4. WorkersTyped'
    BY <1>1, <2>2, <2>3, GotoTyped DEF CreateAtProvider
  <2>5. DataTyped'
    BY <1>1, <2>1 DEF CreateAtProvider, DataTyped, dbVars, reqVars
  <2> QED
    BY <2>4, <2>5
<1>2. CASE CreateCheck(w)
  <2>1. ASSUME Goto(w, "c_insert", j) PROVE WorkersTyped'
    <3>1. "c_insert" \in Steps /\ Fits("c_insert", j)
      BY <1>0, <1>2 DEF Steps, Fits, CreateCheck
    <3> QED
      BY <1>0, <1>2, <2>1, <3>1, GotoTyped DEF CreateCheck
  <2>2. ASSUME NEW v \in Verdicts, Goto(w, "c_undo", [j EXCEPT !.res = v])
        PROVE  WorkersTyped'
    <3>1. [j EXCEPT !.res = v] \in Jobs
      BY <1>0 DEF Jobs
    <3>2. "c_undo" \in Steps /\ Fits("c_undo", [j EXCEPT !.res = v])
      BY <1>0, <1>2 DEF Steps, Fits, Jobs, CreateCheck
    <3> QED
      BY <1>2, <2>2, <3>1, <3>2, GotoTyped DEF CreateCheck
  <2>3. "rejected" \in Verdicts /\ "failed" \in Verdicts
    BY DEF Verdicts
  <2>4. WorkersTyped'
    BY <1>2, <2>1, <2>2, <2>3 DEF CreateCheck
  <2>5. lock' \in Workers \cup {NoWorker} /\ faults' \in 0..MaxFaults
    BY <1>2, FaultTyped DEF CreateCheck, DataTyped
  <2>6. DataTyped'
    BY <1>2, <2>5 DEF CreateCheck, DataTyped, dbVars, provVars, reqVars
  <2> QED
    BY <2>4, <2>6
<1>3. CASE CreateInsert(w)
  <2>1. j.new \in Recs /\ j.pid \in Pids
    BY <1>0, <1>3 DEF CreateInsert, Fits
  <2>2. ASSUME NEW v \in Verdicts, Goto(w, "c_undo", [j EXCEPT !.res = v])
        PROVE  WorkersTyped'
    <3>1. [j EXCEPT !.res = v] \in Jobs
      BY <1>0 DEF Jobs
    <3>2. "c_undo" \in Steps /\ Fits("c_undo", [j EXCEPT !.res = v])
      BY <1>0, <2>1 DEF Steps, Fits, Jobs
    <3> QED
      BY <1>3, <2>2, <3>1, <3>2, GotoTyped DEF CreateInsert
  <2>3. Verdicts = {"ok", "rejected", "failed"}
    BY DEF Verdicts
  <2>4. ASSUME EndWith(w, j, "ok") PROVE WorkersTyped'
    BY <1>0, <1>3, <2>3, <2>4, EndTyped DEF CreateInsert
  <2>5. WorkersTyped'
    BY <1>3, <2>2, <2>3, <2>4 DEF CreateInsert
  <2>6. rows' \in [RowIds -> [rec : Recs, pid : Pids] \cup {NoRow}] /\ nextRow' \in 1..(MaxRows + 1)
    BY <1>3, <2>1, ConstantsAssumption DEF ConstantsAssumption, CreateInsert, DataTyped
  <2>7. faults' \in 0..MaxFaults
    BY <1>3, FaultTyped DEF CreateInsert
  <2>8. DataTyped'
    BY <1>3, <2>6, <2>7 DEF CreateInsert, DataTyped, provVars, reqVars
  <2> QED
    BY <2>5, <2>8
<1> QED
  BY <1>1, <1>2, <1>3 DEF CreateStep

LEMMA UpdateStepTyped ==
    ASSUME TypeOK, NEW w \in Workers, UpdateStep(w)
    PROVE  TypeOK'
<1> USE TypeHalves
<1> DEFINE j == job[w]
<1>0. j \in Jobs /\ Fits(pc[w], j)
  BY DEF WorkersTyped
<1>1. CASE UpdateAtProvider(w)
  <2>1. zone' \in [Recs -> 0..MaxPids] /\ nextPid' \in 1..(MaxPids + 1)
    BY <1>0, <1>1, PUpdateTyped DEF UpdateAtProvider, Fits
  <2>2. "u_save" \in Steps /\ Fits("u_save", j)
    BY <1>0, <1>1 DEF Steps, Fits, UpdateAtProvider
  <2>3. WorkersTyped'
    BY <1>0, <1>1, <2>2, GotoTyped DEF UpdateAtProvider
  <2>4. DataTyped'
    BY <1>1, <2>1 DEF UpdateAtProvider, DataTyped, dbVars, reqVars, Note, Crossing, Mishaps
  <2> QED
    BY <2>3, <2>4
<1>2. CASE UpdateSave(w)
  <2>1. j.new \in Recs /\ j.item \in Items
    BY <1>0, <1>2 DEF UpdateSave, Fits
  <2>2. ASSUME NEW v \in Verdicts, Goto(w, "u_undo", [j EXCEPT !.res = v])
        PROVE  WorkersTyped'
    <3>1. [j EXCEPT !.res = v] \in Jobs
      BY <1>0 DEF Jobs
    <3>2. "u_undo" \in Steps /\ Fits("u_undo", [j EXCEPT !.res = v])
      BY <1>0, <2>1 DEF Steps, Fits, Jobs
    <3> QED
      BY <1>2, <2>2, <3>1, <3>2, GotoTyped DEF UpdateSave
  <2>3. Verdicts = {"ok", "rejected", "failed"}
    BY DEF Verdicts
  <2>4. ASSUME EndWith(w, j, "ok") PROVE WorkersTyped'
    BY <1>0, <1>2, <2>3, <2>4, EndTyped DEF UpdateSave
  <2>5. WorkersTyped'
    BY <1>2, <2>2, <2>3, <2>4 DEF UpdateSave
  <2>6. rows' \in [RowIds -> [rec : Recs, pid : Pids] \cup {NoRow}]
    BY <1>2, <2>1 DEF UpdateSave, DataTyped, Items
  <2>7. faults' \in 0..MaxFaults
    BY <1>2, FaultTyped DEF UpdateSave
  <2>8. revived' \subseteq RowIds
    BY <1>2, <2>1 DEF UpdateSave, SaveUpdates, SaveInserts, DataTyped, Items
  <2>9. DataTyped'
    BY <1>2, <2>6, <2>7, <2>8 DEF UpdateSave, DataTyped, provVars, reqVars
  <2> QED
    BY <2>5, <2>9
<1>3. CASE UpdateUndo(w)
  <2>1. zone' \in [Recs -> 0..MaxPids] /\ nextPid' \in 1..(MaxPids + 1)
    BY <1>0, <1>3, PUpdateTyped DEF UpdateUndo, Fits, Items
  <2>2. WorkersTyped'
    BY <1>0, <1>3, EndTyped DEF UpdateUndo, Fits
  <2>3. DataTyped'
    BY <1>3, <2>1 DEF UpdateUndo, DataTyped, dbVars, reqVars, Note, Crossing, Mishaps
  <2> QED
    BY <2>2, <2>3
<1> QED
  BY <1>1, <1>2, <1>3 DEF UpdateStep

LEMMA DeleteStepTyped ==
    ASSUME TypeOK, NEW w \in Workers, DeleteStep(w)
    PROVE  TypeOK'
<1> USE TypeHalves
<1> DEFINE j == job[w]
<1>0. j \in Jobs /\ Fits(pc[w], j)
  BY DEF WorkersTyped
<1>1. CASE DeleteNext(w)
  <2>0. j.res \in Verdicts
    BY <1>0, <1>1 DEF DeleteNext, Fits
  <2>1. ASSUME NEW it \in j.todo,
               Goto(w, "d_del", [j EXCEPT !.item = it, !.pid = it.pid, !.todo = @ \ {it},
                                          !.left = Attempts(j.op)])
        PROVE  WorkersTyped'
    <3> DEFINE j2 == [j EXCEPT !.item = it, !.pid = it.pid, !.todo = @ \ {it},
                               !.left = Attempts(j.op)]
    <3>1. it \in Items /\ j.todo \ {it} \in SUBSET Items
      BY <1>0 DEF Jobs
    <3>2. it.pid \in 0..MaxPids
      BY <3>1, ConstantsAssumption DEF ConstantsAssumption, Items, Pids
    <3>3. Attempts(j.op) \in 0..(DeleteAttempts + BatchAttempts)
      BY AttemptBounds DEF Attempts
    <3>4. j2 \in Jobs
      BY <1>0, <3>1, <3>2, <3>3 DEF Jobs
    <3>5. "d_del" \in Steps /\ Fits("d_del", j2)
      BY <1>0, <2>0, <3>1 DEF Steps, Fits, Jobs
    <3> QED
      BY <1>1, <2>1, <3>4, <3>5, GotoTyped DEF DeleteNext
  <2>2. ASSUME Goto(w, "r_sweep", j) PROVE WorkersTyped'
    <3>1. "r_sweep" \in Steps /\ Fits("r_sweep", j)
      BY <2>0 DEF Steps, Fits
    <3> QED
      BY <1>0, <1>1, <2>2, <3>1, GotoTyped DEF DeleteNext
  <2>3. ASSUME EndWith(w, j, j.res) PROVE WorkersTyped'
    BY <1>0, <1>1, <2>0, <2>3, EndTyped DEF DeleteNext
  <2>4. WorkersTyped'
    BY <1>1, <2>1, <2>2, <2>3 DEF DeleteNext
  <2>5. DataTyped'
    BY <1>1 DEF DeleteNext, DataTyped, dbVars, provVars, reqVars
  <2> QED
    BY <2>4, <2>5
<1>2. CASE DeleteLook(w)
  <2>1. j.item \in Items /\ j.res \in Verdicts
    BY <1>0, <1>2 DEF DeleteLook, Fits
  <2>2. zone[j.item.rec] \in 0..MaxPids
    BY <2>1 DEF Items, DataTyped
  <2>3. [j EXCEPT !.pid = zone[j.item.rec]] \in Jobs
    BY <1>0, <2>2 DEF Jobs
  <2>4. /\ {"d_row", "d_del2"} \subseteq Steps /\ Fits("d_row", j)
        /\ Fits("d_del2", [j EXCEPT !.pid = zone[j.item.rec]])
    BY <1>0, <2>1 DEF Steps, Fits, Jobs
  <2>5. WorkersTyped'
    BY <1>0, <1>2, <2>3, <2>4, GotoTyped DEF DeleteLook
  <2>6. DataTyped'
    BY <1>2 DEF DeleteLook, DataTyped, dbVars, provVars, reqVars
  <2> QED
    BY <2>5, <2>6
<1>3. CASE DeleteRow(w)
  <2>1. j.item \in Items /\ j.res \in Verdicts
    BY <1>0, <1>3 DEF DeleteRow, Fits
  <2>2. {"d_next", "d_recreate"} \subseteq Steps /\ Fits("d_next", j) /\ Fits("d_recreate", j)
    BY <2>1 DEF Steps, Fits
  <2>3. WorkersTyped'
    BY <1>0, <1>3, <2>2, GotoTyped DEF DeleteRow
  <2>4. faults' \in 0..MaxFaults
    BY <1>3, FaultTyped DEF DeleteRow
  <2>5. mishaps' \subseteq Mishaps
    BY <1>3 DEF DeleteRow, Note, DataTyped, Mishaps
  <2>6. rows' \in [RowIds -> [rec : Recs, pid : Pids] \cup {NoRow}]
    BY <1>3 DEF DeleteRow, DataTyped
  <2>7. DataTyped'
    BY <1>3, <2>4, <2>5, <2>6 DEF DeleteRow, DataTyped, provVars, reqVars
  <2> QED
    BY <2>3, <2>7
<1>4. CASE DeleteRecreate(w)
  <2>1. j.item \in Items /\ j.item.rec \in Recs /\ j.res \in Verdicts
    BY <1>0, <1>4 DEF DeleteRecreate, Fits, Items
  <2>2. zone' \in [Recs -> 0..MaxPids] /\ nextPid' \in 1..(MaxPids + 1) /\ zone'[j.item.rec] \in Pids
    BY <1>4, <2>1, PCreateTyped DEF DeleteRecreate
  <2> DEFINE j2 == [j EXCEPT !.pid = zone'[j.item.rec]]
  <2>3. j2 \in Jobs
    BY <1>0, <2>2, ConstantsAssumption DEF ConstantsAssumption, Jobs, Pids
  <2>4. "d_repoint" \in Steps /\ Fits("d_repoint", j2)
    BY <1>0, <2>1, <2>2 DEF Steps, Fits, Jobs
  <2>5. WorkersTyped'
    BY <1>0, <1>4, <2>1, <2>3, <2>4, GotoTyped, FailAttemptTyped DEF DeleteRecreate
  <2>6. DataTyped'
    BY <1>4, <2>2 DEF DeleteRecreate, DataTyped, dbVars, reqVars
  <2> QED
    BY <2>5, <2>6
<1>5. CASE DeleteRepoint(w)
  <2>1. j.item \in Items /\ j.pid \in Pids /\ j.res \in Verdicts
    BY <1>0, <1>5 DEF DeleteRepoint, Fits
  <2>2. WorkersTyped'
    BY <1>0, <1>5, <2>1, FailAttemptTyped DEF DeleteRepoint
  <2>3. ASSUME rows' = [rows EXCEPT ![j.item.id].pid = IF j.item.id \in Present THEN j.pid ELSE 0]
        PROVE  rows' \in [RowIds -> [rec : Recs, pid : Pids] \cup {NoRow}]
    <3>1. j.item.id \in RowIds
      BY <2>1 DEF Items
    <3>2. CASE j.item.id \in Present
      <4>1. rows[j.item.id] \in [rec : Recs, pid : Pids]
        BY <3>1, <3>2 DEF DataTyped, Present, NoRow
      <4>2. [rows[j.item.id] EXCEPT !.pid = j.pid] \in [rec : Recs, pid : Pids]
        BY <2>1, <4>1
      <4> QED
        BY <2>3, <3>1, <3>2, <4>2 DEF DataTyped
    <3>3. CASE j.item.id \notin Present
      <4>1. rows[j.item.id] = NoRow
        BY <3>1, <3>3, ConstantsAssumption DEF ConstantsAssumption, Present, DataTyped
      <4>2. rows' = rows
        BY <2>3, <3>1, <3>3, <4>1 DEF NoRow, DataTyped
      <4> QED
        BY <4>2 DEF DataTyped
    <3> QED
      BY <3>2, <3>3
  <2>4. rows' \in [RowIds -> [rec : Recs, pid : Pids] \cup {NoRow}]
    BY <1>5, <2>3 DEF DeleteRepoint, DataTyped
  <2>5. faults' \in 0..MaxFaults
    BY <1>5, FaultTyped DEF DeleteRepoint
  <2>6. mishaps' \subseteq Mishaps
    BY <1>5 DEF DeleteRepoint, Note, DataTyped, Mishaps
  <2>7. DataTyped'
    BY <1>5, <2>4, <2>5, <2>6 DEF DeleteRepoint, DataTyped, provVars, reqVars
  <2> QED
    BY <2>2, <2>7
<1>6. CASE ReleaseSweep(w)
  <2>1. WorkersTyped'
    BY <1>0, <1>6, EndTyped DEF ReleaseSweep, Verdicts
  <2>2. rows' \in [RowIds -> [rec : Recs, pid : Pids] \cup {NoRow}]
    BY <1>6 DEF ReleaseSweep, DataTyped
  <2>3. faults' \in 0..MaxFaults
    BY <1>6, FaultTyped DEF ReleaseSweep
  <2>4. mishaps' \subseteq Mishaps
    BY <1>6 DEF ReleaseSweep, Note, DataTyped, Mishaps
  <2>5. DataTyped'
    BY <1>6, <2>2, <2>3, <2>4 DEF ReleaseSweep, DataTyped, provVars, reqVars
  <2> QED
    BY <2>1, <2>5
<1> QED
  BY <1>1, <1>2, <1>3, <1>4, <1>5, <1>6 DEF DeleteStep

\* A provider's delete was answered: the handler goes on.
LEMMA AfterDeleteTyped ==
    ASSUME WorkersTyped, NEW w \in Workers, AfterDelete(w)
    PROVE  WorkersTyped'
<1> DEFINE j == job[w]
<1>0. j \in Jobs /\ Fits(pc[w], j)
  BY DEF WorkersTyped
<1>1. CASE pc[w] = "c_undo" /\ EndWith(w, j, j.res)
  BY <1>0, <1>1, EndTyped DEF Fits
<1>2. CASE pc[w] = "d_del" /\ Goto(w, "d_look", j)
  <2>1. "d_look" \in Steps /\ Fits("d_look", j)
    BY <1>0, <1>2 DEF Steps, Fits
  <2> QED
    BY <1>0, <1>2, <2>1, GotoTyped
<1>3. CASE pc[w] = "d_del2" /\ Goto(w, "d_row", j)
  <2>1. "d_row" \in Steps /\ Fits("d_row", j)
    BY <1>0, <1>3 DEF Steps, Fits
  <2> QED
    BY <1>0, <1>3, <2>1, GotoTyped
<1> QED
  BY <1>1, <1>2, <1>3 DEF AfterDelete

LEMMA GiveUpTyped ==
    ASSUME TypeOK, NEW w \in Workers, NEW lost, GiveUp(w, lost)
    PROVE  WorkersTyped' /\ mishaps' \subseteq Mishaps
<1> USE TypeHalves
<1> DEFINE j == job[w]
<1>0. j \in Jobs /\ Fits(pc[w], j)
  BY DEF WorkersTyped
<1>1. mishaps' \subseteq Mishaps
  BY DEF GiveUp, Note, DataTyped, Mishaps, Crossing
<1>2. CASE pc[w] # "idle" /\ EndWith(w, j, "failed")
  BY <1>0, <1>1, <1>2, EndTyped DEF Verdicts
<1>3. CASE pc[w] \in {"d_del", "d_look", "d_del2", "d_recreate"} /\ FailAttempt(w, j)
  BY <1>0, <1>1, <1>3, FailAttemptTyped DEF Fits
<1> QED
  BY <1>2, <1>3 DEF GiveUp

\* The steps every handler shares.
LEMMA SharedStepTyped ==
    ASSUME TypeOK, NEW w \in Workers,
           DeleteAtProvider(w) \/ DeletePresumed(w) \/ ProviderFails(w) \/ UpdateRefused(w)
    PROVE  TypeOK'
<1> USE TypeHalves
<1> DEFINE j == job[w]
<1>0. j \in Jobs /\ Fits(pc[w], j)
  BY DEF WorkersTyped
<1>1. CASE DeleteAtProvider(w)
  <2>1. WorkersTyped'
    BY <1>1, AfterDeleteTyped DEF DeleteAtProvider
  <2>2. DataTyped'
    BY <1>1, PDeleteTyped DEF DeleteAtProvider, DataTyped, dbVars, reqVars
  <2> QED
    BY <2>1, <2>2
<1>2. CASE DeletePresumed(w)
  <2>1. WorkersTyped'
    BY <1>2, AfterDeleteTyped DEF DeletePresumed
  <2>2. faults' \in 0..MaxFaults /\ mishaps' \subseteq Mishaps
    BY <1>2, FaultTyped DEF DeletePresumed, Note, DataTyped, Mishaps
  <2>3. DataTyped'
    BY <1>2, <2>2 DEF DeletePresumed, DataTyped, dbVars, provVars, reqVars
  <2> QED
    BY <2>1, <2>3
<1>3. CASE ProviderFails(w)
  <2>1. PICK applied \in BOOLEAN :
          LET lost == job[w].lost \/ applied IN
          /\ IF applied THEN Effect(w) ELSE UNCHANGED provVars
          /\ \/ /\ job[w].tries > 1
                /\ job' = [job EXCEPT ![w] = [job[w] EXCEPT !.tries = @ - 1, !.lost = lost]]
                /\ Note(IF applied THEN Crossing(w) ELSE {})
                /\ UNCHANGED <<pc, key>>
             \/ GiveUp(w, lost)
    BY <1>3 DEF ProviderFails
  <2> DEFINE lost == job[w].lost \/ applied
  <2>2. zone' \in [Recs -> 0..MaxPids] /\ nextPid' \in 1..(MaxPids + 1)
    BY <2>1, EffectTyped DEF DataTyped, provVars
  <2>3. WorkersTyped' /\ mishaps' \subseteq Mishaps
    <3>1. CASE GiveUp(w, lost)
      BY <3>1, GiveUpTyped
    <3>2. CASE /\ job[w].tries > 1
               /\ job' = [job EXCEPT ![w] = [job[w] EXCEPT !.tries = @ - 1, !.lost = lost]]
               /\ UNCHANGED <<pc, key>>
               /\ mishaps' \subseteq Mishaps
      <4> DEFINE j2 == [j EXCEPT !.tries = @ - 1, !.lost = lost]
      <4>1. lost \in BOOLEAN
        BY <1>0 DEF Jobs
      <4>2. j.tries - 1 \in 0..CallAttempts
        BY <1>0, <3>2, ConstantsAssumption DEF ConstantsAssumption, Jobs
      <4> HIDE DEF lost
      <4>3. j2 \in Jobs
        BY <1>0, <4>1, <4>2 DEF Jobs
      <4>4. job' = [job EXCEPT ![w] = j2]
        BY <3>2
      <4>5. Fits(pc[w], j2)
        BY <1>0 DEF Fits, Jobs
      <4> HIDE DEF j2
      <4>6. \A v \in Workers : Fits(pc'[v], job'[v])
        BY <3>2, <4>4, <4>5 DEF WorkersTyped
      <4> QED
        BY <3>2, <4>3, <4>4, <4>6 DEF WorkersTyped
    <3>3. (IF applied THEN Crossing(w) ELSE {}) \subseteq Mishaps
      BY DEF Crossing, Mishaps
    <3> QED
      BY <2>1, <3>1, <3>2, <3>3, NoteTyped
  <2>4. faults' \in 0..MaxFaults
    BY <1>3, FaultTyped DEF ProviderFails
  <2>5. DataTyped'
    BY <1>3, <2>2, <2>3, <2>4 DEF ProviderFails, DataTyped, dbVars, reqVars
  <2> QED
    BY <2>3, <2>5
<1>4. CASE UpdateRefused(w)
  <2>1. WorkersTyped' /\ mishaps' \subseteq Mishaps
    BY <1>4, GiveUpTyped DEF UpdateRefused
  <2>2. DataTyped'
    BY <1>4, <2>1 DEF UpdateRefused, DataTyped, dbVars, provVars, reqVars
  <2> QED
    BY <2>1, <2>2
<1> QED
  BY <1>1, <1>2, <1>3, <1>4

LEMMA ReplyTyped ==
    ASSUME TypeOK, NEW w \in Workers, Reply(w)
    PROVE  TypeOK'
<1> USE TypeHalves
<1>1. Idle \in Jobs /\ Fits("idle", Idle)
  BY AttemptBounds DEF Idle, Jobs, Fits
<1>2. job[w].res \in Verdicts /\ key[w] \in Keys
  BY DEF Reply, WorkersTyped, Fits
<1>3. WorkersTyped'
  BY <1>1 DEF Reply, WorkersTyped
<1>4. faults' \in 0..MaxFaults
  BY FaultTyped DEF Reply
<1>5. DataTyped'
  BY <1>2, <1>4 DEF Reply, Tell, DataTyped, dbVars, provVars
<1> QED
  BY <1>3, <1>5

LEMMA EnvironmentTyped ==
    ASSUME TypeOK, AnswerRepeat \/ Crash
    PROVE  TypeOK'
<1> USE TypeHalves
<1>1. CASE AnswerRepeat
  BY <1>1 DEF AnswerRepeat, Tell, DataTyped, WorkersTyped, dbVars, provVars
<1>2. CASE Crash
  <2>1. Idle \in Jobs /\ Fits("idle", Idle)
    BY AttemptBounds DEF Idle, Jobs, Fits
  <2>2. WorkersTyped'
    BY <1>2, <2>1 DEF Crash, WorkersTyped
  <2>3. faults' \in 0..MaxFaults /\ mishaps' \subseteq Mishaps
    BY <1>2, FaultTyped DEF Crash, Note, DataTyped, Mishaps
  <2>4. DataTyped'
    BY <1>2, <2>3 DEF Crash, DataTyped, dbVars, provVars, reqVars
  <2> QED
    BY <2>2, <2>4
<1> QED
  BY <1>1, <1>2

LEMMA TypeStep == TypeOK /\ [Next]_vars => TypeOK'
<1> SUFFICES ASSUME TypeOK, [Next]_vars PROVE TypeOK'
  OBVIOUS
<1>1. ASSUME NEW w \in Workers, NEW k \in Keys, BeginSome(w, k) PROVE TypeOK'
  BY <1>1, BeginSomeTyped
<1>2. ASSUME NEW w \in Workers, WorkerStep(w) PROVE TypeOK'
  BY <1>2, CreateStepTyped, UpdateStepTyped, DeleteStepTyped, SharedStepTyped, ReplyTyped
     DEF WorkerStep
<1>3. CASE AnswerRepeat \/ Crash
  BY <1>3, EnvironmentTyped
<1>4. CASE UNCHANGED vars
  BY <1>4 DEF vars, TypeOK
<1> QED
  BY <1>1, <1>2, <1>3, <1>4 DEF Next

\* Type correctness: every handler keeps the rows, the zone, the request table
\* and the state of every worker well formed.
THEOREM TypeCorrect == Spec => []TypeOK
BY InitTyped, TypeStep, PTL DEF Spec

-----------------------------------------------------------------------------
\* One execution per key.  A request row that says "running" is what a busy
\* worker stands on, and no two workers stand on the same one.

KeysInv ==
    /\ \A w \in Workers : Busy(w) => reqs[key[w]] = "running"
    /\ \A w, v \in Workers : Busy(w) /\ Busy(v) /\ w # v => key[w] # key[v]

OnceInv == \A k \in Keys : runs[k] = IF reqs[k] = "none" THEN 0 ELSE 1

\* Between its first step and its answer a worker touches no request row.
LEMMA HandlerLeavesRequests ==
    ASSUME NEW w \in Workers,
           CreateStep(w) \/ UpdateStep(w) \/ DeleteStep(w) \/ DeleteAtProvider(w)
             \/ DeletePresumed(w) \/ ProviderFails(w) \/ UpdateRefused(w)
    PROVE  UNCHANGED <<reqVars, key>>
<1>1. CASE CreateStep(w)
  BY <1>1 DEF CreateStep, CreateAtProvider, CreateCheck, CreateInsert, EndWith, Goto
<1>2. CASE UpdateStep(w)
  BY <1>2 DEF UpdateStep, UpdateAtProvider, UpdateSave, UpdateUndo, EndWith, Goto
<1>3. CASE DeleteStep(w)
  BY <1>3 DEF DeleteStep, DeleteNext, DeleteLook, DeleteRow, DeleteRecreate, DeleteRepoint,
              ReleaseSweep, FailAttempt, EndWith, Goto
<1>4. CASE DeleteAtProvider(w) \/ DeletePresumed(w)
  BY <1>4 DEF DeleteAtProvider, DeletePresumed, AfterDelete, EndWith, Goto
<1>5. CASE ProviderFails(w)
  BY <1>5 DEF ProviderFails, GiveUp, FailAttempt, EndWith, Goto
<1>6. CASE UpdateRefused(w)
  BY <1>6 DEF UpdateRefused, GiveUp, FailAttempt, EndWith, Goto
<1> QED
  BY <1>1, <1>2, <1>3, <1>4, <1>5, <1>6

\* A step that touches no request row and no key of a worker.
LEMMA QuietStep ==
    ASSUME TypeOK, TypeOK', KeysInv, OnceInv, UNCHANGED <<reqVars, key>>
    PROVE  KeysInv' /\ OnceInv' /\ UNCHANGED Idem!vars
<1>1. \A w \in Workers : Busy(w)' <=> Busy(w)
  BY DEF TypeOK, Busy
<1> QED
  BY <1>1 DEF KeysInv, OnceInv, reqVars, Busy, Idem!vars

LEMMA RequestStep ==
    ASSUME TypeOK, TypeOK', KeysInv, OnceInv, [Next]_vars
    PROVE  KeysInv' /\ OnceInv' /\ [Idem!Next]_(Idem!vars)
<1>1. ASSUME NEW w \in Workers, NEW k \in Keys, BeginSome(w, k)
      PROVE  KeysInv' /\ OnceInv' /\ Idem!Next
  <2>1. TryCreate(w, k) /\ \E st \in Steps : pc' = [pc EXCEPT ![w] = st]
    BY <1>1 DEF BeginSome, CreateBegin, UpdateBegin, DeleteBegin, ReleaseBegin, Begin, Steps
  <2>2. PICK st \in Steps : pc' = [pc EXCEPT ![w] = st] /\ st # "idle" /\ TryCreate(w, k)
    BY <2>1 DEF Steps
  <2>3. KeysInv'
    BY <2>2 DEF TryCreate, KeysInv, TypeOK, Busy
  <2>4. OnceInv'
    BY <2>2 DEF TryCreate, OnceInv, TypeOK
  <2>5. Idem!Start(k)
    BY <2>2 DEF TryCreate, Idem!Start
  <2> QED
    BY <2>3, <2>4, <2>5 DEF Idem!Next
<1>2. ASSUME NEW w \in Workers, Reply(w)
      PROVE  KeysInv' /\ OnceInv' /\ [Idem!Next]_(Idem!vars)
  <2>1. Busy(w) /\ key[w] \in Keys /\ reqs[key[w]] = "running" /\ job[w].res \in Verdicts
    BY <1>2 DEF Reply, Busy, KeysInv, TypeOK, Fits
  <2>2. KeysInv'
    BY <1>2, <2>1 DEF Reply, KeysInv, TypeOK, Busy
  <2>3. OnceInv'
    BY <1>2, <2>1 DEF Reply, OnceInv, TypeOK, Verdicts
  <2>4. CASE reqs' = [reqs EXCEPT ![key[w]] = job[w].res] /\ Tell(key[w], job[w].res)
    <3>1. Idem!Finish(key[w], job[w].res)
      BY <1>2, <2>1, <2>4 DEF Reply, Tell, Idem!Finish
    <3> QED
      BY <2>1, <2>2, <2>3, <3>1 DEF Idem!Next
  <2>5. CASE UNCHANGED <<reqs, told>>
    BY <1>2, <2>2, <2>3, <2>5 DEF Reply, Idem!vars
  <2> QED
    BY <1>2, <2>4, <2>5 DEF Reply
<1>3. ASSUME NEW w \in Workers, WorkerStep(w), ~Reply(w)
      PROVE  KeysInv' /\ OnceInv' /\ UNCHANGED Idem!vars
  BY <1>3, HandlerLeavesRequests, QuietStep DEF WorkerStep
<1>4. CASE AnswerRepeat
  <2>1. PICK k \in Keys : reqs[k] \in Verdicts /\ Tell(k, reqs[k])
    BY <1>4 DEF AnswerRepeat
  <2>2. KeysInv' /\ OnceInv'
    BY <1>4 DEF AnswerRepeat, KeysInv, OnceInv, Busy
  <2>3. Idem!Replay(k)
    BY <1>4, <2>1 DEF AnswerRepeat, Tell, Idem!Replay, Verdicts
  <2> QED
    BY <2>2, <2>3 DEF Idem!Next
<1>5. CASE Crash
  BY <1>5 DEF Crash, KeysInv, OnceInv, Busy, reqVars, Idem!vars
<1>6. CASE UNCHANGED vars
  BY <1>6 DEF vars, KeysInv, OnceInv, Busy, Idem!vars
<1> QED
  BY <1>1, <1>2, <1>3, <1>4, <1>5, <1>6 DEF Next

LEMMA RequestInit == Init => KeysInv /\ OnceInv /\ Idem!Init
BY DEF Init, KeysInv, OnceInv, Busy, Idem!Init

\* The handlers implement the promise of ExecuteIdempotent: whatever the
\* interleaving, failures and restarts, each of their steps is a start, a
\* verdict or a replay of the abstract request table, or invisible there.
THEOREM RequestsImplemented == Spec => ImplementsIdempotent
<1>1. Init => TypeOK /\ KeysInv /\ OnceInv /\ Idem!Init
  BY InitTyped, RequestInit
<1>2. TypeOK /\ KeysInv /\ OnceInv /\ [Next]_vars
        => TypeOK' /\ KeysInv' /\ OnceInv' /\ [Idem!Next]_(Idem!vars)
  BY TypeStep, RequestStep
<1> QED
  BY <1>1, <1>2, PTL DEF Spec, ImplementsIdempotent, Idem!Spec

\* The operation behind an idempotency key never starts twice, also not after
\* a restart of the server (TryCreateDNSOperationRequest).
THEOREM ExecutedOnce == Spec => []Idem!RunsOnce
<1>1. Init => TypeOK /\ KeysInv /\ OnceInv
  BY InitTyped, RequestInit
<1>2. TypeOK /\ KeysInv /\ OnceInv /\ [Next]_vars => TypeOK' /\ KeysInv' /\ OnceInv'
  BY TypeStep, RequestStep
<1>3. OnceInv => Idem!RunsOnce
  BY DEF OnceInv, Idem!RunsOnce
<1> QED
  BY <1>1, <1>2, <1>3, PTL DEF Spec

-----------------------------------------------------------------------------
\* CNAME exclusivity and the record limit.  Only three steps write a row's
\* record: the insert of a create, and the two forms of Save.  The insert
\* relies on what its worker counted before (CheckedInv), which no other worker
\* can invalidate while it holds the lock (LockInv): the others only remove
\* rows, or save a row under its own type (UpdatesInv).

Updating == {w \in Workers : pc[w] \in {"u_provider", "u_save"}}

IdsInv ==
    /\ \A i \in Present : i < nextRow
    /\ \A w \in Updating : job[w].item.id < nextRow

UpdatesInv ==
    /\ \A w \in Updating :
          job[w].item.id \in Present => SameType(job[w].new, rows[job[w].item.id].rec)
    /\ \A w, v \in Updating :
          job[w].item.id = job[v].item.id => SameType(job[w].new, job[v].new)

LockInv == \A w \in Workers : pc[w] = "c_insert" <=> lock = w

CheckedInv ==
    \A w \in Workers :
        pc[w] = "c_insert" =>
            /\ IF job[w].new \in Cnames
               THEN Settled = {}
               ELSE \A i \in Settled : rows[i].rec \notin Cnames
            /\ revived = {} => Cardinality(Present) < MaxDNSRecords

RowsInv == IdsInv /\ UpdatesInv /\ LockInv /\ CheckedInv /\ CnameExclusive /\ RowLimit

LEMMA PresentFinite ==
    ASSUME TypeOK
    PROVE  IsFiniteSet(Present) /\ Cardinality(Present) \in Nat
<1>1. IsFiniteSet(RowIds)
  BY FS_Interval, ConstantsAssumption DEF ConstantsAssumption, RowIds
<1>2. Present \subseteq RowIds
  BY DEF Present
<1> QED
  BY <1>1, <1>2, FS_Subset, FS_CardinalityType

LEMMA FewerRows ==
    ASSUME TypeOK, TypeOK', Present' \subseteq Present
    PROVE  Cardinality(Present') \in Nat /\ Cardinality(Present') <= Cardinality(Present)
BY PresentFinite, FS_Subset, FS_CardinalityType

\* A step that adds no row and changes no row's record, of a worker that does
\* not hold the lock and does not become an update.
LEMMA ShrinkingStep ==
    ASSUME TypeOK, TypeOK', RowsInv, NEW w \in Workers,
           UNCHANGED <<nextRow, revived, lock>>,
           Present' \subseteq Present,
           \A i \in Present' : rows'[i].rec = rows[i].rec,
           \A v \in Workers \ {w} : pc'[v] = pc[v] /\ job'[v] = job[v],
           pc[w] # "c_insert",
           pc'[w] # "c_insert",
           w \in Updating' => /\ w \in Updating
                              /\ job'[w].item = job[w].item
                              /\ job'[w].new = job[w].new
    PROVE  RowsInv'
<1> USE DEF RowsInv
<1>1. \A v \in Updating' : /\ v \in Updating
                           /\ job'[v].item = job[v].item
                           /\ job'[v].new = job[v].new
  BY DEF Updating
<1>2. Settled' \subseteq Settled
  BY DEF Settled
<1>3. IdsInv'
  BY <1>1 DEF IdsInv
<1>4. UpdatesInv'
  BY <1>1 DEF UpdatesInv, SameType
<1>5. LockInv'
  BY DEF LockInv, TypeOK
<1>6. CheckedInv'
  <2> SUFFICES ASSUME NEW v \in Workers, pc'[v] = "c_insert"
               PROVE  /\ IF job'[v].new \in Cnames
                         THEN Settled' = {}
                         ELSE \A i \in Settled' : rows'[i].rec \notin Cnames
                      /\ revived' = {} => Cardinality(Present') < MaxDNSRecords
    BY DEF CheckedInv
  <2>1. pc[v] = "c_insert" /\ job'[v] = job[v]
    OBVIOUS
  <2>2. \A i \in Settled' : rows'[i].rec = rows[i].rec
    BY DEF Settled
  <2>3. revived = {} => Cardinality(Present) < MaxDNSRecords
    BY <2>1 DEF CheckedInv
  <2>4. revived' = {} => Cardinality(Present') < MaxDNSRecords
    BY <2>3, FewerRows, PresentFinite, ConstantsAssumption DEF ConstantsAssumption
  <2> QED
    BY <1>2, <2>1, <2>2, <2>4 DEF CheckedInv
<1>7. CnameExclusive'
  BY <1>2 DEF CnameExclusive, Settled
<1>8. RowLimit'
  BY FewerRows, PresentFinite, ConstantsAssumption DEF ConstantsAssumption, RowLimit
<1> QED
  BY <1>3, <1>4, <1>5, <1>6, <1>7, <1>8

\* Where a handler goes, and what it keeps of its job.
LEMMA GotoMoves ==
    ASSUME TypeOK, NEW w \in Workers, NEW st, NEW j \in Jobs, Goto(w, st, j)
    PROVE  /\ pc'[w] = st
           /\ job'[w].item = j.item /\ job'[w].new = j.new
           /\ \A v \in Workers \ {w} : pc'[v] = pc[v] /\ job'[v] = job[v]
BY DEF Goto, TypeOK, Jobs

LEMMA EndMoves ==
    ASSUME TypeOK, NEW w \in Workers, NEW j \in Jobs, NEW v, EndWith(w, j, v)
    PROVE  /\ pc'[w] = "reply"
           /\ \A u \in Workers \ {w} : pc'[u] = pc[u] /\ job'[u] = job[u]
BY DEF EndWith, Goto, TypeOK

LEMMA FailAttemptMoves ==
    ASSUME TypeOK, NEW w \in Workers, NEW j \in Jobs, FailAttempt(w, j)
    PROVE  /\ pc'[w] \in {"d_del", "d_next"}
           /\ \A v \in Workers \ {w} : pc'[v] = pc[v] /\ job'[v] = job[v]
BY DEF FailAttempt, Goto, TypeOK

LEMMA DeleteStepRows ==
    ASSUME TypeOK, TypeOK', RowsInv, NEW w \in Workers, DeleteStep(w)
    PROVE  RowsInv'
<1> DEFINE j == job[w]
<1>0. j \in Jobs /\ Fits(pc[w], j)
  BY DEF TypeOK
<1>1. pc[w] \in {"d_next", "d_look", "d_row", "d_recreate", "d_repoint", "r_sweep"}
  BY DEF DeleteStep, DeleteNext, DeleteLook, DeleteRow, DeleteRecreate, DeleteRepoint, ReleaseSweep
<1>2. UNCHANGED <<nextRow, revived, lock>>
  BY DEF DeleteStep, DeleteNext, DeleteLook, DeleteRow, DeleteRecreate, DeleteRepoint,
         ReleaseSweep, dbVars
<1>3. /\ pc'[w] \in {"d_next", "d_del", "d_del2", "d_row", "d_recreate", "d_repoint", "r_sweep", "reply"}
      /\ \A v \in Workers \ {w} : pc'[v] = pc[v] /\ job'[v] = job[v]
  <2>1. CASE DeleteNext(w)
    BY <2>1 DEF DeleteNext, EndWith, Goto, TypeOK
  <2>2. CASE DeleteLook(w) \/ DeleteRow(w)
    BY <2>2 DEF DeleteLook, DeleteRow, Goto, TypeOK
  <2>3. CASE DeleteRecreate(w)
    BY <1>0, <2>3, FailAttemptMoves DEF DeleteRecreate, Goto, TypeOK
  <2>4. CASE DeleteRepoint(w)
    BY <1>0, <2>4, FailAttemptMoves DEF DeleteRepoint
  <2>5. CASE ReleaseSweep(w)
    BY <2>5 DEF ReleaseSweep, EndWith, Goto, TypeOK
  <2> QED
    BY <2>1, <2>2, <2>3, <2>4, <2>5 DEF DeleteStep
<1>4. Present' \subseteq Present /\ \A i \in Present' : rows'[i].rec = rows[i].rec
  <2>1. CASE rows' = rows
    BY <2>1 DEF Present
  <2>2. CASE DeleteRow(w) /\ rows' = [rows EXCEPT ![j.item.id] = NoRow]
    BY <2>2 DEF Present, TypeOK, NoRow
  <2>3. CASE DeleteRepoint(w)
    BY <2>3 DEF DeleteRepoint, Present, TypeOK, NoRow
  <2>4. CASE rows' = [i \in RowIds |-> NoRow]
    BY <2>4 DEF Present, NoRow
  <2> QED
    BY <2>1, <2>2, <2>3, <2>4
       DEF DeleteStep, DeleteNext, DeleteLook, DeleteRow, DeleteRecreate, ReleaseSweep, dbVars
<1>5. w \notin Updating'
  BY <1>3 DEF Updating
<1> QED
  BY <1>1, <1>2, <1>3, <1>4, <1>5, ShrinkingStep

LEMMA SharedStepRows ==
    ASSUME TypeOK, TypeOK', RowsInv, NEW w \in Workers,
           DeleteAtProvider(w) \/ DeletePresumed(w) \/ ProviderFails(w) \/ UpdateRefused(w) \/ Reply(w)
    PROVE  RowsInv'
<1> DEFINE j == job[w]
<1>0. j \in Jobs /\ UNCHANGED <<rows, nextRow, revived, lock>>
  BY DEF TypeOK, DeleteAtProvider, DeletePresumed, ProviderFails, UpdateRefused, Reply, dbVars
<1>1. Present' = Present
  BY <1>0 DEF Present
<1>2. pc[w] \in ProviderSteps \cup {"reply"}
  BY DEF DeleteAtProvider, DeletePresumed, AfterDelete, ProviderFails, UpdateRefused, Reply, ProviderSteps
<1>3. ASSUME pc'[w] \in {"d_look", "d_row", "d_del", "d_next", "reply", "idle"},
             \A v \in Workers \ {w} : pc'[v] = pc[v] /\ job'[v] = job[v]
      PROVE  RowsInv'
  <2>1. w \notin Updating' /\ pc'[w] # "c_insert" /\ pc[w] # "c_insert"
    BY <1>2, <1>3 DEF Updating, ProviderSteps
  <2> QED
    BY <1>0, <1>1, <1>3, <2>1, ShrinkingStep
<1>4. CASE DeleteAtProvider(w) \/ DeletePresumed(w)
  BY <1>3, <1>4 DEF DeleteAtProvider, DeletePresumed, AfterDelete, EndWith, Goto, TypeOK
<1>5. ASSUME NEW lost, GiveUp(w, lost) PROVE RowsInv'
  <2>1. CASE FailAttempt(w, j)
    BY <1>0, <1>3, <2>1, FailAttemptMoves
  <2>2. CASE EndWith(w, j, "failed")
    BY <1>0, <1>3, <2>2, EndMoves
  <2> QED
    BY <1>5, <2>1, <2>2 DEF GiveUp
<1>6. CASE ProviderFails(w)
  <2>1. CASE pc' = pc /\ \E lost : job' = [job EXCEPT ![w] = [job[w] EXCEPT !.tries = @ - 1, !.lost = lost]]
    <3>1. /\ \A v \in Workers \ {w} : pc'[v] = pc[v] /\ job'[v] = job[v]
          /\ job'[w].item = job[w].item /\ job'[w].new = job[w].new
      BY <1>0, <2>1 DEF TypeOK, Jobs
    <3>2. pc[w] # "c_insert" /\ (w \in Updating' => w \in Updating)
      BY <1>2, <2>1 DEF ProviderSteps, Updating
    <3> QED
      BY <1>0, <1>1, <2>1, <3>1, <3>2, ShrinkingStep
  <2> QED
    BY <1>5, <1>6, <2>1 DEF ProviderFails
<1>7. CASE UpdateRefused(w)
  BY <1>5, <1>7 DEF UpdateRefused
<1>8. CASE Reply(w)
  BY <1>3, <1>8 DEF Reply, TypeOK
<1> QED
  BY <1>4, <1>6, <1>7, <1>8

LEMMA CreateStepRows ==
    ASSUME TypeOK, TypeOK', RowsInv, NEW w \in Workers, CreateStep(w)
    PROVE  RowsInv'
<1> DEFINE j == job[w]
<1>0. j \in Jobs /\ Fits(pc[w], j)
  BY DEF TypeOK
<1>1. ASSUME pc[w] # "c_insert", pc'[w] \in {"c_check", "c_undo"},
             UNCHANGED <<rows, nextRow, revived, lock>>,
             \A v \in Workers \ {w} : pc'[v] = pc[v] /\ job'[v] = job[v]
      PROVE  RowsInv'
  <2>1. w \notin Updating' /\ Present' = Present /\ pc'[w] # "c_insert"
    BY <1>1 DEF Updating, Present
  <2> QED
    BY <1>1, <2>1, ShrinkingStep
<1>2. CASE CreateAtProvider(w)
  BY <1>1, <1>2 DEF CreateAtProvider, Goto, TypeOK, dbVars
<1>3. CASE CreateCheck(w)
  <2>1. CASE lock' = lock /\ pc'[w] = "c_undo"
    BY <1>1, <1>3, <2>1 DEF CreateCheck, Goto, TypeOK, dbVars
  <2>2. CASE Acceptable(j.new) /\ lock' = w /\ Goto(w, "c_insert", j)
    <3> USE DEF RowsInv
    <3>1. /\ pc'[w] = "c_insert" /\ job'[w].new = j.new
          /\ \A v \in Workers \ {w} : pc'[v] = pc[v] /\ job'[v] = job[v]
      BY <1>0, <2>2, GotoMoves
    <3>2. lock = NoWorker /\ UNCHANGED <<rows, nextRow, revived>> /\ pc[w] = "c_check"
      BY <1>3 DEF CreateCheck, dbVars
    <3>3. Present' = Present /\ Settled' = Settled
      BY <3>2 DEF Present, Settled
    <3>4. \A v \in Workers : pc[v] # "c_insert"
      BY <3>2, ConstantsAssumption DEF ConstantsAssumption, LockInv
    <3>5. Updating' = Updating \ {w} /\ \A v \in Updating' : job'[v] = job[v]
      BY <3>1, <3>2 DEF Updating
    <3>6. IdsInv' /\ UpdatesInv'
      BY <3>2, <3>3, <3>5 DEF IdsInv, UpdatesInv
    <3>7. LockInv'
      BY <2>2, <3>1, <3>4 DEF LockInv
    <3>8. CheckedInv'
      <4> SUFFICES ASSUME NEW v \in Workers, pc'[v] = "c_insert"
                   PROVE  /\ IF job'[v].new \in Cnames
                             THEN Settled' = {}
                             ELSE \A i \in Settled' : rows'[i].rec \notin Cnames
                          /\ revived' = {} => Cardinality(Present') < MaxDNSRecords
        BY DEF CheckedInv
      <4>1. v = w
        BY <3>1, <3>4
      <4> QED
        BY <2>2, <3>1, <3>2, <3>3, <4>1 DEF Acceptable, CnameAllows, Settled
    <3>9. CnameExclusive' /\ RowLimit'
      BY <3>2, <3>3 DEF CnameExclusive, RowLimit
    <3> QED
      BY <3>6, <3>7, <3>8, <3>9
  <2> QED
    BY <1>3, <2>1, <2>2 DEF CreateCheck, Goto, TypeOK
<1>4. CASE CreateInsert(w)
  <2> USE DEF RowsInv
  <2>1. pc[w] = "c_insert" /\ lock' = NoWorker /\ UNCHANGED revived
    BY <1>4 DEF CreateInsert
  <2>2. /\ pc'[w] \in {"reply", "c_undo"}
        /\ \A v \in Workers \ {w} : pc'[v] = pc[v] /\ job'[v] = job[v]
    BY <1>4 DEF CreateInsert, EndWith, Goto, TypeOK
  <2>3. \A v \in Workers : pc'[v] # "c_insert"
    BY <2>1, <2>2 DEF LockInv
  <2>4. LockInv' /\ CheckedInv'
    BY <2>1, <2>3, ConstantsAssumption DEF ConstantsAssumption, LockInv, CheckedInv
  <2>5. Updating' = Updating /\ \A v \in Updating' : job'[v] = job[v] /\ v # w
    BY <2>1, <2>2 DEF Updating
  <2>6. CASE rows' = rows /\ nextRow' = nextRow
    <3>1. Present' = Present /\ Settled' = Settled
      BY <2>1, <2>6 DEF Present, Settled
    <3> QED
      BY <2>1, <2>4, <2>5, <2>6, <3>1 DEF IdsInv, UpdatesInv, CnameExclusive, RowLimit
  <2>7. CASE /\ nextRow <= MaxRows
             /\ rows' = [rows EXCEPT ![nextRow] = [rec |-> j.new, pid |-> j.pid]]
             /\ nextRow' = nextRow + 1
    <3>1. nextRow \in RowIds /\ nextRow \notin Present /\ j.new \in Recs
      BY <1>0, <2>1, <2>7 DEF RowIds, IdsInv, TypeOK, Fits
    <3>2. Present' = Present \cup {nextRow}
      BY <2>7, <3>1, ConstantsAssumption DEF ConstantsAssumption, Present, TypeOK
    <3>3. rows'[nextRow].rec = j.new /\ \A i \in Present : rows'[i] = rows[i]
      BY <2>7, <3>1 DEF TypeOK, Present
    <3>4. Settled' \subseteq Settled \cup {nextRow}
      BY <2>1, <3>2 DEF Settled
    <3>5. IdsInv'
      <4>1. \A v \in Updating : job[v].item.id \in Int
        BY DEF Updating, TypeOK, Fits, Items, RowIds
      <4>2. nextRow \in Int /\ \A i \in Present : i \in Int
        BY DEF TypeOK, Present, RowIds
      <4> QED
        BY <2>5, <2>7, <3>2, <4>1, <4>2 DEF IdsInv
    <3>6. UpdatesInv'
      BY <2>5, <3>2, <3>3 DEF IdsInv, UpdatesInv, TypeOK
    <3>7. CnameExclusive'
      BY <2>1, <3>1, <3>3, <3>4 DEF CnameExclusive, CheckedInv, Settled
    <3>8. RowLimit'
      <4> SUFFICES ASSUME revived = {} PROVE Cardinality(Present') <= MaxDNSRecords
        BY <2>1 DEF RowLimit
      <4>1. Cardinality(Present) < MaxDNSRecords
        BY <2>1 DEF CheckedInv
      <4>2. Cardinality(Present') = Cardinality(Present) + 1
        BY <3>1, <3>2, PresentFinite, FS_AddElement
      <4> QED
        BY <4>1, <4>2, PresentFinite, ConstantsAssumption DEF ConstantsAssumption
    <3> QED
      BY <2>4, <3>5, <3>6, <3>7, <3>8
  <2> QED
    BY <1>4, <2>6, <2>7 DEF CreateInsert
<1> QED
  BY <1>2, <1>3, <1>4 DEF CreateStep

LEMMA UpdateStepRows ==
    ASSUME TypeOK, TypeOK', RowsInv, NEW w \in Workers, UpdateStep(w)
    PROVE  RowsInv'
<1> DEFINE j == job[w]
<1>0. j \in Jobs /\ Fits(pc[w], j)
  BY DEF TypeOK
<1>1. ASSUME pc[w] \in {"u_provider", "u_save", "u_undo"},
             pc'[w] \in {"u_save", "u_undo", "reply"},
             pc'[w] = "u_save" => /\ pc[w] = "u_provider"
                                  /\ job'[w].item = j.item /\ job'[w].new = j.new,
             UNCHANGED <<rows, nextRow, revived, lock>>,
             \A v \in Workers \ {w} : pc'[v] = pc[v] /\ job'[v] = job[v]
      PROVE  RowsInv'
  <2>1. /\ Present' = Present /\ pc'[w] # "c_insert" /\ pc[w] # "c_insert"
        /\ w \in Updating' => w \in Updating /\ pc'[w] = "u_save"
    BY <1>1 DEF Updating, Present
  <2> QED
    BY <1>1, <2>1, ShrinkingStep
<1>2. CASE UpdateAtProvider(w)
  BY <1>0, <1>1, <1>2, GotoMoves DEF UpdateAtProvider, dbVars
<1>3. CASE UpdateUndo(w)
  BY <1>0, <1>1, <1>3, EndMoves DEF UpdateUndo, dbVars
<1>4. CASE UpdateSave(w)
  <2>0. pc[w] = "u_save" /\ UNCHANGED <<nextRow, lock>>
    BY <1>4 DEF UpdateSave
  <2>1. CASE UNCHANGED <<rows, revived>>
    BY <1>1, <1>4, <2>0, <2>1 DEF UpdateSave, EndWith, Goto, TypeOK
  <2>2. CASE /\ SaveUpdates(j) \/ SaveInserts(j)
             /\ rows' = [rows EXCEPT ![j.item.id] = [rec |-> j.new, pid |-> j.item.pid]]
             /\ EndWith(w, j, "ok")
    <3> USE DEF RowsInv
    <3> DEFINE i == j.item.id
    <3>1. /\ pc'[w] = "reply"
          /\ \A v \in Workers \ {w} : pc'[v] = pc[v] /\ job'[v] = job[v]
      BY <1>0, <2>2, EndMoves
    <3>2. w \in Updating /\ i \in RowIds /\ j.new \in Recs
      BY <1>0, <2>0 DEF Updating, Fits, Items
    <3>3. rows'[i].rec = j.new /\ \A o \in RowIds \ {i} : rows'[o] = rows[o]
      BY <2>2, <3>2 DEF TypeOK
    <3>4. Present' = Present \cup {i}
      BY <3>2, <3>3, ConstantsAssumption DEF ConstantsAssumption, Present
    <3>5. \A v \in Updating' : v \in Updating /\ v # w /\ job'[v] = job[v]
      BY <3>1 DEF Updating
    <3>6. /\ Settled' = Settled
          /\ \A o \in Settled : SameType(rows'[o].rec, rows[o].rec)
      <4>1. CASE SaveUpdates(j)
        <5>1. i \in Present /\ UNCHANGED revived
          BY <4>1 DEF SaveUpdates
        <5>2. SameType(j.new, rows[i].rec)
          BY <3>2, <5>1 DEF UpdatesInv
        <5> QED
          BY <3>3, <3>4, <5>1, <5>2 DEF Settled, SameType, Present
      <4>2. CASE SaveInserts(j)
        <5>1. i \notin Present /\ revived' = revived \cup {i}
          BY <4>2 DEF SaveInserts
        <5> QED
          BY <3>3, <3>4, <5>1 DEF Settled, SameType, Present
      <4> QED
        BY <2>2, <4>1, <4>2
    <3>7. IdsInv'
      BY <2>0, <3>2, <3>4, <3>5 DEF IdsInv
    <3>8. UpdatesInv'
      <4>1. \A v \in Updating' : job'[v].item.id = i => SameType(job'[v].new, j.new)
        BY <3>2, <3>5 DEF UpdatesInv
      <4>2. \A v \in Updating' : job'[v].item.id # i /\ job'[v].item.id \in Present'
               => SameType(job'[v].new, rows'[job'[v].item.id].rec)
        BY <3>3, <3>4, <3>5 DEF UpdatesInv, Present
      <4>3. \A v, u \in Updating' :
               job'[v].item.id = job'[u].item.id => SameType(job'[v].new, job'[u].new)
        BY <3>5 DEF UpdatesInv
      <4> QED
        BY <3>3, <4>1, <4>2, <4>3 DEF UpdatesInv
    <3>9. LockInv'
      BY <2>0, <3>1 DEF LockInv
    <3>10. revived' = {} => revived = {} /\ Present' = Present
      BY <2>2, <3>4 DEF SaveUpdates, SaveInserts
    <3>11. CheckedInv'
      <4> SUFFICES ASSUME NEW v \in Workers, pc'[v] = "c_insert"
                   PROVE  /\ IF job'[v].new \in Cnames
                             THEN Settled' = {}
                             ELSE \A o \in Settled' : rows'[o].rec \notin Cnames
                          /\ revived' = {} => Cardinality(Present') < MaxDNSRecords
        BY DEF CheckedInv
      <4>1. pc[v] = "c_insert" /\ job'[v] = job[v]
        BY <3>1
      <4> QED
        BY <3>6, <3>10, <4>1 DEF CheckedInv, SameType
    <3>12. CnameExclusive'
      BY <3>6 DEF CnameExclusive, SameType
    <3>13. RowLimit'
      BY <3>10 DEF RowLimit
    <3> QED
      BY <3>7, <3>8, <3>9, <3>11, <3>12, <3>13
  <2> QED
    BY <1>4, <2>1, <2>2 DEF UpdateSave
<1> QED
  BY <1>2, <1>3, <1>4 DEF UpdateStep

LEMMA BeginRows ==
    ASSUME TypeOK, TypeOK', RowsInv, NEW w \in Workers, NEW k \in Keys, BeginSome(w, k)
    PROVE  RowsInv'
<1>1. ASSUME NEW st \in {"c_provider", "d_next"}, NEW j, Begin(w, k, st, j)
      PROVE  RowsInv'
  <2>1. /\ pc[w] = "idle" /\ pc'[w] = st
        /\ UNCHANGED <<rows, nextRow, revived, lock>>
        /\ \A v \in Workers \ {w} : pc'[v] = pc[v] /\ job'[v] = job[v]
    BY <1>1 DEF Begin, TryCreate, TypeOK, dbVars
  <2>2. w \notin Updating' /\ Present' = Present
    BY <2>1 DEF Updating, Present
  <2> QED
    BY <2>1, <2>2, ShrinkingStep
<1>2. CASE UpdateBegin(w, k)
  <2> USE DEF RowsInv
  <2>1. PICK i \in Present, r \in Recs :
          /\ SameType(r, rows[i].rec)
          /\ Begin(w, k, "u_provider", [Idle EXCEPT !.op = "update", !.item = ItemOf(i), !.new = r])
    BY <1>2 DEF UpdateBegin
  <2>2. /\ pc[w] = "idle" /\ pc'[w] = "u_provider"
        /\ UNCHANGED <<rows, nextRow, revived, lock>>
        /\ \A v \in Workers \ {w} : pc'[v] = pc[v] /\ job'[v] = job[v]
        /\ job'[w].item = ItemOf(i) /\ job'[w].new = r
    BY <2>1 DEF Begin, TryCreate, TypeOK, dbVars, Idle
  <2>3. job'[w].item.id = i
    BY <2>2 DEF ItemOf
  <2>4. Updating' = Updating \cup {w} /\ Present' = Present /\ Settled' = Settled
    BY <2>2 DEF Updating, Present, Settled
  <2>5. \A v \in Updating : job'[v] = job[v]
    BY <2>2 DEF Updating
  <2>6. IdsInv'
    BY <2>2, <2>3, <2>4, <2>5 DEF IdsInv
  <2>7. UpdatesInv'
    BY <2>1, <2>2, <2>3, <2>4, <2>5 DEF UpdatesInv, SameType
  <2>8. LockInv' /\ CheckedInv' /\ CnameExclusive' /\ RowLimit'
    BY <2>2, <2>4 DEF LockInv, CheckedInv, CnameExclusive, RowLimit
  <2> QED
    BY <2>6, <2>7, <2>8
<1> QED
  BY <1>1, <1>2 DEF BeginSome, CreateBegin, DeleteBegin, ReleaseBegin

LEMMA RowsStep ==
    ASSUME TypeOK, TypeOK', RowsInv, [Next]_vars
    PROVE  RowsInv'
<1>1. ASSUME NEW w \in Workers, NEW k \in Keys, BeginSome(w, k) PROVE RowsInv'
  BY <1>1, BeginRows
<1>2. ASSUME NEW w \in Workers, WorkerStep(w) PROVE RowsInv'
  BY <1>2, CreateStepRows, UpdateStepRows, DeleteStepRows, SharedStepRows DEF WorkerStep
<1>3. CASE Crash
  <2>1. UNCHANGED <<rows, nextRow, revived>> /\ \A w \in Workers : pc'[w] = "idle" /\ lock' = NoWorker
    BY <1>3 DEF Crash, dbVars
  <2>2. Present' = Present /\ Settled' = Settled /\ Updating' = {}
    BY <2>1 DEF Present, Settled, Updating
  <2> QED
    BY <2>1, <2>2, ConstantsAssumption
       DEF ConstantsAssumption, RowsInv, IdsInv, UpdatesInv, LockInv, CheckedInv, CnameExclusive, RowLimit
<1>4. CASE AnswerRepeat \/ UNCHANGED vars
  <2>1. UNCHANGED <<rows, nextRow, revived, lock, pc, job>>
    BY <1>4 DEF AnswerRepeat, vars, dbVars
  <2>2. Present' = Present /\ Settled' = Settled /\ Updating' = Updating
    BY <2>1 DEF Present, Settled, Updating
  <2> QED
    BY <2>1, <2>2
       DEF RowsInv, IdsInv, UpdatesInv, LockInv, CheckedInv, CnameExclusive, RowLimit
<1> QED
  BY <1>1, <1>2, <1>3, <1>4 DEF Next

LEMMA RowsInit == Init => RowsInv
<1> SUFFICES ASSUME Init PROVE RowsInv
  OBVIOUS
<1>1. Present \subseteq {1} /\ Updating = {} /\ nextRow = 2
  BY DEF Init, Present, NoRow, Updating
<1>2. Cardinality(Present) \in Nat /\ Cardinality(Present) <= 1
  <2>1. Cardinality({1}) = 1 /\ IsFiniteSet({1})
    BY FS_Singleton
  <2>2. IsFiniteSet(Present) /\ Cardinality(Present) <= 1
    BY <1>1, <2>1, FS_Subset
  <2> QED
    BY <2>2, FS_CardinalityType
<1>3. RowLimit
  <2>1. MaxDNSRecords \in Nat /\ MaxDNSRecords # 0
    BY ConstantsAssumption DEF ConstantsAssumption
  <2>2. Cardinality(Present) <= MaxDNSRecords
    BY <1>2, <2>1
  <2> QED
    BY <2>2 DEF RowLimit
<1>4. LockInv /\ CheckedInv
  BY ConstantsAssumption DEF ConstantsAssumption, Init, LockInv, CheckedInv
<1>5. IdsInv
  BY <1>1 DEF IdsInv
<1>6. UpdatesInv
  BY <1>1 DEF UpdatesInv
<1>7. CnameExclusive
  BY <1>1 DEF CnameExclusive, Settled
<1> QED
  BY <1>3, <1>4, <1>5, <1>6, <1>7 DEF RowsInv

LEMMA RowsInvariant == Spec => []RowsInv
<1>1. Init => TypeOK /\ RowsInv
  BY InitTyped, RowsInit
<1>2. TypeOK /\ RowsInv /\ [Next]_vars => TypeOK' /\ RowsInv'
  BY TypeStep, RowsStep
<1> QED
  BY <1>1, <1>2, PTL DEF Spec

\* A CNAME row never shares its subdomain with another row that passed the
\* checks of beforePersist, for any number of concurrent creates, updates,
\* deletes and releases, failures and restarts.
THEOREM CnameSafe == Spec => []CnameExclusive
BY RowsInvariant, PTL DEF RowsInv

\* Concurrent creates never exceed the record limit of the group, as long as
\* no Save has inserted a deleted row again.
THEOREM LimitSafe == Spec => []RowLimit
BY RowsInvariant, PTL DEF RowsInv

-----------------------------------------------------------------------------
\* The provider ids.  Ids are never handed out twice: a record that left the
\* zone can only come back under an id nobody has seen (StaysGone).

\* The snapshots a worker still works from.
Known(w) == {it \in Items : it = job[w].item \/ it \in job[w].todo}

Lacks(p) == \A r \in Recs : zone[r] # p

ZonePids ==
    /\ \A r \in Recs : zone[r] < nextPid
    /\ \A r, s \in Recs : zone[r] = zone[s] /\ zone[r] # 0 => r = s

\* Every provider id that is stored or remembered was handed out before.
PidsInv ==
    /\ ZonePids
    /\ \A i \in Present : rows[i].pid < nextPid
    /\ \A w \in Workers : job[w].pid < nextPid /\ \A it \in Known(w) : it.pid < nextPid

ZoneChange ==
    \/ UNCHANGED provVars
    \/ \E r \in Recs : PCreate(r)
    \/ \E p \in 0..MaxPids : PDelete(p)
    \/ \E p \in Pids, r \in Recs : PUpdate(p, r)

LEMMA StaysGone ==
    ASSUME TypeOK, TypeOK', ZonePids, ZoneChange
    PROVE  /\ ZonePids' /\ nextPid <= nextPid'
           /\ \A q \in Pids : q < nextPid /\ Lacks(q) => Lacks(q)'
<1> USE ConstantsAssumption DEF ConstantsAssumption, Lacks, ZonePids, Pids
<1>0. zone \in [Recs -> 0..MaxPids] /\ nextPid \in 1..(MaxPids + 1)
  BY DEF TypeOK
<1>1. CASE UNCHANGED provVars
  BY <1>0, <1>1 DEF provVars
<1>2. ASSUME NEW r \in Recs, PCreate(r)
      PROVE  /\ ZonePids' /\ nextPid <= nextPid'
             /\ \A q \in Pids : q < nextPid /\ Lacks(q) => Lacks(q)'
  <2>1. CASE UNCHANGED provVars
    BY <1>0, <2>1 DEF provVars
  <2>2. CASE zone' = [zone EXCEPT ![r] = nextPid] /\ nextPid' = nextPid + 1
    BY <1>0, <2>2
  <2> QED
    BY <1>2, <2>1, <2>2 DEF PCreate
<1>3. ASSUME NEW p \in 0..MaxPids, PDelete(p)
      PROVE  /\ ZonePids' /\ nextPid <= nextPid'
             /\ \A q \in Pids : q < nextPid /\ Lacks(q) => Lacks(q)'
  BY <1>0, <1>3 DEF PDelete
<1>4. ASSUME NEW p \in Pids, NEW n \in Recs, PUpdate(p, n)
      PROVE  /\ ZonePids' /\ nextPid <= nextPid'
             /\ \A q \in Pids : q < nextPid /\ Lacks(q) => Lacks(q)'
  <2>1. PICK r \in Recs : zone[r] = p /\ zone' = [zone EXCEPT ![r] = 0, ![n] = p] /\ nextPid' = nextPid
    BY <1>4 DEF PUpdate, Updatable
  <2> QED
    BY <1>0, <2>1
<1> QED
  BY <1>1, <1>2, <1>3, <1>4 DEF ZoneChange

\* What one step of worker w may do to the others' jobs, to the zone, to the
\* ids its own job holds and to the ids in the rows.
OthersKeep(w) == \A v \in Workers \ {w} : pc'[v] = pc[v] /\ job'[v] = job[v]

LearnsFromRows(w) ==
    \A it \in Known(w)' : it \in Known(w) \/ \E i \in Present : it = ItemOf(i)

PidKnown(w) ==
    \/ job'[w].pid \in {0, job[w].pid}
    \/ \E it \in Known(w)' : job'[w].pid = it.pid
    \/ \E r \in Recs : job'[w].pid = zone'[r]

RowPidKnown(w, i) ==
    \/ i \in Present /\ rows'[i].pid = rows[i].pid
    \/ pc[w] = "c_insert" /\ i = nextRow /\ nextRow' = nextRow + 1 /\ rows'[i].pid = job[w].pid
    \/ pc[w] = "d_repoint" /\ i \in Present /\ rows'[i].pid = job[w].pid
    \/ \E it \in Known(w) : it.id = i /\ rows'[i].pid = it.pid

WorkerChange(w) ==
    /\ OthersKeep(w)
    /\ ZoneChange
    /\ LearnsFromRows(w)
    /\ PidKnown(w)
    /\ \A i \in Present' : RowPidKnown(w, i)
    /\ \A i \in Present \ Present' :
          (pc[w] = "d_row" /\ i = job[w].item.id) \/ "sweep" \in mishaps'
    /\ nextRow <= nextRow'
    /\ mishaps \subseteq mishaps'

\* A job that is handed on keeps its ids.
LEMMA GotoKeeps ==
    ASSUME TypeOK, NEW w \in Workers, NEW st, NEW j \in Jobs, Goto(w, st, j)
    PROVE  /\ pc'[w] = st
           /\ job'[w].item = j.item /\ job'[w].todo = j.todo /\ job'[w].pid = j.pid
           /\ job'[w].new = j.new /\ job'[w].lost = FALSE
           /\ OthersKeep(w)
BY DEF Goto, TypeOK, Jobs, OthersKeep

LEMMA EndKeeps ==
    ASSUME TypeOK, NEW w \in Workers, NEW j \in Jobs, NEW v \in Verdicts, EndWith(w, j, v)
    PROVE  /\ pc'[w] = "reply"
           /\ job'[w].item = j.item /\ job'[w].todo = j.todo /\ job'[w].pid = j.pid
           /\ OthersKeep(w)
<1> DEFINE j2 == [j EXCEPT !.res = v]
<1>1. j2 \in Jobs /\ j2.item = j.item /\ j2.todo = j.todo /\ j2.pid = j.pid
  BY DEF Jobs
<1>2. Goto(w, "reply", j2)
  BY DEF EndWith
<1> HIDE DEF j2
<1> QED
  BY <1>1, <1>2, GotoKeeps

LEMMA FailAttemptKeeps ==
    ASSUME TypeOK, NEW w \in Workers, NEW j \in Jobs, j.item \in Items, FailAttempt(w, j)
    PROVE  /\ job'[w].item = j.item /\ job'[w].todo = j.todo /\ OthersKeep(w)
           /\ \/ pc'[w] = "d_del" /\ job'[w].pid = j.item.pid
              \/ pc'[w] = "d_next" /\ job'[w].pid = j.pid
<1>1. CASE Goto(w, "d_del", [j EXCEPT !.left = @ - 1, !.pid = j.item.pid])
  <2> DEFINE j2 == [j EXCEPT !.left = @ - 1, !.pid = j.item.pid]
  <2>1. j2.item = j.item /\ j2.todo = j.todo /\ j2.pid = j.item.pid
    BY DEF Jobs
  <2>2. job'[w] = [j2 EXCEPT !.tries = CallAttempts, !.lost = FALSE] /\ pc'[w] = "d_del"
    BY <1>1 DEF Goto, TypeOK
  <2>3. OthersKeep(w)
    BY <1>1 DEF Goto, OthersKeep, TypeOK
  <2> QED
    BY <2>1, <2>2, <2>3 DEF Jobs
<1>2. CASE Goto(w, "d_next", [j EXCEPT !.res = IF j.op = "release" THEN "rejected" ELSE "failed"])
  <2> DEFINE j2 == [j EXCEPT !.res = IF j.op = "release" THEN "rejected" ELSE "failed"]
  <2>1. j2.item = j.item /\ j2.todo = j.todo /\ j2.pid = j.pid
    BY DEF Jobs
  <2>2. job'[w] = [j2 EXCEPT !.tries = CallAttempts, !.lost = FALSE] /\ pc'[w] = "d_next"
    BY <1>2 DEF Goto, TypeOK
  <2>3. OthersKeep(w)
    BY <1>2 DEF Goto, OthersKeep, TypeOK
  <2> QED
    BY <2>1, <2>2, <2>3 DEF Jobs
<1> QED
  BY <1>1, <1>2 DEF FailAttempt

LEMMA RowsUntouched ==
    ASSUME NEW w \in Workers, UNCHANGED rows
    PROVE  /\ Present' = Present /\ \A i \in Present' : RowPidKnown(w, i)
           /\ \A i \in Present \ Present' : pc[w] = "d_row" /\ i = job[w].item.id
BY DEF Present, RowPidKnown

LEMMA SameSnapshots ==
    ASSUME NEW w \in Workers, job'[w].item = job[w].item, job'[w].todo = job[w].todo
    PROVE  Known(w)' = Known(w) /\ LearnsFromRows(w)
BY DEF Known, LearnsFromRows

\* The worker moves on with its job as it is, or ends.
LEMMA GotoSame ==
    ASSUME TypeOK, NEW w \in Workers, NEW st, Goto(w, st, job[w])
    PROVE  OthersKeep(w) /\ LearnsFromRows(w) /\ PidKnown(w) /\ Known(w)' = Known(w)
<1>1. job[w] \in Jobs
  BY DEF TypeOK
<1>2. /\ job'[w].item = job[w].item /\ job'[w].todo = job[w].todo /\ job'[w].pid = job[w].pid
      /\ OthersKeep(w)
  BY <1>1, GotoKeeps
<1> QED
  BY <1>2, SameSnapshots DEF PidKnown

LEMMA EndSame ==
    ASSUME TypeOK, NEW w \in Workers, NEW v \in Verdicts, EndWith(w, job[w], v)
    PROVE  OthersKeep(w) /\ LearnsFromRows(w) /\ PidKnown(w) /\ Known(w)' = Known(w)
<1>1. job[w] \in Jobs
  BY DEF TypeOK
<1>2. /\ job'[w].item = job[w].item /\ job'[w].todo = job[w].todo /\ job'[w].pid = job[w].pid
      /\ OthersKeep(w)
  BY <1>1, EndKeeps
<1> QED
  BY <1>2, SameSnapshots DEF PidKnown

LEMMA CreateStepChange ==
    ASSUME TypeOK, TypeOK', NEW w \in Workers, CreateStep(w)
    PROVE  WorkerChange(w)
<1> USE DEF WorkerChange
<1> DEFINE j == job[w]
<1>0. j \in Jobs /\ Fits(pc[w], j) /\ nextRow \in Nat
  BY DEF TypeOK
<1>1. CASE CreateAtProvider(w)
  <2>1. j.new \in Recs
    BY <1>0, <1>1 DEF CreateAtProvider, Fits
  <2>2. zone'[j.new] \in 0..MaxPids
    BY <2>1 DEF TypeOK
  <2> DEFINE j2 == [j EXCEPT !.pid = zone'[j.new]]
  <2>3. j2 \in Jobs /\ j2.item = j.item /\ j2.todo = j.todo /\ j2.pid = zone'[j.new]
    BY <1>0, <2>2 DEF Jobs
  <2>4. Goto(w, "c_check", j2) /\ PCreate(j.new) /\ UNCHANGED <<rows, nextRow, mishaps>>
    BY <1>1 DEF CreateAtProvider, dbVars
  <2> HIDE DEF j2
  <2>5. OthersKeep(w) /\ LearnsFromRows(w) /\ job'[w].pid = zone'[j.new]
    BY <2>3, <2>4, GotoKeeps, SameSnapshots
  <2>6. ZoneChange /\ PidKnown(w)
    BY <2>1, <2>4, <2>5 DEF ZoneChange, PidKnown
  <2> QED
    BY <1>0, <2>4, <2>5, <2>6, RowsUntouched
<1>2. ASSUME NEW v \in Verdicts, Goto(w, "c_undo", [j EXCEPT !.res = v])
      PROVE  OthersKeep(w) /\ LearnsFromRows(w) /\ PidKnown(w)
  <2> DEFINE j2 == [j EXCEPT !.res = v]
  <2>1. j2 \in Jobs /\ j2.item = j.item /\ j2.todo = j.todo /\ j2.pid = j.pid
    BY <1>0 DEF Jobs
  <2>2. Goto(w, "c_undo", j2)
    BY <1>2
  <2> HIDE DEF j2
  <2> QED
    BY <2>1, <2>2, GotoKeeps, SameSnapshots DEF PidKnown
<1>3. CASE CreateCheck(w)
  <2>1. OthersKeep(w) /\ LearnsFromRows(w) /\ PidKnown(w)
    <3>1. ASSUME Goto(w, "c_insert", j) PROVE OthersKeep(w) /\ LearnsFromRows(w) /\ PidKnown(w)
      BY <1>0, <3>1, GotoKeeps, SameSnapshots DEF PidKnown
    <3> QED
      BY <1>2, <1>3, <3>1 DEF CreateCheck, Verdicts
  <2>2. UNCHANGED <<rows, nextRow, mishaps, provVars>>
    BY <1>3 DEF CreateCheck, dbVars
  <2> QED
    BY <1>0, <2>1, <2>2, RowsUntouched DEF ZoneChange
<1>4. CASE CreateInsert(w)
  <2>1. OthersKeep(w) /\ LearnsFromRows(w) /\ PidKnown(w)
    <3>1. ASSUME EndWith(w, j, "ok") PROVE OthersKeep(w) /\ LearnsFromRows(w) /\ PidKnown(w)
      BY <1>0, <3>1, EndKeeps, SameSnapshots DEF PidKnown, Verdicts
    <3> QED
      BY <1>2, <1>4, <3>1 DEF CreateInsert, Verdicts
  <2>2. UNCHANGED <<mishaps, provVars>> /\ pc[w] = "c_insert"
    BY <1>4 DEF CreateInsert
  <2>3. CASE UNCHANGED <<rows, nextRow>>
    BY <1>0, <2>1, <2>2, <2>3, RowsUntouched DEF ZoneChange
  <2>4. CASE /\ rows' = [rows EXCEPT ![nextRow] = [rec |-> j.new, pid |-> j.pid]]
             /\ nextRow' = nextRow + 1 /\ nextRow <= MaxRows
    <3>1. nextRow \in RowIds /\ j.new \in Recs
      BY <1>0, <2>2, <2>4 DEF RowIds, TypeOK, Fits
    <3>2. \A i \in Present' : RowPidKnown(w, i)
      BY <2>2, <2>4, <3>1 DEF Present, RowPidKnown, TypeOK
    <3>3. Present \subseteq Present'
      BY <2>4, <3>1, ConstantsAssumption DEF ConstantsAssumption, Present, TypeOK
    <3> QED
      BY <1>0, <2>1, <2>2, <2>4, <3>2, <3>3 DEF ZoneChange
  <2> QED
    BY <1>4, <2>3, <2>4 DEF CreateInsert
<1> QED
  BY <1>1, <1>3, <1>4 DEF CreateStep

LEMMA UpdateStepChange ==
    ASSUME TypeOK, TypeOK', NEW w \in Workers, UpdateStep(w)
    PROVE  WorkerChange(w)
<1> USE DEF WorkerChange
<1> DEFINE j == job[w]
<1>0. j \in Jobs /\ Fits(pc[w], j) /\ nextRow \in Nat
  BY DEF TypeOK
<1>1. pc[w] \in {"u_provider", "u_save", "u_undo"} /\ j.item \in Items /\ j.item \in Known(w)
  BY <1>0 DEF UpdateStep, UpdateAtProvider, UpdateSave, UpdateUndo, Fits, Known
<1>2. ASSUME NEW v \in Verdicts, Goto(w, "u_undo", [j EXCEPT !.res = v])
      PROVE  OthersKeep(w) /\ LearnsFromRows(w) /\ PidKnown(w)
  <2> DEFINE j2 == [j EXCEPT !.res = v]
  <2>1. j2 \in Jobs /\ j2.item = j.item /\ j2.todo = j.todo /\ j2.pid = j.pid
    BY <1>0 DEF Jobs
  <2>2. Goto(w, "u_undo", j2)
    BY <1>2
  <2> HIDE DEF j2
  <2> QED
    BY <2>1, <2>2, GotoKeeps, SameSnapshots DEF PidKnown
<1>3. ASSUME NEW v \in Verdicts, EndWith(w, j, v)
      PROVE  OthersKeep(w) /\ LearnsFromRows(w) /\ PidKnown(w)
  BY <1>0, <1>3, EndKeeps, SameSnapshots DEF PidKnown
<1>4. CASE UpdateAtProvider(w)
  <2>1. OthersKeep(w) /\ LearnsFromRows(w) /\ PidKnown(w)
    BY <1>4, GotoSame DEF UpdateAtProvider
  <2>2. ZoneChange
    <3>1. j.item.pid \in Pids /\ j.new \in Recs
      BY <1>0, <1>1, <1>4 DEF UpdateAtProvider, Fits, Items
    <3> QED
      BY <1>4, <3>1 DEF UpdateAtProvider, ZoneChange
  <2> QED
    BY <1>0, <1>4, <2>1, <2>2, RowsUntouched DEF UpdateAtProvider, dbVars, Note
<1>5. CASE UpdateUndo(w)
  <2>1. OthersKeep(w) /\ LearnsFromRows(w) /\ PidKnown(w)
    BY <1>0, <1>3, <1>5 DEF UpdateUndo, Fits
  <2>2. ZoneChange
    BY <1>1, <1>5 DEF UpdateUndo, ZoneChange, Items
  <2> QED
    BY <1>0, <1>5, <2>1, <2>2, RowsUntouched DEF UpdateUndo, dbVars, Note
<1>6. CASE UpdateSave(w)
  <2>1. OthersKeep(w) /\ LearnsFromRows(w) /\ PidKnown(w)
    BY <1>2, <1>3, <1>6 DEF UpdateSave, Verdicts
  <2>2. UNCHANGED <<nextRow, mishaps, provVars>>
    BY <1>6 DEF UpdateSave
  <2>3. CASE UNCHANGED rows
    BY <1>0, <2>1, <2>2, <2>3, RowsUntouched DEF ZoneChange
  <2>4. CASE rows' = [rows EXCEPT ![j.item.id] = [rec |-> j.new, pid |-> j.item.pid]]
    <3>1. j.item.id \in RowIds /\ j.new \in Recs
      BY <1>0, <1>1, <1>6 DEF UpdateSave, Fits, Items
    <3>2. \A i \in Present' : RowPidKnown(w, i)
      <4> SUFFICES ASSUME NEW i \in Present' PROVE RowPidKnown(w, i)
        OBVIOUS
      <4>1. CASE i = j.item.id
        <5>1. rows'[i].pid = j.item.pid
          BY <2>4, <3>1, <4>1 DEF TypeOK
        <5> QED
          BY <1>1, <4>1, <5>1 DEF RowPidKnown
      <4>2. CASE i # j.item.id
        BY <2>4, <4>2 DEF Present, RowPidKnown, TypeOK
      <4> QED
        BY <4>1, <4>2
    <3>3. Present \subseteq Present'
      BY <2>4, <3>1, ConstantsAssumption DEF ConstantsAssumption, Present, TypeOK
    <3> QED
      BY <1>0, <2>1, <2>2, <2>4, <3>2, <3>3 DEF ZoneChange
  <2> QED
    BY <1>6, <2>3, <2>4 DEF UpdateSave
<1> QED
  BY <1>4, <1>5, <1>6 DEF UpdateStep

\* The delete turns to the next of its snapshots.
LEMMA TakesItem ==
    ASSUME TypeOK, NEW w \in Workers, NEW it \in job[w].todo,
           Goto(w, "d_del", [job[w] EXCEPT !.item = it, !.pid = it.pid, !.todo = @ \ {it},
                                           !.left = Attempts(job[w].op)])
    PROVE  /\ OthersKeep(w) /\ LearnsFromRows(w) /\ PidKnown(w)
           /\ job'[w].item = it /\ job'[w].pid = it.pid /\ job'[w].todo = job[w].todo \ {it}
<1> DEFINE j2 == [job[w] EXCEPT !.item = it, !.pid = it.pid, !.todo = @ \ {it},
                                !.left = Attempts(job[w].op)]
<1>0. job[w] \in Jobs
  BY DEF TypeOK
<1>1. it \in Items /\ it.pid \in 0..MaxPids /\ job[w].todo \ {it} \in SUBSET Items
  BY <1>0, ConstantsAssumption DEF ConstantsAssumption, Jobs, Items, Pids
<1>2. Attempts(job[w].op) \in 0..(DeleteAttempts + BatchAttempts)
  BY AttemptBounds DEF Attempts
<1>3. j2 \in Jobs /\ j2.item = it /\ j2.pid = it.pid /\ j2.todo = job[w].todo \ {it}
  BY <1>0, <1>1, <1>2 DEF Jobs
<1>4. Goto(w, "d_del", j2)
  OBVIOUS
<1>a. j2 \in Jobs
  BY <1>3
<1> HIDE DEF j2
<1>5. job'[w].item = j2.item /\ job'[w].pid = j2.pid /\ job'[w].todo = j2.todo /\ OthersKeep(w)
  BY <1>a, <1>4, GotoKeeps
<1>6. it \in Known(w)' /\ \A o \in Known(w)' : o \in Known(w)
  BY <1>0, <1>1, <1>3, <1>5 DEF Known
<1> QED
  BY <1>3, <1>5, <1>6 DEF LearnsFromRows, PidKnown

LEMMA DeleteStepChange ==
    ASSUME TypeOK, TypeOK', NEW w \in Workers, DeleteStep(w)
    PROVE  WorkerChange(w)
<1> USE DEF WorkerChange
<1> DEFINE j == job[w]
<1>0. j \in Jobs /\ Fits(pc[w], j) /\ nextRow \in Nat
  BY DEF TypeOK
<1>1. CASE DeleteNext(w)
  <2>1. UNCHANGED <<rows, nextRow, mishaps, provVars>>
    BY <1>1 DEF DeleteNext, dbVars
  <2>2. OthersKeep(w) /\ LearnsFromRows(w) /\ PidKnown(w)
    <3>1. ASSUME NEW it \in j.todo,
                 Goto(w, "d_del", [j EXCEPT !.item = it, !.pid = it.pid, !.todo = @ \ {it},
                                            !.left = Attempts(j.op)])
          PROVE  OthersKeep(w) /\ LearnsFromRows(w) /\ PidKnown(w)
      BY <3>1, TakesItem
    <3>2. ASSUME Goto(w, "r_sweep", j) PROVE OthersKeep(w) /\ LearnsFromRows(w) /\ PidKnown(w)
      BY <1>0, <3>2, GotoKeeps, SameSnapshots DEF PidKnown
    <3>3. ASSUME EndWith(w, j, j.res) PROVE OthersKeep(w) /\ LearnsFromRows(w) /\ PidKnown(w)
      BY <1>0, <1>1, <3>3, EndKeeps, SameSnapshots DEF PidKnown, DeleteNext, Fits
    <3> QED
      BY <1>1, <3>1, <3>2, <3>3 DEF DeleteNext
  <2> QED
    BY <1>0, <2>1, <2>2, RowsUntouched DEF ZoneChange
<1>2. CASE DeleteLook(w)
  <2>1. j.item.rec \in Recs /\ zone[j.item.rec] \in 0..MaxPids
    BY <1>0, <1>2 DEF DeleteLook, Fits, Items, TypeOK
  <2> DEFINE j2 == [j EXCEPT !.pid = zone[j.item.rec]]
  <2>2. j2 \in Jobs /\ j2.item = j.item /\ j2.todo = j.todo /\ j2.pid = zone[j.item.rec]
    BY <1>0, <2>1 DEF Jobs
  <2>3. Goto(w, "d_row", j) \/ Goto(w, "d_del2", j2)
    BY <1>2 DEF DeleteLook
  <2> HIDE DEF j2
  <2>4. UNCHANGED <<rows, nextRow, mishaps, provVars, zone>>
    BY <1>2 DEF DeleteLook, dbVars, provVars
  <2>5. OthersKeep(w) /\ LearnsFromRows(w) /\ job'[w].pid \in {j.pid, zone'[j.item.rec]}
    BY <1>0, <2>2, <2>3, <2>4, GotoKeeps, SameSnapshots
  <2> QED
    BY <1>0, <2>1, <2>4, <2>5, RowsUntouched DEF ZoneChange, PidKnown
<1>3. CASE DeleteRow(w)
  <2>1. pc[w] = "d_row" /\ j.item \in Items /\ UNCHANGED <<nextRow, provVars>> /\ mishaps \subseteq mishaps'
    BY <1>0, <1>3 DEF DeleteRow, Fits, Note
  <2>2. OthersKeep(w) /\ LearnsFromRows(w) /\ PidKnown(w)
    BY <1>3, GotoSame DEF DeleteRow
  <2>3. CASE UNCHANGED rows
    BY <1>0, <2>1, <2>2, <2>3, RowsUntouched DEF ZoneChange
  <2>4. CASE rows' = [rows EXCEPT ![j.item.id] = NoRow]
    <3>1. \A i \in Present' : i \in Present /\ rows'[i] = rows[i]
      BY <2>4 DEF Present, NoRow, TypeOK
    <3>2. \A i \in Present \ Present' : i = j.item.id
      BY <2>4 DEF Present, TypeOK
    <3> QED
      BY <1>0, <2>1, <2>2, <3>1, <3>2 DEF ZoneChange, RowPidKnown
  <2> QED
    BY <1>3, <2>3, <2>4 DEF DeleteRow
<1>4. CASE DeleteRecreate(w)
  <2>1. j.item \in Items /\ j.item.rec \in Recs /\ j.item \in Known(w)
    BY <1>0, <1>4 DEF DeleteRecreate, Fits, Items, Known
  <2>2. zone'[j.item.rec] \in 0..MaxPids
    BY <2>1 DEF TypeOK
  <2> DEFINE j2 == [j EXCEPT !.pid = zone'[j.item.rec]]
  <2>3. j2 \in Jobs /\ j2.item = j.item /\ j2.todo = j.todo /\ j2.pid = zone'[j.item.rec]
    BY <1>0, <2>2 DEF Jobs
  <2>4. FailAttempt(w, j) \/ Goto(w, "d_repoint", j2)
    BY <1>4 DEF DeleteRecreate
  <2> HIDE DEF j2
  <2>5. /\ OthersKeep(w) /\ LearnsFromRows(w) /\ Known(w)' = Known(w)
        /\ job'[w].pid \in {j.pid, j.item.pid, zone'[j.item.rec]}
    BY <1>0, <2>1, <2>3, <2>4, GotoKeeps, FailAttemptKeeps, SameSnapshots
  <2>6. PidKnown(w)
    BY <2>1, <2>5 DEF PidKnown
  <2>7. ZoneChange /\ UNCHANGED <<rows, nextRow, mishaps>>
    BY <1>4, <2>1 DEF DeleteRecreate, ZoneChange, dbVars
  <2> QED
    BY <1>0, <2>5, <2>6, <2>7, RowsUntouched
<1>5. CASE DeleteRepoint(w)
  <2>1. /\ pc[w] = "d_repoint" /\ j.item \in Items /\ j.item \in Known(w)
        /\ UNCHANGED <<nextRow, provVars>> /\ mishaps \subseteq mishaps'
    BY <1>0, <1>5 DEF DeleteRepoint, Fits, Note, Known
  <2>2. OthersKeep(w) /\ LearnsFromRows(w) /\ Known(w)' = Known(w) /\ job'[w].pid \in {j.pid, j.item.pid}
    BY <1>0, <1>5, <2>1, FailAttemptKeeps, SameSnapshots DEF DeleteRepoint
  <2>3. PidKnown(w)
    BY <2>1, <2>2 DEF PidKnown
  <2>4. CASE UNCHANGED rows
    BY <1>0, <2>1, <2>2, <2>3, <2>4, RowsUntouched DEF ZoneChange
  <2>5. CASE rows' = [rows EXCEPT ![j.item.id].pid = IF j.item.id \in Present THEN j.pid ELSE 0]
    <3>1. Present' = Present
      BY <2>5 DEF Present, TypeOK, NoRow
    <3>2. \A i \in Present : rows'[i].pid \in {rows[i].pid, j.pid}
      BY <2>5 DEF Present, TypeOK, NoRow
    <3> QED
      BY <1>0, <2>1, <2>2, <2>3, <3>1, <3>2 DEF ZoneChange, RowPidKnown
  <2> QED
    BY <1>5, <2>4, <2>5 DEF DeleteRepoint
<1>6. CASE ReleaseSweep(w)
  <2>1. UNCHANGED <<nextRow, provVars>> /\ mishaps \subseteq mishaps'
    BY <1>6 DEF ReleaseSweep, Note
  <2>2. OthersKeep(w) /\ LearnsFromRows(w) /\ PidKnown(w)
    BY <1>0, <1>6, EndKeeps, SameSnapshots DEF ReleaseSweep, PidKnown, Verdicts
  <2>3. CASE UNCHANGED rows
    BY <1>0, <2>1, <2>2, <2>3, RowsUntouched DEF ZoneChange
  <2>4. CASE rows' = [i \in RowIds |-> NoRow] /\ Note(IF Present = {} THEN {} ELSE {"sweep"})
    <3>1. Present' = {}
      BY <2>4 DEF Present, NoRow
    <3>2. Present = {} \/ "sweep" \in mishaps'
      BY <2>4 DEF Note
    <3> QED
      BY <1>0, <2>1, <2>2, <3>1, <3>2 DEF ZoneChange
  <2> QED
    BY <1>6, <2>3, <2>4 DEF ReleaseSweep
<1> QED
  BY <1>1, <1>2, <1>3, <1>4, <1>5, <1>6 DEF DeleteStep

LEMMA EffectChange ==
    ASSUME TypeOK, NEW w \in Workers, Effect(w)
    PROVE  ZoneChange
<1>0. job[w] \in Jobs /\ Fits(pc[w], job[w])
  BY DEF TypeOK
<1>1. CASE pc[w] = "c_provider" /\ PCreate(job[w].new)
  BY <1>0, <1>1 DEF Fits, ZoneChange
<1>2. CASE pc[w] = "d_recreate" /\ PCreate(job[w].item.rec)
  BY <1>0, <1>2 DEF Fits, Items, ZoneChange
<1>3. CASE PDelete(job[w].pid)
  BY <1>0, <1>3 DEF Jobs, ZoneChange
<1>4. CASE pc[w] \in {"u_provider", "u_undo"} /\ PUpdate(job[w].item.pid, UpdateTo(w))
  <2>1. job[w].item.pid \in Pids /\ UpdateTo(w) \in Recs
    BY <1>0, <1>4 DEF Fits, Items, UpdateTo
  <2> QED
    BY <1>4, <2>1 DEF ZoneChange
<1>5. CASE UNCHANGED provVars
  BY <1>5 DEF ZoneChange
<1> QED
  BY <1>1, <1>2, <1>3, <1>4, <1>5 DEF Effect

\* The worker gives up its provider call.
LEMMA GiveUpChange ==
    ASSUME TypeOK, NEW w \in Workers, NEW lost, GiveUp(w, lost)
    PROVE  /\ OthersKeep(w) /\ LearnsFromRows(w) /\ PidKnown(w)
           /\ mishaps \subseteq mishaps'
<1> DEFINE j == job[w]
<1>0. j \in Jobs /\ Fits(pc[w], j)
  BY DEF TypeOK
<1>1. mishaps \subseteq mishaps'
  BY DEF GiveUp, Note
<1>2. CASE EndWith(w, j, "failed")
  BY <1>0, <1>1, <1>2, EndKeeps, SameSnapshots DEF PidKnown, Verdicts
<1>3. CASE pc[w] \in {"d_del", "d_look", "d_del2", "d_recreate"} /\ FailAttempt(w, j)
  <2>1. j.item \in Items /\ j.item \in Known(w)
    BY <1>0, <1>3 DEF Fits, Known
  <2>2. OthersKeep(w) /\ LearnsFromRows(w) /\ Known(w)' = Known(w) /\ job'[w].pid \in {j.pid, j.item.pid}
    BY <1>0, <1>3, <2>1, FailAttemptKeeps, SameSnapshots
  <2> QED
    BY <1>1, <2>1, <2>2 DEF PidKnown
<1> QED
  BY <1>2, <1>3 DEF GiveUp

LEMMA SharedStepChange ==
    ASSUME TypeOK, TypeOK', NEW w \in Workers,
           DeleteAtProvider(w) \/ DeletePresumed(w) \/ ProviderFails(w) \/ UpdateRefused(w) \/ Reply(w)
    PROVE  WorkerChange(w)
<1> DEFINE j == job[w]
<1>a. UNCHANGED <<rows, nextRow>>
  BY DEF DeleteAtProvider, DeletePresumed, ProviderFails, UpdateRefused, Reply, dbVars
<1>0. j \in Jobs /\ Fits(pc[w], j) /\ nextRow \in Nat /\ UNCHANGED <<rows, nextRow>>
  BY <1>a DEF TypeOK
<1> USE DEF WorkerChange
<1>1. CASE DeleteAtProvider(w) \/ DeletePresumed(w)
  <2>1. AfterDelete(w)
    BY <1>1 DEF DeleteAtProvider, DeletePresumed
  <2>2. OthersKeep(w) /\ LearnsFromRows(w) /\ PidKnown(w)
    <3>1. CASE pc[w] = "c_undo" /\ EndWith(w, j, j.res)
      BY <1>0, <3>1, EndSame DEF Fits
    <3>2. CASE Goto(w, "d_look", j) \/ Goto(w, "d_row", j)
      BY <3>2, GotoSame
    <3> QED
      BY <2>1, <3>1, <3>2 DEF AfterDelete
  <2>3. ZoneChange /\ mishaps \subseteq mishaps'
    BY <1>0, <1>1 DEF DeleteAtProvider, DeletePresumed, ZoneChange, Jobs, Note
  <2> QED
    BY <1>0, <2>2, <2>3, RowsUntouched
<1>2. CASE ProviderFails(w)
  <2>1. ZoneChange
    BY <1>2, EffectChange DEF ProviderFails, ZoneChange
  <2>2. OthersKeep(w) /\ LearnsFromRows(w) /\ PidKnown(w) /\ mishaps \subseteq mishaps'
    <3>1. ASSUME NEW lost, GiveUp(w, lost)
          PROVE  OthersKeep(w) /\ LearnsFromRows(w) /\ PidKnown(w) /\ mishaps \subseteq mishaps'
      BY <3>1, GiveUpChange
    <3>2. ASSUME NEW lost, job' = [job EXCEPT ![w] = [job[w] EXCEPT !.tries = @ - 1, !.lost = lost]],
                 UNCHANGED <<pc, key>>, mishaps \subseteq mishaps'
          PROVE  OthersKeep(w) /\ LearnsFromRows(w) /\ PidKnown(w) /\ mishaps \subseteq mishaps'
      <4>1. job'[w].item = j.item /\ job'[w].todo = j.todo /\ job'[w].pid = j.pid /\ OthersKeep(w)
        BY <1>0, <3>2 DEF TypeOK, Jobs, OthersKeep
      <4> QED
        BY <3>2, <4>1, SameSnapshots DEF PidKnown
    <3> QED
      BY <1>2, <3>1, <3>2 DEF ProviderFails, Note
  <2> QED
    BY <1>0, <2>1, <2>2, RowsUntouched
<1>3. CASE UpdateRefused(w)
  BY <1>0, <1>3, GiveUpChange, RowsUntouched DEF UpdateRefused, ZoneChange
<1>4. CASE Reply(w)
  <2>1. OthersKeep(w) /\ job'[w] = Idle /\ UNCHANGED <<provVars, mishaps>>
    BY <1>4 DEF Reply, OthersKeep, TypeOK
  <2>2. Known(w)' = {} /\ PidKnown(w)
    BY <2>1 DEF Idle, Known, Items, NoItem, RowIds, PidKnown
  <2> QED
    BY <1>0, <2>1, <2>2, RowsUntouched DEF ZoneChange, LearnsFromRows
<1> QED
  BY <1>1, <1>2, <1>3, <1>4

LEMMA WorkerStepChange ==
    ASSUME TypeOK, TypeOK', NEW w \in Workers, WorkerStep(w)
    PROVE  WorkerChange(w)
BY CreateStepChange, UpdateStepChange, DeleteStepChange, SharedStepChange DEF WorkerStep

LEMMA BeginChange ==
    ASSUME TypeOK, TypeOK', NEW w \in Workers, NEW k \in Keys, BeginSome(w, k)
    PROVE  WorkerChange(w)
<1> USE DEF WorkerChange
<1>0. nextRow \in Nat
  BY DEF TypeOK
<1>1. ASSUME NEW st, NEW j \in Jobs, Begin(w, k, st, j), j.pid = 0,
             \A it \in Items : it = j.item \/ it \in j.todo => \E i \in Present : it = ItemOf(i)
      PROVE  WorkerChange(w)
  <2>1. /\ OthersKeep(w)
        /\ job'[w].item = j.item /\ job'[w].todo = j.todo /\ job'[w].pid = 0
        /\ UNCHANGED <<rows, nextRow, provVars>> /\ mishaps \subseteq mishaps'
    BY <1>1 DEF Begin, TryCreate, TypeOK, Jobs, dbVars, Note, OthersKeep
  <2>2. LearnsFromRows(w) /\ PidKnown(w)
    BY <1>1, <2>1 DEF LearnsFromRows, Known, PidKnown
  <2> QED
    BY <1>0, <2>1, <2>2, RowsUntouched DEF ZoneChange
<1>2. Idle \in Jobs /\ Idle.item = NoItem /\ Idle.todo = {} /\ Idle.pid = 0 /\ NoItem \notin Items
  BY AttemptBounds DEF Idle, Jobs, NoItem, Items, RowIds
<1>3. CASE CreateBegin(w, k)
  <2>1. PICK r \in Recs : Begin(w, k, "c_provider", [Idle EXCEPT !.op = "create", !.new = r])
    BY <1>3 DEF CreateBegin
  <2> DEFINE j == [Idle EXCEPT !.op = "create", !.new = r]
  <2>2. j \in Jobs /\ j.item = NoItem /\ j.todo = {} /\ j.pid = 0
    BY <1>2 DEF Jobs
  <2>3. Begin(w, k, "c_provider", j)
    BY <2>1
  <2> HIDE DEF j
  <2> QED
    BY <1>1, <1>2, <2>2, <2>3
<1>4. CASE UpdateBegin(w, k)
  <2>1. PICK i \in Present, r \in Recs :
          Begin(w, k, "u_provider", [Idle EXCEPT !.op = "update", !.item = ItemOf(i), !.new = r])
    BY <1>4 DEF UpdateBegin
  <2> DEFINE j == [Idle EXCEPT !.op = "update", !.item = ItemOf(i), !.new = r]
  <2>2. ItemOf(i) \in Items
    BY PresentTyped, TypeHalves
  <2>3. j \in Jobs /\ j.item = ItemOf(i) /\ j.todo = {} /\ j.pid = 0
    BY <1>2, <2>2 DEF Jobs
  <2>4. Begin(w, k, "u_provider", j)
    BY <2>1
  <2> HIDE DEF j
  <2> QED
    BY <1>1, <2>3, <2>4
<1>5. CASE DeleteBegin(w, k)
  <2>1. PICK i \in Present :
          Begin(w, k, "d_next", [Idle EXCEPT !.op = "delete", !.todo = {ItemOf(i)}, !.res = "ok"])
    BY <1>5 DEF DeleteBegin
  <2> DEFINE j == [Idle EXCEPT !.op = "delete", !.todo = {ItemOf(i)}, !.res = "ok"]
  <2>2. {ItemOf(i)} \in SUBSET Items
    BY PresentTyped, TypeHalves
  <2>3. j \in Jobs /\ j.item = NoItem /\ j.todo = {ItemOf(i)} /\ j.pid = 0
    BY <1>2, <2>2 DEF Jobs, Verdicts
  <2>4. Begin(w, k, "d_next", j)
    BY <2>1
  <2> HIDE DEF j
  <2> QED
    BY <1>1, <1>2, <2>3, <2>4
<1>6. CASE ReleaseBegin(w, k)
  <2> DEFINE all == {ItemOf(i) : i \in Present}
             j == [Idle EXCEPT !.op = "release", !.res = "ok", !.todo = all]
  <2>1. Begin(w, k, "d_next", j)
    BY <1>6 DEF ReleaseBegin
  <2>2. all \in SUBSET Items
    BY PresentTyped, TypeHalves
  <2>3. \A it \in all : \E i \in Present : it = ItemOf(i)
    OBVIOUS
  <2> HIDE DEF all
  <2>4. j \in Jobs /\ j.item = NoItem /\ j.todo = all /\ j.pid = 0
    BY <1>2, <2>2 DEF Jobs, Verdicts
  <2> HIDE DEF j
  <2> QED
    BY <1>1, <1>2, <2>1, <2>3, <2>4
<1> QED
  BY <1>3, <1>4, <1>5, <1>6 DEF BeginSome

LEMMA PidsStep ==
    ASSUME TypeOK, TypeOK', PidsInv, [Next]_vars
    PROVE  PidsInv' /\ nextPid <= nextPid'
           /\ \A q \in Pids : q < nextPid /\ Lacks(q) => Lacks(q)'
<1> DEFINE Kept == /\ PidsInv' /\ nextPid <= nextPid'
                   /\ \A q \in Pids : q < nextPid /\ Lacks(q) => Lacks(q)'
<1>0. /\ nextPid \in Nat /\ nextPid' \in Nat /\ 0 < nextPid /\ Pids \subseteq Nat
      /\ \A i \in Present : rows[i].pid \in Nat /\ ItemOf(i).pid = rows[i].pid
      /\ \A w \in Workers : job[w].pid \in Nat /\ \A it \in Known(w) : it.pid \in Nat
  <2>1. Pids \subseteq Nat /\ 0..MaxPids \subseteq Nat
    BY ConstantsAssumption DEF ConstantsAssumption, Pids
  <2>2. \A i \in Present : rows[i].pid \in Nat /\ ItemOf(i).pid = rows[i].pid
    BY <2>1, PresentTyped, TypeHalves DEF ItemOf
  <2>3. nextPid \in Nat /\ nextPid' \in Nat /\ 0 < nextPid
    BY <2>1 DEF TypeOK
  <2>4. \A w \in Workers : job[w].pid \in Nat
    BY <2>1 DEF TypeOK, Jobs
  <2>5. \A w \in Workers : \A it \in Known(w) : it.pid \in Nat
    BY <2>1 DEF Known, Items
  <2> QED
    BY <2>1, <2>2, <2>3, <2>4, <2>5
<1>1. ASSUME NEW w \in Workers, WorkerChange(w) PROVE Kept
  <2> USE DEF WorkerChange
  <2>1. ZonePids' /\ nextPid <= nextPid' /\ \A q \in Pids : q < nextPid /\ Lacks(q) => Lacks(q)'
    BY <1>1, StaysGone DEF PidsInv
  <2>2. \A i \in Present' : rows'[i].pid < nextPid'
    <3> SUFFICES ASSUME NEW i \in Present' PROVE rows'[i].pid < nextPid'
      OBVIOUS
    <3>1. RowPidKnown(w, i)
      BY <1>1
    <3>2. rows'[i].pid < nextPid
      BY <3>1 DEF RowPidKnown, PidsInv
    <3>3. rows'[i].pid \in Nat
      BY <1>0, <3>1 DEF RowPidKnown
    <3> QED
      BY <1>0, <2>1, <3>2, <3>3
  <2>3. \A v \in Workers : \A it \in Known(v)' : it.pid < nextPid'
    <3> SUFFICES ASSUME NEW v \in Workers, NEW it \in Known(v)' PROVE it.pid < nextPid'
      OBVIOUS
    <3>1. it \in Known(v) \/ \E i \in Present : it = ItemOf(i)
      BY <1>1 DEF OthersKeep, LearnsFromRows, Known
    <3>2. it.pid \in Nat /\ it.pid < nextPid
      BY <1>0, <3>1 DEF PidsInv
    <3> QED
      BY <1>0, <2>1, <3>2
  <2>4. \A v \in Workers : job'[v].pid < nextPid'
    <3> SUFFICES ASSUME NEW v \in Workers PROVE job'[v].pid < nextPid'
      OBVIOUS
    <3>1. CASE v = w
      <4>1. CASE job'[w].pid \in {0, job[w].pid}
        BY <1>0, <2>1, <3>1, <4>1 DEF PidsInv
      <4>2. CASE \E it \in Known(w)' : job'[w].pid = it.pid
        BY <2>3, <3>1, <4>2
      <4>3. CASE \E r \in Recs : job'[w].pid = zone'[r]
        BY <2>1, <3>1, <4>3 DEF ZonePids
      <4> QED
        BY <1>1, <4>1, <4>2, <4>3 DEF PidKnown
    <3>2. CASE v # w
      <4>1. job'[v] = job[v] /\ job[v].pid < nextPid /\ job[v].pid \in Nat
        BY <1>0, <1>1, <3>2 DEF OthersKeep, PidsInv
      <4> QED
        BY <1>0, <2>1, <4>1
    <3> QED
      BY <3>1, <3>2
  <2> QED
    BY <2>1, <2>2, <2>3, <2>4 DEF PidsInv
<1>2. CASE AnswerRepeat \/ UNCHANGED vars
  <2>1. UNCHANGED <<rows, zone, nextPid, job>>
    BY <1>2 DEF AnswerRepeat, vars, dbVars, provVars
  <2>2. PidsInv' /\ \A q : Lacks(q)' <=> Lacks(q)
    BY <2>1 DEF PidsInv, ZonePids, Present, Known, Lacks
  <2> QED
    BY <1>0, <2>1, <2>2
<1>3. CASE Crash
  <2>1. UNCHANGED <<rows, zone, nextPid>> /\ \A w \in Workers : job'[w] = Idle
    BY <1>3 DEF Crash, dbVars, provVars
  <2>2. \A w \in Workers : Known(w)' = {} /\ job'[w].pid = 0
    BY <2>1 DEF Idle, Known, Items, NoItem, RowIds
  <2>3. PidsInv' /\ \A q : Lacks(q)' <=> Lacks(q)
    BY <1>0, <2>1, <2>2 DEF PidsInv, ZonePids, Present, Lacks
  <2> QED
    BY <1>0, <2>1, <2>3
<1> QED
  BY <1>1, <1>2, <1>3, WorkerStepChange, BeginChange DEF Next

LEMMA PidsInit == Init => PidsInv
<1> SUFFICES ASSUME Init PROVE PidsInv
  OBVIOUS
<1>1. PICK r \in Recs \cup {NoRec} :
          /\ rows = [i \in RowIds |->
                        IF i = 1 /\ r # NoRec THEN [rec |-> r, pid |-> 1] ELSE NoRow]
          /\ zone = [s \in Recs |-> IF s = r THEN 1 ELSE 0]
  BY DEF Init
<1>2. nextPid = 2 /\ \A w \in Workers : job[w] = Idle
  BY DEF Init
<1>3. ZonePids /\ \A i \in Present : rows[i].pid < nextPid
  BY <1>1, <1>2 DEF ZonePids, Present, NoRow
<1>4. \A w \in Workers : Known(w) = {} /\ job[w].pid < nextPid
  BY <1>2 DEF Idle, Known, Items, NoItem, RowIds
<1> QED
  BY <1>3, <1>4 DEF PidsInv

-----------------------------------------------------------------------------
\* The delete of one record.  From its first delete at the provider on, the id
\* of its snapshot has left the zone, unless the client only presumed so; and
\* it recreates the record only after the database refused.

DeleteOf(w) ==
    /\ pc[w] = "d_del" => job[w].pid = job[w].item.pid
    /\ pc[w] \in {"d_look", "d_del2", "d_row"} /\ "outage" \notin mishaps => Lacks(job[w].item.pid)
    /\ pc[w] \in {"d_recreate", "d_repoint"} => "db" \in mishaps

GoneInv == \A w \in Workers : DeleteOf(w)

LEMMA LookKeeps ==
    ASSUME TypeOK, NEW w \in Workers, DeleteLook(w)
    PROVE  /\ job'[w].item = job[w].item /\ job'[w].todo = job[w].todo
           /\ \/ pc'[w] = "d_row" /\ zone[job[w].item.rec] = 0
              \/ pc'[w] = "d_del2" /\ job'[w].pid = zone[job[w].item.rec]
<1> DEFINE j == job[w]
           j2 == [j EXCEPT !.pid = zone[j.item.rec]]
<1>0. j \in Jobs /\ zone[j.item.rec] \in 0..MaxPids
  BY DEF TypeOK, DeleteLook, Fits, Items
<1>1. j2 \in Jobs /\ j2.item = j.item /\ j2.todo = j.todo /\ j2.pid = zone[j.item.rec]
  BY <1>0 DEF Jobs
<1>2. CASE zone[j.item.rec] = 0 /\ Goto(w, "d_row", j)
  BY <1>0, <1>2, GotoKeeps
<1>3. CASE Goto(w, "d_del2", j2)
  <2> HIDE DEF j2
  <2> QED
    BY <1>1, <1>3, GotoKeeps
<1> QED
  BY <1>2, <1>3 DEF DeleteLook

\* What a step leaves to the delete of the worker that makes it.
LEMMA DeleteGoes ==
    ASSUME TypeOK, TypeOK', PidsInv, PidsInv', GoneInv, NEW w \in Workers, WorkerStep(w),
           \A q \in Pids : q < nextPid /\ Lacks(q) => Lacks(q)'
    PROVE  DeleteOf(w)'
<1> DEFINE j == job[w]
<1>0. j \in Jobs /\ Fits(pc[w], j) /\ DeleteOf(w)
  BY DEF TypeOK, GoneInv
<1>1. ASSUME pc'[w] \notin {"d_del", "d_look", "d_del2", "d_row", "d_recreate", "d_repoint"}
      PROVE  DeleteOf(w)'
  BY <1>1 DEF DeleteOf
<1>2. ASSUME j.item \in Items, FailAttempt(w, j) PROVE DeleteOf(w)'
  <2>1. \/ pc'[w] = "d_del" /\ job'[w].pid = j.item.pid /\ job'[w].item = j.item
        \/ pc'[w] = "d_next"
    BY <1>0, <1>2, FailAttemptKeeps
  <2> QED
    BY <2>1 DEF DeleteOf
<1>3. ASSUME j.item \in Items, Lacks(j.item.pid)
      PROVE  \A r \in Recs : zone'[r] # j.item.pid
  <2>1. j.item \in Known(w) /\ j.item.pid \in Pids
    BY <1>3 DEF Known, Items
  <2>2. PICK q \in Pids : q = j.item.pid
    BY <2>1
  <2>3. Lacks(q)'
    BY <1>3, <2>1, <2>2 DEF PidsInv
  <2> QED
    BY <2>2, <2>3 DEF Lacks
<1>4. CASE CreateStep(w)
  BY <1>1, <1>4 DEF CreateStep, CreateAtProvider, CreateCheck, CreateInsert, EndWith, Goto, TypeOK
<1>5. CASE UpdateStep(w)
  BY <1>1, <1>5 DEF UpdateStep, UpdateAtProvider, UpdateSave, UpdateUndo, EndWith, Goto, TypeOK
<1>6. CASE DeleteNext(w)
  <2>1. ASSUME NEW it \in j.todo,
               Goto(w, "d_del", [j EXCEPT !.item = it, !.pid = it.pid, !.todo = @ \ {it},
                                          !.left = Attempts(j.op)])
        PROVE  DeleteOf(w)'
    <3>1. pc'[w] = "d_del"
      BY <2>1 DEF Goto, TypeOK
    <3>2. job'[w].pid = it.pid /\ job'[w].item = it
      BY <2>1, TakesItem
    <3> QED
      BY <3>1, <3>2 DEF DeleteOf
  <2>2. ASSUME pc'[w] \in {"r_sweep", "reply"} PROVE DeleteOf(w)'
    BY <1>1, <2>2
  <2>3. Goto(w, "r_sweep", j) \/ EndWith(w, j, j.res) => pc'[w] \in {"r_sweep", "reply"}
    BY DEF EndWith, Goto, TypeOK
  <2> QED
    BY <1>6, <2>1, <2>2, <2>3 DEF DeleteNext
<1>7. CASE DeleteLook(w)
  <2>1. pc[w] = "d_look" /\ j.item \in Items /\ UNCHANGED mishaps
    BY <1>0, <1>7 DEF DeleteLook, Fits
  <2>2. pc'[w] \in {"d_row", "d_del2"} /\ job'[w].item = j.item
    BY <1>7, LookKeeps
  <2> QED
    BY <1>0, <1>3, <2>1, <2>2 DEF DeleteOf, Lacks
<1>8. CASE DeleteRow(w)
  <2>1. pc'[w] = "d_next" \/ (pc'[w] = "d_recreate" /\ "db" \in mishaps')
    BY <1>8 DEF DeleteRow, Goto, TypeOK, Note
  <2> QED
    BY <2>1 DEF DeleteOf
<1>9. CASE DeleteRecreate(w)
  <2>1. pc[w] = "d_recreate" /\ j.item \in Items /\ UNCHANGED mishaps
    BY <1>0, <1>9 DEF DeleteRecreate, Fits
  <2>2. FailAttempt(w, j) \/ pc'[w] = "d_repoint"
    BY <1>9 DEF DeleteRecreate, Goto, TypeOK
  <2> QED
    BY <1>0, <1>2, <2>1, <2>2 DEF DeleteOf
<1>10. CASE DeleteRepoint(w)
  BY <1>0, <1>2, <1>10 DEF DeleteRepoint, Fits
<1>11. CASE ReleaseSweep(w)
  BY <1>1, <1>11 DEF ReleaseSweep, EndWith, Goto, TypeOK
<1>12. CASE DeleteAtProvider(w) \/ DeletePresumed(w)
  <2>1. CASE pc[w] = "c_undo" /\ EndWith(w, j, j.res)
    BY <1>1, <2>1 DEF EndWith, Goto, TypeOK
  <2>2. CASE pc[w] = "d_del" /\ Goto(w, "d_look", j)
    <3>1. pc'[w] = "d_look" /\ job'[w].item = j.item /\ j.item \in Items
      BY <1>0, <2>2, GotoKeeps DEF Fits
    <3>2. CASE DeleteAtProvider(w)
      <4>1. PDelete(j.item.pid)
        BY <1>0, <2>2, <3>2 DEF DeleteAtProvider, DeleteOf
      <4>2. \A r \in Recs : zone'[r] # j.item.pid
        BY <3>1, <4>1, ConstantsAssumption DEF ConstantsAssumption, PDelete, Items, Pids
      <4> QED
        BY <3>1, <4>2 DEF DeleteOf, Lacks
    <3>3. CASE DeletePresumed(w)
      BY <3>1, <3>3 DEF DeletePresumed, Note, DeleteOf
    <3> QED
      BY <1>12, <3>2, <3>3
  <2>3. CASE pc[w] = "d_del2" /\ Goto(w, "d_row", j)
    <3>1. pc'[w] = "d_row" /\ job'[w].item = j.item /\ j.item \in Items
      BY <1>0, <2>3, GotoKeeps DEF Fits
    <3>2. mishaps \subseteq mishaps'
      BY <1>12 DEF DeleteAtProvider, DeletePresumed, Note
    <3> QED
      BY <1>0, <1>3, <2>3, <3>1, <3>2 DEF DeleteOf, Lacks
  <2> QED
    BY <1>12, <2>1, <2>2, <2>3 DEF DeleteAtProvider, DeletePresumed, AfterDelete
<1>13. ASSUME NEW lost, GiveUp(w, lost) PROVE DeleteOf(w)'
  <2>1. CASE pc[w] \in {"d_del", "d_look", "d_del2", "d_recreate"} /\ FailAttempt(w, j)
    BY <1>0, <1>2, <2>1 DEF Fits
  <2>2. CASE EndWith(w, j, "failed")
    BY <1>1, <2>2 DEF EndWith, Goto, TypeOK
  <2> QED
    BY <1>13, <2>1, <2>2 DEF GiveUp
<1>14. CASE ProviderFails(w)
  <2>1. CASE /\ UNCHANGED <<pc, key>> /\ mishaps \subseteq mishaps'
             /\ \E lost : job' = [job EXCEPT ![w] = [job[w] EXCEPT !.tries = @ - 1, !.lost = lost]]
    <3>1. pc'[w] = pc[w] /\ job'[w].item = j.item /\ job'[w].pid = j.pid /\ mishaps \subseteq mishaps'
      BY <1>0, <2>1 DEF TypeOK, Jobs
    <3>2. pc[w] \in {"d_look", "d_del2", "d_row"} => j.item \in Items
      BY <1>0 DEF Fits
    <3> QED
      BY <1>0, <1>3, <3>1, <3>2 DEF DeleteOf, Lacks
  <2> QED
    BY <1>13, <1>14, <2>1 DEF ProviderFails, Note
<1>15. CASE UpdateRefused(w)
  BY <1>13, <1>15 DEF UpdateRefused
<1>16. CASE Reply(w)
  BY <1>1, <1>16 DEF Reply, TypeOK
<1> QED
  BY <1>4, <1>5, <1>6, <1>7, <1>8, <1>9, <1>10, <1>11, <1>12, <1>14, <1>15, <1>16
     DEF WorkerStep, DeleteStep

LEMMA GoneStep ==
    ASSUME TypeOK, TypeOK', PidsInv, PidsInv', GoneInv, [Next]_vars
    PROVE  GoneInv'
<1>0. \A q \in Pids : q < nextPid /\ Lacks(q) => Lacks(q)'
  BY PidsStep
<1>1. ASSUME NEW v \in Workers, pc'[v] = pc[v], job'[v] = job[v], mishaps \subseteq mishaps'
      PROVE  DeleteOf(v)'
  <2>1. DeleteOf(v) /\ Fits(pc[v], job[v])
    BY DEF GoneInv, TypeOK
  <2>2. ASSUME pc[v] \in {"d_look", "d_del2", "d_row"}, Lacks(job[v].item.pid)
        PROVE  \A r \in Recs : zone'[r] # job[v].item.pid
    <3>1. job[v].item \in Items /\ job[v].item.pid \in Pids /\ job[v].item \in Known(v)
      BY <2>1, <2>2 DEF Fits, Items, Known
    <3>2. PICK q \in Pids : q = job[v].item.pid
      BY <3>1
    <3>3. Lacks(q)'
      BY <1>0, <2>2, <3>1, <3>2 DEF PidsInv
    <3> QED
      BY <3>2, <3>3 DEF Lacks
  <2> QED
    BY <1>1, <2>1, <2>2 DEF DeleteOf, Lacks
<1>2. ASSUME NEW w \in Workers, WorkerStep(w) PROVE GoneInv'
  <2>1. DeleteOf(w)'
    BY <1>0, <1>2, DeleteGoes
  <2>2. WorkerChange(w)
    BY <1>2, WorkerStepChange
  <2> QED
    BY <1>1, <2>1, <2>2 DEF GoneInv, WorkerChange, OthersKeep
<1>3. ASSUME NEW w \in Workers, NEW k \in Keys, BeginSome(w, k) PROVE GoneInv'
  <2>1. pc'[w] \in {"c_provider", "u_provider", "d_next"}
    BY <1>3 DEF BeginSome, CreateBegin, UpdateBegin, DeleteBegin, ReleaseBegin, Begin, TypeOK
  <2>2. WorkerChange(w)
    BY <1>3, BeginChange
  <2> QED
    BY <1>1, <2>1, <2>2 DEF GoneInv, DeleteOf, WorkerChange, OthersKeep
<1>4. CASE AnswerRepeat \/ UNCHANGED vars
  BY <1>1, <1>4 DEF GoneInv, AnswerRepeat, vars
<1>5. CASE Crash
  BY <1>5 DEF Crash, GoneInv, DeleteOf
<1> QED
  BY <1>2, <1>3, <1>4, <1>5 DEF Next

LEMMA GoneInit == Init => GoneInv
BY DEF Init, GoneInv, DeleteOf

-----------------------------------------------------------------------------
\* The record the row names when it goes.  Once a delete has found the zone
\* without the record, or deleted what it found, only an id nobody has seen, or
\* an update that puts the record back (beside), can appear there; and no
\* handler stores such an id in the row but a repoint (beside).

InUpdate(v) == pc[v] \in {"u_provider", "u_save", "u_undo"}

\* Neither the row nor an update of it names what the zone holds now.
Parted(w) ==
    LET it == job[w].item IN
    zone[it.rec] # 0 =>
        /\ rows[it.id].pid # zone[it.rec]
        /\ \A v \in Workers : InUpdate(v) /\ job[v].item.id = it.id => job[v].item.pid # zone[it.rec]

PartInv ==
    {"outage", "beside"} \cap mishaps = {} =>
        \A w \in Workers :
            /\ pc[w] = "d_row" => Parted(w)
            /\ pc[w] = "d_del2" => Parted(w) \/ zone[job[w].item.rec] = job[w].pid

\* The ids of the rows and of their snapshots were handed out before.
KnownIds ==
    /\ \A i \in Present : i < nextRow
    /\ \A w \in Workers : \A it \in Known(w) : it.id < nextRow

LEMMA KnownIdsStep ==
    ASSUME TypeOK, TypeOK', KnownIds, [Next]_vars
    PROVE  KnownIds'
<1>0. /\ nextRow \in Nat /\ nextRow' \in Nat /\ RowIds \subseteq Nat
      /\ \A w \in Workers : \A it \in Known(w) : it.id \in Nat
      /\ \A i \in Present : i \in Nat /\ ItemOf(i).id = i
  <2>1. RowIds \subseteq Nat
    BY ConstantsAssumption DEF ConstantsAssumption, RowIds
  <2>2. nextRow \in 1..(MaxRows + 1) /\ nextRow' \in 1..(MaxRows + 1)
    BY DEF TypeOK
  <2>3. nextRow \in Nat /\ nextRow' \in Nat
    BY <2>2
  <2>4. \A w \in Workers : \A it \in Known(w) : it.id \in Nat
    BY <2>1 DEF Known, Items
  <2>5. \A i \in Present : i \in Nat /\ ItemOf(i).id = i
    BY <2>1 DEF Present, ItemOf
  <2> QED
    BY <2>1, <2>3, <2>4, <2>5
<1>1. ASSUME NEW w \in Workers, WorkerChange(w) PROVE KnownIds'
  <2>1. nextRow <= nextRow'
    BY <1>1 DEF WorkerChange
  <2>2. ASSUME NEW i \in Present' PROVE i < nextRow'
    <3>1. RowPidKnown(w, i) /\ i \in Nat
      BY <1>0, <1>1 DEF WorkerChange, Present
    <3>2. i < nextRow \/ (i = nextRow /\ nextRow' = nextRow + 1)
      BY <3>1 DEF RowPidKnown, KnownIds
    <3> QED
      BY <1>0, <2>1, <3>1, <3>2
  <2>3. ASSUME NEW v \in Workers, NEW it \in Known(v)' PROVE it.id < nextRow'
    <3>1. it \in Known(v) \/ \E i \in Present : it = ItemOf(i)
      BY <1>1 DEF WorkerChange, OthersKeep, LearnsFromRows, Known
    <3>2. it.id \in Nat /\ it.id < nextRow
      BY <1>0, <3>1 DEF KnownIds
    <3> QED
      BY <1>0, <2>1, <3>2
  <2> QED
    BY <2>2, <2>3 DEF KnownIds
<1>2. CASE AnswerRepeat \/ UNCHANGED vars
  <2>1. UNCHANGED <<rows, nextRow, job>>
    BY <1>2 DEF AnswerRepeat, vars, dbVars
  <2> QED
    BY <2>1 DEF KnownIds, Present, Known
<1>3. CASE Crash
  <2>1. UNCHANGED <<rows, nextRow>> /\ \A w \in Workers : job'[w] = Idle
    BY <1>3 DEF Crash, dbVars
  <2>2. \A w \in Workers : Known(w)' = {}
    BY <2>1 DEF Idle, Known, Items, NoItem, RowIds
  <2> QED
    BY <2>1, <2>2 DEF KnownIds, Present
<1> QED
  BY <1>1, <1>2, <1>3, WorkerStepChange, BeginChange DEF Next

LEMMA KnownIdsInit == Init => KnownIds
<1> SUFFICES ASSUME Init PROVE KnownIds
  OBVIOUS
<1>1. \A i \in Present : i = 1
  BY DEF Init, Present, NoRow
<1>2. nextRow = 2 /\ \A w \in Workers : Known(w) = {}
  BY DEF Init, Idle, Known, Items, NoItem, RowIds
<1> QED
  BY <1>1, <1>2 DEF KnownIds

\* What a step may put under the record that a delete has looked for.
LEMMA ZoneBeside ==
    ASSUME TypeOK, NEW w \in Workers, WorkerStep(w),
           NEW v \in Workers, PastLook(v), NEW r \in Recs, r = job[v].item.rec
    PROVE  zone'[r] \in {0, zone[r], nextPid} \/ "beside" \in mishaps'
<1> DEFINE Goal == zone'[r] \in {0, zone[r], nextPid} \/ "beside" \in mishaps'
<1>0. Fits(pc[w], job[w]) /\ zone \in [Recs -> 0..MaxPids]
  BY DEF TypeOK
<1>1. ASSUME NEW s \in Recs, PCreate(s) PROVE Goal
  BY <1>0, <1>1 DEF PCreate, provVars
<1>2. ASSUME NEW p, PDelete(p) PROVE Goal
  BY <1>0, <1>2 DEF PDelete
<1>3. ASSUME NEW p, NEW n \in Recs, PUpdate(p, n),
             n = UpdateTo(w), pc[w] \in {"u_provider", "u_undo"}, Note(Crossing(w)) \/ "beside" \in mishaps'
      PROVE  Goal
  <2>1. CASE n = r
    <3>1. Crossing(w) = {"beside"}
      BY <1>3, <2>1 DEF Crossing
    <3> QED
      BY <1>3, <3>1 DEF Note
  <2>2. CASE n # r
    BY <1>0, <1>3, <2>2 DEF PUpdate
  <2> QED
    BY <2>1, <2>2
<1>4. CASE UNCHANGED provVars
  BY <1>4 DEF provVars
<1>5. CASE CreateAtProvider(w)
  BY <1>0, <1>1, <1>5 DEF CreateAtProvider, Fits
<1>6. CASE UpdateAtProvider(w)
  BY <1>0, <1>3, <1>6 DEF UpdateAtProvider, Fits, UpdateTo
<1>7. CASE UpdateUndo(w)
  BY <1>0, <1>3, <1>7 DEF UpdateUndo, Fits, UpdateTo, Items
<1>8. CASE DeleteRecreate(w)
  BY <1>0, <1>1, <1>8 DEF DeleteRecreate, Fits, Items
<1>9. CASE DeleteAtProvider(w)
  BY <1>2, <1>9 DEF DeleteAtProvider
<1>10. CASE ProviderFails(w)
  <2>1. PICK applied \in BOOLEAN :
          LET lost == job[w].lost \/ applied IN
          /\ IF applied THEN Effect(w) ELSE UNCHANGED provVars
          /\ \/ /\ job[w].tries > 1
                /\ job' = [job EXCEPT ![w] = [job[w] EXCEPT !.tries = @ - 1, !.lost = lost]]
                /\ Note(IF applied THEN Crossing(w) ELSE {})
                /\ UNCHANGED <<pc, key>>
             \/ GiveUp(w, lost)
    BY <1>10 DEF ProviderFails
  <2>2. CASE applied /\ pc[w] \in {"u_provider", "u_undo"}
    <3>1. PUpdate(job[w].item.pid, UpdateTo(w)) /\ UpdateTo(w) \in Recs
      BY <1>0, <2>1, <2>2 DEF Effect, UpdateTo, Fits, Items
    <3>2. CASE Note(Crossing(w))
      BY <1>3, <2>2, <3>1, <3>2
    <3>3. CASE GiveUp(w, job[w].lost \/ applied)
      <4>1. mishaps' = mishaps \cup ({"lost"} \cup Crossing(w)) \/ mishaps' = mishaps \cup ({"undo"} \cup Crossing(w))
        BY <2>2, <3>3 DEF GiveUp, Note
      <4>2. CASE UpdateTo(w) = r
        <5>1. Crossing(w) = {"beside"}
          BY <2>2, <4>2 DEF Crossing
        <5> QED
          BY <4>1, <5>1
      <4>3. CASE UpdateTo(w) # r
        BY <1>0, <3>1, <4>3 DEF PUpdate
      <4> QED
        BY <4>2, <4>3
    <3> QED
      BY <2>1, <2>2, <3>2, <3>3
  <2>3. CASE applied /\ pc[w] \notin {"u_provider", "u_undo"}
    <3>1. Effect(w)
      BY <2>1, <2>3
    <3> QED
      BY <1>0, <1>1, <1>2, <1>4, <2>3, <3>1 DEF Effect, Fits, Items
  <2>4. CASE ~applied
    BY <1>4, <2>1, <2>4
  <2> QED
    BY <2>2, <2>3, <2>4
<1>11. CASE \/ CreateCheck(w) \/ CreateInsert(w) \/ UpdateSave(w)
            \/ DeleteNext(w) \/ DeleteLook(w) \/ DeleteRow(w) \/ DeleteRepoint(w) \/ ReleaseSweep(w)
            \/ DeletePresumed(w) \/ UpdateRefused(w) \/ Reply(w)
  BY <1>4, <1>11 DEF CreateCheck, CreateInsert, UpdateSave, DeleteNext, DeleteLook, DeleteRow,
                     DeleteRepoint, ReleaseSweep, DeletePresumed, UpdateRefused, Reply
<1> QED
  BY <1>5, <1>6, <1>7, <1>8, <1>9, <1>10, <1>11 DEF WorkerStep, CreateStep, UpdateStep, DeleteStep

\* What a step may store in the row that such a delete is about.
LEMMA RowBeside ==
    ASSUME TypeOK, NEW w \in Workers, WorkerStep(w),
           NEW v \in Workers, PastLook(v), NEW i \in RowIds, i = job[v].item.id, i < nextRow
    PROVE  \/ rows'[i].pid \in {0, rows[i].pid}
           \/ InUpdate(w) /\ job[w].item.id = i /\ rows'[i].pid = job[w].item.pid
           \/ "beside" \in mishaps'
<1> DEFINE j == job[w]
<1>0. /\ Fits(pc[w], j) /\ nextRow \in Nat /\ i \in Nat
      /\ rows \in [RowIds -> [rec : Recs, pid : Pids] \cup {NoRow}]
  BY ConstantsAssumption DEF ConstantsAssumption, TypeOK, RowIds
<1>1. CASE UNCHANGED rows
  BY <1>1
<1>2. CASE rows' = [rows EXCEPT ![nextRow] = [rec |-> j.new, pid |-> j.pid]]
  BY <1>0, <1>2
<1>3. CASE UpdateSave(w) /\ rows' = [rows EXCEPT ![j.item.id] = [rec |-> j.new, pid |-> j.item.pid]]
  BY <1>0, <1>3 DEF UpdateSave, InUpdate
<1>4. CASE DeleteRow(w) /\ rows' = [rows EXCEPT ![j.item.id] = NoRow]
  BY <1>0, <1>4 DEF NoRow
<1>5. CASE DeleteRepoint(w) /\ ~UNCHANGED rows
  <2>1. /\ rows' = [rows EXCEPT ![j.item.id].pid = IF j.item.id \in Present THEN j.pid ELSE 0]
        /\ Note(IF \E u \in Workers : PastLook(u) /\ job[u].item.id = j.item.id THEN {"beside"} ELSE {})
    BY <1>5 DEF DeleteRepoint
  <2>2. CASE j.item.id = i
    BY <2>1, <2>2 DEF Note
  <2>3. CASE j.item.id # i
    BY <1>0, <2>1, <2>3
  <2> QED
    BY <2>2, <2>3
<1>6. CASE rows' = [k \in RowIds |-> NoRow]
  BY <1>6 DEF NoRow
<1>7. CASE CreateInsert(w)
  BY <1>1, <1>2, <1>7 DEF CreateInsert
<1>8. CASE UpdateSave(w)
  BY <1>1, <1>3, <1>8 DEF UpdateSave
<1>9. CASE DeleteRow(w)
  BY <1>1, <1>4, <1>9 DEF DeleteRow
<1>10. CASE ReleaseSweep(w)
  BY <1>1, <1>6, <1>10 DEF ReleaseSweep
<1>11. CASE DeleteRepoint(w)
  BY <1>1, <1>5, <1>11
<1>12. CASE \/ CreateAtProvider(w) \/ CreateCheck(w) \/ UpdateAtProvider(w) \/ UpdateUndo(w)
            \/ DeleteNext(w) \/ DeleteLook(w) \/ DeleteRecreate(w) \/ DeleteAtProvider(w)
            \/ DeletePresumed(w) \/ ProviderFails(w) \/ UpdateRefused(w) \/ Reply(w)
  BY <1>1, <1>12 DEF CreateAtProvider, CreateCheck, UpdateAtProvider, UpdateUndo, DeleteNext,
         DeleteLook, DeleteRecreate, DeleteAtProvider, DeletePresumed, ProviderFails, UpdateRefused,
         Reply, dbVars
<1> QED
  BY <1>7, <1>8, <1>9, <1>10, <1>11, <1>12 DEF WorkerStep, CreateStep, UpdateStep, DeleteStep

\* An update keeps the snapshot it began with.
LEMMA UpdateKeeps ==
    ASSUME TypeOK, NEW w \in Workers, WorkerStep(w), InUpdate(w)'
    PROVE  InUpdate(w) /\ job'[w].item = job[w].item
<1> DEFINE j == job[w]
<1>0. j \in Jobs /\ pc \in [Workers -> {"idle"} \cup Steps]
  BY DEF TypeOK
<1>1. ASSUME NEW step, NEW x, Goto(w, step, x) PROVE pc'[w] = step
  BY <1>0, <1>1 DEF Goto
<1>2. ASSUME NEW x, NEW verdict, EndWith(w, x, verdict) PROVE pc'[w] = "reply"
  BY <1>1, <1>2 DEF EndWith
<1>3. ASSUME NEW x, FailAttempt(w, x) PROVE pc'[w] \in {"d_del", "d_next"}
  BY <1>1, <1>3 DEF FailAttempt
<1>4. ASSUME AfterDelete(w) PROVE pc'[w] \in {"reply", "d_look", "d_row"}
  BY <1>1, <1>2, <1>4 DEF AfterDelete
<1>5. ASSUME NEW lost, GiveUp(w, lost) PROVE pc'[w] \in {"reply", "d_del", "d_next"}
  BY <1>2, <1>3, <1>5 DEF GiveUp
<1>6. CASE UpdateAtProvider(w)
  BY <1>0, <1>6, GotoKeeps DEF UpdateAtProvider, InUpdate
<1>7. CASE UpdateSave(w)
  <2>1. ASSUME NEW verdict \in Verdicts, Goto(w, "u_undo", [j EXCEPT !.res = verdict])
        PROVE  job'[w].item = j.item
    <3> DEFINE j2 == [j EXCEPT !.res = verdict]
    <3>1. j2 \in Jobs /\ j2.item = j.item
      BY <1>0, <2>1 DEF Jobs
    <3>2. Goto(w, "u_undo", j2)
      BY <2>1
    <3> HIDE DEF j2
    <3> QED
      BY <3>1, <3>2, GotoKeeps
  <2>2. pc[w] = "u_save" /\ ~EndWith(w, j, "ok")
    BY <1>2, <1>7 DEF UpdateSave, InUpdate
  <2>3. {"rejected", "failed"} \subseteq Verdicts
    BY DEF Verdicts
  <2> QED
    BY <1>7, <2>1, <2>2, <2>3 DEF UpdateSave, InUpdate
<1>8. CASE ProviderFails(w)
  <2>1. CASE UNCHANGED <<pc, key>> /\ \E lost : job' = [job EXCEPT ![w] = [job[w] EXCEPT !.tries = @ - 1, !.lost = lost]]
    BY <1>0, <2>1 DEF TypeOK, Jobs, InUpdate
  <2> QED
    BY <1>5, <1>8, <2>1 DEF ProviderFails, InUpdate
<1>9. CASE UpdateUndo(w)
  BY <1>2, <1>9 DEF UpdateUndo, InUpdate
<1>10. CASE CreateStep(w)
  BY <1>1, <1>2, <1>10 DEF CreateStep, CreateAtProvider, CreateCheck, CreateInsert, InUpdate
<1>11. CASE DeleteStep(w)
  BY <1>1, <1>2, <1>3, <1>11
     DEF DeleteStep, DeleteNext, DeleteLook, DeleteRow, DeleteRecreate, DeleteRepoint, ReleaseSweep, InUpdate
<1>12. CASE DeleteAtProvider(w) \/ DeletePresumed(w) \/ UpdateRefused(w) \/ Reply(w)
  BY <1>0, <1>4, <1>5, <1>12 DEF DeleteAtProvider, DeletePresumed, UpdateRefused, Reply, InUpdate
<1> QED
  BY <1>6, <1>7, <1>8, <1>9, <1>10, <1>11, <1>12 DEF WorkerStep, UpdateStep

LEMMA PartStep ==
    ASSUME TypeOK, TypeOK', PidsInv, KnownIds, PartInv, [Next]_vars
    PROVE  PartInv'
<1>0. /\ zone \in [Recs -> 0..MaxPids] /\ nextPid \in Nat /\ nextPid > 0
      /\ 0..MaxPids \subseteq Nat /\ Pids \subseteq Nat
      /\ \A w \in Workers : Fits(pc[w], job[w]) /\ Fits(pc[w], job[w])'
  BY ConstantsAssumption DEF ConstantsAssumption, TypeOK, Pids
<1>a. ASSUME NEW i \in RowIds PROVE rows[i].pid \in Nat /\ rows[i].pid < nextPid
  <2>1. CASE rows[i] = NoRow
    BY <1>0, <2>1 DEF NoRow
  <2>2. CASE rows[i] \in [rec : Recs, pid : Pids]
    <3>1. i \in Present
      BY <2>2, ConstantsAssumption DEF ConstantsAssumption, Present
    <3> QED
      BY <1>0, <2>2, <3>1 DEF PidsInv
  <2> QED
    BY <2>1, <2>2 DEF TypeOK
<1>1. CASE AnswerRepeat \/ UNCHANGED vars
  <2>1. UNCHANGED <<rows, zone, pc, job, mishaps>>
    BY <1>1 DEF AnswerRepeat, vars, dbVars, provVars
  <2>2. \A w \in Workers : Parted(w)' <=> Parted(w)
    BY <2>1 DEF Parted, InUpdate
  <2> QED
    BY <2>1, <2>2 DEF PartInv
<1>2. CASE Crash
  BY <1>2 DEF Crash, PartInv
\* What a step leaves of the rows, the zone and the updates that w's delete is
\* about, when w's delete goes on or another worker moves.
<1>3. ASSUME NEW w \in Workers, PastLook(w), PastLook(w)', job'[w].item = job[w].item, Parted(w),
             "beside" \notin mishaps',
             \A r \in Recs : r = job[w].item.rec => zone'[r] \in {0, zone[r], nextPid},
             \A i \in RowIds : i = job[w].item.id =>
                 \/ rows'[i].pid \in {0, rows[i].pid}
                 \/ \E u \in Workers : InUpdate(u) /\ job[u].item.id = i /\ rows'[i].pid = job[u].item.pid,
             \A u \in Workers : InUpdate(u)' =>
                 \/ InUpdate(u) /\ job'[u].item = job[u].item
                 \/ \E i \in Present : job'[u].item = ItemOf(i)
      PROVE  Parted(w)'
  <2>1. PICK r \in Recs, i \in RowIds : r = job[w].item.rec /\ i = job[w].item.id
    BY <1>0, <1>3 DEF PastLook, Fits, Items
  <2>2. SUFFICES ASSUME zone'[r] # 0
                 PROVE  /\ rows'[i].pid # zone'[r]
                        /\ \A v \in Workers : InUpdate(v)' /\ job'[v].item.id = i => job'[v].item.pid # zone'[r]
    BY <1>3, <2>1 DEF Parted
  <2>3. /\ zone'[r] \in {zone[r], nextPid} /\ zone'[r] # 0
        /\ zone[r] # 0 => /\ rows[i].pid # zone[r]
                          /\ \A v \in Workers : InUpdate(v) /\ job[v].item.id = i => job[v].item.pid # zone[r]
    BY <1>3, <2>1, <2>2 DEF Parted
  <2>4. rows[i].pid \in Nat /\ rows[i].pid < nextPid
    BY <1>a
  <2>5. ASSUME NEW u \in Workers, InUpdate(u) PROVE job[u].item.pid < nextPid
    BY <1>0, <2>5 DEF InUpdate, Fits, PidsInv, Known
  <2>6. rows[i].pid # zone'[r] /\ rows[i].pid \in Nat
    BY <1>0, <2>3, <2>4
  <2>7. ASSUME NEW u \in Workers, InUpdate(u), job[u].item.id = i PROVE job[u].item.pid # zone'[r]
    <3>1. job[u].item.pid < nextPid /\ job[u].item.pid \in Nat
      BY <1>0, <2>5, <2>7 DEF InUpdate, Fits, Items
    <3> QED
      BY <1>0, <2>3, <2>7, <3>1
  <2>8. rows'[i].pid # zone'[r]
    BY <1>3, <2>1, <2>3, <2>6, <2>7
  <2>9. ASSUME NEW u \in Workers, InUpdate(u)', job'[u].item.id = i PROVE job'[u].item.pid # zone'[r]
    <3>1. CASE InUpdate(u) /\ job'[u].item = job[u].item
      BY <2>7, <2>9, <3>1
    <3>2. CASE \E k \in Present : job'[u].item = ItemOf(k)
      BY <2>6, <2>9, <3>2 DEF ItemOf
    <3> QED
      BY <1>3, <2>9, <3>1, <3>2
  <2> QED
    BY <2>8, <2>9
\* The id the second delete will remove, while the zone still holds it.
<1>4. ASSUME NEW w \in Workers, NEW v \in Workers, WorkerStep(v), PastLook(w), PastLook(w)',
             job'[w].item = job[w].item, job'[w].pid = job[w].pid,
             {"outage", "beside"} \cap mishaps' = {},
             pc[w] = "d_del2" /\ pc'[w] = "d_row" => zone'[job[w].item.rec] # job[w].pid \/ zone'[job[w].item.rec] = 0,
             pc'[w] \in {pc[w], "d_row"}
      PROVE  /\ pc'[w] = "d_row" => Parted(w)'
             /\ pc'[w] = "d_del2" => Parted(w)' \/ zone'[job'[w].item.rec] = job'[w].pid
  <2>1. PICK r \in Recs, i \in RowIds : r = job[w].item.rec /\ i = job[w].item.id
    BY <1>0, <1>4 DEF PastLook, Fits, Items
  <2>2. job[w].item \in Items /\ job[w].item \in Known(w)
    BY <1>0, <1>4 DEF PastLook, Fits, Known
  <2>3. i < nextRow
    BY <2>1, <2>2 DEF KnownIds
  <2>4. {"outage", "beside"} \cap mishaps = {} /\ WorkerChange(v)
    BY <1>4, WorkerStepChange DEF WorkerChange
  <2>5. zone'[r] \in {0, zone[r], nextPid}
    BY <1>4, <2>1, ZoneBeside
  <2>6. \/ rows'[i].pid \in {0, rows[i].pid}
        \/ InUpdate(v) /\ job[v].item.id = i /\ rows'[i].pid = job[v].item.pid
    BY <1>4, <2>1, <2>3, RowBeside
  <2>7. ASSUME NEW u \in Workers, InUpdate(u)' PROVE InUpdate(u) /\ job'[u].item = job[u].item
    <3>1. CASE u = v
      BY <1>4, <2>7, <3>1, UpdateKeeps
    <3>2. CASE u # v
      BY <2>4, <2>7, <3>2 DEF WorkerChange, OthersKeep, InUpdate
    <3> QED
      BY <3>1, <3>2
  <2>8. ASSUME Parted(w) PROVE Parted(w)'
    BY <1>3, <1>4, <2>1, <2>5, <2>6, <2>7, <2>8
  <2>9. ASSUME ~Parted(w), zone'[r] # job[w].pid PROVE Parted(w)'
    <3>1. zone[r] = job[w].pid
      BY <1>4, <2>1, <2>4, <2>9 DEF PartInv, PastLook
    <3>2. CASE zone'[r] = 0
      BY <1>4, <2>1, <3>2 DEF Parted
    <3>3. CASE zone'[r] = nextPid /\ zone'[r] # 0
      <4>1. rows'[i].pid # zone'[r]
        <5>1. rows[i].pid < nextPid /\ rows[i].pid \in Nat
          BY <1>a
        <5>2. InUpdate(v) => job[v].item.pid < nextPid /\ job[v].item.pid \in Nat
          BY <1>0 DEF InUpdate, Fits, PidsInv, Known, Items
        <5> QED
          BY <1>0, <2>6, <3>3, <5>1, <5>2
      <4>2. ASSUME NEW u \in Workers, InUpdate(u)' PROVE job'[u].item.pid # zone'[r]
        <5>1. InUpdate(u) /\ job'[u].item = job[u].item
          BY <2>7, <4>2
        <5>2. job[u].item.pid < nextPid /\ job[u].item.pid \in Nat
          BY <1>0, <5>1 DEF InUpdate, Fits, PidsInv, Known, Items
        <5> QED
          BY <1>0, <3>3, <5>1, <5>2
      <4> QED
        BY <1>4, <2>1, <4>1, <4>2 DEF Parted
    <3> QED
      BY <2>5, <2>9, <3>1, <3>2, <3>3
  <2>10. CASE Parted(w)
    BY <2>8, <2>10
  <2>11. CASE ~Parted(w) /\ zone'[r] # job[w].pid
    BY <2>9, <2>11
  <2>12. CASE ~Parted(w) /\ zone'[r] = job[w].pid
    <3>1. pc[w] = "d_del2"
      BY <2>4, <2>12, <1>4 DEF PartInv, PastLook
    <3>2. CASE pc'[w] = "d_row"
      BY <1>4, <2>1, <2>12, <3>1, <3>2 DEF Parted
    <3> QED
      BY <1>4, <2>1, <2>12, <3>1, <3>2
  <2> QED
    BY <2>10, <2>11, <2>12
<1>5. ASSUME NEW v \in Workers, WorkerStep(v), {"outage", "beside"} \cap mishaps' = {},
             NEW w \in Workers, PastLook(w)'
      PROVE  /\ pc'[w] = "d_row" => Parted(w)'
             /\ pc'[w] = "d_del2" => Parted(w)' \/ zone'[job'[w].item.rec] = job'[w].pid
  <2> DEFINE j == job[w]
  <2>0. j \in Jobs /\ pc \in [Workers -> {"idle"} \cup Steps] /\ Fits(pc[w], j)
    BY DEF TypeOK
  <2>1. CASE v # w
    <3>1. pc'[w] = pc[w] /\ job'[w] = job[w]
      BY <1>5, <2>1, WorkerStepChange DEF WorkerChange, OthersKeep
    <3> QED
      BY <1>4, <1>5, <3>1 DEF PastLook
  <2>2. CASE v = w
    <3>1. CASE DeleteLook(w)
      <4>1. /\ job'[w].item = j.item /\ zone' = zone
            /\ \/ pc'[w] = "d_row" /\ zone[j.item.rec] = 0
               \/ pc'[w] = "d_del2" /\ job'[w].pid = zone[j.item.rec]
        BY <3>1, LookKeeps DEF DeleteLook, provVars
      <4> QED
        BY <4>1 DEF Parted
    <3>2. CASE DeleteAtProvider(w)
      <4>1. pc[w] = "d_del2" /\ Goto(w, "d_row", j)
        BY <1>5, <2>0, <3>2 DEF DeleteAtProvider, AfterDelete, EndWith, Goto, PastLook
      <4>2. pc'[w] = "d_row" /\ job'[w].item = j.item /\ job'[w].pid = j.pid
        BY <2>0, <4>1, GotoKeeps
      <4>3. zone'[j.item.rec] # j.pid \/ zone'[j.item.rec] = 0
        BY <1>0, <2>0, <3>2, <4>1 DEF DeleteAtProvider, PDelete, Fits, Items
      <4> QED
        BY <1>4, <1>5, <2>2, <4>1, <4>2, <4>3 DEF PastLook
    <3>3. CASE DeletePresumed(w)
      BY <1>5, <3>3 DEF DeletePresumed, Note
    <3>4. CASE ProviderFails(w)
      <4>1. pc'[w] = pc[w] /\ \E lost : job' = [job EXCEPT ![w] = [job[w] EXCEPT !.tries = @ - 1, !.lost = lost]]
        BY <1>5, <2>0, <3>4 DEF ProviderFails, GiveUp, EndWith, FailAttempt, Goto, PastLook
      <4>2. job'[w].item = j.item /\ job'[w].pid = j.pid
        BY <2>0, <4>1 DEF TypeOK, Jobs
      <4> QED
        BY <1>4, <1>5, <2>2, <4>1, <4>2 DEF PastLook
    <3>5. CASE UpdateRefused(w)
      BY <1>5, <2>0, <3>5 DEF UpdateRefused, GiveUp, EndWith, FailAttempt, Goto, PastLook
    <3>6. CASE Reply(w)
      BY <1>5, <2>0, <3>6 DEF Reply, PastLook
    <3>7. CASE CreateStep(w)
      BY <1>5, <2>0, <3>7 DEF CreateStep, CreateAtProvider, CreateCheck, CreateInsert, EndWith, Goto, PastLook
    <3>8. CASE UpdateStep(w)
      BY <1>5, <2>0, <3>8 DEF UpdateStep, UpdateAtProvider, UpdateSave, UpdateUndo, EndWith, Goto, PastLook
    <3>9. CASE \/ DeleteNext(w) \/ DeleteRow(w) \/ DeleteRecreate(w) \/ DeleteRepoint(w) \/ ReleaseSweep(w)
      BY <1>5, <2>0, <3>9 DEF DeleteNext, DeleteRow, DeleteRecreate, DeleteRepoint, ReleaseSweep,
                              FailAttempt, EndWith, Goto, PastLook
    <3> QED
      BY <1>5, <2>2, <3>1, <3>2, <3>3, <3>4, <3>5, <3>6, <3>7, <3>8, <3>9 DEF WorkerStep, DeleteStep
  <2> QED
    BY <2>1, <2>2
<1>6. ASSUME NEW v \in Workers, WorkerStep(v) PROVE PartInv'
  BY <1>5, <1>6 DEF PartInv, PastLook
<1>7. ASSUME NEW v \in Workers, NEW k \in Keys, BeginSome(v, k) PROVE PartInv'
  <2> SUFFICES ASSUME {"outage", "beside"} \cap mishaps' = {}, NEW w \in Workers, PastLook(w)'
               PROVE  /\ pc'[w] = "d_row" => Parted(w)'
                      /\ pc'[w] = "d_del2" => Parted(w)' \/ zone'[job'[w].item.rec] = job'[w].pid
    BY DEF PartInv, PastLook
  <2>1. WorkerChange(v)
    BY <1>7, BeginChange
  <2>2. /\ UNCHANGED <<rows, zone, nextPid>> /\ pc[v] = "idle"
        /\ pc'[v] \in {"c_provider", "u_provider", "d_next"}
    BY <1>7 DEF BeginSome, CreateBegin, UpdateBegin, DeleteBegin, ReleaseBegin, Begin, TryCreate,
                TypeOK, dbVars, provVars
  <2>3. w # v /\ pc'[w] = pc[w] /\ job'[w] = job[w] /\ PastLook(w)
    BY <2>1, <2>2 DEF WorkerChange, OthersKeep, PastLook
  <2>4. {"outage", "beside"} \cap mishaps = {}
    BY <2>1 DEF WorkerChange
  <2>5. ASSUME NEW u \in Workers, InUpdate(u)'
        PROVE  \/ InUpdate(u) /\ job'[u].item = job[u].item
               \/ \E i \in Present : job'[u].item = ItemOf(i)
    <3>1. CASE u # v
      BY <2>1, <2>5, <3>1 DEF WorkerChange, OthersKeep, InUpdate
    <3>2. CASE u = v
      <4>1. UpdateBegin(v, k)
        BY <1>7, <2>5, <3>2 DEF BeginSome, CreateBegin, DeleteBegin, ReleaseBegin, Begin, InUpdate, TypeOK
      <4>2. PICK i \in Present, r \in Recs :
              Begin(v, k, "u_provider", [Idle EXCEPT !.op = "update", !.item = ItemOf(i), !.new = r])
        BY <4>1 DEF UpdateBegin
      <4>3. job'[v].item = ItemOf(i)
        BY <4>2 DEF Begin, TypeOK, Idle
      <4> QED
        BY <3>2, <4>3
    <3> QED
      BY <3>1, <3>2
  <2>6. Parted(w) => Parted(w)'
    BY <1>3, <2>2, <2>3, <2>5
  <2> QED
    BY <2>2, <2>3, <2>4, <2>6 DEF PartInv
<1> QED
  BY <1>1, <1>2, <1>6, <1>7 DEF Next

LEMMA PartInit == Init => PartInv
BY DEF Init, PartInv

\* A row is deleted only when the zone holds neither the id the delete began
\* with nor, for its record, the id the row names by then, through every retry,
\* lost answer, failed transaction, restart and concurrent compensation that
\* stores another id; but for a delete the client presumed in an outage and a
\* record put back between the look and the row (deleteSingle).
THEOREM DeletedIsGone == Spec => DeletedStaysDeleted
<1> DEFINE Inv == TypeOK /\ PidsInv /\ GoneInv /\ KnownIds /\ PartInv
           Gone(w) == \A r \in Recs : zone'[r] # job[w].item.pid
           Unnamed(w) == \/ "beside" \in mishaps \/ rows[job[w].item.id].pid = 0
                         \/ zone'[job[w].item.rec] # rows[job[w].item.id].pid
           Safe == \A w \in Workers :
                     LET it == job[w].item IN
                     (pc[w] = "d_row" /\ pc'[w] = "d_next" /\ "outage" \notin mishaps)
                        => /\ \A r \in Recs : zone'[r] # it.pid
                           /\ "beside" \in mishaps \/ rows[it.id].pid = 0
                              \/ zone'[it.rec] # rows[it.id].pid
<1>1. Init => Inv
  BY InitTyped, PidsInit, GoneInit, KnownIdsInit, PartInit
<1>2. Inv /\ [Next]_vars => Inv'
  BY TypeStep, PidsStep, GoneStep, KnownIdsStep, PartStep
<1>3. Inv /\ TypeOK' /\ [Next]_vars => [Safe]_vars
  <2> SUFFICES ASSUME Inv, TypeOK', [Next]_vars,
                      NEW w \in Workers, pc[w] = "d_row", pc'[w] = "d_next", "outage" \notin mishaps
               PROVE  Gone(w) /\ Unnamed(w)
    OBVIOUS
  <2>1. Lacks(job[w].item.pid)
    BY DEF GoneInv, DeleteOf
  <2>2. job[w].item \in Items /\ job[w].item.pid \in Pids /\ job[w].item \in Known(w)
    BY DEF TypeOK, Fits, Items, Known
  <2>3. PICK q \in Pids : q = job[w].item.pid
    BY <2>2
  <2>4. Lacks(q)'
    BY <2>1, <2>2, <2>3, PidsStep DEF PidsInv
  <2>5. Gone(w)
    BY <2>3, <2>4 DEF Lacks
  <2>6. ASSUME NEW v \in Workers, WorkerStep(v) PROVE v = w
    <3>1. v # w => pc'[w] = pc[w]
      BY <2>6, WorkerStepChange DEF WorkerChange, OthersKeep
    <3> QED
      BY <3>1
  <2>7. ASSUME NEW v \in Workers, NEW k \in Keys, BeginSome(v, k) PROVE FALSE
    <3>1. v # w => pc'[w] = pc[w]
      BY <2>7, BeginChange DEF WorkerChange, OthersKeep
    <3>2. pc[v] = "idle"
      BY <2>7 DEF BeginSome, CreateBegin, UpdateBegin, DeleteBegin, ReleaseBegin, Begin, TryCreate
    <3> QED
      BY <3>1, <3>2
  <2>8. WorkerStep(w)
    BY <2>6, <2>7 DEF Next, AnswerRepeat, Crash, vars
  <2>9. DeleteRow(w)
    BY <2>8 DEF WorkerStep, CreateStep, CreateAtProvider, CreateCheck, CreateInsert, UpdateStep,
                UpdateAtProvider, UpdateSave, UpdateUndo, DeleteStep, DeleteNext, DeleteLook,
                DeleteRecreate, DeleteRepoint, ReleaseSweep, DeleteAtProvider, DeletePresumed,
                AfterDelete, ProviderFails, ProviderSteps, UpdateRefused, Reply
  <2>10. zone' = zone
    BY <2>9 DEF DeleteRow, provVars
  <2>11. Unnamed(w)
    BY <2>10 DEF PartInv, Parted
  <2> QED
    BY <2>5, <2>11
<1> HIDE DEF Inv
<1> QED
  BY <1>1, <1>2, <1>3, TypeCorrect, PTL DEF Spec, DeletedStaysDeleted

-----------------------------------------------------------------------------
\* No orphan.  While nothing but the interleaving goes wrong, a row id is tied
\* to one provider id, in its row and in every snapshot of it (NamesInv); when
\* the row is gone the id has left the zone, so no late update can move it.

Clean == mishaps \subseteq {"overlap", "beside"}

IsName(i, p) ==
    \/ i \in Present /\ rows[i].pid = p
    \/ \E w \in Workers : \E it \in Known(w) : it.id = i /\ it.pid = p

NamesInv ==
    Clean =>
        /\ \A i \in RowIds, p \in Pids : IsName(i, p) => i < nextRow
        /\ \A i \in RowIds, p, q \in Pids : IsName(i, p) /\ IsName(i, q) => p = q
        /\ \A i \in RowIds \ Present, p \in Pids : IsName(i, p) => Lacks(p)

ZoneOwned == Clean => \A r \in Recs : zone[r] # 0 => zone[r] \in Owned

\* How a create moves on, and what becomes of its provider record.
CreateCall(w) ==
    \/ pc'[w] = "c_check" /\ PCreate(job[w].new) /\ job'[w].pid = zone'[job[w].new]
    \/ /\ pc'[w] = "c_provider" /\ job'[w].new = job[w].new
       /\ job[w].lost => job'[w].lost
       /\ zone' = zone \/ (PCreate(job[w].new) /\ job'[w].lost)
    \/ /\ job[w].lost => "lost" \in mishaps'
       /\ zone' = zone \/ "lost" \in mishaps'

CreateKept(w) ==
    \/ pc'[w] \in {"c_insert", "c_undo"} /\ job'[w].pid = job[w].pid
    \/ \E i \in Present' : rows'[i].pid = job[w].pid

CreateUndone(w) ==
    \/ PDelete(job[w].pid)
    \/ pc'[w] = "c_undo" /\ job'[w].pid = job[w].pid
    \/ {"undo", "outage"} \cap mishaps' # {}

CreateMoves(w) ==
    /\ pc[w] = "c_provider" => CreateCall(w)
    /\ pc[w] \in {"c_check", "c_insert"} => CreateKept(w)
    /\ pc[w] = "c_undo" => CreateUndone(w)
    /\ pc[w] \notin {"c_provider", "d_recreate"} =>
          \/ zone' = zone
          \/ \E p \in 0..MaxPids : PDelete(p)
          \/ job[w].item \in Items /\ \E r \in Recs : PUpdate(job[w].item.pid, r)

LEMMA CreateStepMoves ==
    ASSUME TypeOK, TypeOK', NEW w \in Workers, CreateStep(w)
    PROVE  CreateMoves(w)
<1> DEFINE j == job[w]
<1>0. j \in Jobs /\ Fits(pc[w], j)
  BY DEF TypeOK
<1>1. ASSUME NEW v \in Verdicts, Goto(w, "c_undo", [j EXCEPT !.res = v])
      PROVE  pc'[w] = "c_undo" /\ job'[w].pid = j.pid
  <2> DEFINE j2 == [j EXCEPT !.res = v]
  <2>1. j2 \in Jobs /\ j2.pid = j.pid
    BY <1>0 DEF Jobs
  <2>2. Goto(w, "c_undo", j2)
    BY <1>1
  <2> HIDE DEF j2
  <2> QED
    BY <2>1, <2>2, GotoKeeps
<1>2. "rejected" \in Verdicts /\ "failed" \in Verdicts /\ "ok" \in Verdicts
  BY DEF Verdicts
<1>3. CASE CreateAtProvider(w)
  <2>1. zone'[j.new] \in 0..MaxPids
    BY <1>0, <1>3 DEF TypeOK, CreateAtProvider, Fits
  <2> DEFINE j2 == [j EXCEPT !.pid = zone'[j.new]]
  <2>2. j2 \in Jobs /\ j2.pid = zone'[j.new]
    BY <1>0, <2>1 DEF Jobs
  <2>3. Goto(w, "c_check", j2) /\ PCreate(j.new) /\ pc[w] = "c_provider"
    BY <1>3 DEF CreateAtProvider
  <2> HIDE DEF j2
  <2>4. pc'[w] = "c_check" /\ job'[w].pid = zone'[j.new]
    BY <2>2, <2>3, GotoKeeps
  <2> QED
    BY <2>3, <2>4 DEF CreateMoves, CreateCall
<1>4. CASE CreateCheck(w)
  <2>1. Goto(w, "c_insert", j) => pc'[w] = "c_insert" /\ job'[w].pid = j.pid
    BY <1>0, GotoKeeps
  <2>2. pc[w] = "c_check" /\ zone' = zone
    BY <1>4 DEF CreateCheck, provVars
  <2>3. pc'[w] \in {"c_insert", "c_undo"} /\ job'[w].pid = j.pid
    BY <1>1, <1>2, <1>4, <2>1 DEF CreateCheck
  <2> QED
    BY <2>2, <2>3 DEF CreateMoves, CreateKept
<1>5. CASE CreateInsert(w)
  <2>1. pc[w] = "c_insert" /\ zone' = zone
    BY <1>5 DEF CreateInsert, provVars
  <2>2. CASE /\ nextRow <= MaxRows
             /\ rows' = [rows EXCEPT ![nextRow] = [rec |-> j.new, pid |-> j.pid]]
    <3>1. nextRow \in RowIds /\ j.new \in Recs
      BY <1>0, <2>1, <2>2 DEF RowIds, TypeOK, Fits
    <3>2. nextRow \in Present' /\ rows'[nextRow].pid = j.pid
      BY <2>2, <3>1, ConstantsAssumption DEF ConstantsAssumption, Present, TypeOK
    <3> QED
      BY <2>1, <3>2 DEF CreateMoves, CreateKept
  <2>3. CASE pc'[w] = "c_undo" /\ job'[w].pid = j.pid
    BY <2>1, <2>3 DEF CreateMoves, CreateKept
  <2> QED
    BY <1>1, <1>2, <1>5, <2>2, <2>3 DEF CreateInsert
<1> QED
  BY <1>3, <1>4, <1>5 DEF CreateStep

LEMMA OtherStepMoves ==
    ASSUME TypeOK, TypeOK', NEW w \in Workers, UpdateStep(w) \/ DeleteStep(w) \/ Reply(w)
    PROVE  CreateMoves(w)
<1>0. job[w] \in Jobs /\ Fits(pc[w], job[w])
  BY DEF TypeOK
<1>1. CASE UpdateStep(w)
  <2>1. pc[w] \in {"u_provider", "u_save", "u_undo"} /\ job[w].item \in Items
    BY <1>0, <1>1 DEF UpdateStep, UpdateAtProvider, UpdateSave, UpdateUndo, Fits
  <2>2. zone' = zone \/ \E r \in Recs : PUpdate(job[w].item.pid, r)
    BY <1>0, <1>1, <2>1 DEF UpdateStep, UpdateAtProvider, UpdateSave, UpdateUndo, Fits, provVars, Items
  <2> QED
    BY <2>1, <2>2 DEF CreateMoves
<1>2. CASE DeleteStep(w)
  <2>1. /\ pc[w] \in {"d_next", "d_look", "d_row", "d_recreate", "d_repoint", "r_sweep"}
        /\ pc[w] = "d_recreate" \/ zone' = zone
    BY <1>2 DEF DeleteStep, DeleteNext, DeleteLook, DeleteRow, DeleteRecreate, DeleteRepoint,
                ReleaseSweep, provVars
  <2> QED
    BY <2>1 DEF CreateMoves
<1>3. CASE Reply(w)
  BY <1>3 DEF Reply, provVars, CreateMoves
<1> QED
  BY <1>1, <1>2, <1>3

LEMMA SharedStepMoves ==
    ASSUME TypeOK, TypeOK', NEW w \in Workers,
           DeleteAtProvider(w) \/ DeletePresumed(w) \/ ProviderFails(w) \/ UpdateRefused(w)
    PROVE  CreateMoves(w)
<1> DEFINE j == job[w]
<1>0. j \in Jobs /\ Fits(pc[w], j) /\ j.pid \in 0..MaxPids
  BY DEF TypeOK, Jobs
<1>1. CASE DeleteAtProvider(w)
  BY <1>0, <1>1 DEF DeleteAtProvider, AfterDelete, CreateMoves, CreateUndone
<1>2. CASE DeletePresumed(w)
  BY <1>2 DEF DeletePresumed, AfterDelete, Note, provVars, CreateMoves, CreateUndone
<1>3. CASE UpdateRefused(w)
  BY <1>3 DEF UpdateRefused, provVars, CreateMoves
<1>4. CASE ProviderFails(w)
  <2>1. PICK applied \in BOOLEAN :
          LET lost == job[w].lost \/ applied IN
          /\ IF applied THEN Effect(w) ELSE UNCHANGED provVars
          /\ \/ /\ job[w].tries > 1
                /\ job' = [job EXCEPT ![w] = [job[w] EXCEPT !.tries = @ - 1, !.lost = lost]]
                /\ Note(IF applied THEN Crossing(w) ELSE {})
                /\ UNCHANGED <<pc, key>>
             \/ GiveUp(w, lost)
    BY <1>4 DEF ProviderFails
  <2>2. pc[w] \in ProviderSteps
    BY <1>4 DEF ProviderFails
  <2>3. CASE pc[w] = "c_provider"
    <3>1. zone' = zone \/ (applied /\ PCreate(j.new))
      BY <2>1, <2>3 DEF Effect, provVars
    <3>2. CASE GiveUp(w, j.lost \/ applied)
      <4>1. j.lost \/ applied => "lost" \in mishaps'
        BY <2>3, <3>2 DEF GiveUp, Note
      <4> QED
        BY <2>3, <3>1, <4>1 DEF CreateMoves, CreateCall
    <3>3. CASE /\ job' = [job EXCEPT ![w] = [job[w] EXCEPT !.tries = @ - 1, !.lost = (j.lost \/ applied)]]
               /\ pc' = pc
      <4>1. job'[w].new = j.new /\ job'[w].lost = (j.lost \/ applied)
        BY <1>0, <3>3 DEF TypeOK, Jobs
      <4> QED
        BY <2>3, <3>1, <3>3, <4>1 DEF CreateMoves, CreateCall
    <3> QED
      BY <2>1, <3>2, <3>3
  <2>4. CASE pc[w] = "c_undo"
    <3>1. zone' = zone \/ \E p \in 0..MaxPids : PDelete(p)
      BY <1>0, <2>1, <2>4 DEF Effect, provVars
    <3>2. CASE \E lost : GiveUp(w, lost)
      BY <2>4, <3>1, <3>2 DEF GiveUp, Note, CreateMoves, CreateUndone
    <3>3. CASE \E lost : /\ job' = [job EXCEPT ![w] = [job[w] EXCEPT !.tries = @ - 1, !.lost = lost]]
                         /\ pc' = pc
      <4>1. job'[w].pid = j.pid
        BY <1>0, <3>3 DEF TypeOK, Jobs
      <4> QED
        BY <2>4, <3>1, <3>3, <4>1 DEF CreateMoves, CreateUndone
    <3> QED
      BY <2>1, <3>2, <3>3
  <2>5. CASE pc[w] \in {"d_del", "d_look", "d_del2"}
    <3>1. zone' = zone \/ \E p \in 0..MaxPids : PDelete(p)
      BY <1>0, <2>1, <2>5 DEF Effect, provVars
    <3> QED
      BY <2>5, <3>1 DEF CreateMoves
  <2>6. CASE pc[w] \in {"u_provider", "u_undo"}
    <3>1. UpdateTo(w) \in Recs /\ j.item \in Items
      BY <1>0, <2>6 DEF Fits, Items, UpdateTo
    <3>2. zone' = zone \/ PUpdate(j.item.pid, UpdateTo(w))
      BY <2>1, <2>6 DEF Effect, provVars
    <3> QED
      BY <2>6, <3>1, <3>2 DEF CreateMoves
  <2>7. CASE pc[w] = "d_recreate"
    BY <2>7 DEF CreateMoves
  <2> QED
    BY <2>2, <2>3, <2>4, <2>5, <2>6, <2>7 DEF ProviderSteps
<1> QED
  BY <1>1, <1>2, <1>3, <1>4

LEMMA WorkerStepMoves ==
    ASSUME TypeOK, TypeOK', NEW w \in Workers, WorkerStep(w)
    PROVE  CreateMoves(w)
BY CreateStepMoves, OtherStepMoves, SharedStepMoves DEF WorkerStep

LEMMA BeginMoves ==
    ASSUME TypeOK, NEW w \in Workers, NEW k \in Keys, BeginSome(w, k)
    PROVE  CreateMoves(w)
BY DEF BeginSome, CreateBegin, UpdateBegin, DeleteBegin, ReleaseBegin, Begin, TryCreate,
       CreateMoves, provVars

\* In a clean step the rows and the snapshots take over their names from
\* before; only an insert makes a new one, for a fresh row id.
LEMMA NamesFrom ==
    ASSUME TypeOK, TypeOK', GoneInv, NEW w \in Workers, WorkerChange(w), Clean',
           NEW i \in RowIds, NEW p \in Pids, IsName(i, p)'
    PROVE  IsName(i, p) \/ (i = nextRow /\ nextRow' = nextRow + 1 /\ p = job[w].pid /\ i \in Present')
<1> USE DEF WorkerChange
<1>1. pc[w] # "d_repoint"
  BY DEF Clean, GoneInv, DeleteOf
<1>2. CASE i \in Present' /\ rows'[i].pid = p
  BY <1>1, <1>2 DEF RowPidKnown, IsName
<1>3. CASE \E v \in Workers : \E it \in Known(v)' : it.id = i /\ it.pid = p
  <2>0. PICK v \in Workers : \E it \in Known(v)' : it.id = i /\ it.pid = p
    BY <1>3
  <2>1. PICK it \in Known(v)' : it.id = i /\ it.pid = p
    BY <2>0
  <2>2. it \in Known(v) \/ \E k \in Present : it = ItemOf(k)
    BY <2>1 DEF OthersKeep, LearnsFromRows, Known
  <2> QED
    BY <2>1, <2>2 DEF IsName, ItemOf
<1> QED
  BY <1>2, <1>3 DEF IsName

\* In a clean step a row goes only when the id of its snapshot has left.
LEMMA NamesStepOf ==
    ASSUME TypeOK, TypeOK', PidsInv, GoneInv, NamesInv, NEW w \in Workers, WorkerChange(w),
           \A q \in Pids : q < nextPid /\ Lacks(q) => Lacks(q)'
    PROVE  NamesInv'
<1> USE DEF WorkerChange
<1> SUFFICES ASSUME Clean' PROVE
               /\ \A i \in RowIds, p \in Pids : IsName(i, p)' => i < nextRow'
               /\ \A i \in RowIds, p, q \in Pids : IsName(i, p)' /\ IsName(i, q)' => p = q
               /\ \A i \in RowIds \ Present', p \in Pids : IsName(i, p)' => Lacks(p)'
  BY DEF NamesInv
<1>0. Clean /\ nextRow \in Nat /\ nextRow' \in Nat /\ RowIds \subseteq Nat
  BY ConstantsAssumption DEF ConstantsAssumption, Clean, TypeOK, RowIds
<1>1. /\ \A i \in RowIds, p \in Pids : IsName(i, p) => i < nextRow
      /\ \A i \in RowIds, p, q \in Pids : IsName(i, p) /\ IsName(i, q) => p = q
      /\ \A i \in RowIds \ Present, p \in Pids : IsName(i, p) => Lacks(p)
  BY <1>0 DEF NamesInv
<1>2. \A i \in RowIds, p \in Pids : IsName(i, p)' =>
         IsName(i, p) \/ (i = nextRow /\ nextRow' = nextRow + 1 /\ p = job[w].pid /\ i \in Present')
  BY NamesFrom
<1>3. \A i \in RowIds, p \in Pids : IsName(i, p)' => i < nextRow'
  BY <1>0, <1>1, <1>2
<1>4. \A i \in RowIds, p, q \in Pids : IsName(i, p)' /\ IsName(i, q)' => p = q
  BY <1>0, <1>1, <1>2
<1>5. ASSUME NEW i \in RowIds \ Present', NEW p \in Pids, IsName(i, p)' PROVE Lacks(p)'
  <2>1. IsName(i, p)
    BY <1>2, <1>5
  <2>2. p < nextPid
    <3>1. CASE i \in Present /\ rows[i].pid = p
      BY <3>1 DEF PidsInv
    <3>2. CASE \E v \in Workers : \E it \in Known(v) : it.id = i /\ it.pid = p
      BY <3>2 DEF PidsInv
    <3> QED
      BY <2>1, <3>1, <3>2 DEF IsName
  <2>3. Lacks(p)
    <3>1. CASE i \notin Present
      BY <1>1, <2>1, <3>1
    <3>2. CASE i \in Present
      <4>1. pc[w] = "d_row" /\ i = job[w].item.id /\ "outage" \notin mishaps
        BY <1>0, <1>5, <3>2 DEF Clean
      <4>2. Lacks(job[w].item.pid) /\ job[w].item \in Items
        BY <4>1 DEF GoneInv, DeleteOf, TypeOK, Fits
      <4>3. job[w].item.pid \in Pids /\ job[w].item \in Known(w)
        BY <4>2 DEF Items, Known
      <4>4. IsName(i, job[w].item.pid)
        BY <4>1, <4>3 DEF IsName
      <4>5. p = job[w].item.pid
        BY <1>1, <2>1, <4>3, <4>4
      <4> QED
        BY <4>2, <4>5
    <3> QED
      BY <3>1, <3>2
  <2> QED
    BY <2>2, <2>3
<1> QED
  BY <1>3, <1>4, <1>5

LEMMA NamesStep ==
    ASSUME TypeOK, TypeOK', PidsInv, GoneInv, NamesInv, [Next]_vars
    PROVE  NamesInv'
<1>1. ASSUME NEW w \in Workers, WorkerChange(w) PROVE NamesInv'
  BY <1>1, PidsStep, NamesStepOf
<1>2. CASE AnswerRepeat \/ UNCHANGED vars
  <2>1. UNCHANGED <<rows, nextRow, zone, job, mishaps>>
    BY <1>2 DEF AnswerRepeat, vars, dbVars, provVars
  <2> QED
    BY <2>1 DEF NamesInv, Clean, IsName, Known, Present, Lacks
<1>3. CASE Crash
  BY <1>3 DEF Crash, Note, NamesInv, Clean
<1> QED
  BY <1>1, <1>2, <1>3, WorkerStepChange, BeginChange DEF Next

LEMMA NamesInit == Init => NamesInv
<1> SUFFICES ASSUME Init PROVE NamesInv
  OBVIOUS
<1>1. Present \subseteq {1} /\ nextRow = 2
  BY DEF Init, Present, NoRow
<1>2. \A w \in Workers : Known(w) = {}
  BY DEF Init, Idle, Known, Items, NoItem, RowIds
<1>3. \A i \in RowIds, p \in Pids : IsName(i, p) => i \in Present /\ rows[i].pid = p
  BY <1>2 DEF IsName
<1>4. \A i \in Present : i < nextRow
  BY <1>1
<1> QED
  BY <1>3, <1>4 DEF NamesInv

\* A row that names an id of the zone keeps naming it.
LEMMA RowKeepsOwning ==
    ASSUME TypeOK, TypeOK', GoneInv, NamesInv, NEW w \in Workers, WorkerChange(w), Clean',
           NEW i \in Present, ~Lacks(rows[i].pid)
    PROVE  i \in Present' /\ rows'[i].pid = rows[i].pid
<1> USE DEF WorkerChange
<1>0. Clean /\ i \in RowIds /\ rows[i].pid \in Pids
  BY PresentTyped, TypeHalves DEF Clean
<1>1. /\ \A k \in RowIds, p \in Pids : IsName(k, p) => k < nextRow
      /\ \A k \in RowIds, p, q \in Pids : IsName(k, p) /\ IsName(k, q) => p = q
  BY <1>0 DEF NamesInv
<1>2. IsName(i, rows[i].pid) /\ i < nextRow /\ nextRow \in Nat
  BY <1>0, <1>1 DEF IsName, TypeOK
<1>3. i \in Present'
  <2> SUFFICES ASSUME i \notin Present' PROVE FALSE
    OBVIOUS
  <2>1. pc[w] = "d_row" /\ i = job[w].item.id /\ "outage" \notin mishaps
    BY <1>0 DEF Clean
  <2>2. Lacks(job[w].item.pid) /\ job[w].item \in Items
    BY <2>1 DEF GoneInv, DeleteOf, TypeOK, Fits
  <2>3. job[w].item.pid \in Pids /\ IsName(i, job[w].item.pid)
    BY <2>1, <2>2 DEF Items, Known, IsName
  <2> QED
    BY <1>0, <1>1, <1>2, <2>2, <2>3
<1>4. RowPidKnown(w, i)
  BY <1>3
<1>5. CASE rows'[i].pid = rows[i].pid
  BY <1>3, <1>5
<1>6. CASE \E it \in Known(w) : it.id = i /\ rows'[i].pid = it.pid
  <2>1. PICK it \in Known(w) : it.id = i /\ rows'[i].pid = it.pid
    BY <1>6
  <2>2. it.pid \in Pids /\ IsName(i, it.pid)
    BY <2>1 DEF Known, Items, IsName
  <2> QED
    BY <1>0, <1>1, <1>2, <1>3, <2>1, <2>2
<1>7. pc[w] # "d_repoint" /\ i # nextRow
  BY <1>0, <1>2 DEF Clean, GoneInv, DeleteOf
<1> QED
  BY <1>4, <1>5, <1>6, <1>7 DEF RowPidKnown

\* Somebody answers for a provider id.
Answers(p) ==
    \/ \E i \in Present : rows[i].pid = p
    \/ \E v \in Workers : pc[v] \in {"c_check", "c_insert", "c_undo", "d_repoint"} /\ job[v].pid = p
    \/ \E v \in Workers : pc[v] = "c_provider" /\ job[v].lost /\ zone[job[v].new] = p

LEMMA OwnedAnswers == \A p : p \in Owned <=> Answers(p)
BY DEF Owned, Answers

LEMMA ZoneOwnedStepOf ==
    ASSUME TypeOK, TypeOK', PidsInv, GoneInv, NamesInv, ZoneOwned, Clean', NEW w \in Workers,
           WorkerChange(w), CreateMoves(w), NEW r \in Recs, NEW p \in Pids, zone'[r] = p
    PROVE  Answers(p)'
<1> USE DEF WorkerChange
<1> DEFINE j == job[w]
<1>0. /\ Clean /\ {"lost", "undo", "outage", "db"} \cap mishaps' = {} /\ pc[w] \notin {"d_recreate", "d_repoint"}
      /\ p \in Nat \ {0} /\ j \in Jobs /\ Fits(pc[w], j) /\ zone \in [Recs -> 0..MaxPids]
  <2>1. Clean /\ {"lost", "undo", "outage", "db"} \cap mishaps' = {} /\ "db" \notin mishaps
    BY DEF Clean
  <2>2. p \in Nat \ {0}
    BY ConstantsAssumption DEF ConstantsAssumption, Pids
  <2> QED
    BY <2>1, <2>2 DEF GoneInv, DeleteOf, TypeOK
<1>1. ASSUME NEW i \in Present, rows[i].pid = p, ~Lacks(p) PROVE Answers(p)'
  <2>1. i \in Present' /\ rows'[i].pid = p
    BY <1>0, <1>1, RowKeepsOwning
  <2> QED
    BY <2>1 DEF Answers
<1>2. ASSUME PCreate(j.new), j.new \in Recs
      PROVE  \A s \in Recs : zone'[s] # zone[s] => s = j.new /\ zone[s] = 0
  BY <1>0, <1>2 DEF PCreate, provVars
<1>3. pc[w] = "c_provider" => j.new \in Recs
  BY <1>0 DEF Fits
<1>4. CASE Lacks(p)
  <2>1. CASE pc[w] = "c_provider"
    <3>1. zone' # zone
      BY <1>4 DEF Lacks
    <3>2. CASE pc'[w] = "c_check" /\ PCreate(j.new) /\ job'[w].pid = zone'[j.new]
      <4>1. r = j.new
        BY <1>2, <1>3, <1>4, <2>1, <3>2 DEF Lacks
      <4> QED
        BY <3>2, <4>1 DEF Answers
    <3>3. CASE pc'[w] = "c_provider" /\ job'[w].new = j.new /\ PCreate(j.new) /\ job'[w].lost
      <4>1. r = j.new
        BY <1>2, <1>3, <1>4, <2>1, <3>3 DEF Lacks
      <4> QED
        BY <3>3, <4>1 DEF Answers
    <3> QED
      BY <1>0, <2>1, <3>1, <3>2, <3>3 DEF CreateMoves, CreateCall
  <2>2. CASE pc[w] # "c_provider"
    <3>1. CASE \E q \in 0..MaxPids : PDelete(q)
      BY <1>0, <1>4, <3>1 DEF PDelete, Lacks
    <3>2. CASE \E n \in Recs : PUpdate(j.item.pid, n)
      <4>1. PICK n \in Recs, x \in Recs :
              zone[x] = j.item.pid /\ zone' = [zone EXCEPT ![x] = 0, ![n] = j.item.pid]
        BY <3>2 DEF PUpdate, Updatable
      <4> QED
        BY <1>0, <1>4, <4>1 DEF Lacks
    <3>3. CASE zone' = zone
      BY <1>4, <3>3 DEF Lacks
    <3> QED
      BY <1>0, <2>2, <3>1, <3>2, <3>3 DEF CreateMoves
  <2> QED
    BY <2>1, <2>2
<1>5. CASE ~Lacks(p)
  <2>1. Answers(p)
    <3>1. PICK s \in Recs : zone[s] = p
      BY <1>5 DEF Lacks
    <3>2. zone[s] \in Owned
      BY <1>0, <3>1 DEF ZoneOwned
    <3> QED
      BY <3>1, <3>2, OwnedAnswers
  <2>2. CASE \E i \in Present : rows[i].pid = p
    BY <1>1, <1>5, <2>2
  <2>3. ASSUME NEW v \in Workers, pc[v] \in {"c_check", "c_insert", "c_undo", "d_repoint"}, job[v].pid = p
        PROVE  Answers(p)'
    <3>1. CASE v # w
      BY <2>3, <3>1 DEF OthersKeep, Answers
    <3>2. CASE v = w /\ pc[w] \in {"c_check", "c_insert"}
      <4>1. CreateKept(w)
        BY <3>2 DEF CreateMoves
      <4> QED
        BY <2>3, <3>2, <4>1 DEF CreateKept, Answers
    <3>3. CASE v = w /\ pc[w] = "c_undo"
      <4>1. CreateUndone(w)
        BY <3>3 DEF CreateMoves
      <4>2. ~PDelete(p)
        BY <1>0 DEF PDelete
      <4> QED
        BY <1>0, <2>3, <3>3, <4>1, <4>2 DEF CreateUndone, Answers
    <3> QED
      BY <1>0, <2>3, <3>1, <3>2, <3>3
  <2>4. ASSUME NEW v \in Workers, pc[v] = "c_provider", job[v].lost, zone[job[v].new] = p
        PROVE  Answers(p)'
    <3>0. job[v].new \in Recs
      BY <2>4 DEF TypeOK, Fits
    <3>1. CASE v = w
      <4>1. PCreate(j.new) => zone'[j.new] = p
        BY <1>0, <1>2, <2>4, <3>0, <3>1
      <4>2. CreateCall(w)
        BY <2>4, <3>1 DEF CreateMoves
      <4> QED
        BY <1>0, <2>4, <3>0, <3>1, <4>1, <4>2 DEF CreateCall, Answers
    <3>2. CASE v # w /\ zone'[job[v].new] = p
      BY <2>4, <3>2 DEF OthersKeep, Answers
    <3>3. CASE v # w /\ zone'[job[v].new] # p
      <4>1. pc[w] # "c_provider"
        BY <1>0, <1>2, <1>3, <2>4, <3>0, <3>3 DEF CreateMoves, CreateCall
      <4>2. \A q \in 0..MaxPids : ~PDelete(q)
        BY <1>0, <2>4, <3>0, <3>3 DEF PDelete
      <4>3. PICK n \in Recs : PUpdate(j.item.pid, n)
        BY <1>0, <2>4, <3>3, <4>1, <4>2 DEF CreateMoves
      <4>4. j.item \in Items
        BY <1>0, <2>4, <3>3, <4>1, <4>2 DEF CreateMoves
      <4>5. p = j.item.pid
        <5>1. PICK x \in Recs : /\ zone[x] = j.item.pid /\ (n = x \/ zone[n] = 0)
                                /\ zone' = [zone EXCEPT ![x] = 0, ![n] = j.item.pid]
          BY <4>3 DEF PUpdate, Updatable
        <5> QED
          BY <1>0, <2>4, <3>0, <3>3, <5>1
      <4>6. j.item.id \in RowIds /\ IsName(j.item.id, p)
        BY <4>4, <4>5 DEF Items, Known, IsName
      <4>7. j.item.id \in Present
        BY <1>0, <1>5, <4>6 DEF NamesInv
      <4>8. rows[j.item.id].pid \in Pids
        BY <4>7, PresentTyped, TypeHalves
      <4>9. rows[j.item.id].pid = p
        BY <1>0, <4>6, <4>7, <4>8 DEF NamesInv, IsName
      <4> QED
        BY <1>1, <1>5, <4>7, <4>9
    <3> QED
      BY <3>1, <3>2, <3>3
  <2> QED
    BY <2>1, <2>2, <2>3, <2>4 DEF Answers
<1> QED
  BY <1>4, <1>5

LEMMA ZoneOwnedStep ==
    ASSUME TypeOK, TypeOK', PidsInv, GoneInv, NamesInv, ZoneOwned, [Next]_vars
    PROVE  ZoneOwned'
<1>1. ASSUME NEW w \in Workers, WorkerChange(w), CreateMoves(w) PROVE ZoneOwned'
  <2> SUFFICES ASSUME Clean', NEW r \in Recs, zone'[r] # 0 PROVE zone'[r] \in Owned'
    BY DEF ZoneOwned
  <2>1. PICK p \in Pids : zone'[r] = p
    BY ConstantsAssumption DEF ConstantsAssumption, TypeOK, Pids
  <2>2. Answers(p)'
    BY <1>1, <2>1, ZoneOwnedStepOf
  <2> QED
    BY <2>1, <2>2 DEF Owned, Answers
<1>2. CASE AnswerRepeat \/ UNCHANGED vars
  <2>1. UNCHANGED <<rows, zone, pc, job, mishaps>>
    BY <1>2 DEF AnswerRepeat, vars, dbVars, provVars
  <2> QED
    BY <2>1 DEF ZoneOwned, Clean, Owned, Present
<1>3. CASE Crash
  BY <1>3 DEF Crash, Note, ZoneOwned, Clean
<1> QED
  BY <1>1, <1>2, <1>3, WorkerStepChange, WorkerStepMoves, BeginChange, BeginMoves DEF Next

LEMMA ZoneOwnedInit == Init => ZoneOwned
<1> SUFFICES ASSUME Init, NEW r \in Recs, zone[r] # 0 PROVE zone[r] \in Owned
  BY DEF ZoneOwned
<1>1. PICK s \in Recs \cup {NoRec} :
          /\ rows = [i \in RowIds |->
                        IF i = 1 /\ s # NoRec THEN [rec |-> s, pid |-> 1] ELSE NoRow]
          /\ zone = [x \in Recs |-> IF x = s THEN 1 ELSE 0]
  BY DEF Init
<1>2. r = s /\ zone[r] = 1 /\ s # NoRec /\ 1 \in RowIds
  BY <1>1, ConstantsAssumption DEF ConstantsAssumption, RowIds
<1>3. 1 \in Present /\ rows[1].pid = 1
  BY <1>1, <1>2 DEF Present
<1> QED
  BY <1>2, <1>3 DEF Owned

\* As long as nothing but the interleaving of handlers goes wrong, every record
\* of the zone has a row, or a handler that will store or undo it: a create
\* whose insert is refused takes its provider record back, an update never
\* moves the record of a row that is gone, and a delete removes the row only
\* after the record (CreateRecordAtomic, deleteSingle).
THEOREM NoneOrphaned == Spec => []NoOrphan
<1>1. Init => TypeOK /\ PidsInv /\ GoneInv /\ NamesInv /\ ZoneOwned
  BY InitTyped, PidsInit, GoneInit, NamesInit, ZoneOwnedInit
<1>2. TypeOK /\ PidsInv /\ GoneInv /\ NamesInv /\ ZoneOwned /\ [Next]_vars
        => TypeOK' /\ PidsInv' /\ GoneInv' /\ NamesInv' /\ ZoneOwned'
  BY TypeStep, PidsStep, GoneStep, NamesStep, ZoneOwnedStep
<1>3. ZoneOwned => NoOrphan
  BY DEF ZoneOwned, NoOrphan, Clean
<1> QED
  BY <1>1, <1>2, <1>3, PTL DEF Spec

-----------------------------------------------------------------------------
\* One handler at a time.  Then a failed database delete is compensated in
\* full.  Between its provider call and the database's answer the worker stands
\* on one record (Standing); every other record of the zone is backed by its
\* own row, under the row's provider id.

Sequential == mishaps \subseteq {"db"}

Backed(r) == \E i \in Present : rows[i].rec = r /\ rows[i].pid = zone[r]

RowPids == {rows[i].pid : i \in Present}

PidsDistinct == \A i, k \in Present : rows[i].pid = rows[k].pid => i = k

Standing(w) ==
    IF pc[w] \in {"c_provider", "c_check", "c_insert", "c_undo", "u_provider", "u_save", "u_undo"}
    THEN {job[w].new}
    ELSE IF pc[w] \in {"d_recreate", "d_repoint"} THEN {job[w].item.rec} ELSE {}

OthersBacked(w) == \A r \in Recs \ Standing(w) : zone[r] # 0 => Backed(r)

\* The record a create stands on: free, the row's own (the create adopted it),
\* or of the create's own making.
CreateStands(w) ==
    LET j == job[w] IN
    /\ pc[w] = "c_provider" => \/ zone[j.new] = 0 \/ Backed(j.new)
                               \/ (j.lost /\ zone[j.new] \notin RowPids)
    /\ pc[w] = "c_check" => zone[j.new] = j.pid /\ (Backed(j.new) \/ j.pid \notin RowPids)
    /\ pc[w] = "c_insert" => zone[j.new] = j.pid /\ j.pid \notin RowPids
    /\ pc[w] = "c_undo" => j.new \in Recs /\ zone[j.new] \in {0, j.pid}

UpdateStands(w) ==
    LET j == job[w] IN
    /\ pc[w] \in {"u_provider", "u_save", "u_undo"} =>
          /\ j.item.id \in Present /\ j.new \in Recs
          /\ rows[j.item.id].rec = j.item.rec /\ rows[j.item.id].pid = j.item.pid
    /\ pc[w] = "u_provider" => \/ zone[j.new] = 0 \/ Backed(j.new)
                               \/ (j.lost /\ zone[j.new] = j.item.pid)
    /\ pc[w] = "u_save" => zone[j.new] = j.item.pid
    /\ pc[w] = "u_undo" => zone[j.new] = 0 \/ Backed(j.new) \/ zone[j.new] = j.item.pid

\* The rows still to delete, and the row being deleted.
TodoHolds(j) ==
    /\ \A it \in j.todo : it.id \in Present /\ rows[it.id].rec = it.rec
    /\ \A it, jt \in j.todo : it.id = jt.id => it = jt

ItemHolds(j) ==
    /\ j.item.id \in Present /\ rows[j.item.id].rec = j.item.rec
    /\ \A it \in j.todo : it.id # j.item.id

Deleting == {"d_del", "d_look", "d_del2", "d_row", "d_recreate", "d_repoint"}

DeleteStands(w) ==
    LET j == job[w] IN
    /\ pc[w] \in Deleting \cup {"d_next"} => TodoHolds(j)
    /\ pc[w] \in Deleting => ItemHolds(j)
    /\ pc[w] = "d_del2" => zone[j.item.rec] \in {0, j.pid}
    /\ pc[w] = "d_row" => zone[j.item.rec] = 0
    /\ pc[w] = "d_recreate" => \/ zone[j.item.rec] = 0
                               \/ zone[j.item.rec] \notin RowPids \cup {j.item.pid}
    /\ pc[w] = "d_repoint" => zone[j.item.rec] = j.pid /\ j.pid \notin RowPids

Stands(w) == OthersBacked(w) /\ CreateStands(w) /\ UpdateStands(w) /\ DeleteStands(w)

SeqInv ==
    Sequential =>
        /\ \A v, w \in Workers : Busy(v) /\ Busy(w) => v = w
        /\ PidsDistinct
        /\ \A w \in Workers : Busy(w) => Stands(w)
        /\ (\A w \in Workers : ~Busy(w)) => \A r \in Recs : zone[r] # 0 => Backed(r)

\* What the three provider calls leave in the zone.
LEMMA CreateLeaves ==
    ASSUME TypeOK, TypeOK', PidsInv, NEW r \in Recs, PCreate(r)
    PROVE  /\ \A s \in Recs \ {r} : zone'[s] = zone[s]
           /\ zone[r] # 0 => zone'[r] = zone[r]
           /\ zone[r] = 0 => /\ zone'[r] \notin RowPids
                             /\ \A w \in Workers : \A it \in Known(w) : zone'[r] # it.pid
           /\ zone'[r] # 0
<1> USE ConstantsAssumption DEF ConstantsAssumption
<1>1. CASE zone[r] = 0
  <2>1. zone' = [zone EXCEPT ![r] = nextPid] /\ nextPid \in Nat \ {0}
    BY <1>1 DEF PCreate, TypeOK
  <2>2. zone'[r] = nextPid /\ \A s \in Recs \ {r} : zone'[s] = zone[s]
    BY <2>1 DEF TypeOK
  <2> QED
    BY <1>1, <2>1, <2>2 DEF PidsInv, RowPids
<1>2. CASE zone[r] # 0
  BY <1>2 DEF PCreate, provVars
<1> QED
  BY <1>1, <1>2

LEMMA DeleteLeaves ==
    ASSUME TypeOK, NEW p, PDelete(p)
    PROVE  \A s \in Recs : zone'[s] \in {0, zone[s]} /\ (zone[s] = p => zone'[s] = 0)
BY DEF PDelete

LEMMA UpdateLeaves ==
    ASSUME TypeOK, PidsInv, NEW p \in Pids, NEW n \in Recs, PUpdate(p, n)
    PROVE  /\ zone'[n] = p
           /\ \A s \in Recs \ {n} : zone'[s] = IF zone[s] = p THEN 0 ELSE zone[s]
<1>1. PICK r \in Recs : zone[r] = p /\ zone' = [zone EXCEPT ![r] = 0, ![n] = p]
  BY DEF PUpdate, Updatable
<1>2. p # 0
  BY ConstantsAssumption DEF ConstantsAssumption, Pids
<1>3. \A s \in Recs : zone[s] = p => s = r
  BY <1>1, <1>2 DEF PidsInv, ZonePids
<1> QED
  BY <1>1, <1>3 DEF TypeOK

\* A record that is backed stays so while the rows and its place in the zone
\* do not change.
LEMMA BackedStays ==
    ASSUME UNCHANGED rows, NEW r \in Recs, zone'[r] = zone[r]
    PROVE  Present' = Present /\ RowPids' = RowPids /\ (Backed(r)' <=> Backed(r))
BY DEF Backed, Present, RowPids

\* The worker ends its handler.
LEMMA StandsEnd ==
    ASSUME TypeOK, TypeOK', NEW w \in Workers, pc'[w] \in {"reply", "idle", "r_sweep"},
           \A r \in Recs : zone'[r] # 0 => Backed(r)'
    PROVE  Stands(w)'
BY DEF Stands, OthersBacked, CreateStands, UpdateStands, DeleteStands, Deleting

LEMMA CreateStepSeq ==
    ASSUME TypeOK, TypeOK', PidsInv, IdsInv, PidsDistinct, NEW w \in Workers, Stands(w), CreateStep(w)
    PROVE  PidsDistinct' /\ Stands(w)'
<1> DEFINE j == job[w]
<1>0. j \in Jobs /\ Fits(pc[w], j)
  BY DEF TypeOK
<1>1. pc[w] \in {"c_provider", "c_check", "c_insert"}
  BY DEF CreateStep, CreateAtProvider, CreateCheck, CreateInsert
<1>2. PICK n \in Recs : n = j.new
  BY <1>0, <1>1 DEF Fits
<1>3. \A r \in Recs \ {n} : zone[r] # 0 => Backed(r)
  BY <1>1, <1>2 DEF Stands, OthersBacked, Standing
<1>4. ASSUME UNCHANGED rows, pc'[w] \in {"c_check", "c_insert", "c_undo"}, job'[w].new = n,
             \A r \in Recs \ {n} : zone'[r] = zone[r]
      PROVE  PidsDistinct' /\ OthersBacked(w)' /\ UpdateStands(w)' /\ DeleteStands(w)'
  <2>1. PidsDistinct'
    BY <1>4 DEF PidsDistinct, Present
  <2>2. Standing(w)' = {n}
    BY <1>4 DEF Standing
  <2>3. \A r \in Recs \ {n} : zone'[r] # 0 => Backed(r)'
    BY <1>3, <1>4, BackedStays
  <2>4. OthersBacked(w)'
    BY <2>2, <2>3 DEF OthersBacked
  <2> QED
    BY <1>4, <2>1, <2>4 DEF UpdateStands, DeleteStands, Deleting
<1>5. ASSUME NEW v \in Verdicts, Goto(w, "c_undo", [j EXCEPT !.res = v])
      PROVE  pc'[w] = "c_undo" /\ job'[w].pid = j.pid /\ job'[w].new = n
  <2> DEFINE j2 == [j EXCEPT !.res = v]
  <2>1. j2 \in Jobs /\ j2.pid = j.pid /\ j2.new = j.new
    BY <1>0 DEF Jobs
  <2>2. Goto(w, "c_undo", j2)
    BY <1>5
  <2> HIDE DEF j2
  <2>3. pc'[w] = "c_undo" /\ job'[w].pid = j2.pid /\ job'[w].new = j2.new
    BY <2>1, <2>2, GotoKeeps
  <2> QED
    BY <1>2, <2>1, <2>3
<1>6. Verdicts = {"ok", "rejected", "failed"}
  BY DEF Verdicts
<1>7. CASE CreateAtProvider(w)
  <2>1. pc[w] = "c_provider" /\ PCreate(n) /\ UNCHANGED rows
    BY <1>2, <1>7 DEF CreateAtProvider, dbVars
  <2>2. /\ \A s \in Recs \ {n} : zone'[s] = zone[s]
        /\ zone[n] # 0 => zone'[n] = zone[n]
        /\ zone[n] = 0 => zone'[n] \notin RowPids
    BY <2>1, CreateLeaves
  <2>3. pc'[w] = "c_check" /\ job'[w].pid = zone'[n] /\ job'[w].new = n
    <3> DEFINE j2 == [j EXCEPT !.pid = zone'[n]]
    <3>1. zone'[n] \in 0..MaxPids
      BY DEF TypeOK
    <3>2. j2 \in Jobs /\ j2.pid = zone'[n] /\ j2.new = j.new
      BY <1>0, <3>1 DEF Jobs
    <3>3. Goto(w, "c_check", j2)
      BY <1>2, <1>7 DEF CreateAtProvider
    <3> HIDE DEF j2
    <3>4. pc'[w] = "c_check" /\ job'[w].pid = j2.pid /\ job'[w].new = j2.new
      BY <3>2, <3>3, GotoKeeps
    <3> QED
      BY <1>2, <3>2, <3>4
  <2>4. zone[n] = 0 \/ Backed(n) \/ zone[n] \notin RowPids
    BY <1>2, <2>1 DEF Stands, CreateStands
  <2>5. zone'[n] \notin RowPids' \/ \E i \in Present' : rows'[i].rec = n /\ rows'[i].pid = zone'[n]
    BY <2>1, <2>2, <2>4 DEF Backed, RowPids, Present
  <2>6. CreateStands(w)'
    BY <2>3, <2>5 DEF CreateStands, Backed
  <2> QED
    BY <1>4, <2>1, <2>2, <2>3, <2>6 DEF Stands
<1>8. CASE CreateCheck(w)
  <2>1. pc[w] = "c_check" /\ UNCHANGED <<rows, zone>>
    BY <1>8 DEF CreateCheck, dbVars, provVars
  <2>2. zone[n] = j.pid /\ (Backed(n) \/ j.pid \notin RowPids)
    BY <1>2, <2>1 DEF Stands, CreateStands
  <2>3. CASE Acceptable(j.new) /\ Goto(w, "c_insert", j)
    <3>1. pc'[w] = "c_insert" /\ job'[w].new = n /\ job'[w].pid = j.pid
      BY <1>0, <1>2, <2>3, GotoKeeps
    <3>2. ~Backed(n)
      BY <1>2, <2>3 DEF Acceptable, Backed
    <3>3. zone'[n] = j.pid /\ j.pid \notin RowPids'
      BY <2>1, <2>2, <3>2 DEF RowPids, Present
    <3>4. CreateStands(w)'
      BY <3>1, <3>3 DEF CreateStands
    <3> QED
      BY <1>4, <2>1, <3>1, <3>4 DEF Stands
  <2>4. CASE pc'[w] = "c_undo" /\ job'[w].pid = j.pid /\ job'[w].new = n
    <3>1. CreateStands(w)'
      BY <2>1, <2>2, <2>4 DEF CreateStands
    <3> QED
      BY <1>4, <2>1, <2>4, <3>1 DEF Stands
  <2> QED
    BY <1>5, <1>6, <1>8, <2>3, <2>4 DEF CreateCheck
<1>9. CASE CreateInsert(w)
  <2>1. pc[w] = "c_insert" /\ zone' = zone
    BY <1>9 DEF CreateInsert, provVars
  <2>2. zone[n] = j.pid /\ j.pid \notin RowPids
    BY <1>2, <2>1 DEF Stands, CreateStands
  <2>3. CASE UNCHANGED rows /\ pc'[w] = "c_undo" /\ job'[w].pid = j.pid /\ job'[w].new = n
    <3>1. CreateStands(w)'
      BY <2>1, <2>2, <2>3 DEF CreateStands
    <3> QED
      BY <1>4, <2>1, <2>3, <3>1 DEF Stands
  <2>4. CASE /\ nextRow <= MaxRows
             /\ rows' = [rows EXCEPT ![nextRow] = [rec |-> j.new, pid |-> j.pid]]
             /\ EndWith(w, j, "ok")
    <3>1. nextRow \in RowIds /\ nextRow \notin Present
      BY <2>4 DEF RowIds, TypeOK, IdsInv
    <3>2. /\ Present' = Present \cup {nextRow}
          /\ rows'[nextRow].rec = n /\ rows'[nextRow].pid = j.pid
          /\ \A i \in Present : rows'[i] = rows[i]
      BY <1>2, <2>4, <3>1, ConstantsAssumption DEF ConstantsAssumption, Present, TypeOK
    <3>3. PidsDistinct'
      BY <2>2, <3>2 DEF PidsDistinct, RowPids
    <3>4. \A r \in Recs : zone'[r] # 0 => Backed(r)'
      BY <1>3, <2>1, <2>2, <3>2 DEF Backed
    <3>5. pc'[w] = "reply"
      BY <1>0, <1>6, <2>4, EndKeeps
    <3> QED
      BY <3>3, <3>4, <3>5, StandsEnd
  <2> QED
    BY <1>5, <1>6, <1>9, <2>3, <2>4 DEF CreateInsert
<1> QED
  BY <1>7, <1>8, <1>9 DEF CreateStep

LEMMA UpdateStepSeq ==
    ASSUME TypeOK, TypeOK', PidsInv, PidsDistinct, NEW w \in Workers, Stands(w), UpdateStep(w)
    PROVE  PidsDistinct' /\ Stands(w)'
<1> DEFINE j == job[w]
<1>0. j \in Jobs /\ Fits(pc[w], j)
  BY DEF TypeOK
<1>1. pc[w] \in {"u_provider", "u_save", "u_undo"} /\ j.item \in Items
  BY <1>0 DEF UpdateStep, UpdateAtProvider, UpdateSave, UpdateUndo, Fits
<1>2. PICK n \in Recs \cup {NoRec} : n = j.new
  BY <1>0 DEF Jobs
<1>3. PICK i \in RowIds, p \in Pids, o \in Recs : i = j.item.id /\ p = j.item.pid /\ o = j.item.rec
  BY <1>1 DEF Items
<1>4. i \in Present /\ rows[i].rec = o /\ rows[i].pid = p
  BY <1>1, <1>3 DEF Stands, UpdateStands
<1>5. \A r \in Recs \ {n} : zone[r] # 0 => Backed(r)
  BY <1>1, <1>2 DEF Stands, OthersBacked, Standing
<1>6. ASSUME NEW v \in Verdicts, EndWith(w, j, v) PROVE pc'[w] = "reply"
  BY <1>0, <1>6, EndKeeps
<1>7. p # 0 /\ \A r, s \in Recs : zone[r] = p /\ zone[s] = p => r = s
  BY ConstantsAssumption DEF ConstantsAssumption, Pids, PidsInv, ZonePids
<1>8. CASE UpdateAtProvider(w)
  <2>1. pc[w] = "u_provider" /\ PUpdate(p, n) /\ UNCHANGED rows /\ n \in Recs
    BY <1>0, <1>2, <1>3, <1>8 DEF UpdateAtProvider, dbVars, Fits
  <2>2. pc'[w] = "u_save" /\ job'[w].new = n /\ job'[w].item = j.item
    BY <1>0, <1>2, <1>8, GotoKeeps DEF UpdateAtProvider
  <2>3. zone'[n] = p /\ \A s \in Recs \ {n} : zone'[s] \in {0, zone[s]}
    BY <2>1, UpdateLeaves
  <2>4. \A r \in Recs \ {n} : zone'[r] # 0 => Backed(r)'
    BY <1>5, <2>1, <2>3, BackedStays
  <2>5. OthersBacked(w)'
    BY <2>2, <2>4 DEF OthersBacked, Standing
  <2>6. UpdateStands(w)'
    BY <1>3, <1>4, <2>1, <2>2, <2>3 DEF UpdateStands, Present
  <2>7. PidsDistinct'
    BY <2>1 DEF PidsDistinct, Present
  <2> QED
    BY <2>2, <2>5, <2>6, <2>7 DEF Stands, CreateStands, DeleteStands, Deleting
<1>9. CASE UpdateUndo(w)
  <2>1. pc[w] = "u_undo" /\ PUpdate(p, o) /\ UNCHANGED rows /\ EndWith(w, j, j.res) /\ j.res \in Verdicts
    BY <1>0, <1>3, <1>9 DEF UpdateUndo, dbVars, Fits
  <2>2. zone'[o] = p /\ \A s \in Recs \ {o} : zone'[s] = IF zone[s] = p THEN 0 ELSE zone[s]
    BY <2>1, UpdateLeaves
  <2>3. zone[n] = 0 \/ Backed(n) \/ zone[n] = p
    BY <1>2, <1>3, <2>1 DEF Stands, UpdateStands
  <2>4. ASSUME NEW r \in Recs, zone'[r] # 0 PROVE Backed(r)'
    <3>1. CASE r = o
      BY <1>4, <2>1, <2>2, <3>1 DEF Backed, Present
    <3>2. CASE r # o
      <4>1. zone'[r] = zone[r] /\ zone[r] # p
        BY <2>2, <2>4, <3>2
      <4>2. Backed(r)
        BY <1>5, <2>3, <2>4, <4>1
      <4> QED
        BY <2>1, <4>1, <4>2, BackedStays
    <3> QED
      BY <3>1, <3>2
  <2>5. PidsDistinct'
    BY <2>1 DEF PidsDistinct, Present
  <2> QED
    BY <1>6, <2>1, <2>4, <2>5, StandsEnd
<1>10. CASE UpdateSave(w)
  <2>1. pc[w] = "u_save" /\ zone' = zone /\ zone[n] = p /\ n \in Recs
    BY <1>0, <1>2, <1>3, <1>10 DEF UpdateSave, provVars, Stands, UpdateStands, Fits
  <2>2. ASSUME NEW v \in Verdicts, Goto(w, "u_undo", [j EXCEPT !.res = v]), UNCHANGED rows
        PROVE  PidsDistinct' /\ Stands(w)'
    <3> DEFINE j2 == [j EXCEPT !.res = v]
    <3>1. j2 \in Jobs /\ j2.item = j.item /\ j2.new = j.new
      BY <1>0 DEF Jobs
    <3>2. Goto(w, "u_undo", j2)
      BY <2>2
    <3> HIDE DEF j2
    <3>3. pc'[w] = "u_undo" /\ job'[w].item = j2.item /\ job'[w].new = j2.new
      BY <3>1, <3>2, GotoKeeps
    <3>4. job'[w].item = j.item /\ job'[w].new = n
      BY <1>2, <3>1, <3>3
    <3>5. \A r \in Recs \ {n} : zone'[r] # 0 => Backed(r)'
      BY <1>5, <2>1, <2>2, BackedStays
    <3>6. OthersBacked(w)'
      BY <3>3, <3>4, <3>5 DEF OthersBacked, Standing
    <3>7. UpdateStands(w)'
      BY <1>3, <1>4, <2>1, <2>2, <3>3, <3>4 DEF UpdateStands, Present
    <3>8. PidsDistinct'
      BY <2>2 DEF PidsDistinct, Present
    <3> QED
      BY <3>3, <3>6, <3>7, <3>8 DEF Stands, CreateStands, DeleteStands, Deleting
  <2>3. CASE /\ rows' = [rows EXCEPT ![j.item.id] = [rec |-> j.new, pid |-> j.item.pid]]
             /\ EndWith(w, j, "ok")
    <3>1. rows'[i].rec = n /\ rows'[i].pid = p /\ \A k \in RowIds \ {i} : rows'[k] = rows[k]
      BY <1>2, <1>3, <2>3 DEF TypeOK
    <3>2. Present' = Present
      BY <1>4, <2>1, <3>1, ConstantsAssumption DEF ConstantsAssumption, Present
    <3>3. PidsDistinct'
      BY <1>4, <3>1, <3>2 DEF PidsDistinct, Present
    <3>4. ASSUME NEW r \in Recs, zone'[r] # 0 PROVE Backed(r)'
      <4>1. CASE r = n
        BY <1>4, <2>1, <3>1, <3>2, <4>1 DEF Backed
      <4>2. CASE r # n
        <5>1. PICK k \in Present : rows[k].rec = r /\ rows[k].pid = zone[r]
          BY <1>5, <2>1, <3>4, <4>2 DEF Backed
        <5>2. k # i
          BY <1>4, <1>7, <2>1, <4>2, <5>1
        <5> QED
          BY <2>1, <3>1, <3>2, <5>1, <5>2 DEF Backed, Present
      <4> QED
        BY <4>1, <4>2
    <3>5. pc'[w] = "reply"
      BY <1>6, <2>3 DEF Verdicts
    <3> QED
      BY <3>3, <3>4, <3>5, StandsEnd
  <2> QED
    BY <1>10, <2>2, <2>3 DEF UpdateSave, Verdicts
<1> QED
  BY <1>8, <1>9, <1>10 DEF UpdateStep

\* The worker goes on with the deletes it has left, whose rows are as before.
LEMMA DeletesGoOn ==
    ASSUME TypeOK, TypeOK', NEW w \in Workers, UNCHANGED rows, PidsDistinct, Stands(w),
           pc[w] \in Deleting, job'[w].item = job[w].item, job'[w].todo = job[w].todo,
           pc'[w] \in {"d_next", "d_del", "d_look", "d_del2", "d_row"},
           \A r \in Recs : zone'[r] # 0 => Backed(r)',
           pc'[w] = "d_del2" => zone'[job[w].item.rec] \in {0, job'[w].pid},
           pc'[w] = "d_row" => zone'[job[w].item.rec] = 0
    PROVE  PidsDistinct' /\ Stands(w)'
<1>1. Present' = Present
  BY DEF Present
<1>2. PidsDistinct'
  BY <1>1 DEF PidsDistinct
<1>3. TodoHolds(job[w]) /\ ItemHolds(job[w])
  BY DEF Stands, DeleteStands
<1>4. DeleteStands(w)'
  BY <1>1, <1>3 DEF DeleteStands, TodoHolds, ItemHolds, Deleting
<1>5. OthersBacked(w)'
  BY DEF OthersBacked
<1> QED
  BY <1>2, <1>4, <1>5 DEF Stands, CreateStands, UpdateStands

\* A call that only deletes leaves the rest backed.
LEMMA StillBacked ==
    ASSUME UNCHANGED rows, \A r \in Recs : zone'[r] \in {0, zone[r]},
           \A r \in Recs : zone[r] # 0 => Backed(r)
    PROVE  \A r \in Recs : zone'[r] # 0 => Backed(r)'
BY DEF Backed, Present

\* The row that a failed delete left is there again, and so is its record.
LEMMA RepointSeq ==
    ASSUME TypeOK, TypeOK', PidsInv, PidsDistinct, NEW w \in Workers, Stands(w), Sequential',
           DeleteRepoint(w)
    PROVE  PidsDistinct' /\ Stands(w)'
<1> DEFINE j == job[w]
<1>0. j \in Jobs /\ j.item \in Items /\ pc[w] = "d_repoint" /\ zone' = zone
  BY DEF TypeOK, DeleteRepoint, Fits, provVars
<1>1. PICK i \in RowIds, o \in Recs : i = j.item.id /\ o = j.item.rec
  BY <1>0 DEF Items
<1>2. /\ i \in Present /\ rows[i].rec = o /\ TodoHolds(j) /\ ItemHolds(j)
      /\ zone[o] = j.pid /\ j.pid \notin RowPids
      /\ \A r \in Recs \ {o} : zone[r] # 0 => Backed(r)
  BY <1>0, <1>1 DEF Stands, DeleteStands, ItemHolds, Deleting, OthersBacked, Standing
<1>3. "undo" \notin mishaps'
  BY DEF Sequential
<1>4. rows' = [rows EXCEPT ![i].pid = j.pid]
  BY <1>1, <1>2, <1>3 DEF DeleteRepoint, Note
<1>5. /\ rows'[i].rec = o /\ rows'[i].pid = j.pid
      /\ \A k \in RowIds \ {i} : rows'[k] = rows[k]
      /\ Present' = Present
  BY <1>2, <1>4 DEF TypeOK, NoRow, Present
<1>6. PidsDistinct'
  BY <1>2, <1>5 DEF PidsDistinct, RowPids, Present
<1>7. ASSUME NEW r \in Recs, zone'[r] # 0 PROVE Backed(r)'
  <2>1. CASE r = o
    BY <1>0, <1>2, <1>5, <2>1 DEF Backed
  <2>2. CASE r # o
    <3>1. PICK k \in Present : rows[k].rec = r /\ rows[k].pid = zone[r]
      BY <1>0, <1>2, <1>7, <2>2 DEF Backed
    <3>2. k # i /\ k \in RowIds
      BY <1>2, <2>2, <3>1 DEF Present
    <3> QED
      BY <1>0, <1>5, <3>1, <3>2 DEF Backed
  <2> QED
    BY <2>1, <2>2
<1>8. /\ job'[w].item = j.item /\ job'[w].todo = j.todo
      /\ pc'[w] \in {"d_del", "d_next"}
  BY <1>0, FailAttemptKeeps DEF DeleteRepoint
<1>9. \A k \in RowIds : rows'[k].rec = rows[k].rec
  BY <1>2, <1>5
<1>10. DeleteStands(w)'
  <2>1. \A it \in j.todo : it.id \in Present' /\ rows'[it.id].rec = it.rec
    BY <1>2, <1>5, <1>9 DEF TodoHolds, Present
  <2>2. \A it, jt \in j.todo : it.id = jt.id => it = jt
    BY <1>2 DEF TodoHolds
  <2>3. /\ j.item.id \in Present' /\ rows'[j.item.id].rec = j.item.rec
        /\ \A it \in j.todo : it.id # j.item.id
    BY <1>1, <1>2, <1>5 DEF ItemHolds
  <2> QED
    BY <1>8, <2>1, <2>2, <2>3 DEF DeleteStands, TodoHolds, ItemHolds
<1>11. OthersBacked(w)'
  BY <1>7 DEF OthersBacked
<1> QED
  BY <1>6, <1>8, <1>10, <1>11 DEF Stands, CreateStands, UpdateStands

\* The row goes after its record; or it stays and the record comes back.
LEMMA RowGoesSeq ==
    ASSUME TypeOK, TypeOK', PidsInv, PidsDistinct, NEW w \in Workers, Stands(w), DeleteRow(w)
    PROVE  PidsDistinct' /\ Stands(w)'
<1> DEFINE j == job[w]
<1>0. j \in Jobs /\ j.item \in Items /\ pc[w] = "d_row" /\ zone' = zone
  BY DEF TypeOK, DeleteRow, Fits, provVars
<1>1. PICK i \in RowIds, o \in Recs : i = j.item.id /\ o = j.item.rec
  BY <1>0 DEF Items
<1>2. /\ i \in Present /\ rows[i].rec = o /\ TodoHolds(j) /\ ItemHolds(j) /\ zone[o] = 0
      /\ \A r \in Recs : zone[r] # 0 => Backed(r)
  BY <1>0, <1>1 DEF Stands, DeleteStands, ItemHolds, Deleting, OthersBacked, Standing
<1>a. Goto(w, "d_next", j) \/ Goto(w, "d_recreate", j)
  BY DEF DeleteRow
<1>3. job'[w].item = j.item /\ job'[w].todo = j.todo /\ pc'[w] \in {"d_next", "d_recreate"}
  BY <1>0, <1>a, GotoKeeps
<1>4. CASE rows' = [rows EXCEPT ![j.item.id] = NoRow] /\ pc'[w] = "d_next"
  <2>1. Present' = Present \ {i} /\ \A k \in RowIds \ {i} : rows'[k] = rows[k]
    BY <1>1, <1>4 DEF Present, NoRow, TypeOK
  <2>2. PidsDistinct'
    BY <2>1 DEF PidsDistinct, Present
  <2>3. ASSUME NEW r \in Recs, zone'[r] # 0 PROVE Backed(r)'
    <3>1. PICK k \in Present : rows[k].rec = r /\ rows[k].pid = zone[r]
      BY <1>0, <1>2, <2>3 DEF Backed
    <3>2. k # i /\ k \in RowIds
      BY <1>0, <1>2, <2>3, <3>1 DEF Present
    <3> QED
      BY <1>0, <2>1, <3>1, <3>2 DEF Backed
  <2>4. TodoHolds(job[w])'
    <3>1. \A it \in j.todo : it.id \in Present \ {i} /\ rows[it.id].rec = it.rec
      BY <1>1, <1>2 DEF TodoHolds, ItemHolds
    <3>2. \A it \in j.todo : it.id \in Present' /\ rows'[it.id].rec = it.rec
      BY <2>1, <3>1 DEF Present
    <3> QED
      BY <1>2, <1>3, <3>2 DEF TodoHolds
  <2>5. DeleteStands(w)' /\ OthersBacked(w)'
    BY <1>4, <2>3, <2>4 DEF DeleteStands, Deleting, OthersBacked
  <2> QED
    BY <1>4, <2>2, <2>5 DEF Stands, CreateStands, UpdateStands
<1>5. CASE UNCHANGED rows /\ pc'[w] = "d_recreate"
  <2>1. Present' = Present
    BY <1>5 DEF Present
  <2>2. \A r \in Recs : zone'[r] # 0 => Backed(r)'
    BY <1>0, <1>2, <1>5, BackedStays
  <2>3. DeleteStands(w)'
    BY <1>0, <1>1, <1>2, <1>3, <1>5, <2>1 DEF DeleteStands, TodoHolds, ItemHolds, Deleting
  <2>4. PidsDistinct' /\ OthersBacked(w)'
    BY <1>5, <2>1, <2>2 DEF PidsDistinct, OthersBacked
  <2> QED
    BY <1>5, <2>3, <2>4 DEF Stands, CreateStands, UpdateStands
<1>6. \/ rows' = [rows EXCEPT ![j.item.id] = NoRow] /\ pc'[w] = "d_next"
      \/ UNCHANGED rows /\ pc'[w] = "d_recreate"
  BY <1>0, GotoKeeps DEF DeleteRow
<1> QED
  BY <1>4, <1>5, <1>6

\* The record comes back under an id that no row holds.
LEMMA RecreateSeq ==
    ASSUME TypeOK, TypeOK', PidsInv, PidsDistinct, NEW w \in Workers, Stands(w),
           pc[w] = "d_recreate", PCreate(job[w].item.rec), UNCHANGED rows,
           job'[w].item = job[w].item, job'[w].todo = job[w].todo,
           \/ pc'[w] = "d_recreate"
           \/ pc'[w] = "d_repoint" /\ job'[w].pid = zone'[job[w].item.rec]
    PROVE  /\ PidsDistinct' /\ Stands(w)'
           /\ zone'[job[w].item.rec] # job[w].item.pid
<1> DEFINE j == job[w]
<1>0. j \in Jobs /\ j.item \in Items /\ j.item \in Known(w)
  BY DEF TypeOK, Fits, Known
<1>1. PICK o \in Recs : o = j.item.rec
  BY <1>0 DEF Items
<1>2. /\ \A s \in Recs \ {o} : zone'[s] = zone[s]
      /\ zone[o] # 0 => zone'[o] = zone[o]
      /\ zone[o] = 0 => zone'[o] \notin RowPids /\ zone'[o] # j.item.pid
  BY <1>0, <1>1, CreateLeaves
<1>3. /\ TodoHolds(j) /\ ItemHolds(j)
      /\ zone[o] = 0 \/ zone[o] \notin RowPids \cup {j.item.pid}
      /\ \A r \in Recs \ {o} : zone[r] # 0 => Backed(r)
  BY <1>1 DEF Stands, DeleteStands, Deleting, OthersBacked, Standing
<1>4. zone'[o] \notin RowPids /\ zone'[o] # j.item.pid
  BY <1>2, <1>3
<1>5. Present' = Present /\ RowPids' = RowPids /\ PidsDistinct'
  BY DEF Present, RowPids, PidsDistinct
<1>6. DeleteStands(w)'
  BY <1>1, <1>3, <1>4, <1>5 DEF DeleteStands, TodoHolds, ItemHolds, Deleting
<1>7. \A r \in Recs \ {o} : zone'[r] # 0 => Backed(r)'
  BY <1>2, <1>3, BackedStays
<1>8. OthersBacked(w)'
  BY <1>1, <1>7 DEF OthersBacked, Standing
<1> QED
  BY <1>1, <1>4, <1>5, <1>6, <1>8 DEF Stands, CreateStands, UpdateStands

LEMMA DeleteStepSeq ==
    ASSUME TypeOK, TypeOK', PidsInv, PidsDistinct, NEW w \in Workers, Stands(w), Sequential',
           DeleteStep(w)
    PROVE  PidsDistinct' /\ Stands(w)'
<1> DEFINE j == job[w]
<1>0. j \in Jobs /\ Fits(pc[w], j)
  BY DEF TypeOK
<1>1. ASSUME pc[w] \in {"d_next", "d_look", "r_sweep"}, UNCHANGED <<rows, zone>>
      PROVE  /\ Present' = Present /\ PidsDistinct'
             /\ \A r \in Recs : zone'[r] # 0 => Backed(r)'
  <2>1. Present' = Present
    BY <1>1 DEF Present
  <2>2. \A r \in Recs : zone'[r] # 0 => Backed(r)'
    BY <1>1, BackedStays DEF Stands, OthersBacked, Standing
  <2> QED
    BY <1>1, <2>1, <2>2 DEF PidsDistinct
<1>2. CASE DeleteNext(w)
  <2>1. pc[w] = "d_next" /\ UNCHANGED <<rows, zone>>
    BY <1>2 DEF DeleteNext, dbVars, provVars
  <2>2. ASSUME NEW it \in j.todo,
               Goto(w, "d_del", [j EXCEPT !.item = it, !.pid = it.pid, !.todo = @ \ {it},
                                          !.left = Attempts(j.op)])
        PROVE  Stands(w)'
    <3>1. job'[w].item = it /\ job'[w].todo = j.todo \ {it} /\ pc'[w] = "d_del"
      BY <2>2, TakesItem DEF Goto, TypeOK
    <3>2. TodoHolds(j)
      BY <2>1 DEF Stands, DeleteStands
    <3>3. Present' = Present /\ rows' = rows
      BY <1>1, <2>1
    <3>4. DeleteStands(w)'
      BY <3>1, <3>2, <3>3 DEF DeleteStands, TodoHolds, ItemHolds, Deleting
    <3>5. OthersBacked(w)'
      BY <1>1, <2>1 DEF OthersBacked
    <3> QED
      BY <3>1, <3>4, <3>5 DEF Stands, CreateStands, UpdateStands
  <2>3. ASSUME pc'[w] \in {"r_sweep", "reply"} PROVE Stands(w)'
    BY <1>1, <2>1, <2>3, StandsEnd
  <2>4. CASE Goto(w, "r_sweep", j)
    <3>1. pc'[w] = "r_sweep"
      BY <2>4 DEF Goto, TypeOK
    <3> QED
      BY <1>1, <2>1, <2>3, <3>1
  <2>5. CASE EndWith(w, j, j.res)
    <3>1. pc'[w] = "reply"
      BY <2>5 DEF EndWith, Goto, TypeOK
    <3> QED
      BY <1>1, <2>1, <2>3, <3>1
  <2> QED
    BY <1>1, <1>2, <2>1, <2>2, <2>4, <2>5 DEF DeleteNext
<1>3. CASE DeleteLook(w)
  <2>1. pc[w] = "d_look" /\ UNCHANGED <<rows, zone>>
    BY <1>3 DEF DeleteLook, dbVars, provVars
  <2> QED
    BY <1>1, <1>3, <2>1, LookKeeps, DeletesGoOn DEF Deleting
<1>4. CASE DeleteRecreate(w)
  <2>1. /\ pc[w] = "d_recreate" /\ PCreate(j.item.rec) /\ UNCHANGED rows
        /\ j.item \in Items /\ j.item.rec \in Recs /\ j.item \in Known(w)
    BY <1>0, <1>4 DEF DeleteRecreate, dbVars, Fits, Items, Known
  <2>2. /\ zone[j.item.rec] # 0 => zone'[j.item.rec] = zone[j.item.rec]
        /\ zone[j.item.rec] = 0 => zone'[j.item.rec] # j.item.pid
    BY <2>1, CreateLeaves
  <2>3. zone[j.item.rec] # 0 => zone[j.item.rec] # j.item.pid
    BY <2>1 DEF Stands, DeleteStands
  <2> DEFINE j2 == [j EXCEPT !.pid = zone'[j.item.rec]]
  <2>4. zone'[j.item.rec] \in 0..MaxPids
    BY <2>1 DEF TypeOK
  <2>5. j2 \in Jobs /\ j2.item = j.item /\ j2.todo = j.todo /\ j2.pid = zone'[j.item.rec]
    BY <1>0, <2>4 DEF Jobs
  <2>6. Goto(w, "d_repoint", j2)
    BY <1>4, <2>2, <2>3 DEF DeleteRecreate
  <2> HIDE DEF j2
  <2>7. /\ job'[w].item = j.item /\ job'[w].todo = j.todo
        /\ pc'[w] = "d_repoint" /\ job'[w].pid = zone'[j.item.rec]
    BY <2>5, <2>6, GotoKeeps
  <2> QED
    BY <2>1, <2>7, RecreateSeq
<1>5. CASE ReleaseSweep(w)
  <2>1. pc[w] = "r_sweep" /\ zone' = zone
    BY <1>5 DEF ReleaseSweep, provVars
  <2>2. pc'[w] = "reply"
    BY <1>0, <1>5, EndKeeps DEF ReleaseSweep, Verdicts
  <2>3. CASE UNCHANGED rows
    BY <1>1, <2>1, <2>2, <2>3, StandsEnd
  <2>4. CASE rows' = [i \in RowIds |-> NoRow] /\ Note(IF Present = {} THEN {} ELSE {"sweep"})
    <3>1. Present = {}
      BY <2>4 DEF Note, Sequential
    <3>2. Present' = {}
      BY <2>4 DEF Present, NoRow
    <3>3. \A r \in Recs : zone'[r] = 0
      BY <2>1, <3>1 DEF Stands, OthersBacked, Standing, Backed
    <3> QED
      BY <2>2, <3>2, <3>3, StandsEnd DEF PidsDistinct
  <2> QED
    BY <1>5, <2>3, <2>4 DEF ReleaseSweep
<1> QED
  BY <1>2, <1>3, <1>4, <1>5, RowGoesSeq, RepointSeq DEF DeleteStep

\* The provider's answer to a delete.
LEMMA DeleteAnsweredSeq ==
    ASSUME TypeOK, TypeOK', PidsDistinct, NEW w \in Workers, Stands(w),
           AfterDelete(w), PDelete(job[w].pid), UNCHANGED rows
    PROVE  PidsDistinct' /\ Stands(w)'
<1> DEFINE j == job[w]
<1>0. j \in Jobs /\ Fits(pc[w], j)
  BY DEF TypeOK
<1>1. \A r \in Recs : zone'[r] \in {0, zone[r]} /\ (zone[r] = j.pid => zone'[r] = 0)
  BY DeleteLeaves
<1>2. CASE pc[w] = "c_undo"
  <2>1. pc'[w] = "reply"
    BY <1>0, <1>2, EndKeeps DEF AfterDelete, Fits
  <2>2. zone[j.new] \in {0, j.pid} /\ \A r \in Recs \ {j.new} : zone[r] # 0 => Backed(r)
    BY <1>2 DEF Stands, CreateStands, OthersBacked, Standing
  <2>3. \A r \in Recs : zone'[r] # 0 => Backed(r)'
    BY <1>1, <2>2 DEF Backed, Present
  <2>4. PidsDistinct'
    BY DEF PidsDistinct, Present
  <2> QED
    BY <2>1, <2>3, <2>4, StandsEnd
<1>3. CASE pc[w] \in {"d_del", "d_del2"}
  <2>1. /\ job'[w].item = j.item /\ job'[w].todo = j.todo
        /\ pc'[w] = IF pc[w] = "d_del" THEN "d_look" ELSE "d_row"
    <3>1. CASE pc[w] = "d_del" /\ Goto(w, "d_look", j)
      BY <1>0, <3>1, GotoKeeps
    <3>2. CASE pc[w] = "d_del2" /\ Goto(w, "d_row", j)
      BY <1>0, <3>2, GotoKeeps
    <3> QED
      BY <1>3, <3>1, <3>2 DEF AfterDelete
  <2>2. \A r \in Recs : zone[r] # 0 => Backed(r)
    BY <1>3 DEF Stands, OthersBacked, Standing
  <2>3. \A r \in Recs : zone'[r] # 0 => Backed(r)'
    BY <1>1, <2>2, StillBacked
  <2>4. j.item.rec \in Recs
    BY <1>0, <1>3 DEF Fits, Items
  <2>5. pc[w] = "d_del2" => zone'[j.item.rec] = 0
    BY <1>1, <2>4 DEF Stands, DeleteStands
  <2> QED
    BY <1>3, <2>1, <2>3, <2>5, DeletesGoOn DEF Deleting
<1> QED
  BY <1>2, <1>3 DEF AfterDelete

\* The worker repeats its call, whether or not it was applied.
LEMMA RepeatSeq ==
    ASSUME TypeOK, TypeOK', PidsInv, PidsDistinct, NEW w \in Workers, Stands(w),
           UNCHANGED <<rows, pc>>, pc[w] \in ProviderSteps,
           job'[w].item = job[w].item, job'[w].todo = job[w].todo,
           job'[w].pid = job[w].pid, job'[w].new = job[w].new,
           \/ UNCHANGED zone /\ (job[w].lost => job'[w].lost)
           \/ Effect(w) /\ job'[w].lost
    PROVE  PidsDistinct' /\ Stands(w)'
<1> DEFINE j == job[w]
<1>0. j \in Jobs /\ Fits(pc[w], j)
  BY DEF TypeOK
<1>1. PidsDistinct' /\ Present' = Present /\ RowPids' = RowPids
  BY DEF PidsDistinct, Present, RowPids
<1>2. CASE UNCHANGED zone /\ (j.lost => job'[w].lost)
  <2>1. Standing(w)' = Standing(w) /\ \A r \in Recs : Backed(r)' <=> Backed(r)
    BY <1>2, BackedStays DEF Standing
  <2>2. OthersBacked(w)'
    BY <1>2, <2>1 DEF OthersBacked, Stands
  <2>3. CreateStands(w)'
    <3>1. pc[w] = "c_provider" => j.new \in Recs
      BY <1>0 DEF Fits
    <3> QED
      BY <1>1, <1>2, <2>1, <3>1 DEF CreateStands, Stands, ProviderSteps
  <2>4. UpdateStands(w)'
    <3>1. pc[w] \in {"u_provider", "u_undo"} => zone[j.new] = 0 \/ Backed(j.new) \/ zone[j.new] = j.item.pid
      BY DEF UpdateStands, Stands
    <3>2. Backed(j.new) => \E i \in Present' : rows'[i].rec = j.new /\ rows'[i].pid = zone'[j.new]
      BY <1>1, <1>2 DEF Backed
    <3> QED
      BY <1>1, <1>2, <3>1, <3>2 DEF UpdateStands, Stands, ProviderSteps, Backed
  <2>5. DeleteStands(w)'
    BY <1>1, <1>2 DEF DeleteStands, Stands, TodoHolds, ItemHolds
  <2> QED
    BY <1>1, <2>2, <2>3, <2>4, <2>5 DEF Stands
<1>3. CASE pc[w] = "c_provider" /\ PCreate(j.new) /\ job'[w].lost
  <2>1. PICK n \in Recs : n = j.new
    BY <1>0, <1>3 DEF Fits
  <2>2. /\ \A s \in Recs \ {n} : zone'[s] = zone[s]
        /\ zone[n] # 0 => zone'[n] = zone[n]
        /\ zone[n] = 0 => zone'[n] \notin RowPids
    BY <1>3, <2>1, CreateLeaves
  <2>3. zone[n] = 0 \/ Backed(n) \/ zone[n] \notin RowPids
    BY <1>3, <2>1 DEF Stands, CreateStands
  <2>4. CreateStands(w)'
    BY <1>1, <1>3, <2>1, <2>2, <2>3 DEF CreateStands, Backed
  <2>5. \A r \in Recs \ {n} : zone'[r] # 0 => Backed(r)'
    BY <1>3, <2>1, <2>2, BackedStays DEF Stands, OthersBacked, Standing
  <2>6. OthersBacked(w)'
    BY <1>3, <2>1, <2>5 DEF OthersBacked, Standing
  <2> QED
    BY <1>1, <1>3, <2>4, <2>6 DEF Stands, UpdateStands, DeleteStands, Deleting
<1>4. CASE pc[w] = "c_undo" /\ PDelete(j.pid)
  <2>1. \A r \in Recs : zone'[r] \in {0, zone[r]} /\ (zone[r] = j.pid => zone'[r] = 0)
    BY <1>4, DeleteLeaves
  <2>2. zone[j.new] \in {0, j.pid} /\ \A r \in Recs \ {j.new} : zone[r] # 0 => Backed(r)
    BY <1>4 DEF Stands, CreateStands, OthersBacked, Standing
  <2>3. \A r \in Recs : zone'[r] # 0 => Backed(r)'
    BY <1>1, <2>1, <2>2 DEF Backed
  <2>4. j.new \in Recs /\ zone'[j.new] = 0
    BY <1>4, <2>1, <2>2 DEF Stands, CreateStands
  <2>5. CreateStands(w)' /\ OthersBacked(w)'
    BY <1>4, <2>3, <2>4 DEF CreateStands, OthersBacked
  <2> QED
    BY <1>1, <1>4, <2>5 DEF Stands, UpdateStands, DeleteStands, Deleting
<1>5. CASE /\ pc[w] \in {"u_provider", "u_undo"}
           /\ PUpdate(j.item.pid, UpdateTo(w)) /\ job'[w].lost
  <2>1. PICK n \in Recs : n = j.new
    BY <1>5 DEF Stands, UpdateStands
  <2>2. PICK i \in RowIds, p \in Pids, o \in Recs :
          i = j.item.id /\ p = j.item.pid /\ o = j.item.rec
    BY <1>0, <1>5 DEF Fits, Items
  <2>3. /\ i \in Present /\ rows[i].rec = o /\ rows[i].pid = p
        /\ \A r \in Recs \ {n} : zone[r] # 0 => Backed(r)
        /\ pc[w] = "u_undo" => zone[n] = 0 \/ Backed(n) \/ zone[n] = p
    BY <1>5, <2>1, <2>2 DEF Stands, UpdateStands, OthersBacked, Standing
  <2>4. ASSUME zone'[n] = 0 \/ Backed(n)' \/ zone'[n] = p,
               \A r \in Recs \ {n} : zone'[r] # 0 => Backed(r)'
        PROVE  Stands(w)'
    <3>1. OthersBacked(w)'
      BY <1>5, <2>1, <2>4 DEF OthersBacked, Standing
    <3>2. j.item.id \in Present' /\ rows'[j.item.id].rec = j.item.rec /\ rows'[j.item.id].pid = j.item.pid
      BY <1>1, <2>2, <2>3
    <3>3. UpdateStands(w)'
      BY <1>5, <2>1, <2>2, <2>4, <3>2 DEF UpdateStands
    <3> QED
      BY <1>5, <3>1, <3>3 DEF Stands, CreateStands, DeleteStands, Deleting
  <2>5. CASE pc[w] = "u_provider"
    <3>1. zone'[n] = p /\ \A s \in Recs \ {n} : zone'[s] = IF zone[s] = p THEN 0 ELSE zone[s]
      BY <1>5, <2>1, <2>2, <2>5, UpdateLeaves DEF UpdateTo
    <3>2. \A r \in Recs \ {n} : zone'[r] # 0 => Backed(r)'
      BY <1>1, <2>3, <3>1 DEF Backed
    <3> QED
      BY <1>1, <2>4, <3>1, <3>2
  <2>6. CASE pc[w] = "u_undo"
    <3>1. zone'[o] = p /\ \A s \in Recs \ {o} : zone'[s] = IF zone[s] = p THEN 0 ELSE zone[s]
      BY <1>5, <2>2, <2>6, UpdateLeaves DEF UpdateTo
    <3>2. Backed(o)'
      BY <1>1, <2>3, <3>1 DEF Backed
    <3>3. \A r \in Recs \ {n} : zone'[r] # 0 => Backed(r)'
      <4> SUFFICES ASSUME NEW r \in Recs \ {n}, r # o, zone'[r] # 0 PROVE Backed(r)'
        BY <3>2
      <4>1. zone'[r] = zone[r]
        BY <3>1
      <4> QED
        BY <2>3, <4>1, BackedStays
    <3>4. zone'[n] = 0 \/ Backed(n)' \/ zone'[n] = p
      <4>1. CASE n = o
        BY <3>1, <4>1
      <4>2. CASE n # o /\ zone[n] # p /\ Backed(n)
        BY <3>1, <4>2, BackedStays
      <4> QED
        BY <2>3, <2>6, <3>1, <4>1, <4>2
    <3> QED
      BY <1>1, <2>4, <3>3, <3>4
  <2> QED
    BY <1>5, <2>5, <2>6
<1>6. CASE pc[w] \in {"d_del", "d_look", "d_del2"} /\ (PDelete(j.pid) \/ zone' = zone)
           /\ (pc[w] = "d_del2" => PDelete(j.pid))
  <2>1. \A r \in Recs : zone'[r] \in {0, zone[r]} /\ (pc[w] = "d_del2" /\ zone[r] = j.pid => zone'[r] = 0)
    BY <1>6, DeleteLeaves
  <2>2. \A r \in Recs : zone[r] # 0 => Backed(r)
    BY <1>6 DEF Stands, OthersBacked, Standing
  <2>3. \A r \in Recs : zone'[r] # 0 => Backed(r)'
    BY <2>1, <2>2, StillBacked
  <2>4. j.item.rec \in Recs
    BY <1>0, <1>6 DEF Fits, Items
  <2>5. pc[w] = "d_del2" => zone'[j.item.rec] = 0
    BY <2>1, <2>4 DEF Stands, DeleteStands
  <2> QED
    BY <1>6, <2>3, <2>5, DeletesGoOn DEF Deleting
<1>7. CASE pc[w] = "d_recreate" /\ PCreate(j.item.rec)
  BY <1>7, RecreateSeq
<1> QED
  BY <1>2, <1>3, <1>4, <1>5, <1>6, <1>7 DEF Effect, provVars

LEMMA GiveUpSeq ==
    ASSUME TypeOK, TypeOK', PidsDistinct, NEW w \in Workers, Stands(w), Sequential',
           NEW lost \in BOOLEAN, GiveUp(w, lost), UNCHANGED rows,
           job[w].lost => lost, ~lost => UNCHANGED zone
    PROVE  PidsDistinct' /\ Stands(w)'
<1> DEFINE j == job[w]
<1>0. j \in Jobs /\ Fits(pc[w], j)
  BY DEF TypeOK
<1>1. PidsDistinct'
  BY DEF PidsDistinct, Present
<1>2. CASE pc[w] \in {"c_provider", "u_provider"}
  <2>1. ~lost /\ ~j.lost /\ zone' = zone
    BY <1>2 DEF GiveUp, Note, Sequential
  <2>2. pc'[w] = "reply"
    BY <1>0, <1>2, EndKeeps DEF GiveUp, Verdicts
  <2>3. \A r \in Recs : zone[r] # 0 => Backed(r)
    BY <1>2, <2>1 DEF Stands, CreateStands, UpdateStands, OthersBacked, Standing
  <2>4. \A r \in Recs : zone'[r] # 0 => Backed(r)'
    BY <2>1, <2>3, BackedStays
  <2> QED
    BY <1>1, <2>2, <2>4, StandsEnd
<1>3. CASE pc[w] \in {"d_del", "d_look", "d_del2"}
  <2>1. ~lost /\ zone' = zone /\ FailAttempt(w, j)
    BY <1>3 DEF GiveUp, Note, Sequential
  <2>2. job'[w].item = j.item /\ job'[w].todo = j.todo /\ pc'[w] \in {"d_del", "d_next"}
    BY <1>0, <1>3, <2>1, FailAttemptKeeps DEF Fits
  <2>3. \A r \in Recs : zone'[r] # 0 => Backed(r)'
    BY <1>3, <2>1, BackedStays DEF Stands, OthersBacked, Standing
  <2> QED
    BY <1>3, <2>2, <2>3, DeletesGoOn DEF Deleting
<1>4. CASE pc[w] \in {"c_undo", "u_undo", "d_recreate"}
  BY <1>4 DEF GiveUp, Note, Sequential
<1> QED
  BY <1>2, <1>3, <1>4 DEF GiveUp

LEMMA SharedStepSeq ==
    ASSUME TypeOK, TypeOK', PidsInv, PidsDistinct, NEW w \in Workers, Stands(w), Sequential',
           DeleteAtProvider(w) \/ DeletePresumed(w) \/ ProviderFails(w) \/ UpdateRefused(w) \/ Reply(w)
    PROVE  PidsDistinct' /\ Stands(w)'
<1> DEFINE j == job[w]
<1>0. j \in Jobs /\ j.lost \in BOOLEAN /\ Fits(pc[w], j)
  BY DEF TypeOK, Jobs
<1>1. UNCHANGED rows
  BY DEF DeleteAtProvider, DeletePresumed, ProviderFails, UpdateRefused, Reply, dbVars
<1>2. CASE DeleteAtProvider(w)
  BY <1>1, <1>2, DeleteAnsweredSeq DEF DeleteAtProvider
<1>3. CASE DeletePresumed(w)
  BY <1>3 DEF DeletePresumed, Note, Sequential
<1>4. CASE UpdateRefused(w)
  BY <1>0, <1>1, <1>4, GiveUpSeq DEF UpdateRefused, provVars
<1>5. CASE Reply(w)
  <2>1. pc[w] = "reply" /\ pc'[w] = "idle" /\ zone' = zone
    BY <1>5 DEF Reply, provVars, TypeOK
  <2>2. \A r \in Recs : zone'[r] # 0 => Backed(r)'
    BY <1>1, <2>1, BackedStays DEF Stands, OthersBacked, Standing
  <2>3. PidsDistinct'
    BY <1>1 DEF PidsDistinct, Present
  <2> QED
    BY <2>1, <2>2, <2>3, StandsEnd
<1>6. CASE ProviderFails(w)
  <2>1. PICK applied \in BOOLEAN :
          LET lost == job[w].lost \/ applied IN
          /\ IF applied THEN Effect(w) ELSE UNCHANGED provVars
          /\ \/ /\ job[w].tries > 1
                /\ job' = [job EXCEPT ![w] = [job[w] EXCEPT !.tries = @ - 1, !.lost = lost]]
                /\ Note(IF applied THEN Crossing(w) ELSE {})
                /\ UNCHANGED <<pc, key>>
             \/ GiveUp(w, lost)
    BY <1>6 DEF ProviderFails
  <2>2. PICK lost \in BOOLEAN : lost <=> (j.lost \/ applied)
    BY <1>0
  <2>3. lost = (j.lost \/ applied)
    BY <1>0, <2>2
  <2>4. CASE GiveUp(w, lost)
    BY <1>0, <1>1, <2>1, <2>2, <2>4, GiveUpSeq DEF provVars
  <2>5. CASE /\ job' = [job EXCEPT ![w] = [job[w] EXCEPT !.tries = @ - 1, !.lost = lost]]
             /\ pc' = pc
    <3>1. /\ job'[w].item = j.item /\ job'[w].todo = j.todo /\ job'[w].pid = j.pid
          /\ job'[w].new = j.new /\ job'[w].lost = lost
      BY <1>0, <2>5 DEF TypeOK, Jobs
    <3>2. pc[w] \in ProviderSteps
      BY <1>6 DEF ProviderFails
    <3> QED
      BY <1>1, <2>1, <2>2, <2>5, <3>1, <3>2, RepeatSeq DEF provVars
  <2> QED
    BY <2>1, <2>3, <2>4, <2>5
<1> QED
  BY <1>2, <1>3, <1>4, <1>5, <1>6

LEMMA WorkerStepSeq ==
    ASSUME TypeOK, TypeOK', PidsInv, IdsInv, PidsDistinct, NEW w \in Workers, Stands(w), Sequential',
           WorkerStep(w)
    PROVE  PidsDistinct' /\ Stands(w)'
BY CreateStepSeq, UpdateStepSeq, DeleteStepSeq, SharedStepSeq DEF WorkerStep

\* A handler that starts alone finds every record backed.
LEMMA BeginSeq ==
    ASSUME TypeOK, TypeOK', PidsDistinct, NEW w \in Workers, NEW k \in Keys, BeginSome(w, k),
           \A r \in Recs : zone[r] # 0 => Backed(r)
    PROVE  PidsDistinct' /\ Stands(w)'
<1>1. UNCHANGED <<rows, zone>> /\ Present' = Present
  BY DEF BeginSome, CreateBegin, UpdateBegin, DeleteBegin, ReleaseBegin, Begin, dbVars, provVars, Present
<1>2. PidsDistinct'
  BY <1>1 DEF PidsDistinct
<1>3. \A r \in Recs : zone'[r] # 0 => Backed(r)'
  BY <1>1, BackedStays
<1>4. OthersBacked(w)'
  BY <1>3 DEF OthersBacked
<1>5. \A i \in Present : ItemOf(i).id = i /\ ItemOf(i).rec = rows[i].rec /\ ItemOf(i).pid = rows[i].pid
  BY DEF ItemOf
<1>6. CASE CreateBegin(w, k)
  <2>1. PICK r \in Recs : Begin(w, k, "c_provider", [Idle EXCEPT !.op = "create", !.new = r])
    BY <1>6 DEF CreateBegin
  <2>2. pc'[w] = "c_provider" /\ job'[w].new = r
    BY <2>1 DEF Begin, Idle, TypeOK
  <2>3. CreateStands(w)'
    BY <1>3, <2>2 DEF CreateStands
  <2> QED
    BY <1>2, <1>4, <2>2, <2>3 DEF Stands, UpdateStands, DeleteStands, Deleting
<1>7. CASE UpdateBegin(w, k)
  <2>1. PICK i \in Present, r \in Recs :
          Begin(w, k, "u_provider", [Idle EXCEPT !.op = "update", !.item = ItemOf(i), !.new = r])
    BY <1>7 DEF UpdateBegin
  <2>2. pc'[w] = "u_provider" /\ job'[w].new = r /\ job'[w].item = ItemOf(i)
    BY <2>1 DEF Begin, Idle, TypeOK
  <2>3. UpdateStands(w)'
    BY <1>1, <1>3, <1>5, <2>2 DEF UpdateStands
  <2> QED
    BY <1>2, <1>4, <2>2, <2>3 DEF Stands, CreateStands, DeleteStands, Deleting
<1>8. ASSUME pc'[w] = "d_next", \A it \in job'[w].todo : \E i \in Present : it = ItemOf(i)
      PROVE  Stands(w)'
  <2>1. TodoHolds(job[w])'
    BY <1>1, <1>5, <1>8 DEF TodoHolds
  <2> QED
    BY <1>4, <1>8, <2>1 DEF Stands, CreateStands, UpdateStands, DeleteStands, Deleting
<1>9. CASE DeleteBegin(w, k)
  <2>1. PICK i \in Present :
          Begin(w, k, "d_next", [Idle EXCEPT !.op = "delete", !.todo = {ItemOf(i)}, !.res = "ok"])
    BY <1>9 DEF DeleteBegin
  <2>2. pc'[w] = "d_next" /\ job'[w].todo = {ItemOf(i)}
    BY <2>1 DEF Begin, Idle, TypeOK
  <2> QED
    BY <1>2, <1>8, <2>2
<1>10. CASE ReleaseBegin(w, k)
  <2>1. pc'[w] = "d_next" /\ job'[w].todo = {ItemOf(i) : i \in Present}
    BY <1>10 DEF ReleaseBegin, Begin, Idle, TypeOK
  <2> QED
    BY <1>2, <1>8, <2>1
<1> QED
  BY <1>6, <1>7, <1>9, <1>10 DEF BeginSome

\* A step of w, which is the only worker that is busy after it.
LEMMA AloneSeq ==
    ASSUME NEW w \in Workers, WorkerChange(w), PidsDistinct', Stands(w)',
           \A v \in Workers \ {w} : ~Busy(v)
    PROVE  SeqInv'
<1>1. \A v \in Workers \ {w} : ~Busy(v)'
  BY DEF WorkerChange, OthersKeep, Busy
<1>2. ~Busy(w)' => \A r \in Recs : zone'[r] # 0 => Backed(r)'
  BY DEF Busy, Stands, OthersBacked, Standing
<1> QED
  BY <1>1, <1>2 DEF SeqInv

LEMMA SeqStep ==
    ASSUME TypeOK, TypeOK', IdsInv, PidsInv, SeqInv, [Next]_vars
    PROVE  SeqInv'
<1>1. ASSUME NEW w \in Workers, WorkerStep(w) PROVE SeqInv'
  <2>1. WorkerChange(w)
    BY <1>1, WorkerStepChange
  <2> SUFFICES ASSUME Sequential' PROVE SeqInv'
    BY DEF SeqInv
  <2>2. Sequential
    BY <2>1 DEF WorkerChange, Sequential
  <2>3. Busy(w)
    BY <1>1 DEF WorkerStep, CreateStep, CreateAtProvider, CreateCheck, CreateInsert,
       UpdateStep, UpdateAtProvider, UpdateSave, UpdateUndo, DeleteStep, DeleteNext, DeleteLook,
       DeleteRow, DeleteRecreate, DeleteRepoint, ReleaseSweep, DeleteAtProvider, DeletePresumed,
       AfterDelete, ProviderFails, ProviderSteps, UpdateRefused, Reply, Busy
  <2>4. PidsDistinct' /\ Stands(w)'
    BY <1>1, <2>2, <2>3, WorkerStepSeq DEF SeqInv
  <2> QED
    BY <2>1, <2>2, <2>3, <2>4, AloneSeq DEF SeqInv
<1>2. ASSUME NEW w \in Workers, NEW k \in Keys, BeginSome(w, k) PROVE SeqInv'
  <2>1. WorkerChange(w) /\ ~Busy(w)
    BY <1>2, BeginChange DEF BeginSome, CreateBegin, UpdateBegin, DeleteBegin, ReleaseBegin,
       Begin, TryCreate, Busy
  <2> SUFFICES ASSUME Sequential' PROVE SeqInv'
    BY DEF SeqInv
  <2>2. \A v \in Workers \ {w} : ~Busy(v)
    <3>1. Note(IF \E v \in Workers \ {w} : Busy(v) THEN {"overlap"} ELSE {})
      BY <1>2 DEF BeginSome, CreateBegin, UpdateBegin, DeleteBegin, ReleaseBegin, Begin
    <3>2. "overlap" \notin mishaps'
      BY DEF Sequential
    <3> QED
      BY <3>1, <3>2 DEF Note
  <2>3. Sequential
    BY <2>1 DEF WorkerChange, Sequential
  <2>4. PidsDistinct /\ \A r \in Recs : zone[r] # 0 => Backed(r)
    BY <2>1, <2>2, <2>3 DEF SeqInv
  <2>5. PidsDistinct' /\ Stands(w)'
    BY <1>2, <2>4, BeginSeq
  <2> QED
    BY <2>1, <2>2, <2>5, AloneSeq
<1>3. CASE AnswerRepeat \/ UNCHANGED vars
  <2>1. UNCHANGED <<rows, zone, pc, job, mishaps>>
    BY <1>3 DEF AnswerRepeat, vars, dbVars, provVars
  <2>2. (Sequential' <=> Sequential) /\ Present' = Present /\ RowPids' = RowPids
    BY <2>1 DEF Sequential, Present, RowPids
  <2>3. \A r \in Recs : Backed(r)' <=> Backed(r)
    BY <2>1, BackedStays
  <2>4. PidsDistinct' <=> PidsDistinct
    BY <2>1, <2>2 DEF PidsDistinct
  <2>5. \A w \in Workers : (Busy(w)' <=> Busy(w)) /\ (Stands(w) => Stands(w)')
    <3> SUFFICES ASSUME NEW w \in Workers, Stands(w) PROVE Stands(w)'
      BY <2>1 DEF Busy
    <3> USE DEF Stands
    <3>1. OthersBacked(w)'
      BY <2>1, <2>3 DEF OthersBacked, Standing
    <3>2. CreateStands(w)'
      BY <2>1, <2>2 DEF CreateStands, Backed
    <3>3. UpdateStands(w)'
      BY <2>1, <2>2 DEF UpdateStands, Backed
    <3>4. DeleteStands(w)'
      BY <2>1, <2>2 DEF DeleteStands, TodoHolds, ItemHolds
    <3> QED
      BY <3>1, <3>2, <3>3, <3>4
  <2> QED
    BY <2>1, <2>2, <2>3, <2>4, <2>5 DEF SeqInv
<1>4. CASE Crash
  BY <1>4 DEF Crash, Note, SeqInv, Sequential
<1> QED
  BY <1>1, <1>2, <1>3, <1>4 DEF Next

LEMMA SeqInit == Init => SeqInv
<1> SUFFICES ASSUME Init PROVE SeqInv
  OBVIOUS
<1>1. PICK s \in Recs \cup {NoRec} :
          /\ rows = [i \in RowIds |->
                        IF i = 1 /\ s # NoRec THEN [rec |-> s, pid |-> 1] ELSE NoRow]
          /\ zone = [x \in Recs |-> IF x = s THEN 1 ELSE 0]
  BY DEF Init
<1>2. 1 \in RowIds /\ NoRec \notin Recs
  BY ConstantsAssumption DEF ConstantsAssumption, RowIds
<1>3. \A i \in Present : i = 1
  BY <1>1 DEF Present, NoRow
<1>4. ASSUME NEW r \in Recs, zone[r] # 0 PROVE Backed(r)
  <2>1. r = s /\ zone[r] = 1
    BY <1>1, <1>4
  <2>2. rows[1] = [rec |-> r, pid |-> 1]
    BY <1>1, <1>2, <2>1
  <2> QED
    BY <1>2, <2>1, <2>2 DEF Backed, Present
<1>5. \A w \in Workers : ~Busy(w)
  BY DEF Init, Busy
<1> QED
  BY <1>3, <1>4, <1>5 DEF SeqInv, PidsDistinct

\* With one handler at a time, a database delete that failed leaves nothing
\* behind once its handler is done: the record it deleted is in the zone again,
\* and the row names it by its new id (deleteSingle's compensation).
THEOREM SequentialRestored == Spec => []NoOrphanSequential
<1>1. Init => TypeOK /\ RowsInv /\ PidsInv /\ SeqInv
  BY InitTyped, RowsInit, PidsInit, SeqInit
<1>2. TypeOK /\ RowsInv /\ PidsInv /\ SeqInv /\ [Next]_vars
        => TypeOK' /\ RowsInv' /\ PidsInv' /\ SeqInv'
  BY TypeStep, RowsStep, PidsStep, SeqStep DEF RowsInv
<1>3. SeqInv => NoOrphanSequential
  BY DEF SeqInv, NoOrphanSequential, Sequential, Backed, Owned
<1> QED
  BY <1>1, <1>2, <1>3, PTL DEF Spec
=============================================================================
