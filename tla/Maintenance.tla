---------------------------- MODULE Maintenance ----------------------------
(***************************************************************************)
(* Export and restore of the database by an administrator: a dump packed    *)
(* into an archive with its checksums, and a restore that checks an         *)
(* uploaded archive, exports the database first, closes the API and lets    *)
(* pg_restore replace every table, the ones that record exports and         *)
(* restores among them.                                                     *)
(***************************************************************************)
EXTENDS Integers, FiniteSets, Sequences, TLC

CONSTANTS
    Writers,   \* requests that write, one row each
    Operators, \* requests that export or restore, one each
    MaxMishaps  \* bound: steps that fail and stops of the server

ASSUME MaintenanceConstants == MaxMishaps \in Nat

VARIABLES
    tables,    \* what the database holds: rows, jobs, recorded exports; and
               \* ghost: whether all of it is its own, none from an archive made anew
    disk,      \* the archive each operator's request left in the directory
    api,    \* up or not, and the gate, which is in memory only
    req,       \* requests that write
    op,        \* requests that export or restore
    during,    \* rows committed while pg_restore replaces the tables
    late,      \* ghost: rows committed after the export that precedes a restore
    destroyed, \* ghost: pg_restore has run since the server started
    reopened,  \* ghost: the server was started over tables half replaced
    mishaps

maintenanceVars == <<tables, disk, api, req, op, during, late, destroyed, reopened, mishaps>>

None == [entries |-> <<>>]
Empty == [rows |-> {}, jobs |-> [o \in Operators |-> "none"], known |-> {}, whole |-> TRUE,
          own |-> TRUE]
New == [step |-> "new", restores |-> FALSE, upload |-> None, dumped |-> None]

Mishap == mishaps < MaxMishaps /\ mishaps' = mishaps + 1
Up == api.up
Gate(b) == api' = [api EXCEPT !.gate = b]
Step(o, s) == op' = [op EXCEPT ![o].step = s]
Done(o) == op' = [op EXCEPT ![o] = [New EXCEPT !.step = "over"]]
OpsAt(steps) == {o \in Operators : op[o].step \in steps}
\* The steps of a restore from its export on, and those behind the closed gate.
Exported ==
    {o \in OpsAt({"pack", "record", "begin", "mark", "start", "restoring", "persist"}) :
       op[o].restores}
Closed == OpsAt({"mark", "start", "restoring", "persist"})

-----------------------------------------------------------------------------

\* What writeBackupArchive packs: the dump, a manifest with its checksum, and
\* the checksums of both.  A checksum is taken to tell any two contents apart.
Sum(x) == <<x>>
Manifest(dump) == [schema |-> 1, dump |-> Sum(dump)]
Pack(content) ==
    LET dump == [magic |-> "PGDMP", content |-> content]
    IN [entries |-> <<"dump", "manifest", "sums">>,
        dump |-> dump,
        manifest |-> Manifest(dump),
        sums |-> [dump |-> Sum(dump), manifest |-> Sum(Manifest(dump))]]

\* An archive made anew: another content, with a manifest and checksums of its own.
Repacked(ar) ==
    Pack([ar.dump.content EXCEPT !.rows = {}, !.known = Operators, !.own = FALSE,
                                 !.jobs = [o \in Operators |-> "succeeded"]])

\* What may have become of an archive on its way: a part replaced, an entry
\* missing, twice there or not known, a file that is no dump, all made anew.
Alterations(ar) ==
    LET other == Sum([magic |-> "PGDMP", content |-> Empty])
    IN {ar, Repacked(ar),
        [ar EXCEPT !.dump.content = Empty],
        [ar EXCEPT !.dump.magic = "text"],
        [ar EXCEPT !.manifest.schema = 2],
        [ar EXCEPT !.manifest.dump = other],
        [ar EXCEPT !.sums.dump = other],
        [ar EXCEPT !.sums = [dump |-> ar.sums.dump]],
        [ar EXCEPT !.entries = <<"dump", "manifest">>],
        [ar EXCEPT !.entries = <<"dump", "dump", "manifest">>],
        [ar EXCEPT !.entries = <<"dump", "manifest", "sums", "../x">>]}

ExpectedEntries == {"dump", "manifest", "sums"}

\* Three entries, each once.
EntriesValid(ar) ==
    /\ \A i \in DOMAIN ar.entries : ar.entries[i] \in ExpectedEntries
    /\ \A i, j \in DOMAIN ar.entries : i # j => ar.entries[i] # ar.entries[j]
    /\ Len(ar.entries) = Cardinality(ExpectedEntries)

\* One checksum for each of the two other entries, and none beside.
SumsValid(ar) == DOMAIN ar.sums = ExpectedEntries \ {"sums"}

\* The manifest agrees with the checksums.
ManifestValid(ar) ==
    /\ ar.manifest.schema = 1
    /\ ar.sums.manifest = Sum(ar.manifest)
    /\ ar.sums.dump = ar.manifest.dump

\* Mutant: the checksum of the dump is compared between the lists only.
DumpIsDump(ar) == ar.dump.magic = "PGDMP"

\* The dump agrees with them, and is one.
DumpValid(ar) == Sum(ar.dump) = ar.sums.dump /\ ar.dump.magic = "PGDMP"

\* validateBackupArchive.
Valid(ar) == EntriesValid(ar) /\ SumsValid(ar) /\ ManifestValid(ar) /\ DumpValid(ar)

-----------------------------------------------------------------------------

\* MaintenanceMode lets a request pass or refuses it, when it begins only.
Pass == Up /\ ~api.gate

Arrive(w) ==
    /\ Pass
    /\ req[w] = "new"
    /\ req' = [req EXCEPT ![w] = "in"]
    /\ UNCHANGED <<tables, disk, api, op, during, late, destroyed, reopened, mishaps>>

\* Once passed it writes, whatever the gate says by then; its statement may fail
\* where tables are missing.
Write(w) ==
    /\ Up
    /\ req[w] = "in"
    /\ \/ /\ tables' = [tables EXCEPT !.rows = @ \cup {w}]
          /\ during' = IF OpsAt({"restoring"}) = {} THEN during ELSE during \cup {w}
          /\ late' = IF Exported = {} THEN late ELSE late \cup {w}
          /\ req' = [req EXCEPT ![w] = "done"]
       \/ /\ ~tables.whole
          /\ req' = [req EXCEPT ![w] = "failed"]
          /\ UNCHANGED <<tables, during, late>>
    /\ UNCHANGED <<disk, api, op, destroyed, reopened, mishaps>>

Export(o) ==
    /\ Pass
    /\ op[o].step = "new"
    /\ Step(o, "dump")
    /\ UNCHANGED <<tables, disk, api, req, during, late, destroyed, reopened, mishaps>>

\* A status is written where the job's row still is.
SetJob(o, status) ==
    tables' = [tables EXCEPT !.jobs[o] = IF @ = "none" THEN @ ELSE status]
FailJob(o) == SetJob(o, "failed")

\* A restore creates its job and looks at the archive that was stored.
BeginJob(o, ar) ==
    IF Valid(ar)
    THEN /\ tables' = [tables EXCEPT !.jobs[o] = "pending"]
         /\ op' = [op EXCEPT ![o] = [New EXCEPT !.step = "dump", !.restores = TRUE, !.upload = ar]]
    ELSE /\ tables' = [tables EXCEPT !.jobs[o] = "failed"]
         /\ Done(o)

\* Some archive of the directory, or what has become of it, is uploaded.
Uploads == UNION {Alterations(disk[a]) : a \in {b \in Operators : disk[b] # None}}

RestoreBackup(o) ==
    /\ Pass
    /\ op[o].step = "new"
    /\ \E ar \in Uploads : BeginJob(o, ar)
    /\ UNCHANGED <<disk, api, req, during, late, destroyed, reopened, mishaps>>

\* CreateBackup fails: an export is over, a restore goes no further.
BackupFails(o) ==
    /\ Mishap
    /\ Done(o)
    /\ IF op[o].restores THEN FailJob(o) ELSE UNCHANGED tables

\* pg_dump sees the tables of one instant.
Dump(o) ==
    /\ op[o].step = "dump"
    /\ \/ /\ op' = [op EXCEPT ![o].step = "pack", ![o].dumped = Pack(tables)]
          /\ UNCHANGED <<tables, mishaps>>
       \/ BackupFails(o)
    /\ UNCHANGED <<disk, api, req, during, late, destroyed, reopened>>

Packed(o) ==
    /\ disk' = [disk EXCEPT ![o] = op[o].dumped]
    /\ op' = [op EXCEPT ![o].step = "record", ![o].dumped = None]
    /\ UNCHANGED <<tables, mishaps>>

\* Mutant: a restore goes on without its export.
PackOptional(o) ==
    /\ op[o].step = "pack"
    /\ \/ Packed(o)
       \/ /\ op[o].restores
          /\ Mishap
          /\ op' = [op EXCEPT ![o].step = "begin", ![o].dumped = None]
          /\ UNCHANGED <<tables, disk>>
    /\ UNCHANGED <<api, req, during, late, destroyed, reopened>>

\* The archive is written and validated like an uploaded one.
PackArchive(o) ==
    /\ op[o].step = "pack"
    /\ \/ Valid(op[o].dumped) /\ Packed(o)
       \/ BackupFails(o) /\ UNCHANGED disk
    /\ UNCHANGED <<api, req, during, late, destroyed, reopened>>

\* The row of the archive; without it the file goes too.
Record(o) ==
    /\ op[o].step = "record"
    /\ \/ /\ tables' = [tables EXCEPT !.known = @ \cup {o}]
          /\ IF op[o].restores THEN Step(o, "begin") ELSE Done(o)
          /\ UNCHANGED <<disk, mishaps>>
       \/ BackupFails(o) /\ disk' = [disk EXCEPT ![o] = None]
    /\ UNCHANGED <<api, req, during, late, destroyed, reopened>>

\* Mutant: the gate is looked at and closed, whoever closed it.
BeginAnyway(o) ==
    /\ op[o].step = "begin"
    /\ Gate(TRUE) /\ Step(o, "mark")
    /\ UNCHANGED <<tables, disk, req, during, late, destroyed, reopened, mishaps>>

\* BeginRestore: one restore at a time, and none after one until a restart.
BeginRestore(o) ==
    /\ op[o].step = "begin"
    /\ IF api.gate
       THEN Done(o) /\ FailJob(o) /\ UNCHANGED api
       ELSE Gate(TRUE) /\ Step(o, "mark") /\ UNCHANGED tables
    /\ UNCHANGED <<disk, req, during, late, destroyed, reopened, mishaps>>

Running(o) == SetJob(o, "running") /\ Step(o, "start") /\ UNCHANGED <<api, mishaps>>

\* MarkDatabaseRestoreJobRunning; where it fails, the job stays as it is.
MarkRunning(o) ==
    /\ op[o].step = "mark"
    /\ \/ tables.jobs[o] # "none" /\ Running(o)
       \/ /\ IF tables.jobs[o] = "none" THEN UNCHANGED mishaps ELSE Mishap
          /\ Done(o) /\ Gate(FALSE)
          /\ UNCHANGED tables
    /\ UNCHANGED <<disk, req, during, late, destroyed, reopened>>

\* extractValidatedBackup looks at the archive once more.
Extractable(o) == Valid(op[o].upload)

\* The archive is extracted and pg_restore started; a failure of either opens
\* the gate again.
StartPGRestore(o) ==
    /\ op[o].step = "start"
    /\ \/ /\ Extractable(o)
          /\ Step(o, "restoring")
          /\ tables' = [tables EXCEPT !.whole = FALSE]
          /\ during' = {}
          /\ destroyed' = TRUE
          /\ UNCHANGED <<api, mishaps>>
       \/ Mishap /\ Done(o) /\ FailJob(o) /\ Gate(FALSE) /\ UNCHANGED <<during, destroyed>>
    /\ UNCHANGED <<disk, req, late, reopened>>

\* Mutant: a failed restore opens the gate, whether tables were replaced or not.
FinishAlways == Gate(FALSE)

\* finishRestoreAttempt once pg_restore has run.
FinishDestroyed == UNCHANGED api

\* pg_restore ends: every table is the archive's, with what was written to it
\* since; or it fails, or its request goes away and kills it, and each table is
\* the old one, the archive's, or gone.  A job's row that is left says failed.
PGRestoreEnds(o) ==
    LET content == op[o].upload.dump.content
    IN /\ op[o].step = "restoring"
       /\ \/ /\ \E kept \in SUBSET during : tables' = [content EXCEPT !.rows = @ \cup kept]
             /\ Step(o, "persist")
             /\ UNCHANGED <<api, mishaps>>
          \/ /\ Mishap
             /\ \E r, m \in {tables, content, Empty} :
                   tables' = [rows |-> r.rows, known |-> m.known, whole |-> FALSE, own |-> r.own /\ m.own,
                              jobs |-> [m.jobs EXCEPT ![o] = IF @ = "none" THEN @ ELSE "failed"]]
             /\ Done(o) /\ FinishDestroyed
       /\ during' = {}
       /\ UNCHANGED <<disk, req, late, destroyed, reopened>>

RestoredRows(o, recorded, status) ==
    tables' = [tables EXCEPT !.known = IF recorded THEN @ \cup {o} ELSE @, !.jobs[o] = status]

\* validateRestoredDatabase finds no answer or a table missing.
CheckFails(o) == Mishap /\ FailJob(o)

\* The database is checked, and the rows that the restore has replaced are
\* written once more.
PersistOutcome(o) ==
    /\ op[o].step = "persist"
    /\ \/ RestoredRows(o, TRUE, "succeeded") /\ UNCHANGED mishaps
       \/ Mishap /\ \E recorded \in BOOLEAN : RestoredRows(o, recorded, tables.jobs[o])
       \/ CheckFails(o)
    /\ Done(o) /\ FinishDestroyed
    /\ UNCHANGED <<disk, req, during, late, destroyed, reopened>>

\* The server stops, pg_restore with it.  Started again, its gate is open.
ServerStops ==
    /\ Up /\ Mishap
    /\ api' = [up |-> FALSE, gate |-> FALSE]
    /\ op' = [o \in Operators |-> IF op[o].step = "new" THEN New ELSE [New EXCEPT !.step = "over"]]
    /\ req' = [w \in Writers |-> IF req[w] = "in" THEN "failed" ELSE req[w]]
    /\ during' = {}
    /\ UNCHANGED <<tables, disk, late, destroyed, reopened>>

ServerStarts ==
    /\ ~Up
    /\ api' = [api EXCEPT !.up = TRUE]
    /\ destroyed' = FALSE
    /\ reopened' = ~tables.whole
    /\ UNCHANGED <<tables, disk, req, op, during, late, mishaps>>

-----------------------------------------------------------------------------

MaintenanceInit ==
    /\ tables = Empty
    /\ disk = [o \in Operators |-> None]
    /\ api = [up |-> TRUE, gate |-> FALSE]
    /\ req = [w \in Writers |-> "new"]
    /\ op = [o \in Operators |-> New]
    /\ during = {} /\ late = {}
    /\ destroyed = FALSE /\ reopened = FALSE
    /\ mishaps = 0

Operate(o) ==
    \/ Export(o) \/ RestoreBackup(o)
    \/ Dump(o) \/ PackArchive(o) \/ Record(o)
    \/ BeginRestore(o) \/ MarkRunning(o) \/ StartPGRestore(o)
    \/ PGRestoreEnds(o) \/ PersistOutcome(o)

MaintenanceNext ==
    \/ \E w \in Writers : Arrive(w) \/ Write(w)
    \/ \E o \in Operators : Operate(o)
    \/ ServerStops \/ ServerStarts

MaintenanceSpec == MaintenanceInit /\ [][MaintenanceNext]_maintenanceVars

-----------------------------------------------------------------------------

\* Every variable has its type, and a stopped server does nothing.
MaintenanceTypeOK ==
    /\ tables.rows \subseteq Writers /\ tables.known \subseteq Operators
    /\ tables.jobs \in [Operators -> {"none", "pending", "running", "succeeded", "failed"}]
    /\ api \in [up : BOOLEAN, gate : BOOLEAN]
    /\ req \in [Writers -> {"new", "in", "done", "failed"}]
    /\ ~Up => ~api.gate /\ OpsAt({"new", "over"}) = Operators
    /\ during \cup late \subseteq Writers

\* "On success the gate remains enabled until the process restarts", and after
\* a failure too: no request begins over tables that are half replaced, before
\* somebody has started the server anew.  And a closed API has a reason: a
\* restore at work, or one that has touched the tables.
GateFollowsTables ==
    /\ (Up /\ ~tables.whole /\ ~reopened) => api.gate
    /\ api.gate => (destroyed \/ Closed # {})

\* One restore at a time replaces tables, and none after it until a restart.
OneRestore ==
    /\ Cardinality(Closed) <= 1
    /\ destroyed => OpsAt({"mark", "start"}) = {}

\* "Mandatory pre-restore export": what a request was told is written stays in
\* the tables or in an archive on the disk, unless it was written between the
\* export and the end of a restore.
NothingLostUnseen ==
    \A w \in Writers \ late : req[w] = "done" =>
       \/ w \in tables.rows
       \/ \E o \in Operators : disk[o] # None /\ w \in disk[o].dump.content.rows

\* What replaces the tables is one archive to the last bit: with any part of it
\* altered and the others not, it is refused (validateBackupArchive compares the
\* archive with itself only, so one made anew with its own checksums passes).
\* And as long as the tables hold nothing from such a one, a recorded archive is
\* on the disk, and a job that says it succeeded has its own export, recorded and
\* whole, although pg_restore replaced both rows (persistRestoredOutcome).
ArchivesSound ==
    /\ MaintenanceTypeOK
    /\ \A o \in Operators :
          /\ op[o].restores => op[o].upload = Pack(op[o].upload.dump.content)
          /\ (tables.own /\ o \in tables.known) => disk[o] # None
          /\ (tables.own /\ tables.jobs[o] = "succeeded") => (o \in tables.known /\ Valid(disk[o]))
=============================================================================
