-------------------------- MODULE ProviderAdapters --------------------------
(***************************************************************************)
(* The ten DNS providers behind one interface, DNSProviderClient: create,  *)
(* update, delete and find a record by its value.  Each adapter turns them *)
(* into calls of its provider's interface, which keeps one value per id    *)
(* (Cloudflare and most others) or all values of a name and type as one    *)
(* set (Route53, Google).                                                  *)
(*                                                                         *)
(* A worker is a goroutine of DNSOperationService running one operation on *)
(* one row.  pc[w] names its next call; a call may be refused, or applied  *)
(* with its answer lost.  An operation that fails in passing is tried      *)
(* again from its first call.  A delete looks its value up afterwards and  *)
(* deletes what it still finds.  All records here have the same name.      *)
(***************************************************************************)
EXTENDS Integers, FiniteSets

CONSTANTS
    Recs,        \* (type, value) pairs
    Txts,        \* those of type TXT; the others have type A
    Twins,       \* values that differ in upper and lower case only
    Workers,
    Attempts,    \* singleOperationAttempts
    MaxIds,      \* bound: ids the provider hands out
    MaxOps,      \* bound: operations started
    MaxFaults    \* bound: calls refused or answers lost

ASSUME ConstantsAssumption ==
    /\ IsFiniteSet(Recs) /\ "none" \notin Recs
    /\ Txts \subseteq Recs
    /\ Twins \subseteq Txts
    /\ Attempts \in Nat \ {0, 1}
    /\ {MaxIds, MaxOps, MaxFaults} \subseteq Nat
    /\ Cardinality(Recs) <= MaxIds

VARIABLES
    adapter,   \* which provider the domain's account names
    refuses,   \* whether that provider refuses a second copy of a record
    zone,      \* the provider's records: [id, recs], id 0 for a set without id
    nextId,
    held,      \* dns_records: record -> provider_record_id, NoHandle without a row
    pc, job,
    gone,      \* ghost: records whose last operation ended with them deleted
    unsure,    \* ghost: records whose last operation failed
    mishaps,   \* ghost: what the properties leave out and has happened
    ops, faults

provVars == <<zone, nextId>>
vars == <<adapter, refuses, zone, nextId, held, pc, job, gone, unsure, mishaps, ops, faults>>

Keyed == {"cloudflare", "dnspod", "aliyun", "huawei", "dns_com", "dnsla", "westcn", "baidu"}
Adapters == Keyed \cup {"route53", "google"}
Mishaps == {"blind", "collided", "stale", "silent", "guess", "torn", "misnamed",
            "mixed"}
Steps == {"idle", "check", "add", "recheck", "learn", "upsert", "read", "change",
          "update", "delete", "exists", "remove", "verify"}

SameType(r, s) == r \in Txts <=> s \in Txts
Alike(r, s) == r = s \/ {r, s} \subseteq Twins
Folded(S, r) == {s \in S : Alike(s, r)}

\* provider_record_id: a number, or (id 0) text made of the type and the value.
Id(n, r) == [id |-> n, rec |-> r]
Text(r) == Id(0, r)
Handles == [id : 0..MaxIds, rec : Recs]
NoHandle == [id |-> 0, rec |-> "none"]
NoJob == [op |-> "none", rec |-> "none", new |-> "none", handle |-> NoHandle,
          again |-> FALSE, tries |-> 0, seen |-> {}]

Served == UNION {e.recs : e \in zone}
SetOf(r) == {s \in Served : SameType(s, r)}
Rows == {r \in Recs : held[r] # NoHandle}
InHand == {job[w].rec : w \in {v \in Workers : pc[v] # "idle"}}
          \cup {job[w].new : w \in {v \in Workers : pc[v] # "idle"}}

Fault == faults < MaxFaults /\ faults' = faults + 1
Note(m) == mishaps' = mishaps \cup m
Same == UNCHANGED <<adapter, refuses>>

-----------------------------------------------------------------------------
\* What a provider does.

AddEntry(r) ==
    /\ nextId <= MaxIds
    /\ zone' = zone \cup {[id |-> nextId, recs |-> {r}]}
    /\ nextId' = nextId + 1

\* Replace the set of r's type.
PutSet(r, S) ==
    /\ zone' = {e \in zone : \A s \in e.recs : ~SameType(s, r)}
               \cup (IF S = {} THEN {} ELSE {[id |-> 0, recs |-> S]})
    /\ UNCHANGED nextId

Rewrite(n, r) ==
    /\ zone' = {[e EXCEPT !.recs = IF e.id = n THEN {r} ELSE @] : e \in zone}
    /\ UNCHANGED nextId

Erase(n) ==
    /\ zone' = {e \in zone : e.id # n}
    /\ UNCHANGED nextId

Nothing == UNCHANGED provVars

\* A call with its effect: it answers, or it fails before or after the effect.
Call(effect, ok, err) ==
    \/ /\ effect
       /\ ok
       /\ UNCHANGED faults
    \/ /\ Fault
       /\ effect \/ Nothing
       /\ err

-----------------------------------------------------------------------------
\* How an operation goes on.

Goto(w, step, j) ==
    /\ pc' = [pc EXCEPT ![w] = step]
    /\ job' = [job EXCEPT ![w] = j]
    /\ UNCHANGED <<held, gone, unsure>>

GoOn(w, step) == Goto(w, step, job[w])

First(op) == IF op = "create" THEN "check" ELSE op

Ends(w) ==
    /\ pc' = [pc EXCEPT ![w] = "idle"]
    /\ job' = [job EXCEPT ![w] = NoJob]

RowGone(w) ==
    LET r == job[w].rec IN
    /\ Ends(w)
    /\ held' = [held EXCEPT ![r] = NoHandle]
    /\ gone' = gone \cup {r}
    /\ unsure' = unsure \ {r}

\* The adapter answers: the row follows, a delete is verified first.
Answer(w, h) ==
    LET j == job[w] IN
    \/ /\ j.op = "create"
       /\ Ends(w)
       /\ held' = [held EXCEPT ![j.rec] = h]
       /\ unsure' = unsure \ {j.rec}
       /\ UNCHANGED gone
    \/ /\ j.op = "update"
       /\ Ends(w)
       /\ held' = [held EXCEPT ![j.rec] = NoHandle, ![j.new] = h]
       /\ gone' = gone \cup {j.rec}
       /\ unsure' = unsure \ {j.rec, j.new}
    \/ /\ j.op = "delete" /\ ~j.again
       /\ Goto(w, "verify", [j EXCEPT !.tries = Attempts])
    \/ /\ j.op = "delete" /\ j.again
       /\ RowGone(w)

GivesUpNoting(w, m) ==
    /\ Ends(w)
    /\ unsure' = unsure \cup {job[w].rec, job[w].new}
    /\ UNCHANGED <<held, gone>>
    /\ Note(m \cup IF job[w].op = "update" /\ job[w].tries < Attempts THEN {"torn"} ELSE {})

GivesUp(w) == GivesUpNoting(w, {})

\* An error in passing is tried again from the first call.
FailsFor(w, step, m) ==
    IF job[w].tries > 1
    THEN /\ Goto(w, step, [job[w] EXCEPT !.tries = @ - 1])
         /\ Note(m)
    ELSE GivesUpNoting(w, m)

Fails(w) == FailsFor(w, First(job[w].op), {})

Ok(w, h) == Answer(w, h) /\ UNCHANGED mishaps
To(w, step) == GoOn(w, step) /\ UNCHANGED mishaps

-----------------------------------------------------------------------------
\* FindRecord: the ids an adapter may give for a record that it finds.  Only
\* Cloudflare's compares values as they are written.

CloudflareFind(r) == {Id(e.id, r) : e \in {x \in zone : r \in x.recs}}

\* Mutant: A record of the type is found whatever its value.
FoldedFindAny(r) == {Id(e.id, r) : e \in {x \in zone : \E s \in x.recs : SameType(s, r)}}

FoldedFind(r) == {Id(e.id, r) : e \in {x \in zone : Folded(x.recs, r) # {}}}

\* The text names the value asked for, not the one that is served.
TextFind(r) == {Text(r) : s \in Folded(SetOf(r), r)}

Find(r) ==
    CASE adapter = "cloudflare" -> CloudflareFind(r)
      [] adapter \in Keyed \ {"cloudflare"} -> FoldedFind(r)
      [] OTHER -> TextFind(r)

\* ghost: the record found differs in case from the one looked for
Mistaken(h) == IF \E e \in zone : e.id = h.id /\ h.rec \in e.recs THEN {} ELSE {"mixed"}
Takes(w, h) == Answer(w, h) /\ Note(Mistaken(h))

-----------------------------------------------------------------------------
\* CreateRecord, for the providers with an id per record: look, add, look again
\* when adding fails.  Some end on a failed first look, the others add blindly.

\* Mutant: Every adapter adds after a failed look.
PreCheckLax(w, strict) ==
    LET found == Find(job[w].rec) IN
    /\ pc[w] = "check"
    /\ UNCHANGED provVars
    /\ \/ /\ found = {} /\ To(w, "add") /\ UNCHANGED faults
       \/ /\ \E h \in found : Takes(w, h)
          /\ UNCHANGED faults
       \/ /\ Fault
          /\ To(w, "add")

PreCheck(w, strict) ==
    LET found == Find(job[w].rec) IN
    /\ pc[w] = "check"
    /\ UNCHANGED provVars
    /\ \/ /\ found = {}
          /\ To(w, "add")
          /\ UNCHANGED faults
       \/ /\ \E h \in found : Takes(w, h)
          /\ UNCHANGED faults
       \/ /\ Fault
          /\ IF strict THEN Fails(w)
             ELSE GoOn(w, "add") /\ Note({"blind"})

\* refusal: the provider does not want this record now, and will not later.
Add(w, refusal, next) ==
    LET r == job[w].rec IN
    /\ pc[w] = "add"
    /\ \/ /\ refusal
          /\ Goto(w, "recheck", [job[w] EXCEPT !.tries = 1])
          /\ UNCHANGED <<provVars, mishaps, faults>>
       \/ /\ ~(refuses /\ r \in Served)
          /\ AddEntry(r)
          /\ IF next = "done" THEN Ok(w, Id(nextId, r)) ELSE To(w, next)
          /\ UNCHANGED faults
       \/ /\ Fault
          /\ Nothing \/ (~(refuses /\ r \in Served) /\ AddEntry(r))
          /\ To(w, "recheck")

Exists(w) == refuses /\ job[w].rec \in Served

Recheck(w) ==
    LET found == Find(job[w].rec) IN
    /\ pc[w] = "recheck"
    /\ UNCHANGED provVars
    /\ \/ /\ \E h \in found : Takes(w, h)
          /\ UNCHANGED faults
       \/ /\ found = {}
          /\ Fails(w)
          /\ UNCHANGED faults
       \/ /\ Fault
          /\ Fails(w)

CreateKeyed(w, strict) == PreCheck(w, strict) \/ Add(w, Exists(w), "done") \/ Recheck(w)

\* UpdateRecord by id: the provider may refuse a value it has already.
UpdateKeyed(w) ==
    LET j == job[w]
        known == \E e \in zone : e.id = held[j.rec].id
        taken == \E e \in zone : j.new \in e.recs /\ e.id # held[j.rec].id
    IN
    /\ pc[w] = "update"
    /\ \/ /\ ~known \/ (taken /\ refuses)
          /\ GivesUp(w)
          /\ UNCHANGED <<provVars, faults>>
       \/ /\ known /\ ~(taken /\ refuses)
          /\ Rewrite(held[j.rec].id, j.new)
          /\ Answer(w, held[j.rec])
          /\ Note(IF taken THEN {"collided"} ELSE {})
          /\ UNCHANGED faults
       \/ /\ Fault
          /\ \/ Nothing /\ Fails(w)
             \/ /\ known /\ ~(taken /\ refuses)
                /\ Rewrite(held[j.rec].id, j.new)
                /\ FailsFor(w, "update", IF taken THEN {"collided"} ELSE {})

\* DeleteRecord by id: an unknown id is a success.
DeleteKeyed(w) ==
    /\ pc[w] = "delete"
    /\ Call(Erase(job[w].handle.id), Ok(w, NoHandle), Fails(w))

\* Mutant: A delete is not verified.
VerifySkipped(w) ==
    /\ pc[w] = "verify"
    /\ RowGone(w)
    /\ UNCHANGED <<provVars, mishaps, faults>>

\* FindRecord after a delete, by value.
Verify(w) ==
    LET found == Find(job[w].rec) IN
    /\ pc[w] = "verify"
    /\ UNCHANGED provVars
    /\ \/ /\ found = {}
          /\ RowGone(w)
          /\ UNCHANGED <<mishaps, faults>>
       \/ /\ \E h \in found :
                /\ Goto(w, "delete", [job[w] EXCEPT !.handle = h, !.again = TRUE,
                                                    !.tries = Attempts])
                /\ Note(Mistaken(h))
          /\ UNCHANGED faults
       \/ /\ Fault
          /\ FailsFor(w, "verify", {})

-----------------------------------------------------------------------------
\* Cloudflare takes any failure to read a record for its absence.

CloudflareCreate(w) == CreateKeyed(w, TRUE)
CloudflareUpdate(w) == UpdateKeyed(w)

CloudflareDelete(w) ==
    \/ /\ pc[w] = "delete"
       /\ LET known == \E e \in zone : e.id = job[w].handle.id IN
          \/ /\ known
             /\ Call(Erase(job[w].handle.id), Ok(w, NoHandle), To(w, "exists"))
          \/ /\ ~known
             /\ To(w, "exists")
             /\ UNCHANGED <<provVars, faults>>
    \/ /\ pc[w] = "exists"
       /\ UNCHANGED provVars
       /\ IF \E e \in zone : e.id = job[w].handle.id
          THEN \/ Fails(w) /\ UNCHANGED faults
               \/ /\ Fault
                  /\ Answer(w, NoHandle)
                  /\ Note(IF job[w].again THEN {"guess"} ELSE {})
          ELSE Ok(w, NoHandle) /\ UNCHANGED faults
    \/ Verify(w)

DNSPodCreate(w) == CreateKeyed(w, TRUE)
DNSPodUpdate(w) == UpdateKeyed(w)
DNSPodDelete(w) == DeleteKeyed(w) \/ Verify(w)

AliyunCreate(w) == CreateKeyed(w, TRUE)
AliyunUpdate(w) == UpdateKeyed(w)
AliyunDelete(w) == DeleteKeyed(w) \/ Verify(w)

\* Huawei keeps recordsets; it may refuse a second one of a name and type.
HuaweiCreate(w) ==
    \/ PreCheck(w, TRUE)
    \/ Add(w, Exists(w) \/ SetOf(job[w].rec) # {}, "done")
    \/ Recheck(w)
HuaweiUpdate(w) == UpdateKeyed(w)
HuaweiDelete(w) == DeleteKeyed(w) \/ Verify(w)

DNSComCreate(w) == CreateKeyed(w, FALSE)
DNSComUpdate(w) == UpdateKeyed(w)
DNSComDelete(w) == DeleteKeyed(w) \/ Verify(w)

WestCNCreate(w) == CreateKeyed(w, FALSE)
WestCNUpdate(w) == UpdateKeyed(w)
WestCNDelete(w) == DeleteKeyed(w) \/ Verify(w)

\* DNSLA reports an error only when both the code and the HTTP status say so; a
\* refusal with one of them passes for an empty answer.
Silent(w) ==
    /\ Fault
    /\ UNCHANGED provVars
    /\ Note({"silent"})

DNSLACreate(w) ==
    \/ CreateKeyed(w, FALSE)
    \/ /\ pc[w] = "check"
       /\ Silent(w)
       /\ GoOn(w, "add")
    \/ /\ pc[w] \in {"add", "recheck"}
       /\ Silent(w)
       /\ Ends(w)
       /\ unsure' = unsure \cup {job[w].rec}
       /\ UNCHANGED <<held, gone>>

DNSLAUpdate(w) ==
    \/ UpdateKeyed(w)
    \/ /\ pc[w] = "update"
       /\ Silent(w)
       /\ Answer(w, held[job[w].rec])

DNSLADelete(w) ==
    \/ DeleteKeyed(w)
    \/ Verify(w)
    \/ /\ pc[w] = "delete"
       /\ Silent(w)
       /\ Answer(w, NoHandle)
    \/ /\ pc[w] = "verify"
       /\ Silent(w)
       /\ RowGone(w)

\* Baidu answers a creation without the id, which is looked up; failing that a
\* text stands for it.  Only a delete can make something of the text.
BaiduCreate(w) ==
    \/ PreCheck(w, FALSE)
    \/ Add(w, Exists(w), "learn")
    \/ Recheck(w)
    \/ /\ pc[w] = "learn"
       /\ UNCHANGED provVars
       /\ LET found == Find(job[w].rec) IN
          \/ /\ IF found = {} THEN Ok(w, Text(job[w].rec)) ELSE \E h \in found : Takes(w, h)
             /\ UNCHANGED faults
          \/ /\ Fault
             /\ Ok(w, Text(job[w].rec))

BaiduUpdate(w) == UpdateKeyed(w)

BaiduDelete(w) ==
    \/ /\ pc[w] = "delete" /\ job[w].handle.id = 0
       /\ UNCHANGED provVars
       /\ LET found == Find(job[w].handle.rec) IN
          \/ /\ IF found = {} THEN To(w, "remove")
                ELSE \E h \in found :
                        Goto(w, "remove", [job[w] EXCEPT !.handle = h]) /\ Note(Mistaken(h))
             /\ UNCHANGED faults
          \/ /\ Fault
             /\ To(w, "remove")
    \/ job[w].handle.id # 0 /\ DeleteKeyed(w)
    \/ /\ pc[w] = "remove"
       /\ Call(IF job[w].handle.id = 0 THEN Nothing ELSE Erase(job[w].handle.id),
               Ok(w, NoHandle), Fails(w))
    \/ Verify(w)

-----------------------------------------------------------------------------
\* Route53 keeps one set per type.  A set that exists already is replaced by the
\* one value; a delete removes the set, found by name from the type on.

Route53Create(w) ==
    LET r == job[w].rec IN
    \/ PreCheck(w, FALSE)
    \/ /\ pc[w] = "add"
       /\ IF SetOf(r) = {}
          THEN Call(PutSet(r, {r}), Ok(w, Text(r)), Fails(w))
          ELSE \/ To(w, "upsert") /\ UNCHANGED <<provVars, faults>>
               \/ Fault /\ Fails(w) /\ UNCHANGED provVars
    \/ /\ pc[w] = "upsert"
       /\ Call(PutSet(r, {r}), Ok(w, Text(r)), Fails(w))

Route53Update(w) ==
    /\ pc[w] = "update"
    /\ Call(PutSet(job[w].new, {job[w].new}), Ok(w, held[job[w].rec]), Fails(w))

\* The listing starts at the type wanted: without it the next type's set is taken.
Listed(r) == IF SetOf(r) = {} /\ r \notin Txts THEN Served \cap Txts ELSE SetOf(r)

Route53Delete(w) ==
    LET seen == job[w].seen IN
    \/ /\ pc[w] = "delete"
       /\ UNCHANGED provVars
       /\ LET listed == Listed(job[w].handle.rec) IN
          \/ /\ IF listed = {} THEN Ok(w, NoHandle)
                ELSE Goto(w, "change", [job[w] EXCEPT !.seen = listed]) /\ UNCHANGED mishaps
             /\ UNCHANGED faults
          \/ Fault /\ Fails(w)
    \/ /\ pc[w] = "change"
       /\ \E s \in seen :
             \/ /\ SetOf(s) = seen
                /\ Call(PutSet(s, {}), Ok(w, NoHandle), Fails(w))
             \/ /\ SetOf(s) # seen
                /\ IF SetOf(s) = {} THEN Ok(w, NoHandle) ELSE GivesUp(w)
                /\ UNCHANGED <<provVars, faults>>
    \/ Verify(w)

-----------------------------------------------------------------------------
\* Google keeps one set per type and changes it by naming the set that was read:
\* a change of another set is refused.

\* Mutant: Google's changes do not name the set that was read.
ChangeBlind(w, S, ok, none) ==
    /\ pc[w] = "change"
    /\ Call(PutSet(job[w].rec, S), ok, Fails(w))

Change(w, S, ok, none) ==
    LET r == job[w].rec
        seen == job[w].seen
    IN
    /\ pc[w] = "change"
    /\ \/ /\ SetOf(r) = seen
          /\ Call(PutSet(r, S), ok, Fails(w))
       \/ /\ SetOf(r) # seen
          /\ IF SetOf(r) = {} THEN none ELSE GivesUp(w)
          /\ UNCHANGED <<provVars, faults>>

ReadFirst(w, step, none) ==
    LET set == SetOf(job[w].rec) IN
    /\ pc[w] = step
    /\ UNCHANGED provVars
    /\ \/ /\ IF set = {} THEN none
             ELSE Goto(w, "change", [job[w] EXCEPT !.seen = set]) /\ UNCHANGED mishaps
          /\ UNCHANGED faults
       \/ /\ Fault
          /\ Fails(w)

GoogleCreate(w) ==
    LET r == job[w].rec IN
    \/ PreCheck(w, FALSE)
    \/ /\ pc[w] = "add"
       /\ \/ /\ Goto(w, "change", [job[w] EXCEPT !.seen = SetOf(r)])
             /\ UNCHANGED faults
          \/ /\ Fault
             /\ Goto(w, "change", [job[w] EXCEPT !.seen = {}])
       /\ UNCHANGED <<provVars, mishaps>>
    \/ /\ job[w].op = "create"
       /\ pc[w] = "change" /\ job[w].seen = {} /\ SetOf(r) # {}
       /\ Goto(w, "recheck", [job[w] EXCEPT !.tries = 1])
       /\ UNCHANGED <<provVars, mishaps, faults>>
    \/ /\ job[w].op = "create"
       /\ job[w].seen # {} \/ SetOf(r) = {}
       /\ Change(w, job[w].seen \cup {r}, Ok(w, Text(r)), GivesUp(w))
    \/ Recheck(w)

\* The value to replace is the one in the id, which an update leaves as it was.
GoogleUpdate(w) ==
    LET j == job[w]
        named == held[j.rec].rec
        old == Folded(j.seen, named)
        stale == IF named = j.rec THEN {} ELSE {"stale"}
        mixed(s) == IF s = named THEN {} ELSE {"mixed"}
    IN
    \/ ReadFirst(w, "update", GivesUp(w))
    \/ /\ j.op = "update"
       /\ \/ /\ old = {}
             /\ Change(w, j.seen \cup {j.new}, Answer(w, held[j.rec]) /\ Note(stale), GivesUp(w))
          \/ \E s \in old :
                Change(w, (j.seen \ {s}) \cup {j.new},
                       Answer(w, held[j.rec]) /\ Note(stale \cup mixed(s)), GivesUp(w))

\* The last value of a set is deleted whatever the id says.
GoogleDelete(w) ==
    LET j == job[w]
        meant == Folded(j.seen, j.handle.rec)
        misnamed == IF j.handle.rec = j.rec THEN {} ELSE {"misnamed"}
        mixed == IF meant \subseteq {j.handle.rec} THEN {} ELSE {"mixed"}
    IN
    \/ ReadFirst(w, "delete", Ok(w, NoHandle))
    \/ /\ j.op = "delete"
       /\ Change(w, IF Cardinality(j.seen) > 1 THEN j.seen \ meant ELSE {},
                 Answer(w, NoHandle) /\ Note(misnamed \cup mixed), Ok(w, NoHandle))
    \/ Verify(w)

-----------------------------------------------------------------------------
\* BuildProviderClient: the account's provider decides who makes the calls.

Creates(w) ==
    CASE adapter = "cloudflare" -> CloudflareCreate(w)
      [] adapter = "dnspod" -> DNSPodCreate(w)
      [] adapter = "aliyun" -> AliyunCreate(w)
      [] adapter = "huawei" -> HuaweiCreate(w)
      [] adapter = "route53" -> Route53Create(w)
      [] adapter = "google" -> GoogleCreate(w)
      [] adapter = "baidu" -> BaiduCreate(w)
      [] adapter = "dns_com" -> DNSComCreate(w)
      [] adapter = "dnsla" -> DNSLACreate(w)
      [] adapter = "westcn" -> WestCNCreate(w)

Updates(w) ==
    CASE adapter = "cloudflare" -> CloudflareUpdate(w)
      [] adapter = "dnspod" -> DNSPodUpdate(w)
      [] adapter = "aliyun" -> AliyunUpdate(w)
      [] adapter = "huawei" -> HuaweiUpdate(w)
      [] adapter = "route53" -> Route53Update(w)
      [] adapter = "google" -> GoogleUpdate(w)
      [] adapter = "baidu" -> BaiduUpdate(w)
      [] adapter = "dns_com" -> DNSComUpdate(w)
      [] adapter = "dnsla" -> DNSLAUpdate(w)
      [] adapter = "westcn" -> WestCNUpdate(w)

Deletes(w) ==
    CASE adapter = "cloudflare" -> CloudflareDelete(w)
      [] adapter = "dnspod" -> DNSPodDelete(w)
      [] adapter = "aliyun" -> AliyunDelete(w)
      [] adapter = "huawei" -> HuaweiDelete(w)
      [] adapter = "route53" -> Route53Delete(w)
      [] adapter = "google" -> GoogleDelete(w)
      [] adapter = "baidu" -> BaiduDelete(w)
      [] adapter = "dns_com" -> DNSComDelete(w)
      [] adapter = "dnsla" -> DNSLADelete(w)
      [] adapter = "westcn" -> WestCNDelete(w)

Calls(w) ==
    /\ pc[w] # "idle"
    /\ \/ job[w].op = "create" /\ Creates(w)
       \/ job[w].op = "update" /\ Updates(w)
       \/ job[w].op = "delete" /\ Deletes(w)
    /\ UNCHANGED ops
    /\ Same

\* An operation begins on a record that no other worker has in hand.
Begin(w, op, r, new) ==
    /\ pc[w] = "idle"
    /\ {r, new} \cap InHand = {}
    /\ ops < MaxOps
    /\ ops' = ops + 1
    /\ pc' = [pc EXCEPT ![w] = First(op)]
    /\ job' = [job EXCEPT ![w] = [op |-> op, rec |-> r, new |-> new, handle |-> held[r],
                                  again |-> FALSE, tries |-> Attempts, seen |-> {}]]
    /\ gone' = gone \ {r, new}
    /\ UNCHANGED <<provVars, held, unsure, mishaps, faults>>
    /\ Same

CreateRecord(w) == \E r \in Recs \ Rows : Begin(w, "create", r, r)

UpdateRecord(w) == \E r \in Rows : \E new \in Recs \ Rows :
    SameType(r, new) /\ Begin(w, "update", r, new)

DeleteRecord(w) == \E r \in Rows : Begin(w, "delete", r, r)

\* Rows created earlier, with nothing in between.
Init ==
    /\ adapter \in Adapters
    /\ refuses \in BOOLEAN
    /\ \E S \in SUBSET Recs :
       \E f \in [S -> 1..Cardinality(S)] :
          /\ \A r, s \in S : r # s => f[r] # f[s]
          /\ (adapter = "route53" => \A r, s \in S : SameType(r, s) => r = s)
          /\ \A r, s \in S : Alike(r, s) => r = s
          /\ zone = IF adapter \in Keyed THEN {[id |-> f[r], recs |-> {r}] : r \in S}
                    ELSE {[id |-> 0, recs |-> {s \in S : SameType(r, s)}] : r \in S}
          /\ held = [r \in Recs |-> IF r \notin S THEN NoHandle
                                    ELSE IF adapter \in Keyed THEN Id(f[r], r) ELSE Text(r)]
          /\ nextId = Cardinality(S) + 1
    /\ pc = [w \in Workers |-> "idle"]
    /\ job = [w \in Workers |-> NoJob]
    /\ gone = {}
    /\ unsure = {}
    /\ mishaps = {}
    /\ ops = 0
    /\ faults = 0

Next == \E w \in Workers : CreateRecord(w) \/ UpdateRecord(w) \/ DeleteRecord(w) \/ Calls(w)

Spec == Init /\ [][Next]_vars

-----------------------------------------------------------------------------
\* Every variable has its type: in particular the provider keeps no empty set,
\* and no two records share an id.
TypeOK ==
    /\ adapter \in Adapters
    /\ \A e \in zone : e.id \in 0..MaxIds /\ e.recs \subseteq Recs /\ e.recs # {}
    /\ \A e, f \in zone : e # f => e.id # f.id \/ \A r \in e.recs, s \in f.recs : ~SameType(r, s)
    /\ nextId \in 1..(MaxIds + 1)
    /\ held \in [Recs -> Handles \cup {NoHandle}]
    /\ pc \in [Workers -> Steps]
    /\ gone \subseteq Recs
    /\ unsure \subseteq Recs
    /\ mishaps \subseteq Mishaps
    /\ ops \in 0..MaxOps
    /\ faults \in 0..MaxFaults

\* A creation tried again after a lost answer adds no second copy, even when the
\* provider would keep one: the adapters look for the record before they add it
\* (cloudflare.go:116).  Left out are the adapters that add after a failed look
\* (blind), once they have done so, and an update onto a value that is served.
OneCopy ==
    /\ TypeOK
    /\ {"blind", "collided", "silent"} \cap mishaps = {} =>
          \A r \in Recs : Cardinality({e \in zone : r \in e.recs}) <= 1

\* A record whose delete (or replacement) was reported is not served: whatever
\* answers were lost, the value is looked up again after the delete
\* (dns_operation_service.go:589).  Left out are the mishaps that defeat it, and values
\* that differ in case only, one of which is found for the other.
GoneIsGone ==
    {"blind", "collided", "silent", "stale", "guess"} \cap mishaps = {} =>
        \A r \in gone : r \in Served => r \in Twins /\ adapter # "cloudflare"

\* An operation on one record leaves the others served, whoever runs at the same
\* time.  Route53 does not promise it (one value per type), nor does Google after
\* a lost answer (the repeated delete takes the last value) or once a row's id that
\* names the value from before an update was used (stale, misnamed), nor anyone but
\* Cloudflare once a value was taken for one that differs in case only (mixed).
OthersServed ==
    /\ adapter # "route53"
    /\ adapter = "google" => faults = 0
    /\ {"torn", "silent", "stale", "misnamed", "mixed"} \cap mishaps = {}
    => Rows \ (InHand \cup unsure) \subseteq Served

=============================================================================
