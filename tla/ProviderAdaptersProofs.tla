----------------------- MODULE ProviderAdaptersProofs -----------------------
(***************************************************************************)
(* Machine-checked proofs about ProviderAdapters, for every set of records *)
(* of a name, every number of workers, attempts, operations and faults.    *)
(***************************************************************************)
EXTENDS ProviderAdapters, FiniteSetTheorems, TLAPS

JobType == [op : {"none", "create", "update", "delete"}, rec : Recs \cup {"none"},
            new : Recs \cup {"none"}, handle : Handles \cup {NoHandle}, again : BOOLEAN,
            tries : 0..Attempts, seen : SUBSET Recs]

-----------------------------------------------------------------------------
\* What holds whatever goes wrong.

Entries == [id : 0..MaxIds, recs : SUBSET Recs]

\* One value per id, or one set per type.
ZoneOK ==
    /\ zone \subseteq Entries
    /\ adapter \in Keyed =>
          /\ \A e \in zone : e.id # 0 /\ e.id < nextId /\ \E r \in Recs : e.recs = {r}
          /\ \A e, f \in zone : e.id = f.id => e = f
    /\ adapter \notin Keyed =>
          /\ \A e \in zone : e.id = 0 /\ e.recs # {}
          /\ \A e, f \in zone, r, s \in Recs :
                r \in e.recs /\ s \in f.recs => (SameType(r, s) <=> e = f)

\* A worker has its own values in hand, one of them a row unless it creates.
HandOK(w) ==
    pc[w] # "idle" =>
        /\ job[w].op # "none" /\ job[w].rec \in Recs /\ job[w].new \in Recs
        /\ job[w].rec \notin gone /\ job[w].new \notin gone
        /\ held[job[w].rec] = NoHandle <=> job[w].op = "create"
        /\ job[w].op = "update" =>
              held[job[w].new] = NoHandle /\ SameType(job[w].rec, job[w].new)
        /\ job[w].op # "update" => job[w].new = job[w].rec

Hands(w) == {job[w].rec, job[w].new}

HandsApart ==
    \A v, w \in Workers :
        v # w /\ pc[v] # "idle" /\ pc[w] # "idle" => Hands(v) \cap Hands(w) = {}

\* No id is named before the provider gave it.
IdsOK ==
    adapter \in Keyed =>
        /\ \A r \in Recs : held[r].id < nextId
        /\ \A w \in Workers : job[w].handle.id < nextId

Typed ==
    /\ adapter \in Adapters
    /\ nextId \in 1..(MaxIds + 1)
    /\ held \in [Recs -> Handles \cup {NoHandle}]
    /\ pc \in [Workers -> Steps]
    /\ job \in [Workers -> JobType]
    /\ gone \subseteq Recs /\ unsure \subseteq Recs
    /\ mishaps \subseteq Mishaps
    /\ ops \in 0..MaxOps /\ faults \in 0..MaxFaults

Base ==
    /\ Typed /\ ZoneOK /\ IdsOK /\ HandsApart
    /\ \A w \in Workers : HandOK(w)
    /\ \A r \in gone : held[r] = NoHandle

-----------------------------------------------------------------------------
\* What the properties need, as long as their mishaps have not happened.

\* Where a record is added it was looked for, and was not there.
CopiesOK ==
    adapter \in Keyed /\ {"blind", "collided", "silent"} \cap mishaps = {} =>
        /\ \A e, f \in zone : e.recs = f.recs => e = f
        /\ \A w \in Workers : pc[w] = "add" => job[w].rec \notin Served

Plain(r) == r \notin Twins \/ adapter = "cloudflare"

\* What a row names is the only copy, and so is what a repeated delete names.
GoneOK ==
    {"blind", "collided", "silent", "stale", "guess"} \cap mishaps = {} =>
        /\ \A r \in gone : Plain(r) => r \notin Served
        /\ adapter \in Keyed => \A r \in Recs, e \in zone :
              Plain(r) /\ held[r] # NoHandle /\ r \in e.recs => held[r].id \in {0, e.id}
        /\ \A w \in Workers : pc[w] # "idle" /\ job[w].op = "delete" /\ job[w].again =>
              /\ job[w].handle.rec = job[w].rec
              /\ adapter \in Keyed =>
                    /\ job[w].handle.id # 0
                    /\ \A e \in zone : Plain(job[w].rec) /\ job[w].rec \in e.recs =>
                                           e.id = job[w].handle.id
              /\ adapter = "route53" /\ pc[w] = "change" =>
                    job[w].rec \notin Served \/ \A s \in job[w].seen : SameType(s, job[w].rec)

Quiet == {"torn", "silent", "stale", "misnamed", "mixed"} \cap mishaps = {}

\* An id names the value of its row, or what an update has written there already.
RowNames(r, e) ==
    \/ e.recs = {r}
    \/ \E w \in Workers : /\ pc[w] # "idle" /\ job[w].op = "update" /\ job[w].rec = r
                          /\ job[w].tries < Attempts /\ e.recs = {job[w].new}

KeyedOK ==
    adapter \in Keyed /\ Quiet =>
        /\ Rows \ (InHand \cup unsure) \subseteq Served
        /\ \A r \in Recs : held[r] # NoHandle =>
              /\ \A e \in zone : e.id = held[r].id => RowNames(r, e)
              /\ held[r].id = 0 => held[r].rec = r
        /\ \A w \in Workers : pc[w] # "idle" /\ job[w].op = "delete" =>
              /\ \A e \in zone : e.id = job[w].handle.id => e.recs = {job[w].rec}
              /\ job[w].handle.id = 0 => job[w].handle.rec = job[w].rec
        /\ \A w \in Workers : pc[w] = "learn" => job[w].rec \in Served

\* Google, as long as every call is answered: a row is served but for the one that a
\* worker has just deleted.
GoogleOK ==
    adapter = "google" /\ faults = 0 /\ Quiet =>
        \A r \in Recs : held[r] # NoHandle =>
            r \in Served \/ \E w \in Workers : pc[w] = "verify" /\ job[w].rec = r

IInv == Base /\ CopiesOK /\ GoneOK /\ KeyedOK /\ GoogleOK

-----------------------------------------------------------------------------
\* Handles, and what the properties follow from.

LEMMA HandleFacts ==
    /\ NoHandle \notin Handles /\ NoHandle.id = 0 /\ NoHandle.rec \notin Recs
    /\ \A n \in 0..MaxIds, r \in Recs :
          Id(n, r) \in Handles /\ Id(n, r).id = n /\ Id(n, r).rec = r
    /\ \A r \in Recs : Text(r) \in Handles /\ Text(r).id = 0 /\ Text(r).rec = r
    /\ \A h \in Handles \cup {NoHandle} : h.id \in 0..MaxIds
    /\ \A h \in Handles : h.rec \in Recs
BY ConstantsAssumption DEF Handles, NoHandle, Id, Text

LEMMA AtMostOne ==
    ASSUME NEW S, \A x, y \in S : x = y
    PROVE  Cardinality(S) <= 1
<1>1. CASE S = {}
  BY <1>1, FS_EmptySet
<1>2. CASE S # {}
  <2>1. PICK x \in S : TRUE
    BY <1>2
  <2>2. S = {x}
    BY <2>1
  <2> QED
    BY <2>2, FS_Singleton
<1> QED
  BY <1>1, <1>2

LEMMA BaseTypes == Base => TypeOK
<1> SUFFICES ASSUME Base PROVE TypeOK
  OBVIOUS
<1>1. \A e \in zone : e.id \in 0..MaxIds /\ e.recs \subseteq Recs /\ e.recs # {}
  BY DEF Base, Typed, ZoneOK, Entries, Adapters
<1>2. \A e, f \in zone : e # f => e.id # f.id \/ \A r \in e.recs, s \in f.recs : ~SameType(r, s)
  BY <1>1 DEF Base, ZoneOK
<1> QED
  BY <1>1, <1>2 DEF Base, Typed, TypeOK

LEMMA CopiesAreOne == Base /\ CopiesOK => OneCopy
<1> SUFFICES ASSUME Base, CopiesOK PROVE OneCopy
  OBVIOUS
<1>1. ASSUME {"blind", "collided", "silent"} \cap mishaps = {}, NEW r \in Recs
      PROVE  Cardinality({e \in zone : r \in e.recs}) <= 1
  <2>1. ASSUME NEW e \in zone, NEW f \in zone, r \in e.recs, r \in f.recs
        PROVE  e = f
    <3>1. CASE adapter \in Keyed
      <4>1. e.recs = {r} /\ f.recs = {r}
        BY <2>1, <3>1 DEF Base, ZoneOK
      <4> QED
        BY <1>1, <3>1, <4>1 DEF CopiesOK
    <3>2. CASE adapter \notin Keyed
      BY <2>1, <3>2 DEF Base, ZoneOK, SameType
    <3> QED
      BY <3>1, <3>2
  <2> QED
    BY <2>1, AtMostOne
<1> QED
  BY <1>1, BaseTypes DEF OneCopy

LEMMA IInvImplies == IInv => OneCopy /\ GoneIsGone /\ OthersServed
<1> SUFFICES ASSUME IInv PROVE OneCopy /\ GoneIsGone /\ OthersServed
  OBVIOUS
<1>1. OneCopy
  BY CopiesAreOne DEF IInv
<1>2. GoneIsGone
  BY DEF IInv, GoneOK, GoneIsGone, Plain
<1>3. OthersServed
  <2> SUFFICES ASSUME adapter # "route53", adapter = "google" => faults = 0, Quiet,
                      NEW r \in Rows \ (InHand \cup unsure)
               PROVE  r \in Served
    BY DEF OthersServed, Quiet
  <2>1. CASE adapter \in Keyed
    BY <2>1 DEF IInv, KeyedOK
  <2>2. CASE adapter = "google"
    <3>1. \A w \in Workers : pc[w] = "verify" => job[w].rec # r
      BY DEF InHand
    <3> QED
      BY <2>2, <3>1 DEF IInv, GoogleOK, Rows
  <2> QED
    BY <2>1, <2>2 DEF IInv, Base, Typed, Adapters
<1> QED
  BY <1>1, <1>2, <1>3

-----------------------------------------------------------------------------
\* The first state.

LEMMA IInvInit == Init => IInv
<1> SUFFICES ASSUME Init PROVE IInv
  OBVIOUS
<1> DEFINE Start(S, f) ==
          /\ \A r, s \in S : r # s => f[r] # f[s]
          /\ zone = IF adapter \in Keyed THEN {[id |-> f[r], recs |-> {r}] : r \in S}
                    ELSE {[id |-> 0, recs |-> {s \in S : SameType(r, s)}] : r \in S}
          /\ held = [r \in Recs |-> IF r \notin S THEN NoHandle
                                    ELSE IF adapter \in Keyed THEN Id(f[r], r) ELSE Text(r)]
          /\ nextId = Cardinality(S) + 1
<1>0. PICK S \in SUBSET Recs : \E f \in [S -> 1..Cardinality(S)] : Start(S, f)
  BY DEF Init
<1>1. PICK f \in [S -> 1..Cardinality(S)] :
          /\ \A r, s \in S : r # s => f[r] # f[s]
          /\ zone = IF adapter \in Keyed THEN {[id |-> f[r], recs |-> {r}] : r \in S}
                    ELSE {[id |-> 0, recs |-> {s \in S : SameType(r, s)}] : r \in S}
          /\ held = [r \in Recs |-> IF r \notin S THEN NoHandle
                                    ELSE IF adapter \in Keyed THEN Id(f[r], r) ELSE Text(r)]
          /\ nextId = Cardinality(S) + 1
  BY <1>0
<1>2. /\ IsFiniteSet(S) /\ Cardinality(S) \in 0..MaxIds
      /\ \A r \in S : f[r] \in 1..Cardinality(S) /\ f[r] \in 0..MaxIds /\ f[r] < nextId /\ f[r] # 0
  <2>1. IsFiniteSet(S) /\ Cardinality(S) <= Cardinality(Recs)
    BY FS_Subset, ConstantsAssumption
  <2>2. Cardinality(S) \in Nat /\ Cardinality(Recs) \in Nat
    BY <2>1, FS_CardinalityType, ConstantsAssumption
  <2>3. \A r \in S : f[r] \in 1..Cardinality(S)
    OBVIOUS
  <2> QED
    BY <1>1, <2>1, <2>2, <2>3, ConstantsAssumption
<1>3. /\ adapter \in Adapters /\ pc = [w \in Workers |-> "idle"] /\ job = [w \in Workers |-> NoJob]
      /\ gone = {} /\ unsure = {} /\ mishaps = {} /\ ops = 0 /\ faults = 0
  BY DEF Init
<1>4. /\ held \in [Recs -> Handles \cup {NoHandle}]
      /\ \A r \in Recs : held[r] # NoHandle <=> r \in S
      /\ \A r \in S : held[r].rec = r /\ held[r].id = IF adapter \in Keyed THEN f[r] ELSE 0
  BY <1>1, <1>2, HandleFacts
<1>5. Typed
  <2>1. NoJob \in JobType
    BY ConstantsAssumption DEF NoJob, JobType
  <2> QED
    BY <1>1, <1>2, <1>3, <1>4, <2>1, ConstantsAssumption DEF Typed, Steps
<1>6. ASSUME adapter \in Keyed
       PROVE  /\ \A e \in zone : \E r \in S : e = [id |-> f[r], recs |-> {r}]
              /\ \A r \in S : [id |-> f[r], recs |-> {r}] \in zone
  <2>1. zone = {[id |-> f[r], recs |-> {r}] : r \in S}
    BY <1>1, <1>6
  <2> QED
    BY <2>1
<1>7. ZoneOK
  <2>1. CASE adapter \in Keyed
    <3>1. ASSUME NEW e \in zone
          PROVE  e \in Entries /\ e.id # 0 /\ e.id < nextId /\ \E r \in Recs : e.recs = {r}
      <4>1. PICK r \in S : e = [id |-> f[r], recs |-> {r}]
        BY <1>6, <2>1
      <4> QED
        BY <1>2, <4>1 DEF Entries
    <3>2. ASSUME NEW e \in zone, NEW g \in zone, e.id = g.id PROVE e = g
      <4>1. PICK r \in S : e = [id |-> f[r], recs |-> {r}]
        BY <1>6, <2>1
      <4>2. PICK s \in S : g = [id |-> f[s], recs |-> {s}]
        BY <1>6, <2>1
      <4> QED
        BY <1>1, <3>2, <4>1, <4>2
    <3> QED
      BY <2>1, <3>1, <3>2 DEF ZoneOK
  <2>2. CASE adapter \notin Keyed
    <3>1. /\ zone = {[id |-> 0, recs |-> {s \in S : SameType(r, s)}] : r \in S}
          /\ 0 \in 0..MaxIds
      BY <1>1, <2>2, ConstantsAssumption
    <3>2. zone \subseteq Entries /\ \A e \in zone : e.id = 0 /\ e.recs # {}
      BY <3>1 DEF Entries, SameType
    <3>3. ASSUME NEW e \in zone, NEW g \in zone, NEW r \in Recs, NEW s \in Recs,
                 r \in e.recs, s \in g.recs
          PROVE  SameType(r, s) <=> e = g
      <4>1. PICK x \in S : e = [id |-> 0, recs |-> {y \in S : SameType(x, y)}]
        BY <3>1
      <4>2. PICK z \in S : g = [id |-> 0, recs |-> {y \in S : SameType(z, y)}]
        BY <3>1
      <4>3. SameType(x, r) /\ SameType(z, s)
        BY <3>3, <4>1, <4>2
      <4>4. CASE SameType(r, s)
        <5>1. \A y \in S : SameType(x, y) <=> SameType(z, y)
          BY <4>3, <4>4 DEF SameType
        <5> QED
          BY <4>1, <4>2, <4>4, <5>1
      <4>5. CASE e = g
        <5>1. SameType(x, s)
          BY <3>3, <4>1, <4>5
        <5> QED
          BY <4>3, <4>5, <5>1 DEF SameType
      <4> QED
        BY <4>4, <4>5
    <3> QED
      BY <2>2, <3>2, <3>3 DEF ZoneOK
  <2> QED
    BY <2>1, <2>2
<1>8. Base
  <2>1. IdsOK
    BY <1>1, <1>2, <1>3, <1>4, HandleFacts DEF IdsOK, NoJob
  <2> QED
    BY <1>3, <1>5, <1>7, <2>1 DEF Base, HandsApart, HandOK
<1>9. \A r \in S : r \in Served
  <2>1. CASE adapter \in Keyed
    <3>1. \A r \in S : r \in [id |-> f[r], recs |-> {r}].recs
      OBVIOUS
    <3> QED
      BY <1>6, <2>1, <3>1 DEF Served
  <2>2. CASE adapter \notin Keyed
    <3>1. \A r \in S : [id |-> 0, recs |-> {s \in S : SameType(r, s)}] \in zone
      BY <1>1, <2>2
    <3>2. \A r \in S : r \in [id |-> 0, recs |-> {s \in S : SameType(r, s)}].recs
      BY DEF SameType
    <3> QED
      BY <3>1, <3>2 DEF Served
  <2> QED
    BY <2>1, <2>2
<1>10. adapter \in Keyed => \A e \in zone : \E r \in S : e.recs = {r} /\ e.id = held[r].id
  BY <1>4, <1>6
<1>11. adapter \in Keyed => \A e, g \in zone : e.recs = g.recs => e = g
  <2> SUFFICES ASSUME adapter \in Keyed, NEW e \in zone, NEW g \in zone, e.recs = g.recs
               PROVE  e = g
    OBVIOUS
  <2>1. PICK r \in S : e = [id |-> f[r], recs |-> {r}]
    BY <1>6
  <2>2. PICK s \in S : g = [id |-> f[s], recs |-> {s}]
    BY <1>6
  <2> QED
    BY <2>1, <2>2
<1>12. CopiesOK
  BY <1>3, <1>11 DEF CopiesOK
<1>13. GoneOK
  BY <1>3, <1>4, <1>10 DEF GoneOK, NoJob
<1>14. KeyedOK
  <2> SUFFICES ASSUME adapter \in Keyed PROVE KeyedOK
    BY DEF KeyedOK
  <2>1. ASSUME NEW r \in S, NEW e \in zone, e.id = held[r].id PROVE e.recs = {r}
    <3>1. PICK s \in S : e = [id |-> f[s], recs |-> {s}]
      BY <1>6
    <3>2. f[s] = f[r]
      BY <1>4, <2>1, <3>1
    <3> QED
      BY <1>1, <3>1, <3>2
  <2>2. \A r \in S : held[r].id # 0
    BY <1>2, <1>4
  <2> QED
    BY <1>3, <1>4, <1>9, <2>1, <2>2 DEF KeyedOK, RowNames, Rows, NoJob
<1>15. GoogleOK
  BY <1>4, <1>9 DEF GoogleOK
<1> QED
  BY <1>8, <1>12, <1>13, <1>14, <1>15 DEF IInv

-----------------------------------------------------------------------------
\* What a call does to the provider's records.

LEMMA AddZone ==
    ASSUME Base, adapter \in Keyed, adapter' = adapter, NEW r \in Recs, AddEntry(r)
    PROVE  /\ ZoneOK' /\ nextId' \in 1..(MaxIds + 1) /\ nextId <= nextId' /\ nextId < nextId'
           /\ nextId \in 0..MaxIds
           /\ zone' = zone \cup {[id |-> nextId, recs |-> {r}]}
           /\ \A e \in zone : e.id < nextId
           /\ Served' = Served \cup {r}
<1> DEFINE new == [id |-> nextId, recs |-> {r}]
<1>1. /\ zone' = zone \cup {new} /\ nextId' = nextId + 1
      /\ nextId \in 1..(MaxIds + 1) /\ nextId <= MaxIds /\ MaxIds \in Nat
  BY ConstantsAssumption DEF AddEntry, Base, Typed
<1>2. new \in Entries /\ new.id = nextId /\ new.recs = {r} /\ new.id # 0
  BY <1>1 DEF Entries
<1> HIDE DEF new
<1>3. /\ \A e \in zone : e \in Entries /\ e.id \in Nat /\ e.id # 0 /\ e.id < nextId
      /\ \A e \in zone : \E s \in Recs : e.recs = {s}
      /\ \A e, f \in zone : e.id = f.id => e = f
  BY ConstantsAssumption DEF Base, ZoneOK, Entries
<1>4. ZoneOK'
  <2>1. zone' \subseteq Entries
    BY <1>1, <1>2, <1>3
  <2>2. \A e \in zone' : e.id # 0 /\ e.id < nextId' /\ \E s \in Recs : e.recs = {s}
    BY <1>1, <1>2, <1>3
  <2>3. \A e, f \in zone' : e.id = f.id => e = f
    BY <1>1, <1>2, <1>3
  <2> QED
    BY <2>1, <2>2, <2>3 DEF ZoneOK, Entries
<1>5. Served' = Served \cup {r}
  BY <1>1, <1>2 DEF Served
<1> QED
  BY <1>1, <1>3, <1>4, <1>5 DEF new

LEMMA RewriteZone ==
    ASSUME Base, adapter \in Keyed, adapter' = adapter, NEW r \in Recs, NEW n, Rewrite(n, r)
    PROVE  /\ ZoneOK' /\ nextId' = nextId
           /\ \A f \in zone' : \E e \in zone :
                 f.id = e.id /\ (e.id = n => f.recs = {r}) /\ (e.id # n => f.recs = e.recs)
           /\ \A e \in zone : \E f \in zone' :
                 f.id = e.id /\ (e.id = n => f.recs = {r}) /\ (e.id # n => f.recs = e.recs)
           /\ Served' \subseteq Served \cup {r}
<1> DEFINE New(e) == [e EXCEPT !.recs = IF e.id = n THEN {r} ELSE @]
<1>1. zone' = {New(e) : e \in zone} /\ nextId' = nextId
  BY DEF Rewrite
<1>2. /\ \A e \in zone : e \in Entries /\ e.id # 0 /\ e.id < nextId
      /\ \A e \in zone : \E s \in Recs : e.recs = {s}
      /\ \A e, f \in zone : e.id = f.id => e = f
  BY DEF Base, ZoneOK
<1>3. ASSUME NEW e \in zone
      PROVE  /\ New(e) \in Entries /\ New(e).id = e.id
             /\ New(e).recs = IF e.id = n THEN {r} ELSE e.recs
  BY <1>2 DEF Entries
<1> HIDE DEF New
<1>4. \A f \in zone' : \E e \in zone : f = New(e)
  BY <1>1
<1>5. /\ \A f \in zone' : \E e \in zone :
            f.id = e.id /\ (e.id = n => f.recs = {r}) /\ (e.id # n => f.recs = e.recs)
      /\ \A e \in zone : \E f \in zone' :
            f.id = e.id /\ (e.id = n => f.recs = {r}) /\ (e.id # n => f.recs = e.recs)
  BY <1>1, <1>3, <1>4
<1>6. ZoneOK'
  <2>1. \A f \in zone' : f \in Entries /\ f.id # 0 /\ f.id < nextId' /\ \E s \in Recs : f.recs = {s}
    BY <1>1, <1>2, <1>3, <1>4
  <2>2. \A f, g \in zone' : f.id = g.id => f = g
    BY <1>2, <1>3, <1>4
  <2> QED
    BY <2>1, <2>2 DEF ZoneOK, Entries
<1>7. Served' \subseteq Served \cup {r}
  BY <1>5 DEF Served
<1> QED
  BY <1>1, <1>5, <1>6, <1>7

LEMMA EraseZone ==
    ASSUME Base, adapter \in Keyed, adapter' = adapter, NEW n, Erase(n)
    PROVE  /\ ZoneOK' /\ nextId' = nextId
           /\ zone' = {e \in zone : e.id # n}
           /\ Served' \subseteq Served
BY DEF Base, ZoneOK, Entries, Erase, Served

LEMMA SetsOfTypes ==
    ASSUME Base, adapter \notin Keyed, NEW e \in zone, NEW r \in e.recs
    PROVE  r \in Recs /\ e.recs = SetOf(r)
<1>1. r \in Recs /\ e.recs \subseteq Recs
  BY DEF Base, ZoneOK, Entries
<1>2. \A s \in e.recs : s \in Served /\ SameType(s, r)
  BY <1>1 DEF Base, ZoneOK, Served, SameType
<1>3. ASSUME NEW s \in Served, SameType(s, r) PROVE s \in e.recs
  <2>1. PICK f \in zone : s \in f.recs
    BY DEF Served
  <2>2. s \in Recs
    BY <2>1 DEF Base, ZoneOK, Entries
  <2> QED
    BY <1>1, <1>3, <2>1, <2>2 DEF Base, ZoneOK, SameType
<1> QED
  BY <1>1, <1>2, <1>3 DEF SetOf

LEMMA PutZone ==
    ASSUME Base, adapter \notin Keyed, adapter' = adapter, NEW r \in Recs,
           NEW S \in SUBSET Recs, \A s \in S : SameType(s, r), PutSet(r, S)
    PROVE  /\ ZoneOK' /\ nextId' = nextId
           /\ Served' = (Served \ SetOf(r)) \cup S
<1> DEFINE kept == {e \in zone : \A s \in e.recs : ~SameType(s, r)}
           put == [id |-> 0, recs |-> S]
<1>1. zone' = kept \cup (IF S = {} THEN {} ELSE {put}) /\ nextId' = nextId
  BY DEF PutSet
<1>2. put \in Entries /\ put.id = 0 /\ put.recs = S
  BY ConstantsAssumption DEF Entries
<1> HIDE DEF put
<1>3. /\ \A e \in zone : e \in Entries /\ e.id = 0 /\ e.recs # {}
      /\ \A e, f \in zone, x, y \in Recs :
            x \in e.recs /\ y \in f.recs => (SameType(x, y) <=> e = f)
  BY DEF Base, ZoneOK
<1>4. ZoneOK'
  <2>1. \A e \in zone' : e \in Entries /\ e.id = 0 /\ e.recs # {}
    BY <1>1, <1>2, <1>3
  <2>2. ASSUME NEW e \in zone', NEW f \in zone', NEW x \in Recs, NEW y \in Recs,
               x \in e.recs, y \in f.recs
        PROVE  SameType(x, y) <=> e = f
    <3>1. CASE e \in kept /\ f \in kept
      BY <1>3, <2>2, <3>1
    <3>2. CASE S # {} /\ e = put /\ f = put
      BY <1>2, <2>2, <3>2 DEF SameType
    <3>3. CASE S # {} /\ e = put /\ f \in kept
      <4>1. SameType(x, r) /\ ~SameType(y, r)
        BY <1>2, <2>2, <3>3
      <4> QED
        BY <1>2, <2>2, <3>3, <4>1 DEF SameType
    <3>4. CASE S # {} /\ e \in kept /\ f = put
      <4>1. ~SameType(x, r) /\ SameType(y, r)
        BY <1>2, <2>2, <3>4
      <4> QED
        BY <1>2, <2>2, <3>4, <4>1 DEF SameType
    <3> QED
      BY <1>1, <3>1, <3>2, <3>3, <3>4
  <2> QED
    BY <2>1, <2>2 DEF ZoneOK, Entries
<1>5. \A x : x \in Served' <=> (\E e \in kept : x \in e.recs) \/ x \in S
  <2> HIDE DEF kept
  <2>1. CASE S = {}
    BY <1>1, <2>1 DEF Served
  <2>2. CASE S # {}
    BY <1>1, <1>2, <2>2 DEF Served
  <2> QED
    BY <2>1, <2>2
<1>6. \A x : (\E e \in kept : x \in e.recs) <=> x \in Served \ SetOf(r)
  <2>1. ASSUME NEW e \in kept, NEW x \in e.recs PROVE x \in Served \ SetOf(r)
    BY <2>1 DEF Served, SetOf
  <2>2. ASSUME NEW x \in Served \ SetOf(r) PROVE \E e \in kept : x \in e.recs
    <3>1. PICK e \in zone : x \in e.recs
      BY DEF Served
    <3>2. ~SameType(x, r) /\ x \in Recs
      BY <3>1, <1>3 DEF SetOf, Entries
    <3>3. \A s \in e.recs : s \in Recs /\ SameType(s, x)
      BY <1>3, <3>1, <3>2 DEF Entries
    <3> QED
      BY <3>1, <3>2, <3>3 DEF SameType
  <2> QED
    BY <2>1, <2>2
<1>7. Served' = (Served \ SetOf(r)) \cup S
  BY <1>5, <1>6
<1> QED
  BY <1>1, <1>4, <1>7

-----------------------------------------------------------------------------
\* How a call leaves the worker and the rows.

Frame ==
    /\ mishaps \subseteq mishaps' /\ mishaps' \subseteq Mishaps
    /\ faults' = faults \/ Fault
    /\ UNCHANGED <<adapter, refuses, ops>>

\* To another call of the same operation.
Moves(w, s, j) ==
    /\ Goto(w, s, j)
    /\ s \in Steps \ {"idle"} /\ j \in JobType
    /\ j.op = job[w].op /\ j.rec = job[w].rec /\ j.new = job[w].new

Stays(w, j) ==
    /\ j.handle = job[w].handle /\ j.again = job[w].again
    /\ job[w].op = "update" /\ job[w].tries < Attempts => j.tries < Attempts

MadeAs(w, h) ==
    /\ job[w].op = "create" /\ h \in Handles
    /\ Ends(w)
    /\ held' = [held EXCEPT ![job[w].rec] = h]
    /\ unsure' = unsure \ {job[w].rec}
    /\ UNCHANGED gone

Replaced(w) ==
    /\ job[w].op = "update"
    /\ Ends(w)
    /\ held' = [held EXCEPT ![job[w].rec] = NoHandle, ![job[w].new] = held[job[w].rec]]
    /\ gone' = gone \cup {job[w].rec}
    /\ unsure' = unsure \ {job[w].rec, job[w].new}

Dropped(w) == job[w].op = "delete" /\ RowGone(w)

GaveUp(w) ==
    /\ Ends(w)
    /\ unsure' = unsure \cup {job[w].rec, job[w].new}
    /\ UNCHANGED <<held, gone>>
    /\ job[w].op = "update" /\ job[w].tries < Attempts => "torn" \in mishaps'

\* The row or rows of a worker, and nothing else.
Outcome(w) ==
    \/ \E s \in Steps, j \in JobType : Moves(w, s, j) /\ (adapter \in Keyed => j.handle.id < nextId')
    \/ \E h \in Handles : MadeAs(w, h) /\ (adapter \in Keyed => h.id < nextId')
    \/ Replaced(w)
    \/ Dropped(w)
    \/ GaveUp(w)

NextZone ==
    ZoneOK' /\ nextId' \in 1..(MaxIds + 1) /\ nextId <= nextId'

LEMMA InHandFacts ==
    ASSUME Base, NEW w \in Workers, pc[w] # "idle"
    PROVE  /\ job[w] \in JobType /\ job[w].rec \in Recs /\ job[w].new \in Recs
           /\ job[w].rec \notin gone /\ job[w].new \notin gone
           /\ job[w].op \in {"create", "update", "delete"}
           /\ job[w].op = "create" => held[job[w].rec] = NoHandle
           /\ job[w].op # "create" => held[job[w].rec] \in Handles
           /\ job[w].op = "update" => held[job[w].new] = NoHandle /\ job[w].new # job[w].rec
           /\ job[w].op = "update" => SameType(job[w].rec, job[w].new)
           /\ job[w].op # "update" => job[w].new = job[w].rec
           /\ \A v \in Workers : v # w /\ pc[v] # "idle" =>
                 job[v].rec \notin Hands(w) /\ job[v].new \notin Hands(w)
<1>1. job[w] \in JobType /\ held \in [Recs -> Handles \cup {NoHandle}] /\ HandOK(w)
  BY DEF Base, Typed
<1>2. job[w].op \in {"none", "create", "update", "delete"}
  BY <1>1 DEF JobType
<1>3. /\ job[w].rec \in Recs /\ job[w].new \in Recs
      /\ job[w].rec \notin gone /\ job[w].new \notin gone
      /\ job[w].op \in {"create", "update", "delete"}
      /\ held[job[w].rec] = NoHandle <=> job[w].op = "create"
      /\ job[w].op = "update" => held[job[w].new] = NoHandle /\ SameType(job[w].rec, job[w].new)
      /\ job[w].op # "update" => job[w].new = job[w].rec
  BY <1>1, <1>2 DEF HandOK
<1>4. \A v \in Workers : v # w /\ pc[v] # "idle" =>
         job[v].rec \notin Hands(w) /\ job[v].new \notin Hands(w)
  BY DEF Base, HandsApart, Hands
<1> QED
  BY <1>1, <1>3, <1>4

LEMMA NoJobTyped == NoJob \in JobType /\ NoJob.handle.id = 0 /\ NoJob.op = "none"
BY ConstantsAssumption DEF NoJob, JobType, NoHandle

\* Of the others nothing changes.
LEMMA OutcomeAt ==
    ASSUME Base, NEW w \in Workers, pc[w] # "idle", Outcome(w)
    PROVE  /\ \A v \in Workers : v # w => pc'[v] = pc[v] /\ job'[v] = job[v]
           /\ pc' \in [Workers -> Steps] /\ job' \in [Workers -> JobType]
           /\ held' \in [Recs -> Handles \cup {NoHandle}]
           /\ \A r \in Recs : r \notin Hands(w) => held'[r] = held[r]
           /\ gone' \subseteq Recs /\ unsure' \subseteq Recs
           /\ gone \subseteq gone' /\ gone' \subseteq gone \cup {job[w].rec}
           /\ \A r \in Recs : r \notin Hands(w) => (r \in unsure' <=> r \in unsure)
<1> USE DEF Outcome
<1>1. /\ Typed /\ job[w].rec \in Recs /\ job[w].new \in Recs /\ job[w] \in JobType
      /\ gone \subseteq Recs /\ unsure \subseteq Recs
      /\ held \in [Recs -> Handles \cup {NoHandle}]
      /\ pc \in [Workers -> Steps] /\ job \in [Workers -> JobType]
  BY InHandFacts DEF Base, Typed
<1>2. CASE \E s \in Steps, j \in JobType : Moves(w, s, j)
  BY <1>1, <1>2 DEF Moves, Goto
<1>3. ASSUME Ends(w)
      PROVE  /\ \A v \in Workers : v # w => pc'[v] = pc[v] /\ job'[v] = job[v]
             /\ pc' \in [Workers -> Steps] /\ job' \in [Workers -> JobType]
  BY <1>1, <1>3, NoJobTyped DEF Ends, Steps
<1>4. CASE \E h \in Handles : MadeAs(w, h)
  BY <1>1, <1>3, <1>4 DEF MadeAs, Hands
<1>5. CASE Replaced(w)
  <2>1. held[job[w].rec] \in Handles
    BY <1>5, InHandFacts DEF Replaced
  <2> QED
    BY <1>1, <1>3, <1>5, <2>1 DEF Replaced, Hands
<1>6. CASE Dropped(w)
  BY <1>1, <1>3, <1>6 DEF Dropped, RowGone, Hands
<1>7. CASE GaveUp(w)
  BY <1>1, <1>3, <1>7 DEF GaveUp, Hands
<1> QED
  BY <1>2, <1>4, <1>5, <1>6, <1>7

LEMMA OutcomeBase ==
    ASSUME Base, NEW w \in Workers, pc[w] # "idle", Frame, Outcome(w), NextZone
    PROVE  Base'
<1>1. /\ Typed /\ ZoneOK /\ IdsOK /\ HandsApart
      /\ \A v \in Workers : HandOK(v)
      /\ \A r \in gone : held[r] = NoHandle
  BY DEF Base
<1>2. /\ adapter' = adapter /\ nextId' \in 1..(MaxIds + 1) /\ nextId <= nextId'
      /\ nextId \in Int /\ nextId' \in Int
  BY <1>1 DEF Frame, NextZone, Typed
<1>3. Typed'
  <2>1. faults' \in 0..MaxFaults
    BY <1>1, ConstantsAssumption DEF Frame, Fault, Typed
  <2> QED
    BY <1>1, <1>2, <2>1, OutcomeAt DEF Typed, Frame
<1>4. CASE \E s \in Steps, j \in JobType : Moves(w, s, j) /\ (adapter \in Keyed => j.handle.id < nextId')
  <2>1. PICK s \in Steps, j \in JobType : Moves(w, s, j) /\ (adapter \in Keyed => j.handle.id < nextId')
    BY <1>4
  <2>2. /\ pc'[w] = s /\ job'[w] = j /\ s # "idle" /\ UNCHANGED <<held, gone>>
        /\ j.op = job[w].op /\ j.rec = job[w].rec /\ j.new = job[w].new
    BY <1>1, <2>1 DEF Moves, Goto, Typed
  <2>3. \A v \in Workers : HandOK(v)'
    BY <1>1, <2>2, OutcomeAt DEF HandOK
  <2>4. HandsApart'
    BY <1>1, <2>2, OutcomeAt DEF HandsApart, Hands
  <2>5. IdsOK'
    <3>1. \A r \in Recs : held[r].id \in Int
      BY <1>1, HandleFacts, ConstantsAssumption DEF Typed
    <3>2. \A v \in Workers : job[v].handle.id \in Int
      BY <1>1, HandleFacts, ConstantsAssumption DEF Typed, JobType
    <3> QED
      BY <1>1, <1>2, <2>1, <2>2, <3>1, <3>2, OutcomeAt DEF IdsOK
  <2>6. \A r \in gone' : held'[r] = NoHandle
    BY <1>1, <2>2
  <2> QED
    BY <1>3, <2>3, <2>4, <2>5, <2>6 DEF Base, NextZone
<1>5. CASE ~\E s \in Steps, j \in JobType : Moves(w, s, j) /\ (adapter \in Keyed => j.handle.id < nextId')
  <2>1. Ends(w)
    BY <1>5 DEF Outcome, MadeAs, Replaced, Dropped, RowGone, GaveUp
  <2>2. pc'[w] = "idle" /\ job'[w] = NoJob
    BY <1>1, <2>1 DEF Ends, Typed
  <2>3. HandsApart'
    BY <1>1, <2>2, OutcomeAt DEF HandsApart, Hands
  <2>4. ASSUME NEW v \in Workers PROVE HandOK(v)'
    <3>1. CASE v = w
      BY <2>2, <3>1 DEF HandOK
    <3>2. CASE v # w /\ pc[v] # "idle"
      <4>1. /\ job[v].rec \in Recs \ Hands(w) /\ job[v].new \in Recs \ Hands(w)
            /\ job[w].rec \in Hands(w)
        BY <3>2, InHandFacts DEF Hands
      <4>2. /\ held'[job[v].rec] = held[job[v].rec] /\ held'[job[v].new] = held[job[v].new]
            /\ job[v].rec \notin gone' /\ job[v].new \notin gone'
        BY <1>1, <3>2, <4>1, OutcomeAt DEF HandOK
      <4> QED
        BY <1>1, <3>2, <4>2, OutcomeAt DEF HandOK
    <3>3. CASE v # w /\ pc[v] = "idle"
      BY <3>3, OutcomeAt DEF HandOK
    <3> QED
      BY <3>1, <3>2, <3>3
  <2>5. IdsOK'
    <3>1. \A r \in Recs : held[r].id \in Int
      BY <1>1, HandleFacts, ConstantsAssumption DEF Typed
    <3>2. \A v \in Workers : job[v].handle.id \in Int
      BY <1>1, HandleFacts, ConstantsAssumption DEF Typed, JobType
    <3>3. ASSUME adapter \in Keyed, NEW v \in Workers PROVE job'[v].handle.id < nextId'
      BY <1>1, <1>2, <2>2, <3>2, <3>3, OutcomeAt, NoJobTyped DEF IdsOK
    <3>4. ASSUME adapter \in Keyed, NEW r \in Recs PROVE held'[r].id < nextId'
      <4>1. held'[r] \in {held[r], NoHandle, held[job[w].rec]} \/ held'[r].id < nextId'
        <5>1. job[w].rec \in Recs /\ job[w].new \in Recs /\ held \in [Recs -> Handles \cup {NoHandle}]
          BY <1>1, InHandFacts DEF Typed
        <5>2. CASE \E h \in Handles : MadeAs(w, h) /\ (adapter \in Keyed => h.id < nextId')
          BY <3>4, <5>1, <5>2 DEF MadeAs
        <5>3. CASE Replaced(w)
          BY <5>1, <5>3 DEF Replaced
        <5>4. CASE Dropped(w)
          BY <5>1, <5>4 DEF Dropped, RowGone
        <5>5. CASE GaveUp(w)
          BY <5>1, <5>5 DEF GaveUp
        <5> QED
          BY <1>5, <5>2, <5>3, <5>4, <5>5 DEF Outcome
      <4>2. job[w].rec \in Recs
        BY InHandFacts
      <4> QED
        BY <1>1, <1>2, <3>1, <3>4, <4>1, <4>2, HandleFacts DEF IdsOK
    <3> QED
      BY <1>2, <3>3, <3>4 DEF IdsOK
  <2>6. ASSUME NEW r \in gone' PROVE held'[r] = NoHandle
    <3>1. CASE r = job[w].rec
      BY <1>1, <1>5, <3>1, InHandFacts
         DEF Outcome, MadeAs, Replaced, Dropped, RowGone, GaveUp, Typed
    <3>2. CASE r # job[w].rec
      <4>1. r \in gone /\ r \in Recs /\ r \notin Hands(w)
        BY <3>2, OutcomeAt, InHandFacts DEF Hands
      <4> QED
        BY <1>1, <4>1, OutcomeAt
    <3> QED
      BY <3>1, <3>2
  <2> QED
    BY <1>3, <2>3, <2>4, <2>5, <2>6 DEF Base, NextZone
<1> QED
  BY <1>4, <1>5

-----------------------------------------------------------------------------
\* How the helpers end.

Mid == Steps \ {"idle"}

LEMMA MoveTo ==
    ASSUME Base, NEW w \in Workers, pc[w] # "idle", NEW s \in Mid, NEW j \in JobType, Goto(w, s, j),
           j.op = job[w].op, j.rec = job[w].rec, j.new = job[w].new
    PROVE  Moves(w, s, j)
BY DEF Moves, Mid

\* The job of a delete that found its record again.
LEMMA AgainTyped ==
    ASSUME NEW J \in JobType, NEW h \in Handles
    PROVE  /\ [J EXCEPT !.handle = h, !.again = TRUE, !.tries = Attempts] \in JobType
           /\ [J EXCEPT !.handle = h, !.again = TRUE, !.tries = Attempts].op = J.op
           /\ [J EXCEPT !.handle = h, !.again = TRUE, !.tries = Attempts].rec = J.rec
           /\ [J EXCEPT !.handle = h, !.again = TRUE, !.tries = Attempts].new = J.new
           /\ [J EXCEPT !.handle = h, !.again = TRUE, !.tries = Attempts].handle = h
           /\ [J EXCEPT !.handle = h, !.again = TRUE, !.tries = Attempts].again = TRUE
<1> DEFINE j1 == [J EXCEPT !.handle = h]
           j2 == [j1 EXCEPT !.again = TRUE]
           j3 == [j2 EXCEPT !.tries = Attempts]
<1>1. /\ j1 \in JobType /\ j1.op = J.op /\ j1.rec = J.rec /\ j1.new = J.new
      /\ j1.handle = h
  BY DEF JobType
<1> HIDE DEF j1
<1>2. /\ j2 \in JobType /\ j2.op = j1.op /\ j2.rec = j1.rec /\ j2.new = j1.new
      /\ j2.handle = j1.handle /\ j2.again = TRUE
  BY <1>1 DEF JobType
<1> HIDE DEF j2
<1>3. /\ j3 \in JobType /\ j3.op = j2.op /\ j3.rec = j2.rec /\ j3.new = j2.new
      /\ j3.handle = j2.handle /\ j3.again = j2.again
  BY <1>2, ConstantsAssumption DEF JobType
<1> QED
  BY <1>1, <1>2, <1>3 DEF j1, j2

LEMMA GoOnOutcome ==
    ASSUME Base, NEW w \in Workers, pc[w] # "idle", NEW s \in Mid, GoOn(w, s)
    PROVE  \E j \in JobType : Moves(w, s, j) /\ Stays(w, j)
<1>1. job[w] \in JobType /\ Goto(w, s, job[w])
  BY InHandFacts DEF GoOn
<1> QED
  BY <1>1, MoveTo DEF Stays

LEMMA TriesOutcome ==
    ASSUME Base, NEW w \in Workers, pc[w] # "idle", NEW s \in Mid, NEW n \in 0..Attempts,
           Goto(w, s, [job[w] EXCEPT !.tries = n]), job[w].op # "update" \/ n < Attempts
    PROVE  \E j \in JobType : Moves(w, s, j) /\ Stays(w, j) /\ j.tries = n
<1> DEFINE j == [job[w] EXCEPT !.tries = n]
<1>1. /\ j \in JobType /\ j.tries = n /\ j.op = job[w].op /\ j.rec = job[w].rec
      /\ j.new = job[w].new /\ j.handle = job[w].handle /\ j.again = job[w].again
  BY InHandFacts DEF JobType
<1>2. Goto(w, s, j)
  OBVIOUS
<1> HIDE DEF j
<1> QED
  BY <1>1, <1>2, MoveTo DEF Stays

LEMMA AnswerOutcome ==
    ASSUME Base, NEW w \in Workers, pc[w] # "idle", NEW h, Answer(w, h)
    PROVE  /\ job[w].op = "create" /\ h \in Handles => MadeAs(w, h)
           /\ job[w].op = "update" /\ h = held[job[w].rec] => Replaced(w)
           /\ job[w].op = "delete" =>
                 \/ ~job[w].again /\ \E j \in JobType : Moves(w, "verify", j) /\ Stays(w, j)
                 \/ job[w].again /\ Dropped(w)
<1>1. CASE job[w].op = "create"
  BY <1>1 DEF Answer, MadeAs
<1>2. CASE job[w].op = "update"
  BY <1>2 DEF Answer, Replaced
<1>3. CASE job[w].op = "delete" /\ job[w].again
  BY <1>3 DEF Answer, Dropped
<1>4. CASE job[w].op = "delete" /\ ~job[w].again
  <2>1. Goto(w, "verify", [job[w] EXCEPT !.tries = Attempts])
    BY <1>4 DEF Answer
  <2>2. Attempts \in 0..Attempts /\ "verify" \in Mid
    BY ConstantsAssumption DEF Mid, Steps
  <2> QED
    BY <1>4, <2>1, <2>2, TriesOutcome
<1> QED
  BY <1>1, <1>2, <1>3, <1>4, InHandFacts

LEMMA GivesUpOutcome ==
    ASSUME Base, NEW w \in Workers, pc[w] # "idle", NEW m \in SUBSET Mishaps, GivesUpNoting(w, m)
    PROVE  /\ GaveUp(w)
           /\ mishaps \cup m \subseteq mishaps' /\ mishaps' \subseteq Mishaps
<1>1. "torn" \in Mishaps /\ mishaps \subseteq Mishaps
  BY DEF Mishaps, Base, Typed
<1> QED
  BY <1>1 DEF GivesUpNoting, GaveUp, Note

LEMMA FailsOutcome ==
    ASSUME Base, NEW w \in Workers, pc[w] # "idle", NEW s \in Mid, NEW m \in SUBSET Mishaps,
           FailsFor(w, s, m)
    PROVE  /\ mishaps \cup m \subseteq mishaps' /\ mishaps' \subseteq Mishaps
           /\ \/ \E j \in JobType : Moves(w, s, j) /\ Stays(w, j) /\ j.tries < Attempts
              \/ GaveUp(w) /\ (job[w].op = "update" => "torn" \in mishaps')
<1>1. job[w].tries \in 0..Attempts /\ Attempts \in Nat /\ Attempts > 1 /\ mishaps \subseteq Mishaps
  BY InHandFacts, ConstantsAssumption DEF JobType, Base, Typed
<1>2. CASE job[w].tries > 1
  <2>1. /\ Goto(w, s, [job[w] EXCEPT !.tries = job[w].tries - 1])
        /\ mishaps' = mishaps \cup m
    BY <1>2 DEF FailsFor, Note
  <2>2. job[w].tries - 1 \in 0..Attempts /\ job[w].tries - 1 < Attempts
    BY <1>1, <1>2
  <2>3. \E j \in JobType : Moves(w, s, j) /\ Stays(w, j) /\ j.tries = job[w].tries - 1
    BY <2>1, <2>2, TriesOutcome
  <2> QED
    BY <1>1, <2>1, <2>2, <2>3
<1>3. CASE ~(job[w].tries > 1)
  <2>1. GivesUpNoting(w, m)
    BY <1>3 DEF FailsFor
  <2>2. job[w].tries < Attempts
    BY <1>1, <1>3
  <2> QED
    BY <2>1, <2>2, GivesUpOutcome DEF GaveUp
<1> QED
  BY <1>2, <1>3

LEMMA FirstIsMid == \A op \in {"create", "update", "delete"} : First(op) \in Mid
BY DEF First, Mid, Steps

LEMMA FailsAgain ==
    ASSUME Base, NEW w \in Workers, pc[w] # "idle", Fails(w)
    PROVE  /\ mishaps \subseteq mishaps' /\ mishaps' \subseteq Mishaps
           /\ \/ \E j \in JobType : /\ Moves(w, First(job[w].op), j) /\ Stays(w, j)
                                    /\ j.tries < Attempts
              \/ GaveUp(w) /\ (job[w].op = "update" => "torn" \in mishaps')
<1>1. FailsFor(w, First(job[w].op), {}) /\ First(job[w].op) \in Mid
  BY FirstIsMid, InHandFacts DEF Fails
<1> QED
  BY <1>1, FailsOutcome

-----------------------------------------------------------------------------
\* What a look finds where every record has an id.

FoundIn(r, e) == r \in e.recs \/ ("mixed" \in mishaps' /\ ~Plain(r))

LEMMA FindNothing ==
    ASSUME Base, NEW r \in Recs, Find(r) = {}
    PROVE  r \notin Served
<1>1. Alike(r, r) /\ SameType(r, r)
  BY DEF Alike, SameType
<1>2. CASE adapter \in Keyed
  <2> SUFFICES ASSUME r \in Served PROVE FALSE
    OBVIOUS
  <2>1. PICK e \in zone : r \in e.recs
    BY DEF Served
  <2>2. Id(e.id, r) \in CloudflareFind(r) /\ Id(e.id, r) \in FoldedFind(r)
    BY <1>1, <2>1 DEF CloudflareFind, FoldedFind, Folded
  <2> QED
    BY <1>2, <2>2 DEF Find
<1>3. CASE adapter \notin Keyed
  <2>1. TextFind(r) = {}
    BY <1>3 DEF Find, Keyed
  <2> QED
    BY <1>1, <2>1 DEF TextFind, Folded, SetOf
<1> QED
  BY <1>2, <1>3

LEMMA FindKeyed ==
    ASSUME Base, adapter \in Keyed, NEW r, NEW h \in Find(r),
           Mistaken(h) \subseteq mishaps'
    PROVE  \E e \in zone : /\ r \in Recs /\ h = Id(e.id, r) /\ h \in Handles /\ h.id < nextId
                           /\ h.id # 0 /\ h.rec = r /\ FoundIn(r, e)
<1>1. PICK e \in zone : /\ h = Id(e.id, r) /\ \E s \in e.recs : Alike(s, r)
                        /\ adapter = "cloudflare" => r \in e.recs
  <2>1. CASE adapter = "cloudflare"
    <3>1. h \in CloudflareFind(r)
      BY <2>1 DEF Find
    <3> QED
      BY <3>1 DEF CloudflareFind, Alike
  <2>2. CASE adapter # "cloudflare"
    <3>1. h \in FoldedFind(r)
      BY <2>2 DEF Find
    <3> QED
      BY <2>2, <3>1 DEF FoldedFind, Folded
  <2> QED
    BY <2>1, <2>2
<1>2. /\ e.id \in 0..MaxIds /\ e.id # 0 /\ e.id < nextId /\ e.recs \subseteq Recs
      /\ \A f \in zone : f.id = e.id => f = e
  BY DEF Base, ZoneOK, Entries
<1>3. r \in Recs
  BY <1>1, <1>2, ConstantsAssumption DEF Alike
<1>4. h \in Handles /\ h.id = e.id /\ h.rec = r
  BY <1>1, <1>2, <1>3, HandleFacts
<1>5. FoundIn(r, e)
  <2> SUFFICES ASSUME r \notin e.recs PROVE FoundIn(r, e)
    BY DEF FoundIn
  <2>1. "mixed" \in Mistaken(h)
    BY <1>2, <1>4 DEF Mistaken
  <2>2. ~Plain(r)
    BY <1>1 DEF Plain, Alike
  <2> QED
    BY <2>1, <2>2 DEF FoundIn
<1> QED
  BY <1>1, <1>2, <1>3, <1>4, <1>5

-----------------------------------------------------------------------------
\* A step of a worker where every record has an id: what becomes of the records,
\* and what of the worker.

Noted ==
    /\ mishaps \subseteq mishaps' /\ mishaps' \subseteq Mishaps
    /\ UNCHANGED faults \/ Fault

Adds(w) == pc[w] = "add" /\ job[w].op = "create" /\ AddEntry(job[w].rec)

Rewrites(w) ==
    LET n == held[job[w].rec].id IN
    /\ job[w].op = "update"
    /\ \E e \in zone : e.id = n
    /\ Rewrite(n, job[w].new)
    /\ (\E e \in zone : job[w].new \in e.recs /\ e.id # n) => "collided" \in mishaps'

Erases(w) == job[w].op = "delete" /\ Erase(job[w].handle.id)

Effect(w) == Nothing \/ Adds(w) \/ Rewrites(w) \/ Erases(w)

\* What a delete is about to remove: as before, or what a look has found.
Follows(w, j) ==
    \/ Stays(w, j)
    \/ /\ job[w].op = "delete" /\ Nothing
       /\ \E e \in zone :
             \/ j.again /\ j.handle = Id(e.id, job[w].rec) /\ FoundIn(job[w].rec, e)
             \/ /\ j.again = job[w].again /\ job[w].handle.id = 0
                /\ j.handle = Id(e.id, job[w].handle.rec) /\ FoundIn(job[w].handle.rec, e)

GoesOn(w, s, j) ==
    /\ Moves(w, s, j)
    /\ Follows(w, j)
    /\ job[w].op = "update" => j.tries < Attempts
    /\ s = "add" => job[w].rec \notin Served' \/ "blind" \in mishaps'
    /\ s = "learn" => job[w].rec \in Served'

Enters(w, h) ==
    /\ MadeAs(w, h)
    /\ h.rec = job[w].rec
    /\ \/ h.id = 0 /\ pc[w] = "learn" /\ Nothing
       \/ \E e \in zone' : e.id = h.id /\ FoundIn(job[w].rec, e)

Withdraws(w) ==
    /\ Dropped(w)
    /\ \/ job[w].rec \notin Served'
       \/ job[w].again /\ \A e \in zone' : e.id # job[w].handle.id
       \/ "guess" \in mishaps'

LeavesOff(w) == GaveUp(w) /\ (job[w].op = "update" => "torn" \in mishaps' \/ Nothing)

Result(w) ==
    \/ "silent" \in mishaps' /\ Outcome(w)
    \/ \E s \in Mid, j \in JobType : GoesOn(w, s, j)
    \/ \E h \in Handles : Enters(w, h)
    \/ Rewrites(w) /\ Replaced(w)
    \/ Withdraws(w)
    \/ LeavesOff(w)

KeyedStep(w) == Noted /\ Effect(w) /\ Result(w)

LEMMA ServedKept == Nothing => Served' = Served /\ zone' = zone
BY DEF Nothing, provVars, Served

LEMMA FailsResult ==
    ASSUME Base, NEW w \in Workers, pc[w] # "idle", Fails(w)
    PROVE  Result(w) /\ mishaps \subseteq mishaps' /\ mishaps' \subseteq Mishaps
<1>1. /\ First(job[w].op) \in Mid /\ First(job[w].op) \notin {"add", "learn"}
  BY InHandFacts, FirstIsMid DEF First
<1>2. CASE \E j \in JobType : /\ Moves(w, First(job[w].op), j) /\ Stays(w, j)
                              /\ j.tries < Attempts
  <2>1. PICK j \in JobType : /\ Moves(w, First(job[w].op), j) /\ Stays(w, j)
                             /\ j.tries < Attempts
    BY <1>2
  <2>2. GoesOn(w, First(job[w].op), j)
    BY <1>1, <2>1 DEF GoesOn, Follows
  <2> QED
    BY <1>1, <2>2, FailsAgain DEF Result
<1>3. CASE GaveUp(w) /\ (job[w].op = "update" => "torn" \in mishaps')
  BY <1>3, FailsAgain DEF Result, LeavesOff
<1> QED
  BY <1>2, <1>3, FailsAgain

LEMMA ToResult ==
    ASSUME Base, NEW w \in Workers, pc[w] # "idle", NEW s \in Mid, GoOn(w, s),
           job[w].op # "update",
           s = "add" => job[w].rec \notin Served' \/ "blind" \in mishaps',
           s = "learn" => job[w].rec \in Served'
    PROVE  Result(w)
<1>1. PICK j \in JobType : Moves(w, s, j) /\ Stays(w, j)
  BY GoOnOutcome
<1> QED
  BY <1>1 DEF Result, GoesOn, Follows

\* Found and adopted.
LEMMA TakesResult ==
    ASSUME Base, adapter \in Keyed, NEW w \in Workers, pc[w] # "idle", job[w].op = "create",
           Nothing, NEW h \in Find(job[w].rec), Takes(w, h)
    PROVE  Result(w) /\ mishaps \subseteq mishaps' /\ mishaps' \subseteq Mishaps
<1>1. mishaps' = mishaps \cup Mistaken(h) /\ Answer(w, h)
  BY DEF Takes, Note
<1>2. Mistaken(h) \subseteq Mishaps /\ mishaps \subseteq Mishaps
  BY DEF Mistaken, Mishaps, Base, Typed
<1>3. PICK e \in zone : h \in Handles /\ h.rec = job[w].rec /\ h = Id(e.id, job[w].rec)
                        /\ FoundIn(job[w].rec, e)
  BY <1>1, FindKeyed
<1>4. h.id = e.id /\ e \in zone'
  BY <1>3, ServedKept DEF Id
<1>5. Enters(w, h)
  BY <1>1, <1>3, <1>4, AnswerOutcome DEF Enters
<1> QED
  BY <1>1, <1>2, <1>3, <1>5 DEF Result

LEMMA PreCheckStep ==
    ASSUME Base, adapter \in Keyed, NEW w \in Workers, pc[w] # "idle", job[w].op = "create",
           NEW strict \in BOOLEAN, PreCheck(w, strict)
    PROVE  KeyedStep(w)
<1>1. Nothing /\ Effect(w) /\ "add" \in Mid
  BY DEF PreCheck, Nothing, Effect, Mid, Steps
<1>2. mishaps \subseteq Mishaps /\ "blind" \in Mishaps /\ job[w].rec \in Recs
  BY InHandFacts DEF Base, Typed, Mishaps
<1>3. CASE Find(job[w].rec) = {} /\ To(w, "add") /\ UNCHANGED faults
  <2>1. job[w].rec \notin Served'
    BY <1>1, <1>2, <1>3, FindNothing, ServedKept
  <2>2. GoOn(w, "add") /\ mishaps' = mishaps
    BY <1>3 DEF To
  <2> QED
    BY <1>1, <1>2, <1>3, <2>1, <2>2, ToResult DEF KeyedStep, Noted
<1>4. CASE (\E h \in Find(job[w].rec) : Takes(w, h)) /\ UNCHANGED faults
  BY <1>1, <1>4, TakesResult DEF KeyedStep, Noted
<1>5. CASE Fault /\ strict /\ Fails(w)
  BY <1>1, <1>5, FailsResult DEF KeyedStep, Noted
<1>6. CASE Fault /\ GoOn(w, "add") /\ Note({"blind"})
  <2>1. mishaps' = mishaps \cup {"blind"}
    BY <1>6 DEF Note
  <2> QED
    BY <1>1, <1>2, <1>6, <2>1, ToResult DEF KeyedStep, Noted
<1> QED
  BY <1>3, <1>4, <1>5, <1>6 DEF PreCheck

LEMMA RecheckStep ==
    ASSUME Base, adapter \in Keyed, NEW w \in Workers, pc[w] # "idle", job[w].op = "create",
           Recheck(w)
    PROVE  KeyedStep(w)
<1>1. Nothing /\ Effect(w)
  BY DEF Recheck, Nothing, Effect
<1>2. CASE (\E h \in Find(job[w].rec) : Takes(w, h)) /\ UNCHANGED faults
  BY <1>1, <1>2, TakesResult DEF KeyedStep, Noted
<1>3. CASE Fails(w) /\ (UNCHANGED faults \/ Fault)
  BY <1>1, <1>3, FailsResult DEF KeyedStep, Noted
<1> QED
  BY <1>2, <1>3 DEF Recheck

LEMMA AddStep ==
    ASSUME Base, adapter \in Keyed, NEW w \in Workers, pc[w] # "idle", job[w].op = "create",
           adapter' = adapter,
           NEW next \in {"done", "learn"}, Add(w, TRUE, next)
    PROVE  KeyedStep(w)
<1>1. /\ mishaps \subseteq Mishaps /\ job[w].rec \in Recs /\ pc[w] = "add"
      /\ "recheck" \in Mid /\ "learn" \in Mid /\ 1 \in 0..Attempts
  BY InHandFacts, ConstantsAssumption DEF Base, Typed, Mid, Steps, Add
<1>2. CASE /\ Goto(w, "recheck", [job[w] EXCEPT !.tries = 1])
           /\ UNCHANGED <<provVars, mishaps, faults>>
  <2>1. PICK j \in JobType : Moves(w, "recheck", j) /\ Stays(w, j)
    BY <1>1, <1>2, TriesOutcome
  <2>2. GoesOn(w, "recheck", j)
    BY <2>1 DEF GoesOn, Follows
  <2> QED
    BY <1>1, <1>2, <2>2 DEF KeyedStep, Noted, Effect, Nothing, Result
<1>3. CASE /\ AddEntry(job[w].rec)
           /\ IF next = "done" THEN Ok(w, Id(nextId, job[w].rec)) ELSE To(w, next)
           /\ UNCHANGED faults
  <2>1. Effect(w) /\ mishaps' = mishaps
    BY <1>1, <1>3 DEF Effect, Adds, Ok, To
  <2>2. CASE next = "done"
    <3> DEFINE e == [id |-> nextId, recs |-> {job[w].rec}]
               h == Id(nextId, job[w].rec)
    <3>1. nextId \in 0..MaxIds
      BY <1>3, ConstantsAssumption DEF AddEntry, Base, Typed
    <3>2. h \in Handles /\ h.rec = job[w].rec /\ h.id = nextId
      BY <1>1, <3>1, HandleFacts
    <3>3. e \in zone' /\ e.id = nextId /\ FoundIn(job[w].rec, e)
      BY <1>3 DEF AddEntry, FoundIn
    <3>4. Answer(w, h)
      BY <1>3, <2>2 DEF Ok
    <3> HIDE DEF e, h
    <3>5. Enters(w, h)
      BY <3>2, <3>3, <3>4, AnswerOutcome DEF Enters
    <3> QED
      BY <1>1, <1>3, <2>1, <3>2, <3>5 DEF KeyedStep, Noted, Result
  <2>3. CASE next = "learn"
    <3>1. job[w].rec \in Served'
      BY <1>1, <1>3, AddZone
    <3>2. GoOn(w, "learn")
      BY <1>3, <2>3 DEF To
    <3> QED
      BY <1>1, <1>3, <2>1, <3>1, <3>2, ToResult DEF KeyedStep, Noted
  <2> QED
    BY <2>2, <2>3
<1>4. CASE Fault /\ (Nothing \/ AddEntry(job[w].rec)) /\ To(w, "recheck")
  <2>1. Effect(w) /\ mishaps' = mishaps /\ GoOn(w, "recheck")
    BY <1>1, <1>4 DEF Effect, Adds, To
  <2> QED
    BY <1>1, <1>4, <2>1, ToResult DEF KeyedStep, Noted
<1> QED
  BY <1>2, <1>3, <1>4 DEF Add

LEMMA UpdateKeyedStep ==
    ASSUME Base, adapter \in Keyed, NEW w \in Workers, pc[w] # "idle", job[w].op = "update",
           UpdateKeyed(w)
    PROVE  KeyedStep(w)
<1> DEFINE n == held[job[w].rec].id
           known == \E e \in zone : e.id = n
           taken == \E e \in zone : job[w].new \in e.recs /\ e.id # n
           m == IF taken THEN {"collided"} ELSE {}
<1>1. /\ mishaps \subseteq Mishaps /\ m \subseteq Mishaps /\ {} \subseteq Mishaps
      /\ "update" \in Mid /\ pc[w] = "update"
  BY DEF Base, Typed, Mid, Steps, UpdateKeyed, Mishaps
<1>2. CASE GivesUp(w) /\ UNCHANGED <<provVars, faults>>
  <2>1. GivesUpNoting(w, {}) /\ Nothing
    BY <1>2 DEF GivesUp, Nothing
  <2> QED
    BY <1>1, <1>2, <2>1, GivesUpOutcome DEF KeyedStep, Noted, Effect, Result, LeavesOff
<1>3. ASSUME known, Rewrite(n, job[w].new), m \subseteq mishaps'
      PROVE  Rewrites(w)
  BY <1>3 DEF Rewrites
<1>4. CASE /\ known /\ Rewrite(n, job[w].new) /\ Answer(w, held[job[w].rec])
           /\ Note(m) /\ UNCHANGED faults
  <2>1. mishaps' = mishaps \cup m
    BY <1>4 DEF Note
  <2>2. Rewrites(w)
    BY <1>3, <1>4, <2>1
  <2>3. Replaced(w)
    BY <1>4, AnswerOutcome
  <2> QED
    BY <1>1, <1>4, <2>1, <2>2, <2>3 DEF KeyedStep, Noted, Effect, Result
<1>5. CASE Fault /\ Nothing /\ Fails(w)
  BY <1>5, FailsResult DEF KeyedStep, Noted, Effect
<1>6. CASE Fault /\ known /\ Rewrite(n, job[w].new) /\ FailsFor(w, "update", m)
  <2>1. /\ mishaps \cup m \subseteq mishaps' /\ mishaps' \subseteq Mishaps
        /\ \/ \E j \in JobType : Moves(w, "update", j) /\ Stays(w, j) /\ j.tries < Attempts
           \/ GaveUp(w) /\ "torn" \in mishaps'
    <3> HIDE DEF m
    <3> QED
      BY <1>1, <1>6, FailsOutcome
  <2>2. Rewrites(w)
    BY <1>3, <1>6, <2>1
  <2>3. Result(w)
    BY <1>1, <2>1 DEF Result, GoesOn, Follows, LeavesOff
  <2> QED
    BY <1>6, <2>1, <2>2, <2>3 DEF KeyedStep, Noted, Effect
<1> QED
  BY <1>2, <1>4, <1>5, <1>6 DEF UpdateKeyed

\* A delete is answered: what was named is gone, or a look follows.
LEMMA ErasedResult ==
    ASSUME Base, NEW w \in Workers, pc[w] # "idle", job[w].op = "delete",
           Answer(w, NoHandle),
           job[w].again => "guess" \in mishaps' \/ \A e \in zone' : e.id # job[w].handle.id
    PROVE  Result(w)
<1>1. "verify" \in Mid
  BY DEF Mid, Steps
<1>2. \/ ~job[w].again /\ \E j \in JobType : Moves(w, "verify", j) /\ Stays(w, j)
      \/ job[w].again /\ Dropped(w)
  BY AnswerOutcome
<1> QED
  BY <1>1, <1>2 DEF Result, GoesOn, Follows, Withdraws

LEMMA DeleteCallStep ==
    ASSUME Base, adapter \in Keyed, NEW w \in Workers, pc[w] # "idle", job[w].op = "delete",
           \/ Erase(job[w].handle.id) /\ Ok(w, NoHandle) /\ UNCHANGED faults
           \/ Fault /\ (Erase(job[w].handle.id) \/ Nothing) /\ Fails(w)
    PROVE  KeyedStep(w)
<1>1. CASE Erase(job[w].handle.id) /\ Ok(w, NoHandle) /\ UNCHANGED faults
  <2>1. \A e \in zone' : e.id # job[w].handle.id
    BY <1>1 DEF Erase
  <2>2. mishaps' = mishaps /\ Answer(w, NoHandle) /\ mishaps \subseteq Mishaps
    BY <1>1 DEF Ok, Base, Typed
  <2> QED
    BY <1>1, <2>1, <2>2, ErasedResult DEF KeyedStep, Noted, Effect, Erases
<1>2. CASE Fault /\ (Erase(job[w].handle.id) \/ Nothing) /\ Fails(w)
  BY <1>2, FailsResult DEF KeyedStep, Noted, Effect, Erases
<1> QED
  BY <1>1, <1>2

LEMMA DeleteKeyedStep ==
    ASSUME Base, adapter \in Keyed, NEW w \in Workers, pc[w] # "idle", job[w].op = "delete",
           DeleteKeyed(w)
    PROVE  KeyedStep(w)
BY DeleteCallStep DEF DeleteKeyed, Call

LEMMA VerifyStep ==
    ASSUME Base, adapter \in Keyed, NEW w \in Workers, pc[w] # "idle", job[w].op = "delete",
           Verify(w)
    PROVE  KeyedStep(w)
<1>1. /\ Nothing /\ Effect(w) /\ "delete" \in Mid /\ "verify" \in Mid /\ {} \subseteq Mishaps
      /\ mishaps \subseteq Mishaps /\ job[w].rec \in Recs /\ Attempts \in 0..Attempts
  <2>1. Nothing /\ Effect(w)
    BY DEF Verify, Nothing, Effect
  <2>2. "delete" \in Mid /\ "verify" \in Mid /\ mishaps \subseteq Mishaps
    BY DEF Mid, Steps, Base, Typed
  <2> QED
    BY <2>1, <2>2, InHandFacts, ConstantsAssumption
<1>2. CASE Find(job[w].rec) = {} /\ RowGone(w) /\ UNCHANGED <<mishaps, faults>>
  <2>1. job[w].rec \notin Served'
    BY <1>1, <1>2, FindNothing, ServedKept
  <2> QED
    BY <1>1, <1>2, <2>1 DEF KeyedStep, Noted, Result, Withdraws, Dropped
<1>3. ASSUME NEW h \in Find(job[w].rec), UNCHANGED faults, Note(Mistaken(h)),
             Goto(w, "delete", [job[w] EXCEPT !.handle = h, !.again = TRUE, !.tries = Attempts])
      PROVE  KeyedStep(w)
  <2> DEFINE j == [job[w] EXCEPT !.handle = h, !.again = TRUE, !.tries = Attempts]
  <2>1. mishaps' = mishaps \cup Mistaken(h) /\ Mistaken(h) \subseteq Mishaps
    BY <1>3 DEF Note, Mistaken, Mishaps
  <2>2. PICK e \in zone : h \in Handles /\ h = Id(e.id, job[w].rec) /\ FoundIn(job[w].rec, e)
    BY <1>3, <2>1, FindKeyed
  <2>3. /\ j \in JobType /\ j.op = job[w].op /\ j.rec = job[w].rec /\ j.new = job[w].new
        /\ j.handle = h /\ j.again
    <3>1. job[w] \in JobType
      BY InHandFacts
    <3> QED
      BY <2>2, <3>1, AgainTyped
  <2>4. Goto(w, "delete", j)
    BY <1>3
  <2> HIDE DEF j
  <2>5. Moves(w, "delete", j)
    BY <1>1, <2>3, <2>4, MoveTo
  <2>6. GoesOn(w, "delete", j)
    BY <1>1, <2>2, <2>3, <2>5 DEF GoesOn, Follows
  <2> QED
    BY <1>1, <1>3, <2>1, <2>3, <2>6 DEF KeyedStep, Noted, Result
<1>4. CASE Fault /\ FailsFor(w, "verify", {})
  <2>1. /\ mishaps \subseteq mishaps' /\ mishaps' \subseteq Mishaps
        /\ \/ \E j \in JobType : Moves(w, "verify", j) /\ Stays(w, j) /\ j.tries < Attempts
           \/ GaveUp(w)
    BY <1>1, <1>4, FailsOutcome
  <2>2. Result(w)
    BY <1>1, <2>1 DEF Result, GoesOn, Follows, LeavesOff
  <2> QED
    BY <1>1, <1>4, <2>1, <2>2 DEF KeyedStep, Noted
<1> QED
  BY <1>2, <1>3, <1>4 DEF Verify

LEMMA CloudflareDeleteStep ==
    ASSUME Base, adapter \in Keyed, NEW w \in Workers, pc[w] # "idle", job[w].op = "delete",
           CloudflareDelete(w)
    PROVE  KeyedStep(w)
<1>1. /\ mishaps \subseteq Mishaps /\ "exists" \in Mid /\ "guess" \in Mishaps
  BY DEF Base, Typed, Mid, Steps, Mishaps
<1>2. ASSUME To(w, "exists") PROVE Result(w) /\ mishaps' = mishaps
  <2>1. GoOn(w, "exists") /\ mishaps' = mishaps
    BY <1>2 DEF To
  <2> QED
    BY <1>1, <2>1, ToResult
<1>3. CASE /\ pc[w] = "delete"
           /\ \/ Call(Erase(job[w].handle.id), Ok(w, NoHandle), To(w, "exists"))
              \/ To(w, "exists") /\ UNCHANGED <<provVars, faults>>
  <2>1. CASE Erase(job[w].handle.id) /\ Ok(w, NoHandle) /\ UNCHANGED faults
    BY <2>1, DeleteCallStep
  <2>2. CASE Fault /\ (Erase(job[w].handle.id) \/ Nothing) /\ To(w, "exists")
    BY <1>1, <1>2, <2>2 DEF KeyedStep, Noted, Effect, Erases
  <2>3. CASE To(w, "exists") /\ UNCHANGED <<provVars, faults>>
    BY <1>1, <1>2, <2>3 DEF KeyedStep, Noted, Effect, Nothing
  <2> QED
    BY <1>3, <2>1, <2>2, <2>3 DEF Call
<1>4. CASE /\ pc[w] = "exists" /\ UNCHANGED provVars
           /\ \/ Fails(w) /\ UNCHANGED faults
              \/ Fault /\ Answer(w, NoHandle) /\ Note(IF job[w].again THEN {"guess"} ELSE {})
              \/ /\ ~\E e \in zone : e.id = job[w].handle.id
                 /\ Ok(w, NoHandle) /\ UNCHANGED faults
  <2>1. Nothing /\ Effect(w)
    BY <1>4 DEF Nothing, Effect
  <2>2. CASE Fails(w) /\ UNCHANGED faults
    BY <2>1, <2>2, FailsResult DEF KeyedStep, Noted
  <2>3. CASE Fault /\ Answer(w, NoHandle) /\ Note(IF job[w].again THEN {"guess"} ELSE {})
    <3>1. /\ mishaps' = mishaps \cup (IF job[w].again THEN {"guess"} ELSE {})
      BY <2>3 DEF Note
    <3> QED
      BY <1>1, <2>1, <2>3, <3>1, ErasedResult DEF KeyedStep, Noted
  <2>4. CASE /\ ~\E e \in zone : e.id = job[w].handle.id
             /\ Ok(w, NoHandle) /\ UNCHANGED faults
    <3>1. mishaps' = mishaps /\ Answer(w, NoHandle) /\ zone' = zone
      BY <2>1, <2>4, ServedKept DEF Ok
    <3> QED
      BY <1>1, <2>1, <2>4, <3>1, ErasedResult DEF KeyedStep, Noted
  <2> QED
    BY <1>4, <2>2, <2>3, <2>4
<1>5. CASE Verify(w)
  BY <1>5, VerifyStep
<1> QED
  BY <1>3, <1>4, <1>5 DEF CloudflareDelete

\* An answer of DNSLA that says nothing of the refusal.
LEMMA SilentStep ==
    ASSUME Base, adapter \in Keyed, NEW w \in Workers, pc[w] # "idle", Silent(w),
           \/ job[w].op = "create" /\ GoOn(w, "add")
           \/ /\ job[w].op = "create" /\ Ends(w)
              /\ unsure' = unsure \cup {job[w].rec} /\ UNCHANGED <<held, gone>>
           \/ job[w].op = "update" /\ Answer(w, held[job[w].rec])
           \/ job[w].op = "delete" /\ Answer(w, NoHandle)
           \/ job[w].op = "delete" /\ RowGone(w)
    PROVE  KeyedStep(w)
<1>1. /\ mishaps' = mishaps \cup {"silent"} /\ Noted /\ Effect(w)
  BY DEF Silent, Note, Base, Typed, Mishaps, Noted, Effect, Nothing
<1>2. ASSUME NEW s \in Mid, NEW j \in JobType, Moves(w, s, j), Stays(w, j) PROVE Outcome(w)
  <2>1. adapter \in Keyed => j.handle.id < nextId'
    BY <1>2 DEF Stays, Base, IdsOK, Silent, provVars
  <2> QED
    BY <1>2, <2>1 DEF Outcome, Mid
<1>3. Outcome(w)
  <2>1. CASE job[w].op = "create" /\ GoOn(w, "add")
    <3>1. "add" \in Mid
      BY DEF Mid, Steps
    <3> QED
      BY <1>2, <2>1, <3>1, GoOnOutcome
  <2>2. CASE /\ job[w].op = "create" /\ Ends(w)
             /\ unsure' = unsure \cup {job[w].rec} /\ UNCHANGED <<held, gone>>
    <3>1. job[w].new = job[w].rec
      BY <2>2, InHandFacts
    <3> QED
      BY <2>2, <3>1 DEF Outcome, GaveUp
  <2>3. CASE job[w].op = "update" /\ Answer(w, held[job[w].rec])
    BY <2>3, AnswerOutcome DEF Outcome
  <2>4. CASE job[w].op = "delete" /\ Answer(w, NoHandle)
    <3>1. "verify" \in Mid
      BY DEF Mid, Steps
    <3>2. \/ \E j \in JobType : Moves(w, "verify", j) /\ Stays(w, j)
          \/ Dropped(w)
      BY <2>4, AnswerOutcome
    <3> QED
      BY <1>2, <3>1, <3>2 DEF Outcome
  <2>5. CASE job[w].op = "delete" /\ RowGone(w)
    BY <2>5 DEF Outcome, Dropped
  <2> QED
    BY <2>1, <2>2, <2>3, <2>4, <2>5
<1> QED
  BY <1>1, <1>3 DEF KeyedStep, Result

LEMMA BaiduLearnStep ==
    ASSUME Base, adapter \in Keyed, NEW w \in Workers, pc[w] = "learn", job[w].op = "create",
           UNCHANGED provVars,
           \/ /\ \/ Find(job[w].rec) = {} /\ Ok(w, Text(job[w].rec))
                 \/ \E h \in Find(job[w].rec) : Takes(w, h)
              /\ UNCHANGED faults
           \/ Fault /\ Ok(w, Text(job[w].rec))
    PROVE  KeyedStep(w)
<1>1. /\ Nothing /\ Effect(w) /\ mishaps \subseteq Mishaps /\ job[w].rec \in Recs
      /\ pc[w] # "idle"
  BY InHandFacts DEF Nothing, Effect, Base, Typed
<1>2. ASSUME Ok(w, Text(job[w].rec)) PROVE Result(w) /\ mishaps' = mishaps
  <2>1. /\ Text(job[w].rec) \in Handles /\ Text(job[w].rec).id = 0
        /\ Text(job[w].rec).rec = job[w].rec
    BY <1>1, HandleFacts
  <2>2. MadeAs(w, Text(job[w].rec))
    BY <1>1, <1>2, <2>1, AnswerOutcome DEF Ok
  <2> QED
    BY <1>1, <1>2, <2>1, <2>2 DEF Result, Enters, Ok
<1>3. CASE UNCHANGED faults /\ \E h \in Find(job[w].rec) : Takes(w, h)
  BY <1>1, <1>3, TakesResult DEF KeyedStep, Noted
<1> QED
  BY <1>1, <1>2, <1>3 DEF KeyedStep, Noted

\* The id behind a text is looked up before the record is removed.
LEMMA BaiduResolveStep ==
    ASSUME Base, adapter \in Keyed, NEW w \in Workers, pc[w] # "idle", job[w].op = "delete",
           job[w].handle.id = 0, UNCHANGED provVars,
           \/ To(w, "remove") /\ (UNCHANGED faults \/ Fault)
           \/ /\ \E h \in Find(job[w].handle.rec) :
                    Goto(w, "remove", [job[w] EXCEPT !.handle = h]) /\ Note(Mistaken(h))
              /\ UNCHANGED faults
    PROVE  KeyedStep(w)
<1>1. /\ Nothing /\ Effect(w) /\ mishaps \subseteq Mishaps /\ "remove" \in Mid
  <2>1. Nothing /\ Effect(w)
    BY DEF Nothing, Effect
  <2> QED
    BY <2>1 DEF Base, Typed, Mid, Steps
<1>2. CASE To(w, "remove") /\ (UNCHANGED faults \/ Fault)
  <2>1. GoOn(w, "remove") /\ mishaps' = mishaps
    BY <1>2 DEF To
  <2> QED
    BY <1>1, <1>2, <2>1, ToResult DEF KeyedStep, Noted
<1>3. ASSUME NEW h \in Find(job[w].handle.rec), UNCHANGED faults, Note(Mistaken(h)),
             Goto(w, "remove", [job[w] EXCEPT !.handle = h])
      PROVE  KeyedStep(w)
  <2> DEFINE j == [job[w] EXCEPT !.handle = h]
  <2>1. mishaps' = mishaps \cup Mistaken(h) /\ Mistaken(h) \subseteq Mishaps
    BY <1>3 DEF Note, Mistaken, Mishaps
  <2>2. PICK e \in zone : /\ h \in Handles /\ h = Id(e.id, job[w].handle.rec)
                          /\ FoundIn(job[w].handle.rec, e)
    BY <1>3, <2>1, FindKeyed
  <2>3. /\ j \in JobType /\ j.op = job[w].op /\ j.rec = job[w].rec /\ j.new = job[w].new
        /\ j.handle = h /\ j.again = job[w].again
    BY <1>1, <2>2, InHandFacts DEF JobType
  <2>4. Goto(w, "remove", j)
    BY <1>3
  <2> HIDE DEF j
  <2>5. Moves(w, "remove", j)
    BY <1>1, <2>3, <2>4, MoveTo
  <2>6. GoesOn(w, "remove", j)
    BY <1>1, <2>2, <2>3, <2>5 DEF GoesOn, Follows
  <2> QED
    BY <1>1, <1>3, <2>1, <2>3, <2>6 DEF KeyedStep, Noted, Result
<1> QED
  BY <1>2, <1>3

\* A text for which no record was found: there is nothing to remove.
LEMMA BaiduRemoveStep ==
    ASSUME Base, adapter \in Keyed, NEW w \in Workers, pc[w] # "idle", job[w].op = "delete",
           Call(IF job[w].handle.id = 0 THEN Nothing ELSE Erase(job[w].handle.id),
                Ok(w, NoHandle), Fails(w))
    PROVE  KeyedStep(w)
<1>1. CASE job[w].handle.id # 0
  BY <1>1, DeleteCallStep DEF Call
<1>2. CASE job[w].handle.id = 0
  <2>1. CASE Nothing /\ Ok(w, NoHandle) /\ UNCHANGED faults
    <3>1. \A e \in zone' : e.id # 0
      BY <2>1, ServedKept DEF Base, ZoneOK
    <3>2. mishaps' = mishaps /\ Answer(w, NoHandle) /\ mishaps \subseteq Mishaps
      BY <2>1 DEF Ok, Base, Typed
    <3> QED
      BY <1>2, <2>1, <3>1, <3>2, ErasedResult DEF KeyedStep, Noted, Effect
  <2>2. CASE Fault /\ Nothing /\ Fails(w)
    BY <2>2, DeleteCallStep
  <2> QED
    BY <1>2, <2>1, <2>2 DEF Call
<1> QED
  BY <1>1, <1>2

-----------------------------------------------------------------------------
\* The adapters.

LEMMA CreateKeyedStep ==
    ASSUME Base, adapter \in Keyed, adapter' = adapter, NEW w \in Workers, pc[w] # "idle", job[w].op = "create",
           NEW strict \in BOOLEAN, CreateKeyed(w, strict)
    PROVE  KeyedStep(w)
<1>1. CASE PreCheck(w, strict)
  BY <1>1, PreCheckStep
<1>2. CASE Add(w, Exists(w), "done")
  <2>1. Add(w, TRUE, "done")
    BY <1>2 DEF Add
  <2> QED
    BY <2>1, AddStep
<1>3. CASE Recheck(w)
  BY <1>3, RecheckStep
<1> QED
  BY <1>1, <1>2, <1>3 DEF CreateKeyed

LEMMA HuaweiCreateStep ==
    ASSUME Base, adapter \in Keyed, adapter' = adapter, NEW w \in Workers, pc[w] # "idle", job[w].op = "create",
           HuaweiCreate(w)
    PROVE  KeyedStep(w)
<1>1. CASE PreCheck(w, TRUE)
  BY <1>1, PreCheckStep
<1>2. CASE Add(w, Exists(w) \/ SetOf(job[w].rec) # {}, "done")
  <2>1. Add(w, TRUE, "done")
    BY <1>2 DEF Add
  <2> QED
    BY <2>1, AddStep
<1>3. CASE Recheck(w)
  BY <1>3, RecheckStep
<1> QED
  BY <1>1, <1>2, <1>3 DEF HuaweiCreate

LEMMA BaiduCreateStep ==
    ASSUME Base, adapter \in Keyed, adapter' = adapter, NEW w \in Workers, pc[w] # "idle", job[w].op = "create",
           BaiduCreate(w)
    PROVE  KeyedStep(w)
<1>1. CASE PreCheck(w, FALSE)
  BY <1>1, PreCheckStep
<1>2. CASE Add(w, Exists(w), "learn")
  <2>1. Add(w, TRUE, "learn")
    BY <1>2 DEF Add
  <2> QED
    BY <2>1, AddStep
<1>3. CASE Recheck(w)
  BY <1>3, RecheckStep
<1>4. CASE /\ pc[w] = "learn"
           /\ UNCHANGED provVars
           /\ LET found == Find(job[w].rec) IN
              \/ /\ IF found = {} THEN Ok(w, Text(job[w].rec)) ELSE \E h \in found : Takes(w, h)
                 /\ UNCHANGED faults
              \/ /\ Fault
                 /\ Ok(w, Text(job[w].rec))
  BY <1>4, BaiduLearnStep
<1> QED
  BY <1>1, <1>2, <1>3, <1>4 DEF BaiduCreate

LEMMA BaiduDeleteStep ==
    ASSUME Base, adapter \in Keyed, NEW w \in Workers, pc[w] # "idle", job[w].op = "delete",
           BaiduDelete(w)
    PROVE  KeyedStep(w)
<1>1. CASE /\ pc[w] = "delete" /\ job[w].handle.id = 0
           /\ UNCHANGED provVars
           /\ LET found == Find(job[w].handle.rec) IN
              \/ /\ IF found = {} THEN To(w, "remove")
                    ELSE \E h \in found :
                            Goto(w, "remove", [job[w] EXCEPT !.handle = h]) /\ Note(Mistaken(h))
                 /\ UNCHANGED faults
              \/ /\ Fault
                 /\ To(w, "remove")
  BY <1>1, BaiduResolveStep
<1>2. CASE job[w].handle.id # 0 /\ DeleteKeyed(w)
  BY <1>2, DeleteKeyedStep
<1>3. CASE /\ pc[w] = "remove"
           /\ Call(IF job[w].handle.id = 0 THEN Nothing ELSE Erase(job[w].handle.id),
                   Ok(w, NoHandle), Fails(w))
  BY <1>3, BaiduRemoveStep
<1>4. CASE Verify(w)
  BY <1>4, VerifyStep
<1> QED
  BY <1>1, <1>2, <1>3, <1>4 DEF BaiduDelete

LEMMA DNSLAStep ==
    ASSUME Base, adapter \in Keyed, adapter' = adapter, NEW w \in Workers, pc[w] # "idle",
           \/ job[w].op = "create" /\ DNSLACreate(w)
           \/ job[w].op = "update" /\ DNSLAUpdate(w)
           \/ job[w].op = "delete" /\ DNSLADelete(w)
    PROVE  KeyedStep(w)
<1>1. CASE job[w].op = "create" /\ DNSLACreate(w)
  BY <1>1, CreateKeyedStep, SilentStep DEF DNSLACreate
<1>2. CASE job[w].op = "update" /\ DNSLAUpdate(w)
  BY <1>2, UpdateKeyedStep, SilentStep DEF DNSLAUpdate
<1>3. CASE job[w].op = "delete" /\ DNSLADelete(w)
  BY <1>3, DeleteKeyedStep, VerifyStep, SilentStep DEF DNSLADelete
<1> QED
  BY <1>1, <1>2, <1>3

LEMMA CallsKeyed ==
    ASSUME Base, adapter \in Keyed, NEW w \in Workers, Calls(w)
    PROVE  pc[w] # "idle" /\ KeyedStep(w)
<1>1. pc[w] # "idle" /\ adapter' = adapter
  BY DEF Calls, Same
<1>2. CASE job[w].op = "create" /\ Creates(w)
  <2>1. \/ CreateKeyed(w, TRUE) \/ CreateKeyed(w, FALSE) \/ HuaweiCreate(w)
        \/ BaiduCreate(w) \/ DNSLACreate(w)
    BY <1>2 DEF Creates, Keyed, CloudflareCreate, DNSPodCreate, AliyunCreate, DNSComCreate,
                WestCNCreate
  <2> QED
    BY <1>1, <1>2, <2>1, CreateKeyedStep, HuaweiCreateStep, BaiduCreateStep, DNSLAStep
<1>3. CASE job[w].op = "update" /\ Updates(w)
  <2>1. UpdateKeyed(w) \/ DNSLAUpdate(w)
    BY <1>3 DEF Updates, Keyed, CloudflareUpdate, DNSPodUpdate, AliyunUpdate, HuaweiUpdate,
                BaiduUpdate, DNSComUpdate, WestCNUpdate
  <2> QED
    BY <1>1, <1>3, <2>1, UpdateKeyedStep, DNSLAStep
<1>4. CASE job[w].op = "delete" /\ Deletes(w)
  <2>1. \/ CloudflareDelete(w) \/ DeleteKeyed(w) \/ Verify(w)
        \/ BaiduDelete(w) \/ DNSLADelete(w)
    BY <1>4 DEF Deletes, Keyed, DNSPodDelete, AliyunDelete, HuaweiDelete, DNSComDelete,
                WestCNDelete
  <2> QED
    BY <1>1, <1>4, <2>1, CloudflareDeleteStep, DeleteKeyedStep, VerifyStep, BaiduDeleteStep,
       DNSLAStep
<1> QED
  BY <1>1, <1>2, <1>3, <1>4 DEF Calls

-----------------------------------------------------------------------------
\* What a step leaves of the records.

LEMMA EffectZone ==
    ASSUME Base, adapter \in Keyed, adapter' = adapter, NEW w \in Workers, pc[w] # "idle",
           Effect(w)
    PROVE  /\ NextZone
           /\ \A e \in zone' :
                 \/ e \in zone
                 \/ Adds(w) /\ e.id = nextId /\ e.recs = {job[w].rec}
                 \/ Rewrites(w) /\ e.id = held[job[w].rec].id /\ e.recs = {job[w].new}
           /\ \A e \in zone :
                 \/ e \in zone'
                 \/ Rewrites(w) /\ e.id = held[job[w].rec].id
                 \/ Erases(w) /\ e.id = job[w].handle.id
<1>1. ZoneOK /\ nextId \in 1..(MaxIds + 1) /\ nextId \in Int /\ zone \subseteq Entries
      /\ job[w].rec \in Recs /\ job[w].new \in Recs
  BY InHandFacts DEF Base, Typed, ZoneOK
<1>2. CASE Nothing
  <2>1. zone' = zone /\ nextId' = nextId
    BY <1>2 DEF Nothing, provVars
  <2>2. ZoneOK'
    BY <1>1, <2>1 DEF ZoneOK, Entries
  <2> QED
    BY <1>1, <2>1, <2>2 DEF NextZone
<1>3. CASE Adds(w)
  <2>1. /\ ZoneOK' /\ nextId' \in 1..(MaxIds + 1) /\ nextId <= nextId'
        /\ zone' = zone \cup {[id |-> nextId, recs |-> {job[w].rec}]}
    BY <1>1, <1>3, AddZone DEF Adds
  <2> QED
    BY <1>3, <2>1 DEF NextZone
<1>4. CASE Rewrites(w)
  <2> DEFINE n == held[job[w].rec].id
  <2>1. Rewrite(n, job[w].new)
    BY <1>4 DEF Rewrites
  <2> HIDE DEF n
  <2>2. /\ ZoneOK' /\ nextId' = nextId
        /\ \A f \in zone' : \E e \in zone :
              f.id = e.id /\ (e.id = n => f.recs = {job[w].new}) /\ (e.id # n => f.recs = e.recs)
        /\ \A e \in zone : \E f \in zone' :
              f.id = e.id /\ (e.id = n => f.recs = {job[w].new}) /\ (e.id # n => f.recs = e.recs)
    BY <1>1, <2>1, RewriteZone
  <2>3. zone' \subseteq Entries
    BY <2>2 DEF ZoneOK, Entries
  <2>4. \A e, f \in Entries : e.id = f.id /\ e.recs = f.recs => e = f
    BY DEF Entries
  <2>5. NextZone
    BY <1>1, <2>2 DEF NextZone
  <2>6. ASSUME NEW f \in zone', f.id # n PROVE f \in zone
    <3>1. PICK e \in zone :
              f.id = e.id /\ (e.id = n => f.recs = {job[w].new}) /\ (e.id # n => f.recs = e.recs)
      BY <2>2
    <3>2. e = f
      BY <1>1, <2>3, <2>4, <2>6, <3>1
    <3> QED
      BY <3>2
  <2>7. ASSUME NEW e \in zone, e.id # n PROVE e \in zone'
    <3>1. PICK f \in zone' :
              f.id = e.id /\ (e.id = n => f.recs = {job[w].new}) /\ (e.id # n => f.recs = e.recs)
      BY <2>2
    <3>2. e = f
      BY <1>1, <2>3, <2>4, <2>7, <3>1
    <3> QED
      BY <3>2
  <2>8. \A f \in zone' : f.id = n => f.recs = {job[w].new}
    BY <2>2
  <2> QED
    BY <1>4, <2>5, <2>6, <2>7, <2>8 DEF n
<1>5. CASE Erases(w)
  <2>1. ZoneOK' /\ nextId' = nextId /\ zone' = {e \in zone : e.id # job[w].handle.id}
    BY <1>5, EraseZone DEF Erases
  <2> QED
    BY <1>1, <1>5, <2>1 DEF NextZone
<1> QED
  BY <1>2, <1>3, <1>4, <1>5 DEF Effect

\* Nothing but the worker's own values comes to be served.
LEMMA EffectServed ==
    ASSUME Base, adapter \in Keyed, adapter' = adapter, NEW w \in Workers, pc[w] # "idle",
           Effect(w), NEW x \in Served'
    PROVE  x \in Served \/ x \in Hands(w)
<1>1. PICK e \in zone' : x \in e.recs
  BY DEF Served
<1>2. e \in zone \/ e.recs = {job[w].rec} \/ e.recs = {job[w].new}
  BY EffectZone
<1> QED
  BY <1>1, <1>2 DEF Served, Hands

LEMMA ResultOutcome ==
    ASSUME Base, adapter \in Keyed, adapter' = adapter, NEW w \in Workers, pc[w] # "idle",
           NextZone, Result(w)
    PROVE  Outcome(w)
<1>1. /\ nextId \in Int /\ nextId' \in Int /\ nextId <= nextId' /\ 0 < nextId'
      /\ job[w].handle.id < nextId /\ job[w].handle.id \in Int
  <2>1. job[w].handle \in Handles \cup {NoHandle}
    BY InHandFacts DEF JobType
  <2> QED
    BY <2>1, HandleFacts, ConstantsAssumption DEF Base, IdsOK, Typed, NextZone
<1>2. /\ \A e \in zone : e.id \in Int /\ e.id < nextId
      /\ \A e \in zone' : e.id < nextId'
  BY ConstantsAssumption DEF Base, ZoneOK, Entries, NextZone
<1>3. ASSUME NEW s \in Mid, NEW j \in JobType, GoesOn(w, s, j)
      PROVE  Outcome(w)
  <2>1. j.handle.id < nextId'
    <3>1. j.handle = job[w].handle \/ \E e \in zone : \E r : j.handle = Id(e.id, r)
      BY <1>3 DEF GoesOn, Follows, Stays
    <3>2. \A e \in zone : \A r : Id(e.id, r).id = e.id
      BY DEF Id
    <3> QED
      BY <1>1, <1>2, <3>1, <3>2
  <2> QED
    BY <1>3, <2>1 DEF Outcome, GoesOn, Mid
<1>4. ASSUME NEW h \in Handles, Enters(w, h)
      PROVE  Outcome(w)
  BY <1>1, <1>2, <1>4 DEF Outcome, Enters
<1> QED
  BY <1>3, <1>4 DEF Result, Outcome, Withdraws, LeavesOff

-----------------------------------------------------------------------------
\* The invariants are kept where every record has an id.

LEMMA CopiesKeyed ==
    ASSUME Base, CopiesOK, adapter \in Keyed, adapter' = adapter,
           NEW w \in Workers, pc[w] # "idle", KeyedStep(w)
    PROVE  CopiesOK'
<1> SUFFICES ASSUME {"blind", "collided", "silent"} \cap mishaps' = {}
             PROVE  /\ \A e, f \in zone' : e.recs = f.recs => e = f
                    /\ \A v \in Workers : pc'[v] = "add" => job'[v].rec \notin Served'
  BY DEF CopiesOK
<1>1. /\ \A e, f \in zone : e.recs = f.recs => e = f
      /\ \A v \in Workers : pc[v] = "add" => job[v].rec \notin Served
  BY DEF CopiesOK, KeyedStep, Noted
<1>2. Effect(w) /\ Result(w) /\ Outcome(w) /\ NextZone
  BY EffectZone, ResultOutcome DEF KeyedStep
<1>3. \A e, f \in zone' : e.id = f.id => e = f
  BY <1>2 DEF NextZone, ZoneOK
<1>4. ASSUME NEW e \in zone', NEW f \in zone', e.recs = f.recs PROVE e = f
  <2>0. \A g \in zone' :
           \/ g \in zone
           \/ Adds(w) /\ g.id = nextId /\ g.recs = {job[w].rec}
           \/ Rewrites(w) /\ g.id = held[job[w].rec].id /\ g.recs = {job[w].new}
    BY <1>2, EffectZone
  <2>1. CASE e \in zone /\ f \in zone
    BY <1>1, <1>4, <2>1
  <2>2. ASSUME NEW d \in zone, NEW g \in zone', d.recs = g.recs, g \notin zone, d \in zone'
        PROVE  d.id = g.id
    <3>1. CASE Adds(w) /\ g.recs = {job[w].rec}
      <4>1. job[w].rec \notin Served
        BY <1>1, <3>1 DEF Adds
      <4> QED
        BY <2>2, <3>1, <4>1 DEF Served
    <3>2. CASE Rewrites(w) /\ g.id = held[job[w].rec].id /\ g.recs = {job[w].new}
      BY <2>2, <3>2 DEF Rewrites
    <3> QED
      BY <2>0, <2>2, <3>1, <3>2
  <2>3. CASE e \notin zone /\ f \notin zone
    <3>1. (Adds(w) /\ e.id = nextId) \/ (Rewrites(w) /\ e.id = held[job[w].rec].id)
      BY <2>0, <2>3
    <3>2. (Adds(w) /\ f.id = nextId) \/ (Rewrites(w) /\ f.id = held[job[w].rec].id)
      BY <2>0, <2>3
    <3>3. ~(Adds(w) /\ Rewrites(w))
      BY DEF Adds, Rewrites
    <3> QED
      BY <1>3, <3>1, <3>2, <3>3
  <2> QED
    BY <1>3, <1>4, <2>1, <2>2, <2>3
<1>5. ASSUME NEW v \in Workers, pc'[v] = "add" PROVE job'[v].rec \notin Served'
  <2>1. CASE v # w
    <3>1. pc[v] = "add" /\ job'[v] = job[v]
      BY <1>2, <1>5, <2>1, OutcomeAt
    <3>2. job[v].rec \notin Served /\ job[v].rec \notin Hands(w)
      BY <1>1, <2>1, <3>1, InHandFacts
    <3> QED
      BY <1>2, <3>1, <3>2, EffectServed
  <2>2. CASE v = w
    <3>1. /\ ~(Ends(w))
      BY <1>5, <2>2 DEF Ends, Base, Typed
    <3>2. "silent" \notin mishaps' /\ "blind" \notin mishaps'
      OBVIOUS
    <3>3. PICK s \in Mid : \E j \in JobType : GoesOn(w, s, j)
      BY <1>2, <3>1, <3>2
         DEF Result, Enters, MadeAs, Replaced, Withdraws, Dropped, RowGone, LeavesOff, GaveUp
    <3>4. PICK j \in JobType : GoesOn(w, s, j)
      BY <3>3
    <3>5. pc'[w] = s /\ job'[w] = j /\ j.rec = job[w].rec
      BY <3>4 DEF GoesOn, Moves, Goto, Base, Typed
    <3> QED
      BY <1>5, <2>2, <3>2, <3>4, <3>5 DEF GoesOn
  <2> QED
    BY <2>1, <2>2
<1> QED
  BY <1>4, <1>5

LEMMA GoneKeyed ==
    ASSUME Base, CopiesOK, GoneOK, adapter \in Keyed, adapter' = adapter,
           NEW w \in Workers, pc[w] # "idle", KeyedStep(w), CopiesOK'
    PROVE  GoneOK'
<1> SUFFICES ASSUME {"blind", "collided", "silent", "stale", "guess"} \cap mishaps' = {}
             PROVE
      /\ \A r \in gone' : Plain(r) => r \notin Served'
      /\ \A r \in Recs, e \in zone' :
            Plain(r) /\ held'[r] # NoHandle /\ r \in e.recs => held'[r].id \in {0, e.id}
      /\ \A v \in Workers : pc'[v] # "idle" /\ job'[v].op = "delete" /\ job'[v].again =>
            /\ job'[v].handle.rec = job'[v].rec
            /\ job'[v].handle.id # 0
            /\ \A e \in zone' : Plain(job'[v].rec) /\ job'[v].rec \in e.recs =>
                                   e.id = job'[v].handle.id
  <2>1. adapter' # "route53" /\ \A r : Plain(r)' <=> Plain(r)
    BY DEF Keyed, Plain
  <2> QED
    BY <2>1 DEF GoneOK, Plain
<1> DEFINE r0 == job[w].rec
           n0 == job[w].new
<1>1. /\ \A r \in gone : Plain(r) => r \notin Served
      /\ \A r \in Recs, e \in zone :
            Plain(r) /\ held[r] # NoHandle /\ r \in e.recs => held[r].id \in {0, e.id}
      /\ \A v \in Workers : pc[v] # "idle" /\ job[v].op = "delete" /\ job[v].again =>
            /\ job[v].handle.rec = job[v].rec
            /\ job[v].handle.id # 0
            /\ \A e \in zone : Plain(job[v].rec) /\ job[v].rec \in e.recs =>
                                   e.id = job[v].handle.id
  BY DEF GoneOK, KeyedStep, Noted
<1>2. Effect(w) /\ Result(w) /\ Outcome(w) /\ NextZone
  BY EffectZone, ResultOutcome DEF KeyedStep
<1>3. /\ \A e, f \in zone : e.recs = f.recs => e = f
      /\ \A e, f \in zone' : e.recs = f.recs => e = f
      /\ "blind" \notin mishaps' /\ "collided" \notin mishaps' /\ "silent" \notin mishaps'
      /\ "guess" \notin mishaps'
  BY DEF CopiesOK, KeyedStep, Noted
<1>4. /\ \A e \in zone, r \in Recs : r \in e.recs => e.recs = {r}
      /\ \A e \in zone', r \in Recs : r \in e.recs => e.recs = {r}
      /\ \A e \in zone : e.id # 0
      /\ \A e, f \in zone' : e.id = f.id => e = f
  BY <1>2 DEF NextZone, Base, ZoneOK
<1>5. \A e \in zone' :
         \/ e \in zone
         \/ Adds(w) /\ e.id = nextId /\ e.recs = {r0}
         \/ Rewrites(w) /\ e.id = held[r0].id /\ e.recs = {n0}
  BY <1>2, EffectZone
<1>6. /\ r0 \in Recs /\ n0 \in Recs /\ r0 \notin gone /\ n0 \notin gone
      /\ Hands(w) = {r0, n0}
      /\ job[w].op = "create" => held[r0] = NoHandle
      /\ job[w].op = "update" => held[n0] = NoHandle /\ n0 # r0
      /\ job[w].op # "update" => n0 = r0
      /\ gone \subseteq Recs
      /\ held \in [Recs -> Handles \cup {NoHandle}] /\ pc \in [Workers -> Steps]
      /\ job \in [Workers -> JobType]
  BY InHandFacts DEF Hands, Base, Typed
\* The entry of a row that an update rewrites is its only one.
<1>7. ASSUME Rewrites(w), Plain(r0) PROVE r0 \notin Served'
  <2> SUFFICES ASSUME r0 \in Served' PROVE FALSE
    OBVIOUS
  <2>1. PICK e \in zone' : r0 \in e.recs
    BY DEF Served
  <2>2. e \in zone /\ held[r0] # NoHandle
    BY <1>5, <1>6, <1>7, <2>1, InHandFacts, HandleFacts DEF Adds, Rewrites
  <2>3. held[r0].id = e.id
    <3>1. held[r0].id # 0
      BY <1>4, <1>7 DEF Rewrites
    <3> QED
      BY <1>1, <1>6, <1>7, <2>1, <2>2, <3>1
  <2>4. Rewrite(held[r0].id, n0)
    BY <1>7 DEF Rewrites
  <2>5. \A f \in zone' : f.id = held[r0].id => f.recs = {n0}
    BY <1>6, <2>4, RewriteZone
  <2> QED
    BY <1>6, <1>7, <2>1, <2>3, <2>5 DEF Rewrites
<1>8. ASSUME NEW r \in gone', Plain(r) PROVE r \notin Served'
  <2>1. CASE r \in gone
    BY <1>1, <1>2, <1>6, <1>8, <2>1, EffectServed
  <2>2. CASE r \notin gone
    <3>1. r = r0
      BY <1>2, <2>2, OutcomeAt
    <3>2. \/ Rewrites(w) /\ Replaced(w)
          \/ Withdraws(w)
      <4>1. gone' # gone
        BY <2>2
      <4> QED
        BY <1>2, <1>3, <4>1 DEF Result, GoesOn, Moves, Goto, Enters, MadeAs, LeavesOff, GaveUp
    <3>3. CASE Rewrites(w)
      BY <1>7, <1>8, <3>1, <3>3
    <3>4. CASE /\ Withdraws(w) /\ job[w].again
               /\ \A e \in zone' : e.id # job[w].handle.id
      <4> SUFFICES ASSUME r \in Served' PROVE FALSE
        OBVIOUS
      <4>1. PICK e \in zone' : r0 \in e.recs
        BY <3>1 DEF Served
      <4>2. job[w].op = "delete"
        BY <3>4 DEF Withdraws, Dropped
      <4>3. e \in zone
        BY <1>5, <4>1, <4>2 DEF Adds, Rewrites
      <4> QED
        BY <1>1, <1>8, <3>1, <3>4, <4>1, <4>2, <4>3
    <3> QED
      BY <1>3, <3>1, <3>2, <3>3, <3>4 DEF Withdraws
  <2> QED
    BY <2>1, <2>2
<1>9. ASSUME NEW r \in Recs, NEW e \in zone', Plain(r), held'[r] # NoHandle, r \in e.recs
      PROVE  held'[r].id \in {0, e.id}
  <2>1. CASE held'[r] = held[r]
    <3>1. e \in zone \/ held'[r].id = e.id
      <4>1. CASE Adds(w) /\ e.recs = {r0}
        BY <1>6, <1>9, <2>1, <4>1 DEF Adds
      <4>2. CASE Rewrites(w) /\ e.recs = {n0}
        BY <1>6, <1>9, <2>1, <4>2 DEF Rewrites
      <4> QED
        BY <1>5, <4>1, <4>2
    <3> QED
      BY <1>1, <1>9, <2>1, <3>1
  <2>2. CASE held'[r] # held[r]
    <3>1. \/ \E h \in Handles : Enters(w, h)
          \/ Rewrites(w) /\ Replaced(w)
          \/ Withdraws(w)
      BY <1>2, <1>3, <2>2 DEF Result, GoesOn, Moves, Goto, LeavesOff, GaveUp
    <3>2. ASSUME NEW h \in Handles, Enters(w, h) PROVE held'[r].id \in {0, e.id}
      <4>1. held' = [held EXCEPT ![r0] = h]
        BY <3>2 DEF Enters, MadeAs
      <4>2. r = r0 /\ held'[r] = h
        BY <1>6, <2>2, <4>1
      <4>3. CASE h.id = 0
        BY <4>2, <4>3
      <4>4. CASE \E f \in zone' : f.id = h.id /\ FoundIn(r0, f)
        <5>1. PICK f \in zone' : f.id = h.id /\ r0 \in f.recs
          BY <1>9, <4>2, <4>4 DEF FoundIn
        <5>2. e.recs = {r0} /\ f.recs = {r0}
          BY <1>4, <1>6, <1>9, <4>2, <5>1
        <5>3. e = f
          BY <1>3, <5>2
        <5> QED
          BY <4>2, <5>1, <5>3
      <4> QED
        BY <3>2, <4>3, <4>4 DEF Enters
    <3>3. CASE Rewrites(w) /\ Replaced(w)
      <4>1. held' = [held EXCEPT ![r0] = NoHandle, ![n0] = held[r0]]
        BY <3>3 DEF Replaced
      <4>2. r = n0 /\ held'[r] = held[r0]
        <5>1. n0 # r0
          BY <1>6, <3>3 DEF Replaced
        <5> QED
          BY <1>6, <1>9, <2>2, <4>1, <5>1
      <4>3. CASE e \in zone
        BY <1>3, <1>9, <3>3, <4>2, <4>3 DEF Rewrites
      <4>4. CASE Rewrites(w) /\ e.id = held[r0].id
        BY <4>2, <4>4
      <4> QED
        BY <1>5, <3>3, <4>3, <4>4 DEF Adds, Replaced
    <3>4. CASE Withdraws(w)
      <4>1. held' = [held EXCEPT ![r0] = NoHandle]
        BY <3>4 DEF Withdraws, Dropped, RowGone
      <4> QED
        BY <1>6, <1>9, <2>2, <4>1
    <3> QED
      BY <3>1, <3>2, <3>3, <3>4
  <2> QED
    BY <2>1, <2>2
<1>10. ASSUME NEW v \in Workers, pc'[v] # "idle", job'[v].op = "delete", job'[v].again
       PROVE  /\ job'[v].handle.rec = job'[v].rec
              /\ job'[v].handle.id # 0
              /\ \A e \in zone' : Plain(job'[v].rec) /\ job'[v].rec \in e.recs =>
                                     e.id = job'[v].handle.id
  <2>1. CASE v # w
    <3>1. /\ pc'[v] = pc[v] /\ job'[v] = job[v]
      BY <1>2, <2>1, OutcomeAt
    <3>2. job[v].rec \notin Hands(w)
      BY <1>10, <2>1, <3>1, InHandFacts
    <3>3. \A e \in zone' : job[v].rec \in e.recs => e \in zone
      BY <1>5, <1>6, <3>2
    <3> QED
      BY <1>1, <1>10, <3>1, <3>3
  <2>2. CASE v = w
    <3>1. ~Ends(w)
      BY <1>6, <1>10, <2>2 DEF Ends
    <3>2. \E s \in Mid, j \in JobType : GoesOn(w, s, j)
      BY <1>2, <1>3, <3>1
         DEF Result, Enters, MadeAs, Replaced, Withdraws, Dropped, RowGone, LeavesOff, GaveUp
    <3>3. PICK s \in Mid : \E j \in JobType : GoesOn(w, s, j)
      BY <3>2
    <3>4. PICK j \in JobType : GoesOn(w, s, j)
      BY <3>3
    <3>5. job'[w] = j /\ j.rec = r0 /\ j.op = job[w].op /\ Follows(w, j)
      BY <1>6, <3>4 DEF GoesOn, Moves, Goto
    <3>6. job[w].op = "delete" /\ j.again
      BY <1>10, <2>2, <3>5
    <3>7. CASE Stays(w, j)
      <4>1. \A e \in zone' : r0 \in e.recs => e \in zone
        BY <1>5, <3>6 DEF Adds, Rewrites
      <4>2. j.handle = job[w].handle /\ job[w].again
        BY <3>6, <3>7 DEF Stays
      <4>3. /\ job[w].handle.rec = r0 /\ job[w].handle.id # 0
            /\ \A e \in zone : Plain(r0) /\ r0 \in e.recs => e.id = job[w].handle.id
        BY <1>1, <3>6, <4>2
      <4> QED
        BY <2>2, <3>5, <4>1, <4>2, <4>3
    <3>8. CASE /\ Nothing
               /\ \E e \in zone : j.handle = Id(e.id, r0) /\ FoundIn(r0, e)
      <4>1. PICK e \in zone : j.handle = Id(e.id, r0) /\ FoundIn(r0, e)
        BY <3>8
      <4>2. j.handle.id = e.id /\ j.handle.rec = r0 /\ zone' = zone
        BY <3>8, <4>1, ServedKept DEF Id
      <4>3. ASSUME Plain(r0), NEW f \in zone, r0 \in f.recs PROVE f.id = e.id
        <5>1. r0 \in e.recs
          BY <4>1, <4>3 DEF FoundIn
        <5>2. e.recs = {r0} /\ f.recs = {r0}
          BY <1>4, <1>6, <4>3, <5>1
        <5> QED
          BY <1>3, <5>2
      <4> QED
        BY <1>4, <2>2, <3>5, <4>2, <4>3
    <3>9. ~(job[w].again /\ job[w].handle.id = 0)
      BY <1>1, <3>6
    <3> QED
      BY <3>5, <3>6, <3>7, <3>8, <3>9 DEF Follows
  <2> QED
    BY <2>1, <2>2
<1> QED
  BY <1>8, <1>9, <1>10

LEMMA KeyedKept ==
    ASSUME Base, KeyedOK, adapter \in Keyed, adapter' = adapter,
           NEW w \in Workers, pc[w] # "idle", KeyedStep(w)
    PROVE  KeyedOK'
<1> SUFFICES ASSUME Quiet' PROVE
      /\ Rows' \ (InHand' \cup unsure') \subseteq Served'
      /\ \A r \in Recs : held'[r] # NoHandle =>
            /\ \A e \in zone' : e.id = held'[r].id => RowNames(r, e)'
            /\ held'[r].id = 0 => held'[r].rec = r
      /\ \A v \in Workers : pc'[v] # "idle" /\ job'[v].op = "delete" =>
            /\ \A e \in zone' : e.id = job'[v].handle.id => e.recs = {job'[v].rec}
            /\ job'[v].handle.id = 0 => job'[v].handle.rec = job'[v].rec
      /\ \A v \in Workers : pc'[v] = "learn" => job'[v].rec \in Served'
  BY DEF KeyedOK, RowNames
<1> DEFINE r0 == job[w].rec
           n0 == job[w].new
<1>0. "torn" \notin mishaps' /\ "silent" \notin mishaps' /\ "mixed" \notin mishaps' /\ Quiet
  BY DEF Quiet, KeyedStep, Noted
<1>1. /\ Rows \ (InHand \cup unsure) \subseteq Served
      /\ \A r \in Recs : held[r] # NoHandle =>
            /\ \A e \in zone : e.id = held[r].id => RowNames(r, e)
            /\ held[r].id = 0 => held[r].rec = r
      /\ \A v \in Workers : pc[v] # "idle" /\ job[v].op = "delete" =>
            /\ \A e \in zone : e.id = job[v].handle.id => e.recs = {job[v].rec}
            /\ job[v].handle.id = 0 => job[v].handle.rec = job[v].rec
      /\ \A v \in Workers : pc[v] = "learn" => job[v].rec \in Served
  BY <1>0 DEF KeyedOK
<1>2. Effect(w) /\ Result(w) /\ Outcome(w) /\ NextZone
  BY EffectZone, ResultOutcome DEF KeyedStep
<1>3. \A r, e : FoundIn(r, e) => r \in e.recs
  BY <1>0 DEF FoundIn
<1>4. /\ \A e \in zone, r \in Recs : r \in e.recs => e.recs = {r}
      /\ \A e \in zone', r \in Recs : r \in e.recs => e.recs = {r}
      /\ \A e \in zone : e.id # 0 /\ e.id < nextId
      /\ \A e \in zone' : e.id # 0
      /\ \A e, f \in zone : e.id = f.id => e = f
      /\ \A e, f \in zone' : e.id = f.id => e = f
  BY <1>2 DEF NextZone, Base, ZoneOK
<1>5. /\ \A e \in zone' :
            \/ e \in zone
            \/ Adds(w) /\ e.id = nextId /\ e.recs = {r0}
            \/ Rewrites(w) /\ e.id = held[r0].id /\ e.recs = {n0}
      /\ \A e \in zone :
            \/ e \in zone'
            \/ Rewrites(w) /\ e.id = held[r0].id
            \/ Erases(w) /\ e.id = job[w].handle.id
  BY <1>2, EffectZone
<1>6. /\ r0 \in Recs /\ n0 \in Recs
      /\ Hands(w) = {r0, n0}
      /\ job[w].op = "create" => held[r0] = NoHandle
      /\ job[w].op # "create" => held[r0] # NoHandle
      /\ job[w].op = "update" => held[n0] = NoHandle /\ n0 # r0
      /\ job[w].op # "update" => n0 = r0
      /\ held \in [Recs -> Handles \cup {NoHandle}] /\ pc \in [Workers -> Steps]
      /\ job \in [Workers -> JobType]
  BY InHandFacts, HandleFacts DEF Hands, Base, Typed
<1>7. /\ nextId \in Int
      /\ \A r \in Recs : held[r].id \in Int /\ held[r].id < nextId
      /\ \A v \in Workers : job[v].handle.id \in Int /\ job[v].handle.id < nextId
  BY HandleFacts, ConstantsAssumption DEF Base, Typed, IdsOK, JobType
<1>8. \A v \in Workers : v # w /\ pc[v] # "idle" =>
          job[v].rec \notin Hands(w) /\ job[v].new \notin Hands(w)
  BY InHandFacts
<1>9. \A v \in Workers : v # w => pc'[v] = pc[v] /\ job'[v] = job[v]
  BY <1>2, OutcomeAt
\* What an update names is its own row's entry.
<1>10. ASSUME job[w].op = "update", NEW e \in zone, e.id = held[r0].id
       PROVE  e.recs = {r0} \/ e.recs = {n0}
  <2>1. RowNames(r0, e)
    BY <1>1, <1>6, <1>10
  <2> QED
    BY <1>6, <1>8, <2>1 DEF RowNames
<1>11. ASSUME job[w].op = "update", NEW e \in zone, e.id = held[r0].id,
              NEW r \in Recs, held[r] # NoHandle, held[r].id = e.id
       PROVE  r = r0
  <2>1. e.recs = {r0} \/ e.recs = {n0}
    BY <1>10, <1>11
  <2>2. RowNames(r, e)
    BY <1>1, <1>11
  <2>3. r # n0
    BY <1>6, <1>11
  <2>4. CASE e.recs = {r}
    BY <2>1, <2>3, <2>4
  <2>5. CASE \E v \in Workers : /\ pc[v] # "idle" /\ job[v].op = "update" /\ job[v].rec = r
                                /\ job[v].tries < Attempts /\ e.recs = {job[v].new}
    BY <1>6, <1>8, <2>1, <2>5
  <2> QED
    BY <2>2, <2>4, <2>5 DEF RowNames
<1>12. ASSUME NEW x \in Served PROVE x \in Hands(w) \/ x \in Served'
  <2>1. PICK e \in zone : x \in e.recs
    BY DEF Served
  <2>2. CASE e \in zone'
    BY <2>1, <2>2 DEF Served
  <2>3. CASE Rewrites(w) /\ e.id = held[r0].id
    BY <1>6, <1>10, <2>1, <2>3 DEF Rewrites
  <2>4. CASE Erases(w) /\ e.id = job[w].handle.id
    BY <1>1, <1>6, <2>1, <2>4 DEF Erases
  <2> QED
    BY <1>5, <2>2, <2>3, <2>4
<1>13. ASSUME ~Ends(w)
       PROVE  \E s \in Mid, j \in JobType : GoesOn(w, s, j)
  BY <1>0, <1>2, <1>13
     DEF Result, Enters, MadeAs, Replaced, Withdraws, Dropped, RowGone, LeavesOff, GaveUp
<1>14. ASSUME NEW s \in Mid, NEW j \in JobType, GoesOn(w, s, j)
       PROVE  /\ pc'[w] = s /\ pc'[w] # "idle" /\ job'[w] = j /\ held' = held
              /\ j.op = job[w].op /\ j.rec = r0 /\ j.new = n0 /\ Follows(w, j)
  BY <1>6, <1>14 DEF GoesOn, Moves, Goto, Mid
<1>15. ASSUME Ends(w) PROVE pc'[w] = "idle"
  BY <1>6, <1>15 DEF Ends
<1>16. ASSUME Rewrites(w)
       PROVE  /\ job[w].op = "update" /\ held[r0].id # 0 /\ n0 \in Served'
              /\ \A e \in zone' : e.id = held[r0].id => e.recs = {n0}
              /\ \E e \in zone : e.id = held[r0].id
  <2>1. Rewrite(held[r0].id, n0)
    BY <1>16 DEF Rewrites
  <2>2. PICK e \in zone : e.id = held[r0].id
    BY <1>16 DEF Rewrites
  <2>3. /\ \A f \in zone' : f.id = held[r0].id => f.recs = {n0}
        /\ \E f \in zone' : f.id = held[r0].id
    BY <1>6, <2>1, <2>2, RewriteZone
  <2>4. n0 \in Served'
    BY <2>3 DEF Served
  <2> QED
    BY <1>4, <1>16, <2>2, <2>3, <2>4 DEF Rewrites
<1>20. ASSUME NEW x \in Rows', x \notin InHand', x \notin unsure' PROVE x \in Served'
  <2>0. x \in Recs /\ held'[x] # NoHandle
    BY DEF Rows
  <2>1. CASE x \notin Hands(w)
    <3>1. x \in Rows /\ x \notin unsure
      BY <1>2, <1>20, <2>0, <2>1, OutcomeAt DEF Rows
    <3>2. x \notin InHand
      BY <1>9, <1>20, <2>1 DEF InHand, Hands
    <3> QED
      BY <1>1, <1>12, <2>1, <3>1, <3>2
  <2>2. CASE x \in Hands(w)
    <3>1. Ends(w)
      <4> SUFFICES ASSUME ~Ends(w) PROVE FALSE
        OBVIOUS
      <4>1. PICK s \in Mid : \E j \in JobType : GoesOn(w, s, j)
        BY <1>13
      <4>2. PICK j \in JobType : GoesOn(w, s, j)
        BY <4>1
      <4>3. pc'[w] # "idle" /\ job'[w].rec = r0 /\ job'[w].new = n0
        BY <1>14, <4>2
      <4> QED
        BY <1>6, <1>20, <2>2, <4>3 DEF InHand
    <3>2. ~\E s \in Mid, j \in JobType : GoesOn(w, s, j)
      BY <1>14, <1>15, <3>1
    <3>3. ASSUME NEW h \in Handles, Enters(w, h) PROVE x \in Served'
      <4>1. x = r0
        BY <1>6, <2>2, <3>3 DEF Enters, MadeAs
      <4>2. CASE pc[w] = "learn" /\ Nothing
        BY <1>1, <4>1, <4>2, ServedKept
      <4>3. CASE \E e \in zone' : e.id = h.id /\ FoundIn(r0, e)
        BY <1>3, <4>1, <4>3 DEF Served
      <4> QED
        BY <3>3, <4>2, <4>3 DEF Enters
    <3>4. CASE Rewrites(w) /\ Replaced(w)
      <4>1. held' = [held EXCEPT ![r0] = NoHandle, ![n0] = held[r0]] /\ n0 # r0
        BY <1>6, <3>4 DEF Replaced
      <4>2. x = n0
        BY <1>6, <2>0, <2>2, <4>1
      <4> QED
        BY <1>16, <3>4, <4>2
    <3>5. CASE Withdraws(w)
      <4>1. held' = [held EXCEPT ![r0] = NoHandle] /\ n0 = r0
        BY <1>6, <3>5 DEF Withdraws, Dropped, RowGone
      <4> QED
        BY <1>6, <2>0, <2>2, <4>1
    <3>6. CASE LeavesOff(w)
      BY <1>6, <1>20, <2>2, <3>6 DEF LeavesOff, GaveUp
    <3> QED
      BY <1>0, <1>2, <3>2, <3>3, <3>4, <3>5, <3>6 DEF Result
  <2> QED
    BY <2>1, <2>2
<1>21. ASSUME NEW r \in Recs, held'[r] # NoHandle
       PROVE  /\ \A e \in zone' : e.id = held'[r].id => RowNames(r, e)'
              /\ held'[r].id = 0 => held'[r].rec = r
  <2>1. CASE held'[r] = held[r]
    <3>1. ASSUME NEW e \in zone', e.id = held'[r].id PROVE RowNames(r, e)'
      <4>1. CASE e \in zone
        <5>1. RowNames(r, e)
          BY <1>1, <1>21, <2>1, <3>1, <4>1
        <5>2. CASE e.recs = {r}
          BY <5>2 DEF RowNames
        <5>3. ASSUME NEW v \in Workers, pc[v] # "idle", job[v].op = "update", job[v].rec = r,
                     job[v].tries < Attempts, e.recs = {job[v].new}
              PROVE  RowNames(r, e)'
          <6>1. CASE v # w
            BY <1>9, <5>3, <6>1 DEF RowNames
          <6>2. CASE v = w
            <7>1. \E s \in Mid, j \in JobType : GoesOn(w, s, j)
              <8>1. ~Replaced(w)
                <9>1. r = r0 /\ held[n0] = NoHandle /\ n0 # r0
                  BY <1>6, <5>3, <6>2
                <9> QED
                  BY <1>6, <1>21, <9>1 DEF Replaced
              <8>2. ~GaveUp(w)
                BY <1>0, <5>3, <6>2 DEF GaveUp
              <8> QED
                BY <1>0, <1>2, <5>3, <6>2, <8>1, <8>2
                   DEF Result, Enters, MadeAs, Withdraws, Dropped, LeavesOff
            <7>2. PICK s \in Mid : \E j \in JobType : GoesOn(w, s, j)
              BY <7>1
            <7>3. PICK j \in JobType : GoesOn(w, s, j)
              BY <7>2
            <7>4. j.tries < Attempts
              BY <5>3, <6>2, <7>3 DEF GoesOn
            <7> QED
              BY <1>14, <5>3, <6>2, <7>3, <7>4 DEF RowNames
          <6> QED
            BY <6>1, <6>2
        <5> QED
          BY <5>1, <5>2, <5>3 DEF RowNames
      <4>2. CASE Adds(w) /\ e.id = nextId
        <5>1. held[r].id = nextId
          BY <2>1, <3>1, <4>2
        <5>2. held[r].id < nextId /\ nextId \in Int
          BY <1>7
        <5> QED
          BY <5>1, <5>2
      <4>3. CASE e \notin zone /\ Rewrites(w) /\ e.id = held[r0].id /\ e.recs = {n0}
        <5>1. r = r0
          <6>1. PICK f \in zone : f.id = held[r0].id
            BY <1>16, <4>3
          <6>2. held[r].id = f.id /\ held[r] # NoHandle /\ job[w].op = "update"
            BY <1>16, <1>21, <2>1, <3>1, <4>3, <6>1
          <6> QED
            BY <1>11, <6>1, <6>2
        <5>2. ~Nothing
          BY <4>3, ServedKept
        <5>3. job[w].op = "update"
          BY <1>16, <4>3
        <5>4. ~Replaced(w)
          BY <1>6, <1>21, <5>1, <5>3 DEF Replaced
        <5>5. \E s \in Mid, j \in JobType : GoesOn(w, s, j)
          BY <1>0, <1>2, <5>2, <5>3, <5>4
             DEF Result, Enters, MadeAs, Withdraws, Dropped, LeavesOff
        <5>6. PICK s \in Mid : \E j \in JobType : GoesOn(w, s, j)
          BY <5>5
        <5>7. PICK j \in JobType : GoesOn(w, s, j)
          BY <5>6
        <5>8. j.tries < Attempts
          BY <5>3, <5>7 DEF GoesOn
        <5> QED
          BY <1>14, <4>3, <5>1, <5>3, <5>7, <5>8 DEF RowNames
      <4> QED
        BY <1>5, <4>1, <4>2, <4>3
    <3> QED
      BY <1>1, <1>21, <2>1, <3>1
  <2>2. CASE held'[r] # held[r]
    <3>1. \/ \E h \in Handles : Enters(w, h)
          \/ Rewrites(w) /\ Replaced(w)
          \/ Withdraws(w)
      BY <1>0, <1>2, <2>2 DEF Result, GoesOn, Moves, Goto, LeavesOff, GaveUp
    <3>2. ASSUME NEW h \in Handles, Enters(w, h)
          PROVE  /\ \A e \in zone' : e.id = held'[r].id => RowNames(r, e)'
                 /\ held'[r].id = 0 => held'[r].rec = r
      <4>1. held' = [held EXCEPT ![r0] = h] /\ h.rec = r0
        BY <3>2 DEF Enters, MadeAs
      <4>2. r = r0 /\ held'[r] = h
        BY <1>6, <2>2, <4>1
      <4>3. ASSUME NEW e \in zone', e.id = h.id PROVE e.recs = {r0}
        <5>1. PICK f \in zone' : f.id = h.id /\ FoundIn(r0, f)
          BY <1>4, <3>2, <4>3 DEF Enters
        <5>2. f = e /\ r0 \in f.recs
          BY <1>3, <1>4, <4>3, <5>1
        <5> QED
          BY <1>4, <1>6, <5>2
      <4> QED
        BY <4>1, <4>2, <4>3 DEF RowNames
    <3>3. CASE Rewrites(w) /\ Replaced(w)
      <4>1. held' = [held EXCEPT ![r0] = NoHandle, ![n0] = held[r0]] /\ n0 # r0
        BY <1>6, <3>3 DEF Replaced
      <4>2. r = n0 /\ held'[r] = held[r0]
        BY <1>6, <1>21, <2>2, <4>1
      <4> QED
        BY <1>16, <3>3, <4>2 DEF RowNames
    <3>4. CASE Withdraws(w)
      <4>1. held' = [held EXCEPT ![r0] = NoHandle]
        BY <3>4 DEF Withdraws, Dropped, RowGone
      <4> QED
        BY <1>6, <1>21, <2>2, <4>1
    <3> QED
      BY <3>1, <3>2, <3>3, <3>4
  <2> QED
    BY <2>1, <2>2
<1>22. ASSUME NEW v \in Workers, pc'[v] # "idle", job'[v].op = "delete"
       PROVE  /\ \A e \in zone' : e.id = job'[v].handle.id => e.recs = {job'[v].rec}
              /\ job'[v].handle.id = 0 => job'[v].handle.rec = job'[v].rec
  <2>1. CASE v # w
    <3>1. pc[v] # "idle" /\ job'[v] = job[v] /\ job[v].op = "delete"
      BY <1>9, <1>22, <2>1
    <3>2. ASSUME NEW e \in zone', e.id = job[v].handle.id PROVE e \in zone
      <4>1. ~(Adds(w) /\ e.id = nextId)
        BY <1>7, <3>2
      <4>2. ASSUME Rewrites(w), e.id = held[r0].id PROVE FALSE
        <5>1. PICK f \in zone : f.id = held[r0].id
          BY <1>16, <4>2
        <5>2. f.recs = {r0} \/ f.recs = {n0}
          BY <1>10, <1>16, <4>2, <5>1
        <5>3. f.recs = {job[v].rec}
          BY <1>1, <3>1, <3>2, <4>2, <5>1
        <5> QED
          BY <1>6, <1>8, <2>1, <3>1, <5>2, <5>3
      <4> QED
        BY <1>5, <4>1, <4>2
    <3> QED
      BY <1>1, <3>1, <3>2
  <2>2. CASE v = w
    <3>1. ~Ends(w)
      BY <1>15, <1>22, <2>2
    <3>2. PICK s \in Mid : \E j \in JobType : GoesOn(w, s, j)
      BY <1>13, <3>1
    <3>3. PICK j \in JobType : GoesOn(w, s, j)
      BY <3>2
    <3>4. job'[w] = j /\ j.rec = r0 /\ job[w].op = "delete" /\ Follows(w, j)
      BY <1>14, <1>22, <2>2, <3>3
    <3>5. \A e \in zone' : e \in zone
      BY <1>5, <3>4 DEF Adds, Rewrites
    <3>6. CASE Stays(w, j)
      BY <1>1, <2>2, <3>4, <3>5, <3>6 DEF Stays
    <3>7. CASE \E e \in zone : j.handle = Id(e.id, r0) /\ FoundIn(r0, e)
      <4>1. PICK e \in zone : j.handle = Id(e.id, r0) /\ FoundIn(r0, e)
        BY <3>7
      <4>2. j.handle.id = e.id /\ j.handle.rec = r0 /\ e.recs = {r0}
        BY <1>3, <1>4, <1>6, <4>1 DEF Id
      <4>3. \A f \in zone' : f.id = e.id => f = e
        BY <1>4, <3>5
      <4> QED
        BY <2>2, <3>4, <4>2, <4>3
    <3>8. job[w].handle.id = 0 => job[w].handle.rec = r0
      BY <1>1, <3>4
    <3> QED
      BY <3>4, <3>6, <3>7, <3>8 DEF Follows
  <2> QED
    BY <2>1, <2>2
<1>23. ASSUME NEW v \in Workers, pc'[v] = "learn" PROVE job'[v].rec \in Served'
  <2>1. CASE v # w
    <3>1. pc[v] = "learn" /\ job'[v] = job[v] /\ job[v].rec \notin Hands(w)
      BY <1>8, <1>9, <1>23, <2>1
    <3> QED
      BY <1>1, <1>12, <3>1
  <2>2. CASE v = w
    <3>1. ~Ends(w)
      BY <1>15, <1>23, <2>2
    <3>2. PICK s \in Mid : \E j \in JobType : GoesOn(w, s, j)
      BY <1>13, <3>1
    <3>3. PICK j \in JobType : GoesOn(w, s, j)
      BY <3>2
    <3>4. s = "learn" /\ job'[w].rec = r0
      BY <1>14, <1>23, <2>2, <3>3
    <3> QED
      BY <2>2, <3>3, <3>4 DEF GoesOn
  <2> QED
    BY <2>1, <2>2
<1> QED
  BY <1>20, <1>21, <1>22, <1>23

-----------------------------------------------------------------------------
\* A step of a worker where a type has one set.

MovesOn(w, s, j) ==
    /\ Moves(w, s, j)
    /\ \/ j.again = job[w].again /\ j.handle = job[w].handle
       \/ job[w].op = "delete" /\ j.handle.rec = job[w].rec
    /\ adapter = "route53" /\ s = "change" =>
          j.handle.rec \notin Served' \/ \A x \in j.seen : SameType(x, j.handle.rec)
    /\ \/ Fault \/ s = "verify" \/ "mixed" \in mishaps'
       \/ Nothing /\ (pc[w] = "verify" => job[w].rec \in Served)

Adopts(w, h) ==
    /\ MadeAs(w, h)
    /\ job[w].rec \in Served' \/ "mixed" \in mishaps'

Exchanges(w) ==
    /\ Replaced(w)
    /\ job[w].rec \notin Served' \/ "stale" \in mishaps' \/ ~Plain(job[w].rec)
    /\ job[w].new \in Served'

\* The record is not served any more, if the delete meant it.
Freed(w) ==
    \/ job[w].rec \notin Served'
    \/ job[w].again /\ (job[w].handle.rec = job[w].rec => job[w].rec \notin Served')
    \/ /\ adapter = "route53" /\ pc[w] = "change" /\ job[w].again
       /\ job[w].rec \notin Served \/ (\A x \in job[w].seen : SameType(x, job[w].rec))
             => job[w].rec \notin Served'

Frees(w) == Dropped(w) /\ Freed(w)

LeavesIt(w) == GaveUp(w) /\ (Fault \/ (Nothing /\ pc[w] # "verify"))

SetResult(w) ==
    \/ \E s \in Mid, j \in JobType : MovesOn(w, s, j)
    \/ \E h \in Handles : Adopts(w, h)
    \/ Exchanges(w)
    \/ Frees(w)
    \/ LeavesIt(w)

\* Google takes away nothing but the worker's own record, when all goes well.
Spares(w) ==
    \/ adapter = "route53" \/ Fault \/ ~Quiet'
    \/ job[w].op = "delete" /\ pc[w] = "change" /\ job[w].rec \notin Served
    \/ Served \ {job[w].rec} \subseteq Served'

SetStep(w) ==
    /\ Noted /\ NextZone
    /\ Served' \subseteq Served \cup Hands(w)
    /\ SetResult(w)
    /\ Spares(w)

LEMMA StillStep ==
    ASSUME Base, adapter \notin Keyed, adapter' = adapter, NEW w \in Workers, Nothing, Noted,
           SetResult(w)
    PROVE  SetStep(w)
<1>1. Served' = Served /\ zone' = zone /\ nextId' = nextId
  BY ServedKept DEF Nothing, provVars
<1>2. NextZone
  BY <1>1 DEF NextZone, ZoneOK, Entries, Base, Typed
<1> QED
  BY <1>1, <1>2 DEF SetStep, Spares

LEMMA PutStep ==
    ASSUME Base, adapter \notin Keyed, adapter' = adapter, NEW w \in Workers, NEW r \in Recs,
           NEW S \in SUBSET Recs, PutSet(r, S), \A s \in S : SameType(s, r),
           S \subseteq Served \cup Hands(w), Noted, SetResult(w),
           adapter # "google" \/ Fault \/ Spares(w)
    PROVE  SetStep(w)
<1>1. ZoneOK' /\ nextId' = nextId /\ Served' = (Served \ SetOf(r)) \cup S
  BY PutZone
<1>2. NextZone
  BY <1>1 DEF NextZone, Base, Typed
<1>3. Spares(w)
  BY DEF Base, Typed, Adapters, Spares
<1> QED
  BY <1>1, <1>2, <1>3 DEF SetStep

LEMMA FailsSet ==
    ASSUME Base, NEW w \in Workers, pc[w] # "idle", Fails(w),
           Fault \/ (Nothing /\ pc[w] # "verify")
    PROVE  SetResult(w) /\ mishaps \subseteq mishaps' /\ mishaps' \subseteq Mishaps
<1>1. /\ First(job[w].op) \in Mid /\ First(job[w].op) # "change"
  BY InHandFacts, FirstIsMid DEF First
<1>2. CASE \E j \in JobType : /\ Moves(w, First(job[w].op), j) /\ Stays(w, j)
                              /\ j.tries < Attempts
  <2>1. PICK j \in JobType : Moves(w, First(job[w].op), j) /\ Stays(w, j)
    BY <1>2
  <2>2. MovesOn(w, First(job[w].op), j)
    BY <1>1, <2>1 DEF MovesOn, Stays
  <2> QED
    BY <1>1, <2>2, FailsAgain DEF SetResult
<1>3. CASE GaveUp(w)
  BY <1>3, FailsAgain DEF SetResult, LeavesIt
<1> QED
  BY <1>2, <1>3, FailsAgain

LEMMA GivesUpSet ==
    ASSUME Base, NEW w \in Workers, pc[w] # "idle", GivesUp(w),
           Fault \/ (Nothing /\ pc[w] # "verify")
    PROVE  SetResult(w) /\ mishaps \subseteq mishaps' /\ mishaps' \subseteq Mishaps
<1>1. GivesUpNoting(w, {}) /\ {} \subseteq Mishaps
  BY DEF GivesUp
<1> QED
  BY <1>1, GivesUpOutcome DEF SetResult, LeavesIt

LEMMA ToSet ==
    ASSUME Base, NEW w \in Workers, pc[w] # "idle", NEW s \in Mid, GoOn(w, s), s # "change",
           Nothing, pc[w] # "verify"
    PROVE  SetResult(w)
<1>1. PICK j \in JobType : Moves(w, s, j) /\ Stays(w, j)
  BY GoOnOutcome
<1> QED
  BY <1>1 DEF SetResult, MovesOn, Stays

LEMMA SeenTypes ==
    ASSUME NEW w \in Workers, job[w] \in JobType, NEW S \in SUBSET Recs
    PROVE  /\ [job[w] EXCEPT !.seen = S] \in JobType
           /\ [job[w] EXCEPT !.seen = S].op = job[w].op
           /\ [job[w] EXCEPT !.seen = S].rec = job[w].rec
           /\ [job[w] EXCEPT !.seen = S].new = job[w].new
           /\ [job[w] EXCEPT !.seen = S].handle = job[w].handle
           /\ [job[w] EXCEPT !.seen = S].again = job[w].again
           /\ [job[w] EXCEPT !.seen = S].seen = S
BY DEF JobType

\* On to the change, having read the set.
LEMMA ReadSet ==
    ASSUME Base, NEW w \in Workers, pc[w] \notin {"idle", "verify"}, NEW S \in SUBSET Recs,
           Goto(w, "change", [job[w] EXCEPT !.seen = S]), Nothing,
           adapter = "route53" =>
              job[w].handle.rec \notin Served' \/ \A x \in S : SameType(x, job[w].handle.rec)
    PROVE  SetResult(w)
<1> DEFINE j == [job[w] EXCEPT !.seen = S]
<1>1. /\ j \in JobType /\ j.op = job[w].op /\ j.rec = job[w].rec /\ j.new = job[w].new
      /\ j.handle = job[w].handle /\ j.again = job[w].again /\ j.seen = S
  BY InHandFacts, SeenTypes
<1>2. Goto(w, "change", j) /\ "change" \in Mid
  BY DEF Mid, Steps
<1> HIDE DEF j
<1>3. Moves(w, "change", j)
  BY <1>1, <1>2, MoveTo
<1>4. MovesOn(w, "change", j)
  BY <1>1, <1>3 DEF MovesOn
<1> QED
  BY <1>1, <1>2, <1>4 DEF SetResult

LEMMA AnswerSet ==
    ASSUME Base, NEW w \in Workers, pc[w] # "idle", NEW h, Answer(w, h),
           job[w].op = "create" =>
              h \in Handles /\ (job[w].rec \in Served' \/ "mixed" \in mishaps'),
           job[w].op = "update" =>
              /\ h = held[job[w].rec] /\ job[w].new \in Served'
              /\ job[w].rec \notin Served' \/ "stale" \in mishaps' \/ ~Plain(job[w].rec),
           job[w].op = "delete" /\ job[w].again => Freed(w)
    PROVE  SetResult(w)
<1>1. CASE job[w].op = "create"
  <2>1. MadeAs(w, h) /\ h \in Handles
    BY <1>1, AnswerOutcome
  <2> QED
    BY <1>1, <2>1 DEF SetResult, Adopts
<1>2. CASE job[w].op = "update"
  <2>1. Replaced(w)
    BY <1>2, AnswerOutcome
  <2> QED
    BY <1>2, <2>1 DEF SetResult, Exchanges
<1>3. CASE job[w].op = "delete"
  <2>1. CASE job[w].again /\ Dropped(w)
    BY <1>3, <2>1 DEF SetResult, Frees
  <2>2. CASE \E j \in JobType : Moves(w, "verify", j) /\ Stays(w, j)
    <3>1. PICK j \in JobType : Moves(w, "verify", j) /\ Stays(w, j)
      BY <2>2
    <3>2. MovesOn(w, "verify", j) /\ "verify" \in Mid
      BY <3>1 DEF MovesOn, Stays, Mid, Steps
    <3> QED
      BY <3>2 DEF SetResult
  <2> QED
    BY <1>3, <2>1, <2>2, AnswerOutcome
<1> QED
  BY <1>1, <1>2, <1>3, InHandFacts

LEMMA FindText ==
    ASSUME Base, adapter \notin Keyed, NEW r \in Recs, NEW h \in Find(r),
           Mistaken(h) \subseteq mishaps'
    PROVE  /\ h = Text(r) /\ h \in Handles /\ h.rec = r
           /\ r \in Served \/ "mixed" \in mishaps'
<1>1. h \in TextFind(r)
  BY DEF Find, Keyed
<1>2. h = Text(r)
  BY <1>1 DEF TextFind
<1>3. h \in Handles /\ h.rec = r
  BY <1>2, HandleFacts
<1>4. r \in Served \/ "mixed" \in mishaps'
  BY <1>3 DEF Mistaken, Served
<1> QED
  BY <1>2, <1>3, <1>4

LEMMA TakesSet ==
    ASSUME Base, adapter \notin Keyed, NEW w \in Workers, pc[w] # "idle", job[w].op = "create",
           Nothing, NEW h \in Find(job[w].rec), Takes(w, h)
    PROVE  SetResult(w) /\ mishaps \subseteq mishaps' /\ mishaps' \subseteq Mishaps
<1>1. /\ mishaps' = mishaps \cup Mistaken(h) /\ Answer(w, h)
      /\ Mistaken(h) \subseteq Mishaps /\ mishaps \subseteq Mishaps
  BY DEF Takes, Note, Mistaken, Mishaps, Base, Typed
<1>2. /\ h \in Handles
      /\ job[w].rec \in Served' \/ "mixed" \in mishaps'
  BY <1>1, FindText, InHandFacts, ServedKept
<1>3. SetResult(w)
  BY <1>1, <1>2, FindText, InHandFacts, AnswerSet
<1> QED
  BY <1>1, <1>3

LEMMA PreCheckSet ==
    ASSUME Base, adapter \notin Keyed, adapter' = adapter, NEW w \in Workers, pc[w] # "idle",
           job[w].op = "create", PreCheck(w, FALSE)
    PROVE  SetStep(w)
<1>1. Nothing /\ pc[w] = "check"
  BY DEF PreCheck, Nothing
<1>2. mishaps \subseteq Mishaps /\ "blind" \in Mishaps /\ "add" \in Mid
  BY DEF Base, Typed, Mishaps, Mid, Steps
<1>3. CASE To(w, "add") /\ UNCHANGED faults
  <2>1. GoOn(w, "add") /\ Noted
    BY <1>2, <1>3 DEF To, Noted
  <2> QED
    BY <1>1, <1>2, <2>1, ToSet, StillStep
<1>4. CASE (\E h \in Find(job[w].rec) : Takes(w, h)) /\ UNCHANGED faults
  BY <1>1, <1>4, TakesSet, StillStep DEF Noted
<1>5. CASE Fault /\ GoOn(w, "add") /\ Note({"blind"})
  <2>1. Noted
    BY <1>2, <1>5 DEF Note, Noted
  <2> QED
    BY <1>1, <1>2, <1>5, <2>1, ToSet, StillStep
<1> QED
  BY <1>3, <1>4, <1>5 DEF PreCheck

LEMMA RecheckSet ==
    ASSUME Base, adapter \notin Keyed, adapter' = adapter, NEW w \in Workers, pc[w] # "idle",
           job[w].op = "create", Recheck(w)
    PROVE  SetStep(w)
<1>1. Nothing /\ pc[w] = "recheck"
  BY DEF Recheck, Nothing
<1>2. CASE (\E h \in Find(job[w].rec) : Takes(w, h)) /\ UNCHANGED faults
  BY <1>1, <1>2, TakesSet, StillStep DEF Noted
<1>3. CASE Fails(w) /\ (UNCHANGED faults \/ Fault)
  BY <1>1, <1>3, FailsSet, StillStep DEF Noted
<1> QED
  BY <1>2, <1>3 DEF Recheck

LEMMA VerifySet ==
    ASSUME Base, adapter \notin Keyed, adapter' = adapter, NEW w \in Workers, pc[w] # "idle",
           job[w].op = "delete", Verify(w)
    PROVE  SetStep(w)
<1>1. /\ "delete" \in Mid /\ "verify" \in Mid /\ {} \subseteq Mishaps
      /\ mishaps \subseteq Mishaps /\ job[w].rec \in Recs /\ Attempts \in 0..Attempts
  BY InHandFacts, ConstantsAssumption DEF Mid, Steps, Base, Typed
<1>2. Nothing
  BY DEF Verify, Nothing
<1>3. CASE Find(job[w].rec) = {} /\ RowGone(w) /\ UNCHANGED <<mishaps, faults>>
  <2>1. job[w].rec \notin Served'
    BY <1>1, <1>2, <1>3, FindNothing, ServedKept
  <2>2. SetResult(w) /\ Noted
    BY <1>1, <1>3, <2>1 DEF SetResult, Frees, Freed, Dropped, Noted
  <2> QED
    BY <1>2, <2>2, StillStep
<1>4. ASSUME NEW h \in Find(job[w].rec), UNCHANGED faults, Note(Mistaken(h)),
             Goto(w, "delete", [job[w] EXCEPT !.handle = h, !.again = TRUE, !.tries = Attempts])
      PROVE  SetStep(w)
  <2> DEFINE j == [job[w] EXCEPT !.handle = h, !.again = TRUE, !.tries = Attempts]
  <2>1. mishaps' = mishaps \cup Mistaken(h) /\ Mistaken(h) \subseteq Mishaps
    BY <1>4 DEF Note, Mistaken, Mishaps
  <2>2. /\ h \in Handles /\ h.rec = job[w].rec
        /\ job[w].rec \in Served \/ "mixed" \in mishaps'
    BY <1>1, <1>4, <2>1, FindText
  <2>3. /\ j \in JobType /\ j.op = job[w].op /\ j.rec = job[w].rec /\ j.new = job[w].new
        /\ j.handle = h
    <3>1. job[w] \in JobType
      BY InHandFacts
    <3> QED
      BY <2>2, <3>1, AgainTyped
  <2>4. Goto(w, "delete", j)
    BY <1>4
  <2> HIDE DEF j
  <2>5. Moves(w, "delete", j)
    BY <1>1, <2>3, <2>4, MoveTo
  <2>6. MovesOn(w, "delete", j)
    BY <1>2, <2>2, <2>3, <2>5 DEF MovesOn
  <2>7. SetResult(w) /\ Noted
    BY <1>1, <1>4, <2>1, <2>3, <2>6 DEF SetResult, Noted
  <2> QED
    BY <1>2, <2>7, StillStep
<1>5. CASE Fault /\ FailsFor(w, "verify", {})
  <2>1. /\ mishaps \subseteq mishaps' /\ mishaps' \subseteq Mishaps
        /\ \/ \E j \in JobType : Moves(w, "verify", j) /\ Stays(w, j) /\ j.tries < Attempts
           \/ GaveUp(w)
    BY <1>1, <1>5, FailsOutcome
  <2>2. SetResult(w) /\ Noted
    BY <1>1, <1>5, <2>1 DEF SetResult, MovesOn, Stays, LeavesIt, Noted
  <2> QED
    BY <1>2, <2>2, StillStep
<1> QED
  BY <1>3, <1>4, <1>5 DEF Verify

\* A change that fails, before or after its effect.
LEMMA FailedPut ==
    ASSUME Base, adapter \notin Keyed, adapter' = adapter, NEW w \in Workers, pc[w] # "idle",
           NEW r \in Recs, NEW S \in SUBSET Recs, \A s \in S : SameType(s, r),
           S \subseteq Served \cup Hands(w), Fault, PutSet(r, S) \/ Nothing, Fails(w)
    PROVE  SetStep(w)
<1>1. SetResult(w) /\ Noted
  BY FailsSet DEF Noted
<1> QED
  BY <1>1, StillStep, PutStep

-----------------------------------------------------------------------------
\* Route53.

LEMMA Route53Put ==
    ASSUME Base, adapter = "route53", adapter' = adapter, NEW w \in Workers, pc[w] # "idle",
           job[w].op = "create",
           Call(PutSet(job[w].rec, {job[w].rec}), Ok(w, Text(job[w].rec)), Fails(w))
    PROVE  SetStep(w)
<1> DEFINE r == job[w].rec
<1>1. /\ r \in Recs /\ {r} \in SUBSET Recs /\ adapter \notin Keyed /\ mishaps \subseteq Mishaps
      /\ \A s \in {r} : SameType(s, r)
      /\ {r} \subseteq Served \cup Hands(w)
  BY InHandFacts DEF Keyed, Base, Typed, SameType, Hands
<1>2. CASE PutSet(r, {r}) /\ Ok(w, Text(r)) /\ UNCHANGED faults
  <2>1. r \in Served'
    BY <1>1, <1>2, PutZone
  <2>2. Answer(w, Text(r)) /\ Noted /\ Text(r) \in Handles
    BY <1>1, <1>2, HandleFacts DEF Ok, Noted
  <2>3. SetResult(w)
    BY <2>1, <2>2, AnswerSet
  <2> QED
    BY <1>1, <1>2, <2>2, <2>3, PutStep
<1>3. CASE Fault /\ (PutSet(r, {r}) \/ Nothing) /\ Fails(w)
  BY <1>1, <1>3, FailedPut
<1> QED
  BY <1>2, <1>3 DEF Call

LEMMA Route53CreateStep ==
    ASSUME Base, adapter = "route53", adapter' = adapter, NEW w \in Workers, pc[w] # "idle",
           job[w].op = "create", Route53Create(w)
    PROVE  SetStep(w)
<1>1. adapter \notin Keyed /\ mishaps \subseteq Mishaps /\ "upsert" \in Mid
  BY DEF Keyed, Base, Typed, Mid, Steps
<1>2. CASE PreCheck(w, FALSE)
  BY <1>1, <1>2, PreCheckSet
<1>3. CASE Call(PutSet(job[w].rec, {job[w].rec}), Ok(w, Text(job[w].rec)), Fails(w))
  BY <1>3, Route53Put
<1>4. CASE pc[w] = "add" /\ To(w, "upsert") /\ UNCHANGED <<provVars, faults>>
  <2>1. GoOn(w, "upsert") /\ Nothing /\ Noted
    BY <1>1, <1>4 DEF To, Nothing, Noted
  <2> QED
    BY <1>1, <1>4, <2>1, ToSet, StillStep
<1>5. CASE pc[w] = "add" /\ Fault /\ Fails(w) /\ UNCHANGED provVars
  <2>1. Nothing
    BY <1>5 DEF Nothing
  <2> QED
    BY <1>1, <1>5, <2>1, FailsSet, StillStep DEF Noted
<1> QED
  BY <1>2, <1>3, <1>4, <1>5 DEF Route53Create

LEMMA Route53UpdateStep ==
    ASSUME Base, adapter = "route53", adapter' = adapter, NEW w \in Workers, pc[w] # "idle",
           job[w].op = "update", Route53Update(w)
    PROVE  SetStep(w)
<1> DEFINE r == job[w].rec
           n == job[w].new
<1>1. /\ r \in Recs /\ n \in Recs /\ {n} \in SUBSET Recs /\ adapter \notin Keyed
      /\ mishaps \subseteq Mishaps /\ SameType(r, n) /\ n # r
      /\ \A s \in {n} : SameType(s, n)
      /\ {n} \subseteq Served \cup Hands(w)
  BY InHandFacts DEF Keyed, Base, Typed, SameType, Hands
<1>2. CASE PutSet(n, {n}) /\ Ok(w, held[r]) /\ UNCHANGED faults
  <2>1. Served' = (Served \ SetOf(n)) \cup {n}
    BY <1>1, <1>2, PutZone
  <2>2. n \in Served' /\ r \notin Served'
    BY <1>1, <2>1 DEF SetOf
  <2>3. Answer(w, held[r]) /\ Noted
    BY <1>1, <1>2 DEF Ok, Noted
  <2>4. SetResult(w)
    BY <2>2, <2>3, AnswerSet
  <2> QED
    BY <1>1, <1>2, <2>3, <2>4, PutStep
<1>3. CASE Fault /\ (PutSet(n, {n}) \/ Nothing) /\ Fails(w)
  BY <1>1, <1>3, FailedPut
<1> QED
  BY <1>2, <1>3 DEF Route53Update, Call

LEMMA Route53DeleteStep ==
    ASSUME Base, adapter = "route53", adapter' = adapter, NEW w \in Workers, pc[w] # "idle",
           job[w].op = "delete", Route53Delete(w)
    PROVE  SetStep(w)
<1> DEFINE seen == job[w].seen
           x == job[w].handle.rec
<1>1. /\ job[w] \in JobType /\ adapter \notin Keyed /\ mishaps \subseteq Mishaps
      /\ seen \in SUBSET Recs /\ Served \subseteq Recs /\ job[w].rec \in Recs
  <2>1. Served \subseteq Recs
    BY DEF Served, Base, ZoneOK, Entries
  <2> QED
    BY <2>1, InHandFacts DEF Keyed, Base, Typed, JobType
<1>2. CASE pc[w] = "delete" /\ UNCHANGED provVars /\ Listed(x) = {} /\ Ok(w, NoHandle)
           /\ UNCHANGED faults
  <2>1. Nothing /\ Noted /\ Answer(w, NoHandle)
    BY <1>1, <1>2 DEF Nothing, Noted, Ok
  <2>2. x \notin Served'
    <3>1. SetOf(x) = {}
      BY <1>2 DEF Listed
    <3>2. x \notin Served
      BY <3>1 DEF SetOf, SameType
    <3> QED
      BY <2>1, <3>2, ServedKept
  <2>3. SetResult(w)
    BY <2>1, <2>2, AnswerSet DEF Freed
  <2> QED
    BY <1>1, <2>1, <2>3, StillStep
<1>3. CASE pc[w] = "delete" /\ UNCHANGED provVars /\ UNCHANGED <<mishaps, faults>>
           /\ Goto(w, "change", [job[w] EXCEPT !.seen = Listed(x)])
  <2>1. Nothing /\ Noted
    BY <1>1, <1>3 DEF Nothing, Noted
  <2>2. Listed(x) \in SUBSET Recs
    BY <1>1 DEF Listed, SetOf
  <2>3. x \notin Served' \/ \A y \in Listed(x) : SameType(y, x)
    <3>1. CASE SetOf(x) = {}
      <4>1. x \notin Served
        BY <3>1 DEF SetOf, SameType
      <4> QED
        BY <2>1, <4>1, ServedKept
    <3>2. CASE SetOf(x) # {}
      <4>1. Listed(x) = SetOf(x)
        BY <3>2 DEF Listed
      <4> QED
        BY <4>1 DEF SetOf
    <3> QED
      BY <3>1, <3>2
  <2>4. SetResult(w)
    <3> DEFINE S == Listed(x)
    <3>1. /\ S \in SUBSET Recs /\ Goto(w, "change", [job[w] EXCEPT !.seen = S])
          /\ x \notin Served' \/ \A y \in S : SameType(y, x)
      BY <1>3, <2>2, <2>3
    <3> HIDE DEF S
    <3> QED
      BY <1>3, <2>1, <3>1, ReadSet
  <2> QED
    BY <1>1, <2>1, <2>4, StillStep
<1>4. CASE pc[w] = "delete" /\ UNCHANGED provVars /\ Fault /\ Fails(w)
  <2>1. Nothing
    BY <1>4 DEF Nothing
  <2> QED
    BY <1>1, <1>4, <2>1, FailsSet, StillStep DEF Noted
<1>5. ASSUME pc[w] = "change", NEW s \in seen, SetOf(s) = seen,
             Call(PutSet(s, {}), Ok(w, NoHandle), Fails(w))
      PROVE  SetStep(w)
  <2>1. /\ s \in Recs /\ {} \in SUBSET Recs /\ (\A y \in {} : SameType(y, s))
        /\ {} \subseteq Served \cup Hands(w)
    BY <1>1, <1>5
  <2>2. CASE PutSet(s, {}) /\ Ok(w, NoHandle) /\ UNCHANGED faults
    <3>1. Served' = Served \ SetOf(s)
      BY <1>1, <2>1, <2>2, PutZone
    <3>2. Answer(w, NoHandle) /\ Noted
      BY <1>1, <2>2 DEF Ok, Noted
    <3>3. job[w].again => Freed(w)
      <4>1. ASSUME SameType(s, job[w].rec) PROVE job[w].rec \notin Served'
        BY <3>1, <4>1 DEF SetOf, SameType
      <4> QED
        BY <1>5, <3>1, <4>1 DEF Freed
    <3>4. SetResult(w)
      BY <3>2, <3>3, AnswerSet
    <3> QED
      BY <1>1, <2>1, <2>2, <3>2, <3>4, PutStep
  <2>3. CASE Fault /\ (PutSet(s, {}) \/ Nothing) /\ Fails(w)
    BY <1>1, <2>1, <2>3, FailedPut
  <2> QED
    BY <1>5, <2>2, <2>3 DEF Call
<1>6. ASSUME pc[w] = "change", NEW s \in seen, SetOf(s) = {}, Ok(w, NoHandle),
             UNCHANGED <<provVars, faults>>
      PROVE  SetStep(w)
  <2>1. Nothing /\ Noted /\ Answer(w, NoHandle) /\ Served' = Served
    BY <1>1, <1>6, ServedKept DEF Nothing, Noted, Ok
  <2>2. ASSUME SameType(s, job[w].rec) PROVE job[w].rec \notin Served
    BY <1>6, <2>2 DEF SetOf, SameType
  <2>3. SetResult(w)
    BY <1>6, <2>1, <2>2, AnswerSet DEF Freed
  <2> QED
    BY <1>1, <2>1, <2>3, StillStep
<1>7. CASE pc[w] = "change" /\ GivesUp(w) /\ UNCHANGED <<provVars, faults>>
  <2>1. Nothing
    BY <1>7 DEF Nothing
  <2> QED
    BY <1>1, <1>7, <2>1, GivesUpSet, StillStep DEF Noted
<1>8. CASE Verify(w)
  BY <1>1, <1>8, VerifySet
<1> QED
  BY <1>2, <1>3, <1>4, <1>5, <1>6, <1>7, <1>8 DEF Route53Delete

-----------------------------------------------------------------------------
\* Google.

LEMMA GoogleFacts ==
    ASSUME Base, adapter = "google", NEW w \in Workers, pc[w] # "idle"
    PROVE  /\ adapter \notin Keyed /\ mishaps \subseteq Mishaps /\ job[w] \in JobType
           /\ job[w].rec \in Recs /\ job[w].new \in Recs
           /\ job[w].seen \in SUBSET Recs /\ Served \subseteq Recs
           /\ \A r : SetOf(r) \subseteq Served /\ \A s \in SetOf(r) : SameType(s, r)
           /\ \A r \in Served : r \in SetOf(r)
<1>1. Served \subseteq Recs
  BY DEF Served, Base, ZoneOK, Entries
<1>2. job[w] \in JobType /\ job[w].rec \in Recs /\ job[w].new \in Recs
  BY InHandFacts
<1>3. job[w].seen \in SUBSET Recs
  BY <1>2 DEF JobType
<1> QED
  BY <1>1, <1>2, <1>3 DEF Keyed, Base, Typed, SetOf, SameType

LEMMA ReadFirstSet ==
    ASSUME Base, adapter = "google", adapter' = adapter, NEW w \in Workers,
           pc[w] \notin {"idle", "verify"}, UNCHANGED provVars,
           \/ /\ Goto(w, "change", [job[w] EXCEPT !.seen = SetOf(job[w].rec)])
              /\ UNCHANGED <<mishaps, faults>>
           \/ Fault /\ Fails(w)
           \/ GivesUp(w) /\ UNCHANGED faults
    PROVE  SetStep(w)
<1>1. Nothing
  BY DEF Nothing
<1>2. CASE /\ Goto(w, "change", [job[w] EXCEPT !.seen = SetOf(job[w].rec)])
           /\ UNCHANGED <<mishaps, faults>>
  <2> DEFINE S == SetOf(job[w].rec)
  <2>1. S \in SUBSET Recs /\ Goto(w, "change", [job[w] EXCEPT !.seen = S])
    BY <1>2, GoogleFacts
  <2> HIDE DEF S
  <2>2. SetResult(w)
    BY <1>1, <2>1, ReadSet
  <2> QED
    BY <1>1, <1>2, <2>2, GoogleFacts, StillStep DEF Noted
<1>3. CASE Fault /\ Fails(w)
  BY <1>1, <1>3, GoogleFacts, FailsSet, StillStep DEF Noted
<1>4. CASE GivesUp(w) /\ UNCHANGED faults
  BY <1>1, <1>4, GoogleFacts, GivesUpSet, StillStep DEF Noted
<1> QED
  BY <1>2, <1>3, <1>4

LEMMA GoogleCreateStep ==
    ASSUME Base, adapter = "google", adapter' = adapter, NEW w \in Workers, pc[w] # "idle",
           job[w].op = "create", GoogleCreate(w)
    PROVE  SetStep(w)
<1> DEFINE r == job[w].rec
           seen == job[w].seen
           S == seen \cup {r}
<1>1. /\ adapter \notin Keyed /\ mishaps \subseteq Mishaps /\ job[w] \in JobType /\ r \in Recs
      /\ S \in SUBSET Recs
      /\ "recheck" \in Mid /\ 1 \in 0..Attempts /\ Text(r) \in Handles
  BY GoogleFacts, HandleFacts, ConstantsAssumption DEF Mid, Steps
<1>2. CASE PreCheck(w, FALSE)
  BY <1>1, <1>2, PreCheckSet
<1>3. CASE Recheck(w)
  BY <1>1, <1>3, RecheckSet
<1>4. ASSUME pc[w] = "add", NEW R \in SUBSET Recs, UNCHANGED faults \/ Fault,
             Goto(w, "change", [job[w] EXCEPT !.seen = R]), UNCHANGED <<provVars, mishaps>>
      PROVE  SetStep(w)
  <2>1. Nothing /\ Noted
    BY <1>1, <1>4 DEF Nothing, Noted
  <2>2. SetResult(w)
    BY <1>4, <2>1, ReadSet
  <2> QED
    BY <1>1, <2>1, <2>2, StillStep
<1>5. CASE /\ pc[w] = "change" /\ Goto(w, "recheck", [job[w] EXCEPT !.tries = 1])
           /\ UNCHANGED <<provVars, mishaps, faults>>
  <2>1. Nothing /\ Noted
    BY <1>1, <1>5 DEF Nothing, Noted
  <2>2. PICK j \in JobType : Moves(w, "recheck", j) /\ Stays(w, j)
    BY <1>1, <1>5, TriesOutcome
  <2>3. MovesOn(w, "recheck", j)
    BY <1>5, <2>1, <2>2 DEF MovesOn, Stays
  <2>4. SetResult(w)
    BY <1>1, <2>3 DEF SetResult
  <2> QED
    BY <1>1, <2>1, <2>4, StillStep
<1>6. CASE Change(w, S, Ok(w, Text(r)), GivesUp(w))
  <2>1. ASSUME SetOf(r) = seen
        PROVE  /\ S \subseteq Served \cup Hands(w) /\ \A s \in S : SameType(s, r)
    BY <2>1, GoogleFacts DEF Hands, SameType
  <2>2. CASE SetOf(r) = seen /\ PutSet(r, S) /\ Ok(w, Text(r)) /\ UNCHANGED faults
    <3>1. Served' = (Served \ SetOf(r)) \cup S
      BY <1>1, <2>1, <2>2, PutZone
    <3>2. r \in Served' /\ Served \subseteq Served'
      BY <2>2, <3>1
    <3>3. Answer(w, Text(r)) /\ Noted
      BY <1>1, <2>2 DEF Ok, Noted
    <3>4. SetResult(w)
      BY <1>1, <3>2, <3>3, AnswerSet
    <3>5. Spares(w)
      BY <3>2 DEF Spares
    <3> QED
      BY <1>1, <2>1, <2>2, <3>3, <3>4, <3>5, PutStep
  <2>3. CASE SetOf(r) = seen /\ Fault /\ (PutSet(r, S) \/ Nothing) /\ Fails(w)
    BY <1>1, <2>1, <2>3, FailedPut
  <2>4. CASE pc[w] = "change" /\ GivesUp(w) /\ UNCHANGED <<provVars, faults>>
    <3>1. Nothing
      BY <2>4 DEF Nothing
    <3> QED
      BY <1>1, <2>4, <3>1, GivesUpSet, StillStep DEF Noted
  <2> QED
    BY <1>6, <2>2, <2>3, <2>4 DEF Change, Call
<1>7. SetOf(r) \in SUBSET Recs /\ {} \in SUBSET Recs
  BY GoogleFacts
<1> QED
  BY <1>2, <1>3, <1>4, <1>5, <1>6, <1>7 DEF GoogleCreate

LEMMA GoogleUpdateStep ==
    ASSUME Base, adapter = "google", adapter' = adapter, NEW w \in Workers, pc[w] # "idle",
           job[w].op = "update", GoogleUpdate(w)
    PROVE  SetStep(w)
<1> DEFINE r == job[w].rec
           n == job[w].new
           seen == job[w].seen
           named == held[r].rec
           old == Folded(seen, named)
           stale == IF named = r THEN {} ELSE {"stale"}
           mixed(s) == IF s = named THEN {} ELSE {"mixed"}
<1>1. /\ adapter \notin Keyed /\ mishaps \subseteq Mishaps /\ job[w] \in JobType
      /\ r \in Recs /\ n \in Recs /\ n # r /\ SameType(r, n) /\ Hands(w) = {r, n}
      /\ seen \in SUBSET Recs /\ SetOf(r) \subseteq Served
      /\ \A s \in SetOf(r) : SameType(s, r)
      /\ r \in Served => r \in SetOf(r)
      /\ stale \subseteq Mishaps /\ \A s : mixed(s) \subseteq Mishaps
  BY GoogleFacts, InHandFacts DEF Hands, Mishaps
\* The set read with one value of it, or none, exchanged for the new one.
<1>2. ASSUME NEW gone0 \in SUBSET old, NEW S, S = (seen \ gone0) \cup {n},
             NEW m \in SUBSET Mishaps, stale \subseteq m,
             gone0 = {} => old = {},
             gone0 \subseteq {named} \/ "mixed" \in m,
             \A s, t \in gone0 : s = t,
             Change(w, S, Answer(w, held[r]) /\ Note(m), GivesUp(w))
      PROVE  SetStep(w)
  <2>0. S \in SUBSET Recs
    BY <1>1, <1>2
  <2>1. ASSUME SetOf(r) = seen
        PROVE  /\ S \subseteq Served \cup Hands(w) /\ \A s \in S : SameType(s, r)
    BY <1>1, <1>2, <2>1 DEF SameType
  <2>2. CASE SetOf(r) = seen /\ PutSet(r, S) /\ Answer(w, held[r]) /\ Note(m) /\ UNCHANGED faults
    <3>1. Served' = (Served \ SetOf(r)) \cup S
      BY <1>1, <2>0, <2>1, <2>2, PutZone
    <3>2. mishaps' = mishaps \cup m /\ Noted
      BY <1>1, <1>2, <2>2 DEF Note, Noted
    <3>3. n \in Served'
      BY <1>2, <3>1
    <3>4. r \notin Served' \/ "stale" \in mishaps' \/ ~Plain(r)
      <4> SUFFICES ASSUME named = r, Plain(r) PROVE r \notin Served'
        BY <1>2, <3>2
      <4>1. \A s \in gone0 : s = r
        BY DEF Folded, Alike, Plain
      <4>2. r \in seen => r \in gone0
        <5>1. r \in seen => r \in old
          BY DEF Folded, Alike
        <5> QED
          BY <1>2, <4>1, <5>1
      <4> QED
        BY <1>1, <1>2, <2>2, <3>1, <4>2
    <3>5. SetResult(w)
      BY <2>2, <3>3, <3>4, AnswerSet
    <3>6. Spares(w)
      <4> SUFFICES ASSUME Quiet' PROVE Served \ {r} \subseteq Served'
        BY DEF Spares
      <4>1. "mixed" \notin m /\ "stale" \notin m
        BY <3>2 DEF Quiet
      <4>2. named = r
        BY <1>2, <4>1
      <4>3. gone0 \subseteq {r}
        BY <1>2, <4>1, <4>2
      <4> QED
        BY <1>2, <2>2, <3>1, <4>3
    <3> QED
      BY <1>1, <2>0, <2>1, <2>2, <3>2, <3>5, <3>6, PutStep
  <2>3. CASE SetOf(r) = seen /\ Fault /\ (PutSet(r, S) \/ Nothing) /\ Fails(w)
    BY <1>1, <2>0, <2>1, <2>3, FailedPut
  <2>4. CASE pc[w] = "change" /\ GivesUp(w) /\ UNCHANGED <<provVars, faults>>
    <3>1. Nothing
      BY <2>4 DEF Nothing
    <3> QED
      BY <1>1, <2>4, <3>1, GivesUpSet, StillStep DEF Noted
  <2> QED
    BY <1>2, <2>2, <2>3, <2>4 DEF Change, Call
<1>3. CASE ReadFirst(w, "update", GivesUp(w))
  BY <1>3, ReadFirstSet DEF ReadFirst
<1>4. CASE /\ old = {}
           /\ Change(w, seen \cup {n}, Answer(w, held[r]) /\ Note(stale), GivesUp(w))
  <2> DEFINE S == seen \cup {n}
  <2>1. S = (seen \ {}) \cup {n} /\ {} \in SUBSET old /\ stale \in SUBSET Mishaps
    BY <1>1
  <2> HIDE DEF old, stale
  <2> QED
    BY <1>2, <1>4, <2>1
<1>5. ASSUME NEW s \in old,
             Change(w, (seen \ {s}) \cup {n},
                    Answer(w, held[r]) /\ Note(stale \cup mixed(s)), GivesUp(w))
      PROVE  SetStep(w)
  <2>1. /\ {s} \in SUBSET old /\ stale \cup mixed(s) \in SUBSET Mishaps
        /\ {s} \subseteq {named} \/ "mixed" \in stale \cup mixed(s)
    BY <1>1, <1>5
  <2> DEFINE m == stale \cup mixed(s)
             S == (seen \ {s}) \cup {n}
  <2>2. /\ m \in SUBSET Mishaps /\ stale \subseteq m
        /\ {s} \subseteq {named} \/ "mixed" \in m
        /\ S = (seen \ {s}) \cup {n}
        /\ Change(w, S, Answer(w, held[r]) /\ Note(m), GivesUp(w))
    BY <1>5, <2>1
  <2> HIDE DEF old, stale, m, S
  <2> QED
    BY <1>2, <2>1, <2>2
<1> QED
  BY <1>3, <1>4, <1>5 DEF GoogleUpdate

LEMMA LastOne ==
    ASSUME NEW S \in SUBSET Recs, NEW x \in S, ~(Cardinality(S) > 1)
    PROVE  S = {x}
<1>1. IsFiniteSet(S)
  BY FS_Subset, ConstantsAssumption
<1>2. IsFiniteSet(S \ {x}) /\ Cardinality(S \ {x}) = Cardinality(S) - 1
  BY <1>1, FS_RemoveElement
<1>3. Cardinality(S) \in Nat /\ Cardinality(S \ {x}) \in Nat
  BY <1>1, <1>2, FS_CardinalityType
<1>4. Cardinality(S \ {x}) = 0
  BY <1>2, <1>3
<1>5. S \ {x} = {}
  BY <1>2, <1>4, FS_EmptySet
<1> QED
  BY <1>5

LEMMA GoogleDeleteStep ==
    ASSUME Base, adapter = "google", adapter' = adapter, NEW w \in Workers, pc[w] # "idle",
           job[w].op = "delete", GoogleDelete(w)
    PROVE  SetStep(w)
<1> DEFINE r == job[w].rec
           seen == job[w].seen
           x == job[w].handle.rec
           meant == Folded(seen, x)
           misnamed == IF x = r THEN {} ELSE {"misnamed"}
           mixed == IF meant \subseteq {x} THEN {} ELSE {"mixed"}
           S == IF Cardinality(seen) > 1 THEN seen \ meant ELSE {}
<1>1. /\ adapter \notin Keyed /\ mishaps \subseteq Mishaps /\ job[w] \in JobType
      /\ r \in Recs /\ seen \in SUBSET Recs /\ SetOf(r) \subseteq Served
      /\ \A s \in SetOf(r) : SameType(s, r)
      /\ r \in Served => r \in SetOf(r)
      /\ misnamed \cup mixed \subseteq Mishaps
      /\ S \in SUBSET Recs /\ S \subseteq seen
  BY GoogleFacts DEF Mishaps
<1>2. ASSUME SetOf(r) = {}, Ok(w, NoHandle), UNCHANGED <<provVars, faults>> PROVE SetStep(w)
  <2>1. Nothing /\ Noted /\ Answer(w, NoHandle) /\ Served' = Served
    BY <1>1, <1>2, ServedKept DEF Nothing, Noted, Ok
  <2>2. r \notin Served'
    BY <1>1, <1>2, <2>1
  <2>3. SetResult(w)
    BY <2>1, <2>2, AnswerSet DEF Freed
  <2> QED
    BY <1>1, <2>1, <2>3, StillStep
<1>3. CASE ReadFirst(w, "delete", Ok(w, NoHandle))
  <2>1. CASE SetOf(r) = {} /\ Ok(w, NoHandle) /\ UNCHANGED <<provVars, faults>>
    BY <1>2, <2>1
  <2>2. CASE ~(SetOf(r) = {} /\ Ok(w, NoHandle) /\ UNCHANGED <<provVars, faults>>)
    BY <1>3, <2>2, ReadFirstSet DEF ReadFirst
  <2> QED
    BY <2>1, <2>2
<1>4. CASE Change(w, S, Answer(w, NoHandle) /\ Note(misnamed \cup mixed), Ok(w, NoHandle))
  <2>1. ASSUME SetOf(r) = seen
        PROVE  /\ S \subseteq Served \cup Hands(w) /\ \A s \in S : SameType(s, r)
    BY <1>1, <2>1
  <2>2. CASE /\ SetOf(r) = seen /\ PutSet(r, S) /\ Answer(w, NoHandle)
             /\ Note(misnamed \cup mixed) /\ UNCHANGED faults
    <3>1. Served' = (Served \ SetOf(r)) \cup S
      BY <1>1, <2>1, <2>2, PutZone
    <3>2. mishaps' = mishaps \cup misnamed \cup mixed /\ Noted
      BY <1>1, <2>2 DEF Note, Noted
    <3>3. x = r => r \notin Served'
      <4>1. ASSUME x = r PROVE r \notin S
        <5>1. r \in seen => r \in meant
          BY <4>1 DEF Folded, Alike
        <5> QED
          BY <5>1
      <4> QED
        BY <1>1, <2>2, <3>1, <4>1
    <3>4. SetResult(w)
      BY <2>2, <3>3, AnswerSet DEF Freed
    <3>5. Spares(w)
      <4> SUFFICES ASSUME Quiet', r \in Served PROVE Served \ {r} \subseteq Served'
        BY <1>4 DEF Spares, Change
      <4>1. x = r /\ meant \subseteq {r}
        BY <3>2 DEF Quiet
      <4>2. r \in seen
        BY <1>1, <2>2
      <4>3. CASE Cardinality(seen) > 1
        BY <2>2, <3>1, <4>1, <4>3
      <4>4. CASE ~(Cardinality(seen) > 1)
        BY <1>1, <2>2, <3>1, <4>2, <4>4, LastOne
      <4> QED
        BY <4>3, <4>4
    <3> HIDE DEF S
    <3> QED
      BY <1>1, <2>1, <2>2, <3>2, <3>4, <3>5, PutStep
  <2>3. CASE SetOf(r) = seen /\ Fault /\ (PutSet(r, S) \/ Nothing) /\ Fails(w)
    <3> HIDE DEF S
    <3> QED
      BY <1>1, <2>1, <2>3, FailedPut
  <2>4. CASE pc[w] = "change" /\ GivesUp(w) /\ UNCHANGED <<provVars, faults>>
    <3>1. Nothing
      BY <2>4 DEF Nothing
    <3> QED
      BY <1>1, <2>4, <3>1, GivesUpSet, StillStep DEF Noted
  <2> HIDE DEF S, misnamed, mixed
  <2> QED
    BY <1>2, <1>4, <2>2, <2>3, <2>4 DEF Change, Call
<1>5. CASE Verify(w)
  BY <1>1, <1>5, VerifySet
<1> QED
  BY <1>3, <1>4, <1>5 DEF GoogleDelete

LEMMA CallsSet ==
    ASSUME Base, adapter \notin Keyed, NEW w \in Workers, Calls(w)
    PROVE  pc[w] # "idle" /\ adapter' = adapter /\ SetStep(w)
<1>1. pc[w] # "idle" /\ adapter' = adapter
  BY DEF Calls, Same
<1>2. CASE adapter = "route53"
  <2>1. \/ job[w].op = "create" /\ Route53Create(w)
        \/ job[w].op = "update" /\ Route53Update(w)
        \/ job[w].op = "delete" /\ Route53Delete(w)
    BY <1>2 DEF Calls, Creates, Updates, Deletes
  <2> QED
    BY <1>1, <1>2, <2>1, Route53CreateStep, Route53UpdateStep, Route53DeleteStep
<1>3. CASE adapter = "google"
  <2>1. \/ job[w].op = "create" /\ GoogleCreate(w)
        \/ job[w].op = "update" /\ GoogleUpdate(w)
        \/ job[w].op = "delete" /\ GoogleDelete(w)
    BY <1>3 DEF Calls, Creates, Updates, Deletes
  <2> QED
    BY <1>1, <1>3, <2>1, GoogleCreateStep, GoogleUpdateStep, GoogleDeleteStep
<1> QED
  BY <1>1, <1>2, <1>3 DEF Base, Typed, Adapters

LEMMA SetOutcome ==
    ASSUME adapter \notin Keyed, NEW w \in Workers, SetResult(w)
    PROVE  Outcome(w)
BY DEF SetResult, MovesOn, Adopts, Exchanges, Frees, LeavesIt, Outcome, Mid

-----------------------------------------------------------------------------
\* The invariants are kept where a type has one set.

LEMMA GoneSet ==
    ASSUME Base, GoneOK, adapter \notin Keyed, adapter' = adapter,
           NEW w \in Workers, pc[w] # "idle", SetStep(w)
    PROVE  GoneOK'
<1> DEFINE Meant(v) ==
              /\ job[v].handle.rec = job[v].rec
              /\ adapter = "route53" /\ pc[v] = "change" =>
                    job[v].rec \notin Served \/ \A s \in job[v].seen : SameType(s, job[v].rec)
           r0 == job[w].rec
           n0 == job[w].new
<1> SUFFICES ASSUME {"blind", "collided", "silent", "stale", "guess"} \cap mishaps' = {}
             PROVE
      /\ \A r \in gone' : Plain(r) => r \notin Served'
      /\ \A v \in Workers : pc'[v] # "idle" /\ job'[v].op = "delete" /\ job'[v].again =>
            /\ job'[v].handle.rec = job'[v].rec
            /\ adapter = "route53" /\ pc'[v] = "change" =>
                  job'[v].rec \notin Served' \/ \A s \in job'[v].seen : SameType(s, job'[v].rec)
  <2>1. \A r : Plain(r)' <=> Plain(r)
    BY DEF Plain
  <2> QED
    BY <2>1 DEF GoneOK, Plain, SameType
<1>1. /\ \A r \in gone : Plain(r) => r \notin Served
      /\ \A v \in Workers : pc[v] # "idle" /\ job[v].op = "delete" /\ job[v].again => Meant(v)
  BY DEF GoneOK, SetStep, Noted
<1>2. /\ SetResult(w) /\ Outcome(w) /\ "stale" \notin mishaps'
      /\ Served' \subseteq Served \cup Hands(w)
  BY SetOutcome DEF SetStep
<1>3. /\ r0 \in Recs /\ n0 \in Recs /\ r0 \notin gone /\ n0 \notin gone
      /\ Hands(w) = {r0, n0}
      /\ pc \in [Workers -> Steps] /\ job \in [Workers -> JobType]
      /\ gone \subseteq Recs
  BY InHandFacts DEF Hands, Base, Typed
<1>4. ASSUME Frees(w) PROVE r0 \notin Served'
  <2>1. job[w].op = "delete" /\ Freed(w)
    BY <1>4 DEF Frees, Dropped
  <2>2. job[w].again => Meant(w)
    BY <1>1, <2>1
  <2> QED
    BY <2>1, <2>2 DEF Freed
<1>5. ASSUME NEW r \in gone', Plain(r) PROVE r \notin Served'
  <2>1. CASE r \in gone
    BY <1>1, <1>2, <1>3, <1>5, <2>1
  <2>2. CASE r \notin gone
    <3>1. r = r0 /\ gone' # gone
      BY <1>2, <2>2, OutcomeAt
    <3>2. Exchanges(w) \/ Frees(w)
      BY <1>2, <3>1 DEF SetResult, MovesOn, Moves, Goto, Adopts, MadeAs, LeavesIt, GaveUp
    <3> QED
      BY <1>2, <1>4, <1>5, <3>1, <3>2 DEF Exchanges
  <2> QED
    BY <2>1, <2>2
<1>6. ASSUME NEW v \in Workers, pc'[v] # "idle", job'[v].op = "delete", job'[v].again
      PROVE  /\ job'[v].handle.rec = job'[v].rec
             /\ adapter = "route53" /\ pc'[v] = "change" =>
                  job'[v].rec \notin Served' \/ \A s \in job'[v].seen : SameType(s, job'[v].rec)
  <2>1. CASE v # w
    <3>1. pc'[v] = pc[v] /\ job'[v] = job[v]
      BY <1>2, <2>1, OutcomeAt
    <3>2. job[v].rec \notin Hands(w)
      BY <1>6, <2>1, <3>1, InHandFacts
    <3> QED
      BY <1>1, <1>2, <1>6, <3>1, <3>2
  <2>2. CASE v = w
    <3>1. ~Ends(w)
      BY <1>3, <1>6, <2>2 DEF Ends
    <3>2. \E s \in Mid, j \in JobType : MovesOn(w, s, j)
      BY <1>2, <3>1
         DEF SetResult, Adopts, MadeAs, Exchanges, Replaced, Frees, Dropped, RowGone, LeavesIt,
             GaveUp
    <3>3. PICK s \in Mid : \E j \in JobType : MovesOn(w, s, j)
      BY <3>2
    <3>4. PICK j \in JobType : MovesOn(w, s, j)
      BY <3>3
    <3>5. job'[w] = j /\ pc'[w] = s /\ j.rec = r0 /\ j.op = job[w].op
      BY <1>3, <3>4 DEF MovesOn, Moves, Goto
    <3>6. j.handle.rec = r0
      <4>1. CASE j.again = job[w].again /\ j.handle = job[w].handle
        BY <1>1, <1>6, <2>2, <3>5, <4>1
      <4>2. CASE j.handle.rec = r0
        BY <4>2
      <4> QED
        BY <3>4, <4>1, <4>2 DEF MovesOn
    <3> QED
      BY <2>2, <3>4, <3>5, <3>6 DEF MovesOn
  <2> QED
    BY <2>1, <2>2
<1> QED
  BY <1>5, <1>6

LEMMA GoogleSet ==
    ASSUME Base, GoogleOK, adapter = "google", adapter' = adapter,
           NEW w \in Workers, pc[w] # "idle", SetStep(w)
    PROVE  GoogleOK'
<1> SUFFICES ASSUME faults' = 0, Quiet', NEW r \in Recs, held'[r] # NoHandle,
                    \A v \in Workers : ~(pc'[v] = "verify" /\ job'[v].rec = r)
             PROVE  r \in Served'
  BY DEF GoogleOK
<1> DEFINE r0 == job[w].rec
           n0 == job[w].new
<1>1. adapter \notin Keyed /\ faults \in Nat
  BY ConstantsAssumption DEF Keyed, Base, Typed
<1>2. /\ ~Fault /\ faults = 0 /\ Quiet /\ "mixed" \notin mishaps' /\ Outcome(w)
      /\ SetResult(w) /\ Spares(w)
  BY <1>1, SetOutcome DEF SetStep, Noted, Fault, Quiet
<1>3. \A x \in Recs : held[x] # NoHandle =>
          x \in Served \/ \E v \in Workers : pc[v] = "verify" /\ job[v].rec = x
  BY <1>2 DEF GoogleOK
<1>4. /\ r0 \in Recs /\ n0 \in Recs /\ Hands(w) = {r0, n0}
      /\ job[w].op = "create" => held[r0] = NoHandle
      /\ job[w].op # "create" => held[r0] # NoHandle
      /\ job[w].op = "update" => held[n0] = NoHandle /\ n0 # r0
      /\ job[w].op # "update" => n0 = r0
      /\ held \in [Recs -> Handles \cup {NoHandle}]
      /\ pc \in [Workers -> Steps] /\ job \in [Workers -> JobType]
  BY InHandFacts, HandleFacts DEF Hands, Base, Typed
<1>5. \A v \in Workers : v # w => pc'[v] = pc[v] /\ job'[v] = job[v]
  BY <1>2, OutcomeAt
<1>6. \A v \in Workers : v # w /\ pc[v] = "verify" => job[v].rec \notin Hands(w)
  BY InHandFacts
\* A worker that is past its look has found its record, or never missed it.
<1>7. ASSUME pc[w] # "verify", job[w].op # "create" PROVE r0 \in Served
  BY <1>3, <1>4, <1>6, <1>7
<1>8. CASE r \notin Hands(w)
  <2>1. held[r] # NoHandle
    BY <1>2, <1>8, OutcomeAt
  <2>2. r \in Served
    <3>1. \A v \in Workers : ~(pc[v] = "verify" /\ job[v].rec = r)
      BY <1>4, <1>5, <1>8
    <3> QED
      BY <1>3, <2>1, <3>1
  <2>3. CASE Served \ {r0} \subseteq Served'
    BY <1>4, <1>8, <2>2, <2>3
  <2>4. ~(job[w].op = "delete" /\ pc[w] = "change" /\ r0 \notin Served)
    BY <1>7
  <2> QED
    BY <1>2, <2>3, <2>4 DEF Spares
<1>9. CASE r \in Hands(w)
  <2>1. ASSUME held' = held PROVE r = r0 /\ job[w].op # "create"
    BY <1>4, <1>9, <2>1
  <2>2. ASSUME NEW s \in Mid, NEW j \in JobType, MovesOn(w, s, j) PROVE r \in Served'
    <3>1. held' = held /\ job'[w].rec = r0 /\ pc'[w] = s
      BY <1>4, <2>2 DEF MovesOn, Moves, Goto
    <3>2. r = r0 /\ job[w].op # "create" /\ s # "verify"
      BY <2>1, <3>1
    <3>3. Nothing /\ (pc[w] = "verify" => r0 \in Served)
      BY <1>2, <2>2, <3>2 DEF MovesOn
    <3> QED
      BY <1>7, <3>2, <3>3, ServedKept
  <2>3. ASSUME NEW h \in Handles, Adopts(w, h) PROVE r \in Served'
    <3>1. r = r0
      BY <1>4, <1>9, <2>3 DEF Adopts, MadeAs
    <3> QED
      BY <1>2, <2>3, <3>1 DEF Adopts
  <2>4. CASE Exchanges(w)
    <3>1. held' = [held EXCEPT ![r0] = NoHandle, ![n0] = held[r0]] /\ n0 # r0
      BY <1>4, <2>4 DEF Exchanges, Replaced
    <3>2. r = n0
      BY <1>4, <1>9, <3>1
    <3> QED
      BY <2>4, <3>2 DEF Exchanges
  <2>5. CASE Frees(w)
    <3>1. held' = [held EXCEPT ![r0] = NoHandle] /\ n0 = r0
      BY <1>4, <2>5 DEF Frees, Dropped, RowGone
    <3> QED
      BY <1>4, <1>9, <3>1
  <2>6. CASE LeavesIt(w)
    <3>1. held' = held /\ Nothing /\ pc[w] # "verify"
      BY <1>2, <2>6 DEF LeavesIt, GaveUp
    <3> QED
      BY <1>7, <2>1, <3>1, ServedKept
  <2> QED
    BY <1>2, <2>2, <2>3, <2>4, <2>5, <2>6 DEF SetResult
<1> QED
  BY <1>8, <1>9

-----------------------------------------------------------------------------
\* The invariant is kept.

LEMMA CallsKeep ==
    ASSUME IInv, NEW w \in Workers, Calls(w)
    PROVE  IInv'
<1>1. Base /\ CopiesOK /\ GoneOK /\ KeyedOK /\ GoogleOK /\ adapter \in Adapters
  BY DEF IInv, Base, Typed
<1>2. UNCHANGED <<adapter, refuses, ops>> /\ pc[w] # "idle"
  BY DEF Calls, Same
<1>3. CASE adapter \in Keyed
  <2>1. KeyedStep(w) /\ adapter' = adapter
    BY <1>1, <1>2, <1>3, CallsKeyed
  <2>2. NextZone /\ Outcome(w) /\ Frame
    BY <1>1, <1>2, <1>3, <2>1, EffectZone, ResultOutcome DEF KeyedStep, Noted, Frame
  <2>3. Base'
    BY <1>1, <1>2, <2>2, OutcomeBase
  <2>4. CopiesOK'
    BY <1>1, <1>2, <1>3, <2>1, CopiesKeyed
  <2>5. GoneOK'
    BY <1>1, <1>2, <1>3, <2>1, <2>4, GoneKeyed
  <2>6. KeyedOK'
    BY <1>1, <1>2, <1>3, <2>1, KeyedKept
  <2>7. GoogleOK'
    BY <1>3, <2>1 DEF GoogleOK, Keyed
  <2> QED
    BY <2>3, <2>4, <2>5, <2>6, <2>7 DEF IInv
<1>4. CASE adapter \notin Keyed
  <2>1. SetStep(w) /\ adapter' = adapter
    BY <1>1, <1>2, <1>4, CallsSet
  <2>2. NextZone /\ Outcome(w) /\ Frame
    BY <1>2, <1>4, <2>1, SetOutcome DEF SetStep, Noted, Frame
  <2>3. Base'
    BY <1>1, <1>2, <2>2, OutcomeBase
  <2>4. CopiesOK' /\ KeyedOK'
    BY <1>4, <2>1 DEF CopiesOK, KeyedOK
  <2>5. GoneOK'
    BY <1>1, <1>2, <1>4, <2>1, GoneSet
  <2>6. GoogleOK'
    <3>1. CASE adapter = "google"
      BY <1>1, <1>2, <2>1, <3>1, GoogleSet
    <3>2. CASE adapter # "google"
      BY <2>1, <3>2 DEF GoogleOK
    <3> QED
      BY <3>1, <3>2
  <2> QED
    BY <2>3, <2>4, <2>5, <2>6 DEF IInv
<1> QED
  BY <1>3, <1>4

LEMMA BeginKeeps ==
    ASSUME IInv, NEW w \in Workers, NEW op \in {"create", "update", "delete"},
           NEW r \in Recs, NEW new \in Recs, Begin(w, op, r, new),
           held[r] = NoHandle <=> op = "create",
           op = "update" => held[new] = NoHandle /\ SameType(r, new),
           op # "update" => new = r
    PROVE  IInv'
<1> DEFINE j == [op |-> op, rec |-> r, new |-> new, handle |-> held[r],
                 again |-> FALSE, tries |-> Attempts, seen |-> {}]
<1>1. /\ Base /\ CopiesOK /\ GoneOK /\ KeyedOK /\ GoogleOK
      /\ Typed /\ ZoneOK /\ IdsOK /\ HandsApart
      /\ \A v \in Workers : HandOK(v)
      /\ \A x \in gone : held[x] = NoHandle
  BY DEF IInv, Base
<1>2. /\ pc[w] = "idle" /\ {r, new} \cap InHand = {} /\ ops < MaxOps /\ ops' = ops + 1
      /\ pc' = [pc EXCEPT ![w] = First(op)] /\ job' = [job EXCEPT ![w] = j]
      /\ gone' = gone \ {r, new}
      /\ zone' = zone /\ nextId' = nextId /\ held' = held /\ unsure' = unsure
      /\ mishaps' = mishaps /\ faults' = faults /\ adapter' = adapter /\ refuses' = refuses
  BY DEF Begin, provVars, Same
<1>3. /\ held[r] \in Handles \cup {NoHandle}
      /\ pc \in [Workers -> Steps] /\ job \in [Workers -> JobType]
  BY <1>1 DEF Typed
<1>4. /\ j \in JobType /\ j.op = op /\ j.rec = r /\ j.new = new /\ j.handle = held[r]
      /\ j.again = FALSE /\ j.tries = Attempts
  BY <1>3, ConstantsAssumption DEF JobType
<1> HIDE DEF j
<1>5. /\ First(op) \in Mid /\ First(op) \in Steps /\ First(op) # "idle"
      /\ First(op) \in {"check", "update", "delete"}
  BY DEF First, Mid, Steps
<1>6. /\ pc'[w] = First(op) /\ job'[w] = j
      /\ \A v \in Workers : v # w => pc'[v] = pc[v] /\ job'[v] = job[v]
  BY <1>2, <1>3
<1>7. \A v \in Workers : pc[v] # "idle" =>
          job[v].rec \notin {r, new} /\ job[v].new \notin {r, new}
  BY <1>2 DEF InHand
<1>8. Typed'
  <2>1. ops' \in 0..MaxOps
    BY <1>1, <1>2, ConstantsAssumption DEF Typed
  <2>2. pc' \in [Workers -> Steps] /\ job' \in [Workers -> JobType]
    BY <1>2, <1>3, <1>4, <1>5
  <2> QED
    BY <1>1, <1>2, <2>1, <2>2 DEF Typed
<1>9. ZoneOK'
  BY <1>1, <1>2 DEF ZoneOK, Entries
<1>10. IdsOK'
  BY <1>1, <1>2, <1>4, <1>6 DEF IdsOK
<1>11. HandsApart'
  <2>1. ASSUME NEW u \in Workers, NEW v \in Workers, u # v, pc'[u] # "idle", pc'[v] # "idle"
        PROVE  {job'[u].rec, job'[u].new} \cap {job'[v].rec, job'[v].new} = {}
    <3>1. CASE u # w /\ v # w
      BY <1>1, <1>6, <2>1, <3>1 DEF HandsApart, Hands
    <3>2. CASE u = w \/ v = w
      BY <1>4, <1>6, <1>7, <2>1, <3>2
    <3> QED
      BY <3>1, <3>2
  <2> QED
    BY <2>1 DEF HandsApart, Hands
<1>12. ASSUME NEW v \in Workers PROVE HandOK(v)'
  <2>1. CASE v = w
    BY <1>2, <1>4, <1>6, <2>1 DEF HandOK
  <2>2. CASE v # w
    BY <1>1, <1>2, <1>6, <2>2 DEF HandOK
  <2> QED
    BY <2>1, <2>2
<1>13. Base'
  BY <1>1, <1>2, <1>8, <1>9, <1>10, <1>11, <1>12 DEF Base
<1>14. Served' = Served /\ \A x : Plain(x)' <=> Plain(x)
  BY <1>2 DEF Served, Plain
<1>15. CopiesOK'
  BY <1>1, <1>2, <1>5, <1>6, <1>14 DEF CopiesOK
<1>16. GoneOK'
  <2> SUFFICES ASSUME {"blind", "collided", "silent", "stale", "guess"} \cap mishaps = {}
               PROVE  GoneOK'
    BY <1>2 DEF GoneOK
  <2>1. \A x \in gone' : Plain(x) => x \notin Served
    BY <1>1, <1>2 DEF GoneOK
  <2>2. adapter \in Keyed => \A x \in Recs, e \in zone :
            Plain(x) /\ held[x] # NoHandle /\ x \in e.recs => held[x].id \in {0, e.id}
    BY <1>1 DEF GoneOK
  <2>3. ASSUME NEW v \in Workers, pc'[v] # "idle", job'[v].op = "delete", job'[v].again
        PROVE  /\ v # w /\ pc'[v] = pc[v] /\ job'[v] = job[v]
               /\ job[v].handle.rec = job[v].rec
               /\ adapter \in Keyed =>
                     /\ job[v].handle.id # 0
                     /\ \A e \in zone : Plain(job[v].rec) /\ job[v].rec \in e.recs =>
                                            e.id = job[v].handle.id
               /\ adapter = "route53" /\ pc[v] = "change" =>
                     job[v].rec \notin Served \/ \A s \in job[v].seen : SameType(s, job[v].rec)
    <3>1. v # w
      BY <1>4, <1>6, <2>3
    <3> QED
      BY <1>1, <1>6, <2>3, <3>1 DEF GoneOK
  <2> QED
    BY <1>2, <1>14, <2>1, <2>2, <2>3 DEF GoneOK, SameType
<1>17. KeyedOK'
  <2> SUFFICES ASSUME adapter \in Keyed, Quiet PROVE KeyedOK'
    BY <1>2 DEF KeyedOK, Quiet
  <2>1. /\ Rows \ (InHand \cup unsure) \subseteq Served
        /\ \A x \in Recs : held[x] # NoHandle =>
              /\ \A e \in zone : e.id = held[x].id => RowNames(x, e)
              /\ held[x].id = 0 => held[x].rec = x
        /\ \A v \in Workers : pc[v] # "idle" /\ job[v].op = "delete" =>
              /\ \A e \in zone : e.id = job[v].handle.id => e.recs = {job[v].rec}
              /\ job[v].handle.id = 0 => job[v].handle.rec = job[v].rec
        /\ \A v \in Workers : pc[v] = "learn" => job[v].rec \in Served
    BY <1>1 DEF KeyedOK
  <2>2. Rows' \ (InHand' \cup unsure') \subseteq Served'
    <3>1. \A x \in InHand : x \in InHand'
      <4>1. \A v \in Workers : pc[v] # "idle" =>
                pc'[v] # "idle" /\ job'[v] = job[v]
        BY <1>2, <1>6
      <4> QED
        BY <4>1 DEF InHand
    <3>2. Rows' = Rows
      BY <1>2 DEF Rows
    <3> QED
      BY <1>2, <1>14, <2>1, <3>1, <3>2
  <2>3. ASSUME NEW x \in Recs, NEW e \in zone, RowNames(x, e) PROVE RowNames(x, e)'
    BY <1>2, <1>6, <2>3 DEF RowNames
  <2>4. ASSUME NEW v \in Workers, pc'[v] # "idle", job'[v].op = "delete"
        PROVE  /\ \A e \in zone : e.id = job'[v].handle.id => e.recs = {job'[v].rec}
               /\ job'[v].handle.id = 0 => job'[v].handle.rec = job'[v].rec
    <3>1. CASE v # w
      BY <1>6, <2>1, <2>4, <3>1
    <3>2. CASE v = w
      <4>1. job'[v].handle = held[r] /\ job'[v].rec = r /\ op = "delete"
        BY <1>4, <1>6, <2>4, <3>2
      <4>2. held[r] # NoHandle
        BY <4>1
      <4>3. ASSUME NEW e \in zone, RowNames(r, e) PROVE e.recs = {r}
        BY <1>7, <4>3 DEF RowNames
      <4> QED
        BY <2>1, <4>1, <4>2, <4>3
    <3> QED
      BY <3>1, <3>2
  <2>5. ASSUME NEW v \in Workers, pc'[v] = "learn" PROVE job'[v].rec \in Served'
    BY <1>5, <1>6, <1>14, <2>1, <2>5
  <2> QED
    BY <1>2, <2>1, <2>2, <2>3, <2>4, <2>5 DEF KeyedOK, RowNames
<1>18. GoogleOK'
  <2> SUFFICES ASSUME adapter = "google", faults = 0, Quiet, NEW x \in Recs, held[x] # NoHandle
               PROVE  x \in Served \/ \E v \in Workers : pc'[v] = "verify" /\ job'[v].rec = x
    BY <1>2, <1>14 DEF GoogleOK, Quiet
  <2>1. x \in Served \/ \E v \in Workers : pc[v] = "verify" /\ job[v].rec = x
    BY <1>1 DEF GoogleOK
  <2>2. \A v \in Workers : pc[v] = "verify" => pc'[v] = "verify" /\ job'[v] = job[v]
    BY <1>2, <1>6
  <2> QED
    BY <2>1, <2>2
<1> QED
  BY <1>13, <1>15, <1>16, <1>17, <1>18 DEF IInv

LEMMA StutterKeeps ==
    ASSUME IInv, UNCHANGED vars
    PROVE  IInv'
<1>1. /\ adapter' = adapter /\ zone' = zone /\ nextId' = nextId /\ held' = held
      /\ pc' = pc /\ job' = job /\ gone' = gone /\ unsure' = unsure
      /\ mishaps' = mishaps /\ ops' = ops /\ faults' = faults
  BY DEF vars
<1>2. Base'
  BY <1>1 DEF IInv, Base, Typed, ZoneOK, Entries, IdsOK, HandsApart, Hands, HandOK
<1>3. CopiesOK' /\ GoneOK'
  BY <1>1 DEF IInv, CopiesOK, GoneOK, Served, Plain
<1>4. KeyedOK' /\ GoogleOK'
  BY <1>1 DEF IInv, KeyedOK, GoogleOK, Served, Quiet, Rows, InHand, RowNames
<1> QED
  BY <1>2, <1>3, <1>4 DEF IInv

LEMMA IInvNext == IInv /\ [Next]_vars => IInv'
<1> SUFFICES ASSUME IInv, [Next]_vars PROVE IInv'
  OBVIOUS
<1>1. ASSUME NEW w \in Workers, CreateRecord(w) PROVE IInv'
  <2>1. PICK r \in Recs \ Rows : Begin(w, "create", r, r)
    BY <1>1 DEF CreateRecord
  <2>2. r \in Recs /\ held[r] = NoHandle
    BY <2>1 DEF Rows
  <2> QED
    BY <2>1, <2>2, BeginKeeps
<1>2. ASSUME NEW w \in Workers, UpdateRecord(w) PROVE IInv'
  <2>1. PICK r \in Rows : \E new \in Recs \ Rows : SameType(r, new) /\ Begin(w, "update", r, new)
    BY <1>2 DEF UpdateRecord
  <2>2. PICK new \in Recs \ Rows : SameType(r, new) /\ Begin(w, "update", r, new)
    BY <2>1
  <2>3. r \in Recs /\ held[r] # NoHandle /\ new \in Recs /\ held[new] = NoHandle
    BY DEF Rows
  <2> QED
    BY <2>2, <2>3, BeginKeeps
<1>3. ASSUME NEW w \in Workers, DeleteRecord(w) PROVE IInv'
  <2>1. PICK r \in Rows : Begin(w, "delete", r, r)
    BY <1>3 DEF DeleteRecord
  <2>2. r \in Recs /\ held[r] # NoHandle
    BY DEF Rows
  <2> QED
    BY <2>1, <2>2, BeginKeeps
<1> QED
  BY <1>1, <1>2, <1>3, CallsKeep, StutterKeeps DEF Next

LEMMA IInvAlways == Spec => []IInv
<1> QED
  BY IInvInit, IInvNext, PTL DEF Spec

-----------------------------------------------------------------------------
\* A creation that is tried again after a lost answer adds no second copy, whatever the
\* provider would accept: an adapter looks for the record before it adds it.
THEOREM NoCopyAdded == Spec => []OneCopy
<1>1. IInv => OneCopy
  BY IInvImplies
<1> QED
  BY <1>1, IInvAlways, PTL

\* A record that was reported deleted or replaced is not served: the value is looked up
\* after the delete, and what is found is deleted by its own id.
THEOREM ReportedIsGone == Spec => []GoneIsGone
<1>1. IInv => GoneIsGone
  BY IInvImplies
<1> QED
  BY <1>1, IInvAlways, PTL

\* An operation leaves the records of other rows served: an id, or the set that Google read,
\* names the worker's own record and no other.
THEOREM OthersStayServed == Spec => []OthersServed
<1>1. IInv => OthersServed
  BY IInvImplies
<1> QED
  BY <1>1, IInvAlways, PTL
=============================================================================
