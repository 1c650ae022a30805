------------------------- MODULE CreditLedgerProofs -------------------------
(***************************************************************************)
(* Machine-checked proofs about CreditLedger, for every set of users,      *)
(* names, orders and requests, and every bound.                            *)
(***************************************************************************)
EXTENDS CreditLedger, FiniteSetTheorems, TLAPS

Balance == 0..MaxBalance
Ops == {"none", "claim", "checkin", "grant", "register", "pay", "delete"}
Reasons == {"claim", "checkin", "grant", "bonus", "inviter", "invitee", "order", "refund"}
Refs == Int \cup Users \cup Orders \cup {NoUser}
Amount == Int \ {0}
Entry == [amt : Amount, after : Balance, why : Reasons, ref : Refs]
Sub == [owner : Users, cost : Prices, claim : 0..MaxClaims]
Keys == ({"name"} \X Names) \cup ({"user"} \X Users) \cup ({"order"} \X Orders)
        \cup ({"day"} \X Users \X (1..Days))
Statements(o) == [kind : {"move"}, u : Users, amt : Amount, why : Reasons, ref : Refs]
                 \cup [kind : {"hold"}, res : Keys]
                 \cup (IF o = "delete" THEN {Erase} ELSE {})

\* Each entry's balance is the one before plus its amount; the first starts from b.
Chain(es, b) ==
    \A i \in 1..Len(es) : es[i].after = es[i].amt + (IF i = 1 THEN b ELSE es[i - 1].after)

TablesTyped ==
    /\ bal \in [Users -> NoRow..MaxBalance]
    /\ orders \in [Orders -> [status : {"none", "pending", "paid"}, user : Users \cup {NoUser}]]
    /\ subs \in [Names -> Sub \cup {Free}]
    /\ checkins \subseteq Users \X (1..Days)
    /\ domain \in BOOLEAN /\ price \in Prices /\ day \in 1..Days /\ told \subseteq Orders
    /\ claims \in 0..MaxClaims
    /\ \A o \in Orders : orders[o].status = "pending" => orders[o].user \in Users

\* A user with a balance has a ledger, which ends in it.
LedgerOK(u) ==
    /\ txns[u] \in Seq(Entry)
    /\ Chain(txns[u], 0)
    /\ bal[u] = NoRow <=> txns[u] = <<>>
    /\ bal[u] # NoRow => Last(txns[u]).after = bal[u]

\* What a transaction has still to send, and what it will write.
TxTyped(t) ==
    /\ t = [op |-> t.op, arg |-> t.arg, steps |-> t.steps, holds |-> t.holds, log |-> t.log]
    /\ t.op \in Ops
    /\ t.steps \in Seq(Statements(t.op))
    /\ t.log \in [Users -> Seq(Entry)]
    /\ t.op = "claim" => t.arg.s \in Names /\ t.arg.sub \in Sub
    /\ t.op = "checkin" => t.arg.u \in Users /\ t.arg.d \in 1..Days
    /\ t.op = "pay" => t.arg.o \in Orders

\* Its entries continue the ledger of a user whose balance it has locked.
LogOK(t, b) ==
    \A u \in Users : /\ Chain(t.log[u], From(b[u]))
                     /\ t.log[u] # <<>> => <<"bal", u>> \in t.holds

LocksOK ==
    \A p, q \in Procs, u \in Users :
        <<"bal", u>> \in tx[p].holds /\ <<"bal", u>> \in tx[q].holds => p = q

TxsOK ==
    /\ tx = [p \in Procs |-> tx[p]]
    /\ \A p \in Procs : TxTyped(tx[p]) /\ LogOK(tx[p], bal)

LedgersOK ==
    /\ txns = [u \in Users |-> txns[u]]
    /\ \A u \in Users : LedgerOK(u)

IInv == TablesTyped /\ LedgersOK /\ TxsOK /\ LocksOK

-----------------------------------------------------------------------------
\* Lemmas about ledgers.

LEMMA Constants == /\ NoRow = -1 /\ MaxBalance \in Nat \ {0} /\ Reward \in Nat \ {0} /\ Days \in Nat \ {0}
                   /\ MaxClaims \in Nat /\ Prices \subseteq Int /\ Amounts \subseteq Amount
                   /\ NoUser \notin Users /\ IsFiniteSet(Names)
BY ConstantsAssumption DEF NoRow, Amount

\* An entry at the end of a chain.
LEMMA ChainAppend ==
    ASSUME NEW es \in Seq(Entry), NEW b \in Int, Chain(es, b), NEW e \in Entry,
           e.after = e.amt + (IF es = <<>> THEN b ELSE Last(es).after)
    PROVE  Append(es, e) \in Seq(Entry) /\ Chain(Append(es, e), b) /\ Append(es, e) # <<>>
           /\ Last(Append(es, e)) = e
<1> DEFINE fs == Append(es, e)
<1>1. /\ Len(fs) = Len(es) + 1 /\ Len(es) \in Nat /\ fs[Len(es) + 1] = e
      /\ \A i \in 1..Len(es) : fs[i] = es[i]
  OBVIOUS
<1>2. fs \in Seq(Entry) /\ fs # <<>>
  OBVIOUS
<1> HIDE DEF fs
<1>3. Last(fs) = e
  BY <1>1 DEF Last
<1>4. ASSUME NEW i \in 1..Len(fs)
      PROVE  fs[i].after = fs[i].amt + (IF i = 1 THEN b ELSE fs[i - 1].after)
  <2>1. CASE i \in 1..Len(es)
    <3>1. es[i].after = es[i].amt + (IF i = 1 THEN b ELSE es[i - 1].after)
      BY <2>1 DEF Chain
    <3>2. CASE i = 1
      BY <1>1, <2>1, <3>1, <3>2
    <3>3. CASE i # 1
      <4>1. i - 1 \in 1..Len(es)
        BY <1>1, <2>1, <3>3
      <4> QED
        BY <1>1, <2>1, <3>1, <3>3, <4>1
    <3> QED
      BY <3>2, <3>3
  <2>2. CASE i = Len(es) + 1
    <3>1. CASE es = <<>>
      <4>1. Len(es) = 0
        BY <3>1
      <4> QED
        BY <1>1, <2>2, <3>1, <4>1
    <3>2. CASE es # <<>>
      <4>1. Len(es) # 0 /\ i # 1 /\ i - 1 = Len(es) /\ Len(es) \in 1..Len(es)
        BY <1>1, <2>2, <3>2
      <4>2. fs[i - 1] = Last(es) /\ fs[i] = e
        BY <1>1, <2>2, <4>1 DEF Last
      <4> QED
        BY <3>2, <4>1, <4>2
    <3> QED
      BY <3>1, <3>2
  <2> QED
    BY <1>1, <2>1, <2>2
<1> QED
  BY <1>2, <1>3, <1>4 DEF fs, Chain

\* Two chains in a row, the second from where the first ends.
LEMMA ChainJoin ==
    ASSUME NEW es \in Seq(Entry), NEW fs \in Seq(Entry), NEW b \in Int, NEW c \in Int,
           Chain(es, b), Chain(fs, c), c = IF es = <<>> THEN b ELSE Last(es).after
    PROVE  /\ es \o fs \in Seq(Entry) /\ Chain(es \o fs, b)
           /\ fs # <<>> => es \o fs # <<>> /\ Last(es \o fs) = Last(fs)
           /\ fs = <<>> => es \o fs = es
<1> DEFINE gs == es \o fs
<1>1. /\ Len(gs) = Len(es) + Len(fs) /\ Len(es) \in Nat /\ Len(fs) \in Nat
      /\ \A i \in 1..Len(gs) : gs[i] = IF i <= Len(es) THEN es[i] ELSE fs[i - Len(es)]
  OBVIOUS
<1>2. gs \in Seq(Entry) /\ (fs = <<>> => gs = es)
  OBVIOUS
<1> HIDE DEF gs
<1>3. fs # <<>> => gs # <<>> /\ Last(gs) = Last(fs)
  <2> SUFFICES ASSUME fs # <<>> PROVE gs # <<>> /\ Last(gs) = Last(fs)
    OBVIOUS
  <2>1. Len(fs) # 0
    OBVIOUS
  <2>2. Len(gs) \in 1..Len(gs) /\ ~(Len(gs) <= Len(es)) /\ Len(gs) - Len(es) = Len(fs)
    BY <1>1, <2>1
  <2>3. gs[Len(gs)] = fs[Len(fs)]
    BY <1>1, <2>2
  <2>4. gs # <<>>
    BY <2>2
  <2> QED
    BY <2>3, <2>4 DEF Last
<1>4. ASSUME NEW i \in 1..Len(gs)
      PROVE  gs[i].after = gs[i].amt + (IF i = 1 THEN b ELSE gs[i - 1].after)
  <2>1. CASE i <= Len(es)
    <3>1. i \in 1..Len(es) /\ gs[i] = es[i]
      BY <1>1, <2>1
    <3>2. es[i].after = es[i].amt + (IF i = 1 THEN b ELSE es[i - 1].after)
      BY <3>1 DEF Chain
    <3>3. i # 1 => gs[i - 1] = es[i - 1]
      <4> SUFFICES ASSUME i # 1 PROVE gs[i - 1] = es[i - 1]
        OBVIOUS
      <4>1. i - 1 \in 1..Len(gs) /\ i - 1 <= Len(es)
        BY <1>1, <2>1
      <4> QED
        BY <1>1, <4>1
    <3> QED
      BY <3>1, <3>2, <3>3
  <2>2. CASE ~(i <= Len(es))
    <3> DEFINE k == i - Len(es)
    <3>1. k \in 1..Len(fs) /\ gs[i] = fs[k]
      BY <1>1, <2>2
    <3>2. fs[k].after = fs[k].amt + (IF k = 1 THEN c ELSE fs[k - 1].after)
      BY <3>1 DEF Chain
    <3>3. CASE k # 1
      <4>1. /\ i - 1 \in 1..Len(gs) /\ ~(i - 1 <= Len(es)) /\ i - 1 - Len(es) = k - 1 /\ i # 1
        BY <1>1, <2>2, <3>1, <3>3
      <4>2. gs[i - 1] = fs[k - 1]
        BY <1>1, <4>1
      <4> QED
        BY <3>1, <3>2, <3>3, <4>1, <4>2
    <3>4. CASE k = 1 /\ es = <<>>
      <4>1. i = 1
        BY <3>4
      <4> QED
        BY <3>1, <3>2, <3>4, <4>1
    <3>5. CASE k = 1 /\ es # <<>>
      <4>1. Len(es) # 0
        BY <3>5
      <4>2. i - 1 = Len(es) /\ Len(es) \in 1..Len(gs) /\ i # 1
        BY <1>1, <3>5, <4>1
      <4>3. gs[i - 1] = Last(es)
        BY <1>1, <4>2 DEF Last
      <4> QED
        BY <3>1, <3>2, <3>5, <4>2, <4>3
    <3> QED
      BY <3>3, <3>4, <3>5
  <2> QED
    BY <2>1, <2>2
<1> QED
  BY <1>2, <1>3, <1>4 DEF gs, Chain

\* Where a chain ends there is a balance.
LEMMA LastBalance ==
    ASSUME NEW es \in Seq(Entry), es # <<>>
    PROVE  Last(es) \in Entry /\ Last(es).after \in Balance
<1>1. Len(es) \in 1..Len(es)
  OBVIOUS
<1>2. Last(es) \in Entry
  BY <1>1 DEF Last
<1> QED
  BY <1>2 DEF Entry

-----------------------------------------------------------------------------
\* Lemmas about transactions.

LEMMA NoTxTyped == TxTyped(NoTx) /\ (\A b : LogOK(NoTx, b)) /\ NoTx.holds = {} /\ NoTx.op = "none"
<1>1. /\ NoTx.op = "none" /\ NoTx.steps = <<>> /\ NoTx.holds = {} /\ NoTx.log = NoEntries
      /\ NoTx = [op |-> NoTx.op, arg |-> NoTx.arg, steps |-> NoTx.steps, holds |-> NoTx.holds,
                 log |-> NoTx.log]
  BY DEF NoTx
<1>2. <<>> \in Seq(Statements("none")) /\ <<>> \in Seq(Entry)
  OBVIOUS
<1>3. NoEntries \in [Users -> Seq(Entry)] /\ \A u \in Users : NoEntries[u] = <<>>
  BY <1>2 DEF NoEntries
<1>4. TxTyped(NoTx)
  BY <1>1, <1>2, <1>3 DEF TxTyped, Ops
<1>5. \A b : Chain(<<>>, b)
  BY DEF Chain
<1>6. \A b : LogOK(NoTx, b)
  BY <1>1, <1>3, <1>5 DEF LogOK
<1> QED
  BY <1>1, <1>4, <1>6

\* One transaction moves on while no balance changes.
LEMMA TxMoves ==
    ASSUME TxsOK, LocksOK, NEW p \in Procs, NEW t, TxTyped(t), LogOK(t, bal),
           \A u \in Users : <<"bal", u>> \in t.holds =>
               \A q \in Procs \ {p} : <<"bal", u>> \notin tx[q].holds,
           tx' = [tx EXCEPT ![p] = t], bal' = bal
    PROVE  TxsOK' /\ LocksOK'
<1>1. /\ tx' = [q \in Procs |-> tx'[q]]
      /\ tx'[p] = t /\ \A q \in Procs : q # p => tx'[q] = tx[q]
  BY DEF TxsOK
<1>2. TxsOK'
  BY <1>1 DEF TxsOK
<1>3. LocksOK'
  BY <1>1 DEF LocksOK
<1> QED
  BY <1>2, <1>3

LEMMA Begins ==
    ASSUME TxsOK, LocksOK, NEW p \in Procs, NEW o \in Ops, NEW arg, NEW steps,
           steps \in Seq(Statements(o)),
           o = "claim" => arg.s \in Names /\ arg.sub \in Sub,
           o = "checkin" => arg.u \in Users /\ arg.d \in 1..Days,
           o = "pay" => arg.o \in Orders,
           Begin(p, o, arg, steps), bal' = bal
    PROVE  TxsOK' /\ LocksOK'
<1> DEFINE t == [op |-> o, arg |-> arg, steps |-> steps, holds |-> {}, log |-> NoEntries]
<1>1. tx' = [tx EXCEPT ![p] = t]
  BY DEF Begin
<1>2. t.op = o /\ t.arg = arg /\ t.steps = steps /\ t.holds = {} /\ t.log = NoEntries
  OBVIOUS
<1>3. t = [op |-> t.op, arg |-> t.arg, steps |-> t.steps, holds |-> t.holds, log |-> t.log]
  OBVIOUS
<1> HIDE DEF t
<1>4. NoEntries \in [Users -> Seq(Entry)] /\ \A u \in Users : NoEntries[u] = <<>>
  <2>1. <<>> \in Seq(Entry)
    OBVIOUS
  <2> QED
    BY <2>1 DEF NoEntries
<1>5. TxTyped(t)
  BY <1>2, <1>3, <1>4 DEF TxTyped
<1>6. LogOK(t, bal)
  BY <1>2, <1>4 DEF LogOK, Chain
<1> QED
  BY <1>1, <1>2, <1>5, <1>6, TxMoves

LEMMA Aborts ==
    ASSUME IInv, NEW p \in Procs, Abort(p), price' = price, day' = day, claims' = claims
    PROVE  IInv'
<1>1. tx' = [tx EXCEPT ![p] = NoTx] /\ UNCHANGED tables
  BY DEF Abort
<1>2. TxsOK' /\ LocksOK'
  BY <1>1, NoTxTyped, TxMoves DEF IInv, tables
<1>3. told' \subseteq Orders
  <2>1. TxTyped(tx[p]) /\ told \subseteq Orders
    BY DEF IInv, TxsOK, TablesTyped
  <2>2. tx[p].op = "pay" => tx[p].arg.o \in Orders
    BY <2>1 DEF TxTyped
  <2> QED
    BY <2>1, <2>2 DEF Abort, Answer
<1>4. TablesTyped'
  BY <1>1, <1>3 DEF IInv, TablesTyped, tables
<1>5. LedgersOK'
  BY <1>1 DEF IInv, LedgersOK, LedgerOK, tables
<1> QED
  BY <1>2, <1>4, <1>5 DEF IInv

\* A statement that moves credits is well formed.
LEMMA MoveTyped ==
    ASSUME NEW o, NEW u \in Users, NEW amt \in Amount, NEW why \in Reasons, NEW ref \in Refs
    PROVE  Move(u, amt, why, ref) \in Statements(o)
BY DEF Move, Statements

LEMMA HoldTyped ==
    ASSUME NEW o, NEW r \in Keys
    PROVE  Hold(r) \in Statements(o)
BY DEF Hold, Statements

-----------------------------------------------------------------------------
\* The initial states.

LEMMA IInvInit == Init => IInv
<1> SUFFICES ASSUME Init PROVE IInv
  OBVIOUS
<1> USE Constants DEF Init
<1> DEFINE e == [amt |-> 1, after |-> 1, why |-> "bonus", ref |-> 0]
<1>1. bal \in [Users -> {-1, 1}]
  OBVIOUS
<1>2. TablesTyped
  <2>1. bal \in [Users -> NoRow..MaxBalance]
    <3>1. \A u \in Users : bal[u] \in NoRow..MaxBalance
      BY <1>1
    <3> QED
      BY <1>1, <3>1
  <2>2. /\ subs \in [Names -> Sub \cup {Free}] /\ day \in 1..Days /\ claims \in 0..MaxClaims
        /\ domain \in BOOLEAN /\ price \in Prices /\ told \subseteq Orders
        /\ checkins \subseteq Users \X (1..Days)
    OBVIOUS
  <2>3. /\ orders \in [Orders -> [status : {"none", "pending", "paid"}, user : Users \cup {NoUser}]]
        /\ \A o \in Orders : orders[o].status = "none"
    OBVIOUS
  <2> QED
    BY <2>1, <2>2, <2>3 DEF TablesTyped
<1>3. e \in Entry /\ e.after = 1 /\ e.amt = 1
  BY DEF Entry, Amount, Balance, Reasons, Refs
<1>4. /\ txns = [u \in Users |-> txns[u]]
      /\ \A u \in Users : txns[u] = IF bal[u] = NoRow THEN <<>> ELSE <<e>>
  OBVIOUS
<1> HIDE DEF e
<1>5. ASSUME NEW u \in Users PROVE LedgerOK(u)
  <2>1. CASE bal[u] = NoRow
    BY <1>4, <2>1 DEF LedgerOK, Chain
  <2>2. CASE bal[u] # NoRow
    <3>1. txns[u] = <<e>> /\ bal[u] = 1
      BY <1>1, <1>4, <2>2
    <3>2. txns[u] \in Seq(Entry) /\ Len(txns[u]) = 1 /\ txns[u][1] = e /\ txns[u] # <<>>
      BY <1>3, <3>1
    <3>3. Chain(txns[u], 0)
      BY <1>3, <3>2 DEF Chain
    <3>4. Last(txns[u]).after = bal[u]
      BY <1>3, <3>1, <3>2 DEF Last
    <3> QED
      BY <2>2, <3>2, <3>3, <3>4 DEF LedgerOK
  <2> QED
    BY <2>1, <2>2
<1>6. LedgersOK
  BY <1>4, <1>5 DEF LedgersOK
<1>7. tx = [p \in Procs |-> tx[p]] /\ \A p \in Procs : tx[p] = NoTx
  OBVIOUS
<1>8. TxsOK /\ LocksOK
  BY <1>7, NoTxTyped DEF TxsOK, LocksOK
<1> QED
  BY <1>2, <1>6, <1>8 DEF IInv

-----------------------------------------------------------------------------
\* What it says of the ledger.

LEMMA IInvExplains == IInv => LedgerExplainsBalance
<1> SUFFICES ASSUME IInv PROVE LedgerExplainsBalance
  OBVIOUS
<1>1. ASSUME NEW u \in Users
      PROVE  /\ \A i \in DOMAIN txns[u] : txns[u][i].amt \in Int \ {0}
             /\ \A i \in DOMAIN txns[u] :
                   txns[u][i].after = txns[u][i].amt + (IF i = 1 THEN 0 ELSE txns[u][i - 1].after)
             /\ bal[u] # NoRow => txns[u] # <<>> /\ Last(txns[u]).after = bal[u] /\ bal[u] \in 0..MaxBalance
  <2>1. LedgerOK(u)
    BY DEF IInv, LedgersOK
  <2>2. txns[u] \in Seq(Entry) /\ DOMAIN txns[u] = 1..Len(txns[u])
    BY <2>1 DEF LedgerOK
  <2>3. \A i \in DOMAIN txns[u] : txns[u][i] \in Entry
    BY <2>2
  <2>4. bal[u] \in NoRow..MaxBalance
    BY DEF IInv, TablesTyped
  <2>5. bal[u] # NoRow => bal[u] \in 0..MaxBalance
    BY <2>4, Constants
  <2> QED
    BY <2>1, <2>2, <2>3, <2>5 DEF LedgerOK, Chain, Entry, Amount
<1>2. TypeOK
  <2>1. \A s \in Names : subs[s] \in [owner : Users \cup {NoUser}, cost : Prices \cup {0}, claim : 0..MaxClaims]
    BY Constants DEF IInv, TablesTyped, Sub, Free
  <2>2. \A p \in Procs : tx[p].op \in Ops
    BY DEF IInv, TxsOK, TxTyped
  <2> QED
    BY <1>1, <2>1, <2>2 DEF TypeOK, IInv, TablesTyped, Ops
<1> QED
  BY <1>1, <1>2 DEF LedgerExplainsBalance, Members

-----------------------------------------------------------------------------
\* The requests.

\* A request that only begins a transaction.
LEMMA OnlyBegins ==
    ASSUME IInv, UNCHANGED <<tables, price, day, told>>, claims' \in 0..MaxClaims, TxsOK', LocksOK'
    PROVE  IInv'
<1>1. TablesTyped'
  BY DEF IInv, TablesTyped, tables
<1>2. LedgersOK'
  BY DEF IInv, LedgersOK, LedgerOK, tables
<1> QED
  BY <1>1, <1>2 DEF IInv

LEMMA ClaimStep ==
    ASSUME IInv, NEW p \in Procs, NEW u \in Users, NEW s \in Names, Claim(p, u, s)
    PROVE  IInv'
<1> DEFINE c == claims + 1
           sub == [owner |-> u, cost |-> price, claim |-> c]
           arg == [s |-> s, sub |-> sub]
           charge == Charge(u, price, c)
           hold == Hold(<<"name", s>>)
           steps == charge \o <<hold>>
<1>1. claims \in Nat /\ c \in 0..MaxClaims /\ price \in Prices /\ price \in Int
  BY Constants DEF IInv, TablesTyped, Claim
<1>2. claims' = c /\ Begin(p, "claim", arg, steps) /\ UNCHANGED <<tables, price, day, told>>
  BY DEF Claim
<1>3. sub \in Sub
  BY <1>1 DEF Sub
<1>4. charge \in Seq(Statements("claim"))
  <2>1. CASE price # 0
    <3>1. -price \in Amount /\ "claim" \in Reasons /\ c \in Refs
      BY <1>1, <2>1 DEF Amount, Reasons, Refs
    <3>2. Move(u, -price, "claim", c) \in Statements("claim")
      BY <3>1, MoveTyped
    <3> QED
      BY <2>1, <3>2 DEF Charge
  <2>2. CASE price = 0
    BY <2>2 DEF Charge
  <2> QED
    BY <2>1, <2>2
<1>5. hold \in Statements("claim")
  BY HoldTyped DEF Keys
<1> HIDE DEF charge, hold
<1>6. steps \in Seq(Statements("claim"))
  BY <1>4, <1>5
<1>7. arg.s \in Names /\ arg.sub \in Sub
  BY <1>3
<1> HIDE DEF steps, arg
<1>8. TxsOK' /\ LocksOK'
  BY <1>2, <1>6, <1>7, Begins DEF IInv, tables, Ops
<1> QED
  BY <1>1, <1>2, <1>8, OnlyBegins

LEMMA CheckinStep ==
    ASSUME IInv, NEW p \in Procs, NEW u \in Users, DailyCheckin(p, u)
    PROVE  IInv'
<1> DEFINE arg == [u |-> u, d |-> day]
           hold == Hold(<<"day", u, day>>)
           move == Move(u, Reward, "checkin", day)
           steps == <<hold, move>>
<1>1. Begin(p, "checkin", arg, steps) /\ UNCHANGED <<tables, price, day, told, claims>>
  BY DEF DailyCheckin
<1>2. day \in 1..Days /\ day \in Refs /\ Reward \in Amount /\ "checkin" \in Reasons
  BY Constants DEF IInv, TablesTyped, Refs, Amount, Reasons
<1>3. hold \in Statements("checkin")
  BY <1>2, HoldTyped DEF Keys
<1>4. move \in Statements("checkin")
  BY <1>2, MoveTyped
<1> HIDE DEF hold, move
<1>5. steps \in Seq(Statements("checkin")) /\ arg.u \in Users /\ arg.d \in 1..Days
  BY <1>2, <1>3, <1>4
<1> HIDE DEF steps, arg
<1>6. TxsOK' /\ LocksOK'
  BY <1>1, <1>5, Begins DEF IInv, tables, Ops
<1> QED
  BY <1>1, <1>6, OnlyBegins DEF IInv, TablesTyped

LEMMA GrantStep ==
    ASSUME IInv, NEW p \in Procs, NEW u \in Users, NEW amt \in Amounts, AdminGrant(p, u, amt)
    PROVE  IInv'
<1> DEFINE arg == [u |-> u]
           move == Move(u, amt, "grant", 0)
           steps == <<move>>
<1>1. Begin(p, "grant", arg, steps) /\ UNCHANGED <<tables, price, day, told, claims>>
  BY DEF AdminGrant
<1>2. 0 \in Refs /\ amt \in Amount /\ "grant" \in Reasons
  BY Constants DEF Refs, Amount, Reasons
<1>3. move \in Statements("grant")
  BY <1>2, MoveTyped
<1> HIDE DEF move
<1>4. steps \in Seq(Statements("grant"))
  BY <1>3
<1> HIDE DEF steps, arg
<1>5. TxsOK' /\ LocksOK'
  BY <1>1, <1>4, Begins DEF IInv, tables, Ops
<1> QED
  BY <1>1, <1>5, OnlyBegins DEF IInv, TablesTyped

LEMMA RegisterStep ==
    ASSUME IInv, NEW p \in Procs, NEW u \in Users, NEW inviter \in Users \cup {NoUser},
           Register(p, u, inviter)
    PROVE  IInv'
<1> DEFINE arg == [u |-> u]
           S == Statements("register")
           first == <<Hold(<<"user", u>>), Move(u, Reward, "bonus", 0)>>
           more == IF inviter = NoUser THEN <<>>
                   ELSE <<Move(inviter, Reward, "inviter", u), Move(u, Reward, "invitee", inviter)>>
           steps == first \o more
<1>1. Begin(p, "register", arg, steps) /\ UNCHANGED <<tables, price, day, told, claims>>
  BY DEF Register
<1>2. /\ 0 \in Refs /\ u \in Refs /\ inviter \in Refs /\ Reward \in Amount
      /\ {"bonus", "inviter", "invitee"} \subseteq Reasons
  BY Constants DEF Refs, Amount, Reasons
<1>3. Hold(<<"user", u>>) \in S /\ Move(u, Reward, "bonus", 0) \in S
  BY <1>2, HoldTyped, MoveTyped DEF Keys
<1>4. first \in Seq(S)
  BY <1>3
<1>5. more \in Seq(S)
  <2>1. CASE inviter = NoUser
    BY <2>1
  <2>2. CASE inviter # NoUser
    <3>1. inviter \in Users
      BY <2>2
    <3>2. Move(inviter, Reward, "inviter", u) \in S /\ Move(u, Reward, "invitee", inviter) \in S
      BY <1>2, <3>1, MoveTyped
    <3> QED
      BY <2>2, <3>2
  <2> QED
    BY <2>1, <2>2
<1> HIDE DEF first, more
<1>6. steps \in Seq(Statements("register"))
  BY <1>4, <1>5
<1> HIDE DEF steps, arg
<1>7. TxsOK' /\ LocksOK'
  BY <1>1, <1>6, Begins DEF IInv, tables, Ops
<1> QED
  BY <1>1, <1>7, OnlyBegins DEF IInv, TablesTyped

LEMMA CallbackStep ==
    ASSUME IInv, NEW p \in Procs, NEW o \in Orders, Callback(p, o)
    PROVE  IInv'
<1> DEFINE arg == [o |-> o, read |-> orders[o].status]
           hold == Hold(<<"order", o>>)
           move == Move(orders[o].user, Reward, "order", o)
           steps == <<hold, move>>
<1>1. Begin(p, "pay", arg, steps) /\ UNCHANGED <<tables, price, day, told, claims>>
  BY DEF Callback
<1>2. o \in Refs /\ Reward \in Amount /\ "order" \in Reasons /\ orders[o].user \in Users
  BY Constants DEF IInv, TablesTyped, Refs, Amount, Reasons, Callback, Payable
<1>3. hold \in Statements("pay")
  BY HoldTyped DEF Keys
<1>4. move \in Statements("pay")
  BY <1>2, MoveTyped
<1> HIDE DEF hold, move
<1>5. steps \in Seq(Statements("pay")) /\ arg.o \in Orders
  BY <1>3, <1>4
<1> HIDE DEF steps, arg
<1>6. TxsOK' /\ LocksOK'
  BY <1>1, <1>5, Begins DEF IInv, tables, Ops
<1> QED
  BY <1>1, <1>6, OnlyBegins DEF IInv, TablesTyped

\* A refund names the claimant, an amount and the claim.
LEMMA RefundTyped ==
    ASSUME NEW sub \in Sub, NEW c \in Prices, price = c, RefundOf(sub) # 0
    PROVE  Move(sub.owner, RefundOf(sub), "refund", sub.claim) \in Statements("delete")
<1>1. sub.owner \in Users /\ sub.cost \in Prices /\ sub.claim \in 0..MaxClaims
  BY DEF Sub
<1>2. RefundOf(sub) \in Prices
  BY <1>1 DEF RefundOf
<1>3. RefundOf(sub) \in Amount
  BY <1>2, Constants DEF Amount
<1>4. "refund" \in Reasons /\ sub.claim \in Refs
  BY <1>1, Constants DEF Reasons, Refs
<1> QED
  BY <1>1, <1>3, <1>4, MoveTyped

LEMMA AdminDeleteStep ==
    ASSUME IInv, NEW p \in Procs, NEW refund \in BOOLEAN, AdminDelete(p, refund)
    PROVE  IInv'
<1> DEFINE owedSet == IF refund THEN {s \in Taken : RefundOf(subs[s]) # 0} ELSE {}
           arg == [erased |-> {}]
           Refunds(owed) == [i \in DOMAIN owed |->
                                LET sub == subs[owed[i]]
                                IN Move(sub.owner, RefundOf(sub), "refund", sub.claim)]
           S == Statements("delete")
           last == IF Taken = {} THEN <<>> ELSE <<Erase>>
<1>1. PICK owed \in SetToSeqs(owedSet) : Begin(p, "delete", arg, Refunds(owed) \o last)
  BY DEF AdminDelete
<1>2. UNCHANGED <<tables, price, day, told, claims>>
  BY DEF AdminDelete
<1>3. Cardinality(owedSet) \in Nat
  <2>1. owedSet \subseteq Names
    BY DEF Taken
  <2>2. IsFiniteSet(owedSet)
    BY <2>1, Constants, FS_Subset
  <2> QED
    BY <2>2, FS_CardinalityType
<1>4. \A s \in owedSet : subs[s] \in Sub /\ RefundOf(subs[s]) # 0
  BY DEF Taken, IInv, TablesTyped
<1>5. \E n \in Nat : owed \in [1..n -> owedSet]
  BY <1>1, <1>3 DEF SetToSeqs
<1>6. Refunds(owed) \in Seq(S)
  <2>1. PICK n \in Nat : owed \in [1..n -> owedSet]
    BY <1>5
  <2>2. DOMAIN owed = 1..n /\ \A i \in 1..n : owed[i] \in owedSet
    BY <2>1
  <2>3. ASSUME NEW i \in 1..n
        PROVE  Move(subs[owed[i]].owner, RefundOf(subs[owed[i]]), "refund", subs[owed[i]].claim) \in S
    <3>1. subs[owed[i]] \in Sub /\ RefundOf(subs[owed[i]]) # 0 /\ price \in Prices
      BY <1>4, <2>2 DEF IInv, TablesTyped
    <3> HIDE DEF S
    <3> QED
      BY <3>1, RefundTyped DEF S
  <2> HIDE DEF S
  <2>4. Refunds(owed) \in [1..n -> S]
    BY <2>2, <2>3
  <2> HIDE DEF Refunds
  <2> QED
    BY <2>4
<1>7. last \in Seq(S)
  <2>1. Erase \in S
    BY DEF Statements
  <2> HIDE DEF S
  <2> QED
    BY <2>1
<1> HIDE DEF Refunds, last
<1>8. Refunds(owed) \o last \in Seq(Statements("delete"))
  BY <1>6, <1>7
<1> HIDE DEF arg
<1>9. TxsOK' /\ LocksOK'
  <2> DEFINE steps == Refunds(owed) \o last
  <2>1. steps \in Seq(Statements("delete")) /\ Begin(p, "delete", arg, steps)
    BY <1>1, <1>8
  <2> HIDE DEF steps
  <2> QED
    BY <1>2, <2>1, Begins DEF IInv, tables, Ops
<1> QED
  BY <1>2, <1>9, OnlyBegins DEF IInv, TablesTyped

\* A request that sends no more than one statement.
LEMMA OnlyTables ==
    ASSUME IInv, TablesTyped', UNCHANGED <<bal, txns, tx>>
    PROVE  IInv'
BY DEF IInv, LedgersOK, LedgerOK, TxsOK, LocksOK

LEMMA CreateOrderStep ==
    ASSUME IInv, NEW o \in Orders, NEW u \in Members, CreateOrder(o, u)
    PROVE  IInv'
<1>1. u \in Users
  BY DEF Members
<1>2. orders' = [orders EXCEPT ![o] = [status |-> "pending", user |-> u]]
  BY DEF CreateOrder
<1>3. /\ orders' \in [Orders -> [status : {"none", "pending", "paid"}, user : Users \cup {NoUser}]]
      /\ \A x \in Orders : orders'[x].status = "pending" => orders'[x].user \in Users
  BY <1>1, <1>2 DEF IInv, TablesTyped
<1>4. TablesTyped'
  BY <1>3 DEF IInv, TablesTyped, CreateOrder
<1> QED
  BY <1>4, OnlyTables DEF CreateOrder

LEMMA InstantStep ==
    ASSUME IInv, Instant
    PROVE  IInv'
<1>1. ASSUME NEW o \in Orders, CallbackIgnored(o) PROVE IInv'
  BY <1>1, OnlyTables DEF CallbackIgnored, IInv, TablesTyped, tables
<1>2. ASSUME NEW s \in Names, Release(s) PROVE IInv'
  <2>1. subs' \in [Names -> Sub \cup {Free}]
    BY <1>2 DEF Release, IInv, TablesTyped
  <2>2. TablesTyped'
    BY <1>2, <2>1 DEF Release, IInv, TablesTyped
  <2> QED
    BY <1>2, <2>2, OnlyTables DEF Release
<1>3. ASSUME NEW c \in Prices, SetPrice(c) PROVE IInv'
  <2>1. TablesTyped'
    BY <1>3 DEF SetPrice, IInv, TablesTyped, tables
  <2> QED
    BY <1>3, <2>1, OnlyTables DEF SetPrice, tables
<1>4. ASSUME NextDay PROVE IInv'
  <2>1. day' \in 1..Days
    BY <1>4, Constants DEF NextDay, IInv, TablesTyped
  <2>2. TablesTyped'
    BY <1>4, <2>1 DEF NextDay, IInv, TablesTyped, tables
  <2> QED
    BY <1>4, <2>2, OnlyTables DEF NextDay, tables
<1> QED
  BY <1>1, <1>2, <1>3, <1>4, CreateOrderStep DEF Instant

LEMMA StartStep ==
    ASSUME IInv, NEW p \in Procs, Start(p)
    PROVE  IInv'
<1>1. CASE \E u \in Members :
              \/ \E s \in Names : Claim(p, u, s)
              \/ DailyCheckin(p, u)
              \/ \E amt \in Amounts : AdminGrant(p, u, amt)
  <2>1. PICK u \in Users : \/ \E s \in Names : Claim(p, u, s)
                           \/ DailyCheckin(p, u)
                           \/ \E amt \in Amounts : AdminGrant(p, u, amt)
    BY <1>1 DEF Members
  <2> QED
    BY <2>1, ClaimStep, CheckinStep, GrantStep
<1>2. CASE \E u \in Users, inviter \in Users \cup {NoUser} : Register(p, u, inviter)
  BY <1>2, RegisterStep
<1>3. CASE \E o \in Orders : Callback(p, o)
  BY <1>3, CallbackStep
<1>4. CASE \E refund \in BOOLEAN : AdminDelete(p, refund)
  BY <1>4, AdminDeleteStep
<1> QED
  BY <1>1, <1>2, <1>3, <1>4 DEF Start

-----------------------------------------------------------------------------
\* The statements.

\* The statement a transaction sends next.
LEMMA NextStatement ==
    ASSUME NEW t, TxTyped(t), t.steps # <<>>
    PROVE  Head(t.steps) \in Statements(t.op) /\ Tail(t.steps) \in Seq(Statements(t.op))
<1> DEFINE S == Statements(t.op)
<1>1. t.steps \in Seq(S)
  BY DEF TxTyped
<1> HIDE DEF S
<1>2. Head(t.steps) \in S /\ Tail(t.steps) \in Seq(S)
  BY <1>1
<1> QED
  BY <1>2 DEF S

\* An admissible amount leaves a balance.
LEMMA AdmissibleIsBalance ==
    ASSUME NEW seen \in NoRow..MaxBalance, NEW amt \in Amount, Admissible(seen, amt)
    PROVE  From(seen) + amt \in Balance
BY Constants DEF Admissible, From, Balance, Amount

LEMMA MoveStep ==
    ASSUME IInv, NEW p \in Procs, MoveCredits(p)
    PROVE  IInv'
<1> DEFINE m == Head(tx[p].steps)
           u == m.u
           seen == Seen(p, u)
           es == tx[p].log[u]
           b == From(bal[u])
           e == [amt |-> m.amt, after |-> From(seen) + m.amt, why |-> m.why, ref |-> m.ref]
           t == [op |-> tx[p].op, arg |-> tx[p].arg, steps |-> Tail(tx[p].steps),
                 holds |-> tx[p].holds \cup {<<"bal", u>>},
                 log |-> [tx[p].log EXCEPT ![u] = Append(@, e)]]
<1>1. TxTyped(tx[p]) /\ LogOK(tx[p], bal) /\ tx[p].steps # <<>> /\ m.kind = "move"
  BY DEF MoveCredits, IInv, TxsOK
<1>2. /\ u \in Users /\ m.amt \in Amount /\ m.why \in Reasons /\ m.ref \in Refs
      /\ Tail(tx[p].steps) \in Seq(Statements(tx[p].op))
  <2>1. m \in Statements(tx[p].op) /\ Tail(tx[p].steps) \in Seq(Statements(tx[p].op))
    BY <1>1, NextStatement
  <2> HIDE DEF m
  <2> QED
    BY <1>1, <2>1 DEF Statements, Erase
<1>3. UNCHANGED <<price, day, claims>> /\ MayRead(p, u)
  BY DEF MoveCredits
<1>4. CASE Abort(p)
  BY <1>3, <1>4, Aborts
<1>5. CASE /\ Admissible(seen, m.amt)
           /\ tx' = [tx EXCEPT ![p].steps = Tail(@),
                               ![p].holds = @ \cup {<<"bal", u>>},
                               ![p].log[u] = Append(@, e)]
           /\ UNCHANGED <<tables, told>>
  <2>1. tx' = [tx EXCEPT ![p] = t]
    <3> DEFINE T == [tx EXCEPT ![p].steps = Tail(@),
                               ![p].holds = @ \cup {<<"bal", u>>},
                               ![p].log[u] = Append(@, e)]
    <3> HIDE DEF m, e, u
    <3>1. /\ tx = [q \in Procs |-> tx[q]]
          /\ tx[p] = [op |-> tx[p].op, arg |-> tx[p].arg, steps |-> tx[p].steps, holds |-> tx[p].holds,
                      log |-> tx[p].log]
      BY <1>1 DEF IInv, TxsOK, TxTyped
    <3>2. T[p] = t
      BY <3>1
    <3>3. T = [q \in Procs |-> T[q]] /\ \A q \in Procs : q # p => T[q] = tx[q]
      BY <3>1
    <3>4. tx' = T
      BY <1>5
    <3> HIDE DEF T, t
    <3>5. T = [tx EXCEPT ![p] = t]
      BY <3>1, <3>2, <3>3
    <3> QED
      BY <3>4, <3>5
  <2>2. es \in Seq(Entry) /\ Chain(es, b) /\ bal[u] \in NoRow..MaxBalance /\ tx[p].log \in [Users -> Seq(Entry)]
    BY <1>1, <1>2 DEF TxTyped, LogOK, IInv, TablesTyped
  <2>3. b \in Int
    BY <2>2, Constants DEF From
  <2>4. /\ seen \in NoRow..MaxBalance
        /\ From(seen) = IF es = <<>> THEN b ELSE Last(es).after
    <3> HIDE DEF es, u
    <3>1. seen = IF es # <<>> THEN Last(es).after ELSE bal[u]
      BY DEF Seen, Entries, es
    <3>2. CASE es # <<>>
      <4>1. Last(es).after \in Balance
        BY <2>2, <3>2, LastBalance
      <4> HIDE DEF seen
      <4> QED
        BY <3>1, <3>2, <4>1, Constants DEF From, Balance
    <3>3. CASE es = <<>>
      BY <2>2, <3>1, <3>3
    <3> QED
      BY <3>2, <3>3
  <2> DEFINE k == From(seen) + m.amt
  <2>5. k \in Balance
    <3> HIDE DEF seen, m
    <3> QED
      BY <1>2, <1>5, <2>4, AdmissibleIsBalance
  <2>6. e \in Entry /\ e.after = k /\ e.amt = m.amt
    <3>1. e = [amt |-> m.amt, after |-> k, why |-> m.why, ref |-> m.ref]
      OBVIOUS
    <3> HIDE DEF k, m
    <3> QED
      BY <1>2, <2>5, <3>1 DEF Entry
  <2> HIDE DEF e
  <2> DEFINE fs == Append(es, e)
  <2>7. fs \in Seq(Entry) /\ Chain(fs, b)
    <3>1. e.after = e.amt + (IF es = <<>> THEN b ELSE Last(es).after)
      <4>1. From(seen) + m.amt = m.amt + From(seen)
        <5>1. From(seen) \in Int /\ m.amt \in Int
          <6> HIDE DEF seen, m
          <6> QED
            BY <1>2, <2>4, Constants DEF From, Amount
        <5> HIDE DEF seen, m
        <5> QED
          BY <5>1
      <4> HIDE DEF es, b, seen
      <4> QED
        BY <2>4, <2>6, <4>1
    <3> HIDE DEF es, b
    <3> QED
      BY <2>2, <2>3, <2>6, <3>1, ChainAppend
  <2>8. /\ t.op = tx[p].op /\ t.arg = tx[p].arg /\ t.steps = Tail(tx[p].steps)
        /\ t.holds = tx[p].holds \cup {<<"bal", u>>} /\ t.log = [tx[p].log EXCEPT ![u] = fs]
        /\ t = [op |-> t.op, arg |-> t.arg, steps |-> t.steps, holds |-> t.holds, log |-> t.log]
    <3> HIDE DEF m, u, e
    <3> QED
      OBVIOUS
  <2> HIDE DEF t, fs
  <2>9. /\ t.log \in [Users -> Seq(Entry)] /\ t.log[u] = fs
        /\ \A x \in Users \ {u} : t.log[x] = tx[p].log[x]
    <3> HIDE DEF m, u
    <3> QED
      BY <1>2, <2>2, <2>7, <2>8
  <2>10. TxTyped(t)
    <3> HIDE DEF m, u
    <3> QED
      BY <1>1, <1>2, <2>8, <2>9 DEF TxTyped
  <2>11. LogOK(t, bal)
    <3> HIDE DEF m, u
    <3> QED
      BY <1>1, <2>7, <2>8, <2>9 DEF LogOK
  <2>12. ASSUME NEW x \in Users, <<"bal", x>> \in t.holds
         PROVE  \A q \in Procs \ {p} : <<"bal", x>> \notin tx[q].holds
    <3> HIDE DEF m, u
    <3>1. CASE x = u
      BY <1>3, <3>1 DEF MayRead, Available
    <3>2. CASE x # u
      <4>1. <<"bal", x>> \in tx[p].holds
        BY <2>8, <2>12, <3>2
      <4> QED
        BY <4>1 DEF IInv, LocksOK
    <3> QED
      BY <3>1, <3>2
  <2>13. TxsOK' /\ LocksOK'
    <3>1. bal' = bal
      BY <1>5 DEF tables
    <3> QED
      BY <2>1, <2>10, <2>11, <2>12, <3>1, TxMoves DEF IInv
  <2> QED
    BY <1>3, <1>5, <2>13, OnlyBegins DEF IInv, TablesTyped
<1> QED
  BY <1>4, <1>5 DEF MoveCredits

LEMMA HoldStep ==
    ASSUME IInv, NEW p \in Procs, HoldKey(p)
    PROVE  IInv'
<1> DEFINE r == Head(tx[p].steps).res
           t == [op |-> tx[p].op, arg |-> tx[p].arg, steps |-> Tail(tx[p].steps),
                 holds |-> tx[p].holds \cup {r}, log |-> tx[p].log]
<1>1. TxTyped(tx[p]) /\ LogOK(tx[p], bal) /\ tx[p].steps # <<>> /\ Head(tx[p].steps).kind = "hold"
  BY DEF HoldKey, IInv, TxsOK
<1>2. r \in Keys /\ Tail(tx[p].steps) \in Seq(Statements(tx[p].op))
  <2> DEFINE m == Head(tx[p].steps)
  <2>1. m \in Statements(tx[p].op) /\ Tail(tx[p].steps) \in Seq(Statements(tx[p].op))
    BY <1>1, NextStatement
  <2> HIDE DEF m
  <2>2. m.res \in Keys
    BY <1>1, <2>1 DEF Statements, Erase, m
  <2> QED
    BY <2>1, <2>2 DEF m
<1>3. UNCHANGED <<price, day, claims>>
  BY DEF HoldKey
<1>4. CASE Abort(p)
  BY <1>3, <1>4, Aborts
<1>5. CASE /\ tx' = [tx EXCEPT ![p].steps = Tail(@), ![p].holds = @ \cup {r}]
           /\ UNCHANGED <<tables, told>>
  <2> HIDE DEF r
  <2>1. /\ tx = [q \in Procs |-> tx[q]]
        /\ tx[p] = [op |-> tx[p].op, arg |-> tx[p].arg, steps |-> tx[p].steps, holds |-> tx[p].holds,
                    log |-> tx[p].log]
    BY <1>1 DEF IInv, TxsOK, TxTyped
  <2>2. tx' = [tx EXCEPT ![p] = t]
    <3> DEFINE T == [tx EXCEPT ![p].steps = Tail(@), ![p].holds = @ \cup {r}]
    <3>1. T[p] = t
      BY <2>1
    <3>2. T = [q \in Procs |-> T[q]] /\ \A q \in Procs : q # p => T[q] = tx[q]
      BY <2>1
    <3>3. tx' = T
      BY <1>5
    <3> HIDE DEF T, t
    <3>4. T = [tx EXCEPT ![p] = t]
      BY <2>1, <3>1, <3>2
    <3> QED
      BY <3>3, <3>4
  <2>3. /\ t.op = tx[p].op /\ t.arg = tx[p].arg /\ t.steps = Tail(tx[p].steps)
        /\ t.holds = tx[p].holds \cup {r} /\ t.log = tx[p].log
        /\ t = [op |-> t.op, arg |-> t.arg, steps |-> t.steps, holds |-> t.holds, log |-> t.log]
    OBVIOUS
  <2> HIDE DEF t
  <2>4. TxTyped(t) /\ LogOK(t, bal)
    BY <1>1, <1>2, <2>3 DEF TxTyped, LogOK
  <2>5. \A u \in Users : <<"bal", u>> # r
    BY <1>2 DEF Keys
  <2>6. \A u \in Users : <<"bal", u>> \in t.holds =>
            \A q \in Procs \ {p} : <<"bal", u>> \notin tx[q].holds
    BY <2>3, <2>5 DEF IInv, LocksOK
  <2>7. bal' = bal
    BY <1>5 DEF tables
  <2>8. TxsOK' /\ LocksOK'
    BY <2>2, <2>4, <2>6, <2>7, TxMoves DEF IInv
  <2> QED
    BY <1>3, <1>5, <2>8, OnlyBegins DEF IInv, TablesTyped
<1> QED
  BY <1>4, <1>5 DEF HoldKey

LEMMA EraseStep ==
    ASSUME IInv, NEW p \in Procs, EraseSubdomains(p)
    PROVE  IInv'
<1>1. TxTyped(tx[p]) /\ LogOK(tx[p], bal) /\ tx[p].steps # <<>> /\ Head(tx[p].steps).kind = "erase"
  BY DEF EraseSubdomains, IInv, TxsOK
<1>2. tx[p].op = "delete" /\ Tail(tx[p].steps) \in Seq(Statements(tx[p].op))
  <2> DEFINE m == Head(tx[p].steps)
  <2>1. m \in Statements(tx[p].op) /\ Tail(tx[p].steps) \in Seq(Statements(tx[p].op)) /\ m.kind = "erase"
    BY <1>1, NextStatement
  <2> HIDE DEF m
  <2> QED
    BY <2>1 DEF Statements
<1> DEFINE a == [tx[p].arg EXCEPT !.erased = Taken]
           t == [op |-> tx[p].op, arg |-> a, steps |-> Tail(tx[p].steps), holds |-> tx[p].holds,
                 log |-> tx[p].log]
<1>3. /\ tx = [q \in Procs |-> tx[q]]
      /\ tx[p] = [op |-> tx[p].op, arg |-> tx[p].arg, steps |-> tx[p].steps, holds |-> tx[p].holds,
                  log |-> tx[p].log]
  BY <1>1 DEF IInv, TxsOK, TxTyped
<1>4. tx' = [tx EXCEPT ![p] = t]
  <2> DEFINE T == [tx EXCEPT ![p].steps = Tail(@), ![p].arg.erased = Taken]
  <2>1. T[p] = t
    BY <1>3
  <2>2. T = [q \in Procs |-> T[q]] /\ \A q \in Procs : q # p => T[q] = tx[q]
    BY <1>3
  <2>3. tx' = T
    BY DEF EraseSubdomains
  <2> HIDE DEF T, t
  <2>4. T = [tx EXCEPT ![p] = t]
    BY <1>3, <2>1, <2>2
  <2> QED
    BY <2>3, <2>4
<1> HIDE DEF a
<1>5. /\ t.op = tx[p].op /\ t.steps = Tail(tx[p].steps) /\ t.holds = tx[p].holds /\ t.log = tx[p].log
      /\ t = [op |-> t.op, arg |-> t.arg, steps |-> t.steps, holds |-> t.holds, log |-> t.log]
  OBVIOUS
<1> HIDE DEF t
<1>6. TxTyped(t) /\ LogOK(t, bal)
  BY <1>1, <1>2, <1>5 DEF TxTyped, LogOK
<1>7. \A u \in Users : <<"bal", u>> \in t.holds =>
          \A q \in Procs \ {p} : <<"bal", u>> \notin tx[q].holds
  BY <1>5 DEF IInv, LocksOK
<1>8. UNCHANGED <<tables, price, day, told, claims>>
  BY DEF EraseSubdomains
<1>9. TxsOK' /\ LocksOK'
  <2>1. bal' = bal
    BY <1>8 DEF tables
  <2> QED
    BY <1>4, <1>6, <1>7, <2>1, TxMoves DEF IInv
<1> QED
  BY <1>8, <1>9, OnlyBegins DEF IInv, TablesTyped

LEMMA CommitStep ==
    ASSUME IInv, NEW p \in Procs, Commit(p)
    PROVE  IInv'
<1>1. TxTyped(tx[p]) /\ LogOK(tx[p], bal) /\ TablesTyped /\ LedgersOK
  BY DEF IInv, TxsOK
<1>2. /\ bal' = [u \in Users |-> IF tx[p].log[u] # <<>> THEN Last(tx[p].log[u]).after ELSE bal[u]]
      /\ txns' = [u \in Users |-> txns[u] \o tx[p].log[u]]
      /\ tx' = [tx EXCEPT ![p] = NoTx]
      /\ UNCHANGED <<price, day, claims>>
  BY DEF Commit, Entries
<1>3. ASSUME NEW u \in Users
      PROVE  LedgerOK(u)' /\ bal'[u] \in NoRow..MaxBalance
  <2> DEFINE es == txns[u]
             fs == tx[p].log[u]
             c == From(bal[u])
  <2>1. LedgerOK(u) /\ es \in Seq(Entry) /\ fs \in Seq(Entry) /\ bal[u] \in NoRow..MaxBalance
    BY <1>1 DEF LedgersOK, LedgerOK, TablesTyped, TxTyped
  <2>2. txns'[u] = es \o fs /\ bal'[u] = IF fs # <<>> THEN Last(fs).after ELSE bal[u]
    BY <1>2
  <2>3. Chain(es, 0) /\ Chain(fs, c) /\ c \in Int
    <3>1. Chain(es, 0)
      BY <2>1 DEF LedgerOK
    <3>2. Chain(fs, c)
      BY <1>1 DEF LogOK
    <3>3. c \in Int
      BY <2>1, Constants DEF From
    <3> QED
      BY <3>1, <3>2, <3>3
  <2>4. c = IF es = <<>> THEN 0 ELSE Last(es).after
    BY <2>1 DEF LedgerOK, From
  <2> HIDE DEF es, fs, c
  <2>5. /\ es \o fs \in Seq(Entry) /\ Chain(es \o fs, 0)
        /\ fs # <<>> => es \o fs # <<>> /\ Last(es \o fs) = Last(fs)
        /\ fs = <<>> => es \o fs = es
    BY <2>1, <2>3, <2>4, ChainJoin
  <2>6. CASE fs = <<>>
    <3>1. txns'[u] = txns[u] /\ bal'[u] = bal[u]
      BY <2>2, <2>5, <2>6 DEF es
    <3> QED
      BY <2>1, <3>1 DEF LedgerOK
  <2>7. CASE fs # <<>>
    <3>1. Last(fs).after \in Balance
      BY <2>1, <2>7, LastBalance
    <3>2. bal'[u] \in NoRow..MaxBalance /\ bal'[u] # NoRow
      BY <2>2, <2>7, <3>1, Constants DEF Balance
    <3>3. txns'[u] \in Seq(Entry) /\ Chain(txns'[u], 0) /\ txns'[u] # <<>> /\ Last(txns'[u]).after = bal'[u]
      BY <2>2, <2>5, <2>7
    <3> QED
      BY <3>2, <3>3 DEF LedgerOK
  <2> QED
    BY <2>6, <2>7
<1>4. LedgersOK'
  BY <1>2, <1>3 DEF LedgersOK
<1>5. TxsOK' /\ LocksOK'
  <2>1. /\ tx' = [q \in Procs |-> tx'[q]]
        /\ tx'[p] = NoTx /\ \A q \in Procs : q # p => tx'[q] = tx[q]
    BY <1>2 DEF IInv, TxsOK
  <2>2. ASSUME NEW q \in Procs, q # p PROVE LogOK(tx[q], bal')
    <3> SUFFICES ASSUME NEW u \in Users
                 PROVE  /\ Chain(tx[q].log[u], From(bal'[u]))
                        /\ tx[q].log[u] # <<>> => <<"bal", u>> \in tx[q].holds
      BY DEF LogOK
    <3>1. LogOK(tx[q], bal)
      BY DEF IInv, TxsOK
    <3>2. CASE tx[q].log[u] = <<>>
      BY <3>2 DEF Chain
    <3>3. CASE tx[q].log[u] # <<>>
      <4>1. <<"bal", u>> \notin tx[p].holds /\ <<"bal", u>> \in tx[q].holds
        BY <2>2, <3>1, <3>3 DEF LogOK, IInv, LocksOK
      <4>2. bal'[u] = bal[u]
        BY <1>1, <1>2, <4>1 DEF LogOK
      <4> QED
        BY <3>1, <4>1, <4>2 DEF LogOK
    <3> QED
      BY <3>2, <3>3
  <2>3. \A q \in Procs : TxTyped(tx'[q]) /\ LogOK(tx'[q], bal')
    <3> TAKE q \in Procs
    <3>1. CASE q = p
      BY <2>1, <3>1, NoTxTyped
    <3>2. CASE q # p
      <4>1. TxTyped(tx[q])
        BY DEF IInv, TxsOK
      <4> QED
        BY <2>1, <2>2, <3>2, <4>1
    <3> QED
      BY <3>1, <3>2
  <2>4. LocksOK'
    BY <2>1, NoTxTyped DEF IInv, LocksOK
  <2> QED
    BY <2>1, <2>3, <2>4 DEF TxsOK
<1>6. TablesTyped'
  <2>1. bal' \in [Users -> NoRow..MaxBalance]
    BY <1>2, <1>3
  <2>2. /\ orders' \in [Orders -> [status : {"none", "pending", "paid"}, user : Users \cup {NoUser}]]
        /\ \A o \in Orders : orders'[o].status = "pending" => orders'[o].user \in Users
    <3>1. CASE tx[p].op # "pay"
      BY <1>1, <3>1 DEF Commit, TablesTyped
    <3>2. CASE tx[p].op = "pay"
      <4> DEFINE x == tx[p].arg.o
      <4>1. x \in Orders /\ orders' = [orders EXCEPT ![x].status = "paid"]
        BY <1>1, <3>2 DEF Commit, TxTyped
      <4>2. orders[x].user \in Users \cup {NoUser}
        BY <1>1, <4>1 DEF TablesTyped
      <4>3. /\ orders' \in [Orders -> [status : {"none", "pending", "paid"}, user : Users \cup {NoUser}]]
            /\ orders'[x].user = orders[x].user /\ \A o \in Orders \ {x} : orders'[o] = orders[o]
        BY <1>1, <4>1 DEF TablesTyped
      <4>4. orders'[x].status = "paid"
        BY <1>1, <4>1 DEF TablesTyped
      <4> QED
        BY <1>1, <4>3, <4>4 DEF TablesTyped
    <3> QED
      BY <3>1, <3>2
  <2>3. subs' \in [Names -> Sub \cup {Free}]
    <3>1. CASE tx[p].op = "claim"
      BY <1>1, <3>1 DEF Commit, TablesTyped, TxTyped
    <3>2. CASE tx[p].op = "delete"
      BY <3>2 DEF Commit
    <3>3. CASE tx[p].op \notin {"claim", "delete"}
      BY <1>1, <3>3 DEF Commit, TablesTyped
    <3> QED
      BY <3>1, <3>2, <3>3
  <2>4. checkins' \subseteq Users \X (1..Days)
    <3>1. CASE tx[p].op = "checkin"
      BY <1>1, <3>1 DEF Commit, TablesTyped, TxTyped
    <3>2. CASE tx[p].op # "checkin"
      BY <1>1, <3>2 DEF Commit, TablesTyped
    <3> QED
      BY <3>1, <3>2
  <2>5. told' \subseteq Orders /\ domain' \in BOOLEAN
    BY <1>1 DEF Commit, Answer, TxTyped, TablesTyped
  <2> QED
    BY <1>1, <1>2, <2>1, <2>2, <2>3, <2>4, <2>5 DEF TablesTyped
<1> QED
  BY <1>4, <1>5, <1>6 DEF IInv

LEMMA StatementStep ==
    ASSUME IInv, NEW p \in Procs, Statement(p) \/ StatementFails(p)
    PROVE  IInv'
<1>1. CASE DomainInUse(p)
  BY <1>1, Aborts DEF DomainInUse
<1>2. CASE StatementFails(p)
  BY <1>2, Aborts DEF StatementFails
<1> QED
  BY <1>1, <1>2, MoveStep, HoldStep, EraseStep, CommitStep DEF Statement

LEMMA CrashStep ==
    ASSUME IInv, Crash
    PROVE  IInv'
<1>1. /\ tx' = [p \in Procs |-> tx'[p]] /\ \A p \in Procs : tx'[p] = NoTx
      /\ UNCHANGED <<tables, price, day, told, claims>>
  BY DEF Crash
<1>2. TxsOK' /\ LocksOK'
  BY <1>1, NoTxTyped DEF TxsOK, LocksOK
<1> QED
  BY <1>1, <1>2, OnlyBegins DEF IInv, TablesTyped

-----------------------------------------------------------------------------
\* The theorem.

LEMMA IInvStep == IInv /\ [Next]_vars => IInv'
<1> SUFFICES ASSUME IInv, [Next]_vars PROVE IInv'
  OBVIOUS
<1>1. ASSUME NEW p \in Procs, Start(p) \/ Statement(p) \/ StatementFails(p) PROVE IInv'
  BY <1>1, StartStep, StatementStep
<1>2. CASE UNCHANGED vars
  BY <1>2, OnlyBegins DEF vars, IInv, TxsOK, LocksOK, TablesTyped, tables
<1> QED
  BY <1>1, <1>2, InstantStep, CrashStep DEF Next

LEMMA IInvAlways == Spec => []IInv
<1> QED
  BY IInvInit, IInvStep, PTL DEF Spec
-----------------------------------------------------------------------------
(* The second layer: what the entries are for *)

\* Whose and for what the entries are that a request may write.
Carried(t, u, amt, why, ref) ==
    /\ why = "checkin" => t.op = "checkin" /\ u = t.arg.u /\ ref = t.arg.d
    /\ why = "order" => t.op = "pay" /\ ref = t.arg.o
    /\ why = "claim" => /\ t.op = "claim" /\ t.arg.sub.cost # 0
                        /\ u = t.arg.sub.owner /\ ref = t.arg.sub.claim /\ amt = -t.arg.sub.cost
    /\ why = "refund" => t.op = "delete"

Moves(t) == {i \in DOMAIN t.steps : t.steps[i].kind = "move"}

\* No two of a request's moves, sent or to be sent, are for the same thing.
Distinct(t) ==
    /\ \A i, j \in Moves(t) : t.steps[i].why = t.steps[j].why /\ t.steps[i].ref = t.steps[j].ref => i = j
    /\ \A i \in Moves(t), u \in Users : \A k \in DOMAIN t.log[u] :
          ~(t.steps[i].why = t.log[u][k].why /\ t.steps[i].ref = t.log[u][k].ref)
    /\ \A u, v \in Users : \A k \in DOMAIN t.log[u], l \in DOMAIN t.log[v] :
          t.log[u][k].why = t.log[v][l].why /\ t.log[u][k].ref = t.log[v][l].ref => u = v /\ k = l

Due(t, why, ref) ==
    \/ \E i \in Moves(t) : t.steps[i].why = why /\ t.steps[i].ref = ref
    \/ \E u \in Users : \E k \in DOMAIN t.log[u] : t.log[u][k].why = why /\ t.log[u][k].ref = ref

HoldsOrWill(t, r) == r \in t.holds \/ \E i \in DOMAIN t.steps : t.steps[i] = Hold(r)

Tidy(t) ==
    /\ \A i \in Moves(t) : LET m == t.steps[i] IN Carried(t, m.u, m.amt, m.why, m.ref)
    /\ \A u \in Users : \A k \in DOMAIN t.log[u] :
          LET e == t.log[u][k] IN Carried(t, u, e.amt, e.why, e.ref)
    /\ Distinct(t)
    /\ \A i \in DOMAIN t.steps, o \in Orders : t.steps[i] = Hold(<<"order", o>>) => t.op = "pay"
    /\ t.op = "checkin" => HoldsOrWill(t, <<"day", t.arg.u, t.arg.d>>)
    /\ t.op = "pay" => /\ HoldsOrWill(t, <<"order", t.arg.o>>)
                       /\ t.arg.read = "pending"
                       /\ Due(t, "order", t.arg.o)
    /\ t.op = "claim" /\ t.arg.sub.cost # 0 => Due(t, "claim", t.arg.sub.claim)

\* Where the ledgers L have entries for something.
Written(L, why, ref) ==
    {e \in UNION {{<<u, i>> : i \in DOMAIN L[u]} : u \in Users} :
        L[e[1]][e[2]].why = why /\ L[e[1]][e[2]].ref = ref}

AmountOf(L, e) == L[e[1]][e[2]].amt

\* A refund belongs to a claim that was paid for.
Backed(L, u, amt, ref) == \E f \in Written(L, "claim", ref) : f[1] = u /\ amt = -AmountOf(L, f)

RefundsBacked(L, t) ==
    /\ \A i \in Moves(t) : t.steps[i].why = "refund" => Backed(L, t.steps[i].u, t.steps[i].amt, t.steps[i].ref)
    /\ \A u \in Users : \A k \in DOMAIN t.log[u] :
          t.log[u][k].why = "refund" => Backed(L, u, t.log[u][k].amt, t.log[u][k].ref)

\* A key has one holder, who found it free.
KeysOK ==
    /\ \A p, q \in Procs : p # q => tx[p].holds \cap tx[q].holds = {}
    /\ \A p \in Procs : \A u \in Users, d \in 1..Days :
          <<"day", u, d>> \in tx[p].holds => <<u, d>> \notin checkins
    /\ \A p \in Procs : \A o \in Orders :
          <<"order", o>> \in tx[p].holds /\ "duplicate" \notin mishaps => orders[o].status = "pending"

\* Claims are numbered, and a number has one claim.
NumbersOK ==
    /\ \A p \in Procs : tx[p].op = "claim" =>
          /\ tx[p].arg.sub.claim \in 1..claims
          /\ \A q \in Procs : tx[q].op = "claim" /\ tx[q].arg.sub.claim = tx[p].arg.sub.claim => p = q
          /\ \A s \in Taken : subs[s].claim # tx[p].arg.sub.claim
          /\ Written(txns, "claim", tx[p].arg.sub.claim) = {}
    /\ \A s \in Taken : subs[s].claim \in 1..claims
    /\ \A s, r \in Taken : subs[s].claim = subs[r].claim => s = r
    /\ \A u \in Users : \A i \in DOMAIN txns[u] : txns[u][i].why = "claim" => txns[u][i].ref \in 1..claims

\* What the ledger says of check-ins, of orders, of a subdomain's claim and of
\* refunds.
CheckinsOK ==
    \A u \in Users, d \in 1..Days : \A e, f \in Written(txns, "checkin", d) :
        e[1] = u => <<u, d>> \in checkins /\ (f[1] = u => e = f)

OrdersOK ==
    \A o \in Orders :
        /\ (orders[o].status = "paid") = (Written(txns, "order", o) # {})
        /\ "duplicate" \notin mishaps => \A e, f \in Written(txns, "order", o) : e = f

PaidFor(L, sub) ==
    /\ sub.cost = 0 => Written(L, "claim", sub.claim) = {}
    /\ sub.cost # 0 =>
          \E e \in Written(L, "claim", sub.claim) :
              /\ Written(L, "claim", sub.claim) = {e}
              /\ e[1] = sub.owner /\ AmountOf(L, e) = -sub.cost

RefundsOK ==
    /\ "twice" \notin mishaps /\ domain => \A u \in Users : \A i \in DOMAIN txns[u] : txns[u][i].why # "refund"
    /\ mishaps \cap {"twice", "fallback"} = {} =>
          \A c \in 1..MaxClaims : \A e, f \in Written(txns, "refund", c) :
              e = f /\ Backed(txns, e[1], AmountOf(txns, e), c)
    /\ "fallback" \notin mishaps => \A p \in Procs : RefundsBacked(txns, tx[p])

BooksOK == CheckinsOK /\ OrdersOK /\ (\A s \in Taken : PaidFor(txns, subs[s])) /\ RefundsOK

Books == (\A p \in Procs : Tidy(tx[p])) /\ KeysOK /\ NumbersOK /\ BooksOK

-----------------------------------------------------------------------------
\* Lemmas about a request's moves.

\* A sequence without its first element.
LEMMA Shift ==
    ASSUME NEW S, NEW ss \in Seq(S), ss # <<>>
    PROVE  /\ 1 \in DOMAIN ss /\ ss[1] = Head(ss)
           /\ \A i \in DOMAIN Tail(ss) : /\ i \in Nat /\ i + 1 \in DOMAIN ss /\ i + 1 # 1
                                         /\ Tail(ss)[i] = ss[i + 1]
           /\ \A i \in DOMAIN ss : i # 1 => /\ i \in Nat /\ i - 1 \in DOMAIN Tail(ss)
                                            /\ Tail(ss)[i - 1] = ss[i]
<1>1. /\ DOMAIN ss = 1..Len(ss) /\ Len(ss) \in Nat /\ Len(ss) # 0
      /\ DOMAIN Tail(ss) = 1..(Len(ss) - 1)
      /\ \A i \in 1..(Len(ss) - 1) : Tail(ss)[i] = ss[i + 1]
      /\ Head(ss) = ss[1]
  OBVIOUS
<1>2. ASSUME NEW i \in DOMAIN ss, i # 1
      PROVE  i \in Nat /\ i - 1 \in DOMAIN Tail(ss) /\ Tail(ss)[i - 1] = ss[i]
  <2>1. i \in Nat /\ i - 1 \in 1..(Len(ss) - 1) /\ (i - 1) + 1 = i
    BY <1>1, <1>2
  <2> QED
    BY <1>1, <2>1
<1> QED
  BY <1>1, <1>2

\* A statement that moves nothing is sent.
LEMMA TidyTail ==
    ASSUME NEW t, NEW t2, TxTyped(t), Tidy(t), t.steps # <<>>, Head(t.steps).kind # "move",
           t2.steps = Tail(t.steps), t2.op = t.op, t.op # "delete" => t2.arg = t.arg,
           t.holds \subseteq t2.holds, t2.log = t.log,
           Head(t.steps).kind = "hold" => Head(t.steps).res \in t2.holds
    PROVE  /\ Tidy(t2)
           /\ \A L : RefundsBacked(L, t) => RefundsBacked(L, t2)
<1>0. /\ 1 \in DOMAIN t.steps /\ t.steps[1] = Head(t.steps)
      /\ \A i \in DOMAIN t2.steps : /\ i \in Nat /\ i + 1 \in DOMAIN t.steps /\ i + 1 # 1
                                    /\ t2.steps[i] = t.steps[i + 1]
      /\ \A i \in DOMAIN t.steps : i # 1 => /\ i \in Nat /\ i - 1 \in DOMAIN t2.steps
                                            /\ t2.steps[i - 1] = t.steps[i]
  <2> DEFINE ss == t.steps
             S == Statements(t.op)
  <2>1. ss \in Seq(S) /\ ss # <<>>
    BY DEF TxTyped
  <2> HIDE DEF ss, S
  <2>2. t2.steps = Tail(ss)
    BY DEF ss
  <2> QED
    BY <2>1, <2>2, Shift DEF ss
<1>1. ASSUME NEW i \in Moves(t2)
      PROVE  i \in Nat /\ i + 1 \in Moves(t) /\ t2.steps[i] = t.steps[i + 1]
  BY <1>0 DEF Moves
<1>2. ASSUME NEW i \in Moves(t)
      PROVE  i \in Nat /\ i - 1 \in Moves(t2) /\ t2.steps[i - 1] = t.steps[i]
  <2>1. i \in DOMAIN t.steps /\ i # 1
    BY <1>0 DEF Moves
  <2> QED
    BY <1>0, <2>1 DEF Moves
<1>3. \A u, amt, why, ref : Carried(t, u, amt, why, ref) => Carried(t2, u, amt, why, ref)
  BY DEF Carried
<1>4. /\ \A i \in Moves(t2) : LET m == t2.steps[i] IN Carried(t2, m.u, m.amt, m.why, m.ref)
      /\ \A u \in Users : \A k \in DOMAIN t2.log[u] :
            LET e == t2.log[u][k] IN Carried(t2, u, e.amt, e.why, e.ref)
  BY <1>1, <1>3 DEF Tidy
<1>5. Distinct(t2)
  <2>1. ASSUME NEW i \in Moves(t2), NEW j \in Moves(t2),
               t2.steps[i].why = t2.steps[j].why, t2.steps[i].ref = t2.steps[j].ref
        PROVE  i = j
    <3>1. /\ i + 1 \in Moves(t) /\ t2.steps[i] = t.steps[i + 1] /\ i \in Nat
          /\ j + 1 \in Moves(t) /\ t2.steps[j] = t.steps[j + 1] /\ j \in Nat
      BY <1>1
    <3>2. \A x, y \in Moves(t) :
              t.steps[x].why = t.steps[y].why /\ t.steps[x].ref = t.steps[y].ref => x = y
      BY DEF Tidy, Distinct
    <3>3. i + 1 = j + 1
      BY <2>1, <3>1, <3>2
    <3> QED
      BY <3>1, <3>3
  <2>2. ASSUME NEW i \in Moves(t2), NEW u \in Users, NEW k \in DOMAIN t2.log[u]
        PROVE  ~(t2.steps[i].why = t2.log[u][k].why /\ t2.steps[i].ref = t2.log[u][k].ref)
    <3>1. PICK j \in Moves(t) : t2.steps[i] = t.steps[j]
      BY <1>1
    <3>2. \A v \in Users : \A l \in DOMAIN t.log[v] :
              ~(t.steps[j].why = t.log[v][l].why /\ t.steps[j].ref = t.log[v][l].ref)
      BY DEF Tidy, Distinct
    <3>3. k \in DOMAIN t.log[u] /\ t2.log[u][k] = t.log[u][k]
      OBVIOUS
    <3> QED
      BY <3>1, <3>2, <3>3
  <2>3. Distinct(t)
    BY DEF Tidy
  <2>4. \A u, v \in Users : \A k \in DOMAIN t2.log[u], l \in DOMAIN t2.log[v] :
            t2.log[u][k].why = t2.log[v][l].why /\ t2.log[u][k].ref = t2.log[v][l].ref => u = v /\ k = l
    BY <2>3 DEF Distinct
  <2>5. \A i, j \in Moves(t2) :
            t2.steps[i].why = t2.steps[j].why /\ t2.steps[i].ref = t2.steps[j].ref => i = j
    BY <2>1
  <2>6. \A i \in Moves(t2), u \in Users : \A k \in DOMAIN t2.log[u] :
            ~(t2.steps[i].why = t2.log[u][k].why /\ t2.steps[i].ref = t2.log[u][k].ref)
    BY <2>2
  <2> QED
    BY <2>4, <2>5, <2>6 DEF Distinct
<1>6. \A r : HoldsOrWill(t, r) => HoldsOrWill(t2, r)
  <2> TAKE r
  <2> SUFFICES ASSUME NEW i \in DOMAIN t.steps, t.steps[i] = Hold(r), r \notin t2.holds
               PROVE  \E j \in DOMAIN t2.steps : t2.steps[j] = Hold(r)
    BY DEF HoldsOrWill
  <2>1. Hold(r).kind = "hold" /\ Hold(r).res = r
    BY DEF Hold
  <2>2. i # 1
    BY <1>0, <2>1
  <2> QED
    BY <1>0, <2>2
<1>7. \A why, ref : Due(t, why, ref) => Due(t2, why, ref)
  BY <1>2 DEF Due
<1>10. \A i \in DOMAIN t2.steps, o \in Orders : t2.steps[i] = Hold(<<"order", o>>) => t2.op = "pay"
  BY <1>0 DEF Tidy
<1>8. Tidy(t2)
  BY <1>4, <1>5, <1>6, <1>7, <1>10 DEF Tidy
<1>9. \A L : RefundsBacked(L, t) => RefundsBacked(L, t2)
  BY <1>1 DEF RefundsBacked
<1> QED
  BY <1>8, <1>9

\* A move is sent, and its entry written.
LEMMA TidyMove ==
    ASSUME NEW t, NEW t2, NEW e, NEW u \in Users, TxTyped(t), Tidy(t), t.steps # <<>>,
           Head(t.steps).kind = "move", Head(t.steps).u = u,
           e.amt = Head(t.steps).amt, e.why = Head(t.steps).why, e.ref = Head(t.steps).ref,
           t2.steps = Tail(t.steps), t2.op = t.op, t2.arg = t.arg, t.holds \subseteq t2.holds,
           t2.log = [t.log EXCEPT ![u] = Append(@, e)]
    PROVE  /\ Tidy(t2)
           /\ \A L : RefundsBacked(L, t) => RefundsBacked(L, t2)
<1> DEFINE n == Len(t.log[u])
           m == Head(t.steps)
<1>0. /\ 1 \in DOMAIN t.steps /\ t.steps[1] = m
      /\ \A i \in DOMAIN t2.steps : /\ i \in Nat /\ i + 1 \in DOMAIN t.steps /\ i + 1 # 1
                                    /\ t2.steps[i] = t.steps[i + 1]
      /\ \A i \in DOMAIN t.steps : i # 1 => /\ i \in Nat /\ i - 1 \in DOMAIN t2.steps
                                            /\ t2.steps[i - 1] = t.steps[i]
  <2> DEFINE ss == t.steps
             S == Statements(t.op)
  <2>1. ss \in Seq(S) /\ ss # <<>>
    BY DEF TxTyped
  <2> HIDE DEF ss, S
  <2>2. t2.steps = Tail(ss)
    BY DEF ss
  <2> QED
    BY <2>1, <2>2, Shift DEF ss
<1>1. /\ \A i \in Moves(t2) : i \in Nat /\ i + 1 \in Moves(t) /\ i + 1 # 1 /\ t2.steps[i] = t.steps[i + 1]
      /\ 1 \in Moves(t) /\ t.steps[1] = m
  BY <1>0 DEF Moves
<1>2. \A i \in Moves(t) : i # 1 => i \in Nat /\ i - 1 \in Moves(t2) /\ t2.steps[i - 1] = t.steps[i]
  BY <1>0 DEF Moves
<1>3. /\ n \in Nat /\ DOMAIN t.log[u] = 1..n /\ DOMAIN t2.log[u] = 1..(n + 1)
      /\ t2.log[u][n + 1] = e /\ \A k \in 1..n : t2.log[u][k] = t.log[u][k]
      /\ \A v \in Users \ {u} : t2.log[v] = t.log[v]
  <2>1. t.log \in [Users -> Seq(Entry)] /\ t.log[u] \in Seq(Entry)
    BY DEF TxTyped
  <2>2. t2.log[u] = Append(t.log[u], e) /\ \A v \in Users \ {u} : t2.log[v] = t.log[v]
    BY <2>1
  <2> DEFINE es == t.log[u]
  <2>3. es \in Seq(Entry)
    BY <2>1
  <2> HIDE DEF es
  <2>4. /\ Len(es) \in Nat /\ DOMAIN es = 1..Len(es) /\ DOMAIN Append(es, e) = 1..(Len(es) + 1)
        /\ Append(es, e)[Len(es) + 1] = e /\ \A k \in 1..Len(es) : Append(es, e)[k] = es[k]
    BY <2>3
  <2> QED
    BY <2>2, <2>4 DEF es
<1> HIDE DEF n
<1>4. ASSUME NEW v \in Users, NEW k \in DOMAIN t2.log[v]
      PROVE  \/ k \in DOMAIN t.log[v] /\ t2.log[v][k] = t.log[v][k] /\ ~(v = u /\ k = n + 1)
             \/ v = u /\ k = n + 1 /\ t2.log[v][k] = e
  BY <1>3
<1>5. \A v \in Users : \A k \in DOMAIN t.log[v] : k \in DOMAIN t2.log[v] /\ t2.log[v][k] = t.log[v][k]
  BY <1>3
<1>6. u \in Users /\ n + 1 \in DOMAIN t2.log[u] /\ t2.log[u][n + 1] = e
  BY <1>3
<1> HIDE DEF m
<1>7. /\ m.u = u /\ e.amt = m.amt /\ e.why = m.why /\ e.ref = m.ref
  BY DEF m
<1>8. \A x, amt, why, ref : Carried(t, x, amt, why, ref) => Carried(t2, x, amt, why, ref)
  BY DEF Carried
<1>9. /\ \A i \in Moves(t2) : LET x == t2.steps[i] IN Carried(t2, x.u, x.amt, x.why, x.ref)
      /\ \A v \in Users : \A k \in DOMAIN t2.log[v] :
            LET x == t2.log[v][k] IN Carried(t2, v, x.amt, x.why, x.ref)
  <2>1. \A i \in Moves(t2) : LET x == t2.steps[i] IN Carried(t2, x.u, x.amt, x.why, x.ref)
    BY <1>1, <1>8 DEF Tidy
  <2>2. Carried(t, u, e.amt, e.why, e.ref)
    BY <1>1, <1>7 DEF Tidy
  <2>3. ASSUME NEW v \in Users, NEW k \in DOMAIN t2.log[v]
        PROVE  Carried(t2, v, t2.log[v][k].amt, t2.log[v][k].why, t2.log[v][k].ref)
    BY <1>4, <1>8, <2>2 DEF Tidy
  <2> QED
    BY <2>1, <2>3
<1>10. Distinct(t2)
  <2>1. ASSUME NEW i \in Moves(t2), NEW j \in Moves(t2),
               t2.steps[i].why = t2.steps[j].why, t2.steps[i].ref = t2.steps[j].ref
        PROVE  i = j
    <3>1. /\ i + 1 \in Moves(t) /\ t2.steps[i] = t.steps[i + 1] /\ i \in Nat
          /\ j + 1 \in Moves(t) /\ t2.steps[j] = t.steps[j + 1] /\ j \in Nat
      BY <1>1
    <3>2. \A x, y \in Moves(t) :
              t.steps[x].why = t.steps[y].why /\ t.steps[x].ref = t.steps[y].ref => x = y
      BY DEF Tidy, Distinct
    <3>3. i + 1 = j + 1
      BY <2>1, <3>1, <3>2
    <3> QED
      BY <3>1, <3>3
  <2>2. ASSUME NEW i \in Moves(t2), NEW v \in Users, NEW k \in DOMAIN t2.log[v],
               t2.steps[i].why = t2.log[v][k].why, t2.steps[i].ref = t2.log[v][k].ref
        PROVE  FALSE
    <3>0. PICK j \in Moves(t) : t2.steps[i] = t.steps[j] /\ j # 1
      BY <1>1
    <3>1. CASE k \in DOMAIN t.log[v] /\ t2.log[v][k] = t.log[v][k]
      <4>1. \A w \in Users : \A l \in DOMAIN t.log[w] :
                ~(t.steps[j].why = t.log[w][l].why /\ t.steps[j].ref = t.log[w][l].ref)
        BY DEF Tidy, Distinct
      <4>2. k \in DOMAIN t.log[v] /\ v \in Users
        BY <3>1
      <4>3. t.steps[j].why = t.log[v][k].why /\ t.steps[j].ref = t.log[v][k].ref
        BY <2>2, <3>0, <3>1
      <4> QED
        BY <4>1, <4>2, <4>3
    <3>2. CASE t2.log[v][k] = e
      <4>1. \A x, y \in Moves(t) :
                t.steps[x].why = t.steps[y].why /\ t.steps[x].ref = t.steps[y].ref => x = y
        BY DEF Tidy, Distinct
      <4> QED
        BY <1>1, <1>7, <2>2, <3>0, <3>2, <4>1
    <3> QED
      BY <1>4, <3>1, <3>2
  <2>3. ASSUME NEW v \in Users, NEW w \in Users, NEW k \in DOMAIN t2.log[v], NEW l \in DOMAIN t2.log[w],
               t2.log[v][k].why = t2.log[w][l].why, t2.log[v][k].ref = t2.log[w][l].ref
        PROVE  v = w /\ k = l
    <3>1. \A x \in Users : \A j \in DOMAIN t.log[x] : ~(e.why = t.log[x][j].why /\ e.ref = t.log[x][j].ref)
      BY <1>1, <1>7 DEF Tidy, Distinct
    <3> QED
      BY <1>4, <2>3, <3>1 DEF Tidy, Distinct
  <2>4. \A i, j \in Moves(t2) :
            t2.steps[i].why = t2.steps[j].why /\ t2.steps[i].ref = t2.steps[j].ref => i = j
    BY <2>1
  <2>5. \A i \in Moves(t2), v \in Users : \A k \in DOMAIN t2.log[v] :
            ~(t2.steps[i].why = t2.log[v][k].why /\ t2.steps[i].ref = t2.log[v][k].ref)
    BY <2>2
  <2>6. \A v, w \in Users : \A k \in DOMAIN t2.log[v], l \in DOMAIN t2.log[w] :
            t2.log[v][k].why = t2.log[w][l].why /\ t2.log[v][k].ref = t2.log[w][l].ref => v = w /\ k = l
    BY <2>3
  <2> QED
    BY <2>4, <2>5, <2>6 DEF Distinct
<1>11. \A r : HoldsOrWill(t, r) => HoldsOrWill(t2, r)
  <2> TAKE r
  <2> SUFFICES ASSUME NEW i \in DOMAIN t.steps, t.steps[i] = Hold(r)
               PROVE  \E j \in DOMAIN t2.steps : t2.steps[j] = Hold(r)
    BY DEF HoldsOrWill
  <2>1. Hold(r).kind = "hold"
    BY DEF Hold
  <2>2. i # 1
    BY <1>0, <2>1
  <2> QED
    BY <1>0, <2>2, Zenon
<1>12. \A why, ref : Due(t, why, ref) => Due(t2, why, ref)
  <2> TAKE why, ref
  <2>1. CASE \E i \in Moves(t) : t.steps[i].why = why /\ t.steps[i].ref = ref
    <3>1. PICK i \in Moves(t) : t.steps[i].why = why /\ t.steps[i].ref = ref
      BY <2>1
    <3>2. CASE i = 1
      BY <1>1, <1>6, <1>7, <3>1, <3>2 DEF Due
    <3>3. CASE i # 1
      BY <1>2, <3>1, <3>3 DEF Due
    <3> QED
      BY <3>2, <3>3
  <2>2. CASE \E v \in Users : \E k \in DOMAIN t.log[v] : t.log[v][k].why = why /\ t.log[v][k].ref = ref
    BY <1>5, <2>2 DEF Due
  <2> QED
    BY <2>1, <2>2 DEF Due
<1>15. \A i \in DOMAIN t2.steps, o \in Orders : t2.steps[i] = Hold(<<"order", o>>) => t2.op = "pay"
  BY <1>0 DEF Tidy
<1>13. Tidy(t2)
  BY <1>9, <1>10, <1>11, <1>12, <1>15 DEF Tidy
<1>14. ASSUME NEW L, RefundsBacked(L, t) PROVE RefundsBacked(L, t2)
  <2>1. ASSUME NEW i \in Moves(t2), t2.steps[i].why = "refund"
        PROVE  Backed(L, t2.steps[i].u, t2.steps[i].amt, t2.steps[i].ref)
    <3>1. i + 1 \in Moves(t) /\ t2.steps[i] = t.steps[i + 1]
      BY <1>1
    <3> QED
      BY <1>14, <2>1, <3>1 DEF RefundsBacked
  <2>2. e.why = "refund" => Backed(L, u, e.amt, e.ref)
    BY <1>1, <1>7, <1>14 DEF RefundsBacked
  <2>3. ASSUME NEW v \in Users, NEW k \in DOMAIN t2.log[v], t2.log[v][k].why = "refund"
        PROVE  Backed(L, v, t2.log[v][k].amt, t2.log[v][k].ref)
    BY <1>4, <1>14, <2>2, <2>3 DEF RefundsBacked
  <2> QED
    BY <2>1, <2>3 DEF RefundsBacked
<1> QED
  BY <1>13, <1>14

LEMMA NoTxTidy == Tidy(NoTx) /\ (\A L : RefundsBacked(L, NoTx)) /\ NoTx.holds = {}
<1>1. /\ NoTx.op = "none" /\ DOMAIN NoTx.steps = {} /\ NoTx.holds = {}
      /\ \A u \in Users : DOMAIN NoTx.log[u] = {}
  BY DEF NoTx, NoEntries
<1>2. Moves(NoTx) = {}
  BY <1>1 DEF Moves
<1> QED
  BY <1>1, <1>2 DEF Tidy, Distinct, Carried, RefundsBacked

-----------------------------------------------------------------------------
\* Lemmas about entries.

LEMMA WrittenAre ==
    ASSUME NEW L, NEW why, NEW ref
    PROVE  \A e : e \in Written(L, why, ref) <=>
               \E u \in Users : \E i \in DOMAIN L[u] :
                   e = <<u, i>> /\ L[u][i].why = why /\ L[u][i].ref = ref
BY DEF Written

LEMMA EntriesAre ==
    \A why, ref : EntriesFor(why, ref) = Written(txns, why, ref)
BY DEF EntriesFor, AllEntries, Written

-----------------------------------------------------------------------------
\* What keeps the books.

LEMMA KeysKept ==
    ASSUME KeysOK, UNCHANGED <<checkins, orders>>, mishaps \subseteq mishaps',
           \A p \in Procs : tx'[p].holds \subseteq tx[p].holds
    PROVE  KeysOK'
BY DEF KeysOK

\* A request takes a key that nobody holds, and that is free.
LEMMA KeyGot ==
    ASSUME KeysOK, UNCHANGED <<checkins, orders>>, mishaps \subseteq mishaps',
           NEW p \in Procs, NEW r, Available(p, r), tx'[p].holds = tx[p].holds \cup {r},
           \A q \in Procs \ {p} : tx'[q].holds = tx[q].holds,
           \A u \in Users, d \in 1..Days : r = <<"day", u, d>> => <<u, d>> \notin checkins,
           \A o \in Orders : r = <<"order", o>> /\ "duplicate" \notin mishaps' => orders[o].status = "pending"
    PROVE  KeysOK'
<1>1. \A q \in Procs \ {p} : r \notin tx[q].holds
  BY DEF Available
<1>2. ASSUME NEW a \in Procs, NEW b \in Procs, a # b
      PROVE  tx'[a].holds \cap tx'[b].holds = {}
  <2>1. tx[a].holds \cap tx[b].holds = {}
    BY <1>2 DEF KeysOK
  <2>2. CASE a = p
    BY <1>1, <1>2, <2>1, <2>2
  <2>3. CASE b = p
    BY <1>1, <1>2, <2>1, <2>3
  <2>4. CASE a # p /\ b # p
    BY <2>1, <2>4
  <2> QED
    BY <2>2, <2>3, <2>4
<1>3. ASSUME NEW q \in Procs, NEW u \in Users, NEW d \in 1..Days, <<"day", u, d>> \in tx'[q].holds
      PROVE  <<u, d>> \notin checkins
  BY <1>3 DEF KeysOK
<1>4. ASSUME NEW q \in Procs, NEW o \in Orders, <<"order", o>> \in tx'[q].holds, "duplicate" \notin mishaps'
      PROVE  orders[o].status = "pending"
  BY <1>4 DEF KeysOK
<1> QED
  BY <1>2, <1>3, <1>4 DEF KeysOK

LEMMA NumbersKept ==
    ASSUME NumbersOK, UNCHANGED <<subs, txns, claims>>,
           \A p \in Procs : tx'[p].op = "claim" =>
               tx[p].op = "claim" /\ tx'[p].arg.sub.claim = tx[p].arg.sub.claim
    PROVE  NumbersOK'
<1>1. Taken' = Taken
  BY DEF Taken
<1>2. ASSUME NEW p \in Procs, tx'[p].op = "claim"
      PROVE  /\ tx'[p].arg.sub.claim \in 1..claims
             /\ \A q \in Procs : tx'[q].op = "claim" /\ tx'[q].arg.sub.claim = tx'[p].arg.sub.claim => p = q
             /\ \A s \in Taken : subs[s].claim # tx'[p].arg.sub.claim
             /\ Written(txns, "claim", tx'[p].arg.sub.claim) = {}
  <2>1. tx[p].op = "claim" /\ tx'[p].arg.sub.claim = tx[p].arg.sub.claim
    BY <1>2
  <2> QED
    BY <2>1 DEF NumbersOK
<1> QED
  BY <1>1, <1>2 DEF NumbersOK

\* Steps that change no table.
LEMMA TablesKept ==
    ASSUME BooksOK, UNCHANGED <<txns, orders, subs, checkins, domain>>, mishaps \subseteq mishaps',
           "fallback" \notin mishaps' => \A p \in Procs : RefundsBacked(txns, tx'[p])
    PROVE  BooksOK'
<1>1. CheckinsOK'
  BY DEF BooksOK, CheckinsOK
<1>2. OrdersOK'
  BY DEF BooksOK, OrdersOK
<1>3. \A s \in Taken' : PaidFor(txns', subs'[s])
  BY DEF BooksOK, Taken
<1>4. RefundsOK'
  BY DEF BooksOK, RefundsOK
<1> QED
  BY <1>1, <1>2, <1>3, <1>4 DEF BooksOK

\* One sequence after the other.
LEMMA Joined ==
    ASSUME NEW S, NEW es \in Seq(S), NEW fs \in Seq(S)
    PROVE  /\ DOMAIN (es \o fs) = 1..(Len(es) + Len(fs))
           /\ \A i \in DOMAIN es : i \in DOMAIN (es \o fs) /\ (es \o fs)[i] = es[i]
           /\ \A i \in DOMAIN fs : /\ i \in Nat /\ Len(es) + i \in DOMAIN (es \o fs)
                                   /\ (es \o fs)[Len(es) + i] = fs[i]
           /\ \A i \in DOMAIN (es \o fs) : i \in DOMAIN es \/ \E j \in DOMAIN fs : i = Len(es) + j
<1>1. /\ DOMAIN (es \o fs) = 1..(Len(es) + Len(fs)) /\ DOMAIN es = 1..Len(es) /\ DOMAIN fs = 1..Len(fs)
      /\ Len(es) \in Nat /\ Len(fs) \in Nat
      /\ \A i \in 1..(Len(es) + Len(fs)) : (es \o fs)[i] = IF i <= Len(es) THEN es[i] ELSE fs[i - Len(es)]
  OBVIOUS
<1>2. ASSUME NEW i \in DOMAIN (es \o fs), i \notin DOMAIN es
      PROVE  \E j \in DOMAIN fs : i = Len(es) + j
  <2>1. i - Len(es) \in DOMAIN fs /\ i = Len(es) + (i - Len(es))
    BY <1>1, <1>2
  <2> QED
    BY <2>1
<1>3. ASSUME NEW i \in DOMAIN fs
      PROVE  /\ i \in Nat /\ Len(es) + i \in DOMAIN (es \o fs) /\ (es \o fs)[Len(es) + i] = fs[i]
  <2>1. i \in Nat /\ Len(es) + i \in 1..(Len(es) + Len(fs)) /\ ~(Len(es) + i <= Len(es)) /\ (Len(es) + i) - Len(es) = i
    BY <1>1
  <2>2. (es \o fs)[Len(es) + i] = fs[(Len(es) + i) - Len(es)]
    BY <1>1, <2>1
  <2> QED
    BY <1>1, <2>1, <2>2
<1>4. \A i \in DOMAIN es : i \in DOMAIN (es \o fs) /\ (es \o fs)[i] = es[i]
  BY <1>1
<1> QED
  BY <1>1, <1>2, <1>3, <1>4

LEMMA JoinTwo ==
    ASSUME NEW a, NEW b
    PROVE  <<a>> \o <<b>> = <<a, b>>
<1> DEFINE es == <<a>>
           fs == <<b>>
           gs == <<a, b>>
           S == {a, b}
<1>1. /\ es \in Seq(S) /\ fs \in Seq(S) /\ gs \in Seq(S) /\ Len(es) = 1 /\ Len(fs) = 1 /\ Len(gs) = 2
      /\ es[1] = a /\ fs[1] = b /\ gs[1] = a /\ gs[2] = b
  OBVIOUS
<1> HIDE DEF es, fs, gs, S
<1>2. es \o fs \in Seq(S) /\ Len(es \o fs) = 2
  BY <1>1
<1>4. (es \o fs)[1] = es[1] /\ (es \o fs)[2] = fs[1]
  <2>1. 1 \in DOMAIN es /\ 1 \in DOMAIN fs /\ Len(es) + 1 = 2
    BY <1>1
  <2>2. (es \o fs)[1] = es[1] /\ (es \o fs)[Len(es) + 1] = fs[1]
    BY <2>1, Joined
  <2> QED
    BY <2>1, <2>2
<1>3. es \o fs = gs
  BY <1>1, <1>2, <1>4
<1> QED
  BY <1>3 DEF es, fs, gs

LEMMA JoinFour ==
    ASSUME NEW a, NEW b, NEW c, NEW d
    PROVE  <<a, b>> \o <<c, d>> = <<a, b, c, d>>
<1> DEFINE es == <<a, b>>
           fs == <<c, d>>
           gs == <<a, b, c, d>>
           S == {a, b, c, d}
<1>1. /\ es \in Seq(S) /\ fs \in Seq(S) /\ gs \in Seq(S) /\ Len(es) = 2 /\ Len(fs) = 2 /\ Len(gs) = 4
      /\ gs[1] = es[1] /\ gs[2] = es[2] /\ gs[3] = fs[1] /\ gs[4] = fs[2]
      /\ {1, 2} \subseteq DOMAIN es /\ {1, 2} \subseteq DOMAIN fs
  OBVIOUS
<1> HIDE DEF es, fs, gs, S
<1>0. es \in Seq(S) /\ fs \in Seq(S)
  BY <1>1
<1>2. es \o fs \in Seq(S) /\ Len(es \o fs) = 4
  <2>1. es \o fs \in Seq(S) /\ Len(es \o fs) = Len(es) + Len(fs)
    BY <1>0
  <2> QED
    BY <1>1, <2>1
<1>3. /\ (es \o fs)[1] = es[1] /\ (es \o fs)[2] = es[2]
      /\ (es \o fs)[Len(es) + 1] = fs[1] /\ (es \o fs)[Len(es) + 2] = fs[2]
  <2>1. 1 \in DOMAIN es /\ 2 \in DOMAIN es /\ 1 \in DOMAIN fs /\ 2 \in DOMAIN fs
    BY <1>1
  <2>2. /\ \A i \in DOMAIN es : (es \o fs)[i] = es[i]
        /\ \A i \in DOMAIN fs : (es \o fs)[Len(es) + i] = fs[i]
    BY <1>0, Joined
  <2> QED
    BY <2>1, <2>2
<1>4. Len(es) + 1 = 3 /\ Len(es) + 2 = 4
  BY <1>1
<1>5. es \o fs = gs
  BY <1>1, <1>2, <1>3, <1>4
<1> QED
  BY <1>5 DEF es, fs, gs

\* A request moves on and no table changes.
LEMMA OneMoves ==
    ASSUME Books, NEW p \in Procs, \A q \in Procs \ {p} : tx'[q] = tx[q],
           UNCHANGED <<txns, orders, subs, checkins, domain>>, mishaps \subseteq mishaps',
           Tidy(tx'[p]), "fallback" \notin mishaps' => RefundsBacked(txns, tx'[p]), KeysOK', NumbersOK'
    PROVE  Books'
<1>1. \A q \in Procs : Tidy(tx'[q])
  BY DEF Books
<1>2. "fallback" \notin mishaps' => \A q \in Procs : RefundsBacked(txns, tx'[q])
  BY DEF Books, BooksOK, RefundsOK
<1>3. BooksOK'
  BY <1>2, TablesKept DEF Books
<1> QED
  BY <1>1, <1>3 DEF Books

\* A request has ended without effect, as all do when the server stops.
LEMMA SomeEnd ==
    ASSUME Books, \A q \in Procs : tx'[q] \in {tx[q], NoTx}, UNCHANGED <<tables, claims, mishaps>>
    PROVE  Books'
<1>1. /\ \A q \in Procs : Tidy(tx'[q])
      /\ \A q \in Procs : "fallback" \notin mishaps => RefundsBacked(txns, tx'[q])
      /\ \A q \in Procs : tx'[q].holds \subseteq tx[q].holds
      /\ \A q \in Procs : tx'[q].op = "claim" => tx'[q] = tx[q]
  <2> SUFFICES ASSUME NEW q \in Procs
               PROVE  /\ Tidy(tx'[q])
                      /\ "fallback" \notin mishaps => RefundsBacked(txns, tx'[q])
                      /\ tx'[q].holds \subseteq tx[q].holds
                      /\ tx'[q].op = "claim" => tx'[q] = tx[q]
    OBVIOUS
  <2>1. CASE tx'[q] = tx[q]
    BY <2>1 DEF Books, BooksOK, RefundsOK
  <2>2. CASE tx'[q] = NoTx
    BY <2>2, NoTxTidy, NoTxTyped
  <2> QED
    BY <2>1, <2>2
<1>2. KeysOK'
  BY <1>1, KeysKept DEF Books, tables
<1>3. NumbersOK'
  BY <1>1, NumbersKept DEF Books, tables
<1>4. BooksOK'
  BY <1>1, TablesKept DEF Books, tables
<1> QED
  BY <1>1, <1>2, <1>3, <1>4 DEF Books

LEMMA AbortKeeps ==
    ASSUME IInv, Books, NEW p \in Procs, Abort(p), UNCHANGED <<claims, mishaps>>
    PROVE  Books'
<1>1. \A q \in Procs : tx'[q] \in {tx[q], NoTx}
  BY DEF Abort, IInv, TxsOK
<1> QED
  BY <1>1, SomeEnd DEF Abort

-----------------------------------------------------------------------------
\* The requests keep the books.

\* A request that begins holds nothing and has written nothing.
LEMMA BeginsTidy ==
    ASSUME IInv, Books, NEW p \in Procs, NEW t, tx[p].op = "none", tx' = [tx EXCEPT ![p] = t],
           UNCHANGED <<txns, orders, subs, checkins, domain>>, mishaps \subseteq mishaps',
           t.holds = {}, t.log = NoEntries,
           \A i \in Moves(t) : LET m == t.steps[i] IN Carried(t, m.u, m.amt, m.why, m.ref),
           \A i, j \in Moves(t) : t.steps[i].why = t.steps[j].why /\ t.steps[i].ref = t.steps[j].ref => i = j,
           \A i \in DOMAIN t.steps, o \in Orders : t.steps[i] = Hold(<<"order", o>>) => t.op = "pay",
           t.op = "checkin" => \E i \in DOMAIN t.steps : t.steps[i] = Hold(<<"day", t.arg.u, t.arg.d>>),
           t.op = "pay" => /\ t.arg.read = "pending"
                           /\ \E i \in DOMAIN t.steps : t.steps[i] = Hold(<<"order", t.arg.o>>)
                           /\ \E i \in Moves(t) : t.steps[i].why = "order" /\ t.steps[i].ref = t.arg.o,
           t.op = "claim" /\ t.arg.sub.cost # 0 =>
               \E i \in Moves(t) : t.steps[i].why = "claim" /\ t.steps[i].ref = t.arg.sub.claim,
           "fallback" \notin mishaps' => \A i \in Moves(t) : t.steps[i].why = "refund" =>
               Backed(txns, t.steps[i].u, t.steps[i].amt, t.steps[i].ref),
           (t.op # "claim" /\ claims' = claims) \/ NumbersOK'
    PROVE  Books'
<1>1. tx'[p] = t /\ \A q \in Procs \ {p} : tx'[q] = tx[q]
  BY DEF IInv, TxsOK
<1>2. \A u \in Users : DOMAIN t.log[u] = {}
  BY DEF NoEntries
<1>3. Distinct(t)
  BY <1>2 DEF Distinct
<1>4. Tidy(t)
  BY <1>2, <1>3 DEF Tidy, HoldsOrWill, Due
<1>5. "fallback" \notin mishaps' => RefundsBacked(txns, t)
  BY <1>2 DEF RefundsBacked
<1>6. KeysOK'
  <2>1. \A q \in Procs : tx'[q].holds \subseteq tx[q].holds
    BY <1>1
  <2> QED
    BY <2>1, KeysKept DEF Books
<1>7. NumbersOK'
  BY <1>1, NumbersKept DEF Books
<1> QED
  BY <1>1, <1>4, <1>5, <1>6, <1>7, OneMoves

LEMMA ClaimKeeps ==
    ASSUME IInv, Books, NEW p \in Procs, NEW u \in Users, NEW s \in Names, Claim(p, u, s)
    PROVE  Books'
<1> DEFINE c == claims + 1
           hold == Hold(<<"name", s>>)
           move == Move(u, -price, "claim", c)
           t == [op |-> "claim", arg |-> [s |-> s, sub |-> [owner |-> u, cost |-> price, claim |-> c]],
                 steps |-> Charge(u, price, c) \o <<hold>>, holds |-> {}, log |-> NoEntries]
<1>1. claims \in Nat
  BY DEF IInv, TablesTyped
<1>2. /\ claims' = c /\ tx' = [tx EXCEPT ![p] = t] /\ tx[p].op = "none"
      /\ UNCHANGED <<txns, orders, subs, checkins, domain>> /\ mishaps' = mishaps
  BY DEF Claim, Begin, tables
<1>3. /\ t.op = "claim" /\ t.arg.sub.cost = price /\ t.arg.sub.owner = u /\ t.arg.sub.claim = c
      /\ t.steps = Charge(u, price, c) \o <<hold>> /\ t.holds = {} /\ t.log = NoEntries
  OBVIOUS
<1>4. /\ hold.kind = "hold" /\ \A o \in Orders : hold # Hold(<<"order", o>>)
      /\ \A r : Hold(r).kind = "hold"
      /\ move = [kind |-> "move", u |-> u, amt |-> -price, why |-> "claim", ref |-> c]
  BY DEF Hold, Move
<1>5. Charge(u, price, c) = IF price # 0 THEN <<move>> ELSE <<>>
  BY DEF Charge
<1> HIDE DEF hold, t, c, move
<1>6. /\ \A i \in DOMAIN t.steps, o \in Orders : t.steps[i] # Hold(<<"order", o>>)
      /\ \A i \in Moves(t) : i = 1 /\ price # 0 /\ t.steps[i] = move
      /\ price # 0 => 1 \in Moves(t)
  <2>1. CASE price # 0
    <3>1. t.steps = <<move, hold>>
      BY <1>3, <1>5, <2>1, JoinTwo
    <3>2. DOMAIN t.steps = {1, 2} /\ t.steps[1] = move /\ t.steps[2] = hold
      BY <3>1
    <3> QED
      BY <1>4, <2>1, <3>2 DEF Moves
  <2>2. CASE price = 0
    <3>1. t.steps = <<hold>>
      BY <1>3, <1>5, <2>2
    <3>2. DOMAIN t.steps = {1} /\ t.steps[1] = hold
      BY <3>1
    <3> QED
      BY <1>4, <2>2, <3>2 DEF Moves
  <2> QED
    BY <2>1, <2>2
<1>7. \A i \in Moves(t) : /\ t.steps[i].u = u /\ t.steps[i].amt = -price
                          /\ t.steps[i].why = "claim" /\ t.steps[i].ref = c
  BY <1>4, <1>6
<1>8. NumbersOK'
  <2>1. tx'[p] = t /\ \A q \in Procs \ {p} : tx'[q] = tx[q]
    BY <1>2 DEF IInv, TxsOK
  <2>2. Taken' = Taken /\ c = claims + 1
    BY <1>2 DEF Taken, c
  <2>3. c \notin 1..claims /\ c \in 1..claims' /\ 1..claims \subseteq 1..claims'
    BY <1>1, <1>2, <2>2
  <2>4. Written(txns, "claim", c) = {}
    BY <2>3 DEF Books, NumbersOK, Written
  <2>5. ASSUME NEW q \in Procs, tx'[q].op = "claim"
        PROVE  /\ tx'[q].arg.sub.claim \in 1..claims'
               /\ \A r \in Procs : tx'[r].op = "claim" /\ tx'[r].arg.sub.claim = tx'[q].arg.sub.claim => q = r
               /\ \A x \in Taken : subs[x].claim # tx'[q].arg.sub.claim
               /\ Written(txns, "claim", tx'[q].arg.sub.claim) = {}
    <3>1. CASE q = p
      BY <1>3, <2>1, <2>3, <2>4, <3>1 DEF Books, NumbersOK
    <3>2. CASE q # p
      <4>1. tx'[q] = tx[q]
        BY <2>1, <3>2
      <4>2. tx[q].arg.sub.claim \in 1..claims /\ tx[q].op = "claim"
        BY <2>5, <4>1 DEF Books, NumbersOK
      <4>3. ASSUME NEW r \in Procs, tx'[r].op = "claim", tx'[r].arg.sub.claim = tx'[q].arg.sub.claim
            PROVE  q = r
        <5>1. r # p
          BY <1>3, <2>1, <2>3, <4>1, <4>2, <4>3
        <5> QED
          BY <2>1, <4>1, <4>2, <4>3, <5>1 DEF Books, NumbersOK
      <4> QED
        BY <2>3, <4>1, <4>2, <4>3 DEF Books, NumbersOK
    <3> QED
      BY <3>1, <3>2
  <2> QED
    BY <1>2, <2>2, <2>3, <2>5 DEF Books, NumbersOK
<1>9. \A i \in Moves(t) : LET m == t.steps[i] IN Carried(t, m.u, m.amt, m.why, m.ref)
  BY <1>3, <1>6, <1>7 DEF Carried
<1> QED
  BY <1>2, <1>3, <1>6, <1>7, <1>8, <1>9, BeginsTidy

LEMMA CheckinKeeps ==
    ASSUME IInv, Books, NEW p \in Procs, NEW u \in Users, DailyCheckin(p, u)
    PROVE  Books'
<1> DEFINE hold == Hold(<<"day", u, day>>)
           move == Move(u, Reward, "checkin", day)
           t == [op |-> "checkin", arg |-> [u |-> u, d |-> day], steps |-> <<hold, move>>,
                 holds |-> {}, log |-> NoEntries]
<1>1. /\ tx' = [tx EXCEPT ![p] = t] /\ tx[p].op = "none"
      /\ UNCHANGED <<txns, orders, subs, checkins, domain, mishaps, claims>>
  BY DEF DailyCheckin, Begin, tables
<1>2. /\ hold.kind = "hold" /\ \A o \in Orders : hold # Hold(<<"order", o>>)
      /\ \A r : Hold(r).kind = "hold"
      /\ move = [kind |-> "move", u |-> u, amt |-> Reward, why |-> "checkin", ref |-> day]
  BY DEF Hold, Move
<1>3. /\ t.op = "checkin" /\ t.arg.u = u /\ t.arg.d = day /\ t.holds = {} /\ t.log = NoEntries
      /\ DOMAIN t.steps = {1, 2} /\ t.steps[1] = hold /\ t.steps[2] = move
  OBVIOUS
<1>4. t.steps[1] = Hold(<<"day", t.arg.u, t.arg.d>>)
  BY <1>3
<1> HIDE DEF hold, move, t
<1>5. Moves(t) = {2} /\ \A i \in DOMAIN t.steps, o \in Orders : t.steps[i] # Hold(<<"order", o>>)
  BY <1>2, <1>3 DEF Moves
<1>6. \A i \in Moves(t) : LET m == t.steps[i] IN Carried(t, m.u, m.amt, m.why, m.ref)
  BY <1>2, <1>3, <1>5 DEF Carried
<1>7. (\A i, j \in Moves(t) : i = j) /\ \A i \in Moves(t) : t.steps[i].why # "refund"
  BY <1>2, <1>3, <1>5
<1>8. \E i \in DOMAIN t.steps : t.steps[i] = Hold(<<"day", t.arg.u, t.arg.d>>)
  BY <1>3, <1>4
<1>9. /\ \A i, j \in Moves(t) : t.steps[i].why = t.steps[j].why /\ t.steps[i].ref = t.steps[j].ref => i = j
      /\ \A i \in Moves(t) : t.steps[i].why = "refund" =>
            Backed(txns, t.steps[i].u, t.steps[i].amt, t.steps[i].ref)
  BY <1>7
<1> QED
  BY <1>1, <1>3, <1>8, <1>5, <1>6, <1>9, BeginsTidy

LEMMA GrantKeeps ==
    ASSUME IInv, Books, NEW p \in Procs, NEW u \in Users, NEW amt \in Amounts, AdminGrant(p, u, amt)
    PROVE  Books'
<1> DEFINE move == Move(u, amt, "grant", 0)
           t == [op |-> "grant", arg |-> [u |-> u], steps |-> <<move>>, holds |-> {}, log |-> NoEntries]
<1>1. /\ tx' = [tx EXCEPT ![p] = t] /\ tx[p].op = "none"
      /\ UNCHANGED <<txns, orders, subs, checkins, domain, mishaps, claims>>
  BY DEF AdminGrant, Begin, tables
<1>2. move.kind = "move" /\ move.why = "grant" /\ \A r : Hold(r).kind = "hold"
  BY DEF Move, Hold
<1>3. /\ t.op = "grant" /\ t.holds = {} /\ t.log = NoEntries
      /\ DOMAIN t.steps = {1} /\ t.steps[1] = move
  OBVIOUS
<1> HIDE DEF move, t
<1>4. Moves(t) = {1} /\ \A i \in DOMAIN t.steps, o \in Orders : t.steps[i] # Hold(<<"order", o>>)
  BY <1>2, <1>3 DEF Moves
<1>5. \A i \in Moves(t) : LET m == t.steps[i] IN Carried(t, m.u, m.amt, m.why, m.ref)
  BY <1>2, <1>3, <1>4 DEF Carried
<1> QED
  BY <1>1, <1>2, <1>3, <1>4, <1>5, BeginsTidy

LEMMA RegisterKeeps ==
    ASSUME IInv, Books, NEW p \in Procs, NEW u \in Users, NEW inviter \in Users \cup {NoUser},
           Register(p, u, inviter)
    PROVE  Books'
<1> DEFINE hold == Hold(<<"user", u>>)
           bonus == Move(u, Reward, "bonus", 0)
           thanks == Move(inviter, Reward, "inviter", u)
           welcome == Move(u, Reward, "invitee", inviter)
           t == [op |-> "register", arg |-> [u |-> u],
                 steps |-> <<hold, bonus>> \o (IF inviter = NoUser THEN <<>> ELSE <<thanks, welcome>>),
                 holds |-> {}, log |-> NoEntries]
<1>1. /\ tx' = [tx EXCEPT ![p] = t] /\ tx[p].op = "none"
      /\ UNCHANGED <<txns, orders, subs, checkins, domain, mishaps, claims>>
  BY DEF Register, Begin, tables
<1>2. /\ hold.kind = "hold" /\ \A o \in Orders : hold # Hold(<<"order", o>>)
      /\ \A r : Hold(r).kind = "hold"
      /\ bonus.kind = "move" /\ bonus.why = "bonus"
      /\ thanks.kind = "move" /\ thanks.why = "inviter"
      /\ welcome.kind = "move" /\ welcome.why = "invitee"
  BY DEF Move, Hold
<1>3. /\ t.op = "register" /\ t.holds = {} /\ t.log = NoEntries
      /\ t.steps = <<hold, bonus>> \o (IF inviter = NoUser THEN <<>> ELSE <<thanks, welcome>>)
  OBVIOUS
<1> HIDE DEF hold, bonus, thanks, welcome, t
<1>4. \A i \in DOMAIN t.steps : /\ i \in {1, 2, 3, 4}
                                /\ i = 1 => t.steps[i] = hold
                                /\ i = 2 => t.steps[i] = bonus
                                /\ i = 3 => t.steps[i] = thanks
                                /\ i = 4 => t.steps[i] = welcome
  <2>1. CASE inviter = NoUser
    <3>1. t.steps = <<hold, bonus>>
      BY <1>3, <2>1
    <3> QED
      BY <3>1
  <2>2. CASE inviter # NoUser
    <3>1. t.steps = <<hold, bonus, thanks, welcome>>
      BY <1>3, <2>2, JoinFour
    <3> QED
      BY <3>1
  <2> QED
    BY <2>1, <2>2
<1>5. /\ \A i \in DOMAIN t.steps, o \in Orders : t.steps[i] # Hold(<<"order", o>>)
      /\ \A i, j \in Moves(t) : t.steps[i].why = t.steps[j].why => i = j
      /\ \A i \in Moves(t) : t.steps[i].why \in {"bonus", "inviter", "invitee"}
  BY <1>2, <1>4 DEF Moves
<1>6. \A i \in Moves(t) : LET m == t.steps[i] IN Carried(t, m.u, m.amt, m.why, m.ref)
  BY <1>5 DEF Carried
<1> QED
  BY <1>1, <1>3, <1>5, <1>6, BeginsTidy

LEMMA CallbackKeeps ==
    ASSUME IInv, Books, NEW p \in Procs, NEW o \in Orders, Callback(p, o)
    PROVE  Books'
<1> DEFINE hold == Hold(<<"order", o>>)
           move == Move(orders[o].user, Reward, "order", o)
           t == [op |-> "pay", arg |-> [o |-> o, read |-> orders[o].status], steps |-> <<hold, move>>,
                 holds |-> {}, log |-> NoEntries]
<1>1. /\ tx' = [tx EXCEPT ![p] = t] /\ tx[p].op = "none"
      /\ UNCHANGED <<txns, orders, subs, checkins, domain, mishaps, claims>>
      /\ orders[o].status = "pending"
  BY DEF Callback, Begin, tables, Payable
<1>2. /\ hold.kind = "hold"
      /\ move.kind = "move" /\ move.why = "order" /\ move.ref = o
  BY DEF Hold, Move
<1>3. /\ t.op = "pay" /\ t.arg.o = o /\ t.arg.read = "pending" /\ t.holds = {} /\ t.log = NoEntries
      /\ DOMAIN t.steps = {1, 2} /\ t.steps[1] = hold /\ t.steps[2] = move
  BY <1>1
<1>4. t.steps[1] = Hold(<<"order", t.arg.o>>)
  BY <1>3
<1> HIDE DEF hold, move, t
<1>5. Moves(t) = {2}
  BY <1>2, <1>3 DEF Moves
<1>6. \A i \in Moves(t) : LET m == t.steps[i] IN Carried(t, m.u, m.amt, m.why, m.ref)
  BY <1>2, <1>3, <1>5 DEF Carried
<1> QED
  BY <1>1, <1>2, <1>3, <1>4, <1>5, <1>6, BeginsTidy

\* The refunds of a deletion belong to as many claims.
LEMMA AdminDeleteKeeps ==
    ASSUME IInv, Books, NEW p \in Procs, NEW refund \in BOOLEAN, AdminDelete(p, refund)
    PROVE  Books'
<1> DEFINE owedSet == IF refund THEN {s \in Taken : RefundOf(subs[s]) # 0} ELSE {}
           Refund(s) == Move(subs[s].owner, RefundOf(subs[s]), "refund", subs[s].claim)
           Refunds(owed) == [i \in DOMAIN owed |->
                                LET sub == subs[owed[i]]
                                IN Move(sub.owner, RefundOf(sub), "refund", sub.claim)]
           last == IF Taken = {} THEN <<>> ELSE <<Erase>>
           S == Statements("delete")
<1>1. PICK owed \in SetToSeqs(owedSet) : Begin(p, "delete", [erased |-> {}], Refunds(owed) \o last)
  BY DEF AdminDelete
<1> DEFINE moves == Refunds(owed)
           t == [op |-> "delete", arg |-> [erased |-> {}], steps |-> moves \o last,
                 holds |-> {}, log |-> NoEntries]
<1>2. /\ tx' = [tx EXCEPT ![p] = t] /\ tx[p].op = "none"
      /\ UNCHANGED <<txns, orders, subs, checkins, domain, claims>> /\ mishaps \subseteq mishaps'
  BY <1>1 DEF AdminDelete, Begin, tables, Note
<1>3. t.op = "delete" /\ t.steps = moves \o last /\ t.holds = {} /\ t.log = NoEntries
  OBVIOUS
<1>4. Cardinality(owedSet) \in Nat
  <2>1. owedSet \subseteq Names
    BY DEF Taken
  <2>2. IsFiniteSet(owedSet)
    BY <2>1, Constants, FS_Subset
  <2> QED
    BY <2>2, FS_CardinalityType
<1>5. PICK n \in Nat : owed \in [1..n -> owedSet] /\ \A i, j \in 1..n : owed[i] = owed[j] => i = j
  BY <1>1, <1>4 DEF SetToSeqs
<1>6. /\ DOMAIN owed = 1..n
      /\ \A i \in 1..n : owed[i] \in Taken /\ refund /\ RefundOf(subs[owed[i]]) # 0
  BY <1>5
<1>7. \A s \in Taken : subs[s] \in Sub
  BY DEF Taken, IInv, TablesTyped
<1>8. moves \in Seq(S) /\ last \in Seq(S)
  <2>1. ASSUME NEW i \in 1..n PROVE Refund(owed[i]) \in S
    <3>1. subs[owed[i]] \in Sub /\ RefundOf(subs[owed[i]]) # 0 /\ price \in Prices
      BY <1>6, <1>7 DEF IInv, TablesTyped
    <3> HIDE DEF S
    <3> QED
      BY <3>1, RefundTyped DEF S
  <2>2. Erase \in S
    BY DEF Statements
  <2> HIDE DEF S
  <2>3. moves \in [1..n -> S]
    BY <1>6, <2>1
  <2> HIDE DEF moves
  <2> QED
    BY <2>2, <2>3
<1>9. DOMAIN moves = 1..n /\ \A i \in 1..n : moves[i] = Refund(owed[i])
  BY <1>6
<1>10. \A j \in DOMAIN last : last[j] = Erase
  BY DEF last
<1> HIDE DEF t, moves, last, owedSet, S
<1>11. /\ \A i \in DOMAIN moves : i \in DOMAIN t.steps /\ t.steps[i] = moves[i]
       /\ \A j \in DOMAIN last : Len(moves) + j \in DOMAIN t.steps /\ t.steps[Len(moves) + j] = last[j]
       /\ \A i \in DOMAIN t.steps : i \in DOMAIN moves \/ \E j \in DOMAIN last : i = Len(moves) + j
  BY <1>3, <1>8, Joined
<1>12. ASSUME NEW i \in DOMAIN t.steps
       PROVE  t.steps[i] = Erase \/ (i \in 1..n /\ t.steps[i] = Refund(owed[i]))
  <2>1. CASE i \in DOMAIN moves
    BY <1>9, <1>11, <2>1
  <2>2. CASE \E j \in DOMAIN last : i = Len(moves) + j
    BY <1>10, <1>11, <2>2
  <2> QED
    BY <1>11, <2>1, <2>2
<1>13. /\ Erase.kind = "erase" /\ \A r : Hold(r).kind = "hold"
       /\ \A s \in Names : /\ Refund(s).kind = "move" /\ Refund(s).u = subs[s].owner
                            /\ Refund(s).amt = RefundOf(subs[s]) /\ Refund(s).why = "refund"
                            /\ Refund(s).ref = subs[s].claim
  BY DEF Erase, Move, Hold
<1>14. /\ \A i \in Moves(t) : i \in 1..n /\ t.steps[i] = Refund(owed[i])
       /\ \A i \in DOMAIN t.steps, o \in Orders : t.steps[i] # Hold(<<"order", o>>)
  <2>1. \A i \in 1..n : owed[i] \in Names
    BY <1>6 DEF Taken
  <2>2. \A i \in Moves(t) : i \in 1..n /\ t.steps[i] = Refund(owed[i])
    BY <1>12, <1>13 DEF Moves
  <2>3. ASSUME NEW i \in DOMAIN t.steps, NEW o \in Orders PROVE t.steps[i] # Hold(<<"order", o>>)
    BY <1>12, <1>13, <2>1
  <2> QED
    BY <2>2, <2>3
<1>15. \A i \in Moves(t) : /\ owed[i] \in Taken /\ RefundOf(subs[owed[i]]) # 0 /\ refund
                           /\ t.steps[i].u = subs[owed[i]].owner
                           /\ t.steps[i].amt = RefundOf(subs[owed[i]])
                           /\ t.steps[i].why = "refund" /\ t.steps[i].ref = subs[owed[i]].claim
  BY <1>6, <1>13, <1>14 DEF Taken
<1>16. ASSUME NEW i \in Moves(t), NEW j \in Moves(t), t.steps[i].ref = t.steps[j].ref
       PROVE  i = j
  <2>1. owed[i] = owed[j]
    BY <1>15, <1>16 DEF Books, NumbersOK
  <2> QED
    BY <1>5, <1>14, <2>1
<1>17. \A i \in Moves(t) : LET m == t.steps[i] IN Carried(t, m.u, m.amt, m.why, m.ref)
  BY <1>3, <1>15 DEF Carried
<1>18. ASSUME "fallback" \notin mishaps', NEW i \in Moves(t)
       PROVE  Backed(txns, t.steps[i].u, t.steps[i].amt, t.steps[i].ref)
  <2> DEFINE s == owed[i]
             sub == subs[s]
  <2>1. s \in Taken /\ RefundOf(sub) # 0 /\ refund /\ sub \in Sub
    BY <1>7, <1>15
  <2>2. sub.cost # 0
    BY <1>18, <2>1 DEF AdminDelete, Note, RefundOf
  <2>3. PaidFor(txns, sub) /\ RefundOf(sub) = sub.cost /\ sub.cost \in Int
    BY <2>1, <2>2, Constants DEF Books, BooksOK, RefundOf, Sub
  <2>4. PICK e \in Written(txns, "claim", sub.claim) : e[1] = sub.owner /\ AmountOf(txns, e) = -sub.cost
    BY <2>2, <2>3 DEF PaidFor
  <2>5. RefundOf(sub) = -AmountOf(txns, e)
    BY <2>3, <2>4
  <2>6. Backed(txns, sub.owner, RefundOf(sub), sub.claim)
    BY <2>4, <2>5 DEF Backed
  <2> QED
    BY <1>15, <2>6
<1> QED
  BY <1>2, <1>3, <1>14, <1>16, <1>17, <1>18, BeginsTidy

LEMMA StartKeeps ==
    ASSUME IInv, Books, NEW p \in Procs, Start(p)
    PROVE  Books'
<1>1. CASE \E u \in Members :
              \/ \E s \in Names : Claim(p, u, s)
              \/ DailyCheckin(p, u)
              \/ \E amt \in Amounts : AdminGrant(p, u, amt)
  <2>1. PICK u \in Users : \/ \E s \in Names : Claim(p, u, s)
                           \/ DailyCheckin(p, u)
                           \/ \E amt \in Amounts : AdminGrant(p, u, amt)
    BY <1>1 DEF Members
  <2> QED
    BY <2>1, ClaimKeeps, CheckinKeeps, GrantKeeps
<1>2. CASE \E u \in Users, inviter \in Users \cup {NoUser} : Register(p, u, inviter)
  BY <1>2, RegisterKeeps
<1>3. CASE \E o \in Orders : Callback(p, o)
  BY <1>3, CallbackKeeps
<1>4. CASE \E refund \in BOOLEAN : AdminDelete(p, refund)
  BY <1>4, AdminDeleteKeeps
<1> QED
  BY <1>1, <1>2, <1>3, <1>4 DEF Start

-----------------------------------------------------------------------------
\* So do the single statements.

LEMMA CreateOrderKeeps ==
    ASSUME IInv, Books, NEW o \in Orders, NEW u \in Members, CreateOrder(o, u)
    PROVE  Books'
<1>1. /\ orders[o].status = "none" /\ orders'[o].status = "pending"
      /\ \A x \in Orders \ {o} : orders'[x] = orders[x]
      /\ UNCHANGED <<txns, subs, checkins, domain, tx, claims, mishaps>>
  BY DEF CreateOrder, IInv, TablesTyped
<1>2. KeysOK'
  BY <1>1 DEF Books, KeysOK
<1>3. NumbersOK'
  BY <1>1 DEF Books, NumbersOK, Taken
<1>4. OrdersOK'
  <2>1. Written(txns, "order", o) = {}
    BY <1>1 DEF Books, BooksOK, OrdersOK
  <2> QED
    BY <1>1, <2>1 DEF Books, BooksOK, OrdersOK
<1>5. CheckinsOK' /\ RefundsOK' /\ \A s \in Taken' : PaidFor(txns', subs'[s])
  BY <1>1 DEF Books, BooksOK, CheckinsOK, RefundsOK, Taken
<1> QED
  BY <1>1, <1>2, <1>3, <1>4, <1>5 DEF Books, BooksOK

LEMMA ReleaseKeeps ==
    ASSUME IInv, Books, NEW s \in Names, Release(s)
    PROVE  Books'
<1>1. /\ Taken' \subseteq Taken /\ \A x \in Taken' : subs'[x] = subs[x]
      /\ UNCHANGED <<txns, orders, checkins, domain, tx, claims, mishaps>>
  BY DEF Release, IInv, TablesTyped, Taken
<1>2. KeysOK'
  BY <1>1 DEF Books, KeysOK
<1>3. NumbersOK'
  BY <1>1 DEF Books, NumbersOK
<1>4. CheckinsOK' /\ OrdersOK' /\ RefundsOK' /\ \A x \in Taken' : PaidFor(txns', subs'[x])
  BY <1>1 DEF Books, BooksOK, CheckinsOK, OrdersOK, RefundsOK
<1> QED
  BY <1>1, <1>2, <1>3, <1>4 DEF Books, BooksOK

\* What changes none of what the books are about.
LEMMA NothingToBook ==
    ASSUME Books, UNCHANGED <<tables, tx, claims, mishaps>>
    PROVE  Books'
<1>1. \A q \in Procs : tx'[q] \in {tx[q], NoTx}
  OBVIOUS
<1> QED
  BY <1>1, SomeEnd

LEMMA InstantKeeps ==
    ASSUME IInv, Books, Instant
    PROVE  Books'
<1>1. CASE \/ \E o \in Orders : CallbackIgnored(o)
           \/ \E c \in Prices : SetPrice(c)
           \/ NextDay
  BY <1>1, NothingToBook DEF CallbackIgnored, SetPrice, NextDay
<1> QED
  BY <1>1, CreateOrderKeeps, ReleaseKeeps DEF Instant

-----------------------------------------------------------------------------
\* The statements keep the books.

LEMMA MoveKeeps ==
    ASSUME IInv, Books, NEW p \in Procs, MoveCredits(p)
    PROVE  Books'
<1> DEFINE m == Head(tx[p].steps)
           u == m.u
           e == [amt |-> m.amt, after |-> From(Seen(p, u)) + m.amt, why |-> m.why, ref |-> m.ref]
           key == <<"bal", u>>
<1>1. /\ TxTyped(tx[p]) /\ Tidy(tx[p]) /\ tx[p].steps # <<>> /\ m.kind = "move"
      /\ "fallback" \notin mishaps => RefundsBacked(txns, tx[p])
  BY DEF MoveCredits, IInv, TxsOK, Books, BooksOK, RefundsOK
<1>2. UNCHANGED <<claims, mishaps>> /\ Available(p, key)
  BY DEF MoveCredits, MayRead
<1>3. u \in Users
  <2>1. m \in Statements(tx[p].op)
    BY <1>1, NextStatement
  <2> HIDE DEF m
  <2> QED
    BY <1>1, <2>1 DEF Statements, Erase
<1>4. CASE Abort(p)
  BY <1>2, <1>4, AbortKeeps
<1>5. CASE /\ tx' = [tx EXCEPT ![p].steps = Tail(@),
                               ![p].holds = @ \cup {key},
                               ![p].log[u] = Append(@, e)]
           /\ UNCHANGED <<tables, told>>
  <2>1. e.amt = m.amt /\ e.why = m.why /\ e.ref = m.ref
    OBVIOUS
  <2>2. key # <<>> /\ (\A v, d : key # <<"day", v, d>>) /\ (\A o : key # <<"order", o>>)
    OBVIOUS
  <2> HIDE DEF m, u, e, key
  <2>3. /\ tx = [q \in Procs |-> tx[q]]
        /\ tx[p] = [op |-> tx[p].op, arg |-> tx[p].arg, steps |-> tx[p].steps, holds |-> tx[p].holds,
                    log |-> tx[p].log]
    BY <1>1 DEF IInv, TxsOK, TxTyped
  <2>4. /\ tx'[p].op = tx[p].op /\ tx'[p].arg = tx[p].arg /\ tx'[p].steps = Tail(tx[p].steps)
        /\ tx'[p].holds = tx[p].holds \cup {key} /\ tx'[p].log = [tx[p].log EXCEPT ![u] = Append(@, e)]
        /\ \A q \in Procs \ {p} : tx'[q] = tx[q]
    BY <1>5, <2>3
  <2> DEFINE t == tx[p]
             t2 == tx'[p]
  <2>5. Tidy(t2) /\ \A L : RefundsBacked(L, t) => RefundsBacked(L, t2)
    <3>1. /\ TxTyped(t) /\ Tidy(t) /\ t.steps # <<>> /\ Head(t.steps).kind = "move" /\ Head(t.steps).u = u
          /\ e.amt = Head(t.steps).amt /\ e.why = Head(t.steps).why /\ e.ref = Head(t.steps).ref
      BY <1>1, <2>1 DEF m, u
    <3>2. /\ t2.steps = Tail(t.steps) /\ t2.op = t.op /\ t2.arg = t.arg /\ t.holds \subseteq t2.holds
          /\ t2.log = [t.log EXCEPT ![u] = Append(@, e)]
      BY <2>4
    <3> HIDE DEF t, t2
    <3> QED
      BY <1>3, <3>1, <3>2, TidyMove
  <2>6. "fallback" \notin mishaps' => RefundsBacked(txns, tx'[p])
    BY <1>1, <1>2, <2>5
  <2>7. UNCHANGED <<txns, orders, subs, checkins, domain>>
    BY <1>5 DEF tables
  <2>8. KeysOK'
    BY <1>2, <2>2, <2>4, <2>7, KeyGot DEF Books
  <2>9. NumbersOK'
    BY <1>2, <2>4, <2>7, NumbersKept DEF Books
  <2> QED
    BY <1>2, <2>4, <2>5, <2>6, <2>7, <2>8, <2>9, OneMoves
<1> QED
  BY <1>4, <1>5 DEF MoveCredits

\* The unique indexes keep a key from being used twice; an order's row is
\* locked, but not read again.
LEMMA HoldKeeps ==
    ASSUME IInv, Books, NEW p \in Procs, HoldKey(p)
    PROVE  Books'
<1> DEFINE m == Head(tx[p].steps)
           r == m.res
<1>1. /\ TxTyped(tx[p]) /\ Tidy(tx[p]) /\ tx[p].steps # <<>> /\ m.kind = "hold"
      /\ "fallback" \notin mishaps => RefundsBacked(txns, tx[p])
  BY DEF HoldKey, IInv, TxsOK, Books, BooksOK, RefundsOK
<1>2. claims' = claims /\ Available(p, r)
  BY DEF HoldKey
<1>4. CASE Abort(p) /\ UNCHANGED mishaps
  BY <1>2, <1>4, AbortKeeps
<1>5. CASE /\ ~KeyTaken(r)
           /\ tx' = [tx EXCEPT ![p].steps = Tail(@), ![p].holds = @ \cup {r}]
           /\ Note(IF r[1] = "order" /\ orders[r[2]].status # tx[p].arg.read THEN {"duplicate"} ELSE {})
           /\ UNCHANGED <<tables, told>>
  <2>1. m = Hold(r) /\ 1 \in DOMAIN tx[p].steps /\ tx[p].steps[1] = m
    <3>1. m \in Statements(tx[p].op)
      BY <1>1, NextStatement
    <3>2. 1 \in DOMAIN tx[p].steps /\ tx[p].steps[1] = m
      <4> DEFINE ss == tx[p].steps
                 S == Statements(tx[p].op)
      <4>1. ss \in Seq(S) /\ ss # <<>>
        BY <1>1 DEF TxTyped
      <4> HIDE DEF ss, S
      <4>2. 1 \in DOMAIN ss /\ ss[1] = Head(ss)
        BY <4>1, Shift
      <4> QED
        BY <4>2 DEF ss
    <3> HIDE DEF m
    <3>3. m = Hold(m.res)
      BY <1>1, <3>1 DEF Statements, Erase, Hold
    <3> QED
      BY <3>2, <3>3
  <2> HIDE DEF m, r
  <2>2. \A w, d : r = <<"day", w, d>> => <<w, d>> \notin checkins
    BY <1>5 DEF KeyTaken
  <2>3. ASSUME NEW o \in Orders, r = <<"order", o>>, "duplicate" \notin mishaps'
        PROVE  orders[o].status = "pending"
    <3>1. tx[p].op = "pay"
      BY <1>1, <2>1, <2>3 DEF Tidy
    <3>2. tx[p].arg.read = "pending"
      BY <1>1, <3>1 DEF Tidy
    <3>3. r[1] = "order" /\ r[2] = o
      BY <2>3
    <3>4. ~(r[1] = "order" /\ orders[r[2]].status # tx[p].arg.read)
      BY <1>5, <2>3 DEF Note
    <3> QED
      BY <3>2, <3>3, <3>4
  <2>4. /\ tx = [q \in Procs |-> tx[q]]
        /\ tx[p] = [op |-> tx[p].op, arg |-> tx[p].arg, steps |-> tx[p].steps, holds |-> tx[p].holds,
                    log |-> tx[p].log]
    BY <1>1 DEF IInv, TxsOK, TxTyped
  <2>5. /\ tx'[p].op = tx[p].op /\ tx'[p].arg = tx[p].arg /\ tx'[p].steps = Tail(tx[p].steps)
        /\ tx'[p].holds = tx[p].holds \cup {r} /\ tx'[p].log = tx[p].log
        /\ \A q \in Procs \ {p} : tx'[q] = tx[q]
    BY <1>5, <2>4
  <2> DEFINE t == tx[p]
             t2 == tx'[p]
  <2>6. Tidy(t2) /\ \A L : RefundsBacked(L, t) => RefundsBacked(L, t2)
    <3>1. /\ TxTyped(t) /\ Tidy(t) /\ t.steps # <<>> /\ Head(t.steps).kind # "move" /\ Head(t.steps).res = r
      BY <1>1 DEF m, r
    <3>2. /\ t2.steps = Tail(t.steps) /\ t2.op = t.op /\ t2.arg = t.arg /\ t.holds \subseteq t2.holds
          /\ r \in t2.holds /\ t2.log = t.log
      BY <2>5
    <3> HIDE DEF t, t2
    <3> QED
      BY <3>1, <3>2, TidyTail
  <2>7. UNCHANGED <<txns, orders, subs, checkins, domain>> /\ mishaps \subseteq mishaps'
    BY <1>5 DEF tables, Note
  <2>8. "fallback" \notin mishaps' => RefundsBacked(txns, tx'[p])
    BY <1>1, <2>6, <2>7
  <2>9. KeysOK'
    BY <1>2, <2>2, <2>3, <2>5, <2>7, KeyGot DEF Books
  <2>10. NumbersOK'
    BY <1>2, <2>5, <2>7, NumbersKept DEF Books
  <2> QED
    BY <2>5, <2>6, <2>7, <2>8, <2>9, <2>10, OneMoves
<1> QED
  BY <1>4, <1>5 DEF HoldKey

LEMMA EraseKeeps ==
    ASSUME IInv, Books, NEW p \in Procs, EraseSubdomains(p)
    PROVE  Books'
<1> DEFINE m == Head(tx[p].steps)
<1>1. /\ TxTyped(tx[p]) /\ Tidy(tx[p]) /\ tx[p].steps # <<>> /\ m.kind = "erase"
      /\ "fallback" \notin mishaps => RefundsBacked(txns, tx[p])
  BY DEF EraseSubdomains, IInv, TxsOK, Books, BooksOK, RefundsOK
<1>2. tx[p].op = "delete"
  <2>1. m \in Statements(tx[p].op)
    BY <1>1, NextStatement
  <2> HIDE DEF m
  <2> QED
    BY <1>1, <2>1 DEF Statements
<1>3. /\ tx = [q \in Procs |-> tx[q]]
      /\ tx[p] = [op |-> tx[p].op, arg |-> tx[p].arg, steps |-> tx[p].steps, holds |-> tx[p].holds,
                  log |-> tx[p].log]
  BY <1>1 DEF IInv, TxsOK, TxTyped
<1>4. /\ tx'[p].op = tx[p].op /\ tx'[p].steps = Tail(tx[p].steps)
      /\ tx'[p].holds = tx[p].holds /\ tx'[p].log = tx[p].log
      /\ \A q \in Procs \ {p} : tx'[q] = tx[q]
  BY <1>3 DEF EraseSubdomains
<1>5. UNCHANGED <<txns, orders, subs, checkins, domain, claims, mishaps>>
  BY DEF EraseSubdomains, tables
<1> DEFINE t == tx[p]
           t2 == tx'[p]
<1>6. Tidy(t2) /\ \A L : RefundsBacked(L, t) => RefundsBacked(L, t2)
  <2>1. /\ TxTyped(t) /\ Tidy(t) /\ t.steps # <<>> /\ Head(t.steps).kind = "erase" /\ t.op = "delete"
    BY <1>1, <1>2
  <2>2. /\ t2.steps = Tail(t.steps) /\ t2.op = t.op /\ t.holds \subseteq t2.holds /\ t2.log = t.log
    BY <1>4
  <2> HIDE DEF t, t2
  <2> QED
    BY <2>1, <2>2, TidyTail
<1>7. \A q \in Procs : tx'[q].holds \subseteq tx[q].holds
  BY <1>4
<1>8. KeysOK'
  BY <1>5, <1>7, KeysKept DEF Books
<1>9. NumbersOK'
  BY <1>2, <1>4, <1>5, NumbersKept DEF Books
<1> QED
  BY <1>1, <1>4, <1>5, <1>6, <1>8, <1>9, OneMoves

-----------------------------------------------------------------------------
\* The commit keeps the books.

\* The ledgers M are the ledgers L, each with the entries of g after its own.
Extends(M, L, g) ==
    \A u \in Users :
        /\ \A i \in DOMAIN L[u] : i \in DOMAIN M[u] /\ M[u][i] = L[u][i]
        /\ \A k \in DOMAIN g[u] : Len(L[u]) + k \in DOMAIN M[u] /\ M[u][Len(L[u]) + k] = g[u][k]
        /\ \A i \in DOMAIN M[u] : i \in DOMAIN L[u] \/ \E k \in DOMAIN g[u] : i = Len(L[u]) + k

LEMMA JoinedExtends ==
    ASSUME NEW L, NEW g, NEW M, M = [u \in Users |-> L[u] \o g[u]],
           \A u \in Users : L[u] \in Seq(Entry) /\ g[u] \in Seq(Entry)
    PROVE  Extends(M, L, g)
<1>1. ASSUME NEW u \in Users
      PROVE  /\ \A i \in DOMAIN L[u] : i \in DOMAIN M[u] /\ M[u][i] = L[u][i]
             /\ \A k \in DOMAIN g[u] : Len(L[u]) + k \in DOMAIN M[u] /\ M[u][Len(L[u]) + k] = g[u][k]
             /\ \A i \in DOMAIN M[u] : i \in DOMAIN L[u] \/ \E k \in DOMAIN g[u] : i = Len(L[u]) + k
  <2> DEFINE es == L[u]
             fs == g[u]
  <2>1. es \in Seq(Entry) /\ fs \in Seq(Entry) /\ M[u] = es \o fs
    OBVIOUS
  <2> HIDE DEF es, fs
  <2>2. /\ \A i \in DOMAIN es : i \in DOMAIN (es \o fs) /\ (es \o fs)[i] = es[i]
        /\ \A i \in DOMAIN fs : /\ i \in Nat /\ Len(es) + i \in DOMAIN (es \o fs)
                                /\ (es \o fs)[Len(es) + i] = fs[i]
        /\ \A i \in DOMAIN (es \o fs) : i \in DOMAIN es \/ \E j \in DOMAIN fs : i = Len(es) + j
    BY <2>1, Joined
  <2> QED
    BY <2>1, <2>2 DEF es, fs
<1> QED
  BY <1>1 DEF Extends

LEMMA OldEntries ==
    ASSUME NEW L, NEW g, NEW M, Extends(M, L, g), NEW why, NEW ref
    PROVE  \A e \in Written(L, why, ref) :
               e \in Written(M, why, ref) /\ AmountOf(M, e) = AmountOf(L, e)
<1> SUFFICES ASSUME NEW e \in Written(L, why, ref)
             PROVE  e \in Written(M, why, ref) /\ AmountOf(M, e) = AmountOf(L, e)
  OBVIOUS
<1>1. PICK u, i : u \in Users /\ i \in DOMAIN L[u] /\ e = <<u, i>> /\ L[u][i].why = why /\ L[u][i].ref = ref
  BY DEF Written
<1>2. i \in DOMAIN M[u] /\ M[u][i] = L[u][i] /\ e[1] = u /\ e[2] = i
  BY <1>1 DEF Extends
<1>3. e \in Written(M, why, ref)
  BY <1>1, <1>2 DEF Written
<1> QED
  BY <1>2, <1>3 DEF AmountOf

LEMMA NewEntries ==
    ASSUME NEW L, NEW g, NEW M, Extends(M, L, g), NEW why, NEW ref
    PROVE  \A e \in Written(M, why, ref) :
               \/ e \in Written(L, why, ref)
               \/ \E u \in Users : \E k \in DOMAIN g[u] :
                     /\ e = <<u, Len(L[u]) + k>> /\ AmountOf(M, e) = g[u][k].amt
                     /\ g[u][k].why = why /\ g[u][k].ref = ref
<1> SUFFICES ASSUME NEW e \in Written(M, why, ref), e \notin Written(L, why, ref)
             PROVE  \E u \in Users : \E k \in DOMAIN g[u] :
                        /\ e = <<u, Len(L[u]) + k>> /\ AmountOf(M, e) = g[u][k].amt
                        /\ g[u][k].why = why /\ g[u][k].ref = ref
  OBVIOUS
<1>1. PICK u, i : u \in Users /\ i \in DOMAIN M[u] /\ e = <<u, i>> /\ M[u][i].why = why /\ M[u][i].ref = ref
  BY DEF Written
<1>2. i \notin DOMAIN L[u]
  <2> SUFFICES ASSUME i \in DOMAIN L[u] PROVE FALSE
    OBVIOUS
  <2>1. M[u][i] = L[u][i] /\ e[1] = u /\ e[2] = i
    BY <1>1 DEF Extends
  <2> QED
    BY <1>1, <2>1 DEF Written
<1>3. PICK k \in DOMAIN g[u] : i = Len(L[u]) + k
  BY <1>1, <1>2 DEF Extends
<1>4. M[u][i] = g[u][k] /\ e[1] = u /\ e[2] = i
  BY <1>1, <1>3 DEF Extends
<1>5. AmountOf(M, e) = g[u][k].amt
  BY <1>4 DEF AmountOf
<1> QED
  BY <1>1, <1>3, <1>4, <1>5

LEMMA NewWritten ==
    ASSUME NEW L, NEW g, NEW M, Extends(M, L, g), NEW u \in Users, NEW k \in DOMAIN g[u]
    PROVE  <<u, Len(L[u]) + k>> \in Written(M, g[u][k].why, g[u][k].ref)
<1>1. Len(L[u]) + k \in DOMAIN M[u] /\ M[u][Len(L[u]) + k] = g[u][k]
  BY DEF Extends
<1> QED
  BY <1>1 DEF Written

Added(why, ref) == Written(txns', why, ref) \ Written(txns, why, ref)

\* What a commit adds to the ledgers.
LEMMA CommitWrites ==
    ASSUME IInv, Books, NEW p \in Procs, Commit(p)
    PROVE  /\ \A why, ref : Written(txns, why, ref) \subseteq Written(txns', why, ref)
           /\ \A why, ref : \A e \in Written(txns, why, ref) : AmountOf(txns', e) = AmountOf(txns, e)
           /\ \A why, ref : \A e, f \in Added(why, ref) : e = f
           /\ \A ref : \A e \in Added("checkin", ref) :
                  tx[p].op = "checkin" /\ e[1] = tx[p].arg.u /\ ref = tx[p].arg.d
           /\ \A ref : Added("order", ref) # {} => tx[p].op = "pay" /\ ref = tx[p].arg.o
           /\ \A ref : \A e \in Added("claim", ref) :
                  /\ tx[p].op = "claim" /\ tx[p].arg.sub.cost # 0 /\ e[1] = tx[p].arg.sub.owner
                  /\ ref = tx[p].arg.sub.claim /\ AmountOf(txns', e) = -tx[p].arg.sub.cost
           /\ \A ref : \A e \in Added("refund", ref) :
                  /\ tx[p].op = "delete"
                  /\ "fallback" \notin mishaps => Backed(txns, e[1], AmountOf(txns', e), ref)
           /\ tx[p].op = "checkin" => <<"day", tx[p].arg.u, tx[p].arg.d>> \in tx[p].holds
           /\ tx[p].op = "pay" => /\ <<"order", tx[p].arg.o>> \in tx[p].holds
                                  /\ Written(txns', "order", tx[p].arg.o) # {}
           /\ tx[p].op = "claim" /\ tx[p].arg.sub.cost # 0 =>
                  Written(txns', "claim", tx[p].arg.sub.claim) # {}
<1> DEFINE t == tx[p]
           g == t.log
           L == txns
           M == txns'
           Fresh(e, u, k, why, ref) == /\ e = <<u, Len(L[u]) + k>> /\ AmountOf(M, e) = g[u][k].amt
                                       /\ g[u][k].why = why /\ g[u][k].ref = ref
<1>1. /\ M = [u \in Users |-> L[u] \o g[u]] /\ t.steps = <<>>
      /\ \A u \in Users : L[u] \in Seq(Entry) /\ g[u] \in Seq(Entry)
  BY DEF Commit, Entries, IInv, TxsOK, TxTyped, LedgersOK, LedgerOK
<1>2. /\ Tidy(t) /\ ("fallback" \notin mishaps => RefundsBacked(L, t))
      /\ \A why, ref : Added(why, ref) = Written(M, why, ref) \ Written(L, why, ref)
  BY DEF Books, BooksOK, RefundsOK, Added
<1> HIDE DEF t, L, M
<1>3. /\ \A why, ref : \A e \in Written(L, why, ref) :
             e \in Written(M, why, ref) /\ AmountOf(M, e) = AmountOf(L, e)
      /\ \A why, ref : \A e \in Written(M, why, ref) :
             e \in Written(L, why, ref) \/ \E u \in Users : \E k \in DOMAIN g[u] : Fresh(e, u, k, why, ref)
      /\ \A u \in Users : \A k \in DOMAIN g[u] :
             <<u, Len(L[u]) + k>> \in Written(M, g[u][k].why, g[u][k].ref)
  <2> HIDE DEF g
  <2>1. Extends(M, L, g)
    BY <1>1, JoinedExtends
  <2>2. \A why, ref : \A e \in Written(L, why, ref) :
            e \in Written(M, why, ref) /\ AmountOf(M, e) = AmountOf(L, e)
    BY <2>1, OldEntries
  <2>3. \A why, ref : \A e \in Written(M, why, ref) :
            \/ e \in Written(L, why, ref)
            \/ \E u \in Users : \E k \in DOMAIN g[u] :
                  /\ e = <<u, Len(L[u]) + k>> /\ AmountOf(M, e) = g[u][k].amt
                  /\ g[u][k].why = why /\ g[u][k].ref = ref
    BY <2>1, NewEntries
  <2>4. \A u \in Users : \A k \in DOMAIN g[u] :
            <<u, Len(L[u]) + k>> \in Written(M, g[u][k].why, g[u][k].ref)
    BY <2>1, NewWritten
  <2> QED
    BY <2>2, <2>3, <2>4
<1>4. DOMAIN t.steps = {} /\ Moves(t) = {}
  BY <1>1 DEF Moves
<1>5. \A why, ref : \A e \in Added(why, ref) : \E u \in Users : \E k \in DOMAIN g[u] : Fresh(e, u, k, why, ref)
  BY <1>2, <1>3
<1>6. \A u \in Users : \A k \in DOMAIN g[u] : Carried(t, u, g[u][k].amt, g[u][k].why, g[u][k].ref)
  BY <1>2 DEF Tidy
<1>7. ASSUME NEW why, NEW ref, NEW e \in Added(why, ref)
      PROVE  Carried(t, e[1], AmountOf(M, e), why, ref)
  <2>1. PICK u, k : u \in Users /\ k \in DOMAIN g[u] /\ Fresh(e, u, k, why, ref)
    BY <1>5
  <2>2. e[1] = u /\ AmountOf(M, e) = g[u][k].amt /\ g[u][k].why = why /\ g[u][k].ref = ref
    BY <2>1
  <2> QED
    BY <1>6, <2>1, <2>2
<1>8. ASSUME NEW why, NEW ref, NEW e \in Added(why, ref), NEW f \in Added(why, ref)
      PROVE  e = f
  <2>1. PICK u, k : u \in Users /\ k \in DOMAIN g[u] /\ Fresh(e, u, k, why, ref)
    BY <1>5
  <2>2. PICK v, l : v \in Users /\ l \in DOMAIN g[v] /\ Fresh(f, v, l, why, ref)
    BY <1>5
  <2>3. u = v /\ k = l
    BY <1>2, <2>1, <2>2 DEF Tidy, Distinct
  <2> QED
    BY <2>1, <2>2, <2>3
<1>9. ASSUME NEW ref, NEW e \in Added("refund", ref), "fallback" \notin mishaps
      PROVE  Backed(L, e[1], AmountOf(M, e), ref)
  <2>1. PICK u, k : u \in Users /\ k \in DOMAIN g[u] /\ Fresh(e, u, k, "refund", ref)
    BY <1>5
  <2>2. e[1] = u /\ AmountOf(M, e) = g[u][k].amt /\ g[u][k].why = "refund" /\ g[u][k].ref = ref
    BY <2>1
  <2>3. RefundsBacked(L, t)
    BY <1>2, <1>9
  <2> QED
    BY <2>1, <2>2, <2>3 DEF RefundsBacked
<1>10. \A why, ref : Due(t, why, ref) => Written(M, why, ref) # {}
  <2> SUFFICES ASSUME NEW why, NEW ref, Due(t, why, ref) PROVE Written(M, why, ref) # {}
    OBVIOUS
  <2>1. PICK u, k : u \in Users /\ k \in DOMAIN g[u] /\ g[u][k].why = why /\ g[u][k].ref = ref
    BY <1>4 DEF Due
  <2> QED
    BY <1>3, <2>1
<1>11. \A r : HoldsOrWill(t, r) => r \in t.holds
  BY <1>4 DEF HoldsOrWill
<1>12. /\ t.op = "checkin" => <<"day", t.arg.u, t.arg.d>> \in t.holds
       /\ t.op = "pay" => <<"order", t.arg.o>> \in t.holds /\ Written(M, "order", t.arg.o) # {}
       /\ t.op = "claim" /\ t.arg.sub.cost # 0 => Written(M, "claim", t.arg.sub.claim) # {}
  BY <1>2, <1>10, <1>11 DEF Tidy
<1>13. /\ \A ref : \A e \in Added("checkin", ref) : t.op = "checkin" /\ e[1] = t.arg.u /\ ref = t.arg.d
       /\ \A ref : Added("order", ref) # {} => t.op = "pay" /\ ref = t.arg.o
       /\ \A ref : \A e \in Added("claim", ref) :
              /\ t.op = "claim" /\ t.arg.sub.cost # 0 /\ e[1] = t.arg.sub.owner
              /\ ref = t.arg.sub.claim /\ AmountOf(M, e) = -t.arg.sub.cost
       /\ \A ref : \A e \in Added("refund", ref) : t.op = "delete"
  BY <1>7 DEF Carried
<1>14. /\ \A why, ref : Written(L, why, ref) \subseteq Written(M, why, ref)
       /\ \A why, ref : \A e \in Written(L, why, ref) : AmountOf(M, e) = AmountOf(L, e)
  BY <1>3
<1> QED
  BY <1>8, <1>9, <1>12, <1>13, <1>14 DEF t, L, M

LEMMA NothingAdded ==
    ASSUME IInv, Books, NEW p \in Procs, Commit(p), NEW why, NEW ref, Added(why, ref) = {}
    PROVE  Written(txns', why, ref) = Written(txns, why, ref)
<1> DEFINE W == Written(txns, why, ref)
           V == Written(txns', why, ref)
<1>1. W \subseteq V
  BY CommitWrites
<1>2. V \ W = {}
  BY DEF Added
<1> HIDE DEF V, W
<1>3. V = W
  BY <1>1, <1>2
<1> QED
  BY <1>3 DEF V, W

LEMMA CommitKeysNumbers ==
    ASSUME IInv, Books, NEW p \in Procs, Commit(p)
    PROVE  KeysOK' /\ NumbersOK'
<1> DEFINE t == tx[p]
           c == t.arg.sub.claim
<1>1. /\ tx'[p] = NoTx /\ \A q \in Procs \ {p} : tx'[q] = tx[q]
      /\ claims' = claims /\ mishaps \subseteq mishaps'
  BY DEF Commit, Note, IInv, TxsOK
<1>2. NoTx.op = "none" /\ NoTx.holds = {}
  BY NoTxTyped
<1>3. TxTyped(t) /\ KeysOK /\ NumbersOK
  BY DEF IInv, TxsOK, Books
<1>4. KeysOK'
  <2>1. ASSUME NEW q \in Procs, NEW u \in Users, NEW d \in 1..Days, <<"day", u, d>> \in tx'[q].holds
        PROVE  <<u, d>> \notin checkins'
    <3>1. q # p /\ <<"day", u, d>> \in tx[q].holds
      BY <1>1, <1>2, <2>1
    <3>2. <<u, d>> \notin checkins /\ <<"day", u, d>> \notin tx[p].holds
      BY <1>3, <3>1 DEF KeysOK
    <3>3. CASE t.op # "checkin"
      BY <3>2, <3>3 DEF Commit
    <3>4. CASE t.op = "checkin"
      <4>1. checkins' = checkins \cup {<<t.arg.u, t.arg.d>>}
        BY <3>4 DEF Commit
      <4>2. <<"day", t.arg.u, t.arg.d>> \in tx[p].holds
        BY <3>4, CommitWrites
      <4> QED
        BY <3>2, <4>1, <4>2
    <3> QED
      BY <3>3, <3>4
  <2>2. ASSUME NEW q \in Procs, NEW o \in Orders, <<"order", o>> \in tx'[q].holds, "duplicate" \notin mishaps'
        PROVE  orders'[o].status = "pending"
    <3>1. q # p /\ <<"order", o>> \in tx[q].holds
      BY <1>1, <1>2, <2>2
    <3>2. orders[o].status = "pending" /\ <<"order", o>> \notin tx[p].holds
      BY <1>1, <1>3, <2>2, <3>1 DEF KeysOK
    <3>3. CASE t.op # "pay"
      BY <3>2, <3>3 DEF Commit
    <3>4. CASE t.op = "pay"
      <4>1. orders' = [orders EXCEPT ![t.arg.o].status = "paid"]
        BY <3>4 DEF Commit
      <4>2. t.arg.o # o
        BY <3>2, <3>4, CommitWrites
      <4> QED
        BY <3>2, <4>1, <4>2 DEF IInv, TablesTyped
    <3> QED
      BY <3>3, <3>4
  <2>3. \A q, r \in Procs : q # r => tx'[q].holds \cap tx'[r].holds = {}
    BY <1>1, <1>2, <1>3 DEF KeysOK
  <2> QED
    BY <2>1, <2>2, <2>3 DEF KeysOK
<1>5. NumbersOK'
  <2>1. t.op = "claim" => /\ c \in 1..claims
                          /\ \A q \in Procs : tx[q].op = "claim" /\ tx[q].arg.sub.claim = c => p = q
                          /\ \A s \in Taken : subs[s].claim # c
    BY <1>3 DEF NumbersOK
  <2>2. \A s \in Taken' : \/ s \in Taken /\ subs'[s] = subs[s]
                          \/ t.op = "claim" /\ s = t.arg.s /\ subs'[s].claim = c
    <3>1. CASE t.op = "claim"
      <4>1. subs' = [subs EXCEPT ![t.arg.s] = t.arg.sub]
        BY <3>1 DEF Commit
      <4> QED
        BY <1>3, <3>1, <4>1 DEF IInv, TablesTyped, Taken
    <3>2. CASE t.op = "delete"
      <4>1. subs' = [s \in Names |-> Free]
        BY <3>2 DEF Commit
      <4> QED
        BY <4>1 DEF Taken
    <3>3. CASE t.op \notin {"claim", "delete"}
      <4>1. subs' = subs
        BY <3>3 DEF Commit
      <4> QED
        BY <4>1 DEF Taken
    <3> QED
      BY <3>1, <3>2, <3>3
  <2>3. ASSUME NEW ref, Written(txns', "claim", ref) # Written(txns, "claim", ref)
        PROVE  t.op = "claim" /\ ref = c
    <3>1. PICK e : e \in Added("claim", ref)
      BY <2>3, NothingAdded
    <3> QED
      BY <3>1, CommitWrites
  <2>4. ASSUME NEW q \in Procs, tx'[q].op = "claim"
        PROVE  /\ tx'[q].arg.sub.claim \in 1..claims
               /\ \A r \in Procs : tx'[r].op = "claim" /\ tx'[r].arg.sub.claim = tx'[q].arg.sub.claim => q = r
               /\ \A s \in Taken' : subs'[s].claim # tx'[q].arg.sub.claim
               /\ Written(txns', "claim", tx'[q].arg.sub.claim) = {}
    <3>1. q # p /\ tx'[q] = tx[q] /\ tx[q].op = "claim"
      BY <1>1, <1>2, <2>4
    <3>2. /\ tx[q].arg.sub.claim \in 1..claims
          /\ \A r \in Procs : tx[r].op = "claim" /\ tx[r].arg.sub.claim = tx[q].arg.sub.claim => q = r
          /\ \A s \in Taken : subs[s].claim # tx[q].arg.sub.claim
          /\ Written(txns, "claim", tx[q].arg.sub.claim) = {}
      BY <1>3, <3>1 DEF NumbersOK
    <3>3. ASSUME NEW r \in Procs, tx'[r].op = "claim", tx'[r].arg.sub.claim = tx'[q].arg.sub.claim
          PROVE  q = r
      <4>1. tx'[r] = tx[r]
        BY <1>1, <1>2, <3>3
      <4> QED
        BY <3>1, <3>2, <3>3, <4>1
    <3>4. t.op = "claim" => tx[q].arg.sub.claim # c
      BY <2>1, <3>1
    <3>5. \A s \in Taken' : subs'[s].claim # tx[q].arg.sub.claim
      BY <2>2, <3>2, <3>4
    <3>6. Written(txns', "claim", tx[q].arg.sub.claim) = {}
      BY <2>3, <3>2, <3>4
    <3> QED
      BY <3>1, <3>2, <3>3, <3>5, <3>6
  <2>5. \A s \in Taken' : subs'[s].claim \in 1..claims
    BY <1>3, <2>1, <2>2 DEF NumbersOK
  <2>6. ASSUME NEW s \in Taken', NEW r \in Taken', subs'[s].claim = subs'[r].claim
        PROVE  s = r
    BY <1>3, <2>1, <2>2, <2>6 DEF NumbersOK
  <2>7. ASSUME NEW u \in Users, NEW i \in DOMAIN txns'[u], txns'[u][i].why = "claim"
        PROVE  txns'[u][i].ref \in 1..claims
    <3> DEFINE ref == txns'[u][i].ref
    <3>1. <<u, i>> \in Written(txns', "claim", ref)
      BY <2>7 DEF Written
    <3>2. CASE <<u, i>> \in Written(txns, "claim", ref)
      <4> HIDE DEF ref
      <4>1. PICK v, j : v \in Users /\ j \in DOMAIN txns[v] /\ txns[v][j].why = "claim" /\ txns[v][j].ref = ref
        BY <3>2 DEF Written
      <4>2. ref \in 1..claims
        BY <1>3, <4>1 DEF NumbersOK
      <4> QED
        BY <4>2 DEF ref
    <3>3. CASE <<u, i>> \notin Written(txns, "claim", ref)
      BY <2>1, <2>3, <3>1, <3>3
    <3> QED
      BY <3>2, <3>3
  <2> QED
    BY <1>1, <2>4, <2>5, <2>6, <2>7 DEF NumbersOK
<1> QED
  BY <1>4, <1>5

\* Check-ins and orders.
LEMMA CommitGrants ==
    ASSUME IInv, Books, NEW p \in Procs, Commit(p)
    PROVE  CheckinsOK' /\ OrdersOK'
<1> DEFINE t == tx[p]
<1>1. TxTyped(t) /\ KeysOK /\ CheckinsOK /\ OrdersOK /\ mishaps \subseteq mishaps'
  BY DEF IInv, TxsOK, Books, BooksOK, Commit, Note
<1>2. CheckinsOK'
  <2> SUFFICES ASSUME NEW u \in Users, NEW d \in 1..Days,
                      NEW e \in Written(txns', "checkin", d), NEW f \in Written(txns', "checkin", d), e[1] = u
               PROVE  <<u, d>> \in checkins' /\ (f[1] = u => e = f)
    BY DEF CheckinsOK
  <2>1. checkins \subseteq checkins'
    BY DEF Commit
  <2>2. \A x \in Added("checkin", d) : /\ t.op = "checkin" /\ x[1] = t.arg.u /\ d = t.arg.d
                                       /\ <<x[1], d>> \in checkins' /\ <<x[1], d>> \notin checkins
    <3> SUFFICES ASSUME NEW x \in Added("checkin", d)
                 PROVE  /\ t.op = "checkin" /\ x[1] = t.arg.u /\ d = t.arg.d
                        /\ <<x[1], d>> \in checkins' /\ <<x[1], d>> \notin checkins
      OBVIOUS
    <3>1. t.op = "checkin" /\ x[1] = t.arg.u /\ d = t.arg.d
      BY CommitWrites
    <3>2. <<"day", t.arg.u, t.arg.d>> \in tx[p].holds /\ t.arg.u \in Users
      BY <1>1, <3>1, CommitWrites DEF TxTyped
    <3>3. <<t.arg.u, t.arg.d>> \notin checkins
      BY <1>1, <3>1, <3>2 DEF KeysOK
    <3>4. <<t.arg.u, t.arg.d>> \in checkins'
      BY <3>1 DEF Commit
    <3> QED
      BY <3>1, <3>3, <3>4
  <2>3. \A x \in Written(txns, "checkin", d) : x[1] = u => <<u, d>> \in checkins
    BY <1>1 DEF CheckinsOK
  <2>4. \A x \in Written(txns', "checkin", d) : x \in Written(txns, "checkin", d) \/ x \in Added("checkin", d)
    BY DEF Added
  <2>5. <<u, d>> \in checkins'
    BY <2>1, <2>2, <2>3, <2>4
  <2>6. ASSUME f[1] = u PROVE e = f
    <3>1. CASE e \in Written(txns, "checkin", d) /\ f \in Written(txns, "checkin", d)
      BY <1>1, <2>6, <3>1 DEF CheckinsOK
    <3>2. CASE e \in Added("checkin", d) /\ f \in Added("checkin", d)
      BY <3>2, CommitWrites
    <3>3. ~(e \in Added("checkin", d) /\ f \in Written(txns, "checkin", d))
      BY <2>2, <2>3, <2>6
    <3>4. ~(f \in Added("checkin", d) /\ e \in Written(txns, "checkin", d))
      BY <2>2, <2>3, <2>6
    <3> QED
      BY <2>4, <3>1, <3>2, <3>3, <3>4
  <2> QED
    BY <2>5, <2>6
<1>3. OrdersOK'
  <2> SUFFICES ASSUME NEW o \in Orders
               PROVE  /\ (orders'[o].status = "paid") = (Written(txns', "order", o) # {})
                      /\ "duplicate" \notin mishaps' => \A e, f \in Written(txns', "order", o) : e = f
    BY DEF OrdersOK
  <2>1. CASE t.op = "pay" /\ o = t.arg.o
    <3>1. orders'[o].status = "paid"
      <4>1. orders' = [orders EXCEPT ![o].status = "paid"]
        BY <2>1 DEF Commit
      <4> QED
        BY <4>1 DEF IInv, TablesTyped
    <3>2. Written(txns', "order", o) # {} /\ <<"order", o>> \in tx[p].holds
      BY <2>1, CommitWrites
    <3>3. ASSUME "duplicate" \notin mishaps', NEW e \in Written(txns', "order", o), NEW f \in Written(txns', "order", o)
          PROVE  e = f
      <4>1. orders[o].status = "pending"
        BY <1>1, <3>2, <3>3 DEF KeysOK
      <4>2. Written(txns, "order", o) = {}
        BY <1>1, <4>1 DEF OrdersOK
      <4>3. e \in Added("order", o) /\ f \in Added("order", o)
        BY <3>3, <4>2 DEF Added
      <4> QED
        BY <4>3, CommitWrites
    <3> QED
      BY <3>1, <3>2, <3>3
  <2>2. CASE ~(t.op = "pay" /\ o = t.arg.o)
    <3>1. orders'[o] = orders[o]
      <4>1. orders' = IF t.op = "pay" THEN [orders EXCEPT ![t.arg.o].status = "paid"] ELSE orders
        BY DEF Commit
      <4> QED
        BY <2>2, <4>1 DEF IInv, TablesTyped
    <3>2. Written(txns', "order", o) = Written(txns, "order", o)
      <4>1. Added("order", o) = {}
        BY <2>2, CommitWrites
      <4> QED
        BY <4>1, NothingAdded
    <3> QED
      BY <1>1, <3>1, <3>2 DEF OrdersOK
  <2> QED
    BY <2>1, <2>2
<1> QED
  BY <1>2, <1>3

\* A subdomain's claim and the refunds.
LEMMA CommitClaims ==
    ASSUME IInv, Books, NEW p \in Procs, Commit(p)
    PROVE  \A s \in Taken' : PaidFor(txns', subs'[s])
<1> DEFINE t == tx[p]
           c == t.arg.sub.claim
<1>1. TxTyped(t) /\ NumbersOK /\ \A s \in Taken : PaidFor(txns, subs[s])
  BY DEF IInv, TxsOK, Books, BooksOK
<1>2. ASSUME NEW s \in Taken, ~(t.op = "claim" /\ subs[s].claim = c)
      PROVE  PaidFor(txns', subs[s])
  <2> DEFINE sub == subs[s]
  <2>1. Added("claim", sub.claim) = {}
    BY <1>2, CommitWrites
  <2>2. Written(txns', "claim", sub.claim) = Written(txns, "claim", sub.claim)
    BY <2>1, NothingAdded
  <2>3. \A e \in Written(txns, "claim", sub.claim) : AmountOf(txns', e) = AmountOf(txns, e)
    BY CommitWrites
  <2>4. PaidFor(txns, sub)
    BY <1>1
  <2> HIDE DEF sub
  <2>5. PaidFor(txns', sub)
    BY <2>2, <2>3, <2>4 DEF PaidFor
  <2> QED
    BY <2>5 DEF sub
<1>3. CASE t.op = "claim"
  <2>1. subs' = [subs EXCEPT ![t.arg.s] = t.arg.sub] /\ t.arg.s \in Names /\ t.arg.sub \in Sub
    BY <1>1, <1>3 DEF Commit, TxTyped
  <2>2. Written(txns, "claim", c) = {} /\ \A s \in Taken : subs[s].claim # c
    BY <1>1, <1>3 DEF NumbersOK
  <2>3. PaidFor(txns', t.arg.sub)
    <3> DEFINE sub == t.arg.sub
               W == Written(txns', "claim", sub.claim)
    <3>1. W = Added("claim", sub.claim)
      BY <2>2 DEF Added
    <3>2. /\ \A e, f \in W : e = f
          /\ \A e \in W : sub.cost # 0 /\ e[1] = sub.owner /\ AmountOf(txns', e) = -sub.cost
          /\ sub.cost # 0 => W # {}
      <4>1. \A e, f \in Added("claim", sub.claim) : e = f
        BY CommitWrites
      <4>2. \A e \in Added("claim", sub.claim) :
                sub.cost # 0 /\ e[1] = sub.owner /\ AmountOf(txns', e) = -sub.cost
        BY CommitWrites, Zenon
      <4>3. sub.cost # 0 => W # {}
        BY <1>3, CommitWrites
      <4> HIDE DEF sub, W
      <4> QED
        BY <3>1, <4>1, <4>2, <4>3
    <3> HIDE DEF sub, W
    <3>3. CASE sub.cost = 0
      <4>1. W = {}
        BY <3>2, <3>3
      <4> QED
        BY <3>3, <4>1 DEF PaidFor, W, sub
    <3>4. CASE sub.cost # 0
      <4>1. PICK e \in W : TRUE
        BY <3>2, <3>4
      <4>2. W = {e} /\ e[1] = sub.owner /\ AmountOf(txns', e) = -sub.cost
        BY <3>2, <4>1
      <4> QED
        BY <3>4, <4>1, <4>2 DEF PaidFor, W, sub
    <3> QED
      BY <3>3, <3>4
  <2>4. ASSUME NEW s \in Taken' PROVE PaidFor(txns', subs'[s])
    <3>1. CASE s = t.arg.s
      <4>1. subs'[s] = t.arg.sub
        BY <2>1, <3>1 DEF IInv, TablesTyped
      <4> QED
        BY <2>3, <4>1
    <3>2. CASE s # t.arg.s
      <4>1. s \in Taken /\ subs'[s] = subs[s]
        BY <2>1, <3>2 DEF IInv, TablesTyped, Taken
      <4>2. subs[s].claim # c
        BY <2>2, <4>1
      <4> QED
        BY <1>2, <4>1, <4>2
    <3> QED
      BY <3>1, <3>2
  <2> QED
    BY <2>4
<1>4. CASE t.op = "delete"
  <2>1. Taken' = {}
    BY <1>4 DEF Commit, Taken
  <2> QED
    BY <2>1
<1>5. CASE t.op \notin {"claim", "delete"}
  <2>1. subs' = subs /\ Taken' = Taken
    BY <1>5 DEF Commit, Taken
  <2> QED
    BY <1>2, <1>5, <2>1
<1> QED
  BY <1>3, <1>4, <1>5

LEMMA CommitRefunds ==
    ASSUME IInv, Books, NEW p \in Procs, Commit(p)
    PROVE  RefundsOK'
<1> DEFINE t == tx[p]
<1>1. /\ RefundsOK /\ mishaps \subseteq mishaps' /\ domain' = (domain /\ t.op # "delete")
      /\ t.op = "delete" /\ "twice" \notin mishaps' => domain
      /\ tx'[p] = NoTx /\ \A q \in Procs \ {p} : tx'[q] = tx[q]
  BY DEF Books, BooksOK, Commit, Note, IInv, TxsOK
<1>2. ASSUME NEW u, NEW amt, NEW ref, Backed(txns, u, amt, ref)
      PROVE  Backed(txns', u, amt, ref)
  <2>1. PICK f \in Written(txns, "claim", ref) : f[1] = u /\ amt = -AmountOf(txns, f)
    BY <1>2 DEF Backed
  <2>2. f \in Written(txns', "claim", ref) /\ AmountOf(txns', f) = AmountOf(txns, f)
    BY CommitWrites
  <2> QED
    BY <2>1, <2>2 DEF Backed
<1>3. \A L : (\A u \in Users : \A i \in DOMAIN L[u] : L[u][i].why # "refund")
             <=> \A ref : Written(L, "refund", ref) = {}
  <2> TAKE L
  <2>1. ASSUME \A u \in Users : \A i \in DOMAIN L[u] : L[u][i].why # "refund", NEW ref
        PROVE  Written(L, "refund", ref) = {}
    BY <2>1 DEF Written
  <2>2. ASSUME \A ref : Written(L, "refund", ref) = {}, NEW u \in Users, NEW i \in DOMAIN L[u]
        PROVE  L[u][i].why # "refund"
    <3> SUFFICES ASSUME L[u][i].why = "refund" PROVE FALSE
      OBVIOUS
    <3>1. <<u, i>> \in Written(L, "refund", L[u][i].ref)
      BY DEF Written
    <3> QED
      BY <2>2, <3>1
  <2> QED
    BY <2>1, <2>2
<1>4. ASSUME t.op # "delete", NEW ref
      PROVE  Written(txns', "refund", ref) = Written(txns, "refund", ref)
  <2>1. Added("refund", ref) = {}
    BY <1>4, CommitWrites
  <2> QED
    BY <2>1, NothingAdded
<1>5. "twice" \notin mishaps' /\ domain' => \A u \in Users : \A i \in DOMAIN txns'[u] : txns'[u][i].why # "refund"
  <2> SUFFICES ASSUME "twice" \notin mishaps', domain', NEW ref
               PROVE  Written(txns', "refund", ref) = {}
    BY <1>3
  <2>1. \A u \in Users : \A i \in DOMAIN txns[u] : txns[u][i].why # "refund"
    BY <1>1 DEF RefundsOK
  <2>2. Written(txns, "refund", ref) = {}
    BY <1>3, <2>1
  <2> QED
    BY <1>1, <1>4, <2>2
<1>6. ASSUME mishaps' \cap {"twice", "fallback"} = {}, NEW k \in 1..MaxClaims,
             NEW e \in Written(txns', "refund", k), NEW f \in Written(txns', "refund", k)
      PROVE  e = f /\ Backed(txns', e[1], AmountOf(txns', e), k)
  <2>1. "twice" \notin mishaps' /\ "fallback" \notin mishaps /\ mishaps \cap {"twice", "fallback"} = {}
    BY <1>1, <1>6
  <2>2. CASE t.op = "delete"
    <3>1. \A u \in Users : \A i \in DOMAIN txns[u] : txns[u][i].why # "refund"
      BY <1>1, <2>1, <2>2 DEF RefundsOK
    <3>2. Written(txns, "refund", k) = {}
      BY <1>3, <3>1
    <3>3. e \in Added("refund", k) /\ f \in Added("refund", k)
      BY <1>6, <3>2 DEF Added
    <3>4. e = f /\ Backed(txns, e[1], AmountOf(txns', e), k)
      BY <2>1, <3>3, CommitWrites
    <3> QED
      BY <1>2, <3>4
  <2>3. CASE t.op # "delete"
    <3>1. e \in Written(txns, "refund", k) /\ f \in Written(txns, "refund", k)
      BY <1>4, <1>6, <2>3
    <3>2. e = f /\ Backed(txns, e[1], AmountOf(txns, e), k)
      BY <1>1, <2>1, <3>1 DEF RefundsOK
    <3>3. AmountOf(txns', e) = AmountOf(txns, e)
      BY <3>1, CommitWrites
    <3> QED
      BY <1>2, <3>2, <3>3
  <2> QED
    BY <2>2, <2>3
<1>7. ASSUME "fallback" \notin mishaps', NEW q \in Procs
      PROVE  RefundsBacked(txns', tx'[q])
  <2>1. CASE q = p
    BY <1>1, <2>1, NoTxTidy
  <2>2. CASE q # p
    <3>1. tx'[q] = tx[q] /\ RefundsBacked(txns, tx[q])
      BY <1>1, <1>7, <2>2 DEF RefundsOK
    <3> QED
      BY <1>2, <3>1 DEF RefundsBacked
  <2> QED
    BY <2>1, <2>2
<1> QED
  BY <1>5, <1>6, <1>7 DEF RefundsOK

LEMMA CommitKeeps ==
    ASSUME IInv, Books, NEW p \in Procs, Commit(p)
    PROVE  Books'
<1>1. tx'[p] = NoTx /\ \A q \in Procs \ {p} : tx'[q] = tx[q]
  BY DEF Commit, IInv, TxsOK
<1>2. \A q \in Procs : Tidy(tx'[q])
  BY <1>1, NoTxTidy DEF Books
<1>3. KeysOK' /\ NumbersOK'
  BY CommitKeysNumbers
<1>4. CheckinsOK' /\ OrdersOK'
  BY CommitGrants
<1>5. RefundsOK' /\ \A s \in Taken' : PaidFor(txns', subs'[s])
  BY CommitClaims, CommitRefunds
<1> QED
  BY <1>2, <1>3, <1>4, <1>5 DEF Books, BooksOK

-----------------------------------------------------------------------------
\* The books are always kept.

LEMMA BooksInit == Init => Books
<1> SUFFICES ASSUME Init PROVE Books
  OBVIOUS
<1>1. /\ \A p \in Procs : tx[p] = NoTx
      /\ \A o \in Orders : orders[o].status = "none"
      /\ checkins = {} /\ claims = 0 /\ mishaps = {} /\ Taken = {}
  BY DEF Init, Taken
<1>2. \A u \in Users : \A i \in DOMAIN txns[u] : txns[u][i].why = "bonus"
  <2> SUFFICES ASSUME NEW u \in Users, NEW i \in DOMAIN txns[u] PROVE txns[u][i].why = "bonus"
    OBVIOUS
  <2>1. txns[u] = IF bal[u] = NoRow THEN <<>>
                  ELSE <<[amt |-> 1, after |-> 1, why |-> "bonus", ref |-> 0]>>
    BY DEF Init
  <2> QED
    BY <2>1
<1>3. \A why, ref : why # "bonus" => Written(txns, why, ref) = {}
  BY <1>2 DEF Written
<1>4. KeysOK
  BY <1>1, NoTxTidy DEF KeysOK
<1>5. NumbersOK
  BY <1>1, <1>2, NoTxTyped DEF NumbersOK
<1>6. CheckinsOK /\ OrdersOK
  BY <1>1, <1>3 DEF CheckinsOK, OrdersOK
<1>7. RefundsOK
  BY <1>1, <1>2, <1>3, NoTxTidy DEF RefundsOK
<1> QED
  BY <1>1, <1>4, <1>5, <1>6, <1>7, NoTxTidy DEF Books, BooksOK

LEMMA BooksStep == IInv /\ Books /\ [Next]_vars => Books'
<1> SUFFICES ASSUME IInv, Books, [Next]_vars PROVE Books'
  OBVIOUS
<1>1. ASSUME NEW p \in Procs, Statement(p) PROVE Books'
  <2>1. CASE DomainInUse(p)
    BY <2>1, AbortKeeps DEF DomainInUse
  <2> QED
    BY <1>1, <2>1, MoveKeeps, HoldKeeps, EraseKeeps, CommitKeeps DEF Statement
<1>2. ASSUME NEW p \in Procs, StatementFails(p) PROVE Books'
  BY <1>2, AbortKeeps DEF StatementFails
<1>3. CASE Crash
  <2>1. \A q \in Procs : tx'[q] \in {tx[q], NoTx}
    BY <1>3 DEF Crash
  <2> QED
    BY <1>3, <2>1, SomeEnd DEF Crash
<1>4. CASE UNCHANGED vars
  BY <1>4, NothingToBook DEF vars
<1> QED
  BY <1>1, <1>2, <1>3, <1>4, StartKeeps, InstantKeeps DEF Next

LEMMA BooksAlways == Spec => []Books
<1>1. Init => IInv /\ Books
  BY IInvInit, BooksInit
<1>2. (IInv /\ Books) /\ [Next]_vars => (IInv /\ Books)'
  BY IInvStep, BooksStep
<1>3. Spec => [](IInv /\ Books)
  BY <1>1, <1>2, PTL DEF Spec
<1> QED
  BY <1>3, PTL

-----------------------------------------------------------------------------
\* What the books say, in the words of the properties.

LEMMA OneElement ==
    ASSUME NEW S, \A e, f \in S : e = f
    PROVE  Cardinality(S) \in {0, 1} /\ (S # {} => Cardinality(S) = 1)
<1>1. CASE S = {}
  BY <1>1, FS_EmptySet
<1>2. CASE S # {}
  <2>1. PICK e \in S : TRUE
    BY <1>2
  <2>2. S = {e}
    BY <2>1
  <2> QED
    BY <1>2, <2>2, FS_Singleton
<1> QED
  BY <1>1, <1>2

LEMMA BooksGrant == Books => GrantedOnce
<1> SUFFICES ASSUME Books PROVE GrantedOnce
  OBVIOUS
<1>1. ASSUME NEW u \in Users, NEW d \in 1..Days
      PROVE  Cardinality({e \in EntriesFor("checkin", d) : e[1] = u}) <= 1
  <2> DEFINE S == {e \in EntriesFor("checkin", d) : e[1] = u}
  <2>1. \A e, f \in S : e = f
    BY EntriesAre DEF Books, BooksOK, CheckinsOK
  <2> HIDE DEF S
  <2>2. Cardinality(S) \in {0, 1}
    BY <2>1, OneElement
  <2>3. Cardinality(S) <= 1
    BY <2>2
  <2> QED
    BY <2>3 DEF S
<1>2. ASSUME NEW o \in Orders
      PROVE  /\ (orders[o].status = "paid") = (EntriesFor("order", o) # {})
             /\ "duplicate" \notin mishaps => Cardinality(EntriesFor("order", o)) <= 1
  <2> DEFINE S == EntriesFor("order", o)
  <2>1. /\ (orders[o].status = "paid") = (S # {})
        /\ "duplicate" \notin mishaps => \A e, f \in S : e = f
    BY EntriesAre DEF Books, BooksOK, OrdersOK
  <2> HIDE DEF S
  <2>2. "duplicate" \notin mishaps => Cardinality(S) \in {0, 1}
    BY <2>1, OneElement
  <2>3. "duplicate" \notin mishaps => Cardinality(S) <= 1
    BY <2>2
  <2> QED
    BY <2>1, <2>3 DEF S
<1> QED
  BY <1>1, <1>2 DEF GrantedOnce

\* Who has a charge has been given the subdomain it is for.
Charged == \A c : Written(txns, "claim", c) # {} => c \in given

\* The ledgers are written by commits.
LEMMA WrittenAtCommit == [Next]_vars => UNCHANGED <<txns, given>> \/ \E p \in Procs : Commit(p)
<1> SUFFICES ASSUME [Next]_vars PROVE UNCHANGED <<txns, given>> \/ \E p \in Procs : Commit(p)
  OBVIOUS
<1>1. ASSUME NEW p \in Procs, Start(p) PROVE UNCHANGED tables
  BY <1>1 DEF Start, Claim, DailyCheckin, AdminGrant, Register, Callback, AdminDelete
<1>2. ASSUME NEW p \in Procs, Statement(p), ~Commit(p) PROVE UNCHANGED tables
  BY <1>2 DEF Statement, MoveCredits, HoldKey, EraseSubdomains, DomainInUse, Abort
<1>3. ASSUME NEW p \in Procs, StatementFails(p) PROVE UNCHANGED tables
  BY <1>3 DEF StatementFails, Abort
<1>4. CASE Instant
  BY <1>4 DEF Instant, CreateOrder, CallbackIgnored, Release, SetPrice, NextDay, tables
<1>5. CASE Crash
  BY <1>5 DEF Crash, tables
<1>6. CASE UNCHANGED vars
  BY <1>6 DEF vars, tables
<1> QED
  BY <1>1, <1>2, <1>3, <1>4, <1>5, <1>6 DEF Next, tables

LEMMA ChargedStep == IInv /\ Books /\ Charged /\ [Next]_vars => Charged'
<1> SUFFICES ASSUME IInv, Books, Charged, [Next]_vars PROVE Charged'
  OBVIOUS
<1>1. CASE UNCHANGED <<txns, given>>
  BY <1>1 DEF Charged, Written
<1>2. ASSUME NEW p \in Procs, Commit(p), NEW c, Written(txns', "claim", c) # {}
      PROVE  c \in given'
  <2>1. CASE Written(txns, "claim", c) # {}
    <3>1. c \in given
      BY <2>1 DEF Charged
    <3> QED
      BY <1>2, <3>1 DEF Commit
  <2>2. CASE Written(txns, "claim", c) = {}
    <3>1. PICK e : e \in Added("claim", c)
      BY <1>2, <2>2 DEF Added
    <3>2. tx[p].op = "claim" /\ c = tx[p].arg.sub.claim
      BY <1>2, <3>1, CommitWrites
    <3> QED
      BY <1>2, <3>2 DEF Commit
  <2> QED
    BY <2>1, <2>2
<1> QED
  BY <1>1, <1>2, WrittenAtCommit DEF Charged

LEMMA ChargedInit == Init => Charged
<1> SUFFICES ASSUME Init, NEW u \in Users, NEW i \in DOMAIN txns[u] PROVE txns[u][i].why # "claim"
  BY DEF Charged, Written
<1>1. txns[u] = IF bal[u] = NoRow THEN <<>>
                ELSE <<[amt |-> 1, after |-> 1, why |-> "bonus", ref |-> 0]>>
  BY DEF Init
<1> QED
  BY <1>1

LEMMA ChargedAlways == Spec => [](Books /\ Charged)
<1>1. Init => IInv /\ Books /\ Charged
  BY IInvInit, BooksInit, ChargedInit
<1>2. (IInv /\ Books /\ Charged) /\ [Next]_vars => (IInv /\ Books /\ Charged)'
  BY IInvStep, BooksStep, ChargedStep
<1>3. Spec => [](IInv /\ Books /\ Charged)
  BY <1>1, <1>2, PTL DEF Spec
<1> QED
  BY <1>3, PTL

LEMMA BooksClaims == Books /\ Charged => ClaimsPaid
<1> SUFFICES ASSUME Books, Charged PROVE ClaimsPaid
  OBVIOUS
<1>0. ASSUME NEW e \in AllEntries, txns[e[1]][e[2]].why = "claim"
      PROVE  txns[e[1]][e[2]].ref \in given
  <2>1. e \in Written(txns, "claim", txns[e[1]][e[2]].ref)
    BY <1>0 DEF AllEntries, Written
  <2> QED
    BY <2>1 DEF Charged
<1> SUFFICES ASSUME NEW s \in Taken
             PROVE  LET paid == EntriesFor("claim", subs[s].claim)
                    IN IF subs[s].cost = 0 THEN paid = {}
                       ELSE /\ Cardinality(paid) = 1
                            /\ \A e \in paid : e[1] = subs[s].owner /\ txns[e[1]][e[2]].amt = -subs[s].cost
  BY <1>0 DEF ClaimsPaid
<1> DEFINE sub == subs[s]
           paid == EntriesFor("claim", sub.claim)
<1>1. PaidFor(txns, sub) /\ paid = Written(txns, "claim", sub.claim)
  BY EntriesAre DEF Books, BooksOK
<1> HIDE DEF sub, paid
<1>2. CASE sub.cost = 0
  <2>1. paid = {}
    BY <1>1, <1>2 DEF PaidFor
  <2> QED
    BY <1>2, <2>1 DEF sub, paid
<1>3. CASE sub.cost # 0
  <2>1. PICK e : paid = {e} /\ e[1] = sub.owner /\ AmountOf(txns, e) = -sub.cost
    BY <1>1, <1>3 DEF PaidFor
  <2>2. Cardinality(paid) = 1
    BY <2>1, FS_Singleton
  <2>3. \A f \in paid : f[1] = sub.owner /\ txns[f[1]][f[2]].amt = -sub.cost
    BY <2>1 DEF AmountOf
  <2> QED
    BY <1>3, <2>2, <2>3 DEF sub, paid
<1> QED
  BY <1>2, <1>3

LEMMA BooksRefund == Books => RefundsWhatWasPaid
<1> SUFFICES ASSUME Books, mishaps \cap {"fallback", "twice"} = {}, NEW c \in 1..MaxClaims
             PROVE  LET refunds == EntriesFor("refund", c)
                    IN /\ Cardinality(refunds) <= 1
                       /\ \A e \in refunds : \E f \in EntriesFor("claim", c) :
                             /\ f[1] = e[1]
                             /\ txns[e[1]][e[2]].amt = -txns[f[1]][f[2]].amt
  BY DEF RefundsWhatWasPaid
<1> DEFINE refunds == EntriesFor("refund", c)
<1>0. mishaps \cap {"twice", "fallback"} = {}
  OBVIOUS
<1>1. /\ \A e, f \in refunds : e = f
      /\ \A e \in refunds : Backed(txns, e[1], AmountOf(txns, e), c)
  BY <1>0, EntriesAre DEF Books, BooksOK, RefundsOK
<1>2. \A e \in refunds : \E f \in EntriesFor("claim", c) :
          f[1] = e[1] /\ txns[e[1]][e[2]].amt = -txns[f[1]][f[2]].amt
  BY <1>1, EntriesAre DEF Backed, AmountOf
<1> HIDE DEF refunds
<1>3. Cardinality(refunds) \in {0, 1}
  BY <1>1, OneElement
<1>4. Cardinality(refunds) <= 1
  BY <1>3
<1> QED
  BY <1>2, <1>4 DEF refunds

-----------------------------------------------------------------------------
(* The theorems *)

\* The ledger of every user explains his balance, whatever claims, check-ins,
\* grants, registrations, payments and deletions run at once, fail or are cut
\* off: DeductCredits, GrantCredits and RefundCredits read the balance they
\* write under its row lock, which they keep until the commit.
THEOREM LedgerExplains == Spec => []LedgerExplainsBalance
<1> QED
  BY IInvAlways, IInvExplains, PTL

\* However many requests run, fail or are cut off at once: a user is granted
\* one check-in a day, by the unique index behind DailyCheckin; an order is
\* credited when it is paid and never else, and once, unless two callbacks had
\* both read it as pending before either locked its row (processPayment).
THEOREM GrantsOnce == Spec => []GrantedOnce
<1> QED
  BY BooksAlways, BooksGrant, PTL

\* Whoever holds a subdomain paid for it, once and what its row says, and whoever
\* was charged was given one, though prices change, claims race for the name and
\* are cut off: the charge and the row are of one transaction (Claim).
THEOREM ClaimsArePaid == Spec => []ClaimsPaid
<1> QED
  BY ChargedAlways, BooksClaims, PTL

\* What a domain's deletion refunds is what the claim cost, to who paid it and
\* at most once, as long as no free claim is refunded at the day's price and no
\* two deletions of the domain run at once (AdminDelete).
THEOREM RefundsMatch == Spec => []RefundsWhatWasPaid
<1> QED
  BY BooksAlways, BooksRefund, PTL
=============================================================================
