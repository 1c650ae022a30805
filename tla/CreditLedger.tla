---------------------------- MODULE CreditLedger ----------------------------
(***************************************************************************)
(* Credits: balances and their ledger, and the requests that move them -   *)
(* claiming a subdomain, the daily check-in, an administrator's grant,     *)
(* registration with its referral, a paid order's callback, and the        *)
(* deletion of a domain with refunds.                                      *)
(*                                                                         *)
(* Each request reads what it needs, then runs one database transaction:   *)
(* tx[p].steps are the statements it has still to send.  A statement that  *)
(* takes a row lock or adds a key of a unique index waits for the          *)
(* transactions that hold it; writes are seen by others at the commit.     *)
(***************************************************************************)
EXTENDS Integers, Sequences, FiniteSets, SequencesExt

CONSTANTS
    Users, Names, Orders,
    Procs,         \* requests being handled
    Prices,        \* what a group may be asked for a subdomain; negative: a reward
    Amounts,       \* what an administrator may grant or deduct
    Reward,        \* of a check-in, of a registration, of an inviter
    Days,          \* bound: days
    MaxBalance,    \* stands for the largest int64
    MaxClaims,     \* bound: claims
    MaxRequests,   \* bound: requests
    MaxFaults,     \* bound: failed statements and restarts
    NoUser

ASSUME ConstantsAssumption ==
    /\ NoUser \notin Users /\ IsFiniteSet(Names)
    /\ Prices \subseteq Int
    /\ Amounts \subseteq Int \ {0}
    /\ {Reward, Days, MaxBalance} \subseteq Nat \ {0}
    /\ {MaxClaims, MaxRequests, MaxFaults} \subseteq Nat

VARIABLES
    bal,       \* credit_balances: user -> balance, or NoRow
    txns,      \* credit_transactions of each user, in the order of their ids
    orders,    \* payment_orders: status and user
    subs,      \* subdomains of the domain: name -> owner, claim_cost, claim
    checkins,  \* daily_checkin_claims: pairs of user and day
    domain,    \* is the domain there?
    given,     \* ghost: claims whose subdomain was inserted
    price,     \* domain_group_access.credit_cost
    day,
    told,      \* orders whose callback was answered "success"
    tx,        \* the transaction of each request being handled
    claims,    \* number of claims begun
    mishaps,   \* ghost: races that happened
    requests, faults

tables == <<bal, txns, orders, subs, checkins, domain, given>>
vars == <<tables, price, day, told, tx, claims, mishaps, requests, faults>>

NoRow == -1
Free == [owner |-> NoUser, cost |-> 0, claim |-> 0]
NoEntries == [u \in Users |-> <<>>]
NoTx == [op |-> "none", arg |-> [u |-> NoUser], steps |-> <<>>, holds |-> {}, log |-> NoEntries]

Members == {u \in Users : bal[u] # NoRow}
Taken == {s \in Names : subs[s] # Free}

Request == requests < MaxRequests /\ requests' = requests + 1
Note(m) == mishaps' = mishaps \cup m

\* A statement that moves credits, with the key its ledger entry names.
Move(u, amt, why, ref) == [kind |-> "move", u |-> u, amt |-> amt, why |-> why, ref |-> ref]
Hold(r) == [kind |-> "hold", res |-> r]
Erase == [kind |-> "erase"]

Begin(p, op, arg, steps) ==
    /\ tx[p].op = "none"
    /\ tx' = [tx EXCEPT ![p] = [op |-> op, arg |-> arg, steps |-> steps, holds |-> {}, log |-> NoEntries]]

-----------------------------------------------------------------------------
(* The requests, up to their transaction *)

\* Mutant: a negative price is no reward.
ChargeOnly(u, cost, n) == IF cost > 0 THEN <<Move(u, -cost, "claim", n)>> ELSE <<>>

Charge(u, cost, n) == IF cost # 0 THEN <<Move(u, -cost, "claim", n)>> ELSE <<>>

Claim(p, u, s) ==
    /\ Request
    /\ domain
    /\ subs[s] = Free
    /\ claims < MaxClaims
    /\ claims' = claims + 1
    /\ Begin(p, "claim", [s |-> s, sub |-> [owner |-> u, cost |-> price, claim |-> claims']],
             Charge(u, price, claims') \o <<Hold(<<"name", s>>)>>)
    /\ UNCHANGED <<tables, price, day, told, mishaps, faults>>

DailyCheckin(p, u) ==
    /\ Request
    /\ Begin(p, "checkin", [u |-> u, d |-> day],
             <<Hold(<<"day", u, day>>), Move(u, Reward, "checkin", day)>>)
    /\ UNCHANGED <<tables, price, day, told, claims, mishaps, faults>>

AdminGrant(p, u, amt) ==
    /\ Request
    /\ Begin(p, "grant", [u |-> u], <<Move(u, amt, "grant", 0)>>)
    /\ UNCHANGED <<tables, price, day, told, claims, mishaps, faults>>

\* The new user's balance row is this transaction's first insert.
Register(p, u, inviter) ==
    /\ Request
    /\ u \notin Members
    /\ inviter \in Members \cup {NoUser}
    /\ Begin(p, "register", [u |-> u],
             <<Hold(<<"user", u>>), Move(u, Reward, "bonus", 0)>>
             \o IF inviter = NoUser THEN <<>>
                ELSE <<Move(inviter, Reward, "inviter", u), Move(u, Reward, "invitee", inviter)>>)
    /\ UNCHANGED <<tables, price, day, told, claims, mishaps, faults>>

CreateOrder(o, u) ==
    /\ Request
    /\ orders[o].status = "none"
    /\ orders' = [orders EXCEPT ![o] = [status |-> "pending", user |-> u]]
    /\ UNCHANGED <<bal, txns, subs, checkins, domain, given, price, day, told, tx, claims, mishaps, faults>>

Payable(o) == orders[o].status = "pending"

\* processPayment reads the order outside its transaction; the gateway
\* notifies as often as it likes.
Callback(p, o) ==
    /\ Request
    /\ Payable(o)
    /\ Begin(p, "pay", [o |-> o, read |-> orders[o].status],
             <<Hold(<<"order", o>>), Move(orders[o].user, Reward, "order", o)>>)
    /\ UNCHANGED <<tables, price, day, told, claims, mishaps, faults>>

CallbackIgnored(o) ==
    /\ Request
    /\ orders[o].status = "paid"
    /\ told' = told \cup {o}
    /\ UNCHANGED <<tables, price, day, tx, claims, mishaps, faults>>

\* Mutant: today's price is refunded.
PriceNow(sub) == price

\* What the claim cost; a claim that was free counts as one from before
\* claim_cost was recorded.
RefundOf(sub) == IF sub.cost # 0 THEN sub.cost ELSE price

\* The subdomains are listed in no particular order, and refunded if asked to.
AdminDelete(p, refund) ==
    /\ Request
    /\ domain
    /\ \E owed \in SetToSeqs(IF refund THEN {s \in Taken : RefundOf(subs[s]) # 0} ELSE {}) :
          Begin(p, "delete", [erased |-> {}],
                [i \in DOMAIN owed |->
                    LET sub == subs[owed[i]]
                    IN Move(sub.owner, RefundOf(sub), "refund", sub.claim)]
                \o IF Taken = {} THEN <<>> ELSE <<Erase>>)
    /\ Note(IF refund /\ \E s \in Taken : subs[s].cost = 0 /\ price # 0 THEN {"fallback"} ELSE {})
    /\ UNCHANGED <<tables, price, day, told, claims, faults>>

Release(s) ==
    /\ Request
    /\ subs[s] # Free
    /\ subs' = [subs EXCEPT ![s] = Free]
    /\ UNCHANGED <<bal, txns, orders, checkins, domain, given, price, day, told, tx, claims, mishaps, faults>>

SetPrice(c) ==
    /\ Request
    /\ domain /\ c # price
    /\ price' = c
    /\ UNCHANGED <<tables, day, told, tx, claims, mishaps, faults>>

NextDay ==
    /\ day < Days
    /\ day' = day + 1
    /\ UNCHANGED <<tables, price, told, tx, claims, mishaps, requests, faults>>

-----------------------------------------------------------------------------
(* The statements of a transaction *)

\* The callbacks answer "success" whatever became of the transaction.
Answer(p) == told' = IF tx[p].op = "pay" THEN told \cup {tx[p].arg.o} ELSE told

Abort(p) ==
    /\ tx' = [tx EXCEPT ![p] = NoTx]
    /\ Answer(p)
    /\ UNCHANGED tables

\* Registrations wait for each other on one advisory lock.
Available(p, r) ==
    \A q \in Procs \ {p} : \A h \in tx[q].holds : h # r /\ ~(h[1] = "user" /\ r[1] = "user")

\* Mutant: the balance is read without FOR UPDATE.
ReadUnlocked(p, u) == TRUE

MayRead(p, u) == Available(p, <<"bal", u>>)

\* The balance the transaction sees.
Entries(p, u) == tx[p].log[u]
Seen(p, u) == IF Entries(p, u) # <<>> THEN Last(Entries(p, u)).after ELSE bal[u]

\* GrantCredits starts a missing balance at 0.
From(seen) == IF seen = NoRow THEN 0 ELSE seen

\* DeductCredits wants a row that covers the amount; GrantCredits and
\* RefundCredits refuse to overflow.
Admissible(seen, amt) ==
    IF amt < 0 THEN seen # NoRow /\ seen >= -amt ELSE From(seen) <= MaxBalance - amt

\* RefundCredits needs the row.
MoveCredits(p) ==
    LET m == Head(tx[p].steps)
        seen == Seen(p, m.u)
    IN /\ tx[p].steps # <<>> /\ m.kind = "move"
       /\ MayRead(p, m.u)
       /\ \/ /\ Admissible(seen, m.amt)
             /\ m.why = "refund" => seen # NoRow
             /\ tx' = [tx EXCEPT ![p].steps = Tail(@),
                                 ![p].holds = @ \cup {<<"bal", m.u>>},
                                 ![p].log[m.u] = Append(@, [amt |-> m.amt, after |-> From(seen) + m.amt,
                                                            why |-> m.why, ref |-> m.ref])]
             /\ UNCHANGED <<tables, told>>
          \/ /\ ~Admissible(seen, m.amt) \/ (m.why = "refund" /\ seen = NoRow)
             /\ Abort(p)
       /\ UNCHANGED <<price, day, claims, mishaps, requests, faults>>

\* Mutant: daily_checkin_claims has no unique index.
KeyTakenButDay(r) == r[1] = "name" /\ subs[r[2]] # Free

\* The unique indexes.  The order's row is updated by its id alone.
KeyTaken(r) ==
    \/ r[1] = "name" /\ subs[r[2]] # Free
    \/ r[1] = "day" /\ <<r[2], r[3]>> \in checkins
    \/ r[1] = "user" /\ r[2] \in Members

\* A subdomain's foreign key asks for the domain.
HoldKey(p) ==
    LET r == Head(tx[p].steps).res
    IN /\ tx[p].steps # <<>> /\ Head(tx[p].steps).kind = "hold"
       /\ Available(p, r)
       /\ \/ /\ ~KeyTaken(r)
             /\ r[1] = "name" => domain
             /\ tx' = [tx EXCEPT ![p].steps = Tail(@), ![p].holds = @ \cup {r}]
             /\ Note(IF r[1] = "order" /\ orders[r[2]].status # tx[p].arg.read THEN {"duplicate"} ELSE {})
             /\ UNCHANGED <<tables, told>>
          \/ /\ KeyTaken(r) \/ (r[1] = "name" /\ ~domain)
             /\ Abort(p)
             /\ UNCHANGED mishaps
       /\ UNCHANGED <<price, day, claims, requests, faults>>

\* The subdomains there are when the deletion's statement runs.
EraseSubdomains(p) ==
    /\ tx[p].steps # <<>> /\ Head(tx[p].steps).kind = "erase"
    /\ tx' = [tx EXCEPT ![p].steps = Tail(@), ![p].arg.erased = Taken]
    /\ UNCHANGED <<tables, price, day, told, claims, mishaps, requests, faults>>

\* A claim in progress has the domain's row share-locked by its foreign key;
\* one that committed in the meantime keeps the domain from being deleted.
NoClaimHeld == \A q \in Procs, s \in Names : <<"name", s>> \notin tx[q].holds
Orphans(t) == t.op = "delete" /\ ~(Taken \subseteq t.arg.erased)

DomainInUse(p) ==
    /\ tx[p].op = "delete" /\ tx[p].steps = <<>>
    /\ NoClaimHeld
    /\ Orphans(tx[p])
    /\ Abort(p)
    /\ UNCHANGED <<price, day, claims, mishaps, requests, faults>>

Commit(p) ==
    LET t == tx[p]
    IN /\ t.op # "none" /\ t.steps = <<>>
       /\ t.op = "delete" => NoClaimHeld
       /\ ~Orphans(t)
       /\ bal' = [u \in Users |-> IF Entries(p, u) # <<>> THEN Last(Entries(p, u)).after ELSE bal[u]]
       /\ txns' = [u \in Users |-> txns[u] \o Entries(p, u)]
       /\ orders' = IF t.op = "pay" THEN [orders EXCEPT ![t.arg.o].status = "paid"] ELSE orders
       /\ subs' = CASE t.op = "claim" -> [subs EXCEPT ![t.arg.s] = t.arg.sub]
                    [] t.op = "delete" -> [s \in Names |-> Free]
                    [] OTHER -> subs
       /\ checkins' = IF t.op = "checkin" THEN checkins \cup {<<t.arg.u, t.arg.d>>} ELSE checkins
       /\ domain' = (domain /\ t.op # "delete")
       /\ given' = IF t.op = "claim" THEN given \cup {t.arg.sub.claim} ELSE given
       /\ Note(IF t.op = "delete" /\ ~domain THEN {"twice"} ELSE {})
       /\ tx' = [tx EXCEPT ![p] = NoTx]
       /\ Answer(p)
       /\ UNCHANGED <<price, day, claims, requests, faults>>

StatementFails(p) ==
    /\ faults < MaxFaults
    /\ faults' = faults + 1
    /\ tx[p].op # "none"
    /\ Abort(p)
    /\ UNCHANGED <<price, day, claims, mishaps, requests>>

\* The server stops: every transaction is rolled back, nobody is answered.
Crash ==
    /\ faults < MaxFaults
    /\ faults' = faults + 1
    /\ tx' = [p \in Procs |-> NoTx]
    /\ UNCHANGED <<tables, price, day, told, claims, mishaps, requests>>

-----------------------------------------------------------------------------
(* Specification *)

Init ==
    /\ bal \in [Users -> {NoRow, 1}]
    /\ txns = [u \in Users |->
                 IF bal[u] = NoRow THEN <<>>
                 ELSE <<[amt |-> 1, after |-> 1, why |-> "bonus", ref |-> 0]>>]
    /\ orders = [o \in Orders |-> [status |-> "none", user |-> NoUser]]
    /\ subs = [s \in Names |-> Free]
    /\ checkins = {}
    /\ domain = TRUE
    /\ given = {}
    /\ price \in Prices
    /\ day = 1
    /\ told = {}
    /\ tx = [p \in Procs |-> NoTx]
    /\ claims = 0
    /\ mishaps = {}
    /\ requests = 0
    /\ faults = 0

Start(p) ==
    \/ \E u \in Members :
          \/ \E s \in Names : Claim(p, u, s)
          \/ DailyCheckin(p, u)
          \/ \E amt \in Amounts : AdminGrant(p, u, amt)
    \/ \E u \in Users, inviter \in Users \cup {NoUser} : Register(p, u, inviter)
    \/ \E o \in Orders : Callback(p, o)
    \/ \E refund \in BOOLEAN : AdminDelete(p, refund)

Instant ==
    \/ \E o \in Orders, u \in Members : CreateOrder(o, u)
    \/ \E o \in Orders : CallbackIgnored(o)
    \/ \E s \in Names : Release(s)
    \/ \E c \in Prices : SetPrice(c)
    \/ NextDay

Statement(p) == MoveCredits(p) \/ HoldKey(p) \/ EraseSubdomains(p) \/ DomainInUse(p) \/ Commit(p)

Next ==
    \/ \E p \in Procs : Start(p) \/ Statement(p) \/ StatementFails(p)
    \/ Instant
    \/ Crash

Spec == Init /\ [][Next]_vars

-----------------------------------------------------------------------------
(* Properties *)

TypeOK ==
    /\ bal \in [Users -> NoRow..MaxBalance]
    /\ \A u \in Users : \A i \in DOMAIN txns[u] : txns[u][i].amt \in Int \ {0}
    /\ orders \in [Orders -> [status : {"none", "pending", "paid"}, user : Users \cup {NoUser}]]
    /\ \A s \in Names : subs[s] \in [owner : Users \cup {NoUser}, cost : Prices \cup {0}, claim : 0..MaxClaims]
    /\ checkins \subseteq Users \X (1..Days)
    /\ domain \in BOOLEAN /\ price \in Prices /\ day \in 1..Days /\ told \subseteq Orders
    /\ \A p \in Procs : tx[p].op \in {"none", "claim", "checkin", "grant", "register", "pay", "delete"}

\* The ledger explains the balance: each entry's balance_after is the one
\* before plus its amount, and the last is the balance (DeductCredits,
\* GrantCredits, RefundCredits under FOR UPDATE, whatever runs at once), and
\* nobody spends what he has not.
LedgerExplainsBalance ==
    /\ TypeOK
    /\ \A u \in Members :
          /\ txns[u] # <<>>
          /\ Last(txns[u]).after = bal[u] /\ bal[u] \in 0..MaxBalance
          /\ \A i \in DOMAIN txns[u] :
                txns[u][i].after = txns[u][i].amt + (IF i = 1 THEN 0 ELSE txns[u][i - 1].after)

AllEntries == UNION {{<<u, i>> : i \in DOMAIN txns[u]} : u \in Users}
EntriesFor(why, ref) == {e \in AllEntries : txns[e[1]][e[2]].why = why /\ txns[e[1]][e[2]].ref = ref}

\* A subdomain in someone's hands was paid for, once and by its owner, at the
\* price its row records; and who lost the race for a name, or whose insert the
\* foreign key refused, has no charge left (Claim's transaction).
ClaimsPaid ==
    /\ \A s \in Taken :
          LET paid == EntriesFor("claim", subs[s].claim)
          IN IF subs[s].cost = 0 THEN paid = {}
             ELSE /\ Cardinality(paid) = 1
                  /\ \A e \in paid : e[1] = subs[s].owner /\ txns[e[1]][e[2]].amt = -subs[s].cost
    /\ \A e \in AllEntries :
          LET entry == txns[e[1]][e[2]] IN entry.why = "claim" => entry.ref \in given

\* What is granted is granted once: one check-in a day, however often a user
\* asks at the same time (the unique index behind DailyCheckin); an order when it
\* is paid and only once, unless two callbacks had both read it as pending.
GrantedOnce ==
    /\ \A u \in Users, d \in 1..Days :
          Cardinality({e \in EntriesFor("checkin", d) : e[1] = u}) <= 1
    /\ \A o \in Orders :
          LET credited == EntriesFor("order", o)
          IN /\ (orders[o].status = "paid") = (credited # {})
             /\ "duplicate" \notin mishaps => Cardinality(credited) <= 1

\* Deleting a domain gives back to the claimant what the claim cost, at most
\* once; not so where the price of the day stands in for a claim that was
\* free, or where two deletions of the domain run at once.
RefundsWhatWasPaid ==
    mishaps \cap {"fallback", "twice"} = {} =>
        \A c \in 1..MaxClaims :
            LET refunds == EntriesFor("refund", c)
            IN /\ Cardinality(refunds) <= 1
               /\ \A e \in refunds : \E f \in EntriesFor("claim", c) :
                     /\ f[1] = e[1]
                     /\ txns[e[1]][e[2]].amt = -txns[f[1]][f[2]].amt
=============================================================================
