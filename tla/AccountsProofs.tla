------------------------- MODULE AccountsProofs -------------------------
(***************************************************************************)
(* Machine-checked proofs about Accounts, for every set of addresses,      *)
(* passwords and workers, every rate limit and every bound.                *)
(***************************************************************************)
EXTENDS Accounts, FiniteSetTheorems, WellFoundedInduction, TLAPS

Steps == {"idle", "mint", "mail", "enlist", "create", "hash", "store", "session", "raise"}
CredRow == [email : Addresses \cup {NoOne}, password : Passwords \cup {NoOne}, weak : BOOLEAN,
            setAt : Nat, version : Nat, activate : BOOLEAN, link : Nat]
TokenRow == [purpose : Purposes \cup {"none", "gone"}, user : Uids \cup {0},
             email : Addresses \cup {NoOne}, born : Nat, state : {"minted", "mailed", "over"}]
SessionRow == [user : Uids \cup {0}, version : Nat, password : Passwords \cup {NoOne},
               listed : BOOLEAN, over : BOOLEAN]
JobType == [email : Addresses \cup {NoOne}, password : Passwords \cup {NoOne},
            purpose : Purposes \cup {"none", "gone", "login", "logout"}, user : Uids \cup {0},
            token : Tids \cup {0}, version : Nat, first : BOOLEAN, now : Nat]
Counts == [Actions \X Addresses -> Nat]

RowsTyped ==
    /\ clock \in Nat
    /\ role \in [Uids -> {"none", "user", "admin", "gone"}]
    /\ cred \in [Uids -> CredRow]
    /\ tokens \in [Tids -> TokenRow]
    /\ sessions \in [Sids -> SessionRow]

CountsTyped ==
    /\ events \in Counts
    /\ sent \in Counts
    /\ faults \in 0..MaxFaults
    /\ requests \in 0..MaxRequests
    /\ overwritten \subseteq {"password", "time"}

WorkTyped ==
    /\ adminLock \in Workers \cup {NoOne}
    /\ pc \in [Workers -> Steps]
    /\ job \in [Workers -> JobType]

Typed == RowsTyped /\ CountsTyped /\ WorkTyped

\* No timestamp lies ahead of the clock.
Past ==
    /\ \A u \in Uids : cred[u].setAt <= clock /\ cred[u].link <= clock
    /\ \A t \in Tids : tokens[t].born <= clock
    /\ \A w \in Workers : job[w].now <= clock

\* What a request's next step takes from the steps before it.
JobOK(w) ==
    /\ pc[w] \in {"mint", "mail"} => job[w].purpose \in Purposes
    /\ pc[w] \in {"mint", "mail"} \/ job[w].purpose = "login" => job[w].email \in Addresses
    /\ pc[w] \in {"mail", "enlist", "create"} => job[w].token \in Tids
    /\ pc[w] \in {"enlist", "create", "hash", "store"} /\ job[w].token # 0 =>
          tokens[job[w].token].state = "over"
    /\ pc[w] = "store" /\ job[w].token # 0 => tokens[job[w].token].born <= job[w].now

JobsOK == \A w \in Workers : JobOK(w)

\* The advisory lock is held from the count of the users to the commit, so what
\* was counted is still true; nobody else becomes an administrator.
LockOK ==
    /\ \A w \in Workers : (pc[w] = "create") <=> (adminLock = w)
    /\ \A w \in Workers : pc[w] = "create" /\ job[w].first => Registered = {}
    /\ \A u, v \in Uids : role[u] = "admin" /\ role[v] = "admin" => u = v

\* Requests that the limit let in, each of which will count once.
UnderWay(a, e) ==
    {w \in Workers : pc[w] \in {"mint", "mail"} /\ job[w].purpose = a /\ job[w].email = e}

MailsOK ==
    \A e \in Addresses :
        /\ sent[<<"login", e>>] = 0
        /\ \A a \in Purposes :
              /\ events[<<a, e>>] + Cardinality(UnderWay(a, e)) <= RateLimit + Cardinality(Workers) - 1
              /\ sent[<<a, e>>] <= events[<<a, e>>] + faults

\* Whom a row or a request names has, or had, an account.
Named(u) == u \in Uids => role[u] # "none"
KnownOK ==
    /\ \A t \in Tids : Named(tokens[t].user)
    /\ \A s \in Sids : Named(sessions[s].user)
    /\ \A w \in Workers : Named(job[w].user)

\* A password was set after the link that set it was minted.
LinksOK == "time" \notin overwritten => \A u \in Registered : cred[u].link <= cred[u].setAt

\* A version stands for one password, and for one logout of all devices.
Stands(u, version, password) ==
    u \in Registered =>
        /\ version <= cred[u].version
        /\ version = cred[u].version /\ "password" \notin overwritten => password = cred[u].password

SessionOK(s) ==
    /\ Stands(sessions[s].user, sessions[s].version, sessions[s].password)
    /\ sessions[s].over /\ sessions[s].user \in Registered =>
          sessions[s].version < cred[sessions[s].user].version

SessionsOK ==
    /\ \A s \in Sids : SessionOK(s)
    /\ \A w \in Workers : pc[w] = "session" => Stands(job[w].user, job[w].version, job[w].password)

IInv == Typed /\ Past /\ JobsOK /\ LockOK /\ MailsOK /\ KnownOK /\ LinksOK /\ SessionsOK

-----------------------------------------------------------------------------
\* Lemmas about the operators of the model.

LEMMA MinIn ==
    ASSUME NEW S \in SUBSET Nat, S # {}
    PROVE  Min(S) \in S
<1> DEFINE R == OpToRel(<, Nat)
<1>1. \A x, y \in Nat : y < x => <<y, x>> \in R
  BY Zenon DEF OpToRel
<1>2. IsWellFoundedOn(R, Nat)
  BY NatLessThanWellFounded
<1> HIDE DEF R
<1>3. \E x \in S : \A y \in S : ~ (<<y, x>> \in R)
  BY <1>2, WFMin
<1>4. \E x \in S : \A y \in S : x =< y
  <2>1. PICK x \in S : \A y \in S : ~ (<<y, x>> \in R)
    BY <1>3
  <2>2. \A y \in S : ~ (y < x)
    BY <1>1, <2>1
  <2> QED
    BY <2>2
<1> QED
  BY <1>4 DEF Min

LEMMA IdsAreNumbers == Uids \subseteq Nat /\ Tids \subseteq Nat /\ Sids \subseteq Nat
BY ConstantsAssumption DEF Uids, Tids, Sids

\* The next free row of a table is one of its free rows.
LEMMA NextFresh ==
    ASSUME NEW n \in Nat, NEW table, DOMAIN table = 1..n, NEW empty, Fresh(table, empty) # {}
    PROVE  /\ Min(Fresh(table, empty)) \in 1..n
           /\ table[Min(Fresh(table, empty))] = empty
<1>1. Fresh(table, empty) \in SUBSET Nat
  BY DEF Fresh
<1>2. Min(Fresh(table, empty)) \in Fresh(table, empty)
  BY <1>1, MinIn
<1> QED
  BY <1>2 DEF Fresh

LEMMA EmptyRows ==
    /\ NoCred \in CredRow /\ NoToken \in TokenRow /\ NoSession \in SessionRow /\ NoJob \in JobType
    /\ NoCred.setAt = 0 /\ NoCred.link = 0
    /\ NoToken.born = 0 /\ NoToken.user = 0 /\ NoToken.state = "minted"
    /\ NoSession.user = 0 /\ ~NoSession.over
    /\ NoJob.user = 0 /\ NoJob.now = 0 /\ NoJob.token = 0 /\ NoJob.purpose = "none"
BY DEF NoCred, CredRow, NoToken, TokenRow, NoSession, SessionRow, NoJob, JobType

LEMMA UserAtKnown ==
    ASSUME NEW e
    PROVE  UserAt(e) \in Registered \cup {0}
BY DEF UserAt

LEMMA NobodyHasId0 == 0 \notin Uids
BY DEF Uids

LEMMA PurposesNamed == /\ Purposes \subseteq Actions /\ "login" \in Actions
                       /\ "login" \notin Purposes /\ "none" \notin Purposes
BY DEF Purposes, Actions

\* What Goto and Finish leave of the requests.
LEMMA GotoMoves ==
    ASSUME WorkTyped, NEW w \in Workers, NEW step \in Steps, NEW j \in JobType, Goto(w, step, j)
    PROVE  /\ pc' \in [Workers -> Steps] /\ job' \in [Workers -> JobType]
           /\ pc'[w] = step /\ job'[w] = j
           /\ \A v \in Workers \ {w} : pc'[v] = pc[v] /\ job'[v] = job[v]
BY DEF WorkTyped, Goto

LEMMA FinishGoes ==
    ASSUME NEW w, Finish(w)
    PROVE  Goto(w, "idle", NoJob) /\ "idle" \in Steps \ {"create"}
BY DEF Finish, Goto, Steps

LEMMA UnderWayFinite ==
    ASSUME NEW a, NEW e
    PROVE  /\ IsFiniteSet(UnderWay(a, e))
           /\ Cardinality(UnderWay(a, e)) \in Nat
           /\ Cardinality(UnderWay(a, e)) <= Cardinality(Workers)
           /\ Cardinality(Workers) \in Nat
           /\ \A w \in Workers : w \notin UnderWay(a, e) =>
                 Cardinality(UnderWay(a, e)) <= Cardinality(Workers) - 1
<1>1. UnderWay(a, e) \subseteq Workers
  BY DEF UnderWay
<1>2. IsFiniteSet(UnderWay(a, e)) /\ Cardinality(UnderWay(a, e)) <= Cardinality(Workers)
  BY <1>1, FS_Subset, ConstantsAssumption
<1>3. Cardinality(UnderWay(a, e)) \in Nat /\ Cardinality(Workers) \in Nat
  BY <1>2, FS_CardinalityType, ConstantsAssumption
<1>4. ASSUME NEW w \in Workers, w \notin UnderWay(a, e)
      PROVE  Cardinality(UnderWay(a, e)) <= Cardinality(Workers) - 1
  <2>1. IsFiniteSet(Workers \ {w}) /\ Cardinality(Workers \ {w}) = Cardinality(Workers) - 1
    BY FS_RemoveElement, ConstantsAssumption
  <2>2. UnderWay(a, e) \subseteq Workers \ {w}
    BY <1>1, <1>4
  <2> QED
    BY <2>1, <2>2, FS_Subset
<1> QED
  BY <1>2, <1>3, <1>4

\* Fewer requests under way count for no more.
LEMMA FewerUnderWay ==
    ASSUME NEW a, NEW e, UnderWay(a, e)' \subseteq UnderWay(a, e)
    PROVE  /\ Cardinality(UnderWay(a, e)') \in Nat
           /\ Cardinality(UnderWay(a, e)') <= Cardinality(UnderWay(a, e))
BY UnderWayFinite, FS_Subset, FS_CardinalityType

-----------------------------------------------------------------------------
\* The invariant holds at first and gives the properties.

LEMMA IInvInit == Init => IInv
<1> SUFFICES ASSUME Init PROVE IInv
  OBVIOUS
<1>1. \A e \in Addresses, p \in Passwords : \A c \in {CutoverUser(e), UserOfOldPepper(e, p), NoCred} :
        c \in CredRow /\ c.setAt \in {0, 1} /\ c.link = 0
  <2> SUFFICES ASSUME NEW e \in Addresses, NEW p \in Passwords
               PROVE  \A c \in {CutoverUser(e), UserOfOldPepper(e, p), NoCred} :
                        c \in CredRow /\ c.setAt \in {0, 1} /\ c.link = 0
    OBVIOUS
  <2>1. CutoverUser(e) \in CredRow /\ CutoverUser(e).setAt = 0 /\ CutoverUser(e).link = 0
    BY DEF CutoverUser, NoCred, CredRow
  <2>2. /\ UserOfOldPepper(e, p) \in CredRow
        /\ UserOfOldPepper(e, p).setAt = 1 /\ UserOfOldPepper(e, p).link = 0
    BY DEF UserOfOldPepper, NoCred, CredRow
  <2> QED
    BY <2>1, <2>2, EmptyRows
<1>2. cred \in [Uids -> CredRow] /\ \A u \in Uids : cred[u].setAt \in {0, 1} /\ cred[u].link = 0
  <2>1. CASE cred = [u \in Uids |-> NoCred]
    BY <2>1, EmptyRows
  <2>2. CASE \E e \in Addresses, p \in Passwords :
                \E c \in {CutoverUser(e), UserOfOldPepper(e, p)} :
                   cred = [u \in Uids |-> IF u = 1 THEN c ELSE NoCred]
    <3>1. PICK e \in Addresses, p \in Passwords :
             \E c \in {CutoverUser(e), UserOfOldPepper(e, p)} :
                cred = [u \in Uids |-> IF u = 1 THEN c ELSE NoCred]
      BY <2>2
    <3>2. PICK c \in {CutoverUser(e), UserOfOldPepper(e, p)} :
                cred = [u \in Uids |-> IF u = 1 THEN c ELSE NoCred]
      BY <3>1
    <3> QED
      BY <1>1, <3>2
  <2> QED
    BY <2>1, <2>2 DEF Init
<1>3. role \in [Uids -> {"none", "user", "admin", "gone"}]
  BY DEF Init
<1>4. \A u, v \in Uids : role[u] = "admin" /\ role[v] = "admin" => u = v
  BY DEF Init
<1>5. Typed
  BY <1>2, <1>3, EmptyRows, ConstantsAssumption
     DEF Init, Typed, RowsTyped, CountsTyped, WorkTyped, Counts, Steps
<1>6. Past
  BY <1>2, EmptyRows DEF Init, Past
<1>7. JobsOK
  BY EmptyRows DEF Init, JobsOK, JobOK
<1>8. LockOK
  BY <1>4, ConstantsAssumption DEF Init, LockOK
<1>9. MailsOK
  <2> SUFFICES ASSUME NEW e \in Addresses
               PROVE  /\ sent[<<"login", e>>] = 0
                      /\ \A a \in Purposes :
                           /\ events[<<a, e>>] + Cardinality(UnderWay(a, e))
                                 <= RateLimit + Cardinality(Workers) - 1
                           /\ sent[<<a, e>>] <= events[<<a, e>>] + faults
    BY DEF MailsOK
  <2>1. sent[<<"login", e>>] = 0
    BY PurposesNamed DEF Init
  <2>2. ASSUME NEW a \in Purposes
        PROVE  events[<<a, e>>] = 0 /\ sent[<<a, e>>] = 0 /\ faults = 0
    BY PurposesNamed DEF Init
  <2> QED
    BY <2>1, <2>2, UnderWayFinite, ConstantsAssumption
<1>10. KnownOK
  BY EmptyRows, NobodyHasId0 DEF Init, KnownOK, Named
<1>11. LinksOK
  BY <1>2 DEF LinksOK, Registered
<1>12. SessionsOK
  BY EmptyRows, NobodyHasId0 DEF Init, SessionsOK, SessionOK, Stands, Registered
<1> QED
  BY <1>5, <1>6, <1>7, <1>8, <1>9, <1>10, <1>11, <1>12 DEF IInv

LEMMA IInvTypeOK == IInv => TypeOK
<1> SUFFICES ASSUME IInv PROVE TypeOK
  OBVIOUS
<1> USE DEF IInv, Typed, RowsTyped, CountsTyped, WorkTyped
<1>1. cred \in [Uids -> CredType]
  BY DEF CredRow, CredType, Past, Times
<1>2. tokens \in [Tids -> [purpose : Purposes \cup {"none", "gone"}, user : Uids \cup {0},
                            email : Addresses \cup {NoOne}, born : Times,
                            state : {"minted", "mailed", "over"}]]
  BY DEF TokenRow, Past, Times
<1>3. ASSUME NEW a \in Actions, NEW e \in Addresses
      PROVE  sent[<<a, e>>] \in 0..(RateLimit + Cardinality(Workers) + MaxFaults - 1)
  <2>1. sent[<<a, e>>] \in Nat /\ events[<<a, e>>] \in Nat
    BY DEF Counts
  <2>2. CASE a = "login"
    BY <2>2, UnderWayFinite, ConstantsAssumption DEF MailsOK
  <2>3. CASE a \in Purposes
    <3>1. /\ events[<<a, e>>] + Cardinality(UnderWay(a, e)) <= RateLimit + Cardinality(Workers) - 1
          /\ sent[<<a, e>>] <= events[<<a, e>>] + faults
      BY <2>3 DEF MailsOK
    <3>2. Cardinality(UnderWay(a, e)) \in Nat /\ Cardinality(Workers) \in Nat
      BY UnderWayFinite
    <3>3. RateLimit \in Nat /\ MaxFaults \in Nat /\ faults \in Nat /\ faults <= MaxFaults
      BY ConstantsAssumption
    <3> HIDE DEF IInv, Typed, RowsTyped, CountsTyped, WorkTyped
    <3> QED
      BY <2>1, <3>1, <3>2, <3>3
  <2> QED
    BY <2>2, <2>3 DEF Actions
<1>4. sent \in [Actions \X Addresses -> 0..(RateLimit + Cardinality(Workers) + MaxFaults - 1)]
  BY <1>3 DEF Counts
<1> QED
  BY <1>1, <1>2, <1>4 DEF TypeOK, SessionRow, Counts, Steps, LockOK

LEMMA IInvImplies == IInv => OneFirstAdmin /\ SessionsFollowPassword
<1> SUFFICES ASSUME IInv PROVE OneFirstAdmin /\ SessionsFollowPassword
  OBVIOUS
<1>1. Cardinality({u \in Uids : role[u] = "admin"}) <= 1
  <2>1. CASE {u \in Uids : role[u] = "admin"} = {}
    BY <2>1, FS_EmptySet
  <2>2. CASE {u \in Uids : role[u] = "admin"} # {}
    <3>1. PICK u \in Uids : role[u] = "admin"
      BY <2>2
    <3>2. {v \in Uids : role[v] = "admin"} = {u}
      BY <3>1 DEF IInv, LockOK
    <3>3. Cardinality({u}) = 1
      BY FS_Singleton
    <3> QED
      BY <3>2, <3>3
  <2> QED
    BY <2>1, <2>2
<1>2. SessionsFollowPassword
  <2> SUFFICES ASSUME "password" \notin overwritten, NEW s \in Sids, Accepted(s)
               PROVE  ~sessions[s].over /\ sessions[s].password = cred[sessions[s].user].password
    BY DEF SessionsFollowPassword
  <2> USE DEF IInv, SessionsOK, SessionOK, Stands, Accepted, SameVersion
  <2>1. sessions[s].version \in Nat
    BY DEF Typed, RowsTyped, SessionRow
  <2> QED
    BY <2>1
<1> QED
  BY <1>1, <1>2, IInvTypeOK DEF OneFirstAdmin

-----------------------------------------------------------------------------
\* What most steps leave as it was.

StillNamed(u) == u \in Uids => role'[u] # "none"

\* A used link stays used and keeps its age, and an account stays known.
TokensKept ==
    /\ tokens' \in [Tids -> TokenRow]
    /\ \A t \in Tids :
          /\ tokens[t].state = "over" => tokens'[t].state = "over" /\ tokens'[t].born = tokens[t].born
          /\ tokens'[t].born <= clock'
          /\ Named(tokens[t].user)'

\* A request that has not moved is as ready as before.
LEMMA JobKept ==
    ASSUME Typed, TokensKept, NEW v \in Workers, JobOK(v), pc'[v] = pc[v], job'[v] = job[v]
    PROVE  JobOK(v)'
<1>1. job[v] \in JobType
  BY DEF Typed, WorkTyped
<1>2. job[v].token # 0 => job[v].token \in Tids
  BY <1>1 DEF JobType
<1> QED
  BY <1>2 DEF JobOK, TokensKept

LEMMA StandsKept ==
    ASSUME NEW u, NEW version, NEW password, Stands(u, version, password),
           UNCHANGED <<role, cred, overwritten>>
    PROVE  Stands(u, version, password)'
BY DEF Stands, Registered

LEMMA SessionKept ==
    ASSUME NEW s \in Sids, SessionOK(s), UNCHANGED <<role, cred, overwritten>>,
           sessions'[s].user = sessions[s].user, sessions'[s].version = sessions[s].version,
           sessions'[s].password = sessions[s].password, sessions'[s].over = sessions[s].over
    PROVE  SessionOK(s)'
BY DEF SessionOK, Stands, Registered

LEMMA SessionsKept ==
    ASSUME IInv, UNCHANGED <<role, cred, overwritten, sessions>>
    PROVE  \A s \in Sids : SessionOK(s)' /\ Named(sessions[s].user)'
BY SessionKept DEF IInv, SessionsOK, KnownOK, Named

LEMMA LocksKept ==
    ASSUME IInv, NEW w \in Workers, NEW step \in Steps \ {"create"}, NEW j \in JobType,
           Goto(w, step, j), pc[w] # "create", UNCHANGED <<role, adminLock>>
    PROVE  LockOK'
<1>1. pc'[w] # "create" /\ \A v \in Workers \ {w} : pc'[v] = pc[v] /\ job'[v] = job[v]
  BY GotoMoves DEF IInv, Typed
<1>2. \A v \in Workers : pc'[v] = "create" => pc[v] = "create" /\ job'[v] = job[v]
  BY <1>1
<1>3. \A v \in Workers : pc[v] = "create" => pc'[v] = "create"
  BY <1>1
<1>4. Registered' = Registered
  BY DEF Registered
<1> QED
  BY <1>2, <1>3, <1>4 DEF IInv, LockOK

\* A step that counts nothing, and lets nobody in, keeps the counts.
LEMMA MailsKept ==
    ASSUME IInv, NEW w \in Workers, NEW step \in Steps, NEW j \in JobType,
           Goto(w, step, j), UNCHANGED sent, faults' \in Nat, faults <= faults',
           \A a \in Purposes, e \in Addresses : events'[<<a, e>>] = events[<<a, e>>],
           step \in {"mint", "mail"} => /\ pc[w] \in {"mint", "mail"}
                                       /\ j.purpose = job[w].purpose /\ j.email = job[w].email
    PROVE  MailsOK'
<1> SUFFICES ASSUME NEW e \in Addresses, NEW a \in Purposes
             PROVE  /\ sent'[<<"login", e>>] = 0
                    /\ events'[<<a, e>>] + Cardinality(UnderWay(a, e)')
                          <= RateLimit + Cardinality(Workers) - 1
                    /\ sent'[<<a, e>>] <= events'[<<a, e>>] + faults'
  <2>1. \A e \in Addresses : sent'[<<"login", e>>] = 0
    BY DEF IInv, MailsOK
  <2> QED
    BY <2>1 DEF MailsOK
<1>1. UnderWay(a, e)' \subseteq UnderWay(a, e)
  BY GotoMoves DEF UnderWay, IInv, Typed
<1>2. /\ events[<<a, e>>] \in Nat /\ sent[<<a, e>>] \in Nat /\ faults \in Nat
      /\ RateLimit \in Nat
  BY PurposesNamed, ConstantsAssumption DEF IInv, Typed, CountsTyped, Counts
<1>3. /\ sent[<<"login", e>>] = 0
      /\ events[<<a, e>>] + Cardinality(UnderWay(a, e)) <= RateLimit + Cardinality(Workers) - 1
      /\ sent[<<a, e>>] <= events[<<a, e>>] + faults
  BY DEF IInv, MailsOK
<1>4. /\ Cardinality(UnderWay(a, e)) \in Nat /\ Cardinality(Workers) \in Nat
      /\ Cardinality(UnderWay(a, e)') \in Nat
      /\ Cardinality(UnderWay(a, e)') <= Cardinality(UnderWay(a, e))
  BY <1>1, UnderWayFinite, FewerUnderWay
<1> QED
  BY <1>2, <1>3, <1>4

\* A step that moves one request and leaves users and credentials alone.
LEMMA WorkerStep ==
    ASSUME IInv, NEW w \in Workers, NEW step \in Steps \ {"create"}, NEW j \in JobType,
           Goto(w, step, j), pc[w] # "create",
           UNCHANGED <<role, cred, adminLock, overwritten>>,
           clock' \in Nat, clock <= clock', TokensKept, CountsTyped',
           sessions' \in [Sids -> SessionRow],
           \A s \in Sids : SessionOK(s)' /\ Named(sessions[s].user)',
           j.now <= clock', StillNamed(j.user), JobOK(w)',
           step = "session" => Stands(j.user, j.version, j.password), MailsOK'
    PROVE  IInv'
<1>1. /\ pc' \in [Workers -> Steps] /\ job' \in [Workers -> JobType]
      /\ pc'[w] = step /\ job'[w] = j
      /\ \A v \in Workers \ {w} : pc'[v] = pc[v] /\ job'[v] = job[v]
  BY GotoMoves DEF IInv, Typed
<1>2. Typed'
  BY <1>1 DEF IInv, Typed, RowsTyped, WorkTyped, TokensKept
<1>3. Past'
  <2>1. \A u \in Uids : cred'[u].setAt <= clock' /\ cred'[u].link <= clock'
    BY DEF IInv, Past, Typed, RowsTyped, CredRow
  <2>2. \A v \in Workers : job'[v].now <= clock'
    BY <1>1 DEF IInv, Past, Typed, RowsTyped, WorkTyped, JobType
  <2> QED
    BY <2>1, <2>2 DEF Past, TokensKept
<1>4. JobsOK'
  <2>1. \A v \in Workers \ {w} : JobOK(v)'
    BY <1>1, JobKept DEF IInv, JobsOK
  <2> QED
    BY <2>1 DEF JobsOK
<1>5. LockOK'
  BY LocksKept
<1>6. KnownOK'
  BY <1>1 DEF IInv, KnownOK, Named, StillNamed, TokensKept
<1>7. LinksOK'
  BY DEF IInv, LinksOK, Registered
<1>8. SessionsOK'
  <2>1. \A v \in Workers : pc'[v] = "session" => Stands(job'[v].user, job'[v].version, job'[v].password)
    BY <1>1 DEF IInv, SessionsOK
  <2>2. \A v \in Workers : pc'[v] = "session" => Stands(job[v].user, job[v].version, job[v].password)'
    BY <2>1 DEF Stands, Registered
  <2> QED
    BY <2>2 DEF SessionsOK
<1> QED
  BY <1>2, <1>3, <1>4, <1>5, <1>6, <1>7, <1>8 DEF IInv

\* Tokens, sessions and the clock as they were.
LEMMA TokensSame ==
    ASSUME IInv, UNCHANGED <<tokens, clock, role>>
    PROVE  TokensKept /\ clock' \in Nat /\ clock <= clock'
BY DEF IInv, Typed, RowsTyped, Past, TokensKept, KnownOK, Named

\* A step that takes place without a request, and leaves users, credentials and
\* counts alone.
LEMMA RowsStep ==
    ASSUME IInv, UNCHANGED <<role, cred, events, sent, working, overwritten, faults>>,
           clock' \in Nat, clock <= clock', TokensKept,
           sessions' \in [Sids -> SessionRow],
           \A s \in Sids : SessionOK(s)' /\ Named(sessions[s].user)'
    PROVE  IInv'
<1> USE DEF working
<1>1. Typed'
  BY DEF IInv, Typed, RowsTyped, CountsTyped, WorkTyped, TokensKept
<1>2. Past'
  <2>1. \A u \in Uids : cred'[u].setAt <= clock' /\ cred'[u].link <= clock'
    BY DEF IInv, Past, Typed, RowsTyped, CredRow
  <2>2. \A v \in Workers : job'[v].now <= clock'
    BY DEF IInv, Past, Typed, RowsTyped, WorkTyped, JobType
  <2> QED
    BY <2>1, <2>2 DEF Past, TokensKept
<1>3. JobsOK'
  BY JobKept DEF IInv, JobsOK
<1>4. LockOK'
  BY DEF IInv, LockOK, Registered
<1>5. MailsOK'
  BY DEF IInv, MailsOK, UnderWay
<1>6. KnownOK'
  BY DEF IInv, KnownOK, Named, TokensKept
<1>7. LinksOK'
  BY DEF IInv, LinksOK, Registered
<1>8. SessionsOK'
  BY DEF IInv, SessionsOK, Stands, Registered
<1> QED
  BY <1>1, <1>2, <1>3, <1>4, <1>5, <1>6, <1>7, <1>8 DEF IInv

-----------------------------------------------------------------------------
\* Links.

LEMMA AskForLinkStep ==
    ASSUME IInv, NEW w \in Workers, NEW purpose \in Purposes, NEW e \in Addresses,
           NEW eligible \in BOOLEAN, AskForLink(w, purpose, e, eligible)
    PROVE  IInv'
<1> DEFINE j == [NoJob EXCEPT !.email = e, !.purpose = purpose, !.user = UserAt(e)]
<1>1. /\ pc[w] = "idle" /\ requests' \in 0..MaxRequests /\ requests < MaxRequests
      /\ requests' = requests + 1 /\ events[<<purpose, e>>] < RateLimit
      /\ UNCHANGED <<accounts, tokens, sessions, sent, adminLock, overwritten, faults>>
  BY ConstantsAssumption
     DEF AskForLink, Begin, Idle, Allowed, Recent, IInv, Typed, CountsTyped
<1>2. TokensKept /\ clock' \in Nat /\ clock <= clock'
  BY <1>1, TokensSame DEF accounts
<1>3. \A s \in Sids : SessionOK(s)' /\ Named(sessions[s].user)'
  BY <1>1, SessionsKept DEF accounts
<1>4. /\ events[<<purpose, e>>] \in Nat /\ RateLimit \in Nat /\ purpose \in Actions
      /\ Cardinality(Workers) \in Nat
  BY PurposesNamed, ConstantsAssumption, UnderWayFinite DEF IInv, Typed, CountsTyped, Counts
<1>5. ASSUME NEW a \in Purposes, NEW f \in Addresses
      PROVE  /\ sent[<<"login", f>>] = 0
             /\ events[<<a, f>>] + Cardinality(UnderWay(a, f))
                   <= RateLimit + Cardinality(Workers) - 1
             /\ sent[<<a, f>>] <= events[<<a, f>>] + faults
             /\ events[<<a, f>>] \in Nat /\ sent[<<a, f>>] \in Nat /\ faults \in Nat
  BY PurposesNamed DEF IInv, MailsOK, Typed, CountsTyped, Counts
<1>6. CASE Goto(w, "mint", j) /\ UNCHANGED events
  <2>1. /\ j \in JobType /\ j.now = 0 /\ j.user = UserAt(e) /\ j.purpose = purpose
        /\ j.email = e /\ j.token = 0
    BY UserAtKnown DEF JobType, NoJob, Registered
  <2> HIDE DEF j
  <2>2. "mint" \in Steps \ {"create"}
    BY DEF Steps
  <2>3. /\ pc'[w] = "mint" /\ job'[w] = j
        /\ \A v \in Workers \ {w} : pc'[v] = pc[v] /\ job'[v] = job[v]
    BY <1>6, <2>1, <2>2, GotoMoves DEF IInv, Typed
  <2>4. StillNamed(j.user)
    BY <1>1, <2>1, UserAtKnown, NobodyHasId0 DEF StillNamed, Registered, accounts
  <2>5. JobOK(w)'
    BY <2>1, <2>3 DEF JobOK
  <2>6. MailsOK'
    <3>1. ASSUME NEW a \in Purposes, NEW f \in Addresses
          PROVE  events'[<<a, f>>] + Cardinality(UnderWay(a, f)')
                    <= RateLimit + Cardinality(Workers) - 1
      <4>1. CASE a = purpose /\ f = e
        <5>1. UnderWay(a, f)' \subseteq Workers
          BY DEF UnderWay
        <5>2. Cardinality(UnderWay(a, f)') \in Nat /\ Cardinality(UnderWay(a, f)') <= Cardinality(Workers)
          BY <5>1, FS_Subset, FS_CardinalityType, ConstantsAssumption
        <5> QED
          BY <1>1, <1>4, <1>6, <4>1, <5>2
      <4>2. CASE ~(a = purpose /\ f = e)
        <5>1. UnderWay(a, f)' \subseteq UnderWay(a, f)
          BY <2>1, <2>3, <4>2 DEF UnderWay
        <5>2. /\ Cardinality(UnderWay(a, f)') \in Nat /\ Cardinality(UnderWay(a, f)) \in Nat
              /\ Cardinality(UnderWay(a, f)') <= Cardinality(UnderWay(a, f))
          BY <5>1, FewerUnderWay, UnderWayFinite
        <5>3. events' = events
          BY <1>6
        <5>4. /\ events[<<a, f>>] + Cardinality(UnderWay(a, f)) <= RateLimit + Cardinality(Workers) - 1
              /\ events[<<a, f>>] \in Nat
          BY <1>5
        <5> QED
          BY <1>4, <5>2, <5>3, <5>4
      <4> QED
        BY <4>1, <4>2
    <3> QED
      BY <1>1, <1>6, <3>1 DEF MailsOK, IInv
  <2>7. CountsTyped'
    BY <1>1, <1>6 DEF IInv, Typed, CountsTyped
  <2>8. sessions' \in [Sids -> SessionRow] /\ j.now <= clock'
    BY <1>1, <1>2, <2>1 DEF IInv, Typed, RowsTyped
  <2> QED
    BY <1>1, <1>2, <1>3, <1>6, <2>1, <2>2, <2>4, <2>5, <2>6, <2>7, <2>8, WorkerStep DEF accounts
<1>7. CASE events' = Counted(purpose, e) /\ UNCHANGED <<pc, job>>
  <2>1. /\ events' \in Counts /\ events'[<<purpose, e>>] = events[<<purpose, e>>] + 1
        /\ \A a \in Actions, f \in Addresses :
              ~(a = purpose /\ f = e) => events'[<<a, f>>] = events[<<a, f>>]
    BY <1>4, <1>7 DEF Counted, Counts, IInv, Typed, CountsTyped
  <2>2. \A a, f : UnderWay(a, f)' = UnderWay(a, f)
    BY <1>7 DEF UnderWay
  <2>3. MailsOK'
    <3>1. ASSUME NEW a \in Purposes, NEW f \in Addresses
          PROVE  /\ events'[<<a, f>>] + Cardinality(UnderWay(a, f)')
                       <= RateLimit + Cardinality(Workers) - 1
                 /\ sent[<<a, f>>] <= events'[<<a, f>>] + faults
      <4>1. CASE a = purpose /\ f = e
        <5>1. w \notin UnderWay(a, f)
          BY <1>1 DEF UnderWay
        <5>2. Cardinality(UnderWay(a, f)) \in Nat /\ Cardinality(UnderWay(a, f)) <= Cardinality(Workers) - 1
          BY <5>1, UnderWayFinite
        <5>3. Cardinality(UnderWay(a, f)') = Cardinality(UnderWay(a, f))
          BY <2>2
        <5>4. events'[<<a, f>>] = events[<<a, f>>] + 1 /\ events[<<a, f>>] < RateLimit
          BY <1>1, <2>1, <4>1
        <5>5. /\ sent[<<a, f>>] <= events[<<a, f>>] + faults
              /\ events[<<a, f>>] \in Nat /\ sent[<<a, f>>] \in Nat /\ faults \in Nat
          BY <1>5
        <5> QED
          BY <1>4, <5>2, <5>3, <5>4, <5>5
      <4>2. CASE ~(a = purpose /\ f = e)
        BY <1>5, <2>1, <2>2, <4>2, PurposesNamed
      <4> QED
        BY <4>1, <4>2
    <3> QED
      BY <1>1, <3>1 DEF MailsOK, IInv
  <2>4. Typed'
    BY <1>1, <1>7, <2>1 DEF IInv, Typed, RowsTyped, CountsTyped, WorkTyped, accounts
  <2>5. Past' /\ JobsOK' /\ LockOK' /\ KnownOK' /\ LinksOK' /\ SessionsOK'
    BY <1>1, <1>7 DEF IInv, Past, JobsOK, JobOK, LockOK, KnownOK, Named, LinksOK, SessionsOK,
                      SessionOK, Stands, Registered, accounts
  <2> QED
    BY <2>3, <2>4, <2>5 DEF IInv
<1> QED
  BY <1>6, <1>7 DEF AskForLink

\* A token that is minted takes a free row.
LEMMA MintKeepsTokens ==
    ASSUME IInv, Fresh(tokens, NoToken) # {}, UNCHANGED role, clock' = clock + 1,
           NEW row \in TokenRow, row.born = clock + 1, StillNamed(row.user),
           tokens' = [tokens EXCEPT ![Min(Fresh(tokens, NoToken))] = row]
    PROVE  TokensKept /\ clock' \in Nat /\ clock <= clock' /\ Min(Fresh(tokens, NoToken)) \in Tids
<1>1. /\ tokens \in [Tids -> TokenRow] /\ clock \in Nat
      /\ \A t \in Tids : tokens[t].born <= clock /\ Named(tokens[t].user)
  BY DEF IInv, Typed, RowsTyped, Past, KnownOK
<1>2. /\ Min(Fresh(tokens, NoToken)) \in Tids
      /\ tokens[Min(Fresh(tokens, NoToken))] = NoToken
  BY <1>1, NextFresh, ConstantsAssumption DEF Tids
<1>3. \A t \in Tids : t # Min(Fresh(tokens, NoToken)) => tokens'[t] = tokens[t]
  BY <1>1
<1>4. tokens'[Min(Fresh(tokens, NoToken))] = row
  BY <1>1, <1>2
<1>5. \A t \in Tids : tokens[t].born \in Nat
  BY <1>1 DEF TokenRow
<1>6. ASSUME NEW t \in Tids
      PROVE  /\ tokens[t].state = "over" => tokens'[t].state = "over" /\ tokens'[t].born = tokens[t].born
             /\ tokens'[t].born <= clock'
             /\ StillNamed(tokens'[t].user)
  BY <1>1, <1>2, <1>3, <1>4, <1>5, EmptyRows DEF Named, StillNamed
<1>7. tokens' \in [Tids -> TokenRow]
  BY <1>1
<1> QED
  BY <1>1, <1>2, <1>6, <1>7 DEF TokensKept, Named, StillNamed

LEMMA MintTokenStep ==
    ASSUME IInv, NEW w \in Workers, MintToken(w)
    PROVE  IInv'
<1> DEFINE t == Min(Fresh(tokens, NoToken))
           row == [NoToken EXCEPT !.purpose = job[w].purpose, !.user = job[w].user,
                                  !.email = job[w].email, !.born = clock']
           j == [job[w] EXCEPT !.token = t]
<1>1. /\ pc[w] = "mint" /\ Fresh(tokens, NoToken) # {} /\ clock' = clock + 1
      /\ tokens' = [tokens EXCEPT ![t] = row] /\ Goto(w, "mail", j)
      /\ UNCHANGED <<role, cred, sessions, events, sent, adminLock, requests, overwritten, faults>>
  BY DEF MintToken, Tick
<1>2. /\ job[w] \in JobType /\ job[w].purpose \in Purposes /\ job[w].email \in Addresses
      /\ Named(job[w].user) /\ clock \in Nat /\ job[w].now <= clock
  BY <1>1 DEF IInv, Typed, RowsTyped, WorkTyped, JobsOK, JobOK, KnownOK, Past
<1>3. row \in TokenRow /\ row.born = clock + 1 /\ row.user = job[w].user
  <2>1. clock' \in Nat /\ clock' = clock + 1
    BY <1>1, <1>2
  <2>2. job[w].user \in Uids \cup {0} /\ job[w].purpose \in Purposes /\ job[w].email \in Addresses
    BY <1>2 DEF JobType
  <2>3. NoToken \in TokenRow
    BY EmptyRows
  <2> QED
    BY <2>1, <2>2, <2>3 DEF TokenRow
<1>4. StillNamed(row.user)
  BY <1>1, <1>2, <1>3 DEF StillNamed, Named
<1> HIDE DEF row
<1>5. TokensKept /\ clock' \in Nat /\ clock <= clock' /\ t \in Tids
  BY <1>1, <1>3, <1>4, MintKeepsTokens
<1> HIDE DEF t
<1>6. /\ j \in JobType /\ j.purpose = job[w].purpose /\ j.email = job[w].email /\ j.token = t
      /\ j.user = job[w].user /\ j.now = job[w].now
  BY <1>2, <1>5 DEF JobType
<1> HIDE DEF j
<1>7. "mail" \in Steps \ {"create"}
  BY DEF Steps
<1>8. pc'[w] = "mail" /\ job'[w] = j
  BY <1>1, <1>6, <1>7, GotoMoves DEF IInv, Typed
<1>9. JobOK(w)'
  BY <1>2, <1>5, <1>6, <1>8, PurposesNamed DEF JobOK
<1>10. CountsTyped' /\ sessions' \in [Sids -> SessionRow] /\ faults' \in Nat /\ faults <= faults'
  BY <1>1, ConstantsAssumption DEF IInv, Typed, RowsTyped, CountsTyped
<1>11. MailsOK'
  BY <1>1, <1>6, <1>7, <1>10, MailsKept
<1>12. \A s \in Sids : SessionOK(s)' /\ Named(sessions[s].user)'
  BY <1>1, SessionsKept
<1>13. StillNamed(j.user) /\ j.now <= clock'
  <2>1. job[w].now \in Nat
    BY <1>2 DEF JobType
  <2> QED
    BY <1>1, <1>2, <1>6, <2>1 DEF StillNamed, Named
<1> QED
  BY <1>1, <1>5, <1>6, <1>7, <1>9, <1>10, <1>11, <1>12, <1>13, WorkerStep

\* An action on the tokens that ends some or mails one of them.
LEMMA TokensMove ==
    ASSUME IInv, UNCHANGED role, clock' = clock, tokens' \in [Tids -> TokenRow],
           \A t \in Tids : /\ tokens[t].state = "over" => tokens'[t].state = "over"
                           /\ tokens'[t].born = tokens[t].born
                           /\ tokens'[t].user = tokens[t].user
    PROVE  TokensKept /\ clock' \in Nat /\ clock <= clock'
BY DEF IInv, Typed, RowsTyped, Past, KnownOK, TokensKept, Named

LEMMA TokenState ==
    ASSUME IInv, NEW t \in Tids, NEW state \in {"minted", "mailed", "over"},
           tokens' = [tokens EXCEPT ![t].state = state]
    PROVE  /\ tokens' \in [Tids -> TokenRow]
           /\ \A u \in Tids : /\ tokens'[u].born = tokens[u].born /\ tokens'[u].user = tokens[u].user
                              /\ tokens'[u].state = IF u = t THEN state ELSE tokens[u].state
<1>1. tokens \in [Tids -> TokenRow]
  BY DEF IInv, Typed, RowsTyped
<1>2. ASSUME NEW u \in Tids
      PROVE  /\ tokens'[u] \in TokenRow
             /\ tokens'[u].born = tokens[u].born /\ tokens'[u].user = tokens[u].user
             /\ tokens'[u].state = IF u = t THEN state ELSE tokens[u].state
  BY <1>1 DEF TokenRow
<1> QED
  BY <1>1, <1>2

LEMMA SendLinkStep ==
    ASSUME IInv, NEW w \in Workers, SendLink(w)
    PROVE  IInv'
<1> DEFINE a == job[w].purpose
           e == job[w].email
<1>1. PICK ok \in BOOLEAN :
        /\ MailGoesOut(w, ok)
        /\ events' = IF ok \/ a # "registration_verify" THEN Counted(a, e) ELSE events
  BY DEF SendLink
<1>2. /\ pc[w] = "mail" /\ Finish(w)
      /\ UNCHANGED <<accounts, sessions, adminLock, requests, overwritten>>
  BY DEF SendLink
<1>3. /\ job[w] \in JobType /\ a \in Purposes /\ e \in Addresses /\ job[w].token \in Tids
      /\ a \in Actions /\ a # "login"
  BY <1>2, PurposesNamed DEF IInv, Typed, WorkTyped, JobsOK, JobOK
<1>4. TokensKept /\ clock' \in Nat /\ clock <= clock'
  <2>1. CASE UNCHANGED tokens
    BY <1>2, <2>1, TokensSame DEF accounts
  <2>2. CASE tokens' = [tokens EXCEPT ![job[w].token].state = IF @ = "minted" THEN "mailed" ELSE @]
    <3> DEFINE next == IF tokens[job[w].token].state = "minted" THEN "mailed" ELSE tokens[job[w].token].state
    <3>1. next \in {"minted", "mailed", "over"} /\ tokens' = [tokens EXCEPT ![job[w].token].state = next]
      BY <1>3, <2>2 DEF IInv, Typed, RowsTyped, TokenRow
    <3>2. tokens[job[w].token].state = "over" => next = "over"
      OBVIOUS
    <3> HIDE DEF next
    <3>3. /\ tokens' \in [Tids -> TokenRow]
          /\ \A u \in Tids : /\ tokens'[u].born = tokens[u].born /\ tokens'[u].user = tokens[u].user
                             /\ tokens'[u].state = IF u = job[w].token THEN next ELSE tokens[u].state
      BY <1>3, <3>1, TokenState
    <3> QED
      BY <1>2, <3>2, <3>3, TokensMove DEF accounts
  <2> QED
    BY <1>1, <2>1, <2>2 DEF MailGoesOut
<1>5. /\ events \in Counts /\ sent \in Counts /\ faults \in Nat /\ RateLimit \in Nat /\ MaxFaults \in Nat
      /\ faults <= MaxFaults
  BY ConstantsAssumption DEF IInv, Typed, CountsTyped
<1>6. faults' \in {faults, faults + 1} /\ faults' \in 0..MaxFaults /\ faults' \in Nat /\ faults <= faults'
  BY <1>1, <1>5 DEF MailGoesOut, Fault
<1>7. events' \in Counts /\ sent' \in Counts
  BY <1>1, <1>3, <1>5 DEF MailGoesOut, Counted, Counts
<1>8. \A b \in Actions, f \in Addresses :
        ~(b = a /\ f = e) => events'[<<b, f>>] = events[<<b, f>>] /\ sent'[<<b, f>>] = sent[<<b, f>>]
  BY <1>1, <1>3, <1>5 DEF MailGoesOut, Counted, Counts
<1>9. /\ events'[<<a, e>>] \in {events[<<a, e>>], events[<<a, e>>] + 1}
      /\ sent'[<<a, e>>] \in {sent[<<a, e>>], sent[<<a, e>>] + 1}
      /\ sent'[<<a, e>>] = sent[<<a, e>>] + 1 =>
            events'[<<a, e>>] = events[<<a, e>>] + 1 \/ faults' = faults + 1
  BY <1>1, <1>3, <1>5 DEF MailGoesOut, Counted, Counts, Fault
<1>10. Goto(w, "idle", NoJob) /\ "idle" \in Steps \ {"create"}
  BY <1>2, FinishGoes
<1>11. /\ pc'[w] = "idle" /\ job'[w] = NoJob
       /\ \A v \in Workers \ {w} : pc'[v] = pc[v] /\ job'[v] = job[v]
  BY <1>10, EmptyRows, GotoMoves DEF IInv, Typed
<1> HIDE DEF a, e
<1>12. MailsOK'
  <2>1. ASSUME NEW b \in Purposes, NEW f \in Addresses
        PROVE  /\ events'[<<b, f>>] + Cardinality(UnderWay(b, f)')
                     <= RateLimit + Cardinality(Workers) - 1
               /\ sent'[<<b, f>>] <= events'[<<b, f>>] + faults'
    <3>1. /\ events[<<b, f>>] \in Nat /\ sent[<<b, f>>] \in Nat
          /\ Cardinality(UnderWay(b, f)) \in Nat /\ Cardinality(Workers) \in Nat
          /\ events[<<b, f>>] + Cardinality(UnderWay(b, f)) <= RateLimit + Cardinality(Workers) - 1
          /\ sent[<<b, f>>] <= events[<<b, f>>] + faults
      BY <1>5, PurposesNamed, UnderWayFinite DEF IInv, MailsOK, Counts
    <3>2. CASE b = a /\ f = e
      <4>1. w \in UnderWay(b, f)
        BY <1>2, <3>2 DEF UnderWay, a, e
      <4>2. UnderWay(b, f)' \subseteq UnderWay(b, f) \ {w}
        BY <1>11 DEF UnderWay
      <4>3. /\ IsFiniteSet(UnderWay(b, f) \ {w})
            /\ Cardinality(UnderWay(b, f) \ {w}) = Cardinality(UnderWay(b, f)) - 1
        BY <4>1, UnderWayFinite, FS_RemoveElement
      <4>4. /\ Cardinality(UnderWay(b, f)') \in Nat
            /\ Cardinality(UnderWay(b, f)') <= Cardinality(UnderWay(b, f)) - 1
        BY <4>2, <4>3, FS_Subset, FS_CardinalityType
      <4>5. /\ events'[<<b, f>>] \in {events[<<b, f>>], events[<<b, f>>] + 1}
            /\ sent'[<<b, f>>] \in {sent[<<b, f>>], sent[<<b, f>>] + 1}
            /\ sent'[<<b, f>>] = sent[<<b, f>>] + 1 =>
                  events'[<<b, f>>] = events[<<b, f>>] + 1 \/ faults' = faults + 1
        BY <1>9, <3>2
      <4> QED
        BY <1>5, <1>6, <3>1, <4>4, <4>5
    <3>3. CASE ~(b = a /\ f = e)
      <4>1. UnderWay(b, f)' \subseteq UnderWay(b, f)
        BY <1>11 DEF UnderWay
      <4>2. /\ Cardinality(UnderWay(b, f)') \in Nat
            /\ Cardinality(UnderWay(b, f)') <= Cardinality(UnderWay(b, f))
        BY <4>1, FewerUnderWay
      <4>3. events'[<<b, f>>] = events[<<b, f>>] /\ sent'[<<b, f>>] = sent[<<b, f>>]
        BY <1>8, <3>3, PurposesNamed
      <4> QED
        BY <1>5, <1>6, <3>1, <4>2, <4>3
    <3> QED
      BY <3>2, <3>3
  <2>2. \A f \in Addresses : sent'[<<"login", f>>] = 0
    BY <1>3, <1>8, PurposesNamed DEF IInv, MailsOK
  <2> QED
    BY <2>1, <2>2 DEF MailsOK
<1>13. JobOK(w)'
  BY <1>11, EmptyRows DEF JobOK
<1>14. CountsTyped' /\ sessions' \in [Sids -> SessionRow]
  BY <1>2, <1>6, <1>7 DEF IInv, Typed, RowsTyped, CountsTyped
<1>15. \A s \in Sids : SessionOK(s)' /\ Named(sessions[s].user)'
  BY <1>2, SessionsKept DEF accounts
<1>16. StillNamed(NoJob.user) /\ NoJob.now <= clock'
  BY <1>4, EmptyRows, NobodyHasId0 DEF StillNamed
<1> QED
  BY <1>2, <1>4, <1>10, <1>12, <1>13, <1>14, <1>15, <1>16, EmptyRows, WorkerStep DEF accounts

LEMMA IssueActivationStep ==
    ASSUME IInv, NEW u \in Uids, IssueActivation(u)
    PROVE  IInv'
<1> DEFINE row == [NoToken EXCEPT !.purpose = "account_activation", !.user = u,
                     !.email = cred[u].email, !.born = clock', !.state = "mailed"]
<1>1. /\ u \in Registered /\ Fresh(tokens, NoToken) # {} /\ clock' = clock + 1
      /\ tokens' = [tokens EXCEPT ![Min(Fresh(tokens, NoToken))] = row]
      /\ UNCHANGED <<role, cred, sessions, events, sent, working, overwritten, faults>>
  BY DEF IssueActivation, Tick
<1>2. row \in TokenRow /\ row.born = clock + 1 /\ row.user = u
  <2>1. clock' \in Nat /\ clock' = clock + 1
    BY <1>1 DEF IInv, Typed, RowsTyped
  <2>2. cred[u].email \in Addresses \cup {NoOne}
    BY DEF IInv, Typed, RowsTyped, CredRow
  <2>3. "account_activation" \in Purposes
    BY DEF Purposes
  <2> QED
    BY <2>1, <2>2, <2>3, EmptyRows DEF TokenRow
<1>3. StillNamed(row.user)
  BY <1>1, <1>2 DEF StillNamed, Registered
<1> HIDE DEF row
<1>4. TokensKept /\ clock' \in Nat /\ clock <= clock'
  BY <1>1, <1>2, <1>3, MintKeepsTokens
<1>5. sessions' \in [Sids -> SessionRow]
  BY <1>1 DEF IInv, Typed, RowsTyped
<1>6. \A s \in Sids : SessionOK(s)' /\ Named(sessions[s].user)'
  BY <1>1, SessionsKept
<1> QED
  BY <1>1, <1>4, <1>5, <1>6, RowsStep

LEMMA ConsumeTokenStep ==
    ASSUME IInv, NEW w \in Workers, NEW t \in Tids, NEW p \in Passwords, ConsumeToken(w, t, p)
    PROVE  IInv'
<1> DEFINE j == [NoJob EXCEPT !.email = tokens[t].email, !.purpose = tokens[t].purpose,
                              !.user = tokens[t].user, !.token = t, !.password = p]
           step == IF Registers(t) THEN "enlist" ELSE "hash"
<1>1. /\ pc[w] = "idle" /\ requests' = requests + 1 /\ requests < MaxRequests
      /\ tokens' = [tokens EXCEPT ![t].state = "over"] /\ Goto(w, step, j)
      /\ UNCHANGED <<accounts, sessions, events, sent, adminLock, overwritten, faults>>
  BY DEF ConsumeToken, Begin, Idle
<1>2. tokens[t] \in TokenRow /\ Named(tokens[t].user)
  BY DEF IInv, Typed, RowsTyped, KnownOK
<1>3. /\ j \in JobType /\ j.purpose # "login" /\ j.token = t /\ j.user = tokens[t].user /\ j.now = 0
  <2>1. /\ tokens[t].email \in Addresses \cup {NoOne} /\ tokens[t].user \in Uids \cup {0}
        /\ tokens[t].purpose \in Purposes \cup {"none", "gone"}
    BY <1>2 DEF TokenRow
  <2> QED
    BY <2>1, EmptyRows, PurposesNamed DEF JobType
<1>4. step \in Steps \ {"create"} /\ step \in {"enlist", "hash"}
  BY DEF Steps
<1> HIDE DEF j, step
<1>5. /\ tokens' \in [Tids -> TokenRow]
      /\ \A u \in Tids : /\ tokens'[u].born = tokens[u].born /\ tokens'[u].user = tokens[u].user
                         /\ tokens'[u].state = IF u = t THEN "over" ELSE tokens[u].state
  BY <1>1, TokenState
<1>6. TokensKept /\ clock' \in Nat /\ clock <= clock'
  BY <1>1, <1>5, TokensMove DEF accounts
<1>7. pc'[w] = step /\ job'[w] = j
  BY <1>1, <1>3, <1>4, GotoMoves DEF IInv, Typed
<1>8. JobOK(w)'
  BY <1>3, <1>4, <1>5, <1>7 DEF JobOK
<1>9. CountsTyped' /\ sessions' \in [Sids -> SessionRow] /\ faults' \in Nat /\ faults <= faults'
  BY <1>1, ConstantsAssumption DEF IInv, Typed, RowsTyped, CountsTyped
<1>10. MailsOK'
  BY <1>1, <1>3, <1>4, <1>9, MailsKept
<1>11. \A s \in Sids : SessionOK(s)' /\ Named(sessions[s].user)'
  BY <1>1, SessionsKept DEF accounts
<1>12. StillNamed(j.user) /\ j.now <= clock'
  BY <1>1, <1>2, <1>3, <1>6 DEF StillNamed, Named, accounts
<1> QED
  BY <1>1, <1>3, <1>4, <1>6, <1>8, <1>9, <1>10, <1>11, <1>12, WorkerStep DEF accounts

LEMMA TokenExpiresStep ==
    ASSUME IInv, NEW t \in Tids, TokenExpires(t)
    PROVE  IInv'
<1>1. /\ tokens' = [tokens EXCEPT ![t].state = "over"]
      /\ UNCHANGED <<accounts, sessions, events, sent, working, overwritten, faults>>
  BY DEF TokenExpires
<1>2. /\ tokens' \in [Tids -> TokenRow]
      /\ \A u \in Tids : /\ tokens'[u].born = tokens[u].born /\ tokens'[u].user = tokens[u].user
                         /\ tokens'[u].state = IF u = t THEN "over" ELSE tokens[u].state
  BY <1>1, TokenState
<1>3. TokensKept /\ clock' \in Nat /\ clock <= clock'
  BY <1>1, <1>2, TokensMove DEF accounts
<1>4. sessions' \in [Sids -> SessionRow]
  BY <1>1 DEF IInv, Typed, RowsTyped
<1>5. \A s \in Sids : SessionOK(s)' /\ Named(sessions[s].user)'
  BY <1>1, SessionsKept DEF accounts
<1> QED
  BY <1>1, <1>3, <1>4, <1>5, RowsStep DEF accounts

LEMMA WindowPassesStep == IInv /\ WindowPasses => IInv'
<1> SUFFICES ASSUME IInv, WindowPasses PROVE IInv'
  OBVIOUS
<1>1. events' \in Counts /\ sent' \in Counts
  BY DEF WindowPasses, Counts
<1>2. Typed'
  BY <1>1 DEF WindowPasses, IInv, Typed, RowsTyped, CountsTyped, WorkTyped, accounts, working
<1>3. Past' /\ JobsOK' /\ LockOK' /\ KnownOK' /\ LinksOK' /\ SessionsOK'
  BY DEF WindowPasses, IInv, Past, JobsOK, JobOK, LockOK, KnownOK, Named, LinksOK, SessionsOK,
         SessionOK, Stands, Registered, accounts, working
<1>4. MailsOK'
  <2>1. ASSUME NEW a \in Actions, NEW e \in Addresses
        PROVE  events'[<<a, e>>] = 0 /\ sent'[<<a, e>>] = 0
    BY DEF WindowPasses
  <2>2. \A a, e : UnderWay(a, e)' = UnderWay(a, e)
    BY DEF WindowPasses, working, UnderWay
  <2>3. ASSUME NEW a \in Purposes, NEW e \in Addresses
        PROVE  Cardinality(UnderWay(a, e)') <= RateLimit + Cardinality(Workers) - 1
    <3>1. Cardinality(UnderWay(a, e)') = Cardinality(UnderWay(a, e))
      BY <2>2
    <3> QED
      BY <3>1, UnderWayFinite, ConstantsAssumption
  <2>4. faults' \in Nat /\ \A a, e : Cardinality(UnderWay(a, e)') \in Nat
    BY <2>2, UnderWayFinite DEF WindowPasses, IInv, Typed, CountsTyped
  <2>5. RateLimit + Cardinality(Workers) - 1 \in Int
    BY UnderWayFinite, ConstantsAssumption
  <2> QED
    BY <2>1, <2>3, <2>4, <2>5, PurposesNamed DEF MailsOK
<1> QED
  BY <1>2, <1>3, <1>4 DEF IInv

-----------------------------------------------------------------------------
\* Registration.

LEMMA EnlistStep ==
    ASSUME IInv, NEW w \in Workers, Enlist(w)
    PROVE  IInv'
<1> DEFINE j == [job[w] EXCEPT !.first = (Registered = {})]
<1>1. /\ pc[w] = "enlist" /\ adminLock = NoOne /\ adminLock' = w /\ Goto(w, "create", j)
      /\ UNCHANGED <<accounts, tokens, sessions, events, sent, requests, overwritten, faults>>
  BY DEF Enlist
<1>2. job[w] \in JobType
  BY DEF IInv, Typed, WorkTyped
<1>3. /\ j \in JobType /\ (j.first => Registered = {}) /\ j.token = job[w].token
      /\ j.user = job[w].user /\ j.now = job[w].now /\ j.purpose = job[w].purpose
      /\ j.email = job[w].email
  BY <1>2 DEF JobType
<1> HIDE DEF j
<1>4. "create" \in Steps
  BY DEF Steps
<1>5. /\ pc' \in [Workers -> Steps] /\ job' \in [Workers -> JobType]
      /\ pc'[w] = "create" /\ job'[w] = j
      /\ \A v \in Workers \ {w} : pc'[v] = pc[v] /\ job'[v] = job[v]
  BY <1>1, <1>3, <1>4, GotoMoves DEF IInv, Typed
<1>6. TokensKept
  BY <1>1, TokensSame DEF accounts
<1>7. Typed'
  BY <1>1, <1>5 DEF IInv, Typed, RowsTyped, CountsTyped, WorkTyped, accounts
<1>8. Past'
  BY <1>1, <1>3, <1>5 DEF IInv, Past, accounts
<1>9. JobsOK'
  <2>1. JobOK(w)'
    BY <1>1, <1>3, <1>5 DEF IInv, JobsOK, JobOK
  <2>2. \A v \in Workers \ {w} : JobOK(v)'
    BY <1>5, <1>6, JobKept DEF IInv, JobsOK
  <2> QED
    BY <2>1, <2>2 DEF JobsOK
<1>10. LockOK'
  <2>1. \A v \in Workers : pc[v] # "create"
    BY <1>1, ConstantsAssumption DEF IInv, LockOK
  <2>2. Registered' = Registered
    BY <1>1 DEF Registered, accounts
  <2> QED
    BY <1>1, <1>3, <1>5, <2>1, <2>2 DEF IInv, LockOK, accounts
<1>11. MailsOK'
  <2>1. faults' \in Nat /\ faults <= faults'
    BY <1>1 DEF IInv, Typed, CountsTyped
  <2> QED
    BY <1>1, <1>3, <1>4, <2>1, MailsKept
<1>12. KnownOK'
  BY <1>1, <1>3, <1>5 DEF IInv, KnownOK, Named, accounts
<1>13. LinksOK'
  BY <1>1 DEF IInv, LinksOK, Registered, accounts
<1>14. SessionsOK'
  BY <1>1, <1>5 DEF IInv, SessionsOK, SessionOK, Stands, Registered, accounts
<1> QED
  BY <1>7, <1>8, <1>9, <1>10, <1>11, <1>12, <1>13, <1>14 DEF IInv

LEMMA CreateUserStep ==
    ASSUME IInv, NEW w \in Workers, CreateUser(w)
    PROVE  IInv'
<1> DEFINE u == Min(Fresh(role, "none"))
           c == [NoCred EXCEPT !.email = job[w].email, !.password = job[w].password,
                               !.setAt = clock, !.version = 1, !.link = tokens[job[w].token].born]
           r == IF job[w].first THEN "admin" ELSE "user"
           k == [job[w] EXCEPT !.user = u, !.version = 1]
<1>1. /\ pc[w] = "create" /\ Fresh(role, "none") # {} /\ adminLock' = NoOne
      /\ UNCHANGED <<clock, tokens, sessions, events, sent, requests, overwritten, faults>>
  BY DEF CreateUser
<1>2. \/ /\ role' = [role EXCEPT ![u] = r] /\ cred' = [cred EXCEPT ![u] = c] /\ Goto(w, "session", k)
      \/ /\ Finish(w) /\ UNCHANGED <<role, cred>>
  BY DEF CreateUser
<1>3. u \in Uids /\ role[u] = "none"
  BY <1>1, NextFresh, ConstantsAssumption DEF IInv, Typed, RowsTyped, Uids
<1> HIDE DEF u
<1>4. /\ job[w] \in JobType /\ job[w].token \in Tids /\ clock \in Nat
      /\ tokens[job[w].token].born \in Nat /\ tokens[job[w].token].born <= clock
      /\ cred \in [Uids -> CredRow] /\ role \in [Uids -> {"none", "user", "admin", "gone"}]
  BY <1>1 DEF IInv, Typed, RowsTyped, WorkTyped, JobsOK, JobOK, Past, TokenRow
<1>5. /\ c \in CredRow /\ c.setAt = clock /\ c.link = tokens[job[w].token].born
      /\ c.version = 1 /\ c.password = job[w].password
  BY <1>4, EmptyRows DEF CredRow, JobType
<1>6. r \in {"admin", "user"} /\ (r = "admin" => job[w].first)
  OBVIOUS
<1>7. /\ k \in JobType /\ k.user = u /\ k.version = 1 /\ k.password = job[w].password
      /\ k.token = job[w].token /\ k.now = job[w].now /\ k.purpose = job[w].purpose
      /\ k.email = job[w].email
  BY <1>3, <1>4 DEF JobType
<1> HIDE DEF c, r, k
<1>8. \A v \in Workers \ {w} : pc[v] # "create"
  BY <1>1 DEF IInv, LockOK
<1>9. faults' \in Nat /\ faults <= faults'
  BY <1>1 DEF IInv, Typed, CountsTyped
<1>10. CASE Finish(w) /\ UNCHANGED <<role, cred>>
  <2>1. Goto(w, "idle", NoJob) /\ "idle" \in Steps \ {"create"}
    BY <1>10, FinishGoes
  <2>2. /\ pc' \in [Workers -> Steps] /\ job' \in [Workers -> JobType]
        /\ pc'[w] = "idle" /\ job'[w] = NoJob
        /\ \A v \in Workers \ {w} : pc'[v] = pc[v] /\ job'[v] = job[v]
    BY <2>1, EmptyRows, GotoMoves DEF IInv, Typed
  <2>3. Typed'
    BY <1>1, <1>10, <2>2 DEF IInv, Typed, RowsTyped, CountsTyped, WorkTyped
  <2>4. Past' /\ KnownOK'
    BY <1>1, <1>4, <1>10, <2>2, EmptyRows, NobodyHasId0 DEF IInv, Past, KnownOK, Named
  <2>5. TokensKept
    BY <1>1, <1>10, TokensSame
  <2>6. JobsOK'
    <3>1. JobOK(w)'
      BY <2>2, EmptyRows DEF JobOK
    <3>2. \A v \in Workers \ {w} : JobOK(v)'
      BY <2>2, <2>5, JobKept DEF IInv, JobsOK
    <3> QED
      BY <3>1, <3>2 DEF JobsOK
  <2>7. LockOK'
    BY <1>1, <1>8, <1>10, <2>2, ConstantsAssumption DEF IInv, LockOK
  <2>8. MailsOK'
    BY <1>1, <1>9, <2>1, EmptyRows, MailsKept
  <2>9. LinksOK' /\ SessionsOK'
    BY <1>1, <1>10, <2>2 DEF IInv, LinksOK, SessionsOK, SessionOK, Stands, Registered
  <2> QED
    BY <2>3, <2>4, <2>6, <2>7, <2>8, <2>9 DEF IInv
<1>11. CASE role' = [role EXCEPT ![u] = r] /\ cred' = [cred EXCEPT ![u] = c] /\ Goto(w, "session", k)
  <2>1. "session" \in Steps \ {"create"}
    BY DEF Steps
  <2>2. /\ pc' \in [Workers -> Steps] /\ job' \in [Workers -> JobType]
        /\ pc'[w] = "session" /\ job'[w] = k
        /\ \A v \in Workers \ {w} : pc'[v] = pc[v] /\ job'[v] = job[v]
    BY <1>7, <1>11, <2>1, GotoMoves DEF IInv, Typed
  <2>3. /\ role'[u] = r /\ cred'[u] = c
        /\ \A v \in Uids \ {u} : role'[v] = role[v] /\ cred'[v] = cred[v]
        /\ cred' \in [Uids -> CredRow] /\ role' \in [Uids -> {"none", "user", "admin", "gone"}]
    BY <1>3, <1>4, <1>5, <1>6, <1>11
  <2>4. /\ \A v \in Uids : role[v] # "none" => v # u /\ role'[v] = role[v] /\ cred'[v] = cred[v]
        /\ \A v : v \in Registered' => v = u \/ v \in Registered
    BY <1>3, <2>3 DEF Registered
  <2>5. Typed'
    BY <1>1, <2>2, <2>3 DEF IInv, Typed, RowsTyped, CountsTyped, WorkTyped
  <2>6. Past'
    <3>1. \A v \in Uids : cred'[v].setAt <= clock /\ cred'[v].link <= clock
      BY <1>4, <1>5, <2>3 DEF IInv, Past
    <3> QED
      BY <1>1, <1>7, <2>2, <3>1 DEF IInv, Past
  <2>7. KnownOK'
    <3>1. \A v : Named(v) => Named(v)'
      BY <2>4 DEF Named
    <3>2. Named(job[w].user)'
      BY <1>6, <1>7, <2>2, <2>3 DEF Named
    <3> QED
      BY <1>1, <2>2, <3>1, <3>2 DEF IInv, KnownOK
  <2>8. TokensKept
    <3>1. \A v : Named(v) => Named(v)'
      BY <2>4 DEF Named
    <3> QED
      BY <1>1, <1>4, <3>1 DEF IInv, Typed, RowsTyped, Past, KnownOK, TokensKept
  <2>9. JobsOK'
    <3>1. JobOK(w)'
      BY <1>7, <2>2 DEF IInv, JobsOK, JobOK
    <3>2. \A v \in Workers \ {w} : JobOK(v)'
      BY <2>2, <2>8, JobKept DEF IInv, JobsOK
    <3> QED
      BY <3>1, <3>2 DEF JobsOK
  <2>10. LockOK'
    <3>1. \A v \in Workers : pc'[v] # "create" /\ adminLock' # v
      BY <1>1, <1>8, <2>2, ConstantsAssumption
    <3>2. \A v, x \in Uids : role'[v] = "admin" /\ role'[x] = "admin" => v = x
      <4>1. r = "admin" => \A v \in Uids \ {u} : role'[v] # "admin"
        BY <1>1, <1>6, <2>3 DEF IInv, LockOK, Registered
      <4> QED
        BY <2>3, <4>1 DEF IInv, LockOK
    <3> QED
      BY <3>1, <3>2 DEF LockOK
  <2>11. MailsOK'
    BY <1>1, <1>7, <1>9, <1>11, <2>1, MailsKept
  <2>12. LinksOK'
    BY <1>1, <1>4, <1>5, <2>3, <2>4 DEF IInv, LinksOK, Registered
  <2>13. SessionsOK'
    <3>1. \A v, n, p : Named(v) /\ Stands(v, n, p) => Stands(v, n, p)'
      BY <1>1, <2>4 DEF Stands, Named, Registered
    <3>2. \A s \in Sids : SessionOK(s)'
      BY <1>1, <2>4, <3>1 DEF IInv, SessionsOK, SessionOK, KnownOK, Named, Registered
    <3>3. Stands(job[w].user, job[w].version, job[w].password)'
      BY <1>5, <1>7, <2>2, <2>3 DEF Stands
    <3>4. ASSUME NEW v \in Workers \ {w}, pc'[v] = "session"
          PROVE  Stands(job[v].user, job[v].version, job[v].password)'
      <4>1. /\ pc[v] = "session" /\ job'[v] = job[v] /\ Named(job[v].user)
            /\ Stands(job[v].user, job[v].version, job[v].password)
        BY <2>2, <3>4 DEF IInv, SessionsOK, KnownOK
      <4> QED
        BY <1>1, <2>4, <4>1 DEF Stands, Named, Registered
    <3> QED
      BY <3>2, <3>3, <3>4 DEF SessionsOK
  <2> QED
    BY <2>5, <2>6, <2>7, <2>9, <2>10, <2>11, <2>12, <2>13 DEF IInv
<1> QED
  BY <1>2, <1>10, <1>11

-----------------------------------------------------------------------------
\* Passwords.

LEMMA HashDoneStep ==
    ASSUME IInv, NEW w \in Workers, HashDone(w)
    PROVE  IInv'
<1> DEFINE j == [job[w] EXCEPT !.now = clock]
<1>1. /\ pc[w] = "hash" /\ Goto(w, "store", j)
      /\ UNCHANGED <<accounts, tokens, sessions, events, sent, adminLock, requests, overwritten, faults>>
  BY DEF HashDone
<1>2. job[w] \in JobType /\ Named(job[w].user) /\ clock \in Nat
  BY DEF IInv, Typed, RowsTyped, WorkTyped, KnownOK
<1>3. /\ j \in JobType /\ j.token = job[w].token /\ j.now = clock /\ j.purpose = job[w].purpose
      /\ j.email = job[w].email /\ j.user = job[w].user
  BY <1>2 DEF JobType
<1> HIDE DEF j
<1>4. "store" \in Steps \ {"create"}
  BY DEF Steps
<1>5. pc'[w] = "store" /\ job'[w] = j
  BY <1>1, <1>3, <1>4, GotoMoves DEF IInv, Typed
<1>6. TokensKept /\ clock' \in Nat /\ clock <= clock'
  BY <1>1, TokensSame DEF accounts
<1>7. JobOK(w)'
  <2>1. job[w].token # 0 => job[w].token \in Tids
    BY <1>2 DEF JobType
  <2> QED
    BY <1>1, <1>3, <1>5, <2>1 DEF IInv, JobsOK, JobOK, Past
<1>8. CountsTyped' /\ sessions' \in [Sids -> SessionRow] /\ faults' \in Nat /\ faults <= faults'
  BY <1>1, ConstantsAssumption DEF IInv, Typed, RowsTyped, CountsTyped
<1>9. MailsOK'
  BY <1>1, <1>3, <1>4, <1>8, MailsKept
<1>10. \A s \in Sids : SessionOK(s)' /\ Named(sessions[s].user)'
  BY <1>1, SessionsKept DEF accounts
<1>11. StillNamed(j.user) /\ j.now <= clock'
  BY <1>1, <1>2, <1>3 DEF StillNamed, Named, accounts
<1> QED
  BY <1>1, <1>3, <1>4, <1>6, <1>7, <1>8, <1>9, <1>10, <1>11, WorkerStep DEF accounts

\* A credential that changes keeps the versions of what others hold apart from
\* its own: it moves to a higher version, or keeps its password, unless that is
\* noted as overwritten.
Supersedes(u) ==
    /\ cred[u].version <= cred'[u].version
    /\ overwritten \subseteq overwritten'
    /\ cred'[u].version = cred[u].version /\ "password" \notin overwritten' =>
          cred'[u].password = cred[u].password

LEMMA StandsBehind ==
    ASSUME IInv, NEW u \in Uids, Supersedes(u), cred' \in [Uids -> CredRow], UNCHANGED role,
           \A v \in Uids \ {u} : cred'[v] = cred[v],
           NEW v, NEW n \in Nat, NEW p, Stands(v, n, p)
    PROVE  Stands(v, n, p)'
<1>1. Registered' = Registered /\ Registered \subseteq Uids
  BY DEF Registered
<1>2. ASSUME v \in Registered
      PROVE  /\ n <= cred'[v].version
             /\ n = cred'[v].version /\ "password" \notin overwritten' => p = cred'[v].password
  <2>1. cred[v].version \in Nat /\ cred'[v].version \in Nat
    BY <1>1, <1>2 DEF IInv, Typed, RowsTyped, CredRow
  <2>2. /\ n <= cred[v].version
        /\ n = cred[v].version /\ "password" \notin overwritten => p = cred[v].password
    BY <1>2 DEF Stands
  <2>3. CASE v = u
    BY <2>1, <2>2, <2>3 DEF Supersedes
  <2>4. CASE v # u
    BY <1>1, <1>2, <2>2, <2>4 DEF Supersedes
  <2> QED
    BY <2>3, <2>4
<1> QED
  BY <1>1, <1>2 DEF Stands

LEMMA VersionKnown ==
    ASSUME NEW u, NEW w
    PROVE  VersionAfter(u, job[w].token # 0) =
              cred[u].version + (IF job[w].token # 0 THEN 1 ELSE 0)
BY DEF VersionAfter

LEMMA StoreMakesWay ==
    ASSUME IInv, NEW w \in Workers, NEW u \in Uids, job[w].token # 0 => job[w].token \in Tids,
           cred' = [cred EXCEPT ![u].password = job[w].password, ![u].weak = FALSE,
                                ![u].setAt = job[w].now, ![u].activate = FALSE,
                                ![u].version = VersionAfter(u, job[w].token # 0),
                                ![u].link = IF job[w].token # 0 THEN tokens[job[w].token].born ELSE @],
           overwritten' = overwritten \cup (IF job[w].token # 0 THEN {} ELSE Outdates(u, job[w]))
    PROVE  /\ cred' \in [Uids -> CredRow]
           /\ \A v \in Uids \ {u} : cred'[v] = cred[v]
           /\ cred'[u].password = job[w].password /\ cred'[u].setAt = job[w].now
           /\ cred'[u].link = IF job[w].token # 0 THEN tokens[job[w].token].born ELSE cred[u].link
           /\ Supersedes(u)
<1>1. /\ cred \in [Uids -> CredRow] /\ cred[u].version \in Nat /\ cred[u].link \in Nat
      /\ job[w].password \in Passwords \cup {NoOne} /\ job[w].now \in Nat
      /\ job[w].token # 0 => tokens[job[w].token].born \in Nat
  BY DEF IInv, Typed, RowsTyped, WorkTyped, TokenRow, JobType, CredRow
<1> DEFINE version == cred[u].version + (IF job[w].token # 0 THEN 1 ELSE 0)
           link == IF job[w].token # 0 THEN tokens[job[w].token].born ELSE cred[u].link
<1>2. version \in Nat /\ link \in Nat
  BY <1>1
<1> DEFINE c == [cred[u] EXCEPT !.password = job[w].password, !.weak = FALSE,
                                !.setAt = job[w].now, !.activate = FALSE,
                                !.version = version, !.link = link]
<1>3. cred'[u] = c /\ \A v \in Uids \ {u} : cred'[v] = cred[v]
  BY <1>1, VersionKnown
<1>4. /\ c \in CredRow /\ c.password = job[w].password /\ c.setAt = job[w].now
      /\ c.version = version /\ c.link = link
  <2>1. cred[u] \in CredRow
    BY <1>1
  <2> HIDE DEF version, link
  <2> QED
    BY <1>1, <1>2, <2>1 DEF CredRow
<1> HIDE DEF c
<1>5. cred' \in [Uids -> CredRow]
  <2>1. DOMAIN cred' = Uids /\ cred' = [v \in Uids |-> cred'[v]]
    BY <1>1
  <2>2. \A v \in Uids : cred'[v] \in CredRow
    BY <1>1, <1>3, <1>4
  <2> QED
    BY <2>1, <2>2
<1>6. Supersedes(u)
  <2>1. overwritten \subseteq overwritten'
    OBVIOUS
  <2>2. cred'[u].version = version /\ cred'[u].password = job[w].password
    BY <1>3, <1>4
  <2>3. CASE job[w].token # 0
    <3>1. version = cred[u].version + 1
      BY <2>3
    <3> QED
      BY <1>1, <2>1, <2>2, <3>1 DEF Supersedes
  <2>4. CASE job[w].token = 0
    <3>1. version = cred[u].version
      BY <1>1, <2>4
    <3>2. cred[u].password # job[w].password => "password" \in overwritten'
      BY <2>4 DEF Outdates
    <3> HIDE DEF version
    <3> QED
      BY <1>1, <2>1, <2>2, <3>1, <3>2 DEF Supersedes
  <2> QED
    BY <2>3, <2>4
<1> QED
  BY <1>3, <1>4, <1>5, <1>6

\* A request that ends, whatever it has counted as a login.
LEMMA RequestEnds ==
    ASSUME IInv, NEW w \in Workers, Finish(w), pc[w] # "create",
           UNCHANGED <<accounts, tokens, adminLock, overwritten, sent>>, CountsTyped',
           faults <= faults', \A a \in Purposes, e \in Addresses : events'[<<a, e>>] = events[<<a, e>>],
           sessions' \in [Sids -> SessionRow],
           \A s \in Sids : SessionOK(s)' /\ Named(sessions[s].user)'
    PROVE  IInv'
<1>1. Goto(w, "idle", NoJob) /\ "idle" \in Steps \ {"create"}
  BY FinishGoes
<1>2. pc'[w] = "idle" /\ job'[w] = NoJob
  BY <1>1, EmptyRows, GotoMoves DEF IInv, Typed
<1>3. JobOK(w)'
  BY <1>2, EmptyRows DEF JobOK
<1>4. TokensKept /\ clock' \in Nat /\ clock <= clock'
  BY TokensSame DEF accounts
<1>5. faults' \in Nat
  BY DEF CountsTyped
<1>6. MailsOK'
  BY <1>1, <1>5, EmptyRows, MailsKept
<1>7. StillNamed(NoJob.user) /\ NoJob.now <= clock'
  BY <1>4, EmptyRows, NobodyHasId0 DEF StillNamed
<1> QED
  BY <1>1, <1>3, <1>4, <1>6, <1>7, EmptyRows, WorkerStep DEF accounts

LEMMA StorePasswordStep ==
    ASSUME IInv, NEW w \in Workers, StorePassword(w)
    PROVE  IInv'
<1> DEFINE u == job[w].user
           k == [job[w] EXCEPT !.version = cred'[u].version]
<1>1. /\ pc[w] = "store"
      /\ UNCHANGED <<clock, role, sessions, events, sent, adminLock, requests, faults>>
  BY DEF StorePassword
<1>2. /\ job[w] \in JobType /\ (job[w].token # 0 => job[w].token \in Tids)
      /\ Named(job[w].user)
  BY DEF IInv, Typed, WorkTyped, JobType, KnownOK
<1>3. CASE Finish(w) /\ UNCHANGED <<cred, tokens, overwritten>>
  <2>1. CountsTyped' /\ sessions' \in [Sids -> SessionRow] /\ faults <= faults'
    BY <1>1, <1>3, ConstantsAssumption DEF IInv, Typed, RowsTyped, CountsTyped
  <2>2. \A s \in Sids : SessionOK(s)' /\ Named(sessions[s].user)'
    BY <1>1, <1>3, SessionsKept
  <2> QED
    BY <1>1, <1>3, <2>1, <2>2, RequestEnds DEF accounts
<1>4. ASSUME u \in Registered, job[w].token = 0 \/ Newer(u, job[w].token),
             cred' = [cred EXCEPT ![u].password = job[w].password, ![u].weak = FALSE,
                                ![u].setAt = job[w].now, ![u].activate = FALSE,
                                ![u].version = VersionAfter(u, job[w].token # 0),
                                ![u].link = IF job[w].token # 0 THEN tokens[job[w].token].born ELSE @],
             overwritten' = overwritten \cup (IF job[w].token # 0 THEN {} ELSE Outdates(u, job[w])),
             tokens' = [t \in Tids |-> IF tokens[t].user = u THEN [tokens[t] EXCEPT !.state = "over"]
                                       ELSE tokens[t]],
             Goto(w, "session", k)
      PROVE  IInv'
  <2>1. /\ u \in Uids /\ role[u] # "none"
    BY <1>4 DEF Registered
  <2>2. /\ cred' \in [Uids -> CredRow]
        /\ \A v \in Uids \ {u} : cred'[v] = cred[v]
        /\ cred'[u].password = job[w].password /\ cred'[u].setAt = job[w].now
        /\ cred'[u].link = IF job[w].token # 0 THEN tokens[job[w].token].born ELSE cred[u].link
        /\ Supersedes(u)
    <3> HIDE DEF u
    <3> QED
      BY <1>2, <1>4, <2>1, StoreMakesWay
  <2>3. /\ k \in JobType /\ k.user = u /\ k.password = job[w].password /\ k.version = cred'[u].version
        /\ k.token = job[w].token /\ k.now = job[w].now /\ k.purpose = job[w].purpose
        /\ k.email = job[w].email
    <3>1. cred'[u].version \in Nat
      BY <2>1, <2>2 DEF CredRow
    <3> QED
      BY <1>2, <3>1 DEF JobType
  <2>4. /\ tokens' \in [Tids -> TokenRow]
        /\ \A t \in Tids : /\ tokens[t].state = "over" => tokens'[t].state = "over"
                           /\ tokens'[t].born = tokens[t].born
                           /\ tokens'[t].user = tokens[t].user
    <3>1. ASSUME NEW t \in Tids
          PROVE  /\ tokens'[t] \in TokenRow
                 /\ tokens[t].state = "over" => tokens'[t].state = "over"
                 /\ tokens'[t].born = tokens[t].born
                 /\ tokens'[t].user = tokens[t].user
      <4>1. tokens[t] \in TokenRow /\ tokens'[t] \in {tokens[t], [tokens[t] EXCEPT !.state = "over"]}
        BY <1>4 DEF IInv, Typed, RowsTyped
      <4> QED
        BY <4>1 DEF TokenRow
    <3>2. tokens' = [t \in Tids |-> tokens'[t]]
      BY <1>4
    <3> QED
      BY <3>1, <3>2
  <2>5. TokensKept
    BY <1>1, <2>4, TokensMove
  <2>6. "session" \in Steps
    BY DEF Steps
  <2> HIDE DEF k
  <2>7. /\ pc' \in [Workers -> Steps] /\ job' \in [Workers -> JobType]
        /\ pc'[w] = "session" /\ job'[w] = k
        /\ \A v \in Workers \ {w} : pc'[v] = pc[v] /\ job'[v] = job[v]
    BY <1>4, <2>3, <2>6, GotoMoves DEF IInv, Typed
  <2>8. Typed'
    <3>1. overwritten' \subseteq {"password", "time"}
      BY <1>4 DEF IInv, Typed, CountsTyped, Outdates
    <3> QED
      BY <1>1, <2>2, <2>4, <2>7, <3>1 DEF IInv, Typed, RowsTyped, CountsTyped, WorkTyped
  <2>9. job[w].token # 0 => /\ tokens[job[w].token].born <= job[w].now
                            /\ tokens[job[w].token].born \in Nat
    BY <1>1, <1>2 DEF IInv, JobsOK, JobOK, Typed, RowsTyped, TokenRow
  <2>10. Past'
    <3>1. job[w].now <= clock /\ job[w].now \in Nat /\ clock \in Nat
      BY <1>2 DEF IInv, Past, Typed, RowsTyped, JobType
    <3>2. cred'[u].setAt <= clock /\ cred'[u].link <= clock
      <4>1. cred[u].link <= clock
        BY <2>1 DEF IInv, Past
      <4> QED
        BY <2>2, <2>9, <3>1, <4>1
    <3>3. \A v \in Uids : cred'[v].setAt <= clock' /\ cred'[v].link <= clock'
      BY <1>1, <2>2, <3>2 DEF IInv, Past
    <3>4. \A v \in Workers : job'[v].now <= clock'
      BY <1>1, <2>3, <2>7 DEF IInv, Past
    <3> QED
      BY <2>5, <3>3, <3>4 DEF Past, TokensKept
  <2>11. JobsOK'
    <3>1. JobOK(w)'
      BY <2>3, <2>7 DEF IInv, JobsOK, JobOK
    <3>2. \A v \in Workers \ {w} : JobOK(v)'
      BY <2>5, <2>7, JobKept DEF IInv, JobsOK
    <3> QED
      BY <3>1, <3>2 DEF JobsOK
  <2>12. LockOK'
    BY <1>1, <1>4, <2>3, <2>6, LocksKept DEF IInv, Typed, RowsTyped
  <2>13. MailsOK'
    <3>1. faults' \in Nat /\ faults <= faults'
      BY <1>1 DEF IInv, Typed, CountsTyped
    <3> QED
      BY <1>1, <1>4, <2>3, <2>6, <3>1, MailsKept
  <2>14. KnownOK'
    BY <1>1, <1>2, <2>3, <2>4, <2>7 DEF IInv, KnownOK, Named
  <2>15. LinksOK'
    <3> SUFFICES ASSUME "time" \notin overwritten', NEW v \in Registered
                 PROVE  cred'[v].link <= cred'[v].setAt
      BY <1>1 DEF LinksOK, Registered
    <3>1. "time" \notin overwritten /\ v \in Uids
      BY <1>4 DEF Registered
    <3>2. cred[v].link <= cred[v].setAt
      BY <3>1 DEF IInv, LinksOK
    <3>3. CASE v # u
      BY <2>2, <3>1, <3>2, <3>3
    <3>4. CASE v = u /\ job[w].token # 0
      BY <2>2, <2>9, <3>4
    <3>5. CASE v = u /\ job[w].token = 0
      <4>1. ~(job[w].now < cred[u].setAt)
        BY <1>4, <3>5 DEF Outdates
      <4>2. cred[u].setAt \in Nat /\ cred[u].link \in Nat /\ job[w].now \in Nat
        BY <1>2, <2>1 DEF IInv, Typed, RowsTyped, CredRow, JobType
      <4>3. cred'[v].link = cred[u].link /\ cred'[v].setAt = job[w].now
        BY <2>2, <3>5
      <4> QED
        BY <3>2, <3>5, <4>1, <4>2, <4>3
    <3> QED
      BY <3>3, <3>4, <3>5
  <2>16. SessionsOK'
    <3>1. ASSUME NEW v, NEW n \in Nat, NEW p, Stands(v, n, p)
          PROVE  Stands(v, n, p)'
      BY <1>1, <2>1, <2>2, <3>1, StandsBehind
    <3>2. ASSUME NEW s \in Sids PROVE SessionOK(s)'
      <4>1. sessions[s].version \in Nat /\ SessionOK(s) /\ sessions'[s] = sessions[s]
        BY <1>1 DEF IInv, SessionsOK, Typed, RowsTyped, SessionRow
      <4>2. Stands(sessions[s].user, sessions[s].version, sessions[s].password)'
        BY <3>1, <4>1 DEF SessionOK, Stands
      <4>3. \A v \in Registered : cred[v].version <= cred'[v].version
                                  /\ cred[v].version \in Nat /\ cred'[v].version \in Nat
        BY <2>2 DEF Registered, Supersedes, IInv, Typed, RowsTyped, CredRow
      <4>4. Registered' = Registered
        BY <1>1 DEF Registered
      <4> QED
        BY <4>1, <4>2, <4>3, <4>4 DEF SessionOK
    <3>3. Stands(job[w].user, job[w].version, job[w].password)'
      <4>1. cred'[u].version \in Nat
        BY <2>1, <2>2 DEF CredRow
      <4> QED
        BY <2>2, <2>3, <2>7, <4>1 DEF Stands
    <3>4. ASSUME NEW v \in Workers \ {w}, pc'[v] = "session"
          PROVE  Stands(job[v].user, job[v].version, job[v].password)'
      <4>1. /\ pc[v] = "session" /\ job'[v] = job[v] /\ job[v].version \in Nat
            /\ Stands(job[v].user, job[v].version, job[v].password)
        BY <2>7, <3>4 DEF IInv, SessionsOK, Typed, WorkTyped, JobType
      <4> QED
        BY <3>1, <4>1 DEF Stands
    <3> QED
      BY <3>2, <3>3, <3>4 DEF SessionsOK
  <2> QED
    BY <2>8, <2>10, <2>11, <2>12, <2>13, <2>14, <2>15, <2>16 DEF IInv
<1> QED
  BY <1>3, <1>4 DEF StorePassword

-----------------------------------------------------------------------------
\* Sessions.

LEMMA LoginStep ==
    ASSUME IInv, NEW w \in Workers, NEW e \in Addresses, NEW p \in Passwords, Login(w, e, p)
    PROVE  IInv'
<1> DEFINE u == UserAt(e)
           step == IF cred[u].weak THEN "hash" ELSE "session"
           j == [NoJob EXCEPT !.email = e, !.password = p, !.purpose = "login",
                              !.user = u, !.version = cred[u].version]
<1>1. /\ pc[w] = "idle" /\ requests' = requests + 1 /\ requests < MaxRequests
      /\ UNCHANGED <<accounts, tokens, sessions, sent, adminLock, overwritten, faults>>
  BY DEF Login, Begin, Idle
<1>2. u \in Registered \cup {0}
  BY UserAtKnown
<1>3. TokensKept /\ clock' \in Nat /\ clock <= clock'
  BY <1>1, TokensSame DEF accounts
<1>4. \A s \in Sids : SessionOK(s)' /\ Named(sessions[s].user)'
  BY <1>1, SessionsKept DEF accounts
<1>5. CASE Matches(u, p) /\ Goto(w, step, j) /\ UNCHANGED events
  <2>1. u \in Registered /\ u \in Uids /\ role[u] # "none" /\ cred[u].version \in Nat /\ cred[u].password = p
    BY <1>2, <1>5 DEF Matches, Registered, IInv, Typed, RowsTyped, CredRow
  <2>2. step \in Steps \ {"create"} /\ step \in {"hash", "session"}
    BY DEF Steps
  <2>3. /\ j \in JobType /\ j.email = e /\ j.password = p /\ j.purpose = "login" /\ j.user = u
        /\ j.version = cred[u].version /\ j.token = 0 /\ j.now = 0
    <3> HIDE DEF u
    <3> QED
      BY <2>1, EmptyRows DEF JobType
  <2> HIDE DEF j, step
  <2>4. pc'[w] = step /\ job'[w] = j
    BY <1>5, <2>2, <2>3, GotoMoves DEF IInv, Typed
  <2>5. JobOK(w)'
    BY <2>2, <2>3, <2>4 DEF JobOK
  <2>6. CountsTyped' /\ sessions' \in [Sids -> SessionRow] /\ faults' \in Nat /\ faults <= faults'
    BY <1>1, <1>5, ConstantsAssumption DEF IInv, Typed, RowsTyped, CountsTyped
  <2>7. MailsOK'
    BY <1>1, <1>5, <2>2, <2>3, <2>6, MailsKept
  <2>8. StillNamed(j.user) /\ j.now <= clock'
    BY <1>1, <1>3, <2>1, <2>3 DEF StillNamed, accounts
  <2>9. Stands(j.user, j.version, j.password)
    BY <2>1, <2>3 DEF Stands
  <2> QED
    BY <1>1, <1>3, <1>4, <1>5, <2>2, <2>3, <2>5, <2>6, <2>7, <2>8, <2>9, WorkerStep DEF accounts
<1>6. CASE events' = Counted("login", e) /\ UNCHANGED <<pc, job>>
  <2>1. /\ events' \in Counts
        /\ \A a \in Purposes, f \in Addresses : events'[<<a, f>>] = events[<<a, f>>]
    BY <1>6, PurposesNamed DEF Counted, Counts, IInv, Typed, CountsTyped
  <2>2. Typed'
    BY <1>1, <1>6, <2>1, ConstantsAssumption DEF IInv, Typed, RowsTyped, CountsTyped, WorkTyped, accounts
  <2>3. Past' /\ JobsOK' /\ LockOK' /\ KnownOK' /\ LinksOK' /\ SessionsOK'
    BY <1>1, <1>6 DEF IInv, Past, JobsOK, JobOK, LockOK, KnownOK, Named, LinksOK, SessionsOK,
                      SessionOK, Stands, Registered, accounts
  <2>4. MailsOK'
    <3>1. \A a, f : UnderWay(a, f)' = UnderWay(a, f)
      BY <1>6 DEF UnderWay
    <3> QED
      BY <1>1, <2>1, <3>1 DEF IInv, MailsOK
  <2> QED
    BY <2>2, <2>3, <2>4 DEF IInv
<1> QED
  BY <1>5, <1>6 DEF Login

LEMMA OpenSessionStep ==
    ASSUME IInv, NEW w \in Workers, OpenSession(w)
    PROVE  IInv'
<1> DEFINE s == Min(Fresh(sessions, NoSession))
<1>1. /\ pc[w] = "session" /\ Fresh(sessions, NoSession) # {} /\ Finish(w)
      /\ events' = IF job[w].purpose = "login" THEN Counted("login", job[w].email) ELSE events
      /\ UNCHANGED <<accounts, tokens, sent, adminLock, requests, overwritten>>
  BY DEF OpenSession
<1>2. /\ job[w] \in JobType /\ (job[w].purpose = "login" => job[w].email \in Addresses)
      /\ Stands(job[w].user, job[w].version, job[w].password) /\ Named(job[w].user)
  BY <1>1 DEF IInv, Typed, WorkTyped, JobsOK, JobOK, SessionsOK, KnownOK
<1>3. /\ events' \in Counts
      /\ \A a \in Purposes, f \in Addresses : events'[<<a, f>>] = events[<<a, f>>]
  <2>1. CASE job[w].purpose = "login"
    BY <1>1, <1>2, <2>1, PurposesNamed DEF Counted, Counts, IInv, Typed, CountsTyped
  <2>2. CASE job[w].purpose # "login"
    BY <1>1, <2>2 DEF IInv, Typed, CountsTyped
  <2> QED
    BY <2>1, <2>2
<1>4. CASE UNCHANGED <<sessions, faults>>
  <2>1. CountsTyped' /\ sessions' \in [Sids -> SessionRow] /\ faults <= faults'
    BY <1>1, <1>3, <1>4, ConstantsAssumption DEF IInv, Typed, RowsTyped, CountsTyped
  <2>2. \A t \in Sids : SessionOK(t)' /\ Named(sessions[t].user)'
    BY <1>1, <1>4, SessionsKept DEF accounts
  <2> QED
    BY <1>1, <1>3, <2>1, <2>2, RequestEnds
<1>5. ASSUME NEW listed \in BOOLEAN,
             IF listed THEN UNCHANGED faults ELSE Fault,
             sessions' = [sessions EXCEPT ![s] =
                [NoSession EXCEPT !.user = job[w].user, !.version = VersionRead(w),
                                  !.password = job[w].password, !.listed = listed]]
      PROVE  IInv'
  <2> DEFINE row == [NoSession EXCEPT !.user = job[w].user, !.version = VersionRead(w),
                                      !.password = job[w].password, !.listed = listed]
  <2>1. s \in Sids /\ sessions \in [Sids -> SessionRow]
    BY <1>1, NextFresh, ConstantsAssumption DEF IInv, Typed, RowsTyped, Sids
  <2>2. /\ row \in SessionRow /\ row.user = job[w].user /\ row.version = job[w].version
        /\ row.password = job[w].password /\ ~row.over
    <3>1. /\ job[w].user \in Uids \cup {0} /\ job[w].version \in Nat
          /\ job[w].password \in Passwords \cup {NoOne}
      BY <1>2 DEF JobType
    <3> QED
      BY <3>1, EmptyRows DEF SessionRow, NoSession, VersionRead
  <2> HIDE DEF row, s
  <2>3. sessions' = [sessions EXCEPT ![s] = row]
    BY <1>5 DEF row
  <2>4. sessions' \in [Sids -> SessionRow] /\ sessions'[s] = row
        /\ \A t \in Sids \ {s} : sessions'[t] = sessions[t]
    BY <2>1, <2>2, <2>3
  <2>5. CountsTyped' /\ faults <= faults'
    BY <1>1, <1>3, <1>5, ConstantsAssumption DEF IInv, Typed, CountsTyped, Fault
  <2>6. ASSUME NEW t \in Sids PROVE SessionOK(t)' /\ Named(sessions[t].user)'
    <3>1. CASE t # s
      BY <1>1, <2>4, <3>1 DEF IInv, SessionsOK, SessionOK, Stands, Registered, KnownOK, Named, accounts
    <3>2. CASE t = s
      BY <1>1, <1>2, <2>2, <2>4, <3>2 DEF SessionOK, Stands, Registered, Named, accounts
    <3> QED
      BY <3>1, <3>2
  <2> QED
    BY <1>1, <1>3, <2>4, <2>5, <2>6, RequestEnds
<1> QED
  BY <1>4, <1>5 DEF OpenSession

\* A session whose row is taken off the list.
LEMMA Unlisted ==
    ASSUME IInv, NEW S \in SUBSET Sids, UNCHANGED <<role, cred, overwritten>>,
           sessions' = [r \in Sids |-> IF r \in S THEN [sessions[r] EXCEPT !.listed = FALSE]
                                       ELSE sessions[r]]
    PROVE  /\ sessions' \in [Sids -> SessionRow]
           /\ \A s \in Sids : SessionOK(s)' /\ Named(sessions[s].user)'
<1>1. ASSUME NEW r \in Sids
      PROVE  /\ sessions'[r] \in SessionRow
             /\ sessions'[r].user = sessions[r].user /\ sessions'[r].version = sessions[r].version
             /\ sessions'[r].password = sessions[r].password /\ sessions'[r].over = sessions[r].over
  <2>1. sessions[r] \in SessionRow
    BY DEF IInv, Typed, RowsTyped
  <2> QED
    BY <2>1 DEF SessionRow
<1>2. sessions' \in [Sids -> SessionRow]
  BY <1>1
<1>3. \A s \in Sids : SessionOK(s)'
  BY <1>1, SessionKept DEF IInv, SessionsOK
<1>4. \A s \in Sids : Named(sessions[s].user)'
  BY <1>1 DEF IInv, KnownOK, Named
<1> QED
  BY <1>2, <1>3, <1>4

LEMMA LogoutStep ==
    ASSUME IInv, NEW s \in Sids, NEW r \in Sids, Logout(s) \/ DeleteSession(s, r)
    PROVE  IInv'
<1>1. UNCHANGED <<accounts, tokens, events, sent, working, overwritten, faults>>
  BY DEF Logout, DeleteSession
<1>2. PICK x \in Sids : sessions' = [sessions EXCEPT ![x].listed = FALSE]
  BY DEF Logout, DeleteSession
<1>3. sessions' = [y \in Sids |-> IF y \in {x} THEN [sessions[y] EXCEPT !.listed = FALSE] ELSE sessions[y]]
  BY <1>2 DEF IInv, Typed, RowsTyped
<1>4. /\ sessions' \in [Sids -> SessionRow]
      /\ \A y \in Sids : SessionOK(y)' /\ Named(sessions[y].user)'
  BY <1>1, <1>3, Unlisted DEF accounts
<1> QED
  BY <1>1, <1>4, TokensSame, RowsStep DEF accounts

LEMMA SessionExpiresStep ==
    ASSUME IInv, NEW s \in Sids, SessionExpires(s)
    PROVE  IInv'
<1>1. /\ sessions' = [sessions EXCEPT ![s] = NoSession]
      /\ UNCHANGED <<accounts, tokens, events, sent, working, overwritten, faults>>
  BY DEF SessionExpires
<1>2. sessions' \in [Sids -> SessionRow]
  BY <1>1, EmptyRows DEF IInv, Typed, RowsTyped
<1>3. ASSUME NEW t \in Sids PROVE SessionOK(t)' /\ Named(sessions[t].user)'
  <2>1. CASE t = s
    <3>1. sessions'[t].user = 0
      BY <1>1, <2>1, EmptyRows DEF IInv, Typed, RowsTyped
    <3> QED
      BY <3>1, NobodyHasId0 DEF SessionOK, Stands, Registered, Named
  <2>2. CASE t # s
    <3>1. sessions'[t] = sessions[t]
      BY <1>1, <2>2 DEF IInv, Typed, RowsTyped
    <3> QED
      BY <1>1, <3>1 DEF accounts, IInv, SessionsOK, SessionOK, Stands, Registered, KnownOK, Named
  <2> QED
    BY <2>1, <2>2
<1> QED
  BY <1>1, <1>2, <1>3, TokensSame, RowsStep DEF accounts

LEMMA LogoutAllRowsStep ==
    ASSUME IInv, NEW w \in Workers, NEW s \in Sids, LogoutAllRows(w, s)
    PROVE  IInv'
<1> DEFINE j == [NoJob EXCEPT !.user = sessions[s].user, !.purpose = "logout"]
<1>1. /\ pc[w] = "idle" /\ requests' = requests + 1 /\ requests < MaxRequests
      /\ sessions' = [r \in Sids |-> IF sessions[r].user = sessions[s].user
                                   THEN [sessions[r] EXCEPT !.listed = FALSE] ELSE sessions[r]]
      /\ Goto(w, "raise", j)
      /\ UNCHANGED <<accounts, tokens, events, sent, adminLock, overwritten, faults>>
  BY DEF LogoutAllRows, Begin, Idle
<1>2. /\ j \in JobType /\ j.user = sessions[s].user /\ j.purpose = "logout" /\ j.token = 0 /\ j.now = 0
  <2>1. sessions[s].user \in Uids \cup {0}
    BY DEF IInv, Typed, RowsTyped, SessionRow
  <2> QED
    BY <2>1, EmptyRows DEF JobType
<1> HIDE DEF j
<1>3. "raise" \in Steps \ {"create"}
  BY DEF Steps
<1>4. pc'[w] = "raise" /\ job'[w] = j
  BY <1>1, <1>2, <1>3, GotoMoves DEF IInv, Typed
<1>5. JobOK(w)'
  BY <1>2, <1>4 DEF JobOK
<1>6. CountsTyped' /\ faults' \in Nat /\ faults <= faults'
  BY <1>1, ConstantsAssumption DEF IInv, Typed, CountsTyped
<1>7. MailsOK'
  BY <1>1, <1>2, <1>3, <1>6, MailsKept
<1>8. TokensKept /\ clock' \in Nat /\ clock <= clock'
  BY <1>1, TokensSame DEF accounts
<1>9. /\ sessions' \in [Sids -> SessionRow]
      /\ \A y \in Sids : SessionOK(y)' /\ Named(sessions[y].user)'
  <2> DEFINE S == {r \in Sids : sessions[r].user = sessions[s].user}
  <2>1. sessions' = [r \in Sids |-> IF r \in S THEN [sessions[r] EXCEPT !.listed = FALSE] ELSE sessions[r]]
    BY <1>1
  <2>2. S \in SUBSET Sids
    OBVIOUS
  <2> HIDE DEF S
  <2> QED
    BY <1>1, <2>1, <2>2, Unlisted DEF accounts
<1>10. StillNamed(j.user) /\ j.now <= clock'
  BY <1>1, <1>2, <1>8 DEF IInv, KnownOK, Named, StillNamed, accounts
<1> QED
  BY <1>1, <1>2, <1>3, <1>5, <1>6, <1>7, <1>8, <1>9, <1>10, WorkerStep DEF accounts

LEMMA LogoutAllVersionStep ==
    ASSUME IInv, NEW w \in Workers, LogoutAllVersion(w)
    PROVE  IInv'
<1> DEFINE u == job[w].user
<1>1. /\ pc[w] = "raise" /\ Finish(w)
      /\ UNCHANGED <<clock, role, tokens, events, sent, adminLock, requests, overwritten>>
  BY DEF LogoutAllVersion
<1>2. CASE Fault /\ UNCHANGED <<cred, sessions>>
  <2>1. CountsTyped' /\ sessions' \in [Sids -> SessionRow] /\ faults <= faults'
    BY <1>1, <1>2, ConstantsAssumption DEF IInv, Typed, RowsTyped, CountsTyped, Fault
  <2>2. \A s \in Sids : SessionOK(s)' /\ Named(sessions[s].user)'
    BY <1>1, <1>2, SessionsKept
  <2> QED
    BY <1>1, <1>2, <2>1, <2>2, RequestEnds DEF accounts
<1>3. ASSUME cred' = Raised(u), UNCHANGED faults,
             sessions' = [s \in Sids |-> IF sessions[s].user = u
                                         THEN [sessions[s] EXCEPT !.over = TRUE] ELSE sessions[s]]
      PROVE  IInv'
  <2>1. Goto(w, "idle", NoJob) /\ "idle" \in Steps \ {"create"}
    BY <1>1, FinishGoes
  <2>2. /\ pc' \in [Workers -> Steps] /\ job' \in [Workers -> JobType]
        /\ pc'[w] = "idle" /\ job'[w] = NoJob
        /\ \A v \in Workers \ {w} : pc'[v] = pc[v] /\ job'[v] = job[v]
    BY <2>1, EmptyRows, GotoMoves DEF IInv, Typed
  <2>3. /\ cred \in [Uids -> CredRow] /\ sessions \in [Sids -> SessionRow]
        /\ Registered' = Registered /\ Registered \subseteq Uids
    BY <1>1 DEF IInv, Typed, RowsTyped, Registered
  <2>4. /\ cred' \in [Uids -> CredRow]
        /\ \A v \in Uids : /\ cred'[v].setAt = cred[v].setAt /\ cred'[v].link = cred[v].link
                           /\ cred'[v].password = cred[v].password
                           /\ cred[v].version \in Nat
                           /\ cred'[v].version = IF v = u /\ u \in Registered THEN cred[v].version + 1
                                                 ELSE cred[v].version
    <3>1. CASE u \notin Registered
      <4>1. cred' = cred
        BY <1>3, <3>1 DEF Raised
      <4> QED
        BY <2>3, <3>1, <4>1 DEF CredRow
    <3>2. CASE u \in Registered
      <4>1. cred' = [cred EXCEPT ![u].version = @ + 1]
        BY <1>3, <3>2 DEF Raised
      <4> HIDE DEF u
      <4>2. ASSUME NEW v \in Uids
            PROVE  /\ cred'[v] \in CredRow
                   /\ cred'[v].setAt = cred[v].setAt /\ cred'[v].link = cred[v].link
                   /\ cred'[v].password = cred[v].password
                   /\ cred[v].version \in Nat
                   /\ cred'[v].version = IF v = u THEN cred[v].version + 1 ELSE cred[v].version
        BY <2>3, <4>1 DEF CredRow
      <4>3. cred' \in [Uids -> CredRow]
        BY <2>3, <4>1, <4>2
      <4> QED
        BY <3>2, <4>2, <4>3
    <3> QED
      BY <3>1, <3>2
  <2>5. /\ sessions' \in [Sids -> SessionRow]
        /\ \A s \in Sids : /\ sessions'[s].user = sessions[s].user
                           /\ sessions'[s].version = sessions[s].version
                           /\ sessions'[s].password = sessions[s].password
                           /\ sessions'[s].over => sessions[s].over \/ sessions[s].user = u
                           /\ sessions[s].version \in Nat
    <3> HIDE DEF u
    <3>1. ASSUME NEW s \in Sids
          PROVE  /\ sessions'[s] \in SessionRow
                 /\ sessions'[s].user = sessions[s].user
                 /\ sessions'[s].version = sessions[s].version
                 /\ sessions'[s].password = sessions[s].password
                 /\ sessions'[s].over => sessions[s].over \/ sessions[s].user = u
                 /\ sessions[s].version \in Nat
      BY <1>3, <2>3 DEF SessionRow
    <3>2. sessions' \in [Sids -> SessionRow]
      BY <1>3, <3>1
    <3> QED
      BY <3>1, <3>2
  <2>6. Typed'
    BY <1>1, <1>3, <2>2, <2>4, <2>5 DEF IInv, Typed, RowsTyped, CountsTyped, WorkTyped
  <2>7. Past'
    BY <1>1, <2>2, <2>4, EmptyRows DEF IInv, Past, Typed, RowsTyped
  <2>8. JobsOK'
    <3>1. JobOK(w)'
      BY <2>2, EmptyRows DEF JobOK
    <3>2. \A v \in Workers \ {w} : JobOK(v)'
      BY <1>1, <2>2, TokensSame, JobKept DEF IInv, JobsOK
    <3> QED
      BY <3>1, <3>2 DEF JobsOK
  <2>9. LockOK'
    BY <1>1, <2>1, EmptyRows, LocksKept
  <2>10. MailsOK'
    <3>1. faults' \in Nat /\ faults <= faults'
      BY <1>3 DEF IInv, Typed, CountsTyped
    <3> QED
      BY <1>1, <2>1, <3>1, EmptyRows, MailsKept
  <2>11. KnownOK'
    BY <1>1, <2>2, <2>5, EmptyRows, NobodyHasId0 DEF IInv, KnownOK, Named
  <2>12. LinksOK'
    BY <1>1, <2>3, <2>4 DEF IInv, LinksOK
  <2>13. SessionsOK'
    <3>1. ASSUME NEW v, NEW n \in Nat, NEW p, Stands(v, n, p)
          PROVE  Stands(v, n, p)'
      <4>1. CASE v \notin Registered
        BY <2>3, <4>1 DEF Stands
      <4>2. CASE v \in Registered
        <5>1. /\ n <= cred[v].version
              /\ n = cred[v].version /\ "password" \notin overwritten => p = cred[v].password
          BY <3>1, <4>2 DEF Stands
        <5>2. /\ cred[v].version \in Nat /\ cred'[v].password = cred[v].password
              /\ cred'[v].version \in {cred[v].version, cred[v].version + 1}
          BY <2>3, <2>4, <4>2
        <5> QED
          BY <1>1, <2>3, <4>2, <5>1, <5>2 DEF Stands
      <4> QED
        BY <4>1, <4>2
    <3>2. ASSUME NEW s \in Sids PROVE SessionOK(s)'
      <4>1. SessionOK(s) /\ sessions[s].version \in Nat
        BY <2>5 DEF IInv, SessionsOK
      <4>2. Stands(sessions[s].user, sessions[s].version, sessions[s].password)'
        <5>1. ASSUME NEW v, NEW n, NEW p, v = sessions[s].user, n = sessions[s].version,
                     p = sessions[s].password
              PROVE  Stands(v, n, p)'
          BY <3>1, <4>1, <5>1 DEF SessionOK
        <5>2. /\ sessions'[s].user = sessions[s].user /\ sessions'[s].version = sessions[s].version
              /\ sessions'[s].password = sessions[s].password
          BY <2>5
        <5> QED
          BY <5>1, <5>2 DEF Stands
      <4>3. ASSUME sessions'[s].over, sessions'[s].user \in Registered
            PROVE  sessions'[s].version < cred'[sessions'[s].user].version
        <5>1. /\ sessions'[s].user = sessions[s].user /\ sessions[s].user \in Uids
              /\ sessions'[s].version = sessions[s].version
          BY <2>3, <2>5, <4>3
        <5>2. /\ cred[sessions[s].user].version \in Nat
              /\ cred'[sessions[s].user].version =
                    IF sessions[s].user = u /\ u \in Registered
                    THEN cred[sessions[s].user].version + 1 ELSE cred[sessions[s].user].version
          BY <2>4, <5>1
        <5>3. sessions[s].version <= cred[sessions[s].user].version
          BY <4>1, <4>3, <5>1 DEF SessionOK, Stands
        <5>4. sessions[s].over => sessions[s].version < cred[sessions[s].user].version
          BY <4>1, <4>3, <5>1 DEF SessionOK
        <5> QED
          BY <2>5, <4>1, <4>3, <5>1, <5>2, <5>3, <5>4
      <4> QED
        BY <2>3, <4>2, <4>3 DEF SessionOK
    <3>3. ASSUME NEW v \in Workers, pc'[v] = "session"
          PROVE  Stands(job[v].user, job[v].version, job[v].password)'
      <4>1. /\ pc[v] = "session" /\ job'[v] = job[v] /\ job[v].version \in Nat
            /\ Stands(job[v].user, job[v].version, job[v].password)
        BY <2>2, <3>3 DEF IInv, SessionsOK, Typed, WorkTyped, JobType
      <4> QED
        BY <3>1, <4>1 DEF Stands
    <3> QED
      BY <3>2, <3>3 DEF SessionsOK
  <2> QED
    BY <2>6, <2>7, <2>8, <2>9, <2>10, <2>11, <2>12, <2>13 DEF IInv
<1> QED
  BY <1>2, <1>3 DEF LogoutAllVersion

-----------------------------------------------------------------------------
\* Users that go, and restarts.

LEMMA DeleteUserStep ==
    ASSUME IInv, NEW u \in Uids, DeleteUser(u)
    PROVE  IInv'
<1>1. /\ role[u] = "user" /\ role' = [role EXCEPT ![u] = "gone"] /\ cred' = [cred EXCEPT ![u] = NoCred]
      /\ tokens' = [t \in Tids |-> IF tokens[t].user = u
                                   THEN [tokens[t] EXCEPT !.user = 0, !.purpose = "gone", !.state = "over"]
                                   ELSE tokens[t]]
      /\ UNCHANGED <<clock, sessions, events, sent, working, overwritten, faults>>
  BY DEF DeleteUser
<1>2. /\ role'[u] = "gone" /\ cred'[u] = NoCred
      /\ \A v \in Uids \ {u} : role'[v] = role[v] /\ cred'[v] = cred[v]
      /\ cred' \in [Uids -> CredRow] /\ role' \in [Uids -> {"none", "user", "admin", "gone"}]
  BY <1>1, EmptyRows DEF IInv, Typed, RowsTyped
<1>3. /\ Registered' \subseteq Registered /\ u \notin Registered'
      /\ \A v : Named(v) => Named(v)'
      /\ \A v \in Registered' : v \in Uids \ {u} /\ cred'[v] = cred[v]
  BY <1>1, <1>2 DEF Registered, Named
<1>4. /\ tokens' \in [Tids -> TokenRow]
      /\ \A t \in Tids : /\ tokens[t].state = "over" => tokens'[t].state = "over"
                         /\ tokens'[t].born = tokens[t].born
                         /\ tokens'[t].user \in {tokens[t].user, 0}
  <2>1. ASSUME NEW t \in Tids
        PROVE  /\ tokens'[t] \in TokenRow
               /\ tokens[t].state = "over" => tokens'[t].state = "over"
               /\ tokens'[t].born = tokens[t].born
               /\ tokens'[t].user \in {tokens[t].user, 0}
    <3>1. /\ tokens[t] \in TokenRow
          /\ \/ tokens'[t] = tokens[t]
             \/ tokens'[t] = [tokens[t] EXCEPT !.user = 0, !.purpose = "gone", !.state = "over"]
      BY <1>1 DEF IInv, Typed, RowsTyped
    <3> QED
      BY <3>1 DEF TokenRow
  <2>2. tokens' = [t \in Tids |-> tokens'[t]]
    BY <1>1
  <2> QED
    BY <2>1, <2>2
<1>5. Typed'
  BY <1>1, <1>2, <1>4 DEF IInv, Typed, RowsTyped, CountsTyped, WorkTyped, working
<1>6. TokensKept
  <2>1. \A t \in Tids : Named(tokens[t].user)'
    BY <1>3, <1>4, NobodyHasId0 DEF IInv, KnownOK, Named
  <2> QED
    BY <1>1, <1>4, <2>1 DEF TokensKept, IInv, Past
<1>7. Past'
  <2>1. \A v \in Uids : cred'[v].setAt <= clock /\ cred'[v].link <= clock
    BY <1>2, EmptyRows DEF IInv, Past, Typed, RowsTyped
  <2> QED
    BY <1>1, <1>4, <2>1 DEF IInv, Past, working
<1>8. JobsOK'
  BY <1>1, <1>6, JobKept DEF IInv, JobsOK, working
<1>9. LockOK'
  <2>1. \A v \in Uids : role'[v] = "admin" => role[v] = "admin"
    BY <1>2
  <2>2. pc' = pc /\ job' = job /\ adminLock' = adminLock
    BY <1>1 DEF working
  <2> QED
    BY <1>3, <2>1, <2>2 DEF IInv, LockOK
<1>10. MailsOK'
  BY <1>1 DEF IInv, MailsOK, UnderWay, working
<1>11. KnownOK'
  BY <1>1, <1>3, <1>6 DEF IInv, KnownOK, TokensKept, working
<1>12. LinksOK'
  BY <1>1, <1>3 DEF IInv, LinksOK
<1>13. SessionsOK'
  <2>1. \A v, n, p : Stands(v, n, p) => Stands(v, n, p)'
    BY <1>1, <1>3 DEF Stands
  <2> QED
    BY <1>1, <1>3, <2>1 DEF IInv, SessionsOK, SessionOK, working
<1> QED
  BY <1>5, <1>7, <1>8, <1>9, <1>10, <1>11, <1>12, <1>13 DEF IInv

LEMMA RestartStep == IInv /\ Restart => IInv'
<1> SUFFICES ASSUME IInv, Restart PROVE IInv'
  OBVIOUS
<1>1. /\ \A w \in Workers : pc'[w] = "idle" /\ job'[w] = NoJob
      /\ pc' \in [Workers -> Steps] /\ job' \in [Workers -> JobType]
      /\ adminLock' = NoOne /\ faults' = faults + 1 /\ faults < MaxFaults
      /\ UNCHANGED <<accounts, tokens, sessions, events, sent, requests, overwritten>>
  BY EmptyRows DEF Restart, Fault, Steps
<1>2. Typed'
  BY <1>1, ConstantsAssumption DEF IInv, Typed, RowsTyped, CountsTyped, WorkTyped, accounts
<1>3. Past' /\ KnownOK' /\ LinksOK'
  BY <1>1, EmptyRows, NobodyHasId0
     DEF IInv, Typed, RowsTyped, Past, KnownOK, Named, LinksOK, Registered, accounts
<1>4. JobsOK' /\ LockOK'
  BY <1>1, EmptyRows, ConstantsAssumption DEF IInv, JobsOK, JobOK, LockOK, accounts
<1>5. MailsOK'
  <2>1. ASSUME NEW a \in Purposes, NEW e \in Addresses
        PROVE  /\ events'[<<a, e>>] + Cardinality(UnderWay(a, e)')
                     <= RateLimit + Cardinality(Workers) - 1
               /\ sent'[<<a, e>>] <= events'[<<a, e>>] + faults'
    <3>1. UnderWay(a, e)' \subseteq UnderWay(a, e)
      BY <1>1 DEF UnderWay
    <3>2. /\ Cardinality(UnderWay(a, e)') \in Nat /\ Cardinality(UnderWay(a, e)) \in Nat
          /\ Cardinality(UnderWay(a, e)') <= Cardinality(UnderWay(a, e))
          /\ RateLimit + Cardinality(Workers) - 1 \in Int
      BY <3>1, FewerUnderWay, UnderWayFinite, ConstantsAssumption
    <3>3. /\ events[<<a, e>>] \in Nat /\ sent[<<a, e>>] \in Nat /\ faults \in Nat
          /\ events[<<a, e>>] + Cardinality(UnderWay(a, e)) <= RateLimit + Cardinality(Workers) - 1
          /\ sent[<<a, e>>] <= events[<<a, e>>] + faults
      <4>1. events \in Counts /\ sent \in Counts /\ faults \in Nat /\ a \in Actions
        BY PurposesNamed DEF IInv, Typed, CountsTyped
      <4> QED
        BY <4>1 DEF IInv, Counts, MailsOK
    <3>4. events' = events /\ sent' = sent /\ faults' = faults + 1
      BY <1>1
    <3> QED
      BY <3>2, <3>3, <3>4
  <2> QED
    BY <1>1, <2>1 DEF IInv, MailsOK
<1>6. SessionsOK'
  BY <1>1 DEF IInv, SessionsOK, SessionOK, Stands, Registered, accounts
<1> QED
  BY <1>2, <1>3, <1>4, <1>5, <1>6 DEF IInv

-----------------------------------------------------------------------------
\* The theorems.

LEMMA RequestStep ==
    ASSUME IInv, NEW w \in Workers, Request(w)
    PROVE  IInv'
<1>1. ASSUME NEW e \in Addresses,
             \/ RegistrationRequest(w, e) \/ ActivationRequest(w, e) \/ ForgotPassword(w, e)
      PROVE  IInv'
  <2>1. /\ "registration_verify" \in Purposes /\ "account_activation" \in Purposes
        /\ "password_reset" \in Purposes
    BY DEF Purposes
  <2>2. CASE RegistrationRequest(w, e)
    <3>1. PICK open \in BOOLEAN : AskForLink(w, "registration_verify", e, open /\ UserAt(e) = 0)
      BY <2>2 DEF RegistrationRequest, Policies
    <3>2. (open /\ UserAt(e) = 0) \in BOOLEAN
      OBVIOUS
    <3> QED
      BY <2>1, <3>1, <3>2, AskForLinkStep
  <2>3. CASE ActivationRequest(w, e)
    <3>1. (UserAt(e) # 0 /\ ~Active(UserAt(e))) \in BOOLEAN
      OBVIOUS
    <3> QED
      BY <2>1, <2>3, <3>1, AskForLinkStep DEF ActivationRequest
  <2>4. CASE ForgotPassword(w, e)
    <3>1. (UserAt(e) # 0 /\ Active(UserAt(e))) \in BOOLEAN
      OBVIOUS
    <3> QED
      BY <2>1, <2>4, <3>1, AskForLinkStep DEF ForgotPassword
  <2> QED
    BY <1>1, <2>2, <2>3, <2>4
<1> QED
  BY <1>1, LoginStep, ConsumeTokenStep, LogoutAllRowsStep DEF Request

LEMMA IInvStep == IInv /\ [Next]_vars => IInv'
<1> SUFFICES ASSUME IInv, [Next]_vars PROVE IInv'
  OBVIOUS
<1>1. CASE UNCHANGED vars
  <2>1. UNCHANGED <<role, cred, events, sent, working, overwritten, faults, clock, tokens, sessions>>
    BY <1>1 DEF vars, accounts
  <2>2. /\ \A s \in Sids : SessionOK(s)' /\ Named(sessions[s].user)'
        /\ sessions' \in [Sids -> SessionRow]
    BY <2>1, SessionsKept DEF IInv, Typed, RowsTyped
  <2> QED
    BY <2>1, <2>2, TokensSame, RowsStep
<1>2. ASSUME NEW w \in Workers,
             \/ Request(w) \/ MintToken(w) \/ SendLink(w)
             \/ Enlist(w) \/ CreateUser(w) \/ HashDone(w) \/ StorePassword(w)
             \/ OpenSession(w) \/ LogoutAllVersion(w)
      PROVE  IInv'
  BY <1>2, RequestStep, MintTokenStep, SendLinkStep, EnlistStep, CreateUserStep, HashDoneStep,
     StorePasswordStep, OpenSessionStep, LogoutAllVersionStep
<1>3. ASSUME NEW s \in Sids, NEW r \in Sids, Logout(s) \/ SessionExpires(s) \/ DeleteSession(s, r)
      PROVE  IInv'
  BY <1>3, LogoutStep, SessionExpiresStep
<1> QED
  BY <1>1, <1>2, <1>3, IssueActivationStep, DeleteUserStep, TokenExpiresStep, WindowPassesStep,
     RestartStep DEF Next

LEMMA AlwaysIInv == Spec => []IInv
BY IInvInit, IInvStep, PTL DEF Spec

\* Whoever registers at once, an installation gets one administrator from its
\* links; rows and requests are well formed, the advisory lock has one holder,
\* and an address gets no more mails in a window than TypeOK allows.
THEOREM FirstAdminAlone == Spec => []OneFirstAdmin
<1>1. IInv => OneFirstAdmin
  BY IInvImplies
<1> QED
  BY <1>1, AlwaysIInv, PTL

\* An accepted session was opened with the password its user has now, and before
\* any later logout of all devices.
THEOREM SessionsCurrent == Spec => []SessionsFollowPassword
<1>1. IInv => SessionsFollowPassword
  BY IInvImplies
<1> QED
  BY <1>1, AlwaysIInv, PTL

\* The credential of a user whose password is stored is newer than before.
LEMMA LinksStep ==
    ASSUME IInv, Next
    PROVE  \A u \in Registered : (u \in Registered' /\ "time" \notin overwritten') =>
              cred'[u].link >= cred[u].link
<1> SUFFICES ASSUME NEW u \in Registered, u \in Registered', "time" \notin overwritten'
             PROVE  cred'[u].link >= cred[u].link
  OBVIOUS
<1>1. u \in Uids /\ cred \in [Uids -> CredRow] /\ cred[u].link \in Nat /\ cred[u].setAt \in Nat
  BY DEF Registered, IInv, Typed, RowsTyped, CredRow
<1>2. CASE UNCHANGED cred
  BY <1>1, <1>2
<1>3. ASSUME NEW w \in Workers, CreateUser(w), cred' # cred
      PROVE  cred'[u].link >= cred[u].link
  <2>1. /\ Fresh(role, "none") # {}
        /\ \A v \in Uids : v # Min(Fresh(role, "none")) => cred'[v] = cred[v]
    BY <1>1, <1>3 DEF CreateUser
  <2>2. role[Min(Fresh(role, "none"))] = "none"
    BY <2>1, NextFresh, ConstantsAssumption DEF IInv, Typed, RowsTyped, Uids
  <2>3. u # Min(Fresh(role, "none"))
    BY <2>2 DEF Registered
  <2> QED
    BY <1>1, <2>1, <2>3
<1>4. ASSUME NEW w \in Workers, StorePassword(w), cred' # cred
      PROVE  cred'[u].link >= cred[u].link
  <2> DEFINE v == job[w].user
  <2>1. /\ v \in Registered /\ (job[w].token = 0 \/ Newer(v, job[w].token))
        /\ cred' = [cred EXCEPT ![v].password = job[w].password, ![v].weak = FALSE,
                                ![v].setAt = job[w].now, ![v].activate = FALSE,
                                ![v].version = VersionAfter(v, job[w].token # 0),
                                ![v].link = IF job[w].token # 0 THEN tokens[job[w].token].born ELSE @]
        /\ overwritten' = overwritten \cup (IF job[w].token # 0 THEN {} ELSE Outdates(v, job[w]))
    BY <1>4 DEF StorePassword
  <2>2. v \in Uids /\ (job[w].token # 0 => job[w].token \in Tids)
    BY <2>1 DEF Registered, IInv, Typed, WorkTyped, JobType
  <2> HIDE DEF v
  <2>3. /\ \A x \in Uids \ {v} : cred'[x] = cred[x]
        /\ cred'[v].link = IF job[w].token # 0 THEN tokens[job[w].token].born ELSE cred[v].link
    BY <2>1, <2>2, StoreMakesWay DEF v
  <2>4. CASE u # v
    BY <1>1, <2>3, <2>4
  <2>5. CASE u = v /\ job[w].token = 0
    BY <1>1, <2>3, <2>5
  <2>6. CASE u = v /\ job[w].token # 0
    <3>1. cred[u].setAt < tokens[job[w].token].born /\ tokens[job[w].token].born \in Nat
      BY <2>1, <2>2, <2>6 DEF Newer, IInv, Typed, RowsTyped, TokenRow
    <3>2. cred[u].link <= cred[u].setAt
      BY <2>1 DEF IInv, LinksOK
    <3> QED
      BY <1>1, <2>3, <2>6, <3>1, <3>2
  <2> QED
    BY <2>4, <2>5, <2>6
<1>5. ASSUME NEW w \in Workers, LogoutAllVersion(w)
      PROVE  cred'[u].link >= cred[u].link
  <2>1. cred' = cred \/ cred' = [cred EXCEPT ![job[w].user].version = @ + 1]
    BY <1>5 DEF LogoutAllVersion, Raised
  <2>2. cred'[u].link = cred[u].link
    BY <1>1, <2>1 DEF CredRow
  <2> QED
    BY <1>1, <2>2
<1>6. ASSUME NEW v \in Uids, DeleteUser(v)
      PROVE  cred'[u].link >= cred[u].link
  <2>1. u # v
    BY <1>6 DEF DeleteUser, Registered, IInv, Typed, RowsTyped
  <2>2. cred'[u] = cred[u]
    BY <1>1, <1>6, <2>1 DEF DeleteUser
  <2> QED
    BY <1>1, <2>2
<1>7. CASE \E w \in Workers : Request(w) \/ MintToken(w) \/ SendLink(w) \/ Enlist(w) \/ HashDone(w)
                              \/ OpenSession(w)
  <2>1. UNCHANGED cred
    BY <1>7 DEF Request, RegistrationRequest, ActivationRequest, ForgotPassword, AskForLink, Login,
                ConsumeToken, LogoutAllRows, MintToken, SendLink, Enlist, HashDone, OpenSession, accounts
  <2> QED
    BY <1>2, <2>1
<1>8. CASE \/ \E s \in Sids : Logout(s) \/ SessionExpires(s)
           \/ \E s, r \in Sids : DeleteSession(s, r)
           \/ \E v \in Uids : IssueActivation(v)
           \/ \E t \in Tids : TokenExpires(t)
           \/ WindowPasses \/ Restart
  <2>1. UNCHANGED cred
    BY <1>8 DEF Logout, SessionExpires, DeleteSession, IssueActivation, TokenExpires, WindowPasses,
                Restart, accounts
  <2> QED
    BY <1>2, <2>1
<1> QED
  BY <1>2, <1>3, <1>4, <1>5, <1>6, <1>7, <1>8 DEF Next

\* Of the links mailed for one account an older one never replaces what a younger
\* one has set, unless a login's refreshed hash has set back the time the link's
\* age is compared with.
THEOREM YoungerLinkStays == Spec => LinksInOrder
<1>1. IInv /\ [Next]_vars =>
        [\A u \in Registered : (u \in Registered' /\ "time" \notin overwritten') =>
              cred'[u].link >= cred[u].link]_vars
  BY LinksStep
<1> QED
  BY <1>1, AlwaysIInv, PTL DEF Spec, LinksInOrder
=============================================================================
