------------------------------ MODULE Accounts ------------------------------
(***************************************************************************)
(* Sign-in by mail address and password: one-time links that register,     *)
(* activate or reset, logins that refresh an outdated hash, and sessions.  *)
(*                                                                         *)
(* A worker is one request.  Argon2id takes long, so what a request read   *)
(* before it hashes may be out of date when it stores; each database       *)
(* transaction is one step, except registration, which counts the users    *)
(* under an advisory lock before it inserts its own.                       *)
(***************************************************************************)
EXTENDS Integers, FiniteSets, FiniteSetsExt, TLC

CONSTANTS
    Addresses, Passwords,
    Workers,
    RateLimit,     \* requests per address and action in one window
    MaxUsers,      \* bound: rows of users
    MaxTokens,     \* bound: rows of auth_tokens
    MaxSessions,   \* bound: sessions
    MaxVersion,    \* bound: session versions
    MaxRequests,   \* bound: requests that change something
    MaxFaults,     \* bound: failed calls and restarts
    NoOne

ASSUME ConstantsAssumption ==
    /\ NoOne \notin Addresses \cup Passwords \cup Workers
    /\ IsFiniteSet(Workers)
    /\ RateLimit \in Nat \ {0}
    /\ {MaxUsers, MaxTokens, MaxSessions, MaxVersion, MaxRequests, MaxFaults} \subseteq Nat

VARIABLES
    clock,     \* advances with each link; passwords are set between links
    role,      \* users: id -> "user", "admin", or without a row "none", "gone"
    cred,      \* user_credentials of each user
    tokens,    \* auth_tokens
    sessions,  \* issued session JWTs, and whether user_sessions lists them
    events,    \* auth_security_events of this window: <<action, address>> -> count
    sent,      \* links mailed in this window
    adminLock, \* holder of the advisory lock of registrations
    pc, job,
    requests,  \* requests begun
    overwritten, \* ghost: what a login's refreshed hash has replaced by something
                 \* older: the password, or the time it was set
    faults

accounts == <<clock, role, cred>>
working == <<adminLock, pc, job, requests>>
vars == <<accounts, tokens, sessions, events, sent, working, overwritten, faults>>

Uids == 1..MaxUsers
Tids == 1..MaxTokens
Sids == 1..MaxSessions
Purposes == {"registration_verify", "account_activation", "password_reset"}
Actions == Purposes \cup {"login"}

NoCred == [email |-> NoOne, password |-> NoOne, weak |-> FALSE, setAt |-> 0,
           version |-> 0, activate |-> FALSE, link |-> 0]
NoToken == [purpose |-> "none", user |-> 0, email |-> NoOne, born |-> 0,
            state |-> "minted"]
NoSession == [user |-> 0, version |-> 0, password |-> NoOne, listed |-> FALSE,
              over |-> FALSE]
NoJob == [email |-> NoOne, password |-> NoOne, purpose |-> "none", user |-> 0,
          token |-> 0, version |-> 0, first |-> FALSE, now |-> 0]

Registered == {u \in Uids : role[u] \in {"user", "admin"}}
UserAt(e) == IF \E u \in Registered : cred[u].email = e
             THEN CHOOSE u \in Registered : cred[u].email = e
             ELSE 0
Fresh(table, empty) == {i \in DOMAIN table : table[i] = empty}

Active(u) == cred[u].setAt # 0 /\ ~cred[u].activate
\* consumed_at is empty, expires_at lies ahead, and someone has the link.
Usable(t) == tokens[t].state = "mailed"
Idle(w) == pc[w] = "idle"
Begin(w) == Idle(w) /\ requests < MaxRequests /\ requests' = requests + 1
Finish(w) == pc' = [pc EXCEPT ![w] = "idle"] /\ job' = [job EXCEPT ![w] = NoJob]
Goto(w, step, j) == pc' = [pc EXCEPT ![w] = step] /\ job' = [job EXCEPT ![w] = j]
Tick == clock' = clock + 1
Fault == faults < MaxFaults /\ faults' = faults + 1

Recent(a, e) == events[<<a, e>>]
Counted(a, e) == [events EXCEPT ![<<a, e>>] = @ + 1]

-----------------------------------------------------------------------------
(* Asking for a link: RegistrationRequest, ActivationRequest, ForgotPassword *)

Allowed(a, e) == Recent(a, e) < RateLimit

\* A request that is allowed either goes on to mint a link or only counts; the
\* person who asked is told the same.
AskForLink(w, purpose, e, eligible) ==
    /\ Begin(w)
    /\ Allowed(purpose, e)
    /\ IF eligible
       THEN /\ Goto(w, "mint", [NoJob EXCEPT !.email = e, !.purpose = purpose, !.user = UserAt(e)])
            /\ UNCHANGED events
       ELSE /\ events' = Counted(purpose, e)
            /\ UNCHANGED <<pc, job>>
    /\ UNCHANGED <<accounts, tokens, sessions, sent, adminLock, overwritten, faults>>

\* Whether registration is enabled, and for the domain of the address.
Policies == BOOLEAN

RegistrationRequest(w, e) ==
    \E open \in Policies : AskForLink(w, "registration_verify", e, open /\ UserAt(e) = 0)

ActivationRequest(w, e) ==
    AskForLink(w, "account_activation", e, UserAt(e) # 0 /\ ~Active(UserAt(e)))

ForgotPassword(w, e) ==
    AskForLink(w, "password_reset", e, UserAt(e) # 0 /\ Active(UserAt(e)))

MintToken(w) ==
    /\ pc[w] = "mint"
    /\ Fresh(tokens, NoToken) # {}
    /\ Tick
    /\ LET t == Min(Fresh(tokens, NoToken))
       IN /\ tokens' = [tokens EXCEPT ![t] =
                [NoToken EXCEPT !.purpose = job[w].purpose, !.user = job[w].user,
                                !.email = job[w].email, !.born = clock']]
          /\ Goto(w, "mail", [job[w] EXCEPT !.token = t])
    /\ UNCHANGED <<role, cred, sessions, events, sent, adminLock, requests, overwritten, faults>>

\* sendSMTP may report an error after the mail server has taken the mail.
MailGoesOut(w, ok) ==
    \/ /\ tokens' = [tokens EXCEPT ![job[w].token].state = IF @ = "minted" THEN "mailed" ELSE @]
       /\ sent' = [sent EXCEPT ![<<job[w].purpose, job[w].email>>] = @ + 1]
       /\ IF ok THEN UNCHANGED faults ELSE Fault
    \/ /\ ~ok
       /\ Fault
       /\ UNCHANGED <<tokens, sent>>

\* A registration whose mail failed is not counted.
SendLink(w) ==
    /\ pc[w] = "mail"
    /\ \E ok \in BOOLEAN :
          /\ MailGoesOut(w, ok)
          /\ events' = IF ok \/ job[w].purpose # "registration_verify"
                       THEN Counted(job[w].purpose, job[w].email) ELSE events
    /\ Finish(w)
    /\ UNCHANGED <<accounts, sessions, adminLock, requests, overwritten>>

\* hl6-admin mints an activation link on the server's console.
IssueActivation(u) ==
    /\ u \in Registered /\ cred[u].activate /\ cred[u].setAt = 0
    /\ Fresh(tokens, NoToken) # {}
    /\ Tick
    /\ tokens' = [tokens EXCEPT ![Min(Fresh(tokens, NoToken))] =
          [NoToken EXCEPT !.purpose = "account_activation", !.user = u,
                          !.email = cred[u].email, !.born = clock', !.state = "mailed"]]
    /\ UNCHANGED <<role, cred, sessions, events, sent, working, overwritten, faults>>

-----------------------------------------------------------------------------
(* Using a link: CompletePassword *)

Consumable(t) == Usable(t)

\* completePassword goes by the purpose the token was minted for.
Registers(t) == tokens[t].purpose = "registration_verify"

\* One conditional UPDATE; the link is spent before the password is hashed.
ConsumeToken(w, t, p) ==
    /\ Begin(w)
    /\ Consumable(t)
    /\ tokens' = [tokens EXCEPT ![t].state = "over"]
    /\ Goto(w, IF Registers(t) THEN "enlist" ELSE "hash",
            [NoJob EXCEPT !.email = tokens[t].email, !.purpose = tokens[t].purpose,
                          !.user = tokens[t].user, !.token = t, !.password = p])
    /\ UNCHANGED <<accounts, sessions, events, sent, adminLock, overwritten, faults>>

\* Mutant: registrations do not wait for each other.
EnlistUnlocked(w) ==
    /\ pc[w] = "enlist"
    /\ Goto(w, "create", [job[w] EXCEPT !.first = (Registered = {})])
    /\ UNCHANGED <<accounts, tokens, sessions, events, sent, adminLock, requests, overwritten, faults>>

\* The transaction of CreateUserWithCredential takes the advisory lock and
\* counts the users.
Enlist(w) ==
    /\ pc[w] = "enlist"
    /\ adminLock = NoOne
    /\ adminLock' = w
    /\ Goto(w, "create", [job[w] EXCEPT !.first = (Registered = {})])
    /\ UNCHANGED <<accounts, tokens, sessions, events, sent, requests, overwritten, faults>>

AddressFree(e) == UserAt(e) = 0

\* It inserts user, balance and credential, and commits; the unique index on
\* the address rolls it back.
CreateUser(w) ==
    LET u == Min(Fresh(role, "none"))
    IN /\ pc[w] = "create"
       /\ Fresh(role, "none") # {}
       /\ IF AddressFree(job[w].email)
          THEN /\ role' = [role EXCEPT ![u] = IF job[w].first THEN "admin" ELSE "user"]
               /\ cred' = [cred EXCEPT ![u] =
                     [NoCred EXCEPT !.email = job[w].email, !.password = job[w].password,
                                    !.setAt = clock, !.version = 1, !.link = tokens[job[w].token].born]]
               /\ Goto(w, "session", [job[w] EXCEPT !.user = u, !.version = 1])
          ELSE /\ Finish(w)
               /\ UNCHANGED <<role, cred>>
       /\ adminLock' = NoOne
       /\ UNCHANGED <<clock, tokens, sessions, events, sent, requests, overwritten, faults>>

\* The hash is ready and updateCredentialPassword takes its timestamp, before
\* it waits for the credential's row.
HashDone(w) ==
    /\ pc[w] = "hash"
    /\ Goto(w, "store", [job[w] EXCEPT !.now = clock])
    /\ UNCHANGED <<accounts, tokens, sessions, events, sent, adminLock, requests, overwritten, faults>>

\* A link's password is stored only over one that is older than the link.
\* Mutant: the link need only have been used.
AnyLink(u, t) == TRUE

Newer(u, t) == cred[u].setAt < tokens[t].born

\* Mutant: sessions are counted anew from each password.
VersionRestarts(u, byLink) == 1

VersionAfter(u, byLink) == cred[u].version + (IF byLink THEN 1 ELSE 0)

\* What a refreshed hash takes back of a password set since the login began; the
\* time it stores was taken before it waited for the row.
Outdates(u, j) ==
    {what \in {"password", "time"} :
        \/ what = "password" /\ cred[u].password # j.password
        \/ what = "time" /\ j.now < cred[u].setAt}

\* updateCredentialPassword under the credential's row lock: by a link or, to
\* refresh the hash, by a login, which does not look again at the password.
StorePassword(w) ==
    LET j == job[w]
        u == j.user
        byLink == j.token # 0
    IN /\ pc[w] = "store"
       /\ IF u \notin Registered \/ (byLink /\ ~Newer(u, j.token))
          THEN /\ Finish(w)
               /\ UNCHANGED <<cred, tokens, overwritten>>
          ELSE /\ cred' = [cred EXCEPT ![u].password = j.password, ![u].weak = FALSE,
                                       ![u].setAt = j.now, ![u].activate = FALSE,
                                       ![u].version = VersionAfter(u, byLink),
                                       ![u].link = IF byLink THEN tokens[j.token].born ELSE @]
               /\ tokens' = [t \in Tids |-> IF tokens[t].user = u THEN [tokens[t] EXCEPT !.state = "over"]
                                             ELSE tokens[t]]
               /\ overwritten' = overwritten \cup (IF byLink THEN {} ELSE Outdates(u, j))
               /\ Goto(w, "session", [j EXCEPT !.version = cred'[u].version])
       /\ UNCHANGED <<clock, role, sessions, events, sent, adminLock, requests, faults>>

-----------------------------------------------------------------------------
(* Login, and the session either way ends in *)

Matches(u, p) == u # 0 /\ Active(u) /\ cred[u].password = p

Login(w, e, p) ==
    LET u == UserAt(e)
    IN /\ Begin(w)
       /\ Allowed("login", e)
       /\ IF Matches(u, p)
          THEN /\ Goto(w, IF cred[u].weak THEN "hash" ELSE "session",
                       [NoJob EXCEPT !.email = e, !.password = p, !.purpose = "login",
                                     !.user = u, !.version = cred[u].version])
               /\ UNCHANGED events
          ELSE /\ events' = Counted("login", e)
               /\ UNCHANGED <<pc, job>>
       /\ UNCHANGED <<accounts, tokens, sessions, sent, adminLock, overwritten, faults>>

\* Mutant: the session gets the version of the moment it is written.
VersionNow(w) == cred[job[w].user].version

VersionRead(w) == job[w].version

\* writeSession; a session that could not be listed is issued all the same.
\* A user deleted meanwhile is not found, except by a registration, which
\* has the user in hand.
OpenSession(w) ==
    LET j == job[w]
        s == Min(Fresh(sessions, NoSession))
    IN /\ pc[w] = "session"
       /\ Fresh(sessions, NoSession) # {}
       /\ events' = IF j.purpose = "login" THEN Counted("login", j.email) ELSE events
       /\ IF j.user \notin Registered /\ j.purpose # "registration_verify"
          THEN UNCHANGED <<sessions, faults>>
          ELSE \E listed \in BOOLEAN :
                  /\ IF listed THEN UNCHANGED faults ELSE Fault
                  /\ sessions' = [sessions EXCEPT ![s] =
                        [NoSession EXCEPT !.user = j.user, !.version = VersionRead(w),
                                          !.password = j.password, !.listed = listed]]
       /\ Finish(w)
       /\ UNCHANGED <<accounts, tokens, sent, adminLock, requests, overwritten>>

SameVersion(s) == sessions[s].version = cred[sessions[s].user].version

\* What AuthMiddleware.Required asks of a session.
Accepted(s) ==
    /\ sessions[s] # NoSession
    /\ sessions[s].user \in Registered
    /\ SameVersion(s)

-----------------------------------------------------------------------------
(* Ending sessions *)

\* Logout deletes the session's row; the signed token is not looked up there.
Logout(s) ==
    /\ Accepted(s)
    /\ sessions' = [sessions EXCEPT ![s].listed = FALSE]
    /\ UNCHANGED <<accounts, tokens, events, sent, working, overwritten, faults>>

\* DeleteSession removes the row of any session of the same user.
DeleteSession(s, r) ==
    /\ Accepted(s)
    /\ sessions[r].listed /\ sessions[r].user = sessions[s].user
    /\ sessions' = [sessions EXCEPT ![r].listed = FALSE]
    /\ UNCHANGED <<accounts, tokens, events, sent, working, overwritten, faults>>

LogoutAllRows(w, s) ==
    /\ Begin(w)
    /\ Accepted(s)
    /\ sessions[s].version < MaxVersion
    /\ sessions' = [r \in Sids |-> IF sessions[r].user = sessions[s].user
                                   THEN [sessions[r] EXCEPT !.listed = FALSE] ELSE sessions[r]]
    /\ Goto(w, "raise", [NoJob EXCEPT !.user = sessions[s].user, !.purpose = "logout"])
    /\ UNCHANGED <<accounts, tokens, events, sent, adminLock, overwritten, faults>>

Raised(u) == IF u \notin Registered THEN cred ELSE [cred EXCEPT ![u].version = @ + 1]

\* The request succeeds even when the version could not be raised.
LogoutAllVersion(w) ==
    LET u == job[w].user
    IN /\ pc[w] = "raise"
       /\ \/ /\ cred' = Raised(u)
             /\ sessions' = [s \in Sids |-> IF sessions[s].user = u
                                            THEN [sessions[s] EXCEPT !.over = TRUE] ELSE sessions[s]]
             /\ UNCHANGED faults
          \/ /\ Fault
             /\ UNCHANGED <<cred, sessions>>
       /\ Finish(w)
       /\ UNCHANGED <<clock, role, tokens, events, sent, adminLock, requests, overwritten>>

\* The signed token's day is over, and CleanupExpiredSessions removes its row.
SessionExpires(s) ==
    /\ sessions[s] # NoSession
    /\ sessions' = [sessions EXCEPT ![s] = NoSession]
    /\ UNCHANGED <<accounts, tokens, events, sent, working, overwritten, faults>>

-----------------------------------------------------------------------------
(* Surroundings *)

\* An administrator deletes a user: sessions' rows, credential, tokens, user.
DeleteUser(u) ==
    /\ role[u] = "user"
    /\ role' = [role EXCEPT ![u] = "gone"]
    /\ cred' = [cred EXCEPT ![u] = NoCred]
    /\ tokens' = [t \in Tids |-> IF tokens[t].user = u
                                 THEN [tokens[t] EXCEPT !.user = 0, !.purpose = "gone", !.state = "over"]
                                 ELSE tokens[t]]
    /\ UNCHANGED <<clock, sessions, events, sent, working, overwritten, faults>>

TokenExpires(t) ==
    /\ Usable(t)
    /\ tokens' = [tokens EXCEPT ![t].state = "over"]
    /\ UNCHANGED <<accounts, sessions, events, sent, working, overwritten, faults>>

WindowPasses ==
    /\ \E a \in Actions \X Addresses : events[a] > 0
    /\ events' = [a \in Actions \X Addresses |-> 0]
    /\ sent' = [a \in Actions \X Addresses |-> 0]
    /\ UNCHANGED <<accounts, tokens, sessions, working, overwritten, faults>>

\* A stop while nothing is under way changes nothing here.
Restart ==
    /\ \E w \in Workers : ~Idle(w)
    /\ Fault
    /\ pc' = [w \in Workers |-> "idle"]
    /\ job' = [w \in Workers |-> NoJob]
    /\ adminLock' = NoOne
    /\ UNCHANGED <<accounts, tokens, sessions, events, sent, requests, overwritten>>

-----------------------------------------------------------------------------

\* The migration to local sign-in leaves every user to be activated.
CutoverUser(e) == [NoCred EXCEPT !.email = e, !.version = 1, !.activate = TRUE]

\* A user whose password was hashed with the previous pepper.
UserOfOldPepper(e, p) ==
    [NoCred EXCEPT !.email = e, !.password = p, !.weak = TRUE, !.setAt = 1, !.version = 1]

\* An empty installation, or one with a single administrator.
Init ==
    /\ clock = 1
    /\ \/ /\ role = [u \in Uids |-> "none"]
          /\ cred = [u \in Uids |-> NoCred]
       \/ /\ role = [u \in Uids |-> IF u = 1 THEN "admin" ELSE "none"]
          /\ \E e \in Addresses, p \in Passwords :
                \E c \in {CutoverUser(e), UserOfOldPepper(e, p)} :
                   cred = [u \in Uids |-> IF u = 1 THEN c ELSE NoCred]
    /\ tokens = [t \in Tids |-> NoToken]
    /\ sessions = [s \in Sids |-> NoSession]
    /\ events = [a \in Actions \X Addresses |-> 0]
    /\ sent = [a \in Actions \X Addresses |-> 0]
    /\ adminLock = NoOne
    /\ pc = [w \in Workers |-> "idle"]
    /\ job = [w \in Workers |-> NoJob]
    /\ requests = 0
    /\ overwritten = {}
    /\ faults = 0

Request(w) ==
    \/ \E e \in Addresses : \/ RegistrationRequest(w, e)
                             \/ ActivationRequest(w, e)
                             \/ ForgotPassword(w, e)
                             \/ \E p \in Passwords : Login(w, e, p)
    \/ \E t \in Tids, p \in Passwords : ConsumeToken(w, t, p)
    \/ \E s \in Sids : LogoutAllRows(w, s)

Next ==
    \/ \E w \in Workers :
          \/ Request(w) \/ MintToken(w) \/ SendLink(w)
          \/ Enlist(w) \/ CreateUser(w) \/ HashDone(w) \/ StorePassword(w)
          \/ OpenSession(w) \/ LogoutAllVersion(w)
    \/ \E s \in Sids : Logout(s) \/ SessionExpires(s)
    \/ \E s, r \in Sids : DeleteSession(s, r)
    \/ \E u \in Uids : IssueActivation(u) \/ DeleteUser(u)
    \/ \E t \in Tids : TokenExpires(t)
    \/ WindowPasses
    \/ Restart

Spec == Init /\ [][Next]_vars

-----------------------------------------------------------------------------
(* Properties *)

Times == 0..clock

CredType == [email : Addresses \cup {NoOne}, password : Passwords \cup {NoOne}, weak : BOOLEAN,
             setAt : Times, version : Nat, activate : BOOLEAN, link : Times]

\* Every row and request is well formed, and the advisory lock is held by the
\* registration that is between its count and its commit, by it alone.  One
\* address gets no more mails of a kind in a window than the limit, the requests
\* under way together and the mails delivered although the server was told
\* otherwise allow (allowAuthRequest).
TypeOK ==
    /\ clock \in Nat
    /\ role \in [Uids -> {"none", "user", "admin", "gone"}]
    /\ cred \in [Uids -> CredType]
    /\ tokens \in [Tids -> [purpose : Purposes \cup {"none", "gone"}, user : Uids \cup {0},
                            email : Addresses \cup {NoOne}, born : Times,
                            state : {"minted", "mailed", "over"}]]
    /\ sessions \in [Sids -> [user : Uids \cup {0}, version : Nat, password : Passwords \cup {NoOne},
                              listed : BOOLEAN, over : BOOLEAN]]
    /\ events \in [Actions \X Addresses -> Nat]
    /\ sent \in [Actions \X Addresses -> 0..(RateLimit + Cardinality(Workers) + MaxFaults - 1)]
    /\ faults \in 0..MaxFaults
    /\ requests \in 0..MaxRequests
    /\ overwritten \subseteq {"password", "time"}
    /\ adminLock \in Workers \cup {NoOne}
    /\ pc \in [Workers -> {"idle", "mint", "mail", "enlist", "create", "hash", "store", "session", "raise"}]
    /\ \A w \in Workers : (pc[w] = "create") <=> (adminLock = w)

\* Of the links mailed for one account, an older one never replaces what a
\* younger one has set, however long their hashes take to compute
\* (UpdateCredentialPasswordFromAuthToken).  Excluded is what follows once a
\* login's refreshed hash has set password_set_at back to before a newer link.
LinksInOrder ==
    [][\A u \in Registered : (u \in Registered' /\ "time" \notin overwritten') =>
           cred'[u].link >= cred[u].link]_vars

\* A session that is accepted was opened with the password its user has now,
\* and before any later logout of all devices (AuthMiddleware.Required,
\* session_version).  Excluded is a login that stores its refreshed hash over
\* a password that was reset in between.
SessionsFollowPassword ==
    "password" \notin overwritten =>
        \A s \in Sids : Accepted(s) =>
            /\ ~sessions[s].over
            /\ sessions[s].password = cred[sessions[s].user].password

\* However many people register at once with the first links of an empty
\* installation, one of them becomes the administrator
\* (CreateUserWithCredential).
OneFirstAdmin == TypeOK /\ Cardinality({u \in Uids : role[u] = "admin"}) <= 1
=============================================================================
