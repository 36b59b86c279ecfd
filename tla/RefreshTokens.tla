--------------------------- MODULE RefreshTokens ---------------------------
(***************************************************************************)
(* Refresh tokens: login, refresh_tokens and logout of                     *)
(* app/services/auth_service.py, run concurrently by several requests and  *)
(* against delete_account.                                                 *)
(*                                                                         *)
(* Each action is the code from one wait for the database to the next, on  *)
(* PostgreSQL at READ COMMITTED as in module Conversations, where row      *)
(* locks are taken one by one and kept to the end of the transaction.  A   *)
(* token is its row: only its hash is stored, and hashes do not collide.   *)
(* What is merged is a flush with the commit that follows it at once: a    *)
(* lock taken there keeps nobody waiting for good.  A request              *)
(* refused before it writes anything is no step.  Expiry is left out: the  *)
(* signature check refuses an expired token before the table is read.      *)
(***************************************************************************)
EXTENDS Naturals, FiniteSets

CONSTANTS
  Users,     \* accounts, with a verified address
  Tokens,    \* refresh tokens that can be issued; bounds the issues
  Requests,  \* requests that can be in progress at the same time
  NoUser, NoToken, NoRequest

ASSUME SentinelsAssumption ==
  NoUser \notin Users /\ NoToken \notin Tokens /\ NoRequest \notin Requests

VARIABLES
  users,      \* rows of users
  owner,      \* rows of refresh_tokens: user_id of each, NoUser without a row
  revoked,    \* the column revoked of those rows
  known,      \* tokens that a client has been sent
  parent,     \* history: the token exchanged for this one
  issuer,     \* history: the request that inserted it
  loggedOut,  \* history: tokens that a logout has revoked
  pc,         \* where each request is
  actor,      \* the user it is for
  token,      \* the token presented and, in the answer, the one returned
  seen,       \* rows that its DELETE statement has seen
  held        \* rows it has locked

tables == <<users, owner, revoked, parent, issuer, loggedOut>>
locals == <<actor, token, seen, held>>
vars == <<tables, known, pc, locals>>

Stored(t) == owner[t] # NoUser

RowsOf(u) == {t \in Tokens : owner[t] = u}

\* Mutant: the update of revoked is not flushed before the user is read.
LocksOfDeleteOnly(r) == IF pc[r] = "reissue" THEN {} ELSE held[r]

\* Row locks: a flushed UPDATE and a DELETE hold theirs until the commit.
Locks(r) == held[r]

\* What keeps a statement of r waiting.  An UPDATE of revoked leaves the key of
\* its row alone, so the check of a foreign key need not wait for it.
Blocking(r, q) ==
  IF pc[r] = "deleteUser" /\ pc[q] = "reissue" THEN {} ELSE Locks(q)

LockedByOthers(r) == UNION {Blocking(r, q) : q \in Requests \ {r}}

\* The rows of which a DELETE has yet to get hold: those it saw that nobody has
\* deleted meanwhile and, when the user goes, those that still refer to it.
Wanted(r) ==
  CASE pc[r] = "deleteTokens" -> {t \in seen[r] : Stored(t)} \ held[r]
    [] pc[r] = "deleteUser"   -> RowsOf(actor[r]) \ held[r]
    [] OTHER                  -> {}

\* The row of its user is locked by a deletion; an insert of a token, which
\* refers to it, waits for that lock too.
UserRowFree(r) ==
  \A q \in Requests \ {r} : pc[q] = "deleteUser" => actor[q] # actor[r]

Wants(r, q) ==
  \/ Wanted(r) \cap Blocking(r, q) # {}
  \/ pc[r] \in {"reissue", "lockUser"} /\ pc[q] = "deleteUser" /\ actor[q] = actor[r]

\* A cycle of requests, each with a row locked that another cannot do without.
Deadlocked(r) ==
  \E S \in SUBSET Requests :
    /\ r \in S
    /\ \A q \in S : (\E p \in S : Wants(q, p)) /\ (\E p \in S : Wants(p, q))

-----------------------------------------------------------------------------

Init ==
  /\ users = Users
  /\ owner = [t \in Tokens |-> NoUser]
  /\ revoked = {}
  /\ known = {}
  /\ parent = [t \in Tokens |-> NoToken]
  /\ issuer = [t \in Tokens |-> NoRequest]
  /\ loggedOut = {}
  /\ pc = [r \in Requests |-> "idle"]
  /\ actor = [r \in Requests |-> NoUser]
  /\ token = [r \in Requests |-> NoToken]
  /\ seen = [r \in Requests |-> {}]
  /\ held = [r \in Requests |-> {}]

Goto(r, l) == pc' = [pc EXCEPT ![r] = l]

\* Mutant: the session stays open, with the rows it has locked.
FailUnclosed(r) ==
  /\ Goto(r, "idle")
  /\ UNCHANGED <<tables, known, locals>>

\* An exception: get_db closes the session, which rolls back.
Fail(r) ==
  /\ held' = [held EXCEPT ![r] = {}]
  /\ Goto(r, "failed")
  /\ UNCHANGED <<tables, known, actor, token, seen>>

Unissued == {t \in Tokens : issuer[t] = NoRequest}

\* Bound: a request that issues a token may start only while one is left.
RoomForAnother ==
  Cardinality({q \in Requests : pc[q] \in {"issue", "revoke", "reissue"}})
    < Cardinality(Unissued)

\* The row of a new token, in exchange for another or for none.
Store(r, t, exchanged) ==
  /\ owner' = [owner EXCEPT ![t] = actor[r]]
  /\ parent' = [parent EXCEPT ![t] = exchanged]
  /\ issuer' = [issuer EXCEPT ![t] = r]
  /\ token' = [token EXCEPT ![r] = t]
  /\ held' = [held EXCEPT ![r] = {}]
  /\ Goto(r, "answer")

\* login: the user is found, the password is right, the address verified.
BeginLogin(r, u) ==
  /\ pc[r] = "idle"
  /\ RoomForAnother
  /\ u \in users
  /\ actor' = [actor EXCEPT ![r] = u]
  /\ Goto(r, "issue")
  /\ UNCHANGED <<tables, known, token, seen, held>>

\* login: the insert and the commit, refused if the user is gone.
Issue(r) ==
  /\ pc[r] = "issue"
  /\ UserRowFree(r)
  /\ \/ /\ actor[r] \in users
        /\ \E t \in Unissued : Store(r, t, NoToken)
        /\ UNCHANGED <<users, revoked, loggedOut, known, actor, seen>>
     \/ /\ actor[r] \notin users
        /\ Fail(r)

\* Mutant: the SELECT without its condition on revoked.
BeginRefreshOfAny(r, t) ==
  /\ pc[r] = "idle"
  /\ RoomForAnother
  /\ t \in known /\ Stored(t)
  /\ actor' = [actor EXCEPT ![r] = owner[t]]
  /\ token' = [token EXCEPT ![r] = t]
  /\ Goto(r, "revoke")
  /\ UNCHANGED <<tables, known, seen, held>>

\* refresh_tokens: a client presents a token; the SELECT finds it unrevoked.
BeginRefresh(r, t) ==
  /\ pc[r] = "idle"
  /\ RoomForAnother
  /\ t \in known /\ Stored(t) /\ t \notin revoked
  /\ actor' = [actor EXCEPT ![r] = owner[t]]
  /\ token' = [token EXCEPT ![r] = t]
  /\ Goto(r, "revoke")
  /\ UNCHANGED <<tables, known, seen, held>>

\* Mutant: a commit where the code flushes.
RevokeAndCommit(r) ==
  /\ pc[r] = "revoke"
  /\ token[r] \notin LockedByOthers(r)
  /\ revoked' = revoked \cup ({token[r]} \cap {t \in Tokens : Stored(t)})
  /\ Goto(r, IF Stored(token[r]) THEN "reissue" ELSE "failed")
  /\ UNCHANGED held
  /\ UNCHANGED <<users, owner, parent, issuer, loggedOut, known, actor, token, seen>>

\* refresh_tokens: the flush of revoked = True waits for the lock of the row.
\* It is an UPDATE by id: what the row has become meanwhile is overwritten,
\* and a row that is gone raises.
Revoke(r) ==
  /\ pc[r] = "revoke"
  /\ token[r] \notin LockedByOthers(r)
  /\ \/ /\ Stored(token[r])
        /\ held' = [held EXCEPT ![r] = {token[r]}]
        /\ Goto(r, "reissue")
        /\ UNCHANGED <<tables, known, actor, token, seen>>
     \/ /\ ~ Stored(token[r])
        /\ Fail(r)

\* Mutant: the token just made is the one marked.
ReissueRevoked(r) ==
  /\ pc[r] = "reissue"
  /\ UserRowFree(r)
  /\ \E t \in Unissued :
       /\ Store(r, t, token[r])
       /\ revoked' = revoked \cup {t}
  /\ UNCHANGED <<users, loggedOut, known, actor, seen>>

\* refresh_tokens: the user is read, the new token inserted, and both changes
\* committed; the insert refers to the user.  That the user may be missing
\* (404) is a state the locked row excludes: see RefreshFindsUser.
Reissue(r) ==
  /\ pc[r] = "reissue"
  /\ UserRowFree(r)
  /\ \E t \in Unissued : Store(r, t, token[r])
  /\ revoked' = revoked \cup {token[r]}
  /\ UNCHANGED <<users, loggedOut, known, actor, seen>>

\* logout: the SELECT finds the token unrevoked.
BeginLogout(r, t) ==
  /\ pc[r] = "idle"
  /\ t \in known /\ Stored(t) /\ t \notin revoked
  /\ actor' = [actor EXCEPT ![r] = owner[t]]
  /\ token' = [token EXCEPT ![r] = t]
  /\ Goto(r, "logout")
  /\ UNCHANGED <<tables, known, seen, held>>

\* Mutant: an UPDATE that hits no row is taken for a success.
LogoutUnchecked(r) ==
  /\ pc[r] = "logout"
  /\ token[r] \notin LockedByOthers(r)
  /\ revoked' = revoked \cup {token[r]}
  /\ loggedOut' = loggedOut \cup {token[r]}
  /\ Goto(r, "done")
  /\ UNCHANGED <<users, owner, parent, issuer, known, locals>>

\* logout: the UPDATE and the commit.
Logout(r) ==
  /\ pc[r] = "logout"
  /\ token[r] \notin LockedByOthers(r)
  /\ \/ /\ Stored(token[r])
        /\ revoked' = revoked \cup {token[r]}
        /\ loggedOut' = loggedOut \cup {token[r]}
        /\ Goto(r, "done")
        /\ UNCHANGED <<users, owner, parent, issuer, known, locals>>
     \/ /\ ~ Stored(token[r])
        /\ Fail(r)

\* delete_account: the DELETE on refresh_tokens starts with the rows it sees.
BeginDelete(r, u) ==
  /\ pc[r] = "idle"
  /\ u \in users
  /\ actor' = [actor EXCEPT ![r] = u]
  /\ seen' = [seen EXCEPT ![r] = RowsOf(u)]
  /\ Goto(r, "deleteTokens")
  /\ UNCHANGED <<tables, known, token, held>>

\* The DELETE locks one more of its rows; for a row that another transaction
\* has locked it waits.
LockRow(r) ==
  /\ pc[r] = "deleteTokens"
  /\ \E t \in Wanted(r) \ LockedByOthers(r) : held' = [held EXCEPT ![r] = @ \cup {t}]
  /\ UNCHANGED <<tables, known, pc, actor, token, seen>>

\* It ends when it has all rows that it saw and that are still there.
DeleteTokens(r) ==
  /\ pc[r] = "deleteTokens"
  /\ Wanted(r) = {}
  /\ seen' = [seen EXCEPT ![r] = {}]
  /\ Goto(r, "lockUser")
  /\ UNCHANGED <<tables, known, actor, token, held>>

\* The DELETE on users locks the row of the user first.
LockUser(r) ==
  /\ pc[r] = "lockUser"
  /\ UserRowFree(r)
  /\ Goto(r, "deleteUser")
  /\ UNCHANGED <<tables, known, locals>>

\* What the commit of a deletion changes.
RemoveAccount(r) ==
  /\ users' = users \ {actor[r]}
  /\ owner' = [t \in Tokens |-> IF t \in held[r] THEN NoUser ELSE owner[t]]
  /\ revoked' = revoked \ held[r]
  /\ held' = [held EXCEPT ![r] = {}]
  /\ Goto(r, "done")
  /\ UNCHANGED <<parent, issuer, loggedOut, known, actor, token, seen>>

\* Mutant: no foreign key on refresh_tokens.user_id.
DeleteUserUnchecked(r) ==
  /\ pc[r] = "deleteUser"
  /\ RemoveAccount(r)

\* It then looks for tokens that refer to the user: one inserted since, unless
\* another deletion has it locked, is a foreign key error.  With none left it
\* is done, and delete_account commits.
DeleteUser(r) ==
  /\ pc[r] = "deleteUser"
  /\ \/ /\ Wanted(r) = {}
        /\ RemoveAccount(r)
     \/ /\ Wanted(r) \ LockedByOthers(r) # {}
        /\ Fail(r)

\* A row of another table that references the user (module Messaging) fails
\* the DELETE on users too: here that may happen at any time.
RefuseDelete(r) ==
  /\ pc[r] = "deleteUser"
  /\ Fail(r)

-----------------------------------------------------------------------------

Reset(r) ==
  /\ Goto(r, "idle")
  /\ actor' = [actor EXCEPT ![r] = NoUser]
  /\ token' = [token EXCEPT ![r] = NoToken]
  /\ seen' = [seen EXCEPT ![r] = {}]
  /\ held' = [held EXCEPT ![r] = {}]
  /\ UNCHANGED tables

\* The answer reaches the client and the session is closed.
Finish(r) ==
  /\ pc[r] \in {"answer", "done", "failed"}
  /\ known' = IF pc[r] = "answer" THEN known \cup {token[r]} ELSE known
  /\ Reset(r)

\* PostgreSQL aborts one of the transactions in a deadlock, whichever notices;
\* its request fails with a 500.
BreakDeadlock(r) ==
  /\ Deadlocked(r)
  /\ Fail(r)

\* The worker dies or is replaced: what is not committed is rolled back, and
\* an answer that has not left never does.
Crash(r) ==
  /\ pc[r] # "idle"
  /\ Reset(r)
  /\ UNCHANGED known

Step(r) ==
  \/ Issue(r)
  \/ Revoke(r)
  \/ Reissue(r)
  \/ Logout(r)
  \/ LockRow(r)
  \/ DeleteTokens(r)
  \/ LockUser(r)
  \/ DeleteUser(r)
  \/ Finish(r)

Next ==
  \E r \in Requests :
    \/ \E u \in Users : BeginLogin(r, u) \/ BeginDelete(r, u)
    \/ \E t \in Tokens : BeginRefresh(r, t) \/ BeginLogout(r, t)
    \/ Step(r)
    \/ RefuseDelete(r)
    \/ BreakDeadlock(r)
    \/ Crash(r)

\* The event loop resumes every coroutine that can go on; PostgreSQL grants
\* row locks in turn and looks for deadlocks.
Fairness == \A r \in Requests : SF_vars(Step(r)) /\ WF_vars(BreakDeadlock(r))

Spec == Init /\ [][Next]_vars

FairSpec == Spec /\ Fairness

-----------------------------------------------------------------------------

PCs == {"idle", "issue", "revoke", "reissue", "logout", "deleteTokens",
        "lockUser", "deleteUser", "answer", "done", "failed"}

\* Every variable stays in its type; only stored tokens are revoked.
TypeOK ==
  /\ users \subseteq Users
  /\ owner \in [Tokens -> Users \cup {NoUser}]
  /\ revoked \subseteq {t \in Tokens : Stored(t)}
  /\ known \subseteq Tokens
  /\ parent \in [Tokens -> Tokens \cup {NoToken}]
  /\ issuer \in [Tokens -> Requests \cup {NoRequest}]
  /\ loggedOut \subseteq Tokens
  /\ pc \in [Requests -> PCs]
  /\ actor \in [Requests -> Users \cup {NoUser}]
  /\ token \in [Requests -> Tokens \cup {NoToken}]
  /\ seen \in [Requests -> SUBSET Tokens]
  /\ held \in [Requests -> SUBSET {t \in Tokens : Stored(t)}]

\* delete_account leaves no token behind: however its DELETE interleaves with
\* logins and refreshes of the same user, no token outlives its user.
TokensHaveUsers == \A t \in Tokens : Stored(t) => owner[t] \in users

\* Between the flush that revokes a token and the commit that replaces it, the
\* row lock keeps the user from being deleted: the 404 of refresh_tokens
\* cannot happen.
RefreshFindsUser ==
  \A r \in Requests : pc[r] = "reissue" => actor[r] \in users

\* A token is used up only by the commit that replaces it or by a logout:
\* whatever fails or crashes on the way, a client does not lose its session.
RefreshIsAllOrNothing ==
  \A t \in revoked : t \in loggedOut \/ \E s \in Tokens : parent[s] = t

\* Two tokens in exchange for one are due to requests that ran at the same
\* time: once an exchange is committed, the token is refused.
DoubleUseComesFromRaces ==
  \A s, t \in Tokens :
    s # t /\ parent[s] = parent[t] /\ parent[s] # NoToken => issuer[s] # issuer[t]

\* The token that login and refresh_tokens return is good when it is sent,
\* unless the account is gone by then.
NewTokenIsUsable ==
  \A r \in Requests : pc[r] = "answer" /\ actor[r] \in users =>
    owner[token[r]] = actor[r] /\ token[r] \notin revoked

Exchanging(t) ==
  \E r \in Requests : pc[r] \in {"revoke", "reissue"} /\ token[r] = t

\* Logout is final: of a token that it has revoked, only a refresh that had
\* looked it up before can still make a new one.  Nothing that comes later, not
\* a crash or a rollback and not the deletion of the row, brings it back.
LogoutSticks ==
  [][\A t \in loggedOut : ~ Exchanging(t) => ~ Exchanging(t)']_vars

Promise == INSTANCE Sessions WITH
  accounts <- users,
  holder <- owner,
  spent <- revoked,
  ended <- loggedOut,
  given <- Tokens \ Unissued,
  origin <- parent,
  presented <- [r \in Requests |->
                  IF pc[r] \in {"revoke", "reissue"} THEN token[r] ELSE NoToken]

\* Whatever the interleaving, and wherever a worker dies, signing in, exchanging
\* a token, signing out and closing an account look as if each were done in one
\* instant: what a token was exchanged for is stored when it is revoked, and an
\* account goes with all of its tokens.
ImplementsSessions == Promise!Spec

\* Every request comes back.  Two deletions of one account that lock its tokens
\* in different orders, or one that has the account and one that has a token
\* issued meanwhile, wait for each other; neither waits for good.
EveryRequestReturns ==
  \A r \in Requests : pc[r] # "idle" ~> pc[r] = "idle"

=============================================================================
