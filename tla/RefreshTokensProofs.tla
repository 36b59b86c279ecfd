------------------------ MODULE RefreshTokensProofs ------------------------
(***************************************************************************)
(* Safety of refresh tokens, proved for any numbers of users, tokens and   *)
(* requests.                                                               *)
(***************************************************************************)
EXTENDS RefreshTokens, TLAPS

\* Nothing refers to a token before it is issued.
UnissuedIsNew ==
  \A t \in Tokens : issuer[t] = NoRequest =>
    /\ ~ Stored(t) /\ parent[t] = NoToken /\ t \notin known
    /\ \A s \in Tokens : parent[s] # t
    /\ \A r \in Requests : token[r] # t /\ t \notin seen[r]

\* A request that works on a token works for its owner, and a client had it.
InFlight ==
  \A r \in Requests : pc[r] \in {"revoke", "reissue", "logout"} =>
    /\ token[r] \in known
    /\ Stored(token[r]) => owner[token[r]] = actor[r]

\* Between flush and commit a request has the row of its token locked; only it
\* and the deletions hold rows.
Held ==
  \A r \in Requests :
    /\ pc[r] = "reissue" => held[r] = {token[r]}
    /\ pc[r] \notin {"reissue", "deleteTokens", "lockUser", "deleteUser"} => held[r] = {}

\* A deletion has only seen and locked rows of its user.
SeenIsOwn ==
  \A r \in Requests : pc[r] \in {"deleteTokens", "lockUser", "deleteUser"} =>
    \A t \in seen[r] \cup held[r] : Stored(t) => owner[t] = actor[r]

\* A row is locked by one request at a time.
LocksExclude ==
  \A r, q \in Requests : r # q => held[r] \cap held[q] = {}

\* A token that has been exchanged is revoked or gone.
ExchangedIsRevoked ==
  \A s \in Tokens : parent[s] \in Tokens /\ Stored(parent[s]) => parent[s] \in revoked

\* A request that is going to exchange a token has not done it before.
PendingIsFresh ==
  \A r \in Requests : pc[r] \in {"revoke", "reissue"} =>
    \A s \in Tokens : parent[s] = token[r] => issuer[s] # r

\* A token about to be sent is sent once, by one request.
AnswersDiffer ==
  \A r \in Requests : pc[r] = "answer" =>
    /\ token[r] \in Tokens \ known
    /\ \A q \in Requests : q # r /\ pc[q] = "answer" => token[q] # token[r]

IInv ==
  /\ TypeOK
  /\ UnissuedIsNew
  /\ InFlight
  /\ Held
  /\ SeenIsOwn
  /\ LocksExclude
  /\ ExchangedIsRevoked
  /\ PendingIsFresh
  /\ AnswersDiffer
  /\ TokensHaveUsers
  /\ RefreshFindsUser
  /\ RefreshIsAllOrNothing
  /\ DoubleUseComesFromRaces
  /\ NewTokenIsUsable

\* What waiting for a lock obtains: nobody else has the row.
LEMMA LockIsFree ==
  ASSUME NEW r \in Requests, pc[r] # "deleteUser", NEW t, t \notin LockedByOthers(r)
  PROVE  \A q \in Requests \ {r} : t \notin held[q]
  BY DEF LockedByOthers, Blocking, Locks

\* What a deletion that comes through has locked.
LEMMA NothingWanted ==
  ASSUME NEW r \in Requests, pc[r] = "deleteUser", Wanted(r) = {}
  PROVE  RowsOf(actor[r]) \subseteq held[r]
  BY DEF Wanted

\* A request that fails changes nothing but where it stands.
LEMMA FailKeeps ==
  ASSUME IInv, NEW r \in Requests, Fail(r)
  PROVE  IInv'
<1>1. TypeOK'
  BY DEF IInv, TypeOK, Fail, Goto, Stored, PCs, tables
<1>2. ExchangedIsRevoked' /\ TokensHaveUsers' /\ RefreshIsAllOrNothing' /\ DoubleUseComesFromRaces'
  BY DEF IInv, ExchangedIsRevoked, TokensHaveUsers, RefreshIsAllOrNothing,
    DoubleUseComesFromRaces, Stored, tables, Fail
<1>3. UnissuedIsNew'
  BY DEF IInv, TypeOK, UnissuedIsNew, Fail, Goto, Stored, tables
<1>4. InFlight'
  BY DEF IInv, TypeOK, InFlight, Fail, Goto, Stored, tables
<1>5. Held'
  BY DEF IInv, TypeOK, Held, Fail, Goto, Stored, tables
<1>6. SeenIsOwn'
  BY DEF IInv, TypeOK, SeenIsOwn, Fail, Goto, Stored, tables
<1>7. LocksExclude'
  BY DEF IInv, TypeOK, LocksExclude, Fail, Goto, Stored, tables
<1>8. PendingIsFresh'
  BY DEF IInv, TypeOK, PendingIsFresh, Fail, Goto, Stored, tables
<1>9. AnswersDiffer'
  BY DEF IInv, TypeOK, AnswersDiffer, Fail, Goto, Stored, tables
<1>10. RefreshFindsUser'
  BY DEF IInv, TypeOK, RefreshFindsUser, Fail, Goto, Stored, tables
<1>11. NewTokenIsUsable'
  BY DEF IInv, TypeOK, NewTokenIsUsable, Fail, Goto, Stored, tables
<1> QED
  BY <1>1, <1>2, <1>3, <1>4, <1>5, <1>6, <1>7, <1>8, <1>9, <1>10, <1>11 DEF IInv

\* A login starts with a user that is there.
LEMMA BeginLoginKeeps ==
  ASSUME IInv, NEW r \in Requests, NEW u \in Users, BeginLogin(r, u)
  PROVE  IInv'
<1>1. TypeOK'
  BY DEF IInv, TypeOK, BeginLogin, Goto, Stored, PCs, tables
<1>2. ExchangedIsRevoked' /\ TokensHaveUsers' /\ RefreshIsAllOrNothing' /\ DoubleUseComesFromRaces'
  BY DEF IInv, ExchangedIsRevoked, TokensHaveUsers, RefreshIsAllOrNothing,
    DoubleUseComesFromRaces, Stored, tables, BeginLogin
<1>3. UnissuedIsNew'
  BY DEF IInv, TypeOK, UnissuedIsNew, BeginLogin, Goto, Stored, tables
<1>4. InFlight'
  BY DEF IInv, TypeOK, InFlight, BeginLogin, Goto, Stored, tables
<1>5. Held'
  BY DEF IInv, TypeOK, Held, BeginLogin, Goto, Stored, tables
<1>6. SeenIsOwn'
  BY DEF IInv, TypeOK, SeenIsOwn, BeginLogin, Goto, Stored, tables
<1>7. LocksExclude'
  BY DEF IInv, TypeOK, LocksExclude, BeginLogin, Goto, Stored, tables
<1>8. PendingIsFresh'
  BY DEF IInv, TypeOK, PendingIsFresh, BeginLogin, Goto, Stored, tables
<1>9. AnswersDiffer'
  BY DEF IInv, TypeOK, AnswersDiffer, BeginLogin, Goto, Stored, tables
<1>10. RefreshFindsUser'
  BY DEF IInv, TypeOK, RefreshFindsUser, BeginLogin, Goto, Stored, tables
<1>11. NewTokenIsUsable'
  BY DEF IInv, TypeOK, NewTokenIsUsable, BeginLogin, Goto, Stored, tables
<1> QED
  BY <1>1, <1>2, <1>3, <1>4, <1>5, <1>6, <1>7, <1>8, <1>9, <1>10, <1>11 DEF IInv

\* A login inserts a token nobody has, for a user that is there.
LEMMA IssueKeeps ==
  ASSUME IInv, NEW r \in Requests, Issue(r)
  PROVE  IInv'
<1>0. CASE Fail(r)
  BY <1>0, FailKeeps
<1> SUFFICES ASSUME ~ Fail(r)
             PROVE  IInv'
  BY <1>0
<1>t. PICK t \in Tokens : issuer[t] = NoRequest /\ Store(r, t, NoToken)
  BY DEF Issue, Unissued
<1>u. /\ pc[r] = "issue" /\ actor[r] \in users
      /\ UNCHANGED <<users, revoked, loggedOut, known, actor, seen>>
  BY DEF Issue
<1>v. /\ owner[t] = NoUser /\ parent[t] = NoToken /\ t \notin known /\ t \notin revoked
      /\ \A s \in Tokens : parent[s] # t
      /\ \A q \in Requests : token[q] # t /\ t \notin seen[q]
  BY <1>t DEF IInv, TypeOK, UnissuedIsNew, Stored
<1>w. actor[r] \in Users /\ actor[r] # NoUser
  BY <1>u, SentinelsAssumption DEF IInv, TypeOK
<1>1. TypeOK'
  BY <1>t, <1>u, <1>v, <1>w, SentinelsAssumption DEF IInv, TypeOK, Store, Goto,
    Stored, PCs
<1>2. UnissuedIsNew'
  BY <1>t, <1>u, <1>v, <1>w, SentinelsAssumption DEF IInv, TypeOK, UnissuedIsNew,
    Store, Goto, Stored
<1>3. InFlight'
  BY <1>t, <1>u, <1>v, <1>w, SentinelsAssumption DEF IInv, TypeOK, InFlight,
    Store, Goto, Stored
<1>4. Held'
  BY <1>t, <1>u, <1>v, <1>w, SentinelsAssumption DEF IInv, TypeOK, Held, Store,
    Goto, Stored, RefreshFindsUser, TokensHaveUsers
<1>5. SeenIsOwn'
  BY <1>t, <1>u, <1>v, <1>w, SentinelsAssumption DEF IInv, TypeOK, SeenIsOwn,
    Store, Goto, Stored
<1>6. LocksExclude'
  BY <1>t, <1>u, <1>v, <1>w, SentinelsAssumption DEF IInv, TypeOK, LocksExclude,
    Store, Goto, Stored
<1>7. ExchangedIsRevoked'
  BY <1>t, <1>u, <1>v, <1>w, SentinelsAssumption DEF IInv, TypeOK,
    ExchangedIsRevoked, Store, Goto, Stored
<1>8. PendingIsFresh'
  BY <1>t, <1>u, <1>v, <1>w, SentinelsAssumption DEF IInv, TypeOK, PendingIsFresh,
    Store, Goto, Stored
<1>9. AnswersDiffer'
  BY <1>t, <1>u, <1>v, <1>w, SentinelsAssumption DEF IInv, TypeOK, AnswersDiffer,
    Store, Goto, Stored
<1>10. TokensHaveUsers'
  BY <1>t, <1>u, <1>v, <1>w, SentinelsAssumption DEF IInv, TypeOK,
    TokensHaveUsers, Store, Goto, Stored
<1>11. RefreshFindsUser'
  BY <1>t, <1>u, <1>v, <1>w, SentinelsAssumption DEF IInv, TypeOK,
    RefreshFindsUser, Store, Goto, Stored
<1>12. RefreshIsAllOrNothing'
  BY <1>t, <1>u, <1>v, <1>w, SentinelsAssumption DEF IInv, TypeOK,
    RefreshIsAllOrNothing, Store, Goto, Stored
<1>13. DoubleUseComesFromRaces'
  BY <1>t, <1>u, <1>v, <1>w, SentinelsAssumption DEF IInv, TypeOK,
    DoubleUseComesFromRaces, Store, Goto, Stored
<1>14. NewTokenIsUsable'
  BY <1>t, <1>u, <1>v, <1>w, SentinelsAssumption DEF IInv, TypeOK,
    NewTokenIsUsable, Store, Goto, Stored, RefreshFindsUser, TokensHaveUsers
<1> QED
  BY <1>1, <1>2, <1>3, <1>4, <1>5, <1>6, <1>7, <1>8, <1>9, <1>10, <1>11, <1>12,
    <1>13, <1>14 DEF IInv

\* A refresh starts with a token that is not revoked, hence not exchanged yet.
LEMMA BeginRefreshKeeps ==
  ASSUME IInv, NEW r \in Requests, NEW t \in Tokens, BeginRefresh(r, t)
  PROVE  IInv'
<1>1. TypeOK'
  BY DEF IInv, TypeOK, BeginRefresh, Goto, Stored, PCs, tables
<1>2. ExchangedIsRevoked' /\ TokensHaveUsers' /\ RefreshIsAllOrNothing' /\ DoubleUseComesFromRaces'
  BY DEF IInv, ExchangedIsRevoked, TokensHaveUsers, RefreshIsAllOrNothing,
    DoubleUseComesFromRaces, Stored, tables, BeginRefresh
<1>3. UnissuedIsNew'
  BY DEF IInv, TypeOK, UnissuedIsNew, BeginRefresh, Goto, Stored, tables
<1>4. InFlight'
  BY DEF IInv, TypeOK, InFlight, BeginRefresh, Goto, Stored, tables
<1>5. Held'
  BY DEF IInv, TypeOK, Held, BeginRefresh, Goto, Stored, tables
<1>6. SeenIsOwn'
  BY DEF IInv, TypeOK, SeenIsOwn, BeginRefresh, Goto, Stored, tables
<1>7. LocksExclude'
  BY DEF IInv, TypeOK, LocksExclude, BeginRefresh, Goto, Stored, tables
<1>8. PendingIsFresh'
  BY DEF IInv, TypeOK, PendingIsFresh, BeginRefresh, Goto, Stored, tables,
    ExchangedIsRevoked
<1>9. AnswersDiffer'
  BY DEF IInv, TypeOK, AnswersDiffer, BeginRefresh, Goto, Stored, tables
<1>10. RefreshFindsUser'
  BY DEF IInv, TypeOK, RefreshFindsUser, BeginRefresh, Goto, Stored, tables
<1>11. NewTokenIsUsable'
  BY DEF IInv, TypeOK, NewTokenIsUsable, BeginRefresh, Goto, Stored, tables
<1> QED
  BY <1>1, <1>2, <1>3, <1>4, <1>5, <1>6, <1>7, <1>8, <1>9, <1>10, <1>11 DEF IInv

\* The flush takes the lock of the row, which nobody else has.
LEMMA RevokeKeeps ==
  ASSUME IInv, NEW r \in Requests, Revoke(r)
  PROVE  IInv'
<1>0. CASE Fail(r)
  BY <1>0, FailKeeps
<1> SUFFICES ASSUME ~ Fail(r)
             PROVE  IInv'
  BY <1>0
<1>1. TypeOK'
  BY DEF IInv, TypeOK, InFlight, Revoke, Goto, Stored, PCs, tables
<1>2. ExchangedIsRevoked' /\ TokensHaveUsers' /\ RefreshIsAllOrNothing' /\ DoubleUseComesFromRaces'
  BY DEF IInv, ExchangedIsRevoked, TokensHaveUsers, RefreshIsAllOrNothing,
    DoubleUseComesFromRaces, Stored, tables, Revoke
<1>3. UnissuedIsNew'
  BY DEF IInv, TypeOK, UnissuedIsNew, Revoke, Goto, Stored, tables
<1>4. InFlight'
  BY DEF IInv, TypeOK, InFlight, Revoke, Goto, Stored, tables
<1>5. Held'
  BY DEF IInv, TypeOK, Held, Revoke, Goto, Stored, tables
<1>6. SeenIsOwn'
  BY DEF IInv, TypeOK, SeenIsOwn, Revoke, Goto, Stored, tables
<1>7. LocksExclude'
  BY LockIsFree DEF IInv, TypeOK, LocksExclude, Revoke, Goto
<1>8. PendingIsFresh'
  BY DEF IInv, TypeOK, PendingIsFresh, Revoke, Goto, Stored, tables
<1>9. AnswersDiffer'
  BY DEF IInv, TypeOK, AnswersDiffer, Revoke, Goto, Stored, tables
<1>10. RefreshFindsUser'
  BY DEF IInv, TypeOK, RefreshFindsUser, Revoke, Goto, Stored, tables,
    TokensHaveUsers, InFlight
<1>11. NewTokenIsUsable'
  BY DEF IInv, TypeOK, NewTokenIsUsable, Revoke, Goto, Stored, tables
<1> QED
  BY <1>1, <1>2, <1>3, <1>4, <1>5, <1>6, <1>7, <1>8, <1>9, <1>10, <1>11 DEF IInv

\* The commit of an exchange: the old token is revoked, the new one is stored.
LEMMA ReissueKeeps ==
  ASSUME IInv, NEW r \in Requests, Reissue(r)
  PROVE  IInv'
<1>t. PICK t \in Tokens : issuer[t] = NoRequest /\ Store(r, t, token[r])
  BY DEF Reissue, Unissued
<1>u. /\ pc[r] = "reissue" /\ revoked' = revoked \cup {token[r]}
      /\ UNCHANGED <<users, loggedOut, known, actor, seen>>
  BY DEF Reissue
<1>v. /\ owner[t] = NoUser /\ parent[t] = NoToken /\ t \notin known /\ t \notin revoked
      /\ \A s \in Tokens : parent[s] # t
      /\ \A q \in Requests : token[q] # t /\ t \notin seen[q]
  BY <1>t DEF IInv, TypeOK, UnissuedIsNew, Stored
<1>w. /\ actor[r] \in users /\ actor[r] \in Users /\ actor[r] # NoUser
      /\ token[r] \in Tokens /\ Stored(token[r])
  BY <1>u, SentinelsAssumption DEF IInv, TypeOK, RefreshFindsUser, Held, InFlight
<1>1. TypeOK'
  BY <1>t, <1>u, <1>v, <1>w, SentinelsAssumption DEF IInv, TypeOK, Store, Goto,
    Stored, PCs
<1>2. UnissuedIsNew'
  BY <1>t, <1>u, <1>v, <1>w, SentinelsAssumption DEF IInv, TypeOK, UnissuedIsNew,
    Store, Goto, Stored
<1>3. InFlight'
  BY <1>t, <1>u, <1>v, <1>w, SentinelsAssumption DEF IInv, TypeOK, InFlight,
    Store, Goto, Stored
<1>4. Held'
  BY <1>t, <1>u, <1>v, <1>w, SentinelsAssumption DEF IInv, TypeOK, Held, Store,
    Goto, Stored, RefreshFindsUser, TokensHaveUsers
<1>5. SeenIsOwn'
  BY <1>t, <1>u, <1>v, <1>w, SentinelsAssumption DEF IInv, TypeOK, SeenIsOwn,
    Store, Goto, Stored
<1>6. LocksExclude'
  BY <1>t, <1>u, <1>v, <1>w, SentinelsAssumption DEF IInv, TypeOK, LocksExclude,
    Store, Goto, Stored
<1>7. ExchangedIsRevoked'
  BY <1>t, <1>u, <1>v, <1>w, SentinelsAssumption DEF IInv, TypeOK,
    ExchangedIsRevoked, Store, Goto, Stored
<1>8. PendingIsFresh'
  BY <1>t, <1>u, <1>v, <1>w, SentinelsAssumption DEF IInv, TypeOK, PendingIsFresh,
    Store, Goto, Stored
<1>9. AnswersDiffer'
  BY <1>t, <1>u, <1>v, <1>w, SentinelsAssumption DEF IInv, TypeOK, AnswersDiffer,
    Store, Goto, Stored
<1>10. TokensHaveUsers'
  BY <1>t, <1>u, <1>v, <1>w, SentinelsAssumption DEF IInv, TypeOK,
    TokensHaveUsers, Store, Goto, Stored
<1>11. RefreshFindsUser'
  BY <1>t, <1>u, <1>v, <1>w, SentinelsAssumption DEF IInv, TypeOK,
    RefreshFindsUser, Store, Goto, Stored
<1>12. RefreshIsAllOrNothing'
  BY <1>t, <1>u, <1>v, <1>w, SentinelsAssumption DEF IInv, TypeOK,
    RefreshIsAllOrNothing, Store, Goto, Stored
<1>13. DoubleUseComesFromRaces'
  BY <1>t, <1>u, <1>v, <1>w, SentinelsAssumption DEF IInv, TypeOK, PendingIsFresh,
    DoubleUseComesFromRaces, Store, Goto, Stored
<1>14. NewTokenIsUsable'
  BY <1>t, <1>u, <1>v, <1>w, SentinelsAssumption DEF IInv, TypeOK, InFlight,
    AnswersDiffer, NewTokenIsUsable, Store, Goto, Stored, RefreshFindsUser,
    TokensHaveUsers
<1> QED
  BY <1>1, <1>2, <1>3, <1>4, <1>5, <1>6, <1>7, <1>8, <1>9, <1>10, <1>11, <1>12,
    <1>13, <1>14 DEF IInv

\* A logout starts with a token that is not revoked.
LEMMA BeginLogoutKeeps ==
  ASSUME IInv, NEW r \in Requests, NEW t \in Tokens, BeginLogout(r, t)
  PROVE  IInv'
<1>1. TypeOK'
  BY DEF IInv, TypeOK, BeginLogout, Goto, Stored, PCs, tables
<1>2. ExchangedIsRevoked' /\ TokensHaveUsers' /\ RefreshIsAllOrNothing' /\ DoubleUseComesFromRaces'
  BY DEF IInv, ExchangedIsRevoked, TokensHaveUsers, RefreshIsAllOrNothing,
    DoubleUseComesFromRaces, Stored, tables, BeginLogout
<1>3. UnissuedIsNew'
  BY DEF IInv, TypeOK, UnissuedIsNew, BeginLogout, Goto, Stored, tables
<1>4. InFlight'
  BY DEF IInv, TypeOK, InFlight, BeginLogout, Goto, Stored, tables
<1>5. Held'
  BY DEF IInv, TypeOK, Held, BeginLogout, Goto, Stored, tables
<1>6. SeenIsOwn'
  BY DEF IInv, TypeOK, SeenIsOwn, BeginLogout, Goto, Stored, tables
<1>7. LocksExclude'
  BY DEF IInv, TypeOK, LocksExclude, BeginLogout, Goto, Stored, tables
<1>8. PendingIsFresh'
  BY DEF IInv, TypeOK, PendingIsFresh, BeginLogout, Goto, Stored, tables
<1>9. AnswersDiffer'
  BY DEF IInv, TypeOK, AnswersDiffer, BeginLogout, Goto, Stored, tables
<1>10. RefreshFindsUser'
  BY DEF IInv, TypeOK, RefreshFindsUser, BeginLogout, Goto, Stored, tables
<1>11. NewTokenIsUsable'
  BY DEF IInv, TypeOK, NewTokenIsUsable, BeginLogout, Goto, Stored, tables
<1> QED
  BY <1>1, <1>2, <1>3, <1>4, <1>5, <1>6, <1>7, <1>8, <1>9, <1>10, <1>11 DEF IInv

\* A logout revokes a token that a client has, not one about to be sent.
LEMMA LogoutKeeps ==
  ASSUME IInv, NEW r \in Requests, Logout(r)
  PROVE  IInv'
<1>0. CASE Fail(r)
  BY <1>0, FailKeeps
<1> SUFFICES ASSUME ~ Fail(r)
             PROVE  IInv'
  BY <1>0
<1>1. TypeOK'
  <2>1. token[r] \in Tokens /\ Stored(token[r])
    BY DEF IInv, TypeOK, InFlight, Logout
  <2> QED
    BY <2>1 DEF IInv, TypeOK, Logout, Goto, Stored, locals, PCs
<1>2. UnissuedIsNew'
  BY DEF IInv, TypeOK, UnissuedIsNew, Logout, Goto, Stored, locals
<1>3. InFlight'
  BY DEF IInv, TypeOK, InFlight, Logout, Goto, Stored, locals
<1>4. Held'
  BY DEF IInv, TypeOK, Held, Logout, Goto, Stored, locals
<1>5. SeenIsOwn'
  BY DEF IInv, TypeOK, SeenIsOwn, Logout, Goto, Stored, locals
<1>6. LocksExclude'
  BY DEF IInv, TypeOK, LocksExclude, Logout, Goto, Stored, locals
<1>7. ExchangedIsRevoked'
  BY DEF IInv, TypeOK, ExchangedIsRevoked, Logout, Goto, Stored, locals
<1>8. PendingIsFresh'
  BY DEF IInv, TypeOK, PendingIsFresh, Logout, Goto, Stored, locals
<1>9. AnswersDiffer'
  BY DEF IInv, TypeOK, AnswersDiffer, Logout, Goto, Stored, locals
<1>10. TokensHaveUsers'
  BY DEF IInv, TypeOK, TokensHaveUsers, Logout, Goto, Stored, locals
<1>11. RefreshFindsUser'
  BY DEF IInv, TypeOK, RefreshFindsUser, Logout, Goto, Stored, locals
<1>12. RefreshIsAllOrNothing'
  BY DEF IInv, TypeOK, RefreshIsAllOrNothing, Logout, Goto, Stored, locals
<1>13. DoubleUseComesFromRaces'
  BY DEF IInv, TypeOK, DoubleUseComesFromRaces, Logout, Goto, Stored, locals
<1>14. NewTokenIsUsable'
  BY DEF IInv, TypeOK, NewTokenIsUsable, Logout, Goto, Stored, locals, AnswersDiffer,
    InFlight
<1> QED
  BY <1>1, <1>2, <1>3, <1>4, <1>5, <1>6, <1>7, <1>8, <1>9, <1>10, <1>11, <1>12,
    <1>13, <1>14 DEF IInv

\* A deletion starts with the rows of its user.
LEMMA BeginDeleteKeeps ==
  ASSUME IInv, NEW r \in Requests, NEW u \in Users, BeginDelete(r, u)
  PROVE  IInv'
<1>1. TypeOK'
  BY DEF IInv, TypeOK, BeginDelete, Goto, Stored, PCs, tables, RowsOf
<1>2. ExchangedIsRevoked' /\ TokensHaveUsers' /\ RefreshIsAllOrNothing' /\ DoubleUseComesFromRaces'
  BY DEF IInv, ExchangedIsRevoked, TokensHaveUsers, RefreshIsAllOrNothing,
    DoubleUseComesFromRaces, Stored, tables, BeginDelete
<1>3. UnissuedIsNew'
  BY SentinelsAssumption DEF IInv, TypeOK, UnissuedIsNew, BeginDelete, Goto,
    Stored, tables, RowsOf
<1>4. InFlight'
  BY DEF IInv, TypeOK, InFlight, BeginDelete, Goto, Stored, tables
<1>5. Held'
  BY DEF IInv, TypeOK, Held, BeginDelete, Goto, Stored, tables
<1>6. SeenIsOwn'
  BY DEF IInv, TypeOK, Held, SeenIsOwn, BeginDelete, Goto, Stored, tables, RowsOf
<1>7. LocksExclude'
  BY DEF IInv, TypeOK, LocksExclude, BeginDelete, Goto, Stored, tables
<1>8. PendingIsFresh'
  BY DEF IInv, TypeOK, PendingIsFresh, BeginDelete, Goto, Stored, tables
<1>9. AnswersDiffer'
  BY DEF IInv, TypeOK, AnswersDiffer, BeginDelete, Goto, Stored, tables
<1>10. RefreshFindsUser'
  BY DEF IInv, TypeOK, RefreshFindsUser, BeginDelete, Goto, Stored, tables
<1>11. NewTokenIsUsable'
  BY DEF IInv, TypeOK, NewTokenIsUsable, BeginDelete, Goto, Stored, tables
<1> QED
  BY <1>1, <1>2, <1>3, <1>4, <1>5, <1>6, <1>7, <1>8, <1>9, <1>10, <1>11 DEF IInv

\* A deletion locks a row that nobody else has locked, and changes nothing else.
LEMMA LockRowKeeps ==
  ASSUME IInv, NEW r \in Requests, LockRow(r)
  PROVE  IInv'
<1>1. PICK t \in Wanted(r) \ LockedByOthers(r) : held' = [held EXCEPT ![r] = @ \cup {t}]
  BY DEF LockRow
<1>2. pc[r] = "deleteTokens" /\ UNCHANGED <<tables, known, pc, actor, token, seen>>
  BY DEF LockRow
<1>3. t \in seen[r] /\ Stored(t) /\ \A q \in Requests \ {r} : t \notin held[q]
  BY <1>1, <1>2, LockIsFree DEF Wanted
<1>4. TypeOK'
  BY <1>1, <1>2, <1>3 DEF IInv, TypeOK, tables, Stored
<1>5. Held' /\ SeenIsOwn' /\ LocksExclude'
  BY <1>1, <1>2, <1>3 DEF IInv, TypeOK, Held, SeenIsOwn, LocksExclude, tables, Stored
<1>6. UnissuedIsNew' /\ ExchangedIsRevoked' /\ DoubleUseComesFromRaces' /\ InFlight' /\ PendingIsFresh'
  BY <1>2 DEF IInv, UnissuedIsNew, ExchangedIsRevoked, DoubleUseComesFromRaces,
    InFlight, PendingIsFresh, tables, Stored
<1>7. /\ AnswersDiffer' /\ RefreshFindsUser' /\ NewTokenIsUsable'
      /\ TokensHaveUsers' /\ RefreshIsAllOrNothing'
  BY <1>2 DEF IInv, AnswersDiffer, RefreshFindsUser, NewTokenIsUsable, TokensHaveUsers,
    RefreshIsAllOrNothing, tables, Stored
<1> QED
  BY <1>4, <1>5, <1>6, <1>7 DEF IInv

\* The lock on the user.
LEMMA LockUserKeeps ==
  ASSUME IInv, NEW r \in Requests, LockUser(r)
  PROVE  IInv'
<1> USE DEF LockUser, Goto, tables, locals, Stored
<1>1. TypeOK' /\ Held' /\ SeenIsOwn' /\ LocksExclude'
  BY DEF IInv, TypeOK, PCs, Held, SeenIsOwn, LocksExclude
<1>2. UnissuedIsNew' /\ ExchangedIsRevoked' /\ DoubleUseComesFromRaces'
  BY DEF IInv, UnissuedIsNew, ExchangedIsRevoked, DoubleUseComesFromRaces
<1>3. InFlight' /\ PendingIsFresh'
  BY DEF IInv, TypeOK, InFlight, PendingIsFresh
<1>4. AnswersDiffer' /\ RefreshFindsUser' /\ NewTokenIsUsable'
  BY DEF IInv, TypeOK, AnswersDiffer, RefreshFindsUser, NewTokenIsUsable
<1>5. TokensHaveUsers' /\ RefreshIsAllOrNothing'
  BY DEF IInv, TokensHaveUsers, RefreshIsAllOrNothing
<1> QED
  BY <1>1, <1>2, <1>3, <1>4, <1>5 DEF IInv

\* The DELETE ends.
LEMMA DeleteTokensKeeps ==
  ASSUME IInv, NEW r \in Requests, DeleteTokens(r)
  PROVE  IInv'
<1>1. TypeOK'
  BY DEF IInv, TypeOK, DeleteTokens, Goto, Stored, PCs, tables
<1>2. ExchangedIsRevoked' /\ TokensHaveUsers' /\ RefreshIsAllOrNothing' /\ DoubleUseComesFromRaces'
  BY DEF IInv, ExchangedIsRevoked, TokensHaveUsers, RefreshIsAllOrNothing,
    DoubleUseComesFromRaces, Stored, tables, DeleteTokens
<1>3. UnissuedIsNew'
  BY DEF IInv, TypeOK, UnissuedIsNew, DeleteTokens, Goto, Stored, tables
<1>4. InFlight'
  BY DEF IInv, TypeOK, InFlight, DeleteTokens, Goto, Stored, tables
<1>5. Held'
  BY DEF IInv, TypeOK, Held, DeleteTokens, Goto, Stored, tables
<1>6. SeenIsOwn'
  BY DEF IInv, TypeOK, SeenIsOwn, DeleteTokens, Goto, Stored, tables
<1>7. LocksExclude'
  BY DEF IInv, TypeOK, LocksExclude, DeleteTokens
<1>8. PendingIsFresh'
  BY DEF IInv, TypeOK, PendingIsFresh, DeleteTokens, Goto, Stored, tables
<1>9. AnswersDiffer'
  BY DEF IInv, TypeOK, AnswersDiffer, DeleteTokens, Goto, Stored, tables
<1>10. RefreshFindsUser'
  BY DEF IInv, TypeOK, RefreshFindsUser, DeleteTokens, Goto, Stored, tables
<1>11. NewTokenIsUsable'
  BY DEF IInv, TypeOK, NewTokenIsUsable, DeleteTokens, Goto, Stored, tables
<1> QED
  BY <1>1, <1>2, <1>3, <1>4, <1>5, <1>6, <1>7, <1>8, <1>9, <1>10, <1>11 DEF IInv

\* The commit of a deletion: no row of the user is left, none is locked by a refresh.
LEMMA DeleteUserKeeps ==
  ASSUME IInv, NEW r \in Requests, DeleteUser(r)
  PROVE  IInv'
<1>0. CASE Fail(r)
  BY <1>0, FailKeeps
<1> SUFFICES ASSUME pc[r] = "deleteUser", RemoveAccount(r), RowsOf(actor[r]) \subseteq held[r]
             PROVE  IInv'
  BY <1>0, NothingWanted DEF DeleteUser
<1>1. TypeOK'
  BY DEF IInv, TypeOK, LocksExclude, RemoveAccount, RowsOf, Goto, Stored, PCs
<1>2. UnissuedIsNew'
  BY DEF IInv, TypeOK, UnissuedIsNew, RemoveAccount, RowsOf, Goto, Stored
<1>3. InFlight'
  BY DEF IInv, TypeOK, InFlight, RemoveAccount, RowsOf, Goto, Stored
<1>4. Held'
  BY DEF IInv, TypeOK, Held, RemoveAccount, Goto
<1>5. SeenIsOwn'
  BY DEF IInv, TypeOK, SeenIsOwn, RemoveAccount, RowsOf, Goto, Stored
<1>6. LocksExclude'
  BY DEF IInv, TypeOK, LocksExclude, RemoveAccount, RowsOf, Goto, Stored
<1>7. ExchangedIsRevoked'
  BY DEF IInv, TypeOK, ExchangedIsRevoked, RemoveAccount, RowsOf, Goto, Stored
<1>8. PendingIsFresh'
  BY DEF IInv, TypeOK, PendingIsFresh, RemoveAccount, RowsOf, Goto, Stored
<1>9. AnswersDiffer'
  BY DEF IInv, TypeOK, AnswersDiffer, RemoveAccount, RowsOf, Goto, Stored
<1>10. TokensHaveUsers'
  BY DEF IInv, TypeOK, TokensHaveUsers, RemoveAccount, RowsOf, Goto, Stored
<1>11. RefreshFindsUser'
  BY DEF IInv, TypeOK, RefreshFindsUser, RemoveAccount, RowsOf, Goto, Stored,
    LocksExclude, Held, InFlight
<1>12. RefreshIsAllOrNothing'
  BY DEF IInv, TypeOK, RefreshIsAllOrNothing, RemoveAccount, RowsOf, Goto, Stored
<1>13. DoubleUseComesFromRaces'
  BY DEF IInv, TypeOK, DoubleUseComesFromRaces, RemoveAccount, RowsOf, Goto, Stored
<1>14. NewTokenIsUsable'
  <2> SUFFICES ASSUME NEW q \in Requests, pc'[q] = "answer", actor'[q] \in users'
               PROVE  owner'[token'[q]] = actor'[q] /\ token'[q] \notin revoked'
    BY DEF NewTokenIsUsable
  <2>1. q # r /\ pc[q] = "answer" /\ token' = token /\ actor' = actor
    BY DEF IInv, TypeOK, RemoveAccount, Goto
  <2>2. /\ actor[q] \in users /\ actor[q] # actor[r] /\ actor[q] # NoUser
        /\ token[q] \in Tokens
    BY <2>1, SentinelsAssumption DEF IInv, TypeOK, AnswersDiffer, RemoveAccount
  <2>3. owner[token[q]] = actor[q] /\ token[q] \notin revoked
    BY <2>1, <2>2 DEF IInv, NewTokenIsUsable
  <2>4. token[q] \notin held[r]
    BY <2>2, <2>3 DEF IInv, SeenIsOwn, Stored
  <2> QED
    BY <2>1, <2>2, <2>3, <2>4 DEF RemoveAccount
<1> QED
  BY <1>1, <1>2, <1>3, <1>4, <1>5, <1>6, <1>7, <1>8, <1>9, <1>10, <1>11, <1>12,
    <1>13, <1>14 DEF IInv

\* An answer makes a token known that no other request is about to send.
LEMMA FinishKeeps ==
  ASSUME IInv, NEW r \in Requests, Finish(r)
  PROVE  IInv'
<1>1. TypeOK'
  <2>1. pc[r] = "answer" => token[r] \in Tokens
    BY DEF IInv, AnswersDiffer
  <2> QED
    BY <2>1 DEF IInv, TypeOK, Finish, Reset, Goto, Stored, PCs, tables
<1>2. ExchangedIsRevoked' /\ TokensHaveUsers' /\ RefreshIsAllOrNothing' /\ DoubleUseComesFromRaces'
  BY DEF IInv, ExchangedIsRevoked, TokensHaveUsers, RefreshIsAllOrNothing,
    DoubleUseComesFromRaces, Stored, tables, Finish, Reset
<1>3. UnissuedIsNew'
  BY DEF IInv, TypeOK, UnissuedIsNew, Finish, Reset, Goto, Stored, tables
<1>4. InFlight'
  BY DEF IInv, TypeOK, InFlight, Finish, Reset, Goto, Stored, tables
<1>5. Held'
  BY DEF IInv, TypeOK, Held, Finish, Reset, Goto, Stored, tables
<1>6. SeenIsOwn'
  BY DEF IInv, TypeOK, SeenIsOwn, Finish, Reset, Goto, Stored, tables
<1>7. LocksExclude'
  BY DEF IInv, TypeOK, LocksExclude, Finish, Reset, Goto, Stored, tables
<1>8. PendingIsFresh'
  BY DEF IInv, TypeOK, PendingIsFresh, Finish, Reset, Goto, Stored, tables
<1>9. AnswersDiffer'
  BY DEF IInv, TypeOK, AnswersDiffer, Finish, Reset, Goto, Stored, tables
<1>10. RefreshFindsUser'
  BY DEF IInv, TypeOK, RefreshFindsUser, Finish, Reset, Goto, Stored, tables
<1>11. NewTokenIsUsable'
  BY DEF IInv, TypeOK, NewTokenIsUsable, Finish, Reset, Goto, Stored, tables
<1> QED
  BY <1>1, <1>2, <1>3, <1>4, <1>5, <1>6, <1>7, <1>8, <1>9, <1>10, <1>11 DEF IInv

\* A crash leaves what is committed.
LEMMA CrashKeeps ==
  ASSUME IInv, NEW r \in Requests, Crash(r)
  PROVE  IInv'
<1>1. TypeOK'
  BY DEF IInv, TypeOK, Crash, Reset, Goto, Stored, PCs, tables
<1>2. ExchangedIsRevoked' /\ TokensHaveUsers' /\ RefreshIsAllOrNothing' /\ DoubleUseComesFromRaces'
  BY DEF IInv, ExchangedIsRevoked, TokensHaveUsers, RefreshIsAllOrNothing,
    DoubleUseComesFromRaces, Stored, tables, Crash, Reset
<1>3. UnissuedIsNew'
  BY DEF IInv, TypeOK, UnissuedIsNew, Crash, Reset, Goto, Stored, tables
<1>4. InFlight'
  BY DEF IInv, TypeOK, InFlight, Crash, Reset, Goto, Stored, tables
<1>5. Held'
  BY DEF IInv, TypeOK, Held, Crash, Reset, Goto, Stored, tables
<1>6. SeenIsOwn'
  BY DEF IInv, TypeOK, SeenIsOwn, Crash, Reset, Goto, Stored, tables
<1>7. LocksExclude'
  BY DEF IInv, TypeOK, LocksExclude, Crash, Reset, Goto, Stored, tables
<1>8. PendingIsFresh'
  BY DEF IInv, TypeOK, PendingIsFresh, Crash, Reset, Goto, Stored, tables
<1>9. AnswersDiffer'
  BY DEF IInv, TypeOK, AnswersDiffer, Crash, Reset, Goto, Stored, tables
<1>10. RefreshFindsUser'
  BY DEF IInv, TypeOK, RefreshFindsUser, Crash, Reset, Goto, Stored, tables
<1>11. NewTokenIsUsable'
  BY DEF IInv, TypeOK, NewTokenIsUsable, Crash, Reset, Goto, Stored, tables
<1> QED
  BY <1>1, <1>2, <1>3, <1>4, <1>5, <1>6, <1>7, <1>8, <1>9, <1>10, <1>11 DEF IInv

\* The first state.
LEMMA InitHolds == Init => IInv
<1> SUFFICES ASSUME Init
             PROVE  IInv
  OBVIOUS
<1>1. TypeOK
  BY SentinelsAssumption DEF Init, TypeOK, PCs, Stored
<1>2. UnissuedIsNew /\ ExchangedIsRevoked /\ DoubleUseComesFromRaces
  BY SentinelsAssumption DEF Init, UnissuedIsNew, ExchangedIsRevoked,
    DoubleUseComesFromRaces, Stored
<1>3. InFlight /\ Held /\ SeenIsOwn /\ LocksExclude /\ PendingIsFresh
      /\ AnswersDiffer /\ RefreshFindsUser /\ NewTokenIsUsable
  BY DEF Init, InFlight, Held, SeenIsOwn, LocksExclude, PendingIsFresh,
    AnswersDiffer, RefreshFindsUser, NewTokenIsUsable
<1>4. TokensHaveUsers /\ RefreshIsAllOrNothing
  BY DEF Init, TokensHaveUsers, RefreshIsAllOrNothing, Stored
<1> QED
  BY <1>1, <1>2, <1>3, <1>4 DEF IInv

\* One step per action.
LEMMA NextKeeps == IInv /\ [Next]_vars => IInv'
<1> SUFFICES ASSUME IInv, [Next]_vars
             PROVE  IInv'
  OBVIOUS
<1>1. ASSUME NEW r \in Requests, NEW u \in Users, BeginLogin(r, u)
      PROVE  IInv'
  BY <1>1, BeginLoginKeeps
<1>2. ASSUME NEW r \in Requests, NEW u \in Users, BeginDelete(r, u)
      PROVE  IInv'
  BY <1>2, BeginDeleteKeeps
<1>3. ASSUME NEW r \in Requests, NEW t \in Tokens, BeginRefresh(r, t)
      PROVE  IInv'
  BY <1>3, BeginRefreshKeeps
<1>4. ASSUME NEW r \in Requests, NEW t \in Tokens, BeginLogout(r, t)
      PROVE  IInv'
  BY <1>4, BeginLogoutKeeps
<1>5. ASSUME NEW r \in Requests, Step(r)
      PROVE  IInv'
  BY <1>5, IssueKeeps, RevokeKeeps, ReissueKeeps, LogoutKeeps, DeleteTokensKeeps,
    LockRowKeeps, LockUserKeeps, DeleteUserKeeps, FinishKeeps DEF Step
<1>6. ASSUME NEW r \in Requests, RefuseDelete(r) \/ BreakDeadlock(r) \/ Crash(r)
      PROVE  IInv'
  BY <1>6, FailKeeps, CrashKeeps DEF RefuseDelete, BreakDeadlock
<1>7. CASE UNCHANGED vars
  <2>1. TypeOK'
    BY <1>7 DEF IInv, TypeOK, vars, tables, locals, Stored
  <2>2. UnissuedIsNew' /\ ExchangedIsRevoked' /\ DoubleUseComesFromRaces'
    BY <1>7 DEF IInv, UnissuedIsNew, ExchangedIsRevoked, DoubleUseComesFromRaces,
      vars, tables, locals, Stored
  <2>3. InFlight' /\ Held' /\ SeenIsOwn' /\ LocksExclude' /\ PendingIsFresh'
    BY <1>7 DEF IInv, InFlight, Held, SeenIsOwn, LocksExclude, PendingIsFresh,
      vars, tables, locals, Stored
  <2>4. AnswersDiffer' /\ RefreshFindsUser' /\ NewTokenIsUsable'
    BY <1>7 DEF IInv, AnswersDiffer, RefreshFindsUser, NewTokenIsUsable, vars,
      tables, locals
  <2>5. TokensHaveUsers' /\ RefreshIsAllOrNothing'
    BY <1>7 DEF IInv, TokensHaveUsers, RefreshIsAllOrNothing, vars, tables, locals, Stored
  <2> QED
    BY <2>1, <2>2, <2>3, <2>4, <2>5 DEF IInv
<1> QED
  BY <1>1, <1>2, <1>3, <1>4, <1>5, <1>6, <1>7 DEF Next

-----------------------------------------------------------------------------

\* The strengthened invariant holds in every reachable state.
THEOREM Invariance == Spec => []IInv
  BY InitHolds, NextKeeps, PTL DEF Spec

\* Every variable stays in its type, and a revoked token has a row: an UPDATE
\* that hits no row is an error in refresh_tokens and logout alike.
THEOREM TypeCorrect == Spec => []TypeOK
<1>1. IInv => TypeOK
  BY DEF IInv
<1> QED
  BY <1>1, Invariance, PTL

\* No refresh token outlives the account it is for, however delete_account
\* interleaves with login and refresh_tokens.
THEOREM NoTokenOutlivesItsUser == Spec => []TokensHaveUsers
<1>1. IInv => TokensHaveUsers
  BY DEF IInv
<1> QED
  BY <1>1, Invariance, PTL

\* The 404 of refresh_tokens is dead code: the flushed update holds the row
\* that delete_account would have to delete first.
THEOREM RefreshNeverMissesUser == Spec => []RefreshFindsUser
<1>1. IInv => RefreshFindsUser
  BY DEF IInv
<1> QED
  BY <1>1, Invariance, PTL

\* A refresh that fails or crashes before its commit leaves the presented token
\* good: revocation and replacement are one transaction.
THEOREM RefreshIsAtomic == Spec => []RefreshIsAllOrNothing
<1>1. IInv => RefreshIsAllOrNothing
  BY DEF IInv
<1> QED
  BY <1>1, Invariance, PTL

\* A token is exchanged twice only by requests that overlap.
THEOREM DoubleUseNeedsOverlap == Spec => []DoubleUseComesFromRaces
<1>1. IInv => DoubleUseComesFromRaces
  BY DEF IInv
<1> QED
  BY <1>1, Invariance, PTL

\* What login and refresh_tokens answer with can be used.
THEOREM AnswersAreUsable == Spec => []NewTokenIsUsable
<1>1. IInv => NewTokenIsUsable
  BY DEF IInv
<1> QED
  BY <1>1, Invariance, PTL

-----------------------------------------------------------------------------

\* A token that is logged out has been a client's; its row is revoked or gone.
LoggedOutIsSpent ==
  \A t \in loggedOut : t \in known /\ (Stored(t) => t \in revoked)

\* Rows are revoked and deleted, never the reverse: an insert is of a token
\* that no client knows yet.
LEMMA SpentStaysSpent ==
  ASSUME IInv, LoggedOutIsSpent, [Next]_vars
  PROVE  LoggedOutIsSpent'
<1>1. CASE UNCHANGED <<owner, revoked, loggedOut>> /\ known \subseteq known'
  BY <1>1 DEF LoggedOutIsSpent, Stored
<1>2. ASSUME NEW r \in Requests, Issue(r) \/ Reissue(r), ~ Fail(r)
      PROVE  LoggedOutIsSpent'
  <2>1. PICK t \in Tokens :
          /\ issuer[t] = NoRequest
          /\ owner' = [owner EXCEPT ![t] = actor[r]]
          /\ revoked \subseteq revoked' /\ UNCHANGED <<loggedOut, known>>
    BY <1>2 DEF Issue, Reissue, Unissued, Store
  <2>2. t \notin loggedOut
    BY <2>1 DEF IInv, UnissuedIsNew, LoggedOutIsSpent
  <2> QED
    BY <2>1, <2>2 DEF IInv, TypeOK, LoggedOutIsSpent, Stored
<1>3. ASSUME NEW r \in Requests, Logout(r), ~ Fail(r)
      PROVE  LoggedOutIsSpent'
  <2>1. token[r] \in known
    BY <1>3 DEF IInv, InFlight, Logout
  <2> QED
    BY <1>3, <2>1 DEF LoggedOutIsSpent, Stored, Logout
<1>4. ASSUME NEW r \in Requests, DeleteUser(r), ~ Fail(r)
      PROVE  LoggedOutIsSpent'
  BY <1>4 DEF IInv, TypeOK, LoggedOutIsSpent, Stored, DeleteUser, RemoveAccount
<1>5. ASSUME NEW r \in Requests, Fail(r)
      PROVE  LoggedOutIsSpent'
  BY <1>1, <1>5 DEF Fail, tables
<1>6. CASE UNCHANGED vars
  BY <1>1, <1>6 DEF vars, tables
<1>7. CASE Next
  <2>1. PICK r \in Requests :
          \/ Issue(r) \/ Reissue(r) \/ Logout(r) \/ DeleteUser(r) \/ Fail(r)
          \/ UNCHANGED <<owner, revoked, loggedOut>> /\ known \subseteq known'
    BY <1>7 DEF Next, Step, BeginLogin, BeginDelete, BeginRefresh, BeginLogout,
      Revoke, LockRow, DeleteTokens, LockUser, RefuseDelete, BreakDeadlock, Finish,
      Crash, Reset, tables
  <2> QED
    BY <1>1, <1>2, <1>3, <1>4, <1>5, <2>1
<1> QED
  BY <1>6, <1>7

\* A token that is logged out is presented to no purpose: its SELECT finds
\* nothing, so that only a refresh that is past it can still exchange it.
THEOREM LogoutIsFinal == Spec => LogoutSticks
<1>1. Init => LoggedOutIsSpent
  BY DEF Init, LoggedOutIsSpent
<1>2. IInv /\ LoggedOutIsSpent /\ [Next]_vars => LoggedOutIsSpent'
  BY SpentStaysSpent
<1>3. ASSUME IInv, LoggedOutIsSpent, [Next]_vars, NEW t \in loggedOut, ~ Exchanging(t)
      PROVE  ~ Exchanging(t)'
  <2> SUFFICES ASSUME NEW q \in Requests, pc'[q] \in {"revoke", "reissue"}, token'[q] = t
               PROVE  FALSE
    BY DEF Exchanging
  <2>1. ~ (pc[q] \in {"revoke", "reissue"} /\ token[q] = t)
    BY <1>3 DEF Exchanging
  <2>2. t \in known /\ (Stored(t) => t \in revoked)
    BY <1>3 DEF LoggedOutIsSpent
  <2>3. CASE UNCHANGED vars
    BY <2>1, <2>3 DEF vars, locals
  <2>4. ASSUME NEW r \in Requests, NEW s \in Tokens, BeginRefresh(r, s)
        PROVE  FALSE
    BY <1>3, <2>1, <2>2, <2>4 DEF IInv, TypeOK, BeginRefresh, Goto
  <2>5. ASSUME NEW r \in Requests, \/ \E u \in Users : BeginLogin(r, u) \/ BeginDelete(r, u)
                                   \/ \E s \in Tokens : BeginLogout(r, s)
                                   \/ Step(r) /\ ~ Revoke(r)
                                   \/ RefuseDelete(r) \/ BreakDeadlock(r) \/ Crash(r)
        PROVE  FALSE
    <3>1. pc' = [pc EXCEPT ![r] = pc'[r]] /\ pc'[r] \notin {"revoke", "reissue"}
      BY <1>3, <2>5 DEF IInv, TypeOK, BeginLogin, BeginDelete, BeginLogout, Step, Issue,
        Reissue, Logout, LockRow, DeleteTokens, LockUser, DeleteUser, RemoveAccount,
        RefuseDelete, BreakDeadlock, Finish, Crash, Reset, Fail, Store, Goto
    <3>2. q # r => token'[q] = token[q]
      BY <1>3, <2>5 DEF IInv, TypeOK, BeginLogin, BeginDelete, BeginLogout, Step, Issue,
        Reissue, Logout, LockRow, DeleteTokens, LockUser, DeleteUser, RemoveAccount,
        RefuseDelete, BreakDeadlock, Finish, Crash, Reset, Fail, Store, locals
    <3> QED
      BY <1>3, <2>1, <3>1, <3>2 DEF IInv, TypeOK
  <2>6. ASSUME NEW r \in Requests, Revoke(r)
        PROVE  FALSE
    BY <1>3, <2>1, <2>6 DEF IInv, TypeOK, Revoke, Fail, Goto
  <2> QED
    BY <1>3, <2>3, <2>4, <2>5, <2>6 DEF Next
<1>4. IInv /\ LoggedOutIsSpent /\ [Next]_vars
        => [\A t \in loggedOut : ~ Exchanging(t) => ~ Exchanging(t)']_vars
  BY <1>3
<1> QED
  BY <1>1, <1>2, <1>4, Invariance, PTL DEF Spec, LogoutSticks

-----------------------------------------------------------------------------
(***************************************************************************)
(* Refinement.  A token is presented from the SELECT to the commit.        *)
(***************************************************************************)

Presented(r) == IF pc[r] \in {"revoke", "reissue"} THEN token[r] ELSE NoToken

\* What a step of one request leaves presented by the others.
LEMMA OthersPresent ==
  ASSUME NEW r \in Requests,
         \A q \in Requests \ {r} : pc'[q] = pc[q] /\ token'[q] = token[q]
  PROVE  [q \in Requests |-> Presented(q)]'
           = [[q \in Requests |-> Presented(q)] EXCEPT ![r] = Presented(r)']
<1>1. \A q \in Requests \ {r} : Presented(q)' = Presented(q)
  BY DEF Presented
<1> QED
  BY <1>1

\* A request that changes no row may present a token, give up, or neither.
LEMMA LocalMaps ==
  ASSUME IInv, NEW r \in Requests, UNCHANGED tables,
         \A q \in Requests \ {r} : pc'[q] = pc[q] /\ token'[q] = token[q],
         \/ Presented(r)' \in {Presented(r), NoToken}
         \/ /\ Presented(r) = NoToken
            /\ Presented(r)' \in {t \in Tokens : Stored(t) /\ t \notin revoked}
  PROVE  Promise!Next \/ UNCHANGED Promise!vars
<1>1. /\ UNCHANGED <<users, owner, revoked, parent, loggedOut>>
      /\ (Tokens \ Unissued)' = Tokens \ Unissued
  BY DEF tables, Unissued
<1>2. [q \in Requests |-> Presented(q)]'
        = [[q \in Requests |-> Presented(q)] EXCEPT ![r] = Presented(r)']
  BY OthersPresent
<1>3. CASE Presented(r)' = Presented(r)
  BY <1>1, <1>2, <1>3 DEF Promise!vars, Presented
<1>4. CASE Presented(r)' = NoToken
  <2>1. Promise!Withdraw(r)
    BY <1>1, <1>2, <1>4 DEF Promise!Withdraw, Presented
  <2> QED
    BY <2>1 DEF Promise!Next
<1>5. ASSUME Presented(r) = NoToken, NEW t \in Tokens, Stored(t), t \notin revoked,
             Presented(r)' = t
      PROVE  Promise!Next
  <2>1. Promise!Present(r, t)
    BY <1>1, <1>2, <1>5 DEF Promise!Present, Promise!InStore, Presented, Stored
  <2> QED
    BY <2>1 DEF Promise!Next
<1> QED
  BY <1>3, <1>4, <1>5

\* The insert gives a token that nobody has had.
LEMMA StoreGives ==
  ASSUME IInv, NEW r \in Requests, NEW t \in Unissued, NEW from, Store(r, t, from),
         actor[r] \in users
  PROVE  /\ Promise!Give(actor[r], t, from)
         /\ [q \in Requests |-> Presented(q)]'
              = [[q \in Requests |-> Presented(q)] EXCEPT ![r] = NoToken]
<1>1. /\ owner' = [owner EXCEPT ![t] = actor[r]]
      /\ parent' = [parent EXCEPT ![t] = from]
      /\ issuer' = [issuer EXCEPT ![t] = r]
      /\ token' = [token EXCEPT ![r] = t]
      /\ pc' = [pc EXCEPT ![r] = "answer"]
  BY DEF Store, Goto
<1>2. t \in Tokens /\ t \notin Tokens \ Unissued
  BY DEF Unissued
<1>3. (Tokens \ Unissued)' = (Tokens \ Unissued) \cup {t}
  BY <1>1, <1>2, SentinelsAssumption DEF Unissued, IInv, TypeOK
<1>4. Presented(r)' = NoToken /\ \A q \in Requests \ {r} : pc'[q] = pc[q] /\ token'[q] = token[q]
  BY <1>1 DEF Presented, IInv, TypeOK
<1> QED
  BY <1>1, <1>2, <1>3, <1>4, OthersPresent DEF Promise!Give

LEMMA IssueMaps ==
  ASSUME IInv, NEW r \in Requests, Issue(r)
  PROVE  Promise!Next \/ UNCHANGED Promise!vars
<1>1. CASE Fail(r)
  <2>1. /\ UNCHANGED tables /\ Presented(r)' = NoToken
        /\ \A q \in Requests \ {r} : pc'[q] = pc[q] /\ token'[q] = token[q]
    BY <1>1 DEF Fail, Goto, Presented, IInv, TypeOK
  <2> QED
    BY <2>1, LocalMaps
<1>2. ASSUME NEW t \in Unissued, Store(r, t, NoToken), actor[r] \in users,
             UNCHANGED <<users, revoked, loggedOut, known, actor, seen>>
      PROVE  Promise!Next
  <2>1. PICK u \in Users : u = actor[r]
    BY <1>2 DEF IInv, TypeOK
  <2>2. Promise!Give(u, t, NoToken) /\ t \in Tokens
    BY <1>2, <2>1, StoreGives DEF Unissued
  <2>3. Presented(r) = NoToken
    BY DEF Issue, Presented
  <2>4. [q \in Requests |-> Presented(q)]' = [q \in Requests |-> Presented(q)]
    BY <1>2, <2>3, StoreGives
  <2>5. Promise!SignIn(u, t)
    BY <1>2, <2>2, <2>4 DEF Promise!SignIn, Presented
  <2> QED
    BY <2>2, <2>5 DEF Promise!Next
<1> QED
  BY <1>1, <1>2 DEF Issue

LEMMA ReissueMaps ==
  ASSUME IInv, NEW r \in Requests, Reissue(r)
  PROVE  Promise!Next
<1>1. /\ pc[r] = "reissue" /\ Stored(token[r]) /\ token[r] \in Tokens
      /\ UNCHANGED <<users, loggedOut>>
  BY DEF Reissue, IInv, TypeOK, Held, InFlight
<1>2. PICK from \in Tokens : from = token[r]
  BY <1>1
<1>3. PICK t \in Unissued : Store(r, t, from)
  BY <1>2 DEF Reissue
<1>4. owner[from] = actor[r] /\ actor[r] \in users
  BY <1>1, <1>2 DEF IInv, InFlight, RefreshFindsUser
<1>5. Promise!Give(actor[r], t, from) /\ t \in Tokens
  BY <1>3, <1>4, StoreGives DEF Unissued
<1>6. [q \in Requests |-> Presented(q)]'
        = [[q \in Requests |-> Presented(q)] EXCEPT ![r] = NoToken]
  BY <1>3, <1>4, StoreGives
<1>7. Presented(r) = from /\ from # NoToken /\ revoked' = revoked \cup {from}
  BY <1>1, <1>2, SentinelsAssumption DEF Presented, Reissue
<1>8. Promise!Exchange(r, t)
  BY <1>1, <1>2, <1>4, <1>5, <1>6, <1>7
     DEF Promise!Exchange, Promise!InStore, Presented, Stored
<1> QED
  BY <1>5, <1>8 DEF Promise!Next

LEMMA LogoutMaps ==
  ASSUME IInv, NEW r \in Requests, Logout(r)
  PROVE  Promise!Next \/ UNCHANGED Promise!vars
<1>1. pc[r] = "logout" /\ Presented(r) = NoToken
  BY DEF Logout, Presented
<1>2. CASE Fail(r)
  <2>1. /\ UNCHANGED tables /\ Presented(r)' = NoToken
        /\ \A q \in Requests \ {r} : pc'[q] = pc[q] /\ token'[q] = token[q]
    BY <1>2 DEF Fail, Goto, Presented, IInv, TypeOK
  <2> QED
    BY <2>1, LocalMaps
<1>3. CASE ~ Fail(r)
  <2>1. /\ Stored(token[r]) /\ revoked' = revoked \cup {token[r]}
        /\ loggedOut' = loggedOut \cup {token[r]} /\ pc' = [pc EXCEPT ![r] = "done"]
        /\ UNCHANGED <<users, owner, parent, issuer, token>>
    BY <1>3 DEF Logout, Goto, locals
  <2>2. PICK t \in Tokens : t = token[r]
    BY <1>1 DEF IInv, TypeOK, InFlight
  <2>3. (Tokens \ Unissued)' = Tokens \ Unissued
    BY <2>1 DEF Unissued
  <2>4. Presented(r)' = NoToken /\ \A q \in Requests \ {r} : pc'[q] = pc[q] /\ token'[q] = token[q]
    BY <2>1 DEF Presented, IInv, TypeOK
  <2>5. [q \in Requests |-> Presented(q)]' = [q \in Requests |-> Presented(q)]
    BY <1>1, <2>4, OthersPresent
  <2>6. Promise!SignOut(t)
    BY <2>1, <2>2, <2>3, <2>5 DEF Promise!SignOut, Promise!InStore, Presented, Stored
  <2> QED
    BY <2>6 DEF Promise!Next
<1> QED
  BY <1>2, <1>3

\* The rows that the DELETE has locked are those of the user, all of them.
LEMMA DeleteUserMaps ==
  ASSUME IInv, NEW r \in Requests, DeleteUser(r)
  PROVE  Promise!Next \/ UNCHANGED Promise!vars
<1>1. pc[r] = "deleteUser" /\ Presented(r) = NoToken
  BY DEF DeleteUser, Presented
<1>2. CASE Fail(r)
  <2>1. /\ UNCHANGED tables /\ Presented(r)' = NoToken
        /\ \A q \in Requests \ {r} : pc'[q] = pc[q] /\ token'[q] = token[q]
    BY <1>2 DEF Fail, Goto, Presented, IInv, TypeOK
  <2> QED
    BY <2>1, LocalMaps
<1>3. CASE ~ Fail(r)
  <2> DEFINE u == actor[r]
  <2>1. /\ RowsOf(u) \subseteq held[r] /\ users' = users \ {u}
        /\ owner' = [t \in Tokens |-> IF t \in held[r] THEN NoUser ELSE owner[t]]
        /\ revoked' = revoked \ held[r] /\ pc' = [pc EXCEPT ![r] = "done"]
        /\ UNCHANGED <<parent, issuer, loggedOut, token>>
    BY <1>1, <1>3, NothingWanted DEF DeleteUser, RemoveAccount, Goto
  <2>2. \A t \in Tokens : t \in held[r] /\ Stored(t) => owner[t] = u
    BY <1>1 DEF IInv, SeenIsOwn
  <2>3. \A t \in Tokens : owner[t] = u => t \in held[r]
    BY <2>1 DEF RowsOf
  <2>4. owner' = [t \in Tokens |-> IF owner[t] = u THEN NoUser ELSE owner[t]]
    BY <2>1, <2>2, <2>3 DEF Stored
  <2>5. revoked' = {t \in revoked : owner[t] # u}
    <3>1. \A t \in revoked : t \in Tokens /\ Stored(t)
      BY DEF IInv, TypeOK
    <3> QED
      BY <2>1, <2>2, <2>3, <3>1
  <2>6. (Tokens \ Unissued)' = Tokens \ Unissued
    BY <2>1 DEF Unissued
  <2>7. Presented(r)' = NoToken /\ \A q \in Requests \ {r} : pc'[q] = pc[q] /\ token'[q] = token[q]
    BY <2>1 DEF Presented, IInv, TypeOK
  <2>8. [q \in Requests |-> Presented(q)]' = [q \in Requests |-> Presented(q)]
    BY <1>1, <2>7, OthersPresent
  <2>9. Promise!Close(u)
    BY <2>1, <2>4, <2>5, <2>6, <2>8 DEF Promise!Close, Presented
  <2>10. CASE u \in Users
    BY <2>9, <2>10 DEF Promise!Next
  <2>11. CASE u = NoUser
    <3>1. users' = users
      BY <2>1, <2>11, SentinelsAssumption DEF IInv, TypeOK
    <3>2. owner' = owner
      BY <2>4, <2>11 DEF IInv, TypeOK
    <3>3. revoked' = revoked
      BY <2>5, <2>11 DEF IInv, TypeOK, Stored
    <3> QED
      BY <2>1, <2>6, <2>8, <3>1, <3>2, <3>3 DEF Promise!vars, Presented
  <2> QED
    BY <2>10, <2>11 DEF IInv, TypeOK
<1> QED
  BY <1>2, <1>3

\* The steps that change no row.
LEMMA QuietMaps ==
  ASSUME IInv, NEW r \in Requests,
         \/ \E u \in Users : BeginLogin(r, u) \/ BeginDelete(r, u)
         \/ \E t \in Tokens : BeginRefresh(r, t) \/ BeginLogout(r, t)
         \/ Revoke(r) \/ LockRow(r) \/ DeleteTokens(r) \/ LockUser(r) \/ RefuseDelete(r)
         \/ BreakDeadlock(r) \/ Finish(r) \/ Crash(r)
  PROVE  Promise!Next \/ UNCHANGED Promise!vars
<1> USE DEF Goto
<1>1. UNCHANGED tables /\ \A q \in Requests \ {r} : pc'[q] = pc[q] /\ token'[q] = token[q]
  BY DEF BeginLogin, BeginDelete, BeginRefresh, BeginLogout, Revoke, Fail, LockRow,
         DeleteTokens, LockUser, RefuseDelete, BreakDeadlock, Finish, Crash, Reset, locals,
         IInv, TypeOK
<1>2. ASSUME NEW t \in Tokens, BeginRefresh(r, t)
      PROVE  /\ Presented(r) = NoToken /\ Presented(r)' = t
             /\ Stored(t) /\ t \notin revoked
  BY <1>2 DEF BeginRefresh, Presented, IInv, TypeOK
<1>3. CASE Revoke(r)
  <2>1. Presented(r)' \in {Presented(r), NoToken}
    BY <1>3 DEF Revoke, Fail, Presented, IInv, TypeOK
  <2> QED
    BY <1>1, <2>1, LocalMaps
<1>4. CASE \/ \E u \in Users : BeginLogin(r, u) \/ BeginDelete(r, u)
           \/ \E t \in Tokens : BeginLogout(r, t)
           \/ LockRow(r) \/ DeleteTokens(r) \/ LockUser(r) \/ RefuseDelete(r)
           \/ BreakDeadlock(r) \/ Finish(r) \/ Crash(r)
  <2>1. Presented(r)' = NoToken
    BY <1>4 DEF BeginLogin, BeginDelete, BeginLogout, LockRow, DeleteTokens, LockUser,
                RefuseDelete, BreakDeadlock, Fail, Finish, Crash, Reset, Presented, IInv,
                TypeOK
  <2> QED
    BY <1>1, <2>1, LocalMaps
<1> QED
  BY <1>1, <1>2, <1>3, <1>4, LocalMaps

\* RefreshTokens implements Sessions: each step of a request is one of the
\* promise, or leaves what it is about as it is.
THEOREM Refinement == Spec => ImplementsSessions
<1>1. Init => Promise!Init
  BY DEF Init, Promise!Init, Unissued
<1>2. IInv /\ [Next]_vars => [Promise!Next]_(Promise!vars)
  <2>1. ASSUME UNCHANGED vars
        PROVE  UNCHANGED Promise!vars
    BY <2>1 DEF vars, tables, locals, Promise!vars, Unissued
  <2>2. ASSUME IInv, Next
        PROVE  Promise!Next \/ UNCHANGED Promise!vars
    BY <2>2, IssueMaps, ReissueMaps, LogoutMaps, DeleteUserMaps, QuietMaps DEF Next, Step
  <2> QED
    BY <2>1, <2>2
<1> QED
  BY <1>1, <1>2, Invariance, PTL DEF Spec, ImplementsSessions, Promise!Spec

=============================================================================
