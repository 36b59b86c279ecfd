------------------------------ MODULE Accounts ------------------------------
(***************************************************************************)
(* The rows of users and the requests that read and write them: the        *)
(* routes of app/api/v1/users.py, login, verify_email, change_password     *)
(* and delete_account of app/services/auth_service.py, and an upload, each *)
(* with get_current_user and a database session that takes its connection  *)
(* from the pool of app/db/session.py.                                     *)
(*                                                                         *)
(* A session reads a row once: later SELECTs tell whether the row is still *)
(* there, but leave the columns of the object as they were first read.     *)
(* What it writes at the commit are the columns whose value was changed.   *)
(* The commit gives the connection back; without one, the end of the       *)
(* session does.  Codes and refresh tokens are in other modules.           *)
(***************************************************************************)
EXTENDS Naturals, FiniteSets

CONSTANTS
  Users,     \* accounts that have been registered
  Requests,  \* requests that can be in progress at the same time
  Values,    \* of columns; 1 is true in is_active
  MaxPool,   \* bound on the connections of the pool
  NoUser, NoQuestion

ASSUME AccountsAssumption ==
  {0, 1} \subseteq Values /\ MaxPool \in Nat \ {0} /\ NoUser \notin Users

VARIABLES
  users,     \* rows of users
  row,       \* their columns
  signedIn,  \* users to whom an access token has been sent
  pool,      \* connections that the engine opens at most
  pc,        \* where each request is
  kind,      \* what it is
  actor,     \* the user it is for
  body,      \* the columns it is to set
  given,     \* the password in it
  read       \* the columns it has read that matter to it

tables == <<users, row>>
locals == <<kind, actor, body, given, read>>
vars == <<tables, signedIn, pool, pc, locals>>

Profile == {"name", "avatar"}

Columns == Profile \cup {"password", "active", "login"}

Kinds == {"login", "verify", "me", "lookup", "update", "change", "upload", "delete"}

Nothing == [c \in {} |-> c]

Set(c, v) == [d \in {c} |-> v]

\* The columns whose values a request uses or answers.
Uses(k) ==
  CASE k \in {"me", "lookup", "update"} -> Profile
    [] k = "login"                      -> {"password", "active"}
    [] k = "change"                     -> {"password"}
    [] k = "verify"                     -> {"active"}
    [] OTHER                            -> {}

Init ==
  /\ users = Users
  /\ row = [u \in Users |-> [c \in Columns |-> 0]]
  /\ signedIn = {}
  /\ pool \in 1 .. MaxPool
  /\ pc = [r \in Requests |-> "idle"]
  /\ kind = [r \in Requests |-> "none"]
  /\ actor = [r \in Requests |-> NoUser]
  /\ body = [r \in Requests |-> Nothing]
  /\ given = [r \in Requests |-> 0]
  /\ read = [r \in Requests |-> Nothing]

Goto(r, l) == pc' = [pc EXCEPT ![r] = l]

Begin(r, k, u, b, password) ==
  /\ pc[r] = "idle"
  /\ kind' = [kind EXCEPT ![r] = k]
  /\ actor' = [actor EXCEPT ![r] = u]
  /\ body' = [body EXCEPT ![r] = b]
  /\ given' = [given EXCEPT ![r] = password]
  /\ Goto(r, "connect")
  /\ UNCHANGED <<tables, signedIn, pool, read>>

\* POST /auth/login.  Its time stamp v may be that of another login.
BeginLogin(r, u) ==
  \E password, v \in Values : Begin(r, "login", u, Set("login", v), password)

\* POST /auth/verify-email, with a code of the user (module Registration).
BeginVerify(r, u) == Begin(r, "verify", u, Set("active", 1), 0)

\* PATCH /users/me: either column may be left out.
BeginUpdate(r, u) ==
  /\ u \in signedIn
  /\ \E C \in SUBSET Profile : \E b \in [C -> Values] : Begin(r, "update", u, b, 0)

\* POST /users/me/change-password
BeginChange(r, u) ==
  /\ u \in signedIn
  /\ \E old, new \in Values : Begin(r, "change", u, Set("password", new), old)

\* GET /users/me, GET /users/{id} of oneself, POST /upload, DELETE /users/me
BeginOther(r, u) ==
  /\ u \in signedIn
  /\ \E k \in {"me", "lookup", "upload", "delete"} : Begin(r, k, u, Nothing, 0)

-----------------------------------------------------------------------------

\* Requests whose session has a connection.
Connected ==
  {r \in Requests : pc[r] \in {"reread", "commit", "upload", "delete", "read", "failed"}}

Fail(r) ==
  /\ Goto(r, "failed")
  /\ UNCHANGED <<tables, signedIn, pool, locals>>

Advance(r, l) ==
  /\ Goto(r, l)
  /\ UNCHANGED <<tables, signedIn, pool, locals>>

AfterRead(r) ==
  CASE kind[r] \in {"login", "verify", "update"} -> "commit"
    [] kind[r] \in {"lookup", "change"}          -> "reread"
    [] kind[r] = "me"                            -> "read"
    [] OTHER                                     -> kind[r]

\* login compares the password and requires a verified address.
Admitted(r) ==
  LET columns == row[actor[r]] IN
  kind[r] = "login" => columns["password"] = given[r] /\ columns["active"] = 1

\* Mutant: a connection is opened however many there are.
ConnectUnbounded(r) ==
  /\ pc[r] = "connect"
  /\ \/ /\ actor[r] \in users /\ Admitted(r)
        /\ read' = [read EXCEPT ![r] = [c \in Uses(kind[r]) |-> row[actor[r]][c]]]
        /\ Goto(r, AfterRead(r))
        /\ UNCHANGED <<tables, signedIn, pool, kind, actor, body, given>>
     \/ ~ (actor[r] \in users /\ Admitted(r)) /\ Fail(r)

\* The first statement waits for a connection and reads the row: for an
\* access token that is get_current_user, which refuses when there is none.
Connect(r) ==
  /\ pc[r] = "connect"
  /\ Cardinality(Connected) < pool
  /\ \/ /\ actor[r] \in users /\ Admitted(r)
        /\ read' = [read EXCEPT ![r] = [c \in Uses(kind[r]) |-> row[actor[r]][c]]]
        /\ Goto(r, AfterRead(r))
        /\ UNCHANGED <<tables, signedIn, pool, kind, actor, body, given>>
     \/ ~ (actor[r] \in users /\ Admitted(r)) /\ Fail(r)

\* get_user and change_password read the row again, which only shows that it
\* is there; the current password is compared with the column read before.  The
\* new one may still be too short.
Reread(r) ==
  /\ pc[r] = "reread"
  /\ \/ actor[r] \notin users /\ Fail(r)
     \/ actor[r] \in users /\ kind[r] = "lookup" /\ Advance(r, "read")
     \/ kind[r] = "change" /\ Fail(r)
     \/ /\ actor[r] \in users /\ kind[r] = "change"
        /\ given[r] = read[r]["password"]
        /\ Advance(r, "commit")

\* The columns that the UPDATE is of.  A password is always one: its hash is
\* salted, so that of the same password is another.
Dirty(r) ==
  {c \in DOMAIN body[r] :
     c = "password" \/ c \notin DOMAIN read[r] \/ body[r][c] # read[r][c]}

\* Mutant: the UPDATE writes the columns of the object as it is.
CommitObject(r) ==
  /\ pc[r] = "commit"
  /\ actor[r] \in users
  /\ row' = [row EXCEPT ![actor[r]] =
               [c \in Columns |->
                  CASE c \in DOMAIN body[r] -> body[r][c]
                    [] c \in DOMAIN read[r] \ DOMAIN body[r] -> read[r][c]
                    [] OTHER -> @[c]]]
  /\ Goto(r, "answered")
  /\ UNCHANGED <<users, signedIn, pool, locals>>

\* The UPDATE by id and the commit.  Nothing is sent for an object that has
\* not changed; an UPDATE that finds no row raises, and so does the refresh
\* token of a login (module RefreshTokens).
Commit(r) ==
  /\ pc[r] = "commit"
  /\ \/ /\ Dirty(r) = {} \/ actor[r] \in users
        /\ row' = [row EXCEPT ![actor[r]] =
                     [c \in Columns |-> IF c \in Dirty(r) THEN body[r][c] ELSE @[c]]]
        /\ Goto(r, "answered")
        /\ UNCHANGED <<users, signedIn, pool, locals>>
     \/ Dirty(r) # {} /\ actor[r] \notin users /\ Fail(r)

\* Mutant: a second session is opened beside that of get_current_user.
UploadBySecondSession(r) ==
  /\ pc[r] = "upload"
  /\ Cardinality(Connected) < pool
  /\ Advance(r, "read")

\* upload_file: the file is read, checked and written while the session of
\* get_current_user keeps its connection; or it is too large.
Upload(r) ==
  /\ pc[r] = "upload"
  /\ Advance(r, "read") \/ Fail(r)

\* delete_account, which other tables may refuse (module Messaging).
DeleteAccount(r) ==
  /\ pc[r] = "delete"
  /\ \/ Fail(r)
     \/ /\ actor[r] \in users
        /\ users' = users \ {actor[r]}
        /\ Goto(r, "answered")
        /\ UNCHANGED <<row, signedIn, pool, locals>>

Reset(r) ==
  /\ Goto(r, "idle")
  /\ kind' = [kind EXCEPT ![r] = "none"]
  /\ actor' = [actor EXCEPT ![r] = NoUser]
  /\ body' = [body EXCEPT ![r] = Nothing]
  /\ given' = [given EXCEPT ![r] = 0]
  /\ read' = [read EXCEPT ![r] = Nothing]
  /\ UNCHANGED <<tables, pool>>

\* The session is closed and the answer leaves; that of a login has a token.
Finish(r) ==
  /\ pc[r] \in {"read", "answered", "failed"}
  /\ signedIn' = IF pc[r] = "answered" /\ kind[r] = "login"
                 THEN signedIn \cup {actor[r]} ELSE signedIn
  /\ Reset(r)

\* The worker dies or is replaced.
Crash(r) ==
  /\ pc[r] # "idle"
  /\ Reset(r)
  /\ UNCHANGED signedIn

\* pool_timeout: no connection came free in 30 seconds.
TimeOut(r) ==
  /\ pc[r] = "connect"
  /\ Cardinality(Connected) >= pool
  /\ Reset(r)
  /\ UNCHANGED signedIn

Step(r) ==
  \/ Connect(r)
  \/ Reread(r)
  \/ Commit(r)
  \/ Upload(r)
  \/ DeleteAccount(r)
  \/ Finish(r)

Next ==
  \E r \in Requests :
    \/ \E u \in Users :
         \/ BeginLogin(r, u)
         \/ BeginVerify(r, u)
         \/ BeginUpdate(r, u)
         \/ BeginChange(r, u)
         \/ BeginOther(r, u)
    \/ Step(r)
    \/ Crash(r)
    \/ TimeOut(r)

Spec == Init /\ [][Next]_vars

\* The event loop resumes every coroutine that can go on, and the pool gives
\* connections to those who wait in turn.  Nobody has to wait for a timeout.
FairSpec == Spec /\ \A r \in Requests : SF_vars(Step(r))

-----------------------------------------------------------------------------

PCs == {"idle", "connect", "reread", "commit", "upload", "delete", "read",
        "answered", "failed"}

PartialRows == UNION {[C -> Values] : C \in SUBSET Columns}

\* Every variable stays in its type, an object in a session has the columns it
\* was read with, and there are no more connections than the pool may open.
TypeOK ==
  /\ users \subseteq Users
  /\ row \in [Users -> [Columns -> Values]]
  /\ signedIn \subseteq Users
  /\ pool \in 1 .. MaxPool
  /\ pc \in [Requests -> PCs]
  /\ kind \in [Requests -> Kinds \cup {"none"}]
  /\ actor \in [Requests -> Users \cup {NoUser}]
  /\ body \in [Requests -> PartialRows]
  /\ given \in [Requests -> Values]
  /\ read \in [Requests -> PartialRows]
  /\ Cardinality(Connected) <= pool

\* Requests that ask something and have not failed.
Asking(r) == pc[r] \notin {"idle", "failed"} /\ kind[r] \notin {"upload", "delete"}

HasRead(r) == Asking(r) /\ pc[r] # "connect"

\* What the columns that a request reads have to be for it to succeed.
Expected(r) ==
  CASE kind[r] = "login"  -> [c \in {"password", "active"} |->
                                IF c = "active" THEN 1 ELSE given[r]]
    [] kind[r] = "change" -> Set("password", given[r])
    [] OTHER              -> Nothing

\* Columns that are read and not overwritten in the object.
Asked(r) == IF kind[r] = "change" THEN {"password"} ELSE Uses(kind[r]) \ DOMAIN body[r]

Question(r) ==
  IF Asking(r)
  THEN [user |-> actor[r], reads |-> Asked(r), expects |-> Expected(r), writes |-> body[r]]
  ELSE NoQuestion

Saw(r) == IF HasRead(r) THEN [c \in Asked(r) |-> read[r][c]] ELSE Nothing

\* Setting a column to the value it had when it was read is done then.
Did(r) ==
  {c \in DOMAIN body[r] : HasRead(r) /\ (pc[r] = "answered" \/ c \notin Dirty(r))}

Store == INSTANCE ColumnStore WITH
  accounts <- users,
  asked <- [r \in Requests |-> Question(r)],
  saw <- [r \in Requests |-> Saw(r)],
  did <- [r \in Requests |-> Did(r)],
  answered <- {r \in Requests : Asking(r) /\ pc[r] \in {"read", "answered"}}

ASSUME NoQuestionAssumption == NoQuestion \notin Store!Questions

\* Column by column, requests are atomic: although an object is read, changed
\* and written back in different statements, and not written when it seems
\* unchanged, each column in an answer was read or written at an instant of
\* the request, no column is reverted by a request that sets another, and
\* whoever signs in or changes the password knew the one of such an instant.
ImplementsColumnStore == Store!Spec

\* Every request comes back without waiting for a timeout: none that has a
\* connection waits for another.
EveryRequestReturns ==
  \A r \in Requests : pc[r] # "idle" ~> pc[r] = "idle"

=============================================================================
